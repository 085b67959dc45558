--------------------------- MODULE AutomationProofs ---------------------------
(***************************************************************************)
(* Proofs about automations: the event pipeline, for every set of events,  *)
(* workflows and dispatchers, every attempt limit and every number of      *)
(* accidents; and the runs of a workflow, for every graph the contract     *)
(* accepts, every number of threads and runs and every bound.              *)
(***************************************************************************)
EXTENDS AutomationOutbox, AutomationRuns, SequenceTheorems,
        FiniteSetTheorems, WellFoundedInduction, TLAPS

-----------------------------------------------------------------------------
(* THE EVENT PIPELINE                                                      *)

-----------------------------------------------------------------------------
(* Types.                                                                  *)

LEMMA TypeInit == OutboxInit => OutboxTypeOK
  BY OutboxAssumption
  DEF OutboxInit, OutboxTypeOK, Statuses, Phases, InDispatch, Pairs

LEMMA TypeStep == OutboxTypeOK /\ [OutboxNext]_outboxVars => OutboxTypeOK'
<1>. SUFFICES ASSUME OutboxTypeOK, [OutboxNext]_outboxVars PROVE OutboxTypeOK'
  OBVIOUS
<1>. USE OutboxAssumption
     DEF OutboxTypeOK, Statuses, Phases, InDispatch, Pairs, NoAccident, call,
         entry
<1>1. ASSUME NEW e \in Events, Enqueue(e) \/ Ripen(e) PROVE OutboxTypeOK'
  BY <1>1 DEF Enqueue, Ripen
<1>2. ASSUME NEW e \in Events, NEW w \in Workflows, ClaimExpires(e, w)
      PROVE OutboxTypeOK'
  BY <1>2 DEF ClaimExpires
<1>3. ASSUME NEW w \in Workflows, Toggle(w) PROVE OutboxTypeOK'
  BY <1>3 DEF Toggle
<1>4. ASSUME NEW d \in Dispatchers, Step(d) PROVE OutboxTypeOK'
  <2>1. CASE Poll(d)
    BY <2>1 DEF Poll, DueRows
  <2>2. CASE CycleEnds(d)
    BY <2>2 DEF CycleEnds
  <2>3. ASSUME NEW e \in Events, Leave(d, e) PROVE OutboxTypeOK'
    BY <2>3 DEF Leave
  <2>4. ASSUME NEW e \in Events, Begin(d, e) PROVE OutboxTypeOK'
    BY <2>4 DEF Begin
  <2>5. CASE Select(d)
    BY <2>5 DEF Select
  <2>6. ASSUME NEW w \in Workflows, LookUp(d, w) PROVE OutboxTypeOK'
    BY <2>6 DEF LookUp
  <2>7. CASE ClaimGranted(d)
    BY <2>7 DEF ClaimGranted, Pair
  <2>8. CASE ClaimRefused(d)
    BY <2>8 DEF ClaimRefused, NextWorkflow
  <2>9. CASE RunRecorded(d)
    BY <2>9 DEF RunRecorded, NextWorkflow, Pair
  <2>10. CASE Returns(d)
    BY <2>10 DEF Returns
  <2>11. CASE MarkDispatched(d)
    BY <2>11 DEF MarkDispatched, Forget
  <2>12. CASE MarkFailed(d)
    BY <2>12 DEF MarkFailed, Forget
  <2>. QED
    BY <1>4, <2>1, <2>2, <2>3, <2>4, <2>5, <2>6, <2>7, <2>8, <2>9, <2>10,
       <2>11, <2>12 DEF Step
<1>5. ASSUME NEW d \in Dispatchers, Trouble(d) PROVE OutboxTypeOK'
  <2>1. CASE RunRefused(d)
    BY <2>1 DEF RunRefused
  <2>2. CASE ClaimErrs(d)
    <3>1. claims' \subseteq Pairs
      BY <2>2 DEF ClaimErrs, Pair
    <3>. QED
      BY <2>2, <3>1 DEF ClaimErrs, NextWorkflow, AccidentTo
  <2>3. CASE RunWriteFails(d)
    <3>1. Pair(d) \in Pairs
      BY <2>3 DEF RunWriteFails, Pair
    <3>2. runs' \in [Pairs -> Nat]
      BY <2>3, <3>1 DEF RunWriteFails
    <3>. QED
      BY <2>3, <3>2 DEF RunWriteFails, AccidentTo
  <2>4. CASE DispatchRaises(d)
    BY <2>4 DEF DispatchRaises, AccidentTo
  <2>5. CASE Dies(d)
    BY <2>5 DEF Dies, Forget
  <2>. QED
    BY <1>5, <2>1, <2>2, <2>3, <2>4, <2>5 DEF Trouble
<1>6. CASE UNCHANGED outboxVars
  BY <1>6 DEF outboxVars
<1>. QED
  BY <1>1, <1>2, <1>3, <1>4, <1>5, <1>6 DEF OutboxNext

\* Every reachable state of the outbox, the claims and the dispatchers is
\* well typed (event_outbox.py, event_dispatch.py).
THEOREM OutboxIsTyped == OutboxSpec => []OutboxTypeOK
  BY TypeInit, TypeStep, PTL DEF OutboxSpec

-----------------------------------------------------------------------------
(* One run per event and workflow.                                         *)

\* The claim guards the gap between looking for a recorded run and writing
\* one: whoever is about to claim in vain, because the run exists by now,
\* still finds the key; who executes holds the key, alone, and found no run.
ClaimsProtect ==
    /\ \A d \in Dispatchers :
          pc[d] = "claim" /\ runs[Pair(d)] > 0 => Pair(d) \in claims
    /\ \A d \in Dispatchers :
          pc[d] = "execute" => Pair(d) \in claims /\ runs[Pair(d)] = 0
    /\ \A c, d \in Dispatchers :
          pc[c] = "execute" /\ pc[d] = "execute" /\ Pair(c) = Pair(d) => c = d

RunInv == OutboxTypeOK /\ ClaimsProtect /\ OneRun

LEMMA RunInit == OutboxInit => RunInv
<1>. SUFFICES ASSUME OutboxInit PROVE RunInv
  OBVIOUS
<1>1. OutboxTypeOK
  BY TypeInit
<1>2. ClaimsProtect
  BY DEF OutboxInit, ClaimsProtect
<1>3. OneRun
  BY DEF OutboxInit, OneRun
<1>. QED
  BY <1>1, <1>2, <1>3 DEF RunInv

\* A dispatcher that claims or executes has a pair in hand.
LEMMA PairInHand ==
    ASSUME OutboxTypeOK, NEW d \in Dispatchers, pc[d] \in {"claim", "execute"}
    PROVE  /\ ev[d] \in Events /\ wf[d] \in Workflows
           /\ Pair(d) = <<ev[d], wf[d]>> /\ Pair(d) \in Pairs
  BY DEF OutboxTypeOK, InDispatch, Phases, Pair, Pairs

LEMMA RunStep == RunInv /\ [OutboxNext]_outboxVars => RunInv'
<1>. SUFFICES ASSUME RunInv, [OutboxNext]_outboxVars PROVE RunInv'
  OBVIOUS
<1>0. OutboxTypeOK'
  BY TypeStep DEF RunInv
<1>. SUFFICES ClaimsProtect' /\ OneRun'
  BY <1>0 DEF RunInv
<1>. USE OutboxAssumption
     DEF RunInv, OutboxTypeOK, ClaimsProtect, OneRun, Pair, Pairs, call, entry
<1>1. ASSUME NEW e \in Events, Enqueue(e) \/ Ripen(e)
      PROVE ClaimsProtect' /\ OneRun'
  BY <1>1 DEF Enqueue, Ripen
<1>2. ASSUME NEW e \in Events, NEW w \in Workflows, ClaimExpires(e, w)
      PROVE ClaimsProtect' /\ OneRun'
  BY <1>2 DEF ClaimExpires, Holds
<1>3. ASSUME NEW w \in Workflows, Toggle(w) PROVE ClaimsProtect' /\ OneRun'
  BY <1>3 DEF Toggle
<1>4. ASSUME NEW d \in Dispatchers, Step(d) PROVE ClaimsProtect' /\ OneRun'
  <2>1. CASE Poll(d)
    BY <2>1 DEF Poll
  <2>2. CASE CycleEnds(d)
    BY <2>2 DEF CycleEnds
  <2>3. ASSUME NEW e \in Events, Leave(d, e) PROVE ClaimsProtect' /\ OneRun'
    BY <2>3 DEF Leave
  <2>4. ASSUME NEW e \in Events, Begin(d, e) PROVE ClaimsProtect' /\ OneRun'
    BY <2>4 DEF Begin
  <2>5. CASE Select(d)
    BY <2>5 DEF Select
  <2>6. ASSUME NEW w \in Workflows, LookUp(d, w)
        PROVE ClaimsProtect' /\ OneRun'
    <3>1. /\ claims' = claims /\ runs' = runs
          /\ \A c \in Dispatchers : c # d =>
                pc'[c] = pc[c] /\ Pair(c)' = Pair(c)
          /\ pc'[d] # "execute"
      BY <2>6 DEF LookUp
    <3>2. pc'[d] = "claim" => runs'[Pair(d)'] = 0
      <4>. SUFFICES ASSUME pc'[d] = "claim" PROVE runs'[Pair(d)'] = 0
        OBVIOUS
      <4>1. ev'[d] = ev[d] /\ wf'[d] = w /\ ~ runs[<<ev[d], w>>] > 0
        BY <2>6 DEF LookUp
      <4>2. <<ev[d], w>> \in Pairs
        BY <2>6 DEF LookUp, InDispatch, Phases
      <4>3. Pair(d)' = <<ev[d], w>>
        BY ONLY <4>1 DEF Pair
      <4>. QED
        BY <3>1, <4>1, <4>2, <4>3
    <3>. QED
      BY ONLY <3>1, <3>2, ClaimsProtect, OneRun DEF ClaimsProtect, OneRun
  <2>7. CASE ClaimGranted(d)
    <3>1. Pair(d) \in Pairs
      BY <2>7, PairInHand DEF ClaimGranted
    <3>2. /\ pc[d] = "claim" /\ Pair(d) \notin claims
          /\ claims' = claims \cup {Pair(d)} /\ runs' = runs
          /\ pc' = [pc EXCEPT ![d] = "execute"]
          /\ UNCHANGED <<ev, wf>>
      BY ONLY <2>7 DEF ClaimGranted
    <3>3. runs[Pair(d)] = 0
      BY ONLY <3>1, <3>2, ClaimsProtect, OutboxTypeOK
      DEF ClaimsProtect, OutboxTypeOK
    <3>4. \A c \in Dispatchers :
             /\ Pair(c)' = Pair(c)
             /\ pc'[c] = IF c = d THEN "execute" ELSE pc[c]
      BY ONLY <3>2, OutboxTypeOK DEF OutboxTypeOK, Pair
    <3>5. OneRun'
      BY ONLY <3>2, OneRun DEF OneRun
    <3>. QED
      BY ONLY <3>2, <3>3, <3>4, <3>5, ClaimsProtect DEF ClaimsProtect
  <2>8. CASE ClaimRefused(d)
    BY <2>8 DEF ClaimRefused, NextWorkflow
  <2>9. CASE RunRecorded(d)
    <3>1. Pair(d) \in Pairs
      BY <2>9, PairInHand DEF RunRecorded, NextWorkflow
    <3>2. Pair(d) \in claims /\ runs[Pair(d)] = 0 /\ pc[d] = "execute"
      BY <2>9 DEF RunRecorded, NextWorkflow
    <3>3. \A p \in Pairs : runs'[p] = runs[p] \/ (p = Pair(d) /\ runs'[p] = 1)
      <4>1. runs' = [runs EXCEPT ![Pair(d)] = @ + 1]
        BY ONLY <2>9 DEF RunRecorded
      <4>. QED
        BY ONLY <3>1, <3>2, <4>1, runs \in [Pairs -> Nat]
    <3>4. \A c \in Dispatchers :
             pc'[c] \in {"claim", "execute"} =>
                 /\ c # d /\ pc'[c] = pc[c]
                 /\ Pair(c)' = Pair(c) /\ Pair(c) \in Pairs
      <4>. SUFFICES ASSUME NEW c \in Dispatchers,
                           pc'[c] \in {"claim", "execute"}
                    PROVE  /\ c # d /\ pc'[c] = pc[c]
                           /\ Pair(c)' = Pair(c) /\ Pair(c) \in Pairs
        OBVIOUS
      <4>1. c # d /\ pc'[c] = pc[c] /\ ev'[c] = ev[c] /\ wf'[c] = wf[c]
        BY <2>9 DEF RunRecorded, NextWorkflow
      <4>. QED
        BY <4>1, PairInHand DEF Pair
    <3>5. OneRun'
      BY ONLY <3>3, OneRun DEF OneRun
    <3>6. claims' = claims
      BY <2>9 DEF RunRecorded, NextWorkflow
    <3>. HIDE DEF Pair
    <3>7. \A c \in Dispatchers :
             /\ pc'[c] = "claim" /\ runs'[Pair(c)'] > 0 => Pair(c)' \in claims'
             /\ pc'[c] = "execute" =>
                   Pair(c)' \in claims' /\ runs'[Pair(c)'] = 0
      BY ONLY <3>2, <3>3, <3>4, <3>6, d \in Dispatchers, ClaimsProtect
         DEF ClaimsProtect
    <3>8. \A b, c \in Dispatchers :
             pc'[b] = "execute" /\ pc'[c] = "execute" /\ Pair(b)' = Pair(c)'
                 => b = c
      BY ONLY <3>4, ClaimsProtect DEF ClaimsProtect
    <3>. QED
      BY ONLY <3>5, <3>7, <3>8 DEF ClaimsProtect
  <2>10. CASE Returns(d)
    BY <2>10 DEF Returns
  <2>11. CASE MarkDispatched(d)
    BY <2>11 DEF MarkDispatched, Forget
  <2>12. CASE MarkFailed(d)
    BY <2>12 DEF MarkFailed, Forget
  <2>. QED
    BY <1>4, <2>1, <2>2, <2>3, <2>4, <2>5, <2>6, <2>7, <2>8, <2>9, <2>10,
       <2>11, <2>12 DEF Step
<1>5. ASSUME NEW d \in Dispatchers, Trouble(d)
      PROVE ClaimsProtect' /\ OneRun'
  <2>1. CASE RunRefused(d)
    BY <2>1 DEF RunRefused
  <2>2. CASE ClaimErrs(d)
    BY <2>2 DEF ClaimErrs, NextWorkflow
  <2>3. CASE RunWriteFails(d)
    <3>1. Pair(d) \in Pairs
      BY <2>3, PairInHand DEF RunWriteFails
    <3>2. Pair(d) \in claims /\ runs[Pair(d)] = 0 /\ pc[d] = "execute"
      BY <2>3 DEF RunWriteFails
    <3>3. \A p \in Pairs : runs'[p] = runs[p] \/ (p = Pair(d) /\ runs'[p] = 1)
      <4>1. runs' \in {runs, [runs EXCEPT ![Pair(d)] = @ + 1]}
        BY ONLY <2>3 DEF RunWriteFails
      <4>. QED
        BY ONLY <3>1, <3>2, <4>1, runs \in [Pairs -> Nat]
    <3>4. \A c \in Dispatchers :
             pc'[c] \in {"claim", "execute"} =>
                 /\ c # d /\ pc'[c] = pc[c]
                 /\ Pair(c)' = Pair(c) /\ Pair(c) \in Pairs
      <4>. SUFFICES ASSUME NEW c \in Dispatchers,
                           pc'[c] \in {"claim", "execute"}
                    PROVE  /\ c # d /\ pc'[c] = pc[c]
                           /\ Pair(c)' = Pair(c) /\ Pair(c) \in Pairs
        OBVIOUS
      <4>1. c # d /\ pc'[c] = pc[c] /\ ev'[c] = ev[c] /\ wf'[c] = wf[c]
        BY <2>3 DEF RunWriteFails
      <4>. QED
        BY <4>1, PairInHand DEF Pair
    <3>5. OneRun'
      BY ONLY <3>3, OneRun DEF OneRun
    <3>6. claims' = claims
      BY <2>3 DEF RunWriteFails
    <3>. HIDE DEF Pair
    <3>7. \A c \in Dispatchers :
             /\ pc'[c] = "claim" /\ runs'[Pair(c)'] > 0 => Pair(c)' \in claims'
             /\ pc'[c] = "execute" =>
                   Pair(c)' \in claims' /\ runs'[Pair(c)'] = 0
      BY ONLY <3>2, <3>3, <3>4, <3>6, d \in Dispatchers, ClaimsProtect
         DEF ClaimsProtect
    <3>8. \A b, c \in Dispatchers :
             pc'[b] = "execute" /\ pc'[c] = "execute" /\ Pair(b)' = Pair(c)'
                 => b = c
      BY ONLY <3>4, ClaimsProtect DEF ClaimsProtect
    <3>. QED
      BY ONLY <3>5, <3>7, <3>8 DEF ClaimsProtect
  <2>4. CASE DispatchRaises(d)
    BY <2>4 DEF DispatchRaises
  <2>5. CASE Dies(d)
    BY <2>5 DEF Dies, Forget
  <2>. QED
    BY <1>5, <2>1, <2>2, <2>3, <2>4, <2>5 DEF Trouble
<1>6. CASE UNCHANGED outboxVars
  BY <1>6 DEF outboxVars
<1>. QED
  BY <1>1, <1>2, <1>3, <1>4, <1>5, <1>6 DEF OutboxNext

\* However many dispatchers, crashes and failures there are, an event starts
\* at most one run of a workflow (event_dispatch.py).
THEOREM OneRunPerWorkflow == OutboxSpec => []OneRun
<1>1. RunInv => OneRun
  BY DEF RunInv
<1>. QED
  BY RunInit, RunStep, <1>1, PTL DEF OutboxSpec

-----------------------------------------------------------------------------
(* The attempt limit.                                                      *)

Holders(e) == {d \in Dispatchers : e \in todo[d]}

\* Every id a dispatcher still holds may become one more attempt.
AttemptsPlusHolders ==
    \A e \in Events : attempts[e] + Cardinality(Holders(e))
                          <= MAX_EVENT_ATTEMPTS - 1 + Cardinality(Dispatchers)

\* A dispatcher's own copy of the count never runs ahead of the row's.
OwnCount == \A d \in Dispatchers :
                ev[d] # NoEvent => att[d] <= attempts[ev[d]]

LimitInv ==
    OutboxTypeOK /\ AttemptsPlusHolders /\ OwnCount /\ FailedIsExhausted

LEMMA HoldersFinite ==
    \A e : /\ IsFiniteSet(Holders(e)) /\ Cardinality(Holders(e)) \in Nat
           /\ Cardinality(Holders(e)) <= Cardinality(Dispatchers)
           /\ Cardinality(Dispatchers) \in Nat
  BY OutboxAssumption, FS_Subset, FS_CardinalityType DEF Holders

LEMMA LimitInit == OutboxInit => LimitInv
<1>. SUFFICES ASSUME OutboxInit PROVE LimitInv
  OBVIOUS
<1>1. OutboxTypeOK
  BY TypeInit
<1>2. AttemptsPlusHolders
  <2>. SUFFICES ASSUME NEW e \in Events
                PROVE  attempts[e] + Cardinality(Holders(e))
                         <= MAX_EVENT_ATTEMPTS - 1 + Cardinality(Dispatchers)
    BY DEF AttemptsPlusHolders
  <2>1. attempts[e] = 0
    BY DEF OutboxInit
  <2>. QED
    BY <2>1, HoldersFinite, OutboxAssumption
<1>3. OwnCount
  BY DEF OutboxInit, OwnCount
<1>4. FailedIsExhausted
  BY DEF OutboxInit, FailedIsExhausted
<1>. QED
  BY <1>1, <1>2, <1>3, <1>4 DEF LimitInv

\* A step that hands out no id and begins no attempt keeps the count.
LEMMA CountKept ==
    ASSUME AttemptsPlusHolders, OutboxTypeOK, UNCHANGED attempts,
           \A e \in Events : Holders(e)' \subseteq Holders(e)
    PROVE  AttemptsPlusHolders'
<1>. SUFFICES ASSUME NEW e \in Events
              PROVE  attempts'[e] + Cardinality(Holders(e)')
                       <= MAX_EVENT_ATTEMPTS - 1 + Cardinality(Dispatchers)
  BY DEF AttemptsPlusHolders
<1>1. Cardinality(Holders(e)') \in Nat
      /\ Cardinality(Holders(e)') <= Cardinality(Holders(e))
  BY HoldersFinite, FS_Subset, FS_CardinalityType
<1>2. attempts'[e] = attempts[e] /\ attempts[e] \in Nat
  BY DEF OutboxTypeOK
<1>3. attempts[e] + Cardinality(Holders(e))
          <= MAX_EVENT_ATTEMPTS - 1 + Cardinality(Dispatchers)
  BY DEF AttemptsPlusHolders
<1>. QED
  BY <1>1, <1>2, <1>3, HoldersFinite, OutboxAssumption

\* A query hands out only ids below the limit.
LEMMA PollKept ==
    ASSUME AttemptsPlusHolders, OutboxTypeOK, NEW d \in Dispatchers, Poll(d)
    PROVE  AttemptsPlusHolders'
<1>. SUFFICES ASSUME NEW e \in Events
              PROVE  attempts'[e] + Cardinality(Holders(e)')
                       <= MAX_EVENT_ATTEMPTS - 1 + Cardinality(Dispatchers)
  BY DEF AttemptsPlusHolders
<1>1. attempts'[e] = attempts[e] /\ attempts[e] \in Nat
  BY DEF Poll, entry, OutboxTypeOK
<1>2. Cardinality(Holders(e)') \in Nat
      /\ Cardinality(Holders(e)') <= Cardinality(Dispatchers)
      /\ Cardinality(Dispatchers) \in Nat
  BY OutboxAssumption, FS_Subset, FS_CardinalityType DEF Holders
<1>3. CASE e \in DueRows
  <2>1. attempts[e] < MAX_EVENT_ATTEMPTS
    BY <1>3 DEF DueRows
  <2>. QED
    BY <1>1, <1>2, <2>1, OutboxAssumption
<1>4. CASE e \notin DueRows
  <2>1. Holders(e)' \subseteq Holders(e)
    BY <1>4 DEF Poll, Holders, OutboxTypeOK
  <2>2. Cardinality(Holders(e)') <= Cardinality(Holders(e))
    BY <2>1, HoldersFinite, FS_Subset
  <2>3. attempts[e] + Cardinality(Holders(e))
            <= MAX_EVENT_ATTEMPTS - 1 + Cardinality(Dispatchers)
    BY DEF AttemptsPlusHolders
  <2>. QED
    BY <1>1, <1>2, <2>2, <2>3, HoldersFinite, OutboxAssumption
<1>. QED
  BY <1>3, <1>4

\* An attempt costs its dispatcher the id.
LEMMA BeginKept ==
    ASSUME AttemptsPlusHolders, OutboxTypeOK, NEW d \in Dispatchers,
           NEW b \in Events, Begin(d, b)
    PROVE  AttemptsPlusHolders'
<1>. SUFFICES ASSUME NEW e \in Events
              PROVE  attempts'[e] + Cardinality(Holders(e)')
                       <= MAX_EVENT_ATTEMPTS - 1 + Cardinality(Dispatchers)
  BY DEF AttemptsPlusHolders
<1>1. attempts[e] \in Nat
      /\ attempts'[e] = IF e = b THEN attempts[e] + 1 ELSE attempts[e]
  BY DEF Begin, OutboxTypeOK
<1>2. todo' = [todo EXCEPT ![d] = @ \ {b}] /\ b \in todo[d]
  BY DEF Begin
<1>3. attempts[e] + Cardinality(Holders(e))
          <= MAX_EVENT_ATTEMPTS - 1 + Cardinality(Dispatchers)
  BY DEF AttemptsPlusHolders
<1>4. CASE e = b
  <2>1. d \in Holders(e) /\ Holders(e)' = Holders(e) \ {d}
    BY <1>2, <1>4 DEF Holders, OutboxTypeOK
  <2>2. Cardinality(Holders(e)') = Cardinality(Holders(e)) - 1
    BY <2>1, HoldersFinite, FS_RemoveElement
  <2>. QED
    BY <1>1, <1>3, <1>4, <2>2, HoldersFinite, OutboxAssumption
<1>5. CASE e # b
  <2>1. Holders(e)' = Holders(e)
    BY <1>2, <1>5 DEF Holders, OutboxTypeOK
  <2>. QED
    BY <1>1, <1>3, <1>5, <2>1
<1>. QED
  BY <1>4, <1>5

LEMMA LimitStep == LimitInv /\ [OutboxNext]_outboxVars => LimitInv'
<1>. SUFFICES ASSUME LimitInv, [OutboxNext]_outboxVars PROVE LimitInv'
  OBVIOUS
<1>0. OutboxTypeOK /\ OutboxTypeOK' /\ AttemptsPlusHolders
  BY TypeStep DEF LimitInv
<1>. DEFINE Stays == AttemptsPlusHolders' /\ OwnCount' /\ FailedIsExhausted'
<1>. SUFFICES Stays
  BY <1>0 DEF LimitInv
<1>1. ASSUME UNCHANGED <<attempts, todo>> PROVE AttemptsPlusHolders'
  BY <1>0, <1>1, CountKept DEF Holders
<1>. USE OutboxAssumption
     DEF LimitInv, OutboxTypeOK, OwnCount, FailedIsExhausted, call, entry
<1>2. ASSUME UNCHANGED <<attempts, ev, att, status>>
      PROVE  OwnCount' /\ FailedIsExhausted'
  BY <1>2
<1>3. ASSUME NEW e \in Events, Enqueue(e) \/ Ripen(e) PROVE Stays
  BY <1>1, <1>3 DEF Enqueue, Ripen
<1>4. ASSUME NEW e \in Events, NEW w \in Workflows, ClaimExpires(e, w)
      PROVE Stays
  BY <1>1, <1>2, <1>4 DEF ClaimExpires
<1>5. ASSUME NEW w \in Workflows, Toggle(w) PROVE Stays
  BY <1>1, <1>2, <1>5 DEF Toggle
<1>6. ASSUME NEW d \in Dispatchers, Step(d) PROVE Stays
  <2>1. CASE Poll(d)
    BY <1>0, <1>2, <2>1, PollKept DEF Poll
  <2>2. CASE CycleEnds(d)
    BY <1>1, <1>2, <2>2 DEF CycleEnds
  <2>3. ASSUME NEW e \in Events, Leave(d, e) PROVE Stays
    <3>1. \A x \in Events : Holders(x)' \subseteq Holders(x)
      BY <2>3 DEF Leave, Holders
    <3>. QED
      BY <1>0, <1>2, <2>3, <3>1, CountKept DEF Leave
  <2>4. ASSUME NEW e \in Events, Begin(d, e) PROVE Stays
    <3>1. AttemptsPlusHolders'
      BY <1>0, <2>4, BeginKept
    <3>2. OwnCount' /\ FailedIsExhausted'
      BY <2>4 DEF Begin
    <3>. QED
      BY <3>1, <3>2
  <2>5. CASE Select(d)
    BY <1>1, <1>2, <2>5 DEF Select
  <2>6. ASSUME NEW w \in Workflows, LookUp(d, w) PROVE Stays
    BY <1>1, <1>2, <2>6 DEF LookUp
  <2>7. CASE ClaimGranted(d)
    BY <1>1, <1>2, <2>7 DEF ClaimGranted
  <2>8. CASE ClaimRefused(d)
    BY <1>1, <1>2, <2>8 DEF ClaimRefused
  <2>9. CASE RunRecorded(d)
    BY <1>1, <1>2, <2>9 DEF RunRecorded
  <2>10. CASE Returns(d)
    BY <1>1, <1>2, <2>10 DEF Returns
  <2>11. CASE MarkDispatched(d)
    BY <1>1, <2>11 DEF MarkDispatched, Forget
  <2>12. CASE MarkFailed(d)
    <3>1. ev[d] # NoEvent /\ ev[d] \in Events
      BY <2>12 DEF MarkFailed, InDispatch, Phases
    <3>2. OwnCount' /\ FailedIsExhausted'
      BY <2>12, <3>1 DEF MarkFailed, Forget, Exhausted
    <3>. QED
      BY <1>1, <2>12, <3>2 DEF MarkFailed
  <2>. QED
    BY <1>6, <2>1, <2>2, <2>3, <2>4, <2>5, <2>6, <2>7, <2>8, <2>9, <2>10,
       <2>11, <2>12 DEF Step
<1>7. ASSUME NEW d \in Dispatchers, Trouble(d) PROVE Stays
  <2>1. CASE RunRefused(d)
    BY <1>1, <1>2, <2>1 DEF RunRefused
  <2>2. CASE ClaimErrs(d)
    BY <1>1, <1>2, <2>2 DEF ClaimErrs
  <2>3. CASE RunWriteFails(d)
    BY <1>1, <1>2, <2>3 DEF RunWriteFails
  <2>4. CASE DispatchRaises(d)
    BY <1>1, <1>2, <2>4 DEF DispatchRaises
  <2>5. CASE Dies(d)
    <3>1. \A x \in Events : Holders(x)' \subseteq Holders(x)
      BY <2>5 DEF Dies, Holders
    <3>2. OwnCount' /\ FailedIsExhausted'
      BY <2>5 DEF Dies, Forget
    <3>. QED
      BY <1>0, <2>5, <3>1, <3>2, CountKept DEF Dies
  <2>. QED
    BY <1>7, <2>1, <2>2, <2>3, <2>4, <2>5 DEF Trouble
<1>8. CASE UNCHANGED outboxVars
  BY <1>1, <1>2, <1>8 DEF outboxVars
<1>. QED
  BY <1>3, <1>4, <1>5, <1>6, <1>7, <1>8 DEF OutboxNext

\* The attempt limit is overrun by less than the number of dispatchers
\* (event_outbox.py, the query and the unconditional increment).
THEOREM AttemptsAreBounded == OutboxSpec => []AttemptsBounded
<1>1. LimitInv => AttemptsBounded
  <2>. SUFFICES ASSUME LimitInv, NEW e \in Events
                PROVE  attempts[e]
                         <= MAX_EVENT_ATTEMPTS + Cardinality(Dispatchers) - 1
    BY DEF AttemptsBounded
  <2>1. attempts[e] + Cardinality(Holders(e))
            <= MAX_EVENT_ATTEMPTS - 1 + Cardinality(Dispatchers)
    BY DEF LimitInv, AttemptsPlusHolders
  <2>2. attempts[e] \in Nat
    BY DEF LimitInv, OutboxTypeOK
  <2>. QED
    BY <2>1, <2>2, HoldersFinite, OutboxAssumption
<1>. QED
  BY LimitInit, LimitStep, <1>1, PTL DEF OutboxSpec

\* Only an event whose attempts are spent is given up (event_outbox.py, the
\* failure transaction compares its own copy of the count).
THEOREM GivenUpIsExhausted == OutboxSpec => []FailedIsExhausted
<1>1. LimitInv => FailedIsExhausted
  BY DEF LimitInv
<1>. QED
  BY LimitInit, LimitStep, <1>1, PTL DEF OutboxSpec

-----------------------------------------------------------------------------
(* No event is lost silently.                                              *)

Calm == Events \ disturbed

\* A calm event has at most one dispatcher, and its row says so.
CalmIsAlone ==
    /\ \A c, d \in Dispatchers : ev[c] \in Calm /\ ev[c] = ev[d] => c = d
    /\ \A d \in Dispatchers :
          ev[d] \in Calm => status[ev[d]] = "processing" /\ ev[d] \notin ripe

\* A claim on a calm event has led to a run or is about to.
CalmClaims ==
    \A e \in Calm, w \in Workflows :
        <<e, w>> \in claims =>
            \/ runs[<<e, w>>] > 0
            \/ \E d \in Dispatchers : pc[d] = "execute" /\ Pair(d) = <<e, w>>

\* The dispatcher of a calm event has handled every steady workflow, or has
\* it in hand, or will come to it.
CalmProgress ==
    \A d \in Dispatchers, w \in Steady :
        ev[d] \in Calm /\ pc[d] \in {"lookup", "claim", "execute", "done"} =>
            \/ runs[<<ev[d], w>>] > 0
            \/ pc[d] # "done" /\ w \in left[d]
            \/ pc[d] \in {"claim", "execute"} /\ wf[d] = w

LossInv ==
    /\ RunInv
    /\ CalmIsAlone /\ CalmClaims /\ CalmProgress
    /\ Steady \subseteq live
    /\ NoSilentLoss

LEMMA LossInit == OutboxInit => LossInv
<1>. SUFFICES ASSUME OutboxInit PROVE LossInv
  OBVIOUS
<1>1. CalmIsAlone /\ CalmClaims /\ CalmProgress
  BY OutboxAssumption
  DEF OutboxInit, Calm, CalmIsAlone, CalmClaims, CalmProgress
<1>2. Steady \subseteq live /\ NoSilentLoss
  BY OutboxAssumption DEF OutboxInit, NoSilentLoss
<1>. QED
  BY RunInit, <1>1, <1>2 DEF LossInv

LEMMA LossStep == LossInv /\ [OutboxNext]_outboxVars => LossInv'
<1>. SUFFICES ASSUME LossInv, [OutboxNext]_outboxVars PROVE LossInv'
  OBVIOUS
<1>0. RunInv /\ RunInv'
  BY RunStep DEF LossInv
<1>. DEFINE Stays == /\ CalmIsAlone' /\ CalmClaims' /\ CalmProgress'
                    /\ Steady \subseteq live' /\ NoSilentLoss'
<1>. SUFFICES Stays
  BY <1>0 DEF LossInv
<1>. USE OutboxAssumption
     DEF LossInv, RunInv, OutboxTypeOK, Phases, InDispatch, Calm, CalmIsAlone,
         CalmClaims, CalmProgress, NoSilentLoss, Pair, Pairs, call, entry,
         NoAccident
<1>1. ASSUME NEW e \in Events, Enqueue(e) \/ Ripen(e) PROVE Stays
  BY <1>1 DEF Enqueue, Ripen, Holds
<1>2. ASSUME NEW e \in Events, NEW w \in Workflows, ClaimExpires(e, w)
      PROVE Stays
  BY <1>2 DEF ClaimExpires
<1>3. ASSUME NEW w \in Workflows, Toggle(w) PROVE Stays
  BY <1>3 DEF Toggle
<1>4. ASSUME NEW d \in Dispatchers, Step(d) PROVE Stays
  <2>1. CASE Poll(d)
    BY <2>1 DEF Poll
  <2>2. CASE CycleEnds(d)
    BY <2>2 DEF CycleEnds
  <2>3. ASSUME NEW e \in Events, Leave(d, e) PROVE Stays
    BY <2>3 DEF Leave
  <2>4. ASSUME NEW e \in Events, Begin(d, e) PROVE Stays
    BY <2>4 DEF Begin, Busy
  <2>5. CASE Select(d)
    BY <2>5 DEF Select
  <2>6. ASSUME NEW w \in Workflows, LookUp(d, w) PROVE Stays
    <3>1. /\ UNCHANGED <<status, ripe, claims, runs, live, ev, disturbed>>
          /\ left' = [left EXCEPT ![d] = @ \ {w}]
          /\ pc[d] = "lookup" /\ ev[d] \in Events
          /\ \A c \in Dispatchers : c # d =>
                pc'[c] = pc[c] /\ wf'[c] = wf[c]
          /\ pc'[d] \in {"lookup", "claim"}
          /\ pc'[d] = "claim" => wf'[d] = w
          /\ pc'[d] = "lookup" => runs[<<ev[d], w>>] > 0
      BY <2>6 DEF LookUp
    <3>2. CalmIsAlone' /\ NoSilentLoss' /\ Steady \subseteq live'
      BY <3>1
    <3>3. CalmClaims'
      <4>. SUFFICES ASSUME NEW e \in Calm, NEW x \in Workflows,
                           <<e, x>> \in claims, ~ runs[<<e, x>>] > 0
                    PROVE  \E c \in Dispatchers :
                              /\ pc'[c] = "execute"
                              /\ <<ev'[c], wf'[c]>> = <<e, x>>
        BY <3>1
      <4>1. PICK c \in Dispatchers :
               pc[c] = "execute" /\ <<ev[c], wf[c]>> = <<e, x>>
        OBVIOUS
      <4>. QED
        BY <3>1, <4>1
    <3>4. CalmProgress'
      <4>. SUFFICES ASSUME NEW c \in Dispatchers, NEW x \in Steady,
                           ev'[c] \in Calm',
                           pc'[c] \in {"lookup", "claim", "execute", "done"}
                    PROVE  \/ runs'[<<ev'[c], x>>] > 0
                           \/ pc'[c] # "done" /\ x \in left'[c]
                           \/ pc'[c] \in {"claim", "execute"} /\ wf'[c] = x
        BY DEF CalmProgress
      <4>1. CASE c = d
        <5>1. runs[<<ev[d], x>>] > 0 \/ x \in left[d]
          BY <3>1, <4>1
        <5>2. x = w \/ x \in left[d] => x = w \/ x \in left'[d]
          BY <3>1
        <5>. QED
          BY ONLY <3>1, <4>1, <5>1, <5>2
      <4>2. CASE c # d
        BY <3>1, <4>2
      <4>. QED
        BY <4>1, <4>2
    <3>. QED
      BY <3>2, <3>3, <3>4
  <2>7. CASE ClaimGranted(d)
    BY <2>7 DEF ClaimGranted
  <2>8. CASE ClaimRefused(d)
    <3>1. /\ UNCHANGED <<status, ripe, claims, runs, live, ev, left,
                         disturbed>>
          /\ pc[d] = "claim" /\ Pair(d) \in claims
          /\ \A c \in Dispatchers : c # d =>
                pc'[c] = pc[c] /\ wf'[c] = wf[c]
          /\ pc'[d] = "lookup"
      BY <2>8 DEF ClaimRefused, NextWorkflow
    <3>2. CalmIsAlone' /\ NoSilentLoss' /\ Steady \subseteq live'
      BY <3>1
    <3>3. CalmClaims'
      BY <3>1
    <3>4. ev[d] \in Calm => runs[<<ev[d], wf[d]>>] > 0
      <4>. SUFFICES ASSUME ev[d] \in Calm
                    PROVE  runs[<<ev[d], wf[d]>>] > 0
        OBVIOUS
      <4>1. wf[d] \in Workflows /\ <<ev[d], wf[d]>> \in claims
        BY <3>1
      <4>2. \A c \in Dispatchers :
               pc[c] = "execute" => <<ev[c], wf[c]>> # <<ev[d], wf[d]>>
        BY <3>1
      <4>. QED
        BY <4>1, <4>2
    <3>5. CalmProgress'
      <4>. SUFFICES ASSUME NEW c \in Dispatchers, NEW x \in Steady,
                           ev'[c] \in Calm',
                           pc'[c] \in {"lookup", "claim", "execute", "done"}
                    PROVE  \/ runs'[<<ev'[c], x>>] > 0
                           \/ pc'[c] # "done" /\ x \in left'[c]
                           \/ pc'[c] \in {"claim", "execute"} /\ wf'[c] = x
        BY DEF CalmProgress
      <4>1. CASE c = d
        <5>1. runs[<<ev[d], x>>] > 0 \/ x \in left[d] \/ wf[d] = x
          BY <3>1, <4>1
        <5>2. ev[d] \in Calm
          BY <3>1, <4>1
        <5>3. runs[<<ev[d], x>>] > 0 \/ x \in left[d]
          BY ONLY <3>4, <5>1, <5>2
        <5>. QED
          BY ONLY <3>1, <4>1, <5>3
      <4>2. CASE c # d
        BY <3>1, <4>2
      <4>. QED
        BY <4>1, <4>2
    <3>. QED
      BY <3>2, <3>3, <3>5
  <2>9. CASE RunRecorded(d)
    BY <2>9 DEF RunRecorded, NextWorkflow
  <2>10. CASE Returns(d)
    BY <2>10 DEF Returns
  <2>11. CASE MarkDispatched(d)
    BY <2>11 DEF MarkDispatched, Forget, OneRun
  <2>12. CASE MarkFailed(d)
    BY <2>12 DEF MarkFailed, Forget
  <2>. QED
    BY <1>4, <2>1, <2>2, <2>3, <2>4, <2>5, <2>6, <2>7, <2>8, <2>9, <2>10,
       <2>11, <2>12 DEF Step
<1>5. ASSUME NEW d \in Dispatchers, Trouble(d) PROVE Stays
  <2>1. CASE RunRefused(d)
    BY <2>1 DEF RunRefused
  <2>2. CASE ClaimErrs(d)
    BY <2>2 DEF ClaimErrs, NextWorkflow, AccidentTo
  <2>3. CASE RunWriteFails(d)
    <3>1. \A p \in Pairs : p # Pair(d) => runs'[p] = runs[p]
      BY <2>3 DEF RunWriteFails
    <3>2. /\ ev[d] \in Events /\ ev[d] \notin Calm' /\ Calm' \subseteq Calm
          /\ UNCHANGED <<status, ripe, claims, live, ev, left, wf>>
          /\ pc' = [pc EXCEPT ![d] = "fail"]
      BY <2>3 DEF RunWriteFails, AccidentTo
    <3>3. \A e \in Calm', w \in Workflows : runs'[<<e, w>>] = runs[<<e, w>>]
      <4>. SUFFICES ASSUME NEW e \in Calm', NEW w \in Workflows
                    PROVE  runs'[<<e, w>>] = runs[<<e, w>>]
        OBVIOUS
      <4>1. e \in Events /\ e # ev[d]
        BY <3>2
      <4>2. <<e, w>> \in Pairs /\ <<e, w>> # Pair(d)
        BY <4>1
      <4>. QED
        BY ONLY <3>1, <4>2
    <3>4. CalmIsAlone' /\ NoSilentLoss' /\ Steady \subseteq live'
      BY <3>2, <3>3
    <3>5. \A c \in Dispatchers :
             /\ c # d => pc'[c] = pc[c]
             /\ pc[c] = "execute" => wf[c] \in Workflows
      BY <3>2
    <3>6. CalmClaims'
      <4>. SUFFICES ASSUME NEW e \in Calm', NEW w \in Workflows,
                           <<e, w>> \in claims'
                    PROVE  \/ runs'[<<e, w>>] > 0
                           \/ \E c \in Dispatchers :
                                 pc'[c] = "execute" /\ Pair(c)' = <<e, w>>
        BY DEF CalmClaims
      <4>1. \/ runs[<<e, w>>] > 0
            \/ \E c \in Dispatchers :
                  pc[c] = "execute" /\ <<ev[c], wf[c]>> = <<e, w>>
        BY <3>2
      <4>2. e # ev[d] /\ runs'[<<e, w>>] = runs[<<e, w>>]
        BY <3>2, <3>3
      <4>. QED
        BY <3>2, <3>5, <4>1, <4>2
    <3>7. CalmProgress'
      <4>. SUFFICES ASSUME NEW c \in Dispatchers, NEW x \in Steady,
                           ev'[c] \in Calm',
                           pc'[c] \in {"lookup", "claim", "execute", "done"}
                    PROVE  \/ runs'[<<ev'[c], x>>] > 0
                           \/ pc'[c] # "done" /\ x \in left'[c]
                           \/ pc'[c] \in {"claim", "execute"} /\ wf'[c] = x
        BY DEF CalmProgress
      <4>1. c # d /\ x \in Workflows
        BY <3>2
      <4>2. runs'[<<ev[c], x>>] = runs[<<ev[c], x>>]
        BY <3>2, <3>3, <4>1
      <4>. QED
        BY <3>2, <3>5, <4>1, <4>2
    <3>. QED
      BY <3>4, <3>6, <3>7
  <2>4. CASE DispatchRaises(d)
    BY <2>4 DEF DispatchRaises, AccidentTo
  <2>5. CASE Dies(d)
    BY <2>5 DEF Dies, Forget
  <2>. QED
    BY <1>5, <2>1, <2>2, <2>3, <2>4, <2>5 DEF Trouble
<1>6. CASE UNCHANGED outboxVars
  BY <1>6 DEF outboxVars
<1>. QED
  BY <1>1, <1>2, <1>3, <1>4, <1>5, <1>6 DEF OutboxNext

\* A dispatched event reached every workflow nobody disabled, unless an
\* accident or a dispatch slower than 300 s befell it (event_outbox.py).
THEOREM NoEventIsLostSilently == OutboxSpec => []NoSilentLoss
<1>1. LossInv => NoSilentLoss
  BY DEF LossInv
<1>. QED
  BY LossInit, LossStep, <1>1, PTL DEF OutboxSpec

-----------------------------------------------------------------------------
(* THE RUNS OF A WORKFLOW                                                  *)

-----------------------------------------------------------------------------
(* Graphs and places.                                                      *)

Words == STRING

\* A graph that runs: something is in it, and a node depends on nodes that
\* come before it.
Body(b) ==
    /\ Len(b) \in Nat \ {0}
    /\ \A n \in 1..Len(b) :
          /\ b[n].id \in Words /\ b[n].times \in Nat
          /\ b[n].inside \in BOOLEAN
          /\ b[n].type = "repeat" => b[n].times > 0
          /\ b[n].depends_on \subseteq {b[m].id : m \in 1..n - 1}

\* Loops nest twice at most.
GoodGraph(g) ==
    /\ Body(g)
    /\ \A n \in 1..Len(g) : g[n].type \in Loops =>
          /\ Body(g[n].graph)
          /\ \A m \in 1..Len(g[n].graph) : g[n].graph[m].type \in Loops =>
                /\ Body(g[n].graph[m].graph)
                /\ \A l \in 1..Len(g[n].graph[m].graph) :
                      g[n].graph[m].graph[l].type \notin Loops

Marks == {"none", "waited", "received"}
Levels ==
    [node : Nat, node_outputs : SUBSET Words, kind : Loops \cup {"leaf"},
     loop_index : Nat, completed_results : Nat, mark : Marks]

\* A place in a graph: in loops that are not skipped, at an iteration they
\* have, with the outputs of the nodes before.
IsPlace(g, p) ==
    /\ p \in Seq(Levels) /\ Len(p) \in 1..3
    /\ \A k \in 1..Len(p) :
          /\ p[k].node \in 1..Len(GraphAt(g, p, k))
          /\ p[k].node_outputs =
                {GraphAt(g, p, k)[m].id : m \in 1..p[k].node - 1}
          /\ p[k].completed_results = p[k].loop_index
          /\ IF k < Len(p)
             THEN /\ NodeOn(g, p, k).type \in Loops
                  /\ p[k].kind = NodeOn(g, p, k).type
                  /\ NodeOn(g, p, k).when
                  /\ p[k].loop_index < NodeOn(g, p, k).times
             ELSE p[k].loop_index = 0 /\ p[k].kind = "leaf"

\* Nothing in it says that an event has come.
Unmarked(p) == \A k \in 1..Len(p) : p[k].mark # "received"

\* p is where r is, or at one of the loops r is in.
Along(p, r) ==
    /\ Len(p) <= Len(r)
    /\ \A k \in 1..Len(p) : p[k].node = r[k].node
    /\ \A k \in 1..Len(p) - 1 : p[k].loop_index = r[k].loop_index

\* A sequence of steps: nodes and iterations.
Steps(s) ==
    /\ Len(s) \in Nat /\ DOMAIN s = 1..Len(s)
    /\ s = [k \in DOMAIN s |-> s[k]]
    /\ \A k \in 1..Len(s) :
          /\ s[k][1] \in Nat /\ s[k][2] \in Nat
          /\ s[k] = <<s[k][1], s[k][2]>>

\* The scope of a leaf.
IsScope(g, s) ==
    /\ Steps(s) /\ Len(s) \in 1..3
    /\ \A k \in 1..Len(s) :
          /\ s[k][1] \in 1..Len(GraphAt(g, Path(s), k))
          /\ IF k < Len(s)
             THEN /\ NodeOn(g, Path(s), k).type \in Loops
                  /\ s[k][2] < NodeOn(g, Path(s), k).times
             ELSE NodeOn(g, Path(s), k).type \notin Loops /\ s[k][2] = 0

-----------------------------------------------------------------------------
(* How far a run has come.                                                 *)

\* A run that is at p (<<>>: at the end of the graph) has come past s.
Past(s, p) == p = <<>> \/ IsBefore(s, Scope(p))

\* Due and InRepeat of a graph.
DueIn(g) ==
    {s \in Leaves(g) :
       /\ \A k \in 1..Len(s) : NodeOn(g, Path(s), k).when
       /\ \/ IsDatabaseWork(NodeAt(g, Path(s)))
          \/ IsOutsideWork(NodeAt(g, Path(s)))}
Repeated(g, s) ==
    \E k \in 1..Len(s) - 1 : NodeOn(g, Path(s), k).type = "repeat"

\* In a run, done is its part of took, ears the waits whose event it has
\* heard, asks its approval requests.
\*
\* What had to take effect before p has, once, and nothing else.
Shown(g, done, p) ==
    \A s \in Leaves(g) :
        done[s] = IF s \in DueIn(g) /\ Past(s, p) THEN 1 ELSE 0

HeardBefore(g, ears, p) ==
    \A s \in ears : ~Repeated(g, s) => Past(s, p)

\* No effect without those before it, and each once.
InTurn(g, done) ==
    /\ \A s \in Leaves(g) : done[s] <= IF s \in DueIn(g) THEN 1 ELSE 0
    /\ \A s, q \in DueIn(g) : IsBefore(s, q) /\ done[q] = 1 => done[s] = 1

Outcomes == {"confirmed", "approval_execution_failed"}
Approvals == Outcomes \cup {"approved"}
Answers == Approvals \cup {"none", "awaiting_confirmation", "rejected"}
RunStatuses == Waiting \cup {"none", "running", "waiting_retry", "success",
                          "failed", "rejected"}

AskedFirst(g, done, asks) ==
    \A s \in Leaves(g) :
        NeedsApproval(NodeAt(g, Path(s))) /\ done[s] > 0 =>
            asks[s] \in Approvals

-----------------------------------------------------------------------------
(* The inductive invariant.                                                *)

\* The types of a row and of what belongs to it.
RowFields(g, row) ==
    /\ DOMAIN row = DOMAIN Row /\ row.status \in RunStatuses
    /\ row.attempts \in Nat
    /\ DOMAIN row.retry = DOMAIN NoRetry /\ row.retry.safe \in BOOLEAN
    /\ \A c \in {row.wait, row.retry.at} :
          c # <<>> => IsPlace(g, c) /\ Unmarked(c)

Effects(g, done, ears, asks) ==
    /\ done \in [Leaves(g) -> Nat] /\ asks \in [Leaves(g) -> Answers]
    /\ ears \subseteq Leaves(g)
    /\ \A s \in ears : NodeAt(g, Path(s)).type = "await_event"
    /\ InTurn(g, done) /\ AskedFirst(g, done, asks)

\* What a run has done when nobody executes it.
Rests(g, row, done, ears) ==
    /\ row.status = "none" =>
          ears = {} /\ \A s \in Leaves(g) : done[s] = 0
    /\ row.status = "success" => Shown(g, done, <<>>)
    /\ row.status \in Waiting =>
          /\ row.wait # <<>>
          /\ Shown(g, done, row.wait) /\ HeardBefore(g, ears, row.wait)
    /\ row.status = "waiting_event" =>
          NodeAt(g, row.wait).type = "await_event"
    /\ row.status = "waiting_retry" => row.retry.safe
    /\ row.retry.safe /\ row.status \in {"waiting_retry", "failed"} =>
          /\ row.retry.at # <<>>
          /\ Shown(g, done, row.retry.at)
          /\ HeardBefore(g, ears, row.retry.at)

\* Where a thread is, or comes to with its checkpoint.
Aim(th) == IF th.resume = <<>> THEN th.at ELSE th.resume

\* A thread executes a node of the graph, or comes to its end; until it is
\* where the checkpoint is, it is in the loops of the checkpoint.
Placed(g, th) ==
    /\ th.at # <<>> => IsPlace(g, th.at) /\ Unmarked(th.at)
    /\ th.at = <<>> =>
          th.doing = "node" /\ th.resume = <<>> /\ ~th.entered
    /\ th.resume # <<>> =>
          /\ IsPlace(g, th.resume) /\ Along(th.at, th.resume)
          /\ \A k \in 1..Len(th.resume) :
                th.resume[k].mark = "received" =>
                   /\ NodeAt(g, th.resume).type = "await_event"
                   /\ k = Len(th.resume) \/ Repeated(g, Scope(th.resume))

\* Pending is the last of what comes before, if it is something.
Pending(g, th) ==
    /\ th.pending \subseteq {s \in DueIn(g) : Past(s, Aim(th))}
    /\ \A s \in th.pending, q \in DueIn(g) :
          Past(q, Aim(th)) => q = s \/ IsBefore(q, s)
    /\ th.entered \/ th.doing = "work" => th.pending = {}
    /\ \A s \in th.pending :
          NeedsApproval(NodeAt(g, Path(s))) => th.approved = s

\* A thread has done what comes before its node, except for what it still has
\* to commit.
Walks(g, th, done) ==
    \A s \in Leaves(g) :
        done[s] = IF s \in DueIn(g) /\ Past(s, Aim(th)) /\ s \notin th.pending
                  THEN 1 ELSE 0

\* It has the event of the wait it comes to, or of waits before.
Hears(g, th, ears) ==
    \A s \in ears : ~Repeated(g, s) =>
        \/ Past(s, Aim(th))
        \/ /\ ~th.entered /\ th.resume # <<>>
           /\ s = Scope(th.resume) /\ Inner(th.resume).mark = "received"

\* From where the run would be retried.
Retries(g, th, row) ==
    th.doing = "work" =>
        /\ row.retry.at = Checkpoint(th.at, "none")
        /\ row.retry.safe = RetrySafe(NodeAt(g, th.at))

Worker(th) == th.doing \in {"node", "work", "fail", "finish"}
Walker(th) == th.doing \in {"node", "work"}

\* A thread that executes a run.  Who has not committed yet executes one that
\* waits, and who acts has the approval in the database.
WorkerFields(g, th) ==
    /\ DOMAIN th = DOMAIN Executing(1, <<>>, FALSE, <<>>)
    /\ th.approved \in Leaves(g) \cup {<<>>}
    /\ th.entered \in BOOLEAN
    /\ th.entered => th.doing = "node" /\ th.resume # <<>>

Ends(g, th, row, done, ears) ==
    /\ th.doing = "finish" => Shown(g, done, <<>>)
    /\ th.doing = "fail" /\ row.retry.safe =>
          /\ row.retry.at # <<>>
          /\ Shown(g, done, row.retry.at)
          /\ HeardBefore(g, ears, row.retry.at)

Executes(g, th, row, done, ears, asks) ==
    /\ WorkerFields(g, th)
    /\ row.status \in IF th.entered THEN Waiting ELSE {"running"}
    /\ ~th.entered /\ th.approved # <<>> => asks[th.approved] \in Approvals
    /\ Walker(th) => /\ Placed(g, th) /\ Pending(g, th) /\ Walks(g, th, done)
                     /\ Hears(g, th, ears) /\ Retries(g, th, row)
    /\ Ends(g, th, row, done, ears)

Ears(r) == {s \in Scopes : <<r, s>> \in heard}

\* The workflow and the tables.
Frame ==
    /\ GoodGraph(graph) /\ Scopes = Leaves(graph)
    /\ scheduled \in BOOLEAN /\ enabled \in BOOLEAN
    /\ build \in 0..upsets /\ slot \in 1..upsets + 1 /\ upsets \in 0..MaxUpsets
    /\ DOMAIN run = Runs /\ DOMAIN request = Runs /\ DOMAIN took = Runs
    /\ heard \subseteq Runs \X Scopes
    /\ \A r \in Runs : run[r].slot \in 0..slot /\ run[r].build \in 0..build
    /\ DOMAIN thread = Threads

RowOk(r) ==
    /\ RowFields(graph, run[r])
    /\ Effects(graph, took[r], Ears(r), request[r])
    /\ Rests(graph, run[r], took[r], Ears(r))
Rows == \A r \in Runs : RowOk(r)

Engaged(t) ==
    LET r == Current(t)
    IN /\ Worker(thread[t]) /\ r \in Runs
       /\ Executes(graph, thread[t], run[r], took[r], Ears(r), request[r])

OnDuty(t) ==
    \/ thread[t] = Idle
    \/ thread[t].doing = "create" /\ thread[t].slot \in 0..slot
    \/ thread[t].doing = "look" /\ Current(t) \in Runs
    \/ /\ thread[t].doing = "answer" /\ Current(t) \in Runs
       /\ thread[t].scope \in Scopes /\ thread[t].outcome \in Outcomes
    \/ Engaged(t)
Staff == \A t \in Threads : OnDuty(t)

\* One thread at most executes a run.
Exclusive ==
    \A t, u \in Threads :
        Worker(thread[t]) /\ Worker(thread[u]) /\ Current(t) = Current(u) =>
            t = u

\* Rows are numbered in order; the slots of a schedule are taken in order.
Slotted ==
    /\ \A r, q \in Runs : r < q /\ q \in Existing => r \in Existing
    /\ scheduled =>
       /\ \A r, q \in Existing : r < q => run[r].slot < run[q].slot
       /\ \A t, u \in Threads :
             thread[t].doing = "create" /\ thread[u].doing = "create" => t = u
       /\ \A t \in Threads : thread[t].doing = "create" =>
             /\ thread[t].slot # 0
             /\ \A r \in Existing : run[r].slot < thread[t].slot

RunsInv == Frame /\ Rows /\ Staff /\ Exclusive /\ Slotted

-----------------------------------------------------------------------------
(* The order of the leaves.                                                *)

\* a is before b at step k.
Behind(a, b, k) ==
    /\ k \in Nat /\ 1 <= k /\ k <= Len(a) /\ k <= Len(b)
    /\ \A j \in 1..k - 1 : a[j] = b[j]
    /\ \/ a[k][1] < b[k][1]
       \/ a[k][1] = b[k][1] /\ a[k][2] < b[k][2]

LEMMA BeforeIsBehind ==
    ASSUME NEW a, Len(a) \in Nat, NEW b
    PROVE  IsBefore(a, b) <=> \E k : Behind(a, b, k)
<1>1. ASSUME IsBefore(a, b)
      PROVE  \E k : Behind(a, b, k)
  BY <1>1 DEF IsBefore, Behind
<1>2. ASSUME NEW k, Behind(a, b, k)
      PROVE  IsBefore(a, b)
  <2>1. k \in 1..Len(a)
    BY <1>2 DEF Behind
  <2> QED
    BY <1>2, <2>1 DEF IsBefore, Behind
<1> QED
  BY <1>1, <1>2

LEMMA BehindTransitive ==
    ASSUME NEW a, NEW b, NEW c, NEW i, NEW j,
           Len(a) \in Nat, Len(b) \in Nat, Len(c) \in Nat,
           Behind(a, b, i), Behind(b, c, j),
           i = j => /\ a[i][1] \in Nat /\ a[i][2] \in Nat
                    /\ b[i][1] \in Nat /\ b[i][2] \in Nat
                    /\ c[i][1] \in Nat /\ c[i][2] \in Nat
    PROVE  Behind(a, c, i) \/ Behind(a, c, j)
<1>1. /\ i \in Nat /\ 1 <= i /\ i <= Len(a) /\ i <= Len(b)
      /\ \A n \in 1..i - 1 : a[n] = b[n]
  BY DEF Behind
<1>2. /\ j \in Nat /\ 1 <= j /\ j <= Len(b) /\ j <= Len(c)
      /\ \A n \in 1..j - 1 : b[n] = c[n]
  BY DEF Behind
<1>3. CASE i < j
  <2>1. b[i] = c[i]
    BY <1>1, <1>2, <1>3
  <2>2. \A n \in 1..i - 1 : a[n] = c[n]
    BY <1>1, <1>2, <1>3
  <2>3. i <= Len(c)
    BY <1>1, <1>2, <1>3
  <2> QED
    BY <1>1, <2>1, <2>2, <2>3 DEF Behind
<1>4. CASE j < i
  <2>1. b[j] = a[j]
    BY <1>1, <1>2, <1>4
  <2>2. \A n \in 1..j - 1 : a[n] = c[n]
    BY <1>1, <1>2, <1>4
  <2>3. j <= Len(a)
    BY <1>1, <1>2, <1>4
  <2> QED
    BY <1>2, <2>1, <2>2, <2>3 DEF Behind
<1>5. CASE i = j
  <2>2. \A n \in 1..i - 1 : a[n] = c[n]
    BY <1>1, <1>2, <1>5
  <2> QED
    BY <1>1, <1>2, <1>5, <2>2 DEF Behind
<1> QED
  BY <1>1, <1>2, <1>3, <1>4, <1>5

LEMMA BeforeTransitive ==
    ASSUME NEW a, NEW b, NEW c, Steps(a), Steps(b), Steps(c),
           IsBefore(a, b), IsBefore(b, c)
    PROVE  IsBefore(a, c)
<1>0. Len(a) \in Nat /\ Len(b) \in Nat /\ Len(c) \in Nat
  BY DEF Steps
<1>1. PICK i : Behind(a, b, i)
  BY <1>0, BeforeIsBehind
<1>2. PICK j : Behind(b, c, j)
  BY <1>0, BeforeIsBehind
<1>3. ASSUME i = j
      PROVE  /\ a[i][1] \in Nat /\ a[i][2] \in Nat
             /\ b[i][1] \in Nat /\ b[i][2] \in Nat
             /\ c[i][1] \in Nat /\ c[i][2] \in Nat
  <2>1. i \in 1..Len(a) /\ i \in 1..Len(b) /\ i \in 1..Len(c)
    BY <1>0, <1>1, <1>2, <1>3 DEF Behind
  <2> QED
    BY <2>1 DEF Steps
<1> QED
  BY <1>0, <1>1, <1>2, <1>3, BehindTransitive, BeforeIsBehind

LEMMA BeforeIrreflexive ==
    ASSUME NEW s, Steps(s)
    PROVE  ~IsBefore(s, s)
  BY DEF IsBefore, Steps

-----------------------------------------------------------------------------
(* Places and their scopes.                                                *)

LEMMA ScopeOf ==
    ASSUME NEW p, p \in Seq(Levels)
    PROVE  /\ Steps(Scope(p)) /\ Len(Scope(p)) = Len(p)
           /\ DOMAIN Scope(p) = 1..Len(p)
           /\ \A k \in 1..Len(p) :
                 /\ Scope(p)[k] = <<p[k].node, p[k].loop_index>>
                 /\ Scope(p)[k][1] = p[k].node
                 /\ Scope(p)[k][2] = p[k].loop_index
<1>1. Len(p) \in Nat
  OBVIOUS
<1>2. ASSUME NEW k \in 1..Len(p)
      PROVE  p[k].node \in Nat /\ p[k].loop_index \in Nat
  <2>1. p[k] \in Levels
    BY <1>1
  <2> QED
    BY <2>1 DEF Levels
<1>3. DOMAIN Scope(p) = 1..Len(p) /\ Len(Scope(p)) = Len(p)
  BY <1>1 DEF Scope
<1>4. \A k \in 1..Len(p) : Scope(p)[k] = <<p[k].node, p[k].loop_index>>
  BY DEF Scope
<1>5. Scope(p) = [k \in DOMAIN Scope(p) |-> Scope(p)[k]]
  BY DEF Scope
<1> QED
  BY <1>1, <1>2, <1>3, <1>4, <1>5 DEF Steps

LEMMA PathOf ==
    ASSUME NEW s, Len(s) \in Nat
    PROVE  /\ Len(Path(s)) = Len(s)
           /\ \A k \in 1..Len(s) : Path(s)[k].node = s[k][1]
  BY DEF Path

LEMMA GraphAtIs ==
    ASSUME NEW g, NEW p
    PROVE  /\ GraphAt(g, p, 1) = g
           /\ GraphAt(g, p, 2) = NodeOn(g, p, 1).graph
           /\ GraphAt(g, p, 3) = NodeOn(g, p, 2).graph
  BY DEF GraphAt, NodeOn

\* Places with the same nodes are in the same graphs.
LEMMA SameGraphs ==
    ASSUME NEW g, NEW p, NEW q, NEW k \in 1..3,
           \A j \in 1..k - 1 : p[j].node = q[j].node
    PROVE  /\ GraphAt(g, p, k) = GraphAt(g, q, k)
           /\ p[k].node = q[k].node => NodeOn(g, p, k) = NodeOn(g, q, k)
<1>1. CASE k = 1
  BY <1>1 DEF GraphAt, NodeOn
<1>2. CASE k = 2
  <2>1. p[1].node = q[1].node
    BY <1>2
  <2> QED
    BY <1>2, <2>1 DEF GraphAt, NodeOn
<1>3. CASE k = 3
  <2>1. p[1].node = q[1].node /\ p[2].node = q[2].node
    BY <1>3
  <2> QED
    BY <1>3, <2>1 DEF GraphAt, NodeOn
<1> QED
  BY <1>1, <1>2, <1>3

LEMMA ScopeGraphs ==
    ASSUME NEW g, NEW p, p \in Seq(Levels), Len(p) \in 1..3,
           NEW k \in 1..Len(p)
    PROVE  /\ GraphAt(g, Path(Scope(p)), k) = GraphAt(g, p, k)
           /\ NodeOn(g, Path(Scope(p)), k) = NodeOn(g, p, k)
<1>1. \A j \in 1..Len(p) : Path(Scope(p))[j].node = p[j].node
  BY ScopeOf, PathOf
<1> QED
  BY <1>1, SameGraphs

LEMMA ScopeNode ==
    ASSUME NEW g, NEW p, p \in Seq(Levels), Len(p) \in 1..3
    PROVE  NodeAt(g, Path(Scope(p))) = NodeAt(g, p)
  BY ScopeOf, PathOf, ScopeGraphs DEF NodeAt

\* The graph of a loop is a good one; the third has no loops.
LEMMA GoodBodies ==
    ASSUME NEW g, GoodGraph(g), NEW p, NEW k \in 1..3,
           \A j \in 1..k - 1 : /\ p[j].node \in 1..Len(GraphAt(g, p, j))
                               /\ NodeOn(g, p, j).type \in Loops
    PROVE  /\ Body(GraphAt(g, p, k))
           /\ k = 3 /\ p[k].node \in 1..Len(GraphAt(g, p, k))
                => NodeOn(g, p, k).type \notin Loops
<1>1. CASE k = 1
  BY <1>1 DEF GraphAt, GoodGraph
<1>2. CASE k = 2
  <2>1. p[1].node \in 1..Len(g) /\ g[p[1].node].type \in Loops
    BY <1>2 DEF GraphAt, NodeOn
  <2> QED
    BY <1>2, <2>1 DEF GraphAt, GoodGraph
<1>3. CASE k = 3
  <2>1. p[1].node \in 1..Len(g) /\ g[p[1].node].type \in Loops
    BY <1>3 DEF GraphAt, NodeOn
  <2>2. /\ p[2].node \in 1..Len(g[p[1].node].graph)
        /\ g[p[1].node].graph[p[2].node].type \in Loops
    BY <1>3 DEF GraphAt, NodeOn
  <2>. DEFINE b == g[p[1].node].graph[p[2].node].graph
  <2>3. Body(b) /\ \A l \in 1..Len(b) : b[l].type \notin Loops
    BY <2>1, <2>2 DEF GoodGraph
  <2>4. GraphAt(g, p, 3) = b
    BY DEF GraphAt
  <2>5. NodeOn(g, p, 3) = b[p[3].node]
    BY <2>4 DEF NodeOn
  <2> HIDE DEF b
  <2> QED
    BY <1>3, <2>3, <2>4, <2>5
<1> QED
  BY <1>1, <1>2, <1>3

-----------------------------------------------------------------------------
(* The leaves.                                                             *)

LEMMA NodeOnIs ==
    ASSUME NEW g, NEW p
    PROVE  /\ NodeOn(g, p, 1) = g[p[1].node]
           /\ NodeOn(g, p, 2) = g[p[1].node].graph[p[2].node]
           /\ NodeOn(g, p, 3) = g[p[1].node].graph[p[2].node].graph[p[3].node]
<1>1. NodeOn(g, p, 1) = g[p[1].node]
  BY GraphAtIs DEF NodeOn
<1>2. NodeOn(g, p, 2) = g[p[1].node].graph[p[2].node]
  BY <1>1, GraphAtIs DEF NodeOn
<1>3. NodeOn(g, p, 3) = g[p[1].node].graph[p[2].node].graph[p[3].node]
  BY <1>2, GraphAtIs DEF NodeOn
<1> QED
  BY <1>1, <1>2, <1>3

LEMMA PathOfOne ==
    ASSUME NEW g, NEW s, Len(s) = 1
    PROVE  NodeOn(g, Path(s), 1) = g[s[1][1]]
<1>1. Path(s)[1].node = s[1][1]
  BY PathOf
<1> QED
  BY <1>1, NodeOnIs

LEMMA PathOfTwo ==
    ASSUME NEW g, NEW s, Len(s) = 2
    PROVE  /\ NodeOn(g, Path(s), 1) = g[s[1][1]]
           /\ NodeOn(g, Path(s), 2) = g[s[1][1]].graph[s[2][1]]
<1>1. Path(s)[1].node = s[1][1] /\ Path(s)[2].node = s[2][1]
  BY PathOf
<1> QED
  BY <1>1, NodeOnIs

LEMMA PathOfThree ==
    ASSUME NEW g, NEW s, Len(s) = 3
    PROVE  /\ NodeOn(g, Path(s), 1) = g[s[1][1]]
           /\ NodeOn(g, Path(s), 2) = g[s[1][1]].graph[s[2][1]]
           /\ NodeOn(g, Path(s), 3) =
                 g[s[1][1]].graph[s[2][1]].graph[s[3][1]]
<1>1. /\ Path(s)[1].node = s[1][1] /\ Path(s)[2].node = s[2][1]
      /\ Path(s)[3].node = s[3][1]
  BY PathOf
<1> QED
  BY <1>1, NodeOnIs

LEMMA NodeAtPath ==
    ASSUME NEW g, NEW s, Len(s) \in Nat
    PROVE  NodeAt(g, Path(s)) = NodeOn(g, Path(s), Len(s))
  BY PathOf DEF NodeAt

LEMMA AppendToOne ==
    ASSUME NEW y, NEW z
    PROVE  Append(<<y>>, z) = <<y, z>>
<1>. DEFINE S == {y, z}
            s == <<y>>
            a == Append(s, z)
            b == <<y, z>>
<1>1. /\ s \in Seq(S) /\ z \in S /\ Len(s) = 1
      /\ s[1] = y
  OBVIOUS
<1>2. /\ a \in Seq(S) /\ Len(a) = 2 /\ a[2] = z
      /\ a[1] = y
  <2>. HIDE DEF S, s
  <2> QED
    BY <1>1
<1>3. /\ b \in Seq(S) /\ Len(b) = 2 /\ b[2] = z
      /\ b[1] = y
  OBVIOUS
<1>. HIDE DEF S, a, b
<1>4. Len(a) = Len(b) /\ \A i \in 1..Len(a) : a[i] = b[i]
  BY <1>2, <1>3
<1>5. a = b
  BY <1>2, <1>3, <1>4, SeqEqual
<1> QED
  BY <1>5 DEF a, b

LEMMA AppendToTwo ==
    ASSUME NEW w, NEW y, NEW z
    PROVE  Append(<<w, y>>, z) = <<w, y, z>>
<1>. DEFINE S == {w, y, z}
            s == <<w, y>>
            a == Append(s, z)
            b == <<w, y, z>>
<1>1. /\ s \in Seq(S) /\ z \in S /\ Len(s) = 2
      /\ s[1] = w /\ s[2] = y
  OBVIOUS
<1>2. /\ a \in Seq(S) /\ Len(a) = 3 /\ a[3] = z
      /\ a[1] = w /\ a[2] = y
  <2>. HIDE DEF S, s
  <2> QED
    BY <1>1
<1>3. /\ b \in Seq(S) /\ Len(b) = 3 /\ b[3] = z
      /\ b[1] = w /\ b[2] = y
  OBVIOUS
<1>. HIDE DEF S, a, b
<1>4. Len(a) = Len(b) /\ \A i \in 1..Len(a) : a[i] = b[i]
  BY <1>2, <1>3
<1>5. a = b
  BY <1>2, <1>3, <1>4, SeqEqual
<1> QED
  BY <1>5 DEF a, b

LEMMA InsideOne ==
    ASSUME NEW m, NEW a, NEW i, NEW n
    PROVE  InLoop(<<<<m, a>>>>, i, n) = <<<<m, i>>, <<n, 0>>>>
<1>. DEFINE x == <<m, a>>
            y == <<m, i>>
            z == <<n, 0>>
<1>1. x[1] = m
  OBVIOUS
<1>2. [<<x>> EXCEPT ![Len(<<x>>)] = <<@[1], i>>] = <<y>>
  BY <1>1
<1>3. Append(<<y>>, z) = <<y, z>>
  BY AppendToOne
<1> QED
  BY <1>2, <1>3 DEF InLoop

LEMMA InsideTwo ==
    ASSUME NEW m, NEW k, NEW a, NEW n, NEW i, NEW l
    PROVE  InLoop(<<<<m, k>>, <<n, a>>>>, i, l) =
               <<<<m, k>>, <<n, i>>, <<l, 0>>>>
<1>. DEFINE w == <<m, k>>
            x == <<n, a>>
            y == <<n, i>>
            z == <<l, 0>>
<1>1. x[1] = n
  OBVIOUS
<1>2. [<<w, x>> EXCEPT ![Len(<<w, x>>)] = <<@[1], i>>] = <<w, y>>
  BY <1>1
<1>3. Append(<<w, y>>, z) = <<w, y, z>>
  BY AppendToTwo
<1> QED
  BY <1>2, <1>3 DEF InLoop

LEMMA InsideIs ==
    ASSUME NEW g, NEW S, NEW s
    PROVE  s \in Inside(g, S) <=>
             \E q \in S :
                /\ NodeAt(g, Path(q)).type \in Loops
                /\ \E n \in 1..Len(NodeAt(g, Path(q)).graph),
                      i \in 0..NodeAt(g, Path(q)).times - 1 :
                      s = InLoop(q, i, n)
<1>1. s \in Inside(g, S) <=>
        \E q \in S : /\ NodeAt(g, Path(q)).type \in Loops
                     /\ s \in Bodies(NodeAt(g, Path(q)), q)
  BY DEF Inside
<1>2. \A node, q : s \in Bodies(node, q) <=>
        \E n \in 1..Len(node.graph), i \in 0..node.times - 1 :
           s = InLoop(q, i, n)
  BY DEF Bodies
<1> QED
  BY <1>1, <1>2

Top(g)  == {<<<<n, 0>>>> : n \in 1..Len(g)}
Once(g) == Inside(g, Top(g))

LEMMA LeavesIs ==
    ASSUME NEW g, NEW s
    PROVE  s \in Leaves(g) <=>
              /\ s \in Top(g) \/ s \in Once(g) \/ s \in Inside(g, Once(g))
              /\ NodeAt(g, Path(s)).type \notin Loops
  BY DEF Leaves, Top, Once

LEMMA OnceIs ==
    ASSUME NEW g, NEW s
    PROVE  s \in Once(g) <=>
             \E m \in 1..Len(g) :
                /\ g[m].type \in Loops
                /\ \E n \in 1..Len(g[m].graph), i \in 0..g[m].times - 1 :
                      s = <<<<m, i>>, <<n, 0>>>>
<1>1. ASSUME NEW m \in 1..Len(g)
      PROVE  NodeAt(g, Path(<<<<m, 0>>>>)) = g[m]
  <2>. DEFINE q == <<<<m, 0>>>>
  <2>1. Len(q) = 1 /\ q[1][1] = m
    OBVIOUS
  <2>. HIDE DEF q
  <2>4. Len(q) \in Nat
    BY <2>1
  <2>5. NodeAt(g, Path(q)) = NodeOn(g, Path(q), Len(q))
    BY <2>4, NodeAtPath
  <2>3. NodeAt(g, Path(q)) = NodeOn(g, Path(q), 1)
    BY <2>1, <2>5
  <2>2. NodeAt(g, Path(q)) = g[m]
    BY <2>1, <2>3, PathOfOne
  <2> QED
    BY <2>2 DEF q
<1>2. ASSUME s \in Once(g)
      PROVE  \E m \in 1..Len(g) :
                /\ g[m].type \in Loops
                /\ \E n \in 1..Len(g[m].graph), i \in 0..g[m].times - 1 :
                      s = <<<<m, i>>, <<n, 0>>>>
  <2>1. PICK q \in Top(g) :
                /\ NodeAt(g, Path(q)).type \in Loops
                /\ \E n \in 1..Len(NodeAt(g, Path(q)).graph),
                      i \in 0..NodeAt(g, Path(q)).times - 1 :
                      s = InLoop(q, i, n)
    BY <1>2, InsideIs DEF Once
  <2>2. PICK m \in 1..Len(g) : q = <<<<m, 0>>>>
    BY DEF Top
  <2>3. NodeAt(g, Path(q)) = g[m]
    BY <1>1, <2>2
  <2>4. PICK n \in 1..Len(g[m].graph), i \in 0..g[m].times - 1 :
            s = InLoop(q, i, n)
    BY <2>1, <2>3
  <2>5. s = <<<<m, i>>, <<n, 0>>>>
    BY <2>2, <2>4, InsideOne
  <2> QED
    BY <2>1, <2>3, <2>5
<1>3. ASSUME NEW m \in 1..Len(g), g[m].type \in Loops,
             NEW n \in 1..Len(g[m].graph), NEW i \in 0..g[m].times - 1,
             s = <<<<m, i>>, <<n, 0>>>>
      PROVE  s \in Once(g)
  <2>. DEFINE q == <<<<m, 0>>>>
  <2>1. q \in Top(g)
    BY DEF Top
  <2>2. NodeAt(g, Path(q)) = g[m]
    BY <1>1
  <2>3. s = InLoop(q, i, n)
    BY <1>3, InsideOne
  <2>. HIDE DEF q
  <2> QED
    BY <1>3, <2>1, <2>2, <2>3, InsideIs DEF Once
<1> QED
  BY <1>2, <1>3

LEMMA TwiceIs ==
    ASSUME NEW g, NEW s
    PROVE  s \in Inside(g, Once(g)) <=>
             \E m \in 1..Len(g) :
                /\ g[m].type \in Loops
                /\ \E n \in 1..Len(g[m].graph), i \in 0..g[m].times - 1 :
                   /\ g[m].graph[n].type \in Loops
                   /\ \E l \in 1..Len(g[m].graph[n].graph),
                         j \in 0..g[m].graph[n].times - 1 :
                         s = <<<<m, i>>, <<n, j>>, <<l, 0>>>>
<1>1. ASSUME NEW m \in 1..Len(g), NEW n \in 1..Len(g[m].graph), NEW i
      PROVE  NodeAt(g, Path(<<<<m, i>>, <<n, 0>>>>)) = g[m].graph[n]
  <2>. DEFINE q == <<<<m, i>>, <<n, 0>>>>
  <2>1. Len(q) = 2 /\ q[1][1] = m /\ q[2][1] = n
    OBVIOUS
  <2>. HIDE DEF q
  <2>4. Len(q) \in Nat
    BY <2>1
  <2>5. NodeAt(g, Path(q)) = NodeOn(g, Path(q), Len(q))
    BY <2>4, NodeAtPath
  <2>3. NodeAt(g, Path(q)) = NodeOn(g, Path(q), 2)
    BY <2>1, <2>5
  <2>2. NodeAt(g, Path(q)) = g[m].graph[n]
    BY <2>1, <2>3, PathOfTwo
  <2> QED
    BY <2>2 DEF q
<1>2. ASSUME s \in Inside(g, Once(g))
      PROVE  \E m \in 1..Len(g) :
                /\ g[m].type \in Loops
                /\ \E n \in 1..Len(g[m].graph), i \in 0..g[m].times - 1 :
                   /\ g[m].graph[n].type \in Loops
                   /\ \E l \in 1..Len(g[m].graph[n].graph),
                         j \in 0..g[m].graph[n].times - 1 :
                         s = <<<<m, i>>, <<n, j>>, <<l, 0>>>>
  <2>1. PICK q \in Once(g) :
                /\ NodeAt(g, Path(q)).type \in Loops
                /\ \E l \in 1..Len(NodeAt(g, Path(q)).graph),
                      j \in 0..NodeAt(g, Path(q)).times - 1 :
                      s = InLoop(q, j, l)
    BY <1>2, InsideIs
  <2>2. PICK m \in 1..Len(g) :
                /\ g[m].type \in Loops
                /\ \E n \in 1..Len(g[m].graph), i \in 0..g[m].times - 1 :
                      q = <<<<m, i>>, <<n, 0>>>>
    BY OnceIs
  <2>3. PICK n \in 1..Len(g[m].graph), i \in 0..g[m].times - 1 :
                      q = <<<<m, i>>, <<n, 0>>>>
    BY <2>2
  <2>4. NodeAt(g, Path(q)) = g[m].graph[n]
    BY <1>1, <2>3
  <2>5. PICK l \in 1..Len(g[m].graph[n].graph),
             j \in 0..g[m].graph[n].times - 1 :
            s = InLoop(q, j, l)
    BY <2>1, <2>4
  <2>6. s = <<<<m, i>>, <<n, j>>, <<l, 0>>>>
    BY <2>3, <2>5, InsideTwo
  <2> QED
    BY <2>1, <2>2, <2>4, <2>6
<1>3. ASSUME NEW m \in 1..Len(g), g[m].type \in Loops,
             NEW n \in 1..Len(g[m].graph), NEW i \in 0..g[m].times - 1,
             g[m].graph[n].type \in Loops,
             NEW l \in 1..Len(g[m].graph[n].graph),
             NEW j \in 0..g[m].graph[n].times - 1,
             s = <<<<m, i>>, <<n, j>>, <<l, 0>>>>
      PROVE  s \in Inside(g, Once(g))
  <2>. DEFINE q == <<<<m, i>>, <<n, 0>>>>
  <2>1. q \in Once(g)
    BY <1>3, OnceIs
  <2>2. NodeAt(g, Path(q)) = g[m].graph[n]
    BY <1>1
  <2>3. s = InLoop(q, j, l)
    BY <1>3, InsideTwo
  <2>. HIDE DEF q
  <2> QED
    BY <1>3, <2>1, <2>2, <2>3, InsideIs
<1> QED
  BY <1>2, <1>3

LEMMA LeafOne ==
    ASSUME NEW g, Len(g) \in Nat, NEW m \in 1..Len(g), g[m].type \notin Loops
    PROVE  IsScope(g, <<<<m, 0>>>>)
<1>. DEFINE s == <<<<m, 0>>>>
<1>1. Len(s) = 1 /\ s[1] = <<m, 0>> /\ DOMAIN s = 1..1
  OBVIOUS
<1>8. s = [k \in DOMAIN s |-> s[k]]
  OBVIOUS
<1>. HIDE DEF s
<1>2. s[1][1] = m /\ s[1][2] = 0
  BY <1>1
<1>3. Steps(s)
  BY <1>1, <1>2, <1>8 DEF Steps
<1>4. GraphAt(g, Path(s), 1) = g
  BY GraphAtIs
<1>5. NodeOn(g, Path(s), 1) = g[m]
  BY <1>1, <1>2, PathOfOne
<1>6. ASSUME NEW k \in 1..Len(s)
      PROVE  /\ s[k][1] \in 1..Len(GraphAt(g, Path(s), k))
             /\ IF k < Len(s)
                THEN /\ NodeOn(g, Path(s), k).type \in Loops
                     /\ s[k][2] < NodeOn(g, Path(s), k).times
                ELSE NodeOn(g, Path(s), k).type \notin Loops /\ s[k][2] = 0
  <2>1. k = 1 /\ ~(k < Len(s))
    BY <1>1
  <2> QED
    BY <1>2, <1>4, <1>5, <2>1
<1>7. IsScope(g, s)
  BY <1>1, <1>3, <1>6 DEF IsScope
<1> QED
  BY <1>7 DEF s

LEMMA LeafTwo ==
    ASSUME NEW g, Len(g) \in Nat, NEW m \in 1..Len(g), g[m].type \in Loops,
           g[m].times \in Nat, NEW i \in 0..g[m].times - 1,
           Len(g[m].graph) \in Nat, NEW n \in 1..Len(g[m].graph),
           g[m].graph[n].type \notin Loops
    PROVE  IsScope(g, <<<<m, i>>, <<n, 0>>>>)
<1>. DEFINE s == <<<<m, i>>, <<n, 0>>>>
<1>1. Len(s) = 2 /\ s[1] = <<m, i>> /\ s[2] = <<n, 0>> /\ DOMAIN s = 1..2
  OBVIOUS
<1>8. s = [k \in DOMAIN s |-> s[k]]
  OBVIOUS
<1>. HIDE DEF s
<1>2. s[1][1] = m /\ s[1][2] = i /\ s[2][1] = n /\ s[2][2] = 0
  BY <1>1
<1>3. Steps(s)
  BY <1>1, <1>2, <1>8 DEF Steps
<1>5. NodeOn(g, Path(s), 1) = g[m] /\ NodeOn(g, Path(s), 2) = g[m].graph[n]
  BY <1>1, <1>2, PathOfTwo
<1>4. GraphAt(g, Path(s), 1) = g /\ GraphAt(g, Path(s), 2) = g[m].graph
  BY <1>5, GraphAtIs
<1>6. ASSUME NEW k \in 1..Len(s)
      PROVE  /\ s[k][1] \in 1..Len(GraphAt(g, Path(s), k))
             /\ IF k < Len(s)
                THEN /\ NodeOn(g, Path(s), k).type \in Loops
                     /\ s[k][2] < NodeOn(g, Path(s), k).times
                ELSE NodeOn(g, Path(s), k).type \notin Loops /\ s[k][2] = 0
  <2>1. (k = 1 /\ k < Len(s)) \/ (k = 2 /\ ~(k < Len(s)))
    BY <1>1
  <2>2. i < g[m].times
    OBVIOUS
  <2> QED
    BY <1>2, <1>4, <1>5, <2>1, <2>2
<1>7. IsScope(g, s)
  BY <1>1, <1>3, <1>6 DEF IsScope
<1> QED
  BY <1>7 DEF s

LEMMA LeafThree ==
    ASSUME NEW g, Len(g) \in Nat, NEW m \in 1..Len(g), g[m].type \in Loops,
           g[m].times \in Nat, NEW i \in 0..g[m].times - 1,
           NEW h, h = g[m].graph,
           Len(h) \in Nat, NEW n \in 1..Len(h), h[n].type \in Loops,
           h[n].times \in Nat, NEW j \in 0..h[n].times - 1,
           Len(h[n].graph) \in Nat, NEW l \in 1..Len(h[n].graph),
           h[n].graph[l].type \notin Loops
    PROVE  IsScope(g, <<<<m, i>>, <<n, j>>, <<l, 0>>>>)
<1>. DEFINE s == <<<<m, i>>, <<n, j>>, <<l, 0>>>>
<1>1. /\ Len(s) = 3 /\ DOMAIN s = 1..3
      /\ s[1] = <<m, i>> /\ s[2] = <<n, j>> /\ s[3] = <<l, 0>>
  OBVIOUS
<1>8. s = [k \in DOMAIN s |-> s[k]]
  OBVIOUS
<1>. HIDE DEF s
<1>2. /\ s[1][1] = m /\ s[1][2] = i /\ s[2][1] = n /\ s[2][2] = j
      /\ s[3][1] = l /\ s[3][2] = 0
  BY <1>1
<1>3. Steps(s)
  <2>1. m \in Nat /\ i \in Nat /\ n \in Nat /\ j \in Nat /\ l \in Nat
    OBVIOUS
  <2>2. ASSUME NEW k \in 1..Len(s)
        PROVE  /\ s[k][1] \in Nat /\ s[k][2] \in Nat
               /\ s[k] = <<s[k][1], s[k][2]>>
    <3>1. k = 1 \/ k = 2 \/ k = 3
      BY <1>1
    <3> QED
      BY <1>1, <1>2, <2>1, <3>1
  <2> QED
    BY <1>1, <1>8, <2>2 DEF Steps
<1>5. /\ NodeOn(g, Path(s), 1) = g[m] /\ NodeOn(g, Path(s), 2) = h[n]
      /\ NodeOn(g, Path(s), 3) = h[n].graph[l]
  BY <1>1, <1>2, PathOfThree
<1>4. /\ GraphAt(g, Path(s), 1) = g /\ GraphAt(g, Path(s), 2) = h
      /\ GraphAt(g, Path(s), 3) = h[n].graph
  BY <1>5, GraphAtIs
<1>6. ASSUME NEW k \in 1..Len(s)
      PROVE  /\ s[k][1] \in 1..Len(GraphAt(g, Path(s), k))
             /\ IF k < Len(s)
                THEN /\ NodeOn(g, Path(s), k).type \in Loops
                     /\ s[k][2] < NodeOn(g, Path(s), k).times
                ELSE NodeOn(g, Path(s), k).type \notin Loops /\ s[k][2] = 0
  <2>1. \/ k = 1 /\ k < Len(s)
        \/ k = 2 /\ k < Len(s)
        \/ k = 3 /\ ~(k < Len(s))
    BY <1>1
  <2>2. i < g[m].times /\ j < h[n].times
    OBVIOUS
  <2> QED
    BY <1>2, <1>4, <1>5, <2>1, <2>2
<1>7. IsScope(g, s)
  BY <1>1, <1>3, <1>6 DEF IsScope
<1> QED
  BY <1>7 DEF s

LEMMA LeavesAreScopes ==
    ASSUME NEW g, GoodGraph(g), NEW s \in Leaves(g)
    PROVE  IsScope(g, s)
<1>0. Len(s) \in Nat /\ NodeAt(g, Path(s)).type \notin Loops
  BY LeavesIs, OnceIs, TwiceIs DEF Top
<1>9. Len(g) \in Nat
  BY DEF GoodGraph, Body
<1>1. CASE s \in Top(g)
  <2>1. PICK m \in 1..Len(g) : s = <<<<m, 0>>>>
    BY <1>1 DEF Top
  <2>2. Len(s) = 1 /\ s[1][1] = m
    BY <2>1
  <2>3. NodeAt(g, Path(s)) = NodeOn(g, Path(s), 1)
    BY <1>0, <2>2, NodeAtPath
  <2>4. g[m].type \notin Loops
    BY <1>0, <2>2, <2>3, PathOfOne
  <2> QED
    BY <1>9, <2>1, <2>4, LeafOne
<1>2. CASE s \in Once(g)
  <2>1. PICK m \in 1..Len(g) :
                /\ g[m].type \in Loops
                /\ \E n \in 1..Len(g[m].graph), i \in 0..g[m].times - 1 :
                      s = <<<<m, i>>, <<n, 0>>>>
    BY <1>2, OnceIs
  <2>2. PICK n \in 1..Len(g[m].graph), i \in 0..g[m].times - 1 :
                      s = <<<<m, i>>, <<n, 0>>>>
    BY <2>1
  <2>3. Len(s) = 2 /\ s[1][1] = m /\ s[2][1] = n
    BY <2>2
  <2>4. NodeAt(g, Path(s)) = NodeOn(g, Path(s), 2)
    BY <1>0, <2>3, NodeAtPath
  <2>5. g[m].graph[n].type \notin Loops
    BY <1>0, <2>3, <2>4, PathOfTwo
  <2>6. g[m].times \in Nat /\ Len(g[m].graph) \in Nat
    BY <2>1 DEF GoodGraph, Body
  <2> QED
    BY <1>9, <2>1, <2>2, <2>5, <2>6, LeafTwo
<1>3. CASE s \in Inside(g, Once(g))
  <2>1. PICK m \in 1..Len(g) :
                /\ g[m].type \in Loops
                /\ \E n \in 1..Len(g[m].graph), i \in 0..g[m].times - 1 :
                   /\ g[m].graph[n].type \in Loops
                   /\ \E l \in 1..Len(g[m].graph[n].graph),
                         j \in 0..g[m].graph[n].times - 1 :
                         s = <<<<m, i>>, <<n, j>>, <<l, 0>>>>
    BY <1>3, TwiceIs
  <2>. DEFINE h == g[m].graph
  <2>2. PICK n \in 1..Len(h), i \in 0..g[m].times - 1 :
                   /\ h[n].type \in Loops
                   /\ \E l \in 1..Len(h[n].graph), j \in 0..h[n].times - 1 :
                         s = <<<<m, i>>, <<n, j>>, <<l, 0>>>>
    BY <2>1
  <2>3. PICK l \in 1..Len(h[n].graph), j \in 0..h[n].times - 1 :
                         s = <<<<m, i>>, <<n, j>>, <<l, 0>>>>
    BY <2>2
  <2>4. g[m].times \in Nat /\ Body(h)
    BY <2>1 DEF GoodGraph, Body
  <2>5. /\ Body(h[n].graph)
        /\ \A k \in 1..Len(h[n].graph) : h[n].graph[k].type \notin Loops
    BY <2>1, <2>2 DEF GoodGraph
  <2>. HIDE DEF h
  <2>6. /\ Len(h) \in Nat /\ h[n].times \in Nat /\ Len(h[n].graph) \in Nat
        /\ h[n].graph[l].type \notin Loops
    BY <2>2, <2>4, <2>5 DEF Body
  <2>7. h = g[m].graph
    BY DEF h
  <2> QED
    BY <1>9, <2>1, <2>2, <2>3, <2>4, <2>6, <2>7, LeafThree
<1> QED
  BY <1>1, <1>2, <1>3, LeavesIs

LEMMA ScopeOne ==
    ASSUME NEW p, p \in Seq(Levels), Len(p) = 1, p[1].loop_index = 0
    PROVE  Scope(p) = <<<<p[1].node, 0>>>>
<1>. DEFINE s == Scope(p)
            x == <<p[1].node, 0>>
            y == <<x>>
<1>1. s = [k \in 1..1 |-> s[k]] /\ s[1] = x
  BY ScopeOf DEF Scope
<1>2. y = [k \in 1..1 |-> y[k]] /\ y[1] = x
  OBVIOUS
<1>. HIDE DEF s, y, x
<1>3. s = y
  BY <1>1, <1>2
<1> QED
  BY <1>3 DEF s, y, x

LEMMA ScopeTwo ==
    ASSUME NEW p, p \in Seq(Levels), Len(p) = 2, p[2].loop_index = 0
    PROVE  Scope(p) = <<<<p[1].node, p[1].loop_index>>, <<p[2].node, 0>>>>
<1>. DEFINE s == Scope(p)
            w == <<p[1].node, p[1].loop_index>>
            x == <<p[2].node, 0>>
            y == <<w, x>>
<1>1. s = [k \in 1..2 |-> s[k]] /\ s[1] = w /\ s[2] = x
  BY ScopeOf DEF Scope
<1>2. y = [k \in 1..2 |-> y[k]] /\ y[1] = w /\ y[2] = x
  OBVIOUS
<1>. HIDE DEF s, y, x, w
<1>3. \A k \in 1..2 : s[k] = y[k]
  BY <1>1, <1>2
<1>4. s = y
  BY <1>1, <1>2, <1>3
<1> QED
  BY <1>4 DEF s, y, x, w

LEMMA ScopeThree ==
    ASSUME NEW p, p \in Seq(Levels), Len(p) = 3, p[3].loop_index = 0
    PROVE  Scope(p) = <<<<p[1].node, p[1].loop_index>>,
                        <<p[2].node, p[2].loop_index>>, <<p[3].node, 0>>>>
<1>. DEFINE s == Scope(p)
            v == <<p[1].node, p[1].loop_index>>
            w == <<p[2].node, p[2].loop_index>>
            x == <<p[3].node, 0>>
            y == <<v, w, x>>
<1>1. s = [k \in 1..3 |-> s[k]] /\ s[1] = v /\ s[2] = w /\ s[3] = x
  BY ScopeOf DEF Scope
<1>2. y = [k \in 1..3 |-> y[k]] /\ y[1] = v /\ y[2] = w /\ y[3] = x
  OBVIOUS
<1>. HIDE DEF s, y, x, w, v
<1>3. \A k \in 1..3 : s[k] = y[k]
  BY <1>1, <1>2
<1>4. s = y
  BY <1>1, <1>2, <1>3
<1> QED
  BY <1>4 DEF s, y, x, w, v

\* Where a thread does something that is no loop is the scope of a leaf.
LEMMA PlacesAreLeaves ==
    ASSUME NEW g, GoodGraph(g), NEW p, IsPlace(g, p),
           NodeAt(g, p).type \notin Loops
    PROVE  Scope(p) \in Leaves(g)
<1>. DEFINE s == Scope(p)
<1>1. /\ p \in Seq(Levels) /\ Len(p) \in 1..3
      /\ \A k \in 1..Len(p) :
          /\ p[k].node \in 1..Len(GraphAt(g, p, k))
          /\ IF k < Len(p)
             THEN /\ NodeOn(g, p, k).type \in Loops
                  /\ p[k].loop_index < NodeOn(g, p, k).times
             ELSE p[k].loop_index = 0
  BY DEF IsPlace
<1>2. NodeAt(g, Path(s)).type \notin Loops
  BY <1>1, ScopeNode
<1>3. \A k \in 1..Len(p) : p[k].loop_index \in Nat
  <2> TAKE k \in 1..Len(p)
  <2>1. p[k] \in Levels
    BY <1>1
  <2> QED
    BY <2>1 DEF Levels
<1>4. CASE Len(p) = 1
  <2>1. p[1].node \in 1..Len(g) /\ p[1].loop_index = 0
    BY <1>1, <1>4, GraphAtIs
  <2>2. s \in Top(g)
    BY <1>1, <1>4, <2>1, ScopeOne DEF Top
  <2> QED
    BY <1>2, <2>2, LeavesIs
<1>5. CASE Len(p) = 2
  <2>1. /\ p[1].node \in 1..Len(GraphAt(g, p, 1))
        /\ NodeOn(g, p, 1).type \in Loops
        /\ p[1].loop_index < NodeOn(g, p, 1).times
        /\ p[1].loop_index \in Nat
    BY <1>1, <1>3, <1>5
  <2>2. p[2].node \in 1..Len(GraphAt(g, p, 2)) /\ p[2].loop_index = 0
    BY <1>1, <1>5
  <2>. DEFINE m == p[1].node
              i == p[1].loop_index
              n == p[2].node
  <2>3. /\ m \in 1..Len(g) /\ g[m].type \in Loops /\ i < g[m].times
        /\ i \in Nat /\ n \in 1..Len(g[m].graph)
    <3>1. /\ GraphAt(g, p, 1) = g /\ NodeOn(g, p, 1) = g[m]
          /\ GraphAt(g, p, 2) = g[m].graph
      BY GraphAtIs, NodeOnIs
    <3> QED
      BY <2>1, <2>2, <3>1
  <2>4. s = <<<<m, i>>, <<n, 0>>>>
    BY <1>1, <1>5, <2>2, ScopeTwo
  <2>5. g[m].times \in Nat
    BY <2>3 DEF GoodGraph, Body
  <2>. HIDE DEF s, m, n, i
  <2>6. i \in 0..g[m].times - 1
    BY <2>3, <2>5
  <2>7. s \in Once(g)
    BY <2>3, <2>4, <2>6, OnceIs
  <2> QED
    BY <1>2, <2>7, LeavesIs DEF s
<1>6. CASE Len(p) = 3
  <2>1. /\ p[1].node \in 1..Len(GraphAt(g, p, 1))
        /\ NodeOn(g, p, 1).type \in Loops
        /\ p[1].loop_index < NodeOn(g, p, 1).times
        /\ p[1].loop_index \in Nat
    BY <1>1, <1>3, <1>6
  <2>2. /\ p[2].node \in 1..Len(GraphAt(g, p, 2))
        /\ NodeOn(g, p, 2).type \in Loops
        /\ p[2].loop_index < NodeOn(g, p, 2).times
        /\ p[2].loop_index \in Nat
    BY <1>1, <1>3, <1>6
  <2>8. p[3].node \in 1..Len(GraphAt(g, p, 3)) /\ p[3].loop_index = 0
    BY <1>1, <1>6
  <2>. DEFINE m == p[1].node
              i == p[1].loop_index
              n == p[2].node
              j == p[2].loop_index
              l == p[3].node
  <2>3. /\ m \in 1..Len(g) /\ g[m].type \in Loops /\ i < g[m].times
        /\ i \in Nat
    BY <2>1, GraphAtIs, NodeOnIs
  <2>9. /\ n \in 1..Len(g[m].graph) /\ g[m].graph[n].type \in Loops
        /\ j < g[m].graph[n].times /\ j \in Nat
    BY <2>2, GraphAtIs, NodeOnIs
  <2>10. l \in 1..Len(g[m].graph[n].graph)
    BY <2>8, GraphAtIs, NodeOnIs
  <2>4. s = <<<<m, i>>, <<n, j>>, <<l, 0>>>>
    BY <1>1, <1>6, <2>8, ScopeThree
  <2>5. g[m].times \in Nat /\ g[m].graph[n].times \in Nat
    BY <2>3, <2>9 DEF GoodGraph, Body
  <2>. HIDE DEF s, m, n, i, j, l
  <2>6. i \in 0..g[m].times - 1 /\ j \in 0..g[m].graph[n].times - 1
    BY <2>3, <2>5, <2>9
  <2>7. s \in Inside(g, Once(g))
    BY <2>3, <2>4, <2>6, <2>9, <2>10, TwiceIs
  <2> QED
    BY <1>2, <2>7, LeavesIs DEF s
<1> QED
  BY <1>1, <1>4, <1>5, <1>6

-----------------------------------------------------------------------------
(* A graph that runs is a good one.                                        *)

\* What holds of 0 and of the next of each holds up to n.
LEMMA UpTo ==
    ASSUME NEW n \in Nat, NEW S, 0 \in S,
           \A k \in 0..n - 1 : k \in S => k + 1 \in S
    PROVE  \A k \in 0..n : k \in S
<1>. DEFINE T == {k \in 0..n : k \notin S}
            R == OpToRel(<, Nat)
<1>1. SUFFICES ASSUME T # {}
               PROVE  FALSE
  OBVIOUS
<1>2. IsWellFoundedOn(R, Nat)
  BY NatLessThanWellFounded, Zenon
<1>3. T \subseteq Nat
  OBVIOUS
<1>4. PICK x \in T : \A y \in T : ~(<<y, x>> \in R)
  <2>. HIDE DEF T, R
  <2> QED
    BY <1>1, <1>2, <1>3, WFMin
<1>5. x # 0 /\ x \in 1..n /\ x - 1 \in 0..n - 1 /\ x - 1 + 1 = x
  OBVIOUS
<1>6. x - 1 \in T
  BY <1>5
<1>7. <<x - 1, x>> \in R
  <2>. DEFINE w == <<x - 1, x>>
  <2>1. w \in Nat \X Nat /\ w[1] < w[2]
    BY <1>3, <1>5
  <2>. HIDE DEF w
  <2>2. w \in R
    BY <2>1, Zenon DEF OpToRel
  <2> QED
    BY <2>2 DEF w
<1> QED
  BY <1>4, <1>6, <1>7

NodesOf(raw) ==
    CHOOSE nodes : nodes = [k \in 0..Len(raw) |->
        IF k = 0 THEN <<>> ELSE Kept(nodes[k - 1], raw[k])]

\* The first nodes of a graph, while they are normalized.
LEMMA NodesExist ==
    ASSUME NEW raw, Len(raw) \in Nat
    PROVE  /\ NodesOf(raw)[0] = <<>>
           /\ \A k \in 1..Len(raw) :
                 NodesOf(raw)[k] = Kept(NodesOf(raw)[k - 1], raw[k])
<1>. DEFINE n == Len(raw)
            D(f, k) == f = [i \in 0..k |->
                        IF i = 0 THEN <<>> ELSE Kept(f[i - 1], raw[i])]
            S == {k \in 0..n : \E f : D(f, k)}
<1>1. 0 \in S
  <2>. DEFINE f == [i \in 0..0 |-> <<>>]
  <2>1. D(f, 0)
    OBVIOUS
  <2>. HIDE DEF f, D
  <2> QED
    BY <2>1
<1>2. ASSUME NEW k \in 0..n - 1, k \in S
      PROVE  k + 1 \in S
  <2>1. PICK f : D(f, k)
    BY <1>2
  <2>. DEFINE h == [i \in 0..k + 1 |->
                      IF i <= k THEN f[i] ELSE Kept(f[k], raw[k + 1])]
  <2>2. ASSUME NEW i \in 0..k + 1
        PROVE  h[i] = IF i = 0 THEN <<>> ELSE Kept(h[i - 1], raw[i])
    <3>1. CASE i = k + 1
      <4>1. h[i] = Kept(f[k], raw[k + 1])
        BY <3>1
      <4>2. h[i - 1] = f[k]
        BY <3>1
      <4> QED
        BY <3>1, <4>1, <4>2
    <3>2. CASE i = 0
      BY <2>1, <3>2
    <3>3. CASE i \in 1..k
      <4>1. h[i] = f[i] /\ h[i - 1] = f[i - 1]
        BY <3>3
      <4>2. f[i] = Kept(f[i - 1], raw[i])
        BY <2>1, <3>3
      <4> QED
        BY <3>3, <4>1, <4>2
    <3> QED
      BY <3>1, <3>2, <3>3
  <2>3. D(h, k + 1)
    <3>1. h = [i \in 0..k + 1 |-> h[i]]
      OBVIOUS
    <3>. HIDE DEF h
    <3> QED
      BY <2>2, <3>1
  <2>4. k + 1 \in 0..n
    OBVIOUS
  <2>. HIDE DEF h, D
  <2> QED
    BY <2>3, <2>4
<1>3. n \in S
  <2>1. n \in Nat /\ n \in 0..n
    OBVIOUS
  <2>. HIDE DEF S, n
  <2> QED
    BY <1>1, <1>2, <2>1, UpTo
<1>4. PICK f : D(f, n)
  BY <1>3
<1>5. D(NodesOf(raw), n)
  BY <1>4 DEF NodesOf
<1>. DEFINE N == NodesOf(raw)
<1>. HIDE DEF N
<1>6. N = [i \in 0..n |-> IF i = 0 THEN <<>> ELSE Kept(N[i - 1], raw[i])]
  BY <1>5 DEF N
<1>7. /\ N[0] = <<>>
      /\ \A k \in 1..n : N[k] = Kept(N[k - 1], raw[k])
  BY <1>6
<1> QED
  BY <1>7 DEF N

LEMMA NormalizedIs ==
    ASSUME NEW raw
    PROVE  normalize_execution_graph(raw) = NodesOf(raw)[Len(raw)]
  BY DEF normalize_execution_graph, NodesOf

\* The nodes of a graph in which each depends on nodes before it.
InOrder(nodes) ==
    \A n \in 1..Len(nodes) :
        nodes[n].depends_on \subseteq {nodes[m].id : m \in 1..n - 1}

LEMMA KeptInOrder ==
    ASSUME NEW G, NEW nodes \in Seq(Nodes(G)), InOrder(nodes),
           NEW node \in Nodes(G)
    PROVE  Kept(nodes, node) \in Seq(Nodes(G)) /\ InOrder(Kept(nodes, node))
<1>. DEFINE new == [node EXCEPT !.depends_on = @ \cap Ids(nodes)]
            more == Append(nodes, new)
<1>1. new \in Nodes(G)
  BY DEF Nodes
<1>2. new.depends_on \subseteq Ids(nodes)
  BY DEF Nodes
<1>. HIDE DEF new
<1>3. /\ more \in Seq(Nodes(G)) /\ Len(more) = Len(nodes) + 1
      /\ more[Len(nodes) + 1] = new
      /\ \A n \in 1..Len(nodes) : more[n] = nodes[n]
  BY <1>1
<1>. HIDE DEF more
<1>4. InOrder(more)
  <2> SUFFICES ASSUME NEW n \in 1..Len(more)
               PROVE  more[n].depends_on \subseteq
                          {more[m].id : m \in 1..n - 1}
    BY DEF InOrder
  <2>1. \A m \in 1..n - 1 : more[m] = nodes[m]
    BY <1>3
  <2>2. {more[m].id : m \in 1..n - 1} = {nodes[m].id : m \in 1..n - 1}
    BY <2>1
  <2>3. CASE n \in 1..Len(nodes)
    BY <1>3, <2>2, <2>3 DEF InOrder
  <2>4. CASE n = Len(nodes) + 1
    <3>1. n - 1 = Len(nodes)
      BY <2>4
    <3> QED
      BY <1>2, <1>3, <2>2, <2>4, <3>1 DEF Ids
  <2> QED
    BY <1>3, <2>3, <2>4
<1> QED
  BY <1>3, <1>4 DEF Kept, more, new

LEMMA NormalizedInOrder ==
    ASSUME NEW G, NEW raw \in Seq(Nodes(G))
    PROVE  /\ normalize_execution_graph(raw) \in Seq(Nodes(G))
           /\ InOrder(normalize_execution_graph(raw))
<1>. DEFINE n == Len(raw)
            N == NodesOf(raw)
            S == {k \in 0..n : N[k] \in Seq(Nodes(G)) /\ InOrder(N[k])}
<1>0. n \in Nat /\ \A k \in 1..n : raw[k] \in Nodes(G)
  OBVIOUS
<1>1. /\ N[0] = <<>>
      /\ \A k \in 1..n : N[k] = Kept(N[k - 1], raw[k])
  BY <1>0, NodesExist
<1>. HIDE DEF N, n
<1>2. 0 \in S
  <2>1. InOrder(<<>>)
    BY DEF InOrder
  <2>2. <<>> \in Seq(Nodes(G))
    OBVIOUS
  <2>3. 0 \in 0..n
    BY <1>0
  <2> QED
    BY <1>1, <2>1, <2>2, <2>3
<1>3. ASSUME NEW k \in 0..n - 1, k \in S
      PROVE  k + 1 \in S
  <2>1. /\ k + 1 \in 1..n /\ k + 1 - 1 = k /\ k + 1 \in 0..n
    BY <1>0
  <2>2. N[k + 1] = Kept(N[k], raw[k + 1])
    BY <1>1, <2>1
  <2>3. N[k] \in Seq(Nodes(G)) /\ InOrder(N[k])
    BY <1>3
  <2>4. N[k + 1] \in Seq(Nodes(G)) /\ InOrder(N[k + 1])
    BY <1>0, <2>1, <2>2, <2>3, KeptInOrder
  <2> QED
    BY <2>1, <2>4
<1>4. n \in S
  <2>1. n \in 0..n
    BY <1>0
  <2>. HIDE DEF S
  <2> QED
    BY <1>0, <1>2, <1>3, <2>1, UpTo
<1>5. N[n] \in Seq(Nodes(G)) /\ InOrder(N[n])
  BY <1>4
<1> QED
  BY <1>5, NormalizedIs DEF N, n

LEMMA WithLoopsIs ==
    ASSUME NEW G, NEW nodes \in Seq(Nodes(G)), InOrder(nodes), NEW graphs,
           \A n \in 1..Len(nodes) :
              nodes[n].type \in Loops => graphs[n] \in G
    PROVE  LET new == WithLoops(nodes, graphs)
           IN /\ new \in Seq(Nodes(G)) /\ InOrder(new)
              /\ \A n \in 1..Len(new) :
                    /\ n \in 1..Len(nodes)
                    /\ new[n].type = nodes[n].type
                    /\ new[n].type \in Loops => new[n].graph = graphs[n]
<1>. DEFINE new == WithLoops(nodes, graphs)
<1>1. Len(nodes) \in Nat /\ \A n \in 1..Len(nodes) : nodes[n] \in Nodes(G)
  OBVIOUS
<1>2. /\ new = [n \in 1..Len(nodes) |-> new[n]]
      /\ \A n \in 1..Len(nodes) :
           new[n] = IF nodes[n].type \in Loops
                    THEN [nodes[n] EXCEPT !.graph = graphs[n]] ELSE nodes[n]
  BY DEF WithLoops
<1>. HIDE DEF new
<1>3. ASSUME NEW n \in 1..Len(nodes)
      PROVE  /\ new[n] \in Nodes(G) /\ new[n].id = nodes[n].id
             /\ new[n].depends_on = nodes[n].depends_on
             /\ new[n].type = nodes[n].type
             /\ new[n].type \in Loops => new[n].graph = graphs[n]
  <2>1. nodes[n] \in Nodes(G)
    BY <1>1
  <2> QED
    BY <1>2, <2>1 DEF Nodes
<1>4. new \in Seq(Nodes(G)) /\ Len(new) = Len(nodes)
  BY <1>1, <1>2, <1>3
<1>5. InOrder(new)
  <2> SUFFICES ASSUME NEW n \in 1..Len(nodes)
               PROVE  new[n].depends_on \subseteq
                          {new[m].id : m \in 1..n - 1}
    BY <1>4 DEF InOrder
  <2>1. {new[m].id : m \in 1..n - 1} = {nodes[m].id : m \in 1..n - 1}
    BY <1>1, <1>3
  <2> QED
    BY <1>3, <2>1 DEF InOrder
<1> QED
  BY <1>3, <1>4, <1>5 DEF new

LEMMA Normal1InOrder ==
    ASSUME NEW G, NEW raw \in Seq(Nodes(Seq(Nodes(G))))
    PROVE  LET new == Normal1(raw)
           IN /\ new \in Seq(Nodes(Seq(Nodes(G)))) /\ InOrder(new)
              /\ \A n \in 1..Len(new) : new[n].type \in Loops =>
                    new[n].graph \in Seq(Nodes(G)) /\ InOrder(new[n].graph)
<1>. DEFINE H == Seq(Nodes(G))
            nodes == normalize_execution_graph(raw)
            graphs == [n \in 1..Len(nodes) |->
                         normalize_execution_graph(nodes[n].graph)]
            new == WithLoops(nodes, graphs)
<1>1. nodes \in Seq(Nodes(H)) /\ InOrder(nodes)
  BY NormalizedInOrder
<1>. HIDE DEF nodes
<1>2. ASSUME NEW n \in 1..Len(nodes)
      PROVE  graphs[n] \in H /\ InOrder(graphs[n])
  <2>1. nodes[n] \in Nodes(H)
    BY <1>1
  <2>2. nodes[n].graph \in Seq(Nodes(G))
    BY <2>1 DEF Nodes
  <2>3. graphs[n] = normalize_execution_graph(nodes[n].graph)
    OBVIOUS
  <2> QED
    BY <2>2, <2>3, NormalizedInOrder
<1>3. new = Normal1(raw)
  BY DEF Normal1, nodes
<1>. HIDE DEF graphs, H
<1>4. /\ new \in Seq(Nodes(H)) /\ InOrder(new)
      /\ \A n \in 1..Len(new) :
            /\ n \in 1..Len(nodes)
            /\ new[n].type = nodes[n].type
            /\ new[n].type \in Loops => new[n].graph = graphs[n]
  BY <1>1, <1>2, WithLoopsIs
<1>. HIDE DEF new
<1>5. \A n \in 1..Len(new) : new[n].type \in Loops =>
         new[n].graph \in H /\ InOrder(new[n].graph)
  BY <1>2, <1>4
<1> QED
  BY <1>3, <1>4, <1>5 DEF H

LEMMA NormalGraphInOrder ==
    ASSUME NEW raw \in StoredGraphs
    PROVE  LET new == NormalGraph(raw)
           IN /\ new \in StoredGraphs /\ InOrder(new)
              /\ \A n \in 1..Len(new) : new[n].type \in Loops =>
                 /\ new[n].graph \in Seq(Nodes(Seq(Nodes({<<>>}))))
                 /\ InOrder(new[n].graph)
                 /\ \A m \in 1..Len(new[n].graph) :
                       new[n].graph[m].type \in Loops =>
                          /\ new[n].graph[m].graph \in Seq(Nodes({<<>>}))
                          /\ InOrder(new[n].graph[m].graph)
<1>. DEFINE G == {<<>>}
            H == Seq(Nodes(Seq(Nodes(G))))
            nodes == normalize_execution_graph(raw)
            graphs == [n \in 1..Len(nodes) |-> Normal1(nodes[n].graph)]
            new == WithLoops(nodes, graphs)
            Fine(h) ==
                 /\ h \in Seq(Nodes(Seq(Nodes(G)))) /\ InOrder(h)
                 /\ \A m \in 1..Len(h) : h[m].type \in Loops =>
                       h[m].graph \in Seq(Nodes(G)) /\ InOrder(h[m].graph)
<1>1. nodes \in Seq(Nodes(H)) /\ InOrder(nodes)
  BY NormalizedInOrder DEF StoredGraphs
<1>. HIDE DEF nodes, G
<1>2. ASSUME NEW n \in 1..Len(nodes)
      PROVE  graphs[n] \in H /\ Fine(graphs[n])
  <2>1. nodes[n] \in Nodes(H)
    BY <1>1
  <2>2. nodes[n].graph \in Seq(Nodes(Seq(Nodes(G))))
    BY <2>1 DEF Nodes
  <2>3. graphs[n] = Normal1(nodes[n].graph)
    OBVIOUS
  <2>4. Fine(Normal1(nodes[n].graph))
    BY <2>2, Normal1InOrder
  <2> QED
    BY <2>3, <2>4
<1>3. new = NormalGraph(raw)
  BY DEF NormalGraph, nodes
<1>. HIDE DEF graphs, H, Fine
<1>4. /\ new \in Seq(Nodes(H)) /\ InOrder(new)
      /\ \A n \in 1..Len(new) :
            /\ n \in 1..Len(nodes)
            /\ new[n].type = nodes[n].type
            /\ new[n].type \in Loops => new[n].graph = graphs[n]
  BY <1>1, <1>2, WithLoopsIs
<1>. HIDE DEF new
<1>5. \A n \in 1..Len(new) : new[n].type \in Loops => Fine(new[n].graph)
  BY <1>2, <1>4
<1>6. new \in StoredGraphs
  BY <1>4 DEF StoredGraphs, H, G
<1> QED
  BY <1>3, <1>4, <1>5, <1>6 DEF Fine, G

LEMMA NestedIs ==
    ASSUME NEW graphs, NEW g \in graphs, NEW n \in 1..Len(g),
           g[n].type \in Loops
    PROVE  g[n].graph \in NestedGraphs(graphs)
  BY DEF NestedGraphs

LEMMA BodyIs ==
    ASSUME NEW G, NEW g \in Seq(Nodes(G)), g # <<>>, InOrder(g),
           \A n \in 1..Len(g) : g[n].type = "repeat" => g[n].times \in 1..20
    PROVE  Body(g)
<1>1. Len(g) \in Nat \ {0}
  BY EmptySeq
<1>2. ASSUME NEW n \in 1..Len(g)
      PROVE  /\ g[n].id \in Words /\ g[n].times \in Nat
             /\ g[n].inside \in BOOLEAN
  <2>1. g[n] \in Nodes(G)
    OBVIOUS
  <2> QED
    BY <2>1 DEF Nodes, Words
<1>3. \A n \in 1..Len(g) : g[n].type = "repeat" => g[n].times > 0
  <2> SUFFICES ASSUME NEW n \in 1..Len(g), g[n].type = "repeat"
               PROVE  g[n].times > 0
    OBVIOUS
  <2>1. g[n].times \in 1..20
    OBVIOUS
  <2> QED
    BY <2>1
<1>4. \A n \in 1..Len(g) :
         g[n].depends_on \subseteq {g[m].id : m \in 1..n - 1}
  BY DEF InOrder
<1> QED
  BY <1>1, <1>2, <1>3, <1>4 DEF Body

LEMMA NormalGraphIsGood ==
    ASSUME NEW raw \in StoredGraphs, NEW g, g = NormalGraph(raw),
           g # <<>>, HasNoContractErrors(g)
    PROVE  GoodGraph(g)
<1>. DEFINE G == {<<>>}
            once == NestedGraphs({g})
            twice == NestedGraphs(once)
<1>1. /\ g \in StoredGraphs /\ InOrder(g)
      /\ \A n \in 1..Len(g) : g[n].type \in Loops =>
                 /\ g[n].graph \in Seq(Nodes(Seq(Nodes({<<>>}))))
                 /\ InOrder(g[n].graph)
                 /\ \A m \in 1..Len(g[n].graph) :
                       g[n].graph[m].type \in Loops =>
                          /\ g[n].graph[m].graph \in Seq(Nodes({<<>>}))
                          /\ InOrder(g[n].graph[m].graph)
  BY NormalGraphInOrder
<1>2. /\ NestedGraphs(twice) = {}
      /\ \A h \in {g} \cup once \cup twice : \A n \in 1..Len(h) :
             /\ h[n].type \in Loops => h[n].graph # <<>>
             /\ h[n].type = "repeat" => h[n].times \in 1..20
  BY DEF HasNoContractErrors
<1>. HIDE DEF once, twice
<1>3. Body(g)
  BY <1>1, <1>2, BodyIs DEF StoredGraphs
<1>4. ASSUME NEW n \in 1..Len(g), g[n].type \in Loops
      PROVE  /\ Body(g[n].graph)
             /\ \A m \in 1..Len(g[n].graph) :
                   g[n].graph[m].type \in Loops =>
                      /\ Body(g[n].graph[m].graph)
                      /\ \A l \in 1..Len(g[n].graph[m].graph) :
                            g[n].graph[m].graph[l].type \notin Loops
  <2>. DEFINE h == g[n].graph
  <2>1. h \in once
    BY <1>4, NestedIs DEF once
  <2>2. /\ h \in Seq(Nodes(Seq(Nodes({<<>>})))) /\ InOrder(h)
        /\ \A m \in 1..Len(h) : h[m].type \in Loops =>
              h[m].graph \in Seq(Nodes({<<>>})) /\ InOrder(h[m].graph)
    BY <1>1, <1>4
  <2>3. h # <<>>
    BY <1>2, <1>4
  <2>. HIDE DEF h
  <2>4. Body(h)
    BY <1>2, <2>1, <2>2, <2>3, BodyIs
  <2>5. ASSUME NEW m \in 1..Len(h), h[m].type \in Loops
        PROVE  /\ Body(h[m].graph)
               /\ \A l \in 1..Len(h[m].graph) :
                     h[m].graph[l].type \notin Loops
    <3>. DEFINE j == h[m].graph
    <3>1. j \in twice
      BY <2>1, <2>5, NestedIs DEF twice
    <3>2. j \in Seq(Nodes({<<>>})) /\ InOrder(j) /\ j # <<>>
      BY <1>2, <2>1, <2>2, <2>5
    <3>. HIDE DEF j
    <3>3. Body(j)
      BY <1>2, <3>1, <3>2, BodyIs
    <3>4. ASSUME NEW l \in 1..Len(j), j[l].type \in Loops
          PROVE  FALSE
      BY <1>2, <3>1, <3>4, NestedIs
    <3> QED
      BY <3>3, <3>4 DEF j
  <2> QED
    BY <2>4, <2>5 DEF h
<1> QED
  BY <1>3, <1>4 DEF GoodGraph

-----------------------------------------------------------------------------
(* Where a run goes next.                                                  *)

LEMMA OnwardIs ==
    ASSUME NEW g, NEW p, Len(p) \in 1..3
    PROVE  \/ Onward(g, p) = <<>> /\ Open(g, p) = {}
           \/ \E k \in Open(g, p) :
                 /\ \A j \in k + 1..Len(p) : j \notin Open(g, p)
                 /\ \/ MoreTurns(g, p, k) /\ Onward(g, p) = NextTurn(p, k)
                    \/ /\ MoreNodes(g, p, k) /\ ~MoreTurns(g, p, k)
                       /\ Onward(g, p) = NextNode(g, p, k)
<1>1. CASE Open(g, p) = {}
  BY <1>1 DEF Onward
<1>2. CASE Open(g, p) # {}
  <2>. DEFINE O == Open(g, p)
              last == CHOOSE k \in O : \A j \in O : j <= k
  <2>1. O \subseteq {1, 2, 3} /\ O \subseteq 1..Len(p)
    BY DEF Open
  <2>2. \E k \in O : \A j \in O : j <= k
    <3>. HIDE DEF O
    <3>1. CASE 3 \in O
      BY <2>1, <3>1
    <3>2. CASE 3 \notin O /\ 2 \in O
      BY <2>1, <3>2
    <3>3. CASE 3 \notin O /\ 2 \notin O
      BY <1>2, <2>1, <3>3 DEF O
    <3> QED
      BY <3>1, <3>2, <3>3
  <2>3. last \in O /\ \A j \in O : j <= last
    <3>. HIDE DEF O
    <3> QED
      BY <2>2
  <2>4. \A j \in last + 1..Len(p) : j \notin O
    <3>. HIDE DEF last, O
    <3> QED
      BY <2>1, <2>3
  <2>5. MoreNodes(g, p, last) \/ MoreTurns(g, p, last)
    BY <2>3 DEF Open
  <2>6. Onward(g, p) = IF MoreTurns(g, p, last) THEN NextTurn(p, last)
                       ELSE NextNode(g, p, last)
    BY <1>2 DEF Onward
  <2>. HIDE DEF last
  <2> QED
    BY <2>3, <2>4, <2>5, <2>6
<1> QED
  BY <1>1, <1>2

LEMMA LevelIs ==
    ASSUME NEW n \in Nat, NEW outputs \in SUBSET Words
    PROVE  /\ Level(n, outputs) \in Levels
           /\ Level(n, outputs).node = n
           /\ Level(n, outputs).node_outputs = outputs
           /\ Level(n, outputs).kind = "leaf"
           /\ Level(n, outputs).mark = "none"
           /\ Level(n, outputs).loop_index = 0
           /\ Level(n, outputs).completed_results = 0
<1>2. Level(n, outputs) \in Levels
  BY DEF Level, Levels, Marks
<1>3. /\ Level(n, outputs).node = n
      /\ Level(n, outputs).node_outputs = outputs
      /\ Level(n, outputs).kind = "leaf"
  BY DEF Level
<1>4. /\ Level(n, outputs).mark = "none"
      /\ Level(n, outputs).loop_index = 0
      /\ Level(n, outputs).completed_results = 0
  BY DEF Level
<1> QED
  BY <1>2, <1>3, <1>4

LEMMA TurnedIs ==
    ASSUME NEW level \in Levels
    PROVE  /\ Turned(level) \in Levels
           /\ Turned(level).node = level.node
           /\ Turned(level).node_outputs = level.node_outputs
           /\ Turned(level).kind = level.kind
           /\ Turned(level).mark = level.mark
           /\ Turned(level).loop_index = level.loop_index + 1
           /\ Turned(level).completed_results = level.completed_results + 1
<1>. DEFINE m == [level EXCEPT !.loop_index = @ + 1]
            new == [m EXCEPT !.completed_results = @ + 1]
<1>1. /\ m \in Levels /\ m.node = level.node
      /\ m.node_outputs = level.node_outputs /\ m.kind = level.kind
      /\ m.mark = level.mark /\ m.loop_index = level.loop_index + 1
      /\ m.completed_results = level.completed_results
  BY DEF Levels
<1>2. Turned(level) = new
  BY DEF Turned
<1>. HIDE DEF m
<1>3. /\ new \in Levels /\ new.node = m.node
      /\ new.node_outputs = m.node_outputs /\ new.kind = m.kind
      /\ new.mark = m.mark /\ new.loop_index = m.loop_index
      /\ new.completed_results = m.completed_results + 1
  BY <1>1 DEF Levels
<1>. HIDE DEF new
<1> QED
  BY <1>1, <1>2, <1>3

\* q goes to the next node of level k of p, or to its next iteration.
ToNode(g, p, k, q) ==
    /\ q \in Seq(Levels) /\ Len(q) = k
    /\ \A j \in 1..k - 1 : q[j] = p[j]
    /\ q[k].node = p[k].node + 1
    /\ q[k].node_outputs = p[k].node_outputs \cup {NodeOn(g, p, k).id}
    /\ q[k].kind = "leaf" /\ q[k].mark = "none"
    /\ q[k].loop_index = 0 /\ q[k].completed_results = 0

ToTurn(p, k, q) ==
    /\ q \in Seq(Levels) /\ Len(q) = k + 1
    /\ \A j \in 1..k - 1 : q[j] = p[j]
    /\ q[k].node = p[k].node
    /\ q[k].node_outputs = p[k].node_outputs
    /\ q[k].kind = p[k].kind /\ q[k].mark = p[k].mark
    /\ q[k].loop_index = p[k].loop_index + 1
    /\ q[k].completed_results = p[k].completed_results + 1
    /\ q[k + 1] = Level(1, {})

LEMMA NextNodeIs ==
    ASSUME NEW g, NEW p \in Seq(Levels), NEW k \in 1..Len(p),
           NodeOn(g, p, k).id \in Words, NEW q, q = NextNode(g, p, k)
    PROVE  ToNode(g, p, k, q)
<1>. DEFINE part == SubSeq(p, 1, k)
            new == Level(p[k].node + 1,
                         p[k].node_outputs \cup {NodeOn(g, p, k).id})
<1>1. p[k] \in Levels /\ Len(p) \in Nat
  OBVIOUS
<1>2. new \in Levels
  <2>1. /\ p[k].node + 1 \in Nat
        /\ p[k].node_outputs \cup {NodeOn(g, p, k).id} \in SUBSET Words
    BY <1>1 DEF Levels
  <2> QED
    BY <2>1, LevelIs
<1>3. /\ part \in Seq(Levels) /\ Len(part) = k
      /\ \A j \in 1..k : part[j] = p[j]
  BY <1>1, SubSeqProperties
<1>4. q = [part EXCEPT ![k] = new]
  <2>1. part[k] = p[k]
    BY <1>3
  <2>2. q = [part EXCEPT ![k] =
               Level(part[k].node + 1,
                     part[k].node_outputs \cup {NodeOn(g, p, k).id})]
    BY DEF NextNode
  <2>. HIDE DEF part
  <2> QED
    BY <2>1, <2>2
<1>5. /\ new.node = p[k].node + 1 /\ new.mark = "none"
      /\ new.node_outputs = p[k].node_outputs \cup {NodeOn(g, p, k).id}
      /\ new.kind = "leaf" /\ new.loop_index = 0
      /\ new.completed_results = 0
  BY DEF Level
<1>. HIDE DEF part, new
<1>6. /\ q \in Seq(Levels) /\ Len(q) = k /\ q[k] = new
      /\ \A j \in 1..k - 1 : q[j] = p[j]
  BY <1>2, <1>3, <1>4
<1> QED
  BY <1>5, <1>6 DEF ToNode

LEMMA NextTurnIs ==
    ASSUME NEW p \in Seq(Levels), NEW k \in 1..Len(p),
           NEW q, q = NextTurn(p, k)
    PROVE  ToTurn(p, k, q)
<1>. DEFINE part == SubSeq(p, 1, k)
            new == Turned(p[k])
            more == [part EXCEPT ![k] = new]
            first == Level(1, {})
<1>1. p[k] \in Levels /\ Len(p) \in Nat
  OBVIOUS
<1>2. new \in Levels /\ first \in Levels
  BY <1>1, LevelIs, TurnedIs
<1>3. /\ part \in Seq(Levels) /\ Len(part) = k
      /\ \A j \in 1..k : part[j] = p[j]
  BY <1>1, SubSeqProperties
<1>9. q = Append(more, first)
  BY <1>3 DEF NextTurn
<1>5. /\ new.node = p[k].node /\ new.node_outputs = p[k].node_outputs
      /\ new.kind = p[k].kind /\ new.mark = p[k].mark
      /\ new.loop_index = p[k].loop_index + 1
      /\ new.completed_results = p[k].completed_results + 1
  BY <1>1, TurnedIs
<1>. HIDE DEF part, new, first
<1>8. /\ more \in Seq(Levels) /\ Len(more) = k /\ more[k] = new
      /\ \A j \in 1..k - 1 : more[j] = p[j]
  BY <1>2, <1>3
<1>. HIDE DEF more
<1>6. /\ q \in Seq(Levels) /\ Len(q) = k + 1 /\ q[k] = new
      /\ q[k + 1] = first
      /\ \A j \in 1..k - 1 : q[j] = p[j]
  BY <1>2, <1>8, <1>9
<1> QED
  BY <1>5, <1>6 DEF first, ToTurn

\* A level of a place, and the graph it is in.
LEMMA PlaceLevel ==
    ASSUME NEW g, GoodGraph(g), NEW p, IsPlace(g, p), NEW k \in 1..Len(p)
    PROVE  /\ p \in Seq(Levels) /\ Len(p) \in 1..3 /\ k \in 1..3
           /\ p[k] \in Levels /\ p[k].node \in Nat /\ p[k].loop_index \in Nat
           /\ Body(GraphAt(g, p, k))
           /\ p[k].node \in 1..Len(GraphAt(g, p, k))
           /\ NodeOn(g, p, k).times \in Nat /\ NodeOn(g, p, k).id \in Words
           /\ k = 3 => NodeOn(g, p, k).type \notin Loops
<1>1. p \in Seq(Levels) /\ Len(p) \in 1..3 /\ k \in 1..3
  BY DEF IsPlace
<1>2. p[k] \in Levels
  BY <1>1
<1>3. p[k].node \in Nat /\ p[k].loop_index \in Nat
  BY <1>2 DEF Levels
<1>4. \A j \in 1..k - 1 : /\ p[j].node \in 1..Len(GraphAt(g, p, j))
                          /\ NodeOn(g, p, j).type \in Loops
  <2> TAKE j \in 1..k - 1
  <2>1. j \in 1..Len(p) /\ j < Len(p)
    BY <1>1
  <2> QED
    BY <2>1 DEF IsPlace
<1>5. p[k].node \in 1..Len(GraphAt(g, p, k))
  BY DEF IsPlace
<1>6. /\ Body(GraphAt(g, p, k))
      /\ k = 3 => NodeOn(g, p, k).type \notin Loops
  BY <1>1, <1>4, <1>5, GoodBodies
<1>7. NodeOn(g, p, k).times \in Nat /\ NodeOn(g, p, k).id \in Words
  BY <1>5, <1>6 DEF Body, NodeOn
<1> QED
  BY <1>1, <1>2, <1>3, <1>5, <1>6, <1>7

\* The loops a place is in.
LEMMA PlaceLoop ==
    ASSUME NEW g, NEW p, IsPlace(g, p), NEW k \in 1..Len(p), k < Len(p)
    PROVE  /\ NodeOn(g, p, k).type \in Loops /\ NodeOn(g, p, k).when
           /\ p[k].kind = NodeOn(g, p, k).type
           /\ p[k].loop_index < NodeOn(g, p, k).times
           /\ p[k].completed_results = p[k].loop_index
  BY DEF IsPlace

LEMMA NextNodePlace ==
    ASSUME NEW g, GoodGraph(g), NEW p, IsPlace(g, p), NEW k \in 1..Len(p),
           MoreNodes(g, p, k), NEW q, q = NextNode(g, p, k)
    PROVE  /\ IsPlace(g, q) /\ IsBefore(Scope(p), Scope(q))
           /\ Unmarked(p) => Unmarked(q)
<1>1. /\ p \in Seq(Levels) /\ Len(p) \in 1..3 /\ k \in 1..3
      /\ p[k].node \in Nat /\ p[k].loop_index \in Nat
      /\ Body(GraphAt(g, p, k))
      /\ p[k].node \in 1..Len(GraphAt(g, p, k))
      /\ NodeOn(g, p, k).id \in Words
  BY PlaceLevel
<1>2. /\ q \in Seq(Levels) /\ Len(q) = k
      /\ \A j \in 1..k - 1 : q[j] = p[j]
      /\ q[k].node = p[k].node + 1
      /\ q[k].node_outputs =
                    p[k].node_outputs \cup {NodeOn(g, p, k).id}
      /\ q[k].kind = "leaf" /\ q[k].mark = "none"
      /\ q[k].loop_index = 0 /\ q[k].completed_results = 0
  <2>1. ToNode(g, p, k, q)
    BY <1>1, NextNodeIs
  <2> QED
    BY <2>1 DEF ToNode
<1>3. ASSUME NEW j \in 1..k - 1
      PROVE  /\ GraphAt(g, q, j) = GraphAt(g, p, j)
             /\ NodeOn(g, q, j) = NodeOn(g, p, j)
  <2>1. j \in 1..3 /\ q[j].node = p[j].node
    BY <1>1, <1>2
  <2>2. \A i \in 1..j - 1 : q[i].node = p[i].node
    BY <1>1, <1>2
  <2> QED
    BY <2>1, <2>2, SameGraphs
<1>4. GraphAt(g, q, k) = GraphAt(g, p, k)
  <2>1. \A i \in 1..k - 1 : q[i].node = p[i].node
    BY <1>2
  <2> QED
    BY <1>1, <2>1, SameGraphs
<1>5. q[k].node \in 1..Len(GraphAt(g, q, k))
  BY <1>1, <1>2, <1>4 DEF MoreNodes, Body
<1>6. q[k].node_outputs =
         {GraphAt(g, q, k)[m].id : m \in 1..q[k].node - 1}
  <2>. DEFINE b == GraphAt(g, p, k)
              n == p[k].node
  <2>1. q[k].node_outputs = {b[m].id : m \in 1..n - 1} \cup {b[n].id}
    BY <1>2 DEF IsPlace, NodeOn
  <2>2. 1..q[k].node - 1 = 1..n - 1 \cup {n}
    BY <1>1, <1>2
  <2>. HIDE DEF b, n
  <2>3. {b[m].id : m \in 1..q[k].node - 1} =
           {b[m].id : m \in 1..n - 1} \cup {b[n].id}
    BY <2>2
  <2> QED
    BY <1>4, <2>1, <2>3 DEF b
<1>7. ASSUME NEW j \in 1..Len(q)
      PROVE  /\ q[j].node \in 1..Len(GraphAt(g, q, j))
             /\ q[j].node_outputs =
                  {GraphAt(g, q, j)[m].id : m \in 1..q[j].node - 1}
             /\ q[j].completed_results = q[j].loop_index
             /\ IF j < Len(q)
                THEN /\ NodeOn(g, q, j).type \in Loops
                     /\ q[j].kind = NodeOn(g, q, j).type
                     /\ NodeOn(g, q, j).when
                     /\ q[j].loop_index < NodeOn(g, q, j).times
                ELSE q[j].loop_index = 0 /\ q[j].kind = "leaf"
  <2>1. CASE j = k
    BY <1>2, <1>5, <1>6, <2>1
  <2>2. CASE j # k
    <3>1. j \in 1..k - 1 /\ j \in 1..Len(p) /\ j < Len(p) /\ j < Len(q)
      BY <1>1, <1>2, <2>2
    <3>2. q[j] = p[j]
      BY <1>2, <3>1
    <3>3. /\ p[j].node \in 1..Len(GraphAt(g, p, j))
          /\ p[j].node_outputs =
                  {GraphAt(g, p, j)[m].id : m \in 1..p[j].node - 1}
      BY <3>1 DEF IsPlace
    <3>4. /\ GraphAt(g, q, j) = GraphAt(g, p, j)
          /\ NodeOn(g, q, j) = NodeOn(g, p, j)
      BY <1>3, <3>1
    <3> QED
      BY <3>1, <3>2, <3>3, <3>4, PlaceLoop
  <2> QED
    BY <2>1, <2>2
<1>8. IsPlace(g, q)
  <2>1. Len(q) \in 1..3
    BY <1>1, <1>2
  <2> QED
    BY <1>2, <1>7, <2>1 DEF IsPlace
<1>9. Behind(Scope(p), Scope(q), k)
  <2>1. Len(Scope(p)) = Len(p) /\ Len(Scope(q)) = Len(q)
    BY <1>1, <1>2, ScopeOf
  <2>2. \A j \in 1..k - 1 : Scope(p)[j] = Scope(q)[j]
    <3> TAKE j \in 1..k - 1
    <3>1. j \in 1..Len(p) /\ j \in 1..Len(q) /\ q[j] = p[j]
      BY <1>1, <1>2
    <3>2. Scope(p)[j] = <<p[j].node, p[j].loop_index>>
      BY <1>1, <3>1, ScopeOf
    <3>3. Scope(q)[j] = <<q[j].node, q[j].loop_index>>
      BY <1>2, <3>1, ScopeOf
    <3> QED
      BY <3>1, <3>2, <3>3
  <2>3. Scope(p)[k][1] = p[k].node
    BY <1>1, ScopeOf
  <2>4. Scope(q)[k][1] = p[k].node + 1
    BY <1>1, <1>2, ScopeOf
  <2>5. k \in Nat /\ 1 <= k /\ k <= Len(p) /\ k <= Len(q)
    BY <1>1, <1>2
  <2> QED
    BY <1>1, <2>1, <2>2, <2>3, <2>4, <2>5 DEF Behind
<1>10. IsBefore(Scope(p), Scope(q))
  <2>1. Len(Scope(p)) \in Nat
    BY <1>1, ScopeOf
  <2> QED
    BY <1>9, <2>1, BeforeIsBehind
<1>11. ASSUME Unmarked(p)
       PROVE  Unmarked(q)
  <2> SUFFICES ASSUME NEW j \in 1..Len(q)
               PROVE  q[j].mark # "received"
    BY DEF Unmarked
  <2>1. CASE j = k
    BY <1>2, <2>1
  <2>2. CASE j # k
    <3>1. j \in 1..k - 1 /\ j \in 1..Len(p)
      BY <1>1, <1>2, <2>2
    <3> QED
      BY <1>2, <1>11, <3>1 DEF Unmarked
  <2> QED
    BY <2>1, <2>2
<1> QED
  BY <1>8, <1>10, <1>11

LEMMA NextTurnPlace ==
    ASSUME NEW g, GoodGraph(g), NEW p, IsPlace(g, p), NEW k \in 1..Len(p),
           MoreTurns(g, p, k), NEW q, q = NextTurn(p, k)
    PROVE  /\ IsPlace(g, q) /\ IsBefore(Scope(p), Scope(q))
           /\ Unmarked(p) => Unmarked(q)
<1>0. k < Len(p) /\ p[k].loop_index + 1 < NodeOn(g, p, k).times
  BY DEF MoreTurns
<1>16. k + 1 \in 1..3
  <2>. DEFINE n == Len(p)
  <2>1. n \in 1..3 /\ k \in 1..n /\ k < n
    BY <1>0 DEF IsPlace
  <2>. HIDE DEF n
  <2> QED
    BY <2>1
<1>1. /\ p \in Seq(Levels) /\ Len(p) \in 1..3 /\ k \in 1..3
      /\ p[k].node \in Nat /\ p[k].loop_index \in Nat
      /\ p[k].node \in 1..Len(GraphAt(g, p, k))
  BY PlaceLevel
<1>2. /\ q \in Seq(Levels) /\ Len(q) = k + 1
      /\ \A j \in 1..k - 1 : q[j] = p[j]
      /\ q[k].node = p[k].node
      /\ q[k].node_outputs = p[k].node_outputs
      /\ q[k].kind = p[k].kind /\ q[k].mark = p[k].mark
      /\ q[k].loop_index = p[k].loop_index + 1
      /\ q[k].completed_results = p[k].completed_results + 1
      /\ q[k + 1] = Level(1, {})
  <2>1. ToTurn(p, k, q)
    BY <1>1, NextTurnIs
  <2> QED
    BY <2>1 DEF ToTurn
<1>15. /\ q[k + 1].node = 1 /\ q[k + 1].node_outputs = {}
       /\ q[k + 1].kind = "leaf" /\ q[k + 1].mark = "none"
       /\ q[k + 1].loop_index = 0 /\ q[k + 1].completed_results = 0
  BY <1>2, LevelIs
<1>3. ASSUME NEW j \in 1..k
      PROVE  /\ GraphAt(g, q, j) = GraphAt(g, p, j)
             /\ NodeOn(g, q, j) = NodeOn(g, p, j)
  <2>1. j \in 1..3 /\ q[j].node = p[j].node
    BY <1>1, <1>2
  <2>2. \A i \in 1..j - 1 : q[i].node = p[i].node
    BY <1>1, <1>2
  <2> QED
    BY <2>1, <2>2, SameGraphs
<1>4. ASSUME NEW j \in 1..k
      PROVE  /\ q[j].node \in 1..Len(GraphAt(g, q, j))
             /\ q[j].node_outputs =
                  {GraphAt(g, q, j)[m].id : m \in 1..q[j].node - 1}
             /\ q[j].completed_results = q[j].loop_index
             /\ NodeOn(g, q, j).type \in Loops
             /\ q[j].kind = NodeOn(g, q, j).type
             /\ NodeOn(g, q, j).when
             /\ q[j].loop_index < NodeOn(g, q, j).times
  <2>0. j \in 1..Len(p) /\ j < Len(p)
    BY <1>0, <1>1
  <2>1. /\ p[j].node \in 1..Len(GraphAt(g, p, j))
        /\ p[j].node_outputs =
                  {GraphAt(g, p, j)[m].id : m \in 1..p[j].node - 1}
    BY <2>0 DEF IsPlace
  <2>2. /\ GraphAt(g, q, j) = GraphAt(g, p, j)
        /\ NodeOn(g, q, j) = NodeOn(g, p, j)
    BY <1>3
  <2>3. CASE j = k
    BY <1>0, <1>2, <2>0, <2>1, <2>2, <2>3, PlaceLoop
  <2>4. CASE j # k
    <3>1. q[j] = p[j]
      BY <1>1, <1>2, <2>4
    <3> QED
      BY <2>0, <2>1, <2>2, <3>1, PlaceLoop
  <2> QED
    BY <2>3, <2>4
<1>5. q[k + 1].node \in 1..Len(GraphAt(g, q, k + 1))
  <2>1. k + 1 \in 1..3
    BY <1>16
  <2>2. \A j \in 1..k + 1 - 1 : /\ q[j].node \in 1..Len(GraphAt(g, q, j))
                                /\ NodeOn(g, q, j).type \in Loops
    BY <1>1, <1>4
  <2>3. Body(GraphAt(g, q, k + 1))
    BY <2>1, <2>2, GoodBodies
  <2> QED
    BY <1>15, <2>3 DEF Body
<1>6. q[k + 1].node_outputs =
         {GraphAt(g, q, k + 1)[m].id : m \in 1..q[k + 1].node - 1}
  <2>1. 1..q[k + 1].node - 1 = {}
    BY <1>15
  <2> QED
    BY <1>15, <2>1
<1>7. ASSUME NEW j \in 1..Len(q)
      PROVE  /\ q[j].node \in 1..Len(GraphAt(g, q, j))
             /\ q[j].node_outputs =
                  {GraphAt(g, q, j)[m].id : m \in 1..q[j].node - 1}
             /\ q[j].completed_results = q[j].loop_index
             /\ IF j < Len(q)
                THEN /\ NodeOn(g, q, j).type \in Loops
                     /\ q[j].kind = NodeOn(g, q, j).type
                     /\ NodeOn(g, q, j).when
                     /\ q[j].loop_index < NodeOn(g, q, j).times
                ELSE q[j].loop_index = 0 /\ q[j].kind = "leaf"
  <2>1. CASE j = k + 1
    <3>1. ~(j < Len(q))
      BY <1>1, <1>2, <2>1
    <3> QED
      BY <1>5, <1>6, <1>15, <2>1, <3>1
  <2>2. CASE j # k + 1
    <3>1. j \in 1..k /\ j < Len(q)
      BY <1>1, <1>2, <2>2
    <3> QED
      BY <1>4, <3>1
  <2> QED
    BY <2>1, <2>2
<1>8. IsPlace(g, q)
  <2>1. Len(q) \in 1..3
    BY <1>2, <1>16
  <2> QED
    BY <1>2, <1>7, <2>1 DEF IsPlace
<1>9. Behind(Scope(p), Scope(q), k)
  <2>1. Len(Scope(p)) = Len(p) /\ Len(Scope(q)) = Len(q)
    BY <1>1, <1>2, ScopeOf
  <2>2. \A j \in 1..k - 1 : Scope(p)[j] = Scope(q)[j]
    <3> TAKE j \in 1..k - 1
    <3>1. j \in 1..Len(p) /\ j \in 1..Len(q) /\ q[j] = p[j]
      BY <1>1, <1>2
    <3>2. Scope(p)[j] = <<p[j].node, p[j].loop_index>>
      BY <1>1, <3>1, ScopeOf
    <3>3. Scope(q)[j] = <<q[j].node, q[j].loop_index>>
      BY <1>2, <3>1, ScopeOf
    <3> QED
      BY <3>1, <3>2, <3>3
  <2>3. Scope(p)[k][1] = p[k].node /\ Scope(p)[k][2] = p[k].loop_index
    BY <1>1, ScopeOf
  <2>6. k \in 1..Len(q)
    BY <1>1, <1>2
  <2>7. Scope(q)[k][1] = q[k].node /\ Scope(q)[k][2] = q[k].loop_index
    BY <1>2, <2>6, ScopeOf
  <2>4. Scope(q)[k][1] = p[k].node /\ Scope(q)[k][2] = p[k].loop_index + 1
    BY <1>2, <2>7
  <2>5. k \in Nat /\ 1 <= k /\ k <= Len(p) /\ k <= Len(q)
    BY <1>1, <1>2
  <2> QED
    BY <1>1, <2>1, <2>2, <2>3, <2>4, <2>5 DEF Behind
<1>10. IsBefore(Scope(p), Scope(q))
  <2>1. Len(Scope(p)) \in Nat
    BY <1>1, ScopeOf
  <2> QED
    BY <1>9, <2>1, BeforeIsBehind
<1>11. ASSUME Unmarked(p)
       PROVE  Unmarked(q)
  <2> SUFFICES ASSUME NEW j \in 1..Len(q)
               PROVE  q[j].mark # "received"
    BY DEF Unmarked
  <2>1. CASE j = k + 1
    BY <1>15, <2>1
  <2>2. CASE j = k
    BY <1>1, <1>2, <1>11, <2>2 DEF Unmarked
  <2>3. CASE j # k /\ j # k + 1
    <3>1. j \in 1..k - 1 /\ j \in 1..Len(p)
      BY <1>1, <1>2, <2>3
    <3> QED
      BY <1>2, <1>11, <3>1 DEF Unmarked
  <2> QED
    BY <2>1, <2>2, <2>3
<1> QED
  BY <1>8, <1>10, <1>11

LEMMA OnwardPlace ==
    ASSUME NEW g, GoodGraph(g), NEW p, IsPlace(g, p), NEW q,
           q = Onward(g, p), q # <<>>
    PROVE  /\ IsPlace(g, q) /\ IsBefore(Scope(p), Scope(q))
           /\ Unmarked(p) => Unmarked(q)
<1>1. Len(p) \in 1..3
  BY DEF IsPlace
<1>2. PICK k \in Open(g, p) :
                 \/ MoreTurns(g, p, k) /\ Onward(g, p) = NextTurn(p, k)
                 \/ MoreNodes(g, p, k) /\ Onward(g, p) = NextNode(g, p, k)
  BY <1>1, OnwardIs
<1>3. k \in 1..Len(p)
  BY DEF Open
<1> QED
  BY <1>2, <1>3, NextTurnPlace, NextNodePlace

\* A scope that agrees with a place above level k is in the same graph there.
LEMMA AgreeAbove ==
    ASSUME NEW g, NEW s, IsScope(g, s), NEW p, IsPlace(g, p),
           NEW k \in 1..Len(p), \A j \in 1..k - 1 : s[j] = Scope(p)[j]
    PROVE  /\ k <= Len(s) /\ s[k][1] \in Nat /\ s[k][2] \in Nat
           /\ s[k] = <<s[k][1], s[k][2]>>
           /\ s[k][1] \in 1..Len(GraphAt(g, p, k))
           /\ s[k][1] = p[k].node =>
                 /\ NodeOn(g, Path(s), k) = NodeOn(g, p, k)
                 /\ k < Len(p) => /\ k < Len(s)
                                  /\ s[k][2] < NodeOn(g, p, k).times
<1>. DEFINE n == Len(p)
            m == Len(s)
<1>1. /\ n \in 1..3 /\ k \in 1..n /\ m \in 1..3 /\ p \in Seq(Levels)
  BY DEF IsPlace, IsScope
<1>2. /\ k \in Nat
      /\ \A j \in 1..m : /\ s[j][1] \in Nat /\ s[j][2] \in Nat
                         /\ s[j] = <<s[j][1], s[j][2]>>
  BY DEF IsScope, Steps
<1>3. \A j \in 1..n : Scope(p)[j][1] = p[j].node
  BY <1>1, ScopeOf
<1>4. ASSUME NEW i \in 1..3, i <= m, i <= k
      PROVE  \A j \in 1..i - 1 : Path(s)[j].node = p[j].node
  <2> TAKE j \in 1..i - 1
  <2>1. j \in 1..m /\ j \in 1..n /\ j \in 1..k - 1
    <3>. HIDE DEF n, m
    <3> QED
      BY <1>1, <1>4
  <2>2. Path(s)[j].node = s[j][1]
    <3>1. Len(s) \in Nat
      BY <1>1
    <3> QED
      BY <2>1, <3>1, PathOf
  <2>3. s[j] = Scope(p)[j]
    BY <2>1
  <2> QED
    BY <1>3, <2>1, <2>2, <2>3
<1>5. k <= m
  <2> SUFFICES ASSUME ~(k <= m)
               PROVE  FALSE
    OBVIOUS
  <2>1. m \in 1..k - 1 /\ m \in 1..n /\ m < n
    <3>. HIDE DEF n, m
    <3> QED
      BY <1>1
  <2>2. s[m] = Scope(p)[m]
    BY <2>1
  <2>3. Path(s)[m].node = p[m].node
    <3>1. Len(s) \in Nat /\ m \in 1..Len(s)
      BY <1>1
    <3>2. Path(s)[m].node = s[m][1]
      BY <3>1, PathOf
    <3> QED
      BY <1>3, <2>1, <2>2, <3>2
  <2>4. NodeOn(g, Path(s), m) = NodeOn(g, p, m)
    <3>1. m \in 1..3 /\ m <= m /\ m <= k
      <4>. HIDE DEF n, m
      <4> QED
        BY <1>1, <2>1
    <3>2. \A j \in 1..m - 1 : Path(s)[j].node = p[j].node
      BY <1>4, <3>1
    <3> QED
      BY <2>3, <3>1, <3>2, SameGraphs
  <2>5. NodeOn(g, p, m).type \in Loops
    BY <2>1, PlaceLoop
  <2>6. NodeOn(g, Path(s), m).type \notin Loops
    <3>1. m \in 1..Len(s) /\ ~(m < Len(s))
      <4>1. m \in 1..m /\ ~(m < m)
        <5>. HIDE DEF m
        <5> QED
          BY <1>1
      <4> QED
        BY <4>1
    <3> QED
      BY <3>1 DEF IsScope
  <2> QED
    BY <2>4, <2>5, <2>6
<1>6. k \in 1..m /\ k \in 1..3
  <2>. HIDE DEF n, m
  <2> QED
    BY <1>1, <1>5
<1>7. \A j \in 1..k - 1 : Path(s)[j].node = p[j].node
  BY <1>2, <1>4, <1>5, <1>6
<1>8. GraphAt(g, Path(s), k) = GraphAt(g, p, k)
  BY <1>6, <1>7, SameGraphs
<1>9. s[k][1] \in 1..Len(GraphAt(g, p, k))
  BY <1>6, <1>8 DEF IsScope
<1>10. ASSUME s[k][1] = p[k].node
       PROVE  /\ NodeOn(g, Path(s), k) = NodeOn(g, p, k)
              /\ k < Len(p) => /\ k < Len(s)
                               /\ s[k][2] < NodeOn(g, p, k).times
  <2>1. Path(s)[k].node = p[k].node
    <3>1. Len(s) \in Nat
      BY <1>1
    <3> QED
      BY <1>6, <1>10, <3>1, PathOf
  <2>2. NodeOn(g, Path(s), k) = NodeOn(g, p, k)
    BY <1>6, <1>7, <2>1, SameGraphs
  <2>3. ASSUME k < Len(p)
        PROVE  k < Len(s) /\ s[k][2] < NodeOn(g, p, k).times
    <3>1. NodeOn(g, p, k).type \in Loops
      BY <2>3, PlaceLoop
    <3>2. k < Len(s)
      BY <1>6, <2>2, <3>1 DEF IsScope
    <3> QED
      BY <1>6, <2>2, <3>2 DEF IsScope
  <2> QED
    BY <2>2, <2>3
<1> QED
  BY <1>2, <1>5, <1>6, <1>9, <1>10

\* The node of a place, and what is in it.
Under(s, p) ==
    /\ Len(p) <= Len(s)
    /\ \A k \in 1..Len(p) - 1 : s[k] = Scope(p)[k]
    /\ s[Len(p)][1] = p[Len(p)].node

LEMMA ClosedLevel ==
    ASSUME NEW g, GoodGraph(g), NEW s, IsScope(g, s), NEW p, IsPlace(g, p),
           NEW k \in 1..Len(p), \A j \in 1..k - 1 : s[j] = Scope(p)[j],
           ~MoreNodes(g, p, k), ~MoreTurns(g, p, k)
    PROVE  \/ IsBefore(s, Scope(p))
           \/ k = Len(p) /\ Under(s, p)
           \/ k < Len(p) /\ s[k] = Scope(p)[k]
<1>. DEFINE n == Len(p)
            m == Len(s)
<1>1. /\ k <= m /\ s[k][1] \in Nat /\ s[k][2] \in Nat
      /\ s[k] = <<s[k][1], s[k][2]>>
      /\ s[k][1] \in 1..Len(GraphAt(g, p, k))
      /\ s[k][1] = p[k].node /\ k < n => s[k][2] < NodeOn(g, p, k).times
  BY AgreeAbove
<1>2. /\ n \in 1..3 /\ k \in 1..n /\ m \in 1..3 /\ p \in Seq(Levels)
  BY DEF IsPlace, IsScope
<1>3. /\ Scope(p)[k] = <<p[k].node, p[k].loop_index>>
      /\ Scope(p)[k][1] = p[k].node /\ Scope(p)[k][2] = p[k].loop_index
      /\ Len(Scope(p)) = n
  BY <1>2, ScopeOf
<1>4. /\ p[k].node \in Nat /\ p[k].loop_index \in Nat
      /\ Body(GraphAt(g, p, k)) /\ NodeOn(g, p, k).times \in Nat
      /\ p[k].node \in 1..Len(GraphAt(g, p, k))
  BY PlaceLevel
<1>5. s[k][1] <= p[k].node
  <2>1. ~(p[k].node < Len(GraphAt(g, p, k)))
    BY DEF MoreNodes
  <2>2. Len(GraphAt(g, p, k)) \in Nat
    BY <1>4 DEF Body
  <2>. DEFINE l == Len(GraphAt(g, p, k))
  <2>3. s[k][1] \in 1..l /\ ~(p[k].node < l) /\ l \in Nat
    BY <1>1, <2>1, <2>2
  <2>. HIDE DEF l
  <2> QED
    BY <1>4, <2>3
<1>6. ASSUME \/ s[k][1] < p[k].node
             \/ s[k][1] = p[k].node /\ s[k][2] < p[k].loop_index
      PROVE  IsBefore(s, Scope(p))
  <2>1. Behind(s, Scope(p), k)
    <3>1. k \in Nat /\ 1 <= k /\ k <= m /\ k <= n
      <4>. HIDE DEF n, m
      <4> QED
        BY <1>1, <1>2
    <3> QED
      BY <1>3, <1>6, <3>1 DEF Behind
  <2>2. Len(s) \in Nat
    BY <1>2
  <2> QED
    BY <2>1, <2>2, BeforeIsBehind
<1>7. CASE s[k][1] < p[k].node
  BY <1>6, <1>7
<1>8. CASE s[k][1] = p[k].node /\ k = n
  <2>1. k <= Len(s) /\ k = Len(p)
    BY <1>1, <1>8
  <2> QED
    BY <1>8, <2>1 DEF Under
<1>9. CASE s[k][1] = p[k].node /\ k < n
  <2>1. ~(p[k].loop_index + 1 < NodeOn(g, p, k).times)
    BY <1>9 DEF MoreTurns
  <2>2. s[k][2] <= p[k].loop_index
    BY <1>1, <1>4, <1>9, <2>1
  <2>3. CASE s[k][2] < p[k].loop_index
    BY <1>6, <1>9, <2>3
  <2>4. CASE s[k][2] = p[k].loop_index
    BY <1>1, <1>3, <1>9, <2>4
  <2> QED
    BY <1>1, <1>4, <2>2, <2>3, <2>4
<1>10. k = n \/ k < n
  <2>. HIDE DEF n
  <2> QED
    BY <1>2
<1> QED
  BY <1>1, <1>4, <1>5, <1>7, <1>8, <1>9, <1>10

LEMMA ClosedFrom ==
    ASSUME NEW g, GoodGraph(g), NEW s, IsScope(g, s), NEW p, IsPlace(g, p),
           NEW k \in 1..Len(p), \A j \in 1..k - 1 : s[j] = Scope(p)[j],
           \A j \in k..Len(p) : ~MoreNodes(g, p, j) /\ ~MoreTurns(g, p, j)
    PROVE  IsBefore(s, Scope(p)) \/ Under(s, p)
<1>. DEFINE n == Len(p)
            Agree(i) == i < n /\ \A j \in 1..i : s[j] = Scope(p)[j]
<1>1. n \in 1..3 /\ k \in 1..n
  BY DEF IsPlace
<1>2. SUFFICES ASSUME ~(IsBefore(s, Scope(p)) \/ Under(s, p))
               PROVE  FALSE
  OBVIOUS
<1>3. ASSUME NEW i \in k..n, \A j \in 1..i - 1 : s[j] = Scope(p)[j]
      PROVE  Agree(i)
  <2>1. i \in 1..Len(p) /\ i \in 1..n
    <3>1. i \in 1..n
      <4>. HIDE DEF n
      <4> QED
        BY <1>1
    <3> QED
      BY <3>1
  <2>2. ~MoreNodes(g, p, i) /\ ~MoreTurns(g, p, i)
    BY <1>3
  <2>3. i < n /\ s[i] = Scope(p)[i]
    BY <1>2, <1>3, <2>1, <2>2, ClosedLevel
  <2>4. \A j \in 1..i : j = i \/ j \in 1..i - 1
    BY <2>1
  <2> QED
    BY <1>3, <2>3, <2>4
<1>4. Agree(k)
  <2>1. k \in k..n
    <3>. HIDE DEF n
    <3> QED
      BY <1>1
  <2> QED
    BY <1>3, <2>1
<1>5. ASSUME NEW i \in k..n, Agree(i)
      PROVE  i + 1 \in k..n /\ Agree(i + 1)
  <2>1. i + 1 \in k..n /\ i + 1 - 1 = i
    <3>1. i < n
      BY <1>5
    <3>. HIDE DEF n
    <3> QED
      BY <1>1, <3>1
  <2>2. \A j \in 1..i + 1 - 1 : s[j] = Scope(p)[j]
    BY <1>5, <2>1
  <2> QED
    BY <1>3, <2>1, <2>2
<1>6. /\ k \in k..n /\ Agree(k)
      /\ k + 1 \in k..n /\ Agree(k + 1)
      /\ k + 1 + 1 \in k..n /\ Agree(k + 1 + 1)
  <2>1. k \in k..n
    <3>. HIDE DEF n
    <3> QED
      BY <1>1
  <2>. HIDE DEF n, Agree
  <2> QED
    BY <1>4, <1>5, <2>1
<1>7. k + 1 + 1 < n
  BY <1>6
<1> HIDE DEF n
<1> QED
  BY <1>1, <1>7

\* What comes before where a run goes next, comes before where it was, or is
\* the node it was at, or in it.
LEMMA OnwardPast ==
    ASSUME NEW g, GoodGraph(g), NEW s, IsScope(g, s), NEW p, IsPlace(g, p),
           NEW q, q = Onward(g, p), q = <<>> \/ IsBefore(s, Scope(q))
    PROVE  IsBefore(s, Scope(p)) \/ Under(s, p)
<1>. DEFINE n == Len(p)
<1>0. /\ n \in 1..3 /\ p \in Seq(Levels) /\ Steps(s) /\ Len(s) \in Nat
      /\ Len(s) >= 1
  BY DEF IsPlace, IsScope
<1>1. CASE Open(g, p) = {}
  <2>1. \A j \in 1..n : ~MoreNodes(g, p, j) /\ ~MoreTurns(g, p, j)
    BY <1>1 DEF Open
  <2>2. 1 \in 1..n
    <3>. HIDE DEF n
    <3> QED
      BY <1>0
  <2>3. \A j \in 1..1 - 1 : s[j] = Scope(p)[j]
    OBVIOUS
  <2> QED
    BY <2>1, <2>2, <2>3, ClosedFrom
<1>2. CASE Open(g, p) # {}
  <2>1. PICK k \in Open(g, p) :
                 /\ \A j \in k + 1..Len(p) : j \notin Open(g, p)
                 /\ \/ MoreTurns(g, p, k) /\ Onward(g, p) = NextTurn(p, k)
                    \/ /\ MoreNodes(g, p, k) /\ ~MoreTurns(g, p, k)
                       /\ Onward(g, p) = NextNode(g, p, k)
    BY <1>0, <1>2, OnwardIs
  <2>2. k \in 1..n
    BY DEF Open
  <2>3. \A j \in k + 1..n : ~MoreNodes(g, p, j) /\ ~MoreTurns(g, p, j)
    <3> TAKE j \in k + 1..n
    <3>1. j \in 1..n
      <4>. HIDE DEF n
      <4> QED
        BY <1>0, <2>2
    <3> QED
      BY <2>1, <3>1 DEF Open
  <2>4. ASSUME \A j \in 1..k : s[j] = Scope(p)[j], k < n
        PROVE  IsBefore(s, Scope(p)) \/ Under(s, p)
    <3>1. k + 1 \in 1..Len(p) /\ k + 1 - 1 = k
      <4>1. k + 1 \in 1..n /\ k + 1 - 1 = k
        <5>. HIDE DEF n
        <5> QED
          BY <1>0, <2>2, <2>4
      <4> QED
        BY <4>1
    <3>. DEFINE c == k + 1
    <3>3. c \in 1..Len(p)
      BY <3>1
    <3>2. c - 1 = k
      BY <2>2
    <3>4. \A j \in 1..c - 1 : s[j] = Scope(p)[j]
      <4>. HIDE DEF c
      <4> QED
        BY <2>4, <3>2
    <3>5. \A j \in c..Len(p) : ~MoreNodes(g, p, j) /\ ~MoreTurns(g, p, j)
      BY <2>3
    <3>. HIDE DEF c
    <3> QED
      BY <3>3, <3>4, <3>5, ClosedFrom
  <2>5. PICK i : Behind(s, Scope(q), i)
    <3>1. q # <<>>
      <4>1. ASSUME NEW x, Len(x) = 0, x = NextTurn(p, k)
            PROVE  FALSE
        <5>1. ToTurn(p, k, x)
          BY <1>0, <2>2, <4>1, NextTurnIs
        <5>2. Len(x) = k + 1
          BY <5>1 DEF ToTurn
        <5> QED
          BY <2>2, <4>1, <5>2
      <4>2. ASSUME NEW x, Len(x) = 0, x = NextNode(g, p, k)
            PROVE  FALSE
        <5>1. ToNode(g, p, k, x)
          BY <1>0, <2>2, <4>2, NextNodeIs, PlaceLevel
        <5>2. Len(x) = k
          BY <5>1 DEF ToNode
        <5> QED
          BY <2>2, <4>2, <5>2
      <4>3. Len(<<>>) = 0
        OBVIOUS
      <4> QED
        BY <2>1, <4>1, <4>2, <4>3
    <3> QED
      BY <1>0, <3>1, BeforeIsBehind
  <2>6. /\ i \in Nat /\ 1 <= i /\ i <= Len(s) /\ i <= Len(Scope(q))
        /\ \A j \in 1..i - 1 : s[j] = Scope(q)[j]
        /\ \/ s[i][1] < Scope(q)[i][1]
           \/ s[i][1] = Scope(q)[i][1] /\ s[i][2] < Scope(q)[i][2]
    BY <2>5 DEF Behind
  <2>7. s[i][1] \in Nat /\ s[i][2] \in Nat
    <3>1. i \in 1..Len(s)
      BY <1>0, <2>6
    <3> QED
      BY <1>0, <3>1 DEF Steps
  <2>8. IsPlace(g, q) /\ q \in Seq(Levels) /\ Len(Scope(q)) = Len(q)
    <3>1. IsPlace(g, q)
      BY <2>1, <2>2, NextTurnPlace, NextNodePlace
    <3> QED
      BY <3>1, ScopeOf DEF IsPlace
  <2>9. ASSUME NEW j \in 1..k - 1, q[j] = p[j], j \in 1..Len(q)
        PROVE  Scope(q)[j] = Scope(p)[j]
    <3>1. j \in 1..Len(p)
      <4>1. j \in 1..n
        <5>. HIDE DEF n
        <5> QED
          BY <1>0, <2>2
      <4> QED
        BY <4>1
    <3>2. Scope(q)[j] = <<q[j].node, q[j].loop_index>>
      BY <2>8, <2>9, ScopeOf
    <3>3. Scope(p)[j] = <<p[j].node, p[j].loop_index>>
      BY <1>0, <3>1, ScopeOf
    <3> QED
      BY <2>9, <3>2, <3>3
  <2>10. /\ Scope(p)[k] = <<p[k].node, p[k].loop_index>>
         /\ Scope(p)[k][1] = p[k].node /\ Scope(p)[k][2] = p[k].loop_index
         /\ Len(Scope(p)) = n
    BY <1>0, <2>2, ScopeOf
  <2>11. p[k].node \in Nat /\ p[k].loop_index \in Nat
    BY <2>2, PlaceLevel
  \* Behind p as well.
  <2>12. ASSUME i \in 1..k, \A j \in 1..i - 1 : s[j] = Scope(p)[j],
                \/ s[i][1] < Scope(p)[i][1]
                \/ /\ s[i][1] = Scope(p)[i][1]
                   /\ s[i][2] < Scope(p)[i][2]
         PROVE  IsBefore(s, Scope(p))
    <3>1. i <= n
      <4>. HIDE DEF n
      <4> QED
        BY <1>0, <2>2, <2>12
    <3>2. Behind(s, Scope(p), i)
      BY <2>6, <2>10, <2>12, <3>1 DEF Behind
    <3> QED
      BY <1>0, <3>2, BeforeIsBehind
  <2>15. ASSUME i < k, k <= Len(q), \A j \in 1..k - 1 : q[j] = p[j]
         PROVE  IsBefore(s, Scope(p))
    <3>1. \A j \in 1..i : j \in 1..k - 1 /\ j \in 1..Len(q)
      <4>. DEFINE l == Len(q)
      <4>1. k <= l /\ l \in Nat
        BY <2>8, <2>15
      <4>. HIDE DEF l
      <4>2. \A j \in 1..i : j \in 1..k - 1 /\ j \in 1..l
        BY <2>2, <2>6, <2>15, <4>1
      <4> QED
        BY <4>2 DEF l
    <3>2. \A j \in 1..i : Scope(q)[j] = Scope(p)[j]
      BY <2>9, <2>15, <3>1
    <3>3. i \in 1..i /\ \A j \in 1..i - 1 : j \in 1..i
      BY <2>6
    <3>4. \A j \in 1..i - 1 : s[j] = Scope(p)[j]
      BY <2>6, <3>2, <3>3
    <3>5. i \in 1..k
      BY <2>2, <2>6, <2>15
    <3> QED
      BY <2>6, <2>12, <3>2, <3>3, <3>4, <3>5
  <2>16. ASSUME i = k, k <= Len(q), \A j \in 1..k - 1 : q[j] = p[j]
         PROVE  /\ \A j \in 1..k - 1 : s[j] = Scope(p)[j]
                /\ s[k][1] = p[k].node /\ s[k][2] <= p[k].loop_index /\ k < n
                      => IsBefore(s, Scope(p)) \/ Under(s, p)
                /\ s[k][1] < p[k].node => IsBefore(s, Scope(p))
    <3>1. \A j \in 1..k - 1 : j \in 1..Len(q)
      <4>. DEFINE l == Len(q)
      <4>1. k <= l /\ l \in Nat
        BY <2>8, <2>16
      <4>. HIDE DEF l
      <4>2. \A j \in 1..k - 1 : j \in 1..l
        BY <2>2, <4>1
      <4> QED
        BY <4>2 DEF l
    <3>2. \A j \in 1..k - 1 : s[j] = Scope(p)[j]
      BY <2>6, <2>9, <2>16, <3>1
    <3>3. i \in 1..k
      BY <2>2, <2>16
    <3>4. s[k][1] < p[k].node => IsBefore(s, Scope(p))
      BY <2>10, <2>12, <2>16, <3>2, <3>3
    <3>5. ASSUME s[k][1] = p[k].node, s[k][2] < p[k].loop_index
          PROVE  IsBefore(s, Scope(p))
      BY <2>10, <2>12, <2>16, <3>2, <3>3, <3>5
    <3>6. ASSUME s[k][1] = p[k].node, s[k][2] = p[k].loop_index, k < n
          PROVE  IsBefore(s, Scope(p)) \/ Under(s, p)
      <4>1. s[k] = <<s[k][1], s[k][2]>>
        <5>1. k \in 1..Len(s)
          BY <1>0, <2>6, <2>16
        <5> QED
          BY <1>0, <5>1 DEF Steps
      <4>2. s[k] = Scope(p)[k]
        BY <2>10, <3>6, <4>1
      <4>3. \A j \in 1..k : j = k \/ j \in 1..k - 1
        BY <2>2
      <4> QED
        BY <2>4, <3>2, <3>6, <4>2, <4>3
    <3> QED
      BY <2>7, <2>11, <2>16, <3>2, <3>4, <3>5, <3>6
  <2>13. CASE MoreTurns(g, p, k) /\ Onward(g, p) = NextTurn(p, k)
    <3>1. ToTurn(p, k, q)
      BY <1>0, <2>2, <2>13, NextTurnIs
    <3>2. /\ Len(q) = k + 1 /\ k <= Len(q) /\ k < n
          /\ \A j \in 1..k - 1 : q[j] = p[j]
          /\ q[k].node = p[k].node /\ q[k].loop_index = p[k].loop_index + 1
          /\ q[k + 1] = Level(1, {})
      BY <2>2, <2>13, <3>1 DEF ToTurn, MoreTurns
    <3>3. /\ Scope(q)[k][1] = p[k].node
          /\ Scope(q)[k][2] = p[k].loop_index + 1
      <4>1. k \in 1..Len(q)
        BY <2>2, <3>2
      <4> QED
        BY <2>8, <3>2, <4>1, ScopeOf
    <3>4. CASE i < k
      BY <2>15, <3>2, <3>4
    <3>5. CASE i = k
      <4>1. \/ s[k][1] < p[k].node
            \/ s[k][1] = p[k].node /\ s[k][2] <= p[k].loop_index
        BY <2>6, <2>7, <2>11, <3>3, <3>5
      <4> QED
        BY <2>16, <3>2, <3>5, <4>1
    <3>6. CASE i = k + 1
      <4>1. Scope(q)[k + 1][1] = 1 /\ Scope(q)[k + 1][2] = 0
        <5>1. k + 1 \in 1..Len(q)
          BY <2>2, <3>2
        <5>2. q[k + 1].node = 1 /\ q[k + 1].loop_index = 0
          BY <3>2, LevelIs
        <5> QED
          BY <2>8, <5>1, <5>2, ScopeOf
      <4>2. s[i][1] >= 1
        <5>1. i \in 1..Len(s)
          BY <1>0, <2>6
        <5>2. s[i][1] \in 1..Len(GraphAt(g, Path(s), i))
          BY <5>1 DEF IsScope
        <5> QED
          BY <2>7, <5>2
      <4> QED
        BY <2>6, <2>7, <3>6, <4>1, <4>2
    <3> QED
      BY <2>2, <2>6, <2>8, <3>2, <3>4, <3>5, <3>6
  <2>14. CASE /\ MoreNodes(g, p, k) /\ ~MoreTurns(g, p, k)
              /\ Onward(g, p) = NextNode(g, p, k)
    <3>1. ToNode(g, p, k, q)
      BY <1>0, <2>2, <2>14, NextNodeIs, PlaceLevel
    <3>2. /\ Len(q) = k /\ k <= Len(q)
          /\ \A j \in 1..k - 1 : q[j] = p[j]
          /\ q[k].node = p[k].node + 1 /\ q[k].loop_index = 0
      BY <2>2, <3>1 DEF ToNode
    <3>3. Scope(q)[k][1] = p[k].node + 1 /\ Scope(q)[k][2] = 0
      <4>1. k \in 1..Len(q)
        BY <2>2, <3>2
      <4> QED
        BY <2>8, <3>2, <4>1, ScopeOf
    <3>4. CASE i < k
      BY <2>15, <3>2, <3>4
    <3>5. CASE i = k
      <4>0. \A j \in 1..k - 1 : s[j] = Scope(p)[j]
        BY <2>16, <3>2, <3>5
      <4>1. s[k][1] <= p[k].node
        BY <2>6, <2>7, <2>11, <3>3, <3>5
      <4>2. CASE s[k][1] < p[k].node
        BY <2>16, <3>2, <3>5, <4>2
      <4>3. CASE s[k][1] = p[k].node /\ k < n
        <5>1. s[k][2] < NodeOn(g, p, k).times
          BY <2>2, <4>0, <4>3, AgreeAbove
        <5>2. ~(p[k].loop_index + 1 < NodeOn(g, p, k).times)
          BY <2>14, <4>3 DEF MoreTurns
        <5>3. NodeOn(g, p, k).times \in Nat
          BY <2>2, PlaceLevel
        <5>4. s[k][2] <= p[k].loop_index
          BY <2>7, <2>11, <3>5, <5>1, <5>2, <5>3
        <5> QED
          BY <2>16, <3>2, <3>5, <4>3, <5>4
      <4>4. CASE s[k][1] = p[k].node /\ k = n
        <5>1. Len(p) <= Len(s)
          BY <2>6, <3>5, <4>4
        <5> QED
          BY <4>0, <4>4, <5>1 DEF Under
      <4>5. k < n \/ k = n
        <5>. HIDE DEF n
        <5> QED
          BY <1>0, <2>2
      <4> QED
        BY <2>7, <2>11, <3>5, <4>1, <4>2, <4>3, <4>4, <4>5
    <3> QED
      BY <2>2, <2>6, <2>8, <3>2, <3>4, <3>5
  <2> QED
    BY <2>1, <2>13, <2>14
<1> QED
  BY <1>1, <1>2

-----------------------------------------------------------------------------
(* Checkpoints.                                                            *)

\* q is where p is.
Same(p, q) ==
    /\ q \in Seq(Levels) /\ Len(q) = Len(p)
    /\ \A k \in 1..Len(p) :
          /\ q[k].node = p[k].node /\ q[k].node_outputs = p[k].node_outputs
          /\ q[k].kind = p[k].kind /\ q[k].loop_index = p[k].loop_index
          /\ q[k].completed_results = p[k].completed_results

LEMMA SamePlace ==
    ASSUME NEW g, NEW p, IsPlace(g, p), NEW q, Same(p, q)
    PROVE  /\ IsPlace(g, q) /\ Scope(q) = Scope(p)
           /\ NodeAt(g, q) = NodeAt(g, p)
<1>. DEFINE n == Len(p)
<1>1. /\ n \in 1..3 /\ p \in Seq(Levels) /\ q \in Seq(Levels) /\ Len(q) = n
  BY DEF IsPlace, Same
<1>2. ASSUME NEW k \in 1..n
      PROVE  /\ GraphAt(g, q, k) = GraphAt(g, p, k)
             /\ NodeOn(g, q, k) = NodeOn(g, p, k)
  <2>1. k \in 1..3 /\ \A j \in 1..k : j \in 1..n
    <3>. HIDE DEF n
    <3> QED
      BY <1>1
  <2>2. \A j \in 1..k : q[j].node = p[j].node
    BY <2>1 DEF Same
  <2> QED
    BY <2>1, <2>2, SameGraphs
<1>3. ASSUME NEW k \in 1..Len(q)
      PROVE  /\ q[k].node \in 1..Len(GraphAt(g, q, k))
             /\ q[k].node_outputs =
                  {GraphAt(g, q, k)[m].id : m \in 1..q[k].node - 1}
             /\ q[k].completed_results = q[k].loop_index
             /\ IF k < Len(q)
                THEN /\ NodeOn(g, q, k).type \in Loops
                     /\ q[k].kind = NodeOn(g, q, k).type
                     /\ NodeOn(g, q, k).when
                     /\ q[k].loop_index < NodeOn(g, q, k).times
                ELSE q[k].loop_index = 0 /\ q[k].kind = "leaf"
  <2>1. k \in 1..Len(p) /\ k \in 1..n
    BY <1>1
  <2>2. /\ q[k].node = p[k].node /\ q[k].node_outputs = p[k].node_outputs
        /\ q[k].kind = p[k].kind /\ q[k].loop_index = p[k].loop_index
        /\ q[k].completed_results = p[k].completed_results
    BY <2>1 DEF Same
  <2>3. /\ GraphAt(g, q, k) = GraphAt(g, p, k)
        /\ NodeOn(g, q, k) = NodeOn(g, p, k)
    BY <1>2, <2>1
  <2>4. /\ p[k].node \in 1..Len(GraphAt(g, p, k))
        /\ p[k].node_outputs =
             {GraphAt(g, p, k)[m].id : m \in 1..p[k].node - 1}
        /\ p[k].completed_results = p[k].loop_index
        /\ IF k < Len(p)
           THEN /\ NodeOn(g, p, k).type \in Loops
                /\ p[k].kind = NodeOn(g, p, k).type
                /\ NodeOn(g, p, k).when
                /\ p[k].loop_index < NodeOn(g, p, k).times
           ELSE p[k].loop_index = 0 /\ p[k].kind = "leaf"
    BY <2>1 DEF IsPlace
  <2> QED
    BY <1>1, <2>2, <2>3, <2>4
<1>4. IsPlace(g, q)
  <2>1. Len(q) \in 1..3
    BY <1>1
  <2> QED
    BY <1>1, <1>3, <2>1 DEF IsPlace
<1>5. Scope(q) = Scope(p)
  <2>1. \A k \in 1..n : /\ q[k].node = p[k].node
                        /\ q[k].loop_index = p[k].loop_index
    BY DEF Same
  <2> QED
    BY <1>1, <2>1 DEF Scope
<1>6. NodeAt(g, q) = NodeAt(g, p)
  <2>1. n \in 1..n
    <3>. HIDE DEF n
    <3> QED
      BY <1>1
  <2> QED
    BY <1>1, <1>2, <2>1 DEF NodeAt
<1> QED
  BY <1>4, <1>5, <1>6

LEMMA PausedIs ==
    ASSUME NEW level \in Levels, NEW mark \in Marks
    PROVE  /\ Paused(level, mark) \in Levels
           /\ Paused(level, mark).node = level.node
           /\ Paused(level, mark).node_outputs = level.node_outputs
           /\ Paused(level, mark).kind = "leaf"
           /\ Paused(level, mark).mark = mark
           /\ Paused(level, mark).loop_index = level.loop_index
           /\ Paused(level, mark).completed_results =
                 level.completed_results
<1>. DEFINE m == [level EXCEPT !.kind = "leaf"]
            new == [m EXCEPT !.mark = mark]
<1>1. /\ m \in Levels /\ m.node = level.node
      /\ m.node_outputs = level.node_outputs /\ m.kind = "leaf"
      /\ m.mark = level.mark /\ m.loop_index = level.loop_index
      /\ m.completed_results = level.completed_results
  BY DEF Levels
<1>2. Paused(level, mark) = new
  BY DEF Paused
<1>. HIDE DEF m
<1>3. /\ new \in Levels /\ new.node = m.node
      /\ new.node_outputs = m.node_outputs /\ new.kind = m.kind
      /\ new.mark = mark /\ new.loop_index = m.loop_index
      /\ new.completed_results = m.completed_results
  BY <1>1 DEF Levels
<1>. HIDE DEF new
<1> QED
  BY <1>1, <1>2, <1>3

LEMMA ReceivedIs ==
    ASSUME NEW level \in Levels
    PROVE  /\ Received(level) \in Levels
           /\ Received(level).node = level.node
           /\ Received(level).node_outputs = level.node_outputs
           /\ Received(level).kind = level.kind
           /\ Received(level).mark = "received"
           /\ Received(level).loop_index = level.loop_index
           /\ Received(level).completed_results = level.completed_results
  BY DEF Received, Levels, Marks

LEMMA CheckpointIs ==
    ASSUME NEW g, NEW p, IsPlace(g, p), NEW mark \in Marks,
           mark # "received", NEW c, c = Checkpoint(p, mark)
    PROVE  /\ IsPlace(g, c) /\ Scope(c) = Scope(p) /\ c # <<>>
           /\ NodeAt(g, c) = NodeAt(g, p)
           /\ Unmarked(p) => Unmarked(c)
<1>. DEFINE n == Len(p)
            new == Paused(p[n], mark)
<1>1. n \in 1..3 /\ p \in Seq(Levels) /\ n \in 1..n
  <2>1. n \in 1..3 /\ p \in Seq(Levels)
    BY DEF IsPlace
  <2>2. n \in 1..n
    <3>. HIDE DEF n
    <3> QED
      BY <2>1
  <2> QED
    BY <2>1, <2>2
<1>2. p[n] \in Levels /\ p[n].kind = "leaf"
  <2>1. p[n] \in Levels
    BY <1>1
  <2>2. ~(n < Len(p))
    BY <1>1
  <2> QED
    BY <1>1, <2>1, <2>2 DEF IsPlace
<1>3. /\ new \in Levels /\ new.node = p[n].node
      /\ new.node_outputs = p[n].node_outputs /\ new.kind = p[n].kind
      /\ new.mark = mark /\ new.loop_index = p[n].loop_index
      /\ new.completed_results = p[n].completed_results
  BY <1>2, PausedIs
<1>4. c = [p EXCEPT ![n] = new]
  BY DEF Checkpoint
<1>. HIDE DEF new
<1>5. /\ c \in Seq(Levels) /\ Len(c) = n /\ c[n] = new
      /\ \A k \in 1..n : k # n => c[k] = p[k]
  BY <1>1, <1>3, <1>4
<1>6. Same(p, c)
  <2>1. ASSUME NEW k \in 1..Len(p)
        PROVE  /\ c[k].node = p[k].node
               /\ c[k].node_outputs = p[k].node_outputs
               /\ c[k].kind = p[k].kind /\ c[k].loop_index = p[k].loop_index
               /\ c[k].completed_results = p[k].completed_results
    BY <1>3, <1>5
  <2> QED
    BY <1>5, <2>1 DEF Same
<1>7. c # <<>>
  BY <1>1, <1>5
<1>8. ASSUME Unmarked(p)
      PROVE  Unmarked(c)
  BY <1>3, <1>5, <1>8 DEF Unmarked
<1> QED
  BY <1>6, <1>7, <1>8, SamePlace

\* Where the event's mark goes: to the pause, or to the outermost loop that is
\* a repeat.
LEMMA MarkIs ==
    ASSUME NEW g, NEW p, IsPlace(g, p), NEW c, c = MarkEventReceived(p)
    PROVE  /\ IsPlace(g, c) /\ Scope(c) = Scope(p) /\ c # <<>>
           /\ NodeAt(g, c) = NodeAt(g, p) /\ Len(c) = Len(p)
           /\ Unmarked(p) => \A j \in 1..Len(c) : c[j].mark = "received" =>
                 \/ j = Len(c)
                 \/ j < Len(c) /\ NodeOn(g, p, j).type = "repeat"
<1>. DEFINE n == Len(p)
            K == {k \in 1..n : /\ p[k].kind # "foreach"
                               /\ \A j \in 1..k - 1 : p[j].kind = "foreach"}
            m == CHOOSE k \in K : TRUE
            new == Received(p[m])
<1>1. n \in 1..3 /\ p \in Seq(Levels) /\ n \in 1..n
  <2>1. n \in 1..3 /\ p \in Seq(Levels)
    BY DEF IsPlace
  <2>2. n \in 1..n
    <3>. HIDE DEF n
    <3> QED
      BY <2>1
  <2> QED
    BY <2>1, <2>2
<1>2. K # {}
  <2>1. p[n].kind = "leaf"
    <3>1. ~(n < Len(p))
      BY <1>1
    <3> QED
      BY <1>1, <3>1 DEF IsPlace
  <2>2. CASE p[1].kind # "foreach"
    <3>1. 1 \in 1..n /\ 1..1 - 1 = {}
      <4>. HIDE DEF n
      <4> QED
        BY <1>1
    <3>2. 1 \in K
      BY <2>2, <3>1
    <3> QED
      BY <3>2
  <2>3. CASE p[1].kind = "foreach" /\ p[2].kind # "foreach"
    <3>1. 2 \in 1..n /\ \A j \in 1..2 - 1 : j = 1
      <4>1. n # 1
        BY <2>1, <2>3
      <4>. HIDE DEF n
      <4> QED
        BY <1>1, <4>1
    <3>2. 2 \in K
      BY <2>3, <3>1
    <3> QED
      BY <3>2
  <2>4. CASE p[1].kind = "foreach" /\ p[2].kind = "foreach"
    <3>1. n = 3
      <4>1. n # 1 /\ n # 2
        BY <2>1, <2>4
      <4>. HIDE DEF n
      <4> QED
        BY <1>1, <4>1
    <3>2. 3 \in 1..n /\ \A j \in 1..3 - 1 : j = 1 \/ j = 2
      BY <3>1
    <3>3. 3 \in K
      BY <2>1, <2>4, <3>1, <3>2
    <3> QED
      BY <3>3
  <2> QED
    BY <2>2, <2>3, <2>4
<1>3. m \in K
  <2>. HIDE DEF K
  <2> QED
    BY <1>2
<1>4. c = [p EXCEPT ![m] = new]
  <2>1. MarkEventReceived(p) =
          LET k == CHOOSE k \in 1..Len(p) :
                       /\ p[k].kind # "foreach"
                       /\ \A j \in 1..k - 1 : p[j].kind = "foreach"
          IN [p EXCEPT ![k] = Received(p[k])]
    BY DEF MarkEventReceived
  <2>2. (CHOOSE k \in 1..Len(p) :
            /\ p[k].kind # "foreach"
            /\ \A j \in 1..k - 1 : p[j].kind = "foreach") = m
    PROOF OBVIOUS
  <2> QED
    BY <2>1, <2>2
<1>. HIDE DEF m
<1>5. m \in 1..n /\ p[m].kind # "foreach"
  BY <1>3
<1>6. p[m] \in Levels
  BY <1>1, <1>5
<1>7. /\ new \in Levels /\ new.node = p[m].node
      /\ new.node_outputs = p[m].node_outputs /\ new.kind = p[m].kind
      /\ new.loop_index = p[m].loop_index
      /\ new.completed_results = p[m].completed_results
  BY <1>6, ReceivedIs
<1>. HIDE DEF new
<1>8. /\ c \in Seq(Levels) /\ Len(c) = n /\ c[m] = new
      /\ \A k \in 1..n : k # m => c[k] = p[k]
  BY <1>1, <1>4, <1>5, <1>7
<1>9. Same(p, c)
  <2>1. ASSUME NEW k \in 1..Len(p)
        PROVE  /\ c[k].node = p[k].node
               /\ c[k].node_outputs = p[k].node_outputs
               /\ c[k].kind = p[k].kind /\ c[k].loop_index = p[k].loop_index
               /\ c[k].completed_results = p[k].completed_results
    BY <1>7, <1>8
  <2> QED
    BY <1>8, <2>1 DEF Same
<1>10. c # <<>>
  BY <1>1, <1>8
<1>11. ASSUME Unmarked(p), NEW j \in 1..Len(c), c[j].mark = "received"
       PROVE  \/ j = Len(c)
              \/ j < Len(c) /\ NodeOn(g, p, j).type = "repeat"
  <2>1. j = m
    <3>1. j \in 1..n /\ j \in 1..Len(p)
      BY <1>8
    <3> QED
      BY <1>8, <1>11, <3>1 DEF Unmarked
  <2>2. j < n \/ j = n
    <3>1. j \in 1..n
      BY <1>8
    <3>. HIDE DEF n
    <3> QED
      BY <1>1, <3>1
  <2>3. CASE j < n
    <3>1. NodeOn(g, p, m).type \in Loops /\ p[m].kind = NodeOn(g, p, m).type
      BY <1>5, <2>1, <2>3, PlaceLoop
    <3> QED
      BY <1>5, <1>8, <2>1, <2>3, <3>1 DEF Loops
  <2> QED
    BY <1>8, <2>2, <2>3
<1> QED
  BY <1>8, <1>9, <1>10, <1>11, SamePlace

-----------------------------------------------------------------------------
(* Into the loops.                                                         *)

\* The same nodes on the way are the same graphs.
LEMMA AlongGraphs ==
    ASSUME NEW g, NEW p, IsPlace(g, p), NEW r, Along(p, r), NEW k \in 1..Len(p)
    PROVE  /\ GraphAt(g, p, k) = GraphAt(g, r, k)
           /\ NodeOn(g, p, k) = NodeOn(g, r, k)
<1>. DEFINE n == Len(p)
<1>1. n \in 1..3 /\ k \in 1..n
  BY DEF IsPlace
<1>2. k \in 1..3 /\ \A j \in 1..k : j \in 1..n
  <2>. HIDE DEF n
  <2> QED
    BY <1>1
<1>3. \A j \in 1..k : p[j].node = r[j].node
  BY <1>2 DEF Along
<1> QED
  BY <1>2, <1>3, SameGraphs

LEMMA LastLevel ==
    ASSUME NEW g, NEW p, IsPlace(g, p)
    PROVE  /\ Len(p) \in 1..3 /\ Len(p) \in 1..Len(p) /\ p # <<>>
           /\ p \in Seq(Levels) /\ p[Len(p)].kind = "leaf"
           /\ p[Len(p)].loop_index = 0 /\ p[Len(p)].completed_results = 0
           /\ NodeAt(g, p) = NodeOn(g, p, Len(p))
<1>. DEFINE n == Len(p)
<1>1. n \in 1..3 /\ p \in Seq(Levels)
  BY DEF IsPlace
<1>2. n \in 1..n /\ ~(n < n)
  <2>. HIDE DEF n
  <2> QED
    BY <1>1
<1>3. /\ p[n].kind = "leaf" /\ p[n].loop_index = 0
      /\ p[n].completed_results = p[n].loop_index
  BY <1>2 DEF IsPlace
<1>4. p # <<>>
  BY <1>1
<1> QED
  BY <1>1, <1>2, <1>3, <1>4 DEF NodeAt

LEMMA AlongEnd ==
    ASSUME NEW g, NEW p, IsPlace(g, p), NEW r, IsPlace(g, r), Along(p, r),
           Len(p) = Len(r)
    PROVE  Scope(p) = Scope(r) /\ NodeAt(g, p) = NodeAt(g, r)
<1>. DEFINE n == Len(p)
<1>1. /\ n \in 1..3 /\ Len(r) = n /\ n \in 1..n
      /\ p[n].loop_index = 0 /\ r[n].loop_index = 0
  BY LastLevel
<1>2. ASSUME NEW k \in 1..n
      PROVE  p[k].node = r[k].node /\ p[k].loop_index = r[k].loop_index
  <2>1. k = n \/ k \in 1..n - 1
    <3>. HIDE DEF n
    <3> QED
      BY <1>1
  <2> QED
    BY <1>1, <2>1 DEF Along
<1>3. Scope(p) = Scope(r)
  BY <1>1, <1>2 DEF Scope
<1>4. NodeOn(g, p, n) = NodeOn(g, r, n)
  BY <1>1, AlongGraphs
<1> QED
  BY <1>1, <1>3, <1>4, LastLevel

LEMMA AlongIn ==
    ASSUME NEW g, NEW p, IsPlace(g, p), NEW r, IsPlace(g, r), Along(p, r),
           Len(p) # Len(r)
    PROVE  /\ NodeAt(g, p).type \in Loops /\ NodeAt(g, p).when
           /\ Resumes(g, p, r) /\ FitsLoop(r[Len(p)], NodeAt(g, p))
           /\ Len(p) < Len(r) /\ Len(p) \in 1..Len(r)
           /\ Len(p) + 1 \in 1..Len(r)
<1>. DEFINE n == Len(p)
            m == Len(r)
<1>1. n \in 1..3 /\ m \in 1..3 /\ n <= m
  BY DEF IsPlace, Along
<1>2. n < m /\ n \in 1..m /\ n \in 1..n /\ n + 1 \in 1..m
  <2>1. n # m
    OBVIOUS
  <2>. HIDE DEF n, m
  <2> QED
    BY <1>1, <2>1
<1>3. NodeAt(g, p) = NodeOn(g, r, n)
  BY <1>2, AlongGraphs, LastLevel
<1>4. /\ NodeOn(g, r, n).type \in Loops /\ NodeOn(g, r, n).when
      /\ r[n].kind = NodeOn(g, r, n).type
      /\ r[n].loop_index < NodeOn(g, r, n).times
      /\ r[n].completed_results = r[n].loop_index
  BY <1>2, PlaceLoop
<1> QED
  BY <1>2, <1>3, <1>4 DEF Resumes, FitsLoop

\* A place at which no checkpoint goes on is where the checkpoint is.
LEMMA NotAgain ==
    ASSUME NEW g, NEW p, IsPlace(g, p), NEW r, IsPlace(g, r), Along(p, r),
           \/ ~Resumes(g, p, r) \/ NodeAt(g, p).type \notin Loops
           \/ ~NodeAt(g, p).when
    PROVE  /\ Scope(p) = Scope(r) /\ NodeAt(g, p) = NodeAt(g, r)
           /\ Len(p) = Len(r)
  BY AlongEnd, AlongIn

LEMMA FirstOf ==
    ASSUME NEW g, NEW r, IsPlace(g, r), NEW p,
           p = <<Level(r[1].node, r[1].node_outputs)>>
    PROVE  /\ IsPlace(g, p) /\ Unmarked(p) /\ Along(p, r) /\ Len(p) = 1
           /\ p # <<>>
<1>. DEFINE l == Level(r[1].node, r[1].node_outputs)
<1>1. Len(r) \in 1..3 /\ r \in Seq(Levels) /\ 1 \in 1..Len(r) /\ 1 <= Len(r)
  <2>. DEFINE n == Len(r)
  <2>1. n \in 1..3
    BY DEF IsPlace
  <2>2. 1 \in 1..n /\ 1 <= n
    <3>. HIDE DEF n
    <3> QED
      BY <2>1
  <2> QED
    BY <2>1, <2>2 DEF IsPlace
<1>2. r[1].node \in Nat /\ r[1].node_outputs \in SUBSET Words
  <2>1. r[1] \in Levels
    BY <1>1
  <2> QED
    BY <2>1 DEF Levels
<1>3. /\ l \in Levels /\ l.node = r[1].node /\ l.kind = "leaf"
      /\ l.node_outputs = r[1].node_outputs /\ l.mark = "none"
      /\ l.loop_index = 0 /\ l.completed_results = 0
  BY <1>2, LevelIs
<1>. HIDE DEF l
<1>4. /\ p \in Seq(Levels) /\ Len(p) = 1 /\ p[1] = l
  BY <1>3 DEF l
<1>5. /\ r[1].node \in 1..Len(GraphAt(g, r, 1))
      /\ r[1].node_outputs = {GraphAt(g, r, 1)[m].id : m \in 1..r[1].node - 1}
  BY <1>1 DEF IsPlace
<1>6. GraphAt(g, p, 1) = GraphAt(g, r, 1)
  BY GraphAtIs
<1>7. ASSUME NEW k \in 1..Len(p)
      PROVE  /\ p[k].node \in 1..Len(GraphAt(g, p, k))
             /\ p[k].node_outputs =
                  {GraphAt(g, p, k)[m].id : m \in 1..p[k].node - 1}
             /\ p[k].completed_results = p[k].loop_index
             /\ IF k < Len(p)
                THEN /\ NodeOn(g, p, k).type \in Loops
                     /\ p[k].kind = NodeOn(g, p, k).type
                     /\ NodeOn(g, p, k).when
                     /\ p[k].loop_index < NodeOn(g, p, k).times
                ELSE p[k].loop_index = 0 /\ p[k].kind = "leaf"
  <2>1. k = 1 /\ ~(k < Len(p))
    BY <1>4
  <2>2. /\ p[1].node = r[1].node /\ p[1].node_outputs = r[1].node_outputs
        /\ p[1].kind = "leaf" /\ p[1].loop_index = 0
        /\ p[1].completed_results = 0
    BY <1>3, <1>4
  <2>3. /\ p[1].node \in 1..Len(GraphAt(g, p, 1))
        /\ p[1].node_outputs =
             {GraphAt(g, p, 1)[m].id : m \in 1..p[1].node - 1}
    BY <1>5, <1>6, <2>2
  <2> QED
    BY <2>1, <2>2, <2>3
<1>8. IsPlace(g, p)
  <2>1. Len(p) \in 1..3
    BY <1>4
  <2> QED
    BY <1>4, <1>7, <2>1 DEF IsPlace
<1>9. Unmarked(p)
  BY <1>3, <1>4 DEF Unmarked
<1>10. Along(p, r)
  <2>1. \A k \in 1..1 : k = 1
    OBVIOUS
  <2>2. 1..1 - 1 = {}
    OBVIOUS
  <2> QED
    BY <1>1, <1>3, <1>4, <2>1, <2>2 DEF Along
<1>11. p # <<>>
  BY <1>4
<1> QED
  BY <1>4, <1>8, <1>9, <1>10, <1>11

LEMMA StartIs ==
    ASSUME NEW g, GoodGraph(g)
    PROVE  /\ IsPlace(g, Start) /\ Unmarked(Start) /\ Start # <<>>
           /\ \A s : IsScope(g, s) => ~IsBefore(s, Scope(Start))
<1>. DEFINE l == Level(1, {})
            p == Start
<1>1. /\ l \in Levels /\ l.node = 1 /\ l.kind = "leaf"
      /\ l.node_outputs = {} /\ l.mark = "none"
      /\ l.loop_index = 0 /\ l.completed_results = 0
  BY LevelIs
<1>. HIDE DEF l
<1>2. p \in Seq(Levels) /\ Len(p) = 1 /\ p[1] = l
  BY <1>1 DEF Start, l
<1>. HIDE DEF p
<1>3. GraphAt(g, p, 1) = g
  BY GraphAtIs
<1>4. 1 \in 1..Len(g)
  BY DEF GoodGraph, Body
<1>5. ASSUME NEW k \in 1..Len(p)
      PROVE  /\ p[k].node \in 1..Len(GraphAt(g, p, k))
             /\ p[k].node_outputs =
                  {GraphAt(g, p, k)[m].id : m \in 1..p[k].node - 1}
             /\ p[k].completed_results = p[k].loop_index
             /\ IF k < Len(p)
                THEN /\ NodeOn(g, p, k).type \in Loops
                     /\ p[k].kind = NodeOn(g, p, k).type
                     /\ NodeOn(g, p, k).when
                     /\ p[k].loop_index < NodeOn(g, p, k).times
                ELSE p[k].loop_index = 0 /\ p[k].kind = "leaf"
  <2>1. k = 1 /\ ~(k < Len(p))
    BY <1>2
  <2>2. {GraphAt(g, p, k)[m].id : m \in 1..p[k].node - 1} = {}
    <3>1. 1..1 - 1 = {}
      OBVIOUS
    <3> QED
      BY <1>1, <1>2, <2>1, <3>1
  <2> QED
    BY <1>1, <1>2, <1>3, <1>4, <2>1, <2>2
<1>6. IsPlace(g, p)
  <2>1. Len(p) \in 1..3
    BY <1>2
  <2> QED
    BY <1>2, <1>5, <2>1 DEF IsPlace
<1>9. Unmarked(p)
  BY <1>1, <1>2 DEF Unmarked
<1>7. Unmarked(p) /\ p # <<>>
  BY <1>2, <1>9
<1>8. ASSUME NEW s, IsScope(g, s)
      PROVE  ~IsBefore(s, Scope(p))
  <2>1. Len(Scope(p)) = 1 /\ Scope(p)[1][1] = 1 /\ Scope(p)[1][2] = 0
    BY <1>1, <1>2, ScopeOf
  <2>2. SUFFICES ASSUME NEW k, Behind(s, Scope(p), k)
                 PROVE  FALSE
    <3>1. Len(s) \in Nat
      BY <1>8 DEF IsScope
    <3> QED
      BY <3>1, BeforeIsBehind
  <2>3. k = 1
    BY <2>1, <2>2 DEF Behind
  <2>4. 1 \in 1..Len(s)
    BY <1>8, <2>2, <2>3 DEF Behind, IsScope
  <2>5. s[1][1] \in Nat /\ s[1][2] \in Nat
    BY <1>8, <2>4 DEF IsScope, Steps
  <2>6. s[1][1] \in 1..Len(GraphAt(g, Path(s), 1))
    BY <1>8, <2>4 DEF IsScope
  <2>7. s[1][1] >= 1
    BY <2>5, <2>6
  <2> QED
    BY <2>1, <2>2, <2>3, <2>5, <2>7 DEF Behind
<1> QED
  BY <1>6, <1>7, <1>8 DEF p

LEMMA EnteredIs ==
    ASSUME NEW level \in Levels, NEW type \in Loops, NEW saved \in Levels
    PROVE  /\ Entered(level, type, saved) \in Levels
           /\ Entered(level, type, saved).node = level.node
           /\ Entered(level, type, saved).node_outputs = level.node_outputs
           /\ Entered(level, type, saved).mark = level.mark
           /\ Entered(level, type, saved).kind = type
           /\ Entered(level, type, saved).loop_index = saved.loop_index
           /\ Entered(level, type, saved).completed_results =
                saved.completed_results
<1>. DEFINE a == [level EXCEPT !.kind = type]
            b == [a EXCEPT !.loop_index = saved.loop_index]
            new == [b EXCEPT !.completed_results = saved.completed_results]
<1>0. saved.loop_index \in Nat /\ saved.completed_results \in Nat
  BY DEF Levels
<1>1. /\ a \in Levels /\ a.node = level.node
      /\ a.node_outputs = level.node_outputs /\ a.kind = type
      /\ a.mark = level.mark
  BY DEF Levels
<1>2. /\ b \in Levels /\ b.node = a.node
      /\ b.node_outputs = a.node_outputs /\ b.kind = a.kind
      /\ b.mark = a.mark /\ b.loop_index = saved.loop_index
  <2>. HIDE DEF a
  <2> QED
    BY <1>0, <1>1 DEF Levels
<1>3. /\ new \in Levels /\ new.node = b.node
      /\ new.node_outputs = b.node_outputs /\ new.kind = b.kind
      /\ new.mark = b.mark /\ new.loop_index = b.loop_index
      /\ new.completed_results = saved.completed_results
  <2>. HIDE DEF b
  <2> QED
    BY <1>0, <1>2 DEF Levels
<1>4. Entered(level, type, saved) = new
  BY DEF Entered
<1>. HIDE DEF a, b, new
<1> QED
  BY <1>1, <1>2, <1>3, <1>4

\* q goes from p into its loop, at an iteration and a first level.
ToLoop(p, type, saved, first, q) ==
    /\ q \in Seq(Levels) /\ Len(q) = Len(p) + 1
    /\ \A j \in 1..Len(p) - 1 : q[j] = p[j]
    /\ q[Len(p)].node = p[Len(p)].node
    /\ q[Len(p)].node_outputs = p[Len(p)].node_outputs
    /\ q[Len(p)].kind = type /\ q[Len(p)].mark = p[Len(p)].mark
    /\ q[Len(p)].loop_index = saved.loop_index
    /\ q[Len(p)].completed_results = saved.completed_results
    /\ q[Len(p) + 1] = first

LEMMA ToLoopIs ==
    ASSUME NEW p \in Seq(Levels), Len(p) \in 1..3, NEW type \in Loops,
           NEW saved \in Levels, NEW first \in Levels, NEW q,
           q = Append([p EXCEPT ![Len(p)] = Entered(@, type, saved)], first)
    PROVE  ToLoop(p, type, saved, first, q)
<1>. DEFINE n == Len(p)
            new == Entered(p[n], type, saved)
            more == [p EXCEPT ![n] = new]
<1>1. n \in 1..n /\ p[n] \in Levels
  <2>1. n \in 1..n
    <3>1. n \in 1..3
      OBVIOUS
    <3>. HIDE DEF n
    <3> QED
      BY <3>1
  <2> QED
    BY <2>1
<1>2. /\ new \in Levels /\ new.node = p[n].node
      /\ new.node_outputs = p[n].node_outputs /\ new.mark = p[n].mark
      /\ new.kind = type /\ new.loop_index = saved.loop_index
      /\ new.completed_results = saved.completed_results
  BY <1>1, EnteredIs
<1>3. q = Append(more, first)
  OBVIOUS
<1>. HIDE DEF new
<1>4. /\ more \in Seq(Levels) /\ Len(more) = n /\ more[n] = new
      /\ \A j \in 1..n - 1 : more[j] = p[j]
  BY <1>1, <1>2
<1>. HIDE DEF more
<1>5. /\ q \in Seq(Levels) /\ Len(q) = n + 1 /\ q[n] = new /\ q[n + 1] = first
      /\ \A j \in 1..n - 1 : q[j] = more[j]
  BY <1>1, <1>3, <1>4
<1> QED
  BY <1>2, <1>4, <1>5 DEF ToLoop

LEMMA ToLoopPlace ==
    ASSUME NEW g, GoodGraph(g), NEW p, IsPlace(g, p),
           NodeAt(g, p).type \in Loops, NodeAt(g, p).when,
           NEW saved, saved.loop_index < NodeAt(g, p).times,
           saved.completed_results = saved.loop_index,
           NEW first, first.kind = "leaf", first.mark = "none",
           first.loop_index = 0, first.completed_results = 0,
           first.node \in 1..Len(NodeAt(g, p).graph),
           first.node_outputs =
              {NodeAt(g, p).graph[m].id : m \in 1..first.node - 1},
           NEW q, ToLoop(p, NodeAt(g, p).type, saved, first, q)
    PROVE  IsPlace(g, q) /\ (Unmarked(p) => Unmarked(q))
<1>. DEFINE k == Len(p)
            N == NodeAt(g, p)
<1>0. k \in 1..3 /\ k \in 1..k /\ p \in Seq(Levels) /\ N = NodeOn(g, p, k)
  BY LastLevel
<1>16. k \in 1..2 /\ k + 1 \in 1..3
  <2>1. k # 3
    <3>1. k = 3 => NodeOn(g, p, k).type \notin Loops
      BY <1>0, PlaceLevel
    <3> QED
      BY <1>0, <3>1
  <2>. HIDE DEF k
  <2> QED
    BY <1>0, <2>1
<1>2. /\ q \in Seq(Levels) /\ Len(q) = k + 1
      /\ \A j \in 1..k - 1 : q[j] = p[j]
      /\ q[k].node = p[k].node
      /\ q[k].node_outputs = p[k].node_outputs
      /\ q[k].kind = N.type /\ q[k].mark = p[k].mark
      /\ q[k].loop_index = saved.loop_index
      /\ q[k].completed_results = saved.completed_results
      /\ q[k + 1] = first
  BY DEF ToLoop
<1>3. ASSUME NEW j \in 1..k
      PROVE  /\ GraphAt(g, q, j) = GraphAt(g, p, j)
             /\ NodeOn(g, q, j) = NodeOn(g, p, j)
  <2>0. \A i \in 1..k : q[i].node = p[i].node
    <3> TAKE i \in 1..k
    <3>1. i = k \/ i \in 1..k - 1
      <4>. HIDE DEF k
      <4> QED
        BY <1>0
    <3> QED
      BY <1>2, <3>1
  <2>1. j \in 1..3 /\ \A i \in 1..j - 1 : i \in 1..k
    <3>. HIDE DEF k
    <3> QED
      BY <1>0
  <2>2. q[j].node = p[j].node /\ \A i \in 1..j - 1 : q[i].node = p[i].node
    BY <2>0, <2>1
  <2> QED
    BY <2>1, <2>2, SameGraphs
<1>4. ASSUME NEW j \in 1..k
      PROVE  /\ q[j].node \in 1..Len(GraphAt(g, q, j))
             /\ q[j].node_outputs =
                  {GraphAt(g, q, j)[m].id : m \in 1..q[j].node - 1}
             /\ q[j].completed_results = q[j].loop_index
             /\ NodeOn(g, q, j).type \in Loops
             /\ q[j].kind = NodeOn(g, q, j).type
             /\ NodeOn(g, q, j).when
             /\ q[j].loop_index < NodeOn(g, q, j).times
  <2>1. /\ p[j].node \in 1..Len(GraphAt(g, p, j))
        /\ p[j].node_outputs =
                  {GraphAt(g, p, j)[m].id : m \in 1..p[j].node - 1}
    BY DEF IsPlace
  <2>2. /\ GraphAt(g, q, j) = GraphAt(g, p, j)
        /\ NodeOn(g, q, j) = NodeOn(g, p, j)
    BY <1>3
  <2>3. CASE j = k
    <3>1. /\ q[k].node = p[k].node /\ q[k].node_outputs = p[k].node_outputs
          /\ q[k].completed_results = q[k].loop_index
          /\ q[k].loop_index < N.times /\ q[k].kind = N.type
      BY <1>2
    <3>2. NodeOn(g, q, k) = N /\ N.type \in Loops /\ N.when
      BY <1>0, <2>2, <2>3
    <3>3. q[j].node = p[j].node /\ q[j].node_outputs = p[j].node_outputs
      BY <2>3, <3>1
    <3>4. /\ q[j].completed_results = q[j].loop_index
          /\ q[j].loop_index < N.times /\ q[j].kind = N.type
      BY <2>3, <3>1
    <3>5. NodeOn(g, q, j) = N
      BY <2>3, <3>2
    <3>. HIDE DEF k, N
    <3>6. /\ q[j].node \in 1..Len(GraphAt(g, q, j))
          /\ q[j].node_outputs =
               {GraphAt(g, q, j)[m].id : m \in 1..q[j].node - 1}
      BY <2>1, <2>2, <3>3
    <3>7. NodeOn(g, q, j).type \in Loops /\ NodeOn(g, q, j).when
      <4>1. N.type \in Loops /\ N.when
        BY <3>2
      <4> QED
        BY <3>5, <4>1, Zenon
    <3>8. /\ q[j].completed_results = q[j].loop_index
          /\ q[j].kind = NodeOn(g, q, j).type
          /\ q[j].loop_index < NodeOn(g, q, j).times
      BY <3>4, <3>5
    <3> QED
      BY <3>6, <3>7, <3>8
  <2>4. CASE j # k
    <3>1. j \in 1..k - 1 /\ j < k
      <4>. HIDE DEF k
      <4> QED
        BY <1>0, <2>4
    <3>2. q[j] = p[j]
      BY <1>2, <3>1
    <3>3. /\ NodeOn(g, p, j).type \in Loops /\ NodeOn(g, p, j).when
          /\ p[j].kind = NodeOn(g, p, j).type
          /\ p[j].loop_index < NodeOn(g, p, j).times
          /\ p[j].completed_results = p[j].loop_index
      BY <3>1, PlaceLoop
    <3>. HIDE DEF k, N
    <3> QED
      BY <2>1, <2>2, <3>2, <3>3
  <2> QED
    BY <2>3, <2>4
<1>5. GraphAt(g, q, k + 1) = N.graph
  <2>1. GraphAt(g, q, k + 1) = NodeOn(g, q, k).graph
    <3>1. k = 1 \/ k = 2
      <4>. HIDE DEF k
      <4> QED
        BY <1>16
    <3>. HIDE DEF k
    <3>2. CASE k = 1
      BY <3>2 DEF GraphAt, NodeOn
    <3>3. CASE k = 2
      BY <3>3 DEF GraphAt, NodeOn
    <3> QED
      BY <3>1, <3>2, <3>3
  <2> QED
    BY <1>0, <1>3, <2>1
<1>7. ASSUME NEW j \in 1..Len(q)
      PROVE  /\ q[j].node \in 1..Len(GraphAt(g, q, j))
             /\ q[j].node_outputs =
                  {GraphAt(g, q, j)[m].id : m \in 1..q[j].node - 1}
             /\ q[j].completed_results = q[j].loop_index
             /\ IF j < Len(q)
                THEN /\ NodeOn(g, q, j).type \in Loops
                     /\ q[j].kind = NodeOn(g, q, j).type
                     /\ NodeOn(g, q, j).when
                     /\ q[j].loop_index < NodeOn(g, q, j).times
                ELSE q[j].loop_index = 0 /\ q[j].kind = "leaf"
  <2>1. CASE j = k + 1
    <3>1. ~(j < Len(q))
      <4>. HIDE DEF k
      <4> QED
        BY <1>0, <1>2, <2>1
    <3>2. /\ first.node \in 1..Len(N.graph)
          /\ first.node_outputs = {N.graph[m].id : m \in 1..first.node - 1}
      OBVIOUS
    <3>3. q[j] = first
      BY <1>2, <2>1
    <3>4. GraphAt(g, q, j) = N.graph
      BY <1>5, <2>1
    <3>. HIDE DEF k, N
    <3> QED
      BY <3>1, <3>2, <3>3, <3>4
  <2>2. CASE j # k + 1
    <3>1. j \in 1..k /\ j < Len(q)
      <4>. HIDE DEF k
      <4> QED
        BY <1>0, <1>2, <2>2
    <3> QED
      BY <1>4, <3>1
  <2> QED
    BY <2>1, <2>2
<1>8. IsPlace(g, q)
  <2>1. Len(q) \in 1..3
    BY <1>2, <1>16
  <2> QED
    BY <1>2, <1>7, <2>1 DEF IsPlace
<1>11. ASSUME Unmarked(p)
       PROVE  Unmarked(q)
  <2> SUFFICES ASSUME NEW j \in 1..Len(q)
               PROVE  q[j].mark # "received"
    BY DEF Unmarked
  <2>0. j = k + 1 \/ j = k \/ (j \in 1..k - 1 /\ j \in 1..k)
    <3>. HIDE DEF k
    <3> QED
      BY <1>0, <1>2
  <2> QED
    BY <1>0, <1>2, <1>11, <2>0 DEF Unmarked
<1> QED
  BY <1>8, <1>11

\* The graph below a level.
LEMMA BelowIs ==
    ASSUME NEW g, NEW p, NEW k \in 1..2
    PROVE  GraphAt(g, p, k + 1) = NodeOn(g, p, k).graph
<1>1. CASE k = 1
  BY <1>1 DEF GraphAt, NodeOn
<1>2. CASE k = 2
  BY <1>2 DEF GraphAt, NodeOn
<1> QED
  BY <1>1, <1>2

LEMMA IntoFresh ==
    ASSUME NEW g, GoodGraph(g), NEW p, IsPlace(g, p),
           NodeAt(g, p).type \in Loops, NodeAt(g, p).when,
           NodeAt(g, p).times > 0, NEW r, ~Resumes(g, p, r),
           NEW q, q = IntoLoop(g, p, r)
    PROVE  /\ IsPlace(g, q) /\ (Unmarked(p) => Unmarked(q)) /\ q # <<>>
           /\ \A s : IsScope(g, s) =>
                 (IsBefore(s, Scope(q)) <=> IsBefore(s, Scope(p)))
<1>. DEFINE k == Len(p)
            N == NodeAt(g, p)
            first == Level(1, {})
<1>1. /\ k \in 1..3 /\ k \in 1..k /\ p \in Seq(Levels) /\ N = NodeOn(g, p, k)
      /\ p[k].loop_index = 0
  BY LastLevel
<1>2. k \in 1..2 /\ k \in Nat
  <2>1. k # 3
    <3>1. k = 3 => NodeOn(g, p, k).type \notin Loops
      BY <1>1, PlaceLevel
    <3> QED
      BY <1>1, <3>1
  <2>. HIDE DEF k
  <2> QED
    BY <1>1, <2>1
<1>3. /\ first \in Levels /\ first.node = 1 /\ first.node_outputs = {}
      /\ first.kind = "leaf" /\ first.mark = "none"
      /\ first.loop_index = 0 /\ first.completed_results = 0
  BY LevelIs
<1>4. Level(first.node, first.node_outputs) = first
  BY <1>3
<1>5. q = Append([p EXCEPT ![k] = Entered(@, N.type, first)], first)
  BY <1>4 DEF IntoLoop
<1>6. ToLoop(p, N.type, first, first, q)
  <2>. HIDE DEF first, N
  <2> QED
    BY <1>1, <1>3, <1>5, ToLoopIs DEF N
<1>7. first.node \in 1..Len(N.graph)
  <2>1. N.graph = GraphAt(g, p, k + 1)
    <3>. HIDE DEF k, N
    <3> QED
      BY <1>1, <1>2, BelowIs
  <2>2. Body(GraphAt(g, p, k + 1))
    <3>1. k + 1 \in 1..3
      <4>. HIDE DEF k
      <4> QED
        BY <1>2
    <3>2. \A j \in 1..k + 1 - 1 : /\ p[j].node \in 1..Len(GraphAt(g, p, j))
                                  /\ NodeOn(g, p, j).type \in Loops
      <4> TAKE j \in 1..k + 1 - 1
      <4>1. j \in 1..k
        <5>. HIDE DEF k
        <5> QED
          BY <1>2
      <4>2. j = k \/ j < k
        <5>. HIDE DEF k
        <5> QED
          BY <1>2, <4>1
      <4>3. p[j].node \in 1..Len(GraphAt(g, p, j))
        BY <4>1 DEF IsPlace
      <4>4. NodeOn(g, p, j).type \in Loops
        BY <1>1, <4>1, <4>2, PlaceLoop
      <4> QED
        BY <4>3, <4>4
    <3>. DEFINE i == k + 1
    <3>3. i \in 1..3
      BY <3>1
    <3>4. \A j \in 1..i - 1 : /\ p[j].node \in 1..Len(GraphAt(g, p, j))
                              /\ NodeOn(g, p, j).type \in Loops
      BY <3>2
    <3>5. Body(GraphAt(g, p, i))
      <4>. HIDE DEF i
      <4> QED
        BY <3>3, <3>4, GoodBodies
    <3> QED
      BY <3>5
  <2>3. Body(N.graph)
    BY <2>1, <2>2
  <2>. HIDE DEF N
  <2> QED
    BY <1>3, <2>3 DEF Body
<1>8. IsPlace(g, q) /\ (Unmarked(p) => Unmarked(q))
  <2>1. first.node_outputs = {N.graph[m].id : m \in 1..first.node - 1}
    <3>1. 1..first.node - 1 = {}
      <4>. HIDE DEF first
      <4> QED
        BY <1>3
    <3>. HIDE DEF first, N
    <3> QED
      BY <1>3, <3>1
  <2>2. first.loop_index < N.times
    BY <1>3
  <2>. HIDE DEF first
  <2> QED
    BY <1>3, <1>6, <1>7, <2>1, <2>2, ToLoopPlace
<1>9. /\ q \in Seq(Levels) /\ Len(q) = k + 1
      /\ \A j \in 1..k - 1 : q[j] = p[j]
      /\ q[k].node = p[k].node /\ q[k].loop_index = p[k].loop_index
      /\ q[k + 1].node = 1 /\ q[k + 1].loop_index = 0
  <2>. HIDE DEF first
  <2> QED
    BY <1>1, <1>3, <1>6 DEF ToLoop
<1>10. /\ Len(Scope(p)) = k /\ Len(Scope(q)) = k + 1
       /\ \A j \in 1..k : Scope(p)[j] = Scope(q)[j]
       /\ Scope(q)[k + 1][1] = 1 /\ Scope(q)[k + 1][2] = 0
  <2>1. Len(Scope(p)) = k /\ \A j \in 1..k :
           Scope(p)[j] = <<p[j].node, p[j].loop_index>>
    BY <1>1, ScopeOf
  <2>2. Len(Scope(q)) = k + 1 /\ \A j \in 1..k + 1 :
           /\ Scope(q)[j] = <<q[j].node, q[j].loop_index>>
           /\ Scope(q)[j][1] = q[j].node /\ Scope(q)[j][2] = q[j].loop_index
    BY <1>9, ScopeOf
  <2>3. ASSUME NEW j \in 1..k
        PROVE  Scope(p)[j] = Scope(q)[j]
    <3>1. j \in 1..k + 1 /\ (j = k \/ j \in 1..k - 1)
      <4>. HIDE DEF k
      <4> QED
        BY <1>2
    <3>2. q[j].node = p[j].node /\ q[j].loop_index = p[j].loop_index
      BY <1>9, <3>1
    <3>3. Scope(p)[j] = <<p[j].node, p[j].loop_index>>
      BY <2>1
    <3>4. Scope(q)[j] = <<q[j].node, q[j].loop_index>>
      BY <2>2, <3>1
    <3> QED
      BY <3>2, <3>3, <3>4
  <2>4. k + 1 \in 1..k + 1
    <3>. HIDE DEF k
    <3> QED
      BY <1>2
  <2> QED
    BY <1>9, <2>1, <2>2, <2>3, <2>4
<1>11. ASSUME NEW s, IsScope(g, s)
       PROVE  IsBefore(s, Scope(q)) <=> IsBefore(s, Scope(p))
  <2>1. Len(s) \in Nat /\ \A j \in 1..Len(s) :
           /\ s[j][1] \in Nat /\ s[j][2] \in Nat /\ s[j][1] # 0
    <3>1. \A j \in 1..Len(s) : s[j][1] \in 1..Len(GraphAt(g, Path(s), j))
      BY <1>11 DEF IsScope
    <3> QED
      BY <1>11, <3>1 DEF IsScope, Steps
  <2>2. ASSUME NEW i, Behind(s, Scope(p), i)
        PROVE  Behind(s, Scope(q), i)
    <3>. HIDE DEF k
    <3>1. i \in 1..k
      BY <1>2, <1>10, <2>2 DEF Behind
    <3>2. \A j \in 1..i : Scope(p)[j] = Scope(q)[j]
      BY <1>2, <1>10, <3>1
    <3>3. i <= Len(Scope(q))
      BY <1>2, <1>10, <3>1
    <3> QED
      BY <2>2, <3>1, <3>2, <3>3 DEF Behind
  <2>3. ASSUME NEW i, Behind(s, Scope(q), i)
        PROVE  Behind(s, Scope(p), i)
    <3>. HIDE DEF k
    <3>1. i # k + 1
      <4>1. SUFFICES ASSUME i = k + 1
                     PROVE  FALSE
        OBVIOUS
      <4>2. k + 1 \in 1..Len(s)
        BY <1>2, <2>1, <2>3, <4>1 DEF Behind
      <4>3. s[k + 1][1] \in Nat /\ s[k + 1][1] # 0 /\ s[k + 1][2] \in Nat
        BY <2>1, <4>2
      <4> QED
        BY <1>10, <2>3, <4>1, <4>3 DEF Behind
    <3>2. i \in 1..k
      BY <1>2, <1>10, <2>3, <3>1 DEF Behind
    <3>3. \A j \in 1..i : Scope(p)[j] = Scope(q)[j]
      BY <1>2, <1>10, <3>2
    <3>4. i <= Len(Scope(p))
      BY <1>2, <1>10, <3>2
    <3> QED
      BY <2>3, <3>2, <3>3, <3>4 DEF Behind
  <2> QED
    BY <2>1, <2>2, <2>3, BeforeIsBehind
<1>12. q # <<>>
  BY <1>2, <1>9
<1> QED
  BY <1>8, <1>11, <1>12

LEMMA IntoAgain ==
    ASSUME NEW g, GoodGraph(g), NEW p, IsPlace(g, p),
           NodeAt(g, p).type \in Loops, NodeAt(g, p).when,
           NEW r, IsPlace(g, r), Along(p, r), Resumes(g, p, r),
           NEW q, q = IntoLoop(g, p, r)
    PROVE  /\ IsPlace(g, q) /\ (Unmarked(p) => Unmarked(q)) /\ q # <<>>
           /\ Along(q, r)
<1>. DEFINE k == Len(p)
            N == NodeAt(g, p)
            saved == r[k]
            first == Level(r[k + 1].node, r[k + 1].node_outputs)
<1>1. /\ k \in 1..3 /\ k \in 1..k /\ p \in Seq(Levels) /\ N = NodeOn(g, p, k)
  BY LastLevel
<1>0. Len(p) # Len(r)
  <2>1. Len(r) > Len(p)
    BY DEF Resumes
  <2> QED
    BY <1>1, <2>1
<1>2. /\ FitsLoop(saved, N) /\ k < Len(r) /\ k \in 1..Len(r)
      /\ k + 1 \in 1..Len(r) /\ r \in Seq(Levels) /\ Len(r) \in 1..3
  BY <1>0, AlongIn DEF IsPlace
<1>3. k \in 1..2 /\ k \in Nat /\ k + 1 <= Len(r)
  <2>. DEFINE m == Len(r)
  <2>1. m \in 1..3 /\ k + 1 \in 1..m /\ k \in 1..3 /\ m = Len(r)
    BY <1>1, <1>2
  <2>. HIDE DEF k, m
  <2> QED
    BY <2>1
<1>4. /\ saved \in Levels /\ r[k + 1] \in Levels
  BY <1>2
<1>5. r[k + 1].node \in Nat /\ r[k + 1].node_outputs \in SUBSET Words
  <2>. HIDE DEF k
  <2> QED
    BY <1>4 DEF Levels
<1>6. /\ first \in Levels /\ first.node = r[k + 1].node
      /\ first.node_outputs = r[k + 1].node_outputs
      /\ first.kind = "leaf" /\ first.mark = "none"
      /\ first.loop_index = 0 /\ first.completed_results = 0
  BY <1>5, LevelIs
<1>7. q = Append([p EXCEPT ![k] = Entered(@, N.type, saved)], first)
  BY DEF IntoLoop
<1>8. ToLoop(p, N.type, saved, first, q)
  <2>. HIDE DEF first, N, saved
  <2> QED
    BY <1>1, <1>4, <1>6, <1>7, ToLoopIs DEF N
<1>9. GraphAt(g, r, k + 1) = N.graph
  <2>1. GraphAt(g, r, k + 1) = NodeOn(g, r, k).graph
    <3>. HIDE DEF k
    <3> QED
      BY <1>3, BelowIs
  <2>2. NodeOn(g, r, k) = N
    BY <1>1, AlongGraphs
  <2> QED
    BY <2>1, <2>2
<1>10. /\ first.node \in 1..Len(N.graph)
       /\ first.node_outputs = {N.graph[m].id : m \in 1..first.node - 1}
  <2>1. /\ r[k + 1].node \in 1..Len(GraphAt(g, r, k + 1))
        /\ r[k + 1].node_outputs =
             {GraphAt(g, r, k + 1)[m].id : m \in 1..r[k + 1].node - 1}
    BY <1>2 DEF IsPlace
  <2>. HIDE DEF first, N, k
  <2> QED
    BY <1>6, <1>9, <2>1
<1>11. IsPlace(g, q) /\ (Unmarked(p) => Unmarked(q))
  <2>1. /\ saved.loop_index < N.times
        /\ saved.completed_results = saved.loop_index
    BY <1>2 DEF FitsLoop
  <2>. HIDE DEF first, saved
  <2> QED
    BY <1>6, <1>8, <1>10, <2>1, ToLoopPlace
<1>12. /\ q \in Seq(Levels) /\ Len(q) = k + 1
       /\ \A j \in 1..k - 1 : q[j] = p[j]
       /\ q[k].node = p[k].node /\ q[k].loop_index = r[k].loop_index
       /\ q[k + 1].node = r[k + 1].node
  <2>. HIDE DEF first
  <2> QED
    BY <1>6, <1>8 DEF ToLoop
<1>13. Along(q, r)
  <2>1. /\ \A j \in 1..k : p[j].node = r[j].node
        /\ \A j \in 1..k - 1 : p[j].loop_index = r[j].loop_index
    BY DEF Along
  <2>2. ASSUME NEW j \in 1..k + 1
        PROVE  q[j].node = r[j].node
    <3>1. j = k + 1 \/ j = k \/ (j \in 1..k - 1 /\ j \in 1..k)
      <4>. HIDE DEF k
      <4> QED
        BY <1>3
    <3> QED
      BY <1>1, <1>12, <2>1, <3>1
  <2>3. ASSUME NEW j \in 1..k + 1 - 1
        PROVE  q[j].loop_index = r[j].loop_index
    <3>1. j = k \/ j \in 1..k - 1
      <4>. HIDE DEF k
      <4> QED
        BY <1>3
    <3> QED
      BY <1>1, <1>12, <2>1, <3>1
  <2>. HIDE DEF k
  <2> QED
    BY <1>3, <1>12, <2>2, <2>3 DEF Along
<1>14. q # <<>>
  BY <1>3, <1>12
<1> QED
  BY <1>11, <1>13, <1>14

-----------------------------------------------------------------------------
(* What a node adds to what a run has come past.                           *)

\* What is in the node of a place, is in its graph.
LEMMA UnderNode ==
    ASSUME NEW g, NEW p, IsPlace(g, p), NEW s, IsScope(g, s), Under(s, p)
    PROVE  /\ Len(p) \in 1..Len(s)
           /\ NodeOn(g, Path(s), Len(p)) = NodeAt(g, p)
           /\ \A j \in 1..Len(p) - 1 : s[j] = Scope(p)[j]
           /\ s[Len(p)][1] = p[Len(p)].node
<1>1. /\ Len(p) \in 1..3 /\ Len(p) \in 1..Len(p) /\ p \in Seq(Levels)
      /\ NodeAt(g, p) = NodeOn(g, p, Len(p))
  BY LastLevel
<1>2. /\ Len(p) <= Len(s) /\ s[Len(p)][1] = p[Len(p)].node
      /\ \A j \in 1..Len(p) - 1 : s[j] = Scope(p)[j]
  BY DEF Under
<1>3. NodeOn(g, Path(s), Len(p)) = NodeOn(g, p, Len(p))
  BY <1>1, <1>2, AgreeAbove
<1>4. Len(p) \in 1..Len(s)
  <2>. DEFINE n == Len(p)
              m == Len(s)
  <2>1. n \in 1..3 /\ m \in 1..3 /\ n <= m
    BY <1>1, <1>2 DEF IsScope
  <2>2. n \in 1..m
    <3>. HIDE DEF n, m
    <3> QED
      BY <2>1
  <2> QED
    BY <2>2
<1> QED
  BY <1>1, <1>2, <1>3, <1>4

\* In a leaf there is only the leaf.
LEMMA LeafUnder ==
    ASSUME NEW g, NEW p, IsPlace(g, p), NodeAt(g, p).type \notin Loops,
           NEW s, IsScope(g, s), Under(s, p)
    PROVE  s = Scope(p)
<1>. DEFINE n == Len(p)
            m == Len(s)
<1>1. /\ n \in 1..m /\ NodeOn(g, Path(s), n) = NodeAt(g, p)
      /\ \A j \in 1..n - 1 : s[j] = Scope(p)[j]
      /\ s[n][1] = p[n].node
  BY UnderNode
<1>2. /\ m \in 1..3 /\ n \in 1..3 /\ p \in Seq(Levels)
      /\ p[n].loop_index = 0 /\ n \in 1..n
  BY LastLevel DEF IsScope
<1>3. ~(n < m)
  <2>1. n < m => NodeOn(g, Path(s), n).type \in Loops
    BY <1>1 DEF IsScope
  <2> QED
    BY <1>1, <2>1
<1>4. n = m
  <2>. HIDE DEF n, m
  <2> QED
    BY <1>1, <1>2, <1>3
<1>5. s[n][2] = 0 /\ s[n] = <<s[n][1], s[n][2]>>
  BY <1>1, <1>3 DEF IsScope, Steps
<1>6. /\ Len(Scope(p)) = n /\ DOMAIN Scope(p) = 1..n
      /\ Scope(p)[n] = <<p[n].node, p[n].loop_index>>
  BY <1>2, ScopeOf
<1>7. DOMAIN s = 1..n
  BY <1>4 DEF IsScope, Steps
<1>8. ASSUME NEW j \in 1..n
      PROVE  s[j] = Scope(p)[j]
  <2>1. j = n \/ j \in 1..n - 1
    <3>. HIDE DEF n
    <3> QED
      BY <1>2
  <2>2. s[n] = Scope(p)[n]
    BY <1>1, <1>2, <1>5, <1>6
  <2> QED
    BY <1>1, <2>1, <2>2
<1>9. s = [j \in 1..n |-> s[j]]
  BY <1>7 DEF IsScope, Steps
<1> QED
  BY <1>6, <1>7, <1>8, <1>9 DEF Scope

\* A loop without iterations has nothing in it.
LEMMA NoneUnder ==
    ASSUME NEW g, NEW p, IsPlace(g, p), NodeAt(g, p).type \in Loops,
           NodeAt(g, p).times = 0, NEW s, IsScope(g, s)
    PROVE  ~Under(s, p)
<1>. SUFFICES ASSUME Under(s, p)
              PROVE  FALSE
  OBVIOUS
<1>. DEFINE n == Len(p)
            m == Len(s)
<1>1. n \in 1..m /\ NodeOn(g, Path(s), n) = NodeAt(g, p)
  BY UnderNode
<1>2. /\ n < m => s[n][2] < NodeOn(g, Path(s), n).times
      /\ ~(n < m) => NodeOn(g, Path(s), n).type \notin Loops
      /\ s[n][2] \in Nat
  BY <1>1 DEF IsScope, Steps
<1>3. n < m
  BY <1>1, <1>2
<1>4. s[n][2] < 0
  BY <1>1, <1>2, <1>3
<1> QED
  BY <1>2, <1>4

\* What is in a node that is skipped is not due.
LEMMA NotDueUnder ==
    ASSUME NEW g, NEW p, IsPlace(g, p), ~NodeAt(g, p).when,
           NEW s, IsScope(g, s), Under(s, p)
    PROVE  s \notin DueIn(g)
<1>1. Len(p) \in 1..Len(s) /\ NodeOn(g, Path(s), Len(p)) = NodeAt(g, p)
  BY UnderNode
<1>2. ~NodeOn(g, Path(s), Len(p)).when
  BY <1>1, Zenon
<1> QED
  BY <1>1, <1>2 DEF DueIn

\* A leaf that is not skipped and has an effect is due.
LEMMA HereIsDue ==
    ASSUME NEW g, GoodGraph(g), NEW p, IsPlace(g, p), NodeAt(g, p).when,
           NodeAt(g, p).type \notin Loops,
           IsDatabaseWork(NodeAt(g, p)) \/ IsOutsideWork(NodeAt(g, p))
    PROVE  Scope(p) \in DueIn(g)
<1>1. Scope(p) \in Leaves(g)
  BY PlacesAreLeaves
<1>2. /\ p \in Seq(Levels) /\ Len(p) \in 1..3 /\ Len(Scope(p)) = Len(p)
      /\ NodeAt(g, p) = NodeOn(g, p, Len(p))
  BY LastLevel, ScopeOf
<1>3. NodeAt(g, Path(Scope(p))) = NodeAt(g, p)
  BY <1>2, ScopeNode
<1>4. ASSUME NEW k \in 1..Len(Scope(p))
      PROVE  NodeOn(g, Path(Scope(p)), k).when
  <2>1. k \in 1..Len(p)
    BY <1>2
  <2>2. NodeOn(g, Path(Scope(p)), k) = NodeOn(g, p, k)
    BY <1>2, <2>1, ScopeGraphs
  <2>3. NodeOn(g, p, k).when
    <3>1. k = Len(p) \/ k < Len(p)
      <4>. DEFINE n == Len(p)
      <4>1. n \in 1..3 /\ k \in 1..n
        BY <1>2, <2>1
      <4>2. k = n \/ k < n
        <5>. HIDE DEF n
        <5> QED
          BY <4>1
      <4> QED
        BY <4>2
    <3>2. CASE k = Len(p)
      BY <1>2, <3>2, Zenon
    <3>3. CASE k < Len(p)
      BY <2>1, <3>3, PlaceLoop
    <3> QED
      BY <3>1, <3>2, <3>3
  <2> QED
    BY <2>2, <2>3, Zenon
<1> QED
  BY <1>1, <1>3, <1>4 DEF DueIn

LEMMA DueAreScopes ==
    ASSUME NEW g, GoodGraph(g), NEW s \in DueIn(g)
    PROVE  s \in Leaves(g) /\ IsScope(g, s) /\ Steps(s)
  BY LeavesAreScopes DEF DueIn, IsScope

LEMMA PastOnward ==
    ASSUME NEW g, GoodGraph(g), NEW p, IsPlace(g, p), NEW q,
           q = Onward(g, p), NEW s, IsScope(g, s)
    PROVE  /\ IsBefore(s, Scope(p)) => Past(s, q)
           /\ Past(s, q) => IsBefore(s, Scope(p)) \/ Under(s, p)
           /\ Past(Scope(p), q)
<1>1. Past(s, q) => IsBefore(s, Scope(p)) \/ Under(s, p)
  BY OnwardPast DEF Past
<1>2. ASSUME q # <<>>
      PROVE  IsBefore(Scope(p), Scope(q)) /\ Steps(Scope(p)) /\ Steps(Scope(q))
  <2>1. IsPlace(g, q) /\ IsBefore(Scope(p), Scope(q))
    BY <1>2, OnwardPlace
  <2>2. p \in Seq(Levels) /\ q \in Seq(Levels)
    BY <2>1 DEF IsPlace
  <2>3. Steps(Scope(p))
    BY <2>2, ScopeOf
  <2>4. Steps(Scope(q))
    BY <2>2, ScopeOf
  <2> QED
    BY <2>1, <2>3, <2>4
<1>3. Past(Scope(p), q)
  BY <1>2 DEF Past
<1>4. ASSUME IsBefore(s, Scope(p))
      PROVE  Past(s, q)
  <2>1. Steps(s)
    BY DEF IsScope
  <2> QED
    BY <1>2, <1>4, <2>1, BeforeTransitive DEF Past
<1> QED
  BY <1>1, <1>3, <1>4

\* Where a leaf's output leads is past what came before it, and the leaf.
LEMMA LeafDone ==
    ASSUME NEW g, GoodGraph(g), NEW p, IsPlace(g, p),
           NodeAt(g, p).type \notin Loops, NEW q, q = Onward(g, p),
           NEW s, IsScope(g, s)
    PROVE  Past(s, q) <=> IsBefore(s, Scope(p)) \/ s = Scope(p)
  BY PastOnward, LeafUnder

\* A node that is skipped, or a loop without items, adds nothing that is due.
LEMMA SkipDone ==
    ASSUME NEW g, GoodGraph(g), NEW p, IsPlace(g, p),
           \/ ~NodeAt(g, p).when
           \/ NodeAt(g, p).type \in Loops /\ NodeAt(g, p).times = 0,
           NEW q, q = Onward(g, p), NEW s \in DueIn(g)
    PROVE  Past(s, q) <=> IsBefore(s, Scope(p))
  BY DueAreScopes, PastOnward, NotDueUnder, NoneUnder

\* A leaf without an effect is not due.
LEMMA HereIsNotDue ==
    ASSUME NEW g, NEW p, IsPlace(g, p),
           ~IsDatabaseWork(NodeAt(g, p)), ~IsOutsideWork(NodeAt(g, p))
    PROVE  Scope(p) \notin DueIn(g)
<1>1. NodeAt(g, Path(Scope(p))) = NodeAt(g, p)
  BY LastLevel, ScopeNode
<1> QED
  BY <1>1 DEF DueIn

-----------------------------------------------------------------------------
(* A thread on its way through the graph.                                  *)

\* At a leaf, at a node that is skipped, and at a loop that no checkpoint is
\* in, a thread is where it was to come to.
LEMMA Reached ==
    ASSUME NEW g, NEW th, Placed(g, th), th.at # <<>>,
           \/ ~Resumes(g, th.at, th.resume)
           \/ NodeAt(g, th.at).type \notin Loops
           \/ ~NodeAt(g, th.at).when
    PROVE  /\ IsPlace(g, th.at) /\ Unmarked(th.at) /\ IsPlace(g, Aim(th))
           /\ Aim(th) # <<>> /\ Scope(Aim(th)) = Scope(th.at)
           /\ NodeAt(g, Aim(th)) = NodeAt(g, th.at)
           /\ Len(Aim(th)) = Len(th.at)
           /\ \A s : Past(s, Aim(th)) <=> IsBefore(s, Scope(th.at))
<1>1. IsPlace(g, th.at) /\ Unmarked(th.at)
  BY DEF Placed
<1>2. /\ IsPlace(g, Aim(th)) /\ Aim(th) # <<>>
      /\ Scope(Aim(th)) = Scope(th.at)
      /\ NodeAt(g, Aim(th)) = NodeAt(g, th.at) /\ Len(Aim(th)) = Len(th.at)
  <2>1. CASE th.resume = <<>>
    BY <1>1, <2>1 DEF Aim
  <2>2. CASE th.resume # <<>>
    <3>1. IsPlace(g, th.resume) /\ Along(th.at, th.resume)
      BY <2>2 DEF Placed
    <3> QED
      BY <1>1, <2>2, <3>1, NotAgain DEF Aim
  <2> QED
    BY <2>1, <2>2
<1> QED
  BY <1>1, <1>2 DEF Past

\* A thread that works at a node from which the run goes on.
Turns(g, th, q) ==
    /\ GoodGraph(g) /\ th.doing = "work" /\ th.at # <<>>
    /\ Placed(g, th) /\ Pending(g, th)
    /\ \/ ~Resumes(g, th.at, th.resume)
       \/ NodeAt(g, th.at).type \notin Loops
       \/ ~NodeAt(g, th.at).when
    /\ q = Onward(g, th.at)

Moved(th, new, q, W) ==
    /\ new.doing = "node" /\ new.resume = <<>> /\ new.at = q
    /\ new.pending = W /\ new.entered = th.entered
    /\ new.approved = th.approved

LEMMA OutputPlace ==
    ASSUME NEW g, NEW th, NEW q, Turns(g, th, q), NEW W, NEW new,
           Moved(th, new, q, W), NEW ears, ears \subseteq Leaves(g),
           Hears(g, th, ears), ~th.entered
    PROVE  /\ Placed(g, new) /\ Hears(g, new, ears)
           /\ Aim(new) = q
<1>0. GoodGraph(g)
  BY DEF Turns
<1>1. /\ IsPlace(g, th.at) /\ Unmarked(th.at)
      /\ Scope(Aim(th)) = Scope(th.at)
      /\ \A s : Past(s, Aim(th)) <=> IsBefore(s, Scope(th.at))
  BY Reached DEF Turns
<1>2. q # <<>> => IsPlace(g, q) /\ Unmarked(q)
  BY <1>1, OnwardPlace DEF Turns
<1>3. Placed(g, new)
  BY <1>2 DEF Placed, Moved
<1>4. Aim(new) = q
  BY DEF Aim, Moved
<1>5. ASSUME NEW s \in ears, ~Repeated(g, s)
      PROVE  Past(s, q)
  <2>1. IsScope(g, s)
    BY <1>0, LeavesAreScopes
  <2>2. CASE Past(s, Aim(th))
    BY <1>0, <1>1, <2>1, <2>2, PastOnward DEF Turns
  <2>3. CASE th.resume # <<>> /\ s = Scope(th.resume)
    <3>1. s = Scope(th.at)
      BY <1>1, <2>3 DEF Aim
    <3> QED
      BY <1>0, <1>1, <2>1, <3>1, PastOnward DEF Turns
  <2> QED
    BY <1>5, <2>2, <2>3 DEF Hears
<1> QED
  BY <1>3, <1>4, <1>5 DEF Hears

\* A node that adds nothing due.
LEMMA OutputNone ==
    ASSUME NEW g, NEW th, NEW q, Turns(g, th, q), NEW new,
           Moved(th, new, q, {}), NEW done, Walks(g, th, done),
           \/ ~NodeAt(g, th.at).when
           \/ NodeAt(g, th.at).type \in Loops /\ NodeAt(g, th.at).times = 0
           \/ /\ NodeAt(g, th.at).type \notin Loops
              /\ ~IsDatabaseWork(NodeAt(g, th.at))
              /\ ~IsOutsideWork(NodeAt(g, th.at))
    PROVE  Pending(g, new) /\ Walks(g, new, done)
<1>0. GoodGraph(g) /\ q = Onward(g, th.at) /\ th.pending = {}
  BY DEF Turns, Pending
<1>1. /\ IsPlace(g, th.at)
      /\ \A s : Past(s, Aim(th)) <=> IsBefore(s, Scope(th.at))
  BY Reached DEF Turns
<1>2. ASSUME NEW s \in DueIn(g)
      PROVE  Past(s, q) <=> IsBefore(s, Scope(th.at))
  <2>1. IsScope(g, s)
    BY <1>0, DueAreScopes
  <2>2. CASE \/ ~NodeAt(g, th.at).when
             \/ NodeAt(g, th.at).type \in Loops /\ NodeAt(g, th.at).times = 0
    BY <1>0, <1>1, <2>2, SkipDone
  <2>3. CASE /\ NodeAt(g, th.at).type \notin Loops
             /\ ~IsDatabaseWork(NodeAt(g, th.at))
             /\ ~IsOutsideWork(NodeAt(g, th.at))
    BY <1>0, <1>1, <2>1, <2>3, LeafDone, HereIsNotDue
  <2> QED
    BY <2>2, <2>3
<1>3. Aim(new) = q /\ new.pending = {}
  BY DEF Aim, Moved
<1>4. Pending(g, new)
  BY <1>3 DEF Pending
<1>5. ASSUME NEW s \in Leaves(g)
      PROVE  done[s] = IF s \in DueIn(g) /\ Past(s, q) THEN 1 ELSE 0
  <2>1. done[s] = IF s \in DueIn(g) /\ Past(s, Aim(th)) THEN 1 ELSE 0
    BY <1>0 DEF Walks
  <2>2. s \in DueIn(g) => (Past(s, q) <=> Past(s, Aim(th)))
    BY <1>1, <1>2
  <2> QED
    BY <2>1, <2>2
<1>6. Walks(g, new, done)
  BY <1>3, <1>5 DEF Walks
<1> QED
  BY <1>4, <1>6

\* A node that works in the database.
LEMMA OutputWork ==
    ASSUME NEW g, NEW th, NEW q, Turns(g, th, q), NEW new,
           Moved(th, new, q, {Scope(th.at)}), NEW done, Walks(g, th, done),
           NodeAt(g, th.at).type \notin Loops,
           NodeAt(g, th.at).when, ~th.entered,
           IsDatabaseWork(NodeAt(g, th.at)),
           NeedsApproval(NodeAt(g, th.at)) => th.approved = Scope(th.at)
    PROVE  Pending(g, new) /\ Walks(g, new, done)
<1>0. GoodGraph(g) /\ q = Onward(g, th.at) /\ th.pending = {}
  BY DEF Turns, Pending
<1>1. /\ IsPlace(g, th.at)
      /\ \A s : Past(s, Aim(th)) <=> IsBefore(s, Scope(th.at))
  BY Reached DEF Turns
<1>. DEFINE h == Scope(th.at)
<1>2. /\ h \in DueIn(g) /\ h \in Leaves(g)
      /\ NodeAt(g, Path(h)) = NodeAt(g, th.at)
  <2>1. h \in DueIn(g)
    BY <1>0, <1>1, HereIsDue
  <2>2. NodeAt(g, Path(h)) = NodeAt(g, th.at)
    BY <1>1, LastLevel, ScopeNode
  <2> QED
    BY <2>1, <2>2 DEF DueIn
<1>3. ~IsBefore(h, h)
  BY <1>0, <1>2, DueAreScopes, BeforeIrreflexive
<1>4. ASSUME NEW s \in Leaves(g)
      PROVE  Past(s, q) <=> IsBefore(s, h) \/ s = h
  BY <1>0, <1>1, LeavesAreScopes, LeafDone
<1>5. /\ Aim(new) = q /\ new.pending = {h} /\ ~new.entered
      /\ new.doing = "node" /\ new.approved = th.approved
  BY DEF Aim, Moved
<1>6. NeedsApproval(NodeAt(g, Path(h))) => th.approved = h
  BY <1>2
<1>. HIDE DEF h
<1>7. \A s \in DueIn(g) : s \in Leaves(g)
  BY DEF DueIn
<1>8. Pending(g, new)
  BY <1>2, <1>4, <1>5, <1>6, <1>7 DEF Pending
<1>9. ASSUME NEW s \in Leaves(g)
      PROVE  done[s] = IF s \in DueIn(g) /\ Past(s, q) /\ s \notin {h}
                       THEN 1 ELSE 0
  <2>1. done[s] = IF s \in DueIn(g) /\ Past(s, Aim(th)) THEN 1 ELSE 0
    BY <1>0 DEF Walks
  <2>2. Past(s, Aim(th)) <=> IsBefore(s, h)
    BY <1>1 DEF h
  <2>3. Past(s, q) /\ s \notin {h} <=> IsBefore(s, h)
    BY <1>3, <1>4
  <2> QED
    BY <2>1, <2>2, <2>3
<1>10. Walks(g, new, done)
  BY <1>5, <1>9 DEF Walks
<1> QED
  BY <1>8, <1>10

\* A call that takes effect at once.
LEMMA OutputCall ==
    ASSUME NEW g, NEW th, NEW q, Turns(g, th, q), NEW new,
           Moved(th, new, q, {}), NEW done, done \in [Leaves(g) -> Nat],
           Walks(g, th, done), NodeAt(g, th.at).type \notin Loops,
           NodeAt(g, th.at).when, IsOutsideWork(NodeAt(g, th.at)),
           NEW more, more = [done EXCEPT ![Scope(th.at)] = @ + 1]
    PROVE  Pending(g, new) /\ Walks(g, new, more)
<1>0. GoodGraph(g) /\ q = Onward(g, th.at) /\ th.pending = {}
  BY DEF Turns, Pending
<1>1. /\ IsPlace(g, th.at)
      /\ \A s : Past(s, Aim(th)) <=> IsBefore(s, Scope(th.at))
  BY Reached DEF Turns
<1>. DEFINE h == Scope(th.at)
<1>2. h \in DueIn(g) /\ h \in Leaves(g)
  <2>1. h \in DueIn(g)
    BY <1>0, <1>1, HereIsDue
  <2> QED
    BY <2>1 DEF DueIn
<1>3. ~IsBefore(h, h)
  BY <1>0, <1>2, DueAreScopes, BeforeIrreflexive
<1>4. ASSUME NEW s \in Leaves(g)
      PROVE  Past(s, q) <=> IsBefore(s, h) \/ s = h
  BY <1>0, <1>1, LeavesAreScopes, LeafDone
<1>5. Aim(new) = q /\ new.pending = {}
  BY DEF Aim, Moved
<1>6. Pending(g, new)
  BY <1>5 DEF Pending
<1>7. ASSUME NEW s \in Leaves(g)
      PROVE  /\ done[s] = IF s \in DueIn(g) /\ IsBefore(s, h) THEN 1 ELSE 0
             /\ more[s] = IF s = h THEN done[s] + 1 ELSE done[s]
  BY <1>0, <1>1 DEF Walks
<1>. HIDE DEF h
<1>8. ASSUME NEW s \in Leaves(g)
      PROVE  more[s] = IF s \in DueIn(g) /\ Past(s, q) THEN 1 ELSE 0
  <2>1. CASE s = h
    BY <1>2, <1>3, <1>4, <1>7, <2>1
  <2>2. CASE s # h
    BY <1>4, <1>7, <2>2
  <2> QED
    BY <2>1, <2>2
<1>9. Walks(g, new, more)
  BY <1>5, <1>8 DEF Walks
<1> QED
  BY <1>6, <1>9

LEMMA ResumesIs ==
    ASSUME NEW g, NEW th, Placed(g, th), th.at # <<>>,
           Resumes(g, th.at, th.resume)
    PROVE  /\ IsPlace(g, th.at) /\ IsPlace(g, th.resume)
           /\ th.resume # <<>> /\ Along(th.at, th.resume)
           /\ FitsLoop(th.resume[Len(th.at)], NodeAt(g, th.at))
<1>1. IsPlace(g, th.at) /\ Len(th.at) \in 1..3
  BY LastLevel DEF Placed
<1>2. Len(th.resume) > Len(th.at)
  BY DEF Resumes
<1>3. th.resume # <<>>
  <2>1. ~(0 > Len(th.at))
    BY <1>1
  <2> QED
    BY <1>2, <2>1
<1>4. IsPlace(g, th.resume) /\ Along(th.at, th.resume)
  BY <1>3 DEF Placed
<1>5. Len(th.at) # Len(th.resume)
  <2>1. Len(th.resume) \in 1..3
    BY <1>4, LastLevel
  <2> QED
    BY <1>1, <1>2, <2>1
<1> QED
  BY <1>1, <1>3, <1>4, <1>5, AlongIn

\* A thread that works at a loop goes into it.
Enters(g, th, new) ==
    /\ GoodGraph(g) /\ th.doing = "work" /\ th.at # <<>> /\ ~th.entered
    /\ Placed(g, th) /\ Pending(g, th)
    /\ NodeAt(g, th.at).type \in Loops /\ NodeAt(g, th.at).when
    /\ new.doing = "node" /\ new.entered = th.entered
    /\ new.pending = th.pending /\ new.approved = th.approved
    /\ new.resume = ChildResume(g, th.at, th.resume)
    /\ new.at = IF NodeAt(g, th.at).type = "foreach"
                THEN EnterForeach(g, th.at, th.resume)
                ELSE EnterRepeat(g, th.at, th.resume)

LEMMA LoopEntered ==
    ASSUME NEW g, NEW th, NEW new, Enters(g, th, new),
           NEW done, Walks(g, th, done),
           NEW ears, ears \subseteq Leaves(g), Hears(g, th, ears)
    PROVE  /\ Placed(g, new) /\ Pending(g, new) /\ Walks(g, new, done)
           /\ Hears(g, new, ears)
<1>0. /\ GoodGraph(g) /\ th.at # <<>> /\ ~th.entered /\ Placed(g, th)
      /\ NodeAt(g, th.at).type \in Loops /\ NodeAt(g, th.at).when
      /\ new.doing = "node" /\ ~new.entered /\ new.pending = {}
      /\ th.pending = {}
  BY DEF Enters, Pending
<1>1. IsPlace(g, th.at) /\ Unmarked(th.at)
  BY <1>0 DEF Placed
<1>2. NodeAt(g, th.at).times \in Nat
  <2>1. /\ Len(th.at) \in 1..Len(th.at)
        /\ NodeAt(g, th.at) = NodeOn(g, th.at, Len(th.at))
    BY <1>1, LastLevel
  <2>2. NodeOn(g, th.at, Len(th.at)).times \in Nat
    BY <1>0, <1>1, <2>1, PlaceLevel
  <2> QED
    BY <2>1, <2>2
<1>3. NodeAt(g, th.at).type = "repeat" => NodeAt(g, th.at).times > 0
  <2>1. /\ Len(th.at) \in 1..Len(th.at)
        /\ NodeAt(g, th.at) = NodeOn(g, th.at, Len(th.at))
    BY <1>1, LastLevel
  <2>2. /\ Body(GraphAt(g, th.at, Len(th.at)))
        /\ th.at[Len(th.at)].node \in 1..Len(GraphAt(g, th.at, Len(th.at)))
    BY <1>0, <1>1, <2>1, PlaceLevel
  <2> QED
    BY <2>1, <2>2 DEF Body, NodeOn
<1>4. Pending(g, new)
  BY <1>0 DEF Pending
<1>5. CASE Resumes(g, th.at, th.resume)
  <2>1. /\ IsPlace(g, th.resume) /\ Along(th.at, th.resume)
        /\ th.resume # <<>>
        /\ FitsLoop(th.resume[Len(th.at)], NodeAt(g, th.at))
    BY <1>0, <1>5, ResumesIs
  <2>2. NodeAt(g, th.at).times # 0
    <3>1. th.resume[Len(th.at)].loop_index < NodeAt(g, th.at).times
      BY <2>1 DEF FitsLoop
    <3>2. th.resume[Len(th.at)].loop_index \in Nat
      <4>1. Len(th.at) \in 1..Len(th.resume)
        <5>1. /\ Len(th.at) \in 1..3 /\ Len(th.resume) \in 1..3
              /\ Len(th.at) <= Len(th.resume)
          BY <1>1, <2>1, LastLevel DEF Along
        <5>2. \A a, b \in 1..3 : a <= b => a \in 1..b
          OBVIOUS
        <5> QED
          BY <5>1, <5>2, Zenon
      <4> QED
        BY <1>0, <2>1, <4>1, PlaceLevel
    <3> QED
      BY <1>2, <3>1, <3>2
  <2>3. new.resume = th.resume /\ new.at = IntoLoop(g, th.at, th.resume)
    BY <1>5, <2>2 DEF Enters, ChildResume, EnterForeach, EnterRepeat
  <2>4. /\ IsPlace(g, new.at) /\ Unmarked(new.at) /\ new.at # <<>>
        /\ Along(new.at, th.resume)
    BY <1>0, <1>1, <1>5, <2>1, <2>3, IntoAgain
  <2>5. Placed(g, new)
    BY <1>0, <2>1, <2>3, <2>4 DEF Placed
  <2>6. Aim(new) = Aim(th)
    BY <2>1, <2>3 DEF Aim
  <2>7. Walks(g, new, done)
    BY <1>0, <2>6 DEF Walks
  <2>8. Hears(g, new, ears)
    BY <1>0, <2>3, <2>6 DEF Hears
  <2> QED
    BY <1>4, <2>5, <2>7, <2>8
<1>6. CASE ~Resumes(g, th.at, th.resume)
  <2>0. new.resume = <<>>
    BY <1>6 DEF Enters, ChildResume
  <2>1. CASE NodeAt(g, th.at).times = 0
    <3>1. NodeAt(g, th.at).type # "repeat"
      BY <1>3, <2>1
    <3>2. NodeAt(g, th.at).type = "foreach"
      BY <1>0, <3>1 DEF Loops
    <3>3. new.at = Onward(g, th.at)
      BY <2>1, <3>2 DEF Enters, EnterForeach
    <3>. DEFINE q == Onward(g, th.at)
    <3>4. Turns(g, th, q)
      BY <1>6 DEF Enters, Turns
    <3>5. Moved(th, new, q, {})
      BY <1>0, <2>0, <3>3 DEF Moved, Enters
    <3>. HIDE DEF q
    <3>6. Placed(g, new) /\ Hears(g, new, ears)
      BY <1>0, <3>4, <3>5, OutputPlace
    <3>7. Walks(g, new, done)
      BY <1>0, <2>1, <3>4, <3>5, OutputNone
    <3> QED
      BY <1>4, <3>6, <3>7
  <2>2. CASE NodeAt(g, th.at).times # 0
    <3>1. new.at = IntoLoop(g, th.at, th.resume)
      BY <2>2 DEF Enters, EnterForeach, EnterRepeat
    <3>2. /\ IsPlace(g, new.at) /\ Unmarked(new.at) /\ new.at # <<>>
          /\ \A s : IsScope(g, s) =>
                (IsBefore(s, Scope(new.at)) <=> IsBefore(s, Scope(th.at)))
      <4>1. NodeAt(g, th.at).times > 0
        BY <1>2, <2>2
      <4> QED
        BY <1>0, <1>1, <1>6, <3>1, <4>1, IntoFresh
    <3>3. Placed(g, new)
      BY <1>0, <2>0, <3>2 DEF Placed
    <3>4. /\ Scope(Aim(th)) = Scope(th.at)
          /\ \A s : Past(s, Aim(th)) <=> IsBefore(s, Scope(th.at))
      BY <1>0, <1>6, Reached
    <3>5. ASSUME NEW s \in Leaves(g)
          PROVE  Past(s, Aim(new)) <=> Past(s, Aim(th))
      <4>1. IsScope(g, s)
        BY <1>0, LeavesAreScopes
      <4> QED
        BY <2>0, <3>2, <3>4, <4>1 DEF Aim, Past
    <3>6. Walks(g, new, done)
      BY <1>0, <3>5 DEF Walks
    <3>7. ASSUME NEW s \in ears, ~Repeated(g, s)
          PROVE  Past(s, Aim(new))
      <4>1. ~(th.resume # <<>> /\ s = Scope(th.resume))
        <5>1. SUFFICES ASSUME th.resume # <<>>, s = Scope(th.resume)
                       PROVE  FALSE
          OBVIOUS
        <5>2. s = Scope(th.at)
          BY <3>4, <5>1 DEF Aim
        <5>3. NodeAt(g, Path(s)) = NodeAt(g, th.at)
          BY <1>1, <5>2, LastLevel, ScopeNode
        <5>4. NodeAt(g, Path(s)).type \notin Loops
          BY <3>7 DEF Leaves
        <5> QED
          BY <1>0, <5>3, <5>4
      <4>2. Past(s, Aim(th))
        BY <3>7, <4>1 DEF Hears
      <4> QED
        BY <3>5, <4>2
    <3>8. Hears(g, new, ears)
      BY <3>7 DEF Hears
    <3> QED
      BY <1>4, <3>3, <3>6, <3>8
  <2> QED
    BY <2>1, <2>2
<1> QED
  BY <1>5, <1>6

-----------------------------------------------------------------------------
(* The rows of a run that goes on, waits or fails.                         *)

\* A thread sets off from a checkpoint.
LEMMA SetOff ==
    ASSUME NEW g, NEW c, IsPlace(g, c), NEW done, Shown(g, done, c),
           NEW ears, HeardBefore(g, ears, c), NEW new,
           new.doing = "node", new.resume = c, new.pending = {},
           new.at = <<Level(c[1].node, c[1].node_outputs)>>,
           \A k \in 1..Len(c) : c[k].mark = "received" =>
              /\ NodeAt(g, c).type = "await_event"
              /\ k = Len(c) \/ Repeated(g, Scope(c))
    PROVE  /\ Placed(g, new) /\ Pending(g, new) /\ Walks(g, new, done)
           /\ Hears(g, new, ears)
<1>1. c # <<>>
  BY LastLevel
<1>2. /\ IsPlace(g, new.at) /\ Unmarked(new.at) /\ Along(new.at, c)
      /\ new.at # <<>>
  BY FirstOf
<1>3. Aim(new) = c
  BY <1>1 DEF Aim
<1>4. Placed(g, new)
  BY <1>1, <1>2 DEF Placed
<1>5. Pending(g, new)
  BY DEF Pending
<1>6. Walks(g, new, done)
  BY <1>3 DEF Shown, Walks
<1>7. Hears(g, new, ears)
  BY <1>3 DEF HeardBefore, Hears
<1> QED
  BY <1>4, <1>5, <1>6, <1>7

\* Or from the start.
LEMMA SetOffFresh ==
    ASSUME NEW g, GoodGraph(g), NEW done, \A s \in Leaves(g) : done[s] = 0,
           NEW new, new.doing = "node", new.resume = <<>>, new.pending = {},
           new.at = Start
    PROVE  /\ Placed(g, new) /\ Pending(g, new) /\ Walks(g, new, done)
           /\ Hears(g, new, {})
<1>1. /\ IsPlace(g, Start) /\ Unmarked(Start) /\ Start # <<>>
      /\ \A s : IsScope(g, s) => ~IsBefore(s, Scope(Start))
  BY StartIs
<1>2. Aim(new) = Start
  BY DEF Aim
<1>3. Placed(g, new)
  BY <1>1 DEF Placed
<1>4. Pending(g, new) /\ Hears(g, new, {})
  BY DEF Pending, Hears
<1>5. ASSUME NEW s \in Leaves(g)
      PROVE  ~Past(s, Start)
  BY <1>1, <1>5, LeavesAreScopes DEF Past
<1>6. Walks(g, new, done)
  BY <1>2, <1>5 DEF Walks
<1> QED
  BY <1>3, <1>4, <1>6

\* What a thread has committed is in turn: what it has not is the last.
LEMMA WalksInTurn ==
    ASSUME NEW g, GoodGraph(g), NEW th, Placed(g, th), Pending(g, th),
           NEW done, Walks(g, th, done)
    PROVE  InTurn(g, done)
<1>1. ASSUME NEW s \in Leaves(g)
      PROVE  done[s] <= IF s \in DueIn(g) THEN 1 ELSE 0
  BY DEF Walks
<1>2. ASSUME NEW s \in DueIn(g), NEW q \in DueIn(g), IsBefore(s, q),
             done[q] = 1
      PROVE  done[s] = 1
  <2>1. s \in Leaves(g) /\ q \in Leaves(g) /\ Steps(s) /\ Steps(q)
    BY DueAreScopes
  <2>2. Past(q, Aim(th)) /\ q \notin th.pending
    BY <1>2, <2>1 DEF Walks
  <2>3. Past(s, Aim(th))
    <3>1. CASE Aim(th) = <<>>
      BY <3>1 DEF Past
    <3>2. CASE Aim(th) # <<>>
      <4>1. IsPlace(g, Aim(th))
        BY <3>2 DEF Aim, Placed
      <4>2. Steps(Scope(Aim(th)))
        BY <4>1, ScopeOf DEF IsPlace
      <4> QED
        BY <1>2, <2>1, <2>2, <3>2, <4>2, BeforeTransitive DEF Past
    <3> QED
      BY <3>1, <3>2
  <2>4. s \notin th.pending
    <3>1. SUFFICES ASSUME s \in th.pending
                   PROVE  FALSE
      OBVIOUS
    <3>2. q = s \/ IsBefore(q, s)
      BY <2>2, <3>1 DEF Pending
    <3>3. IsBefore(s, s)
      BY <1>2, <2>1, <3>2, BeforeTransitive
    <3> QED
      BY <2>1, <3>3, BeforeIrreflexive
  <2> QED
    BY <2>1, <2>3, <2>4 DEF Walks
<1> QED
  BY <1>1, <1>2 DEF InTurn

\* What a commit makes of what a run has done.
Done2(g, th, done) ==
    [s \in Leaves(g) |-> IF s \in th.pending THEN done[s] + 1 ELSE done[s]]

LEMMA CommitIs ==
    ASSUME NEW g, NEW th, Pending(g, th), NEW done,
           done \in [Leaves(g) -> Nat], Walks(g, th, done)
    PROVE  /\ Done2(g, th, done) \in [Leaves(g) -> Nat]
           /\ Shown(g, Done2(g, th, done), Aim(th))
<1>1. Done2(g, th, done) \in [Leaves(g) -> Nat]
  BY DEF Done2
<1>2. ASSUME NEW s \in Leaves(g)
      PROVE  Done2(g, th, done)[s] =
                IF s \in DueIn(g) /\ Past(s, Aim(th)) THEN 1 ELSE 0
  <2>1. Done2(g, th, done)[s] =
           IF s \in th.pending THEN done[s] + 1 ELSE done[s]
    BY DEF Done2
  <2>2. done[s] = IF s \in DueIn(g) /\ Past(s, Aim(th)) /\ s \notin th.pending
                  THEN 1 ELSE 0
    BY DEF Walks
  <2>3. s \in th.pending => s \in DueIn(g) /\ Past(s, Aim(th))
    BY DEF Pending
  <2> QED
    BY <2>1, <2>2, <2>3
<1> QED
  BY <1>1, <1>2 DEF Shown

LEMMA CommitAsked ==
    ASSUME NEW g, NEW th, Pending(g, th), NEW done,
           done \in [Leaves(g) -> Nat], Walks(g, th, done),
           NEW asks, AskedFirst(g, done, asks),
           ~th.entered /\ th.approved # <<>> =>
              asks[th.approved] \in Approvals,
           <<>> \notin Leaves(g)
    PROVE  AskedFirst(g, Done2(g, th, done), asks)
<1> SUFFICES ASSUME NEW s \in Leaves(g), NeedsApproval(NodeAt(g, Path(s))),
                    Done2(g, th, done)[s] > 0
             PROVE  asks[s] \in Approvals
  BY DEF AskedFirst
<1>1. CASE s \in th.pending
  <2>1. th.approved = s /\ ~th.entered /\ s # <<>>
    BY <1>1 DEF Pending
  <2> QED
    BY <2>1
<1>2. CASE s \notin th.pending
  BY <1>2 DEF Done2, AskedFirst
<1> QED
  BY <1>1, <1>2

LEMMA NoEmptyLeaf ==
    ASSUME NEW g, GoodGraph(g)
    PROVE  <<>> \notin Leaves(g)
<1>1. SUFFICES ASSUME <<>> \in Leaves(g)
               PROVE  FALSE
  OBVIOUS
<1>2. Len(<<>>) \in 1..3
  BY <1>1, LeavesAreScopes DEF IsScope
<1> QED
  BY <1>2

\* The event that a checkpoint brings.
Event(th) ==
    IF /\ th.entered
       /\ \E k \in 1..Len(th.resume) : th.resume[k].mark = "received"
    THEN {Scope(th.resume)} ELSE {}

\* A thread comes to work at a node, with a commit.
Comes(g, th, new) ==
    /\ th.doing = "node" /\ new.doing = "work" /\ th.at # <<>>
    /\ ~new.entered /\ new.pending = {} /\ new.at = th.at
    /\ new.resume = th.resume /\ new.approved = th.approved

LEMMA ComesIs ==
    ASSUME NEW g, GoodGraph(g), NEW th, NEW new, Comes(g, th, new),
           Placed(g, th), Pending(g, th),
           NEW done, done \in [Leaves(g) -> Nat], Walks(g, th, done),
           NEW ears, Hears(g, th, ears), NEW row,
           row.retry.at = Checkpoint(th.at, "none"),
           row.retry.safe = RetrySafe(NodeAt(g, th.at))
    PROVE  /\ Placed(g, new) /\ Pending(g, new)
           /\ Walks(g, new, Done2(g, th, done))
           /\ Hears(g, new, ears \cup Event(th)) /\ Retries(g, new, row)
           /\ InTurn(g, Done2(g, th, done))
           /\ \A s \in Event(th) : /\ s \in Leaves(g)
                                   /\ NodeAt(g, Path(s)).type = "await_event"
           /\ IsPlace(g, row.retry.at) /\ Unmarked(row.retry.at)
<1>1. Placed(g, new)
  BY DEF Placed, Comes
<1>2. Pending(g, new) /\ Aim(new) = Aim(th) /\ new.pending = {}
  BY DEF Pending, Comes, Aim
<1>3. Walks(g, new, Done2(g, th, done))
  BY <1>2, CommitIs DEF Shown, Walks
<1>4. InTurn(g, Done2(g, th, done))
  BY <1>1, <1>2, <1>3, WalksInTurn
<1>5. Retries(g, new, row)
  BY DEF Retries, Comes
<1>6. ASSUME NEW s \in Event(th)
      PROVE  /\ s = Scope(th.resume) /\ th.entered /\ s \in Leaves(g)
             /\ NodeAt(g, Path(s)).type = "await_event"
             /\ th.resume # <<>>
             /\ \/ Inner(th.resume).mark = "received"
                \/ Repeated(g, s)
  <2>1. s = Scope(th.resume) /\ th.entered
    BY DEF Event
  <2>2. PICK k \in 1..Len(th.resume) : th.resume[k].mark = "received"
    BY DEF Event
  <2>3. th.resume # <<>>
    <3>1. 1..Len(<<>>) = {}
      OBVIOUS
    <3> QED
      BY <2>2, <3>1
  <2>4. /\ IsPlace(g, th.resume)
        /\ NodeAt(g, th.resume).type = "await_event"
        /\ k = Len(th.resume) \/ Repeated(g, Scope(th.resume))
    BY <2>2, <2>3 DEF Placed
  <2>5. s \in Leaves(g)
    BY <2>1, <2>4, PlacesAreLeaves DEF Loops
  <2>6. NodeAt(g, Path(s)) = NodeAt(g, th.resume)
    BY <2>1, <2>4, LastLevel, ScopeNode
  <2> QED
    BY <2>1, <2>2, <2>3, <2>4, <2>5, <2>6 DEF Inner
<1>7. Hears(g, new, ears \cup Event(th))
  <2> SUFFICES ASSUME NEW s \in ears \cup Event(th), ~Repeated(g, s)
               PROVE  \/ Past(s, Aim(new))
                      \/ /\ ~new.entered /\ new.resume # <<>>
                         /\ s = Scope(new.resume)
                         /\ Inner(new.resume).mark = "received"
    BY DEF Hears
  <2>1. CASE s \in ears
    BY <1>2, <2>1 DEF Hears, Comes
  <2>2. CASE s \in Event(th)
    BY <1>6, <2>2 DEF Comes
  <2> QED
    BY <2>1, <2>2
<1>8. IsPlace(g, row.retry.at) /\ Unmarked(row.retry.at)
  <2>1. IsPlace(g, th.at) /\ Unmarked(th.at)
    BY DEF Placed, Comes
  <2>2. "none" \in Marks /\ "none" # "received"
    BY DEF Marks
  <2> QED
    BY <2>1, <2>2, CheckpointIs
<1> QED
  BY <1>1, <1>2, <1>3, <1>4, <1>5, <1>6, <1>7, <1>8

\* What a checkpoint of the node at work shows.
LEMMA StoredIs ==
    ASSUME NEW g, GoodGraph(g), NEW th, Placed(g, th), Pending(g, th),
           th.doing = "work", th.at # <<>>,
           ~Resumes(g, th.at, th.resume) \/ NodeAt(g, th.at).type \notin Loops,
           NEW done, Walks(g, th, done),
           NEW ears, Hears(g, th, ears),
           \A s \in ears : NodeAt(g, Path(s)).type = "await_event",
           \/ NodeAt(g, th.at).type # "await_event"
           \/ th.resume = <<>>
           \/ th.resume[Len(th.at)].mark # "received",
           NEW mark \in Marks, mark # "received",
           NEW c, c = Checkpoint(th.at, mark)
    PROVE  /\ c # <<>> /\ IsPlace(g, c) /\ Unmarked(c)
           /\ NodeAt(g, c) = NodeAt(g, th.at)
           /\ Shown(g, done, c) /\ HeardBefore(g, ears, c)
<1>1. /\ IsPlace(g, th.at) /\ Unmarked(th.at)
      /\ Scope(Aim(th)) = Scope(th.at) /\ Len(Aim(th)) = Len(th.at)
      /\ \A s : Past(s, Aim(th)) <=> IsBefore(s, Scope(th.at))
  BY Reached
<1>2. /\ c # <<>> /\ IsPlace(g, c) /\ Unmarked(c)
      /\ NodeAt(g, c) = NodeAt(g, th.at) /\ Scope(c) = Scope(th.at)
  BY <1>1, CheckpointIs
<1>3. \A s : Past(s, c) <=> Past(s, Aim(th))
  BY <1>1, <1>2 DEF Past
<1>4. Shown(g, done, c)
  <2>1. th.pending = {}
    BY DEF Pending
  <2> QED
    BY <1>3, <2>1 DEF Walks, Shown
<1>5. ASSUME NEW s \in ears, ~Repeated(g, s)
      PROVE  Past(s, c)
  <2>1. ~(/\ th.resume # <<>> /\ s = Scope(th.resume)
          /\ Inner(th.resume).mark = "received")
    <3>1. SUFFICES ASSUME th.resume # <<>>, s = Scope(th.resume),
                          Inner(th.resume).mark = "received"
                   PROVE  FALSE
      OBVIOUS
    <3>2. s = Scope(th.at) /\ Len(th.resume) = Len(th.at)
      BY <1>1, <3>1 DEF Aim
    <3>3. NodeAt(g, Path(s)) = NodeAt(g, th.at)
      BY <1>1, <3>2, LastLevel, ScopeNode
    <3>4. NodeAt(g, th.at).type = "await_event"
      BY <1>5, <3>3
    <3> QED
      BY <3>1, <3>2, <3>4 DEF Inner
  <2> QED
    BY <1>3, <1>5, <2>1 DEF Hears
<1>6. HeardBefore(g, ears, c)
  BY <1>5 DEF HeardBefore
<1> QED
  BY <1>2, <1>4, <1>6

-----------------------------------------------------------------------------
(* What a step leaves alone.                                               *)

LEMMA IdleIs ==
    Idle.doing = "nothing" /\ ~Worker(Idle)
  BY DEF Idle, Worker

LEMMA ExecutingIs ==
    ASSUME NEW r, NEW c, NEW e, NEW a, NEW th, th = Executing(r, c, e, a)
    PROVE  /\ DOMAIN th = DOMAIN Executing(1, <<>>, FALSE, <<>>)
           /\ th.doing = "node" /\ th.run = r /\ th.entered = e
           /\ th.at = IF c = <<>> THEN Start
                      ELSE <<Level(c[1].node, c[1].node_outputs)>>
           /\ th.resume = c /\ th.approved = a /\ th.pending = {}
  BY DEF Executing

Worker1 == DOMAIN Executing(1, <<>>, FALSE, <<>>)

LEMMA WorkerFieldsAre ==
    Worker1 = {"doing", "run", "entered", "at", "resume", "approved",
               "pending"}
  BY DEF Worker1, Executing

\* A row, or a thread, that nothing happens to.
LEMMA RowKept ==
    ASSUME NEW r, RowOk(r), graph' = graph, run'[r] = run[r],
           took'[r] = took[r], Ears(r)' = Ears(r), request'[r] = request[r]
    PROVE  RowOk(r)'
  BY DEF RowOk

LEMMA DutyKept ==
    ASSUME NEW t, OnDuty(t), thread'[t] = thread[t], graph' = graph,
           Scopes' = Scopes, slot \in Nat, slot' \in Nat, slot <= slot',
           \A r \in Runs : Engaged(t) /\ r = Current(t) =>
              /\ run'[r] = run[r] /\ took'[r] = took[r]
              /\ Ears(r)' = Ears(r)
              /\ ~thread[t].entered /\ thread[t].approved # <<>> =>
                    request'[r][thread[t].approved] \in Approvals
    PROVE  OnDuty(t)'
<1>1. CASE Engaged(t)
  <2>0. PICK r : r = Current(t)
    OBVIOUS
  <2>1. PICK th : th = thread[t]
    OBVIOUS
  <2>2. /\ Worker(th) /\ r \in Runs /\ r = th.run
        /\ Executes(graph, th, run[r], took[r], Ears(r), request[r])
    BY <1>1, <2>0, <2>1 DEF Engaged, Current
  <2>3. /\ run'[r] = run[r] /\ took'[r] = took[r] /\ Ears(r)' = Ears(r)
        /\ ~th.entered /\ th.approved # <<>> =>
              request'[r][th.approved] \in Approvals
    BY <1>1, <2>0, <2>1, <2>2
  <2>4. Executes(graph, th, run[r], took[r], Ears(r), request'[r])
    BY <2>2, <2>3 DEF Executes
  <2>5. Executes(graph', th, run'[r], took'[r], Ears(r)', request'[r])
    BY <2>3, <2>4
  <2>6. thread'[t] = th
    BY <2>1
  <2>7. Engaged(t)'
    BY <2>2, <2>5, <2>6 DEF Engaged, Current
  <2> QED
    BY <2>7 DEF OnDuty
<1>2. CASE ~Engaged(t)
  BY <1>2 DEF OnDuty, Current
<1> QED
  BY <1>1, <1>2

\* A step of thread t, on run r.
Local(t, r) ==
    /\ UNCHANGED <<graph, scheduled, enabled, build, slot>>
    /\ upsets' \in 0..MaxUpsets /\ upsets <= upsets'
    /\ DOMAIN thread' = Threads
    /\ \A u \in Threads : u # t => thread'[u] = thread[u]
    /\ DOMAIN run' = Runs /\ DOMAIN request' = Runs /\ DOMAIN took' = Runs
    /\ \A q \in Runs : q # r => /\ run'[q] = run[q] /\ took'[q] = took[q]
                                /\ request'[q] = request[q]
    /\ DOMAIN request'[r] = DOMAIN request[r]
    /\ run'[r].slot \in 0..slot /\ run'[r].build \in 0..build
    /\ \A h \in heard : h \in heard' \/ h[1] = r
    /\ \A h \in heard' : h \in heard \/ (h[1] = r /\ h \in Runs \X Scopes)

LEMMA LocalFrame ==
    ASSUME Frame, NEW t, NEW r \in Runs, Local(t, r)
    PROVE  /\ Frame' /\ Scopes' = Scopes /\ Scopes = Leaves(graph)
           /\ \A q \in Runs : q # r => Ears(q)' = Ears(q)
<1>1. 1 \in Runs
  BY RunsAssumption DEF Runs
<1>2. Scopes' = Scopes
  <2>1. DOMAIN request'[1] = DOMAIN request[1]
    BY <1>1 DEF Local
  <2> QED
    BY <2>1 DEF Scopes
<1>3. ASSUME NEW q \in Runs, q # r
      PROVE  Ears(q)' = Ears(q)
  <2>1. \A s \in Scopes : <<q, s>> \in heard' <=> <<q, s>> \in heard
    BY <1>3 DEF Local
  <2>2. Ears(q)' = {s \in Scopes : <<q, s>> \in heard'}
    BY <1>2 DEF Ears
  <2> QED
    BY <2>1, <2>2 DEF Ears
<1>4. heard' \subseteq Runs \X Scopes
  BY DEF Local, Frame
<1>5. \A q \in Runs : run'[q].slot \in 0..slot /\ run'[q].build \in 0..build
  BY DEF Local, Frame
<1>6. build \in 0..upsets' /\ slot \in 1..upsets' + 1
  <2>1. /\ build \in 0..upsets /\ slot \in 1..upsets + 1
        /\ upsets \in Nat /\ upsets' \in Nat /\ upsets <= upsets'
    BY RunsAssumption DEF Local, Frame
  <2>2. \A m, n \in Nat : m <= n =>
           0..m \subseteq 0..n /\ 1..m + 1 \subseteq 1..n + 1
    OBVIOUS
  <2> QED
    BY <2>1, <2>2
<1>7. Frame'
  BY <1>2, <1>4, <1>5, <1>6 DEF Local, Frame
<1> QED
  BY <1>2, <1>3, <1>7 DEF Frame

\* Nobody else executes r.
Alone(t, r) ==
    \A u \in Threads : u # t => ~(Worker(thread[u]) /\ Current(u) = r)

LEMMA LocalStep ==
    ASSUME Frame, Rows, Staff, Exclusive, NEW t, NEW r \in Runs,
           Local(t, r), Alone(t, r), RowOk(r)', OnDuty(t)',
           Worker(thread'[t]) => thread'[t].run = r
    PROVE  Frame' /\ Rows' /\ Staff' /\ Exclusive'
<1>1. /\ Frame' /\ Scopes' = Scopes
      /\ \A q \in Runs : q # r => Ears(q)' = Ears(q)
  BY LocalFrame
<1>2. ASSUME NEW q \in Runs
      PROVE  RowOk(q)'
  <2>1. CASE q # r
    BY <1>1, <2>1, RowKept DEF Local, Rows
  <2> QED
    BY <2>1
<1>3. Rows'
  BY <1>2 DEF Rows
<1>4. slot \in Nat /\ slot' = slot /\ graph' = graph /\ slot <= slot'
  BY DEF Frame, Local
<1>5. ASSUME NEW u \in Threads, u # t
      PROVE  OnDuty(u)' /\ thread'[u] = thread[u]
  <2>1. thread'[u] = thread[u] /\ OnDuty(u)
    BY <1>5 DEF Local, Staff
  <2>2. ASSUME NEW q \in Runs, Engaged(u), q = Current(u)
        PROVE  /\ run'[q] = run[q] /\ took'[q] = took[q]
               /\ Ears(q)' = Ears(q)
               /\ ~thread[u].entered /\ thread[u].approved # <<>> =>
                     request'[q][thread[u].approved] \in Approvals
    <3>1. q # r
      BY <1>5, <2>2 DEF Alone, Engaged
    <3> QED
      BY <1>1, <2>2, <3>1 DEF Local, Engaged, Executes
  <2> QED
    BY <1>1, <1>4, <2>1, <2>2, DutyKept
<1>6. Staff'
  BY <1>5 DEF Staff
<1>7. Exclusive'
  <2> SUFFICES ASSUME NEW u \in Threads, NEW v \in Threads,
                      Worker(thread'[u]), Worker(thread'[v]),
                      thread'[u].run = thread'[v].run
               PROVE  u = v
    BY DEF Exclusive, Current
  <2>1. CASE u # t /\ v # t
    BY <1>5, <2>1 DEF Exclusive, Current
  <2>2. CASE u = t /\ v # t
    BY <1>5, <2>2 DEF Alone, Current
  <2>3. CASE u # t /\ v = t
    BY <1>5, <2>3 DEF Alone, Current
  <2> QED
    BY <2>1, <2>2, <2>3
<1> QED
  BY <1>1, <1>3, <1>6, <1>7

\* A thread leaves its run, or turns to nothing that executes one; what it
\* writes in the requests is an answer.
LEMMA IdleStep ==
    ASSUME Frame, Rows, Staff, Exclusive, NEW t, NEW r \in Runs,
           Local(t, r), run' = run, took' = took, heard' = heard,
           OnDuty(t)', ~Worker(thread'[t]),
           \/ request' = request
           \/ \E s \in Scopes, a \in Outcomes :
                 request' = [request EXCEPT ![r][s] = a]
    PROVE  Frame' /\ Rows' /\ Staff' /\ Exclusive'
<1>1. /\ Frame' /\ Scopes' = Scopes /\ Scopes = Leaves(graph)
  BY LocalFrame
<1>2. /\ graph' = graph /\ slot' = slot /\ slot \in Nat /\ slot <= slot'
      /\ DOMAIN request = Runs
  BY DEF Frame, Local
<1>3. ASSUME NEW q
      PROVE  Ears(q)' = Ears(q)
  BY <1>1 DEF Ears
<1>4. ASSUME NEW q \in Runs
      PROVE  /\ Effects(graph, took[q], Ears(q), request'[q])
             /\ \A s \in Leaves(graph) :
                  request[q][s] \in Approvals => request'[q][s] \in Approvals
  <2>1. Effects(graph, took[q], Ears(q), request[q])
    BY DEF Rows, RowOk
  <2>2. CASE request' = request
    BY <2>1, <2>2
  <2>3. ASSUME NEW s \in Scopes, NEW a \in Outcomes,
               request' = [request EXCEPT ![r][s] = a]
        PROVE  /\ Effects(graph, took[q], Ears(q), request'[q])
               /\ \A x \in Leaves(graph) :
                    request[q][x] \in Approvals =>
                        request'[q][x] \in Approvals
    <3>1. a \in Approvals /\ a \in Answers
      BY DEF Approvals, Answers
    <3>2. request[q] \in [Leaves(graph) -> Answers]
      BY <2>1 DEF Effects
    <3>3. request'[q] = IF q = r THEN [request[q] EXCEPT ![s] = a]
                        ELSE request[q]
      BY <1>2, <2>3
    <3>4. request'[q] \in [Leaves(graph) -> Answers]
      BY <1>1, <3>1, <3>2, <3>3
    <3>5. \A x \in Leaves(graph) :
             request'[q][x] = request[q][x] \/ request'[q][x] \in Approvals
      BY <1>1, <3>1, <3>2, <3>3
    <3>6. AskedFirst(graph, took[q], request'[q])
      BY <2>1, <3>5 DEF Effects, AskedFirst
    <3> QED
      BY <2>1, <3>4, <3>5, <3>6 DEF Effects
  <2> QED
    BY <2>2, <2>3
<1>5. ASSUME NEW q \in Runs
      PROVE  RowOk(q)'
  <2>1. Effects(graph', took'[q], Ears(q)', request'[q])
    BY <1>2, <1>3, <1>4
  <2>2. /\ RowFields(graph', run'[q])
        /\ Rests(graph', run'[q], took'[q], Ears(q)')
    BY <1>2, <1>3 DEF Rows, RowOk
  <2> QED
    BY <2>1, <2>2 DEF RowOk
<1>6. ASSUME NEW u \in Threads, u # t
      PROVE  OnDuty(u)' /\ thread'[u] = thread[u]
  <2>1. thread'[u] = thread[u] /\ OnDuty(u)
    BY <1>6 DEF Local, Staff
  <2>2. ASSUME NEW q \in Runs, Engaged(u), q = Current(u)
        PROVE  /\ run'[q] = run[q] /\ took'[q] = took[q]
               /\ Ears(q)' = Ears(q)
               /\ ~thread[u].entered /\ thread[u].approved # <<>> =>
                     request'[q][thread[u].approved] \in Approvals
    <3>1. ASSUME ~thread[u].entered, thread[u].approved # <<>>
          PROVE  request'[q][thread[u].approved] \in Approvals
      <4>1. /\ request[q][thread[u].approved] \in Approvals
            /\ thread[u].approved \in Leaves(graph)
        BY <2>2, <3>1 DEF Engaged, Executes, WorkerFields
      <4> QED
        BY <1>4, <4>1
    <3> QED
      BY <1>3, <3>1
  <2> QED
    BY <1>1, <1>2, <2>1, <2>2, DutyKept
<1>7. Rows' /\ Staff'
  BY <1>5, <1>6 DEF Rows, Staff
<1>8. Exclusive'
  <2> SUFFICES ASSUME NEW u \in Threads, NEW v \in Threads,
                      Worker(thread'[u]), Worker(thread'[v]),
                      thread'[u].run = thread'[v].run
               PROVE  u = v
    BY DEF Exclusive, Current
  <2>1. u # t /\ v # t
    OBVIOUS
  <2> QED
    BY <1>6, <2>1 DEF Exclusive, Current
<1> QED
  BY <1>1, <1>7, <1>8

CoreInv == Frame /\ Rows /\ Staff /\ Exclusive

LEMMA InitCore ==
    ASSUME Init
    PROVE  CoreInv
<1>1. GoodGraph(graph)
  <2>1. PICK raw \in Graphs : graph = NormalGraph(raw)
    BY DEF Init
  <2>2. raw \in StoredGraphs
    BY RunsAssumption
  <2> QED
    BY <2>1, <2>2, NormalGraphIsGood DEF Init
<1>2. 1 \in Runs /\ MaxUpsets \in Nat
  BY RunsAssumption DEF Runs
<1>3. /\ DOMAIN run = Runs /\ DOMAIN request = Runs /\ DOMAIN took = Runs
      /\ \A r \in Runs : /\ run[r] = Row
                         /\ request[r] = [s \in Leaves(graph) |-> "none"]
                         /\ took[r] = [s \in Leaves(graph) |-> 0]
  BY DEF Init
<1>4. Scopes = Leaves(graph)
  BY <1>2, <1>3 DEF Scopes
<1>5. Frame
  <2>1. \A r \in Runs : run[r].slot \in 0..1 /\ run[r].build \in 0..0
    BY <1>3 DEF Row
  <2>2. /\ build = 0 /\ slot = 1 /\ upsets = 0 /\ heard = {}
        /\ DOMAIN thread = Threads
        /\ scheduled \in BOOLEAN /\ enabled \in BOOLEAN
    BY DEF Init
  <2> QED
    BY <1>1, <1>2, <1>3, <1>4, <2>1, <2>2 DEF Frame
<1>6. ASSUME NEW r \in Runs
      PROVE  RowOk(r)
  <2>1. RowFields(graph, run[r])
    <3>1. run[r] = Row
      BY <1>3
    <3>2. /\ Row.status = "none" /\ Row.attempts = 0 /\ Row.wait = <<>>
          /\ Row.retry = NoRetry
      BY DEF Row
    <3>3. NoRetry.at = <<>> /\ NoRetry.safe = FALSE
      BY DEF NoRetry
    <3>4. \A c \in {Row.wait, Row.retry.at} : c = <<>>
      BY <3>2, <3>3
    <3>7. Row.retry.safe \in BOOLEAN
      <4>1. Row.retry.safe = FALSE
        BY <3>2, <3>3, Zenon
      <4> QED
        BY <4>1
    <3>5. /\ Row.status \in RunStatuses /\ Row.attempts \in Nat
          /\ DOMAIN Row.retry = DOMAIN NoRetry /\ Row.retry.safe \in BOOLEAN
      BY <3>2, <3>7 DEF RunStatuses
    <3>6. RowFields(graph, Row)
      BY <3>4, <3>5 DEF RowFields
    <3> QED
      BY <3>1, <3>6
  <2>2. Ears(r) = {}
    BY DEF Init, Ears
  <2>3. \A s \in Leaves(graph) : took[r][s] = 0
    BY <1>3
  <2>4. InTurn(graph, took[r])
    BY <2>3 DEF InTurn, DueIn
  <2>5. Effects(graph, took[r], Ears(r), request[r])
    BY <1>3, <2>2, <2>3, <2>4 DEF Effects, AskedFirst, Answers
  <2>6. Rests(graph, run[r], took[r], Ears(r))
    BY <1>3, <2>2, <2>3 DEF Rests, Row, NoRetry, Waiting
  <2> QED
    BY <2>1, <2>5, <2>6 DEF RowOk
<1>7. Staff
  BY DEF Init, Staff, OnDuty
<1>8. Exclusive
  BY IdleIs DEF Init, Exclusive
<1> QED
  BY <1>5, <1>6, <1>7, <1>8 DEF CoreInv, Rows

-----------------------------------------------------------------------------
(* Steps of threads that execute nothing, and changes of the workflow.     *)

LEMMA BecomeIs ==
    ASSUME Frame, NEW t \in Threads, NEW new, Become(t, new)
    PROVE  /\ DOMAIN thread' = Threads /\ thread'[t] = new
           /\ \A u \in Threads : u # t => thread'[u] = thread[u]
  BY DEF Frame, Become

LEMMA UpsetIs ==
    ASSUME Frame, upsets' = upsets \/ Upset
    PROVE  upsets' \in 0..MaxUpsets /\ upsets <= upsets'
<1>1. upsets \in 0..MaxUpsets /\ MaxUpsets \in Nat
  BY RunsAssumption DEF Frame
<1> QED
  BY <1>1 DEF Upset

LEMMA QuietIs ==
    ASSUME Frame, NEW t \in Threads, NEW r \in Runs, NEW new,
           Become(t, new), UNCHANGED <<config, run, request, took, heard>>,
           upsets' = upsets \/ Upset
    PROVE  Local(t, r) /\ thread'[t] = new
<1>1. run[r].slot \in 0..slot /\ run[r].build \in 0..build
  BY DEF Frame
<1> QED
  BY <1>1, BecomeIs, UpsetIs DEF Local, config, Frame

\* Nothing happens but that a thread turns to something, or leaves its run.
LEMMA QuietStep ==
    ASSUME CoreInv, NEW t \in Threads, NEW new,
           Become(t, new), UNCHANGED <<config, run, request, took, heard>>,
           upsets' = upsets \/ Upset,
           \/ new = Idle
           \/ new.doing = "create" /\ new.slot \in 0..slot
           \/ new.doing = "look" /\ new.run \in Runs
           \/ /\ new.doing = "answer" /\ new.run \in Runs
              /\ new.scope \in Scopes /\ new.outcome \in Outcomes
    PROVE  CoreInv'
<1>1. 1 \in Runs
  BY RunsAssumption DEF Runs
<1>2. Local(t, 1) /\ thread'[t] = new
  BY <1>1, QuietIs DEF CoreInv
<1>3. Scopes' = Scopes /\ slot' = slot
  BY DEF Scopes, config
<1>4. OnDuty(t)'
  BY <1>2, <1>3 DEF OnDuty, Current
<1>5. ~Worker(thread'[t])
  BY <1>2, IdleIs DEF Worker
<1> QED
  BY <1>1, <1>2, <1>4, <1>5, IdleStep DEF CoreInv

LEMMA LookAtSlotCore ==
    ASSUME CoreInv, NEW t \in Threads, LookAtSlot(t)
    PROVE  CoreInv'
<1>1. slot \in 0..slot
  BY DEF CoreInv, Frame
<1> QED
  BY <1>1, QuietStep DEF LookAtSlot, history

LEMMA RunByHandCore ==
    ASSUME CoreInv, NEW t \in Threads, RunByHand(t)
    PROVE  CoreInv'
<1>1. 0 \in 0..slot
  BY DEF CoreInv, Frame
<1> QED
  BY <1>1, QuietStep DEF RunByHand, history

LEMMA LookCore ==
    ASSUME CoreInv, NEW t \in Threads, NEW r \in Runs, Look(t, r)
    PROVE  CoreInv'
  BY QuietStep DEF Look, history

LEMMA GiveUpCore ==
    ASSUME CoreInv, NEW t \in Threads, GiveUp(t)
    PROVE  CoreInv'
  BY QuietStep DEF GiveUp, history

LEMMA CrashCore ==
    ASSUME CoreInv, NEW t \in Threads, Crash(t)
    PROVE  CoreInv'
  BY QuietStep DEF Crash

LEMMA AnswerCore ==
    ASSUME CoreInv, NEW t \in Threads, Answer(t)
    PROVE  CoreInv'
<1>1. PICK r : r = Current(t)
  OBVIOUS
<1>2. /\ thread[t].doing = "answer"
      /\ request' = [request EXCEPT ![r][thread[t].scope] =
                        thread[t].outcome]
      /\ Become(t, Idle) /\ UNCHANGED <<config, run, history>>
  BY <1>1 DEF Answer
<1>3. /\ r \in Runs /\ thread[t].scope \in Scopes
      /\ thread[t].outcome \in Outcomes
  <2>1. OnDuty(t)
    BY DEF CoreInv, Staff
  <2> QED
    BY <1>1, <1>2, <2>1, IdleIs DEF OnDuty, Engaged, Worker
<1>4. /\ DOMAIN request' = Runs
      /\ \A q \in Runs : q # r => request'[q] = request[q]
      /\ DOMAIN request'[r] = DOMAIN request[r]
  BY <1>2, <1>3 DEF CoreInv, Frame
<1>5. thread'[t] = Idle /\ Local(t, r)
  <2>1. run[r].slot \in 0..slot /\ run[r].build \in 0..build
    BY <1>3 DEF CoreInv, Frame
  <2> QED
    BY <1>2, <1>4, <2>1, BecomeIs, UpsetIs
    DEF CoreInv, Local, config, history, Frame
<1>6. OnDuty(t)' /\ ~Worker(thread'[t])
  BY <1>5, IdleIs DEF OnDuty
<1>7. run' = run /\ took' = took /\ heard' = heard
  BY <1>2 DEF history
<1> QED
  BY <1>2, <1>3, <1>5, <1>6, <1>7, IdleStep DEF CoreInv

\* Nobody executes a run that waits for someone to resume it.
LEMMA NobodyElse ==
    ASSUME CoreInv, NEW r \in Runs, run[r].status # "running",
           ~Locked(r) \/ run[r].status \notin Waiting
    PROVE  \A u \in Threads : ~(Worker(thread[u]) /\ Current(u) = r)
<1> SUFFICES ASSUME NEW u \in Threads, Worker(thread[u]), Current(u) = r
             PROVE  FALSE
  OBVIOUS
<1>1. Engaged(u)
  <2>1. OnDuty(u)
    BY DEF CoreInv, Staff
  <2> QED
    BY <2>1, IdleIs DEF OnDuty, Worker
<1>2. /\ WorkerFields(graph, thread[u])
      /\ run[r].status \in IF thread[u].entered THEN Waiting ELSE {"running"}
  BY <1>1 DEF Engaged, Executes
<1>3. thread[u].entered /\ run[r].status \in Waiting
  BY <1>2
<1>4. Locked(r)
  BY <1>2, <1>3 DEF Locked, WorkerFields
<1> QED
  BY <1>3, <1>4

LEMMA ApproveNotCore ==
    ASSUME CoreInv, NEW t \in Threads, NEW r \in Runs, NEW s \in Scopes,
           thread[t] = Idle,
           request' = [request EXCEPT ![r][s] = "approval_execution_failed"],
           UNCHANGED <<config, run, thread, history>>
    PROVE  CoreInv'
<1>1. "approval_execution_failed" \in Outcomes
  BY DEF Outcomes
<1>2. /\ DOMAIN request' = Runs
      /\ \A q \in Runs : q # r => request'[q] = request[q]
      /\ DOMAIN request'[r] = DOMAIN request[r]
  BY DEF CoreInv, Frame
<1>3. Local(t, r) /\ thread'[t] = Idle
  <2>1. run[r].slot \in 0..slot /\ run[r].build \in 0..build
    BY DEF CoreInv, Frame
  <2> QED
    BY <1>2, <2>1, UpsetIs DEF CoreInv, Local, config, history, Frame
<1>4. OnDuty(t)' /\ ~Worker(thread'[t])
  BY <1>3, IdleIs DEF OnDuty
<1>5. run' = run /\ took' = took /\ heard' = heard
  BY DEF history
<1> QED
  BY <1>1, <1>3, <1>4, <1>5, IdleStep DEF CoreInv

\* A run that waits is resumed, from its checkpoint or one at the same place.
LEMMA ResumeStep ==
    ASSUME CoreInv, NEW t \in Threads, NEW r \in Runs,
           \A u \in Threads : ~(Worker(thread[u]) /\ Current(u) = r),
           run[r].status \in Waiting, NEW c, IsPlace(graph, c),
           Scope(c) = Scope(run[r].wait),
           \A k \in 1..Len(c) : c[k].mark = "received" =>
              /\ NodeAt(graph, c).type = "await_event"
              /\ k = Len(c) \/ Repeated(graph, Scope(c)),
           NEW a \in Scopes \cup {<<>>},
           Become(t, Executing(r, c, TRUE, a)),
           UNCHANGED <<config, run, request, history>>
    PROVE  CoreInv'
<1>. DEFINE new == Executing(r, c, TRUE, a)
<1>1. Local(t, r) /\ thread'[t] = new
  <2>1. upsets' = upsets /\ UNCHANGED <<config, run, request, took, heard>>
    BY DEF history
  <2>. HIDE DEF new
  <2> QED
    BY <2>1, QuietIs DEF CoreInv, new
<1>2. /\ DOMAIN new = DOMAIN Executing(1, <<>>, FALSE, <<>>)
      /\ new.doing = "node" /\ new.run = r /\ new.entered = TRUE
      /\ new.at = IF c = <<>> THEN Start
                  ELSE <<Level(c[1].node, c[1].node_outputs)>>
      /\ new.resume = c /\ new.approved = a /\ new.pending = {}
  BY DEF Executing
<1>. HIDE DEF new
<1>3. c # <<>>
  BY LastLevel
<1>4. /\ RowOk(r) /\ Rests(graph, run[r], took[r], Ears(r))
      /\ Scopes = Leaves(graph)
  BY DEF CoreInv, Rows, RowOk, Frame
<1>5. /\ run[r].wait # <<>> /\ Shown(graph, took[r], run[r].wait)
      /\ HeardBefore(graph, Ears(r), run[r].wait)
  BY <1>4 DEF Rests
<1>6. \A s : Past(s, c) <=> Past(s, run[r].wait)
  BY <1>3, <1>5 DEF Past
<1>7. Shown(graph, took[r], c) /\ HeardBefore(graph, Ears(r), c)
  BY <1>5, <1>6 DEF Shown, HeardBefore
<1>8. /\ Placed(graph, new) /\ Pending(graph, new)
      /\ Walks(graph, new, took[r]) /\ Hears(graph, new, Ears(r))
  BY <1>2, <1>3, <1>7, SetOff
<1>9. Executes(graph, new, run[r], took[r], Ears(r), request[r])
  <2>1. WorkerFields(graph, new)
    BY <1>2, <1>3, <1>4 DEF WorkerFields
  <2>2. /\ Retries(graph, new, run[r])
        /\ Ends(graph, new, run[r], took[r], Ears(r))
    BY <1>2 DEF Retries, Ends
  <2> QED
    BY <1>2, <1>8, <2>1, <2>2 DEF Executes
<1>10. Ears(r)' = Ears(r) /\ run' = run /\ took' = took /\ request' = request
       /\ graph' = graph
  BY DEF Ears, Scopes, history, config
<1>11. RowOk(r)'
  BY <1>4, <1>10, RowKept
<1>12. OnDuty(t)' /\ thread'[t].run = r
  <2>1. Executes(graph', new, run'[r], took'[r], Ears(r)', request'[r])
    BY <1>9, <1>10
  <2>2. Worker(new)
    BY <1>2 DEF Worker
  <2>3. Engaged(t)'
    BY <1>1, <1>2, <2>1, <2>2 DEF Engaged, Current
  <2> QED
    BY <1>1, <1>2, <2>3 DEF OnDuty
<1> QED
  BY <1>1, <1>11, <1>12, LocalStep DEF CoreInv, Alone

LEMMA WaitPlace ==
    ASSUME CoreInv, NEW r \in Runs, run[r].status \in Waiting
    PROVE  IsPlace(graph, run[r].wait) /\ Unmarked(run[r].wait)
<1>1. run[r].wait # <<>>
  BY DEF CoreInv, Rows, RowOk, Rests
<1>2. RowFields(graph, run[r])
  BY DEF CoreInv, Rows, RowOk
<1> QED
  BY <1>1, <1>2 DEF RowFields

LEMMA ApproveCore ==
    ASSUME CoreInv, NEW t \in Threads, NEW r \in Runs, NEW s \in Scopes,
           Approve(t, r, s)
    PROVE  CoreInv'
<1>1. /\ thread[t] = Idle /\ ~Locked(r)
      /\ run[r].status = "waiting_approval"
      /\ UNCHANGED <<config, run, history>>
  BY DEF Approve
<1>2. CASE run[r].build # build
  <2>1. /\ request' =
              [request EXCEPT ![r][s] = "approval_execution_failed"]
        /\ UNCHANGED thread
    BY <1>2 DEF Approve
  <2> QED
    BY <1>1, <2>1, ApproveNotCore
<1>3. CASE run[r].build = build
  <2>1. /\ Become(t, Executing(r, run[r].wait, TRUE, s))
        /\ UNCHANGED request
    BY <1>3 DEF Approve
  <2>2. run[r].status \in Waiting /\ run[r].status # "running"
    BY <1>1 DEF Waiting
  <2>3. IsPlace(graph, run[r].wait) /\ Unmarked(run[r].wait)
    BY <2>2, WaitPlace
  <2>4. \A k \in 1..Len(run[r].wait) : run[r].wait[k].mark # "received"
    BY <2>3 DEF Unmarked
  <2>5. \A u \in Threads : ~(Worker(thread[u]) /\ Current(u) = r)
    BY <1>1, <2>2, NobodyElse
  <2> QED
    BY <1>1, <2>1, <2>2, <2>3, <2>4, <2>5, ResumeStep
<1> QED
  BY <1>2, <1>3

LEMMA StillDueIs ==
    ASSUME CoreInv, NEW t \in Threads, thread[t].doing = "look", StillDue(t)
    PROVE  /\ Current(t) \in Runs /\ ~Locked(Current(t))
           /\ run[Current(t)].status = thread[t].saw
<1>1. OnDuty(t)
  BY DEF CoreInv, Staff
<1> QED
  BY <1>1, IdleIs DEF OnDuty, Engaged, Worker, StillDue

LEMMA ResumeWaitCore ==
    ASSUME CoreInv, NEW t \in Threads, ResumeWait(t)
    PROVE  CoreInv'
<1>1. PICK r : r = Current(t)
  OBVIOUS
<1>2. /\ thread[t].doing = "look" /\ thread[t].saw = "waiting_time"
      /\ StillDue(t) /\ Become(t, Executing(r, run[r].wait, TRUE, <<>>))
      /\ UNCHANGED <<config, run, request, history>>
  BY <1>1 DEF ResumeWait
<1>3. r \in Runs /\ ~Locked(r) /\ run[r].status = "waiting_time"
  BY <1>1, <1>2, StillDueIs
<1>4. run[r].status \in Waiting /\ run[r].status # "running"
  BY <1>3 DEF Waiting
<1>5. IsPlace(graph, run[r].wait) /\ Unmarked(run[r].wait)
  BY <1>3, <1>4, WaitPlace
<1>6. \A k \in 1..Len(run[r].wait) : run[r].wait[k].mark # "received"
  BY <1>5 DEF Unmarked
<1>7. \A u \in Threads : ~(Worker(thread[u]) /\ Current(u) = r)
  BY <1>3, <1>4, NobodyElse
<1> QED
  BY <1>2, <1>3, <1>4, <1>5, <1>6, <1>7, ResumeStep

LEMMA ResumeEventCore ==
    ASSUME CoreInv, NEW t \in Threads, ResumeEvent(t)
    PROVE  CoreInv'
<1>1. PICK r : r = Current(t)
  OBVIOUS
<1>. DEFINE w == run[r].wait
            c == MarkEventReceived(w)
<1>2. /\ thread[t].doing = "look" /\ thread[t].saw = "waiting_event"
      /\ StillDue(t) /\ Become(t, Executing(r, c, TRUE, <<>>))
      /\ UNCHANGED <<config, run, request, history>>
  BY <1>1 DEF ResumeEvent
<1>3. r \in Runs /\ ~Locked(r) /\ run[r].status = "waiting_event"
  BY <1>1, <1>2, StillDueIs
<1>4. run[r].status \in Waiting /\ run[r].status # "running"
  BY <1>3 DEF Waiting
<1>5. IsPlace(graph, w) /\ Unmarked(w)
  BY <1>3, <1>4, WaitPlace
<1>6. NodeAt(graph, w).type = "await_event"
  BY <1>3 DEF CoreInv, Rows, RowOk, Rests
<1>7. /\ IsPlace(graph, c) /\ Scope(c) = Scope(w) /\ c # <<>>
      /\ NodeAt(graph, c) = NodeAt(graph, w) /\ Len(c) = Len(w)
      /\ \A j \in 1..Len(c) : c[j].mark = "received" =>
            \/ j = Len(c)
            \/ j < Len(c) /\ NodeOn(graph, w, j).type = "repeat"
  BY <1>5, MarkIs
<1>. HIDE DEF c, w
<1>8. ASSUME NEW k \in 1..Len(c), c[k].mark = "received"
      PROVE  /\ NodeAt(graph, c).type = "await_event"
             /\ k = Len(c) \/ Repeated(graph, Scope(c))
  <2>1. CASE k = Len(c)
    BY <1>6, <1>7, <2>1
  <2>2. CASE k < Len(c) /\ NodeOn(graph, w, k).type = "repeat"
    <3>1. w \in Seq(Levels) /\ Len(w) \in 1..3 /\ k \in 1..Len(w)
      BY <1>5, <1>7 DEF IsPlace
    <3>2. NodeOn(graph, Path(Scope(w)), k).type = "repeat"
      BY <2>2, <3>1, ScopeGraphs
    <3>3. k \in 1..Len(Scope(w)) - 1
      <4>1. Len(Scope(w)) = Len(w)
        BY <3>1, ScopeOf
      <4> QED
        BY <1>7, <2>2, <3>1, <4>1
    <3> QED
      BY <1>6, <1>7, <3>2, <3>3 DEF Repeated
  <2> QED
    BY <1>7, <1>8, <2>1, <2>2
<1>9. \A u \in Threads : ~(Worker(thread[u]) /\ Current(u) = r)
  BY <1>3, <1>4, NobodyElse
<1>10. Scope(c) = Scope(run[r].wait)
  BY <1>7 DEF w
<1> QED
  BY <1>2, <1>3, <1>4, <1>7, <1>8, <1>9, <1>10, ResumeStep

\* A request that still waits is no approval.
LEMMA RejectCore ==
    ASSUME CoreInv, NEW r \in Runs, NEW s \in Scopes, Reject(r, s)
    PROVE  CoreInv'
<1>1. /\ request[r][s] = "awaiting_confirmation" /\ ~Locked(r)
      /\ request' = [request EXCEPT ![r][s] = "rejected"]
      /\ UNCHANGED <<config, thread, history>>
  BY DEF Reject
<1>. DEFINE stops == run[r].status = "waiting_approval"
<1>2. IF stops THEN run' = [run EXCEPT ![r].status = "rejected"]
      ELSE run' = run
  BY DEF Reject
<1>3. /\ graph' = graph /\ slot' = slot /\ build' = build /\ thread' = thread
      /\ took' = took /\ heard' = heard /\ scheduled' = scheduled
      /\ enabled' = enabled /\ upsets' = upsets
  BY <1>1 DEF config, history
<1>4. /\ DOMAIN request = Runs /\ DOMAIN run = Runs
      /\ Scopes = Leaves(graph) /\ slot \in Nat
  BY DEF CoreInv, Frame
<1>5. /\ \A q \in Runs : request'[q] = IF q = r
               THEN [request[q] EXCEPT ![s] = "rejected"] ELSE request[q]
      /\ DOMAIN request' = Runs
  BY <1>1, <1>4
<1>6. \A q \in Runs : DOMAIN request'[q] = DOMAIN request[q]
  BY <1>5
<1>7. Scopes' = Scopes
  <2>1. 1 \in Runs
    BY RunsAssumption DEF Runs
  <2> QED
    BY <1>6, <2>1 DEF Scopes
<1>8. \A q : Ears(q)' = Ears(q)
  BY <1>3, <1>7 DEF Ears
<1>9. ASSUME NEW q \in Runs
      PROVE  /\ Effects(graph, took[q], Ears(q), request'[q])
             /\ \A x \in Leaves(graph) :
                  request[q][x] \in Approvals => request'[q][x] \in Approvals
  <2>1. Effects(graph, took[q], Ears(q), request[q])
    BY DEF CoreInv, Rows, RowOk
  <2>2. request[q] \in [Leaves(graph) -> Answers] /\ "rejected" \in Answers
    BY <2>1 DEF Effects, Answers
  <2>3. request'[q] \in [Leaves(graph) -> Answers]
    BY <1>4, <1>5, <2>2
  <2>4. "awaiting_confirmation" \notin Approvals
    BY DEF Approvals, Outcomes
  <2>5. ASSUME NEW x \in Leaves(graph), request[q][x] \in Approvals
        PROVE  request'[q][x] \in Approvals
    <3>1. ~(q = r /\ x = s)
      BY <1>1, <2>4, <2>5
    <3>2. request'[q][x] = request[q][x]
      BY <1>4, <1>5, <2>2, <3>1
    <3> QED
      BY <2>5, <3>2
  <2>6. AskedFirst(graph, took[q], request'[q])
    BY <2>1, <2>5 DEF Effects, AskedFirst
  <2> QED
    BY <2>1, <2>3, <2>5, <2>6 DEF Effects
<1>10. ASSUME NEW q \in Runs
       PROVE  RowOk(q)'
  <2>1. Effects(graph', took'[q], Ears(q)', request'[q])
    BY <1>3, <1>8, <1>9
  <2>2. /\ RowFields(graph, run[q]) /\ Rests(graph, run[q], took[q], Ears(q))
    BY DEF CoreInv, Rows, RowOk
  <2>3. CASE run'[q] = run[q]
    <3>1. /\ RowFields(graph', run'[q])
          /\ Rests(graph', run'[q], took'[q], Ears(q)')
      BY <1>3, <1>8, <2>2, <2>3
    <3> QED
      BY <2>1, <3>1 DEF RowOk
  <2>4. CASE run'[q] # run[q]
    <3>1. q = r /\ stops
      BY <1>2, <1>4, <2>4
    <3>2. run'[q] = [run[q] EXCEPT !.status = "rejected"]
      BY <1>2, <1>4, <3>1
    <3>3. DOMAIN run[q] = DOMAIN Row
      BY <2>2 DEF RowFields
    <3>4. /\ DOMAIN run'[q] = DOMAIN Row /\ run'[q].status = "rejected"
          /\ run'[q].attempts = run[q].attempts
          /\ run'[q].retry = run[q].retry /\ run'[q].wait = run[q].wait
      BY <3>2, <3>3 DEF Row
    <3>5. RowFields(graph', run'[q])
      BY <1>3, <2>2, <3>4 DEF RowFields, RunStatuses
    <3>6. Rests(graph', run'[q], took'[q], Ears(q)')
      BY <3>4 DEF Rests, Waiting
    <3> QED
      BY <2>1, <3>5, <3>6 DEF RowOk
  <2> QED
    BY <2>3, <2>4
<1>11. ASSUME NEW q \in Runs
       PROVE  run'[q].slot = run[q].slot /\ run'[q].build = run[q].build
  <2>1. DOMAIN run[q] = DOMAIN Row
    BY DEF CoreInv, Rows, RowOk, RowFields
  <2> QED
    BY <1>2, <1>4, <2>1 DEF Row
<1>12. Frame'
  <2>1. DOMAIN run' = Runs
    BY <1>2, <1>4
  <2> QED
    BY <1>3, <1>5, <1>7, <1>11, <2>1 DEF CoreInv, Frame
<1>13. ASSUME NEW u \in Threads
       PROVE  OnDuty(u)'
  <2>1. thread'[u] = thread[u] /\ OnDuty(u)
    BY <1>3 DEF CoreInv, Staff
  <2>2. ASSUME NEW q \in Runs, Engaged(u), q = Current(u)
        PROVE  /\ run'[q] = run[q] /\ took'[q] = took[q]
               /\ Ears(q)' = Ears(q)
               /\ ~thread[u].entered /\ thread[u].approved # <<>> =>
                     request'[q][thread[u].approved] \in Approvals
    <3>1. ~(q = r /\ stops)
      <4>1. SUFFICES ASSUME q = r, stops
                     PROVE  FALSE
        OBVIOUS
      <4>2. run[r].status # "running"
        BY <4>1
      <4> QED
        BY <1>1, <2>2, <4>1, <4>2, NobodyElse DEF Engaged
    <3>2. run'[q] = run[q]
      BY <1>2, <1>4, <3>1
    <3>3. ASSUME ~thread[u].entered, thread[u].approved # <<>>
          PROVE  request'[q][thread[u].approved] \in Approvals
      <4>1. /\ request[q][thread[u].approved] \in Approvals
            /\ thread[u].approved \in Leaves(graph)
        BY <2>2, <3>3 DEF Engaged, Executes, WorkerFields
      <4> QED
        BY <1>9, <4>1
    <3> QED
      BY <1>3, <1>8, <3>2, <3>3
  <2> QED
    BY <1>3, <1>4, <1>7, <2>1, <2>2, DutyKept
<1>14. Rows' /\ Staff'
  BY <1>10, <1>13 DEF Rows, Staff
<1>15. Exclusive'
  BY <1>3 DEF CoreInv, Exclusive, Current
<1> QED
  BY <1>12, <1>14, <1>15 DEF CoreInv

\* Time passes, or the workflow is changed.
LEMMA OutsideStep ==
    ASSUME CoreInv, UNCHANGED <<graph, scheduled, run, request, thread,
                                took, heard>>,
           slot' \in {slot, slot + 1}, build' \in {build, build + 1},
           enabled' \in BOOLEAN, Upset
    PROVE  CoreInv'
<1>1. Scopes' = Scopes /\ \A q : Ears(q)' = Ears(q)
  BY DEF Scopes, Ears
<1>2. /\ upsets < MaxUpsets /\ upsets' = upsets + 1
      /\ upsets \in Nat /\ MaxUpsets \in Nat
      /\ build \in 0..upsets /\ slot \in 1..upsets + 1
  BY RunsAssumption DEF Upset, CoreInv, Frame
<1>3. /\ upsets' \in 0..MaxUpsets /\ build' \in 0..upsets'
      /\ slot' \in 1..upsets' + 1
      /\ slot \in Nat /\ slot' \in Nat /\ slot <= slot'
      /\ build \in Nat /\ build' \in Nat /\ build <= build'
  BY <1>2
<1>4. ASSUME NEW q \in Runs
      PROVE  run'[q].slot \in 0..slot' /\ run'[q].build \in 0..build'
  <2>1. run[q].slot \in 0..slot /\ run[q].build \in 0..build /\ run' = run
    BY DEF CoreInv, Frame
  <2> QED
    BY <1>3, <2>1
<1>5. Frame'
  BY <1>1, <1>3, <1>4 DEF CoreInv, Frame
<1>6. ASSUME NEW q \in Runs
      PROVE  RowOk(q)'
  BY <1>1, RowKept DEF CoreInv, Rows
<1>7. ASSUME NEW u \in Threads
      PROVE  OnDuty(u)'
  <2>1. OnDuty(u) /\ thread'[u] = thread[u]
    BY DEF CoreInv, Staff
  <2>2. ASSUME NEW q \in Runs, Engaged(u), q = Current(u)
        PROVE  /\ run'[q] = run[q] /\ took'[q] = took[q]
               /\ Ears(q)' = Ears(q)
               /\ ~thread[u].entered /\ thread[u].approved # <<>> =>
                     request'[q][thread[u].approved] \in Approvals
    BY <1>1, <2>2 DEF Engaged, Executes
  <2> QED
    BY <1>1, <1>3, <2>1, <2>2, DutyKept
<1>8. Rows' /\ Staff' /\ Exclusive'
  BY <1>6, <1>7 DEF Rows, Staff, CoreInv, Exclusive, Current
<1> QED
  BY <1>5, <1>8 DEF CoreInv

LEMMA NextSlotCore ==
    ASSUME CoreInv, NextSlot
    PROVE  CoreInv'
<1>1. enabled' \in BOOLEAN
  BY DEF NextSlot, CoreInv, Frame
<1> QED
  BY <1>1, OutsideStep DEF NextSlot

LEMMA ChangeCore ==
    ASSUME CoreInv, Change
    PROVE  CoreInv'
<1>1. enabled' \in BOOLEAN
  BY DEF Change, CoreInv, Frame
<1> QED
  BY <1>1, OutsideStep DEF Change

\* A failed run goes on from its retry checkpoint.
RetriedRow(row, new) ==
    /\ DOMAIN new = DOMAIN row /\ new.status = "running" /\ new.wait = <<>>
    /\ new.attempts = row.attempts + 1 /\ new.retry = row.retry
    /\ new.slot = row.slot /\ new.build = row.build

LEMMA RetriedRowIs ==
    ASSUME Frame, NEW r \in Runs, RowFields(graph, run[r]),
           run' = [run EXCEPT ![r].status = "running", ![r].wait = <<>>,
                              ![r].attempts = @ + 1]
    PROVE  /\ DOMAIN run' = Runs /\ RetriedRow(run[r], run'[r])
           /\ \A q \in Runs : q # r => run'[q] = run[q]
<1>. DEFINE a == [run EXCEPT ![r].status = "running"]
            b == [a EXCEPT ![r].wait = <<>>]
            c == [b EXCEPT ![r].attempts = @ + 1]
<1>0. /\ DOMAIN run = Runs /\ run' = c
      /\ DOMAIN run[r] = {"status", "slot", "wait", "retry", "attempts",
                          "build"}
  BY DEF Frame, RowFields, Row
<1>1. /\ DOMAIN a = Runs /\ DOMAIN a[r] = DOMAIN run[r]
      /\ a[r].status = "running" /\ a[r].wait = run[r].wait
      /\ a[r].attempts = run[r].attempts /\ a[r].retry = run[r].retry
      /\ a[r].slot = run[r].slot /\ a[r].build = run[r].build
      /\ \A q \in Runs : q # r => a[q] = run[q]
  BY <1>0
<1>. HIDE DEF a
<1>2. /\ DOMAIN b = Runs /\ DOMAIN b[r] = DOMAIN run[r]
      /\ b[r].status = "running" /\ b[r].wait = <<>>
      /\ b[r].attempts = run[r].attempts /\ b[r].retry = run[r].retry
      /\ b[r].slot = run[r].slot /\ b[r].build = run[r].build
      /\ \A q \in Runs : q # r => b[q] = run[q]
  BY <1>0, <1>1
<1>. HIDE DEF b
<1>3. /\ DOMAIN c = Runs /\ DOMAIN c[r] = DOMAIN run[r]
      /\ c[r].status = "running" /\ c[r].wait = <<>>
      /\ c[r].attempts = run[r].attempts + 1 /\ c[r].retry = run[r].retry
      /\ c[r].slot = run[r].slot /\ c[r].build = run[r].build
      /\ \A q \in Runs : q # r => c[q] = run[q]
  BY <1>0, <1>2
<1>. HIDE DEF c
<1> QED
  BY <1>0, <1>3 DEF RetriedRow

\* Sets off on r, which has the row it needs.
LEMMA RetryStep ==
    ASSUME CoreInv, NEW t \in Threads, NEW r \in Runs,
           run[r].status \in {"waiting_retry", "failed"}, run[r].retry.safe,
           retry_failed(t, r), UNCHANGED <<config, request, took, heard>>,
           upsets' = upsets \/ Upset
    PROVE  CoreInv'
<1>0. PICK c : c = run[r].retry.at
  OBVIOUS
<1>. DEFINE new == Executing(r, c, FALSE, <<>>)
<1>1. /\ run' = [run EXCEPT ![r].status = "running", ![r].wait = <<>>,
                            ![r].attempts = @ + 1]
      /\ Become(t, new)
  BY <1>0 DEF retry_failed
<1>2. /\ DOMAIN new = DOMAIN Executing(1, <<>>, FALSE, <<>>)
      /\ new.doing = "node" /\ new.run = r /\ new.entered = FALSE
      /\ new.at = IF c = <<>> THEN Start
                  ELSE <<Level(c[1].node, c[1].node_outputs)>>
      /\ new.resume = c /\ new.approved = <<>> /\ new.pending = {}
  BY DEF Executing
<1>. HIDE DEF new
<1>3. /\ RowFields(graph, run[r]) /\ Scopes = Leaves(graph)
      /\ Effects(graph, took[r], Ears(r), request[r])
      /\ Rests(graph, run[r], took[r], Ears(r))
      /\ run[r].slot \in 0..slot /\ run[r].build \in 0..build
  BY DEF CoreInv, Rows, RowOk, Frame
<1>4. /\ DOMAIN run' = Runs /\ RetriedRow(run[r], run'[r])
      /\ \A q \in Runs : q # r => run'[q] = run[q]
  BY <1>1, <1>3, RetriedRowIs DEF CoreInv
<1>5. /\ c # <<>> /\ Shown(graph, took[r], c)
      /\ HeardBefore(graph, Ears(r), c)
  BY <1>0, <1>3 DEF Rests
<1>6. IsPlace(graph, c) /\ Unmarked(c)
  BY <1>0, <1>3, <1>5 DEF RowFields
<1>7. \A k \in 1..Len(c) : c[k].mark # "received"
  BY <1>6 DEF Unmarked
<1>8. /\ Placed(graph, new) /\ Pending(graph, new)
      /\ Walks(graph, new, took[r]) /\ Hears(graph, new, Ears(r))
  BY <1>2, <1>5, <1>6, <1>7, SetOff
<1>9. Local(t, r) /\ thread'[t] = new
  BY <1>1, <1>3, <1>4, BecomeIs, UpsetIs
  DEF CoreInv, Local, config, Frame, RetriedRow
<1>10. Ears(r)' = Ears(r) /\ graph' = graph
  BY DEF Ears, Scopes, config
<1>11. RowOk(r)'
  <2>1. RowFields(graph, run'[r])
    <3>1. PICK row : row = run[r]
      OBVIOUS
    <3>2. PICK q : q = run'[r]
      OBVIOUS
    <3>3. RowFields(graph, row) /\ RetriedRow(row, q)
      BY <1>3, <1>4, <3>1, <3>2
    <3>4. /\ q.retry = row.retry /\ q.wait = <<>>
          /\ q.attempts \in Nat /\ q.status \in RunStatuses
          /\ DOMAIN q = DOMAIN Row
      BY <3>3 DEF RowFields, RetriedRow, RunStatuses
    <3>5. \A x \in {q.wait, q.retry.at} :
             x # <<>> => IsPlace(graph, x) /\ Unmarked(x)
      BY <3>3, <3>4 DEF RowFields
    <3>6. DOMAIN q.retry = DOMAIN NoRetry /\ q.retry.safe \in BOOLEAN
      BY <3>3, <3>4 DEF RowFields
    <3>7. RowFields(graph, q)
      BY <3>4, <3>5, <3>6 DEF RowFields
    <3> QED
      BY <3>2, <3>7
  <2>2. Rests(graph, run'[r], took[r], Ears(r))
    BY <1>4 DEF Rests, RetriedRow, Waiting
  <2>3. /\ RowFields(graph', run'[r])
        /\ Rests(graph', run'[r], took'[r], Ears(r)')
        /\ Effects(graph', took'[r], Ears(r)', request'[r])
    BY <1>3, <1>10, <2>1, <2>2
  <2> QED
    BY <2>3 DEF RowOk
<1>12. Executes(graph, new, run'[r], took[r], Ears(r), request[r])
  <2>1. WorkerFields(graph, new)
    BY <1>2 DEF WorkerFields
  <2>2. /\ Retries(graph, new, run'[r])
        /\ Ends(graph, new, run'[r], took[r], Ears(r))
    BY <1>2 DEF Retries, Ends
  <2> QED
    BY <1>2, <1>4, <1>8, <2>1, <2>2 DEF Executes, RetriedRow
<1>13. OnDuty(t)' /\ thread'[t].run = r
  <2>1. Executes(graph', new, run'[r], took'[r], Ears(r)', request'[r])
    BY <1>10, <1>12
  <2>2. Worker(new)
    BY <1>2 DEF Worker
  <2>3. Engaged(t)'
    BY <1>2, <1>9, <2>1, <2>2 DEF Engaged, Current
  <2> QED
    BY <1>2, <1>9, <2>3 DEF OnDuty
<1>14. Alone(t, r)
  <2>1. run[r].status # "running" /\ run[r].status \notin Waiting
    BY DEF Waiting
  <2> QED
    BY <2>1, NobodyElse DEF Alone
<1> QED
  BY <1>9, <1>11, <1>13, <1>14, LocalStep DEF CoreInv

LEMMA RetryCore ==
    ASSUME CoreInv, NEW t \in Threads, Retry(t)
    PROVE  CoreInv'
<1>1. PICK r : r = Current(t)
  OBVIOUS
<1>2. /\ thread[t].doing = "look" /\ thread[t].saw = "waiting_retry"
      /\ StillDue(t) /\ retry_failed(t, r)
      /\ UNCHANGED <<config, request, history>>
  BY <1>1 DEF Retry
<1>3. r \in Runs /\ run[r].status = "waiting_retry"
  BY <1>1, <1>2, StillDueIs
<1>4. run[r].retry.safe
  BY <1>3 DEF CoreInv, Rows, RowOk, Rests
<1> QED
  BY <1>2, <1>3, <1>4, RetryStep DEF history

LEMMA RetryByHandCore ==
    ASSUME CoreInv, NEW t \in Threads, NEW r \in Runs, RetryByHand(t, r)
    PROVE  CoreInv'
  BY RetryStep DEF RetryByHand

-----------------------------------------------------------------------------
(* The numbers of the rows.                                                *)

LEMMA Numbered ==
    ASSUME NEW N \in Nat, NEW S \in SUBSET (1..N),
           \A r, q \in 1..N : r < q /\ q \in S => r \in S
    PROVE  /\ Cardinality(S) \in 0..N /\ S = 1..Cardinality(S)
           /\ IsFiniteSet(S)
<1>. DEFINE P == {k \in 0..N : 1..k \subseteq S}
<1>1. PICK m \in 0..N : S = 1..m
  <2>1. SUFFICES ASSUME \A m \in 0..N : S # 1..m
                 PROVE  FALSE
    OBVIOUS
  <2>2. 0 \in P
    <3>1. 1..0 = {}
      OBVIOUS
    <3> QED
      BY <3>1
  <2>3. ASSUME NEW k \in 0..N - 1, k \in P
        PROVE  k + 1 \in P
    <3>1. 1..k \subseteq S /\ S # 1..k
      BY <2>1, <2>3
    <3>2. PICK x \in S : x \notin 1..k
      BY <3>1
    <3>3. x \in 1..N /\ x >= k + 1
      BY <3>2
    <3>4. k + 1 \in S
      BY <2>3, <3>2, <3>3
    <3>5. 1..k + 1 \subseteq S
      BY <3>1, <3>4
    <3> QED
      BY <3>5
  <2>4. \A k \in 0..N : k \in P
    <3>. HIDE DEF P
    <3> QED
      BY <2>2, <2>3, UpTo
  <2>5. N \in 0..N /\ 1..N \subseteq S
    BY <2>4
  <2>6. S = 1..N
    BY <2>5
  <2> QED
    BY <2>1, <2>5, <2>6
<1>2. IsFiniteSet(1..m) /\ Cardinality(1..m) = m
  <2>1. Cardinality(1..m) = IF 1 > m THEN 0 ELSE m - 1 + 1
    BY FS_Interval
  <2> QED
    BY <2>1, FS_Interval
<1> QED
  BY <1>1, <1>2

LEMMA NextRow ==
    ASSUME Slotted
    PROVE  /\ Existing = 1..Cardinality(Existing)
           /\ Cardinality(Existing) \in 0..MaxRuns
           /\ Existing \subseteq Runs
<1>1. Existing \in SUBSET (1..MaxRuns) /\ MaxRuns \in Nat
  BY RunsAssumption DEF Existing, Runs
<1>2. \A r, q \in 1..MaxRuns : r < q /\ q \in Existing => r \in Existing
  BY DEF Slotted, Runs
<1> QED
  BY <1>1, <1>2, Numbered DEF Runs

LEMMA CreateCore ==
    ASSUME CoreInv, Slotted, NEW t \in Threads, Create(t)
    PROVE  CoreInv'
<1>1. CASE Become(t, Idle) /\ UNCHANGED run
  BY <1>1, QuietStep DEF Create, history
<1>2. ASSUME NEW r \in Runs, r = Cardinality(Existing) + 1,
             run' = [run EXCEPT ![r] = [Row EXCEPT !.status = "running",
                                            !.slot = thread[t].slot,
                                            !.build = build]],
             Become(t, Executing(r, <<>>, FALSE, <<>>))
      PROVE  CoreInv'
  <2>. DEFINE new == Executing(r, <<>>, FALSE, <<>>)
              row == [Row EXCEPT !.status = "running", !.slot = thread[t].slot,
                                 !.build = build]
  <2>1. /\ DOMAIN new = DOMAIN Executing(1, <<>>, FALSE, <<>>)
        /\ new.doing = "node" /\ new.run = r /\ new.entered = FALSE
        /\ new.at = Start
        /\ new.resume = <<>> /\ new.approved = <<>> /\ new.pending = {}
    BY DEF Executing
  <2>2. /\ DOMAIN row = DOMAIN Row /\ row.status = "running"
        /\ row.slot = thread[t].slot /\ row.build = build
        /\ row.attempts = 0 /\ row.retry = NoRetry /\ row.wait = <<>>
    BY DEF Row
  <2>3. run' = [run EXCEPT ![r] = row] /\ Become(t, new)
    BY <1>2
  <2>. HIDE DEF new, row
  <2>4. /\ thread[t].doing = "create"
        /\ UNCHANGED <<config, request, history>>
    BY DEF Create
  <2>5. thread[t].slot \in 0..slot
    <3>1. OnDuty(t)
      BY DEF CoreInv, Staff
    <3> QED
      BY <2>4, <3>1, IdleIs DEF OnDuty, Engaged, Worker
  <2>6. run[r].status = "none"
    <3>1. Cardinality(Existing) \in Nat /\ Existing = 1..Cardinality(Existing)
      BY NextRow
    <3>2. r \notin Existing
      BY <1>2, <3>1
    <3> QED
      BY <3>2 DEF Existing
  <2>7. /\ GoodGraph(graph) /\ Scopes = Leaves(graph) /\ DOMAIN run = Runs
        /\ build \in 0..build /\ 1 \in Runs
    BY RunsAssumption DEF CoreInv, Frame, Runs
  <2>8. /\ Effects(graph, took[r], Ears(r), request[r])
        /\ Ears(r) = {} /\ \A s \in Leaves(graph) : took[r][s] = 0
    BY <2>6 DEF CoreInv, Rows, RowOk, Rests
  <2>9. /\ Placed(graph, new) /\ Pending(graph, new)
        /\ Walks(graph, new, took[r]) /\ Hears(graph, new, Ears(r))
    BY <2>1, <2>7, <2>8, SetOffFresh
  <2>10. /\ run'[r] = row /\ DOMAIN run' = Runs
         /\ \A q \in Runs : q # r => run'[q] = run[q]
    BY <2>3, <2>7
  <2>11. Local(t, r) /\ thread'[t] = new
    BY <2>2, <2>3, <2>4, <2>5, <2>7, <2>10, BecomeIs, UpsetIs
    DEF CoreInv, Local, config, history, Frame
  <2>12. Ears(r)' = Ears(r) /\ graph' = graph
    BY <2>4 DEF Ears, Scopes, config, history
  <2>13. RowOk(r)'
    <3>1. NoRetry.at = <<>> /\ NoRetry.safe \in BOOLEAN
      BY DEF NoRetry
    <3>2. RowFields(graph, row)
      BY <2>2, <3>1 DEF RowFields, RunStatuses
    <3>3. Rests(graph, row, took[r], Ears(r))
      BY <2>2 DEF Rests, Waiting
    <3>4. /\ RowFields(graph', run'[r])
          /\ Rests(graph', run'[r], took'[r], Ears(r)')
          /\ Effects(graph', took'[r], Ears(r)', request'[r])
      BY <2>4, <2>8, <2>10, <2>12, <3>2, <3>3 DEF history
    <3> QED
      BY <3>4 DEF RowOk
  <2>14. Executes(graph, new, row, took[r], Ears(r), request[r])
    <3>1. WorkerFields(graph, new)
      BY <2>1 DEF WorkerFields
    <3>2. /\ Retries(graph, new, row)
          /\ Ends(graph, new, row, took[r], Ears(r))
      BY <2>1 DEF Retries, Ends
    <3> QED
      BY <2>1, <2>2, <2>9, <3>1, <3>2 DEF Executes
  <2>15. OnDuty(t)' /\ thread'[t].run = r
    <3>1. Executes(graph', new, run'[r], took'[r], Ears(r)', request'[r])
      BY <2>4, <2>10, <2>12, <2>14 DEF history
    <3>2. Worker(new)
      BY <2>1 DEF Worker
    <3>3. Engaged(t)'
      BY <2>1, <2>11, <3>1, <3>2 DEF Engaged, Current
    <3> QED
      BY <2>1, <2>11, <3>3 DEF OnDuty
  <2>16. Alone(t, r)
    <3>1. run[r].status # "running" /\ run[r].status \notin Waiting
      BY <2>6 DEF Waiting
    <3> QED
      BY <3>1, NobodyElse DEF Alone
  <2> QED
    BY <2>11, <2>13, <2>15, <2>16, LocalStep DEF CoreInv
<1> QED
  BY <1>1, <1>2 DEF Create

-----------------------------------------------------------------------------
(* Threads that execute a run.                                             *)

LEMMA AtWork ==
    ASSUME CoreInv, NEW t \in Threads, Worker(thread[t])
    PROVE  /\ Engaged(t) /\ Current(t) \in Runs /\ Alone(t, Current(t))
           /\ RowOk(Current(t)) /\ GoodGraph(graph) /\ Scopes = Leaves(graph)
           /\ Executes(graph, thread[t], run[Current(t)], took[Current(t)],
                       Ears(Current(t)), request[Current(t)])
<1>1. Engaged(t)
  <2>1. OnDuty(t)
    BY DEF CoreInv, Staff
  <2> QED
    BY <2>1, IdleIs DEF OnDuty, Worker
<1>2. Current(t) \in Runs
  BY <1>1 DEF Engaged
<1>3. Alone(t, Current(t))
  BY DEF CoreInv, Exclusive, Alone
<1> QED
  BY <1>1, <1>2, <1>3 DEF CoreInv, Rows, Frame, Engaged

\* The thread goes on with the run, or leaves it.
LEMMA WorkerStep ==
    ASSUME CoreInv, NEW t \in Threads, NEW r \in Runs, r = Current(t),
           Worker(thread[t]), Local(t, r), RowOk(r)',
           NEW new, thread'[t] = new,
           \/ /\ Worker(new) /\ new.run = r
              /\ Executes(graph, new, run'[r], took'[r], Ears(r)',
                          request'[r])
           \/ new = Idle
           \/ /\ new.doing = "answer" /\ new.run = r
              /\ new.scope \in Scopes /\ new.outcome \in Outcomes
    PROVE  CoreInv'
<1>1. Alone(t, r)
  BY AtWork
<1>2. Scopes' = Scopes /\ graph' = graph
  <2>1. Scopes' = Scopes
    BY LocalFrame DEF CoreInv
  <2> QED
    BY <2>1 DEF Local
<1>3. CASE Worker(new) /\ new.run = r
           /\ Executes(graph, new, run'[r], took'[r], Ears(r)', request'[r])
  <2>1. Executes(graph', new, run'[r], took'[r], Ears(r)', request'[r])
    BY <1>2, <1>3
  <2>2. Engaged(t)'
    BY <1>3, <2>1 DEF Engaged, Current
  <2>3. OnDuty(t)'
    BY <2>2 DEF OnDuty
  <2> QED
    BY <1>1, <1>3, <2>3, LocalStep DEF CoreInv
<1>4. CASE \/ new = Idle
           \/ /\ new.doing = "answer" /\ new.run = r
              /\ new.scope \in Scopes /\ new.outcome \in Outcomes
  <2>1. OnDuty(t)'
    BY <1>2, <1>4 DEF OnDuty, Current
  <2>2. ~Worker(thread'[t])
    BY <1>4, IdleIs DEF Worker
  <2> QED
    BY <1>1, <2>1, <2>2, LocalStep DEF CoreInv
<1> QED
  BY <1>3, <1>4

\* Only the thread changes.
LEMMA WalkOn ==
    ASSUME CoreInv, NEW t \in Threads, NEW r \in Runs, r = Current(t),
           Worker(thread[t]), NEW new, Become(t, new),
           UNCHANGED <<config, run, request, history>>,
           Worker(new), new.run = r,
           Executes(graph, new, run[r], took[r], Ears(r), request[r])
    PROVE  CoreInv'
<1>1. UNCHANGED <<config, run, request, took, heard>> /\ upsets' = upsets
  BY DEF history
<1>2. Local(t, r) /\ thread'[t] = new
  BY <1>1, QuietIs DEF CoreInv
<1>3. /\ Ears(r)' = Ears(r) /\ run'[r] = run[r] /\ took'[r] = took[r]
      /\ request'[r] = request[r] /\ graph' = graph
  BY <1>1 DEF Ears, Scopes, config
<1>4. RowOk(r)'
  BY <1>3, RowKept DEF CoreInv, Rows
<1>5. Executes(graph, new, run'[r], took'[r], Ears(r)', request'[r])
  BY <1>3
<1> QED
  BY <1>2, <1>4, <1>5, WorkerStep

\* Going to a node, at no checkpoint of its own yet.
LEMMA GoingOn ==
    ASSUME NEW g, NEW th, NEW row, NEW done, NEW ears, NEW asks,
           Executes(g, th, row, done, ears, asks), ~th.entered,
           NEW new, DOMAIN new = Worker1, new.doing = "node",
           new.approved = th.approved, new.entered = th.entered, NEW more,
           Placed(g, new), Pending(g, new), Walks(g, new, more),
           Hears(g, new, ears)
    PROVE  Executes(g, new, row, more, ears, asks)
<1>1. WorkerFields(g, new)
  BY DEF WorkerFields, Executes, Worker1
<1>2. row.status \in {"running"} /\ ~new.entered
  BY DEF Executes
<1>3. /\ Retries(g, new, row) /\ Ends(g, new, row, more, ears)
  BY DEF Retries, Ends
<1>4. new.approved # <<>> => asks[new.approved] \in Approvals
  BY DEF Executes
<1> QED
  BY <1>1, <1>2, <1>3, <1>4 DEF Executes

\* The thread that has an output.
AfterOutput(th, q, W) ==
    [th EXCEPT !.doing = "node", !.resume = <<>>, !.at = q,
               !.pending = @ \cup W]

LEMMA AfterOutputIs ==
    ASSUME NEW th, DOMAIN th = Worker1, NEW q, NEW W,
           NEW new, new = AfterOutput(th, q, W)
    PROVE  /\ DOMAIN new = Worker1 /\ new.run = th.run
           /\ Moved(th, new, q, th.pending \cup W)
<1>. DEFINE a == [th EXCEPT !.doing = "node"]
            b == [a EXCEPT !.resume = <<>>]
            c == [b EXCEPT !.at = q]
            d == [c EXCEPT !.pending = @ \cup W]
<1>0. /\ Worker1 = {"doing", "run", "entered", "at", "resume", "approved",
                    "pending"}
      /\ new = d
  BY WorkerFieldsAre DEF AfterOutput
<1>1. /\ DOMAIN a = DOMAIN th /\ a.doing = "node" /\ a.run = th.run
      /\ a.pending = th.pending /\ a.entered = th.entered
      /\ a.approved = th.approved
  BY <1>0
<1>. HIDE DEF a
<1>2. /\ DOMAIN b = DOMAIN th /\ b.doing = "node" /\ b.run = th.run
      /\ b.pending = th.pending /\ b.entered = th.entered
      /\ b.approved = th.approved /\ b.resume = <<>>
  BY <1>0, <1>1
<1>. HIDE DEF b
<1>3. /\ DOMAIN c = DOMAIN th /\ c.doing = "node" /\ c.run = th.run
      /\ c.pending = th.pending /\ c.entered = th.entered
      /\ c.approved = th.approved /\ c.resume = <<>> /\ c.at = q
  BY <1>0, <1>2
<1>. HIDE DEF c
<1>4. /\ DOMAIN d = DOMAIN th /\ d.doing = "node" /\ d.run = th.run
      /\ d.pending = th.pending \cup W /\ d.entered = th.entered
      /\ d.approved = th.approved /\ d.resume = <<>> /\ d.at = q
  BY <1>0, <1>3
<1>. HIDE DEF d
<1> QED
  BY <1>0, <1>4 DEF Moved

\* A thread at work: where it is, and that nothing of it is uncommitted.
LEMMA Worked ==
    ASSUME CoreInv, NEW t \in Threads, NEW th, th = thread[t],
           th.doing = "work", NEW r, r = th.run
    PROVE  /\ r \in Runs /\ r = Current(t) /\ Worker(th) /\ GoodGraph(graph)
           /\ Executes(graph, th, run[r], took[r], Ears(r), request[r])
           /\ Placed(graph, th) /\ Pending(graph, th)
           /\ Walks(graph, th, took[r]) /\ Hears(graph, th, Ears(r))
           /\ Retries(graph, th, run[r])
           /\ DOMAIN th = Worker1 /\ ~th.entered /\ th.at # <<>>
           /\ th.pending = {} /\ run[r].status = "running"
           /\ Effects(graph, took[r], Ears(r), request[r])
           /\ RowFields(graph, run[r])
           /\ th.approved # <<>> => request[r][th.approved] \in Approvals
           /\ th.approved \in Scopes \cup {<<>>}
           /\ Scopes = Leaves(graph)
           /\ NodeAt(graph, th.at) = Doing(t) /\ Here(t) = Scope(th.at)
<1>1. Worker(th) /\ Walker(th)
  BY DEF Worker, Walker
<1>2. /\ r \in Runs /\ r = Current(t) /\ GoodGraph(graph)
      /\ Executes(graph, th, run[r], took[r], Ears(r), request[r])
      /\ RowOk(r) /\ Scopes = Leaves(graph)
  BY <1>1, AtWork DEF Current
<1>3. /\ Placed(graph, th) /\ Pending(graph, th)
      /\ Walks(graph, th, took[r]) /\ Hears(graph, th, Ears(r))
      /\ Retries(graph, th, run[r]) /\ WorkerFields(graph, th)
  BY <1>1, <1>2 DEF Executes
<1>4. ~th.entered /\ th.at # <<>> /\ th.pending = {}
  BY <1>3 DEF WorkerFields, Placed, Pending
<1>5. /\ run[r].status = "running"
      /\ th.approved # <<>> => request[r][th.approved] \in Approvals
  BY <1>2, <1>4 DEF Executes
<1>6. DOMAIN th = Worker1 /\ th.approved \in Scopes \cup {<<>>}
  BY <1>2, <1>3 DEF WorkerFields, Worker1
<1> QED
  BY <1>1, <1>2, <1>3, <1>4, <1>5, <1>6 DEF RowOk, Doing, Here

\* A node that adds nothing due has its output.
LEMMA OutputNoneStep ==
    ASSUME CoreInv, NEW t \in Threads, thread[t].doing = "work",
           HasOutput(t, FALSE), UNCHANGED <<config, run, request, history>>,
           \/ ~Doing(t).when
           \/ /\ Doing(t).type \notin Loops
              /\ ~IsDatabaseWork(Doing(t))
              /\ ~IsOutsideWork(Doing(t))
    PROVE  CoreInv'
<1>1. PICK th : th = thread[t]
  OBVIOUS
<1>2. PICK r : r = th.run
  OBVIOUS
<1>. DEFINE q == Onward(graph, th.at)
            new == AfterOutput(th, q, {})
<1>3. Become(t, new)
  BY <1>1 DEF HasOutput, AfterOutput
<1>. HIDE DEF q, new
<1>4. /\ r \in Runs /\ r = Current(t) /\ GoodGraph(graph)
      /\ Executes(graph, th, run[r], took[r], Ears(r), request[r])
      /\ Placed(graph, th) /\ Pending(graph, th)
      /\ Walks(graph, th, took[r]) /\ Hears(graph, th, Ears(r))
      /\ DOMAIN th = Worker1 /\ ~th.entered /\ th.at # <<>>
      /\ th.pending = {} /\ th.doing = "work" /\ Worker(thread[t])
      /\ Effects(graph, took[r], Ears(r), request[r])
      /\ NodeAt(graph, th.at) = Doing(t)
  BY <1>1, <1>2, Worked
<1>5. /\ DOMAIN new = Worker1 /\ new.run = r
      /\ Moved(th, new, q, {})
  <2>1. th.pending \cup {} = {}
    BY <1>4
  <2>2. new = AfterOutput(th, q, {})
    BY DEF new
  <2>3. /\ DOMAIN new = Worker1 /\ new.run = th.run
        /\ Moved(th, new, q, th.pending \cup {})
    BY <1>4, <2>2, AfterOutputIs
  <2> QED
    BY <1>2, <2>1, <2>3
<1>6. Turns(graph, th, q)
  BY <1>4 DEF Turns, q
<1>7. Ears(r) \subseteq Leaves(graph)
  BY <1>4 DEF Effects
<1>8. Placed(graph, new) /\ Hears(graph, new, Ears(r))
  BY <1>4, <1>5, <1>6, <1>7, OutputPlace
<1>9. Pending(graph, new) /\ Walks(graph, new, took[r])
  BY <1>4, <1>5, <1>6, OutputNone
<1>10. /\ new.doing = "node" /\ new.approved = th.approved
       /\ new.entered = th.entered
  BY <1>5 DEF Moved
<1>11. Executes(graph, new, run[r], took[r], Ears(r), request[r])
  BY <1>4, <1>5, <1>8, <1>9, <1>10, GoingOn
<1>12. Worker(new)
  BY <1>10 DEF Worker
<1> QED
  BY <1>3, <1>4, <1>5, <1>11, <1>12, WalkOn

LEMMA SkipCore ==
    ASSUME CoreInv, NEW t \in Threads, Skip(t)
    PROVE  CoreInv'
  BY OutputNoneStep DEF Skip

LEMMA ReadCore ==
    ASSUME CoreInv, NEW t \in Threads, Read(t)
    PROVE  CoreInv'
<1>1. /\ Doing(t).type \notin Loops /\ ~IsDatabaseWork(Doing(t))
      /\ ~IsOutsideWork(Doing(t))
  BY DEF Read, OnlyReads, Loops, Reads, Stored, IsDatabaseWork, IsOutsideWork
<1> QED
  BY <1>1, OutputNoneStep DEF Read, Working

LEMMA PausesDoNothing ==
    ASSUME NEW node, node.type \in Pauses
    PROVE  /\ node.type \notin Loops /\ ~IsDatabaseWork(node)
           /\ ~IsOutsideWork(node) /\ ~NeedsApproval(node)
  BY DEF Pauses, Loops, Stored, IsDatabaseWork, IsOutsideWork, NeedsApproval

LEMMA WaitIsOverCore ==
    ASSUME CoreInv, NEW t \in Threads, WaitIsOver(t)
    PROVE  CoreInv'
<1>1. Doing(t).type \in Pauses
  BY DEF WaitIsOver, Pauses
<1> QED
  BY <1>1, PausesDoNothing, OutputNoneStep DEF WaitIsOver, Working

LEMMA TakeEventCore ==
    ASSUME CoreInv, NEW t \in Threads, TakeEvent(t)
    PROVE  CoreInv'
<1>1. Doing(t).type \in Pauses
  BY DEF TakeEvent, Pauses
<1> QED
  BY <1>1, PausesDoNothing, OutputNoneStep DEF TakeEvent, Working

LEMMA WriteCore ==
    ASSUME CoreInv, NEW t \in Threads, Write(t)
    PROVE  CoreInv'
<1>1. PICK th : th = thread[t]
  OBVIOUS
<1>2. PICK r : r = th.run
  OBVIOUS
<1>. DEFINE q == Onward(graph, th.at)
            new == AfterOutput(th, q, {Scope(th.at)})
<1>3. Become(t, new) /\ UNCHANGED <<config, run, request, history>>
  BY <1>1 DEF Write, HasOutput, AfterOutput, Here
<1>. HIDE DEF q, new
<1>4. /\ th.doing = "work" /\ IsDatabaseWork(Doing(t)) /\ Doing(t).when
      /\ NeedsApproval(Doing(t)) => th.approved = Scope(th.at)
      /\ Doing(t).type \notin Loops
  BY <1>1 DEF Write, Working, MayAct, Here, IsDatabaseWork, Loops, Stored
<1>5. /\ r \in Runs /\ r = Current(t) /\ GoodGraph(graph)
      /\ Executes(graph, th, run[r], took[r], Ears(r), request[r])
      /\ Placed(graph, th) /\ Pending(graph, th)
      /\ Walks(graph, th, took[r]) /\ Hears(graph, th, Ears(r))
      /\ DOMAIN th = Worker1 /\ ~th.entered /\ th.at # <<>>
      /\ th.pending = {} /\ Worker(thread[t])
      /\ Effects(graph, took[r], Ears(r), request[r])
      /\ NodeAt(graph, th.at) = Doing(t)
  BY <1>1, <1>2, <1>4, Worked
<1>6. /\ DOMAIN new = Worker1 /\ new.run = r
      /\ Moved(th, new, q, {Scope(th.at)})
  <2>1. th.pending \cup {Scope(th.at)} = {Scope(th.at)}
    BY <1>5
  <2>2. new = AfterOutput(th, q, {Scope(th.at)})
    BY DEF new
  <2>3. /\ DOMAIN new = Worker1 /\ new.run = th.run
        /\ Moved(th, new, q, th.pending \cup {Scope(th.at)})
    BY <1>5, <2>2, AfterOutputIs
  <2> QED
    BY <1>2, <2>1, <2>3
<1>7. Turns(graph, th, q)
  BY <1>4, <1>5 DEF Turns, q
<1>8. Ears(r) \subseteq Leaves(graph)
  BY <1>5 DEF Effects
<1>9. Placed(graph, new) /\ Hears(graph, new, Ears(r))
  BY <1>5, <1>6, <1>7, <1>8, OutputPlace
<1>10. Pending(graph, new) /\ Walks(graph, new, took[r])
  BY <1>4, <1>5, <1>6, <1>7, OutputWork
<1>11. /\ new.doing = "node" /\ new.approved = th.approved
       /\ new.entered = th.entered
  BY <1>6 DEF Moved
<1>12. Executes(graph, new, run[r], took[r], Ears(r), request[r])
  BY <1>5, <1>6, <1>9, <1>10, <1>11, GoingOn
<1>13. Worker(new)
  BY <1>11 DEF Worker
<1> QED
  BY <1>3, <1>5, <1>6, <1>12, <1>13, WalkOn

\* The thread that goes into a loop.
AfterLoop(th, c, q) ==
    [th EXCEPT !.doing = "node", !.resume = c, !.at = q]

LEMMA AfterLoopIs ==
    ASSUME NEW th, DOMAIN th = Worker1, NEW c, NEW q,
           NEW new, new = AfterLoop(th, c, q)
    PROVE  /\ DOMAIN new = Worker1 /\ new.run = th.run
           /\ new.doing = "node" /\ new.resume = c /\ new.at = q
           /\ new.pending = th.pending /\ new.entered = th.entered
           /\ new.approved = th.approved
<1>. DEFINE a == [th EXCEPT !.doing = "node"]
            b == [a EXCEPT !.resume = c]
            d == [b EXCEPT !.at = q]
<1>0. /\ Worker1 = {"doing", "run", "entered", "at", "resume", "approved",
                    "pending"}
      /\ new = d
  BY WorkerFieldsAre DEF AfterLoop
<1>1. /\ DOMAIN a = DOMAIN th /\ a.doing = "node" /\ a.run = th.run
      /\ a.pending = th.pending /\ a.entered = th.entered
      /\ a.approved = th.approved
  BY <1>0
<1>. HIDE DEF a
<1>2. /\ DOMAIN b = DOMAIN th /\ b.doing = "node" /\ b.run = th.run
      /\ b.pending = th.pending /\ b.entered = th.entered
      /\ b.approved = th.approved /\ b.resume = c
  BY <1>0, <1>1
<1>. HIDE DEF b
<1>3. /\ DOMAIN d = DOMAIN th /\ d.doing = "node" /\ d.run = th.run
      /\ d.pending = th.pending /\ d.entered = th.entered
      /\ d.approved = th.approved /\ d.resume = c /\ d.at = q
  BY <1>0, <1>2
<1>. HIDE DEF d
<1> QED
  BY <1>0, <1>3

LEMMA EnterLoopCore ==
    ASSUME CoreInv, NEW t \in Threads, EnterLoop(t)
    PROVE  CoreInv'
<1>1. PICK th : th = thread[t]
  OBVIOUS
<1>2. PICK r : r = th.run
  OBVIOUS
<1>3. /\ th.doing = "work" /\ Doing(t).type \in Loops /\ Doing(t).when
      /\ UNCHANGED <<config, run, request, history>>
  BY <1>1 DEF EnterLoop, Working
<1>4. /\ r \in Runs /\ r = Current(t) /\ GoodGraph(graph)
      /\ Executes(graph, th, run[r], took[r], Ears(r), request[r])
      /\ Placed(graph, th) /\ Pending(graph, th)
      /\ Walks(graph, th, took[r]) /\ Hears(graph, th, Ears(r))
      /\ DOMAIN th = Worker1 /\ ~th.entered /\ th.at # <<>>
      /\ Worker(thread[t])
      /\ Effects(graph, took[r], Ears(r), request[r])
      /\ NodeAt(graph, th.at) = Doing(t)
  BY <1>1, <1>2, <1>3, Worked
<1>5. ~(/\ Resumes(graph, th.at, th.resume)
        /\ ~FitsLoop(th.resume[Len(th.at)], NodeAt(graph, th.at)))
  BY <1>4, ResumesIs
<1>. DEFINE c == ChildResume(graph, th.at, th.resume)
            q == IF Doing(t).type = "foreach"
                 THEN EnterForeach(graph, th.at, th.resume)
                 ELSE EnterRepeat(graph, th.at, th.resume)
            new == AfterLoop(th, c, q)
<1>6. Become(t, new)
  BY <1>1, <1>4, <1>5 DEF EnterLoop, AfterLoop
<1>7. /\ DOMAIN new = Worker1 /\ new.run = r
      /\ new.doing = "node" /\ new.resume = c /\ new.at = q
      /\ new.pending = th.pending /\ new.entered = th.entered
      /\ new.approved = th.approved
  <2>. HIDE DEF c, q
  <2>1. new = AfterLoop(th, c, q) /\ DOMAIN th = Worker1 /\ r = th.run
    BY <1>2, <1>4
  <2>. HIDE DEF new
  <2>2. /\ DOMAIN new = Worker1 /\ new.run = th.run
        /\ new.doing = "node" /\ new.resume = c /\ new.at = q
        /\ new.pending = th.pending /\ new.entered = th.entered
        /\ new.approved = th.approved
    BY <2>1, AfterLoopIs
  <2> QED
    BY <2>1, <2>2
<1>. HIDE DEF new
<1>8. Enters(graph, th, new)
  BY <1>3, <1>4, <1>7 DEF Enters
<1>. HIDE DEF c, q
<1>9. Ears(r) \subseteq Leaves(graph)
  BY <1>4 DEF Effects
<1>10. /\ Placed(graph, new) /\ Pending(graph, new)
       /\ Walks(graph, new, took[r]) /\ Hears(graph, new, Ears(r))
  BY <1>4, <1>8, <1>9, LoopEntered
<1>11. Executes(graph, new, run[r], took[r], Ears(r), request[r])
  BY <1>4, <1>7, <1>10, GoingOn
<1>12. Worker(new)
  BY <1>7 DEF Worker
<1> QED
  BY <1>3, <1>4, <1>6, <1>7, <1>11, <1>12, WalkOn

\* The thread that fails.
AfterFail(th) == [th EXCEPT !.doing = "fail"]

LEMMA AfterFailIs ==
    ASSUME NEW th, DOMAIN th = Worker1, NEW new, new = AfterFail(th)
    PROVE  /\ DOMAIN new = Worker1 /\ new.run = th.run
           /\ new.doing = "fail" /\ new.entered = th.entered
           /\ new.approved = th.approved
  BY WorkerFieldsAre DEF AfterFail

\* A run that fails has its retry checkpoint.
LEMMA FailingIs ==
    ASSUME NEW g, NEW th, NEW row, NEW done, NEW ears, NEW asks,
           Executes(g, th, row, done, ears, asks), ~th.entered,
           NEW new, DOMAIN new = Worker1, new.doing = "fail",
           new.approved = th.approved, new.entered = th.entered, NEW more,
           row.retry.safe =>
              /\ row.retry.at # <<>>
              /\ Shown(g, more, row.retry.at)
              /\ HeardBefore(g, ears, row.retry.at)
    PROVE  Executes(g, new, row, more, ears, asks)
<1>1. WorkerFields(g, new)
  BY DEF WorkerFields, Executes, Worker1
<1>2. row.status \in {"running"} /\ ~new.entered
  BY DEF Executes
<1>3. Ends(g, new, row, more, ears) /\ ~Walker(new)
  BY DEF Ends, Walker
<1>4. new.approved # <<>> => asks[new.approved] \in Approvals
  BY DEF Executes
<1> QED
  BY <1>1, <1>2, <1>3, <1>4 DEF Executes

\* A node fails before it has an effect.
LEMMA FailsStep ==
    ASSUME CoreInv, NEW t \in Threads, thread[t].doing = "work", Fail(t),
           UNCHANGED <<config, run, request, history>>,
           Doing(t).type # "await_event",
           Doing(t).type \in Loops => thread[t].resume = <<>>
    PROVE  CoreInv'
<1>1. PICK th : th = thread[t]
  OBVIOUS
<1>2. PICK r : r = th.run
  OBVIOUS
<1>. DEFINE new == AfterFail(th)
<1>3. Become(t, new)
  BY <1>1 DEF Fail, AfterFail
<1>. HIDE DEF new
<1>4. /\ r \in Runs /\ r = Current(t) /\ GoodGraph(graph)
      /\ Executes(graph, th, run[r], took[r], Ears(r), request[r])
      /\ Placed(graph, th) /\ Pending(graph, th)
      /\ Walks(graph, th, took[r]) /\ Hears(graph, th, Ears(r))
      /\ Retries(graph, th, run[r])
      /\ DOMAIN th = Worker1 /\ ~th.entered /\ th.at # <<>>
      /\ Worker(thread[t]) /\ th.doing = "work"
      /\ Effects(graph, took[r], Ears(r), request[r])
      /\ NodeAt(graph, th.at) = Doing(t)
  BY <1>1, <1>2, Worked
<1>5. /\ DOMAIN new = Worker1 /\ new.run = r
      /\ new.doing = "fail" /\ new.entered = th.entered
      /\ new.approved = th.approved
  BY <1>2, <1>4, AfterFailIs DEF new
<1>6. \/ ~Resumes(graph, th.at, th.resume)
      \/ NodeAt(graph, th.at).type \notin Loops
  <2>1. ASSUME NodeAt(graph, th.at).type \in Loops
        PROVE  ~Resumes(graph, th.at, th.resume)
    <3>1. th.resume = <<>>
      BY <1>1, <1>4, <2>1
    <3>2. Len(th.at) \in 1..3
      BY <1>4, LastLevel DEF Placed
    <3> QED
      BY <3>1, <3>2 DEF Resumes
  <2> QED
    BY <2>1
<1>7. \A s \in Ears(r) : NodeAt(graph, Path(s)).type = "await_event"
  BY <1>4 DEF Effects
<1>8. run[r].retry.at = Checkpoint(th.at, "none")
  BY <1>4 DEF Retries
<1>9. /\ run[r].retry.at # <<>>
      /\ Shown(graph, took[r], run[r].retry.at)
      /\ HeardBefore(graph, Ears(r), run[r].retry.at)
  <2>1. "none" \in Marks /\ "none" # "received"
    BY DEF Marks
  <2>2. NodeAt(graph, th.at).type # "await_event"
    BY <1>4
  <2> QED
    BY <1>4, <1>6, <1>7, <1>8, <2>1, <2>2, StoredIs
<1>10. Executes(graph, new, run[r], took[r], Ears(r), request[r])
  BY <1>4, <1>5, <1>9, FailingIs
<1>11. Worker(new)
  BY <1>5 DEF Worker
<1> QED
  BY <1>3, <1>4, <1>5, <1>10, <1>11, WalkOn

LEMMA NodeFailsCore ==
    ASSUME CoreInv, NEW t \in Threads, NodeFails(t)
    PROVE  CoreInv'
<1>1. Doing(t).type # "await_event"
  BY DEF NodeFails, Pauses
<1> QED
  BY <1>1, FailsStep DEF NodeFails, Working

-----------------------------------------------------------------------------
(* Work outside.                                                           *)

LEMMA OutsideNotRepeated ==
    ASSUME NEW node, IsOutsideWork(node)
    PROVE  /\ ~RetrySafe(node) /\ node.type \notin Loops
           /\ node.type # "await_event"
<1>1. CASE node.type = "media"
  BY <1>1 DEF RetrySafe, Loops
<1>2. CASE node.type = "browser" /\ node.interactive
  BY <1>2 DEF RetrySafe, Loops
<1>3. CASE node.type = "action" /\ ~node.inside
  BY <1>3 DEF RetrySafe, Loops
<1> QED
  BY <1>1, <1>2, <1>3 DEF IsOutsideWork

LEMMA OneMore ==
    ASSUME NEW S, NEW f \in [S -> Nat], NEW h \in S,
           NEW m, m = [f EXCEPT ![h] = @ + 1]
    PROVE  m \in [S -> Nat] /\ \A s \in S : s # h => m[s] = f[s]
<1>1. f[h] + 1 \in Nat
  OBVIOUS
<1> QED
  BY <1>1

\* What the call makes of what the run has done.
LEMMA CalledIs ==
    ASSUME NEW g, GoodGraph(g), NEW th, th.doing = "work", th.at # <<>>,
           Placed(g, th), Pending(g, th), ~th.entered,
           NEW done, done \in [Leaves(g) -> Nat], Walks(g, th, done),
           NodeAt(g, th.at).when, IsOutsideWork(NodeAt(g, th.at)),
           NEW ears, NEW asks, Effects(g, done, ears, asks),
           Hears(g, th, ears),
           NeedsApproval(NodeAt(g, th.at)) => th.approved = Scope(th.at),
           th.approved # <<>> => asks[th.approved] \in Approvals,
           NEW more, more = [done EXCEPT ![Scope(th.at)] = @ + 1],
           NEW q, q = Onward(g, th.at), NEW new, Moved(th, new, q, {})
    PROVE  /\ Effects(g, more, ears, asks)
           /\ Placed(g, new) /\ Pending(g, new) /\ Walks(g, new, more)
           /\ Hears(g, new, ears)
<1>1. NodeAt(g, th.at).type \notin Loops
  BY OutsideNotRepeated
<1>2. Turns(g, th, q)
  BY <1>1 DEF Turns
<1>3. ears \subseteq Leaves(g)
  BY DEF Effects
<1>4. Placed(g, new) /\ Hears(g, new, ears)
  BY <1>2, <1>3, OutputPlace
<1>5. Pending(g, new) /\ Walks(g, new, more)
  BY <1>1, <1>2, OutputCall
<1>6. InTurn(g, more)
  BY <1>4, <1>5, WalksInTurn
<1>. DEFINE h == Scope(th.at)
<1>7. /\ more \in [Leaves(g) -> Nat]
      /\ \A s \in Leaves(g) : s # h => more[s] = done[s]
  <2>1. IsPlace(g, th.at)
    BY DEF Placed
  <2>2. h \in Leaves(g)
    BY <1>1, <2>1, PlacesAreLeaves
  <2>3. more = [done EXCEPT ![h] = @ + 1]
    OBVIOUS
  <2>. HIDE DEF h
  <2> QED
    BY <2>2, <2>3, OneMore
<1>8. ASSUME NEW s \in Leaves(g), NeedsApproval(NodeAt(g, Path(s))),
             more[s] > 0
      PROVE  asks[s] \in Approvals
  <2>1. CASE s = h
    <3>1. IsPlace(g, th.at)
      BY DEF Placed
    <3>2. NodeAt(g, Path(s)) = NodeAt(g, th.at)
      BY <2>1, <3>1, LastLevel, ScopeNode
    <3>3. th.approved = s /\ s # <<>>
      BY <1>8, <2>1, <3>2, NoEmptyLeaf
    <3> QED
      BY <3>3
  <2>2. CASE s # h
    <3>1. more[s] = done[s]
      BY <1>7, <2>2
    <3> QED
      BY <1>8, <3>1 DEF Effects, AskedFirst
  <2> QED
    BY <2>1, <2>2
<1>9. AskedFirst(g, more, asks)
  BY <1>8 DEF AskedFirst
<1> QED
  BY <1>4, <1>5, <1>6, <1>7, <1>9 DEF Effects

LEMMA RunningRests ==
    ASSUME NEW g, NEW row, row.status = "running", NEW done, NEW ears
    PROVE  Rests(g, row, done, ears)
  BY DEF Rests, Waiting

LEMMA CallOutsideCore ==
    ASSUME CoreInv, NEW t \in Threads, CallOutside(t)
    PROVE  CoreInv'
<1>1. PICK th : th = thread[t]
  OBVIOUS
<1>2. PICK r : r = th.run
  OBVIOUS
<1>3. /\ th.doing = "work" /\ IsOutsideWork(Doing(t)) /\ Doing(t).when
      /\ NeedsApproval(Doing(t)) => th.approved = Scope(th.at)
      /\ UNCHANGED <<config, run, request, heard, orphaned, upsets>>
  BY <1>1 DEF CallOutside, Working, MayAct, Here
<1>4. CASE Fail(t) /\ UNCHANGED took
  <2>1. Doing(t).type \notin Loops /\ Doing(t).type # "await_event"
    BY <1>3, OutsideNotRepeated
  <2>2. UNCHANGED <<config, run, request, history>>
    BY <1>3, <1>4 DEF history
  <2> QED
    BY <1>1, <1>3, <1>4, <2>1, <2>2, FailsStep
<1>5. ASSUME took' = [took EXCEPT ![Current(t)][Here(t)] = @ + 1],
             HasOutput(t, FALSE) \/ Fail(t)
      PROVE  CoreInv'
  <2>1. /\ r \in Runs /\ r = Current(t) /\ GoodGraph(graph)
        /\ Executes(graph, th, run[r], took[r], Ears(r), request[r])
        /\ Placed(graph, th) /\ Pending(graph, th)
        /\ Walks(graph, th, took[r]) /\ Hears(graph, th, Ears(r))
        /\ Retries(graph, th, run[r]) /\ run[r].status = "running"
        /\ DOMAIN th = Worker1 /\ ~th.entered /\ th.at # <<>>
        /\ th.pending = {} /\ Worker(thread[t])
        /\ Effects(graph, took[r], Ears(r), request[r])
        /\ RowFields(graph, run[r])
        /\ th.approved # <<>> => request[r][th.approved] \in Approvals
        /\ NodeAt(graph, th.at) = Doing(t) /\ Here(t) = Scope(th.at)
    BY <1>1, <1>2, <1>3, Worked
  <2>. DEFINE q == Onward(graph, th.at)
              new == AfterOutput(th, q, {})
              bad == AfterFail(th)
              more == [took[r] EXCEPT ![Scope(th.at)] = @ + 1]
  <2>2. Become(t, new) \/ Become(t, bad)
    BY <1>1, <1>5 DEF HasOutput, AfterOutput, Fail, AfterFail
  <2>3. /\ DOMAIN took' = Runs /\ took'[r] = more
        /\ \A x \in Runs : x # r => took'[x] = took[x]
    BY <1>5, <2>1 DEF CoreInv, Frame
  <2>. HIDE DEF q, new, bad, more
  <2>4. /\ DOMAIN new = Worker1 /\ new.run = r
        /\ Moved(th, new, q, {})
    <3>1. th.pending \cup {} = {}
      BY <2>1
    <3>2. new = AfterOutput(th, q, {})
      BY DEF new
    <3>3. /\ DOMAIN new = Worker1 /\ new.run = th.run
          /\ Moved(th, new, q, th.pending \cup {})
      BY <2>1, <3>2, AfterOutputIs
    <3> QED
      BY <1>2, <3>1, <3>3
  <2>5. /\ Effects(graph, more, Ears(r), request[r])
        /\ Placed(graph, new) /\ Pending(graph, new)
        /\ Walks(graph, new, more) /\ Hears(graph, new, Ears(r))
    <3>1. took[r] \in [Leaves(graph) -> Nat]
      BY <2>1 DEF Effects
    <3>2. NodeAt(graph, th.at).when
      BY <1>3, <2>1, Zenon
    <3>3. /\ IsOutsideWork(NodeAt(graph, th.at))
          /\ NeedsApproval(NodeAt(graph, th.at)) =>
                th.approved = Scope(th.at)
      BY <1>3, <2>1
    <3>4. q = Onward(graph, th.at)
      BY DEF q
    <3>5. more = [took[r] EXCEPT ![Scope(th.at)] = @ + 1]
      BY DEF more
    <3> QED
      BY <1>3, <2>1, <2>4, <3>1, <3>2, <3>3, <3>4, <3>5, CalledIs
  <2>6. /\ Ears(r)' = Ears(r) /\ run'[r] = run[r] /\ graph' = graph
        /\ request'[r] = request[r]
    BY <1>3 DEF Ears, Scopes, config
  <2>7. RowOk(r)'
    <3>1. Rests(graph, run[r], more, Ears(r))
      BY <2>1, RunningRests
    <3>2. /\ RowFields(graph', run'[r])
          /\ Rests(graph', run'[r], took'[r], Ears(r)')
          /\ Effects(graph', took'[r], Ears(r)', request'[r])
      BY <2>1, <2>3, <2>5, <2>6, <3>1
    <3> QED
      BY <3>2 DEF RowOk
  <2>8. ASSUME NEW x, Become(t, x)
        PROVE  Local(t, r) /\ thread'[t] = x
    BY <1>3, <2>1, <2>3, <2>8, BecomeIs, UpsetIs
    DEF CoreInv, Local, config, Frame
  <2>9. CASE Become(t, new)
    <3>1. /\ new.doing = "node" /\ new.approved = th.approved
          /\ new.entered = th.entered
      BY <2>4 DEF Moved
    <3>2. Executes(graph, new, run[r], more, Ears(r), request[r])
      BY <2>1, <2>4, <2>5, <3>1, GoingOn
    <3>3. Executes(graph, new, run'[r], took'[r], Ears(r)', request'[r])
      BY <2>3, <2>6, <3>2
    <3>4. Worker(new)
      BY <3>1 DEF Worker
    <3> QED
      BY <2>1, <2>4, <2>7, <2>8, <2>9, <3>3, <3>4, WorkerStep
  <2>10. CASE Become(t, bad)
    <3>1. /\ DOMAIN bad = Worker1 /\ bad.run = r /\ bad.doing = "fail"
          /\ bad.approved = th.approved /\ bad.entered = th.entered
      BY <1>2, <2>1, AfterFailIs DEF bad
    <3>2. ~run[r].retry.safe
      <4>1. ~RetrySafe(NodeAt(graph, th.at))
        BY <1>3, <2>1, OutsideNotRepeated
      <4>2. run[r].retry.safe = RetrySafe(NodeAt(graph, th.at))
        BY <1>3, <2>1 DEF Retries
      <4> QED
        BY <4>1, <4>2, Zenon
    <3>3. Executes(graph, bad, run[r], more, Ears(r), request[r])
      BY <2>1, <3>1, <3>2, FailingIs
    <3>4. Executes(graph, bad, run'[r], took'[r], Ears(r)', request'[r])
      BY <2>3, <2>6, <3>3
    <3>5. Worker(bad)
      BY <3>1 DEF Worker
    <3> QED
      BY <2>1, <2>7, <2>8, <2>10, <3>1, <3>4, <3>5, WorkerStep
  <2> QED
    BY <2>2, <2>9, <2>10
<1> QED
  BY <1>4, <1>5 DEF CallOutside

-----------------------------------------------------------------------------
(* A loop that is begun anew.                                              *)

\* What comes before a place comes before what is in the loop there.
LEMMA AlongBefore ==
    ASSUME NEW g, NEW p, IsPlace(g, p), NEW r, IsPlace(g, r), Along(p, r),
           NEW s, Steps(s), IsBefore(s, Scope(p))
    PROVE  IsBefore(s, Scope(r))
<1>. DEFINE a == Scope(p)
            b == Scope(r)
<1>1. /\ Len(p) \in 1..3 /\ Len(r) \in 1..3 /\ Len(p) <= Len(r)
      /\ p[Len(p)].loop_index = 0
      /\ p \in Seq(Levels) /\ r \in Seq(Levels)
  BY LastLevel DEF Along
<1>2. /\ Len(a) = Len(p) /\ Len(b) = Len(r)
      /\ \A k \in 1..Len(p) : a[k] = <<p[k].node, p[k].loop_index>>
      /\ \A k \in 1..Len(r) : b[k] = <<r[k].node, r[k].loop_index>>
  BY <1>1, ScopeOf
<1>3. PICK k : Behind(s, a, k)
  BY BeforeIsBehind DEF Steps
<1>4. /\ k \in Nat /\ 1 <= k /\ k <= Len(s) /\ k <= Len(p) /\ Len(s) \in Nat
      /\ \A j \in 1..k - 1 : s[j] = a[j]
      /\ \/ s[k][1] < a[k][1]
         \/ s[k][1] = a[k][1] /\ s[k][2] < a[k][2]
  BY <1>2, <1>3 DEF Behind, Steps
<1>5. ASSUME NEW j \in 1..Len(p) - 1
      PROVE  a[j] = b[j]
  <2>1. j \in 1..Len(p) /\ j \in 1..Len(r)
    BY <1>1
  <2>2. p[j].node = r[j].node /\ p[j].loop_index = r[j].loop_index
    BY <2>1, <1>5 DEF Along
  <2> QED
    BY <1>2, <2>1, <2>2
<1>6. k \in 1..Len(p) /\ k \in 1..Len(r) /\ k \in 1..Len(s)
  BY <1>1, <1>4
<1>7. a[k][1] = b[k][1] /\ a[k][2] = p[k].loop_index
  <2>1. p[k].node = r[k].node
    BY <1>6 DEF Along
  <2>2. a[k] = <<p[k].node, p[k].loop_index>>
        /\ b[k] = <<r[k].node, r[k].loop_index>>
    BY <1>2, <1>6
  <2> QED
    BY <2>1, <2>2
<1>8. \/ s[k][1] < b[k][1]
      \/ s[k][1] = b[k][1] /\ s[k][2] < b[k][2]
  <2>1. CASE k = Len(p)
    <3>1. a[k][2] = 0
      BY <1>1, <1>7, <2>1
    <3>2. s[k][2] \in Nat
      BY <1>6 DEF Steps
    <3> QED
      BY <1>4, <1>7, <3>1, <3>2
  <2>2. CASE k # Len(p)
    <3>1. k \in 1..Len(p) - 1
      BY <1>1, <1>6, <2>2
    <3>2. a[k] = b[k]
      BY <1>5, <3>1
    <3> QED
      BY <1>4, <3>2
  <2> QED
    BY <2>1, <2>2
<1>9. ASSUME NEW j \in 1..k - 1
      PROVE  s[j] = b[j]
  <2>1. j \in 1..Len(p) - 1
    BY <1>1, <1>4
  <2> QED
    BY <1>4, <1>5, <1>9, <2>1
<1>10. Behind(s, b, k)
  BY <1>1, <1>2, <1>4, <1>8, <1>9 DEF Behind
<1> QED
  BY <1>10, BeforeIsBehind DEF Steps

\* What is left of what a run has done when it is at p again.
Left(g, done, p) ==
    [s \in Leaves(g) |-> IF IsBefore(s, Scope(p)) THEN done[s] ELSE 0]
LeftOf(ears, p) == {s \in ears : IsBefore(s, Scope(p))}

LEMMA LeftIs ==
    ASSUME NEW g, GoodGraph(g), NEW th, Placed(g, th), Pending(g, th),
           th.doing = "work", th.at # <<>>,
           NEW done, Walks(g, th, done),
           NEW ears, NEW asks, Effects(g, done, ears, asks),
           NEW c, c = Checkpoint(th.at, "none"),
           NEW more, more = Left(g, done, th.at),
           NEW less, less = LeftOf(ears, th.at)
    PROVE  /\ c # <<>> /\ Shown(g, more, c) /\ HeardBefore(g, less, c)
           /\ Effects(g, more, less, asks)
<1>1. /\ IsPlace(g, th.at) /\ Steps(Scope(th.at))
      /\ \A s : Past(s, c) <=> IsBefore(s, Scope(th.at))
      /\ c # <<>>
  <2>1. IsPlace(g, th.at)
    BY DEF Placed
  <2>2. "none" \in Marks /\ "none" # "received"
    BY DEF Marks
  <2>3. c # <<>> /\ Scope(c) = Scope(th.at)
    BY <2>1, <2>2, CheckpointIs
  <2>4. Steps(Scope(th.at))
    BY <2>1, ScopeOf DEF IsPlace
  <2> QED
    BY <2>1, <2>3, <2>4 DEF Past
<1>2. ASSUME NEW s \in Leaves(g), IsBefore(s, Scope(th.at))
      PROVE  Past(s, Aim(th))
  <2>1. CASE th.resume = <<>>
    BY <1>2, <2>1 DEF Aim, Past
  <2>2. CASE th.resume # <<>>
    <3>1. IsPlace(g, th.resume) /\ Along(th.at, th.resume)
      BY <2>2 DEF Placed
    <3>2. Steps(s)
      BY LeavesAreScopes DEF IsScope
    <3>3. IsBefore(s, Scope(th.resume))
      BY <1>1, <1>2, <3>1, <3>2, AlongBefore
    <3> QED
      BY <2>2, <3>3 DEF Aim, Past
  <2> QED
    BY <2>1, <2>2
<1>3. Shown(g, more, c)
  <2> SUFFICES ASSUME NEW s \in Leaves(g)
               PROVE  more[s] = IF s \in DueIn(g) /\ Past(s, c) THEN 1 ELSE 0
    BY DEF Shown
  <2>1. more[s] = IF IsBefore(s, Scope(th.at)) THEN done[s] ELSE 0
    BY DEF Left
  <2>2. IsBefore(s, Scope(th.at)) =>
           done[s] = IF s \in DueIn(g) THEN 1 ELSE 0
    BY <1>2 DEF Walks, Pending
  <2> QED
    BY <1>1, <2>1, <2>2
<1>4. HeardBefore(g, less, c)
  BY <1>1 DEF HeardBefore, LeftOf
<1>5. /\ more \in [Leaves(g) -> Nat]
      /\ \A s \in Leaves(g) : more[s] > 0 => done[s] > 0
  BY DEF Left, Effects
<1>6. InTurn(g, more)
  <2>1. ASSUME NEW s \in Leaves(g)
        PROVE  more[s] <= IF s \in DueIn(g) THEN 1 ELSE 0
    <3>1. more[s] = IF s \in DueIn(g) /\ Past(s, c) THEN 1 ELSE 0
      BY <1>3 DEF Shown
    <3> QED
      BY <3>1
  <2>2. ASSUME NEW s \in DueIn(g), NEW q \in DueIn(g), IsBefore(s, q),
               more[q] = 1
        PROVE  more[s] = 1
    <3>1. s \in Leaves(g) /\ q \in Leaves(g) /\ Steps(s) /\ Steps(q)
      BY DueAreScopes
    <3>2. Past(q, c)
      BY <1>3, <2>2, <3>1 DEF Shown
    <3>3. Past(s, c)
      BY <1>1, <2>2, <3>1, <3>2, BeforeTransitive
    <3> QED
      BY <1>3, <3>1, <3>3 DEF Shown
  <2> QED
    BY <2>1, <2>2 DEF InTurn
<1>7. AskedFirst(g, more, asks)
  BY <1>5 DEF AskedFirst, Effects
<1>8. /\ less \subseteq Leaves(g)
      /\ \A s \in less : NodeAt(g, Path(s)).type = "await_event"
      /\ asks \in [Leaves(g) -> Answers]
  BY DEF Effects, LeftOf
<1> QED
  BY <1>1, <1>3, <1>4, <1>5, <1>6, <1>7, <1>8 DEF Effects

LEMMA LoopFailsCore ==
    ASSUME CoreInv, NEW t \in Threads, LoopFails(t)
    PROVE  CoreInv'
<1>1. PICK th : th = thread[t]
  OBVIOUS
<1>2. PICK r : r = th.run
  OBVIOUS
<1>. DEFINE new == AfterFail(th)
            done == Left(graph, took[r], th.at)
            ears == LeftOf(Ears(r), th.at)
<1>3. /\ th.doing = "work" /\ Become(t, new) /\ Upset
      /\ UNCHANGED <<config, run, request>>
  BY <1>1 DEF LoopFails, Working, Fail, AfterFail
<1>. HIDE DEF new
<1>4. /\ r \in Runs /\ r = Current(t) /\ GoodGraph(graph)
      /\ Executes(graph, th, run[r], took[r], Ears(r), request[r])
      /\ Placed(graph, th) /\ Pending(graph, th)
      /\ Walks(graph, th, took[r]) /\ Retries(graph, th, run[r])
      /\ DOMAIN th = Worker1 /\ ~th.entered /\ th.at # <<>>
      /\ Worker(thread[t]) /\ run[r].status = "running"
      /\ Effects(graph, took[r], Ears(r), request[r])
      /\ RowFields(graph, run[r])
      /\ th.approved # <<>> => request[r][th.approved] \in Approvals
      /\ Scopes = Leaves(graph)
  BY <1>1, <1>2, <1>3, Worked
<1>5. /\ took' = [took EXCEPT ![r] = done]
      /\ heard' = {h \in heard : h[1] = r =>
                      h[2] \in Scopes /\ IsBefore(h[2], Scope(th.at))}
  BY <1>1, <1>4 DEF LoopFails, Left
<1>6. /\ DOMAIN new = Worker1 /\ new.run = r
      /\ new.doing = "fail" /\ new.entered = th.entered
      /\ new.approved = th.approved
  BY <1>2, <1>4, AfterFailIs DEF new
<1>7. /\ run[r].retry.at # <<>>
      /\ Shown(graph, done, run[r].retry.at)
      /\ HeardBefore(graph, ears, run[r].retry.at)
      /\ Effects(graph, done, ears, request[r])
  <2>1. run[r].retry.at = Checkpoint(th.at, "none")
    BY <1>3, <1>4 DEF Retries
  <2>. HIDE DEF done, ears
  <2>2. done = Left(graph, took[r], th.at) /\ ears = LeftOf(Ears(r), th.at)
    BY DEF done, ears
  <2> QED
    BY <1>3, <1>4, <2>1, <2>2, LeftIs
<1>8. Local(t, r) /\ thread'[t] = new
  <2>1. DOMAIN took' = Runs /\ \A q \in Runs : q # r => took'[q] = took[q]
    BY <1>5 DEF CoreInv, Frame
  <2>2. /\ \A h \in heard : h \in heard' \/ h[1] = r
        /\ \A h \in heard' : h \in heard
    BY <1>5
  <2>3. run[r].slot \in 0..slot /\ run[r].build \in 0..build
    BY <1>4 DEF CoreInv, Frame
  <2>4. /\ DOMAIN thread' = Threads /\ thread'[t] = new
        /\ \A u \in Threads : u # t => thread'[u] = thread[u]
    BY <1>3, BecomeIs DEF CoreInv
  <2>5. upsets' \in 0..MaxUpsets /\ upsets <= upsets'
    BY <1>3, UpsetIs DEF CoreInv
  <2>6. /\ UNCHANGED <<graph, scheduled, enabled, build, slot>>
        /\ run' = run /\ request' = request
        /\ DOMAIN run = Runs /\ DOMAIN request = Runs
    BY <1>3 DEF config, CoreInv, Frame
  <2> QED
    BY <2>1, <2>2, <2>3, <2>4, <2>5, <2>6 DEF Local
<1>9. Scopes' = Scopes /\ graph' = graph
  <2>1. Scopes' = Scopes
    BY <1>4, <1>8, LocalFrame DEF CoreInv
  <2> QED
    BY <1>3, <2>1 DEF config
<1>10. /\ run'[r] = run[r] /\ request'[r] = request[r] /\ took'[r] = done
  BY <1>3, <1>4, <1>5 DEF CoreInv, Frame
<1>11. Ears(r)' = ears
  <2>1. \A x \in Scopes : <<r, x>> \in heard' <=>
                <<r, x>> \in heard /\ IsBefore(x, Scope(th.at))
    BY <1>5
  <2>2. Ears(r)' = {x \in Scopes : <<r, x>> \in heard'}
    BY <1>9 DEF Ears
  <2> QED
    BY <2>1, <2>2 DEF Ears, LeftOf
<1>. HIDE DEF done, ears
<1>12. RowOk(r)'
  <2>1. Rests(graph, run[r], done, ears)
    BY <1>4, RunningRests
  <2>2. /\ RowFields(graph', run'[r])
        /\ Effects(graph', took'[r], Ears(r)', request'[r])
        /\ Rests(graph', run'[r], took'[r], Ears(r)')
    BY <1>4, <1>7, <1>9, <1>10, <1>11, <2>1
  <2> QED
    BY <2>2 DEF RowOk
<1>13. Executes(graph, new, run[r], done, ears, request[r])
  <2>1. WorkerFields(graph, new)
    BY <1>4, <1>6 DEF WorkerFields, Executes, Worker1
  <2>2. Ends(graph, new, run[r], done, ears) /\ ~Walker(new)
    BY <1>6, <1>7 DEF Ends, Walker
  <2> QED
    BY <1>4, <1>6, <2>1, <2>2 DEF Executes
<1>14. Executes(graph, new, run'[r], took'[r], Ears(r)', request'[r])
  BY <1>10, <1>11, <1>13
<1>15. Worker(new)
  BY <1>6 DEF Worker
<1> QED
  BY <1>4, <1>6, <1>8, <1>12, <1>14, <1>15, WorkerStep

-----------------------------------------------------------------------------
(* A thread comes to work at a node.                                       *)

LEMMA RetrySafeIs ==
    ASSUME NEW g, GoodGraph(g), NEW p, IsPlace(g, p)
    PROVE  RetrySafe(NodeAt(g, p)) \in BOOLEAN
<1>1. Len(p) \in 1..Len(p) /\ NodeAt(g, p) = NodeOn(g, p, Len(p))
  BY LastLevel
<1>2. /\ Body(GraphAt(g, p, Len(p)))
      /\ p[Len(p)].node \in 1..Len(GraphAt(g, p, Len(p)))
  BY <1>1, PlaceLevel
<1>3. PICK node : node = NodeAt(g, p)
  OBVIOUS
<1>4. node.inside \in BOOLEAN
  BY <1>1, <1>2, <1>3 DEF Body, NodeOn
<1>5. RetrySafe(node) \in BOOLEAN
  <2>1. CASE node.type = "media"
    BY <2>1 DEF RetrySafe
  <2>2. CASE node.type = "browser"
    BY <2>2 DEF RetrySafe
  <2>3. CASE node.type = "action"
    BY <1>4, <2>3 DEF RetrySafe
  <2>4. CASE node.type \notin {"media", "browser", "action"}
    BY <2>4 DEF RetrySafe
  <2> QED
    BY <2>1, <2>2, <2>3, <2>4
<1> QED
  BY <1>3, <1>5

\* The thread, and its row.
AfterCommit(th) == [th EXCEPT !.doing = "work", !.entered = FALSE,
                              !.pending = {}]

LEMMA AfterCommitIs ==
    ASSUME NEW th, DOMAIN th = Worker1, NEW new, new = AfterCommit(th)
    PROVE  /\ DOMAIN new = Worker1 /\ new.run = th.run
           /\ new.doing = "work" /\ new.entered = FALSE
           /\ new.pending = {} /\ new.at = th.at /\ new.resume = th.resume
           /\ new.approved = th.approved
<1>. DEFINE a == [th EXCEPT !.doing = "work"]
            b == [a EXCEPT !.entered = FALSE]
            d == [b EXCEPT !.pending = {}]
<1>0. /\ Worker1 = {"doing", "run", "entered", "at", "resume", "approved",
                    "pending"}
      /\ new = d
  BY WorkerFieldsAre DEF AfterCommit
<1>1. /\ DOMAIN a = DOMAIN th /\ a.doing = "work" /\ a.run = th.run
      /\ a.at = th.at /\ a.resume = th.resume /\ a.approved = th.approved
  BY <1>0
<1>. HIDE DEF a
<1>2. /\ DOMAIN b = DOMAIN th /\ b.doing = "work" /\ b.run = th.run
      /\ b.at = th.at /\ b.resume = th.resume /\ b.approved = th.approved
      /\ b.entered = FALSE
  BY <1>0, <1>1
<1>. HIDE DEF b
<1>3. /\ DOMAIN d = DOMAIN th /\ d.doing = "work" /\ d.run = th.run
      /\ d.at = th.at /\ d.resume = th.resume /\ d.approved = th.approved
      /\ d.entered = FALSE /\ d.pending = {}
  BY <1>0, <1>2
<1>. HIDE DEF d
<1> QED
  BY <1>0, <1>3

CommittedRow(row, q, at, safe) ==
    /\ DOMAIN q = DOMAIN row /\ q.status = "running" /\ q.wait = row.wait
    /\ q.retry = [at |-> at, safe |-> safe]
    /\ q.attempts = row.attempts /\ q.slot = row.slot /\ q.build = row.build

LEMMA CommittedRowIs ==
    ASSUME Frame, NEW r \in Runs, RowFields(graph, run[r]),
           NEW at, NEW safe,
           run' = [run EXCEPT ![r].status = "running",
                              ![r].retry = [at |-> at, safe |-> safe]]
    PROVE  /\ DOMAIN run' = Runs /\ CommittedRow(run[r], run'[r], at, safe)
           /\ \A q \in Runs : q # r => run'[q] = run[q]
<1>. DEFINE new == [at |-> at, safe |-> safe]
<1>. HIDE DEF new
<1>. DEFINE a == [run EXCEPT ![r].status = "running"]
            b == [a EXCEPT ![r].retry = new]
<1>0. /\ DOMAIN run = Runs /\ run' = b
      /\ DOMAIN run[r] = {"status", "slot", "wait", "retry", "attempts",
                          "build"}
  BY DEF Frame, RowFields, Row, new
<1>1. /\ DOMAIN a = Runs /\ DOMAIN a[r] = DOMAIN run[r]
      /\ a[r].status = "running" /\ a[r].wait = run[r].wait
      /\ a[r].attempts = run[r].attempts
      /\ a[r].slot = run[r].slot /\ a[r].build = run[r].build
      /\ \A q \in Runs : q # r => a[q] = run[q]
  BY <1>0
<1>. HIDE DEF a
<1>2. /\ DOMAIN b = Runs /\ DOMAIN b[r] = DOMAIN run[r]
      /\ b[r].status = "running" /\ b[r].wait = run[r].wait
      /\ b[r].attempts = run[r].attempts /\ b[r].retry = new
      /\ b[r].slot = run[r].slot /\ b[r].build = run[r].build
      /\ \A q \in Runs : q # r => b[q] = run[q]
  BY <1>0, <1>1
<1>. HIDE DEF b
<1> QED
  BY <1>0, <1>2 DEF CommittedRow, new

LEMMA RunningFields ==
    ASSUME NEW g, NEW row, RowFields(g, row), NEW at, IsPlace(g, at),
           Unmarked(at), NEW safe \in BOOLEAN, NEW q,
           CommittedRow(row, q, at, safe)
    PROVE  /\ RowFields(g, q) /\ q.retry.at = at /\ q.retry.safe = safe
           /\ q.status = "running" /\ q.slot = row.slot
           /\ q.build = row.build
<1>1. /\ q.retry = [at |-> at, safe |-> safe] /\ q.wait = row.wait
      /\ q.status = "running" /\ q.attempts \in Nat
      /\ DOMAIN q = DOMAIN Row /\ q.slot = row.slot /\ q.build = row.build
  BY DEF RowFields, CommittedRow
<1>2. /\ q.retry.at = at /\ q.retry.safe = safe
      /\ DOMAIN q.retry = DOMAIN NoRetry
  BY <1>1 DEF NoRetry
<1>3. q.retry.safe \in BOOLEAN
  BY <1>2, Zenon
<1>4. \A c \in {q.wait, q.retry.at} : c # <<>> => IsPlace(g, c) /\ Unmarked(c)
  BY <1>1, <1>2 DEF RowFields
<1>5. q.status \in RunStatuses
  BY <1>1 DEF RunStatuses
<1>6. RowFields(g, q)
  BY <1>1, <1>2, <1>3, <1>4, <1>5 DEF RowFields
<1> QED
  BY <1>1, <1>2, <1>6

\* What the commit makes of what the run has done, heard and asked.
LEMMA CommitEffects ==
    ASSUME NEW g, GoodGraph(g), NEW th, Pending(g, th), NEW done,
           Walks(g, th, done), NEW ears, NEW asks,
           Effects(g, done, ears, asks),
           ~th.entered /\ th.approved # <<>> =>
              asks[th.approved] \in Approvals,
           InTurn(g, Done2(g, th, done)), NEW more,
           \A s \in more : /\ s \in Leaves(g)
                           /\ NodeAt(g, Path(s)).type = "await_event"
    PROVE  Effects(g, Done2(g, th, done), ears \cup more, asks)
<1>1. done \in [Leaves(g) -> Nat] /\ AskedFirst(g, done, asks)
  BY DEF Effects
<1>2. Done2(g, th, done) \in [Leaves(g) -> Nat]
  BY <1>1, CommitIs
<1>3. <<>> \notin Leaves(g)
  BY NoEmptyLeaf
<1>4. AskedFirst(g, Done2(g, th, done), asks)
  BY <1>1, <1>3, CommitAsked
<1> QED
  BY <1>2, <1>4 DEF Effects

\* An approval is written.
LEMMA ApprovedEffects ==
    ASSUME NEW g, NEW done, NEW ears, NEW asks, Effects(g, done, ears, asks),
           NEW s \in Leaves(g), NEW a \in Approvals
    PROVE  Effects(g, done, ears, [asks EXCEPT ![s] = a])
<1>. DEFINE new == [asks EXCEPT ![s] = a]
<1>1. asks \in [Leaves(g) -> Answers] /\ a \in Answers
  BY DEF Effects, Answers
<1>2. /\ new \in [Leaves(g) -> Answers]
      /\ \A x \in Leaves(g) : new[x] = asks[x] \/ new[x] \in Approvals
  BY <1>1
<1>. HIDE DEF new
<1>3. AskedFirst(g, done, new)
  BY <1>2 DEF Effects, AskedFirst
<1> QED
  BY <1>2, <1>3 DEF Effects, new

\* A thread on its way to a node.
LEMMA Walked ==
    ASSUME CoreInv, NEW t \in Threads, NEW th, th = thread[t],
           th.doing = "node", NEW r, r = th.run
    PROVE  /\ r \in Runs /\ r = Current(t) /\ Worker(th) /\ GoodGraph(graph)
           /\ Executes(graph, th, run[r], took[r], Ears(r), request[r])
           /\ Placed(graph, th) /\ Pending(graph, th)
           /\ Walks(graph, th, took[r]) /\ Hears(graph, th, Ears(r))
           /\ DOMAIN th = Worker1
           /\ Effects(graph, took[r], Ears(r), request[r])
           /\ RowFields(graph, run[r])
           /\ ~th.entered /\ th.approved # <<>> =>
                 request[r][th.approved] \in Approvals
           /\ th.approved \in Scopes \cup {<<>>}
           /\ Scopes = Leaves(graph)
           /\ NodeAt(graph, th.at) = Doing(t)
<1>1. Worker(th) /\ Walker(th)
  BY DEF Worker, Walker
<1>2. /\ r \in Runs /\ r = Current(t) /\ GoodGraph(graph)
      /\ Executes(graph, th, run[r], took[r], Ears(r), request[r])
      /\ RowOk(r) /\ Scopes = Leaves(graph)
  BY <1>1, AtWork DEF Current
<1>3. /\ Placed(graph, th) /\ Pending(graph, th)
      /\ Walks(graph, th, took[r]) /\ Hears(graph, th, Ears(r))
      /\ WorkerFields(graph, th)
      /\ ~th.entered /\ th.approved # <<>> =>
            request[r][th.approved] \in Approvals
  BY <1>1, <1>2 DEF Executes
<1>4. DOMAIN th = Worker1 /\ th.approved \in Scopes \cup {<<>>}
  BY <1>2, <1>3 DEF WorkerFields, Worker1
<1> QED
  BY <1>1, <1>2, <1>3, <1>4 DEF RowOk, Doing

\* What a commit writes in took.
LEMMA CommittedIs ==
    ASSUME Frame, NEW t \in Threads, NEW th, th = thread[t],
           NEW r \in Runs, r = th.run, took' = Committed(t)
    PROVE  /\ DOMAIN took' = Runs /\ took'[r] = Done2(graph, th, took[r])
           /\ \A q \in Runs : q # r => took'[q] = took[q]
<1>. DEFINE d == [s \in Scopes |-> IF s \in th.pending THEN took[r][s] + 1
                                   ELSE took[r][s]]
<1>1. took' = [took EXCEPT ![r] = d]
  BY DEF Committed, Current
<1>2. d = Done2(graph, th, took[r])
  BY DEF Frame, Done2
<1>. HIDE DEF d
<1> QED
  BY <1>1, <1>2 DEF Frame

LEMMA PersistCore ==
    ASSUME CoreInv, NEW t \in Threads, Persist(t)
    PROVE  CoreInv'
<1>1. PICK th : th = thread[t]
  OBVIOUS
<1>2. PICK r : r = th.run
  OBVIOUS
<1>3. PICK s : s = th.approved
  OBVIOUS
<1>. DEFINE c == Checkpoint(th.at, "none")
            safe == RetrySafe(NodeAt(graph, th.at))
            new == AfterCommit(th)
            writes == th.entered /\ s # <<>>
<1>4. /\ r \in Runs /\ r = Current(t) /\ Worker(th) /\ GoodGraph(graph)
      /\ Executes(graph, th, run[r], took[r], Ears(r), request[r])
      /\ Placed(graph, th) /\ Pending(graph, th)
      /\ Walks(graph, th, took[r]) /\ Hears(graph, th, Ears(r))
      /\ DOMAIN th = Worker1 /\ th.doing = "node" /\ th.at # <<>>
      /\ Effects(graph, took[r], Ears(r), request[r])
      /\ RowFields(graph, run[r])
      /\ ~th.entered /\ s # <<>> => request[r][s] \in Approvals
      /\ s \in Scopes \cup {<<>>} /\ Scopes = Leaves(graph)
      /\ NodeAt(graph, th.at) = Doing(t)
  BY <1>1, <1>2, <1>3, Walked DEF Persist
<1>5. /\ run' = [run EXCEPT ![r].status = "running",
                            ![r].retry = [at |-> c, safe |-> safe]]
      /\ request' = IF writes THEN [request EXCEPT ![r][s] = "approved"]
                    ELSE request
      /\ took' = Committed(t) /\ heard' = heard \cup EventOf(t)
      /\ Become(t, new) /\ UNCHANGED <<config, orphaned, upsets>>
  BY <1>1, <1>3, <1>4 DEF Persist, AfterCommit
<1>6. safe \in BOOLEAN /\ IsPlace(graph, th.at)
  BY <1>4, RetrySafeIs DEF Placed
<1>. HIDE DEF c, safe, new
<1>7. /\ DOMAIN new = Worker1 /\ new.run = r /\ new.doing = "work"
      /\ new.entered = FALSE /\ new.pending = {} /\ new.at = th.at
      /\ new.resume = th.resume /\ new.approved = s
  BY <1>2, <1>3, <1>4, AfterCommitIs DEF new
<1>8. Comes(graph, th, new)
  BY <1>3, <1>4, <1>7 DEF Comes
<1>9. /\ DOMAIN run' = Runs /\ CommittedRow(run[r], run'[r], c, safe)
      /\ \A q \in Runs : q # r => run'[q] = run[q]
  <2>1. Frame
    BY DEF CoreInv
  <2> QED
    BY <1>4, <1>5, <2>1, CommittedRowIs
<1>10. IsPlace(graph, c) /\ Unmarked(c)
  <2>1. IsPlace(graph, th.at) /\ Unmarked(th.at)
    BY <1>4 DEF Placed
  <2>2. "none" \in Marks /\ "none" # "received"
    BY DEF Marks
  <2> QED
    BY <2>1, <2>2, CheckpointIs DEF c
<1>11. PICK row : row = run'[r]
  OBVIOUS
<1>12. /\ RowFields(graph, row) /\ row.retry.at = c /\ row.retry.safe = safe
       /\ row.status = "running" /\ row.slot = run[r].slot
       /\ row.build = run[r].build
  BY <1>4, <1>6, <1>9, <1>10, <1>11, RunningFields
<1>13. PICK done : done = Done2(graph, th, took[r])
  OBVIOUS
<1>14. /\ DOMAIN took' = Runs /\ took'[r] = done
       /\ \A q \in Runs : q # r => took'[q] = took[q]
  BY <1>1, <1>2, <1>4, <1>5, <1>13, CommittedIs DEF CoreInv
<1>15. took[r] \in [Leaves(graph) -> Nat]
  BY <1>4 DEF Effects
<1>16. /\ row.retry.at = Checkpoint(th.at, "none")
       /\ row.retry.safe = RetrySafe(NodeAt(graph, th.at))
  BY <1>12, Zenon DEF c, safe
<1>17. /\ Placed(graph, new) /\ Pending(graph, new)
       /\ Walks(graph, new, done)
       /\ Hears(graph, new, Ears(r) \cup Event(th))
       /\ Retries(graph, new, row) /\ InTurn(graph, done)
       /\ \A x \in Event(th) : /\ x \in Leaves(graph)
                               /\ NodeAt(graph, Path(x)).type = "await_event"
  BY <1>4, <1>8, <1>13, <1>15, <1>16, ComesIs
<1>18. EventOf(t) = {<<r, x>> : x \in Event(th)}
  BY <1>1, <1>2 DEF EventOf, Event, Current
<1>19. /\ DOMAIN request' = Runs
       /\ \A q \in Runs : q # r => request'[q] = request[q]
       /\ DOMAIN request'[r] = DOMAIN request[r]
       /\ request'[r] = IF writes THEN [request[r] EXCEPT ![s] = "approved"]
                        ELSE request[r]
  <2>1. DOMAIN request = Runs
    BY DEF CoreInv, Frame
  <2>2. CASE writes
    BY <1>4, <1>5, <2>1, <2>2
  <2>3. CASE ~writes
    BY <1>5, <2>1, <2>3
  <2> QED
    BY <2>2, <2>3
<1>20. Local(t, r) /\ thread'[t] = new
  <2>1. /\ \A h \in heard : h \in heard' \/ h[1] = r
        /\ \A h \in heard' : h \in heard \/ (h[1] = r /\ h \in Runs \X Scopes)
    BY <1>4, <1>5, <1>17, <1>18
  <2>2. run'[r].slot \in 0..slot /\ run'[r].build \in 0..build
    BY <1>4, <1>11, <1>12 DEF CoreInv, Frame
  <2>3. /\ UNCHANGED <<graph, scheduled, enabled, build, slot>>
        /\ upsets' \in 0..MaxUpsets /\ upsets <= upsets'
    BY <1>5, UpsetIs DEF config, CoreInv
  <2>4. /\ DOMAIN thread' = Threads /\ thread'[t] = new
        /\ \A u \in Threads : u # t => thread'[u] = thread[u]
    BY <1>5, BecomeIs DEF CoreInv
  <2> QED
    BY <1>9, <1>14, <1>19, <2>1, <2>2, <2>3, <2>4 DEF Local
<1>21. Scopes' = Scopes /\ graph' = graph
  <2>1. Scopes' = Scopes
    BY <1>4, <1>20, LocalFrame DEF CoreInv
  <2> QED
    BY <2>1, <1>20 DEF Local
<1>22. Ears(r)' = Ears(r) \cup Event(th)
  <2>1. \A x \in Scopes : <<r, x>> \in heard' <=>
                             <<r, x>> \in heard \/ x \in Event(th)
    BY <1>5, <1>18
  <2>2. Ears(r)' = {x \in Scopes : <<r, x>> \in heard'}
    BY <1>21 DEF Ears
  <2> QED
    BY <1>4, <1>17, <2>1, <2>2 DEF Ears
<1>23. PICK asks : asks = request'[r]
  OBVIOUS
<1>24. Effects(graph, done, Ears(r) \cup Event(th), asks)
  <2>1. Effects(graph, done, Ears(r) \cup Event(th), request[r])
    BY <1>3, <1>4, <1>13, <1>17, CommitEffects
  <2>2. CASE writes
    <3>1. s \in Leaves(graph) /\ "approved" \in Approvals
      BY <1>4, <2>2 DEF Approvals
    <3>2. asks = [request[r] EXCEPT ![s] = "approved"]
      BY <1>19, <1>23, <2>2
    <3> QED
      BY <2>1, <3>1, <3>2, ApprovedEffects
  <2>3. CASE ~writes
    BY <1>19, <1>23, <2>1, <2>3
  <2> QED
    BY <2>2, <2>3
<1>25. RowOk(r)'
  <2>1. Rests(graph, row, done, Ears(r) \cup Event(th))
    BY <1>12, RunningRests
  <2>2. /\ RowFields(graph', run'[r])
        /\ Rests(graph', run'[r], took'[r], Ears(r)')
        /\ Effects(graph', took'[r], Ears(r)', request'[r])
    BY <1>11, <1>12, <1>14, <1>21, <1>22, <1>23, <1>24, <2>1
  <2> QED
    BY <2>2 DEF RowOk
<1>26. Executes(graph, new, row, done, Ears(r) \cup Event(th), asks)
  <2>1. WorkerFields(graph, new)
    BY <1>4, <1>7 DEF WorkerFields, Worker1
  <2>2. Ends(graph, new, row, done, Ears(r) \cup Event(th))
    BY <1>7 DEF Ends
  <2>3. new.approved # <<>> => asks[new.approved] \in Approvals
    <3>1. CASE writes
      <4>1. /\ asks = [request[r] EXCEPT ![s] = "approved"]
            /\ s \in DOMAIN request[r]
        BY <1>4, <1>19, <1>23, <3>1 DEF Effects
      <4> QED
        BY <1>7, <4>1 DEF Approvals
    <3>2. CASE ~writes
      BY <1>4, <1>7, <1>19, <1>23, <3>2
    <3> QED
      BY <3>1, <3>2
  <2> QED
    BY <1>7, <1>12, <1>17, <2>1, <2>2, <2>3 DEF Executes
<1>27. Executes(graph, new, run'[r], took'[r], Ears(r)', request'[r])
  BY <1>11, <1>14, <1>22, <1>23, <1>26
<1>28. Worker(new)
  BY <1>7 DEF Worker
<1> QED
  BY <1>1, <1>4, <1>7, <1>20, <1>25, <1>27, <1>28, WorkerStep

-----------------------------------------------------------------------------
(* A thread leaves its run.                                                *)

LEMMA EndsInIs ==
    ASSUME NEW t \in Threads, NEW outcome \in Outcomes, EndsIn(t, outcome),
           NEW r, r = Current(t), thread[t].approved \in Scopes \cup {<<>>}
    PROVE  \E new : /\ Become(t, new)
                    /\ \/ new = Idle
                       \/ /\ new.doing = "answer" /\ new.run = r
                          /\ new.scope \in Scopes /\ new.outcome \in Outcomes
<1>1. CASE thread[t].approved = <<>>
  BY <1>1 DEF EndsIn
<1>2. CASE thread[t].approved # <<>>
  <2>. DEFINE new == [doing |-> "answer", run |-> r,
                      scope |-> thread[t].approved, outcome |-> outcome]
  <2>1. Become(t, new)
    BY <1>2 DEF EndsIn
  <2>2. /\ new.doing = "answer" /\ new.run = r
        /\ new.scope \in Scopes /\ new.outcome \in Outcomes
    BY <1>2
  <2>. HIDE DEF new
  <2> QED
    BY <2>1, <2>2
<1> QED
  BY <1>1, <1>2

\* It leaves the run's row as it should be.
LEMMA LeaveStep ==
    ASSUME CoreInv, NEW t \in Threads, NEW r \in Runs, r = Current(t),
           Worker(thread[t]), NEW outcome \in Outcomes, EndsIn(t, outcome),
           UNCHANGED <<config, history>>,
           DOMAIN run' = Runs, DOMAIN request' = Runs,
           \A q \in Runs : q # r =>
              run'[q] = run[q] /\ request'[q] = request[q],
           DOMAIN request'[r] = DOMAIN request[r],
           run'[r].slot \in 0..slot, run'[r].build \in 0..build,
           RowFields(graph, run'[r]),
           Effects(graph, took[r], Ears(r), request'[r]),
           Rests(graph, run'[r], took[r], Ears(r))
    PROVE  CoreInv'
<1>1. thread[t].approved \in Scopes \cup {<<>>}
  BY AtWork DEF Executes, WorkerFields
<1>2. PICK new : /\ Become(t, new)
                 /\ \/ new = Idle
                    \/ /\ new.doing = "answer" /\ new.run = r
                       /\ new.scope \in Scopes /\ new.outcome \in Outcomes
  BY <1>1, EndsInIs
<1>3. /\ DOMAIN thread' = Threads /\ thread'[t] = new
      /\ \A u \in Threads : u # t => thread'[u] = thread[u]
  BY <1>2, BecomeIs DEF CoreInv
<1>4. upsets' \in 0..MaxUpsets /\ upsets <= upsets'
  BY UpsetIs DEF CoreInv, history
<1>5. DOMAIN took = Runs
  BY DEF CoreInv, Frame
<1>6. Local(t, r)
  BY <1>3, <1>4, <1>5 DEF Local, config, history
<1>7. Scopes' = Scopes /\ graph' = graph /\ took' = took
  <2>1. Scopes' = Scopes
    BY <1>6, LocalFrame DEF CoreInv
  <2> QED
    BY <2>1 DEF config, history
<1>8. Ears(r)' = Ears(r)
  BY <1>7 DEF Ears, history
<1>9. RowOk(r)'
  BY <1>7, <1>8 DEF RowOk
<1> QED
  BY <1>2, <1>3, <1>6, <1>9, WorkerStep

\* The row of a run that is stored.
StoredRow(row, q, stat, c, b) ==
    /\ DOMAIN q = DOMAIN row /\ q.status = stat /\ q.wait = c
    /\ q.retry = NoRetry /\ q.attempts = 0 /\ q.build = b
    /\ q.slot = row.slot

LEMMA StoredRowIs ==
    ASSUME NEW g, NEW row, RowFields(g, row), NEW stat, NEW c, NEW b,
           NEW q, q = [row EXCEPT !.status = stat, !.wait = c,
                         !.retry = NoRetry, !.attempts = 0, !.build = b]
    PROVE  StoredRow(row, q, stat, c, b)
<1>. DEFINE none == NoRetry
<1>. HIDE DEF none
<1>. DEFINE x1 == [row EXCEPT !.status = stat]
            x2 == [x1 EXCEPT !.wait = c]
            x3 == [x2 EXCEPT !.retry = none]
            x4 == [x3 EXCEPT !.attempts = 0]
            x5 == [x4 EXCEPT !.build = b]
<1>0. /\ q = x5
      /\ DOMAIN row = {"status", "slot", "wait", "retry", "attempts",
                       "build"}
  BY DEF RowFields, Row, none
<1>1. /\ DOMAIN x1 = DOMAIN row /\ x1.status = stat /\ x1.slot = row.slot
  BY <1>0
<1>. HIDE DEF x1
<1>2. /\ DOMAIN x2 = DOMAIN row /\ x2.status = stat /\ x2.slot = row.slot
      /\ x2.wait = c
  BY <1>0, <1>1
<1>. HIDE DEF x2
<1>3. /\ DOMAIN x3 = DOMAIN row /\ x3.status = stat /\ x3.slot = row.slot
      /\ x3.wait = c /\ x3.retry = none
  BY <1>0, <1>2
<1>. HIDE DEF x3
<1>4. /\ DOMAIN x4 = DOMAIN row /\ x4.status = stat /\ x4.slot = row.slot
      /\ x4.wait = c /\ x4.retry = none /\ x4.attempts = 0
  BY <1>0, <1>3
<1>. HIDE DEF x4
<1>5. /\ DOMAIN x5 = DOMAIN row /\ x5.status = stat /\ x5.slot = row.slot
      /\ x5.wait = c /\ x5.retry = none /\ x5.attempts = 0 /\ x5.build = b
  BY <1>0, <1>4
<1>. HIDE DEF x5
<1> QED
  BY <1>0, <1>5 DEF StoredRow, none

LEMMA NoRetryIs ==
    /\ NoRetry.at = <<>> /\ ~NoRetry.safe /\ NoRetry.safe \in BOOLEAN
  BY DEF NoRetry

LEMMA StoredFields ==
    ASSUME NEW g, NEW row, RowFields(g, row), NEW stat \in Waiting,
           NEW c, c # <<>>, IsPlace(g, c), Unmarked(c), NEW b, NEW q,
           StoredRow(row, q, stat, c, b), NEW done, NEW ears,
           Shown(g, done, c), HeardBefore(g, ears, c),
           stat = "waiting_event" => NodeAt(g, c).type = "await_event"
    PROVE  RowFields(g, q) /\ Rests(g, q, done, ears)
<1>1. /\ q.status = stat /\ q.wait = c /\ q.retry = NoRetry
      /\ q.attempts = 0 /\ DOMAIN q = DOMAIN Row
  BY DEF RowFields, StoredRow
<1>2. /\ q.retry.at = <<>> /\ ~q.retry.safe /\ q.retry.safe \in BOOLEAN
      /\ DOMAIN q.retry = DOMAIN NoRetry
  BY <1>1, NoRetryIs
<1>3. \A x \in {q.wait, q.retry.at} : x # <<>> => IsPlace(g, x) /\ Unmarked(x)
  BY <1>1, <1>2
<1>4. q.status \in RunStatuses
  BY <1>1 DEF RunStatuses
<1>5. RowFields(g, q)
  BY <1>1, <1>2, <1>3, <1>4 DEF RowFields
<1>6. Rests(g, q, done, ears)
  BY <1>1, <1>2 DEF Rests, Waiting
<1> QED
  BY <1>5, <1>6

\* A node stores the run.
LEMMA StoreStep ==
    ASSUME CoreInv, NEW t \in Threads, thread[t].doing = "work",
           Doing(t).type \notin Loops,
           Doing(t).type # "await_event" \/ Mark(t) # "received",
           NEW stat \in Waiting, NEW mark \in {"none", "waited"},
           stat = "waiting_event" => Doing(t).type = "await_event",
           Store(t, stat, mark), EndsIn(t, "confirmed"),
           UNCHANGED <<config, history>>,
           \/ request' = request
           \/ request' = [request EXCEPT ![Current(t)][Here(t)] =
                            "awaiting_confirmation"]
    PROVE  CoreInv'
<1>1. PICK th : th = thread[t]
  OBVIOUS
<1>2. PICK r : r = th.run
  OBVIOUS
<1>3. /\ r \in Runs /\ r = Current(t) /\ GoodGraph(graph)
      /\ Placed(graph, th) /\ Pending(graph, th)
      /\ Walks(graph, th, took[r]) /\ Hears(graph, th, Ears(r))
      /\ th.at # <<>> /\ Worker(thread[t]) /\ th.doing = "work"
      /\ Effects(graph, took[r], Ears(r), request[r])
      /\ RowFields(graph, run[r]) /\ Scopes = Leaves(graph)
      /\ NodeAt(graph, th.at) = Doing(t) /\ Here(t) = Scope(th.at)
  BY <1>1, <1>2, Worked
<1>. DEFINE c == Checkpoint(th.at, mark)
            q == [run[r] EXCEPT !.status = stat, !.wait = c,
                       !.retry = NoRetry, !.attempts = 0, !.build = build]
            h == Scope(th.at)
<1>4. run' = [run EXCEPT ![r] = q]
  BY <1>1, <1>3 DEF Store
<1>5. StoredRow(run[r], q, stat, c, build)
  <2>1. q = [run[r] EXCEPT !.status = stat, !.wait = c,
                       !.retry = NoRetry, !.attempts = 0, !.build = build]
    OBVIOUS
  <2>. HIDE DEF q, c
  <2> QED
    BY <1>3, <2>1, StoredRowIs
<1>. HIDE DEF q
<1>6. /\ DOMAIN run' = Runs /\ run'[r] = q
      /\ \A x \in Runs : x # r => run'[x] = run[x]
  BY <1>3, <1>4 DEF CoreInv, Frame
<1>7. /\ c # <<>> /\ IsPlace(graph, c) /\ Unmarked(c)
      /\ NodeAt(graph, c) = NodeAt(graph, th.at)
      /\ Shown(graph, took[r], c) /\ HeardBefore(graph, Ears(r), c)
  <2>1. mark \in Marks /\ mark # "received"
    BY DEF Marks
  <2>2. \A s \in Ears(r) : NodeAt(graph, Path(s)).type = "await_event"
    BY <1>3 DEF Effects
  <2>3. \/ NodeAt(graph, th.at).type # "await_event"
        \/ th.resume = <<>>
        \/ th.resume[Len(th.at)].mark # "received"
    BY <1>1, <1>3 DEF Mark
  <2>4. NodeAt(graph, th.at).type \notin Loops
    BY <1>3
  <2> QED
    BY <1>3, <2>1, <2>2, <2>3, <2>4, StoredIs
<1>. HIDE DEF c
<1>8. RowFields(graph, q) /\ Rests(graph, q, took[r], Ears(r))
  <2>1. stat = "waiting_event" => NodeAt(graph, c).type = "await_event"
    BY <1>3, <1>7
  <2> QED
    BY <1>3, <1>5, <1>7, <2>1, StoredFields
<1>9. h \in Leaves(graph) /\ took[r][h] = 0
  <2>1. IsPlace(graph, th.at) /\ NodeAt(graph, th.at).type \notin Loops
    BY <1>3 DEF Placed
  <2>2. h \in Leaves(graph)
    BY <1>3, <2>1, PlacesAreLeaves
  <2>3. ~IsBefore(h, h)
    BY <1>3, <2>2, LeavesAreScopes, BeforeIrreflexive DEF IsScope
  <2>4. ~Past(h, Aim(th))
    BY <1>3, <2>1, <2>3, Reached
  <2> QED
    BY <1>3, <2>2, <2>4 DEF Walks
<1>10. /\ DOMAIN request' = Runs
       /\ \A x \in Runs : x # r => request'[x] = request[x]
       /\ DOMAIN request'[r] = DOMAIN request[r]
       /\ Effects(graph, took[r], Ears(r), request'[r])
  <2>1. DOMAIN request = Runs
    BY DEF CoreInv, Frame
  <2>2. CASE request' = request
    BY <1>3, <2>1, <2>2
  <2>3. CASE request' = [request EXCEPT ![r][h] = "awaiting_confirmation"]
    <3>. HIDE DEF h
    <3>1. /\ DOMAIN request' = Runs
          /\ \A x \in Runs : x # r => request'[x] = request[x]
          /\ DOMAIN request'[r] = DOMAIN request[r]
          /\ request'[r] =
                [request[r] EXCEPT ![h] = "awaiting_confirmation"]
      BY <1>3, <2>1, <2>3
    <3>2. PICK asks : asks = request[r]
      OBVIOUS
    <3>3. PICK new : new = request'[r]
      OBVIOUS
    <3>4. /\ asks \in [Leaves(graph) -> Answers]
          /\ new = [asks EXCEPT ![h] = "awaiting_confirmation"]
      BY <1>3, <3>1, <3>2, <3>3 DEF Effects
    <3>5. /\ new \in [Leaves(graph) -> Answers]
          /\ \A s \in Leaves(graph) : s # h => new[s] = asks[s]
      BY <1>9, <3>4 DEF Answers
    <3>6. AskedFirst(graph, took[r], new)
      BY <1>3, <1>9, <3>2, <3>5 DEF Effects, AskedFirst
    <3>7. Effects(graph, took[r], Ears(r), new)
      BY <1>3, <3>5, <3>6 DEF Effects
    <3> QED
      BY <3>1, <3>3, <3>7
  <2> QED
    BY <1>3, <2>2, <2>3
<1>11. run'[r].slot \in 0..slot /\ run'[r].build \in 0..build
  <2>1. run[r].slot \in 0..slot /\ build \in 0..build
    BY <1>3 DEF CoreInv, Frame
  <2> QED
    BY <1>5, <1>6, <2>1 DEF StoredRow
<1>12. "confirmed" \in Outcomes
  BY DEF Outcomes
<1> QED
  BY <1>3, <1>6, <1>8, <1>10, <1>11, <1>12, LeaveStep

LEMMA StoreWaitCore ==
    ASSUME CoreInv, NEW t \in Threads, StoreWait(t)
    PROVE  CoreInv'
<1>1. Doing(t).type \notin Loops /\ Doing(t).type # "await_event"
  BY DEF StoreWait, Loops
<1>2. "waiting_time" \in Waiting /\ "waited" \in {"none", "waited"}
  BY DEF Waiting
<1> QED
  BY <1>1, <1>2, StoreStep DEF StoreWait, Working

LEMMA StoreEventWaitCore ==
    ASSUME CoreInv, NEW t \in Threads, StoreEventWait(t)
    PROVE  CoreInv'
<1>1. Doing(t).type \notin Loops
  BY DEF StoreEventWait, Loops
<1>2. "waiting_event" \in Waiting /\ "none" \in {"none", "waited"}
  BY DEF Waiting
<1> QED
  BY <1>1, <1>2, StoreStep DEF StoreEventWait, Working

LEMMA StoreApprovalCore ==
    ASSUME CoreInv, NEW t \in Threads, StoreApproval(t)
    PROVE  CoreInv'
<1>1. Doing(t).type \notin Loops /\ Doing(t).type # "await_event"
  BY DEF StoreApproval, MayAct, NeedsApproval, Loops
<1>2. "waiting_approval" \in Waiting /\ "none" \in {"none", "waited"}
  BY DEF Waiting
<1> QED
  BY <1>1, <1>2, StoreStep DEF StoreApproval, Working

-----------------------------------------------------------------------------
(* The end of a run.                                                       *)

AfterEnd(th) == [th EXCEPT !.doing = "finish", !.pending = {}]

LEMMA AfterEndIs ==
    ASSUME NEW th, DOMAIN th = Worker1, NEW new, new = AfterEnd(th)
    PROVE  /\ DOMAIN new = Worker1 /\ new.run = th.run
           /\ new.doing = "finish" /\ new.entered = th.entered
           /\ new.approved = th.approved
<1>. DEFINE a == [th EXCEPT !.doing = "finish"]
            b == [a EXCEPT !.pending = {}]
<1>0. /\ Worker1 = {"doing", "run", "entered", "at", "resume", "approved",
                    "pending"}
      /\ new = b
  BY WorkerFieldsAre DEF AfterEnd
<1>1. /\ DOMAIN a = DOMAIN th /\ a.doing = "finish" /\ a.run = th.run
      /\ a.entered = th.entered /\ a.approved = th.approved
  BY <1>0
<1>. HIDE DEF a
<1>2. /\ DOMAIN b = DOMAIN th /\ b.doing = "finish" /\ b.run = th.run
      /\ b.entered = th.entered /\ b.approved = th.approved
  BY <1>0, <1>1
<1>. HIDE DEF b
<1> QED
  BY <1>0, <1>2

EndedRow(row, q) ==
    /\ DOMAIN q = DOMAIN row /\ q.status = row.status /\ q.wait = <<>>
    /\ q.retry = NoRetry /\ q.attempts = row.attempts
    /\ q.slot = row.slot /\ q.build = row.build

LEMMA EndedRowIs ==
    ASSUME Frame, NEW r \in Runs, RowFields(graph, run[r]),
           run' = [run EXCEPT ![r].retry = NoRetry, ![r].wait = <<>>]
    PROVE  /\ DOMAIN run' = Runs /\ EndedRow(run[r], run'[r])
           /\ \A q \in Runs : q # r => run'[q] = run[q]
<1>. DEFINE none == NoRetry
<1>. HIDE DEF none
<1>. DEFINE a == [run EXCEPT ![r].retry = none]
            b == [a EXCEPT ![r].wait = <<>>]
<1>0. /\ DOMAIN run = Runs /\ run' = b
      /\ DOMAIN run[r] = {"status", "slot", "wait", "retry", "attempts",
                          "build"}
  BY DEF Frame, RowFields, Row, none
<1>1. /\ DOMAIN a = Runs /\ DOMAIN a[r] = DOMAIN run[r]
      /\ a[r].status = run[r].status /\ a[r].retry = none
      /\ a[r].attempts = run[r].attempts
      /\ a[r].slot = run[r].slot /\ a[r].build = run[r].build
      /\ \A q \in Runs : q # r => a[q] = run[q]
  BY <1>0
<1>. HIDE DEF a
<1>2. /\ DOMAIN b = Runs /\ DOMAIN b[r] = DOMAIN run[r]
      /\ b[r].status = run[r].status /\ b[r].retry = none
      /\ b[r].attempts = run[r].attempts /\ b[r].wait = <<>>
      /\ b[r].slot = run[r].slot /\ b[r].build = run[r].build
      /\ \A q \in Runs : q # r => b[q] = run[q]
  BY <1>0, <1>1
<1>. HIDE DEF b
<1> QED
  BY <1>0, <1>2 DEF EndedRow, none

LEMMA EndedFields ==
    ASSUME NEW g, NEW row, RowFields(g, row), NEW q, EndedRow(row, q)
    PROVE  RowFields(g, q)
<1>1. /\ q.status \in RunStatuses /\ q.wait = <<>> /\ q.retry = NoRetry
      /\ q.attempts \in Nat /\ DOMAIN q = DOMAIN Row
  BY DEF RowFields, EndedRow
<1>2. /\ q.retry.at = <<>> /\ q.retry.safe \in BOOLEAN
      /\ DOMAIN q.retry = DOMAIN NoRetry
  BY <1>1, NoRetryIs
<1>3. \A x \in {q.wait, q.retry.at} : x # <<>> => IsPlace(g, x) /\ Unmarked(x)
  BY <1>1, <1>2
<1> QED
  BY <1>1, <1>2, <1>3 DEF RowFields

LEMMA AllInTurn ==
    ASSUME NEW g, NEW done, Shown(g, done, <<>>)
    PROVE  InTurn(g, done)
  BY DEF Shown, InTurn, Past, DueIn

LEMMA StepEndsCore ==
    ASSUME CoreInv, NEW t \in Threads, StepEnds(t)
    PROVE  CoreInv'
<1>1. PICK th : th = thread[t]
  OBVIOUS
<1>2. PICK r : r = th.run
  OBVIOUS
<1>. DEFINE new == AfterEnd(th)
<1>3. /\ r \in Runs /\ r = Current(t) /\ Worker(th) /\ GoodGraph(graph)
      /\ Executes(graph, th, run[r], took[r], Ears(r), request[r])
      /\ Placed(graph, th) /\ Pending(graph, th)
      /\ Walks(graph, th, took[r])
      /\ DOMAIN th = Worker1 /\ th.doing = "node" /\ th.at = <<>>
      /\ Effects(graph, took[r], Ears(r), request[r])
      /\ RowFields(graph, run[r])
      /\ ~th.entered /\ th.approved # <<>> =>
            request[r][th.approved] \in Approvals
      /\ th.approved \in Scopes \cup {<<>>} /\ Scopes = Leaves(graph)
  BY <1>1, <1>2, Walked DEF StepEnds
<1>4. /\ run' = [run EXCEPT ![r].retry = NoRetry, ![r].wait = <<>>]
      /\ took' = Committed(t) /\ Become(t, new)
      /\ UNCHANGED <<config, request, heard, orphaned, upsets>>
  BY <1>1, <1>3 DEF StepEnds, AfterEnd
<1>. HIDE DEF new
<1>5. /\ DOMAIN new = Worker1 /\ new.run = r /\ new.doing = "finish"
      /\ new.entered = th.entered /\ new.approved = th.approved
  BY <1>2, <1>3, AfterEndIs DEF new
<1>6. ~th.entered /\ th.resume = <<>> /\ Aim(th) = <<>>
  BY <1>3 DEF Placed, Aim
<1>7. run[r].status = "running"
  BY <1>3, <1>6 DEF Executes
<1>8. /\ DOMAIN run' = Runs /\ EndedRow(run[r], run'[r])
      /\ \A q \in Runs : q # r => run'[q] = run[q]
  BY <1>3, <1>4, EndedRowIs DEF CoreInv
<1>9. /\ RowFields(graph, run'[r]) /\ run'[r].status = "running"
      /\ run'[r].slot = run[r].slot /\ run'[r].build = run[r].build
  BY <1>3, <1>7, <1>8, EndedFields DEF EndedRow
<1>10. PICK done : done = Done2(graph, th, took[r])
  OBVIOUS
<1>11. /\ DOMAIN took' = Runs /\ took'[r] = done
       /\ \A q \in Runs : q # r => took'[q] = took[q]
  BY <1>1, <1>2, <1>3, <1>4, <1>10, CommittedIs DEF CoreInv
<1>12. took[r] \in [Leaves(graph) -> Nat]
  BY <1>3 DEF Effects
<1>13. Shown(graph, done, <<>>)
  BY <1>3, <1>6, <1>10, <1>12, CommitIs
<1>14. InTurn(graph, done)
  BY <1>13, AllInTurn
<1>15. Effects(graph, done, Ears(r), request[r])
  <2>. DEFINE more == {}
  <2>1. \A s \in more : /\ s \in Leaves(graph)
                        /\ NodeAt(graph, Path(s)).type = "await_event"
    OBVIOUS
  <2>2. Ears(r) \cup more = Ears(r)
    OBVIOUS
  <2>. HIDE DEF more
  <2>3. Effects(graph, done, Ears(r) \cup more, request[r])
    BY <1>3, <1>10, <1>14, <2>1, CommitEffects
  <2> QED
    BY <2>2, <2>3
<1>16. /\ Ears(r)' = Ears(r) /\ graph' = graph
       /\ request'[r] = request[r]
  BY <1>4 DEF Ears, Scopes, config
<1>17. Local(t, r) /\ thread'[t] = new
  <2>1. run[r].slot \in 0..slot /\ run[r].build \in 0..build
    BY <1>3 DEF CoreInv, Frame
  <2> QED
    BY <1>3, <1>4, <1>8, <1>9, <1>11, <2>1, BecomeIs, UpsetIs
    DEF CoreInv, Local, config, Frame
<1>18. RowOk(r)'
  <2>1. Rests(graph, run'[r], done, Ears(r))
    BY <1>9, RunningRests
  <2>2. /\ RowFields(graph', run'[r])
        /\ Rests(graph', run'[r], took'[r], Ears(r)')
        /\ Effects(graph', took'[r], Ears(r)', request'[r])
    BY <1>9, <1>11, <1>15, <1>16, <2>1
  <2> QED
    BY <2>2 DEF RowOk
<1>19. Executes(graph, new, run'[r], done, Ears(r), request[r])
  <2>1. WorkerFields(graph, new)
    <3>1. WorkerFields(graph, th)
      BY <1>3 DEF Executes
    <3>2. new.entered \in BOOLEAN /\ ~new.entered
      BY <1>5, <1>6, <3>1 DEF WorkerFields
    <3> QED
      BY <1>3, <1>5, <3>2 DEF WorkerFields, Worker1
  <2>2. Ends(graph, new, run'[r], done, Ears(r)) /\ ~Walker(new)
    BY <1>5, <1>13 DEF Ends, Walker
  <2> QED
    BY <1>3, <1>5, <1>6, <1>9, <2>1, <2>2 DEF Executes
<1>20. Executes(graph, new, run'[r], took'[r], Ears(r)', request'[r])
  BY <1>11, <1>16, <1>19
<1>21. Worker(new)
  BY <1>5 DEF Worker
<1> QED
  BY <1>1, <1>3, <1>5, <1>17, <1>18, <1>20, <1>21, WorkerStep

\* A run that is over: its status changes.
LEMMA StatusIs ==
    ASSUME Frame, NEW r \in Runs, RowFields(graph, run[r]),
           NEW stat \in RunStatuses,
           run' = [run EXCEPT ![r].status = stat]
    PROVE  /\ DOMAIN run' = Runs /\ RowFields(graph, run'[r])
           /\ run'[r].status = stat /\ run'[r].retry = run[r].retry
           /\ run'[r].slot = run[r].slot /\ run'[r].build = run[r].build
           /\ \A q \in Runs : q # r => run'[q] = run[q]
<1>0. /\ DOMAIN run = Runs
      /\ DOMAIN run[r] = {"status", "slot", "wait", "retry", "attempts",
                          "build"}
  BY DEF Frame, RowFields, Row
<1>1. /\ DOMAIN run' = Runs /\ DOMAIN run'[r] = DOMAIN run[r]
      /\ run'[r].status = stat /\ run'[r].retry = run[r].retry
      /\ run'[r].wait = run[r].wait /\ run'[r].attempts = run[r].attempts
      /\ run'[r].slot = run[r].slot /\ run'[r].build = run[r].build
      /\ \A q \in Runs : q # r => run'[q] = run[q]
  BY <1>0
<1>2. PICK row : row = run[r]
  OBVIOUS
<1>3. PICK q : q = run'[r]
  OBVIOUS
<1>4. /\ RowFields(graph, row) /\ DOMAIN q = DOMAIN row
      /\ q.status = stat /\ q.retry = row.retry /\ q.wait = row.wait
      /\ q.attempts = row.attempts
  BY <1>1, <1>2, <1>3
<1>5. \A x \in {q.wait, q.retry.at} :
         x # <<>> => IsPlace(graph, x) /\ Unmarked(x)
  BY <1>4 DEF RowFields
<1>6. DOMAIN q.retry = DOMAIN NoRetry /\ q.retry.safe \in BOOLEAN
  BY <1>4 DEF RowFields
<1>7. RowFields(graph, q)
  BY <1>4, <1>5, <1>6 DEF RowFields
<1> QED
  BY <1>1, <1>3, <1>7

LEMMA OverStep ==
    ASSUME CoreInv, NEW t \in Threads, NEW r, r = Current(t),
           Worker(thread[t]), NEW stat \in RunStatuses,
           run' = [run EXCEPT ![r].status = stat],
           NEW outcome \in Outcomes, EndsIn(t, outcome),
           UNCHANGED <<config, request, history>>,
           \A q : q.status = stat /\ q.retry = run[r].retry =>
                     Rests(graph, q, took[r], Ears(r))
    PROVE  CoreInv'
<1>1. r \in Runs /\ RowOk(r)
  BY AtWork
<1>2. /\ DOMAIN run' = Runs /\ RowFields(graph, run'[r])
      /\ run'[r].status = stat /\ run'[r].retry = run[r].retry
      /\ run'[r].slot = run[r].slot /\ run'[r].build = run[r].build
      /\ \A q \in Runs : q # r => run'[q] = run[q]
  BY <1>1, StatusIs DEF CoreInv, RowOk
<1>3. run[r].slot \in 0..slot /\ run[r].build \in 0..build
  BY <1>1 DEF CoreInv, Frame
<1>4. DOMAIN request' = Runs
  BY DEF CoreInv, Frame
<1>5. Effects(graph, took[r], Ears(r), request'[r])
  BY <1>1 DEF RowOk
<1>6. Rests(graph, run'[r], took[r], Ears(r))
  BY <1>2
<1> QED
  BY <1>1, <1>2, <1>3, <1>4, <1>5, <1>6, LeaveStep

LEMMA SucceedCore ==
    ASSUME CoreInv, NEW t \in Threads, Succeed(t)
    PROVE  CoreInv'
<1>1. PICK r : r = Current(t)
  OBVIOUS
<1>2. Worker(thread[t]) /\ thread[t].doing = "finish"
  BY DEF Succeed, Worker
<1>3. Shown(graph, took[r], <<>>)
  BY <1>1, <1>2, AtWork DEF Executes, Ends
<1>4. \A q : q.status = "success" /\ q.retry = run[r].retry =>
                Rests(graph, q, took[r], Ears(r))
  BY <1>3 DEF Rests, Waiting
<1>5. "confirmed" \in Outcomes /\ "success" \in RunStatuses
  BY DEF Outcomes, RunStatuses
<1> QED
  BY <1>1, <1>2, <1>4, <1>5, OverStep DEF Succeed

LEMMA StoreFailedCore ==
    ASSUME CoreInv, NEW t \in Threads, StoreFailed(t)
    PROVE  CoreInv'
<1>1. PICK r : r = Current(t)
  OBVIOUS
<1>2. Worker(thread[t]) /\ thread[t].doing = "fail"
  BY DEF StoreFailed, Worker
<1>3. PICK stat : stat = IF RetryPlanned(run[r]) THEN "waiting_retry"
                         ELSE "failed"
  OBVIOUS
<1>4. run[r].retry.safe => /\ run[r].retry.at # <<>>
                           /\ Shown(graph, took[r], run[r].retry.at)
                           /\ HeardBefore(graph, Ears(r), run[r].retry.at)
  BY <1>1, <1>2, AtWork DEF Executes, Ends
<1>5. /\ stat \in {"waiting_retry", "failed"}
      /\ stat = "waiting_retry" => run[r].retry.safe
  BY <1>3 DEF RetryPlanned
<1>6. \A q : q.status = stat /\ q.retry = run[r].retry =>
                Rests(graph, q, took[r], Ears(r))
  <2> SUFFICES ASSUME NEW q, q.status = stat, q.retry = run[r].retry
               PROVE  Rests(graph, q, took[r], Ears(r))
    OBVIOUS
  <2>1. q.retry.safe <=> run[r].retry.safe
    OBVIOUS
  <2> QED
    BY <1>4, <1>5, <2>1 DEF Rests, Waiting
<1>7. /\ "approval_execution_failed" \in Outcomes /\ stat \in RunStatuses
  BY <1>5 DEF Outcomes, RunStatuses
<1>8. /\ run' = [run EXCEPT ![r].status = stat]
      /\ EndsIn(t, "approval_execution_failed")
      /\ UNCHANGED <<config, request, history>>
  BY <1>1, <1>3 DEF StoreFailed
<1> QED
  BY <1>1, <1>2, <1>6, <1>7, <1>8, OverStep

-----------------------------------------------------------------------------
(* The slots.                                                              *)

LEMMA InitSlotted ==
    ASSUME Init
    PROVE  Slotted
<1>1. Existing = {}
  BY DEF Init, Existing, Row
<1>2. \A t \in Threads : thread[t].doing # "create"
  BY IdleIs DEF Init
<1> QED
  BY <1>1, <1>2 DEF Slotted

\* A step that numbers no row and begins none.
SameRows ==
    \A r \in Runs : /\ run'[r].slot = run[r].slot
                    /\ run'[r].status = "none" <=> run[r].status = "none"
NoneBegins ==
    \A t \in Threads : thread'[t].doing = "create" => thread'[t] = thread[t]

LEMMA SlottedKept ==
    ASSUME Slotted, SameRows, NoneBegins, scheduled' = scheduled
    PROVE  Slotted'
<1>1. Existing' = Existing /\ Existing \subseteq Runs
  BY DEF SameRows, Existing
<1>2. \A r \in Existing : run'[r].slot = run[r].slot
  BY <1>1 DEF SameRows
<1>3. \A r, q \in Runs : r < q /\ q \in Existing' => r \in Existing'
  BY <1>1 DEF Slotted
<1>4. ASSUME scheduled'
      PROVE  /\ \A r, q \in Existing' : r < q => run'[r].slot < run'[q].slot
             /\ \A t, u \in Threads :
                   thread'[t].doing = "create" /\ thread'[u].doing = "create"
                      => t = u
             /\ \A t \in Threads : thread'[t].doing = "create" =>
                   /\ thread'[t].slot # 0
                   /\ \A r \in Existing' : run'[r].slot < thread'[t].slot
  BY <1>1, <1>2, <1>4 DEF Slotted, NoneBegins
<1> QED
  BY <1>3, <1>4 DEF Slotted

LEMMA TurnsTo ==
    ASSUME Frame, NEW t \in Threads, NEW new, Become(t, new),
           new.doing # "create"
    PROVE  NoneBegins
  BY BecomeIs DEF NoneBegins

LEMMA RowsSame ==
    ASSUME UNCHANGED run
    PROVE  SameRows
  BY DEF SameRows

LEMMA EndsInBegins ==
    ASSUME Frame, NEW t \in Threads, NEW outcome, EndsIn(t, outcome)
    PROVE  NoneBegins
<1>1. CASE thread[t].approved = <<>>
  BY <1>1, TurnsTo, IdleIs DEF EndsIn
<1>2. CASE thread[t].approved # <<>>
  <2>. DEFINE new == [doing |-> "answer", run |-> Current(t),
                      scope |-> thread[t].approved, outcome |-> outcome]
  <2>1. Become(t, new) /\ new.doing # "create"
    BY <1>2 DEF EndsIn
  <2>. HIDE DEF new
  <2> QED
    BY <2>1, TurnsTo
<1> QED
  BY <1>1, <1>2

LEMMA WorkerIs ==
    ASSUME CoreInv, NEW t \in Threads, Worker(thread[t])
    PROVE  DOMAIN thread[t] = Worker1
  BY AtWork DEF Executes, WorkerFields, Worker1

LEMMA OutputBegins ==
    ASSUME CoreInv, NEW t \in Threads, thread[t].doing = "work",
           NEW worked, HasOutput(t, worked)
    PROVE  NoneBegins
<1>. DEFINE W == IF worked THEN {Here(t)} ELSE {}
            q == Onward(graph, thread[t].at)
            new == AfterOutput(thread[t], q, W)
<1>1. Become(t, new)
  BY DEF HasOutput, AfterOutput
<1>2. DOMAIN thread[t] = Worker1
  BY WorkerIs DEF Worker
<1>3. new.doing = "node"
  <2>. HIDE DEF W, q
  <2>1. new = AfterOutput(thread[t], q, W)
    OBVIOUS
  <2>. HIDE DEF new
  <2>2. Moved(thread[t], new, q, thread[t].pending \cup W)
    BY <1>2, <2>1, AfterOutputIs
  <2> QED
    BY <2>2 DEF Moved
<1>. HIDE DEF new
<1> QED
  BY <1>1, <1>3, TurnsTo DEF CoreInv

LEMMA FailBegins ==
    ASSUME CoreInv, NEW t \in Threads, thread[t].doing = "work", Fail(t)
    PROVE  NoneBegins
<1>. DEFINE new == AfterFail(thread[t])
<1>1. Become(t, new)
  BY DEF Fail, AfterFail
<1>2. DOMAIN thread[t] = Worker1
  BY WorkerIs DEF Worker
<1>3. new.doing = "fail"
  BY <1>2, AfterFailIs
<1>. HIDE DEF new
<1> QED
  BY <1>1, <1>3, TurnsTo DEF CoreInv

LEMMA ExecutingBegins ==
    ASSUME Frame, NEW t \in Threads, NEW r, NEW c, NEW e, NEW a,
           Become(t, Executing(r, c, e, a))
    PROVE  NoneBegins
<1>. DEFINE new == Executing(r, c, e, a)
<1>1. new.doing = "node"
  BY DEF Executing
<1>. HIDE DEF new
<1> QED
  BY <1>1, TurnsTo DEF new

-----------------------------------------------------------------------------
(* Who begins a run, and creates its row.                                  *)

LEMMA LookAtSlotSlotted ==
    ASSUME Frame, Slotted, NEW t \in Threads, LookAtSlot(t)
    PROVE  Slotted'
<1>. DEFINE new == [doing |-> "create", slot |-> slot]
<1>1. /\ thread[t] = Idle /\ scheduled /\ ~ScheduleLocked
      /\ ~SlotRecorded(slot) /\ Become(t, new)
      /\ UNCHANGED <<config, run, request, history>>
  BY DEF LookAtSlot
<1>2. new.doing = "create" /\ new.slot = slot
  OBVIOUS
<1>. HIDE DEF new
<1>3. /\ thread'[t] = new
      /\ \A u \in Threads : u # t => thread'[u] = thread[u]
  BY <1>1, BecomeIs
<1>4. /\ Existing' = Existing /\ run' = run /\ scheduled' = scheduled
  BY <1>1 DEF Existing, config
<1>5. \A u \in Threads : thread[u].doing # "create"
  BY <1>1 DEF ScheduleLocked, Slotted
<1>6. slot \in Nat /\ slot # 0
  BY DEF Frame
<1>7. ASSUME NEW r \in Existing
      PROVE  run[r].slot < slot
  <2>. DEFINE n == Cardinality(Existing)
  <2>1. /\ Existing = 1..n /\ n \in 0..MaxRuns /\ Existing \subseteq Runs
    BY NextRow
  <2>2. Recent \in Nat /\ Recent > 0 /\ MaxRuns \in Nat
    BY RunsAssumption
  <2>. HIDE DEF n
  <2>3. n \in Existing /\ n > n - Recent /\ r \in 1..n
    BY <2>1, <2>2
  <2>4. run[n].slot # slot
    BY <1>1, <2>3 DEF SlotRecorded, n
  <2>5. run[n].slot \in 0..slot /\ run[r].slot \in 0..slot
    BY <2>1, <2>3 DEF Frame
  <2>6. run[n].slot < slot
    BY <1>6, <2>4, <2>5
  <2>7. r < n => run[r].slot < run[n].slot
    BY <1>1, <2>3 DEF Slotted
  <2>8. r = n \/ r < n
    BY <2>3
  <2> QED
    BY <1>6, <2>5, <2>6, <2>7, <2>8
<1>8. /\ \A r, q \in Runs : r < q /\ q \in Existing' => r \in Existing'
      /\ \A r, q \in Existing' : r < q => run'[r].slot < run'[q].slot
  BY <1>1, <1>4 DEF Slotted
<1>9. /\ \A v, u \in Threads :
            thread'[v].doing = "create" /\ thread'[u].doing = "create"
               => v = u
      /\ \A v \in Threads : thread'[v].doing = "create" => v = t
  BY <1>3, <1>5
<1>10. /\ thread'[t].slot # 0
       /\ \A r \in Existing' : run'[r].slot < thread'[t].slot
  BY <1>2, <1>3, <1>4, <1>6, <1>7
<1> QED
  BY <1>8, <1>9, <1>10 DEF Slotted

LEMMA RunByHandSlotted ==
    ASSUME Frame, Slotted, NEW t \in Threads, RunByHand(t)
    PROVE  Slotted'
<1>1. Existing' = Existing /\ ~scheduled'
  BY DEF RunByHand, Existing, config
<1> QED
  BY <1>1 DEF Slotted

LEMMA CreateSlotted ==
    ASSUME CoreInv, Slotted, NEW t \in Threads, Create(t)
    PROVE  Slotted'
<1>1. CASE Become(t, Idle) /\ UNCHANGED run
  <2>1. NoneBegins /\ SameRows
    BY <1>1, IdleIs, TurnsTo, RowsSame DEF CoreInv
  <2> QED
    BY <2>1, SlottedKept DEF Create, config
<1>2. ASSUME NEW r \in Runs, r = Cardinality(Existing) + 1,
             run' = [run EXCEPT ![r] = [Row EXCEPT !.status = "running",
                                            !.slot = thread[t].slot,
                                            !.build = build]],
             Become(t, Executing(r, <<>>, FALSE, <<>>))
      PROVE  Slotted'
  <2>. DEFINE n == Cardinality(Existing)
              row == [Row EXCEPT !.status = "running", !.slot = thread[t].slot,
                                 !.build = build]
  <2>1. row.status = "running" /\ row.slot = thread[t].slot
    BY DEF Row
  <2>2. run' = [run EXCEPT ![r] = row]
    BY <1>2
  <2>. HIDE DEF row
  <2>3. /\ run'[r] = row
        /\ \A q \in Runs : q # r => run'[q] = run[q]
    BY <2>2 DEF CoreInv, Frame
  <2>4. Existing = 1..n /\ n \in 0..MaxRuns /\ MaxRuns \in Nat
    BY NextRow, RunsAssumption
  <2>. HIDE DEF n
  <2>5. r = n + 1
    BY <1>2 DEF n
  <2>6. Existing' = Existing \cup {r}
    BY <2>1, <2>3 DEF Existing
  <2>7. \A p, q \in Runs : p < q /\ q \in Existing' => p \in Existing'
    BY <2>4, <2>5, <2>6 DEF Runs
  <2>8. NoneBegins /\ thread'[t].doing = "node" /\ thread[t].doing = "create"
    <3>1. NoneBegins
      BY <1>2, ExecutingBegins DEF CoreInv
    <3>2. thread'[t].doing = "node"
      <4>. DEFINE new == Executing(r, <<>>, FALSE, <<>>)
      <4>1. new.doing = "node"
        BY DEF Executing
      <4>. HIDE DEF new
      <4>2. thread'[t] = new
        BY <1>2, BecomeIs DEF CoreInv, new
      <4> QED
        BY <4>1, <4>2
    <3> QED
      BY <3>1, <3>2 DEF Create
  <2>9. ASSUME scheduled'
        PROVE  /\ \A p, q \in Existing' :
                     p < q => run'[p].slot < run'[q].slot
               /\ \A u \in Threads : thread'[u].doing # "create"
    <3>1. scheduled
      BY <2>9 DEF Create, config
    <3>2. \A u \in Threads : thread'[u].doing # "create"
      BY <2>8, <3>1 DEF NoneBegins, Slotted
    <3>3. \A p \in Existing : /\ run[p].slot < thread[t].slot
                              /\ run'[p] = run[p] /\ p < r
      <4>1. \A p \in Existing : p \in Runs /\ p < r /\ p # r
        BY <2>4, <2>5 DEF Runs
      <4> QED
        BY <2>3, <2>8, <3>1, <4>1 DEF Slotted
    <3>4. ASSUME NEW p \in Existing', NEW q \in Existing', p < q
          PROVE  run'[p].slot < run'[q].slot
      <4>1. CASE q = r
        <5>1. p \in Existing
          BY <2>4, <2>5, <2>6, <3>4, <4>1
        <5> QED
          BY <2>1, <2>3, <3>3, <4>1, <5>1
      <4>2. CASE q \in Existing
        <5>1. p \in Existing
          BY <2>4, <2>5, <2>6, <3>4, <4>2
        <5> QED
          BY <3>1, <3>3, <3>4, <4>2, <5>1 DEF Slotted
      <4> QED
        BY <2>6, <4>1, <4>2
    <3> QED
      BY <3>2, <3>4
  <2> QED
    BY <2>7, <2>9 DEF Slotted
<1> QED
  BY <1>1, <1>2 DEF Create

-----------------------------------------------------------------------------
(* The other steps.                                                        *)

\* The row of a worker has a number already.
LEMMA WorkerHasRow ==
    ASSUME CoreInv, NEW t \in Threads, Worker(thread[t])
    PROVE  /\ Current(t) \in Runs /\ run[Current(t)].status # "none"
           /\ RowFields(graph, run[Current(t)]) /\ Frame
<1>1. PICK r : r = Current(t)
  OBVIOUS
<1>2. /\ r \in Runs /\ RowOk(r)
      /\ Executes(graph, thread[t], run[r], took[r], Ears(r), request[r])
  BY <1>1, AtWork
<1>3. run[r].status # "none"
  BY <1>2 DEF Executes, Waiting
<1> QED
  BY <1>1, <1>2, <1>3 DEF RowOk, CoreInv

LEMMA OneRowSame ==
    ASSUME NEW r \in Runs, run'[r].slot = run[r].slot,
           run'[r].status # "none", run[r].status # "none",
           \A q \in Runs : q # r => run'[q] = run[q]
    PROVE  SameRows
  BY DEF SameRows

LEMMA LooksSlotted ==
    ASSUME Frame, Slotted, NEW t \in Threads, NEW r \in Runs, Look(t, r)
    PROVE  Slotted'
<1>. DEFINE new == [doing |-> "look", run |-> r, saw |-> run[r].status]
<1>1. Become(t, new) /\ new.doing # "create"
  BY DEF Look
<1>. HIDE DEF new
<1>2. NoneBegins /\ SameRows
  BY <1>1, TurnsTo, RowsSame DEF Look
<1> QED
  BY <1>2, SlottedKept DEF Look, config

LEMMA IdlesSlotted ==
    ASSUME Frame, Slotted, NEW t \in Threads, Become(t, Idle),
           UNCHANGED run, scheduled' = scheduled
    PROVE  Slotted'
  BY IdleIs, TurnsTo, RowsSame, SlottedKept

LEMMA ResumesSlotted ==
    ASSUME Frame, Slotted, NEW t \in Threads,
           NEW r, NEW c, NEW e, NEW a, Become(t, Executing(r, c, e, a)),
           UNCHANGED run, scheduled' = scheduled
    PROVE  Slotted'
  BY ExecutingBegins, RowsSame, SlottedKept

LEMMA RetrySlotted ==
    ASSUME CoreInv, Slotted, NEW t \in Threads, NEW r \in Runs,
           run[r].status # "none", retry_failed(t, r), scheduled' = scheduled
    PROVE  Slotted'
<1>1. RowFields(graph, run[r]) /\ Frame
  BY DEF CoreInv, Rows, RowOk
<1>2. /\ RetriedRow(run[r], run'[r])
      /\ \A q \in Runs : q # r => run'[q] = run[q]
  BY <1>1, RetriedRowIs DEF retry_failed
<1>3. SameRows
  BY <1>2, OneRowSame DEF RetriedRow
<1>4. NoneBegins
  BY <1>1, ExecutingBegins DEF retry_failed
<1> QED
  BY <1>3, <1>4, SlottedKept

LEMMA RejectSlotted ==
    ASSUME CoreInv, Slotted, NEW r \in Runs, NEW s \in Scopes, Reject(r, s)
    PROVE  Slotted'
<1>1. UNCHANGED <<config, thread>>
  BY DEF Reject
<1>2. NoneBegins /\ scheduled' = scheduled
  BY <1>1 DEF NoneBegins, config
<1>3. SameRows
  <2>1. CASE run[r].status = "waiting_approval"
    <3>1. run' = [run EXCEPT ![r].status = "rejected"]
      BY <2>1 DEF Reject
    <3>2. RowFields(graph, run[r]) /\ Frame /\ "rejected" \in RunStatuses
      BY DEF CoreInv, Rows, RowOk, RunStatuses
    <3>3. /\ run'[r].slot = run[r].slot /\ run'[r].status = "rejected"
          /\ \A q \in Runs : q # r => run'[q] = run[q]
      BY <3>1, <3>2, StatusIs
    <3> QED
      BY <2>1, <3>3, OneRowSame
  <2>2. CASE run[r].status # "waiting_approval"
    BY <2>2, RowsSame DEF Reject
  <2> QED
    BY <2>1, <2>2
<1> QED
  BY <1>2, <1>3, SlottedKept

LEMMA PersistSlotted ==
    ASSUME CoreInv, Slotted, NEW t \in Threads, Persist(t)
    PROVE  Slotted'
<1>1. PICK r : r = Current(t)
  OBVIOUS
<1>2. PICK th : th = thread[t]
  OBVIOUS
<1>3. Worker(thread[t]) /\ thread[t].doing = "node"
  BY DEF Persist, Worker
<1>4. /\ r \in Runs /\ run[r].status # "none" /\ Frame
      /\ RowFields(graph, run[r]) /\ DOMAIN th = Worker1
  BY <1>1, <1>2, <1>3, WorkerHasRow, WorkerIs
<1>. DEFINE c == Checkpoint(thread[t].at, "none")
            safe == RetrySafe(Doing(t))
            new == AfterCommit(th)
<1>5. /\ run' = [run EXCEPT ![r].status = "running",
                            ![r].retry = [at |-> c, safe |-> safe]]
      /\ Become(t, new) /\ scheduled' = scheduled
  BY <1>1, <1>2 DEF Persist, AfterCommit, config
<1>6. new.doing # "create"
  BY <1>4, AfterCommitIs
<1>. HIDE DEF c, safe, new
<1>7. /\ CommittedRow(run[r], run'[r], c, safe)
      /\ \A q \in Runs : q # r => run'[q] = run[q]
  BY <1>4, <1>5, CommittedRowIs
<1>8. SameRows
  BY <1>4, <1>7, OneRowSame DEF CommittedRow
<1>9. NoneBegins
  BY <1>4, <1>5, <1>6, TurnsTo
<1> QED
  BY <1>5, <1>8, <1>9, SlottedKept

LEMMA StoreSlotted ==
    ASSUME CoreInv, Slotted, NEW t \in Threads, thread[t].doing = "work",
           NEW stat \in Waiting, NEW mark, Store(t, stat, mark),
           EndsIn(t, "confirmed"), scheduled' = scheduled
    PROVE  Slotted'
<1>1. PICK r : r = Current(t)
  OBVIOUS
<1>2. /\ r \in Runs /\ run[r].status # "none" /\ Frame
      /\ RowFields(graph, run[r])
  BY <1>1, WorkerHasRow DEF Worker
<1>. DEFINE c == Checkpoint(thread[t].at, mark)
            q == [run[r] EXCEPT !.status = stat, !.wait = c,
                       !.retry = NoRetry, !.attempts = 0, !.build = build]
<1>3. run' = [run EXCEPT ![r] = q]
  BY <1>1 DEF Store
<1>4. StoredRow(run[r], q, stat, c, build)
  <2>1. q = [run[r] EXCEPT !.status = stat, !.wait = c,
                       !.retry = NoRetry, !.attempts = 0, !.build = build]
    OBVIOUS
  <2>. HIDE DEF q, c
  <2> QED
    BY <1>2, <2>1, StoredRowIs
<1>. HIDE DEF q, c
<1>5. /\ run'[r] = q /\ \A x \in Runs : x # r => run'[x] = run[x]
  BY <1>2, <1>3 DEF Frame
<1>6. stat # "none"
  BY DEF Waiting
<1>7. SameRows
  BY <1>2, <1>4, <1>5, <1>6, OneRowSame DEF StoredRow
<1>8. NoneBegins
  BY <1>2, EndsInBegins
<1> QED
  BY <1>7, <1>8, SlottedKept

LEMMA StepEndsSlotted ==
    ASSUME CoreInv, Slotted, NEW t \in Threads, StepEnds(t)
    PROVE  Slotted'
<1>1. PICK r : r = Current(t)
  OBVIOUS
<1>2. PICK th : th = thread[t]
  OBVIOUS
<1>3. Worker(thread[t])
  BY DEF StepEnds, Worker
<1>4. /\ r \in Runs /\ run[r].status # "none" /\ Frame
      /\ RowFields(graph, run[r]) /\ DOMAIN th = Worker1
  BY <1>1, <1>2, <1>3, WorkerHasRow, WorkerIs
<1>. DEFINE new == AfterEnd(th)
<1>5. /\ run' = [run EXCEPT ![r].retry = NoRetry, ![r].wait = <<>>]
      /\ Become(t, new) /\ scheduled' = scheduled
  BY <1>1, <1>2 DEF StepEnds, AfterEnd, config
<1>6. new.doing # "create"
  BY <1>4, AfterEndIs
<1>. HIDE DEF new
<1>7. /\ EndedRow(run[r], run'[r])
      /\ \A q \in Runs : q # r => run'[q] = run[q]
  BY <1>4, <1>5, EndedRowIs
<1>8. SameRows
  BY <1>4, <1>7, OneRowSame DEF EndedRow
<1>9. NoneBegins
  BY <1>4, <1>5, <1>6, TurnsTo
<1> QED
  BY <1>5, <1>8, <1>9, SlottedKept

LEMMA OverSlotted ==
    ASSUME CoreInv, Slotted, NEW t \in Threads, Worker(thread[t]),
           NEW stat \in RunStatuses \ {"none"},
           run' = [run EXCEPT ![Current(t)].status = stat],
           NEW outcome, EndsIn(t, outcome), scheduled' = scheduled
    PROVE  Slotted'
<1>1. PICK r : r = Current(t)
  OBVIOUS
<1>2. /\ r \in Runs /\ run[r].status # "none" /\ Frame
      /\ RowFields(graph, run[r])
  BY <1>1, WorkerHasRow
<1>3. run' = [run EXCEPT ![r].status = stat]
  BY <1>1
<1>4. /\ run'[r].slot = run[r].slot /\ run'[r].status = stat
      /\ \A q \in Runs : q # r => run'[q] = run[q]
  BY <1>2, <1>3, StatusIs
<1>5. SameRows
  BY <1>2, <1>4, OneRowSame
<1>6. NoneBegins
  BY <1>2, EndsInBegins
<1> QED
  BY <1>5, <1>6, SlottedKept

LEMMA SucceedSlotted ==
    ASSUME CoreInv, Slotted, NEW t \in Threads, Succeed(t)
    PROVE  Slotted'
<1>1. "success" \in RunStatuses \ {"none"}
  BY DEF RunStatuses
<1> QED
  BY <1>1, OverSlotted DEF Succeed, Worker, config

LEMMA StoreFailedSlotted ==
    ASSUME CoreInv, Slotted, NEW t \in Threads, StoreFailed(t)
    PROVE  Slotted'
<1>1. PICK stat : stat = IF RetryPlanned(run[Current(t)])
                             THEN "waiting_retry" ELSE "failed"
  OBVIOUS
<1>2. stat \in RunStatuses \ {"none"}
  BY <1>1 DEF RunStatuses
<1>3. run' = [run EXCEPT ![Current(t)].status = stat]
  BY <1>1 DEF StoreFailed
<1> QED
  BY <1>2, <1>3, OverSlotted DEF StoreFailed, Worker, config

LEMMA EnterLoopSlotted ==
    ASSUME CoreInv, Slotted, NEW t \in Threads, EnterLoop(t)
    PROVE  Slotted'
<1>1. PICK th : th = thread[t]
  OBVIOUS
<1>2. thread[t].doing = "work" /\ UNCHANGED run /\ scheduled' = scheduled
  BY DEF EnterLoop, Working, config
<1>3. DOMAIN th = Worker1
  BY <1>1, <1>2, WorkerIs DEF Worker
<1>4. NoneBegins
  <2>. DEFINE c == ChildResume(graph, th.at, th.resume)
              q == IF Doing(t).type = "foreach"
                   THEN EnterForeach(graph, th.at, th.resume)
                   ELSE EnterRepeat(graph, th.at, th.resume)
              new == AfterLoop(th, c, q)
  <2>1. Fail(t) \/ Become(t, new)
    BY <1>1 DEF EnterLoop, AfterLoop
  <2>2. new.doing = "node"
    <3>. HIDE DEF c, q
    <3>1. new = AfterLoop(th, c, q)
      OBVIOUS
    <3>. HIDE DEF new
    <3> QED
      BY <1>3, <3>1, AfterLoopIs
  <2>. HIDE DEF new
  <2> QED
    BY <1>2, <2>1, <2>2, FailBegins, TurnsTo DEF CoreInv
<1> QED
  BY <1>2, <1>4, RowsSame, SlottedKept

LEMMA WorkSlotted ==
    ASSUME CoreInv, Slotted, NEW t \in Threads,
           \/ Skip(t) \/ Read(t) \/ Write(t) \/ CallOutside(t)
           \/ NodeFails(t) \/ WaitIsOver(t) \/ TakeEvent(t)
    PROVE  Slotted'
<1>1. thread[t].doing = "work" /\ UNCHANGED run /\ scheduled' = scheduled
  BY DEF Skip, Read, Write, CallOutside, NodeFails, WaitIsOver, TakeEvent,
         Working, config
<1>2. NoneBegins
  <2>1. CASE Skip(t) \/ Read(t) \/ WaitIsOver(t) \/ TakeEvent(t)
    <3>1. HasOutput(t, FALSE)
      BY <2>1 DEF Skip, Read, WaitIsOver, TakeEvent
    <3> QED
      BY <1>1, <3>1, OutputBegins
  <2>2. CASE Write(t)
    BY <1>1, <2>2, OutputBegins DEF Write
  <2>3. CASE CallOutside(t)
    <3>1. HasOutput(t, FALSE) \/ Fail(t)
      BY <2>3 DEF CallOutside
    <3> QED
      BY <1>1, <3>1, OutputBegins, FailBegins
  <2>4. CASE NodeFails(t)
    BY <1>1, <2>4, FailBegins DEF NodeFails
  <2> QED
    BY <2>1, <2>2, <2>3, <2>4
<1> QED
  BY <1>1, <1>2, RowsSame, SlottedKept

LEMMA LoopFailsSlotted ==
    ASSUME CoreInv, Slotted, NEW t \in Threads, LoopFails(t)
    PROVE  Slotted'
<1>1. /\ thread[t].doing = "work" /\ UNCHANGED run
      /\ scheduled' = scheduled /\ Fail(t)
  BY DEF LoopFails, Working, config
<1> QED
  BY <1>1, FailBegins, RowsSame, SlottedKept

-----------------------------------------------------------------------------
(* The invariant.                                                          *)

LEMMA StillSame ==
    ASSUME RunsInv, UNCHANGED vars
    PROVE  RunsInv'
<1>1. /\ UNCHANGED <<graph, scheduled, enabled, build, slot, run, request>>
      /\ UNCHANGED <<thread, took, heard, orphaned, upsets>>
  BY DEF vars, config, history
<1>2. Scopes' = Scopes /\ \A r : Ears(r)' = Ears(r)
  BY <1>1 DEF Scopes, Ears
<1>3. Frame'
  BY <1>1, <1>2 DEF RunsInv, Frame
<1>4. Rows'
  <2>1. ASSUME NEW r \in Runs
        PROVE  RowOk(r)'
    BY <1>1, <1>2, RowKept DEF RunsInv, Rows
  <2> QED
    BY <2>1 DEF Rows
<1>5. Staff'
  <2>1. slot \in Nat
    BY DEF RunsInv, Frame
  <2>2. ASSUME NEW t \in Threads
        PROVE  OnDuty(t)'
    <3>1. OnDuty(t)
      BY DEF RunsInv, Staff
    <3>2. ASSUME NEW r \in Runs, Engaged(t), r = Current(t),
                 ~thread[t].entered, thread[t].approved # <<>>
          PROVE  request'[r][thread[t].approved] \in Approvals
      BY <1>1, <3>2 DEF Engaged, Executes
    <3> QED
      BY <1>1, <1>2, <2>1, <3>1, <3>2, DutyKept
  <2> QED
    BY <2>2 DEF Staff
<1>6. Exclusive'
  BY <1>1 DEF RunsInv, Exclusive, Current
<1>7. Slotted'
  BY <1>1, RowsSame, SlottedKept DEF RunsInv, NoneBegins
<1> QED
  BY <1>3, <1>4, <1>5, <1>6, <1>7 DEF RunsInv

LEMMA ThreadStepKeeps ==
    ASSUME RunsInv, NEW t \in Threads, ThreadStep(t)
    PROVE  RunsInv'
<1>0. CoreInv /\ Frame /\ Slotted
  BY DEF RunsInv, CoreInv
<1>1. CASE Create(t)
  BY <1>0, <1>1, CreateCore, CreateSlotted DEF RunsInv, CoreInv
<1>2. CASE GiveUp(t)
  <2>1. Slotted'
    BY <1>0, <1>2, IdlesSlotted DEF GiveUp, config
  <2> QED
    BY <1>0, <1>2, <2>1, GiveUpCore DEF RunsInv, CoreInv
<1>3. CASE ResumeWait(t)
  <2>1. Slotted'
    BY <1>0, <1>3, ResumesSlotted DEF ResumeWait, config
  <2> QED
    BY <1>0, <1>3, <2>1, ResumeWaitCore DEF RunsInv, CoreInv
<1>4. CASE ResumeEvent(t)
  <2>1. Slotted'
    BY <1>0, <1>4, ResumesSlotted DEF ResumeEvent, config
  <2> QED
    BY <1>0, <1>4, <2>1, ResumeEventCore DEF RunsInv, CoreInv
<1>5. CASE Retry(t)
  <2>1. PICK r : r = Current(t)
    OBVIOUS
  <2>2. /\ thread[t].doing = "look" /\ thread[t].saw = "waiting_retry"
        /\ StillDue(t) /\ retry_failed(t, r) /\ scheduled' = scheduled
    BY <1>5, <2>1 DEF Retry, config
  <2>3. r \in Runs /\ run[r].status = "waiting_retry"
    BY <1>0, <2>1, <2>2, StillDueIs
  <2>4. Slotted'
    BY <1>0, <2>2, <2>3, RetrySlotted
  <2> QED
    BY <1>0, <1>5, <2>4, RetryCore DEF RunsInv, CoreInv
<1>6. CASE Persist(t)
  BY <1>0, <1>6, PersistCore, PersistSlotted DEF RunsInv, CoreInv
<1>7. CASE Skip(t)
  BY <1>0, <1>7, SkipCore, WorkSlotted DEF RunsInv, CoreInv
<1>8. CASE EnterLoop(t)
  BY <1>0, <1>8, EnterLoopCore, EnterLoopSlotted DEF RunsInv, CoreInv
<1>9. CASE Read(t)
  BY <1>0, <1>9, ReadCore, WorkSlotted DEF RunsInv, CoreInv
<1>10. CASE Write(t)
  BY <1>0, <1>10, WriteCore, WorkSlotted DEF RunsInv, CoreInv
<1>11. CASE CallOutside(t)
  BY <1>0, <1>11, CallOutsideCore, WorkSlotted DEF RunsInv, CoreInv
<1>12. CASE NodeFails(t)
  BY <1>0, <1>12, NodeFailsCore, WorkSlotted DEF RunsInv, CoreInv
<1>13. CASE WaitIsOver(t)
  BY <1>0, <1>13, WaitIsOverCore, WorkSlotted DEF RunsInv, CoreInv
<1>14. CASE TakeEvent(t)
  BY <1>0, <1>14, TakeEventCore, WorkSlotted DEF RunsInv, CoreInv
<1>15. CASE StoreWait(t)
  <2>1. "waiting_time" \in Waiting
    BY DEF Waiting
  <2>2. Slotted'
    BY <1>0, <1>15, <2>1, StoreSlotted DEF StoreWait, Working, config
  <2> QED
    BY <1>0, <1>15, <2>2, StoreWaitCore DEF RunsInv, CoreInv
<1>16. CASE StoreEventWait(t)
  <2>1. "waiting_event" \in Waiting
    BY DEF Waiting
  <2>2. Slotted'
    BY <1>0, <1>16, <2>1, StoreSlotted DEF StoreEventWait, Working, config
  <2> QED
    BY <1>0, <1>16, <2>2, StoreEventWaitCore DEF RunsInv, CoreInv
<1>17. CASE StoreApproval(t)
  <2>1. "waiting_approval" \in Waiting
    BY DEF Waiting
  <2>2. Slotted'
    BY <1>0, <1>17, <2>1, StoreSlotted DEF StoreApproval, Working, config
  <2> QED
    BY <1>0, <1>17, <2>2, StoreApprovalCore DEF RunsInv, CoreInv
<1>18. CASE StepEnds(t)
  BY <1>0, <1>18, StepEndsCore, StepEndsSlotted DEF RunsInv, CoreInv
<1>19. CASE Succeed(t)
  BY <1>0, <1>19, SucceedCore, SucceedSlotted DEF RunsInv, CoreInv
<1>20. CASE StoreFailed(t)
  BY <1>0, <1>20, StoreFailedCore, StoreFailedSlotted DEF RunsInv, CoreInv
<1>21. CASE Answer(t)
  <2>1. Slotted'
    BY <1>0, <1>21, IdlesSlotted DEF Answer, config
  <2> QED
    BY <1>0, <1>21, <2>1, AnswerCore DEF RunsInv, CoreInv
<1> QED
  BY <1>1, <1>2, <1>3, <1>4, <1>5, <1>6, <1>7, <1>8, <1>9, <1>10, <1>11,
     <1>12, <1>13, <1>14, <1>15, <1>16, <1>17, <1>18, <1>19, <1>20, <1>21
  DEF ThreadStep

LEMMA NextKeeps ==
    ASSUME RunsInv, Next
    PROVE  RunsInv'
<1>0. CoreInv /\ Frame /\ Slotted
  BY DEF RunsInv, CoreInv
<1>1. ASSUME NEW t \in Threads, LookAtSlot(t)
      PROVE  RunsInv'
  BY <1>0, <1>1, LookAtSlotCore, LookAtSlotSlotted DEF RunsInv, CoreInv
<1>2. ASSUME NEW t \in Threads, RunByHand(t)
      PROVE  RunsInv'
  BY <1>0, <1>2, RunByHandCore, RunByHandSlotted DEF RunsInv, CoreInv
<1>3. ASSUME NEW t \in Threads, Crash(t)
      PROVE  RunsInv'
  <2>1. Slotted'
    BY <1>0, <1>3, IdlesSlotted DEF Crash, config
  <2> QED
    BY <1>0, <1>3, <2>1, CrashCore DEF RunsInv, CoreInv
<1>4. ASSUME NEW t \in Threads, NEW r \in Runs, Look(t, r)
      PROVE  RunsInv'
  BY <1>0, <1>4, LookCore, LooksSlotted DEF RunsInv, CoreInv
<1>5. ASSUME NEW t \in Threads, NEW r \in Runs, RetryByHand(t, r)
      PROVE  RunsInv'
  <2>1. Slotted'
    BY <1>0, <1>5, RetrySlotted DEF RetryByHand, config
  <2> QED
    BY <1>0, <1>5, <2>1, RetryByHandCore DEF RunsInv, CoreInv
<1>6. ASSUME NEW t \in Threads, NEW r \in Runs, NEW s \in Scopes,
             Approve(t, r, s)
      PROVE  RunsInv'
  <2>1. UNCHANGED run /\ scheduled' = scheduled
    BY <1>6 DEF Approve, config
  <2>2. Slotted'
    <3>1. CASE run[r].build = build
      BY <1>0, <1>6, <2>1, <3>1, ResumesSlotted DEF Approve
    <3>2. CASE run[r].build # build
      <4>1. UNCHANGED thread
        BY <1>6, <3>2 DEF Approve
      <4> QED
        BY <1>0, <2>1, <4>1, RowsSame, SlottedKept DEF NoneBegins
    <3> QED
      BY <3>1, <3>2
  <2> QED
    BY <1>0, <1>6, <2>2, ApproveCore DEF RunsInv, CoreInv
<1>7. ASSUME NEW r \in Runs, NEW s \in Scopes, Reject(r, s)
      PROVE  RunsInv'
  BY <1>0, <1>7, RejectCore, RejectSlotted DEF RunsInv, CoreInv
<1>8. CASE NextSlot \/ Change
  <2>1. UNCHANGED <<run, thread, scheduled>>
    BY <1>8 DEF NextSlot, Change
  <2>2. Slotted'
    BY <1>0, <2>1, RowsSame, SlottedKept DEF NoneBegins
  <2> QED
    BY <1>0, <1>8, <2>2, NextSlotCore, ChangeCore DEF RunsInv, CoreInv
<1>9. ASSUME NEW t \in Threads, NEW r \in Runs,
             LookAtWaits(t, r) \/ LookAtEvents(t, r) \/ LookAtRetries(t, r)
      PROVE  RunsInv'
  BY <1>4, <1>9 DEF LookAtWaits, LookAtEvents, LookAtRetries
<1>10. ASSUME NEW t \in Threads, LoopFails(t)
       PROVE  RunsInv'
  BY <1>0, <1>10, LoopFailsCore, LoopFailsSlotted DEF RunsInv, CoreInv
<1> QED
  BY <1>1, <1>2, <1>3, <1>5, <1>6, <1>7, <1>8, <1>9, <1>10, ThreadStepKeeps
  DEF Next

\* The invariant holds in every state.
THEOREM RunsAreKept ==
    Spec => []RunsInv
<1>1. Init => RunsInv
  BY InitCore, InitSlotted DEF CoreInv, RunsInv
<1>2. RunsInv /\ [Next]_vars => RunsInv'
  BY NextKeeps, StillSame
<1> QED
  BY <1>1, <1>2, PTL DEF Spec

-----------------------------------------------------------------------------
(* What the invariant means.                                               *)

LEMMA OneRunPerSlotIs ==
    ASSUME RunsInv
    PROVE  OneRunPerSlot
<1> SUFFICES ASSUME NEW r \in Existing, NEW q \in Existing,
                    run[r].slot = run[q].slot, r # q, scheduled
             PROVE  FALSE
  BY DEF OneRunPerSlot
<1>1. r \in Runs /\ q \in Runs /\ r \in Nat /\ q \in Nat
  BY RunsAssumption DEF Existing, Runs
<1>2. run[r].slot \in Nat /\ run[q].slot \in Nat
  <2>1. slot \in Nat
    BY DEF RunsInv, Frame
  <2>2. run[r].slot \in 0..slot /\ run[q].slot \in 0..slot
    BY <1>1 DEF RunsInv, Frame
  <2> QED
    BY <2>1, <2>2
<1>3. r < q => run[r].slot < run[q].slot
  BY DEF RunsInv, Slotted
<1>4. q < r => run[q].slot < run[r].slot
  BY DEF RunsInv, Slotted
<1> QED
  BY <1>1, <1>2, <1>3, <1>4

LEMMA ApprovedFirstIs ==
    ASSUME RunsInv
    PROVE  ApprovedFirst
<1> SUFFICES ASSUME NEW r \in Runs, NEW s \in Scopes,
                    NeedsApproval(Leaf(s)), took[r][s] > 0
             PROVE  request[r][s] \in {"approved", "confirmed",
                                       "approval_execution_failed"}
  BY DEF ApprovedFirst
<1>1. Scopes = Leaves(graph)
  BY DEF RunsInv, Frame
<1>2. AskedFirst(graph, took[r], request[r])
  BY DEF RunsInv, Rows, RowOk, Effects
<1>3. request[r][s] \in Approvals
  BY <1>1, <1>2 DEF AskedFirst, Leaf
<1> QED
  BY <1>3 DEF Approvals, Outcomes

LEMMA EventEndsTheWaitIs ==
    ASSUME RunsInv
    PROVE  EventEndsTheWait
<1> SUFFICES ASSUME NEW r \in Runs, run[r].status = "waiting_event",
                    ~InRepeat(Scope(run[r].wait)),
                    <<r, Scope(run[r].wait)>> \in heard
             PROVE  FALSE
  BY DEF EventEndsTheWait
<1>. DEFINE c == run[r].wait
            s == Scope(c)
<1>1. /\ GoodGraph(graph) /\ Scopes = Leaves(graph)
      /\ heard \subseteq Runs \X Scopes
  BY DEF RunsInv, Frame
<1>2. s \in Scopes /\ s \in Ears(r)
  BY <1>1 DEF Ears
<1>3. RowOk(r)
  BY DEF RunsInv, Rows
<1>4. c # <<>> /\ HeardBefore(graph, Ears(r), c)
  <2>1. run[r].status \in Waiting
    BY DEF Waiting
  <2> QED
    BY <1>3, <2>1 DEF RowOk, Rests
<1>5. ~Repeated(graph, s)
  BY DEF InRepeat, Repeated
<1>. HIDE DEF c
<1>6. IsBefore(s, s)
  BY <1>2, <1>4, <1>5 DEF HeardBefore, Past
<1>7. Steps(s)
  <2>. HIDE DEF s
  <2>1. IsScope(graph, s)
    BY <1>1, <1>2, LeavesAreScopes
  <2> QED
    BY <2>1 DEF IsScope
<1> QED
  BY <1>6, <1>7, BeforeIrreflexive

\* Who works has what its node depends on.
LEMMA WorkHasInputs ==
    ASSUME RunsInv, NEW t \in Threads, thread[t].doing = "work"
    PROVE  HasInputs(t)
<1>. DEFINE p == thread[t].at
            n == Len(p)
<1>1. CoreInv
  BY DEF RunsInv, CoreInv
<1>2. /\ GoodGraph(graph) /\ Placed(graph, thread[t]) /\ p # <<>>
      /\ Doing(t) = NodeAt(graph, p)
  BY <1>1, Worked
<1>3. IsPlace(graph, p)
  BY <1>2 DEF Placed
<1>. HIDE DEF p
<1>4. n \in 1..n /\ NodeAt(graph, p) = NodeOn(graph, p, n)
  BY <1>3, LastLevel
<1>. DEFINE b == GraphAt(graph, p, n)
            m == p[n].node
<1>5. Body(b) /\ m \in 1..Len(b)
  BY <1>2, <1>3, <1>4, PlaceLevel
<1>6. p[n].node_outputs = {b[j].id : j \in 1..m - 1}
  BY <1>3, <1>4 DEF IsPlace
<1>7. b[m].depends_on \subseteq {b[j].id : j \in 1..m - 1}
  <2>. HIDE DEF b, m
  <2> QED
    BY <1>5 DEF Body
<1>8. Doing(t) = b[m]
  BY <1>2, <1>4 DEF NodeOn
<1> QED
  BY <1>6, <1>7, <1>8 DEF HasInputs, Inner, p

LEMMA DueIs ==
    ASSUME Scopes = Leaves(graph)
    PROVE  Due = DueIn(graph)
  BY DEF Due, DueIn, Leaf

LEMMA NodesRunOnceIs ==
    ASSUME RunsInv
    PROVE  NodesRunOnce
<1>1. Scopes = Leaves(graph)
  BY DEF RunsInv, Frame
<1>2. Due = DueIn(graph)
  BY <1>1, DueIs
<1>3. ASSUME NEW r \in Runs
      PROVE  /\ \A s \in Scopes : took[r][s] <= IF s \in Due THEN 1 ELSE 0
             /\ \A s, q \in Due :
                   IsBefore(s, q) /\ took[r][q] = 1 => took[r][s] = 1
             /\ run[r].status = "success" => \A s \in Due : took[r][s] = 1
  <2>1. RowOk(r)
    BY DEF RunsInv, Rows
  <2>2. InTurn(graph, took[r])
    BY <2>1 DEF RowOk, Effects
  <2>3. ASSUME run[r].status = "success", NEW s \in Due
        PROVE  took[r][s] = 1
    <3>1. Shown(graph, took[r], <<>>)
      BY <2>1, <2>3 DEF RowOk, Rests
    <3>2. s \in Leaves(graph) /\ s \in DueIn(graph)
      BY <1>2, <2>3 DEF DueIn
    <3>3. Past(s, <<>>)
      BY DEF Past
    <3> QED
      BY <3>1, <3>2, <3>3 DEF Shown
  <2> QED
    BY <1>1, <1>2, <2>2, <2>3 DEF InTurn
<1> QED
  BY <1>3, WorkHasInputs DEF NodesRunOnce

-----------------------------------------------------------------------------
(* The tables have the runs as their keys.                                 *)

Tabled ==
    /\ request = [r \in Runs |-> request[r]]
    /\ took = [r \in Runs |-> took[r]]

LEMMA ChangedTable ==
    ASSUME NEW S, NEW f, f = [x \in S |-> f[x]], NEW y, NEW v
    PROVE  [f EXCEPT ![y] = v] = [x \in S |-> [f EXCEPT ![y] = v][x]]
  OBVIOUS

LEMMA TabledKept ==
    ASSUME Tabled,
           \/ request' = request
           \/ \E y, v : request' = [request EXCEPT ![y] = v],
           \/ took' = took
           \/ \E y, v : took' = [took EXCEPT ![y] = v]
    PROVE  Tabled'
<1>1. request' = [r \in Runs |-> request'[r]]
  BY ChangedTable DEF Tabled
<1>2. took' = [r \in Runs |-> took'[r]]
  BY ChangedTable DEF Tabled
<1> QED
  BY <1>1, <1>2 DEF Tabled

\* One run at a time has its part of a table changed.
Changed(f, g) == \E y, v : g = [f EXCEPT ![y] = v]

LEMMA EntryChanged ==
    ASSUME NEW f, NEW g, NEW r, NEW s, NEW v, g = [f EXCEPT ![r][s] = v]
    PROVE  Changed(f, g)
<1>1. g = [f EXCEPT ![r] = [f[r] EXCEPT ![s] = v]]
  OBVIOUS
<1> QED
  BY <1>1 DEF Changed

LEMMA CommittedChanges ==
    ASSUME NEW t
    PROVE  Changed(took, Committed(t))
  BY DEF Committed, Changed

LEMMA ThreadStepTabled ==
    ASSUME Tabled, NEW t, ThreadStep(t)
    PROVE  Tabled'
<1>1. request' = request \/ Changed(request, request')
  <2>1. CASE Persist(t)
    <3>1. PICK r, s : request' = IF thread[t].entered /\ s # <<>>
                        THEN [request EXCEPT ![r][s] = "approved"]
                        ELSE request
      BY <2>1 DEF Persist
    <3> QED
      BY <3>1, EntryChanged
  <2>2. CASE StoreApproval(t)
    <3>1. PICK r, s : request' =
                         [request EXCEPT ![r][s] = "awaiting_confirmation"]
      BY <2>2 DEF StoreApproval
    <3> QED
      BY <3>1, EntryChanged
  <2>3. CASE Answer(t)
    <3>1. PICK r, s, v : request' = [request EXCEPT ![r][s] = v]
      BY <2>3 DEF Answer
    <3> QED
      BY <3>1, EntryChanged
  <2>4. CASE ~(Persist(t) \/ StoreApproval(t) \/ Answer(t))
    <3>1. UNCHANGED request
      BY <2>4 DEF ThreadStep, Create, GiveUp, ResumeWait, ResumeEvent, Retry,
         Skip, EnterLoop, Read, Write, CallOutside, NodeFails, WaitIsOver,
         TakeEvent, StoreWait, StoreEventWait, StepEnds, Succeed, StoreFailed
    <3> QED
      BY <3>1
  <2> QED
    BY <2>1, <2>2, <2>3, <2>4
<1>2. took' = took \/ Changed(took, took')
  <2>1. CASE Persist(t) \/ StepEnds(t)
    <3>1. took' = Committed(t)
      BY <2>1 DEF Persist, StepEnds
    <3> QED
      BY <3>1, CommittedChanges
  <2>2. CASE CallOutside(t)
    <3>1. \/ UNCHANGED took
          \/ took' = [took EXCEPT ![Current(t)][Here(t)] = @ + 1]
      BY <2>2 DEF CallOutside
    <3>2. PICK r, s, v : r = Current(t) /\ s = Here(t)
                         /\ v = took[Current(t)][Here(t)] + 1
      OBVIOUS
    <3>3. \/ UNCHANGED took
          \/ took' = [took EXCEPT ![r][s] = v]
      BY <3>1, <3>2
    <3> QED
      BY <3>3, EntryChanged
  <2>3. CASE ~(Persist(t) \/ StepEnds(t) \/ CallOutside(t))
    <3>1. UNCHANGED took
      BY <2>3 DEF ThreadStep, Create, GiveUp, ResumeWait, ResumeEvent, Retry,
         Skip, EnterLoop, Read, Write, NodeFails, WaitIsOver, history,
         TakeEvent, StoreWait, StoreEventWait, StoreApproval, Succeed,
         StoreFailed, Answer
    <3> QED
      BY <3>1
  <2> QED
    BY <2>1, <2>2, <2>3
<1> QED
  BY <1>1, <1>2, TabledKept DEF Changed

LEMMA NextTabled ==
    ASSUME Tabled, [Next]_vars
    PROVE  Tabled'
<1>1. CASE \E t \in Threads : ThreadStep(t)
  BY <1>1, ThreadStepTabled
<1>2. CASE \E t \in Threads, r \in Runs, s \in Scopes : Approve(t, r, s)
  <2>1. PICK t, r, s : Approve(t, r, s)
    BY <1>2
  <2>2. \/ request' = request
        \/ request' =
              [request EXCEPT ![r][s] = "approval_execution_failed"]
    BY <2>1 DEF Approve
  <2>3. took' = took
    BY <2>1 DEF Approve, history
  <2> QED
    BY <2>2, <2>3, EntryChanged, TabledKept DEF Changed
<1>3. CASE \E r \in Runs, s \in Scopes : Reject(r, s)
  <2>1. PICK r, s : Reject(r, s)
    BY <1>3
  <2>2. request' = [request EXCEPT ![r][s] = "rejected"] /\ took' = took
    BY <2>1 DEF Reject, history
  <2> QED
    BY <2>2, EntryChanged, TabledKept DEF Changed
<1>4. CASE \E t \in Threads : LoopFails(t)
  <2>1. PICK t : LoopFails(t)
    BY <1>4
  <2>2. request' = request /\ Changed(took, took')
    BY <2>1 DEF LoopFails, Changed
  <2> QED
    BY <2>2, TabledKept DEF Changed
<1>5. CASE UNCHANGED <<request, took>>
  BY <1>5, TabledKept
<1> QED
  BY <1>1, <1>2, <1>3, <1>4, <1>5
  DEF Next, vars, history, LookAtSlot, RunByHand, Crash, LookAtWaits,
      LookAtEvents, LookAtRetries, Look, RetryByHand, NextSlot, Change

LEMMA InitTabled ==
    ASSUME Init
    PROVE  Tabled
<1>1. PICK scopes : /\ request = [r \in Runs |-> [s \in scopes |-> "none"]]
                    /\ took = [r \in Runs |-> [s \in scopes |-> 0]]
  BY DEF Init
<1> QED
  BY <1>1 DEF Tabled

LEMMA TypesAre ==
    ASSUME RunsInv, Tabled
    PROVE  TypeOK
<1>1. /\ GoodGraph(graph) /\ Scopes = Leaves(graph)
      /\ build \in 0..upsets /\ slot \in 1..upsets + 1
      /\ upsets \in 0..MaxUpsets /\ heard \subseteq Runs \X Scopes
      /\ \A r \in Runs : run[r].slot \in 0..slot /\ run[r].build \in 0..build
  BY DEF RunsInv, Frame
<1>2. MaxUpsets \in Nat
  BY RunsAssumption
<1>3. ASSUME NEW r \in Runs
      PROVE  /\ run[r].status \in
                   Waiting \cup {"none", "running", "waiting_retry",
                                 "success", "failed", "rejected"}
             /\ run[r].slot \in 0..MaxUpsets + 1
             /\ \A c \in {run[r].wait, run[r].retry.at} :
                   c # <<>> => \/ Scope(c) \in Scopes
                               \/ NodeAt(graph, c).type \in Loops
             /\ run[r].retry.safe \in BOOLEAN
             /\ run[r].attempts \in Nat /\ run[r].build \in 0..MaxUpsets
             /\ took[r] \in [Scopes -> Nat]
             /\ request[r] \in [Scopes ->
                  {"none", "awaiting_confirmation", "approved", "confirmed",
                   "rejected", "approval_execution_failed"}]
  <2>1. RowFields(graph, run[r])
    BY DEF RunsInv, Rows, RowOk
  <2>2. /\ took[r] \in [Leaves(graph) -> Nat]
        /\ request[r] \in [Leaves(graph) -> Answers]
    BY DEF RunsInv, Rows, RowOk, Effects
  <2>3. Answers = {"none", "awaiting_confirmation", "approved", "confirmed",
                   "rejected", "approval_execution_failed"}
    BY DEF Answers, Approvals, Outcomes
  <2>4. run[r].slot \in 0..MaxUpsets + 1 /\ run[r].build \in 0..MaxUpsets
    <3>1. run[r].slot \in 0..slot /\ run[r].build \in 0..build
      BY <1>1
    <3> QED
      BY <1>1, <1>2, <3>1
  <2>5. ASSUME NEW c \in {run[r].wait, run[r].retry.at}, c # <<>>
        PROVE  Scope(c) \in Scopes \/ NodeAt(graph, c).type \in Loops
    <3>1. IsPlace(graph, c)
      BY <2>1, <2>5 DEF RowFields
    <3> QED
      BY <1>1, <3>1, PlacesAreLeaves
  <2>6. /\ run[r].status \in
                   Waiting \cup {"none", "running", "waiting_retry",
                                 "success", "failed", "rejected"}
        /\ run[r].attempts \in Nat
    BY <2>1 DEF RowFields, RunStatuses
  <2>7. run[r].retry.safe \in BOOLEAN
    BY <2>1, Zenon DEF RowFields
  <2>8. \A c \in {run[r].wait, run[r].retry.at} :
           c # <<>> => \/ Scope(c) \in Scopes
                       \/ NodeAt(graph, c).type \in Loops
    BY <2>5
  <2> QED
    BY <1>1, <2>2, <2>3, <2>4, <2>6, <2>7, <2>8
<1>4. request \in [Runs -> [Scopes ->
         {"none", "awaiting_confirmation", "approved", "confirmed",
          "rejected", "approval_execution_failed"}]]
  BY <1>3 DEF Tabled
<1>5. took \in [Runs -> [Scopes -> Nat]]
  BY <1>3 DEF Tabled
<1>6. ASSUME NEW t \in Threads, Works(t)
      PROVE  Current(t) \in Runs
  <2>1. OnDuty(t)
    BY DEF RunsInv, Staff
  <2>2. thread[t].doing \in {"node", "work", "fail", "finish", "answer"}
    BY <1>6 DEF Works
  <2>3. thread[t] # Idle
    BY <2>2 DEF Idle
  <2> QED
    BY <2>1, <2>2, <2>3 DEF OnDuty, Engaged
<1> QED
  BY <1>1, <1>3, <1>4, <1>5, <1>6 DEF TypeOK

-----------------------------------------------------------------------------
(* The theorems.                                                           *)

\* The rows, the checkpoints in them, the approval requests and what the
\* threads execute have their types, whatever loops the graph has: a
\* checkpoint that is stored is a place in the graph of the workflow.
THEOREM RunsAreTyped ==
    Spec => []TypeOK
<1>1. Init => Tabled
  BY InitTabled
<1>2. Tabled /\ [Next]_vars => Tabled'
  BY NextTabled
<1>3. RunsInv /\ Tabled => TypeOK
  BY TypesAre
<1> QED
  BY <1>1, <1>2, <1>3, RunsAreKept, PTL DEF Spec

\* run_due_workflow: under the advisory lock and after the look at the recent
\* runs, two schedulers do not start two runs for a slot.
THEOREM SlotsRunOnce ==
    Spec => []OneRunPerSlot
<1>1. RunsInv => OneRunPerSlot
  BY OneRunPerSlotIs
<1> QED
  BY <1>1, RunsAreKept, PTL

\* execute_step, resume_approval: a node the owner must approve takes effect
\* only when the request of that node in that iteration was approved.
THEOREM ApprovalsComeFirst ==
    Spec => []ApprovedFirst
<1>1. RunsInv => ApprovedFirst
  BY ApprovedFirstIs
<1> QED
  BY <1>1, RunsAreKept, PTL

\* execute, the resumes and the retries: whatever fails, waits, dies and goes
\* on, no node of a run takes effect twice or before those before it, each
\* finds the outputs it depends on, and a run that succeeded left none out
\* (a loop that fails as it is resumed counts anew).
THEOREM NodesActOnce ==
    Spec => []NodesRunOnce
<1>1. RunsInv => NodesRunOnce
  BY NodesRunOnceIs
<1> QED
  BY <1>1, RunsAreKept, PTL

\* resume_event: a run that got its event does not wait for it again, outside
\* of repeat nodes.
THEOREM EventsEndWaits ==
    Spec => []EventEndsTheWait
<1>1. RunsInv => EventEndsTheWait
  BY EventEndsTheWaitIs
<1> QED
  BY <1>1, RunsAreKept, PTL
=============================================================================
