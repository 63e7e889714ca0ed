---------------------------- MODULE OutboxProofs ----------------------------
(***************************************************************************)
(* The safety of the outbox for any set of events, any number of service   *)
(* processes, any batch size and any number of crashes and overruns.       *)
(***************************************************************************)
EXTENDS Outbox, TLAPS

USE OutboxAssumption

-----------------------------------------------------------------------------
(* A claim's query returns rows it was asked to look at.                   *)
LEMMA OldestSubset == ASSUME NEW S PROVE Oldest(S) \subseteq S
  BY DEF Oldest

(* Counting a publish makes the count positive, changes no other event's    *)
(* count and adds at most one.                                             *)
LEMMA CountPublishFacts ==
  ASSUME TypeOK, NEW e \in Events, CountPublish(e)
  PROVE  /\ publishes' \in [Events -> Nat]
         /\ publishes'[e] > 0
         /\ publishes'[e] <= publishes[e] + 1
         /\ \A f \in Events : f # e => publishes'[f] = publishes[f]
         /\ doubts' = doubts
  BY DEF TypeOK, CountPublish

(* A failed Publish adds at most one copy, and while the event's lock has   *)
(* not run out it adds to the doubts what it adds to the copies.           *)
LEMMA FailedPublishFacts ==
  ASSUME TypeOK, NEW e \in Events, CountDoubt(e) \/ UNCHANGED <<publishes, doubts>>
  PROVE  /\ publishes' \in [Events -> Nat] /\ doubts' \in [Events -> Nat]
         /\ publishes'[e] >= publishes[e]
         /\ e \notin lapsed => publishes'[e] - doubts'[e] = publishes[e] - doubts[e]
         /\ \A f \in Events : f # e => publishes'[f] = publishes[f] /\ doubts'[f] = doubts[f]
  BY DEF TypeOK, CountDoubt

-----------------------------------------------------------------------------
(* Types: every statement writes values of the columns' types and every     *)
(* goroutine moves between its own steps.                                  *)
THEOREM TypeCorrect == Spec => []TypeOK
<1>1. Init => TypeOK
  BY DEF Init, TypeOK, NoBatch, Statuses, Locks, SingleSteps, Phases, Outcomes
<1>2. TypeOK /\ [Next]_vars => TypeOK'
  <2> SUFFICES ASSUME TypeOK, [Next]_vars PROVE TypeOK'
    OBVIOUS
  <2> USE DEF TypeOK, Statuses, Locks, SingleSteps, Phases, Outcomes, SetRows, hist, row
  <2>1. ASSUME NEW e \in Events, SingleNext(e) PROVE TypeOK'
    <3>1. CASE InsertOutboxEvent(e)
      BY <3>1 DEF InsertOutboxEvent
    <3>2. CASE ClaimSingleEvent(e)
      BY <3>2 DEF ClaimSingleEvent, ClaimRows
    <3>3. CASE ClaimSingleEventError(e)
      BY <3>3 DEF ClaimSingleEventError, ClaimRows
    <3>4. CASE SinglePublish(e)
      BY <3>4, CountPublishFacts DEF SinglePublish
    <3>5. CASE SinglePublishError(e)
      BY <3>5, FailedPublishFacts DEF SinglePublishError
    <3>6. CASE SingleMark(e)
      BY <3>6 DEF SingleMark, MarkProcessedRows, MarkFailedRows
    <3> QED BY <2>1, <3>1, <3>2, <3>3, <3>4, <3>5, <3>6 DEF SingleNext
  <2>2. ASSUME NEW p \in Procs, BatchNext(p) PROVE TypeOK'
    <3>1. ASSUME NEW skipped \in SUBSET Events, ClaimOutboxEvents(p, skipped) PROVE TypeOK'
      BY <3>1 DEF ClaimOutboxEvents, ClaimRows
    <3>2. CASE ClaimOutboxEventsError(p)
      BY <3>2 DEF ClaimOutboxEventsError, ClaimRows
    <3>3. ASSUME NEW e \in Events, BatchPublish(p, e) PROVE TypeOK'
      BY <3>3, CountPublishFacts DEF BatchPublish
    <3>4. ASSUME NEW e \in Events, BatchPublishError(p, e) PROVE TypeOK'
      BY <3>4, FailedPublishFacts DEF BatchPublishError
    <3>5. CASE MarkEventsProcessed(p)
      BY <3>5 DEF MarkEventsProcessed, MarkProcessedRows
    <3>6. CASE MarkEventsFailed(p)
      BY <3>6 DEF MarkEventsFailed, MarkFailedRows, NoBatch
    <3> QED BY <2>2, <3>1, <3>2, <3>3, <3>4, <3>5, <3>6 DEF BatchNext
  <2>3. ASSUME NEW e \in Events, LockExpires(e) PROVE TypeOK'
    BY <2>3 DEF LockExpires
  <2>4. ASSUME NEW p \in Procs, Crash(p) PROVE TypeOK'
    BY <2>4 DEF Crash, NoBatch
  <2>5. CASE RecoverStaleEvents
    BY <2>5 DEF RecoverStaleEvents
  <2>6. CASE UNCHANGED vars
    BY <2>6 DEF vars
  <2> QED BY <2>1, <2>2, <2>3, <2>4, <2>5, <2>6 DEF Next
<1> QED BY <1>1, <1>2, PTL DEF Spec

-----------------------------------------------------------------------------
(* The inductive step, one lemma per group of actions.  The goroutine of a  *)
(* fresh event and a worker can disturb each other only through the row of  *)
(* an event both claim, which ClaimsUnderLock excludes before an overrun.   *)
LEMMA SingleStep ==
  ASSUME IInv, NEW e \in Events, SingleNext(e)
  PROVE  OutboxInvariant'
<1> USE DEF IInv, OutboxInvariant, TypeOK, Statuses, Locks, SingleSteps, Phases, Outcomes,
            SetRows, hist, row, Claimed, LiveClaim, SingleClaimant, BatchClaimants,
            RowsConsistent, WorkConsistent, PublishedFirst, ProcessedWasPublished,
            ClaimsUnderLock, ExclusiveClaim, PublishedOnceBeforeExpiry
<1>1. CASE InsertOutboxEvent(e)
  BY <1>1 DEF InsertOutboxEvent
<1>2. CASE ClaimSingleEvent(e)
  BY <1>2 DEF ClaimSingleEvent, ClaimRows
<1>3. CASE ClaimSingleEventError(e)
  BY <1>3 DEF ClaimSingleEventError, ClaimRows
<1>4. CASE SinglePublish(e)
  BY <1>4, CountPublishFacts, SMTT(30) DEF SinglePublish
<1>5. CASE SinglePublishError(e)
  BY <1>5, FailedPublishFacts DEF SinglePublishError
<1>6. CASE SingleMark(e)
  BY <1>6 DEF SingleMark, MarkProcessedRows, MarkFailedRows
<1> QED BY <1>1, <1>2, <1>3, <1>4, <1>5, <1>6 DEF SingleNext

(* A worker of the pool keeps the inductive invariant: its claim takes only *)
(* rows nobody holds, and each of its marks speaks of rows it still holds.  *)
LEMMA BatchStep ==
  ASSUME IInv, NEW p \in Procs, BatchNext(p)
  PROVE  OutboxInvariant'
<1> USE DEF IInv, OutboxInvariant, TypeOK, Statuses, Locks, SingleSteps, Phases, Outcomes,
            SetRows, hist, row, Claimed, LiveClaim, SingleClaimant, BatchClaimants,
            RowsConsistent, WorkConsistent, PublishedFirst, ProcessedWasPublished,
            ClaimsUnderLock, ExclusiveClaim, PublishedOnceBeforeExpiry
<1>1. ASSUME NEW skipped \in SUBSET Events, ClaimOutboxEvents(p, skipped)
      PROVE  OutboxInvariant'
  BY <1>1, OldestSubset DEF ClaimOutboxEvents, ClaimRows, Pending
<1>2. CASE ClaimOutboxEventsError(p)
  BY <1>2, OldestSubset DEF ClaimOutboxEventsError, ClaimRows, Pending
<1>3. ASSUME NEW e \in Events, BatchPublish(p, e) PROVE OutboxInvariant'
  <2>1. /\ batch' = [batch EXCEPT ![p][e] = "published"]
        /\ batch[p][e] = "claimed" /\ phase[p] = "running"
        /\ UNCHANGED <<status, lock, home, single, phase, overruns, lapsed, crashes>>
    BY <1>3 DEF BatchPublish
  <2>2. /\ publishes' \in [Events -> Nat] /\ publishes'[e] > 0
        /\ publishes'[e] <= publishes[e] + 1
        /\ \A f \in Events : f # e => publishes'[f] = publishes[f]
        /\ doubts' = doubts
    BY <1>3, CountPublishFacts DEF BatchPublish
  <2>3. status[e] # "absent" /\ (RowsConsistent /\ WorkConsistent)'
    BY <2>1, <2>2
  <2>4. (PublishedFirst /\ ProcessedWasPublished)'
    BY <2>1, <2>2
  <2>5. (ClaimsUnderLock /\ ExclusiveClaim)'
    BY <2>1
  <2>6. PublishedOnceBeforeExpiry'
    <3>1. ASSUME NEW f \in Events \ lapsed, f # e
          PROVE  \A q \in Procs : batch'[q][f] = batch[q][f]
      BY <2>1, <3>1
    <3>2. ASSUME e \notin lapsed
          PROVE  /\ publishes[e] <= doubts[e] /\ overruns[e] = 0
                 /\ single[e] \notin Claimed
                 /\ \A q \in Procs : q # p => batch[q][e] \notin Claimed
      <4>1. overruns[e] = 0 /\ publishes[e] <= doubts[e]
        BY <2>1, <3>2
      <4>2. p \in BatchClaimants(e)
        BY <2>1
      <4>3. single[e] \notin Claimed /\ \A q \in BatchClaimants(e) : q = p
        BY <4>1, <4>2
      <4> QED BY <4>1, <4>3
    <3> QED BY <2>1, <2>2, <3>1, <3>2
  <2> QED BY <2>3, <2>4, <2>5, <2>6
<1>4. ASSUME NEW e \in Events, BatchPublishError(p, e) PROVE OutboxInvariant'
  BY <1>4, FailedPublishFacts, SMTT(30) DEF BatchPublishError
<1>5. CASE MarkEventsProcessed(p)
  BY <1>5 DEF MarkEventsProcessed, MarkProcessedRows, With
<1>6. CASE MarkEventsFailed(p)
  BY <1>6 DEF MarkEventsFailed, MarkFailedRows, With, NoBatch
<1> QED BY <1>1, <1>2, <1>3, <1>4, <1>5, <1>6 DEF BatchNext

(* Recovery, an expiring lock, a crash, a failed query and a new row keep   *)
(* the inductive invariant; an expiring lock does so because it records the *)
(* overrun.                                                                 *)
LEMMA EnvironmentStep ==
  ASSUME IInv,
         \/ \E e \in Events : LockExpires(e)
         \/ \E p \in Procs : Crash(p)
         \/ RecoverStaleEvents
  PROVE  OutboxInvariant'
<1> USE DEF IInv, OutboxInvariant, TypeOK, Statuses, Locks, SingleSteps, Phases, Outcomes,
            SetRows, hist, row, Claimed, LiveClaim, SingleClaimant, BatchClaimants,
            RowsConsistent, WorkConsistent, PublishedFirst, ProcessedWasPublished,
            ClaimsUnderLock, ExclusiveClaim, PublishedOnceBeforeExpiry
<1>1. ASSUME NEW e \in Events, LockExpires(e) PROVE OutboxInvariant'
  BY <1>1 DEF LockExpires
<1>2. ASSUME NEW p \in Procs, Crash(p) PROVE OutboxInvariant'
  BY <1>2 DEF Crash, NoBatch
<1>3. CASE RecoverStaleEvents
  BY <1>3 DEF RecoverStaleEvents, Stale
<1> QED BY <1>1, <1>2, <1>3

-----------------------------------------------------------------------------
(* The strengthening of the three safety invariants is inductive: it holds  *)
(* of the empty table and every step of Next keeps it.                      *)
THEOREM OutboxInductive == Spec => []IInv
<1>1. Init => OutboxInvariant
  BY DEF Init, NoBatch, OutboxInvariant, Claimed, LiveClaim, SingleClaimant, BatchClaimants,
         RowsConsistent, WorkConsistent, PublishedFirst, ProcessedWasPublished,
         ClaimsUnderLock, ExclusiveClaim, PublishedOnceBeforeExpiry
<1>2. IInv /\ [Next]_vars => OutboxInvariant'
  <2> SUFFICES ASSUME IInv, [Next]_vars PROVE OutboxInvariant'
    OBVIOUS
  <2>1. ASSUME NEW e \in Events, SingleNext(e) PROVE OutboxInvariant'
    BY <2>1, SingleStep
  <2>2. ASSUME NEW p \in Procs, BatchNext(p) PROVE OutboxInvariant'
    BY <2>2, BatchStep
  <2>3. ASSUME \/ \E e \in Events : LockExpires(e)
               \/ \E p \in Procs : Crash(p)
               \/ RecoverStaleEvents
        PROVE  OutboxInvariant'
    BY <2>3, EnvironmentStep
  <2>4. CASE UNCHANGED vars
    BY <2>4 DEF IInv, vars, hist, OutboxInvariant, Claimed, LiveClaim, SingleClaimant,
         BatchClaimants, RowsConsistent, WorkConsistent, PublishedFirst,
         ProcessedWasPublished, ClaimsUnderLock, ExclusiveClaim, PublishedOnceBeforeExpiry
  <2> QED BY <2>1, <2>2, <2>3, <2>4 DEF Next
<1> QED BY <1>1, <1>2, TypeCorrect, PTL DEF Spec, IInv

(* No event is closed unpublished: the marks of the goroutine and of the    *)
(* worker are reached only after Publish returned nil.                     *)
THEOREM ProcessedImpliesPublished == Spec => []ProcessedWasPublished
<1>1. IInv => ProcessedWasPublished
  BY DEF IInv, OutboxInvariant
<1> QED BY <1>1, OutboxInductive, PTL

(* At most one claimant at a time, over all processes, until a lock runs    *)
(* out under one.                                                          *)
THEOREM ClaimIsExclusive == Spec => []ExclusiveClaim
<1>1. IInv => ExclusiveClaim
  BY DEF IInv, OutboxInvariant
<1> QED BY <1>1, OutboxInductive, PTL

(* Before the event's lock has run out once, each copy beyond the first is   *)
(* owed to one Publish that returned an error after the broker had it.     *)
THEOREM DuplicatesAccounted == Spec => []DuplicatesExplained
<1>1. IInv => DuplicatesExplained
  BY DEF IInv, OutboxInvariant, PublishedOnceBeforeExpiry, DuplicatesExplained
<1> QED BY <1>1, OutboxInductive, PTL

(* A processed row is reopened only after an overrun: a late                *)
(* MarkOutboxEvent(s)Failed needs a claimant that outlived its lock.       *)
THEOREM ProcessedIsFinal == Spec => ReopenedOnlyAfterOverrun
<1> DEFINE Reopened == \A e \in Events :
       status[e] = "processed" /\ status'[e] # "processed" => overruns[e] > 0
<1>1. IInv /\ [Next]_vars => [Reopened]_vars
  <2> SUFFICES ASSUME IInv, Next, NEW e \in Events,
                      status[e] = "processed", status'[e] # "processed"
               PROVE  overruns[e] > 0
    OBVIOUS
  <2> USE DEF IInv, TypeOK, OutboxInvariant, ClaimsUnderLock, LiveClaim, SingleClaimant,
              BatchClaimants, Claimed, SetRows, row
  <2>1. ASSUME NEW f \in Events, SingleNext(f) PROVE overruns[e] > 0
    BY <2>1 DEF SingleNext, InsertOutboxEvent, ClaimSingleEvent, ClaimSingleEventError,
                SinglePublish, SinglePublishError, SingleMark, ClaimRows,
                MarkProcessedRows, MarkFailedRows
  <2>2. ASSUME NEW p \in Procs, BatchNext(p) PROVE overruns[e] > 0
    <3>1. ASSUME NEW skipped \in SUBSET Events, ClaimOutboxEvents(p, skipped) PROVE FALSE
      BY <3>1, OldestSubset DEF ClaimOutboxEvents, ClaimRows, Pending
    <3>2. CASE ClaimOutboxEventsError(p)
      BY <3>2, OldestSubset DEF ClaimOutboxEventsError, ClaimRows, Pending
    <3>3. ASSUME NEW f \in Events, BatchPublish(p, f) \/ BatchPublishError(p, f) PROVE FALSE
      BY <3>3 DEF BatchPublish, BatchPublishError
    <3>4. CASE MarkEventsProcessed(p)
      BY <3>4 DEF MarkEventsProcessed, MarkProcessedRows
    <3>5. CASE MarkEventsFailed(p)
      BY <3>5 DEF MarkEventsFailed, MarkFailedRows, With
    <3> QED BY <2>2, <3>1, <3>2, <3>3, <3>4, <3>5 DEF BatchNext
  <2>3. ASSUME NEW f \in Events, LockExpires(f) PROVE FALSE
    BY <2>3 DEF LockExpires
  <2>4. ASSUME NEW p \in Procs, Crash(p) PROVE FALSE
    BY <2>4 DEF Crash
  <2>5. CASE RecoverStaleEvents
    BY <2>5 DEF RecoverStaleEvents, Stale
  <2> QED BY <2>1, <2>2, <2>3, <2>4, <2>5 DEF Next
<1> QED BY <1>1, OutboxInductive, PTL DEF Spec, ReopenedOnlyAfterOverrun

(* The outbox implements the at-least-once relay: an insert accepts, a       *)
(* publish relays, the marks settle or reopen, and every other step leaves  *)
(* what is owed, settled and relayed as it is.                             *)
THEOREM OutboxIsARelay == Spec => ImplementsRelay
<1> DEFINE owed == {e \in Events : status[e] \in {"pending", "processing"}}
           settled == {e \in Events : status[e] = "processed"}
           relayed == {e \in Events : publishes[e] > 0}
<1>1. Init => Relay!RelayInit
  BY DEF Init, Relay!RelayInit
<1>2. IInv /\ [Next]_vars => [Relay!RelayNext]_(Relay!relayVars)
  <2> SUFFICES ASSUME IInv, [Next]_vars
               PROVE  Relay!RelayNext \/ UNCHANGED <<owed, settled, relayed>>
    BY DEF Relay!relayVars
  <2> USE DEF IInv, TypeOK, Statuses, SetRows, row, hist, Relay!RelayNext
  <2>1. ASSUME NEW e \in Events, SingleNext(e)
        PROVE  Relay!RelayNext \/ UNCHANGED <<owed, settled, relayed>>
    <3>1. CASE InsertOutboxEvent(e)
      <4> Relay!Accept(e) BY <3>1 DEF InsertOutboxEvent, Relay!Accept
      <4> QED OBVIOUS
    <3>2. CASE ClaimSingleEvent(e) \/ ClaimSingleEventError(e)
      <4> UNCHANGED <<owed, settled, relayed>>
        BY <3>2, ZenonT(30) DEF ClaimSingleEvent, ClaimSingleEventError, ClaimRows
      <4> QED OBVIOUS
    <3>3. CASE SinglePublish(e)
      <4>1. status[e] \in {"pending", "processing", "processed"}
        BY <3>3 DEF SinglePublish, OutboxInvariant, WorkConsistent
      <4>2. Relay!Relay(e)
        BY <3>3, <4>1, CountPublishFacts DEF SinglePublish, Relay!Relay
      <4> QED BY <4>2
    <3>4. CASE SinglePublishError(e)
      <4>1. /\ status[e] \in {"pending", "processing", "processed"}
            /\ UNCHANGED <<status, lock>>
        BY <3>4 DEF SinglePublishError, OutboxInvariant, WorkConsistent
      <4>2. CASE CountDoubt(e) /\ publishes[e] < MaxPublishes
        <5>1. publishes' = [publishes EXCEPT ![e] = @ + 1]
          BY <4>2 DEF CountDoubt
        <5>2. Relay!Relay(e)
          BY <4>1, <5>1 DEF Relay!Relay
        <5> QED BY <5>2
      <4>3. CASE publishes' = publishes
        BY <4>1, <4>3
      <4> QED BY <3>4, <4>2, <4>3 DEF SinglePublishError, CountDoubt
    <3>5. CASE SingleMark(e)
      <4>1. status[e] \in {"pending", "processing", "processed"}
        BY <3>5 DEF SingleMark, OutboxInvariant, WorkConsistent
      <4>2. CASE single[e] = "published" /\ MarkProcessedRows({e})
        <5>1. publishes[e] > 0
          BY <4>2 DEF OutboxInvariant, PublishedFirst
        <5>2. Relay!Settle({e})
          BY <3>5, <4>1, <4>2, <5>1 DEF SingleMark, MarkProcessedRows, Relay!Settle
        <5> QED BY <5>2
      <4>3. CASE MarkFailedRows({e})
        <5> Relay!Reopen({e})
          BY <3>5, <4>1, <4>3 DEF SingleMark, MarkFailedRows, Relay!Reopen
        <5> QED OBVIOUS
      <4>4. CASE UNCHANGED row
        <5> UNCHANGED <<owed, settled, relayed>> BY <3>5, <4>4 DEF SingleMark
        <5> QED OBVIOUS
      <4> QED BY <3>5, <4>2, <4>3, <4>4 DEF SingleMark
    <3> QED BY <2>1, <3>1, <3>2, <3>3, <3>4, <3>5 DEF SingleNext
  <2>2. ASSUME NEW p \in Procs, BatchNext(p)
        PROVE  Relay!RelayNext \/ UNCHANGED <<owed, settled, relayed>>
    <3>0. ASSUME NEW e \in Events, batch[p][e] # "no"
          PROVE  /\ status[e] \in {"pending", "processing", "processed"}
                 /\ batch[p][e] = "published" => publishes[e] > 0
      BY <3>0 DEF OutboxInvariant, WorkConsistent, BatchClaimants, Claimed, PublishedFirst,
                  Outcomes
    <3>1. ASSUME NEW skipped \in SUBSET Events, ClaimOutboxEvents(p, skipped)
          PROVE  UNCHANGED <<owed, settled, relayed>>
      BY <3>1, OldestSubset DEF ClaimOutboxEvents, ClaimRows, Pending
    <3>2. CASE ClaimOutboxEventsError(p)
      <4> UNCHANGED <<owed, settled, relayed>>
        BY <3>2, OldestSubset DEF ClaimOutboxEventsError, ClaimRows, Pending
      <4> QED OBVIOUS
    <3>3. ASSUME NEW e \in Events, BatchPublish(p, e) PROVE Relay!Relay(e)
      BY <3>0, <3>3, CountPublishFacts DEF BatchPublish, Relay!Relay
    <3>4. ASSUME NEW e \in Events, BatchPublishError(p, e)
          PROVE  Relay!Relay(e) \/ UNCHANGED <<owed, settled, relayed>>
      <4>1. /\ status[e] \in {"pending", "processing", "processed"}
            /\ UNCHANGED <<status, lock>>
        BY <3>0, <3>4 DEF BatchPublishError
      <4>2. CASE CountDoubt(e) /\ publishes[e] < MaxPublishes
        <5>1. publishes' = [publishes EXCEPT ![e] = @ + 1]
          BY <4>2 DEF CountDoubt
        <5> QED BY <4>1, <5>1 DEF Relay!Relay
      <4>3. CASE publishes' = publishes
        BY <4>1, <4>3
      <4> QED BY <3>4, <4>2, <4>3 DEF BatchPublishError, CountDoubt
    <3>5. CASE MarkEventsProcessed(p)
      <4>1. CASE MarkProcessedRows(With(p, "published"))
        <5>1. PICK S \in SUBSET Events : S = With(p, "published")
          BY DEF With
        <5>2. Relay!Settle(S)
          BY <3>0, <3>5, <4>1, <5>1 DEF MarkEventsProcessed, MarkProcessedRows, With, Relay!Settle
        <5> QED BY <5>2
      <4>2. CASE UNCHANGED row
        <5> UNCHANGED <<owed, settled, relayed>> BY <3>5, <4>2 DEF MarkEventsProcessed
        <5> QED OBVIOUS
      <4> QED BY <3>5, <4>1, <4>2 DEF MarkEventsProcessed
    <3>6. CASE MarkEventsFailed(p)
      <4>1. CASE MarkFailedRows(With(p, "failed"))
        <5>1. PICK S \in SUBSET Events : S = With(p, "failed")
          BY DEF With
        <5>2. Relay!Reopen(S)
          BY <3>0, <3>6, <4>1, <5>1 DEF MarkEventsFailed, MarkFailedRows, With, Relay!Reopen
        <5> QED BY <5>2
      <4>2. CASE UNCHANGED row
        <5> UNCHANGED <<owed, settled, relayed>> BY <3>6, <4>2 DEF MarkEventsFailed
        <5> QED OBVIOUS
      <4> QED BY <3>6, <4>1, <4>2 DEF MarkEventsFailed
    <3> QED BY <2>2, <3>1, <3>2, <3>3, <3>4, <3>5, <3>6 DEF BatchNext
  <2>3. ASSUME NEW e \in Events, LockExpires(e) PROVE UNCHANGED <<owed, settled, relayed>>
    BY <2>3 DEF LockExpires
  <2>4. ASSUME NEW p \in Procs, Crash(p) PROVE UNCHANGED <<owed, settled, relayed>>
    BY <2>4 DEF Crash
  <2>5. CASE RecoverStaleEvents
    <3> UNCHANGED <<owed, settled, relayed>> BY <2>5 DEF RecoverStaleEvents, Stale
    <3> QED OBVIOUS
  <2>6. CASE UNCHANGED vars
    <3> UNCHANGED <<owed, settled, relayed>> BY <2>6 DEF vars
    <3> QED OBVIOUS
  <2> QED BY <2>1, <2>2, <2>3, <2>4, <2>5, <2>6 DEF Next
<1> QED BY <1>1, <1>2, OutboxInductive, PTL DEF Spec, ImplementsRelay, Relay!RelaySpec
=============================================================================
