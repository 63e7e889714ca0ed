------------------------------- MODULE Outbox -------------------------------
(***************************************************************************)
(* The transactional outbox of the auth service: the table                 *)
(* auth_outbox_events (internal/auth/repository/outbox.go), the goroutine  *)
(* that publishes a fresh event at once (ProcessSingleEvent), the batch    *)
(* worker and the recovery loop (internal/auth/workers/outbox), run by     *)
(* several service processes that share one database.                      *)
(*                                                                         *)
(* An event is a number, its place in the created_at order.  locked_until  *)
(* is kept as what the queries can tell of it: NULL ("none"), in the       *)
(* future ("held") or in the past ("expired").  Both the writes and the    *)
(* comparison use the database's NOW(), so there is one clock.             *)
(***************************************************************************)
EXTENDS Naturals, FiniteSets

CONSTANTS Events,       \* event ids, ordered by created_at
          Procs,        \* service processes, one outbox worker in each
          BatchSize,    \* config.BatchSize
          Concurrency,  \* config.Concurrency
          MaxOverruns,  \* bound: lock timeouts of a live claim, per event
          MaxCrashes,   \* bound: process crashes
          MaxPublishes  \* bound: publishes counted per event

ASSUME OutboxAssumption ==
    /\ Events \subseteq Nat
    /\ BatchSize \in Nat \ {0} /\ Concurrency \in Nat \ {0}
    /\ MaxOverruns \in Nat /\ MaxCrashes \in Nat
    /\ MaxPublishes \in Nat \ {0}

VARIABLES status,     \* the status column; "absent" before the insert commits
          lock,       \* locked_until
          home,       \* the process that inserted the event
          single,     \* the goroutine running ProcessSingleEvent for the event
          phase,      \* where each worker's ProcessBatch is
          batch,      \* each worker's claimed events and their outcome
          publishes,  \* history: copies of the event the broker took
          doubts,     \* history: of them, those whose Publish returned an error,
                      \* until the event's lock first runs out
          overruns,   \* history: times a lock ran out under a live claimant
          lapsed,     \* history: events whose lock ever ran out
          crashes     \* history: crashes so far

row   == <<status, lock>>
hist  == <<publishes, doubts, overruns, lapsed, crashes>>
vars  == <<status, lock, home, single, phase, batch, hist>>

Statuses   == {"absent", "pending", "processing", "processed"}
Locks      == {"none", "held", "expired"}
\* ProcessSingleEvent: spawned, after the claim, after Publish, returned.
SingleSteps == {"none", "spawned", "claimed", "published", "failed", "done"}
\* ProcessBatch: not in the batch, claimed, and ProcessEvent's two outcomes.
Outcomes   == {"no", "claimed", "published", "failed"}
Phases     == {"idle", "running", "marking"}

NoBatch == [e \in Events |-> "no"]

TypeOK ==
    /\ status \in [Events -> Statuses]
    /\ lock \in [Events -> Locks]
    /\ home \in [Events -> Procs]
    /\ single \in [Events -> SingleSteps]
    /\ phase \in [Procs -> Phases]
    /\ batch \in [Procs -> [Events -> Outcomes]]
    /\ publishes \in [Events -> Nat]
    /\ doubts \in [Events -> Nat]
    /\ overruns \in [Events -> Nat]
    /\ lapsed \in SUBSET Events
    /\ crashes \in Nat

Init ==
    /\ status = [e \in Events |-> "absent"]
    /\ lock = [e \in Events |-> "none"]
    /\ home \in [Events -> Procs]
    /\ single = [e \in Events |-> "none"]
    /\ phase = [p \in Procs |-> "idle"]
    /\ batch = [p \in Procs |-> NoBatch]
    /\ publishes = [e \in Events |-> 0]
    /\ doubts = [e \in Events |-> 0]
    /\ overruns = [e \in Events |-> 0]
    /\ lapsed = {}
    /\ crashes = 0

-----------------------------------------------------------------------------
(* The repository's statements, each applied to a set of rows.             *)

SetRows(S, st, lk) ==
    /\ status' = [e \in Events |-> IF e \in S THEN st ELSE status[e]]
    /\ lock' = [e \in Events |-> IF e \in S THEN lk ELSE lock[e]]

\* Mutant: the claim also takes rows that are being processed.
ClaimsProcessing == {e \in Events : status[e] \in {"pending", "processing"}}

Pending == {e \in Events : status[e] = "pending"}

\* SET status = 'processing', locked_until = NOW() + lockTimeout
ClaimRows(S) == SetRows(S, "processing", "held")

\* UPDATE ... SET status = 'processed', locked_until = NULL WHERE event_id IN S
MarkProcessedRows(S) == SetRows(S, "processed", "none")

\* UPDATE ... SET status = 'pending', locked_until = NULL WHERE event_id IN S
MarkFailedRows(S) == SetRows(S, "pending", "none")

\* Mutant: the recovery forgets to compare locked_until.
StaleUnderLock == {e \in Events : status[e] = "processing"}

\* Mutant: the recovery looks at the wrong status.
StalePending == {e \in Events : status[e] = "pending" /\ lock[e] = "expired"}

\* WHERE status = 'processing' AND locked_until < NOW()
Stale == {e \in Events : status[e] = "processing" /\ lock[e] = "expired"}

\* ORDER BY created_at LIMIT BatchSize, over the rows that are not skipped.
Oldest(S) == {e \in S : Cardinality({f \in S : f < e}) < BatchSize}

-----------------------------------------------------------------------------
\* The claims that are alive: a goroutine or a worker between its claim of an
\* event and its attempt to mark it.
Claimed == {"claimed", "published", "failed"}
BatchClaimants(e) == {p \in Procs : batch[p][e] \in Claimed}
SingleClaimant(e) == single[e] \in Claimed
LiveClaim(e) == SingleClaimant(e) \/ BatchClaimants(e) # {}

(* What a Publish does to the broker.  The channel has no confirms: a       *)
(* Publish that returns nil is taken as received.  One that returns an      *)
(* error may have been received too (the connection can break after the     *)
(* message is out).  The history counters stop together at their bound.    *)
CountPublish(e) ==
    /\ publishes' = IF publishes[e] < MaxPublishes
                    THEN [publishes EXCEPT ![e] = @ + 1] ELSE publishes
    /\ UNCHANGED doubts

CountDoubt(e) ==
    IF publishes[e] < MaxPublishes
    THEN /\ publishes' = [publishes EXCEPT ![e] = @ + 1]
         /\ doubts' = IF e \in lapsed THEN doubts ELSE [doubts EXCEPT ![e] = @ + 1]
    ELSE UNCHANGED <<publishes, doubts>>

-----------------------------------------------------------------------------
(* Register and Login commit the event with the business rows and start    *)
(* the goroutine that publishes it.                                        *)
InsertOutboxEvent(e) ==
    /\ status[e] = "absent"
    /\ SetRows({e}, "pending", "none")
    /\ single' = [single EXCEPT ![e] = "spawned"]
    /\ UNCHANGED <<home, phase, batch, hist>>

\* Mutant: the claim is not restricted to pending rows.
ClaimAnyStatus(e) ==
    /\ single[e] = "spawned"
    /\ ClaimRows({e})
    /\ single' = [single EXCEPT ![e] = "claimed"]
    /\ UNCHANGED <<home, phase, batch, hist>>

(* ClaimSingleEvent: only a pending row is claimed; otherwise Conflict and  *)
(* the goroutine returns.  A database error also makes it return, whether  *)
(* or not the statement took effect.                                       *)
ClaimSingleEvent(e) ==
    /\ single[e] = "spawned"
    /\ \/ /\ status[e] = "pending"
          /\ ClaimRows({e})
          /\ single' = [single EXCEPT ![e] = "claimed"]
       \/ /\ status[e] # "pending"
          /\ single' = [single EXCEPT ![e] = "done"]
          /\ UNCHANGED row
    /\ UNCHANGED <<home, phase, batch, hist>>

ClaimSingleEventError(e) ==
    /\ single[e] = "spawned"
    /\ single' = [single EXCEPT ![e] = "done"]
    /\ \/ status[e] = "pending" /\ ClaimRows({e})
       \/ UNCHANGED row
    /\ UNCHANGED <<home, phase, batch, hist>>

(* ProcessEvent inside ProcessSingleEvent: Publish returns nil or an error. *)
SinglePublish(e) ==
    /\ single[e] = "claimed"
    /\ single' = [single EXCEPT ![e] = "published"]
    /\ CountPublish(e)
    /\ UNCHANGED <<row, home, phase, batch, overruns, lapsed, crashes>>

SinglePublishError(e) ==
    /\ single[e] = "claimed"
    /\ single' = [single EXCEPT ![e] = "failed"]
    /\ CountDoubt(e) \/ UNCHANGED <<publishes, doubts>>
    /\ UNCHANGED <<row, home, phase, batch, overruns, lapsed, crashes>>

\* Mutant: the publish error is not looked at.
MarkRegardless(e) ==
    /\ single[e] \in {"published", "failed"}
    /\ MarkProcessedRows({e})
    /\ single' = [single EXCEPT ![e] = "done"]
    /\ UNCHANGED <<home, phase, batch, hist>>

(* MarkOutboxEventProcessed or MarkOutboxEventFailed, by the outcome; both  *)
(* are unconditional and the error of either is dropped.                   *)
SingleMark(e) ==
    /\ \/ single[e] = "published" /\ MarkProcessedRows({e})
       \/ single[e] = "failed" /\ MarkFailedRows({e})
       \/ single[e] \in {"published", "failed"} /\ UNCHANGED row
    /\ single' = [single EXCEPT ![e] = "done"]
    /\ UNCHANGED <<home, phase, batch, hist>>

-----------------------------------------------------------------------------
(* ClaimOutboxEvents: the oldest pending rows, without those another        *)
(* statement has locked at that moment (SKIP LOCKED).                      *)
ClaimOutboxEvents(p, skipped) ==
    LET claim == Oldest(Pending \ skipped) IN
    /\ phase[p] = "idle"
    /\ claim # {}
    /\ ClaimRows(claim)
    /\ batch' = [batch EXCEPT ![p] =
                    [e \in Events |-> IF e \in claim THEN "claimed" ELSE "no"]]
    /\ phase' = [phase EXCEPT ![p] = "running"]
    /\ UNCHANGED <<home, single, hist>>

(* The commit reports an error although the rows were claimed: the worker   *)
(* drops the batch.  (An error without effect changes nothing.)            *)
ClaimOutboxEventsError(p) ==
    /\ phase[p] = "idle"
    /\ Pending # {}
    /\ ClaimRows(Oldest(Pending))
    /\ UNCHANGED <<home, single, phase, batch, hist>>

\* A goroutine is started only when fewer than Concurrency are running, in
\* the order of the batch.
Started(p, e) ==
    Cardinality({f \in Events : f < e /\ batch[p][f] = "claimed"}) < Concurrency

(* One goroutine of ProcessBatch: ProcessEvent, then the result's list.     *)
BatchPublish(p, e) ==
    /\ phase[p] = "running"
    /\ batch[p][e] = "claimed" /\ Started(p, e)
    /\ batch' = [batch EXCEPT ![p][e] = "published"]
    /\ CountPublish(e)
    /\ UNCHANGED <<row, home, single, phase, overruns, lapsed, crashes>>

\* Mutant: a failed event is put on the processed list.
ErrorCountsAsPublished(p, e) ==
    /\ phase[p] = "running"
    /\ batch[p][e] = "claimed" /\ Started(p, e)
    /\ batch' = [batch EXCEPT ![p][e] = "published"]
    /\ UNCHANGED <<row, home, single, phase, hist>>

BatchPublishError(p, e) ==
    /\ phase[p] = "running"
    /\ batch[p][e] = "claimed" /\ Started(p, e)
    /\ batch' = [batch EXCEPT ![p][e] = "failed"]
    /\ CountDoubt(e) \/ UNCHANGED <<publishes, doubts>>
    /\ UNCHANGED <<row, home, single, phase, overruns, lapsed, crashes>>

With(p, outcome) == {e \in Events : batch[p][e] = outcome}

(* After wg.Wait: MarkEventsProcessed over the processed list, then         *)
(* MarkEventsFailed over the failed one; an error is logged and dropped.   *)
MarkEventsProcessed(p) ==
    /\ phase[p] = "running"
    /\ With(p, "claimed") = {}
    /\ \/ MarkProcessedRows(With(p, "published"))
       \/ UNCHANGED row
    /\ phase' = [phase EXCEPT ![p] = "marking"]
    /\ batch' = [batch EXCEPT ![p] =
                    [e \in Events |-> IF batch[p][e] = "failed" THEN "failed" ELSE "no"]]
    /\ UNCHANGED <<home, single, hist>>

MarkEventsFailed(p) ==
    /\ phase[p] = "marking"
    /\ \/ MarkFailedRows(With(p, "failed"))
       \/ UNCHANGED row
    /\ phase' = [phase EXCEPT ![p] = "idle"]
    /\ batch' = [batch EXCEPT ![p] = NoBatch]
    /\ UNCHANGED <<home, single, hist>>

-----------------------------------------------------------------------------
(* runRecovery's tick.                                                     *)
RecoverStaleEvents ==
    /\ Stale # {}
    /\ SetRows(Stale, "pending", "none")
    /\ UNCHANGED <<home, single, phase, batch, hist>>

(* Time passes locked_until.  Nothing in the code stops a claimant from     *)
(* still being at work then; that case is counted and bounded.             *)
LockExpires(e) ==
    /\ status[e] = "processing" /\ lock[e] = "held"
    /\ LiveClaim(e) => overruns[e] < MaxOverruns
    /\ lock' = [lock EXCEPT ![e] = "expired"]
    /\ overruns' = IF LiveClaim(e) THEN [overruns EXCEPT ![e] = @ + 1] ELSE overruns
    /\ lapsed' = lapsed \cup {e}
    /\ doubts' = [doubts EXCEPT ![e] = 0]
    /\ UNCHANGED <<status, home, single, phase, batch, publishes, crashes>>

(* A process dies and restarts: its goroutines and its batch are gone, the  *)
(* rows stay as they are.                                                  *)
Crash(p) ==
    /\ crashes < MaxCrashes
    /\ crashes' = crashes + 1
    /\ single' = [e \in Events |->
                    IF home[e] = p /\ single[e] # "none" THEN "done" ELSE single[e]]
    /\ phase' = [phase EXCEPT ![p] = "idle"]
    /\ batch' = [batch EXCEPT ![p] = NoBatch]
    /\ UNCHANGED <<row, home, publishes, doubts, overruns, lapsed>>

-----------------------------------------------------------------------------
SingleNext(e) ==
    \/ InsertOutboxEvent(e)
    \/ ClaimSingleEvent(e) \/ ClaimSingleEventError(e)
    \/ SinglePublish(e) \/ SinglePublishError(e)
    \/ SingleMark(e)

BatchNext(p) ==
    \/ \E skipped \in SUBSET Events : ClaimOutboxEvents(p, skipped)
    \/ ClaimOutboxEventsError(p)
    \/ \E e \in Events : BatchPublish(p, e) \/ BatchPublishError(p, e)
    \/ MarkEventsProcessed(p) \/ MarkEventsFailed(p)

Next ==
    \/ \E e \in Events : SingleNext(e) \/ LockExpires(e)
    \/ \E p \in Procs : BatchNext(p) \/ Crash(p)
    \/ RecoverStaleEvents

Spec == Init /\ [][Next]_vars

(* The tickers of the batch worker and of the recovery loop fire for ever,  *)
(* a goroutine that can run does run, and time passes every lock no one     *)
(* works under.  Publishing may fail any number of times but succeeds now   *)
(* and then (the broker comes back), and an event that is at the head of    *)
(* the queue again and again is claimed by one of the claims that commit    *)
(* and marked by one of the updates that succeed.                          *)
Fairness ==
    /\ \A p \in Procs :
        /\ \A e \in Events :
            /\ SF_vars(e \in Oldest(Pending) /\ ClaimOutboxEvents(p, {}))
            /\ SF_vars(BatchPublish(p, e))
            /\ SF_vars(/\ batch[p][e] = "published"
                       /\ MarkEventsProcessed(p) /\ status'[e] = "processed")
        /\ WF_vars(MarkEventsProcessed(p))
        /\ WF_vars(MarkEventsFailed(p))
    /\ \A e \in Events : WF_vars(~LiveClaim(e) /\ LockExpires(e))
    /\ \A e \in Events : WF_vars(SingleMark(e))
    /\ \A e \in Events : SF_vars(SinglePublish(e))
    /\ WF_vars(RecoverStaleEvents)

FairSpec == Spec /\ Fairness

-----------------------------------------------------------------------------
(* Properties.                                                             *)

\* A row is 'processed' only if the broker took the event: neither the
\* goroutine nor the batch worker, in whatever order their marks and a
\* recovery interleave, can close an event the broker never got.
ProcessedWasPublished ==
    \A e \in Events : status[e] = "processed" => publishes[e] > 0

\* As long as no lock of the event ran out under a live claimant, at most one
\* goroutine or worker, over all processes, is between claiming the event and
\* marking it (status = 'pending' is the claim's guard).
ExclusiveClaim ==
    \A e \in Events :
        overruns[e] = 0 =>
            /\ SingleClaimant(e) => BatchClaimants(e) = {}
            /\ \A p, q \in BatchClaimants(e) : p = q

\* Until the event's lock has run out once, every copy after the first is the
\* second try of a Publish that failed although the broker had the message
\* (MarkOutboxEvent(s)Failed makes the row pending at once).  Crashes, lost
\* marks and publishes that failed without effect make no duplicate before
\* locked_until has passed.
DuplicatesExplained ==
    \A e \in Events \ lapsed : publishes[e] <= doubts[e] + 1

\* A row that is 'processed' is reopened (by the unconditional
\* MarkOutboxEvent(s)Failed of a slow claimant) only if its lock had run out
\* under a live claimant before.
ReopenedOnlyAfterOverrun ==
    [][\A e \in Events :
          status[e] = "processed" /\ status'[e] # "processed" => overruns[e] > 0]_vars

\* Every committed event is published in the end, through crashes, failed
\* publishes, failed marks and claims lost to a commit error.
EventuallyPublished ==
    \A e \in Events : status[e] = "pending" ~> publishes[e] > 0

(* The inductive invariant behind the safety properties.                   *)

\* locked_until is set exactly while the row is 'processing', so every row a
\* crash or a lost mark leaves in 'processing' is one RecoverStaleEvents finds.
RowsConsistent ==
    \A e \in Events : (status[e] = "processing") <=> (lock[e] # "none")

\* Nothing is running for an event that is not committed, and a worker between
\* two batches holds nothing.
WorkConsistent ==
    /\ \A e \in Events : status[e] = "absent" =>
          single[e] = "none" /\ BatchClaimants(e) = {} /\ publishes[e] = 0
    /\ \A p \in Procs, e \in Events :
          /\ phase[p] = "idle" => batch[p][e] = "no"
          /\ phase[p] = "marking" => batch[p][e] \in {"no", "failed"}

\* Whoever is about to mark an event processed has published it.
PublishedFirst ==
    \A e \in Events :
        /\ single[e] = "published" => publishes[e] > 0
        /\ \A p \in Procs : batch[p][e] = "published" => publishes[e] > 0

\* Without an overrun, a live claimant sits under an unexpired lock.
ClaimsUnderLock ==
    \A e \in Events :
        overruns[e] = 0 /\ LiveClaim(e) => status[e] = "processing" /\ lock[e] = "held"

\* Before the first expiry at most one Publish of an event returns nil, and after
\* it nobody is left who could publish the event again or mark it failed.
PublishedOnceBeforeExpiry ==
    \A e \in Events \ lapsed :
        /\ overruns[e] = 0
        /\ publishes[e] <= doubts[e] + 1
        /\ publishes[e] > doubts[e] =>
              /\ status[e] \in {"processing", "processed"} /\ lock[e] # "expired"
              /\ single[e] \notin {"claimed", "failed"}
              /\ \A p \in Procs : batch[p][e] \notin {"claimed", "failed"}

\* All of it: the goroutines, the workers, the recovery loop and crashes never
\* leave the rows and the claims out of step.
OutboxInvariant ==
    /\ RowsConsistent /\ WorkConsistent /\ PublishedFirst
    /\ ProcessedWasPublished /\ ClaimsUnderLock /\ ExclusiveClaim
    /\ PublishedOnceBeforeExpiry

\* With the types it is inductive: every step of a goroutine, a worker, the
\* recovery loop or a crash preserves it.
IInv == TypeOK /\ OutboxInvariant

(* The outbox is an at-least-once relay.                                   *)
Relay == INSTANCE AtLeastOnceRelay WITH
    owed    <- {e \in Events : status[e] \in {"pending", "processing"}},
    settled <- {e \in Events : status[e] = "processed"},
    relayed <- {e \in Events : publishes[e] > 0}

\* Whatever the goroutines, workers, recovery and crashes do, an accepted
\* event stays owed until it has been relayed, and only relayed events are
\* settled.
ImplementsRelay == Relay!RelaySpec
=============================================================================
