---------------------------- MODULE LoginAlerts ----------------------------
(***************************************************************************)
(* The notification service's consumer and outbox.  A login event makes    *)
(* handleNewSession ask the auth service for the user's sessions and       *)
(* insert one outbox row for each of the others; the outbox worker         *)
(* publishes every row to the queue the service itself consumes; and       *)
(* handlePushNotification hands that message to the push provider.         *)
(*                                                                         *)
(* One service process and one user.  The outbox code is the auth          *)
(* service's on another table, without ProcessSingleEvent; module Outbox   *)
(* has the interplay of several processes.                                 *)
(***************************************************************************)
EXTENDS SubscriberHandle, Functions

CONSTANTS Logins,        \* messages with a login event
          Pushes,        \* message ids of published rows (bound: their number)
          Sessions,      \* session ids of the user
          NewSession,    \* the session each login event announces
          MaxRows,       \* bound: outbox rows
          MaxCrashes,    \* bound: crashes of the process
          NoAlert,
          NoRow

ASSUME AlertsAssumption ==
    /\ Messages = Logins \cup Pushes /\ Logins \cap Pushes = {}
    /\ NewSession \in [Logins -> Sessions]
    /\ MaxRows \in Nat /\ MaxCrashes \in Nat
    /\ NoRow \notin 1..MaxRows /\ NoAlert \notin [login : Logins, session : Sessions]

Rows == 1..MaxRows
Alert == [login : Logins, session : Sessions]

VARIABLES active,  \* the user's sessions in the auth service
          found,   \* what GetUserActiveSessions told a worker: {} or {answer}
          alert,   \* the payload of each outbox row
          row,     \* its status
          phase, batch,  \* ProcessBatch
          about,   \* the row each push message was published for
          sent,    \* rows the push provider has accepted
          crashes

outbox == <<alert, row>>
worker == <<phase, batch>>
vars == <<handleVars, active, found, outbox, worker, about, sent, crashes>>

NoBatch == [r \in Rows |-> "no"]

TypeOK ==
    /\ HandleTypeOK
    /\ active \subseteq Sessions
    /\ found \in [Workers -> SUBSET SUBSET Sessions]
    /\ alert \in [Rows -> Alert \cup {NoAlert}]
    /\ row \in [Rows -> {"absent", "pending", "processing", "processed"}]
    /\ phase \in {"idle", "running", "marking"}
    /\ batch \in [Rows -> {"no", "claimed", "published", "failed"}]
    /\ about \in [Pushes -> Rows \cup {NoRow}]
    /\ sent \subseteq Rows
    /\ crashes \in 0..MaxCrashes

Init ==
    /\ HandleInit
    /\ active = Sessions
    /\ found = [w \in Workers |-> {}]
    /\ alert = [r \in Rows |-> NoAlert]
    /\ row = [r \in Rows |-> "absent"]
    /\ phase = "idle"
    /\ batch = NoBatch
    /\ about = [m \in Pushes |-> NoRow]
    /\ sent = {}
    /\ crashes = 0

SetRows(S, st) ==
    /\ row' = [r \in Rows |-> IF r \in S THEN st ELSE row[r]]
    /\ UNCHANGED alert

-----------------------------------------------------------------------------
(* The auth service: a logged out session never comes back, and a session   *)
(* that starts later is announced by an event of its own.  An announced     *)
(* session is filtered out whether it is still there or not.               *)
SessionEnds(s) ==
    /\ s \in active \ Range(NewSession)
    /\ active' = active \ {s}
    /\ UNCHANGED <<handleVars, found, outbox, worker, about, sent, crashes>>

(* The auth outbox publishes a login event.                                *)
LoginArrives(m) ==
    /\ Arrive(m)
    /\ UNCHANGED <<active, found, outbox, worker, about, sent, crashes>>

-----------------------------------------------------------------------------
(* handleNewSession, in its two calls.                                     *)
HandlesLogin(w) == step[w] = "handle" /\ msg[w] \in Logins

\* The auth service's answer: the rows of the user at the time of its SELECT.
GetActiveSessions == active

GetUserActiveSessions(w) ==
    /\ HandlesLogin(w) /\ found[w] = {}
    /\ \/ found' = [found EXCEPT ![w] = {GetActiveSessions}] /\ UNCHANGED <<step, msg>>
       \/ Goto(w, "failed") /\ UNCHANGED found
    /\ UNCHANGED <<queue, table, active, outbox, worker, about, sent, crashes>>

Others(w) == (UNION found[w]) \ {NewSession[msg[w]]}

\* Mutant: a row at a time, and the first one only.
InsertFirst(w) ==
    \E r \in Rows, s \in Others(w) :
        /\ row[r] = "absent"
        /\ alert' = [alert EXCEPT ![r] = [login |-> msg[w], session |-> s]]
        /\ row' = [row EXCEPT ![r] = "pending"]

\* One INSERT of all rows, which take the next ids.
InsertOutboxEvents(w) ==
    LET free == {r \in Rows : row[r] = "absent"}
        ids == {r \in free : Cardinality({q \in free : q < r}) < Cardinality(Others(w))}
    IN  \E f \in Bijection(ids, Others(w)) :
          /\ alert' = [r \in Rows |-> IF r \in ids
                         THEN [login |-> msg[w], session |-> f[r]] ELSE alert[r]]
          /\ row' = [r \in Rows |-> IF r \in ids THEN "pending" ELSE row[r]]

\* Without another session nothing is inserted; an error of the insert may come
\* after it took effect.
StoreAlerts(w) ==
    /\ HandlesLogin(w) /\ found[w] # {}
    /\ \/ Others(w) = {} /\ UNCHANGED outbox /\ Goto(w, "sent")
       \/ Others(w) # {} /\ InsertOutboxEvents(w) /\ Goto(w, "sent")
       \/ /\ Others(w) # {}
          /\ InsertOutboxEvents(w) \/ UNCHANGED outbox
          /\ Goto(w, "failed")
    /\ found' = [found EXCEPT ![w] = {}]
    /\ UNCHANGED <<queue, table, active, worker, about, sent, crashes>>

\* The push provider takes the notification.
Send(r) == sent' = sent \cup {r}

\* Mutant: Send's error is dropped.
SendIgnored(w) ==
    /\ step[w] = "handle" /\ msg[w] \in Pushes
    /\ Send(about[msg[w]]) \/ UNCHANGED sent
    /\ Goto(w, "sent")
    /\ UNCHANGED <<queue, table, active, found, outbox, worker, about, crashes>>

(* handlePushNotification: Send, whose error may come after the provider    *)
(* took the notification.                                                  *)
SendPush(w) ==
    /\ step[w] = "handle" /\ msg[w] \in Pushes
    /\ \/ Send(about[msg[w]]) /\ Goto(w, "sent")
       \/ (Send(about[msg[w]]) \/ UNCHANGED sent) /\ Goto(w, "failed")
    /\ UNCHANGED <<queue, table, active, found, outbox, worker, about, crashes>>

-----------------------------------------------------------------------------
(* The outbox worker.  It claims any of the pending rows: order and LIMIT    *)
(* are for module Outbox.  The claim's commit may report an error although  *)
(* it took effect, and the batch is dropped.                               *)
ClaimRows(S) ==
    /\ S # {} /\ \A r \in S : row[r] = "pending"
    /\ SetRows(S, "processing")

ClaimOutboxEvents(S) ==
    /\ phase = "idle"
    /\ ClaimRows(S)
    /\ \/ phase' = "running" /\ batch' = [r \in Rows |-> IF r \in S THEN "claimed" ELSE "no"]
       \/ UNCHANGED worker
    /\ UNCHANGED <<handleVars, active, found, about, sent, crashes>>

\* A message of its own for every Publish.
Enqueue(r) ==
    \E m \in Pushes :
        /\ place[m] = "unsent"
        /\ place' = [place EXCEPT ![m] = "queued"]
        /\ about' = [about EXCEPT ![m] = r]

\* Mutant: a row whose publish failed goes on the processed list.
ProcessEventBlindly(r) ==
    /\ phase = "running" /\ batch[r] = "claimed"
    /\ batch' = [batch EXCEPT ![r] = "published"]
    /\ Enqueue(r) \/ UNCHANGED <<place, about>>
    /\ UNCHANGED <<lease, step, msg, status, redeliveries, active, found, outbox,
                   phase, sent, crashes>>

\* Publish, whose error may come after the broker took the message.
ProcessEvent(r) ==
    /\ phase = "running" /\ batch[r] = "claimed"
    /\ \/ batch' = [batch EXCEPT ![r] = "published"] /\ Enqueue(r)
       \/ /\ batch' = [batch EXCEPT ![r] = "failed"]
          /\ Enqueue(r) \/ UNCHANGED <<place, about>>
    /\ UNCHANGED <<lease, step, msg, status, redeliveries, active, found, outbox,
                   phase, sent, crashes>>

With(outcome) == {r \in Rows : batch[r] = outcome}

MarkProcessedRows == SetRows(With("published"), "processed")

\* The error of either mark is only logged.
MarkEventsProcessed ==
    /\ phase = "running" /\ With("claimed") = {}
    /\ MarkProcessedRows \/ UNCHANGED outbox
    /\ phase' = "marking"
    /\ UNCHANGED <<handleVars, active, found, batch, about, sent, crashes>>

MarkEventsFailed ==
    /\ phase = "marking"
    /\ SetRows(With("failed"), "pending") \/ UNCHANGED outbox
    /\ phase' = "idle" /\ batch' = NoBatch
    /\ UNCHANGED <<handleVars, active, found, about, sent, crashes>>

(* locked_until has passed for some of the rows a crash, a lost claim or a  *)
(* lost mark left behind.  The lock outlives a batch at work; module Outbox *)
(* has the batches that overrun it.                                        *)
Stale(r) == row[r] = "processing" /\ batch[r] = "no"

RecoverStaleEvents(S) ==
    /\ S # {} /\ \A r \in S : Stale(r)
    /\ SetRows(S, "pending")
    /\ UNCHANGED <<handleVars, active, found, worker, about, sent, crashes>>

-----------------------------------------------------------------------------
(* The process dies and restarts: the broker takes every delivery back.     *)
Crash ==
    /\ crashes < MaxCrashes
    /\ crashes' = crashes + 1
    /\ place' = [m \in Messages |-> IF place[m] = "held" THEN "queued" ELSE place[m]]
    /\ lease' = [m \in Messages |-> NoWorker]
    /\ step' = [w \in Workers |-> "idle"]
    /\ msg' = [w \in Workers |-> NoMessage]
    /\ found' = [w \in Workers |-> {}]
    /\ phase' = "idle" /\ batch' = NoBatch
    /\ UNCHANGED <<status, redeliveries, active, outbox, about, sent>>

(* Handle and the table notification_processed_messages.                   *)
Consume ==
    HandleNext /\ UNCHANGED <<active, found, outbox, worker, about, sent, crashes>>

WorkerNext ==
    \/ \E S \in SUBSET Rows : ClaimOutboxEvents(S) \/ RecoverStaleEvents(S)
    \/ \E r \in Rows : ProcessEvent(r)
    \/ MarkEventsProcessed \/ MarkEventsFailed

Next ==
    \/ Consume
    \/ \E w \in Workers : GetUserActiveSessions(w) \/ StoreAlerts(w) \/ SendPush(w)
    \/ \E m \in Logins : LoginArrives(m)
    \/ \E s \in Sessions : SessionEnds(s)
    \/ WorkerNext
    \/ Crash

Spec == Init /\ [][Next]_vars

-----------------------------------------------------------------------------
(* Properties.                                                             *)

HasRow(l, s) == \E r \in Rows : alert[r] = [login |-> l, session |-> s]

\* A login is announced to all of the user's other active sessions or to none
\* of them, and to all once its message is 'completed': through failed inserts,
\* crashes, logouts in between and repeated deliveries, although handleNewSession
\* reads the sessions before it writes the rows, and the status comes in a third
\* transaction.
AlertsComplete ==
    \A l \in Logins :
        LET others == active \ {NewSession[l]} IN
        status[l] = "completed" \/ (\E s \in others : HasRow(l, s)) =>
            \A s \in others : HasRow(l, s)

\* A push message is 'completed' only if the provider took the notification,
\* however often the message was handed out and wherever a crash cut in.
CompletedPushSent ==
    \A m \in Pushes : status[m] = "completed" => about[m] \in sent

\* The message still is at the broker or in the dead letter queue, or the
\* service has put its failure on record.
Traceable(m) ==
    place[m] \in {"queued", "held", "retry", "dropped"} \/ status[m] = "failed"

\* As long as no delivery was taken back under a live worker, an alert never
\* vanishes between the outbox, the queue and the provider, crashes included: a
\* row that is closed but not sent has a message that can be traced.
AlertAccountedFor ==
    redeliveries = 0 =>
        \A r \in Rows :
            row[r] = "processed" /\ r \notin sent =>
                \E m \in Pushes : about[m] = r /\ Traceable(m)

-----------------------------------------------------------------------------
(* The inductive invariant.                                                *)

\* A message was published for the row.
Enqueued(r) == \E m \in Pushes : about[m] = r /\ place[m] # "unsent"

\* A row in the table keeps its payload; only such rows are in the batch; what
\* the batch takes for published, and what is closed, was enqueued; and a message
\* that was never published has no status, a push that was has its row.
RowsConsistent ==
    /\ \A r \in Rows :
         /\ alert[r] = NoAlert <=> row[r] = "absent"
         /\ batch[r] # "no" => row[r] # "absent"
         /\ batch[r] = "published" \/ row[r] = "processed" => Enqueued(r)
    /\ \A m \in Messages : place[m] = "unsent" => status[m] = "absent"
    /\ \A m \in Pushes : place[m] # "unsent" => about[m] \in Rows

Announced(l) == \A s \in active \ {NewSession[l]} : HasRow(l, s)

\* The answer a handler works with has every session that is still active; and a
\* handler that returns nil has done its work.
HandlersConsistent ==
    \A w \in Workers :
        /\ found[w] # {} => HandlesLogin(w) /\ active \subseteq UNION found[w]
        /\ step[w] = "sent" /\ msg[w] \in Logins => Announced(msg[w])
        /\ step[w] = "sent" /\ msg[w] \in Pushes => about[msg[w]] \in sent

\* Unless a delivery was taken back, an acknowledged push was sent or is on
\* record as failed.
Concluded(m) == about[m] \in sent \/ status[m] = "failed"

AckedIsConcluded ==
    redeliveries = 0 =>
        /\ \A m \in Pushes : place[m] = "acked" => Concluded(m)
        /\ \A w \in Workers : step[w] = "ack" /\ msg[w] \in Pushes => Concluded(msg[w])

AlertsIInv ==
    TypeOK /\ SoleWorker /\ RowsConsistent /\ HandlersConsistent /\ AckedIsConcluded
=============================================================================
