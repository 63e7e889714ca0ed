------------------------- MODULE LoginAlertsProofs -------------------------
(***************************************************************************)
(* Every other session of the user is told of a login, and no alert        *)
(* vanishes on its way to the push provider, for any number of logins,     *)
(* sessions, rows and workers.                                             *)
(***************************************************************************)
EXTENDS LoginAlerts, TLAPS

USE HandleAssumption, AlertsAssumption

-----------------------------------------------------------------------------
(* Handle, its broker and its table.                                       *)

(* What Handle does keeps the types.                                        *)
LEMMA HandleTypes ==
  ASSUME HandleTypeOK, SoleWorker, HandleNext
  PROVE  HandleTypeOK'
<1> USE DEF HandleTypeOK, Places, Steps, Statuses, Goto, SetStatus, queue, table
<1>0. ASSUME NEW w \in Workers, step[w] # "idle" PROVE msg[w] \in Messages
  BY <1>0 DEF SoleWorker
<1>1. ASSUME NEW m \in Messages, TakeBack(m) \/ RetryEnds(m) PROVE HandleTypeOK'
  BY <1>1 DEF TakeBack, RetryEnds
<1>2. ASSUME NEW w \in Workers, NEW m \in Messages, Deliver(w, m) PROVE HandleTypeOK'
  BY <1>2 DEF Deliver
<1>3. ASSUME NEW w \in Workers, RunProcessSelect(w) \/ RunProcessWrite(w) \/ RunProcessError(w)
      PROVE  HandleTypeOK'
  BY <1>0, <1>3 DEF RunProcessSelect, RunProcessWrite, RunProcessError, WriteProcessing
<1>4. ASSUME NEW w \in Workers, MarkSent(w) \/ MarkFailed(w) PROVE HandleTypeOK'
  BY <1>0, <1>4 DEF MarkSent, MarkFailed
<1>5. ASSUME NEW w \in Workers, Answer(w) PROVE HandleTypeOK'
  BY <1>0, <1>5 DEF Answer
<1> QED BY <1>1, <1>2, <1>3, <1>4, <1>5, HandleNext DEF HandleNext

(* A message has one worker at a time until a delivery is taken back.       *)
LEMMA HandleSoleWorker ==
  ASSUME HandleTypeOK, SoleWorker, HandleNext
  PROVE  SoleWorker'
<1> USE DEF HandleTypeOK, SoleWorker, Places, Steps, Statuses, Goto, queue, table
<1>1. ASSUME NEW m \in Messages, TakeBack(m) \/ RetryEnds(m) PROVE SoleWorker'
  BY <1>1 DEF TakeBack, RetryEnds
<1>2. ASSUME NEW w \in Workers, NEW m \in Messages, Deliver(w, m) PROVE SoleWorker'
  BY <1>2 DEF Deliver
<1>3. ASSUME NEW w \in Workers, RunProcessSelect(w) \/ RunProcessWrite(w) \/ RunProcessError(w)
      PROVE  SoleWorker'
  BY <1>3 DEF RunProcessSelect, RunProcessWrite, RunProcessError
<1>4. ASSUME NEW w \in Workers, MarkSent(w) \/ MarkFailed(w) PROVE SoleWorker'
  BY <1>4 DEF MarkSent, MarkFailed
<1>5. ASSUME NEW w \in Workers, Answer(w) PROVE SoleWorker'
  BY <1>5 DEF Answer
<1> QED BY <1>1, <1>2, <1>3, <1>4, <1>5, HandleNext DEF HandleNext

(* What a step of Handle can do to the messages and to the statuses: it      *)
(* never unsends one; a worker that comes to "sent" was there before; only  *)
(* MarkSent writes 'completed'.                                            *)
HandleEffect ==
    /\ \A m \in Messages : place'[m] = "unsent" <=> place[m] = "unsent"
    /\ \A m \in Messages : place[m] = "unsent" => status'[m] = status[m]
    /\ \A w \in Workers : step'[w] = "sent" => step[w] = "sent" /\ msg'[w] = msg[w]
    /\ \A w \in Workers : step[w] = "handle" =>
          (step'[w] = "handle" /\ msg'[w] = msg[w])
    /\ \A m \in Messages : status'[m] = "completed" =>
          status[m] = "completed" \/ \E w \in Workers : step[w] = "sent" /\ msg[w] = m

LEMMA HandleEffects ==
  ASSUME HandleTypeOK, SoleWorker, HandleNext
  PROVE  HandleEffect
<1> USE DEF HandleTypeOK, HandleEffect, Places, Steps, Statuses, Goto, SetStatus, queue, table
<1>0. ASSUME NEW w \in Workers, step[w] # "idle"
      PROVE  msg[w] \in Messages /\ place[msg[w]] # "unsent"
  BY <1>0 DEF SoleWorker
<1>1. ASSUME NEW m \in Messages, TakeBack(m) \/ RetryEnds(m) PROVE HandleEffect
  BY <1>1 DEF TakeBack, RetryEnds
<1>2. ASSUME NEW w \in Workers, NEW m \in Messages, Deliver(w, m) PROVE HandleEffect
  BY <1>2 DEF Deliver
<1>3. ASSUME NEW w \in Workers, RunProcessSelect(w) PROVE HandleEffect
  BY <1>0, <1>3 DEF RunProcessSelect
<1>4. ASSUME NEW w \in Workers, RunProcessWrite(w) \/ RunProcessError(w) PROVE HandleEffect
  BY <1>0, <1>4 DEF RunProcessWrite, RunProcessError, WriteProcessing
<1>5. ASSUME NEW w \in Workers, MarkSent(w) \/ MarkFailed(w) PROVE HandleEffect
  BY <1>0, <1>5 DEF MarkSent, MarkFailed
<1>6. ASSUME NEW w \in Workers, Answer(w) PROVE HandleEffect
  BY <1>0, <1>6 DEF Answer
<1> QED BY <1>1, <1>2, <1>3, <1>4, <1>5, <1>6, HandleNext DEF HandleNext

(* Handle answers "ack" only with the push sent or its failure recorded.     *)
LEMMA HandleConcludes ==
  ASSUME TypeOK, SoleWorker, HandlersConsistent, AckedIsConcluded,
         HandleNext, about' = about, sent' = sent
  PROVE  AckedIsConcluded'
<1> USE DEF TypeOK, HandleTypeOK, SoleWorker, HandlersConsistent, AckedIsConcluded, Concluded,
            Places, Steps, Statuses, Goto, SetStatus, queue, table
<1>1. ASSUME NEW m \in Messages, TakeBack(m) \/ RetryEnds(m) PROVE AckedIsConcluded'
  BY <1>1 DEF TakeBack, RetryEnds
<1>2. ASSUME NEW w \in Workers, NEW m \in Messages, Deliver(w, m) PROVE AckedIsConcluded'
  BY <1>2 DEF Deliver
<1>3. ASSUME NEW w \in Workers, RunProcessSelect(w) PROVE AckedIsConcluded'
  BY <1>3 DEF RunProcessSelect
<1>4. ASSUME NEW w \in Workers, RunProcessWrite(w) \/ RunProcessError(w)
      PROVE  AckedIsConcluded'
  BY <1>4 DEF RunProcessWrite, RunProcessError, WriteProcessing
<1>5. ASSUME NEW w \in Workers, MarkSent(w) PROVE AckedIsConcluded'
  BY <1>5 DEF MarkSent
<1>6. ASSUME NEW w \in Workers, MarkFailed(w) PROVE AckedIsConcluded'
  BY <1>6 DEF MarkFailed
<1>7. ASSUME NEW w \in Workers, Answer(w) PROVE AckedIsConcluded'
  BY <1>7 DEF Answer
<1> QED BY <1>1, <1>2, <1>3, <1>4, <1>5, <1>6, <1>7, HandleNext DEF HandleNext

-----------------------------------------------------------------------------
(* One lemma for each part of the service that takes steps.                 *)

AlertsInv == AlertsIInv /\ AlertsComplete /\ CompletedPushSent

(* The consumer.                                                           *)
LEMMA Consumes ==
  ASSUME AlertsInv, Consume
  PROVE  AlertsInv'
<1> USE DEF AlertsInv, AlertsIInv
<1>0. /\ HandleNext /\ UNCHANGED <<active, found, alert, row, phase, batch, about, sent, crashes>>
      /\ HandleTypeOK
  BY DEF Consume, outbox, worker, TypeOK
<1>1. HandleEffect /\ HandleTypeOK' /\ SoleWorker'
  BY <1>0, HandleTypes, HandleSoleWorker, HandleEffects
<1>2. TypeOK'
  BY <1>0, <1>1 DEF TypeOK
<1>3. RowsConsistent'
  BY <1>0, <1>1 DEF RowsConsistent, Enqueued, HandleEffect
<1>4. HandlersConsistent'
  BY <1>0, <1>1 DEF HandlersConsistent, HandlesLogin, Announced, HasRow, HandleEffect
<1>5. AckedIsConcluded'
  BY <1>0, HandleConcludes
<1>6. AlertsComplete'
  <2>1. \A l \in Logins : status'[l] = "completed" => status[l] = "completed" \/ Announced(l)
    BY <1>1 DEF HandleEffect, HandlersConsistent
  <2> QED BY <1>0, <2>1 DEF AlertsComplete, Announced, HasRow
<1>7. CompletedPushSent'
  BY <1>0, <1>1 DEF CompletedPushSent, HandleEffect, HandlersConsistent
<1> QED BY <1>1, <1>2, <1>3, <1>4, <1>5, <1>6, <1>7

(* The outbox worker and the recovery: a row in the table stays there with   *)
(* its payload, and only what was published is closed.                      *)
LEMMA WorksOnOutbox ==
  ASSUME AlertsInv, UNCHANGED <<handleVars, active, found, alert, about, sent, crashes>>,
         row' \in [Rows -> {"absent", "pending", "processing", "processed"}],
         phase' \in {"idle", "running", "marking"},
         batch' \in [Rows -> {"no", "claimed", "published", "failed"}],
         \A r \in Rows : row'[r] = "absent" <=> row[r] = "absent",
         \A r \in Rows : row'[r] = "processed" => row[r] = "processed" \/ batch[r] = "published",
         \A r \in Rows : batch'[r] # "no" => row[r] # "absent",
         \A r \in Rows : batch'[r] = "published" => batch[r] = "published"
  PROVE  AlertsInv'
<1> USE DEF AlertsInv, AlertsIInv, handleVars
<1>1. TypeOK' /\ SoleWorker'
  BY DEF TypeOK, HandleTypeOK, SoleWorker
<1>2. RowsConsistent'
  BY DEF RowsConsistent, Enqueued
<1>3. HandlersConsistent' /\ AckedIsConcluded'
  BY DEF HandlersConsistent, HandlesLogin, Announced, HasRow, AckedIsConcluded, Concluded
<1>4. AlertsComplete' /\ CompletedPushSent'
  BY DEF AlertsComplete, HasRow, CompletedPushSent
<1> QED BY <1>1, <1>2, <1>3, <1>4

LEMMA WorkerSteps ==
  ASSUME AlertsInv,
         \/ \E S \in SUBSET Rows : ClaimOutboxEvents(S) \/ RecoverStaleEvents(S)
         \/ MarkEventsProcessed \/ MarkEventsFailed
  PROVE  AlertsInv'
<1>0. /\ row \in [Rows -> {"absent", "pending", "processing", "processed"}]
      /\ batch \in [Rows -> {"no", "claimed", "published", "failed"}]
      /\ phase \in {"idle", "running", "marking"}
      /\ \A r \in Rows : batch[r] # "no" => row[r] # "absent"
  BY DEF AlertsInv, AlertsIInv, TypeOK, RowsConsistent
<1> USE DEF SetRows, worker, outbox
<1>1. ASSUME NEW S \in SUBSET Rows, ClaimOutboxEvents(S) PROVE AlertsInv'
  <2>1. /\ UNCHANGED <<handleVars, active, found, alert, about, sent, crashes>>
        /\ \A r \in S : row[r] = "pending"
        /\ row' = [r \in Rows |-> IF r \in S THEN "processing" ELSE row[r]]
        /\ phase' \in {"running", phase}
        /\ batch' \in {batch, [r \in Rows |-> IF r \in S THEN "claimed" ELSE "no"]}
    BY <1>1 DEF ClaimOutboxEvents, ClaimRows
  <2> QED BY <1>0, <2>1, WorksOnOutbox
<1>2. ASSUME NEW S \in SUBSET Rows, RecoverStaleEvents(S) PROVE AlertsInv'
  <2>1. /\ UNCHANGED <<handleVars, active, found, alert, about, sent, crashes, phase, batch>>
        /\ \A r \in S : row[r] = "processing"
        /\ row' = [r \in Rows |-> IF r \in S THEN "pending" ELSE row[r]]
    BY <1>2 DEF RecoverStaleEvents, Stale
  <2> QED BY <1>0, <2>1, WorksOnOutbox
<1>3. CASE MarkEventsProcessed
  <2>1. /\ UNCHANGED <<handleVars, active, found, alert, about, sent, crashes, batch>>
        /\ phase' = "marking"
        /\ row' \in {row, [r \in Rows |-> IF r \in With("published") THEN "processed" ELSE row[r]]}
    BY <1>3 DEF MarkEventsProcessed, MarkProcessedRows
  <2> QED BY <1>0, <2>1, WorksOnOutbox DEF With
<1>4. CASE MarkEventsFailed
  <2>1. /\ UNCHANGED <<handleVars, active, found, alert, about, sent, crashes>>
        /\ phase' = "idle" /\ batch' = [r \in Rows |-> "no"]
        /\ row' \in {row, [r \in Rows |-> IF r \in With("failed") THEN "pending" ELSE row[r]]}
    BY <1>4 DEF MarkEventsFailed, NoBatch
  <2> QED BY <1>0, <2>1, WorksOnOutbox DEF With
<1> QED BY <1>1, <1>2, <1>3, <1>4

(* A row is published: a message of its own, about that row; or an error,    *)
(* with or without the message.                                            *)
LEMMA Publishes ==
  ASSUME AlertsInv, NEW r \in Rows, ProcessEvent(r)
  PROVE  AlertsInv'
<1> USE DEF AlertsInv, AlertsIInv
<1>0. /\ UNCHANGED <<lease, step, msg, status, redeliveries, active, found, alert, row, phase,
                     sent, crashes>>
      /\ batch[r] = "claimed" /\ row[r] # "absent"
      /\ \/ batch' = [batch EXCEPT ![r] = "published"] /\ Enqueue(r)
         \/ batch' = [batch EXCEPT ![r] = "failed"] /\ (Enqueue(r) \/ UNCHANGED <<place, about>>)
  BY DEF ProcessEvent, outbox, RowsConsistent
<1>1. /\ place' \in [Messages -> Places] /\ about' \in [Pushes -> Rows \cup {NoRow}]
      /\ \A m \in Messages : place[m] # "unsent" => place'[m] = place[m]
      /\ \A m \in Messages : place'[m] = "unsent" => place[m] = "unsent"
      /\ \A m \in Messages : place'[m] = "acked" => place[m] = "acked"
      /\ \A m \in Pushes : place[m] # "unsent" => about'[m] = about[m]
      /\ \A m \in Pushes : place'[m] # "unsent" => about'[m] \in Rows
      /\ batch'[r] = "published" => \E m \in Pushes : about'[m] = r /\ place'[m] # "unsent"
  <2>1. CASE Enqueue(r)
    BY <2>1 DEF Enqueue, TypeOK, HandleTypeOK, Places, RowsConsistent
  <2>2. CASE UNCHANGED <<place, about>> /\ batch' = [batch EXCEPT ![r] = "failed"]
    BY <2>2 DEF TypeOK, HandleTypeOK, RowsConsistent
  <2> QED BY <1>0, <2>1, <2>2
<1>2. /\ batch' \in [Rows -> {"no", "claimed", "published", "failed"}]
      /\ \A q \in Rows \ {r} : batch'[q] = batch[q]
  BY <1>0 DEF TypeOK
<1>3. TypeOK'
  BY <1>0, <1>1, <1>2 DEF TypeOK, HandleTypeOK
<1>4. SoleWorker'
  BY <1>0, <1>1 DEF SoleWorker
<1>5. RowsConsistent'
  <2>1. \A q \in Rows : Enqueued(q) => Enqueued(q)'
    BY <1>1 DEF Enqueued
  <2>2. batch'[r] = "published" => Enqueued(r)'
    BY <1>1 DEF Enqueued
  <2> QED BY <1>0, <1>1, <1>2, <2>1, <2>2 DEF RowsConsistent
<1>6. HandlersConsistent'
  BY <1>0, <1>1 DEF HandlersConsistent, HandlesLogin, Announced, HasRow, SoleWorker
<1>7. AckedIsConcluded'
  BY <1>0, <1>1 DEF AckedIsConcluded, Concluded, SoleWorker
<1>8. AlertsComplete'
  BY <1>0 DEF AlertsComplete, HasRow
<1>9. CompletedPushSent'
  BY <1>0, <1>1 DEF CompletedPushSent, RowsConsistent
<1> QED BY <1>3, <1>4, <1>5, <1>6, <1>7, <1>8, <1>9

(* One INSERT of a row for each of the other sessions: what was there stays, *)
(* and none of them is left out.                                           *)
LEMMA Inserts ==
  ASSUME TypeOK, RowsConsistent, NEW w \in Workers, msg[w] \in Logins, InsertOutboxEvents(w)
  PROVE  /\ alert' \in [Rows -> Alert \cup {NoAlert}]
         /\ row' \in [Rows -> {"absent", "pending", "processing", "processed"}]
         /\ \A r \in Rows : alert'[r] = NoAlert <=> row'[r] = "absent"
         /\ \A r \in Rows : row[r] # "absent" => row'[r] = row[r] /\ alert'[r] = alert[r]
         /\ \A r \in Rows : row'[r] \in {row[r], "pending"}
         /\ \A r \in Rows : alert'[r] # alert[r] =>
               \E s \in Others(w) : alert'[r] = [login |-> msg[w], session |-> s]
         /\ \A s \in Others(w) : \E r \in Rows : alert'[r] = [login |-> msg[w], session |-> s]
<1> DEFINE free == {r \in Rows : row[r] = "absent"}
           ids == {r \in free : Cardinality({q \in free : q < r}) < Cardinality(Others(w))}
<1>a. ids \in SUBSET Rows /\ \A r \in ids : row[r] = "absent"
  OBVIOUS
<1>b. PICK f \in Bijection(ids, Others(w)) :
        /\ alert' = [r \in Rows |-> IF r \in ids
                        THEN [login |-> msg[w], session |-> f[r]] ELSE alert[r]]
        /\ row' = [r \in Rows |-> IF r \in ids THEN "pending" ELSE row[r]]
  BY DEF InsertOutboxEvents
<1> HIDE DEF ids
<1>1. f \in [ids -> Others(w)] /\ \A s \in Others(w) : \E r \in ids : f[r] = s
  BY <1>b DEF Bijection, Injection, Surjection
<1>2. Others(w) \subseteq Sessions
  BY DEF TypeOK, Others
<1>3. \A s \in Others(w) : [login |-> msg[w], session |-> s] \in Alert
  BY <1>2 DEF Alert
<1>4. NoAlert \notin Alert
  BY DEF Alert
<1>5. alert' \in [Rows -> Alert \cup {NoAlert}]
  BY <1>b, <1>1, <1>3 DEF TypeOK
<1>6. row' \in [Rows -> {"absent", "pending", "processing", "processed"}]
  BY <1>b DEF TypeOK
<1>7. \A r \in Rows : alert'[r] = NoAlert <=> row'[r] = "absent"
  BY <1>a, <1>b, <1>1, <1>3, <1>4 DEF RowsConsistent
<1>8. \A s \in Others(w) : \E r \in Rows : alert'[r] = [login |-> msg[w], session |-> s]
  BY <1>a, <1>b, <1>1
<1>9. \A r \in Rows : alert'[r] # alert[r] =>
         \E s \in Others(w) : alert'[r] = [login |-> msg[w], session |-> s]
  BY <1>b, <1>1
<1>10. /\ \A r \in Rows : row[r] # "absent" => row'[r] = row[r] /\ alert'[r] = alert[r]
       /\ \A r \in Rows : row'[r] \in {row[r], "pending"}
  BY <1>a, <1>b
<1> QED BY <1>5, <1>6, <1>7, <1>8, <1>9, <1>10

(* handleNewSession stores its alerts, or reports an error after it did.     *)
LEMMA StoresAlerts ==
  ASSUME AlertsInv, NEW w \in Workers, StoreAlerts(w)
  PROVE  AlertsInv'
<1> USE DEF AlertsInv, AlertsIInv
<1>0. /\ UNCHANGED <<place, lease, redeliveries, status, msg, active, phase, batch, about, sent, crashes>>
      /\ step[w] = "handle" /\ msg[w] \in Logins /\ found[w] # {}
      /\ active \subseteq UNION found[w]
      /\ found' = [found EXCEPT ![w] = {}]
      /\ step' \in {[step EXCEPT ![w] = "sent"], [step EXCEPT ![w] = "failed"]}
      /\ \/ InsertOutboxEvents(w)
         \/ UNCHANGED <<alert, row>> /\ (step' = [step EXCEPT ![w] = "sent"] => Others(w) = {})
  BY DEF StoreAlerts, HandlesLogin, HandlersConsistent, Goto, queue, table, worker, outbox,
         TypeOK, HandleTypeOK
<1>1. /\ alert' \in [Rows -> Alert \cup {NoAlert}]
      /\ row' \in [Rows -> {"absent", "pending", "processing", "processed"}]
      /\ \A r \in Rows : alert'[r] = NoAlert <=> row'[r] = "absent"
      /\ \A r \in Rows : row[r] # "absent" => row'[r] = row[r] /\ alert'[r] = alert[r]
      /\ \A r \in Rows : row'[r] \in {row[r], "pending"}
      /\ \A r \in Rows : alert'[r] # alert[r] =>
            \E s \in Others(w) : alert'[r] = [login |-> msg[w], session |-> s]
  <2>1. CASE InsertOutboxEvents(w)
    BY <1>0, <2>1, Inserts
  <2>2. CASE UNCHANGED <<alert, row>>
    BY <2>2 DEF TypeOK, RowsConsistent
  <2> QED BY <1>0, <2>1, <2>2
<1>2. active \ {NewSession[msg[w]]} \subseteq Others(w)
  BY <1>0 DEF Others
<1>3. \A l \in Logins, s \in Sessions : HasRow(l, s) => HasRow(l, s)'
  <2> SUFFICES ASSUME NEW l \in Logins, NEW s \in Sessions, NEW r \in Rows,
                      alert[r] = [login |-> l, session |-> s]
               PROVE  alert'[r] = alert[r]
    BY DEF HasRow
  <2>1. alert[r] \in Alert
    BY DEF Alert
  <2>2. NoAlert \notin Alert
    BY DEF Alert
  <2>3. row[r] # "absent"
    BY <2>1, <2>2 DEF RowsConsistent
  <2> QED BY <1>1, <2>3
<1>4. \A l \in Logins \ {msg[w]}, s \in Sessions : HasRow(l, s)' => HasRow(l, s)
  <2> SUFFICES ASSUME NEW l \in Logins \ {msg[w]}, NEW s \in Sessions, NEW r \in Rows,
                      alert'[r] = [login |-> l, session |-> s]
               PROVE  alert'[r] = alert[r]
    BY DEF HasRow
  <2>1. SUFFICES ASSUME alert'[r] # alert[r] PROVE FALSE
    OBVIOUS
  <2>2. PICK t \in Others(w) : alert'[r] = [login |-> msg[w], session |-> t]
    BY <1>1, <2>1
  <2>3. alert'[r].login = msg[w] /\ alert'[r].login = l
    BY <2>2
  <2> QED BY <2>3
<1>5. InsertOutboxEvents(w) => Announced(msg[w])'
  <2> HAVE InsertOutboxEvents(w)
  <2>1. \A s \in Others(w) : \E r \in Rows : alert'[r] = [login |-> msg[w], session |-> s]
    BY <1>0, Inserts
  <2> QED BY <1>0, <1>2, <2>1 DEF Announced, HasRow
<1>6. step' = [step EXCEPT ![w] = "sent"] => Announced(msg[w])'
  <2>1. Others(w) = {} => Announced(msg[w])'
    BY <1>0, <1>2 DEF Announced
  <2> QED BY <1>0, <1>5, <2>1
<1>7. TypeOK'
  BY <1>0, <1>1 DEF TypeOK, HandleTypeOK, Steps
<1>8. SoleWorker'
  BY <1>0 DEF SoleWorker, TypeOK, HandleTypeOK
<1>9. RowsConsistent'
  BY <1>0, <1>1 DEF RowsConsistent, Enqueued
<1>10. HandlersConsistent'
  <2> SUFFICES ASSUME NEW x \in Workers
               PROVE  /\ found'[x] # {} => HandlesLogin(x)' /\ active' \subseteq UNION found'[x]
                      /\ step'[x] = "sent" /\ msg'[x] \in Logins => Announced(msg[x])'
                      /\ step'[x] = "sent" /\ msg'[x] \in Pushes => about'[msg'[x]] \in sent'
    BY <1>0 DEF HandlersConsistent
  <2>1. CASE x = w
    <3>1. found'[x] = {} /\ msg'[x] \in Logins /\ msg'[x] \notin Pushes
      BY <1>0, <2>1 DEF TypeOK
    <3>2. step'[x] = "sent" => step' = [step EXCEPT ![w] = "sent"]
      BY <1>0, <2>1 DEF TypeOK, HandleTypeOK
    <3> QED BY <1>6, <2>1, <3>1, <3>2
  <2>2. CASE x # w
    <3>1. found'[x] = found[x] /\ step'[x] = step[x] /\ msg'[x] = msg[x]
      BY <1>0, <2>2 DEF TypeOK, HandleTypeOK
    <3>2. ASSUME step[x] = "sent", msg[x] \in Logins PROVE Announced(msg[x])'
      <4>1. \A s \in active \ {NewSession[msg[x]]} : HasRow(msg[x], s) /\ s \in Sessions
        BY <3>2 DEF HandlersConsistent, Announced, TypeOK
      <4> QED BY <1>0, <1>3, <3>2, <4>1 DEF Announced
    <3> QED BY <1>0, <3>1, <3>2 DEF HandlersConsistent, HandlesLogin
  <2> QED BY <2>1, <2>2
<1>11. AckedIsConcluded'
  BY <1>0 DEF AckedIsConcluded, Concluded, TypeOK, HandleTypeOK
<1>12. AlertsComplete'
  <2> SUFFICES ASSUME NEW l \in Logins,
                      status'[l] = "completed" \/ \E s \in active \ {NewSession[l]} : HasRow(l, s)'
               PROVE  Announced(l)'
    BY <1>0 DEF AlertsComplete, Announced
  <2>0. active \subseteq Sessions
    BY DEF TypeOK
  <2>1. Announced(l) => Announced(l)'
    BY <1>0, <1>3, <2>0 DEF Announced
  <2>2. ASSUME status[l] = "completed" \/ \E s \in active \ {NewSession[l]} : HasRow(l, s)
        PROVE  Announced(l)
    BY <2>2 DEF AlertsComplete, Announced
  <2>3. CASE l # msg[w]
    BY <1>0, <1>4, <2>0, <2>1, <2>2, <2>3
  <2>4. CASE l = msg[w] /\ UNCHANGED alert
    BY <1>0, <2>1, <2>2, <2>4 DEF HasRow
  <2> QED BY <1>0, <1>5, <2>3, <2>4
<1>13. CompletedPushSent'
  BY <1>0 DEF CompletedPushSent
<1> QED BY <1>7, <1>8, <1>9, <1>10, <1>11, <1>12, <1>13

(* The rest of what moves in one step: the answer of the auth service, the   *)
(* push, a login event that arrives, a logout, a crash.                     *)
LEMMA AsksForSessions ==
  ASSUME AlertsInv, NEW w \in Workers, GetUserActiveSessions(w)
  PROVE  AlertsInv'
<1> USE DEF AlertsInv, AlertsIInv
<1>0. /\ UNCHANGED <<place, lease, redeliveries, status, msg, active, alert, row, phase, batch,
                     about, sent, crashes>>
      /\ step[w] = "handle" /\ msg[w] \in Logins /\ found[w] = {}
      /\ \/ found' = [found EXCEPT ![w] = {active}] /\ step' = step
         \/ step' = [step EXCEPT ![w] = "failed"] /\ found' = found
  BY DEF GetUserActiveSessions, GetActiveSessions, HandlesLogin, Goto, queue, table, worker, outbox
<1>1. TypeOK' /\ SoleWorker'
  BY <1>0 DEF TypeOK, HandleTypeOK, Steps, SoleWorker
<1>2. RowsConsistent'
  BY <1>0 DEF RowsConsistent, Enqueued
<1>3. HandlersConsistent'
  <2> SUFFICES ASSUME NEW x \in Workers
               PROVE  /\ found'[x] # {} => HandlesLogin(x)' /\ active' \subseteq UNION found'[x]
                      /\ step'[x] = "sent" => step[x] = "sent"
    BY <1>0 DEF HandlersConsistent, Announced, HasRow
  <2>1. step'[x] = "sent" => step[x] = "sent"
    BY <1>0 DEF TypeOK, HandleTypeOK
  <2>2. CASE found'[x] = found[x] /\ (found[x] # {} => step'[x] = step[x])
    BY <1>0, <2>1, <2>2 DEF HandlersConsistent, HandlesLogin
  <2>3. CASE x = w /\ found'[x] = {active} /\ step'[x] = step[x]
    <3>1. UNION {active} = active
      OBVIOUS
    <3> QED BY <1>0, <2>1, <2>3, <3>1 DEF HandlesLogin
  <2> QED BY <1>0, <2>2, <2>3 DEF TypeOK, HandleTypeOK
<1>4. AckedIsConcluded'
  BY <1>0 DEF AckedIsConcluded, Concluded, TypeOK, HandleTypeOK
<1>5. AlertsComplete'
  <2>1. status' = status /\ active' = active /\ alert' = alert
    BY <1>0
  <2> QED BY <2>1 DEF AlertsComplete, HasRow
<1>6. CompletedPushSent'
  BY <1>0 DEF CompletedPushSent
<1> QED BY <1>1, <1>2, <1>3, <1>4, <1>5, <1>6

LEMMA SendsPush ==
  ASSUME AlertsInv, NEW w \in Workers, SendPush(w)
  PROVE  AlertsInv'
<1> USE DEF AlertsInv, AlertsIInv
<1>0. /\ UNCHANGED <<place, lease, redeliveries, status, msg, active, found, alert, row, phase, batch,
                     about, crashes>>
      /\ step[w] = "handle" /\ msg[w] \in Pushes /\ about[msg[w]] \in Rows
      /\ \/ sent' = sent \cup {about[msg[w]]}
            /\ step' \in {[step EXCEPT ![w] = "sent"], [step EXCEPT ![w] = "failed"]}
         \/ sent' = sent /\ step' = [step EXCEPT ![w] = "failed"]
  BY DEF SendPush, Send, Goto, queue, table, worker, outbox, SoleWorker, RowsConsistent
<1>1. TypeOK' /\ SoleWorker'
  BY <1>0 DEF TypeOK, HandleTypeOK, Steps, SoleWorker
<1>2. RowsConsistent'
  BY <1>0 DEF RowsConsistent, Enqueued
<1>3. HandlersConsistent'
  BY <1>0 DEF HandlersConsistent, HandlesLogin, Announced, HasRow, TypeOK, HandleTypeOK
<1>4. AckedIsConcluded'
  BY <1>0 DEF AckedIsConcluded, Concluded, TypeOK, HandleTypeOK
<1>5. AlertsComplete' /\ CompletedPushSent'
  BY <1>0 DEF AlertsComplete, HasRow, CompletedPushSent
<1> QED BY <1>1, <1>2, <1>3, <1>4, <1>5

LEMMA Arrives ==
  ASSUME AlertsInv, NEW m \in Logins, LoginArrives(m)
  PROVE  AlertsInv'
<1> USE DEF AlertsInv, AlertsIInv
<1>0. /\ UNCHANGED <<lease, redeliveries, status, step, msg, active, found, alert, row, phase, batch,
                     about, sent, crashes>>
      /\ place[m] = "unsent" /\ m \in Messages /\ m \notin Pushes
      /\ place' = [place EXCEPT ![m] = "queued"]
  BY DEF LoginArrives, Arrive, table, worker, outbox
<1>1. TypeOK' /\ SoleWorker'
  BY <1>0 DEF TypeOK, HandleTypeOK, Places, SoleWorker
<1>2. RowsConsistent'
  BY <1>0 DEF RowsConsistent, Enqueued, TypeOK, HandleTypeOK
<1>3. HandlersConsistent'
  BY <1>0 DEF HandlersConsistent, HandlesLogin, Announced, HasRow
<1>4. AckedIsConcluded'
  BY <1>0 DEF AckedIsConcluded, Concluded, TypeOK, HandleTypeOK
<1>5. AlertsComplete' /\ CompletedPushSent'
  BY <1>0 DEF AlertsComplete, HasRow, CompletedPushSent
<1> QED BY <1>1, <1>2, <1>3, <1>4, <1>5

LEMMA LogsOut ==
  ASSUME AlertsInv, NEW s \in Sessions, SessionEnds(s)
  PROVE  AlertsInv'
<1> USE DEF AlertsInv, AlertsIInv
<1>0. /\ UNCHANGED <<place, lease, redeliveries, status, step, msg, found, alert, row, phase, batch,
                     about, sent, crashes>>
      /\ active' \subseteq active
  BY DEF SessionEnds, handleVars, worker, outbox
<1>1. TypeOK' /\ SoleWorker'
  BY <1>0 DEF TypeOK, HandleTypeOK, SoleWorker
<1>2. RowsConsistent'
  BY <1>0 DEF RowsConsistent, Enqueued
<1>3. HandlersConsistent'
  BY <1>0 DEF HandlersConsistent, HandlesLogin, Announced, HasRow
<1>4. AckedIsConcluded' /\ CompletedPushSent'
  BY <1>0 DEF AckedIsConcluded, Concluded, CompletedPushSent
<1>5. AlertsComplete'
  BY <1>0 DEF AlertsComplete, HasRow
<1> QED BY <1>1, <1>2, <1>3, <1>4, <1>5

LEMMA Crashes ==
  ASSUME AlertsInv, Crash
  PROVE  AlertsInv'
<1> USE DEF AlertsInv, AlertsIInv, Crash, outbox
<1>1. TypeOK' /\ SoleWorker'
  BY DEF TypeOK, HandleTypeOK, Places, Steps, NoBatch, SoleWorker
<1>2. RowsConsistent'
  BY DEF RowsConsistent, Enqueued, TypeOK, HandleTypeOK, NoBatch
<1>3. HandlersConsistent'
  BY DEF HandlersConsistent
<1>4. AckedIsConcluded'
  BY DEF AckedIsConcluded, Concluded, TypeOK, HandleTypeOK
<1>5. AlertsComplete' /\ CompletedPushSent'
  BY DEF AlertsComplete, HasRow, CompletedPushSent
<1> QED BY <1>1, <1>2, <1>3, <1>4, <1>5

-----------------------------------------------------------------------------
(* The inductive invariant: the status table, the outbox, the broker and     *)
(* the handlers at work agree in every reachable state.                     *)
THEOREM AlertsInductive == Spec => []AlertsInv
<1>1. Init => AlertsInv
  <2> SUFFICES ASSUME Init PROVE AlertsInv
    OBVIOUS
  <2> USE DEF Init, HandleInit, NoBatch
  <2>1. TypeOK
    BY DEF TypeOK, HandleTypeOK, Places, Steps, Statuses
  <2>2. SoleWorker /\ RowsConsistent /\ HandlersConsistent /\ AckedIsConcluded
    BY DEF SoleWorker, RowsConsistent, HandlersConsistent, AckedIsConcluded
  <2>3. \A l \in Logins, s \in Sessions : ~HasRow(l, s)
    <3>1. \A l \in Logins, s \in Sessions : [login |-> l, session |-> s] # NoAlert
      OBVIOUS
    <3> QED BY <3>1 DEF HasRow
  <2>4. AlertsComplete /\ CompletedPushSent
    BY <2>3 DEF AlertsComplete, CompletedPushSent
  <2> QED BY <2>1, <2>2, <2>4 DEF AlertsInv, AlertsIInv
<1>2. AlertsInv /\ [Next]_vars => AlertsInv'
  <2> SUFFICES ASSUME AlertsInv, [Next]_vars PROVE AlertsInv'
    OBVIOUS
  <2>1. CASE UNCHANGED vars
    <3> USE <2>1 DEF vars, handleVars, outbox, worker, AlertsInv, AlertsIInv
    <3>1. TypeOK' /\ SoleWorker' /\ RowsConsistent'
      BY DEF TypeOK, HandleTypeOK, SoleWorker, RowsConsistent, Enqueued
    <3>2. HandlersConsistent' /\ AckedIsConcluded' /\ AlertsComplete' /\ CompletedPushSent'
      BY DEF HandlersConsistent, HandlesLogin, Announced, HasRow, AckedIsConcluded, Concluded,
             AlertsComplete, CompletedPushSent
    <3> QED BY <3>1, <3>2
  <2> QED BY <2>1, Consumes, AsksForSessions, StoresAlerts, SendsPush, Arrives, LogsOut,
             WorkerSteps, Publishes, Crashes
          DEF Next, WorkerNext
<1> QED BY <1>1, <1>2, PTL DEF Spec

(* Types, rows, handlers and acknowledgements agree throughout.             *)
THEOREM AlertsConsistent == Spec => []AlertsIInv
<1>1. AlertsInv => AlertsIInv
  BY DEF AlertsInv
<1> QED BY <1>1, AlertsInductive, PTL

(* A login is announced to all of the user's other sessions or to none, and  *)
(* to all once its message is 'completed'.                                  *)
THEOREM EveryoneTold == Spec => []AlertsComplete
<1>1. AlertsInv => AlertsComplete
  BY DEF AlertsInv
<1> QED BY <1>1, AlertsInductive, PTL

(* A push message is 'completed' only if the provider has it.               *)
THEOREM PushDelivered == Spec => []CompletedPushSent
<1>1. AlertsInv => CompletedPushSent
  BY DEF AlertsInv
<1> QED BY <1>1, AlertsInductive, PTL

(* Without a delivery that was taken back, an alert whose row is closed was  *)
(* sent or has a message that can be traced.                                *)
THEOREM AlertTraced == Spec => []AlertAccountedFor
<1>1. AlertsInv => AlertAccountedFor
  <2> SUFFICES ASSUME AlertsInv, redeliveries = 0, NEW r \in Rows, row[r] = "processed", r \notin sent
               PROVE  \E m \in Pushes : about[m] = r /\ Traceable(m)
    BY DEF AlertAccountedFor
  <2> USE DEF AlertsInv, AlertsIInv
  <2>1. PICK m \in Pushes : about[m] = r /\ place[m] # "unsent"
    BY DEF RowsConsistent, Enqueued
  <2>2. place[m] \in Places
    BY DEF TypeOK, HandleTypeOK
  <2>3. place[m] = "acked" => status[m] = "failed"
    BY <2>1 DEF AckedIsConcluded, Concluded
  <2> QED BY <2>1, <2>2, <2>3 DEF Traceable, Places
<1> QED BY <1>1, AlertsInductive, PTL
=============================================================================
