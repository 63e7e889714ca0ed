-------------------------- MODULE SubscriberHandle --------------------------
(***************************************************************************)
(* Handler.Handle, the part the subscribers of the wallet and of the       *)
(* notification service share word for word: RunProcess on the             *)
(* *_processed_messages table, the event's own handler, MarkSent or        *)
(* MarkFailed, and the answer to the broker.                               *)
(*                                                                         *)
(* The broker is at-least-once: a message whose channel is gone is handed  *)
(* to another worker while the first one goes on.  What the event's        *)
(* handler does, between the steps "handle" and "sent" or "failed", is for *)
(* the modules that extend this one.                                       *)
(***************************************************************************)
EXTENDS Naturals, FiniteSets

CONSTANTS Messages,         \* message ids
          Workers,          \* workers over all processes
          MaxRedeliveries,  \* bound: deliveries taken back by the broker
          NoMessage,
          NoWorker

ASSUME HandleAssumption ==
    /\ MaxRedeliveries \in Nat
    /\ NoMessage \notin Messages /\ NoWorker \notin Workers

VARIABLES place,        \* the message at the broker
          lease,        \* the worker the broker waits for
          step, msg,    \* each worker's place in Handle, its message
          status,       \* table *_processed_messages
          redeliveries  \* history

table == <<status>>
queue == <<place, lease, redeliveries>>
handleVars == <<place, lease, step, msg, status, redeliveries>>

Places == {"unsent", "queued", "held", "retry", "acked", "dropped"}
Steps == {"idle", "select", "insert", "update", "handle", "sent", "failed", "ack", "nack"}
Statuses == {"absent", "processing", "completed", "failed"}

HandleTypeOK ==
    /\ place \in [Messages -> Places]
    /\ lease \in [Messages -> Workers \cup {NoWorker}]
    /\ step \in [Workers -> Steps]
    /\ msg \in [Workers -> Messages \cup {NoMessage}]
    /\ status \in [Messages -> Statuses]
    /\ redeliveries \in 0..MaxRedeliveries

HandleInit ==
    /\ place = [m \in Messages |-> "unsent"]
    /\ lease = [m \in Messages |-> NoWorker]
    /\ step = [w \in Workers |-> "idle"]
    /\ msg = [w \in Workers |-> NoMessage]
    /\ status = [m \in Messages |-> "absent"]
    /\ redeliveries = 0

Goto(w, s) == step' = [step EXCEPT ![w] = s] /\ UNCHANGED msg
SetStatus(m, s) == status' = [status EXCEPT ![m] = s]

-----------------------------------------------------------------------------
(* The broker.                                                             *)

Arrive(m) ==
    /\ place[m] = "unsent"
    /\ place' = [place EXCEPT ![m] = "queued"]
    /\ UNCHANGED <<lease, redeliveries, step, msg, table>>

Deliver(w, m) ==
    /\ place[m] = "queued" /\ step[w] = "idle"
    /\ place' = [place EXCEPT ![m] = "held"]
    /\ lease' = [lease EXCEPT ![m] = w]
    /\ step' = [step EXCEPT ![w] = "select"]
    /\ msg' = [msg EXCEPT ![w] = m]
    /\ UNCHANGED <<table, redeliveries>>

\* The channel is gone; the worker does not notice before it answers.
TakeBack(m) ==
    /\ place[m] = "held" /\ redeliveries < MaxRedeliveries
    /\ redeliveries' = redeliveries + 1
    /\ place' = [place EXCEPT ![m] = "queued"]
    /\ lease' = [lease EXCEPT ![m] = NoWorker]
    /\ UNCHANGED <<step, msg, table>>

\* The retry queue's TTL ends: back to the main queue, or nowhere (the topic
\* topology, and a message that has used up its retries).
RetryEnds(m) ==
    /\ place[m] = "retry"
    /\ \E p \in {"queued", "dropped"} : place' = [place EXCEPT ![m] = p]
    /\ UNCHANGED <<lease, redeliveries, step, msg, table>>

\* processMessage acks when Handle returned nil and rejects when it did not.
Answer(w) ==
    LET m == msg[w] IN
    /\ step[w] \in {"ack", "nack"}
    /\ place' = IF lease[m] = w
                THEN [place EXCEPT ![m] = IF step[w] = "ack" THEN "acked" ELSE "retry"]
                ELSE place
    /\ lease' = IF lease[m] = w THEN [lease EXCEPT ![m] = NoWorker] ELSE lease
    /\ step' = [step EXCEPT ![w] = "idle"]
    /\ msg' = [msg EXCEPT ![w] = NoMessage]
    /\ UNCHANGED <<table, redeliveries>>

-----------------------------------------------------------------------------
(* RunProcess: a plain SELECT; a row that says "sent" ends in Conflict and   *)
(* in an ack; otherwise INSERT IGNORE or UPDATE, and COMMIT.                 *)
RunProcessSelect(w) ==
    /\ step[w] = "select"
    /\ Goto(w, IF status[msg[w]] = "sent" THEN "ack"
               ELSE IF status[msg[w]] = "absent" THEN "insert" ELSE "update")
    /\ UNCHANGED <<queue, table>>

WriteProcessing(w) ==
    IF step[w] = "update" \/ status[msg[w]] = "absent"
    THEN SetStatus(msg[w], "processing")
    ELSE UNCHANGED table

RunProcessWrite(w) ==
    /\ step[w] \in {"insert", "update"}
    /\ WriteProcessing(w)
    /\ Goto(w, "handle")
    /\ UNCHANGED queue

\* Mutant: an error of RunProcess is taken for a Conflict.
ErrorIsConflict(w) ==
    /\ step[w] \in {"select", "insert", "update"}
    /\ Goto(w, "ack")
    /\ UNCHANGED <<queue, table>>

\* A statement of RunProcess fails and is rolled back, or its commit reports an
\* error although it took effect; Handle returns the error.
RunProcessError(w) ==
    /\ step[w] \in {"select", "insert", "update"}
    /\ \/ UNCHANGED table
       \/ step[w] # "select" /\ WriteProcessing(w)
    /\ Goto(w, "nack")
    /\ UNCHANGED queue

-----------------------------------------------------------------------------
\* Mutant: the status RunProcess looks for, which the ENUM does not have.
MarkAsSent(w) ==
    /\ step[w] = "sent"
    /\ SetStatus(msg[w], "sent")
    /\ Goto(w, "ack")
    /\ UNCHANGED queue

\* Mutant: MarkSent's error is returned, also when the commit took effect.
MarkSentReturned(w) ==
    /\ step[w] = "sent"
    /\ \/ SetStatus(msg[w], "completed") /\ (Goto(w, "ack") \/ Goto(w, "nack"))
       \/ UNCHANGED table /\ Goto(w, "nack")
    /\ UNCHANGED queue

(* After the event's handler.  MarkSent's error is dropped; after a failure  *)
(* Handle returns what MarkFailed returned: nil if it could write, an error   *)
(* if it could not or if only its answer was lost (the handler's timeout).   *)
MarkSent(w) ==
    /\ step[w] = "sent"
    /\ SetStatus(msg[w], "completed") \/ UNCHANGED table
    /\ Goto(w, "ack")
    /\ UNCHANGED queue

\* Mutant: a failure is marked like a success.
MarkFailedCompleted(w) ==
    /\ step[w] = "failed"
    /\ SetStatus(msg[w], "completed")
    /\ Goto(w, "ack")
    /\ UNCHANGED queue

MarkFailed(w) ==
    /\ step[w] = "failed"
    /\ \/ SetStatus(msg[w], "failed") /\ Goto(w, "ack")
       \/ SetStatus(msg[w], "failed") /\ Goto(w, "nack")
       \/ UNCHANGED table /\ Goto(w, "nack")
    /\ UNCHANGED queue

\* Everything but the arrival of messages.
HandleNext ==
    \/ \E m \in Messages : TakeBack(m) \/ RetryEnds(m)
    \/ \E w \in Workers, m \in Messages : Deliver(w, m)
    \/ \E w \in Workers :
         \/ RunProcessSelect(w) \/ RunProcessWrite(w) \/ RunProcessError(w)
         \/ MarkSent(w) \/ MarkFailed(w) \/ Answer(w)

-----------------------------------------------------------------------------
\* While no delivery was taken back, a message has at most one worker, the one
\* the broker waits for; and a worker at work always has a message.
SoleWorker ==
    \A w \in Workers : step[w] # "idle" =>
        /\ msg[w] \in Messages /\ place[msg[w]] # "unsent"
        /\ redeliveries = 0 => place[msg[w]] = "held" /\ lease[msg[w]] = w
=============================================================================
