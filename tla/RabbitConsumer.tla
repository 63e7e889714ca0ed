--------------------------- MODULE RabbitConsumer ---------------------------
(***************************************************************************)
(* pkg/rabbitmq: one queue with its retry queue and dead-letter queue, and *)
(* the subscriber that consumes it with a group of workers.                *)
(*                                                                         *)
(* The exchanges and queues are those that DeclareDirect and DeclareTopic  *)
(* declare; how RabbitMQ routes, dead-letters, counts x-death and requeues *)
(* is modelled from that use.  The consume channel and the channel for the *)
(* dead-letter publishes are two channels of one connection; nothing opens *)
(* either of them again once it is gone.                                   *)
(***************************************************************************)
EXTENDS Naturals, FiniteSets

CONSTANTS Messages,        \* message ids
          Workers,         \* cfg.workers goroutines
          MaxRetry,        \* cfg.maxRetry
          Prefetch,        \* cfg.prefetchCount
          Topology,        \* which Declare function: "direct" or "topic"
          MaxInterruptions,\* bound: lost connections and restarts
          NoMessage

NoWorker == "none"

ASSUME ConsumerAssumption ==
    /\ MaxRetry \in Nat /\ Prefetch \in Nat \ {0}
    /\ Topology \in {"direct", "topic"}
    /\ MaxInterruptions \in Nat
    /\ NoMessage \notin Messages /\ NoWorker \notin Workers

VARIABLES at,            \* where the broker keeps each message
          rejected,      \* count of x-death[main queue, rejected]
          lease,         \* the worker whose delivery a message is, to the broker
          step, msg,     \* each worker's place in processMessage, its delivery
          consumer,      \* the consumer group and its channel
          publishCh,     \* the channel for the dead-letter publishes
          dlq,           \* copies of each message in the dead-letter queue
          handled,       \* history: times a handler returned nil
          panicked,      \* history: the last delivery of a message ended in a panic
          interruptions  \* history

broker == <<at, rejected, lease, dlq>>
worker == <<step, msg>>
hist == <<handled, panicked, interruptions>>
vars == <<broker, worker, consumer, publishCh, hist>>

Places == {"unsent", "main", "retry", "unacked", "done", "dropped"}
\* "exhausted": the handler failed for the last time; "ack": only msg.Ack is left.
Steps == {"idle", "handling", "exhausted", "ack", "returned"}

TypeOK ==
    /\ at \in [Messages -> Places]
    /\ rejected \in [Messages -> Nat]
    /\ lease \in [Messages -> Workers \cup {NoWorker}]
    /\ step \in [Workers -> Steps]
    /\ msg \in [Workers -> Messages \cup {NoMessage}]
    /\ consumer \in {"open", "closing", "closed", "lost"}
    /\ publishCh \in {"open", "closed"}
    /\ dlq \in [Messages -> Nat]
    /\ handled \in [Messages -> Nat]
    /\ panicked \in [Messages -> BOOLEAN] /\ interruptions \in Nat

Init ==
    /\ at = [m \in Messages |-> "unsent"]
    /\ rejected = [m \in Messages |-> 0]
    /\ lease = [m \in Messages |-> NoWorker]
    /\ step = [w \in Workers |-> "idle"]
    /\ msg = [w \in Workers |-> NoMessage]
    /\ consumer = "open" /\ publishCh = "open"
    /\ dlq = [m \in Messages |-> 0]
    /\ handled = [m \in Messages |-> 0]
    /\ panicked = [m \in Messages |-> FALSE] /\ interruptions = 0

-----------------------------------------------------------------------------
(* The main exchange: queues bound to it with their keys.  "event" stands    *)
(* for the routing key of the topic binding ("user.created").              *)
DirectBindings == {<<"main", "main">>, <<"retry", "retry">>}
TopicBindings  == {<<"retry", "retry">>, <<"main", "event">>}
Bindings == IF Topology = "direct" THEN DirectBindings ELSE TopicBindings

\* The key of Publish, and the x-dead-letter-routing-key of the two queues.
PublishKey == IF Topology = "direct" THEN "main" ELSE "event"
MainDeadLetterKey  == "retry"
RetryDeadLetterKey == "main"

\* A message that no binding matches is dropped.
RouteTo(key) == IF \E q \in {"main", "retry"} : <<q, key>> \in Bindings
                THEN CHOOSE q \in {"main", "retry"} : <<q, key>> \in Bindings
                ELSE "dropped"

Unacked == {m \in Messages : at[m] = "unacked"}

\* The history counters tell none, one and several apart.
HistoryCap == 2
Count(f, m) == [f EXCEPT ![m] = IF @ < HistoryCap THEN @ + 1 ELSE @]

-----------------------------------------------------------------------------
(* The broker.                                                             *)

Publish(m) ==
    /\ at[m] = "unsent"
    /\ at' = [at EXCEPT ![m] = RouteTo(PublishKey)]
    /\ UNCHANGED <<rejected, lease, dlq, worker, consumer, publishCh, hist>>

\* The retry queue's TTL is over.
RetryTTL(m) ==
    /\ at[m] = "retry"
    /\ at' = [at EXCEPT ![m] = RouteTo(RetryDeadLetterKey)]
    /\ UNCHANGED <<rejected, lease, dlq, worker, consumer, publishCh, hist>>

\* Basic.Ack and Basic.Nack of worker w's delivery: without effect when the
\* channel is gone and the broker has taken the message back.
Settle(w, place, count) ==
    LET m == msg[w] IN
    IF lease[m] = w
    THEN /\ at' = [at EXCEPT ![m] = place]
         /\ lease' = [lease EXCEPT ![m] = NoWorker]
         /\ rejected' = [rejected EXCEPT ![m] = @ + count]
    ELSE UNCHANGED <<at, lease, rejected>>

Ack(w)         == Settle(w, "done", 0)
NackRequeue(w) == Settle(w, "main", 0)
\* Mutant: the count of another queue is read, which never grows.
RejectUncounted(w) == Settle(w, RouteTo(MainDeadLetterKey), 0)

NackReject(w)  == Settle(w, RouteTo(MainDeadLetterKey), 1)

\* processMessage is over; runWorker takes the next delivery.
Finish(w) == /\ step' = [step EXCEPT ![w] = "idle"]
            /\ msg' = [msg EXCEPT ![w] = NoMessage]

-----------------------------------------------------------------------------
(* runWorker and processMessage.                                           *)

Deliver(w, m) ==
    /\ consumer \in {"open", "closing"}
    /\ step[w] = "idle" /\ at[m] = "main"
    /\ Cardinality(Unacked) < Prefetch
    /\ at' = [at EXCEPT ![m] = "unacked"]
    /\ lease' = [lease EXCEPT ![m] = w]
    /\ step' = [step EXCEPT ![w] = "handling"]
    /\ msg' = [msg EXCEPT ![w] = m]
    /\ panicked' = [panicked EXCEPT ![m] = FALSE]
    /\ UNCHANGED <<rejected, dlq, consumer, publishCh, handled, interruptions>>

HandlerOk(w) ==
    /\ step[w] = "handling"
    /\ step' = [step EXCEPT ![w] = "ack"]
    /\ handled' = Count(handled, msg[w])
    /\ UNCHANGED <<broker, msg, consumer, publishCh, panicked, interruptions>>

\* Mutant: one retry too many.
OneRetryTooMany(w) ==
    /\ step[w] = "handling"
    /\ \/ /\ rejected[msg[w]] > MaxRetry
          /\ step' = [step EXCEPT ![w] = "exhausted"]
          /\ UNCHANGED <<broker, msg>>
       \/ /\ rejected[msg[w]] <= MaxRetry
          /\ NackReject(w) /\ Finish(w)
          /\ UNCHANGED dlq
    /\ UNCHANGED <<consumer, publishCh, hist>>

\* extractRejectedCount reads the headers the message was delivered with.
HandlerError(w) ==
    /\ step[w] = "handling"
    /\ \/ /\ rejected[msg[w]] >= MaxRetry
          /\ step' = [step EXCEPT ![w] = "exhausted"]
          /\ UNCHANGED <<broker, msg>>
       \/ /\ rejected[msg[w]] < MaxRetry
          /\ NackReject(w) /\ Finish(w)
          /\ UNCHANGED dlq
    /\ UNCHANGED <<consumer, publishCh, hist>>

\* Nothing counts the panics: a requeue leaves x-death as it was.
HandlerPanic(w) ==
    /\ step[w] = "handling"
    /\ panicked' = [panicked EXCEPT ![msg[w]] = TRUE]
    /\ NackRequeue(w) /\ Finish(w)
    /\ UNCHANGED <<dlq, consumer, publishCh, handled, interruptions>>

\* Mutant: acked although the dead-letter publish failed.
AckAnyway(w) ==
    /\ step[w] = "exhausted"
    /\ dlq' = IF publishCh = "open" THEN Count(dlq, msg[w]) ELSE dlq
    /\ step' = [step EXCEPT ![w] = "ack"]
    /\ UNCHANGED <<at, rejected, lease, msg, consumer, publishCh, hist>>

\* The dead-letter publish, without a confirm; if it fails the message goes
\* back to the main queue.
PublishToDLQ(w) ==
    /\ step[w] = "exhausted"
    /\ \/ /\ publishCh = "open"
          /\ dlq' = Count(dlq, msg[w])
          /\ step' = [step EXCEPT ![w] = "ack"]
          /\ UNCHANGED <<at, rejected, lease, msg>>
       \/ /\ publishCh = "closed"
          /\ NackRequeue(w) /\ Finish(w)
          /\ UNCHANGED dlq
    /\ UNCHANGED <<consumer, publishCh, hist>>

\* Mutant: a handled message is requeued.
RequeueHandled(w) ==
    /\ step[w] = "ack"
    /\ NackRequeue(w) /\ Finish(w)
    /\ UNCHANGED <<dlq, consumer, publishCh, hist>>

AckDelivery(w) ==
    /\ step[w] = "ack"
    /\ Ack(w) /\ Finish(w)
    /\ UNCHANGED <<dlq, consumer, publishCh, hist>>

\* ctx.Done, or the closed delivery channel: the goroutine returns.
WorkerReturns(w) ==
    /\ step[w] = "idle" /\ consumer # "open"
    /\ step' = [step EXCEPT ![w] = "returned"]
    /\ UNCHANGED <<broker, msg, consumer, publishCh, hist>>

-----------------------------------------------------------------------------
(* Channels, connection, process.                                          *)

\* The broker takes back what was not acked on a channel that is gone.
TakeBack ==
    /\ at' = [m \in Messages |-> IF at[m] = "unacked" THEN "main" ELSE at[m]]
    /\ lease' = [m \in Messages |-> NoWorker]

\* baseSubscriber.close: cancel; then wait for the workers or for the timeout;
\* then close the channels.
CloseSubscriber ==
    /\ consumer = "open"
    /\ consumer' = "closing"
    /\ UNCHANGED <<broker, worker, publishCh, hist>>

CloseChannels ==
    /\ consumer = "closing"
    /\ consumer' = "closed" /\ publishCh' = "closed"
    /\ interruptions' = IF \A w \in Workers : step[w] = "returned"
                        THEN interruptions ELSE interruptions + 1
    /\ TakeBack
    /\ UNCHANGED <<rejected, dlq, worker, handled, panicked>>

\* watchReconnect dials again, but the consumer and its channels stay lost.
ConnectionLost ==
    /\ consumer \in {"open", "closing"} /\ interruptions < MaxInterruptions
    /\ consumer' = "lost" /\ publishCh' = "closed"
    /\ interruptions' = interruptions + 1
    /\ TakeBack
    /\ UNCHANGED <<rejected, dlq, worker, handled, panicked>>

\* A channel exception closes only the dead-letter channel.
PublishChannelLost ==
    /\ publishCh = "open"
    /\ publishCh' = "closed"
    /\ UNCHANGED <<broker, worker, consumer, hist>>

Restart ==
    /\ interruptions < MaxInterruptions
    /\ interruptions' = interruptions + 1
    /\ consumer' = "open" /\ publishCh' = "open"
    /\ step' = [w \in Workers |-> "idle"]
    /\ msg' = [w \in Workers |-> NoMessage]
    /\ TakeBack
    /\ UNCHANGED <<rejected, dlq, handled, panicked>>

-----------------------------------------------------------------------------
ProcessMessage(w) ==
    HandlerOk(w) \/ HandlerError(w) \/ HandlerPanic(w) \/ PublishToDLQ(w) \/ AckDelivery(w)

Next ==
    \/ \E m \in Messages : Publish(m) \/ RetryTTL(m)
    \/ \E w \in Workers : ProcessMessage(w) \/ WorkerReturns(w)
    \/ \E w \in Workers, m \in Messages : Deliver(w, m)
    \/ CloseSubscriber \/ CloseChannels
    \/ ConnectionLost \/ PublishChannelLost \/ Restart

Spec == Init /\ [][Next]_vars

(* Goroutines run (every handler has a timeout), the broker delivers what is *)
(* in the queue while a worker asks for more, and the TTL ends.             *)
Fairness ==
    /\ \A w \in Workers : WF_vars(ProcessMessage(w))
    /\ \A m \in Messages : WF_vars(\E w \in Workers : Deliver(w, m)) /\ WF_vars(RetryTTL(m))

FairSpec == Spec /\ Fairness

-----------------------------------------------------------------------------
(* Properties.                                                             *)

\* A published message leaves the broker's queues only when a handler returned
\* nil for it or the dead-letter queue has it: no rejection, requeue, expiry,
\* failed dead-letter publish, lost connection or shutdown drops it.
NoMessageLost ==
    \A m \in Messages :
        at[m] \in {"done", "dropped"} => handled[m] > 0 \/ dlq[m] > 0

\* A worker at work on a delivery; a message nobody has taken yet.
Working == {"handling", "exhausted", "ack"}
Untouched(m) == handled[m] = 0 /\ dlq[m] = 0

\* A message is rejected into the retry queue at most MaxRetry times and
\* dead-lettered only after all of them.
RetriesBounded ==
    \A m \in Messages :
        /\ rejected[m] <= MaxRetry
        /\ dlq[m] > 0 => rejected[m] = MaxRetry

\* To the broker every unacked message is held by a worker that is at work on it,
\* and by one only; nothing stays unacked after the channel is gone.
LeasesConsistent ==
    \A m \in Messages :
        /\ at[m] = "unacked" <=> lease[m] # NoWorker
        /\ lease[m] # NoWorker =>
              /\ msg[lease[m]] = m
              /\ step[lease[m]] \in Working
              /\ consumer \in {"open", "closing"}

\* A worker gives up on a message only after its last retry, and acks only what
\* a handler or the dead-letter queue has taken, also when the broker has given
\* the message to somebody else meanwhile.
WorkersConsistent ==
    \A w \in Workers :
        /\ step[w] \in Working => msg[w] \in Messages
        /\ step[w] = "exhausted" => rejected[msg[w]] = MaxRetry
        /\ step[w] = "ack" => ~Untouched(msg[w])

\* Without an interruption a worker's message is its own, and no message that is
\* still to be handled has been handled or dead-lettered before.
SoleConsumer ==
    interruptions = 0 =>
        /\ \A w \in Workers :
             /\ step[w] \in Working => lease[msg[w]] = w
             /\ step[w] \in {"handling", "exhausted"} => Untouched(msg[w])
        /\ \A m \in Messages : at[m] \in {"unsent", "main", "retry"} => Untouched(m)

\* The types, and what the four parts above say.
ConsumerInv ==
    TypeOK /\ RetriesBounded /\ LeasesConsistent /\ WorkersConsistent /\ SoleConsumer

\* Without a lost connection, a restart or a shutdown that timed out, a message
\* is handled to the end once or dead-lettered once, never both.
OnceWithoutInterruption ==
    interruptions = 0 => \A m \in Messages : handled[m] + dlq[m] <= 1

\* Deliveries of m end in a panic for ever: requeued, delivered again, and so on.
PanicsForever(m) == []<>panicked[m] /\ []<>~panicked[m]

\* A published message is handled or dead-lettered in the end, unless the
\* consumer or the dead-letter channel goes away (nothing reopens them) or its
\* own handler panics for ever: a panic is requeued and no count ends it.  With
\* a worker and a prefetch slot for each message, as here, a message that panics
\* for ever does not hold up another one.
EventuallySettled ==
    \A m \in Messages :
        \/ at[m] = "main" ~> at[m] = "done" \/ consumer # "open" \/ publishCh = "closed"
        \/ PanicsForever(m)
=============================================================================
