------------------------ MODULE RabbitConsumerProofs ------------------------
(***************************************************************************)
(* Retries, leases and the fate of every message, for any number of        *)
(* messages, workers, retries and interruptions.                           *)
(***************************************************************************)
EXTENDS RabbitConsumer, TLAPS

USE ConsumerAssumption

-----------------------------------------------------------------------------
(* Wherever the main exchange routes a message, it is one of the broker's    *)
(* places, and not with a worker.                                          *)
LEMMA Routes ==
  ASSUME NEW key
  PROVE  RouteTo(key) \in {"main", "retry", "dropped"}
<1>1. CASE \E q \in {"main", "retry"} : <<q, key>> \in Bindings
  <2> DEFINE P(q) == q \in {"main", "retry"} /\ <<q, key>> \in Bindings
  <2>1. PICK q : P(q)
    BY <1>1
  <2>2. (CHOOSE x \in {"main", "retry"} : <<x, key>> \in Bindings) \in {"main", "retry"}
    BY <2>1
  <2> QED BY <1>1, <2>2 DEF RouteTo
<1>2. CASE ~\E q \in {"main", "retry"} : <<q, key>> \in Bindings
  BY <1>2 DEF RouteTo
<1> QED BY <1>1, <1>2

(* DeclareDirect binds both queues under the keys that are used.            *)
LEMMA DirectRoutes ==
  ASSUME Topology = "direct"
  PROVE  /\ RouteTo(PublishKey) = "main" /\ RouteTo(RetryDeadLetterKey) = "main"
         /\ RouteTo(MainDeadLetterKey) = "retry"
<1>1. Bindings = {<<"main", "main">>, <<"retry", "retry">>}
  BY DEF Bindings, DirectBindings
<1>2. RouteTo("main") = "main"
  <2>1. \A q \in {"main", "retry"} : <<q, "main">> \in Bindings <=> q = "main"
    BY <1>1
  <2>2. (CHOOSE q \in {"main", "retry"} : <<q, "main">> \in Bindings) = "main"
    BY <2>1
  <2> QED BY <2>1, <2>2 DEF RouteTo
<1>3. RouteTo("retry") = "retry"
  <2>1. \A q \in {"main", "retry"} : <<q, "retry">> \in Bindings <=> q = "retry"
    BY <1>1
  <2>2. (CHOOSE q \in {"main", "retry"} : <<q, "retry">> \in Bindings) = "retry"
    BY <2>1
  <2> QED BY <2>1, <2>2 DEF RouteTo
<1> QED BY <1>2, <1>3 DEF PublishKey, RetryDeadLetterKey, MainDeadLetterKey

(* The history counters count up and never down.                           *)
LEMMA Counts ==
  ASSUME NEW f \in [Messages -> Nat], NEW m \in Messages
  PROVE  /\ Count(f, m) \in [Messages -> Nat] /\ Count(f, m)[m] > 0
         /\ f[m] = 0 => Count(f, m)[m] = 1
         /\ \A n \in Messages \ {m} : Count(f, m)[n] = f[n]
  BY DEF Count, HistoryCap

(* An answer to the broker takes effect for the worker that holds the lease, *)
(* and for no other message than its own.                                  *)
LEMMA Settled ==
  ASSUME TypeOK, NEW w \in Workers, msg[w] \in Messages,
         NEW p \in {"main", "retry", "done", "dropped"}, NEW n \in {0, 1}, Settle(w, p, n)
  PROVE  /\ at' \in [Messages -> Places] /\ lease' \in [Messages -> Workers \cup {NoWorker}]
         /\ rejected' \in [Messages -> Nat]
         /\ \A m \in Messages \ {msg[w]} :
              at'[m] = at[m] /\ lease'[m] = lease[m] /\ rejected'[m] = rejected[m]
         /\ lease[msg[w]] = w => /\ at'[msg[w]] = p /\ lease'[msg[w]] = NoWorker
                                 /\ rejected'[msg[w]] = rejected[msg[w]] + n
         /\ lease[msg[w]] # w => UNCHANGED <<at, lease, rejected>>
  BY DEF TypeOK, Places, Settle

(* An answer, and the end of processMessage: the three ways of it that leave  *)
(* the histories alone.                                                     *)
LEMMA Answered ==
  ASSUME ConsumerInv, NEW w \in Workers, step[w] \in Working,
         NEW p \in {"main", "retry", "done", "dropped"}, NEW n \in {0, 1}, Settle(w, p, n),
         Finish(w), n = 1 => rejected[msg[w]] < MaxRetry,
         p # "done" => step[w] \in {"handling", "exhausted"},
         UNCHANGED <<dlq, consumer, publishCh, handled, interruptions>>, panicked' \in [Messages -> BOOLEAN]
  PROVE  ConsumerInv'
<1> USE DEF ConsumerInv
<1>0. msg[w] \in Messages
  BY DEF WorkersConsistent
<1>1. /\ at' \in [Messages -> Places] /\ lease' \in [Messages -> Workers \cup {NoWorker}]
      /\ rejected' \in [Messages -> Nat]
      /\ \A m \in Messages \ {msg[w]} :
           at'[m] = at[m] /\ lease'[m] = lease[m] /\ rejected'[m] = rejected[m]
      /\ lease[msg[w]] = w => /\ at'[msg[w]] = p /\ lease'[msg[w]] = NoWorker
                              /\ rejected'[msg[w]] = rejected[msg[w]] + n
      /\ lease[msg[w]] # w => UNCHANGED <<at, lease, rejected>>
  BY <1>0, Settled
<1>2. /\ step' = [step EXCEPT ![w] = "idle"] /\ msg' = [msg EXCEPT ![w] = NoMessage]
      /\ step'[w] = "idle" /\ \A x \in Workers \ {w} : step'[x] = step[x] /\ msg'[x] = msg[x]
  BY DEF Finish, TypeOK
<1>3. TypeOK'
  BY <1>1, <1>2 DEF TypeOK, Steps
<1>4. RetriesBounded'
  BY <1>0, <1>1 DEF RetriesBounded, TypeOK
<1>5. LeasesConsistent'
  BY <1>0, <1>1, <1>2 DEF LeasesConsistent, TypeOK
<1>6. WorkersConsistent'
  <2> SUFFICES ASSUME NEW x \in Workers, step'[x] \in Working
               PROVE  /\ msg'[x] \in Messages /\ (step'[x] = "exhausted" => rejected'[msg'[x]] = MaxRetry)
                      /\ (step'[x] = "ack" => ~Untouched(msg[x]) /\ msg'[x] = msg[x])
    BY DEF WorkersConsistent, Untouched, Working
  <2>1. x # w /\ step'[x] = step[x] /\ msg'[x] = msg[x]
    BY <1>2 DEF Working
  <2>2. rejected[msg[x]] = MaxRetry => rejected'[msg[x]] = MaxRetry
    BY <1>0, <1>1, <2>1 DEF RetriesBounded, TypeOK, WorkersConsistent
  <2> QED BY <2>1, <2>2 DEF WorkersConsistent
<1>7. SoleConsumer'
  <2> SUFFICES ASSUME interruptions = 0 PROVE SoleConsumer'
    BY DEF SoleConsumer
  <2>1. \A m \in Messages : Untouched(m) <=> Untouched(m)'
    BY DEF Untouched
  <2>2. lease[msg[w]] = w
    BY DEF SoleConsumer
  <2>3. \A x \in Workers \ {w} : step[x] \in Working => msg[x] \in Messages \ {msg[w]}
    BY <2>2 DEF SoleConsumer, WorkersConsistent
  <2>4. \A x \in Workers : step'[x] \in Working => lease'[msg'[x]] = x
    BY <1>1, <1>2, <2>3 DEF SoleConsumer, Working
  <2>5. \A x \in Workers : step'[x] \in {"handling", "exhausted"} => Untouched(msg[x]) /\ msg'[x] = msg[x]
    BY <1>2 DEF SoleConsumer
  <2>6. \A m \in Messages : at'[m] \in {"unsent", "main", "retry"} => Untouched(m)
    BY <1>0, <1>1, <2>2 DEF SoleConsumer
  <2> QED BY <2>1, <2>4, <2>5, <2>6 DEF SoleConsumer, Untouched
<1> QED BY <1>3, <1>4, <1>5, <1>6, <1>7

(* A channel, the connection or the process is gone: the broker takes every   *)
(* message back, and no worker's answer counts any more.                     *)
LEMMA TakenBack ==
  ASSUME ConsumerInv, TakeBack, UNCHANGED <<rejected, dlq, handled, panicked>>,
         interruptions' \in Nat \ {0} \/ \A w \in Workers : step[w] = "returned",
         interruptions' \in Nat, interruptions' = 0 => interruptions = 0,
         consumer' \in {"open", "closed", "lost"}, publishCh' \in {"open", "closed"},
         \/ step' = step /\ msg' = msg
         \/ step' = [w \in Workers |-> "idle"] /\ msg' = [w \in Workers |-> NoMessage]
  PROVE  ConsumerInv'
<1> USE DEF ConsumerInv
<1>1. TypeOK'
  BY DEF TypeOK, TakeBack, Places, Steps
<1>2. RetriesBounded'
  BY DEF RetriesBounded
<1>3. \A m \in Messages : at'[m] # "unacked" /\ lease'[m] = NoWorker
  BY DEF TakeBack
<1>4. LeasesConsistent'
  BY <1>3 DEF LeasesConsistent
<1>5. WorkersConsistent'
  BY DEF WorkersConsistent, Untouched, Working
<1>6. SoleConsumer'
  <2> SUFFICES ASSUME interruptions' = 0 PROVE SoleConsumer'
    BY DEF SoleConsumer
  <2>1. interruptions = 0 /\ \A w \in Workers : step[w] = "returned"
    OBVIOUS
  <2>2. \A w \in Workers : step'[w] \in {"idle", "returned"}
    BY <2>1
  <2>3. \A m \in Messages : at[m] # "unacked"
    BY <2>1 DEF LeasesConsistent, Working, TypeOK
  <2>4. at' = at
    BY <2>3 DEF TakeBack, TypeOK
  <2> QED BY <2>1, <2>2, <2>4 DEF SoleConsumer, Working, Untouched
<1> QED BY <1>1, <1>2, <1>4, <1>5, <1>6

-----------------------------------------------------------------------------
(* The inductive invariant of the consumer, whichever topology it declared.  *)
THEOREM ConsumerInductive == Spec => []ConsumerInv
<1>1. Init => ConsumerInv
  <2> SUFFICES ASSUME Init PROVE ConsumerInv
    OBVIOUS
  <2> USE DEF Init
  <2>1. TypeOK /\ RetriesBounded /\ LeasesConsistent
    BY DEF TypeOK, Places, Steps, RetriesBounded, LeasesConsistent
  <2>2. WorkersConsistent /\ SoleConsumer
    BY DEF WorkersConsistent, SoleConsumer, Working, Untouched
  <2> QED BY <2>1, <2>2 DEF ConsumerInv
<1>2. ConsumerInv /\ [Next]_vars => ConsumerInv'
  <2> SUFFICES ASSUME ConsumerInv, [Next]_vars PROVE ConsumerInv'
    OBVIOUS
  <2> USE DEF ConsumerInv, worker, hist, broker
  <2>1. ASSUME NEW m \in Messages, Publish(m) \/ RetryTTL(m) PROVE ConsumerInv'
    <3>1. PICK p \in {"main", "retry", "dropped"} :
            /\ at[m] \in {"unsent", "retry"} /\ at' = [at EXCEPT ![m] = p]
            /\ UNCHANGED <<rejected, lease, dlq, step, msg, consumer, publishCh,
                           handled, panicked, interruptions>>
      BY <2>1, Routes DEF Publish, RetryTTL
    <3>2. TypeOK' /\ RetriesBounded' /\ WorkersConsistent'
      BY <3>1 DEF TypeOK, Places, RetriesBounded, WorkersConsistent, Untouched
    <3>3. LeasesConsistent' /\ SoleConsumer'
      BY <3>1 DEF TypeOK, LeasesConsistent, SoleConsumer, Untouched
    <3> QED BY <3>2, <3>3
  <2>2. ASSUME NEW w \in Workers, NEW m \in Messages, Deliver(w, m) PROVE ConsumerInv'
    <3> USE <2>2 DEF Deliver, TypeOK
    <3>1. TypeOK' /\ RetriesBounded'
      BY DEF Places, Steps, RetriesBounded
    <3>2. LeasesConsistent'
      BY DEF LeasesConsistent, Working
    <3>3. WorkersConsistent'
      BY DEF WorkersConsistent, Working, Untouched
    <3>4. SoleConsumer'
      <4>1. interruptions = 0 => \A x \in Workers : step[x] \in Working => msg[x] \in Messages \ {m}
        BY DEF SoleConsumer, WorkersConsistent, LeasesConsistent
      <4> QED BY <4>1 DEF SoleConsumer, Working, Untouched
    <3> QED BY <3>1, <3>2, <3>3, <3>4
  <2>3. ASSUME NEW w \in Workers, HandlerOk(w) PROVE ConsumerInv'
    <3>0. msg[w] \in Messages /\ step[w] = "handling"
      BY <2>3 DEF HandlerOk, WorkersConsistent, Working
    <3>1. /\ handled' \in [Messages -> Nat] /\ handled'[msg[w]] > 0
          /\ handled[msg[w]] = 0 => handled'[msg[w]] = 1
          /\ \A n \in Messages \ {msg[w]} : handled'[n] = handled[n]
      BY <2>3, <3>0, Counts, SMTT(30) DEF HandlerOk, TypeOK
    <3>2. /\ step' = [step EXCEPT ![w] = "ack"]
          /\ UNCHANGED <<at, rejected, lease, dlq, msg, consumer, publishCh, panicked, interruptions>>
      BY <2>3 DEF HandlerOk
    <3>3. TypeOK' /\ RetriesBounded'
      BY <3>1, <3>2 DEF TypeOK, Steps, RetriesBounded
    <3>4. LeasesConsistent'
      BY <3>0, <3>2 DEF TypeOK, LeasesConsistent, Working
    <3>5. WorkersConsistent'
      BY <3>0, <3>1, <3>2 DEF TypeOK, WorkersConsistent, Working, Untouched
    <3>6. SoleConsumer'
      <4> SUFFICES ASSUME interruptions = 0 PROVE SoleConsumer'
        BY <3>2 DEF SoleConsumer
      <4>1. lease[msg[w]] = w /\ at[msg[w]] = "unacked"
        BY <3>0 DEF SoleConsumer, LeasesConsistent, Working
      <4>2. \A x \in Workers \ {w} : step[x] \in Working => msg[x] \in Messages \ {msg[w]}
        BY <4>1 DEF SoleConsumer, WorkersConsistent
      <4> QED BY <3>0, <3>1, <3>2, <4>1, <4>2 DEF TypeOK, SoleConsumer, Working, Untouched
    <3> QED BY <3>3, <3>4, <3>5, <3>6
  <2>4. ASSUME NEW w \in Workers, HandlerError(w) PROVE ConsumerInv'
    <3>0. msg[w] \in Messages /\ step[w] = "handling"
      BY <2>4 DEF HandlerError, WorkersConsistent, Working
    <3>1. CASE /\ rejected[msg[w]] >= MaxRetry /\ step' = [step EXCEPT ![w] = "exhausted"]
               /\ UNCHANGED <<at, rejected, lease, dlq, msg, consumer, publishCh,
                              handled, panicked, interruptions>>
      <4>1. rejected[msg[w]] = MaxRetry
        BY <3>0, <3>1 DEF RetriesBounded, TypeOK
      <4>2. TypeOK' /\ RetriesBounded' /\ LeasesConsistent'
        BY <3>0, <3>1 DEF TypeOK, Steps, RetriesBounded, LeasesConsistent, Working
      <4>3. WorkersConsistent'
        BY <3>0, <3>1, <4>1 DEF TypeOK, WorkersConsistent, Working, Untouched
      <4>4. SoleConsumer'
        BY <3>0, <3>1 DEF TypeOK, SoleConsumer, Working, Untouched
      <4> QED BY <4>2, <4>3, <4>4
    <3>2. CASE rejected[msg[w]] < MaxRetry /\ NackReject(w) /\ Finish(w) /\ UNCHANGED dlq
      <4>1. /\ RouteTo(MainDeadLetterKey) \in {"main", "retry", "done", "dropped"}
            /\ Settle(w, RouteTo(MainDeadLetterKey), 1)
        BY <3>2, Routes DEF NackReject
      <4>2. /\ UNCHANGED <<dlq, consumer, publishCh, handled, interruptions>> /\ panicked' \in [Messages -> BOOLEAN]
            /\ step[w] \in Working
        BY <2>4, <3>0, <3>2 DEF HandlerError, TypeOK, Working
      <4> QED BY <3>0, <3>2, <4>1, <4>2, Answered
    <3> QED BY <2>4, <3>1, <3>2 DEF HandlerError
  <2>5. ASSUME NEW w \in Workers, HandlerPanic(w) PROVE ConsumerInv'
    <3>1. /\ step[w] = "handling" /\ step[w] \in Working
          /\ Settle(w, "main", 0) /\ Finish(w) /\ panicked' \in [Messages -> BOOLEAN]
          /\ UNCHANGED <<dlq, consumer, publishCh, handled, interruptions>>
      BY <2>5 DEF HandlerPanic, NackRequeue, TypeOK, Working
    <3> QED BY <3>1, Answered
  <2>6. ASSUME NEW w \in Workers, PublishToDLQ(w) PROVE ConsumerInv'
    <3>0. msg[w] \in Messages /\ step[w] = "exhausted" /\ rejected[msg[w]] = MaxRetry
      BY <2>6 DEF PublishToDLQ, WorkersConsistent, Working
    <3>1. CASE /\ dlq' = Count(dlq, msg[w]) /\ step' = [step EXCEPT ![w] = "ack"]
               /\ UNCHANGED <<at, rejected, lease, msg, consumer, publishCh,
                              handled, panicked, interruptions>>
      <4>1. /\ dlq' \in [Messages -> Nat] /\ dlq'[msg[w]] > 0
            /\ \A n \in Messages \ {msg[w]} : dlq'[n] = dlq[n]
        BY <3>0, <3>1, Counts DEF TypeOK
      <4>2. TypeOK' /\ RetriesBounded'
        BY <3>0, <3>1, <4>1 DEF TypeOK, Steps, RetriesBounded
      <4>3. LeasesConsistent'
        BY <3>0, <3>1 DEF TypeOK, LeasesConsistent, Working
      <4>4. WorkersConsistent'
        BY <3>0, <3>1, <4>1 DEF TypeOK, WorkersConsistent, Working, Untouched
      <4>5. SoleConsumer'
        <5> SUFFICES ASSUME interruptions = 0 PROVE SoleConsumer'
          BY <3>1 DEF SoleConsumer
        <5>1. lease[msg[w]] = w /\ at[msg[w]] = "unacked"
          BY <3>0 DEF SoleConsumer, LeasesConsistent, Working
        <5>2. \A x \in Workers \ {w} : step[x] \in Working => msg[x] \in Messages \ {msg[w]}
          BY <5>1 DEF SoleConsumer, WorkersConsistent
        <5> QED BY <3>0, <3>1, <4>1, <5>1, <5>2 DEF TypeOK, SoleConsumer, Working, Untouched
      <4> QED BY <4>2, <4>3, <4>4, <4>5
    <3>2. CASE NackRequeue(w) /\ Finish(w) /\ UNCHANGED dlq
      <4>1. /\ step[w] \in Working /\ Settle(w, "main", 0) /\ panicked' \in [Messages -> BOOLEAN]
            /\ UNCHANGED <<dlq, consumer, publishCh, handled, interruptions>>
        BY <2>6, <3>0, <3>2 DEF PublishToDLQ, NackRequeue, TypeOK, Working
      <4> QED BY <3>0, <3>2, <4>1, Answered
    <3> QED BY <2>6, <3>1, <3>2 DEF PublishToDLQ
  <2>7. ASSUME NEW w \in Workers, AckDelivery(w) PROVE ConsumerInv'
    <3>1. /\ step[w] \in Working /\ Settle(w, "done", 0) /\ Finish(w) /\ panicked' \in [Messages -> BOOLEAN]
          /\ UNCHANGED <<dlq, consumer, publishCh, handled, interruptions>>
      BY <2>7 DEF AckDelivery, Ack, TypeOK, Working
    <3> QED BY <3>1, Answered
  <2>8. ASSUME NEW w \in Workers, WorkerReturns(w) PROVE ConsumerInv'
    <3> USE <2>8 DEF WorkerReturns, TypeOK, Working
    <3>1. TypeOK' /\ RetriesBounded' /\ LeasesConsistent'
      BY DEF Steps, RetriesBounded, LeasesConsistent
    <3>2. WorkersConsistent' /\ SoleConsumer'
      BY DEF WorkersConsistent, SoleConsumer, Untouched
    <3> QED BY <3>1, <3>2
  <2>9. CASE CloseSubscriber \/ PublishChannelLost
    <3> USE <2>9 DEF CloseSubscriber, PublishChannelLost
    <3>1. TypeOK' /\ RetriesBounded' /\ LeasesConsistent'
      BY DEF TypeOK, RetriesBounded, LeasesConsistent
    <3>2. WorkersConsistent' /\ SoleConsumer'
      BY DEF WorkersConsistent, SoleConsumer, Untouched
    <3> QED BY <3>1, <3>2
  <2>10. CASE CloseChannels
    <3>1. /\ interruptions' \in Nat \ {0} \/ \A w \in Workers : step[w] = "returned"
          /\ interruptions' \in Nat /\ (interruptions' = 0 => interruptions = 0)
      BY <2>10 DEF CloseChannels, TypeOK
    <3>2. /\ TakeBack /\ UNCHANGED <<rejected, dlq, handled, panicked, step, msg>>
          /\ consumer' \in {"open", "closed", "lost"} /\ publishCh' \in {"open", "closed"}
      BY <2>10 DEF CloseChannels
    <3> QED BY <3>1, <3>2, TakenBack
  <2>11. CASE ConnectionLost
    <3>1. interruptions' \in Nat \ {0}
      BY <2>11 DEF ConnectionLost, TypeOK
    <3>2. /\ TakeBack /\ UNCHANGED <<rejected, dlq, handled, panicked, step, msg>>
          /\ consumer' \in {"open", "closed", "lost"} /\ publishCh' \in {"open", "closed"}
      BY <2>11 DEF ConnectionLost
    <3> QED BY <3>1, <3>2, TakenBack
  <2>12. CASE Restart
    BY <2>12, TakenBack DEF Restart, TypeOK
  <2>13. CASE UNCHANGED vars
    <3> USE <2>13 DEF vars
    <3>1. TypeOK' /\ RetriesBounded' /\ LeasesConsistent'
      BY DEF TypeOK, RetriesBounded, LeasesConsistent
    <3>2. WorkersConsistent' /\ SoleConsumer'
      BY DEF WorkersConsistent, SoleConsumer, Untouched
    <3> QED BY <3>1, <3>2
  <2> QED BY <2>1, <2>2, <2>3, <2>4, <2>5, <2>6, <2>7, <2>8, <2>9, <2>10, <2>11, <2>12, <2>13
          DEF Next, ProcessMessage
<1> QED BY <1>1, <1>2, PTL DEF Spec

(* Without an interruption a message is handled to the end once, or          *)
(* dead-lettered once, and never both: the two steps that count one start    *)
(* from a message nobody has counted.                                       *)
THEOREM HandledOnce == Spec => []OnceWithoutInterruption
<1>1. Init => OnceWithoutInterruption
  BY DEF Init, OnceWithoutInterruption
<1>2. ConsumerInv /\ OnceWithoutInterruption /\ [Next]_vars => OnceWithoutInterruption'
  <2> SUFFICES ASSUME ConsumerInv, OnceWithoutInterruption, [Next]_vars, interruptions' = 0
               PROVE  \A m \in Messages : handled'[m] + dlq'[m] <= 1
    BY DEF OnceWithoutInterruption
  <2> USE DEF ConsumerInv, worker, hist, broker
  <2>0. ASSUME NEW w \in Workers, step[w] \in {"handling", "exhausted"}, interruptions = 0
        PROVE  msg[w] \in Messages /\ handled[msg[w]] = 0 /\ dlq[msg[w]] = 0
    BY <2>0 DEF WorkersConsistent, SoleConsumer, Untouched, Working
  <2>1. ASSUME NEW w \in Workers, HandlerOk(w)
        PROVE  \A m \in Messages : handled'[m] + dlq'[m] <= 1
    <3>1. msg[w] \in Messages /\ handled[msg[w]] = 0 /\ dlq[msg[w]] = 0
      BY <2>0, <2>1 DEF HandlerOk
    <3>2. /\ handled'[msg[w]] = 1 /\ UNCHANGED <<dlq, interruptions>>
          /\ \A n \in Messages \ {msg[w]} : handled'[n] = handled[n]
      BY <2>1, <3>1, Counts, SMTT(30) DEF HandlerOk, TypeOK
    <3> QED BY <3>1, <3>2 DEF OnceWithoutInterruption
  <2>2. ASSUME NEW w \in Workers, step[w] = "exhausted", dlq' = Count(dlq, msg[w]),
               UNCHANGED <<handled, interruptions>>
        PROVE  \A m \in Messages : handled'[m] + dlq'[m] <= 1
    <3>1. msg[w] \in Messages /\ handled[msg[w]] = 0 /\ dlq[msg[w]] = 0
      BY <2>0, <2>2
    <3>2. /\ dlq'[msg[w]] = 1
          /\ \A n \in Messages \ {msg[w]} : dlq'[n] = dlq[n]
      BY <2>2, <3>1, Counts, SMTT(30) DEF TypeOK
    <3> QED BY <2>2, <3>1, <3>2 DEF OnceWithoutInterruption
  <2>3. CASE UNCHANGED <<handled, dlq>> /\ (interruptions' = 0 => interruptions = 0)
    BY <2>3 DEF OnceWithoutInterruption
  <2>4. CASE CloseChannels \/ ConnectionLost \/ Restart
    <3>1. UNCHANGED <<handled, dlq>> /\ interruptions' \in {interruptions, interruptions + 1}
      BY <2>4 DEF CloseChannels, ConnectionLost, Restart
    <3> QED BY <2>3, <3>1 DEF TypeOK
  <2>5. ASSUME NEW w \in Workers, PublishToDLQ(w)
        PROVE  \A m \in Messages : handled'[m] + dlq'[m] <= 1
    BY <2>2, <2>3, <2>5 DEF PublishToDLQ
  <2> QED BY <2>1, <2>3, <2>4, <2>5
          DEF Next, ProcessMessage, Publish, RetryTTL, Deliver, HandlerError, HandlerPanic,
              AckDelivery, WorkerReturns, CloseSubscriber, PublishChannelLost, vars
<1> QED BY <1>1, <1>2, ConsumerInductive, PTL DEF Spec

(* Under DeclareDirect no message leaves the broker before a handler or the  *)
(* dead-letter queue has it: no key it uses is unbound, and only an ack of   *)
(* what was taken makes a message "done".  (Under DeclareTopic it is false.) *)
THEOREM NothingLost ==
  ASSUME Topology = "direct"
  PROVE  Spec => []NoMessageLost
<1>1. Init => NoMessageLost
  BY DEF Init, NoMessageLost
<1>2. ConsumerInv /\ NoMessageLost /\ [Next]_vars => NoMessageLost'
  <2> SUFFICES ASSUME ConsumerInv, NoMessageLost, [Next]_vars PROVE NoMessageLost'
    OBVIOUS
  <2> USE DEF ConsumerInv, worker, hist, broker
  <2>0. ASSUME NEW w \in Workers, step[w] \in Working, UNCHANGED <<handled, dlq>>,
               NEW p \in {"main", "retry", "done"}, NEW n \in {0, 1}, Settle(w, p, n),
               p = "done" => step[w] = "ack"
        PROVE  NoMessageLost'
    <3>0. msg[w] \in Messages /\ p \in {"main", "retry", "done", "dropped"}
      BY <2>0 DEF WorkersConsistent
    <3>1. /\ \A m \in Messages \ {msg[w]} : at'[m] = at[m]
          /\ at'[msg[w]] \in {p, at[msg[w]]}
      BY <2>0, <3>0, Settled
    <3>2. p = "done" => handled[msg[w]] > 0 \/ dlq[msg[w]] > 0
      BY <2>0, <3>0 DEF WorkersConsistent, Untouched, TypeOK
    <3> QED BY <2>0, <3>0, <3>1, <3>2 DEF NoMessageLost
  <2>1. ASSUME NEW m \in Messages, Publish(m) \/ RetryTTL(m) PROVE NoMessageLost'
    BY <2>1, DirectRoutes DEF Publish, RetryTTL, NoMessageLost, TypeOK
  <2>2. ASSUME NEW w \in Workers, NEW m \in Messages, Deliver(w, m) PROVE NoMessageLost'
    BY <2>2 DEF Deliver, NoMessageLost, TypeOK
  <2>3. ASSUME NEW w \in Workers, HandlerOk(w) PROVE NoMessageLost'
    <3>0. msg[w] \in Messages
      BY <2>3 DEF HandlerOk, WorkersConsistent, Working
    <3>1. /\ handled'[msg[w]] > 0 /\ \A n \in Messages \ {msg[w]} : handled'[n] = handled[n]
      BY <2>3, <3>0, Counts, SMTT(30) DEF HandlerOk, TypeOK
    <3> QED BY <2>3, <3>1 DEF HandlerOk, NoMessageLost
  <2>4. ASSUME NEW w \in Workers, HandlerError(w) PROVE NoMessageLost'
    <3>1. CASE UNCHANGED <<at, handled, dlq>>
      BY <3>1 DEF NoMessageLost
    <3>2. CASE NackReject(w) /\ UNCHANGED dlq
      <4>1. Settle(w, "retry", 1) /\ step[w] = "handling" /\ UNCHANGED <<handled, dlq>>
        BY <2>4, <3>2, DirectRoutes DEF NackReject, HandlerError
      <4> QED BY <2>0, <4>1 DEF Working
    <3> QED BY <2>4, <3>1, <3>2 DEF HandlerError
  <2>5. ASSUME NEW w \in Workers, HandlerPanic(w) PROVE NoMessageLost'
    BY <2>0, <2>5 DEF HandlerPanic, NackRequeue, Working
  <2>6. ASSUME NEW w \in Workers, PublishToDLQ(w) PROVE NoMessageLost'
    <3>0. msg[w] \in Messages /\ step[w] = "exhausted" /\ UNCHANGED handled
      BY <2>6 DEF PublishToDLQ, WorkersConsistent, Working
    <3>1. CASE UNCHANGED at /\ dlq' = Count(dlq, msg[w])
      <4>1. /\ dlq'[msg[w]] > 0 /\ \A n \in Messages \ {msg[w]} : dlq'[n] = dlq[n]
        BY <3>0, <3>1, Counts DEF TypeOK
      <4> QED BY <3>0, <3>1, <4>1 DEF NoMessageLost
    <3>2. CASE NackRequeue(w) /\ UNCHANGED dlq
      BY <2>0, <3>0, <3>2 DEF NackRequeue, Working
    <3> QED BY <2>6, <3>1, <3>2 DEF PublishToDLQ
  <2>7. ASSUME NEW w \in Workers, AckDelivery(w) PROVE NoMessageLost'
    BY <2>0, <2>7 DEF AckDelivery, Ack, Working
  <2>8. CASE CloseChannels \/ ConnectionLost \/ Restart
    BY <2>8 DEF CloseChannels, ConnectionLost, Restart, TakeBack, NoMessageLost
  <2>9. CASE UNCHANGED <<at, handled, dlq>>
    BY <2>9 DEF NoMessageLost
  <2> QED BY <2>1, <2>2, <2>3, <2>4, <2>5, <2>6, <2>7, <2>8, <2>9
          DEF Next, ProcessMessage, WorkerReturns, CloseSubscriber, PublishChannelLost, vars
<1> QED BY <1>1, <1>2, ConsumerInductive, PTL DEF Spec
=============================================================================
