----------------------- MODULE ServiceLifecycleProofs -----------------------
(***************************************************************************)
(* The publisher and the process around it: one message per publish, what  *)
(* is closed stays closed, how many channels can leak; and what can bring  *)
(* a service down or leave it without a consumer.                          *)
(***************************************************************************)
EXTENDS ServiceLifecycle, FiniteSetTheorems, SequenceTheorems, TLAPS

USE PublisherAssumption, LifecycleAssumption

-----------------------------------------------------------------------------
(* The publisher.                                                          *)

(* Its steps, wherever the process takes them.                             *)
PublisherStep ==
    \/ NewConnection \/ NewBasePublisher \/ ConnectionStep \/ NetworkFault
    \/ \E t \in Callers : PublishEnter(t) \/ CallStep(t) \/ PublishBreaks(t)
    \/ CloseBegins \/ CloseChannel

PublisherInv ==
    /\ PublisherTypeOK /\ PublisherConsistent /\ LeakBudget
    /\ OneMessagePerPublish /\ ClosedIsFinal /\ LeakBounded

(* A new channel is one that is neither open nor in p.ch.                   *)
LEMMA FreshChannel ==
  ASSUME Fresh # {}
  PROVE  /\ (CHOOSE c \in Fresh : TRUE) \in Channels
         /\ (CHOOSE c \in Fresh : TRUE) \notin open /\ (CHOOSE c \in Fresh : TRUE) # ch
<1>1. (CHOOSE c \in Fresh : TRUE) \in Fresh
  OBVIOUS
<1> QED BY <1>1 DEF Fresh

(* Types, the count of messages handed over, and close.                     *)
LEMMA PublisherSafe ==
  ASSUME PublisherTypeOK, PublisherConsistent, OneMessagePerPublish, ClosedIsFinal, PublisherStep
  PROVE  /\ PublisherTypeOK' /\ PublisherConsistent'
         /\ OneMessagePerPublish' /\ ClosedIsFinal'
<1> DEFINE Safe == PublisherTypeOK /\ PublisherConsistent /\ OneMessagePerPublish /\ ClosedIsFinal
<1> USE DEF PublisherTypeOK, PublisherConsistent, OneMessagePerPublish, ClosedIsFinal,
            callers, pubHist, Goto, HandOver, CallSteps
<1>1. CASE NewConnection \/ NotifyClose \/ Redial
  BY <1>1 DEF NewConnection, NotifyClose, Redial
<1>2. CASE NewBasePublisher
  BY <1>2, FreshChannel DEF NewBasePublisher
<1>3. CASE ConnectionLost
  BY <1>3 DEF ConnectionLost, LoseConnection
<1>4. ASSUME NEW c \in Channels, ChannelException(c) PROVE Safe'
  BY <1>4 DEF ChannelException
<1>5. ASSUME NEW t \in Callers, PublishEnter(t) PROVE Safe'
  BY <1>5 DEF PublishEnter
<1>6. ASSUME NEW t \in Callers, PublishFirst(t) PROVE Safe'
  BY <1>6 DEF PublishFirst
<1>7. ASSUME NEW t \in Callers, Reopen(t) PROVE Safe'
  <2>1. PICK c \in Channels : \/ /\ c \notin open /\ open' = open \cup {c} /\ ch' = c
                                 /\ step' = [step EXCEPT ![t] = "retrying"]
                              \/ /\ open' = open /\ ch' = ch
                                 /\ step' = [step EXCEPT ![t] = "error"]
    <3>1. CASE Fresh # {} /\ open' = open \cup {CHOOSE c \in Fresh : TRUE}
               /\ ch' = (CHOOSE c \in Fresh : TRUE) /\ step' = [step EXCEPT ![t] = "retrying"]
      BY <3>1, FreshChannel
    <3>2. CASE open' = open /\ ch' = ch /\ step' = [step EXCEPT ![t] = "error"]
      <4>1. ch \in Channels
        BY <1>7 DEF Reopen
      <4> QED BY <3>2, <4>1
    <3> QED BY <1>7, <3>1, <3>2 DEF Reopen
  <2>2. /\ step[t] = "reopening" /\ sent' = sent /\ conn' = conn /\ watch' = watch
        /\ closing' = closing /\ losses' = losses /\ exceptions' = exceptions
        /\ ch # NoChannel /\ closing # "closed"
    BY <1>7 DEF Reopen
  <2> QED BY <2>1, <2>2
<1>8. ASSUME NEW t \in Callers, PublishAgain(t) PROVE Safe'
  BY <1>8 DEF PublishAgain
<1>9. ASSUME NEW t \in Callers, PublishReturns(t) PROVE Safe'
  BY <1>9 DEF PublishReturns
<1>10. ASSUME NEW t \in Callers, PublishBreaks(t) PROVE Safe'
  BY <1>10 DEF PublishBreaks, LoseConnection
<1>11. CASE CloseBegins \/ CloseChannel
  BY <1>11 DEF CloseBegins, CloseChannel
<1> QED BY <1>1, <1>2, <1>3, <1>4, <1>5, <1>6, <1>7, <1>8, <1>9, <1>10, <1>11
        DEF PublisherStep, ConnectionStep, NetworkFault, CallStep

(* The sets that are counted are finite.                                    *)
LEMMA Finite ==
  ASSUME PublisherTypeOK
  PROVE  /\ IsFiniteSet(open) /\ IsFiniteSet(Leaked) /\ IsFiniteSet(Late)
         /\ Cardinality(Leaked) \in Nat /\ Cardinality(Late) \in Nat
         /\ Cardinality(Callers) \in Nat \ {0}
<1>1. IsFiniteSet(open) /\ IsFiniteSet(Leaked)
  BY FS_Subset DEF PublisherTypeOK, Leaked
<1>2. IsFiniteSet(Late)
  BY FS_Subset DEF Late
<1>3. Cardinality(Callers) \in Nat /\ Cardinality(Callers) # 0
  BY FS_CardinalityType, FS_EmptySet
<1> QED BY <1>1, <1>2, <1>3, FS_CardinalityType

(* One more incident adds a channel per other caller to what may leak.      *)
LEMMA OneMoreIncident ==
  ASSUME NEW n \in Nat, NEW k \in Nat
  PROVE  n * k \in Nat /\ (n + 1) * k \in Nat /\ (n + 1) * k = n * k + k
  OBVIOUS

(* A connection that is lost leaves no channel open, so the next callers may *)
(* leak one each but for the first.                                        *)
LEMMA LossKeepsBudget ==
  ASSUME PublisherTypeOK, open' = {}, losses' = losses + 1, UNCHANGED exceptions
  PROVE  LeakBudget' /\ LeakBounded'
<1> DEFINE k == Cardinality(Callers) - 1
<1>0. k \in Nat /\ losses + exceptions \in Nat /\ losses' + exceptions' = (losses + exceptions) + 1
  BY Finite DEF PublisherTypeOK
<1>1. Leaked' = {} /\ Cardinality(Leaked') = 0
  BY FS_EmptySet DEF Leaked
<1>2. (losses' + exceptions') * k \in Nat /\ k <= (losses' + exceptions') * k
  <2> HIDE DEF k
  <2> QED BY <1>0, OneMoreIncident
<1>3. ch' \notin open'
  OBVIOUS
<1>4. LeakBounded'
  BY <1>1, <1>2 DEF LeakBounded
<1>5. LeakBudget'
  BY <1>0, <1>1, <1>2, <1>3 DEF LeakBudget
<1> QED BY <1>4, <1>5

(* A step that leaves the channels alone, and lets nobody find the channel   *)
(* gone while it is open, costs nothing.                                    *)
LEMMA QuietKeepsBudget ==
  ASSUME PublisherInv, UNCHANGED <<open, ch, losses, exceptions>>, Late' \subseteq Callers,
         closing' = closing \/ (closing = "no" /\ closing' = "waiting"),
         ch \in open => Late' \subseteq Late
  PROVE  LeakBudget' /\ LeakBounded'
<1>1. Leaked' = Leaked
  BY DEF Leaked
<1>2. LeakBounded'
  BY <1>1 DEF PublisherInv, LeakBounded
<1>3. IsFiniteSet(Late) /\ Cardinality(Late) \in Nat /\ Cardinality(Leaked) \in Nat
      /\ Cardinality(Callers) \in Nat
  BY Finite DEF PublisherInv
<1>4. ch \in open => Cardinality(Late') \in Nat /\ Cardinality(Late') <= Cardinality(Late)
  BY <1>3, FS_Subset, FS_CardinalityType
<1>5. LeakBudget'
  <2> SUFFICES ASSUME ch' # NoChannel, closing' # "closed" PROVE LeakBudget'
    BY DEF LeakBudget
  <2> DEFINE B == (losses + exceptions) * (Cardinality(Callers) - 1)
  <2>0. B \in Int
    BY <1>3 DEF PublisherInv, PublisherTypeOK
  <2>1. Cardinality(Leaked) + (IF ch \in open THEN Cardinality(Late) ELSE Cardinality(Callers) - 1) <= B
    BY DEF PublisherInv, LeakBudget
  <2>2. B' = B
    OBVIOUS
  <2> HIDE DEF B
  <2>3. Cardinality(Leaked') + (IF ch' \in open' THEN Cardinality(Late') ELSE Cardinality(Callers) - 1) <= B
    BY <1>1, <1>3, <1>4, <2>0, <2>1
  <2> QED BY <2>2, <2>3 DEF LeakBudget, B
<1> QED BY <1>2, <1>5

(* An exception closes one channel.                                        *)
LEMMA ExceptionKeepsBudget ==
  ASSUME PublisherInv, NEW c \in Channels, ChannelException(c)
  PROVE  LeakBudget' /\ LeakBounded'
<1> DEFINE k == Cardinality(Callers) - 1
           n == losses + exceptions
<1>0. n \in Nat /\ k \in Nat /\ losses' + exceptions' = n + 1 /\ UNCHANGED <<ch, closing, step>>
  BY Finite DEF PublisherInv, PublisherTypeOK, ChannelException, callers
<1>1. Leaked' \subseteq Leaked /\ (ch \in open' => ch \in open) /\ Late' = Late
  BY <1>0 DEF ChannelException, Leaked, Late
<1>2. /\ Cardinality(Leaked') \in Nat /\ Cardinality(Leaked) \in Nat
      /\ Cardinality(Leaked') <= Cardinality(Leaked) /\ Cardinality(Late) \in Nat
  BY <1>1, Finite, FS_Subset, FS_CardinalityType DEF PublisherInv
<1>3. n * k \in Nat /\ (n + 1) * k = n * k + k
  <2> HIDE DEF n, k
  <2> QED BY <1>0, OneMoreIncident
<1>4. Cardinality(Leaked) <= n * k
  BY DEF PublisherInv, LeakBounded
<1>5. ch # NoChannel /\ closing # "closed" =>
        Cardinality(Leaked) + (IF ch \in open THEN Cardinality(Late) ELSE k) <= n * k
  BY DEF PublisherInv, LeakBudget
<1>6. (losses' + exceptions') * k = n * k + k
  BY <1>0, <1>3
<1>7. /\ Cardinality(Leaked') <= n * k + k
      /\ ch # NoChannel /\ closing # "closed" =>
           Cardinality(Leaked') + (IF ch \in open' THEN Cardinality(Late) ELSE k) <= n * k + k
  <2> HIDE DEF n, k
  <2> QED BY <1>0, <1>1, <1>2, <1>3, <1>4, <1>5
<1> QED BY <1>0, <1>1, <1>6, <1>7 DEF LeakBudget, LeakBounded

(* A caller that reopens a channel leaks the one in p.ch, if that was open.  *)
LEMMA ReopenKeepsBudget ==
  ASSUME PublisherInv, NEW t \in Callers, Reopen(t)
  PROVE  LeakBudget' /\ LeakBounded'
<1> DEFINE k == Cardinality(Callers) - 1
           B == (losses + exceptions) * k
<1>0. /\ step[t] = "reopening" /\ UNCHANGED <<losses, exceptions, closing>>
      /\ ch # NoChannel /\ closing # "closed"
  BY DEF Reopen, PublisherInv, PublisherConsistent, ClosedIsFinal, pubHist
<1>1. Late' = Late \ {t} /\ t \in Late
  BY DEF Reopen, Goto, Late, PublisherInv, PublisherTypeOK
<1>2. /\ IsFiniteSet(Late) /\ IsFiniteSet(open) /\ Cardinality(Late) \in Nat
      /\ Cardinality(Leaked) \in Nat /\ Cardinality(Callers) \in Nat /\ k \in Nat
  BY Finite DEF PublisherInv
<1>3. Cardinality(Late') = Cardinality(Late) - 1 /\ Cardinality(Late') <= k
  <2>1. Cardinality(Late') = Cardinality(Late) - 1
    BY <1>1, <1>2, FS_RemoveElement
  <2>2. Late' \subseteq Callers \ {t} /\ IsFiniteSet(Callers \ {t})
        /\ Cardinality(Callers \ {t}) = Cardinality(Callers) - 1
    BY <1>1, FS_RemoveElement DEF Late
  <2>3. Cardinality(Late') <= Cardinality(Callers \ {t})
    BY <2>2, FS_Subset
  <2> QED BY <2>1, <2>2, <2>3
<1>4. Cardinality(Leaked) + (IF ch \in open THEN Cardinality(Late) ELSE k) <= B /\ B \in Int
  BY <1>0, <1>2 DEF PublisherInv, LeakBudget, PublisherTypeOK
<1>5. B' = B
  BY <1>0
<1> HIDE DEF B
<1>6. CASE UNCHANGED <<open, ch>>
  <2>1. Leaked' = Leaked
    BY <1>6 DEF Leaked
  <2>2. /\ Cardinality(Leaked) <= B
        /\ Cardinality(Leaked) + (IF ch \in open THEN Cardinality(Late') ELSE k) <= B
    BY <1>2, <1>3, <1>4
  <2> QED BY <1>5, <1>6, <2>1, <2>2 DEF LeakBudget, LeakBounded, B
<1>7. CASE conn = "up" /\ Fresh # {} /\ open' = open \cup {CHOOSE c \in Fresh : TRUE}
           /\ ch' = (CHOOSE c \in Fresh : TRUE)
  <2>1. Leaked' = open /\ ch' \in open'
    <3> DEFINE c == CHOOSE c \in Fresh : TRUE
    <3>1. c \notin open /\ open' = open \cup {c} /\ ch' = c
      BY <1>7, FreshChannel
    <3> HIDE DEF c
    <3> QED BY <3>1 DEF Leaked
  <2>2. Cardinality(open) = IF ch \in open THEN Cardinality(Leaked) + 1 ELSE Cardinality(Leaked)
    <3>1. CASE ch \in open
      <4>1. Cardinality(open \ {ch}) = Cardinality(open) - 1
        BY <1>2, <3>1, FS_RemoveElement
      <4>2. Cardinality(open) \in Nat
        BY <1>2, FS_CardinalityType
      <4> QED BY <3>1, <4>1, <4>2 DEF Leaked
    <3>2. CASE ch \notin open
      <4>1. Leaked = open
        BY <3>2 DEF Leaked
      <4> QED BY <3>2, <4>1
    <3> QED BY <3>1, <3>2
  <2>3. Cardinality(open) + Cardinality(Late') <= B /\ Cardinality(open) <= B
    <3> HIDE DEF k
    <3>1. CASE ch \in open
      <4>1. Cardinality(Leaked) + Cardinality(Late) <= B
        BY <1>4, <3>1
      <4>2. Cardinality(open) = Cardinality(Leaked) + 1
        BY <2>2, <3>1
      <4>3. Cardinality(Late') = Cardinality(Late) - 1 /\ Cardinality(Late') \in Nat
        BY <1>1, <1>2, <1>3, FS_RemoveElement, FS_CardinalityType
      <4> QED BY <1>2, <1>4, <4>1, <4>2, <4>3
    <3>2. CASE ch \notin open
      BY <1>2, <1>3, <1>4, <2>2, <3>2
    <3> QED BY <3>1, <3>2
  <2> QED BY <1>5, <2>1, <2>3 DEF LeakBudget, LeakBounded, B
<1> QED BY <1>6, <1>7 DEF Reopen

(* Every step of the publisher keeps the leak within its budget.            *)
LEMMA PublisherLeaks ==
  ASSUME PublisherInv, PublisherStep
  PROVE  LeakBudget' /\ LeakBounded'
<1> USE DEF PublisherInv, callers, pubHist
<1>0. Late' \subseteq Callers
  BY DEF Late
<1>1. CASE NewConnection \/ NotifyClose \/ Redial \/ CloseBegins
  <2>1. /\ UNCHANGED <<open, ch, losses, exceptions, step>>
        /\ closing' = closing \/ (closing = "no" /\ closing' = "waiting")
    BY <1>1 DEF NewConnection, NotifyClose, Redial, CloseBegins
  <2>2. Late' = Late
    BY <2>1 DEF Late
  <2> QED BY <1>0, <2>1, <2>2, QuietKeepsBudget
<1>2. CASE NewBasePublisher
  <2> DEFINE c == CHOOSE c \in Fresh : TRUE
             B == (losses + exceptions) * (Cardinality(Callers) - 1)
  <2>1. open = {} /\ ch' = c /\ open' = {c} /\ UNCHANGED <<losses, exceptions, step>>
        /\ \A t \in Callers : step[t] = "idle"
    BY <1>2 DEF NewBasePublisher, PublisherConsistent
  <2>2. B \in Nat
    <3>1. losses + exceptions \in Nat /\ Cardinality(Callers) - 1 \in Nat
      BY Finite DEF PublisherTypeOK
    <3> QED BY <3>1, OneMoreIncident
  <2>3. Cardinality(Leaked') = 0 /\ Cardinality(Late') = 0 /\ B' = B /\ ch' \in open'
    <3>1. Leaked' = {} /\ Late' = {}
      BY <2>1 DEF Leaked, Late
    <3> QED BY <2>1, <3>1, FS_EmptySet
  <2> HIDE DEF B, c
  <2>4. Cardinality(Leaked') <= B' /\ Cardinality(Leaked') + Cardinality(Late') <= B'
    BY <2>2, <2>3
  <2> QED BY <2>3, <2>4 DEF LeakBudget, LeakBounded, B
<1>3. CASE ConnectionLost
  BY <1>3, LossKeepsBudget DEF ConnectionLost, LoseConnection
<1>4. ASSUME NEW x \in Channels, ChannelException(x) PROVE LeakBudget' /\ LeakBounded'
  BY <1>4, ExceptionKeepsBudget
<1>5. ASSUME NEW t \in Callers, PublishEnter(t) \/ PublishFirst(t) \/ PublishAgain(t) \/ PublishReturns(t)
      PROVE  LeakBudget' /\ LeakBounded'
  <2>1. /\ UNCHANGED <<open, ch, losses, exceptions, closing>>
        /\ ch \in open => Late' \subseteq Late
    BY <1>5 DEF PublishEnter, PublishFirst, PublishAgain, PublishReturns, HandOver, Goto, Late,
                PublisherTypeOK
  <2> QED BY <1>0, <2>1, QuietKeepsBudget
<1>6. ASSUME NEW t \in Callers, Reopen(t) PROVE LeakBudget' /\ LeakBounded'
  BY <1>6, ReopenKeepsBudget
<1>7. ASSUME NEW t \in Callers, PublishBreaks(t) PROVE LeakBudget' /\ LeakBounded'
  BY <1>7, LossKeepsBudget DEF PublishBreaks, LoseConnection
<1>8. CASE CloseChannel
  <2>1. Leaked' = Leaked /\ UNCHANGED <<losses, exceptions>> /\ closing' = "closed"
    BY <1>8 DEF CloseChannel, Leaked
  <2> QED BY <2>1 DEF LeakBudget, LeakBounded
<1> QED BY <1>1, <1>2, <1>3, <1>4, <1>5, <1>6, <1>7, <1>8
        DEF PublisherStep, ConnectionStep, NetworkFault, CallStep

(* Nothing else the process does touches the publisher.                     *)
LEMMA ProcessSteps ==
  ASSUME [Next]_vars
  PROVE  PublisherStep \/ UNCHANGED pubVars
<1> USE DEF PublisherStep
<1>1. CASE SetupStep
  BY <1>1 DEF SetupStep, SetupConnection, SetupPublisher, Start, SetupPart, SetupFails
<1>2. CASE RpcArrives \/ RpcEnds \/ RpcPanics \/ \E x \in {"http", "grpc"} : ServerReturns(x)
  BY <1>2 DEF RpcArrives, RpcEnds, RpcPanics, ServerReturns
<1>3. CASE SubscribeStep \/ ConsumerException \/ WorkerStep
  BY <1>3 DEF SubscribeStep, SubscribeCheck, StartWorkers, AppendConsumer, ConsumerException,
              WorkerStep, BatchRunsOut, WorkerReturns
<1>4. ASSUME NEW t \in Callers, Publishing(t) PROVE PublisherStep
  BY <1>4 DEF Publishing
<1>5. CASE Broker
  BY <1>5 DEF Broker
<1>6. CASE Sigterm \/ StopStep
  BY <1>6 DEF Sigterm, StopStep, StopPart, StopGrpc, StopPublisher, StopSubscriber, WaitReturns
<1>7. CASE ListenerSendReplaced \/ ListenerSend
  BY <1>7 DEF ListenerSendReplaced, ListenerSend
<1>8. CASE UNCHANGED vars
  BY <1>8 DEF vars
<1> QED BY <1>1, <1>2, <1>3, <1>4, <1>5, <1>6, <1>7, <1>8 DEF Next

(* The publisher's inductive invariant, in a process that starts, serves     *)
(* and stops.                                                              *)
LEMMA PublisherStarts ==
  ASSUME Init
  PROVE  PublisherInv
<1> USE DEF Init, PublisherInit
<1>1. PublisherTypeOK /\ PublisherConsistent /\ OneMessagePerPublish /\ ClosedIsFinal /\ LeakBudget
  BY DEF PublisherTypeOK, CallSteps, PublisherConsistent, OneMessagePerPublish, ClosedIsFinal,
         LeakBudget
<1>2. LeakBounded
  <2>1. Leaked = {} /\ losses + exceptions = 0
    BY DEF Leaked
  <2>2. Cardinality(Callers) - 1 \in Nat
    BY <1>1, Finite
  <2>3. (losses + exceptions) * (Cardinality(Callers) - 1) = 0
    BY <2>1, <2>2
  <2> QED BY <2>1, <2>3, FS_EmptySet DEF LeakBounded
<1> QED BY <1>1, <1>2 DEF PublisherInv

LEMMA PublisherPreserved ==
  ASSUME PublisherInv, [Next]_vars
  PROVE  PublisherInv'
<1>1. CASE PublisherStep
  <2>1. LeakBudget' /\ LeakBounded'
    BY <1>1, PublisherLeaks
  <2> QED BY <1>1, <2>1, PublisherSafe DEF PublisherInv
<1>2. CASE UNCHANGED pubVars
  BY <1>2 DEF pubVars, callers, pubHist, PublisherInv, PublisherTypeOK, PublisherConsistent,
              LeakBudget, Late, Leaked, OneMessagePerPublish, ClosedIsFinal, LeakBounded
<1> QED BY <1>1, <1>2, ProcessSteps

(* Whatever main, the callers, the broker and the network do, in whatever    *)
(* order, the publisher's invariant holds.                                 *)
THEOREM PublisherInductive == Spec => []PublisherInv
<1> QED BY PublisherStarts, PublisherPreserved, PTL DEF Spec

(* A publish hands over one message at most, and one if it returns nil.     *)
THEOREM PublishOnce == Spec => []OneMessagePerPublish
<1>1. PublisherInv => OneMessagePerPublish
  BY DEF PublisherInv
<1> QED BY <1>1, PublisherInductive, PTL

(* After close the channel is closed and no publish is at work.             *)
THEOREM CloseIsFinal == Spec => []ClosedIsFinal
<1>1. PublisherInv => ClosedIsFinal
  BY DEF PublisherInv
<1> QED BY <1>1, PublisherInductive, PTL

(* An incident costs at most one channel per other publisher.              *)
THEOREM LeakIsBounded == Spec => []LeakBounded
<1>1. PublisherInv => LeakBounded
  BY DEF PublisherInv
<1> QED BY <1>1, PublisherInductive, PTL

-----------------------------------------------------------------------------
(* The plans of main.                                                      *)

(* Every name that occurs in a plan.                                        *)
PartNames ==
    {"tracer", "metrics", "dbLogger", "migrations", "database", "redis", "connection",
     "httpMetrics", "http", "grpcMetrics", "grpc", "authClient"} \cup OnChannel \cup Topologies

(* serve's parts come first, then Setup's.                                  *)
LEMMA Joined ==
  ASSUME NEW S, NEW s \in Seq(S), NEW t \in Seq(S), NEW c, c = s \o t
  PROVE  /\ Len(c) = Len(s) + Len(t)
         /\ \A i \in 1..Len(s) : c[i] = s[i]
         /\ \A i \in 1..Len(t) : c[i + Len(s)] = t[i]
<1>1. /\ Len(c) = Len(s) + Len(t)
      /\ \A i \in 1..(Len(s) + Len(t)) : c[i] = IF i <= Len(s) THEN s[i] ELSE t[i - Len(s)]
  BY ConcatProperties, Zenon
<1>0. Len(s) \in Nat /\ Len(t) \in Nat
  BY LenProperties
<1> DEFINE m == Len(s)
           n == Len(t)
<1>2. /\ Len(c) = m + n /\ m \in Nat /\ n \in Nat
      /\ \A i \in 1..(m + n) : c[i] = IF i <= m THEN s[i] ELSE t[i - m]
  BY <1>0, <1>1
<1> HIDE DEF m, n
<1>3. \A i \in 1..m : c[i] = s[i]
  BY <1>2
<1>4. ASSUME NEW i \in 1..n PROVE c[i + m] = t[i]
  <2>1. i + m \in 1..(m + n) /\ ~(i + m <= m) /\ i + m - m = i
    BY <1>2
  <2> QED BY <1>2, <2>1
<1> QED BY <1>2, <1>3, <1>4 DEF m, n

(* What is in a plan has a place in it.                                    *)
LEMMA PlanIsSequence ==
  ASSUME service \in Services
  PROVE  /\ Plan \in Seq(PartNames) /\ Len(Plan) \in Nat
         /\ \A p : p \in Range(Plan) <=> \E i \in 1..Len(Plan) : Plan[i] = p
<1> USE DEF PartNames, OnChannel, Topologies
<1>1. AuthServe \in Seq(PartNames) /\ AuthSetup \in Seq(PartNames)
  BY DEF AuthServe, AuthSetup
<1>2. WalletServe \in Seq(PartNames) /\ WalletSetup \in Seq(PartNames)
  BY DEF WalletServe, WalletSetup
<1>3. NotificationServe \in Seq(PartNames) /\ NotificationSetup \in Seq(PartNames)
  BY DEF NotificationServe, NotificationSetup
<1>4. DocsServe \in Seq(PartNames) /\ DocsSetup \in Seq(PartNames)
  BY DEF DocsServe, DocsSetup
<1> HIDE DEF PartNames, OnChannel, Topologies
<1>5. \A s, t \in Seq(PartNames) : s \o t \in Seq(PartNames)
  BY ConcatProperties, Zenon
<1>6. service \in {"auth", "wallet", "notification", "docs"}
  OBVIOUS
<1>7. Plan \in Seq(PartNames)
  <2>1. CASE service = "auth"
    BY <1>1, <1>5, <2>1 DEF Plan
  <2>2. CASE service = "wallet"
    BY <1>2, <1>5, <2>2 DEF Plan
  <2>3. CASE service = "notification"
    BY <1>3, <1>5, <2>3 DEF Plan
  <2>4. CASE service = "docs"
    BY <1>4, <1>5, <2>4 DEF Plan
  <2> QED BY <1>6, <2>1, <2>2, <2>3, <2>4
<1>8. Len(Plan) \in Nat /\ DOMAIN Plan = 1..Len(Plan)
  BY <1>7, LenProperties
<1> QED BY <1>7, <1>8 DEF Range

(* The wallet service cannot do without its subscriber.                     *)
LEMMA WalletPlan ==
  ASSUME service \in Services, service = "wallet"
  PROVE  "connection" \in Range(Plan) \ Unchecked /\ "subscriber" \in Range(Plan) \ Unchecked
<1>1. WalletServe \in Seq(PartNames) /\ WalletSetup \in Seq(PartNames)
  BY DEF WalletServe, WalletSetup, PartNames, OnChannel, Topologies
<1>2. Len(WalletServe) = 5 /\ Len(WalletSetup) = 5
  BY DEF WalletServe, WalletSetup
<1>3. WalletSetup[3] = "connection" /\ WalletSetup[5] = "subscriber"
  BY DEF WalletSetup
<1>4. Plan = WalletServe \o WalletSetup
  BY DEF Plan
<1>5. Len(Plan) = 5 + 5 /\ Plan[3 + 5] = WalletSetup[3] /\ Plan[5 + 5] = WalletSetup[5]
  <2>1. /\ Len(Plan) = Len(WalletServe) + Len(WalletSetup)
        /\ \A i \in 1..Len(WalletSetup) : Plan[i + Len(WalletServe)] = WalletSetup[i]
    BY <1>1, <1>4, Joined, SMT
  <2> QED BY <1>2, <2>1
<1>6. "connection" \in Range(Plan) /\ "subscriber" \in Range(Plan)
  <2>1. 8 \in 1..Len(Plan) /\ 10 \in 1..Len(Plan) /\ Plan[8] = "connection" /\ Plan[10] = "subscriber"
    BY <1>3, <1>5
  <2> QED BY <2>1, PlanIsSequence
<1>7. Unchecked = {}
  BY DEF Unchecked
<1> QED BY <1>6, <1>7

(* The notification service dials before it builds its subscriber, whose     *)
(* error it does not look at.                                              *)
LEMMA NotificationPlan ==
  ASSUME service \in Services, service = "notification"
  PROVE  /\ "connection" \in Range(Plan) \ Unchecked /\ Unchecked = {"subscriber"}
         /\ Len(Plan) = 14 /\ Plan[7] = "connection" /\ Plan[11] = "subscriber"
         /\ \A i \in 1..Len(Plan) : Plan[i] = "subscriber" => i = 11
<1>1. NotificationServe \in Seq(PartNames) /\ NotificationSetup \in Seq(PartNames)
  BY DEF NotificationServe, NotificationSetup, PartNames, OnChannel, Topologies
<1>2. Len(NotificationServe) = 6 /\ Len(NotificationSetup) = 8
  BY DEF NotificationServe, NotificationSetup
<1>3. Plan = NotificationServe \o NotificationSetup
  BY DEF Plan
<1>4. /\ Len(Plan) = 6 + 8 /\ \A i \in 1..6 : Plan[i] = NotificationServe[i]
      /\ \A i \in 1..8 : Plan[i + 6] = NotificationSetup[i]
  <2>1. /\ Len(Plan) = Len(NotificationServe) + Len(NotificationSetup)
        /\ \A i \in 1..Len(NotificationServe) : Plan[i] = NotificationServe[i]
        /\ \A i \in 1..Len(NotificationSetup) :
              Plan[i + Len(NotificationServe)] = NotificationSetup[i]
    BY <1>1, <1>3, Joined, SMT
  <2> QED BY <1>2, <2>1
<1>5. NotificationSetup[1] = "connection" /\ NotificationSetup[5] = "subscriber"
  BY DEF NotificationSetup
<1>6. Len(Plan) = 14 /\ Plan[7] = "connection" /\ Plan[11] = "subscriber"
  <2>1. Plan[1 + 6] = "connection" /\ Plan[5 + 6] = "subscriber"
    BY <1>4, <1>5
  <2> QED BY <1>4, <2>1
<1>7. \A i \in 1..6 : NotificationServe[i] # "subscriber"
  BY DEF NotificationServe
<1>8. \A i \in 1..8 : NotificationSetup[i] = "subscriber" => i = 5
  BY DEF NotificationSetup
<1>9. ASSUME NEW i \in 1..14, Plan[i] = "subscriber" PROVE i = 11
  <2>1. CASE i \in 1..6
    BY <1>4, <1>7, <1>9, <2>1
  <2>2. CASE i \notin 1..6
    <3>1. i - 6 \in 1..8 /\ (i - 6) + 6 = i
      BY <2>2
    <3>2. NotificationSetup[i - 6] = "subscriber"
      BY <1>4, <1>9, <3>1
    <3> QED BY <1>8, <3>1, <3>2
  <2> QED BY <2>1, <2>2
<1>10. Unchecked = {"subscriber"}
  BY DEF Unchecked
<1>11. "connection" \in Range(Plan)
  BY <1>6, PlanIsSequence
<1> QED BY <1>6, <1>9, <1>10, <1>11

(* Every stop sequence ends in wg.Wait; which ones stop a gRPC server or a   *)
(* subscriber.                                                             *)
LEMMA StopPlans ==
  ASSUME service \in Services
  PROVE  /\ Len(StopPlan) \in Nat \ {0}
         /\ \A i \in 1..Len(StopPlan) :
               /\ StopPlan[i] # "wait" => i + 1 <= Len(StopPlan)
               /\ StopPlan[i] = "grpc" => service = "auth" /\ i > 1
               /\ StopPlan[i] = "subscriber" => service \in {"wallet", "notification"}
<1>1. CASE service = "auth"
  BY <1>1 DEF StopPlan, AuthStop
<1>2. CASE service = "wallet"
  BY <1>2 DEF StopPlan, WalletStop
<1>3. CASE service = "notification"
  BY <1>3 DEF StopPlan, NotificationStop
<1>4. CASE service = "docs"
  BY <1>4 DEF StopPlan, DocsStop
<1> QED BY <1>1, <1>2, <1>3, <1>4

-----------------------------------------------------------------------------
(* The process.                                                            *)

(* The process's part of the inductive invariant.                           *)
ProcessInv ==
    /\ TypeOK /\ SetupInOrder /\ SubscribeInOrder /\ ListenerInOrder
    /\ (SubscriberMissed => losses > 0)
    /\ CrashHasCause /\ ConsumerMatchesLifecycle

(* A connection that was made is made for good, losses are never forgotten,  *)
(* and p.ch is set by the constructor first.                               *)
LEMMA PublisherGrows ==
  ASSUME PublisherInv, PublisherStep \/ UNCHANGED pubVars
  PROVE  /\ losses > 0 => losses' > 0
         /\ losses' = 0 => losses = 0
         /\ conn # "none" => conn' # "none"
         /\ ch' # NoChannel => ch # NoChannel \/ NewBasePublisher
<1> USE DEF PublisherInv, PublisherTypeOK, PublisherConsistent, callers, pubHist
<1>1. losses' \in {losses, losses + 1}
  BY DEF PublisherStep, NewConnection, NewBasePublisher, ConnectionStep, NotifyClose, Redial,
         NetworkFault, ConnectionLost, LoseConnection, ChannelException, PublishEnter, CallStep,
         PublishFirst, Reopen, PublishAgain, PublishReturns, PublishBreaks, CloseBegins,
         CloseChannel, pubVars
<1>2. conn # "none" => conn' # "none"
  BY DEF PublisherStep, NewConnection, NewBasePublisher, ConnectionStep, NotifyClose, Redial,
         NetworkFault, ConnectionLost, LoseConnection, ChannelException, PublishEnter, CallStep,
         PublishFirst, Reopen, PublishAgain, PublishReturns, PublishBreaks, CloseBegins,
         CloseChannel, pubVars
<1>3. ch' # NoChannel => ch # NoChannel \/ NewBasePublisher
  BY DEF PublisherStep, NewConnection, ConnectionStep, NotifyClose, Redial,
         NetworkFault, ConnectionLost, LoseConnection, ChannelException, PublishEnter, CallStep,
         PublishFirst, Reopen, PublishAgain, PublishReturns, PublishBreaks, CloseBegins,
         CloseChannel, pubVars
<1> QED BY <1>1, <1>2, <1>3

(* What depends on the service alone does not change.                       *)
LEMMA SameService ==
  ASSUME UNCHANGED service
  PROVE  UNCHANGED <<Plan, StopPlan, Goroutines, Unchecked, Publisher>>
  BY DEF Plan, StopPlan, Goroutines, Unchecked, Publisher

(* A step of the servers, the worker, the publishers or the broker: of what   *)
(* the process's invariant is about, it may only lose the consumer group,    *)
(* with the connection or alone.                                           *)
LEMMA QuietStep ==
  ASSUME PublisherInv, PublisherInv', ProcessInv, PublisherStep \/ UNCHANGED pubVars,
         UNCHANGED <<service, phase, pos, parts, listed, metClose, target>>,
         ch' # NoChannel => ch # NoChannel,
         g' \in [AllGoroutines -> {"none", "starting", "checked", "consuming", "running",
                                   "draining", "returned"}],
         g'["subscribe"] = g["subscribe"], g'["listener"] = g["listener"], busy' \in BOOLEAN,
         \/ group' = group
         \/ group = "open" /\ group' = "lost" /\ losses' > 0
         \/ group = "open" /\ group' = "broken"
  PROVE  ProcessInv'
<1> USE DEF ProcessInv
<1>0. /\ losses > 0 => losses' > 0
      /\ losses' = 0 => losses = 0
      /\ conn # "none" => conn' # "none"
      /\ UNCHANGED <<Plan, StopPlan, Goroutines, Unchecked, Publisher>>
  BY PublisherGrows, SameService
<1>1. TypeOK'
  BY <1>0 DEF TypeOK, PublisherInv
<1>2. SetupInOrder'
  BY <1>0 DEF SetupInOrder, Started
<1>3. \A p : Passed(p)' <=> Passed(p)
  BY <1>0 DEF Passed
<1>4. SubscribeInOrder'
  BY <1>0, <1>3 DEF SubscribeInOrder, Started
<1>5. SubscriberMissed' => losses' > 0
  BY <1>0 DEF SubscriberMissed, Started
<1>6. CrashHasCause'
  BY <1>0 DEF CrashHasCause, HubClosed
<1>7. ConsumerMatchesLifecycle'
  BY <1>0, <1>3 DEF ConsumerMatchesLifecycle, SubscribeInOrder
<1>8. ListenerInOrder'
  BY <1>0 DEF ListenerInOrder, HubClosed
<1> QED BY <1>1, <1>2, <1>4, <1>5, <1>6, <1>7, <1>8

(* Setup builds the next part of its plan.                                  *)
LEMMA PartBuilt ==
  ASSUME PublisherInv, PublisherInv', ProcessInv, PublisherStep \/ UNCHANGED pubVars,
         NEW p, Building(p), Built(p), ch' # NoChannel => ch # NoChannel \/ p = Publisher,
         p = "connection" => conn' # "none"
  PROVE  ProcessInv'
<1> USE DEF ProcessInv
<1>0. /\ losses > 0 => losses' > 0
      /\ conn # "none" => conn' # "none"
      /\ UNCHANGED <<Plan, StopPlan, Goroutines, Unchecked, Publisher>>
  BY PublisherGrows, SameService DEF Built
<1>1. /\ phase = "setup" /\ pos <= Len(Plan) /\ Plan[pos] = p /\ pos \in Nat \ {0} /\ Len(Plan) \in Nat
      /\ parts' = parts \cup {p} /\ pos' = pos + 1
      /\ UNCHANGED <<service, phase, g, busy, group, listed, metClose, target>>
  BY PlanIsSequence DEF Building, Built, TypeOK
<1>2. TypeOK'
  <2>1. p \in Range(Plan)
    BY <1>1, PlanIsSequence DEF TypeOK
  <2> QED BY <1>0, <1>1, <2>1 DEF TypeOK, PublisherInv
<1>3. SetupInOrder'
  <2>1. \A i \in 1..(pos' - 1) : Plan[i] \in parts' \cup Unchecked
    BY <1>1 DEF SetupInOrder
  <2>2. (ch' # NoChannel => Publisher \in parts') /\ ("connection" \in parts' => conn' # "none")
    BY <1>0, <1>1 DEF SetupInOrder
  <2> QED BY <1>0, <1>1, <2>1, <2>2 DEF SetupInOrder, Started
<1>4. SubscribeInOrder'
  BY <1>0, <1>1 DEF SubscribeInOrder, Started, Passed
<1>5. SubscriberMissed' => losses' > 0
  <2> SUFFICES ASSUME SubscriberMissed' PROVE losses' > 0
    OBVIOUS
  <2>1. PICK i \in 1..pos : Plan[i] = "subscriber"
    BY <1>0, <1>1 DEF SubscriberMissed, Started
  <2>2. "subscriber" \notin parts' /\ service = "notification"
    BY <1>1 DEF SubscriberMissed
  <2>3. i \in 1..(pos - 1)
    BY <1>1, <2>1, <2>2
  <2> QED BY <1>0, <1>1, <2>1, <2>2, <2>3 DEF SubscriberMissed
<1>6. CrashHasCause' /\ ConsumerMatchesLifecycle'
  BY <1>1 DEF CrashHasCause, ConsumerMatchesLifecycle, SubscribeInOrder, Passed
<1>7. ListenerInOrder'
  BY <1>1 DEF ListenerInOrder
<1> QED BY <1>2, <1>3, <1>4, <1>5, <1>6, <1>7

(* A constructor fails: Fatal, or the error nobody looks at.  Then the        *)
(* connection, which was there before, must have been lost.                 *)
LEMMA PartFails ==
  ASSUME PublisherInv, ProcessInv, NEW p, SetupFails(p)
  PROVE  ProcessInv'
<1> USE DEF ProcessInv
<1>0. /\ UNCHANGED <<conn, ch, losses>> /\ PublisherTypeOK'
      /\ UNCHANGED <<Plan, StopPlan, Goroutines, Unchecked, Publisher>>
  BY SameService DEF SetupFails, pubVars, callers, pubHist, PublisherInv, PublisherTypeOK
<1>1. /\ phase = "setup" /\ pos <= Len(Plan) /\ Plan[pos] = p /\ pos \in Nat \ {0} /\ Len(Plan) \in Nat
      /\ UNCHANGED <<service, parts, g, busy, group, listed, metClose, target>>
      /\ p \in OnChannel => conn # "up"
      /\ \/ p \in Unchecked /\ pos' = pos + 1 /\ phase' = "setup"
         \/ phase' = "fatal" /\ pos' = pos
  BY PlanIsSequence DEF SetupFails, Building, TypeOK
<1>2. TypeOK'
  BY <1>0, <1>1 DEF TypeOK, Phases
<1>3. SetupInOrder'
  <2>1. CASE p \in Unchecked /\ pos' = pos + 1 /\ phase' = "setup"
    <3>1. \A i \in 1..(pos' - 1) : Plan[i] \in parts \cup Unchecked
      BY <1>1, <2>1 DEF SetupInOrder
    <3> QED BY <1>0, <1>1, <2>1, <3>1 DEF SetupInOrder, Started
  <2>2. CASE phase' = "fatal" /\ pos' = pos
    BY <1>0, <1>1, <2>2 DEF SetupInOrder, Started
  <2> QED BY <1>1, <2>1, <2>2
<1>4. SubscribeInOrder'
  BY <1>0, <1>1 DEF SubscribeInOrder, Started, Passed
<1>5. SubscriberMissed' => losses' > 0
  <2> SUFFICES ASSUME SubscriberMissed' PROVE losses' > 0
    OBVIOUS
  <2>0. phase' = "setup" /\ pos' = pos + 1 /\ service = "notification" /\ "subscriber" \notin parts
    BY <1>1 DEF SubscriberMissed, Started
  <2>1. PICK i \in 1..pos : Plan[i] = "subscriber"
    BY <1>0, <1>1, <2>0 DEF SubscriberMissed, Started
  <2>2. CASE i # pos
    BY <1>0, <1>1, <2>0, <2>1, <2>2 DEF SubscriberMissed
  <2>3. CASE i = pos
    <3>1. p = "subscriber" /\ conn # "up"
      BY <1>1, <2>1, <2>3 DEF OnChannel
    <3>2. pos = 11 /\ Plan[7] = "connection" /\ Unchecked = {"subscriber"}
      BY <1>1, <2>0, <2>1, <2>3, NotificationPlan DEF TypeOK
    <3>3. "connection" \in parts
      BY <1>1, <3>2 DEF SetupInOrder
    <3>4. conn = "down"
      BY <3>1, <3>3 DEF SetupInOrder, PublisherInv, PublisherTypeOK
    <3> QED BY <1>0, <3>4 DEF PublisherInv, PublisherConsistent
  <2> QED BY <2>2, <2>3
<1>6. CrashHasCause' /\ ConsumerMatchesLifecycle'
  BY <1>1 DEF CrashHasCause, ConsumerMatchesLifecycle, SubscribeInOrder, Passed
<1>7. ListenerInOrder'
  BY <1>1 DEF ListenerInOrder
<1> QED BY <1>2, <1>3, <1>4, <1>5, <1>6, <1>7

(* Setup is through.                                                       *)
LEMMA ServiceStarts ==
  ASSUME PublisherInv, ProcessInv, Start
  PROVE  ProcessInv'
<1> USE DEF ProcessInv
<1>0. /\ UNCHANGED <<conn, ch, losses>> /\ PublisherTypeOK'
      /\ UNCHANGED <<Plan, StopPlan, Goroutines, Unchecked, Publisher>>
  BY SameService DEF Start, pubVars, callers, pubHist, PublisherInv, PublisherTypeOK
<1>1. /\ phase = "setup" /\ phase' = "serving" /\ pos' = 1 /\ pos = Len(Plan) + 1
      /\ Len(Plan) \in Nat /\ UNCHANGED <<service, parts, busy, group, listed, metClose, target>>
  BY PlanIsSequence DEF Start, TypeOK, SetupInOrder
<1>2. g'["subscribe"] = IF "subscribe" \in Goroutines THEN "starting" ELSE "none"
  BY DEF Start, AllGoroutines
<1>3. TypeOK'
  <2>1. g' \in [AllGoroutines -> {"none", "starting", "checked", "consuming", "running",
                                  "draining", "returned"}]
    BY DEF Start
  <2> QED BY <1>0, <1>1, <2>1 DEF TypeOK, Phases
<1>4. SetupInOrder'
  <2>1. Range(Plan) \ Unchecked \subseteq parts
    BY <1>1, PlanIsSequence DEF SetupInOrder, TypeOK
  <2> QED BY <1>0, <1>1, <2>1 DEF SetupInOrder, Started
<1>5. SubscribeInOrder'
  BY <1>0, <1>1, <1>2 DEF SubscribeInOrder, Started, Passed
<1>6. SubscriberMissed' => losses' > 0
  <2> SUFFICES ASSUME SubscriberMissed' PROVE losses' > 0
    OBVIOUS
  <2>1. service = "notification" /\ "subscriber" \notin parts
    BY <1>1 DEF SubscriberMissed
  <2>2. 11 \in 1..(pos - 1) /\ Plan[11] = "subscriber"
    <3>1. Len(Plan) = 14 /\ Plan[11] = "subscriber"
      BY <2>1, NotificationPlan DEF TypeOK
    <3> HIDE DEF ProcessInv
    <3> QED BY <1>1, <3>1
  <2> QED BY <1>0, <1>1, <2>1, <2>2 DEF SubscriberMissed
<1>7. CrashHasCause' /\ ConsumerMatchesLifecycle'
  BY <1>1, <1>2 DEF CrashHasCause, ConsumerMatchesLifecycle, Passed
<1>8. ListenerInOrder'
  <2>1. "listener" \in Goroutines => service = "notification"
    BY DEF Goroutines, AuthGoroutines, WalletGoroutines, DocsGoroutines, TypeOK
  <2>2. "listener" \notin Goroutines => g'["listener"] = "none"
    BY DEF Start, AllGoroutines
  <2>3. target = "none"
    BY <1>1 DEF ListenerInOrder
  <2> QED BY <1>1, <2>1, <2>2, <2>3 DEF ListenerInOrder
<1> QED BY <1>3, <1>4, <1>5, <1>6, <1>7, <1>8

(* A panic: which part is missing, and why; or what the listener sent on.    *)
LEMMA Panics ==
  ASSUME PublisherInv, ProcessInv, Crash, UNCHANGED <<pubVars, service, parts>>,
         \/ service = "auth" /\ "grpc" \notin parts /\ pos > 1
         \/ service = "notification" /\ "subscriber" \notin parts /\ losses > 0
         \/ target = "closed"
  PROVE  ProcessInv'
<1> USE DEF ProcessInv, Crash
<1>0. /\ UNCHANGED <<conn, ch, losses>> /\ PublisherTypeOK'
      /\ UNCHANGED <<Plan, StopPlan, Goroutines, Unchecked, Publisher>>
  BY SameService DEF pubVars, callers, pubHist, PublisherInv, PublisherTypeOK
<1>1. TypeOK'
  BY <1>0 DEF TypeOK, Phases
<1>2. SetupInOrder' /\ SubscribeInOrder'
  BY <1>0 DEF SetupInOrder, SubscribeInOrder, Started, Passed
<1>3. SubscriberMissed' => losses' > 0
  BY DEF SubscriberMissed, Started
<1>4. HubClosed' <=> HubClosed
  BY <1>0 DEF HubClosed
<1>5. CrashHasCause' /\ ConsumerMatchesLifecycle'
  BY <1>0, <1>4 DEF CrashHasCause, ConsumerMatchesLifecycle, ListenerInOrder, Passed
<1>6. ListenerInOrder'
  BY <1>4 DEF ListenerInOrder
<1> QED BY <1>1, <1>2, <1>3, <1>5, <1>6

(* A second stream closes the channel that the listener sends on.            *)
LEMMA ReplacedPanics ==
  ASSUME PublisherInv, ProcessInv, ListenerSendReplaced
  PROVE  ProcessInv'
<1> USE DEF ProcessInv, ListenerSendReplaced
<1>0. /\ UNCHANGED <<conn, ch, losses>> /\ PublisherTypeOK'
      /\ UNCHANGED <<Plan, StopPlan, Goroutines, Unchecked, Publisher>>
  BY SameService DEF pubVars, callers, pubHist, PublisherInv, PublisherTypeOK
<1>1. TypeOK'
  BY <1>0 DEF TypeOK, Phases
<1>2. SetupInOrder' /\ SubscribeInOrder'
  BY <1>0 DEF SetupInOrder, SubscribeInOrder, Started, Passed
<1>3. (SubscriberMissed' => losses' > 0) /\ ConsumerMatchesLifecycle'
  BY DEF SubscriberMissed, Started, ConsumerMatchesLifecycle, Passed
<1>4. CrashHasCause' /\ ListenerInOrder'
  BY DEF CrashHasCause, ListenerInOrder
<1> QED BY <1>1, <1>2, <1>3, <1>4

(* Which services subscribe, and that they have dialled.                    *)
LEMMA Subscribers ==
  ASSUME PublisherInv, ProcessInv, Started, "subscribe" \in Goroutines
  PROVE  /\ service \in {"wallet", "notification"} /\ conn # "none"
         /\ "subscriber" \notin parts => service = "notification" /\ losses > 0
<1> USE DEF ProcessInv
<1>1. service \in {"wallet", "notification"}
  BY DEF Goroutines, AuthGoroutines, WalletGoroutines, NotificationGoroutines, DocsGoroutines,
         TypeOK
<1>2. CASE service = "wallet"
  BY <1>1, <1>2, WalletPlan DEF SetupInOrder, TypeOK
<1>3. CASE service = "notification"
  BY <1>1, <1>3, NotificationPlan DEF SetupInOrder, TypeOK, SubscriberMissed
<1> QED BY <1>1, <1>2, <1>3

(* Subscribe: the check, startWorkers, the list.                            *)
LEMMA Subscribes ==
  ASSUME PublisherInv, ProcessInv, SubscribeStep
  PROVE  ProcessInv'
<1> USE DEF ProcessInv
<1>0. /\ UNCHANGED <<conn, ch, losses, service, parts>> /\ PublisherTypeOK'
      /\ UNCHANGED <<Plan, StopPlan, Goroutines, Unchecked, Publisher>>
  BY SameService DEF SubscribeStep, SubscribeCheck, StartWorkers, AppendConsumer,
                     pubVars, callers, pubHist, PublisherInv, PublisherTypeOK
<1>1. Started /\ g["subscribe"] \in {"starting", "checked", "consuming"} /\ "subscribe" \in Goroutines
  BY DEF SubscribeStep, SubscribeCheck, StartWorkers, AppendConsumer, SubscribeInOrder
<1>2. /\ service \in {"wallet", "notification"} /\ conn # "none"
      /\ "subscriber" \notin parts => service = "notification" /\ losses > 0
  BY <1>1, Subscribers
<1>3. CASE "subscriber" \notin parts /\ Crash
  BY <1>0, <1>2, <1>3, Panics DEF SubscribeStep, SubscribeCheck, StartWorkers, AppendConsumer
<1>4. CASE /\ UNCHANGED <<phase, pos, busy, metClose, target>>
           /\ \/ /\ g["subscribe"] = "starting" /\ UNCHANGED <<group, listed>>
                 /\ Become("subscribe", IF Passed("subscriber") THEN "returned" ELSE "checked")
              \/ /\ g["subscribe"] = "checked" /\ UNCHANGED listed
                 /\ \/ conn = "up" /\ group' = "open" /\ Become("subscribe", "consuming")
                    \/ group' = "refused" /\ Become("subscribe", "returned")
              \/ /\ g["subscribe"] = "consuming" /\ listed' = TRUE /\ UNCHANGED group
                 /\ Become("subscribe", "returned")
  <2>0. \A p : Passed(p)' <=> Passed(p)
    BY <1>0, <1>4 DEF Passed
  <2>2. /\ g' \in [AllGoroutines -> {"none", "starting", "checked", "consuming", "running",
                                      "draining", "returned"}]
        /\ g'["subscribe"] \in {"checked", "consuming", "returned"}
        /\ g'["listener"] = g["listener"]
        /\ \A v : Become("subscribe", v) => g'["subscribe"] = v
    BY <1>4 DEF Become, TypeOK, AllGoroutines
  <2>3. TypeOK'
    BY <1>0, <1>4, <2>2 DEF TypeOK
  <2>4. SetupInOrder'
    BY <1>0, <1>4 DEF SetupInOrder, Started
  <2>5. SubscribeInOrder'
    BY <1>0, <1>1, <1>4, <2>0, <2>2 DEF SubscribeInOrder, Started
  <2>6. SubscriberMissed' => losses' > 0
    BY <1>0, <1>4 DEF SubscriberMissed, Started
  <2>7. CrashHasCause'
    BY <1>1, <1>4 DEF CrashHasCause, Started
  <2>8. ConsumerMatchesLifecycle'
    <3>1. Passed("subscriber")' /\ group' = "open" => metClose' \in {"checked", "consuming"}
      BY <2>3, <2>5 DEF SubscribeInOrder, TypeOK
    <3>2. ASSUME phase' = "serving", g'["subscribe"] = "returned", group' # "refused"
          PROVE  listed' /\ (group' \in {"open", "broken"} \/ (group' = "lost" /\ losses' > 0))
      <4>1. ~Passed("subscriber")
        BY <1>4, <3>2 DEF Passed
      <4>2. g["subscribe"] = "consuming" /\ listed' = TRUE /\ UNCHANGED group
        BY <1>4, <2>2, <3>2, <4>1
      <4> QED BY <1>0, <4>2 DEF SubscribeInOrder
    <3> QED BY <3>1, <3>2 DEF ConsumerMatchesLifecycle
  <2>9. ListenerInOrder'
    BY <1>0, <1>4, <2>2 DEF ListenerInOrder, HubClosed
  <2> QED BY <2>3, <2>4, <2>5, <2>6, <2>7, <2>8, <2>9
<1> QED BY <1>3, <1>4 DEF SubscribeStep, SubscribeCheck, StartWorkers, AppendConsumer

(* The lines before the next one.                                           *)
LEMMA UpTo ==
  ASSUME NEW len \in Nat, NEW n \in 1..len, NEW m, m = n + 1
  PROVE  m # n /\ \A i \in 1..(m - 1) : i \in 1..(n - 1) \/ i = n
  OBVIOUS

(* A line that main has passed stays passed.                                *)
LEMMA Later ==
  ASSUME NEW n \in Int, NEW m \in Int, n <= m
  PROVE  \A i \in 1..(n - 1) : i \in 1..(m - 1)
  OBVIOUS

(* Main goes on to the next line of its stop sequence.                      *)
LEMMA Advances ==
  ASSUME PublisherInv, PublisherInv', ProcessInv, PublisherStep \/ UNCHANGED pubVars,
         NEW p, At(p), p # "wait", pos' \in {pos, pos + 1}, ch' # NoChannel => ch # NoChannel,
         UNCHANGED <<service, phase, parts, g, busy, listed>>,
         \/ /\ UNCHANGED <<group, metClose>> /\ (p = "subscriber" => pos' = pos)
         \/ /\ p = "subscriber" /\ metClose' = g["subscribe"]
            /\ group' = IF listed /\ group = "open" THEN "closed" ELSE group,
         \/ target' \in {target, "none"}
         \/ p = "hub" /\ pos' = pos + 1 /\ target' = "closed" /\ g["listener"] # "none"
  PROVE  ProcessInv'
<1> USE DEF ProcessInv
<1>0. /\ losses > 0 => losses' > 0
      /\ losses' = 0 => losses = 0
      /\ conn # "none" => conn' # "none"
      /\ UNCHANGED <<Plan, StopPlan, Goroutines, Unchecked, Publisher>>
  BY PublisherGrows, SameService
<1>1. /\ phase = "stopping" /\ pos \in 1..Len(StopPlan) /\ StopPlan[pos] = p
      /\ Len(StopPlan) \in Nat /\ pos + 1 <= Len(StopPlan)
      /\ p = "subscriber" => service \in {"wallet", "notification"}
  <2>1. phase = "stopping" /\ StopPlan[pos] = p /\ pos <= Len(StopPlan) /\ pos \in Nat \ {0}
    BY DEF At, SetupInOrder, TypeOK
  <2>2. Len(StopPlan) \in Nat
    BY StopPlans DEF TypeOK
  <2>3. pos \in 1..Len(StopPlan)
    BY <2>1, <2>2
  <2> QED BY <2>1, <2>2, <2>3, StopPlans DEF TypeOK
<1>2. ASSUME Passed("subscriber")' PROVE Passed("subscriber") \/ (p = "subscriber" /\ pos' # pos)
  <2> HIDE DEF ProcessInv
  <2>1. CASE pos' = pos
    BY <1>0, <1>2, <2>1 DEF Passed
  <2>2. CASE pos' = pos + 1
    <3>1. PICK i : i \in 1..(pos' - 1) /\ StopPlan[i] = "subscriber"
      BY <1>0, <1>2 DEF Passed
    <3>2. i \in 1..(pos - 1) \/ i = pos
      BY <1>1, <2>2, <3>1, UpTo
    <3>3. pos' # pos
      BY <1>1, <2>2, UpTo
    <3> QED BY <1>1, <3>1, <3>2, <3>3 DEF Passed
  <2> QED BY <2>1, <2>2
<1>3. p = "subscriber" => g["subscribe"] \in {"starting", "checked", "consuming", "returned"}
  BY <1>1 DEF SubscribeInOrder, Started, Goroutines, WalletGoroutines, NotificationGoroutines
<1>4. TypeOK'
  BY <1>0, <1>1, <1>3 DEF TypeOK, PublisherInv
<1>5. SetupInOrder'
  BY <1>0, <1>1 DEF SetupInOrder, Started
<1>6. SubscribeInOrder'
  <2>1. CASE UNCHANGED <<group, metClose>> /\ (p = "subscriber" => pos' = pos)
    <3>1. Passed("subscriber")' => Passed("subscriber")
      BY <1>2, <2>1
    <3> QED BY <1>0, <1>1, <2>1, <3>1 DEF SubscribeInOrder, Started
  <2>2. CASE /\ p = "subscriber" /\ metClose' = g["subscribe"]
             /\ group' = IF listed /\ group = "open" THEN "closed" ELSE group
    BY <1>0, <1>1, <1>3, <2>2 DEF SubscribeInOrder, Started
  <2> QED BY <2>1, <2>2
<1>7. SubscriberMissed' => losses' > 0
  BY <1>0, <1>1 DEF SubscriberMissed, Started
<1>8. CrashHasCause'
  BY <1>1 DEF CrashHasCause
<1>9. ConsumerMatchesLifecycle'
  BY <1>1, <1>4, <1>6 DEF ConsumerMatchesLifecycle, SubscribeInOrder, TypeOK
<1>10. ListenerInOrder'
  <2>1. \A i \in 1..(pos - 1) : i \in 1..(pos' - 1)
    <3> HIDE DEF ProcessInv
    <3>1. pos \in Int /\ pos' \in Int /\ pos <= pos'
      BY <1>1
    <3> QED BY <3>1, Later
  <2>2. HubClosed => HubClosed'
    BY <1>0, <2>1 DEF HubClosed
  <2>3. p = "hub" /\ pos' = pos + 1 => HubClosed'
    <3>1. pos' = pos + 1 => pos \in 1..(pos' - 1)
      BY <1>1
    <3> QED BY <1>0, <1>1, <3>1 DEF HubClosed
  <2> QED BY <1>1, <2>2, <2>3 DEF ListenerInOrder
<1> QED BY <1>4, <1>5, <1>6, <1>7, <1>8, <1>9, <1>10

(* The stop sequence, line by line.                                         *)
LEMMA Stops ==
  ASSUME PublisherInv, PublisherInv', ProcessInv, PublisherStep \/ UNCHANGED pubVars,
         Sigterm \/ StopStep
  PROVE  ProcessInv'
<1> USE DEF ProcessInv, Advance
<1>a. UNCHANGED pubVars => UNCHANGED ch
  BY DEF pubVars
<1>1. ASSUME NEW p \in Range(StopPlan), StopPart(p) PROVE ProcessInv'
  <2>1. /\ At(p) /\ p # "wait" /\ p # "subscriber" /\ pos' = pos + 1 /\ UNCHANGED ch
        /\ UNCHANGED <<service, phase, parts, g, busy, listed, group, metClose>>
        /\ \/ target' \in {target, "none"}
           \/ p = "hub" /\ target' = "closed" /\ g["listener"] # "none"
    BY <1>a, <1>1 DEF StopPart
  <2> QED BY <2>1, Advances
<1>2. CASE StopGrpc
  <2>1. CASE "grpc" \notin parts /\ Crash
    <3>1. At("grpc") /\ UNCHANGED <<pubVars, service, parts>>
      BY <1>2 DEF StopGrpc
    <3>2. pos \in Nat \ {0} /\ pos <= Len(StopPlan) /\ StopPlan[pos] = "grpc" /\ Len(StopPlan) \in Nat
      BY <3>1, StopPlans DEF At, SetupInOrder, TypeOK
    <3>3. pos \in 1..Len(StopPlan)
      BY <3>2
    <3>4. service = "auth" /\ pos > 1
      BY <3>2, <3>3, StopPlans DEF TypeOK
    <3> QED BY <2>1, <3>1, <3>4, Panics
  <2>2. CASE pos' = pos + 1 /\ UNCHANGED <<phase, g, busy, group, listed, metClose, target>>
    <3>1. At("grpc") /\ UNCHANGED <<ch, service, parts>>
      BY <1>a, <1>2 DEF StopGrpc
    <3> QED BY <2>2, <3>1, Advances
  <2> QED BY <1>2, <2>1, <2>2 DEF StopGrpc
<1>3. CASE StopPublisher
  <2>1. /\ At(Publisher) /\ Publisher # "wait" /\ Publisher # "subscriber"
        /\ pos' \in {pos, pos + 1} /\ UNCHANGED ch
        /\ UNCHANGED <<service, phase, parts, g, busy, listed, group, metClose, target>>
    BY <1>3 DEF StopPublisher, CloseBegins, CloseChannel, Publisher
  <2> HIDE DEF ProcessInv
  <2> QED BY <2>1, Advances
<1>4. CASE StopSubscriber
  <2>0. At("subscriber") /\ UNCHANGED <<pubVars, ch, service, parts>>
    BY <1>a, <1>4 DEF StopSubscriber
  <2>1. CASE "subscriber" \notin parts /\ Crash
    <3>1. phase = "stopping" /\ pos \in Nat \ {0} /\ pos <= Len(StopPlan)
          /\ StopPlan[pos] = "subscriber" /\ Len(StopPlan) \in Nat
      BY <2>0, StopPlans DEF At, SetupInOrder, TypeOK
    <3>2. pos \in 1..Len(StopPlan)
      BY <3>1
    <3>3. service \in {"wallet", "notification"}
      BY <3>1, <3>2, StopPlans DEF TypeOK
    <3>4. Started /\ "subscribe" \in Goroutines
      BY <3>1, <3>3 DEF Started, Goroutines, WalletGoroutines, NotificationGoroutines
    <3>5. service = "notification" /\ losses > 0
      BY <2>1, <3>4, Subscribers
    <3> QED BY <2>0, <2>1, <3>5, Panics
  <2>2. CASE /\ group' = IF listed /\ group = "open" THEN "closed" ELSE group
             /\ metClose' = g["subscribe"]
             /\ pos' = pos + 1 /\ UNCHANGED <<phase, g, busy, listed, target>>
    BY <2>0, <2>2, Advances
  <2> QED BY <1>4, <2>1, <2>2 DEF StopSubscriber
<1>5. CASE WaitReturns \/ Sigterm
  <2>0. /\ UNCHANGED <<Plan, StopPlan, Goroutines, Unchecked, Publisher>>
        /\ UNCHANGED <<pubVars, service, pos, parts, g, busy, group, listed, metClose, target>>
        /\ \/ phase = "serving" /\ phase' = "stopping"
           \/ phase = "stopping" /\ phase' = "exited"
    BY <1>5, SameService DEF WaitReturns, Sigterm, At
  <2>1. TypeOK'
    BY <2>0 DEF TypeOK, Phases, PublisherInv
  <2>2. ~Passed("subscriber")' /\ (phase = "serving" => pos = 1) /\ Len(StopPlan) \in Nat \ {0}
    BY <2>0, StopPlans DEF Passed, SetupInOrder, TypeOK
  <2>3. SetupInOrder'
    BY <2>0, <2>2 DEF SetupInOrder, Started, pubVars
  <2>4. SubscribeInOrder'
    BY <2>0, <2>2 DEF SubscribeInOrder, Started, pubVars, pubHist
  <2>5. (SubscriberMissed' => losses' > 0) /\ CrashHasCause' /\ ConsumerMatchesLifecycle'
    BY <2>0, <2>2 DEF SubscriberMissed, Started, CrashHasCause, ConsumerMatchesLifecycle,
                      pubVars, pubHist
  <2>6. ListenerInOrder'
    BY <2>0 DEF ListenerInOrder, HubClosed
  <2> QED BY <2>1, <2>3, <2>4, <2>5, <2>6
<1> QED BY <1>1, <1>2, <1>3, <1>4, <1>5 DEF StopStep

(* Nothing has happened yet.                                               *)
LEMMA ProcessStarts ==
  ASSUME Init
  PROVE  ProcessInv
<1> USE DEF Init, PublisherInit
<1>1. PublisherTypeOK
  BY PublisherStarts DEF PublisherInv
<1>2. g["subscribe"] = "none" /\ g["listener"] = "none" /\ Len(Plan) \in Nat /\ 1..(pos - 1) = {} /\ ~Started
  BY PlanIsSequence DEF AllGoroutines, Started
<1>3. TypeOK
  <2>1. g \in [AllGoroutines -> {"none", "starting", "checked", "consuming", "running",
                                "draining", "returned"}]
    OBVIOUS
  <2>2. busy \in BOOLEAN /\ listed \in BOOLEAN
    OBVIOUS
  <2>3. /\ phase \in Phases /\ pos \in Nat \ {0}
        /\ service \in Services /\ parts \subseteq Range(Plan)
        /\ group \in {"none", "refused", "open", "lost", "broken", "closed"}
        /\ target \in {"none", "replaced", "closed"}
        /\ metClose \in {"no", "starting", "checked", "consuming", "returned"}
    BY DEF Phases
  <2> QED BY <1>1, <2>1, <2>2, <2>3 DEF TypeOK
<1>4. SetupInOrder
  BY <1>2 DEF SetupInOrder
<1>5. SubscribeInOrder
  BY <1>2 DEF SubscribeInOrder, Passed
<1>6. (SubscriberMissed => losses > 0) /\ CrashHasCause /\ ConsumerMatchesLifecycle
  BY <1>2 DEF SubscriberMissed, CrashHasCause, ConsumerMatchesLifecycle, Passed
<1>7. ListenerInOrder
  BY <1>2 DEF ListenerInOrder
<1> QED BY <1>3, <1>4, <1>5, <1>6, <1>7 DEF ProcessInv

(* Every step of the process, by the part of it that takes the step.        *)
LEMMA ProcessPreserved ==
  ASSUME PublisherInv, ProcessInv, [Next]_vars
  PROVE  ProcessInv'
<1>0. PublisherInv' /\ (PublisherStep \/ UNCHANGED pubVars)
  BY PublisherPreserved, ProcessSteps
<1>a. /\ g \in [AllGoroutines -> {"none", "starting", "checked", "consuming", "running",
                                   "draining", "returned"}]
      /\ busy \in BOOLEAN /\ service \in Services
  BY DEF ProcessInv, TypeOK
<1>1. CASE SetupConnection
  <2>1. Building("connection") /\ Built("connection") /\ conn' # "none" /\ UNCHANGED ch
    BY <1>1 DEF SetupConnection, NewConnection
  <2> QED BY <1>0, <2>1, PartBuilt
<1>2. CASE SetupPublisher
  <2>1. Building(Publisher) /\ Built(Publisher) /\ Publisher # "connection"
    BY <1>2 DEF SetupPublisher, Publisher
  <2> QED BY <1>0, <2>1, PartBuilt
<1>3. CASE Start
  BY <1>3, ServiceStarts
<1>4. ASSUME NEW p \in Range(Plan), SetupPart(p) \/ SetupFails(p) PROVE ProcessInv'
  <2>1. CASE SetupPart(p)
    <3>1. Building(p) /\ Built(p) /\ p # "connection" /\ UNCHANGED ch
      BY <2>1 DEF SetupPart, pubVars
    <3> QED BY <1>0, <3>1, PartBuilt
  <2> QED BY <1>4, <2>1, PartFails
<1>5. CASE RpcArrives \/ RpcEnds \/ RpcPanics
  <2>1. /\ UNCHANGED <<pubVars, service, phase, pos, parts, g, group, listed, metClose, target>>
        /\ UNCHANGED ch /\ busy' \in BOOLEAN
    BY <1>5 DEF RpcArrives, RpcEnds, RpcPanics, pubVars
  <2> QED BY <1>0, <1>a, <2>1, QuietStep
<1>6. ASSUME NEW x \in {"http", "grpc", "worker"}, NEW s \in {"draining", "returned"}, Become(x, s),
             UNCHANGED <<pubVars, service, phase, pos, parts, busy, group, listed, metClose, target>>
      PROVE  ProcessInv'
  <2>1. /\ g' \in [AllGoroutines -> {"none", "starting", "checked", "consuming", "running",
                                     "draining", "returned"}]
        /\ g'["subscribe"] = g["subscribe"] /\ g'["listener"] = g["listener"]
    BY <1>a, <1>6 DEF Become, AllGoroutines
  <2>2. UNCHANGED ch
    BY <1>6 DEF pubVars
  <2> QED BY <1>0, <1>a, <1>6, <2>1, <2>2, QuietStep
<1>7. ASSUME NEW x \in {"http", "grpc"}, ServerReturns(x) PROVE ProcessInv'
  BY <1>6, <1>7 DEF ServerReturns
<1>8. CASE WorkerStep
  BY <1>6, <1>8 DEF WorkerStep, BatchRunsOut, WorkerReturns
<1>9. CASE SubscribeStep
  BY <1>9, Subscribes
<1>10. CASE Broker \/ \E t \in Callers : Publishing(t)
  <2>1. /\ KeepGroup /\ UNCHANGED <<service, phase, pos, parts, g, busy, listed, metClose, target>>
        /\ \/ ConnectionStep \/ NetworkFault
           \/ \E t \in Callers : PublishEnter(t) \/ CallStep(t) \/ PublishBreaks(t)
    BY <1>10 DEF Broker, Publishing
  <2>2. ch' # NoChannel => ch # NoChannel
    BY <2>1 DEF PublisherInv, PublisherConsistent, ConnectionStep, NotifyClose, Redial,
                NetworkFault, ConnectionLost, ChannelException, PublishEnter, CallStep,
                PublishFirst, Reopen, PublishAgain, PublishReturns, PublishBreaks
  <2>3. group' = group \/ (group = "open" /\ group' = "lost" /\ losses' > 0)
    BY <1>0, <2>1 DEF KeepGroup, PublisherInv, PublisherConsistent
  <2> QED BY <1>0, <1>a, <2>1, <2>2, <2>3, QuietStep
<1>11. CASE Sigterm \/ StopStep
  BY <1>0, <1>11, Stops
<1>12. CASE UNCHANGED vars
  <2>1. /\ UNCHANGED <<service, phase, pos, parts, g, busy, group, listed, metClose, target>>
        /\ UNCHANGED ch
    BY <1>12 DEF vars, procVars, pubVars
  <2> QED BY <1>0, <1>a, <2>1, QuietStep
<1>13. CASE ConsumerException
  <2>1. /\ UNCHANGED <<service, phase, pos, parts, g, busy, listed, metClose, target>>
        /\ UNCHANGED ch /\ group = "open" /\ group' = "broken"
    BY <1>13 DEF ConsumerException, pubVars
  <2> QED BY <1>0, <1>a, <2>1, QuietStep
<1>14. CASE ListenerSend
  BY <1>14, Panics DEF ListenerSend
<1>15. CASE ListenerSendReplaced
  BY <1>15, ReplacedPanics
<1> QED BY <1>1, <1>2, <1>3, <1>4, <1>5, <1>7, <1>8, <1>9, <1>10, <1>11, <1>12, <1>13, <1>14, <1>15
        DEF Next, SetupStep

(* The process's inductive invariant: Setup leaves no part out but those     *)
(* nobody looks at, and the goroutine of Subscribe, its consumers and Close  *)
(* agree about where they are, on top of the publisher's invariant.         *)
THEOREM ProcessInductive == Spec => [](PublisherInv /\ ProcessInv)
<1>1. Init => PublisherInv /\ ProcessInv
  BY PublisherStarts, ProcessStarts
<1>2. (PublisherInv /\ ProcessInv) /\ [Next]_vars => (PublisherInv /\ ProcessInv)'
  BY PublisherPreserved, ProcessPreserved
<1> QED BY <1>1, <1>2, PTL DEF Spec

(* The types, the order of Setup and of Subscribe, and the budget of leaked  *)
(* channels hold throughout.                                               *)
THEOREM LifecycleConsistent == Spec => []LifecycleIInv
<1>1. PublisherInv /\ ProcessInv => LifecycleIInv
  BY DEF PublisherInv, ProcessInv, LifecycleIInv
<1> QED BY <1>1, ProcessInductive, PTL

(* A service that started dies only of a part that Setup failed to build     *)
(* without noticing, or of its hub listener's send on a channel that a       *)
(* second stream or hub.Close has closed.                                   *)
THEOREM CrashExplained == Spec => []CrashHasCause
<1>1. ProcessInv => CrashHasCause
  BY DEF ProcessInv
<1> QED BY <1>1, ProcessInductive, PTL

(* A service that runs is consuming unless startWorkers was refused or its   *)
(* channel is gone since, and what Close leaves open is a consumer that       *)
(* Subscribe was just starting.                                             *)
THEOREM ConsumerExplained == Spec => []ConsumerMatchesLifecycle
<1>1. ProcessInv => ConsumerMatchesLifecycle
  BY DEF ProcessInv
<1> QED BY <1>1, ProcessInductive, PTL
=============================================================================
