-------------------------- MODULE ServiceLifecycle --------------------------
(***************************************************************************)
(* The process of one service: serve (cmd/<service>/commands/serve.go),    *)
(* then Setup and Start (internal/<service>/app.go) with the goroutines    *)
(* that Start launches and waits for, and its stop sequence after SIGTERM. *)
(*                                                                         *)
(* The connection and the publisher are those of RabbitPublisher; of the   *)
(* auth service's three alike publishers that is the user publisher.  The  *)
(* batches of the outbox worker publish through it, and in auth the        *)
(* goroutine that a request leaves behind.                                 *)
(***************************************************************************)
EXTENDS RabbitPublisher, Sequences, Functions

CONSTANTS Services,  \* the services to start
          Batch,     \* a caller of the outbox worker's batch
          Request    \* another one; in auth, the caller of ProcessSingleEvent

ASSUME LifecycleAssumption ==
    /\ Services \subseteq {"auth", "wallet", "notification", "docs"}
    /\ Callers = {Batch, Request} /\ Batch # Request

VARIABLES service,   \* which service this process is
          phase,     \* of main
          pos,       \* main's place in the plan of its phase
          parts,     \* what serve and Setup have built
          g,         \* the goroutines
          busy,      \* an RPC is at work
          group,     \* the consumer group that Subscribe starts
          listed,    \* it is in the subscriber's list of consumers
          metClose,  \* history: where Subscribe was when Close looked
          target     \* what became of the channel the hub's listener looked up

procVars == <<service, phase, pos, parts, g, busy, group, listed, metClose, target>>
vars == <<pubVars, procVars>>

-----------------------------------------------------------------------------
(* serve and Setup, as the parts they build, in order.                     *)
AuthServe         == <<"tracer", "metrics", "dbLogger", "migrations", "database">>
WalletServe       == <<"tracer", "metrics", "dbLogger", "migrations", "database">>
NotificationServe == <<"tracer", "metrics", "dbLogger", "migrations", "database", "redis">>
DocsServe         == <<"tracer", "metrics">>

AuthSetup ==
    <<"connection", "userTopology", "authTopology", "userPublisher",
      "notificationPublisher", "devicePublisher", "httpMetrics", "http",
      "grpcMetrics", "grpc">>
WalletSetup == <<"httpMetrics", "http", "connection", "userTopology", "subscriber">>
NotificationSetup ==
    <<"connection", "notificationTopology", "httpMetrics", "http", "subscriber",
      "notificationPublisher", "grpcMetrics", "authClient">>
DocsSetup == <<"httpMetrics", "http">>

Plan == CASE service = "auth"         -> AuthServe \o AuthSetup
          [] service = "wallet"       -> WalletServe \o WalletSetup
          [] service = "notification" -> NotificationServe \o NotificationSetup
          [] service = "docs"         -> DocsServe \o DocsSetup

(* The goroutines Start adds to its WaitGroup.                              *)
AuthGoroutines         == {"http", "grpc", "worker"}
WalletGoroutines       == {"subscribe", "http"}
NotificationGoroutines == {"listener", "heartbeat", "subscribe", "http", "worker"}
DocsGoroutines         == {"http"}

Goroutines == CASE service = "auth"         -> AuthGoroutines
                [] service = "wallet"       -> WalletGoroutines
                [] service = "notification" -> NotificationGoroutines
                [] service = "docs"         -> DocsGoroutines

\* Mutant: nobody cancels workerCtx before the wait.
AuthStopUncancelled ==
    <<"http", "grpc", "userPublisher", "notificationPublisher", "devicePublisher", "wait">>

(* What Start does after the signal; "worker" is workerCancel.             *)
AuthStop ==
    <<"http", "grpc", "userPublisher", "notificationPublisher", "devicePublisher",
      "worker", "wait">>
WalletStop       == <<"http", "subscriber", "wait">>
NotificationStop == <<"http", "notificationPublisher", "subscriber", "hub", "worker", "wait">>
DocsStop         == <<"http", "wait">>

StopPlan == CASE service = "auth"         -> AuthStop
              [] service = "wallet"       -> WalletStop
              [] service = "notification" -> NotificationStop
              [] service = "docs"         -> DocsStop

\* The publisher of module RabbitPublisher.
Publisher == IF service = "auth" THEN "userPublisher" ELSE "notificationPublisher"

\* Parts that take a channel of the connection, with no other way to fail.
OnChannel == {"userPublisher", "notificationPublisher", "devicePublisher", "subscriber"}
Topologies == {"userTopology", "authTopology", "notificationTopology"}

\* NewServer returns no error.
Infallible == {"http"}

\* Errors that Setup does not look at: grpc.New's in auth, and in notification
\* NewDirectSubscriber's, which NewDirectPublisher's overwrites.
Unchecked == CASE service = "auth"         -> {"grpc"}
               [] service = "notification" -> {"subscriber"}
               [] OTHER                    -> {}

-----------------------------------------------------------------------------
AllGoroutines == {"http", "grpc", "worker", "subscribe", "listener", "heartbeat"}
Phases == {"setup", "serving", "stopping", "exited", "fatal", "crashed"}

TypeOK ==
    /\ PublisherTypeOK
    /\ service \in Services
    /\ phase \in Phases
    /\ pos \in Nat \ {0}
    /\ parts \subseteq Range(Plan)
    /\ g \in [AllGoroutines -> {"none", "starting", "checked", "consuming", "running", "draining", "returned"}]
    /\ busy \in BOOLEAN
    /\ group \in {"none", "refused", "open", "lost", "broken", "closed"}
    /\ listed \in BOOLEAN
    /\ metClose \in {"no", "starting", "checked", "consuming", "returned"}
    /\ target \in {"none", "replaced", "closed"}

Init ==
    /\ PublisherInit
    /\ service \in Services
    /\ phase = "setup" /\ pos = 1 /\ parts = {}
    /\ g = [x \in AllGoroutines |-> "none"]
    /\ busy = FALSE
    /\ group = "none" /\ listed = FALSE /\ metClose = "no" /\ target = "none"

Alive == phase \in {"setup", "serving", "stopping"}
Started == phase \in {"serving", "stopping"}
At(p) == phase = "stopping" /\ StopPlan[pos] = p
Passed(p) == phase = "stopping" /\ \E i \in 1..(pos - 1) : StopPlan[i] = p
\* A server's Stop has closed its listener.
Stopped(x) == At(x) \/ Passed(x)

Become(x, s) == g' = [g EXCEPT ![x] = s]

-----------------------------------------------------------------------------
(* serve and Setup.                                                        *)
Building(p) == phase = "setup" /\ pos <= Len(Plan) /\ Plan[pos] = p

Built(p) ==
    /\ parts' = parts \cup {p} /\ pos' = pos + 1
    /\ UNCHANGED <<service, phase, g, busy, group, listed, metClose, target>>

SetupConnection == Building("connection") /\ NewConnection /\ Built("connection")

SetupPublisher == Building(Publisher) /\ NewBasePublisher /\ Built(Publisher)

\* Whatever a constructor checks (certificates, an address, a ping), it ends in a
\* part or in an error.  NewClient does not dial: the gRPC client is built while
\* the auth service is down.
SetupPart(p) ==
    /\ Building(p) /\ p \notin {"connection", Publisher}
    /\ p \in OnChannel \cup Topologies => conn = "up"
    /\ Built(p)
    /\ UNCHANGED pubVars

\* Mutant: every error is a warning.
SetupWarns(p) ==
    /\ Building(p) /\ p \notin Infallible
    /\ p \in OnChannel => conn # "up"
    /\ pos' = pos + 1
    /\ UNCHANGED <<pubVars, service, phase, parts, g, busy, group, listed, metClose, target>>

\* Logger.Fatal, except where no one looks at the error.
SetupFails(p) ==
    /\ Building(p) /\ p \notin Infallible
    /\ p \in OnChannel => conn # "up"
    /\ IF p \in Unchecked THEN pos' = pos + 1 /\ UNCHANGED phase
                          ELSE phase' = "fatal" /\ UNCHANGED pos
    /\ UNCHANGED <<pubVars, service, parts, g, busy, group, listed, metClose, target>>

\* Start launches the goroutines.  Run and Serve only log that they cannot listen,
\* as the zero RPCServer, without a network type, never can; the process goes on
\* without that server.
Start ==
    /\ phase = "setup" /\ pos > Len(Plan)
    /\ phase' = "serving" /\ pos' = 1
    /\ \E up \in SUBSET {"http", "grpc"} :
          /\ "grpc" \in up => "grpc" \in parts
          /\ g' = [x \in AllGoroutines |->
                      IF x \notin Goroutines THEN "none"
                      ELSE IF x = "subscribe" THEN "starting"
                      ELSE IF x \in {"http", "grpc"} \ up THEN "returned" ELSE "running"]
    /\ UNCHANGED <<pubVars, service, parts, busy, group, listed, metClose, target>>

\* A panic that nothing recovers.
Crash == phase' = "crashed" /\ UNCHANGED <<pos, g, busy, group, listed, metClose, target>>

-----------------------------------------------------------------------------
(* The servers.  An RPC at work is one flag; an HTTP handler needs none: Stop *)
(* waits for it no longer than its timeout.                                 *)
RpcArrives ==
    /\ Started /\ g["grpc"] = "running" /\ ~Stopped("grpc")
    /\ busy' = TRUE
    /\ UNCHANGED <<pubVars, service, phase, pos, parts, g, group, listed, metClose, target>>

RpcEnds ==
    /\ Started /\ busy
    /\ busy' = FALSE
    /\ UNCHANGED <<pubVars, service, phase, pos, parts, g, group, listed, metClose, target>>

\* Mutant: the interceptor without the recovery.
PanicKills ==
    /\ Started /\ busy
    /\ Crash
    /\ UNCHANGED <<pubVars, service, parts>>

\* The deferred function of UnaryServerInterceptor recovers.
RpcPanics == RpcEnds

ServerReturns(x) ==
    /\ Started /\ g[x] = "running" /\ Stopped(x)
    /\ Become(x, "returned")
    /\ UNCHANGED <<pubVars, service, phase, pos, parts, busy, group, listed, metClose, target>>

-----------------------------------------------------------------------------
(* subscribe: the check; startWorkers; and the entry in the list.            *)
\* Mutant: without the check.
SubscribeUnchecked ==
    /\ Started /\ g["subscribe"] = "starting"
    /\ Become("subscribe", "checked")
    /\ UNCHANGED <<service, phase, pos, parts, busy, group, listed, metClose, target, pubVars>>

\* A subscriber that could not be built is a nil pointer.
SubscribeCheck ==
    /\ Started /\ g["subscribe"] = "starting"
    /\ \/ "subscriber" \notin parts /\ Crash
       \/ /\ "subscriber" \in parts
          /\ Become("subscribe", IF Passed("subscriber") THEN "returned" ELSE "checked")
          /\ UNCHANGED <<phase, pos, busy, group, listed, metClose, target>>
    /\ UNCHANGED <<service, parts, pubVars>>

\* A channel, Qos, Consume, each of which may be refused; Start only logs it.
StartWorkers ==
    /\ Started /\ g["subscribe"] = "checked"
    /\ \/ conn = "up" /\ group' = "open" /\ Become("subscribe", "consuming")
       \/ group' = "refused" /\ Become("subscribe", "returned")
    /\ UNCHANGED <<pubVars, service, phase, pos, parts, busy, listed, metClose, target>>

AppendConsumer ==
    /\ Started /\ g["subscribe"] = "consuming"
    /\ listed' = TRUE
    /\ Become("subscribe", "returned")
    /\ UNCHANGED <<pubVars, service, phase, pos, parts, busy, group, metClose, target>>

SubscribeStep == SubscribeCheck \/ StartWorkers \/ AppendConsumer

\* An exception on the consumer's channel, while the connection lives: the broker
\* closes it (the queue is gone, an ack is overdue), and nothing opens another.
ConsumerException ==
    /\ Started /\ group = "open" /\ conn = "up"
    /\ group' = "broken"
    /\ UNCHANGED <<pubVars, service, phase, pos, parts, g, busy, listed, metClose, target>>

-----------------------------------------------------------------------------
(* The hub's listener, in the detail of module NotificationHub: it looks a   *)
(* stream's channel up and sends on it after the lock; a send on a channel   *)
(* closed in between panics.  Lookups whose send succeeds leave no trace     *)
(* here.  The channel is closed by a second stream of the user, or by        *)
(* hub.Close (StopPart), which may find the listener at that point.          *)
ListenerSendReplaced ==
    /\ Started /\ g["listener"] = "running" /\ target = "none"
    /\ target' = "replaced" /\ phase' = "crashed"
    /\ UNCHANGED <<pubVars, service, pos, parts, g, busy, group, listed, metClose>>

ListenerSend ==
    /\ Started /\ target = "closed"
    /\ Crash
    /\ UNCHANGED <<pubVars, service, parts>>

-----------------------------------------------------------------------------
\* A batch publishes its events in goroutines of its own, which it waits for.  In
\* auth, ProcessSingleEvent publishes too, in a goroutine no one waits for.
BatchCallers == IF service = "auth" THEN {Batch} ELSE Callers
MayPublish(t) == t \in BatchCallers => g["worker"] = "running"

(* The outbox worker.  With its context cancelled it claims nothing more: it *)
(* publishes what is left of the batch at work, waits for that and returns. *)
(* The hub's listener and heartbeat have no such step: their context is     *)
(* cancelled by a deferred call, which runs when the wait is over.          *)
BatchRunsOut ==
    /\ Started /\ g["worker"] = "running" /\ Passed("worker")
    /\ Become("worker", "draining")
    /\ UNCHANGED <<pubVars, service, phase, pos, parts, busy, group, listed, metClose, target>>

WorkerReturns ==
    /\ Started /\ g["worker"] = "draining"
    /\ \A t \in BatchCallers : step[t] = "idle"
    /\ Become("worker", "returned")
    /\ UNCHANGED <<pubVars, service, phase, pos, parts, busy, group, listed, metClose, target>>

WorkerStep == BatchRunsOut \/ WorkerReturns

\* A consumer's channel is gone with the connection, and stays so.
KeepGroup == group' = IF conn' = "down" /\ group = "open" THEN "lost" ELSE group

Publishing(t) ==
    /\ Started
    /\ (PublishEnter(t) /\ MayPublish(t)) \/ CallStep(t) \/ PublishBreaks(t)
    /\ KeepGroup
    /\ UNCHANGED <<service, phase, pos, parts, g, busy, listed, metClose, target>>

Broker ==
    /\ Alive
    /\ ConnectionStep \/ NetworkFault
    /\ KeepGroup
    /\ UNCHANGED <<service, phase, pos, parts, g, busy, listed, metClose, target>>

-----------------------------------------------------------------------------
(* The stop sequence.  A second signal stays in the channel unread.         *)
Sigterm ==
    /\ phase = "serving"
    /\ phase' = "stopping"
    /\ UNCHANGED <<pubVars, service, pos, parts, g, busy, group, listed, metClose, target>>

Advance == pos' = pos + 1

\* Shutdown has drained the handlers, or its context has timed out; workerCancel;
\* hub.Close; and the publishers that are not followed.
StopPart(p) ==
    /\ At(p) /\ p \notin {"grpc", Publisher, "subscriber", "wait"}
    /\ Advance
    /\ target' \in IF p = "hub" /\ g["listener"] = "running" THEN {"none", "closed"} ELSE {target}
    /\ UNCHANGED <<pubVars, service, phase, parts, g, busy, group, listed, metClose>>

\* GracefulStop has no timeout; on a server that could not be built it is a call
\* through a nil pointer.
StopGrpc ==
    /\ At("grpc")
    /\ \/ "grpc" \notin parts /\ Crash
       \/ /\ "grpc" \in parts /\ ~busy
          /\ Advance /\ UNCHANGED <<phase, g, busy, group, listed, metClose, target>>
    /\ UNCHANGED <<pubVars, service, parts>>

StopPublisher ==
    /\ At(Publisher)
    /\ \/ CloseBegins /\ UNCHANGED pos
       \/ CloseChannel /\ Advance
    /\ UNCHANGED <<service, phase, parts, g, busy, group, listed, metClose, target>>

\* baseSubscriber.close: cancel, wait for the listed consumers or the timeout,
\* and close them.
StopSubscriber ==
    /\ At("subscriber")
    /\ \/ "subscriber" \notin parts /\ Crash
       \/ /\ "subscriber" \in parts
          /\ group' = IF listed /\ group = "open" THEN "closed" ELSE group
          /\ metClose' = g["subscribe"]
          /\ Advance /\ UNCHANGED <<phase, g, busy, listed, target>>
    /\ UNCHANGED <<pubVars, service, parts>>

Returned(x) == g[x] \in {"none", "returned"}

\* wg.Wait; the process ends with whatever still runs in it.
WaitReturns ==
    /\ At("wait") /\ \A x \in AllGoroutines : Returned(x)
    /\ phase' = "exited"
    /\ UNCHANGED <<pubVars, service, pos, parts, g, busy, group, listed, metClose, target>>

StopStep ==
    \/ \E p \in Range(StopPlan) : StopPart(p)
    \/ StopGrpc \/ StopPublisher \/ StopSubscriber \/ WaitReturns

-----------------------------------------------------------------------------
SetupStep == SetupConnection \/ SetupPublisher \/ Start
             \/ \E p \in Range(Plan) : SetupPart(p) \/ SetupFails(p)

Next ==
    \/ SetupStep
    \/ RpcArrives \/ RpcEnds \/ RpcPanics
    \/ \E x \in {"http", "grpc"} : ServerReturns(x)
    \/ SubscribeStep \/ ConsumerException \/ WorkerStep
    \/ ListenerSendReplaced \/ ListenerSend
    \/ \E t \in Callers : Publishing(t)
    \/ Broker
    \/ Sigterm \/ StopStep

Spec == Init /\ [][Next]_vars

(* Goroutines are scheduled, handlers end, a dial that is repeated succeeds  *)
(* in the end, and the worker always has an event to publish: what could   *)
(* not be published stays in the outbox.  A batch is finite.                *)
Fairness ==
    /\ WF_vars(StopStep) /\ WF_vars(SubscribeStep) /\ WF_vars(WorkerStep)
    /\ WF_vars(RpcEnds) /\ \A x \in {"http", "grpc"} : WF_vars(ServerReturns(x))
    /\ \A t \in Callers : WF_vars(Publishing(t))
    /\ WF_vars(Alive /\ ConnectionStep /\ KeepGroup /\ UNCHANGED procVars)

FairSpec == Spec /\ Fairness

-----------------------------------------------------------------------------
(* Properties.                                                             *)

\* Setup follows its plan and stops at an error, except where no one looks at it:
\* a service that runs has every part its Setup insists on.  Nothing is published
\* before its publisher exists.
SetupInOrder ==
    /\ phase = "setup" => pos <= Len(Plan) + 1
                          /\ \A i \in 1..(pos - 1) : Plan[i] \in parts \cup Unchecked
    /\ Started => Range(Plan) \ Unchecked \subseteq parts
    /\ phase = "serving" => pos = 1
    /\ phase \in {"stopping", "exited"} => pos <= Len(StopPlan)
    /\ ch # NoChannel => Publisher \in parts
    /\ "connection" \in parts => conn # "none"

\* The notification service gets past its subscriber without one only when the
\* connection was lost.
SubscriberMissed ==
    /\ service = "notification" /\ "subscriber" \notin parts
    /\ Started \/ (phase = "setup" /\ \E i \in 1..(pos - 1) : Plan[i] = "subscriber")

\* The goroutine of Subscribe, its consumer group, the list and Close.
SubscribeInOrder ==
    LET sub == g["subscribe"] IN
    /\ phase = "setup" \/ "subscribe" \notin Goroutines => sub = "none"
    /\ Started /\ "subscribe" \in Goroutines => sub \in {"starting", "checked", "consuming", "returned"}
    /\ sub \in {"none", "starting", "checked"} => group = "none"
    /\ sub = "consuming" => group \in {"open", "lost", "broken"}
    /\ sub = "returned" /\ group \in {"open", "lost", "broken"} => listed
    /\ listed => group \notin {"none", "refused"} /\ sub = "returned"
    /\ group = "lost" => losses > 0
    /\ Passed("subscriber") =>
          /\ metClose # "no"
          /\ metClose \in {"starting", "returned"} => sub \in {"starting", "returned"} /\ group # "open"

\* The listener has a channel only in the notification service once it runs, and
\* one that hub.Close closed only after that line of the stop sequence.
HubClosed == \E i \in 1..(pos - 1) : StopPlan[i] = "hub"

ListenerInOrder ==
    /\ g["listener"] # "none" => service = "notification" /\ phase # "setup"
    /\ target # "none" => g["listener"] # "none"
    /\ target = "closed" => HubClosed

\* The types, and what the parts above say.
LifecycleIInv ==
    /\ TypeOK /\ PublisherConsistent /\ LeakBudget
    /\ SetupInOrder /\ SubscribeInOrder /\ ListenerInOrder
    /\ SubscriberMissed => losses > 0

\* A started process dies in one of three ways only: the auth service when it
\* stops, over a gRPC server whose construction failed unnoticed; the
\* notification service over a subscriber it does not have, and that only if the
\* connection was lost and dialled again in the middle of Setup; and the
\* notification service when its listener sends on a channel that a second
\* stream, or hub.Close in the stop sequence, has closed.  The wallet and the
\* docs service never do.
CrashHasCause ==
    phase = "crashed" =>
        \/ service = "auth" /\ "grpc" \notin parts /\ pos > 1
        \/ /\ service = "notification"
           /\ \/ "subscriber" \notin parts /\ losses > 0
              \/ target = "replaced"
              \/ target = "closed" /\ HubClosed

\* A running service whose Subscribe has returned is consuming unless
\* startWorkers was refused, which is only logged, or its channel has gone since,
\* alone or with the connection (it never consumes again then); and after Close a
\* consumer is left open only if Subscribe was past its check at that time.
ConsumerMatchesLifecycle ==
    /\ phase = "serving" /\ g["subscribe"] = "returned" =>
          \/ group = "refused"
          \/ listed /\ (group \in {"open", "broken"} \/ (group = "lost" /\ losses > 0))
    /\ Passed("subscriber") /\ group = "open" => metClose \in {"checked", "consuming"}

\* The two goroutines of the hub, at wg.Wait.
WaitsForHub ==
    /\ service = "notification" /\ At("wait")
    /\ \A x \in AllGoroutines \ {"listener", "heartbeat"} : Returned(x)

\* After SIGTERM every service comes to its end, whatever requests, batches and
\* connections are at work, except the notification service, which gets as far
\* as wg.Wait and stays there, waiting for its hub.
ShutdownEnds ==
    phase = "stopping" ~> phase \in {"exited", "crashed"} \/ WaitsForHub

\* A publisher whose channel is gone has an open one again in the end, unless the
\* service stops or watchReconnect has given up for good.
PublisherHeals ==
    ch # NoChannel /\ ch \notin open ~> ch \in open \/ phase # "serving" \/ watch = "returned"
=============================================================================
