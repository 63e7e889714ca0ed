# mini-wallet: TLA+ models, checks and proofs

mini-wallet is three Go services over MySQL, RabbitMQ and Redis, and a fourth that
serves their API documentation. This directory
holds TLA+ models of their concurrent parts, TLC configurations that check them
on small instances, and TLAPS proofs that hold for every size.
`PROJECT.json` lists the components, the runs, the mutants, which definition
models which lines, the findings, the hazards and the theorems.

## The system

| Part | State | Operations | Talks to |
|---|---|---|---|
| auth: accounts, sessions | `users`, `devices`, `device_sessions`, `device_session_history` | Register, Login, RefreshToken, LogoutSession, LogoutAllSessions, UpdatePushToken | writes `auth_outbox_events` in its transactions, then starts a goroutine that publishes the event |
| auth: outbox | `auth_outbox_events` (status, locked_until) | claim one, claim a batch, publish, mark processed, mark failed, recover stale | RabbitMQ: topic exchange `user`, direct exchange `notification` |
| wallet: transfer | `wallets`, `wallet_transactions` | POST /transfer | - |
| wallet: subscriber | `wallet_processed_messages`, `wallets` | Handle, handleRegisterNewUser, InitWallet | consumes `user.created` |
| notification: subscriber | `notification_processed_messages`, `notification_outbox_events` | Handle, handleNewSession, handlePushNotification | consumes the notification queue, asks auth over gRPC, calls push services |
| notification: outbox | `notification_outbox_events` | as in auth, without the goroutine | publishes to its own queue |
| notification: hub, streams | map of channels per instance; Redis `online:*`, `ticket:*`, pub/sub | ticket, stream, Connect, Disconnect, listener, heartbeat, Close | Redis, shared by all instances |
| pkg/rabbitmq: consumer | queues, retry queues, dead-letter queues; channels | consume, reject, dead-letter, close | RabbitMQ |
| pkg/rabbitmq: connection, publisher | the connection and its watcher; a channel shared by the goroutines that publish | watchReconnect, publish, reopen, close | RabbitMQ |
| processes | what serve and Setup built, goroutines, contexts | serve, Setup, Start, SIGTERM and the stop sequence of each service | all of the above |

A registration travels: Register commits user, session and event; the outbox
publishes the event at least once; the broker delivers it at least once, with
retries; the wallet subscriber creates the wallet. A login travels the same way
to the notification service, which raises one alert per other session.

What is hard to test there: several processes claiming rows of one table; locks
that run out under a slow claimant; a process that dies between a publish and
its mark; two transfers over the same rows; a transaction that nobody rolls
back; logins, refreshes and logouts of one session at once; redelivery while the
first delivery is still being handled; a stream that is replaced while it ends; two
publishers that find their channel closed; a connection that is lost in the middle
of Setup, or a SIGTERM in the middle of Subscribe.
`PROJECT.json` has them line by line under `hazards`.

## Modules

| Module | Models | State and actions against the code |
|---|---|---|
| `AtLeastOnceRelay` | what an outbox promises | messages are owed, relayed, settled, reopened |
| `Outbox` | auth outbox: repository, service, worker | `status`, `lock` are the columns; `single` is the goroutine of ProcessSingleEvent; `phase`, `batch` are ProcessBatch. One action per SQL statement and per publish |
| `OutboxProofs` | proofs about `Outbox` | |
| `WalletTransfer` | Service.Transfer inside RunInTx | `pc` is the statement of the closure, `owner` the row locks, `delta` and `journal` what is not committed yet. One action per statement |
| `WalletTransferProofs` | proofs about `WalletTransfer` | |
| `AuthSessions` | auth service and repository | tables as sets of records; `job` is the open transaction of a request, cut where another request can act |
| `AuthSessionsProofs` | proofs about `AuthSessions` | |
| `RabbitConsumer` | pkg/rabbitmq: topology, worker, subscriber | `at` is where the broker keeps a message, `step` where a worker is in processMessage; `Topology` selects DeclareDirect or DeclareTopic |
| `RabbitConsumerProofs` | proofs about `RabbitConsumer` | |
| `SubscriberHandle` | Handler.Handle and the processed-messages table | shared by both subscribers; the event's own handler is left to the extending module |
| `RabbitPublisher` | pkg/rabbitmq: Connection, basePublisher | `conn`, `watch` are the connection and watchReconnect; `ch` is p.ch; `step` is a caller's place in publish. A step is what happens between two points where another goroutine can change `p.ch`, the connection or `closed` |
| `ServiceLifecycle` | cmd/*/commands/serve.go, internal/*/app.go | extends `RabbitPublisher`. `phase` and `pos` are main's place in the plan of the service: the parts serve and Setup build, then what Start does after the signal; `g` are the goroutines of Start's WaitGroup; `group`, `listed` are baseSubscriber's consumer; `target` is what became of the channel that the hub's listener sends on |
| `ServiceLifecycleProofs` | proofs about `RabbitPublisher` and `ServiceLifecycle` | |
| `WalletSubscriber` | Register to CreateWallet, across both services | extends `SubscriberHandle` with handleRegisterNewUser, and `AtLeastOnceRelay`, the promise of the auth outbox that `Outbox` is proved to keep |
| `WalletSubscriberProofs` | proofs about `WalletSubscriber` | |
| `LoginAlerts` | handleNewSession, handlePushNotification, the notification outbox | extends `SubscriberHandle`; one process, one user. `found` is the session list read over gRPC, `alert` and `row` the outbox rows, `phase` and `batch` ProcessBatch, `about` the row a push message was published for, `sent` what the provider took |
| `LoginAlertsProofs` | proofs about `LoginAlerts` | |
| `NotificationHub` | pkg/hub, /ticket, /stream | one action per critical section of `Hub.mu` or Redis command |
| `NotificationHubProofs` | proofs about `NotificationHub` | |
| `MC*` | instances for TLC | symmetry sets and constants; `RabbitConsumer` and `ServiceLifecycle` are run directly |

Each module says at its head what it abstracts. In common: payloads, ids and
tokens are atoms or small numbers; validation, password hashing and JWTs are left
out because they guard entry and change no shared state; SQL is modelled by the
rows it reads, locks and writes; a database error may come before or after the
statement took effect wherever the code cannot tell. `history` variables
(publishes, overruns, handled, spent, ...) observe and never guard an action, apart
from the named bounds.

MySQL, RabbitMQ and Redis are not in the repository. They are modelled from how
the code uses them, and those definitions are marked external in the map: row
locks until the end of a transaction, the deadlock detector, rollback when the
context of `BeginTx` ends, routing by binding, dead-lettering and the x-death
count, redelivery of what is unacked on a lost channel, TTLs; and of the AMQP library,
that a publish on a closed channel is `ErrClosed` and that NotifyClose on a connection
that is gone gives no reason. The publishers use no confirms, so a publish that returns
nil has only reached the socket; every model takes it as received by the broker. That is
an assumption: a broker that dies at that moment loses the message, and nothing in the
code would notice. A publish that returns an error may have been received or not.

Operators under a comment that begins with `Mutant:` are not part of a
specification. Each is a plausible mistake in the definition that follows it; the
table `mutants` says which property finds it.

## What the runs check

`outbox` (`MCOutbox.cfg`; two events, two processes, batches of two published one
at a time, one overrun per event, one crash): an event is `processed` only if it
was published; it has one claimant at a time, over all processes, unless a lock
ran out under one; until a lock of it ran out, the broker has one copy more than
publishes of it that failed although they took effect, at most (`doubts`: such a
publish makes the row pending at once, and it is published again); a processed
row is reopened only after an overrun; and the whole refines
`AtLeastOnceRelay`. Two processes and two events are enough for every pair of
claimants to meet on one row while the order of the batch and the concurrency
limit matter. `outbox_live` (one process, batches of one, so that a second event
waits behind the first) checks that every committed event is published.

`transfer` (two requests, three wallets that start with 3, 2 and 2, an id without a
wallet, amounts 2, 3 and -3, balances from -2 to 6, under fairness): no debit takes more
than the wallet has, no money is made or lost, both ledger rows or none, balances equal
to the replayed ledger, and every request is answered although a failed closure keeps
its locks. A balance may be below zero, but only of a wallet with a negative incoming
transfer on the books: the code does not check the sign of the amount. The bounds
make all of these happen: a balance that covers one transfer but not two, opposite
transfers that deadlock, a third wallet to receive what a second debit would
overdraw, self transfers, a negative transfer, a credit or a debit past the column's
limits, a missing source or destination.

`sessions` (one account, one device, two concurrent requests, four tokens, three
sessions, push tokens "" and "t"): one session per device; a refresh token is
exchanged once; a logged out session stays out and is archived with its last
token; a 200 login leaves its token as the current one of a session, with two named
exceptions; Register leaves account, event and session or none of them. Register is cut
into its inserts and its commit: it may fail between any two, keep its transaction
open until the context ends, or report an error of a commit that took effect, as the
commits of Login and LogoutSession may. `SessionsInv` also says that ids and tokens are
used once and that an open transaction is still right about what it read under its
locks. Two requests on one session are what the locks are for.

`consumer` (two messages, two workers, two interruptions, under fairness): no message is
lost under the direct topology, retries are bounded, nothing is handled twice without
an interruption, leases are consistent, and every message is settled while the
channels live, unless its handler panics each time: such a message is requeued without
a count, for ever, and `EventuallySettled` names it as its exception (`PanicsForever`).
A worker whose channel is gone settles nothing here and its message waits for a worker of
the restarted process; two workers at one message are in `wallet_subscriber`.

`wallet_subscriber` (one registration that the outbox may publish under two message
ids, two workers, two redeliveries): `completed` means there is a wallet, and is taken
back (and the handler run again) only after a delivery was taken back. Before that, a
user whose registration was published and who has no wallet has messages, and each is at
the broker, recorded as `failed`, or lost in the retry queue of the topic topology. The
last is a loss that may leave nothing on record (`consumer_topic` shows how);
`MissingWalletExplained` says that there is no other way.

`login_alerts` (one login, two other sessions, one worker, two push messages, two
outbox rows, one delivery taken back, one crash; a row gets a second push message only
in behaviours where it is the only row): the other sessions get all their
alerts or none, and all if the login is `completed`, a `completed` push was
taken by the provider, and an alert never vanishes between outbox, queue and
provider; `AlertsIInv` relates the rows, the statuses and the handlers at
work. The rows, the status of the message and the ack are three separate steps, and a
crash or a late error can fall between any two. A delivery that is repeated after the
insert inserts the alerts again; no property forbids that. Two workers on one message
are in `wallet_subscriber`; locks that run out, several processes and the order of
a batch are in `outbox`.

`hub` (one user, buffers of one, under fairness; three streams on one instance, or two
on two instances, and two requests may show the same ticket): a ticket admits one stream,
the map holds only open channels of live streams (so `close` never hits a closed
channel), a stream that is served on an open channel is registered unless a stream of its
user that was connected on its instance when it connected (`older`) has disconnected
since, the listener fails only on a replaced channel, and the online key of a registered
user comes back. The third stream is for the chain in which one stream replaces another,
loses its entry to the other's Disconnect, and later removes the entry of a third that
never replaced it.

`lifecycle` (each of the four services; two goroutines that publish, three channel
ids, one lost connection, one channel closed by the broker, under fairness): a
service that runs has every part its Setup insists on; it dies only of a part whose
construction failed unnoticed, or when the hub's listener sends on a channel that a second
stream or hub.Close has closed; a publish hands over at most one message, and one if
it returns nil, also when it reopens the channel and another publisher replaces that
one; after close no channel of the publisher is in use; overlapping reopens leak at
most one channel per incident and other publisher; a service whose Subscribe has returned
consumes unless startWorkers was refused, which is only logged, or its channel is gone
since, alone or with the connection; its close misses only a consumer that Subscribe is
just starting; every shutdown ends, but for the notification service's; and a publisher
recovers from a lost connection or channel as long as watchReconnect lives. One loss
already meets every point of Setup, of a publish, of a reopen and of the stop
sequence; a second fault, the closed channel, can fall into the recovery from the
first. A fourth channel id adds no state.

Runs say `CHECK_DEADLOCK FALSE` because the bounds and the finite sets of requests,
messages and streams let every model come to an end.

### Bounds

`MaxOverruns`, `MaxCrashes`, `MaxPublishes` (saturating), `MaxTokens`,
`MaxSessions`, `MaxInterruptions`, `HistoryCap` (saturating),
`MaxRedeliveries`, `MaxRows`, `MaxNotices`, and the number of `Pushes` (messages
the notification outbox can publish), `MaxLosses`, `MaxExceptions`, `Channels` (an id
is used again when nothing refers to the channel). `MinBalance` and `MaxBalance` are the
limits of the balance column, which the code has, at a small size. The others cap counters
that the code does not have or does not limit.

### Fairness

- Outbox: the tickers fire for ever and goroutines run (weak fairness on marks,
  recovery and expiry of abandoned locks); the broker and the database, although
  they fail any number of times, do not fail every time (strong fairness on
  publish, claim and the mark that takes effect). A crash, an overrun or an error
  is never required.
- Transfer: a request runs its next statement; a lock that is freed again and
  again is granted (InnoDB queues waiters); the detector resolves a cycle; the
  context of a handler that has returned ends, as net/http guarantees.
- Consumer: workers run, because every handler has a timeout; the broker delivers
  and ends TTLs.
- Lifecycle: goroutines, handlers and the steps of the stop sequence run; RPCs end; a
  batch is finite; a dial that is repeated every three seconds succeeds in the end;
  and the outbox worker always has an event to publish, because what could not be
  published stays in the table. Only weak fairness; no fault and no signal is required.
- Hub: the heartbeat's ticker fires and its loop ends; handlers finish.

## Where the code and its own words differ

Each of these runs violates one property that quotes a comment or a configuration
value of the repository.

| Run | What happens |
|---|---|
| `login_session` | Login overwrites the error of UpsertSession and answers 200 without a session; a concurrent logout has the same effect |
| `consumer_topic` | the topic topology's retry queue dead-letters with a key nothing is bound to: a rejected message is dropped |
| `wallet_subscriber_ack` | Handle returns what MarkFailed returns, so a failed message is acked and not retried |

Also in the models as the code has it, without a run of their own:

- The notification service never ends after SIGTERM: `wg.Wait` (`app.go:250`) waits for
  the hub's listener and heartbeat, whose context only the deferred `cancel` ends, and a
  second signal is not read. `ShutdownEnds` states it as its exception.
- The Disconnect of a stream names only the user (`hub.go:49`) and unregisters whichever
  stream came after it, which stays open and gets nothing; `SilencedOnlyByOlder` says that
  nothing else does.
- Transfer does not look at the sign of the amount (`params.go:16`, `service.go:84`): a
  negative transfer credits its source and overdraws its destination.
- A handler that panics is requeued without a count (`worker.go:128`): one that panics on
  a message each time gets it again for ever.
- The error of Subscribe is only logged (notification `app.go:199`, wallet `app.go:147`):
  the service runs without a consumer.
- A connection that was lost is dialled again, and publishers reopen their channels on
  it, but no consumer is started again (`connection.go:62`): the service consumes
  nothing until it is restarted. If the new connection dies before NotifyClose,
  watchReconnect returns and nothing is dialled again (`connection.go:51`).
- Setup does not look at the error of grpc.New in auth (`app.go:156`): the service runs
  without gRPC and its shutdown panics at `Stop`. In notification the error of
  NewDirectSubscriber is overwritten (`app.go:125`).
- RevokeAllSessions passes three arguments to a query with two placeholders
  (`repository/auth.go:414`, `:426`), so LogoutAllSessions always ends in 500 with
  all sessions in place, where the API comment says "Logout all active sessions".
- UpdatePushToken answers 404 when the session already has that token, because
  MySQL counts changed rows (`repository/auth.go:527`).
- Register wraps the Conflict of a taken address into an internal error
  (`service.go:216`): 500, where the API comment lists 409.
- RunProcess looks for the status `sent` and MarkSent writes `completed`
  (`event.go:54`, `:88`), so a completed message that is delivered again is handled
  again; `CompletedIsFinal` says that this takes a delivery that was taken back, and
  `WalletIInv` holds all the same, because of the unique key.
- An expired refresh token is answered with 500, where the API comment lists 401.

Seen while reading and outside the models: UpsertSession returns the device id it
generated also when the device already has another; `Hub.Publish` and
`Hub.IsOnline` have no caller yet; the text of an alert names the session that
receives it, not the new one (notification `handler.go:180`), and every push goes
to the user, so n other sessions give n pushes; GetActiveSessions does not leave
out sessions that have expired; the results of UnaryServerInterceptor are not named,
so the error its recovery assigns is lost and a panicking RPC is answered with an
empty message (`interceptors.go:116`); the auth service publishes to the exchange
`notification`, which it does not declare, and without confirms it does not learn that
nobody did.

## What is proved

Each proof module extends the component's module and proves `Spec => []Inv` from an
inductive invariant that the component's run checks as well. (`AuthInv`, `AlertsInv`,
`PublisherInv` and `ProcessInv` are conjunctions of invariants the runs check one by
one.) The theorems hold for all constants that these assumptions allow:

| Assumption | Says |
|---|---|
| `OutboxAssumption` | events are natural numbers, sizes are positive, bounds are natural numbers |
| `TransferAssumption` | the table of wallets is finite and its ids are among the ids, amounts are integers of either sign, the column holds 0, initial balances are natural numbers in its range |
| `SessionsAssumption` | the empty push token is one; bounds are natural numbers |
| `ConsumerAssumption` | one of the two topologies, a positive prefetch, bounds are natural numbers |
| `HandleAssumption`, `WalletAssumption` | every message is about a user; the outbox's events are the registrations |
| `AlertsAssumption` | messages are logins or pushes, every login has a new session |
| `HubAssumption` | a positive buffer, bounds are natural numbers; `Placements` says which streams may be on which instance and `Shows` which ticket a request may show, both without restriction |
| `PublisherAssumption`, `LifecycleAssumption` | finitely many callers and channels; the services are among the four; the two goroutines that publish are the worker's batch and a request |

Values that stand for nothing (`NoRequest`, `NoWorker`, `NoAlert`, ...) lie outside the
sets they are compared with. The bounds are parameters of the theorems, too: they hold
for any number of crashes, losses, tokens or redeliveries. `ServiceLifecycle` alone fixes
the number of its publishing goroutines.

`OutboxProofs`, for any number of events, processes, crashes and overruns:
`TypeCorrect`, `ProcessedImpliesPublished`, `ClaimIsExclusive`,
`DuplicatesAccounted`, `ProcessedIsFinal` and the refinement `OutboxIsARelay`.
None of the invariants is inductive alone. Exclusive claims need `ClaimsUnderLock`
(before an overrun a claimant sits under an unexpired lock, so the row is not
`pending` and cannot be claimed again), which needs `RowsConsistent` (locked_until
is set exactly in `processing`). The count of copies needs `PublishedOnceBeforeExpiry`:
after a publish that returned nil nobody is left who could publish again or mark the
event failed, and before it every copy is one of `doubts`. `IInv`, proved in
`OutboxInductive`, is their conjunction with the types. The refinement maps `owed` to the pending and
processing rows, `settled` to the processed ones, `relayed` to those published;
claims, recovery, expiry and crashes are stuttering steps.

`WalletTransferProofs`, for any requests and any finite number of wallets:
`TransferTypeCorrect`, `TransferNeverOverdraws`, `TransferDoubleEntry`,
`TransferConservesMoney` and `LedgerReplays`. The inductive invariant `TransferIInv`
(`TransferInductive`) says that a transaction owns the lock of each row it has
read or changed (`LocksHeld`), that committing it now would leave every balance in
its column, and below zero only with a negative credit (`ViewsInRange`), and that its
uncommitted ledger rows and balance changes follow its program point
(`JournalFollowsSteps`, `DeltaFollowsSteps`). The lock taken by SELECT ... FOR UPDATE is what keeps the checked
balance true until the debit.

The two money theorems add sums to this. Only a commit touches the tables
(`OnlyCommitsApply`); it takes the amount from the source and gives it to the destination
(`CommitMoves`), which has a row because the foreign key let the incoming ledger row in;
and the two rows it adds are new to the ledger and book those two changes
(`CommitBooks`). What is left is about `SumFunction` alone, which adds up a set in an order
fixed by a CHOOSE: any element may be added first (`SumRemove`), the values decide the sum
(`SumSame`), moving an amount between two indices keeps it (`SumMove`), one more row
adds its amount (`TotalInsert`). The provers cannot use the library's induction theorems,
so the facts about all finite sets, from the existence of the sum to `SumRemove` and
`SumSame`, are proved from a smallest counterexample: `WFMin` gives a minimal set among
those where the fact fails (`SubsetMinimal`), and removing one element refutes it. The
others follow from them; a transfer from a wallet to itself is a case of its own in
`SumMove`.

`AuthSessionsProofs`, for any number of users, devices and concurrent requests:
`SessionsConsistent`, `LogoutIsFinal`, `RegistrationAtomic` and the action properties
`TokensExchangedOnce` and `LoginSessionsExplained`. One session per device is inductive only
with `TransactionSound`: a login that found no session holds the lock of its device
until it inserts one; a rotation and a logout hold the lock of their row, so the token
they read is still the session's when they write. The lemmas say that a step disturbs
no transaction but its own (`Undisturbed`): an UPDATE touches a row nobody else has
locked, and an inserted session is of a new account or under the inserter's device
lock. A login that found a session holds no lock on it: what it needs, that the
id is still the same account's or gone, follows because ids are never used again
(`IdsInOrder`). `TokensExchangedOnce` rests on this, too: the token a rotation holds is
a live session's, no live session's token was spent, and no live session was logged out.
`RegistrationAtomic` needs that two open registrations never hold the same address
(`EmailsHeld`) and that what a transaction has written so far follows its step.

`RabbitConsumerProofs`, for any number of messages, workers and retries and under both
topologies: `ConsumerInductive`, `HandledOnce`; and `NothingLost` for
`Topology = "direct"` (for the topic topology `consumer_topic` refutes it).
`ConsumerInv` ties the two views of a delivery together: every lease of the broker is a
worker's at work (`LeasesConsistent`), a worker acks only what was handled or
dead-lettered, also when its lease is gone (`WorkersConsistent`), and without an
interruption a worker's message is leased to it and was not taken before
(`SoleConsumer`).

`WalletSubscriberProofs`: `WalletInductive`, `RegistrationEnds`, `CompletedStays`.
`WalletIInv` says that without a redelivery a message has one worker (`SoleWorker`), that
an ack, given or about to be given, has a wallet or a recorded failure behind it
(`AckedIsConcluded`), and that a `completed` message is acked or about to be
(`CompletedAtTheAck`); `OnlyRegistered` carries the outbox's promise over to the messages.

`LoginAlertsProofs`, for any logins, sessions, pushes, rows and workers:
`AlertsConsistent`, `EveryoneTold`, `PushDelivered`, `AlertTraced`. The heart of
`AlertsIInv` is `HandlersConsistent`: the session list a handler works with is stale, but
the sessions that are to be told can only end, so it covers all that are still active.
`RowsConsistent` says that what the batch takes for published, and what is closed, has a
message; `AckedIsConcluded` that an acked push was sent or is recorded as failed.

`NotificationHubProofs`, for any users, streams, instances and buffer size:
`HubConsistent`, `SilenceExplained`, `CrashExplained`. `HubInv` and
`SilencedOnlyByOlder` are inductive together (`HubInductive`): that the map names
only live streams needs every closed channel to be a replaced stream's
(`StreamsConsistent`), and that only an older stream silences needs the registered stream
to be the one that connected last (`RegisteredIsLatest`).

`ServiceLifecycleProofs`: of the publisher `PublishOnce`, `CloseIsFinal`,
`LeakIsBounded`; of the process `LifecycleConsistent`, `CrashExplained`,
`ConsumerExplained`. A bound on leaked channels is not inductive: `LeakBudget` adds the
channels that callers on their way to a reopen (`Late`) may still leak, or all callers
but one while the channel is gone. The process part says how far Setup must have come
for each part to exist (`SetupInOrder`), which states of the goroutine of Subscribe, its
group and the list go together, before and after Close looked (`SubscribeInOrder`), when
the listener can have a closed channel (`ListenerInOrder`), and that a subscriber is missed
only after a loss.

Only model-checked: liveness and everything under fairness, which is out of the prover's
reach. Every safety property of a passing run is also a theorem.

## Not modelled

- The fanout topology, publisher and subscriber, ProcessSingleEvent and
  InsertOutboxEvent of the notification outbox, and the Firebase sender: no service
  uses them.
- Messages that do not parse: every message of these queues is written by the services
  themselves.
- The requests the push senders make: a send succeeds, fails, or fails after it took
  effect (`LoginAlerts`).
- Access tokens, middleware, routing, error formatting: pure functions of a request.
- Logging, telemetry, configuration, the migrate commands: they decide nothing once
  serve has started. Generated code. `src/main.go`, whose body is commented out.
- What the docs service serves: static files. Its process is in `ServiceLifecycle`.
- The reads GetUserSessions and GetActiveSessions change nothing; the session list is
  modelled where `LoginAlerts` uses it.

## Plan

1. Done: outbox with its abstract specification; transfer; sessions; consumer and
   topologies; connection and publisher; registration from Register to wallet over the
   outbox's promise; login alerts with the notification outbox; hub; start and shutdown
   of all services. Proofs of the safety properties of each of them.
2. Done: the money invariants, with the lemmas about sums they rest on. No safety
   property is left to TLC alone; liveness stays with it.
