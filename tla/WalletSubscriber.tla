-------------------------- MODULE WalletSubscriber --------------------------
(***************************************************************************)
(* A registration from end to end: the auth service accepts a user         *)
(* together with the event, its outbox relays the event to the queue of    *)
(* "user.created", and the wallet service consumes it: Handle, and         *)
(* handleRegisterNewUser, which gives the new user a wallet.               *)
(*                                                                         *)
(* The outbox is taken at its promise, AtLeastOnceRelay, which module      *)
(* Outbox implements.  It publishes an event again under a new message id, *)
(* so several messages may speak of one user.                              *)
(***************************************************************************)
EXTENDS SubscriberHandle, AtLeastOnceRelay

CONSTANTS Users,
          UserOf  \* the user each message is about

\* The event of a registration is named by its user.
ASSUME WalletAssumption == UserOf \in [Messages -> Users] /\ Events = Users

VARIABLE wallets  \* rows of table wallets: owner, and the message that made it

vars == <<handleVars, relayVars, wallets>>

Wallet == [user : Users, by : Messages]
WalletsOf(u) == {r \in wallets : r.user = u}

TypeOK ==
    /\ HandleTypeOK /\ wallets \subseteq Wallet
    /\ owed \subseteq Users /\ settled \subseteq Users /\ relayed \subseteq Users

Init == HandleInit /\ RelayInit /\ wallets = {}

-----------------------------------------------------------------------------
(* The auth service: Register, and its outbox.                             *)
Register(u) == Accept(u) /\ UNCHANGED <<handleVars, wallets>>

\* A publish, which the outbox may count as failed although the broker has it.
PublishRegistration(m) ==
    /\ Relay(UserOf[m]) /\ Arrive(m)
    /\ UNCHANGED wallets

\* The marks of the outbox: processed; or, after an error, pending again.
MarkRegistration(u) ==
    /\ Settle({u}) \/ Reopen({u})
    /\ UNCHANGED <<handleVars, wallets>>

-----------------------------------------------------------------------------
\* INSERT INTO wallets; UNIQUE(user_id, currency) makes a second one a Conflict.
CreateWallet(m) ==
    IF WalletsOf(UserOf[m]) = {}
    THEN wallets' = wallets \cup {[user |-> UserOf[m], by |-> m]}
    ELSE UNCHANGED wallets

\* handleRegisterNewUser: created, or Conflict, which is fine too.
InitWallet(w) ==
    /\ step[w] = "handle"
    /\ CreateWallet(msg[w])
    /\ Goto(w, "sent")
    /\ UNCHANGED <<queue, table, relayVars>>

\* The insert fails, or only its answer does (the handler's timeout).
InitWalletError(w) ==
    /\ step[w] = "handle"
    /\ CreateWallet(msg[w]) \/ UNCHANGED wallets
    /\ Goto(w, "failed")
    /\ UNCHANGED <<queue, table, relayVars>>

Next ==
    \/ HandleNext /\ UNCHANGED <<relayVars, wallets>>
    \/ \E u \in Users : Register(u) \/ MarkRegistration(u)
    \/ \E m \in Messages : PublishRegistration(m)
    \/ \E w \in Workers : InitWallet(w) \/ InitWalletError(w)

Spec == Init /\ [][Next]_vars

-----------------------------------------------------------------------------
(* Properties.                                                             *)

\* A message is 'completed' only if its user has a wallet, whichever of several
\* overlapping deliveries wrote the status last.
CompletedHasWallet ==
    /\ \A m \in Messages : status[m] = "completed" => WalletsOf(UserOf[m]) # {}
    /\ \A w \in Workers : step[w] = "sent" => WalletsOf(UserOf[msg[w]]) # {}

\* Nobody has a wallet, or a message, who did not register; a relayed
\* registration has a message.
OnlyRegistered ==
    /\ \A m \in Messages : place[m] # "unsent" => UserOf[m] \in relayed
    /\ \A u \in relayed : \E m \in Messages : UserOf[m] = u /\ place[m] # "unsent"
    /\ \A r \in wallets : r.user \in relayed
    /\ relayed \subseteq owed \cup settled /\ settled \subseteq relayed

\* A message is acked for good with its user's wallet made, or its failure
\* on record.
Concluded(m) == WalletsOf(UserOf[m]) # {} \/ status[m] = "failed"

AckedIsConcluded ==
    redeliveries = 0 =>
        /\ \A m \in Messages : place[m] = "acked" => Concluded(m)
        /\ \A w \in Workers : step[w] = "ack" => Concluded(msg[w])

\* As long as no delivery was taken back, the row of a message does not say
\* 'completed' before its worker is about to ack it.
NotCompleted(m) == status[m] # "completed"

CompletedAtTheAck ==
    redeliveries = 0 =>
        /\ \A m \in Messages :
              place[m] \in {"unsent", "queued", "retry", "dropped"} => NotCompleted(m)
        /\ \A w \in Workers : step[w] \notin {"idle", "ack"} => NotCompleted(msg[w])

\* The types, and what the five parts above say.
WalletIInv ==
    TypeOK /\ SoleWorker /\ CompletedHasWallet /\ OnlyRegistered /\ AckedIsConcluded
    /\ CompletedAtTheAck

\* The ways a message about a user without a wallet may have gone: it is still
\* at the broker; the wallet service put its failure on record and acked it; or
\* it is lost, because RunProcess or MarkFailed returned an error, the message
\* was rejected, and the retry queue did not bring it back.
AtBroker(m) == place[m] \in {"queued", "held", "retry"}
FailureOnRecord(m) == place[m] = "acked" /\ status[m] = "failed"
LostInRetryQueue(m) == place[m] = "dropped" /\ NotCompleted(m)

\* A registration the outbox is done with (it was published), whose user has no
\* wallet, as long as no delivery was taken back: there is a message about it,
\* and every one went in one of the three ways above.  The third is a loss that
\* may leave nothing on record (run consumer_topic shows the retry queue drop the
\* message); no registration is lost in another way, by an ack in particular.
MissingWalletExplained ==
    redeliveries = 0 =>
        \A u \in settled \ owed : WalletsOf(u) = {} =>
            LET sent == {m \in Messages : UserOf[m] = u /\ place[m] # "unsent"}
            IN  /\ sent # {}
                /\ \A m \in sent : AtBroker(m) \/ FailureOnRecord(m) \/ LostInRetryQueue(m)

\* The row of a handled message goes back from 'completed' to another status,
\* and its handler runs again, only after a delivery was taken back: RunProcess
\* itself does not stop it, since it looks for the status "sent".
CompletedIsFinal ==
    [][\A m \in Messages :
          status[m] = "completed" /\ status'[m] # "completed" => redeliveries > 0]_vars

-----------------------------------------------------------------------------
(* What the configuration says.                                            *)

\* "max_retry: 3": a message is acked only when its handler did its work;
\* otherwise it is retried.
AckedMeansProvisioned ==
    \A m \in Messages : place[m] = "acked" => WalletsOf(UserOf[m]) # {}
=============================================================================
