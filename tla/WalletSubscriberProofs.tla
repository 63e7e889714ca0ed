----------------------- MODULE WalletSubscriberProofs -----------------------
(***************************************************************************)
(* What the status table says of a message, and the ways a registration    *)
(* may end without a wallet, for any number of users, messages and workers. *)
(***************************************************************************)
EXTENDS WalletSubscriber, TLAPS

USE HandleAssumption, WalletAssumption

-----------------------------------------------------------------------------
(* What Handle does to the broker, the workers and the status table keeps    *)
(* their types.                                                             *)
LEMMA HandleTypes ==
  ASSUME HandleTypeOK, SoleWorker, HandleNext
  PROVE  HandleTypeOK'
<1> USE DEF HandleTypeOK, Places, Steps, Statuses, Goto, SetStatus, queue, table
<1>0. ASSUME NEW w \in Workers, step[w] # "idle" PROVE msg[w] \in Messages
  BY <1>0 DEF SoleWorker
<1>1. ASSUME NEW m \in Messages, TakeBack(m) \/ RetryEnds(m) PROVE HandleTypeOK'
  BY <1>1 DEF TakeBack, RetryEnds
<1>2. ASSUME NEW w \in Workers, NEW m \in Messages, Deliver(w, m) PROVE HandleTypeOK'
  BY <1>2 DEF Deliver
<1>3. ASSUME NEW w \in Workers, RunProcessSelect(w) \/ RunProcessWrite(w) \/ RunProcessError(w)
      PROVE  HandleTypeOK'
  BY <1>0, <1>3 DEF RunProcessSelect, RunProcessWrite, RunProcessError, WriteProcessing
<1>4. ASSUME NEW w \in Workers, MarkSent(w) \/ MarkFailed(w) PROVE HandleTypeOK'
  BY <1>0, <1>4 DEF MarkSent, MarkFailed
<1>5. ASSUME NEW w \in Workers, Answer(w) PROVE HandleTypeOK'
  BY <1>0, <1>5 DEF Answer
<1> QED BY <1>1, <1>2, <1>3, <1>4, <1>5, HandleNext DEF HandleNext

(* A message has one worker at a time until a delivery is taken back.       *)
LEMMA HandleSoleWorker ==
  ASSUME HandleTypeOK, SoleWorker, HandleNext
  PROVE  SoleWorker'
<1> USE DEF HandleTypeOK, SoleWorker, Places, Steps, Statuses, Goto, queue, table
<1>1. ASSUME NEW m \in Messages, TakeBack(m) PROVE SoleWorker'
  BY <1>1 DEF TakeBack
<1>2. ASSUME NEW m \in Messages, RetryEnds(m) PROVE SoleWorker'
  BY <1>2 DEF RetryEnds
<1>3. ASSUME NEW w \in Workers, NEW m \in Messages, Deliver(w, m) PROVE SoleWorker'
  BY <1>3 DEF Deliver
<1>4. ASSUME NEW w \in Workers, RunProcessSelect(w) \/ RunProcessWrite(w) \/ RunProcessError(w)
      PROVE  SoleWorker'
  BY <1>4 DEF RunProcessSelect, RunProcessWrite, RunProcessError
<1>5. ASSUME NEW w \in Workers, MarkSent(w) \/ MarkFailed(w) PROVE SoleWorker'
  BY <1>5 DEF MarkSent, MarkFailed
<1>6. ASSUME NEW w \in Workers, Answer(w) PROVE SoleWorker'
  BY <1>6 DEF Answer
<1> QED BY <1>1, <1>2, <1>3, <1>4, <1>5, <1>6, HandleNext DEF HandleNext

(* The statuses Handle writes: 'completed' only over a wallet, and an answer *)
(* "ack" only with a wallet or a recorded failure behind it.               *)
LEMMA HandleStatuses ==
  ASSUME TypeOK, SoleWorker, CompletedHasWallet, AckedIsConcluded,
         HandleNext, UNCHANGED <<relayVars, wallets>>
  PROVE  CompletedHasWallet' /\ AckedIsConcluded'
<1> USE DEF TypeOK, HandleTypeOK, SoleWorker, Places, Steps, Statuses, Goto, SetStatus,
            queue, table, CompletedHasWallet, AckedIsConcluded, Concluded, WalletsOf
<1>1. ASSUME NEW m \in Messages, TakeBack(m) \/ RetryEnds(m)
      PROVE  CompletedHasWallet' /\ AckedIsConcluded'
  BY <1>1 DEF TakeBack, RetryEnds
<1>2. ASSUME NEW w \in Workers, NEW m \in Messages, Deliver(w, m)
      PROVE  CompletedHasWallet' /\ AckedIsConcluded'
  BY <1>2 DEF Deliver
<1>3. ASSUME NEW w \in Workers, RunProcessSelect(w)
      PROVE  CompletedHasWallet' /\ AckedIsConcluded'
  BY <1>3 DEF RunProcessSelect
<1>4. ASSUME NEW w \in Workers, RunProcessWrite(w) \/ RunProcessError(w)
      PROVE  CompletedHasWallet' /\ AckedIsConcluded'
  BY <1>4 DEF RunProcessWrite, RunProcessError, WriteProcessing
<1>5. ASSUME NEW w \in Workers, MarkSent(w)
      PROVE  CompletedHasWallet' /\ AckedIsConcluded'
  BY <1>5 DEF MarkSent
<1>6. ASSUME NEW w \in Workers, MarkFailed(w)
      PROVE  CompletedHasWallet' /\ AckedIsConcluded'
  BY <1>6 DEF MarkFailed
<1>7. ASSUME NEW w \in Workers, Answer(w)
      PROVE  CompletedHasWallet' /\ AckedIsConcluded'
  BY <1>7 DEF Answer
<1> QED BY <1>1, <1>2, <1>3, <1>4, <1>5, <1>6, <1>7, HandleNext DEF HandleNext

(* MarkSent is the only step that writes 'completed', and the ack follows:   *)
(* before it, the message of a worker at work is the worker's own.          *)
LEMMA HandleCompletes ==
  ASSUME TypeOK, SoleWorker, CompletedAtTheAck, HandleNext
  PROVE  CompletedAtTheAck'
<1> USE DEF TypeOK, HandleTypeOK, SoleWorker, Places, Steps, Statuses, Goto, SetStatus,
            queue, table, CompletedAtTheAck, NotCompleted
<1>1. ASSUME NEW m \in Messages, TakeBack(m) \/ RetryEnds(m) PROVE CompletedAtTheAck'
  BY <1>1 DEF TakeBack, RetryEnds
<1>2. ASSUME NEW w \in Workers, NEW m \in Messages, Deliver(w, m) PROVE CompletedAtTheAck'
  BY <1>2 DEF Deliver
<1>3. ASSUME NEW w \in Workers, RunProcessSelect(w) PROVE CompletedAtTheAck'
  BY <1>3 DEF RunProcessSelect
<1>4. ASSUME NEW w \in Workers, RunProcessWrite(w) \/ RunProcessError(w) PROVE CompletedAtTheAck'
  BY <1>4 DEF RunProcessWrite, RunProcessError, WriteProcessing
<1>5. ASSUME NEW w \in Workers, MarkSent(w) PROVE CompletedAtTheAck'
  BY <1>5 DEF MarkSent
<1>6. ASSUME NEW w \in Workers, MarkFailed(w) PROVE CompletedAtTheAck'
  BY <1>6 DEF MarkFailed
<1>7. ASSUME NEW w \in Workers, Answer(w) PROVE CompletedAtTheAck'
  BY <1>7 DEF Answer
<1> QED BY <1>1, <1>2, <1>3, <1>4, <1>5, <1>6, <1>7, HandleNext DEF HandleNext

(* Nothing Handle does makes a message unsent, and only an arrival makes one *)
(* sent: who registered does not depend on it.                              *)
LEMMA HandleKeepsSent ==
  ASSUME TypeOK, SoleWorker, HandleNext
  PROVE  \A m \in Messages : place'[m] = "unsent" <=> place[m] = "unsent"
<1> USE DEF TypeOK, HandleTypeOK, SoleWorker, Places, Goto, queue
<1>1. ASSUME NEW m \in Messages, TakeBack(m) \/ RetryEnds(m)
      PROVE  \A n \in Messages : place'[n] = "unsent" <=> place[n] = "unsent"
  BY <1>1 DEF TakeBack, RetryEnds
<1>2. ASSUME NEW w \in Workers, NEW m \in Messages, Deliver(w, m)
      PROVE  \A n \in Messages : place'[n] = "unsent" <=> place[n] = "unsent"
  BY <1>2 DEF Deliver
<1>3. ASSUME NEW w \in Workers, Answer(w)
      PROVE  \A n \in Messages : place'[n] = "unsent" <=> place[n] = "unsent"
  BY <1>3 DEF Answer
<1> QED BY <1>1, <1>2, <1>3, HandleNext
        DEF HandleNext, RunProcessSelect, RunProcessWrite, RunProcessError, MarkSent, MarkFailed

(* INSERT INTO wallets under the unique key: rows stay, and the row of the   *)
(* message's user is there afterwards.                                      *)
LEMMA CreateWalletFacts ==
  ASSUME TypeOK, NEW m \in Messages, CreateWallet(m)
  PROVE  /\ wallets' \subseteq Wallet /\ wallets \subseteq wallets'
         /\ \A r \in wallets' : r \in wallets \/ r.user = UserOf[m]
         /\ \E r \in wallets' : r.user = UserOf[m]
<1> DEFINE new == [user |-> UserOf[m], by |-> m]
<1>1. new \in Wallet /\ new.user = UserOf[m]
  BY DEF Wallet
<1>2. CASE WalletsOf(UserOf[m]) = {}
  <2>1. wallets' = wallets \cup {new} /\ \A r \in wallets : r.user # UserOf[m]
    BY <1>2 DEF CreateWallet, WalletsOf
  <2>2. wallets' \subseteq Wallet
    BY <1>1, <2>1 DEF TypeOK
  <2>3. \A r \in wallets' : r \in wallets \/ r.user = UserOf[m]
    BY <1>1, <2>1
  <2>4. \E r \in wallets' : r.user = UserOf[m]
    BY <1>1, <2>1
  <2> QED BY <2>1, <2>2, <2>3, <2>4
<1>3. CASE WalletsOf(UserOf[m]) # {}
  BY <1>3 DEF CreateWallet, TypeOK, WalletsOf
<1> QED BY <1>2, <1>3

(* The handler's own steps: whether the insert took effect or not, and what  *)
(* handleRegisterNewUser returns.                                          *)
LEMMA HandlerSteps ==
  ASSUME WalletIInv, NEW w \in Workers, InitWallet(w) \/ InitWalletError(w)
  PROVE  WalletIInv'
<1> USE DEF WalletIInv
<1>0. msg[w] \in Messages /\ place[msg[w]] # "unsent" /\ step[w] = "handle"
  BY DEF SoleWorker, InitWallet, InitWalletError
<1>1. /\ UNCHANGED <<place, lease, msg, status, redeliveries, owed, settled, relayed>>
      /\ step' = [step EXCEPT ![w] = "sent"] \/ step' = [step EXCEPT ![w] = "failed"]
      /\ CreateWallet(msg[w]) \/ (UNCHANGED wallets /\ step' = [step EXCEPT ![w] = "failed"])
  BY DEF InitWallet, InitWalletError, Goto, queue, table, relayVars
<1>2. /\ wallets' \subseteq Wallet /\ wallets \subseteq wallets'
      /\ \A r \in wallets' : r \in wallets \/ r.user = UserOf[msg[w]]
  <2>1. CASE CreateWallet(msg[w])
    BY <1>0, <2>1, CreateWalletFacts
  <2>2. CASE UNCHANGED wallets
    BY <2>2 DEF TypeOK
  <2> QED BY <1>1, <2>1, <2>2
<1>3. step' = [step EXCEPT ![w] = "sent"] => \E r \in wallets' : r.user = UserOf[msg[w]]
  <2>1. CASE CreateWallet(msg[w])
    BY <1>0, <2>1, CreateWalletFacts
  <2>2. CASE step' = [step EXCEPT ![w] = "failed"]
    BY <2>2 DEF TypeOK, HandleTypeOK
  <2> QED BY <1>1, <2>1, <2>2
<1>4. \A u \in Users : WalletsOf(u) # {} => \E r \in wallets' : r.user = u
  BY <1>2 DEF WalletsOf
<1>5. TypeOK'
  BY <1>1, <1>2 DEF TypeOK, HandleTypeOK, Steps
<1>6. SoleWorker'
  BY <1>0, <1>1 DEF TypeOK, HandleTypeOK, SoleWorker
<1>7. CompletedHasWallet'
  <2>1. \A m \in Messages : UserOf[m] \in Users
    OBVIOUS
  <2>2. \A m \in Messages : status'[m] = "completed" => \E r \in wallets' : r.user = UserOf[m]
    BY <1>1, <1>4, <2>1 DEF CompletedHasWallet
  <2>3. ASSUME NEW x \in Workers, step'[x] = "sent"
        PROVE  \E r \in wallets' : r.user = UserOf[msg'[x]]
    <3>1. CASE x = w
      BY <1>1, <1>3, <2>3, <3>1 DEF TypeOK, HandleTypeOK
    <3>2. CASE x # w
      <4>1. step[x] = "sent" /\ msg[x] \in Messages
        BY <1>1, <2>3, <3>2 DEF TypeOK, HandleTypeOK, SoleWorker
      <4> QED BY <1>1, <1>4, <2>1, <4>1 DEF CompletedHasWallet
    <3> QED BY <3>1, <3>2
  <2> QED BY <2>2, <2>3 DEF CompletedHasWallet, WalletsOf
<1>8. OnlyRegistered'
  BY <1>0, <1>1, <1>2 DEF OnlyRegistered
<1>9. AckedIsConcluded'
  <2> SUFFICES ASSUME redeliveries' = 0 PROVE AckedIsConcluded'
    BY DEF AckedIsConcluded
  <2>1. \A m \in Messages : UserOf[m] \in Users /\ (Concluded(m) => Concluded(m)')
    BY <1>1, <1>4 DEF Concluded, WalletsOf
  <2>2. \A m \in Messages : place'[m] = "acked" => Concluded(m)'
    BY <1>1, <2>1 DEF AckedIsConcluded
  <2>3. ASSUME NEW x \in Workers, step'[x] = "ack" PROVE Concluded(msg[x])'
    <3>1. step[x] = "ack" /\ msg[x] \in Messages
      BY <1>1, <2>3 DEF TypeOK, HandleTypeOK, SoleWorker
    <3> QED BY <1>1, <2>1, <3>1 DEF AckedIsConcluded
  <2> QED BY <1>1, <2>2, <2>3 DEF AckedIsConcluded
<1>10. CompletedAtTheAck'
  BY <1>0, <1>1 DEF TypeOK, HandleTypeOK, CompletedAtTheAck, NotCompleted
<1> QED BY <1>5, <1>6, <1>7, <1>8, <1>9, <1>10

-----------------------------------------------------------------------------
(* The inductive invariant: status table, wallets, broker and relay agree    *)
(* in every reachable state.                                                *)
THEOREM WalletInductive == Spec => []WalletIInv
<1>1. Init => WalletIInv
  <2> SUFFICES ASSUME Init PROVE WalletIInv
    OBVIOUS
  <2> USE DEF Init, HandleInit, RelayInit
  <2>1. TypeOK
    BY DEF TypeOK, HandleTypeOK, Places, Steps, Statuses
  <2>2. SoleWorker /\ CompletedHasWallet /\ OnlyRegistered /\ AckedIsConcluded /\ CompletedAtTheAck
    BY DEF SoleWorker, CompletedHasWallet, OnlyRegistered, AckedIsConcluded, CompletedAtTheAck,
           NotCompleted
  <2> QED BY <2>1, <2>2 DEF WalletIInv
<1>2. WalletIInv /\ [Next]_vars => WalletIInv'
  <2> SUFFICES ASSUME WalletIInv, [Next]_vars PROVE WalletIInv'
    OBVIOUS
  <2> USE DEF WalletIInv
  <2>1. ASSUME HandleNext, UNCHANGED <<relayVars, wallets>> PROVE WalletIInv'
    <3>1. TypeOK'
      BY <2>1, HandleTypes DEF TypeOK, relayVars
    <3>2. SoleWorker'
      BY <2>1, HandleSoleWorker DEF TypeOK
    <3>3. CompletedHasWallet' /\ AckedIsConcluded'
      BY <2>1, HandleStatuses
    <3>4. OnlyRegistered'
      BY <2>1, HandleKeepsSent DEF OnlyRegistered, relayVars
    <3>5. CompletedAtTheAck'
      BY <2>1, HandleCompletes
    <3> QED BY <3>1, <3>2, <3>3, <3>4, <3>5
  <2>2. ASSUME NEW u \in Users, Register(u) \/ MarkRegistration(u) PROVE WalletIInv'
    <3> USE DEF Register, MarkRegistration, Accept, Settle, Reopen, handleVars
    <3>1. TypeOK'
      BY <2>2 DEF TypeOK, HandleTypeOK
    <3>2. SoleWorker' /\ CompletedAtTheAck'
      BY <2>2 DEF SoleWorker, CompletedAtTheAck, NotCompleted
    <3>3. CompletedHasWallet' /\ AckedIsConcluded'
      BY <2>2 DEF CompletedHasWallet, AckedIsConcluded, Concluded, WalletsOf
    <3>4. OnlyRegistered'
      BY <2>2 DEF OnlyRegistered
    <3> QED BY <3>1, <3>2, <3>3, <3>4
  <2>3. ASSUME NEW m \in Messages, PublishRegistration(m) PROVE WalletIInv'
    <3> USE <2>3 DEF PublishRegistration, Relay, Arrive, table
    <3>1. TypeOK'
      BY DEF TypeOK, HandleTypeOK, Places
    <3>2. SoleWorker' /\ CompletedAtTheAck'
      BY DEF SoleWorker, CompletedAtTheAck, NotCompleted, TypeOK, HandleTypeOK
    <3>3. CompletedHasWallet' /\ AckedIsConcluded'
      BY DEF CompletedHasWallet, AckedIsConcluded, Concluded, WalletsOf, TypeOK, HandleTypeOK
    <3>4. OnlyRegistered'
      BY DEF OnlyRegistered, TypeOK, HandleTypeOK
    <3> QED BY <3>1, <3>2, <3>3, <3>4
  <2>4. ASSUME NEW w \in Workers, InitWallet(w) \/ InitWalletError(w) PROVE WalletIInv'
    BY <2>4, HandlerSteps
  <2>5. CASE UNCHANGED vars
    <3> USE <2>5 DEF vars, handleVars, relayVars
    <3>1. TypeOK' /\ SoleWorker' /\ OnlyRegistered'
      BY DEF TypeOK, HandleTypeOK, SoleWorker, OnlyRegistered
    <3>2. CompletedHasWallet' /\ AckedIsConcluded' /\ CompletedAtTheAck'
      BY DEF CompletedHasWallet, AckedIsConcluded, Concluded, WalletsOf, CompletedAtTheAck,
             NotCompleted
    <3> QED BY <3>1, <3>2
  <2> QED BY <2>1, <2>2, <2>3, <2>4, <2>5 DEF Next
<1> QED BY <1>1, <1>2, PTL DEF Spec

(* Without a delivery that was taken back, a user who registered and has no  *)
(* wallet has a message, and each of them is at the broker, acked with its    *)
(* failure on record, or lost in the retry queue after a rejection.          *)
THEOREM RegistrationEnds == Spec => []MissingWalletExplained
<1>1. WalletIInv => MissingWalletExplained
  <2> SUFFICES ASSUME WalletIInv, redeliveries = 0, NEW u \in settled \ owed, WalletsOf(u) = {}
               PROVE  /\ \E m \in Messages : UserOf[m] = u /\ place[m] # "unsent"
                      /\ \A m \in Messages : UserOf[m] = u /\ place[m] # "unsent" =>
                            AtBroker(m) \/ FailureOnRecord(m) \/ LostInRetryQueue(m)
    BY DEF MissingWalletExplained
  <2>1. \E m \in Messages : UserOf[m] = u /\ place[m] # "unsent"
    BY DEF WalletIInv, OnlyRegistered
  <2>2. ASSUME NEW m \in Messages, UserOf[m] = u, place[m] # "unsent"
        PROVE  AtBroker(m) \/ FailureOnRecord(m) \/ LostInRetryQueue(m)
    <3>1. place[m] \in Places
      BY DEF WalletIInv, TypeOK, HandleTypeOK
    <3>2. place[m] = "acked" => FailureOnRecord(m)
      BY <2>2 DEF WalletIInv, AckedIsConcluded, Concluded, FailureOnRecord
    <3>3. place[m] = "dropped" => LostInRetryQueue(m)
      BY DEF WalletIInv, CompletedAtTheAck, LostInRetryQueue
    <3> QED BY <2>2, <3>1, <3>2, <3>3 DEF AtBroker, Places
  <2> QED BY <2>1, <2>2
<1> QED BY <1>1, WalletInductive, PTL

(* A status 'completed' is overwritten only after a delivery was taken back:  *)
(* until then the one worker that has the message is at the ack.             *)
THEOREM CompletedStays == Spec => CompletedIsFinal
<1> DEFINE A == \A m \in Messages :
                  status[m] = "completed" /\ status'[m] # "completed" => redeliveries > 0
<1>1. WalletIInv /\ [Next]_vars => [A]_vars
  <2> SUFFICES ASSUME WalletIInv, Next, NEW m \in Messages,
                      status[m] = "completed", status'[m] # "completed", redeliveries = 0
               PROVE  FALSE
    BY DEF WalletIInv, TypeOK, HandleTypeOK
  <2> USE DEF WalletIInv, TypeOK, HandleTypeOK
  <2>1. ASSUME NEW w \in Workers, step[w] \notin {"idle", "ack"},
               NEW s, SetStatus(msg[w], s)
        PROVE  FALSE
    BY <2>1 DEF SetStatus, SoleWorker, CompletedAtTheAck, NotCompleted
  <2>2. ASSUME NEW w \in Workers, RunProcessWrite(w) \/ RunProcessError(w) PROVE FALSE
    BY <2>1, <2>2 DEF RunProcessWrite, RunProcessError, WriteProcessing, table
  <2>3. ASSUME NEW w \in Workers, MarkSent(w) \/ MarkFailed(w) PROVE FALSE
    BY <2>1, <2>3 DEF MarkSent, MarkFailed, table
  <2>4. CASE UNCHANGED status
    BY <2>4
  <2> QED BY <2>2, <2>3, <2>4
          DEF Next, HandleNext, TakeBack, RetryEnds, Deliver, RunProcessSelect, Answer, Register,
              MarkRegistration, PublishRegistration, Arrive, InitWallet, InitWalletError,
              handleVars, table
<1> QED BY <1>1, WalletInductive, PTL DEF Spec, CompletedIsFinal
=============================================================================
