--------------------------- MODULE WalletTransfer ---------------------------
(***************************************************************************)
(* POST /transfer of the wallet service: Service.Transfer run inside       *)
(* Repository.RunInTx by concurrent requests, over InnoDB row locks.       *)
(*                                                                         *)
(* RunInTx's deferred function captures err when it is still nil, so an    *)
(* error of the closure does not roll the transaction back: it stays open, *)
(* with its row locks, until database/sql sees the request's context end.  *)
(* Every request is one transaction and one operation id.  Nothing looks   *)
(* at the sign of its amount.                                              *)
(***************************************************************************)
EXTENDS Integers, FiniteSets, Functions

CONSTANTS Tx,             \* requests
          WalletIds,      \* ids a request may name
          Wallets,        \* the rows of table wallets
          Amounts,        \* amounts a request may carry, of either sign
          InitialBalance, \* balance of each wallet at the start
          MinBalance,     \* smallest and
          MaxBalance,     \* largest value of a BIGINT column
          NoTx

ASSUME TransferAssumption ==
    /\ IsFiniteSet(Wallets) /\ Wallets \subseteq WalletIds
    /\ Amounts \subseteq Int
    /\ MinBalance \in Int /\ MinBalance <= 0 /\ MaxBalance \in Nat
    /\ InitialBalance \in [Wallets -> 0..MaxBalance]
    /\ NoTx \notin Tx

VARIABLES pc,        \* the next statement of each request
          req,       \* its TransferRequest
          response,  \* what the client was told
          balance,   \* committed balances
          owner,     \* holder of each wallet row's exclusive lock
          delta,     \* a transaction's uncommitted change of each balance
          journal,   \* its uncommitted wallet_transactions rows
          ledger     \* committed wallet_transactions rows

vars == <<pc, req, response, balance, owner, delta, journal, ledger>>

Requests == [src : WalletIds, dst : WalletIds, amount : Amounts]
Entries  == [op : Tx, wallet : Wallets, type : {"transfer_out", "transfer_in"}, amount : Amounts]

Statements == {"read", "debit", "out", "credit", "in", "commit"}
\* "failed": the closure returned an error and the transaction is still open.
Steps == Statements \cup {"idle", "failed", "ended"}

NoChange == [w \in Wallets |-> 0]

TypeOK ==
    /\ pc \in [Tx -> Steps]
    /\ req \in [Tx -> Requests]
    /\ response \in [Tx -> {"none", "ok", "error"}]
    /\ balance \in [Wallets -> Int]
    /\ owner \in [Wallets -> Tx \cup {NoTx}]
    /\ delta \in [Tx -> [Wallets -> Int]]
    /\ journal \in [Tx -> SUBSET Entries]
    /\ ledger \in SUBSET Entries

Init ==
    /\ pc = [t \in Tx |-> "idle"]
    /\ req \in [Tx -> Requests]
    /\ response = [t \in Tx |-> "none"]
    /\ balance = InitialBalance
    /\ owner = [w \in Wallets |-> NoTx]
    /\ delta = [t \in Tx |-> NoChange]
    /\ journal = [t \in Tx |-> {}]
    /\ ledger = {}

-----------------------------------------------------------------------------
Src(t) == req[t].src
Dst(t) == req[t].dst
Amount(t) == req[t].amount

\* The balance a transaction sees in a row it has locked.
Seen(t, w) == balance[w] + delta[t][w]

CanLock(t, w) == owner[w] \in {t, NoTx}
Lock(t, w)    == owner' = [owner EXCEPT ![w] = t]
Release(t)    == owner' = [w \in Wallets |-> IF owner[w] = t THEN NoTx ELSE owner[w]]

Goto(t, step) == pc' = [pc EXCEPT ![t] = step]
Answer(t, r)  == response' = [response EXCEPT ![t] = r]

\* The closure returns an error: 500 to the client, transaction left open.
ReturnError(t) ==
    /\ Goto(t, "failed")
    /\ Answer(t, "error")
    /\ UNCHANGED <<req, balance, delta, journal, ledger>>

\* The server undoes the transaction and frees its locks.
Rollback(t) ==
    /\ Release(t)
    /\ delta' = [delta EXCEPT ![t] = NoChange]
    /\ journal' = [journal EXCEPT ![t] = {}]
    /\ UNCHANGED <<req, balance, ledger>>

-----------------------------------------------------------------------------
BeginTx(t) ==
    /\ pc[t] = "idle"
    /\ Goto(t, "read")
    /\ UNCHANGED <<req, response, balance, owner, delta, journal, ledger>>

\* Mutant: SELECT without FOR UPDATE.
GetBalance(t) ==
    /\ pc[t] = "read"
    /\ Src(t) \in Wallets /\ Seen(t, Src(t)) >= Amount(t)
    /\ Goto(t, "debit")
    /\ UNCHANGED <<req, response, balance, owner, delta, journal, ledger>>

\* Mutant: too small a balance is read again instead of refused.
WaitForFunds(t) ==
    /\ pc[t] = "read"
    /\ Src(t) \in Wallets /\ CanLock(t, Src(t))
    /\ Lock(t, Src(t))
    /\ IF Seen(t, Src(t)) >= Amount(t) THEN Goto(t, "debit") ELSE UNCHANGED pc
    /\ UNCHANGED <<req, response, balance, delta, journal, ledger>>

(* SELECT balance ... FOR UPDATE, then the check of the balance.           *)
GetBalanceForUpdate(t) ==
    /\ pc[t] = "read"
    /\ \/ Src(t) \notin Wallets /\ ReturnError(t) /\ UNCHANGED owner
       \/ /\ Src(t) \in Wallets /\ CanLock(t, Src(t))
          /\ Lock(t, Src(t))
          /\ \/ Seen(t, Src(t)) < Amount(t) /\ ReturnError(t)
             \/ /\ Seen(t, Src(t)) >= Amount(t)
                /\ Goto(t, "debit")
                /\ UNCHANGED <<req, response, balance, delta, journal, ledger>>

\* Mutant: the source is not debited.
SkipDebit(t) ==
    /\ pc[t] = "debit"
    /\ Goto(t, "out")
    /\ UNCHANGED <<req, response, balance, owner, delta, journal, ledger>>

\* What a BIGINT column can hold.
InColumn(n) == MinBalance <= n /\ n <= MaxBalance

(* UPDATE ... SET balance = balance - ?, of the row that is locked by now:  *)
(* an out-of-range error beyond BIGINT (a negative amount adds).           *)
DecreaseBalance(t) ==
    /\ pc[t] = "debit"
    /\ \/ ~InColumn(Seen(t, Src(t)) - Amount(t)) /\ ReturnError(t) /\ UNCHANGED owner
       \/ /\ InColumn(Seen(t, Src(t)) - Amount(t))
          /\ Goto(t, "out")
          /\ delta' = [delta EXCEPT ![t][Src(t)] = @ - Amount(t)]
          /\ UNCHANGED <<req, response, balance, owner, journal, ledger>>

\* Mutant: no foreign key.
CreateUnchecked(t, step, next, w, type) ==
    /\ pc[t] = step
    /\ Goto(t, next)
    /\ journal' = [journal EXCEPT ![t] = @ \cup
          {[op |-> t, wallet |-> w, type |-> type, amount |-> Amount(t)]}]
    /\ UNCHANGED <<req, response, balance, owner, delta, ledger>>

(* INSERT INTO wallet_transactions; the foreign key refuses a wallet that   *)
(* does not exist.                                                         *)
CreateTransaction(t, step, next, w, type) ==
    /\ pc[t] = step
    /\ \/ /\ w \in Wallets
          /\ Goto(t, next)
          /\ journal' = [journal EXCEPT ![t] = @ \cup
                {[op |-> t, wallet |-> w, type |-> type, amount |-> Amount(t)]}]
          /\ UNCHANGED <<req, response, balance, owner, delta, ledger>>
       \/ w \notin Wallets /\ ReturnError(t) /\ UNCHANGED owner

CreateTransferOut(t) == CreateTransaction(t, "out", "credit", Src(t), "transfer_out")
\* Mutant: the incoming row is booked on the source.
InOnSource(t) == CreateTransaction(t, "in", "commit", Src(t), "transfer_in")

CreateTransferIn(t)  == CreateTransaction(t, "in", "commit", Dst(t), "transfer_in")

(* UPDATE ... SET balance = balance + ?: no row and no error for a missing  *)
(* wallet, an out-of-range error beyond BIGINT.                            *)
IncreaseBalance(t) ==
    /\ pc[t] = "credit"
    /\ \/ /\ Dst(t) \notin Wallets
          /\ Goto(t, "in")
          /\ UNCHANGED <<req, response, balance, owner, delta, journal, ledger>>
       \/ /\ Dst(t) \in Wallets /\ CanLock(t, Dst(t))
          /\ Lock(t, Dst(t))
          /\ \/ ~InColumn(Seen(t, Dst(t)) + Amount(t)) /\ ReturnError(t)
             \/ /\ InColumn(Seen(t, Dst(t)) + Amount(t))
                /\ Goto(t, "in")
                /\ delta' = [delta EXCEPT ![t][Dst(t)] = @ + Amount(t)]
                /\ UNCHANGED <<req, response, balance, journal, ledger>>

\* The effect of a commit on the tables.
Apply(t) ==
    /\ balance' = [w \in Wallets |-> Seen(t, w)]
    /\ ledger' = ledger \cup journal[t]
    /\ delta' = [delta EXCEPT ![t] = NoChange]
    /\ journal' = [journal EXCEPT ![t] = {}]
    /\ Release(t)
    /\ UNCHANGED req

Commit(t) ==
    /\ pc[t] = "commit"
    /\ Goto(t, "ended")
    /\ Answer(t, "ok")
    /\ Apply(t)

(* The connection breaks at the commit: the client gets 500, whether or not *)
(* the server committed.                                                   *)
CommitError(t) ==
    /\ pc[t] = "commit"
    /\ Goto(t, "ended")
    /\ Answer(t, "error")
    /\ Apply(t) \/ Rollback(t)

-----------------------------------------------------------------------------
(* Any statement may fail: a lost connection, a lock wait timeout.          *)
StatementError(t) ==
    /\ pc[t] \in Statements \ {"commit"}
    /\ ReturnError(t)
    /\ UNCHANGED owner

\* The row a statement is blocked on.
WaitsFor(t) == IF pc[t] = "read" THEN Src(t) ELSE Dst(t)
Waiting(t) == /\ pc[t] \in {"read", "credit"}
              /\ WaitsFor(t) \in Wallets
              /\ ~CanLock(t, WaitsFor(t))

(* InnoDB finds a cycle of waiting transactions and rolls one of them back; *)
(* its statement returns error 1213.                                       *)
InCycle(t) ==
    \E S \in SUBSET Tx :
        /\ t \in S
        /\ \A u \in S : Waiting(u)
        /\ {owner[WaitsFor(u)] : u \in S} = S

DeadlockVictim(t) ==
    /\ InCycle(t)
    /\ Goto(t, "failed")
    /\ Answer(t, "error")
    /\ Rollback(t)

(* The request's context ends: the handler has returned, or the client went *)
(* away while a statement was under way.  Only now is the transaction       *)
(* rolled back.                                                            *)
ContextDone(t) ==
    /\ pc[t] \in Statements \cup {"failed"}
    /\ Goto(t, "ended")
    /\ Answer(t, "error")
    /\ Rollback(t)

-----------------------------------------------------------------------------
Transfer(t) ==
    \/ GetBalanceForUpdate(t) \/ DecreaseBalance(t) \/ CreateTransferOut(t)
    \/ IncreaseBalance(t) \/ CreateTransferIn(t) \/ Commit(t)

Faults(t) == CommitError(t) \/ StatementError(t) \/ DeadlockVictim(t) \/ ContextDone(t)

Next == \E t \in Tx : BeginTx(t) \/ Transfer(t) \/ Faults(t)

Spec == Init /\ [][Next]_vars

(* A request that can run its next statement does; a row lock that is freed *)
(* again and again is granted in the end (InnoDB queues waiters); the       *)
(* deadlock detector is on; the context of a request whose handler has      *)
(* returned ends.  No fault is required to happen.                         *)
Fairness ==
    \A t \in Tx :
        /\ SF_vars(Transfer(t))
        /\ WF_vars(DeadlockVictim(t))
        /\ WF_vars(pc[t] = "failed" /\ ContextDone(t))

FairSpec == Spec /\ Fairness

-----------------------------------------------------------------------------
(* Properties.                                                             *)


\* A transfer of a negative amount into w is on the books.
NegativeCredit(w) ==
    \E e \in ledger : e.wallet = w /\ e.type = "transfer_in" /\ e.amount < 0

\* No debit overdraws a wallet: the balance the closure checked is still the
\* balance when it is debited, whatever other transfers commit or abandon in
\* between.  Only the credit, which nothing checks, can: a wallet below zero has
\* received a negative amount.
DebitNeverOverdraws ==
    \A w \in Wallets : InColumn(balance[w]) /\ (balance[w] < 0 => NegativeCredit(w))

\* Transfers move money and never create or lose any, also when a request names
\* a wallet that does not exist (only the foreign key stops that one) or fails
\* between its two updates.
MoneyConserved == SumFunction(balance) = SumFunction(InitialBalance)

EntriesOf(t) == {e \in ledger : e.op = t}
BothEntries(t) ==
    {[op |-> t, wallet |-> Src(t), type |-> "transfer_out", amount |-> Amount(t)],
     [op |-> t, wallet |-> Dst(t), type |-> "transfer_in", amount |-> Amount(t)]}

\* An operation has both of its wallet_transactions rows or none, and a client
\* that was told 200 finds both.
DoubleEntry ==
    \A t \in Tx : /\ EntriesOf(t) \in {{}, BothEntries(t)}
                  /\ response[t] = "ok" => EntriesOf(t) = BothEntries(t)

Booked(w, type) ==
    LET rows == {e \in ledger : e.wallet = w /\ e.type = type}
    IN  SumFunction([e \in rows |-> e.amount])

\* Replaying the ledger gives the balances.
LedgerExplainsBalances ==
    \A w \in Wallets :
        balance[w] = InitialBalance[w] + Booked(w, "transfer_in") - Booked(w, "transfer_out")

\* A request that has begun is answered: requests blocked on each other's rows
\* or on the row of a failed transaction nobody rolled back get on in the end.
EveryTransferAnswered == \A t \in Tx : pc[t] = "read" ~> response[t] # "none"

-----------------------------------------------------------------------------
(* The inductive invariant behind the four safety properties.              *)

\* A transaction holds the lock of every row it has read or changed, and holds
\* nothing once it is over.
LocksHeld ==
    \A t \in Tx :
        /\ pc[t] \in Statements \ {"read"} => Src(t) \in Wallets /\ owner[Src(t)] = t
        /\ pc[t] \in {"in", "commit"} /\ Dst(t) \in Wallets => owner[Dst(t)] = t
        /\ \A w \in Wallets : delta[t][w] # 0 => owner[w] = t
        /\ pc[t] \in {"idle", "ended"} => \A w \in Wallets : owner[w] # t

\* Committing the transaction now would leave the balance in range, and below
\* zero only where a negative amount was or is being credited.
ViewOK(t, w) ==
    /\ InColumn(Seen(t, w))
    /\ Seen(t, w) < 0 => NegativeCredit(w) \/ (w = Dst(t) /\ Amount(t) < 0)

\* So it is with every transaction that is open, and a balance that was checked
\* still covers the amount.
ViewsInRange ==
    \A t \in Tx :
        /\ \A w \in Wallets : ViewOK(t, w)
        /\ pc[t] = "debit" => Seen(t, Src(t)) >= Amount(t)
        /\ pc[t] \in {"idle", "read", "ended"} => journal[t] = {}

\* The uncommitted rows are those the statements so far have inserted, and a
\* transaction that is not over has none in the ledger.
JournalFollowsSteps ==
    \A t \in Tx :
        /\ pc[t] \in {"debit", "out"} => journal[t] = {}
        /\ pc[t] \in {"credit", "in"} =>
              journal[t] = {e \in BothEntries(t) : e.type = "transfer_out"}
        /\ pc[t] = "commit" => journal[t] = BothEntries(t)
        /\ \A e \in journal[t] : e.op = t
        /\ pc[t] # "ended" => EntriesOf(t) = {} /\ response[t] # "ok"

\* What the debit takes from a row, and what the credit gives to it.
Taken(t, w) == IF w = Src(t) THEN Amount(t) ELSE 0
Given(t, w) == IF w = Dst(t) THEN Amount(t) ELSE 0

\* The uncommitted change of each row is that of the statements so far, also
\* for a transfer from a wallet to itself and for a destination without a row;
\* a failed transaction's change is whatever it had reached.
DeltaFollowsSteps ==
    \A t \in Tx, w \in Wallets :
        /\ pc[t] \in {"idle", "read", "debit", "ended"} => delta[t][w] = 0
        /\ pc[t] \in {"out", "credit"} => delta[t][w] = -Taken(t, w)
        /\ pc[t] \in {"in", "commit"} => delta[t][w] = Given(t, w) - Taken(t, w)

\* Locks, views and rows together.
TransferInvariant ==
    DebitNeverOverdraws /\ LocksHeld /\ ViewsInRange /\ JournalFollowsSteps /\ DoubleEntry

\* With the types and the uncommitted changes it is inductive: statements,
\* failures, deadlock victims and abandoned transactions preserve it.
TransferIInv == TypeOK /\ TransferInvariant /\ DeltaFollowsSteps
=============================================================================
