------------------------ MODULE WalletTransferProofs ------------------------
(***************************************************************************)
(* No overdraft, double entry, conservation of money and a ledger that      *)
(* replays to the balances, for any number of concurrent transfers, any     *)
(* finite table of wallets and any amounts.                                 *)
(***************************************************************************)
EXTENDS WalletTransfer, FiniteSetTheorems, WellFoundedInduction, TLAPS

USE TransferAssumption

-----------------------------------------------------------------------------
(* Adding to one wallet of a transaction's uncommitted change alters that   *)
(* wallet only.                                                             *)
LEMMA DeltaUpdate ==
  ASSUME NEW d \in [Tx -> [Wallets -> Int]], NEW t \in Tx, NEW w \in Wallets, NEW n \in Int
  PROVE  [d EXCEPT ![t][w] = n] \in [Tx -> [Wallets -> Int]]
  OBVIOUS

(* Appending one ledger entry to a transaction's uncommitted entries alters *)
(* that transaction only.                                                   *)
LEMMA JournalUpdate ==
  ASSUME NEW j \in [Tx -> SUBSET Entries], NEW t \in Tx, NEW r \in Entries
  PROVE  [j EXCEPT ![t] = j[t] \cup {r}] \in [Tx -> SUBSET Entries]
  OBVIOUS

(* Types: the statements of the closure keep every column and every         *)
(* transaction's private state in its type.                                *)
THEOREM TransferTypeCorrect == Spec => []TypeOK
<1>1. Init => TypeOK
  BY DEF Init, TypeOK, Steps, Statements, NoChange
<1>2. TypeOK /\ [Next]_vars => TypeOK'
  <2> SUFFICES ASSUME TypeOK, [Next]_vars PROVE TypeOK'
    OBVIOUS
  <2> USE DEF TypeOK, Steps, Statements, Goto, Answer, ReturnError, Rollback, Release, Lock
  <2>1. ASSUME NEW t \in Tx, BeginTx(t) PROVE TypeOK'
    BY <2>1 DEF BeginTx
  <2>2. ASSUME NEW t \in Tx, Transfer(t) PROVE TypeOK'
    <3>0. req[t] \in Requests /\ Src(t) \in WalletIds /\ Dst(t) \in WalletIds /\ Amount(t) \in Amounts
      BY DEF Requests, Src, Dst, Amount
    <3>a. Amount(t) \in Int
      BY <3>0, Zenon
    <3>b. \A w \in Wallets : delta[t][w] \in Int
      OBVIOUS
    <3>1. CASE GetBalanceForUpdate(t)
      BY <3>1, ZenonT(30) DEF GetBalanceForUpdate
    <3>2. CASE DecreaseBalance(t)
      <4>1. CASE ReturnError(t) /\ UNCHANGED owner
        BY <4>1
      <4>2. CASE ~ReturnError(t)
        <5>1. /\ pc' = [pc EXCEPT ![t] = "out"]
              /\ UNCHANGED <<req, response, balance, owner, journal, ledger>>
              /\ delta' = [delta EXCEPT ![t][Src(t)] = delta[t][Src(t)] - Amount(t)]
          BY <3>2, <4>2 DEF DecreaseBalance
        <5>2. delta' \in [Tx -> [Wallets -> Int]]
          <6>1. CASE Src(t) \in Wallets
            <7>1. delta[t][Src(t)] - Amount(t) \in Int
              BY <3>a, <3>b, <6>1
            <7> QED BY <5>1, <6>1, <7>1, DeltaUpdate
          <6>2. CASE Src(t) \notin Wallets
            BY <5>1, <6>2
          <6> QED BY <6>1, <6>2
        <5> QED BY <5>1, <5>2
      <4> QED BY <3>2, <4>1, <4>2 DEF DecreaseBalance
    <3>3. CASE CreateTransferOut(t) \/ CreateTransferIn(t)
      <4>1. ASSUME NEW w \in Wallets, NEW type \in {"transfer_out", "transfer_in"}
            PROVE  [op |-> t, wallet |-> w, type |-> type, amount |-> Amount(t)] \in Entries
        BY <3>0 DEF Entries
      <4>2. journal' \in [Tx -> SUBSET Entries]
        <5>1. CASE journal' = journal
          BY <5>1
        <5>2. ASSUME NEW w \in Wallets, NEW type \in {"transfer_out", "transfer_in"},
                     journal' = [journal EXCEPT ![t] = journal[t] \cup
                       {[op |-> t, wallet |-> w, type |-> type, amount |-> Amount(t)]}]
              PROVE  journal' \in [Tx -> SUBSET Entries]
          BY <4>1, <5>2, JournalUpdate
        <5> QED BY <3>3, <5>1, <5>2 DEF CreateTransferOut, CreateTransferIn, CreateTransaction
      <4>3. /\ pc' \in [Tx -> Steps] /\ response' \in [Tx -> {"none", "ok", "error"}]
            /\ UNCHANGED <<req, balance, owner, delta, ledger>>
        BY <3>3 DEF CreateTransferOut, CreateTransferIn, CreateTransaction
      <4> QED BY <4>2, <4>3
    <3>4. CASE IncreaseBalance(t)
      <4>1. CASE Dst(t) \in Wallets
        <5>1. delta[t][Dst(t)] + Amount(t) \in Int
          BY <3>a, <3>b, <4>1
        <5>2. [delta EXCEPT ![t][Dst(t)] = delta[t][Dst(t)] + Amount(t)]
                 \in [Tx -> [Wallets -> Int]]
          BY <4>1, <5>1, DeltaUpdate
        <5> QED BY <3>4, <4>1, <5>2, ZenonT(30) DEF IncreaseBalance
      <4>2. CASE Dst(t) \notin Wallets
        BY <3>4, <4>2 DEF IncreaseBalance
      <4> QED BY <4>1, <4>2
    <3>6. CASE Commit(t)
      BY <3>6 DEF Commit, Apply, Seen, NoChange
    <3> QED BY <2>2, <3>1, <3>2, <3>3, <3>4, <3>6 DEF Transfer
  <2>3. ASSUME NEW t \in Tx, Faults(t) PROVE TypeOK'
    <3>1. CASE Apply(t) /\ CommitError(t)
      BY <3>1 DEF CommitError, Apply, Seen, NoChange
    <3>2. CASE StatementError(t)
      BY <3>2 DEF StatementError
    <3>3. CASE /\ Rollback(t)
               /\ pc' \in [Tx -> Steps] /\ response' \in [Tx -> {"none", "ok", "error"}]
      BY <3>3 DEF NoChange
    <3> QED BY <2>3, <3>1, <3>2, <3>3 DEF Faults, CommitError, DeadlockVictim, ContextDone
  <2>4. CASE UNCHANGED vars
    BY <2>4 DEF vars
  <2> QED BY <2>1, <2>2, <2>3, <2>4 DEF Next
<1> QED BY <1>1, <1>2, PTL DEF Spec

-----------------------------------------------------------------------------
(* The amount of a request is an integer of either sign.                     *)
LEMMA RequestFacts ==
  ASSUME TypeOK, NEW t \in Tx
  PROVE  Amount(t) \in Int
<1>1. Amount(t) \in Amounts
  BY DEF TypeOK, Requests, Amount
<1> QED BY <1>1, Zenon

(* What a transaction sees is an integer, and within the column.             *)
LEMMA SeenFacts ==
  ASSUME TransferIInv, NEW t \in Tx, NEW w \in Wallets
  PROVE  /\ balance[w] \in Int /\ delta[t][w] \in Int /\ Seen(t, w) \in Int
         /\ Seen(t, w) = balance[w] + delta[t][w] /\ ViewOK(t, w)
<1>1. balance[w] \in Int /\ delta[t][w] \in Int
  BY DEF TransferIInv, TypeOK
<1>2. ViewOK(t, w)
  BY DEF TransferIInv, TransferInvariant, ViewsInRange
<1> QED BY <1>1, <1>2 DEF Seen

(* A view that does not change stays right, because no ledger row goes.      *)
LEMMA ViewKept ==
  ASSUME NEW t, NEW w, ViewOK(t, w), UNCHANGED req, ledger \subseteq ledger',
         Seen(t, w)' = Seen(t, w)
  PROVE  ViewOK(t, w)'
  BY DEF ViewOK, InColumn, NegativeCredit, Dst, Amount

(* So do the balances.                                                       *)
LEMMA BalanceKept ==
  ASSUME DebitNeverOverdraws, UNCHANGED <<balance, ledger>>
  PROVE  DebitNeverOverdraws'
  BY DEF DebitNeverOverdraws, InColumn, NegativeCredit

(* A step that touches one row of one view, or none: the others stay.        *)
LEMMA ViewStep ==
  ASSUME TransferIInv, NEW t \in Tx, NEW w,
         req' = req, balance' = balance, ledger' = ledger,
         \A u \in Tx, v \in Wallets : u # t \/ v # w => delta'[u][v] = delta[u][v],
         w \in Wallets => ViewOK(t, w)',
         \A u \in Tx : pc'[u] = "debit" =>
            /\ Src(u) \in Wallets /\ (u # t \/ w # Src(u))
            /\ pc[u] = "debit" \/ Seen(u, Src(u)) >= Amount(u),
         \A u \in Tx : pc'[u] \in {"idle", "read", "ended"} => journal'[u] = {}
  PROVE  (DebitNeverOverdraws /\ ViewsInRange)'
<1>1. DebitNeverOverdraws'
  BY BalanceKept DEF TransferIInv, TransferInvariant
<1>2. ASSUME NEW u \in Tx, NEW v \in Wallets, u # t \/ v # w
      PROVE  Seen(u, v)' = Seen(u, v) /\ ViewOK(u, v)'
  <2>1. Seen(u, v)' = Seen(u, v)
    BY <1>2 DEF Seen
  <2> QED BY <2>1, SeenFacts, ViewKept
<1>3. \A u \in Tx, v \in Wallets : ViewOK(u, v)'
  BY <1>2
<1>4. ASSUME NEW u \in Tx, pc'[u] = "debit" PROVE Seen(u, Src(u))' >= Amount(u)'
  <2>1. Src(u)' = Src(u) /\ Amount(u)' = Amount(u)
    BY DEF Src, Amount
  <2>2. Seen(u, Src(u)) >= Amount(u)
    BY <1>4 DEF TransferIInv, TransferInvariant, ViewsInRange
  <2>3. delta'[u][Src(u)] = delta[u][Src(u)]
    BY <1>4
  <2> QED BY <2>1, <2>2, <2>3 DEF Seen
<1> QED BY <1>1, <1>3, <1>4 DEF ViewsInRange

(* A step that touches no view.                                              *)
LEMMA QuietStep ==
  ASSUME TransferIInv, req' = req, balance' = balance, ledger' = ledger, delta' = delta,
         \A u \in Tx : pc'[u] = "debit" =>
            \/ pc[u] = "debit"
            \/ Src(u) \in Wallets /\ Seen(u, Src(u)) >= Amount(u),
         \A u \in Tx : pc'[u] \in {"idle", "read", "ended"} => journal'[u] = {}
  PROVE  (DebitNeverOverdraws /\ ViewsInRange)'
<1>1. DebitNeverOverdraws'
  BY BalanceKept DEF TransferIInv, TransferInvariant
<1>2. ASSUME NEW u \in Tx, NEW v \in Wallets PROVE ViewOK(u, v)'
  <2>1. Seen(u, v)' = Seen(u, v)
    BY DEF Seen
  <2> QED BY <2>1, SeenFacts, ViewKept
<1>3. ASSUME NEW u \in Tx, pc'[u] = "debit" PROVE Seen(u, Src(u))' >= Amount(u)'
  <2>1. Src(u)' = Src(u) /\ Amount(u)' = Amount(u)
    BY DEF Src, Amount
  <2>2. Seen(u, Src(u)) >= Amount(u)
    BY <1>3 DEF TransferIInv, TransferInvariant, ViewsInRange
  <2> QED BY <2>1, <2>2 DEF Seen
<1> QED BY <1>1, <1>2, <1>3 DEF ViewsInRange

(* A commit: every other transaction's view stays right, because a row       *)
(* another transaction has changed is locked by it and so not changed here.  *)
LEMMA ApplyKeepsViews ==
  ASSUME TransferIInv, NEW t \in Tx, Apply(t), DebitNeverOverdraws', NEW u \in Tx, u # t,
         NEW w \in Wallets
  PROVE  ViewOK(u, w)' /\ (owner[w] = u => Seen(u, w)' = Seen(u, w))
<1>1. /\ balance'[w] = balance[w] + delta[t][w]
      /\ delta'[u][w] = delta[u][w]
      /\ balance[w] \in Int /\ delta[t][w] \in Int /\ delta[u][w] \in Int
  BY DEF TransferIInv, TypeOK, Apply, Seen
<1>2. /\ delta[t][w] # 0 => owner[w] = t
      /\ delta[u][w] # 0 => owner[w] = u
  BY DEF TransferIInv, TransferInvariant, LocksHeld
<1>3. owner[w] = u => Seen(u, w)' = Seen(u, w)
  BY <1>1, <1>2 DEF Seen
<1>4. CASE owner[w] = u
  <2>1. UNCHANGED req /\ ledger \subseteq ledger'
    BY DEF Apply
  <2> QED BY <1>3, <1>4, <2>1, SeenFacts, ViewKept
<1>5. CASE owner[w] # u
  <2>1. Seen(u, w)' = balance'[w]
    BY <1>1, <1>2, <1>5 DEF Seen
  <2> QED BY <1>5, <2>1 DEF DebitNeverOverdraws, ViewOK
<1> QED BY <1>3, <1>4, <1>5

(* A transaction that returns an error keeps its locks and its private      *)
(* state; one that is rolled back gives up both.                           *)
LEMMA ErrorStep ==
  ASSUME TransferIInv, NEW t \in Tx, pc[t] \in Statements, ReturnError(t),
         \/ UNCHANGED owner
         \/ \E w \in Wallets : CanLock(t, w) /\ Lock(t, w)
  PROVE  TransferInvariant'
<1> USE DEF TransferIInv, TransferInvariant, TypeOK, Steps, Statements, ReturnError, Goto,
            Answer, Src, Dst, Amount
<1>1. /\ \A u \in Tx : pc'[u] = "debit" => pc[u] = "debit"
      /\ \A u \in Tx : pc'[u] \in {"idle", "read", "ended"} => journal'[u] = {}
  BY DEF ViewsInRange
<1>2. LocksHeld'
  BY DEF LocksHeld, CanLock, Lock
<1>3. (DebitNeverOverdraws /\ ViewsInRange)'
  BY <1>1, QuietStep
<1>4. (JournalFollowsSteps /\ DoubleEntry)'
  BY DEF JournalFollowsSteps, DoubleEntry, EntriesOf, BothEntries
<1> QED BY <1>2, <1>3, <1>4

(* A rollback drops the uncommitted rows and the locks together, so no view *)
(* of another transaction changes.                                          *)
LEMMA RollbackStep ==
  ASSUME TransferIInv, NEW t \in Tx, pc[t] \in Statements \cup {"failed"}, Rollback(t),
         Answer(t, "error"), Goto(t, "ended") \/ Goto(t, "failed")
  PROVE  TransferInvariant'
<1> USE DEF TransferIInv, TransferInvariant, TypeOK, Steps, Statements, Rollback, Goto,
            Answer, Release, NoChange, Src, Dst, Amount
<1>1. DebitNeverOverdraws'
  BY BalanceKept
<1>2. LocksHeld'
  BY DEF LocksHeld
<1>3. ViewsInRange'
  <2>1. \A w \in Wallets : Seen(t, w)' = balance'[w]
    BY DEF Seen
  <2>2. \A w \in Wallets : ViewOK(t, w)'
    BY <1>1, <2>1 DEF DebitNeverOverdraws, ViewOK
  <2>3. ASSUME NEW u \in Tx, u # t
        PROVE  /\ \A w \in Wallets : ViewOK(u, w)'
               /\ pc'[u] = pc[u] /\ journal'[u] = journal[u]
               /\ pc[u] = "debit" => Seen(u, Src(u))' >= Amount(u)'
    <3>1. /\ pc'[u] = pc[u] /\ journal'[u] = journal[u] /\ delta'[u] = delta[u]
          /\ req' = req /\ balance' = balance /\ ledger' = ledger
      BY <2>3
    <3>2. ASSUME NEW w \in Wallets PROVE ViewOK(u, w)'
      <4>1. Seen(u, w)' = Seen(u, w)
        BY <3>1 DEF Seen
      <4> QED BY <3>1, <4>1, SeenFacts, ViewKept
    <3>3. pc[u] = "debit" => Seen(u, Src(u))' >= Amount(u)'
      BY <3>1 DEF ViewsInRange, Seen
    <3> QED BY <3>1, <3>2, <3>3
  <2>4. pc'[t] \in {"ended", "failed"} /\ journal'[t] = {}
    OBVIOUS
  <2> QED BY <2>2, <2>3, <2>4 DEF ViewsInRange
<1>4. \A u \in Tx : BothEntries(u)' = BothEntries(u) /\ EntriesOf(u)' = EntriesOf(u)
  BY DEF BothEntries, EntriesOf
<1>5. JournalFollowsSteps'
  BY <1>4 DEF JournalFollowsSteps
<1>6. DoubleEntry'
  BY <1>4 DEF DoubleEntry, JournalFollowsSteps
<1> QED BY <1>1, <1>2, <1>3, <1>5, <1>6

(* The statements of the closure.                                          *)
LEMMA ReadStep ==
  ASSUME TransferIInv, NEW t \in Tx, GetBalanceForUpdate(t)
  PROVE  TransferInvariant'
<1>1. CASE ReturnError(t) /\ UNCHANGED owner
  BY <1>1, ErrorStep DEF GetBalanceForUpdate, Statements
<1>2. CASE ReturnError(t) /\ Src(t) \in Wallets /\ CanLock(t, Src(t)) /\ Lock(t, Src(t))
  BY <1>2, ErrorStep DEF GetBalanceForUpdate, Statements
<1>3. CASE /\ Src(t) \in Wallets /\ CanLock(t, Src(t)) /\ Lock(t, Src(t))
           /\ Seen(t, Src(t)) >= Amount(t) /\ Goto(t, "debit") /\ pc[t] = "read"
           /\ UNCHANGED <<req, response, balance, delta, journal, ledger>>
  <2> USE <1>3 DEF TransferIInv, TransferInvariant, TypeOK, Steps, Statements, Goto,
                   Src, Dst, Amount
  <2>1. /\ \A u \in Tx : pc'[u] = "debit" => pc[u] = "debit" \/ u = t
        /\ \A u \in Tx : pc'[u] \in {"idle", "read", "ended"} => journal'[u] = {}
    BY DEF ViewsInRange
  <2>2. LocksHeld'
    BY DEF LocksHeld, CanLock, Lock
  <2>3. (DebitNeverOverdraws /\ ViewsInRange)'
    BY <2>1, QuietStep
  <2>4. \A u \in Tx : BothEntries(u)' = BothEntries(u) /\ EntriesOf(u)' = EntriesOf(u)
    BY DEF BothEntries, EntriesOf
  <2>5. JournalFollowsSteps'
    BY <2>4 DEF JournalFollowsSteps, ViewsInRange
  <2>6. DoubleEntry'
    BY <2>4 DEF DoubleEntry
  <2> QED BY <2>2, <2>3, <2>5, <2>6
<1> QED BY <1>1, <1>2, <1>3 DEF GetBalanceForUpdate

(* DecreaseBalance runs under the lock the balance check took, so the row   *)
(* still covers the amount, whatever its sign.                              *)
LEMMA DebitStep ==
  ASSUME TransferIInv, NEW t \in Tx, DecreaseBalance(t)
  PROVE  TransferInvariant'
<1>a. CASE ReturnError(t) /\ UNCHANGED owner
  BY <1>a, ErrorStep DEF DecreaseBalance, Statements
<1>b. CASE ~ReturnError(t)
  <2>0. /\ pc[t] = "debit" /\ pc' = [pc EXCEPT ![t] = "out"]
        /\ req' = req /\ response' = response /\ balance' = balance /\ owner' = owner
        /\ journal' = journal /\ ledger' = ledger
        /\ Src(t) \in Wallets /\ owner[Src(t)] = t /\ InColumn(Seen(t, Src(t)) - Amount(t))
        /\ delta' = [delta EXCEPT ![t][Src(t)] = delta[t][Src(t)] - Amount(t)]
    BY <1>b DEF DecreaseBalance, Goto, TransferIInv, TransferInvariant, LocksHeld, Statements
  <2>1. /\ \A u \in Tx, w \in Wallets : u # t \/ w # Src(t) => delta'[u][w] = delta[u][w]
        /\ delta'[t][Src(t)] = delta[t][Src(t)] - Amount(t)
    BY <2>0 DEF TransferIInv, TypeOK
  <2>3. LocksHeld'
    BY <2>0, <2>1 DEF LocksHeld, TransferIInv, TransferInvariant, TypeOK, Statements, Src, Dst
  <2>4. (DebitNeverOverdraws /\ ViewsInRange)'
    <3>1. Seen(t, Src(t)) >= Amount(t) /\ Amount(t) \in Int
      BY <2>0, RequestFacts DEF TransferIInv, TransferInvariant, ViewsInRange
    <3>2. /\ delta[t][Src(t)] \in Int /\ balance[Src(t)] \in Int
          /\ Seen(t, Src(t)) = balance[Src(t)] + delta[t][Src(t)]
      BY <2>0, SeenFacts
    <3> SUFFICES ASSUME NEW w \in Wallets, w = Src(t) PROVE (DebitNeverOverdraws /\ ViewsInRange)'
      BY <2>0
    <3>3. balance'[w] + delta'[t][w] = Seen(t, w) - Amount(t) /\ Seen(t, w) - Amount(t) >= 0
      BY <2>0, <2>1, <3>1, <3>2
    <3>4. ViewOK(t, w)'
      <4>1. Seen(t, w)' = Seen(t, w) - Amount(t)
        BY <3>3 DEF Seen
      <4>2. InColumn(Seen(t, w) - Amount(t))
        BY <2>0
      <4>3. InColumn(Seen(t, w)')
        BY <4>1, <4>2
      <4>4. ~(Seen(t, w)' < 0)
        BY <3>1, <3>2, <3>3, <4>1
      <4> QED BY <4>3, <4>4 DEF ViewOK, InColumn
    <3>5. /\ \A u \in Tx : pc'[u] = "debit" => pc[u] = "debit" /\ u # t /\ Src(u) \in Wallets
          /\ \A u \in Tx : pc'[u] \in {"idle", "read", "ended"} => journal'[u] = {}
      BY <2>0 DEF TransferIInv, TransferInvariant, TypeOK, LocksHeld, ViewsInRange, Statements
    <3>6. \A u \in Tx, v \in Wallets : u # t \/ v # w => delta'[u][v] = delta[u][v]
      BY <2>1
    <3> QED BY <2>0, <3>4, <3>5, <3>6, ViewStep
  <2>5. \A u \in Tx : BothEntries(u)' = BothEntries(u) /\ EntriesOf(u)' = EntriesOf(u)
    BY <2>0 DEF BothEntries, EntriesOf, Src, Dst, Amount
  <2>6. JournalFollowsSteps'
    BY <2>0, <2>5 DEF JournalFollowsSteps, TransferIInv, TransferInvariant, TypeOK
  <2>7. DoubleEntry'
    BY <2>0, <2>5 DEF DoubleEntry, TransferIInv, TransferInvariant
  <2> QED BY <2>3, <2>4, <2>6, <2>7 DEF TransferInvariant
<1> QED BY <1>a, <1>b DEF DecreaseBalance

(* IncreaseBalance takes the destination's lock, or waits for it; the credit *)
(* leaves the row below zero only if it was there or the amount is negative. *)
LEMMA CreditStep ==
  ASSUME TransferIInv, NEW t \in Tx, IncreaseBalance(t)
  PROVE  TransferInvariant'
<1>a. CASE ReturnError(t) /\ Dst(t) \in Wallets /\ CanLock(t, Dst(t)) /\ Lock(t, Dst(t))
  BY <1>a, ErrorStep DEF IncreaseBalance, Statements
<1>b. CASE /\ Dst(t) \notin Wallets /\ Goto(t, "in") /\ pc[t] = "credit"
           /\ UNCHANGED <<req, response, balance, owner, delta, journal, ledger>>
  <2>0. /\ \A u \in Tx : pc'[u] = "debit" => pc[u] = "debit"
        /\ \A u \in Tx : pc'[u] \in {"idle", "read", "ended"} => journal'[u] = {}
        /\ req' = req /\ balance' = balance /\ delta' = delta /\ ledger' = ledger
    BY <1>b DEF TransferIInv, TransferInvariant, TypeOK, Goto, ViewsInRange
  <2>1. (DebitNeverOverdraws /\ ViewsInRange)'
    BY <2>0, QuietStep
  <2> USE <1>b DEF TransferIInv, TransferInvariant, TypeOK, Goto, Src, Dst, Amount
  <2>2. LocksHeld'
    BY DEF LocksHeld, Statements
  <2>3. \A u \in Tx : BothEntries(u)' = BothEntries(u) /\ EntriesOf(u)' = EntriesOf(u)
    BY DEF BothEntries, EntriesOf
  <2>4. JournalFollowsSteps'
    BY <2>3 DEF JournalFollowsSteps
  <2>5. DoubleEntry'
    BY <2>3 DEF DoubleEntry
  <2> QED BY <2>1, <2>2, <2>4, <2>5
<1>c. CASE /\ Dst(t) \in Wallets /\ CanLock(t, Dst(t)) /\ Lock(t, Dst(t))
           /\ InColumn(Seen(t, Dst(t)) + Amount(t))
           /\ Goto(t, "in") /\ pc[t] = "credit"
           /\ delta' = [delta EXCEPT ![t][Dst(t)] = delta[t][Dst(t)] + Amount(t)]
           /\ UNCHANGED <<req, response, balance, journal, ledger>>
  <2>1. /\ \A u \in Tx, w \in Wallets : u # t \/ w # Dst(t) => delta'[u][w] = delta[u][w]
        /\ delta'[t][Dst(t)] = delta[t][Dst(t)] + Amount(t)
    BY <1>c DEF TransferIInv, TypeOK
  <2>3. LocksHeld'
    BY <1>c, <2>1 DEF LocksHeld, TransferIInv, TransferInvariant, TypeOK, Statements, Src, Dst,
                      Goto, Lock, CanLock
  <2>4. (DebitNeverOverdraws /\ ViewsInRange)'
    <3> SUFFICES ASSUME NEW w \in Wallets, w = Dst(t) PROVE (DebitNeverOverdraws /\ ViewsInRange)'
      BY <1>c
    <3>1. /\ Amount(t) \in Int /\ w \in Wallets /\ balance'[w] = balance[w]
          /\ delta'[t][w] = delta[t][w] + Amount(t) /\ InColumn(Seen(t, w) + Amount(t))
          /\ req' = req /\ ledger' = ledger /\ balance' = balance
      BY <1>c, <2>1, RequestFacts DEF TransferIInv
    <3>2. /\ delta[t][w] \in Int /\ balance[w] \in Int /\ Seen(t, w) \in Int /\ ViewOK(t, w)
          /\ Seen(t, w) = balance[w] + delta[t][w]
      BY <3>1, SeenFacts
    <3>3. w = Dst(t) /\ w = Dst(t)' /\ Amount(t)' = Amount(t)
      BY <3>1 DEF Dst, Amount
    <3>4. ViewOK(t, w)'
      <4>1. Seen(t, w)' = Seen(t, w) + Amount(t)
        BY <3>1, <3>2 DEF Seen
      <4>2. NegativeCredit(w)' <=> NegativeCredit(w)
        BY <3>1 DEF NegativeCredit
      <4>3. Seen(t, w)' < 0 => NegativeCredit(w)' \/ (w = Dst(t)' /\ Amount(t)' < 0)
        BY <3>1, <3>2, <3>3, <4>1, <4>2 DEF ViewOK
      <4>4. InColumn(Seen(t, w)')
        BY <3>1, <4>1
      <4> QED BY <4>3, <4>4 DEF ViewOK, InColumn
    <3>5. /\ \A u \in Tx : pc'[u] = "debit" => pc[u] = "debit" /\ u # t /\ Src(u) \in Wallets
          /\ \A u \in Tx : pc'[u] \in {"idle", "read", "ended"} => journal'[u] = {}
      BY <1>c DEF TransferIInv, TransferInvariant, TypeOK, Goto, LocksHeld, ViewsInRange, Statements
    <3>6. \A u \in Tx, v \in Wallets : u # t \/ v # w => delta'[u][v] = delta[u][v]
      BY <2>1, <3>3
    <3> QED BY <3>1, <3>4, <3>5, <3>6, ViewStep
  <2>5. \A u \in Tx : BothEntries(u)' = BothEntries(u) /\ EntriesOf(u)' = EntriesOf(u)
    BY <1>c DEF BothEntries, EntriesOf, Src, Dst, Amount
  <2>6. JournalFollowsSteps'
    BY <1>c, <2>5 DEF JournalFollowsSteps, TransferIInv, TransferInvariant, TypeOK, Goto
  <2>7. DoubleEntry'
    BY <1>c, <2>5 DEF DoubleEntry, TransferIInv, TransferInvariant
  <2> QED BY <2>3, <2>4, <2>6, <2>7 DEF TransferInvariant
<1> QED BY <1>a, <1>b, <1>c DEF IncreaseBalance

(* The two ledger inserts change no balance; each adds one row to the       *)
(* transaction's own uncommitted entries.                                   *)
LEMMA InsertStep ==
  ASSUME TransferIInv, NEW t \in Tx, CreateTransferOut(t) \/ CreateTransferIn(t)
  PROVE  TransferInvariant'
<1>a. CASE ReturnError(t) /\ UNCHANGED owner
  BY <1>a, ErrorStep DEF CreateTransferOut, CreateTransferIn, CreateTransaction, Statements
<1>b. CASE ~ReturnError(t)
  <2>1. /\ UNCHANGED <<req, response, balance, owner, delta, ledger>>
        /\ \/ /\ pc[t] = "out" /\ pc' = [pc EXCEPT ![t] = "credit"]
              /\ journal' = [journal EXCEPT ![t] = journal[t] \cup
                   {[op |-> t, wallet |-> Src(t), type |-> "transfer_out", amount |-> Amount(t)]}]
           \/ /\ pc[t] = "in" /\ pc' = [pc EXCEPT ![t] = "commit"] /\ Dst(t) \in Wallets
              /\ journal' = [journal EXCEPT ![t] = journal[t] \cup
                   {[op |-> t, wallet |-> Dst(t), type |-> "transfer_in", amount |-> Amount(t)]}]
    BY <1>b DEF CreateTransferOut, CreateTransferIn, CreateTransaction, Goto
  <2>2. LocksHeld'
    BY <2>1, SMTT(30) DEF LocksHeld, TransferIInv, TransferInvariant, TypeOK, Statements, Src, Dst
  <2>3. (DebitNeverOverdraws /\ ViewsInRange)'
    <3>1. /\ \A u \in Tx : pc'[u] = "debit" => pc[u] = "debit"
          /\ \A u \in Tx : pc'[u] \in {"idle", "read", "ended"} => journal'[u] = {}
          /\ req' = req /\ balance' = balance /\ delta' = delta /\ ledger' = ledger
      BY <2>1 DEF TransferIInv, TransferInvariant, TypeOK, ViewsInRange
    <3> QED BY <3>1, QuietStep
  <2>4. JournalFollowsSteps'
    <3>1. ASSUME NEW u \in Tx, u # t
          PROVE  /\ journal'[u] = journal[u] /\ pc'[u] = pc[u]
      BY <2>1, <3>1 DEF TransferIInv, TypeOK
    <3>2. \A u \in Tx : BothEntries(u)' = BothEntries(u) /\ EntriesOf(u)' = EntriesOf(u)
      BY <2>1 DEF BothEntries, EntriesOf, Src, Dst, Amount
    <3>3. CASE pc[t] = "out"
      <4>1. journal[t] = {} /\ pc'[t] = "credit"
        BY <2>1, <3>3 DEF JournalFollowsSteps, TransferIInv, TransferInvariant, TypeOK
      <4>2. journal'[t] = {e \in BothEntries(t) : e.type = "transfer_out"}
        BY <2>1, <3>3, <4>1 DEF BothEntries, TransferIInv, TypeOK
      <4>3. \A e \in journal'[t] : e.op = t
        BY <4>2 DEF BothEntries
      <4> QED BY <2>1, <3>1, <3>2, <3>3, <4>1, <4>2, <4>3
              DEF JournalFollowsSteps, TransferIInv, TransferInvariant
    <3>4. CASE pc[t] = "in"
      <4>1. journal[t] = {e \in BothEntries(t) : e.type = "transfer_out"} /\ pc'[t] = "commit"
        BY <2>1, <3>4 DEF JournalFollowsSteps, TransferIInv, TransferInvariant, TypeOK
      <4>2. journal'[t] = BothEntries(t)
        BY <2>1, <3>4, <4>1 DEF BothEntries, TransferIInv, TypeOK
      <4>3. \A e \in journal'[t] : e.op = t
        BY <4>2 DEF BothEntries
      <4> QED BY <2>1, <3>1, <3>2, <3>4, <4>1, <4>2, <4>3
              DEF JournalFollowsSteps, TransferIInv, TransferInvariant
    <3> QED BY <2>1, <3>3, <3>4
  <2>5. DoubleEntry'
    BY <2>1 DEF DoubleEntry, EntriesOf, BothEntries, TransferIInv, TransferInvariant, Src, Dst,
                Amount
  <2> QED BY <2>2, <2>3, <2>4, <2>5 DEF TransferInvariant
<1> QED BY <1>a, <1>b DEF CreateTransferOut, CreateTransferIn, CreateTransaction

(* The commit publishes balances and ledger rows in one step and releases   *)
(* every lock of the transaction.                                           *)
LEMMA ApplyStep ==
  ASSUME TransferIInv, NEW t \in Tx, pc[t] = "commit", Apply(t), Goto(t, "ended"),
         Answer(t, "ok") \/ Answer(t, "error")
  PROVE  TransferInvariant'
<1>0. /\ pc' = [pc EXCEPT ![t] = "ended"] /\ UNCHANGED req
      /\ response' = [response EXCEPT ![t] = "ok"] \/ response' = [response EXCEPT ![t] = "error"]
      /\ balance' = [w \in Wallets |-> Seen(t, w)]
      /\ ledger' = ledger \cup journal[t]
      /\ delta' = [delta EXCEPT ![t] = NoChange]
      /\ journal' = [journal EXCEPT ![t] = {}]
      /\ owner' = [w \in Wallets |-> IF owner[w] = t THEN NoTx ELSE owner[w]]
  BY DEF Apply, Goto, Answer, Release
<1>1. DebitNeverOverdraws'
  <2>1. /\ BothEntries(t) \subseteq ledger' /\ ledger \subseteq ledger'
        /\ \A w \in Wallets : balance'[w] = Seen(t, w)
    BY <1>0 DEF TransferIInv, TransferInvariant, JournalFollowsSteps
  <2>2. \A w : NegativeCredit(w) => NegativeCredit(w)'
    BY <2>1 DEF NegativeCredit
  <2>3. Amount(t) < 0 => NegativeCredit(Dst(t))'
    BY <1>0, <2>1 DEF NegativeCredit, BothEntries, Dst
  <2>4. ASSUME NEW w \in Wallets
        PROVE  InColumn(balance'[w]) /\ (balance'[w] < 0 => NegativeCredit(w)')
    <3>1. balance'[w] = Seen(t, w) /\ ViewOK(t, w)
      BY <2>1, SeenFacts
    <3>2. CASE w = Dst(t)
      <4>1. Amount(t) < 0 => NegativeCredit(w)'
        <5>1. Dst(t)' = Dst(t)
          BY <1>0 DEF Dst
        <5> QED BY <2>3, <3>2, <5>1
      <4> QED BY <2>2, <3>1, <4>1 DEF ViewOK
    <3>3. CASE w # Dst(t)
      BY <2>2, <3>1, <3>3 DEF ViewOK
    <3> QED BY <3>2, <3>3
  <2> QED BY <2>4 DEF DebitNeverOverdraws, InColumn
<1>2. LocksHeld'
  BY <1>0 DEF LocksHeld, TransferIInv, TransferInvariant, TypeOK, Statements, NoChange, Src, Dst
<1>3. ViewsInRange'
  <2>1. \A w \in Wallets : ViewOK(t, w)'
    <3>1. \A w \in Wallets : Seen(t, w)' = balance'[w]
      BY <1>0 DEF Seen, NoChange, TransferIInv, TypeOK
    <3> QED BY <1>1, <3>1 DEF DebitNeverOverdraws, ViewOK
  <2>2. \A u \in Tx : u # t => \A w \in Wallets :
           ViewOK(u, w)' /\ (owner[w] = u => Seen(u, w)' = Seen(u, w))
    BY <1>1, ApplyKeepsViews
  <2>3. \A u \in Tx : pc'[u] = "debit" =>
           u # t /\ pc[u] = "debit" /\ Src(u) \in Wallets /\ owner[Src(u)] = u
    BY <1>0 DEF TransferIInv, TransferInvariant, TypeOK, LocksHeld, Statements
  <2>4. ASSUME NEW u \in Tx, pc'[u] = "debit" PROVE Seen(u, Src(u))' >= Amount(u)'
    <3>1. Src(u)' = Src(u) /\ Amount(u)' = Amount(u)
      BY <1>0 DEF Src, Amount
    <3> SUFFICES ASSUME NEW w, w = Src(u) PROVE Seen(u, Src(u))' >= Amount(u)'
      OBVIOUS
    <3>2. Seen(u, w) >= Amount(u) /\ w \in Wallets /\ owner[w] = u /\ u # t
      BY <2>3, <2>4 DEF TransferIInv, TransferInvariant, ViewsInRange
    <3>3. Seen(u, w)' = Seen(u, w)
      BY <2>2, <3>2
    <3>4. Seen(u, Src(u))' = Seen(u, w)'
      BY <3>1 DEF Seen
    <3> QED BY <3>1, <3>2, <3>3, <3>4
  <2>5. \A u \in Tx : pc'[u] \in {"idle", "read", "ended"} => journal'[u] = {}
    BY <1>0 DEF TransferIInv, TransferInvariant, TypeOK, ViewsInRange
  <2> QED BY <2>1, <2>2, <2>4, <2>5 DEF ViewsInRange
<1>4. journal[t] = BothEntries(t) /\ EntriesOf(t) = {}
  BY DEF TransferIInv, TransferInvariant, JournalFollowsSteps
<1>5. \A u \in Tx : BothEntries(u)' = BothEntries(u)
  BY <1>0 DEF BothEntries, Src, Dst, Amount
<1>6. /\ EntriesOf(t)' = BothEntries(t)
      /\ \A u \in Tx : u # t => EntriesOf(u)' = EntriesOf(u)
  BY <1>0, <1>4 DEF EntriesOf, BothEntries
<1>7. JournalFollowsSteps'
  BY <1>0, <1>5, <1>6 DEF JournalFollowsSteps, TransferIInv, TransferInvariant, TypeOK
<1>8. DoubleEntry'
  BY <1>0, <1>5, <1>6 DEF DoubleEntry, TransferIInv, TransferInvariant, TypeOK
<1> QED BY <1>1, <1>2, <1>3, <1>7, <1>8 DEF TransferInvariant

(* Every statement changes its own transaction's uncommitted balances as    *)
(* its UPDATE says, and no other transaction's.                             *)
LEMMA DeltaStep ==
  ASSUME TransferIInv, [Next]_vars
  PROVE  DeltaFollowsSteps'
<1>0. TypeOK /\ DeltaFollowsSteps
  BY DEF TransferIInv
<1>1. ASSUME NEW t \in Tx, UNCHANGED <<req, delta>>,
             \/ pc[t] = "idle" /\ Goto(t, "read")
             \/ pc[t] = "read" /\ Goto(t, "debit")
             \/ pc[t] = "out" /\ Goto(t, "credit")
             \/ pc[t] = "in" /\ Goto(t, "commit")
             \/ Goto(t, "failed")
      PROVE  DeltaFollowsSteps'
  BY <1>0, <1>1 DEF TypeOK, DeltaFollowsSteps, Goto, Taken, Given, Src, Dst, Amount
<1>2. ASSUME NEW t \in Tx, UNCHANGED req, delta' = [delta EXCEPT ![t] = NoChange],
             Goto(t, "ended") \/ Goto(t, "failed")
      PROVE  DeltaFollowsSteps'
  BY <1>0, <1>2 DEF TypeOK, DeltaFollowsSteps, Goto, NoChange, Taken, Given, Src, Dst, Amount
<1>3. ASSUME NEW t \in Tx, BeginTx(t) \/ Transfer(t) \/ Faults(t)
      PROVE  DeltaFollowsSteps'
  <2>1. CASE BeginTx(t)
    BY <1>1, <2>1 DEF BeginTx
  <2>2. CASE GetBalanceForUpdate(t)
    BY <1>1, <2>2 DEF GetBalanceForUpdate, ReturnError
  <2>8. CASE DecreaseBalance(t) /\ ReturnError(t)
    BY <1>1, <2>8 DEF ReturnError
  <2>3. CASE DecreaseBalance(t) /\ ~ReturnError(t)
    <3>1. /\ Src(t) \in Wallets /\ pc[t] = "debit" /\ pc' = [pc EXCEPT ![t] = "out"] /\ req' = req
          /\ delta' = [delta EXCEPT ![t][Src(t)] = delta[t][Src(t)] - Amount(t)]
      BY <2>3 DEF DecreaseBalance, Goto, TransferIInv, TransferInvariant, LocksHeld, Statements
    <3>2. Amount(t) \in Int
      BY <1>0, RequestFacts
    <3>3. /\ \A u \in Tx, w \in Wallets : u # t \/ w # Src(t) => delta'[u][w] = delta[u][w]
          /\ delta'[t][Src(t)] = delta[t][Src(t)] - Amount(t)
      BY <1>0, <3>1 DEF TypeOK
    <3>4. \A w \in Wallets : delta[t][w] = 0
      BY <1>0, <3>1 DEF DeltaFollowsSteps
    <3>5. \A w \in Wallets : delta'[t][w] = -Taken(t, w)
      BY <3>2, <3>3, <3>4 DEF Taken
    <3> QED BY <1>0, <3>1, <3>3, <3>5 DEF TypeOK, DeltaFollowsSteps, Taken, Given, Src, Dst, Amount
  <2>4. CASE CreateTransferOut(t) \/ CreateTransferIn(t)
    BY <1>1, <2>4 DEF CreateTransferOut, CreateTransferIn, CreateTransaction, ReturnError
  <2>5. CASE IncreaseBalance(t)
    <3>1. CASE ReturnError(t)
      BY <1>1, <3>1 DEF ReturnError
    <3>2. CASE ~ReturnError(t)
      <4>1. /\ pc[t] = "credit" /\ pc' = [pc EXCEPT ![t] = "in"] /\ req' = req
            /\ \/ Dst(t) \notin Wallets /\ delta' = delta
               \/ /\ Dst(t) \in Wallets
                  /\ delta' = [delta EXCEPT ![t][Dst(t)] = delta[t][Dst(t)] + Amount(t)]
        BY <2>5, <3>2 DEF IncreaseBalance, Goto
      <4>2. Amount(t) \in Int
        BY <1>0, RequestFacts
      <4>3. /\ \A u \in Tx, w \in Wallets : u # t \/ w # Dst(t) => delta'[u][w] = delta[u][w]
            /\ Dst(t) \in Wallets => delta'[t][Dst(t)] = delta[t][Dst(t)] + Amount(t)
        BY <1>0, <4>1 DEF TypeOK
      <4>4. \A w \in Wallets : delta[t][w] = -Taken(t, w) /\ Taken(t, w) \in Int
        BY <1>0, <4>1, <4>2 DEF DeltaFollowsSteps, Taken
      <4>5. \A w \in Wallets : delta'[t][w] = Given(t, w) - Taken(t, w)
        BY <4>2, <4>3, <4>4 DEF Given
      <4> QED BY <1>0, <4>1, <4>3, <4>5 DEF TypeOK, DeltaFollowsSteps, Taken, Given, Src, Dst, Amount
    <3> QED BY <3>1, <3>2
  <2>6. CASE Commit(t) \/ CommitError(t) \/ DeadlockVictim(t) \/ ContextDone(t)
    BY <1>2, <2>6 DEF Commit, CommitError, DeadlockVictim, ContextDone, Apply, Rollback
  <2>7. CASE StatementError(t)
    BY <1>1, <2>7 DEF StatementError, ReturnError
  <2> QED BY <1>3, <2>1, <2>2, <2>3, <2>4, <2>5, <2>6, <2>7, <2>8 DEF Transfer, Faults
<1>4. CASE UNCHANGED vars
  BY <1>0, <1>4 DEF vars, DeltaFollowsSteps, Taken, Given, Src, Dst, Amount
<1> QED BY <1>3, <1>4 DEF Next

-----------------------------------------------------------------------------
(* The strengthened invariant is inductive: lock ownership, the uncommitted *)
(* change at each program point, and the bound on every view of a balance.  *)
THEOREM TransferInductive == Spec => []TransferIInv
<1>1. Init => TransferInvariant
  <2> SUFFICES ASSUME Init PROVE TransferInvariant
    OBVIOUS
  <2>1. \A t \in Tx, w \in Wallets : Seen(t, w) = balance[w] /\ balance[w] \in 0..MaxBalance
    BY DEF Init, Seen, NoChange
  <2>2. DebitNeverOverdraws /\ \A t \in Tx, w \in Wallets : ViewOK(t, w)
    BY <2>1 DEF DebitNeverOverdraws, ViewOK, InColumn, Init
  <2>3. ViewsInRange
    BY <2>2 DEF ViewsInRange, Init
  <2> QED BY <2>2, <2>3 DEF Init, TransferInvariant, LocksHeld, JournalFollowsSteps,
             DoubleEntry, EntriesOf, NoChange, Statements
<1>2. TransferIInv /\ [Next]_vars => TransferInvariant'
  <2> SUFFICES ASSUME TransferIInv, [Next]_vars PROVE TransferInvariant'
    OBVIOUS
  <2>1. ASSUME NEW t \in Tx, BeginTx(t) PROVE TransferInvariant'
    <3> USE <2>1 DEF BeginTx, Goto, TransferIInv, TypeOK, TransferInvariant, Src, Dst, Amount
    <3>0. /\ \A u \in Tx : pc'[u] = "debit" => pc[u] = "debit"
          /\ \A u \in Tx : pc'[u] \in {"idle", "read", "ended"} => journal'[u] = {}
      BY DEF ViewsInRange
    <3>1. LocksHeld'
      BY DEF LocksHeld, Statements
    <3>2. (DebitNeverOverdraws /\ ViewsInRange)'
      BY <3>0, QuietStep
    <3>3. (JournalFollowsSteps /\ DoubleEntry)'
      BY DEF JournalFollowsSteps, DoubleEntry, EntriesOf, BothEntries
    <3> QED BY <3>1, <3>2, <3>3
  <2>2. ASSUME NEW t \in Tx, Transfer(t) PROVE TransferInvariant'
    <3>1. CASE Commit(t)
      BY <3>1, ApplyStep DEF Commit
    <3> QED BY <2>2, <3>1, ReadStep, DebitStep, InsertStep, CreditStep DEF Transfer
  <2>3. ASSUME NEW t \in Tx, Faults(t) PROVE TransferInvariant'
    <3>1. CASE CommitError(t)
      BY <3>1, ApplyStep, RollbackStep DEF CommitError, Statements
    <3>2. CASE StatementError(t)
      BY <3>2, ErrorStep DEF StatementError
    <3>3. CASE DeadlockVictim(t)
      <4>1. pc[t] \in Statements
        BY <3>3 DEF DeadlockVictim, InCycle, Waiting, Statements
      <4> QED BY <3>3, <4>1, RollbackStep DEF DeadlockVictim
    <3>4. CASE ContextDone(t)
      BY <3>4, RollbackStep DEF ContextDone
    <3> QED BY <2>3, <3>1, <3>2, <3>3, <3>4 DEF Faults
  <2>4. CASE UNCHANGED vars
    <3>1. /\ \A u \in Tx : pc'[u] = "debit" => pc[u] = "debit"
          /\ \A u \in Tx : pc'[u] \in {"idle", "read", "ended"} => journal'[u] = {}
          /\ req' = req /\ balance' = balance /\ delta' = delta /\ ledger' = ledger
      BY <2>4 DEF vars, TransferIInv, TransferInvariant, ViewsInRange
    <3>2. (DebitNeverOverdraws /\ ViewsInRange)'
      BY <3>1, QuietStep
    <3>3. (LocksHeld /\ JournalFollowsSteps /\ DoubleEntry)'
      BY <2>4 DEF vars, TransferIInv, TransferInvariant, LocksHeld, JournalFollowsSteps,
           DoubleEntry, EntriesOf, BothEntries, Src, Dst, Amount
    <3> QED BY <3>2, <3>3 DEF TransferInvariant
  <2> QED BY <2>1, <2>2, <2>3, <2>4 DEF Next
<1>3. Init => DeltaFollowsSteps
  BY DEF Init, DeltaFollowsSteps, NoChange
<1>4. TransferIInv /\ [Next]_vars => DeltaFollowsSteps'
  BY DeltaStep
<1> QED BY <1>1, <1>2, <1>3, <1>4, TransferTypeCorrect, PTL DEF Spec, TransferIInv

(* No interleaving of transfers, failures, deadlock victims and abandoned   *)
(* transactions lets a debit overdraw a wallet: the row lock taken by       *)
(* GetBalanceForUpdate outlives the check.  A wallet below zero has a       *)
(* negative incoming transfer on the books.                                 *)
THEOREM TransferNeverOverdraws == Spec => []DebitNeverOverdraws
<1>1. TransferIInv => DebitNeverOverdraws
  BY DEF TransferIInv, TransferInvariant
<1> QED BY <1>1, TransferInductive, PTL

(* Both ledger rows of an operation are committed, or neither is; a 200      *)
(* answer means both are.                                                  *)
THEOREM TransferDoubleEntry == Spec => []DoubleEntry
<1>1. TransferIInv => DoubleEntry
  BY DEF TransferIInv, TransferInvariant
<1> QED BY <1>1, TransferInductive, PTL

-----------------------------------------------------------------------------
(* Sums.  SumFunction folds over a set through a CHOOSEn function on its     *)
(* subsets: a table of partial sums, which takes out the element that Pick   *)
(* names first.  The lemmas up to SumTable show that a finite set has such a *)
(* table, and only one; every one of them takes a smallest subset where it   *)
(* fails and refutes it.                                                     *)
Pick(s) == CHOOSE x \in s : TRUE

\* it holds the partial sums of f over the subsets of S.
IsTable(it, f, S) ==
    it = [s \in SUBSET S |-> IF s = {} THEN 0 ELSE f[Pick(s)] + it[s \ {Pick(s)}]]

(* The library's sum reads the entry of the whole set.                       *)
LEMMA SumIsTable ==
  ASSUME NEW f, NEW S
  PROVE  SumFunctionOnSet(f, S) = (CHOOSE it : IsTable(it, f, S))[S]
  BY DEF SumFunctionOnSet, FoldFunctionOnSet, MapThenFoldSet, IsTable, Pick

(* A nonempty collection of subsets of a finite set has a minimal member.    *)
LEMMA SubsetMinimal ==
  ASSUME NEW S, IsFiniteSet(S), NEW B \in SUBSET (SUBSET S), B # {}
  PROVE  \E s \in B : \A u \in SUBSET s : u # s => u \notin B
<1>1. FiniteSubsetsOf(S) = SUBSET S
  BY FS_FiniteSubsetsOfFinite
<1>2. IsWellFoundedOn(StrictSubsetOrdering(S), SUBSET S)
  BY <1>1, FS_StrictSubsetOrderingWellFounded
<1>3. PICK s \in B : \A u \in B : ~(<<u, s>> \in StrictSubsetOrdering(S))
  BY <1>2, WFMin
<1>4. ASSUME NEW u \in SUBSET s, u # s, u \in B PROVE FALSE
  <2>1. <<u, s>> \in StrictSubsetOrdering(S)
    BY <1>4 DEF StrictSubsetOrdering
  <2> QED BY <1>3, <1>4, <2>1
<1> QED BY <1>4

(* Pick names a member.                                                      *)
LEMMA PickIn ==
  ASSUME NEW s, s # {}
  PROVE  Pick(s) \in s
  BY DEF Pick

(* The entry of a subset, from that of the subset without its first element. *)
LEMMA TableAt ==
  ASSUME NEW it, NEW f, NEW S, IsTable(it, f, S), NEW s \in SUBSET S
  PROVE  it[s] = IF s = {} THEN 0 ELSE f[Pick(s)] + it[s \ {Pick(s)}]
  BY DEF IsTable

(* Two tables agree where both are defined.                                *)
LEMMA TablesAgree ==
  ASSUME NEW a, NEW b, NEW f, NEW A, NEW B, IsTable(a, f, A), IsTable(b, f, B),
         NEW S, IsFiniteSet(S), S \subseteq A, S \subseteq B
  PROVE  a[S] = b[S]
<1> DEFINE Bad == {s \in SUBSET S : a[s] # b[s]}
<1>1. SUFFICES Bad = {}
  BY <1>1
<1>2. SUFFICES ASSUME Bad # {} PROVE FALSE
  BY <1>2
<1>3. PICK s \in Bad : \A u \in SUBSET s : u # s => u \notin Bad
  <2>1. Bad \in SUBSET (SUBSET S)
    OBVIOUS
  <2> HIDE DEF Bad
  <2> QED BY <1>2, <2>1, SubsetMinimal
<1>4. s \in SUBSET A /\ s \in SUBSET B /\ s \in SUBSET S
  BY <1>3
<1>5. CASE s = {}
  BY <1>3, <1>4, <1>5, TableAt
<1>6. CASE s # {}
  <2> DEFINE u == s \ {Pick(s)}
  <2>1. u \in SUBSET s /\ u # s
    BY <1>6, PickIn
  <2>2. u \notin Bad
    BY <1>3, <2>1
  <2>3. a[u] = b[u]
    BY <1>4, <2>1, <2>2
  <2>4. a[s] = f[Pick(s)] + a[u] /\ b[s] = f[Pick(s)] + b[u]
    BY <1>4, <1>6, TableAt
  <2> QED BY <1>3, <2>3, <2>4
<1> QED BY <1>5, <1>6

(* Every finite set has a table.                                           *)
LEMMA TableExists ==
  ASSUME NEW f, NEW S, IsFiniteSet(S)
  PROVE  \E it : IsTable(it, f, S)
<1> DEFINE T(u) == CHOOSE it : IsTable(it, f, u)
           Bad == {s \in SUBSET S : ~\E it : IsTable(it, f, s)}
<1>2. SUFFICES ASSUME Bad # {} PROVE FALSE
  BY <1>2
<1>3. PICK s \in Bad : \A u \in SUBSET s : u # s => u \notin Bad
  <2>1. Bad \in SUBSET (SUBSET S)
    OBVIOUS
  <2> HIDE DEF Bad
  <2> QED BY <1>2, <2>1, SubsetMinimal
<1>4. ASSUME NEW u \in SUBSET s, u # s PROVE IsTable(T(u), f, u)
  <2>1. \E it : IsTable(it, f, u)
    BY <1>3, <1>4
  <2> QED BY <2>1
<1>5. \A u \in SUBSET s : IsFiniteSet(u)
  BY <1>3, FS_Subset
<1> HIDE DEF T
<1> DEFINE it == [u \in SUBSET s |-> IF u = {} THEN 0 ELSE f[Pick(u)] + T(u \ {Pick(u)})[u \ {Pick(u)}]]
<1>6. ASSUME NEW v \in SUBSET s, v # s PROVE it[v] = T(v)[v]
  <2>1. CASE v = {}
    BY <1>4, <1>6, <2>1, TableAt
  <2>2. CASE v # {}
    <3> DEFINE w == v \ {Pick(v)}
    <3>1. w \in SUBSET s /\ w # s /\ w \in SUBSET v
      BY <1>6, <2>2, PickIn
    <3>2. T(v)[v] = f[Pick(v)] + T(v)[w]
      BY <1>4, <1>6, <2>2, TableAt
    <3>3. T(v)[w] = T(w)[w]
      BY <1>4, <1>5, <1>6, <3>1, TablesAgree
    <3>4. it[v] = f[Pick(v)] + T(w)[w]
      BY <2>2
    <3> QED BY <3>2, <3>3, <3>4
  <2> QED BY <2>1, <2>2
<1>7. ASSUME NEW u \in SUBSET s, u # {}
      PROVE  it[u] = f[Pick(u)] + it[u \ {Pick(u)}]
  <2> DEFINE v == u \ {Pick(u)}
  <2>1. v \in SUBSET s /\ v # s
    BY <1>7, PickIn
  <2>2. it[v] = T(v)[v]
    BY <1>6, <2>1
  <2>3. it[u] = f[Pick(u)] + T(v)[v]
    BY <1>7
  <2> QED BY <2>2, <2>3
<1>8. it = [u \in SUBSET s |-> IF u = {} THEN 0 ELSE f[Pick(u)] + it[u \ {Pick(u)}]]
  <2>1. \A u \in SUBSET s : it[u] = IF u = {} THEN 0 ELSE f[Pick(u)] + it[u \ {Pick(u)}]
    BY <1>7
  <2> QED BY <2>1
<1>9. IsTable(it, f, s)
  BY <1>8 DEF IsTable
<1> QED BY <1>3, <1>9

(* So one table holds the sums over all subsets of a finite set.             *)
LEMMA SumTable ==
  ASSUME NEW f, NEW S, IsFiniteSet(S)
  PROVE  \E it : IsTable(it, f, S) /\ \A s \in SUBSET S : SumFunctionOnSet(f, s) = it[s]
<1> DEFINE T(u) == CHOOSE it : IsTable(it, f, u)
<1>1. \A s \in SUBSET S : IsFiniteSet(s)
  BY FS_Subset
<1>2. \A s \in SUBSET S : IsTable(T(s), f, s)
  BY <1>1, TableExists
<1>3. ASSUME NEW s \in SUBSET S PROVE SumFunctionOnSet(f, s) = T(S)[s]
  <2>1. SumFunctionOnSet(f, s) = T(s)[s]
    BY SumIsTable
  <2> HIDE DEF T
  <2>2. T(s)[s] = T(S)[s]
    BY <1>1, <1>2, TablesAgree
  <2> QED BY <2>1, <2>2
<1> QED BY <1>2, <1>3

(* The empty sum.                                                            *)
LEMMA SumEmpty ==
  ASSUME NEW f
  PROVE  SumFunctionOnSet(f, {}) = 0
<1>1. PICK it : IsTable(it, f, {}) /\ \A s \in SUBSET {} : SumFunctionOnSet(f, s) = it[s]
  BY FS_EmptySet, SumTable
<1>2. it[{}] = 0
  BY <1>1, TableAt, Zenon
<1> QED BY <1>1, <1>2

(* The sum, its first element taken out.                                     *)
LEMMA SumPick ==
  ASSUME NEW f, NEW S, IsFiniteSet(S), S # {}
  PROVE  SumFunctionOnSet(f, S) = f[Pick(S)] + SumFunctionOnSet(f, S \ {Pick(S)})
<1>1. PICK it : IsTable(it, f, S) /\ \A s \in SUBSET S : SumFunctionOnSet(f, s) = it[s]
  BY SumTable
<1>2. S \in SUBSET S /\ S \ {Pick(S)} \in SUBSET S
  OBVIOUS
<1>3. it[S] = f[Pick(S)] + it[S \ {Pick(S)}]
  BY <1>1, <1>2, TableAt
<1> QED BY <1>1, <1>2, <1>3

(* A sum of integers is an integer.                                          *)
LEMMA SumType ==
  ASSUME NEW f, NEW S, IsFiniteSet(S), \A x \in S : f[x] \in Int
  PROVE  SumFunctionOnSet(f, S) \in Int
<1> DEFINE Bad == {s \in SUBSET S : SumFunctionOnSet(f, s) \notin Int}
<1>2. SUFFICES ASSUME Bad # {} PROVE FALSE
  BY <1>2
<1>3. PICK s \in Bad : \A u \in SUBSET s : u # s => u \notin Bad
  <2>1. Bad \in SUBSET (SUBSET S)
    OBVIOUS
  <2> HIDE DEF Bad
  <2> QED BY <1>2, <2>1, SubsetMinimal
<1>4. s # {}
  <2>1. SumFunctionOnSet(f, {}) \in Int
    BY SumEmpty
  <2> QED BY <1>3, <2>1
<1>5. SumFunctionOnSet(f, s \ {Pick(s)}) \in Int /\ f[Pick(s)] \in Int
  BY <1>3, <1>4, PickIn
<1>6. IsFiniteSet(s)
  BY <1>3, FS_Subset
<1> QED BY <1>3, <1>4, <1>5, <1>6, SumPick

(* Any element may be the first: the order of the rows does not matter.      *)
LEMMA SumRemove ==
  ASSUME NEW f, NEW S, IsFiniteSet(S), \A x \in S : f[x] \in Int, NEW x \in S
  PROVE  SumFunctionOnSet(f, S) = f[x] + SumFunctionOnSet(f, S \ {x})
<1> DEFINE Bad == {s \in SUBSET S : \E y \in s :
                     SumFunctionOnSet(f, s) # f[y] + SumFunctionOnSet(f, s \ {y})}
<1>1. SUFFICES ASSUME Bad # {} PROVE FALSE
  BY <1>1
<1>2. PICK s \in Bad : \A u \in SUBSET s : u # s => u \notin Bad
  <2>1. Bad \in SUBSET (SUBSET S)
    OBVIOUS
  <2> HIDE DEF Bad
  <2> QED BY <1>1, <2>1, SubsetMinimal
<1>3. PICK y \in s : SumFunctionOnSet(f, s) # f[y] + SumFunctionOnSet(f, s \ {y})
  BY <1>2
<1> DEFINE c == Pick(s)
<1>4. c \in s /\ s \in SUBSET S
  BY <1>2, <1>3, PickIn
<1>5. \A u \in SUBSET S : IsFiniteSet(u) /\ SumFunctionOnSet(f, u) \in Int
  BY FS_Subset, SumType
<1>6. SumFunctionOnSet(f, s) = f[c] + SumFunctionOnSet(f, s \ {c})
  BY <1>3, <1>4, <1>5, SumPick
<1> HIDE DEF c
<1>7. c # y
  BY <1>3, <1>6
<1>8. SumFunctionOnSet(f, s \ {c}) = f[y] + SumFunctionOnSet(f, (s \ {c}) \ {y})
  BY <1>2, <1>4, <1>7
<1>9. SumFunctionOnSet(f, s \ {y}) = f[c] + SumFunctionOnSet(f, (s \ {y}) \ {c})
  BY <1>2, <1>4, <1>7
<1>10. (s \ {c}) \ {y} = (s \ {y}) \ {c}
  OBVIOUS
<1>11. f[c] \in Int /\ f[y] \in Int /\ SumFunctionOnSet(f, (s \ {c}) \ {y}) \in Int
  BY <1>4, <1>5
<1> DEFINE rest == SumFunctionOnSet(f, (s \ {c}) \ {y})
<1>12. /\ SumFunctionOnSet(f, s) = f[c] + (f[y] + rest)
       /\ SumFunctionOnSet(f, s \ {y}) = f[c] + rest
  BY <1>6, <1>8, <1>9, <1>10
<1>13. f[c] \in Int /\ f[y] \in Int /\ rest \in Int
  BY <1>11
<1> HIDE DEF rest
<1> QED BY <1>3, <1>12, <1>13

(* The sum depends on the values at the indices only.                        *)
LEMMA SumSame ==
  ASSUME NEW f, NEW g, NEW S, IsFiniteSet(S), \A x \in S : f[x] = g[x]
  PROVE  SumFunctionOnSet(f, S) = SumFunctionOnSet(g, S)
<1> DEFINE Bad == {s \in SUBSET S : SumFunctionOnSet(f, s) # SumFunctionOnSet(g, s)}
<1>2. SUFFICES ASSUME Bad # {} PROVE FALSE
  BY <1>2
<1>3. PICK s \in Bad : \A u \in SUBSET s : u # s => u \notin Bad
  <2>1. Bad \in SUBSET (SUBSET S)
    OBVIOUS
  <2> HIDE DEF Bad
  <2> QED BY <1>2, <2>1, SubsetMinimal
<1>4. s # {}
  BY <1>3, SumEmpty
<1>5. Pick(s) \in s
  BY <1>4, PickIn
<1>6. SumFunctionOnSet(f, s \ {Pick(s)}) = SumFunctionOnSet(g, s \ {Pick(s)})
  BY <1>3, <1>5
<1>7. IsFiniteSet(s)
  BY <1>3, FS_Subset
<1> QED BY <1>3, <1>4, <1>5, <1>6, <1>7, SumPick

\* g is f with n moved from index a to index b of S.
Moves(f, g, S, a, b, n) ==
    \A w \in S : g[w] = f[w] + (IF w = b THEN n ELSE 0) - (IF w = a THEN n ELSE 0)

(* Moving n from one index to another leaves the sum as it was.              *)
LEMMA SumMove ==
  ASSUME NEW S, IsFiniteSet(S), NEW f \in [S -> Int], NEW g \in [S -> Int],
         NEW a \in S, NEW b \in S, NEW n \in Int, Moves(f, g, S, a, b, n)
  PROVE  SumFunction(g) = SumFunction(f)
<1>0. SumFunction(g) = SumFunctionOnSet(g, S) /\ SumFunction(f) = SumFunctionOnSet(f, S)
  BY DEF SumFunction
<1>1. CASE a = b
  <2>1. \A w \in S : g[w] = f[w]
    BY <1>1 DEF Moves
  <2> QED BY <1>0, <2>1, SumSame
<1>2. CASE a # b
  <2> DEFINE R == (S \ {a}) \ {b}
             sf == SumFunctionOnSet(f, R)
             sg == SumFunctionOnSet(g, R)
  <2>1. IsFiniteSet(S \ {a}) /\ IsFiniteSet(R) /\ b \in S \ {a}
    BY <1>2, FS_Subset
  <2>2. /\ SumFunctionOnSet(f, S) = f[a] + SumFunctionOnSet(f, S \ {a})
        /\ SumFunctionOnSet(g, S) = g[a] + SumFunctionOnSet(g, S \ {a})
    BY SumRemove
  <2>3. /\ SumFunctionOnSet(f, S \ {a}) = f[b] + sf
        /\ SumFunctionOnSet(g, S \ {a}) = g[b] + sg
    BY <2>1, SumRemove
  <2>4. sf \in Int /\ sf = sg
    <3>1. \A w \in R : f[w] \in Int /\ f[w] = g[w]
      BY DEF Moves
    <3> HIDE DEF R
    <3> QED BY <2>1, <3>1, SumType, SumSame
  <2>5. g[a] = f[a] - n /\ g[b] = f[b] + n /\ f[a] \in Int /\ f[b] \in Int
    BY <1>2 DEF Moves
  <2>6. SumFunctionOnSet(f, S) = f[a] + (f[b] + sf) /\ SumFunctionOnSet(g, S) = g[a] + (g[b] + sf)
    BY <2>2, <2>3, <2>4
  <2> HIDE DEF sf
  <2> QED BY <1>0, <2>4, <2>5, <2>6
<1> QED BY <1>1, <1>2

-----------------------------------------------------------------------------
(* What a commit does to a balance: the destination's row exists, because    *)
(* the foreign key let the incoming row in.                                  *)
LEMMA CommitMoves ==
  ASSUME TransferIInv, NEW t \in Tx, pc[t] = "commit", Apply(t)
  PROVE  /\ Src(t) \in Wallets /\ Dst(t) \in Wallets /\ Amount(t) \in Int
         /\ balance \in [Wallets -> Int] /\ balance' \in [Wallets -> Int]
         /\ \A w \in Wallets : balance'[w] = balance[w] + Given(t, w) - Taken(t, w)
<1>1. TypeOK /\ Amount(t) \in Int
  BY RequestFacts DEF TransferIInv
<1>2. Src(t) \in Wallets
  BY DEF TransferIInv, TransferInvariant, LocksHeld, Statements
<1>3. Dst(t) \in Wallets
  <2> DEFINE row == [op |-> t, wallet |-> Dst(t), type |-> "transfer_in", amount |-> Amount(t)]
  <2>1. row \in journal[t]
    BY DEF TransferIInv, TransferInvariant, JournalFollowsSteps, BothEntries
  <2>2. row \in Entries
    BY <1>1, <2>1 DEF TypeOK
  <2> QED BY <2>2 DEF Entries
<1>4. balance \in [Wallets -> Int] /\ delta[t] \in [Wallets -> Int]
  BY <1>1 DEF TypeOK
<1>5. \A w \in Wallets : delta[t][w] = Given(t, w) - Taken(t, w)
  BY DEF TransferIInv, DeltaFollowsSteps
<1>6. \A w \in Wallets : Given(t, w) \in Int /\ Taken(t, w) \in Int
  BY <1>1 DEF Given, Taken
<1>7. balance' = [w \in Wallets |-> balance[w] + delta[t][w]]
  BY DEF Apply, Seen
<1>8. \A w \in Wallets : balance'[w] = balance[w] + Given(t, w) - Taken(t, w)
  <2> TAKE w \in Wallets
  <2>1. balance'[w] = balance[w] + (Given(t, w) - Taken(t, w)) /\ balance[w] \in Int
    BY <1>4, <1>5, <1>7
  <2> QED BY <1>6, <2>1
<1>9. balance' \in [Wallets -> Int]
  BY <1>4, <1>7
<1> QED BY <1>1, <1>2, <1>3, <1>4, <1>8, <1>9

(* Only a commit changes the tables.                                         *)
LEMMA OnlyCommitsApply ==
  ASSUME [Next]_vars
  PROVE  \/ UNCHANGED <<balance, ledger>>
         \/ \E t \in Tx : pc[t] = "commit" /\ Apply(t)
  BY DEF Next, vars, BeginTx, Transfer, Faults, GetBalanceForUpdate, DecreaseBalance,
         CreateTransferOut, CreateTransferIn, CreateTransaction, IncreaseBalance, Commit,
         CommitError, StatementError, DeadlockVictim, ContextDone, ReturnError, Rollback

(* Transfers neither create nor lose money: the sum of the committed          *)
(* balances is that of the initial ones, whatever fails, deadlocks or is      *)
(* abandoned between the debit and the credit.                                *)
THEOREM TransferConservesMoney == Spec => []MoneyConserved
<1>1. Init => MoneyConserved
  BY DEF Init, MoneyConserved
<1>2. TransferIInv /\ MoneyConserved /\ [Next]_vars => MoneyConserved'
  <2> SUFFICES ASSUME TransferIInv, MoneyConserved, [Next]_vars PROVE MoneyConserved'
    OBVIOUS
  <2>1. CASE UNCHANGED <<balance, ledger>>
    BY <2>1 DEF MoneyConserved
  <2>2. ASSUME NEW t \in Tx, pc[t] = "commit", Apply(t) PROVE MoneyConserved'
    <3>1. /\ Src(t) \in Wallets /\ Dst(t) \in Wallets /\ Amount(t) \in Int
          /\ balance \in [Wallets -> Int] /\ balance' \in [Wallets -> Int]
          /\ \A w \in Wallets : balance'[w] = balance[w] + Given(t, w) - Taken(t, w)
      BY <2>2, CommitMoves
    <3>2. Moves(balance, balance', Wallets, Src(t), Dst(t), Amount(t))
      BY <3>1 DEF Moves, Given, Taken
    <3>3. SumFunction(balance') = SumFunction(balance)
      BY <3>1, <3>2, SumMove
    <3> QED BY <3>3 DEF MoneyConserved
  <2> QED BY <2>1, <2>2, OnlyCommitsApply
<1> QED BY <1>1, <1>2, TransferInductive, PTL DEF Spec

-----------------------------------------------------------------------------
\* The rows of a ledger that book a wallet on one side, and what rows add up to.
Rows(l, w, type) == {e \in l : e.wallet = w /\ e.type = type}
Total(R) == SumFunctionOnSet([e \in R |-> e.amount], R)

(* Booked is the total of the wallet's rows.                                 *)
LEMMA BookedTotal ==
  ASSUME NEW w, NEW type
  PROVE  Booked(w, type) = Total(Rows(ledger, w, type))
  BY DEF Booked, SumFunction, Total, Rows

(* The amount of a ledger row is an integer.                                 *)
LEMMA EntryAmount ==
  ASSUME NEW e \in Entries
  PROVE  e.amount \in Int
<1>1. e.amount \in Amounts
  BY DEF Entries
<1> QED BY <1>1, Zenon

(* The total of finitely many rows, and what one more row adds to it.        *)
LEMMA TotalInsert ==
  ASSUME NEW R \in SUBSET Entries, IsFiniteSet(R), NEW r \in Entries, r \notin R
  PROVE  Total(R) \in Int /\ Total(R \cup {r}) = Total(R) + r.amount
<1> DEFINE Q == R \cup {r}
           f == [e \in R |-> e.amount]
           g == [e \in Q |-> e.amount]
<1>1. IsFiniteSet(Q)
  BY FS_AddElement
<1>2. (\A e \in Q : g[e] \in Int) /\ (\A e \in R : f[e] \in Int /\ g[e] = f[e]) /\ g[r] = r.amount
  BY EntryAmount
<1>3. Q \ {r} = R /\ r \in Q
  OBVIOUS
<1>4. Total(Q) = SumFunctionOnSet(g, Q) /\ Total(R) = SumFunctionOnSet(f, R)
  BY DEF Total
<1> HIDE DEF Q, f, g
<1>5. SumFunctionOnSet(g, Q) = r.amount + SumFunctionOnSet(g, R)
  BY <1>1, <1>2, <1>3, SumRemove
<1>6. SumFunctionOnSet(g, R) = SumFunctionOnSet(f, R)
  BY <1>2, SumSame
<1>7. Total(R) \in Int
  BY <1>2, <1>4, SumType
<1>8. Total(Q) = r.amount + Total(R) /\ r.amount \in Int
  BY <1>4, <1>5, <1>6, EntryAmount
<1>9. Total(Q) = Total(R) + r.amount
  <2> DEFINE x == Total(R)
             y == r.amount
  <2>1. Total(Q) = y + x /\ x \in Int /\ y \in Int
    BY <1>7, <1>8
  <2> HIDE DEF x, y
  <2>2. Total(Q) = x + y
    BY <2>1
  <2> QED BY <2>2 DEF x, y
<1> QED BY <1>7, <1>9 DEF Q

(* A commit adds its outgoing row to the source's total and its incoming row *)
(* to the destination's, and nothing to any other.                           *)
LEMMA CommitBooks ==
  ASSUME TransferIInv, IsFiniteSet(ledger), NEW t \in Tx, pc[t] = "commit", Apply(t),
         NEW w \in Wallets
  PROVE  /\ Booked(w, "transfer_in") \in Int /\ Booked(w, "transfer_out") \in Int
         /\ Booked(w, "transfer_in")' = Booked(w, "transfer_in") + Given(t, w)
         /\ Booked(w, "transfer_out")' = Booked(w, "transfer_out") + Taken(t, w)
<1> DEFINE out == [op |-> t, wallet |-> Src(t), type |-> "transfer_out", amount |-> Amount(t)]
           in == [op |-> t, wallet |-> Dst(t), type |-> "transfer_in", amount |-> Amount(t)]
<1>1. ledger' = ledger \cup {out, in} /\ ledger \in SUBSET Entries
  BY DEF Apply, TransferIInv, TypeOK, TransferInvariant, JournalFollowsSteps, BothEntries
<1>2. out \in Entries /\ in \in Entries
  <2>1. journal[t] = {out, in} /\ journal[t] \in SUBSET Entries
    BY DEF TransferIInv, TypeOK, TransferInvariant, JournalFollowsSteps, BothEntries
  <2> QED BY <2>1
<1>3. out \notin ledger /\ in \notin ledger
  <2>1. EntriesOf(t) = {}
    BY DEF TransferIInv, TransferInvariant, JournalFollowsSteps
  <2> QED BY <2>1 DEF EntriesOf
<1>4. /\ out.wallet = Src(t) /\ out.type = "transfer_out" /\ out.amount = Amount(t)
      /\ in.wallet = Dst(t) /\ in.type = "transfer_in" /\ in.amount = Amount(t)
  OBVIOUS
<1>5. Amount(t) \in Int
  BY RequestFacts DEF TransferIInv
<1> HIDE DEF out, in
<1>6. ASSUME NEW type \in {"transfer_in", "transfer_out"}
      PROVE  /\ Rows(ledger, w, type) \in SUBSET Entries
             /\ IsFiniteSet(Rows(ledger, w, type))
             /\ out \notin Rows(ledger, w, type) /\ in \notin Rows(ledger, w, type)
  BY <1>1, <1>3, FS_Subset DEF Rows
<1>7. Booked(w, "transfer_in")' = Booked(w, "transfer_in") + Given(t, w)
      /\ Booked(w, "transfer_in") \in Int
  <2> DEFINE R == Rows(ledger, w, "transfer_in")
  <2>1. Booked(w, "transfer_in") = Total(R)
    BY BookedTotal
  <2>2. Booked(w, "transfer_in")' = Total(Rows(ledger', w, "transfer_in"))
    BY DEF Booked, SumFunction, Total, Rows
  <2>3. Total(R) \in Int /\ Total(R \cup {in}) = Total(R) + Amount(t)
    <3>1. R \in SUBSET Entries /\ IsFiniteSet(R) /\ in \notin R
      BY <1>6
    <3> HIDE DEF R
    <3> QED BY <1>2, <1>4, <3>1, TotalInsert
  <2>4. CASE w = Dst(t)
    <3>1. Rows(ledger', w, "transfer_in") = R \cup {in}
      BY <1>1, <1>4, <2>4 DEF Rows
    <3> QED BY <2>1, <2>2, <2>3, <2>4, <3>1 DEF Given
  <2>5. CASE w # Dst(t)
    <3>1. Rows(ledger', w, "transfer_in") = R
      BY <1>1, <1>4, <2>5 DEF Rows
    <3>2. Booked(w, "transfer_in")' = Booked(w, "transfer_in") /\ Given(t, w) = 0
      BY <2>1, <2>2, <2>5, <3>1 DEF Given
    <3> QED BY <2>1, <2>3, <3>2
  <2> QED BY <2>4, <2>5
<1>8. Booked(w, "transfer_out")' = Booked(w, "transfer_out") + Taken(t, w)
      /\ Booked(w, "transfer_out") \in Int
  <2> DEFINE R == Rows(ledger, w, "transfer_out")
  <2>1. Booked(w, "transfer_out") = Total(R)
    BY BookedTotal
  <2>2. Booked(w, "transfer_out")' = Total(Rows(ledger', w, "transfer_out"))
    BY DEF Booked, SumFunction, Total, Rows
  <2>3. Total(R) \in Int /\ Total(R \cup {out}) = Total(R) + Amount(t)
    <3>1. R \in SUBSET Entries /\ IsFiniteSet(R) /\ out \notin R
      BY <1>6
    <3> HIDE DEF R
    <3> QED BY <1>2, <1>4, <3>1, TotalInsert
  <2>4. CASE w = Src(t)
    <3>1. Rows(ledger', w, "transfer_out") = R \cup {out}
      BY <1>1, <1>4, <2>4 DEF Rows
    <3> QED BY <2>1, <2>2, <2>3, <2>4, <3>1 DEF Taken
  <2>5. CASE w # Src(t)
    <3>1. Rows(ledger', w, "transfer_out") = R
      BY <1>1, <1>4, <2>5 DEF Rows
    <3>2. Booked(w, "transfer_out")' = Booked(w, "transfer_out") /\ Taken(t, w) = 0
      BY <2>1, <2>2, <2>5, <3>1 DEF Taken
    <3> QED BY <2>1, <2>3, <3>2
  <2> QED BY <2>4, <2>5
<1> QED BY <1>7, <1>8

(* Replaying the ledger gives the balances: the rows a commit adds are new,   *)
(* and they book exactly what the two UPDATEs changed.                        *)
THEOREM LedgerReplays == Spec => []LedgerExplainsBalances
<1> DEFINE Inv == IsFiniteSet(ledger) /\ LedgerExplainsBalances
<1>1. Init => Inv
  <2> SUFFICES ASSUME Init PROVE Inv
    OBVIOUS
  <2>1. balance = InitialBalance /\ ledger = {}
    BY DEF Init
  <2>2. ASSUME NEW w, NEW type PROVE Booked(w, type) = 0
    <3>1. Rows(ledger, w, type) = {}
      BY <2>1 DEF Rows
    <3> QED BY <3>1, BookedTotal, SumEmpty DEF Total
  <2>3. \A w \in Wallets : InitialBalance[w] \in Int
    OBVIOUS
  <2> QED BY <2>1, <2>2, <2>3, FS_EmptySet DEF LedgerExplainsBalances
<1>2. TransferIInv /\ Inv /\ [Next]_vars => Inv'
  <2> SUFFICES ASSUME TransferIInv, Inv, [Next]_vars PROVE Inv'
    OBVIOUS
  <2>1. CASE UNCHANGED <<balance, ledger>>
    BY <2>1 DEF LedgerExplainsBalances, Booked
  <2>2. ASSUME NEW t \in Tx, pc[t] = "commit", Apply(t) PROVE Inv'
    <3>1. IsFiniteSet(ledger')
      <4>1. ledger' = ledger \cup BothEntries(t)
        BY <2>2 DEF Apply, TransferIInv, TransferInvariant, JournalFollowsSteps
      <4>2. IsFiniteSet(BothEntries(t))
        <5>1. ASSUME NEW x, NEW y PROVE IsFiniteSet({x, y})
          <6>1. IsFiniteSet({x} \cup {y})
            BY FS_Singleton, FS_Union
          <6>2. {x, y} = {x} \cup {y}
            OBVIOUS
          <6> QED BY <6>1, <6>2
        <5> QED BY <5>1 DEF BothEntries
      <4> QED BY <4>1, <4>2, FS_Union
    <3>2. ASSUME NEW w \in Wallets
          PROVE  balance'[w] = InitialBalance[w] + Booked(w, "transfer_in")' - Booked(w, "transfer_out")'
      <4> DEFINE b == balance[w]
                 in == Booked(w, "transfer_in")
                 out == Booked(w, "transfer_out")
                 g == Given(t, w)
                 k == Taken(t, w)
                 i == InitialBalance[w]
      <4>1. /\ in \in Int /\ out \in Int
            /\ Booked(w, "transfer_in")' = in + g /\ Booked(w, "transfer_out")' = out + k
        BY <2>2, CommitBooks
      <4>2. balance'[w] = b + g - k /\ b \in Int
        BY <2>2, CommitMoves
      <4>3. g \in Int /\ k \in Int
        BY <2>2, CommitMoves DEF Given, Taken
      <4>4. b = i + in - out /\ i \in Int
        BY DEF LedgerExplainsBalances
      <4> HIDE DEF b, in, out, g, k, i
      <4>5. b + g - k = i + (in + g) - (out + k)
        BY <4>1, <4>3, <4>4
      <4> QED BY <4>1, <4>2, <4>5 DEF i
    <3> QED BY <3>1, <3>2 DEF LedgerExplainsBalances
  <2> QED BY <2>1, <2>2, OnlyCommitsApply
<1> QED BY <1>1, <1>2, TransferInductive, PTL DEF Spec
=============================================================================
