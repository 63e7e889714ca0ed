\* Two concurrent transfers of unlike amounts, under fairness, between three wallets and an id that has none.
CONSTANTS
    w1 = w1
    Tx = {t1, t2}
    Wallets = {w1, w2, w3}
    WalletIds = {w1, w2, w3, w0}
    Amounts <- MCAmounts
    MinBalance <- MCMinBalance
    InitialBalance <- MCInitialBalance
    MaxBalance = 6
    NoTx = NoTx
SPECIFICATION FairSpec
INVARIANTS TransferIInv DebitNeverOverdraws MoneyConserved DoubleEntry LedgerExplainsBalances
PROPERTIES EveryTransferAnswered
CHECK_DEADLOCK FALSE
