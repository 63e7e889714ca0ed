-------------------------- MODULE MCWalletTransfer --------------------------
(* Instances of WalletTransfer for TLC.                                    *)
EXTENDS WalletTransfer

CONSTANTS w1

\* w1 covers each amount, the others only the smaller one.
MCInitialBalance == [w \in Wallets |-> IF w = w1 THEN 3 ELSE 2]

\* Both signs; a second negative amount into a wallet is out of the column's range.
MCAmounts == {-3, 2, 3}
MCMinBalance == -2
=============================================================================
