------------------------- MODULE MCWalletSubscriber -------------------------
(* Instances of WalletSubscriber for TLC.                                  *)
EXTENDS WalletSubscriber, TLC

CONSTANTS m1, m2, u1

\* Two messages about one user: the outbox published the event twice.
MCUserOf == (m1 :> u1) @@ (m2 :> u1)

WorkerSymmetry == Permutations(Workers)
=============================================================================
