-------------------------- MODULE AtLeastOnceRelay --------------------------
(***************************************************************************)
(* What an outbox promises its service.  A message accepted together with  *)
(* the business transaction is owed to the broker; it may be relayed more  *)
(* than once; it is settled only after it has been relayed, and settling   *)
(* may be undone, in which case the message is owed again.  Nothing that   *)
(* was accepted is ever forgotten.                                         *)
(***************************************************************************)
EXTENDS Naturals

CONSTANT Events    \* the messages

VARIABLES owed,     \* accepted and not settled
          settled,  \* the relay considers itself done with these
          relayed   \* messages handed to the broker at least once

relayVars == <<owed, settled, relayed>>

RelayInit == owed = {} /\ settled = {} /\ relayed = {}

Accept(e) == /\ e \notin owed \cup settled
             /\ owed' = owed \cup {e}
             /\ UNCHANGED <<settled, relayed>>

Relay(e) == /\ e \in owed \cup settled
            /\ relayed' = relayed \cup {e}
            /\ UNCHANGED <<owed, settled>>

Settle(S) == /\ S \subseteq relayed \cap (owed \cup settled)
             /\ settled' = settled \cup S
             /\ owed' = owed \ S
             /\ UNCHANGED relayed

Reopen(S) == /\ S \subseteq owed \cup settled
             /\ owed' = owed \cup S
             /\ settled' = settled \ S
             /\ UNCHANGED relayed

RelayNext == \/ \E e \in Events : Accept(e) \/ Relay(e)
             \/ \E S \in SUBSET Events : Settle(S) \/ Reopen(S)

RelaySpec == RelayInit /\ [][RelayNext]_relayVars
=============================================================================
