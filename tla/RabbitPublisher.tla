-------------------------- MODULE RabbitPublisher ---------------------------
(***************************************************************************)
(* pkg/rabbitmq: a Connection, which watchReconnect dials again when it is *)
(* lost, and one basePublisher on it, shared by the goroutines that        *)
(* publish.  publish holds the read lock of p.mu to its end, and replaces  *)
(* p.ch under it; close takes the write lock.                              *)
(*                                                                         *)
(* What an amqp channel answers is modelled from this use: Publish on a    *)
(* channel that is gone is ErrClosed and hands nothing over, on an open    *)
(* one it hands the message to the socket; without confirms that is all    *)
(* the caller learns.  A channel id stands for one *amqp.Channel and is    *)
(* used again once nothing refers to it.                                   *)
(***************************************************************************)
EXTENDS Naturals, FiniteSets

CONSTANTS Callers,        \* goroutines that publish
          Channels,       \* channel ids
          NoChannel,
          MaxLosses,      \* bound: connections lost
          MaxExceptions   \* bound: channels closed by the broker

ASSUME PublisherAssumption ==
    /\ IsFiniteSet(Callers) /\ Callers # {}
    /\ IsFiniteSet(Channels) /\ NoChannel \notin Channels
    /\ MaxLosses \in Nat /\ MaxExceptions \in Nat

VARIABLES conn,        \* the amqp.Connection in Connection.conn
          watch,       \* where watchReconnect is
          open,        \* the open channels of conn
          ch,          \* basePublisher.ch
          closing,     \* close: closed is set while it waits for p.mu, then done
          step,        \* each caller's place in publish
          sent,        \* messages it handed over in this call
          losses,      \* history
          exceptions   \* history

callers == <<step, sent>>
pubHist == <<losses, exceptions>>
pubVars == <<conn, watch, open, ch, closing, callers, pubHist>>

\* "nil" and "error": publish is about to return that, and to unlock.
CallSteps == {"idle", "publishing", "reopening", "retrying", "nil", "error"}

PublisherTypeOK ==
    /\ conn \in {"none", "up", "down"}
    /\ watch \in {"none", "registering", "waiting", "dialing", "returned"}
    /\ open \subseteq Channels
    /\ ch \in Channels \cup {NoChannel}
    /\ closing \in {"no", "waiting", "closed"}
    /\ step \in [Callers -> CallSteps]
    /\ sent \in [Callers -> Nat]
    /\ losses \in 0..MaxLosses /\ exceptions \in 0..MaxExceptions

PublisherInit ==
    /\ conn = "none" /\ watch = "none"
    /\ open = {} /\ ch = NoChannel /\ closing = "no"
    /\ step = [t \in Callers |-> "idle"]
    /\ sent = [t \in Callers |-> 0]
    /\ losses = 0 /\ exceptions = 0

-----------------------------------------------------------------------------
Fresh == Channels \ (open \cup {ch})
\* Open channels that no one can use or close any more.
Leaked == open \ {ch}

Goto(t, s) == step' = [step EXCEPT ![t] = s]

(* Connection.                                                             *)
NewConnection ==
    /\ conn = "none"
    /\ conn' = "up" /\ watch' = "registering"
    /\ UNCHANGED <<open, ch, closing, callers, pubHist>>

\* NotifyClose on a connection that is gone already closes its argument: the
\* reason is nil, which watchReconnect takes for an orderly close.
NotifyClose ==
    /\ watch = "registering"
    /\ watch' = IF conn = "up" THEN "waiting" ELSE "returned"
    /\ UNCHANGED <<conn, open, ch, closing, callers, pubHist>>

LoseConnection ==
    /\ conn = "up" /\ losses < MaxLosses
    /\ losses' = losses + 1
    /\ conn' = "down" /\ open' = {}
    /\ watch' = IF watch = "waiting" THEN "dialing" ELSE watch

ConnectionLost ==
    /\ LoseConnection
    /\ UNCHANGED <<ch, closing, callers, exceptions>>

\* A dial that fails is tried again, after three seconds each time.
Redial ==
    /\ watch = "dialing"
    /\ conn' = "up" /\ watch' = "registering"
    /\ UNCHANGED <<open, ch, closing, callers, pubHist>>

\* The broker closes a channel, as it does after a publish to an exchange that
\* no one declared.
ChannelException(c) ==
    /\ c \in open /\ exceptions < MaxExceptions
    /\ exceptions' = exceptions + 1
    /\ open' = open \ {c}
    /\ UNCHANGED <<conn, watch, ch, closing, callers, losses>>

-----------------------------------------------------------------------------
(* basePublisher.                                                          *)
NewBasePublisher ==
    LET c == CHOOSE c \in Fresh : TRUE IN
    /\ ch = NoChannel /\ conn = "up" /\ Fresh # {}
    /\ ch' = c /\ open' = open \cup {c}
    /\ UNCHANGED <<conn, watch, closing, callers, pubHist>>

\* RLock, which waits behind a writer that waits, and closed.Load.
PublishEnter(t) ==
    /\ step[t] = "idle" /\ ch # NoChannel /\ closing # "waiting"
    /\ Goto(t, IF closing = "no" THEN "publishing" ELSE "error")
    /\ UNCHANGED <<conn, watch, open, ch, closing, sent, pubHist>>

HandOver(t) ==
    /\ sent' = [sent EXCEPT ![t] = @ + 1]
    /\ Goto(t, "nil")

\* Mutant: ErrClosed is returned like any other error.
PublishNoReopen(t) ==
    /\ step[t] = "publishing"
    /\ \/ ch \in open /\ HandOver(t)
       \/ ch \notin open /\ Goto(t, "error") /\ UNCHANGED sent
    /\ UNCHANGED <<conn, watch, open, ch, closing, pubHist>>

\* The first PublishWithContext: ErrClosed is a channel error.
PublishFirst(t) ==
    /\ step[t] = "publishing"
    /\ \/ ch \in open /\ HandOver(t)
       \/ ch \notin open /\ Goto(t, "reopening") /\ UNCHANGED sent
    /\ UNCHANGED <<conn, watch, open, ch, closing, pubHist>>

\* Mutant: every error of the first publish is tried again.
RetryAnyError(t) ==
    /\ step[t] \in {"publishing", "retrying"} /\ ch \in open
    /\ LoseConnection
    /\ \/ sent' = [sent EXCEPT ![t] = @ + 1]
       \/ UNCHANGED sent
    /\ Goto(t, IF step[t] = "publishing" THEN "reopening" ELSE "error")
    /\ UNCHANGED <<ch, closing, exceptions>>

\* The connection breaks under either publish: an error that is no channel
\* error, and the broker may have the message.
PublishBreaks(t) ==
    /\ step[t] \in {"publishing", "retrying"} /\ ch \in open
    /\ LoseConnection
    /\ \/ sent' = [sent EXCEPT ![t] = @ + 1]
       \/ UNCHANGED sent
    /\ Goto(t, "error")
    /\ UNCHANGED <<ch, closing, exceptions>>

\* Mutant: the new channel is used and forgotten.
ReopenLocally(t) ==
    LET c == CHOOSE c \in Fresh : TRUE IN
    /\ step[t] = "reopening"
    /\ \/ /\ conn = "up" /\ Fresh # {}
          /\ open' = open \cup {c}
          /\ HandOver(t)
       \/ /\ conn # "up"
          /\ Goto(t, "error")
          /\ UNCHANGED <<open, sent>>
    /\ UNCHANGED <<conn, watch, ch, closing, pubHist>>

\* conn.channel(), on the connection of this moment, and p.ch = newCh, with only
\* the read lock held: a caller that is late replaces the channel of another.
Reopen(t) ==
    LET c == CHOOSE c \in Fresh : TRUE IN
    /\ step[t] = "reopening"
    /\ \/ /\ conn = "up" /\ Fresh # {}
          /\ open' = open \cup {c}
          /\ ch' = c
          /\ Goto(t, "retrying")
       \/ /\ conn # "up"
          /\ Goto(t, "error")
          /\ UNCHANGED <<open, ch>>
    /\ UNCHANGED <<conn, watch, closing, sent, pubHist>>

\* The second publish reads p.ch again, which may be another caller's channel.
PublishAgain(t) ==
    /\ step[t] = "retrying"
    /\ \/ ch \in open /\ HandOver(t)
       \/ ch \notin open /\ Goto(t, "error") /\ UNCHANGED sent
    /\ UNCHANGED <<conn, watch, open, ch, closing, pubHist>>

\* The deferred RUnlock.
PublishReturns(t) ==
    /\ step[t] \in {"nil", "error"}
    /\ Goto(t, "idle")
    /\ sent' = [sent EXCEPT ![t] = 0]
    /\ UNCHANGED <<conn, watch, open, ch, closing, pubHist>>

\* close: Swap(true) and Lock, which waits for every reader; then ch.Close.
CloseBegins ==
    /\ closing = "no" /\ ch # NoChannel
    /\ closing' = "waiting"
    /\ UNCHANGED <<conn, watch, open, ch, callers, pubHist>>

\* Mutant: close does not take the lock.
CloseAtOnce ==
    /\ closing = "waiting"
    /\ closing' = "closed" /\ open' = open \ {ch}
    /\ UNCHANGED <<conn, watch, ch, callers, pubHist>>

CloseChannel ==
    /\ closing = "waiting" /\ \A t \in Callers : step[t] = "idle"
    /\ closing' = "closed" /\ open' = open \ {ch}
    /\ UNCHANGED <<conn, watch, ch, callers, pubHist>>

-----------------------------------------------------------------------------
\* What a call does once it holds the read lock.
CallStep(t) ==
    \/ PublishFirst(t) \/ Reopen(t) \/ PublishAgain(t) \/ PublishReturns(t)

\* The library and the network, which work as long as the process lives.
ConnectionStep == NotifyClose \/ Redial

NetworkFault == ConnectionLost \/ \E c \in Channels : ChannelException(c)

-----------------------------------------------------------------------------
(* Properties.                                                             *)

\* One call hands over at most one message, and exactly one if it returns nil:
\* the retry on a new channel never repeats what the first try may have sent,
\* whichever channel the second try finds in p.ch.
OneMessagePerPublish ==
    \A t \in Callers : sent[t] <= 1 /\ (step[t] = "nil" => sent[t] = 1)

\* Once close is done the channel in p.ch is closed, the one that a publish was
\* just putting there included, and no publish is past the check.
ClosedIsFinal ==
    closing = "closed" =>
        /\ ch \notin open
        /\ \A t \in Callers : step[t] \in {"idle", "error"}

\* Publishers that reopen at the same time overwrite each other's channel, which
\* then stays open for good; one incident costs at most a channel per other
\* publisher, and a publisher that is alone never loses one.
LeakBounded ==
    Cardinality(Leaked) <= (losses + exceptions) * (Cardinality(Callers) - 1)

\* Nothing is handed over before the call's last step; without a channel nobody
\* publishes or closes; and a connection is down only after a loss.
PublisherConsistent ==
    /\ \A t \in Callers : step[t] \notin {"nil", "error"} => sent[t] = 0
    /\ ch = NoChannel =>
          open = {} /\ closing = "no" /\ \A t \in Callers : step[t] = "idle"
    /\ conn = "down" => losses > 0

\* Callers that found the channel gone, and what they may still leak: while the
\* channel is gone, a channel each but for the one that comes first; once it is
\* replaced, a channel each.
Late == {t \in Callers : step[t] = "reopening"}

LeakBudget ==
    ch # NoChannel /\ closing # "closed" =>
        Cardinality(Leaked) + (IF ch \in open THEN Cardinality(Late) ELSE Cardinality(Callers) - 1)
            <= (losses + exceptions) * (Cardinality(Callers) - 1)
=============================================================================
