-------------------------- MODULE NotificationHub ---------------------------
(***************************************************************************)
(* pkg/hub and the /ticket and /stream handlers of the notification        *)
(* service: a stream presents a ticket, registers a channel in the hub of  *)
(* the instance it reached, reads it until the client or the channel goes, *)
(* and unregisters.  Instances share Redis: tickets, online keys, pub/sub. *)
(*                                                                         *)
(* A step is what one holder of Hub.mu, or one Redis command, does.  A     *)
(* channel is named by the stream that reads it.                           *)
(***************************************************************************)
EXTENDS Naturals, FiniteSets

CONSTANTS Users, Instances, Streams, Tickets,
          Placements,   \* the instances the requests may reach, or none
          Shows,        \* pairs: the tickets a stream's request may carry
          BufferSize,   \* capacity of a stream's channel
          MaxNotices,   \* bound: notices published
          NoUser, NoStream, NoInstance

ASSUME HubAssumption ==
    /\ BufferSize \in Nat \ {0} /\ MaxNotices \in Nat
    /\ Placements \subseteq [Streams -> Instances \cup {NoInstance}]
    /\ Shows \subseteq Streams \X Tickets
    /\ NoUser \notin Users /\ NoStream \notin Streams /\ NoInstance \notin Instances

VARIABLES ticket,     \* Redis ticket:*, the user or nothing
          key,        \* Redis online:*, the users whose key is set
          online,     \* each instance's map of registered channels
          chan,       \* each stream's channel
          buffered,   \* notices in the channel's buffer
          stream,     \* where each request is in NotificationsHandler
          user, inst, \* its user and its instance
          inbox,      \* notices each instance's subscription has yet to read
          target,     \* the channel the listener looked up
          beat,       \* the users a heartbeat has yet to refresh
          running,    \* instances that have not crashed
          notices,    \* history: notices published
          replaced,   \* history: streams whose channel was closed by the hub
          older,      \* history: the streams of its user that were connected on
                      \* its instance when each stream connected
          admitted    \* history: the tickets streams were admitted with

redis == <<ticket, key>>
streams == <<chan, buffered, stream, user, inst>>
workers == <<inbox, target, beat>>
hist == <<notices, replaced, older, admitted>>
vars == <<redis, online, streams, workers, running, hist>>

StreamSteps == {"new", "admitted", "registered", "streaming", "ending", "unlisted", "over"}

TypeOK ==
    /\ ticket \in [Tickets -> Users \cup {NoUser}]
    /\ key \subseteq Users
    /\ online \in [Instances -> [Users -> Streams \cup {NoStream}]]
    /\ chan \in [Streams -> {"none", "open", "closed"}]
    /\ buffered \in [Streams -> 0..BufferSize]
    /\ stream \in [Streams -> StreamSteps]
    /\ user \in [Streams -> Users \cup {NoUser}]
    /\ inst \in [Streams -> Instances \cup {NoInstance}]
    /\ inbox \in [Instances -> [Users -> Nat]]
    /\ target \in [Instances -> Streams \cup {NoStream}]
    /\ beat \in [Instances -> SUBSET Users]
    /\ running \subseteq Instances
    /\ notices \in 0..MaxNotices
    /\ replaced \subseteq Streams
    /\ older \in [Streams -> SUBSET Streams]
    /\ admitted \subseteq [stream : Streams, ticket : Tickets]

Init ==
    /\ ticket = [t \in Tickets |-> NoUser]
    /\ key = {}
    /\ online = [i \in Instances |-> [u \in Users |-> NoStream]]
    /\ chan = [s \in Streams |-> "none"]
    /\ buffered = [s \in Streams |-> 0]
    /\ stream = [s \in Streams |-> "new"]
    /\ user = [s \in Streams |-> NoUser]
    /\ inst \in Placements
    /\ inbox = [i \in Instances |-> [u \in Users |-> 0]]
    /\ target = [i \in Instances |-> NoStream]
    /\ beat = [i \in Instances |-> {}]
    /\ running = Instances
    /\ notices = 0 /\ replaced = {} /\ admitted = {}
    /\ older = [s \in Streams |-> {}]

-----------------------------------------------------------------------------
Up(s) == inst[s] \in running
Goto(s, step) == stream' = [stream EXCEPT ![s] = step]
Registered(i) == {online[i][u] : u \in Users} \ {NoStream}

\* The steps between Connect and the deferred Disconnect, and the streams of one
\* user on one instance that are there.
Connected == {"registered", "streaming", "ending"}
ConnectedOf(u, i) == {s \in Streams : stream[s] \in Connected /\ user[s] = u /\ inst[s] = i}

(* Tickets.                                                                *)
CreateTicket(t, u) ==
    /\ ticket[t] = NoUser /\ \A a \in admitted : a.ticket # t
    /\ ticket' = [ticket EXCEPT ![t] = u]
    /\ UNCHANGED <<key, online, streams, workers, running, hist>>

TicketExpires(t) ==
    /\ ticket[t] # NoUser
    /\ ticket' = [ticket EXCEPT ![t] = NoUser]
    /\ UNCHANGED <<key, online, streams, workers, running, hist>>

\* GETDEL: 401 without a ticket, otherwise the ticket is gone.
ConsumeTicket(s, t) ==
    /\ stream[s] = "new" /\ Up(s) /\ <<s, t>> \in Shows
    /\ \/ /\ ticket[t] = NoUser
          /\ Goto(s, "over")
          /\ UNCHANGED <<ticket, user, admitted>>
       \/ /\ ticket[t] # NoUser
          /\ ticket' = [ticket EXCEPT ![t] = NoUser]
          /\ user' = [user EXCEPT ![s] = ticket[t]]
          /\ admitted' = admitted \cup {[stream |-> s, ticket |-> t]}
          /\ Goto(s, "admitted")
    /\ UNCHANGED <<key, online, chan, buffered, inst, workers, running, notices, replaced, older>>

-----------------------------------------------------------------------------
\* Mutant: the old channel is not closed.
ConnectKeepsOld(s) ==
    /\ stream[s] = "admitted" /\ Up(s)
    /\ chan' = [chan EXCEPT ![s] = "open"]
    /\ online' = [online EXCEPT ![inst[s]][user[s]] = s]
    /\ older' = [older EXCEPT ![s] = ConnectedOf(user[s], inst[s])]
    /\ Goto(s, "registered")
    /\ UNCHANGED <<redis, buffered, user, inst, workers, running, notices, replaced, admitted>>

(* Connect: close the user's old channel, register the new one; then SET.   *)
Connect(s) ==
    LET old == online[inst[s]][user[s]] IN
    /\ stream[s] = "admitted" /\ Up(s)
    /\ chan' = [c \in Streams |-> IF c = s THEN "open"
                                  ELSE IF c = old THEN "closed" ELSE chan[c]]
    /\ replaced' = replaced \cup ({old} \ {NoStream})
    /\ online' = [online EXCEPT ![inst[s]][user[s]] = s]
    /\ older' = [older EXCEPT ![s] = ConnectedOf(user[s], inst[s])]
    /\ Goto(s, "registered")
    /\ UNCHANGED <<redis, buffered, user, inst, workers, running, notices, admitted>>

ConnectSetKey(s) ==
    /\ stream[s] = "registered" /\ Up(s)
    /\ key' = key \cup {user[s]}
    /\ Goto(s, "streaming")
    /\ UNCHANGED <<ticket, online, chan, buffered, user, inst, workers, running, hist>>

\* The loop of c.Stream: a notice; or the closed channel, or the client is gone.
StreamEvent(s) ==
    /\ stream[s] = "streaming" /\ buffered[s] > 0 /\ Up(s)
    /\ buffered' = [buffered EXCEPT ![s] = @ - 1]
    /\ UNCHANGED <<redis, online, chan, stream, user, inst, workers, running, hist>>

StreamEnds(s) ==
    /\ stream[s] = "streaming" /\ Up(s)
    /\ Goto(s, "ending")
    /\ UNCHANGED <<redis, online, chan, buffered, user, inst, workers, running, hist>>

\* Mutant: the map keeps the entry.
DisconnectKeepsEntry(s) ==
    /\ stream[s] = "ending" /\ Up(s)
    /\ Goto(s, "unlisted")
    /\ UNCHANGED <<redis, online, chan, buffered, user, inst, workers, running, hist>>

\* Mutant: Disconnect closes the channel as well.
DisconnectCloses(s) ==
    /\ stream[s] = "ending" /\ Up(s)
    /\ online' = [online EXCEPT ![inst[s]][user[s]] = NoStream]
    /\ chan' = [chan EXCEPT ![s] = "closed"]
    /\ Goto(s, "unlisted")
    /\ UNCHANGED <<redis, buffered, user, inst, workers, running, hist>>

(* The deferred Disconnect names the user, not the channel; then DEL.        *)
Disconnect(s) ==
    /\ stream[s] = "ending" /\ Up(s)
    /\ online' = [online EXCEPT ![inst[s]][user[s]] = NoStream]
    /\ Goto(s, "unlisted")
    /\ UNCHANGED <<redis, chan, buffered, user, inst, workers, running, hist>>

DisconnectDelKey(s) ==
    /\ stream[s] = "unlisted" /\ Up(s)
    /\ key' = key \ {user[s]}
    /\ Goto(s, "over")
    /\ UNCHANGED <<ticket, online, chan, buffered, user, inst, workers, running, hist>>

-----------------------------------------------------------------------------
(* Publish reaches every running instance's subscription.                  *)
Publish(u) ==
    /\ notices < MaxNotices
    /\ notices' = notices + 1
    /\ inbox' = [i \in Instances |->
                    IF i \in running THEN [inbox[i] EXCEPT ![u] = @ + 1] ELSE inbox[i]]
    /\ UNCHANGED <<redis, online, streams, target, beat, running, replaced, older, admitted>>

\* StartListener looks the channel up under the read lock and sends after it.
ListenerLookup(i, u) ==
    /\ i \in running /\ target[i] = NoStream /\ inbox[i][u] > 0
    /\ inbox' = [inbox EXCEPT ![i][u] = @ - 1]
    /\ target' = [target EXCEPT ![i] = online[i][u]]
    /\ UNCHANGED <<redis, online, streams, beat, running, hist>>

\* A full buffer drops the notice; a closed channel panics, and no one recovers.
ListenerSend(i) ==
    LET c == target[i] IN
    /\ i \in running /\ c # NoStream
    /\ target' = [target EXCEPT ![i] = NoStream]
    /\ \/ /\ chan[c] = "open"
          /\ buffered' = [buffered EXCEPT ![c] = IF @ < BufferSize THEN @ + 1 ELSE @]
          /\ UNCHANGED running
       \/ /\ chan[c] = "closed"
          /\ running' = running \ {i}
          /\ UNCHANGED buffered
    /\ UNCHANGED <<redis, online, chan, stream, user, inst, inbox, beat, hist>>

\* Mutant: only keys that are still set are refreshed.
TickKnownKeys(i) ==
    /\ i \in running /\ beat[i] = {}
    /\ beat' = [beat EXCEPT ![i] = {u \in key : online[i][u] # NoStream}]
    /\ UNCHANGED <<redis, online, streams, inbox, target, running, hist>>

(* StartHeartbeat: collect the users under the read lock, then SET each.     *)
HeartbeatTick(i) ==
    /\ i \in running /\ beat[i] = {}
    /\ beat' = [beat EXCEPT ![i] = {u \in Users : online[i][u] # NoStream}]
    /\ UNCHANGED <<redis, online, streams, inbox, target, running, hist>>

HeartbeatSet(i, u) ==
    /\ i \in running /\ u \in beat[i]
    /\ beat' = [beat EXCEPT ![i] = @ \ {u}]
    /\ key' = key \cup {u}
    /\ UNCHANGED <<ticket, online, streams, inbox, target, running, hist>>

\* Three heartbeats fit into the key's TTL, so it ends only when no instance
\* that runs refreshes it.
KeyExpires(u) ==
    /\ u \in key
    /\ \A i \in running : online[i][u] = NoStream /\ u \notin beat[i]
    /\ key' = key \ {u}
    /\ UNCHANGED <<ticket, online, streams, workers, running, hist>>

(* Close, at shutdown: every registered channel, under the lock.             *)
Close(i) ==
    /\ i \in running /\ Registered(i) # {}
    /\ chan' = [c \in Streams |-> IF c \in Registered(i) THEN "closed" ELSE chan[c]]
    /\ replaced' = replaced \cup Registered(i)
    /\ key' = key \ {u \in Users : online[i][u] # NoStream}
    /\ online' = [online EXCEPT ![i] = [u \in Users |-> NoStream]]
    /\ UNCHANGED <<ticket, buffered, stream, user, inst, workers, running, notices, older, admitted>>

-----------------------------------------------------------------------------
StreamNext(s) ==
    \/ \E t \in Tickets : ConsumeTicket(s, t)
    \/ Connect(s) \/ ConnectSetKey(s)
    \/ StreamEvent(s) \/ StreamEnds(s)
    \/ Disconnect(s) \/ DisconnectDelKey(s)

HubNext(i) ==
    \/ \E u \in Users : ListenerLookup(i, u) \/ HeartbeatSet(i, u)
    \/ ListenerSend(i) \/ HeartbeatTick(i) \/ Close(i)

Next ==
    \/ \E t \in Tickets : TicketExpires(t) \/ \E u \in Users : CreateTicket(t, u)
    \/ \E u \in Users : Publish(u) \/ KeyExpires(u)
    \/ \E s \in Streams : StreamNext(s)
    \/ \E i \in Instances : HubNext(i)

Spec == Init /\ [][Next]_vars

(* The heartbeat's ticker fires and its loop gets through; handlers run.     *)
Fairness ==
    /\ \A i \in Instances, u \in Users :
         WF_vars(online[i][u] # NoStream /\ HeartbeatTick(i)) /\ WF_vars(HeartbeatSet(i, u))
    /\ \A s \in Streams : WF_vars(ConnectSetKey(s)) /\ WF_vars(Disconnect(s))
                          /\ WF_vars(DisconnectDelKey(s))

FairSpec == Spec /\ Fairness

-----------------------------------------------------------------------------
(* Properties.                                                             *)

\* A ticket admits at most one stream, however many present it at once.
TicketAdmitsOnce ==
    /\ \A a, b \in admitted : a.ticket = b.ticket => a = b
    /\ \A a \in admitted : ticket[a.ticket] = NoUser

\* Every channel in a running instance's map is open, belongs to a stream of that
\* user on that instance, and to one that has yet to run its Disconnect: the map
\* never leaks a stream that is over.
MapIsLive ==
    \A i \in running, u \in Users :
        LET s == online[i][u] IN
        s # NoStream =>
            /\ chan[s] = "open" /\ user[s] = u /\ inst[s] = i
            /\ stream[s] \in Connected

\* An admitted stream has a user, a connected one a channel, and only the hub
\* closes channels.
StreamsConsistent ==
    \A s \in Streams :
        /\ stream[s] \in Connected \cup {"admitted", "unlisted"} => user[s] \in Users
        /\ stream[s] \in Connected => chan[s] # "none"
        /\ chan[s] = "closed" => s \in replaced

\* The stream a hub sends to is the last one of its user that connected there:
\* every other one that is still connected was so when it connected.
RegisteredIsLatest ==
    \A i \in running, u \in Users :
        online[i][u] # NoStream =>
            ConnectedOf(u, i) \subseteq older[online[i][u]] \cup {online[i][u]}

\* The types, and what the four parts above say.
HubInv == TypeOK /\ TicketAdmitsOnce /\ MapIsLive /\ StreamsConsistent /\ RegisteredIsLatest

\* A connected stream on an open channel is the one its hub sends to, or a stream
\* of its user that was connected on its instance when it connected has run the
\* deferred Disconnect, which names only the user, since then.  (That one need
\* not have been replaced itself: its own entry may have gone the same way.)
\* Nothing else silences a stream: not a stream that connects later, nor the end
\* of one on another instance or of one that ended before it connected.
SilencedOnlyByOlder ==
    \A s \in Streams :
        stream[s] \in Connected /\ chan[s] = "open" /\ Up(s) =>
            \/ online[inst[s]][user[s]] = s
            \/ \E r \in older[s] : stream[r] \in {"unlisted", "over"}

\* The listener brings its instance down only with a channel that a second
\* stream of the user, or Close, closed between lookup and send: a stream that
\* ends never causes it.
CrashNeedsReplacement ==
    [][\A i \in running : i \notin running' => target[i] \in replaced]_vars

\* The online key of a user who is registered somewhere is set again in the end,
\* also after another instance's Disconnect, or a late one, deleted it.
OnlineKeyRestored ==
    \A i \in Instances, u \in Users :
        i \in running /\ online[i][u] # NoStream ~>
            u \in key \/ online[i][u] = NoStream \/ i \notin running

=============================================================================
