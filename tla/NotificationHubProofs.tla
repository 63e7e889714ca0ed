----------------------- MODULE NotificationHubProofs ------------------------
(***************************************************************************)
(* Tickets, the hub's map and what can silence a stream or bring down an   *)
(* instance, for any number of users, instances and streams.               *)
(***************************************************************************)
EXTENDS NotificationHub, TLAPS

USE HubAssumption

-----------------------------------------------------------------------------
(* Types.                                                                  *)
LEMMA HubTypes ==
  ASSUME TypeOK, StreamsConsistent, [Next]_vars
  PROVE  TypeOK'
<1> USE DEF TypeOK, redis, streams, workers, hist
<1>1. ASSUME NEW t \in Tickets, TicketExpires(t) PROVE TypeOK'
  BY <1>1 DEF TicketExpires
<1>2. ASSUME NEW t \in Tickets, NEW u \in Users, CreateTicket(t, u) PROVE TypeOK'
  BY <1>2 DEF CreateTicket
<1>3. ASSUME NEW u \in Users, Publish(u) PROVE TypeOK'
  <2>1. inbox' \in [Instances -> [Users -> Nat]]
    BY <1>3 DEF Publish
  <2> QED BY <1>3, <2>1 DEF Publish
<1>4. ASSUME NEW u \in Users, KeyExpires(u) PROVE TypeOK'
  BY <1>4 DEF KeyExpires
<1>5. ASSUME NEW s \in Streams, NEW t \in Tickets, ConsumeTicket(s, t) PROVE TypeOK'
  <2>1. [stream |-> s, ticket |-> t] \in [stream : Streams, ticket : Tickets]
    OBVIOUS
  <2> QED BY <1>5, <2>1, ZenonT(30) DEF ConsumeTicket, Goto, StreamSteps
<1>6. ASSUME NEW s \in Streams, Connect(s) PROVE TypeOK'
  <2>1. user[s] \in Users /\ inst[s] \in Instances
    BY <1>6 DEF Connect, StreamsConsistent, Up
  <2>2. online[inst[s]][user[s]] \in Streams \cup {NoStream}
    BY <2>1
  <2>3. online' \in [Instances -> [Users -> Streams \cup {NoStream}]]
    BY <1>6, <2>1 DEF Connect
  <2>4. chan' \in [Streams -> {"none", "open", "closed"}] /\ replaced' \subseteq Streams
    BY <1>6, <2>2 DEF Connect
  <2>5. older' \in [Streams -> SUBSET Streams]
    BY <1>6 DEF Connect, ConnectedOf
  <2> QED BY <1>6, <2>3, <2>4, <2>5 DEF Connect, Goto, StreamSteps
<1>7. ASSUME NEW s \in Streams, ConnectSetKey(s) PROVE TypeOK'
  <2>1. user[s] \in Users
    BY <1>7 DEF ConnectSetKey, StreamsConsistent, Connected
  <2> QED BY <1>7, <2>1 DEF ConnectSetKey, Goto, StreamSteps
<1>8. ASSUME NEW s \in Streams, StreamEvent(s) PROVE TypeOK'
  BY <1>8 DEF StreamEvent
<1>9. ASSUME NEW s \in Streams, StreamEnds(s) PROVE TypeOK'
  BY <1>9 DEF StreamEnds, Goto, StreamSteps
<1>10. ASSUME NEW s \in Streams, Disconnect(s) PROVE TypeOK'
  <2>1. user[s] \in Users /\ inst[s] \in Instances
    BY <1>10 DEF Disconnect, StreamsConsistent, Connected, Up
  <2>2. online' \in [Instances -> [Users -> Streams \cup {NoStream}]]
    BY <1>10, <2>1 DEF Disconnect
  <2> QED BY <1>10, <2>2 DEF Disconnect, Goto, StreamSteps
<1>11. ASSUME NEW s \in Streams, DisconnectDelKey(s) PROVE TypeOK'
  BY <1>11 DEF DisconnectDelKey, Goto, StreamSteps
<1>12. ASSUME NEW i \in Instances, NEW u \in Users, ListenerLookup(i, u) PROVE TypeOK'
  <2>1. inbox' \in [Instances -> [Users -> Nat]]
    BY <1>12 DEF ListenerLookup
  <2>2. target' \in [Instances -> Streams \cup {NoStream}]
    BY <1>12 DEF ListenerLookup
  <2> QED BY <1>12, <2>1, <2>2 DEF ListenerLookup
<1>13. ASSUME NEW i \in Instances, ListenerSend(i) PROVE TypeOK'
  <2>1. PICK c \in Streams : c = target[i]
    BY <1>13 DEF ListenerSend
  <2>2. buffered[c] \in 0..BufferSize
    BY <2>1
  <2>3. (IF buffered[c] < BufferSize THEN buffered[c] + 1 ELSE buffered[c]) \in 0..BufferSize
    BY <2>2
  <2>4. buffered' \in [Streams -> 0..BufferSize]
    BY <1>13, <2>1, <2>3, ZenonT(30) DEF ListenerSend
  <2> QED BY <1>13, <2>4 DEF ListenerSend
<1>14. ASSUME NEW i \in Instances, HeartbeatTick(i) PROVE TypeOK'
  BY <1>14 DEF HeartbeatTick
<1>15. ASSUME NEW i \in Instances, NEW u \in Users, HeartbeatSet(i, u) PROVE TypeOK'
  BY <1>15 DEF HeartbeatSet
<1>16. ASSUME NEW i \in Instances, Close(i) PROVE TypeOK'
  <2>1. Registered(i) \subseteq Streams
    BY <1>16 DEF Registered
  <2>2. online' \in [Instances -> [Users -> Streams \cup {NoStream}]]
    BY <1>16 DEF Close
  <2> QED BY <1>16, <2>1, <2>2 DEF Close
<1>17. CASE UNCHANGED vars
  BY <1>17 DEF vars
<1> QED BY <1>1, <1>2, <1>3, <1>4, <1>5, <1>6, <1>7, <1>8, <1>9, <1>10, <1>11, <1>12, <1>13,
           <1>14, <1>15, <1>16, <1>17 DEF Next, StreamNext, HubNext

(* A ticket is gone when a stream is admitted with it, and is never created  *)
(* again.                                                                   *)
LEMMA HubTickets ==
  ASSUME TypeOK, TicketAdmitsOnce, [Next]_vars
  PROVE  TicketAdmitsOnce'
<1> USE DEF TypeOK, TicketAdmitsOnce
<1>1. ASSUME NEW t \in Tickets, TicketExpires(t) PROVE TicketAdmitsOnce'
  BY <1>1 DEF TicketExpires, hist
<1>2. ASSUME NEW t \in Tickets, NEW u \in Users, CreateTicket(t, u) PROVE TicketAdmitsOnce'
  BY <1>2 DEF CreateTicket, hist
<1>3. ASSUME NEW s \in Streams, NEW t \in Tickets, ConsumeTicket(s, t) PROVE TicketAdmitsOnce'
  <2>1. CASE UNCHANGED <<ticket, admitted>>
    BY <2>1
  <2>2. CASE /\ ticket[t] # NoUser /\ ticket' = [ticket EXCEPT ![t] = NoUser]
             /\ admitted' = admitted \cup {[stream |-> s, ticket |-> t]}
    <3>1. \A a \in admitted : a.ticket # t /\ a.ticket \in Tickets
      BY <2>2
    <3>2. [stream |-> s, ticket |-> t].ticket = t
      OBVIOUS
    <3>3. \A a, b \in admitted' : a.ticket = b.ticket => a = b
      BY <2>2, <3>1, <3>2
    <3>4. \A a \in admitted' : ticket'[a.ticket] = NoUser
      BY <2>2, <3>1, <3>2
    <3> QED BY <3>3, <3>4
  <2> QED BY <1>3, <2>1, <2>2 DEF ConsumeTicket
<1>4. CASE UNCHANGED <<ticket, admitted>>
  BY <1>4
<1> QED BY <1>1, <1>2, <1>3, <1>4
        DEF Next, StreamNext, HubNext, Publish, KeyExpires, Connect, ConnectSetKey, StreamEvent,
            StreamEnds, Disconnect, DisconnectDelKey, ListenerLookup, ListenerSend,
            HeartbeatTick, HeartbeatSet, Close, vars, redis, hist

(* A registered channel: Connect's slot is the only one that changes, and    *)
(* the channel it closes was in that slot.                                  *)
LEMMA HubMap ==
  ASSUME TypeOK, MapIsLive, StreamsConsistent, [Next]_vars
  PROVE  MapIsLive'
<1> USE DEF TypeOK, MapIsLive
<1>1. ASSUME NEW s \in Streams, NEW t \in Tickets, ConsumeTicket(s, t) PROVE MapIsLive'
  <2>1. /\ UNCHANGED <<online, chan, inst, running>> /\ stream[s] = "new"
        /\ \A r \in Streams \ {s} : stream'[r] = stream[r] /\ user'[r] = user[r]
    BY <1>1 DEF ConsumeTicket, Goto
  <2>2. ASSUME NEW i \in running, NEW u \in Users, online[i][u] # NoStream
        PROVE  online[i][u] \in Streams \ {s}
    <3>1. online[i][u] \in Streams
      BY <2>2
    <3>2. stream[online[i][u]] # "new"
      BY <2>2 DEF Connected
    <3> QED BY <2>1, <3>1, <3>2
  <2> QED BY <2>1, <2>2
<1>2. ASSUME NEW s \in Streams, Connect(s) PROVE MapIsLive'
  <2>1. user[s] \in Users /\ inst[s] \in Instances
    BY <1>2 DEF Connect, StreamsConsistent, Up
  <2> SUFFICES ASSUME NEW i \in running, NEW u \in Users, online'[i][u] # NoStream
               PROVE  /\ chan'[online'[i][u]] = "open" /\ user[online'[i][u]] = u
                      /\ inst[online'[i][u]] = i /\ stream'[online'[i][u]] \in Connected
    BY <1>2 DEF Connect
  <2>2. CASE i = inst[s] /\ u = user[s]
    <3>1. online'[i][u] = s
      BY <1>2, <2>1, <2>2 DEF Connect
    <3> QED BY <1>2, <2>2, <3>1 DEF Connect, Goto, Connected
  <2>3. CASE ~(i = inst[s] /\ u = user[s])
    <3>1. online'[i][u] = online[i][u] /\ online[i][u] \in Streams
      BY <1>2, <2>1, <2>3 DEF Connect
    <3>2. online[i][u] # s /\ online[i][u] # online[inst[s]][user[s]]
      BY <1>2, <2>1, <2>3, <3>1 DEF Connect, Connected, Up
    <3> QED BY <1>2, <3>1, <3>2 DEF Connect, Goto
  <2> QED BY <2>2, <2>3
<1>3. ASSUME NEW s \in Streams, ConnectSetKey(s) \/ StreamEnds(s) PROVE MapIsLive'
  <2>1. /\ UNCHANGED <<online, chan, user, inst, running>>
        /\ \A r \in Streams : stream[r] \in Connected => stream'[r] \in Connected
    BY <1>3 DEF ConnectSetKey, StreamEnds, Goto, Connected
  <2> QED BY <2>1
<1>4. ASSUME NEW s \in Streams, Disconnect(s) PROVE MapIsLive'
  <2>1. user[s] \in Users /\ inst[s] \in Instances
    BY <1>4 DEF Disconnect, StreamsConsistent, Connected, Up
  <2> SUFFICES ASSUME NEW i \in running, NEW u \in Users, online'[i][u] # NoStream
               PROVE  /\ chan[online'[i][u]] = "open" /\ user[online'[i][u]] = u
                      /\ inst[online'[i][u]] = i /\ stream'[online'[i][u]] \in Connected
    BY <1>4 DEF Disconnect
  <2>2. ~(i = inst[s] /\ u = user[s])
    BY <1>4, <2>1 DEF Disconnect
  <2>3. online'[i][u] = online[i][u] /\ online[i][u] \in Streams \ {s}
    BY <1>4, <2>1, <2>2 DEF Disconnect
  <2> QED BY <1>4, <2>3 DEF Disconnect, Goto
<1>5. ASSUME NEW s \in Streams, DisconnectDelKey(s) PROVE MapIsLive'
  BY <1>5 DEF DisconnectDelKey, Goto, Connected
<1>6. ASSUME NEW i \in Instances, ListenerSend(i) PROVE MapIsLive'
  BY <1>6 DEF ListenerSend
<1>7. ASSUME NEW i \in Instances, Close(i) PROVE MapIsLive'
  <2> SUFFICES ASSUME NEW j \in running, NEW u \in Users, online'[j][u] # NoStream
               PROVE  /\ chan'[online'[j][u]] = "open" /\ user[online'[j][u]] = u
                      /\ inst[online'[j][u]] = j /\ stream[online'[j][u]] \in Connected
    BY <1>7 DEF Close
  <2>1. j # i /\ online'[j][u] = online[j][u]
    BY <1>7 DEF Close
  <2>2. \A v \in Users : online[i][v] # online[j][u]
    BY <1>7, <2>1 DEF Close
  <2>3. online[j][u] \notin Registered(i) /\ online[j][u] \in Streams
    BY <2>1, <2>2 DEF Registered
  <2> QED BY <1>7, <2>1, <2>3 DEF Close
<1>8. CASE UNCHANGED <<online, chan, user, inst, stream, running>>
  BY <1>8
<1> QED BY <1>1, <1>2, <1>3, <1>4, <1>5, <1>6, <1>7, <1>8
        DEF Next, StreamNext, HubNext, TicketExpires, CreateTicket, Publish, KeyExpires,
            StreamEvent, ListenerLookup, HeartbeatTick, HeartbeatSet, vars, streams

(* Users, channels and the record of what the hub closed.                   *)
LEMMA HubStreams ==
  ASSUME TypeOK, StreamsConsistent, [Next]_vars
  PROVE  StreamsConsistent'
<1> USE DEF TypeOK, StreamsConsistent, Connected
<1>1. ASSUME NEW s \in Streams, NEW t \in Tickets, ConsumeTicket(s, t)
      PROVE  StreamsConsistent'
  BY <1>1 DEF ConsumeTicket, Goto
<1>2. ASSUME NEW s \in Streams, Connect(s) PROVE StreamsConsistent'
  BY <1>2 DEF Connect, Goto
<1>3. ASSUME NEW s \in Streams, ConnectSetKey(s) \/ StreamEnds(s) PROVE StreamsConsistent'
  BY <1>3 DEF ConnectSetKey, StreamEnds, Goto, hist
<1>4. ASSUME NEW s \in Streams, Disconnect(s) \/ DisconnectDelKey(s) PROVE StreamsConsistent'
  BY <1>4 DEF Disconnect, DisconnectDelKey, Goto, hist
<1>5. ASSUME NEW i \in Instances, Close(i) PROVE StreamsConsistent'
  BY <1>5 DEF Close
<1>6. CASE UNCHANGED <<chan, user, stream, replaced>>
  BY <1>6
<1> QED BY <1>1, <1>2, <1>3, <1>4, <1>5, <1>6
        DEF Next, StreamNext, HubNext, TicketExpires, CreateTicket, Publish, KeyExpires,
            StreamEvent, ListenerLookup, ListenerSend, HeartbeatTick, HeartbeatSet,
            vars, streams, hist

(* Connect enters the latest stream and remembers who was there; nobody      *)
(* becomes connected in another way.                                        *)
LEMMA HubLatest ==
  ASSUME TypeOK, MapIsLive, StreamsConsistent, RegisteredIsLatest, [Next]_vars
  PROVE  RegisteredIsLatest'
<1> USE DEF TypeOK
<1>0. ASSUME UNCHANGED <<online, older, running>>,
             \A s \in Streams : stream'[s] \in Connected =>
                stream[s] \in Connected /\ user'[s] = user[s] /\ inst'[s] = inst[s]
      PROVE  RegisteredIsLatest'
  BY <1>0 DEF RegisteredIsLatest, ConnectedOf
<1>1. ASSUME NEW c \in Streams, NEW t \in Tickets, ConsumeTicket(c, t) PROVE RegisteredIsLatest'
  <2>1. /\ UNCHANGED <<online, older, running, inst>> /\ stream'[c] \in {"over", "admitted"}
        /\ \A r \in Streams \ {c} : stream'[r] = stream[r] /\ user'[r] = user[r]
    BY <1>1 DEF ConsumeTicket, Goto
  <2> QED BY <1>0, <2>1 DEF Connected
<1>2. ASSUME NEW c \in Streams, Connect(c) PROVE RegisteredIsLatest'
  <2>1. user[c] \in Users /\ inst[c] \in Instances
    BY <1>2 DEF Connect, StreamsConsistent, Up
  <2>2. /\ UNCHANGED <<user, inst, running>>
        /\ stream' = [stream EXCEPT ![c] = "registered"]
        /\ online' = [online EXCEPT ![inst[c]][user[c]] = c]
        /\ older' = [older EXCEPT ![c] = ConnectedOf(user[c], inst[c])]
        /\ stream[c] = "admitted"
    BY <1>2 DEF Connect, Goto
  <2> SUFFICES ASSUME NEW i \in running, NEW u \in Users, online'[i][u] # NoStream,
                      NEW x \in Streams, stream'[x] \in Connected, user[x] = u, inst[x] = i,
                      x # online'[i][u]
               PROVE  x \in older'[online'[i][u]]
    BY <2>2 DEF RegisteredIsLatest, ConnectedOf
  <2>3. CASE i = inst[c] /\ u = user[c]
    <3>1. online'[i][u] = c
      BY <2>1, <2>2, <2>3
    <3>2. x \in ConnectedOf(user[c], inst[c])
      BY <2>2, <2>3, <3>1 DEF ConnectedOf
    <3> QED BY <2>2, <3>1, <3>2
  <2>4. CASE ~(i = inst[c] /\ u = user[c])
    <3>1. online'[i][u] = online[i][u] /\ online[i][u] \in Streams /\ x # c
      BY <2>1, <2>2, <2>4
    <3>2. x \in ConnectedOf(u, i)
      BY <2>2, <3>1 DEF ConnectedOf
    <3>3. x \in older[online[i][u]]
      BY <3>1, <3>2 DEF RegisteredIsLatest
    <3>4. online[i][u] # c
      <4>1. online[i][u] # NoStream
        BY <3>1
      <4>2. stream[online[i][u]] \in Connected
        BY <4>1 DEF MapIsLive
      <4> QED BY <2>2, <4>2 DEF Connected
    <3> QED BY <2>2, <3>1, <3>3, <3>4
  <2> QED BY <2>3, <2>4
<1>3. ASSUME NEW c \in Streams, ConnectSetKey(c) \/ StreamEnds(c) PROVE RegisteredIsLatest'
  BY <1>0, <1>3 DEF ConnectSetKey, StreamEnds, Goto, Connected, hist
<1>4. ASSUME NEW c \in Streams, Disconnect(c) PROVE RegisteredIsLatest'
  <2>1. user[c] \in Users /\ inst[c] \in Instances
    BY <1>4 DEF Disconnect, StreamsConsistent, Connected, Up
  <2>2. /\ UNCHANGED <<user, inst, running, older>>
        /\ stream' = [stream EXCEPT ![c] = "unlisted"]
        /\ online' = [online EXCEPT ![inst[c]][user[c]] = NoStream]
    BY <1>4 DEF Disconnect, Goto, hist
  <2>3. \A i \in Instances, u \in Users : online'[i][u] \in {online[i][u], NoStream}
    BY <2>1, <2>2
  <2>4. \A i \in Instances, u \in Users : ConnectedOf(u, i)' \subseteq ConnectedOf(u, i)
    BY <2>2 DEF ConnectedOf, Connected
  <2> QED BY <2>2, <2>3, <2>4 DEF RegisteredIsLatest
<1>5. ASSUME NEW c \in Streams, DisconnectDelKey(c) PROVE RegisteredIsLatest'
  BY <1>0, <1>5 DEF DisconnectDelKey, Goto, Connected, hist
<1>6. ASSUME NEW i \in Instances, ListenerSend(i) PROVE RegisteredIsLatest'
  BY <1>6 DEF ListenerSend, RegisteredIsLatest, ConnectedOf, hist
<1>7. ASSUME NEW i \in Instances, Close(i) PROVE RegisteredIsLatest'
  <2>1. /\ UNCHANGED <<stream, user, inst, running, older>>
        /\ online' = [online EXCEPT ![i] = [u \in Users |-> NoStream]]
    BY <1>7 DEF Close
  <2>2. \A j \in Instances, u \in Users : online'[j][u] \in {online[j][u], NoStream}
    BY <2>1
  <2> QED BY <2>1, <2>2 DEF RegisteredIsLatest, ConnectedOf
<1>8. CASE UNCHANGED <<online, older, user, inst, stream, running>>
  BY <1>0, <1>8
<1> QED BY <1>1, <1>2, <1>3, <1>4, <1>5, <1>6, <1>7, <1>8
        DEF Next, StreamNext, HubNext, TicketExpires, CreateTicket, Publish, KeyExpires,
            StreamEvent, ListenerLookup, HeartbeatTick, HeartbeatSet, vars, streams, hist

(* A stream whose hub entry an older stream of the user has removed.        *)
Bereft(s) == \E r \in older[s] : stream[r] \in {"unlisted", "over"}

(* What silences a stream.  A Disconnect of the same user and instance takes *)
(* its entry, and the stream that runs it was there first.                   *)
LEMMA HubSilence ==
  ASSUME TypeOK, MapIsLive, StreamsConsistent, RegisteredIsLatest, SilencedOnlyByOlder,
         [Next]_vars
  PROVE  SilencedOnlyByOlder'
<1> USE DEF TypeOK
<1>0. \A s \in Streams : stream[s] \in Connected /\ chan[s] = "open" /\ Up(s) =>
          online[inst[s]][user[s]] = s \/ Bereft(s)
  BY DEF SilencedOnlyByOlder, Bereft
<1> SUFFICES ASSUME NEW s \in Streams, stream'[s] \in Connected, chan'[s] = "open",
                    inst'[s] \in running'
             PROVE  online'[inst'[s]][user'[s]] = s \/ Bereft(s)'
  BY DEF SilencedOnlyByOlder, Bereft, Up
<1>1. ASSUME NEW c \in Streams, NEW t \in Tickets, ConsumeTicket(c, t)
      PROVE  online'[inst'[s]][user'[s]] = s \/ Bereft(s)'
  <2>1. /\ UNCHANGED <<online, chan, inst, running, older>> /\ stream[c] = "new"
        /\ stream'[c] \in {"over", "admitted"}
        /\ \A r \in Streams \ {c} : stream'[r] = stream[r] /\ user'[r] = user[r]
    BY <1>1 DEF ConsumeTicket, Goto
  <2>2. s # c
    BY <2>1 DEF Connected
  <2>3. Bereft(s) => Bereft(s)'
    BY <2>1, <2>2 DEF Bereft
  <2> QED BY <1>0, <2>1, <2>2, <2>3 DEF Up
<1>2. ASSUME NEW c \in Streams, Connect(c)
      PROVE  online'[inst'[s]][user'[s]] = s \/ Bereft(s)'
  <2>1. user[c] \in Users /\ inst[c] \in Instances
    BY <1>2 DEF Connect, StreamsConsistent, Up
  <2>2. /\ UNCHANGED <<user, inst, running>>
        /\ stream[c] = "admitted" /\ stream' = [stream EXCEPT ![c] = "registered"]
        /\ online' = [online EXCEPT ![inst[c]][user[c]] = c]
        /\ \A r \in Streams \ {c} : older'[r] = older[r]
    BY <1>2 DEF Connect, Goto
  <2>3. CASE s = c
    BY <2>1, <2>2, <2>3
  <2>4. CASE s # c
    <3>1. /\ stream[s] \in Connected /\ chan[s] = "open" /\ Up(s)
          /\ s # online[inst[c]][user[c]]
      BY <1>2, <2>2, <2>4 DEF Connect, Up
    <3>2. Bereft(s) => Bereft(s)'
      BY <2>2, <2>4 DEF Bereft
    <3>3. ASSUME online[inst[s]][user[s]] = s PROVE online'[inst[s]][user[s]] = s
      <4>1. ~(inst[s] = inst[c] /\ user[s] = user[c])
        BY <3>1, <3>3
      <4>2. user[s] \in Users /\ inst[s] \in Instances
        BY <3>1 DEF StreamsConsistent, Up
      <4> QED BY <2>1, <2>2, <3>3, <4>1, <4>2
    <3> QED BY <1>0, <2>2, <3>1, <3>2, <3>3
  <2> QED BY <2>3, <2>4
<1>3. ASSUME NEW c \in Streams, ConnectSetKey(c) \/ StreamEnds(c)
      PROVE  online'[inst'[s]][user'[s]] = s \/ Bereft(s)'
  <2>1. /\ UNCHANGED <<online, chan, user, inst, running, older>>
        /\ stream[c] \in Connected /\ stream'[c] \in Connected
        /\ \A r \in Streams \ {c} : stream'[r] = stream[r]
    BY <1>3 DEF ConnectSetKey, StreamEnds, Goto, Connected, hist
  <2>2. Bereft(s) => Bereft(s)'
    BY <2>1 DEF Bereft, Connected
  <2> QED BY <1>0, <2>1, <2>2 DEF Up
<1>4. ASSUME NEW c \in Streams, Disconnect(c)
      PROVE  online'[inst'[s]][user'[s]] = s \/ Bereft(s)'
  <2>1. /\ UNCHANGED <<chan, user, inst, running, older>>
        /\ stream[c] = "ending" /\ stream' = [stream EXCEPT ![c] = "unlisted"]
        /\ online' = [online EXCEPT ![inst[c]][user[c]] = NoStream]
        /\ inst[c] \in running
    BY <1>4 DEF Disconnect, Goto, Up, hist
  <2>2. s # c /\ stream[s] \in Connected /\ chan[s] = "open" /\ Up(s)
    BY <2>1 DEF Connected, Up
  <2>3. user[c] \in Users /\ user[s] \in Users /\ inst[s] \in Instances
    BY <2>1, <2>2 DEF StreamsConsistent, Connected, Up
  <2>4. Bereft(s) => Bereft(s)'
    BY <2>1 DEF Bereft
  <2>5. ASSUME online[inst[s]][user[s]] = s, inst[s] = inst[c], user[s] = user[c]
        PROVE  Bereft(s)'
    <3>1. c \in ConnectedOf(user[s], inst[s])
      BY <2>1, <2>5 DEF ConnectedOf, Connected
    <3>2. s # NoStream /\ inst[s] \in running
      BY <2>2 DEF Up
    <3>3. c \in older[s]
      BY <2>2, <2>3, <2>5, <3>1, <3>2 DEF RegisteredIsLatest
    <3> QED BY <2>1, <3>3 DEF Bereft
  <2>6. ASSUME online[inst[s]][user[s]] = s, ~(inst[s] = inst[c] /\ user[s] = user[c])
        PROVE  online'[inst[s]][user[s]] = s
    BY <2>1, <2>3, <2>6
  <2> QED BY <1>0, <2>1, <2>2, <2>4, <2>5, <2>6
<1>5. ASSUME NEW c \in Streams, DisconnectDelKey(c)
      PROVE  online'[inst'[s]][user'[s]] = s \/ Bereft(s)'
  BY <1>0, <1>5 DEF DisconnectDelKey, Goto, Connected, Bereft, Up, hist
<1>6. ASSUME NEW i \in Instances, ListenerSend(i)
      PROVE  online'[inst'[s]][user'[s]] = s \/ Bereft(s)'
  BY <1>0, <1>6 DEF ListenerSend, Bereft, Up, hist
<1>7. ASSUME NEW i \in Instances, Close(i)
      PROVE  online'[inst'[s]][user'[s]] = s \/ Bereft(s)'
  <2>1. /\ UNCHANGED <<stream, user, inst, running, older>>
        /\ chan[s] = "open" /\ s \notin Registered(i)
        /\ online' = [online EXCEPT ![i] = [u \in Users |-> NoStream]]
    BY <1>7 DEF Close
  <2>2. stream[s] \in Connected /\ Up(s) /\ user[s] \in Users /\ inst[s] \in Instances
    BY <2>1 DEF Up, StreamsConsistent
  <2>3. online[inst[s]][user[s]] = s => inst[s] # i
    BY <2>1, <2>2 DEF Registered
  <2> QED BY <1>0, <2>1, <2>2, <2>3 DEF Bereft
<1>8. CASE UNCHANGED <<online, chan, user, inst, stream, running, older>>
  BY <1>0, <1>8 DEF Bereft, Up
<1> QED BY <1>1, <1>2, <1>3, <1>4, <1>5, <1>6, <1>7, <1>8
        DEF Next, StreamNext, HubNext, TicketExpires, CreateTicket, Publish, KeyExpires,
            StreamEvent, ListenerLookup, HeartbeatTick, HeartbeatSet, vars, streams, hist

-----------------------------------------------------------------------------
(* The inductive invariant of the hub and its streams.                      *)
THEOREM HubInductive == Spec => [](HubInv /\ SilencedOnlyByOlder)
<1>1. Init => HubInv /\ SilencedOnlyByOlder
  <2> SUFFICES ASSUME Init PROVE HubInv /\ SilencedOnlyByOlder
    OBVIOUS
  <2> USE DEF Init
  <2>1. TypeOK
    BY DEF TypeOK, StreamSteps
  <2>2. TicketAdmitsOnce /\ MapIsLive /\ StreamsConsistent
    BY DEF TicketAdmitsOnce, MapIsLive, StreamsConsistent, Connected
  <2>3. RegisteredIsLatest /\ SilencedOnlyByOlder
    BY DEF RegisteredIsLatest, SilencedOnlyByOlder, Connected
  <2> QED BY <2>1, <2>2, <2>3 DEF HubInv
<1>2. HubInv /\ SilencedOnlyByOlder /\ [Next]_vars => HubInv' /\ SilencedOnlyByOlder'
  BY HubTypes, HubTickets, HubMap, HubStreams, HubLatest, HubSilence DEF HubInv
<1> QED BY <1>1, <1>2, PTL DEF Spec

(* A ticket admits once, the map has live streams only, and only the hub     *)
(* closes channels.                                                         *)
THEOREM HubConsistent == Spec => []HubInv
  BY HubInductive, PTL

(* A connected stream on an open channel hears its hub, unless a stream that *)
(* was connected before it, and still when it connected, has disconnected.   *)
THEOREM SilenceExplained == Spec => []SilencedOnlyByOlder
  BY HubInductive, PTL

(* An instance crashes only on a channel the hub itself closed: the stream   *)
(* that ends never closes one.                                             *)
THEOREM CrashExplained == Spec => CrashNeedsReplacement
<1>1. HubInv /\ [Next]_vars => [\A i \in running : i \notin running' => target[i] \in replaced]_vars
  <2> SUFFICES ASSUME HubInv, [Next]_vars, NEW i \in running, i \notin running'
               PROVE  target[i] \in replaced
    OBVIOUS
  <2>1. PICK j \in Instances : ListenerSend(j)
    BY DEF Next, StreamNext, HubNext, TicketExpires, CreateTicket, Publish, KeyExpires,
           ConsumeTicket, Connect, ConnectSetKey, StreamEvent, StreamEnds, Disconnect,
           DisconnectDelKey, ListenerLookup, HeartbeatTick, HeartbeatSet, Close, vars
  <2>2. i = j /\ target[i] # NoStream /\ chan[target[i]] = "closed"
    BY <2>1 DEF ListenerSend
  <2> QED BY <2>2 DEF HubInv, StreamsConsistent, TypeOK
<1> QED BY <1>1, HubConsistent, PTL DEF Spec, CrashNeedsReplacement
=============================================================================
