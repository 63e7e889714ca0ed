------------------------- MODULE AuthSessionsProofs -------------------------
(***************************************************************************)
(* Accounts, sessions and refresh tokens stay consistent for any number of *)
(* users, devices and concurrent requests.                                 *)
(***************************************************************************)
EXTENDS AuthSessions, TLAPS

USE SessionsAssumption DEF NoSid, NoTok

AuthInv == SessionsInv /\ RevokedIsFinal /\ RegistrationAllOrNothing

-----------------------------------------------------------------------------
(* What the steps have in common.                                          *)

(* The fields that a transaction has at each of its steps.                  *)
LEMMA JobFields ==
  ASSUME TypeOK, NEW r \in Requests
  PROVE  /\ job[r] \in Jobs
         /\ job[r].step \in {"free", "abandoned", "login", "rotate", "locked", "archived"}
                              \cup RegisterSteps
         /\ job[r].step = "free" => job[r] = Free
         /\ job[r].step \in RegisterSteps =>
               /\ job[r].user \in Users /\ job[r].dev \in Devices /\ job[r].push \in PushArgs
               /\ job[r].wrote \in SUBSET RegisterWrites
         /\ job[r].step = "login" =>
               /\ job[r].user \in Users /\ job[r].dev \in Devices /\ job[r].seen \in Sid \cup {NoSid}
         /\ job[r].step = "rotate" => job[r].old \in Token /\ job[r].sid \in Sid
         /\ job[r].step \in {"locked", "archived"} =>
               /\ job[r].sid \in Sid /\ job[r].user \in Users /\ job[r].hash \in Token \cup {NoTok}
<1>1. job[r] \in Jobs
  BY DEF TypeOK
<1>2. CASE job[r] = Free
  BY <1>1, <1>2 DEF Free, RegisterSteps
<1>3. CASE job[r] \in [step : {"abandoned"}]
  BY <1>1, <1>3 DEF RegisterSteps
<1>4. CASE job[r] \in [step : {"login"}, user : Users, dev : Devices, seen : Sid \cup {NoSid}]
  BY <1>1, <1>4 DEF RegisterSteps
<1>5. CASE job[r] \in [step : {"rotate"}, old : Token, sid : Sid]
  BY <1>1, <1>5 DEF RegisterSteps
<1>6. CASE job[r] \in [step : {"locked", "archived"}, sid : Sid, user : Users,
                       hash : Token \cup {NoTok}]
  BY <1>1, <1>6 DEF RegisterSteps
<1>7. CASE job[r] \in [step : RegisterSteps, user : Users, dev : Devices, push : PushArgs,
                       wrote : SUBSET RegisterWrites]
  BY <1>1, <1>7 DEF RegisterSteps
<1> QED BY <1>1, <1>2, <1>3, <1>4, <1>5, <1>6, <1>7 DEF Jobs

(* A transaction that begins or goes on keeps the jobs in their set.        *)
LEMMA JobTypes ==
  /\ Free \in Jobs /\ Abandoned \in Jobs
  /\ Free.step = "free" /\ Abandoned.step = "abandoned"
  /\ \A u \in Users, d \in Devices, n \in Sid \cup {NoSid} :
       [step |-> "login", user |-> u, dev |-> d, seen |-> n] \in Jobs
  /\ \A k \in Token, n \in Sid : [step |-> "rotate", old |-> k, sid |-> n] \in Jobs
  /\ \A n \in Sid, u \in Users, k \in Token \cup {NoTok}, st \in {"locked", "archived"} :
       [step |-> st, sid |-> n, user |-> u, hash |-> k] \in Jobs
  /\ \A st \in RegisterSteps, u \in Users, d \in Devices, p \in PushArgs,
        w \in SUBSET RegisterWrites : RegisterJob(st, u, d, p, w) \in Jobs
<1>1. Free \in Jobs /\ Free.step = "free"
  BY DEF Free, Jobs
<1>2. Abandoned \in Jobs /\ Abandoned.step = "abandoned"
  BY DEF Abandoned, Jobs
<1>3. \A u \in Users, d \in Devices, n \in Sid \cup {NoSid} :
        [step |-> "login", user |-> u, dev |-> d, seen |-> n] \in Jobs
  BY DEF Jobs
<1>4. \A k \in Token, n \in Sid : [step |-> "rotate", old |-> k, sid |-> n] \in Jobs
  BY DEF Jobs
<1>5. \A n \in Sid, u \in Users, k \in Token \cup {NoTok}, st \in {"locked", "archived"} :
        [step |-> st, sid |-> n, user |-> u, hash |-> k] \in Jobs
  BY DEF Jobs
<1>6. \A st \in RegisterSteps, u \in Users, d \in Devices, p \in PushArgs,
         w \in SUBSET RegisterWrites : RegisterJob(st, u, d, p, w) \in Jobs
  BY DEF Jobs, RegisterJob
<1> QED BY <1>1, <1>2, <1>3, <1>4, <1>5, <1>6

(* Two rows are the same session of the same user on the same device.       *)
Carries(n, s) == n.sid = s.sid /\ n.user = s.user /\ n.dev = s.dev

(* No row comes or goes; the one with the given id may have the new token.   *)
RowsKept(sid) ==
    /\ sessions' \subseteq Session
    /\ \A n \in sessions' : \E s \in sessions :
          Carries(n, s) /\ (n.hash = s.hash \/ (s.sid = sid /\ n.hash = NewToken))
    /\ \A s \in sessions : \E n \in sessions' :
          Carries(n, s) /\ (n.hash = s.hash \/ s.sid = sid)
    /\ \A m, n \in sessions' : m.sid = n.sid => m = n

(* The UPDATE of a session with a new refresh token.                        *)
LEMMA Overwritten ==
  ASSUME TypeOK, IdsInOrder, NEW sid, NEW p \in PushArgs, tokens < MaxTokens,
         sessions' = Reissued(sid, p)
  PROVE  RowsKept(sid) /\ \A n \in sessions' : n.sid = sid => n.hash = NewToken
<1> DEFINE New(s) == [s EXCEPT !.hash = NewToken, !.expired = FALSE, !.push = PushOr(p, @)]
<1>0. sessions \subseteq Session /\ NewToken \in Token
  <2>1. sessions \subseteq Session /\ tokens \in 0..MaxTokens
    BY DEF TypeOK
  <2> QED BY <2>1 DEF NewToken, Token
<1>1. ASSUME NEW s \in sessions
      PROVE  New(s) \in Session /\ Carries(New(s), s) /\ New(s).hash = NewToken
  <2>1. s \in Session /\ PushOr(p, s.push) \in PushTokens
    BY <1>0 DEF PushOr, PushArgs, Session
  <2> QED BY <1>0, <2>1 DEF Session, Carries
<1> HIDE DEF New
<1>2. sessions' = {x \in sessions : x.sid # sid} \cup {New(s) : s \in {t \in sessions : t.sid = sid}}
  BY DEF New, WithId, Reissued
<1>3. sessions' \subseteq Session
  BY <1>0, <1>1, <1>2
<1>4. \A n \in sessions' : \E s \in sessions :
        Carries(n, s) /\ ((n = s /\ s.sid # sid) \/ (n = New(s) /\ s.sid = sid))
  BY <1>1, <1>2 DEF Carries
<1>5. \A s \in sessions : \E n \in sessions' : Carries(n, s) /\ (n.hash = s.hash \/ s.sid = sid)
  BY <1>1, <1>2 DEF Carries
<1>6. ASSUME NEW m \in sessions', NEW n \in sessions', m.sid = n.sid PROVE m = n
  <2>1. PICK s \in sessions : Carries(m, s) /\ ((m = s /\ s.sid # sid) \/ (m = New(s) /\ s.sid = sid))
    BY <1>4
  <2>2. PICK t \in sessions : Carries(n, t) /\ ((n = t /\ t.sid # sid) \/ (n = New(t) /\ t.sid = sid))
    BY <1>4
  <2>3. s = t
    BY <1>6, <2>1, <2>2 DEF Carries, IdsInOrder
  <2> QED BY <2>1, <2>2, <2>3
<1>7. \A n \in sessions' : n.sid = sid => n.hash = NewToken
  BY <1>1, <1>4 DEF Carries
<1>8. \A n \in sessions' : \E s \in sessions :
        Carries(n, s) /\ (n.hash = s.hash \/ (s.sid = sid /\ n.hash = NewToken))
  BY <1>1, <1>4
<1> QED BY <1>3, <1>5, <1>6, <1>7, <1>8 DEF RowsKept

(* The UPDATE of another column.                                           *)
LEMMA Amended ==
  ASSUME TypeOK, IdsInOrder, NEW s \in sessions, NEW t \in Session,
         Carries(t, s), t.hash = s.hash, sessions' = Put(t)
  PROVE  RowsKept(NoSid)
<1>0. sessions \subseteq Session
  BY DEF TypeOK
<1>1. sessions' = {x \in sessions : x.sid # s.sid} \cup {t}
  BY DEF Put, Carries
<1>2. sessions' \subseteq Session
  BY <1>0, <1>1
<1>3. \A n \in sessions' : \E x \in sessions : Carries(n, x) /\ n.hash = x.hash
  BY <1>1 DEF Carries
<1>4. \A x \in sessions : \E n \in sessions' : Carries(n, x) /\ n.hash = x.hash
  BY <1>1 DEF Carries, IdsInOrder
<1>5. ASSUME NEW m \in sessions', NEW n \in sessions', m.sid = n.sid PROVE m = n
  BY <1>1, <1>5 DEF Carries, IdsInOrder
<1> QED BY <1>2, <1>3, <1>4, <1>5 DEF RowsKept

LEMMA Untouched ==
  ASSUME TypeOK, IdsInOrder, sessions' = sessions
  PROVE  RowsKept(NoSid)
  BY DEF TypeOK, IdsInOrder, RowsKept, Carries

(* One session per device, and ids and tokens used once, after an UPDATE.   *)
LEMMA IdsKept ==
  ASSUME TypeOK, OneSessionPerDevice, IdsInOrder, NEW sid, RowsKept(sid),
         \/ sid = NoSid /\ tokens' \in {tokens, tokens + 1}
         \/ tokens' = NewToken,
         users \subseteq users', sids' = sids,
         \/ spent' = spent
         \/ \E s \in sessions : s.sid = sid /\ spent' = spent \cup {s.hash}
                                /\ \A n \in sessions' : n.sid = sid => n.hash = NewToken, revoked' = revoked
  PROVE  OneSessionPerDevice' /\ IdsInOrder'
<1>0. /\ \A s \in sessions : s.sid \in Nat \ {0} /\ s.hash \in Nat /\ s.sid <= sids /\ s.hash <= tokens
                             /\ s.hash \notin spent /\ s.user \in users
      /\ tokens \in Nat /\ sids \in Nat /\ \A k \in spent : k \in Nat /\ k <= tokens
  BY DEF TypeOK, Session, Sid, Token, IdsInOrder
<1>1. \A n \in sessions' : \E s \in sessions :
          Carries(n, s) /\ (n.hash = s.hash \/ (s.sid = sid /\ n.hash = tokens + 1))
  BY DEF RowsKept, NewToken
<1>2. OneSessionPerDevice'
  BY <1>1 DEF OneSessionPerDevice, RowsKept, Carries
<1>3. tokens' \in Nat /\ tokens <= tokens' /\ (sid # NoSid => tokens' = tokens + 1)
  BY <1>0 DEF NewToken
<1>4. ASSUME NEW n \in sessions'
      PROVE  n.sid <= sids' /\ n.hash <= tokens' /\ n.user \in users' /\ n.hash \notin spent
  BY <1>0, <1>1, <1>3 DEF Carries
<1>5. ASSUME NEW m \in sessions', NEW n \in sessions', m.hash = n.hash PROVE m = n
  <2>1. PICK s \in sessions : Carries(m, s) /\ (m.hash = s.hash \/ (s.sid = sid /\ m.hash = tokens + 1))
    BY <1>1
  <2>2. PICK t \in sessions : Carries(n, t) /\ (n.hash = t.hash \/ (t.sid = sid /\ n.hash = tokens + 1))
    BY <1>1
  <2>3. s.sid = t.sid
    BY <1>0, <1>5, <2>1, <2>2 DEF IdsInOrder
  <2> QED BY <2>1, <2>2, <2>3 DEF Carries, RowsKept
<1>6. ASSUME NEW n \in sessions' PROVE n.hash \notin spent'
  <2>1. CASE spent' = spent
    BY <1>4, <2>1
  <2>2. ASSUME NEW s \in sessions, s.sid = sid, spent' = spent \cup {s.hash},
               \A x \in sessions' : x.sid = sid => x.hash = NewToken
        PROVE  n.hash \notin spent'
    <3>1. PICK t \in sessions : Carries(n, t) /\ (n.hash = t.hash \/ (t.sid = sid /\ n.hash = tokens + 1))
      BY <1>1
    <3>2. n.hash # s.hash
      BY <1>0, <2>2, <3>1 DEF Carries, IdsInOrder, NewToken
    <3> QED BY <1>4, <2>2, <3>2
  <2> QED BY <2>1, <2>2
<1>7. \A k \in spent' : k <= tokens'
  BY <1>0, <1>3
<1> QED BY <1>2, <1>4, <1>5, <1>6, <1>7 DEF IdsInOrder, RowsKept

(* What a step leaves alone of the rows that a transaction relies on: the     *)
(* rows it has locked keep their tokens, a new session is none it looked     *)
(* for, and nobody else registers its e-mail.                               *)
Undisturbed(x) ==
    /\ job[x].step \in RegisterSteps => job[x].user \notin users' \ users
    /\ \A s \in sessions : rowLock[s.sid] = x =>
          \E n \in sessions' : n.sid = s.sid /\ n.hash = s.hash
    /\ \A n \in sessions' :
          \/ \E s \in sessions : Carries(n, s) /\ (rowLock[n.sid] = x => n.hash = s.hash)
          \/ n.sid > sids /\ (n.user \notin users \/ devLock[n.dev] # x)

LEMMA TransactionKept ==
  ASSUME TypeOK, NEW x \in Requests, TransactionSound(x), job'[x] = job[x], Undisturbed(x),
         \A d \in Devices : devLock[d] = x => devLock'[d] = x,
         \A n \in Sid : rowLock[n] = x => rowLock'[n] = x,
         users \subseteq users', sids' \in Nat, sids <= sids', sessions' \subseteq Session
  PROVE  TransactionSound(x)'
<1> DEFINE j == job[x]
<1>a. job'[x] = j
  OBVIOUS
<1>b. /\ j.step = "login" => j.user \in Users /\ j.dev \in Devices /\ j.seen \in Sid \cup {NoSid}
      /\ j.step = "rotate" => j.old \in Token /\ j.sid \in Sid
      /\ j.step \in {"locked", "archived"} => j.sid \in Sid
  BY JobFields
<1>c. sids \in Nat /\ Sid \subseteq Nat /\ \A n \in Sid \cup {NoSid} : n \in Nat
  BY DEF TypeOK, Sid
<1> HIDE DEF j
<1>0. /\ job'[x] = j /\ sids \in Nat
      /\ j.step = "login" => j.user \in Users /\ j.dev \in Devices /\ j.seen \in Nat
      /\ j.step = "rotate" => j.old \in Token /\ j.sid \in Sid /\ j.sid \in Nat
      /\ j.step \in {"locked", "archived"} => j.sid \in Sid /\ j.sid \in Nat
  <2>1. j.step = "login" => j.user \in Users /\ j.dev \in Devices /\ j.seen \in Nat
    BY <1>b, <1>c
  <2>2. j.step = "rotate" => j.old \in Token /\ j.sid \in Sid /\ j.sid \in Nat
    BY <1>b, <1>c
  <2>3. j.step \in {"locked", "archived"} => j.sid \in Sid /\ j.sid \in Nat
    BY <1>b, <1>c
  <2> QED BY <1>a, <1>c, <2>1, <2>2, <2>3
<1>1. ASSUME j.step = "login"
      PROVE  /\ devLock'[j.dev] = x /\ j.user \in users' /\ j.seen <= sids'
             /\ j.seen = NoSid => \A n \in sessions' : ~(n.user = j.user /\ n.dev = j.dev)
             /\ \A n \in sessions' : n.sid = j.seen => n.user = j.user
  <2>1. /\ devLock[j.dev] = x /\ j.user \in users /\ j.seen <= sids
        /\ j.seen = NoSid => \A s \in sessions : ~(s.user = j.user /\ s.dev = j.dev)
        /\ \A s \in sessions : s.sid = j.seen => s.user = j.user
    BY <1>1 DEF TransactionSound, j, SessionsOn, WithId
  <2>2. \A n \in sessions' : n.sid \in Nat
    BY DEF Session, Sid
  <2>3. devLock'[j.dev] = x /\ j.user \in users' /\ j.seen <= sids'
    BY <1>0, <1>1, <2>1
  <2>4. j.seen = NoSid => \A n \in sessions' : ~(n.user = j.user /\ n.dev = j.dev)
    BY <2>1 DEF Undisturbed, Carries
  <2>5. \A n \in sessions' : n.sid = j.seen => n.user = j.user
    BY <1>0, <1>1, <2>1, <2>2 DEF Undisturbed, Carries
  <2> QED BY <2>3, <2>4, <2>5
<1>2. ASSUME j.step \in {"rotate", "locked", "archived"}
      PROVE  /\ rowLock[j.sid] = x /\ j.sid <= sids
             /\ rowLock'[j.sid] = x /\ j.sid <= sids'
  BY <1>0, <1>2 DEF TransactionSound, j
<1>3. ASSUME j.step = "rotate" PROVE \E n \in sessions' : n.sid = j.sid /\ n.hash = j.old
  <2>1. PICK s \in sessions : s.sid = j.sid /\ s.hash = j.old
    BY <1>3 DEF TransactionSound, j, WithId
  <2> QED BY <1>2, <1>3, <2>1 DEF Undisturbed
<1>4. ASSUME j.step = "archived"
      PROVE  j.hash # NoTok /\ \A n \in sessions' : n.sid = j.sid => n.hash = j.hash
  <2>1. j.hash # NoTok /\ \A s \in sessions : s.sid = j.sid => s.hash = j.hash
    BY <1>4 DEF TransactionSound, j, WithId
  <2>2. \A n \in sessions' : n.sid = j.sid => ~(n.sid > sids)
    BY <1>0, <1>2, <1>4
  <2> QED BY <1>2, <1>4, <2>1, <2>2 DEF Undisturbed, Carries
<1>5. ASSUME j.step \in RegisterSteps
      PROVE  /\ j.user \notin users'
             /\ j.step = "insert_session" => j.wrote = {"user"}
             /\ j.step = "insert_event" => j.wrote = {"user", "session"}
             /\ j.step = "commit" => j.wrote = RegisterWrites
             /\ j.step \in {"insert_event", "commit"} => devLock'[j.dev] = x
  <2>1. j.dev \in Devices
    BY <1>5, JobFields DEF j
  <2>2. /\ j.user \notin users
        /\ j.step = "insert_session" => j.wrote = {"user"}
        /\ j.step = "insert_event" => j.wrote = {"user", "session"}
        /\ j.step = "commit" => j.wrote = RegisterWrites
        /\ j.step \in {"insert_event", "commit"} => devLock[j.dev] = x
    BY <1>5 DEF TransactionSound, j
  <2>3. j.user \notin users'
    BY <1>5, <2>2 DEF Undisturbed, j
  <2> QED BY <2>1, <2>2, <2>3
<1>6. {"insert_session", "insert_event", "commit"} \subseteq RegisterSteps
  BY DEF RegisterSteps
<1> QED BY <1>0, <1>1, <1>2, <1>3, <1>4, <1>5, <1>6 DEF TransactionSound, SessionsOn, WithId

(* An UPDATE of a row that nobody else has locked disturbs no one.           *)
LEMMA UpdateUndisturbing ==
  ASSUME TypeOK, NEW x \in Requests, NEW sid, RowsKept(sid), sid = NoSid \/ rowLock[sid] # x,
         users' = users
  PROVE  Undisturbed(x)
<1>1. \A s \in sessions : s.sid # NoSid
  BY DEF TypeOK, Session, Sid
<1>2. \A s \in sessions : rowLock[s.sid] = x => s.sid # sid
  BY <1>1
<1>3. \A n \in sessions' : \E s \in sessions : Carries(n, s) /\ (rowLock[n.sid] = x => n.hash = s.hash)
  BY <1>2 DEF RowsKept, Carries
<1>4. \A s \in sessions : rowLock[s.sid] = x => \E n \in sessions' : n.sid = s.sid /\ n.hash = s.hash
  BY <1>2 DEF RowsKept, Carries
<1> QED BY <1>3, <1>4 DEF Undisturbed

(* No other request is registering the e-mail that job j would.               *)
Exclusive(r, j) ==
    j.step \in RegisterSteps =>
        \A x \in Requests \ {r} : job[x].step \in RegisterSteps => job[x].user # j.user

LEMMA NotRegistering ==
  ASSUME NEW r, NEW j, j.step \in {"free", "abandoned", "login", "rotate", "locked", "archived"}
  PROVE  Exclusive(r, j)
  BY DEF Exclusive, RegisterSteps

(* The request that acts moves to job j; the others keep their locks.        *)
Moves(r, j) ==
    /\ Exclusive(r, j)
    /\ job' \in [Requests -> Jobs] /\ job'[r] = j
    /\ devLock' \in [Devices -> Requests \cup {NoRequest}]
    /\ rowLock' \in [Sid -> Requests \cup {NoRequest}]
    /\ \A x \in Requests \ {r} :
          /\ job'[x] = job[x]
          /\ \A d \in Devices : devLock[d] = x => devLock'[d] = x
          /\ \A n \in Sid : rowLock[n] = x => rowLock'[n] = x

LEMMA Moved ==
  ASSUME TypeOK, NEW r \in Requests, NEW j \in Jobs, Begin(r, j), Exclusive(r, j),
         \/ devLock' = devLock
         \/ \E d \in Devices : devLock[d] = NoRequest /\ devLock' = [devLock EXCEPT ![d] = r],
         \/ rowLock' = rowLock
         \/ \E n \in Sid : rowLock[n] = NoRequest /\ rowLock' = [rowLock EXCEPT ![n] = r]
  PROVE  Moves(r, j)
<1>0. /\ job \in [Requests -> Jobs]
      /\ devLock \in [Devices -> Requests \cup {NoRequest}]
      /\ rowLock \in [Sid -> Requests \cup {NoRequest}]
  BY DEF TypeOK
<1>1. /\ job' \in [Requests -> Jobs] /\ job'[r] = j
      /\ \A x \in Requests \ {r} : job'[x] = job[x]
  BY <1>0 DEF Begin
<1>2. /\ devLock' \in [Devices -> Requests \cup {NoRequest}]
      /\ \A x \in Requests, d \in Devices : devLock[d] = x => devLock'[d] = x
  BY <1>0
<1>3. /\ rowLock' \in [Sid -> Requests \cup {NoRequest}]
      /\ \A x \in Requests, n \in Sid : rowLock[n] = x => rowLock'[n] = x
  BY <1>0
<1> QED BY <1>1, <1>2, <1>3 DEF Moves

LEMMA Ended ==
  ASSUME TypeOK, NEW r \in Requests, End(r), Unlock(r)
  PROVE  Moves(r, Free)
<1>0. /\ job \in [Requests -> Jobs] /\ Free \in Jobs
      /\ devLock \in [Devices -> Requests \cup {NoRequest}]
      /\ rowLock \in [Sid -> Requests \cup {NoRequest}]
  BY JobTypes DEF TypeOK
<1>1. /\ job' \in [Requests -> Jobs] /\ job'[r] = Free
      /\ \A x \in Requests \ {r} : job'[x] = job[x]
  BY <1>0 DEF End
<1>2. /\ devLock' \in [Devices -> Requests \cup {NoRequest}]
      /\ \A x \in Requests \ {r}, d \in Devices : devLock[d] = x => devLock'[d] = x
  BY <1>0 DEF Unlock
<1>3. /\ rowLock' \in [Sid -> Requests \cup {NoRequest}]
      /\ \A x \in Requests \ {r}, n \in Sid : rowLock[n] = x => rowLock'[n] = x
  BY <1>0 DEF Unlock
<1>4. Exclusive(r, Free)
  BY JobTypes, NotRegistering
<1> QED BY <1>1, <1>2, <1>3, <1>4 DEF Moves

(* E-mails stay registered by one transaction at a time.                    *)
LEMMA EmailsKept ==
  ASSUME EmailsHeld, NEW r \in Requests, NEW j, Moves(r, j)
  PROVE  EmailsHeld'
  BY DEF EmailsHeld, Moves, Exclusive

(* Ids stay known when no session goes without being logged out, and a new id *)
(* comes with a session.                                                    *)
LEMMA IdsStayKnown ==
  ASSUME TypeOK, IdsKnown, revoked \subseteq revoked',
         \A s \in sessions : (\E n \in sessions' : n.sid = s.sid) \/ (\E x \in revoked' : x.sid = s.sid),
         \/ sids' = sids
         \/ sids' = sids + 1 /\ \E n \in sessions' : n.sid = sids + 1
  PROVE  IdsKnown' /\ \A k : Known(k) => Known(k)'
<1>1. \A k : Known(k) => Known(k)'
  BY DEF Known
<1>2. ASSUME NEW k \in 1..sids' PROVE Known(k)'
  <2>1. sids \in Nat
    BY DEF TypeOK
  <2>2. k \in 1..sids \/ (k = sids + 1 /\ sids' = sids + 1)
    BY <1>2, <2>1
  <2>3. CASE k \in 1..sids
    BY <1>1, <2>3 DEF IdsKnown
  <2>4. CASE k = sids + 1 /\ sids' = sids + 1
    <3>1. sids' # sids
      BY <2>1, <2>4
    <3> QED BY <2>4, <3>1 DEF Known
  <2> QED BY <2>2, <2>3, <2>4
<1> QED BY <1>1, <1>2 DEF IdsKnown

(* Every transaction is sound after a step of r that leaves r's own sound and *)
(* disturbs no other.                                                       *)
LEMMA AllSound ==
  ASSUME SessionsInv, NEW r \in Requests, NEW j, Moves(r, j),
         \A x \in Requests \ {r} : Undisturbed(x), TransactionSound(r)',
         users \subseteq users', sids' \in Nat, sids <= sids', sessions' \subseteq Session
  PROVE  \A x \in Requests : TransactionSound(x)'
<1>1. ASSUME NEW x \in Requests \ {r} PROVE TransactionSound(x)'
  <2>1. TypeOK /\ TransactionSound(x)
    BY DEF SessionsInv
  <2>2. /\ job'[x] = job[x]
        /\ \A d \in Devices : devLock[d] = x => devLock'[d] = x
        /\ \A n \in Sid : rowLock[n] = x => rowLock'[n] = x
    BY DEF Moves
  <2> QED BY <2>1, <2>2, TransactionKept
<1> QED BY <1>1

(* A request between two transactions relies on nothing.                    *)
LEMMA Idle ==
  ASSUME NEW r, job'[r] \in {Free, Abandoned}
  PROVE  TransactionSound(r)'
<1>1. job'[r].step \in {"free", "abandoned"}
  BY JobTypes
<1> QED BY <1>1 DEF TransactionSound, RegisterSteps

(* Sessions that were logged out stay so when no old id comes back.           *)
LEMMA RevokedKept ==
  ASSUME TypeOK, IdsInOrder, RevokedIsFinal, history \subseteq history', revoked' = revoked,
         \A n \in sessions' : (\E s \in sessions : n.sid = s.sid) \/ n.sid = sids + 1
  PROVE  RevokedIsFinal'
<1>1. \A x \in revoked : x.sid \in Nat /\ x.sid <= sids
  BY DEF TypeOK, IdsInOrder, Sid
<1>2. sids \in Nat
  BY DEF TypeOK
<1>3. ASSUME NEW x \in revoked, NEW n \in sessions' PROVE x.sid # n.sid
  <2>1. \A s \in sessions : x.sid # s.sid
    BY DEF RevokedIsFinal
  <2>2. x.sid # sids + 1
    BY <1>1, <1>2
  <2> QED BY <2>1, <2>2
<1>4. \A x \in revoked : [sid |-> x.sid, hash |-> x.hash, reason |-> "logout"] \in history'
  BY DEF RevokedIsFinal
<1> QED BY <1>3, <1>4 DEF RevokedIsFinal

(* An event of another type leaves accounts and their events together, and so *)
(* does a token for an account that is there.                               *)
LEMMA AccountsKept ==
  ASSUME RegistrationAllOrNothing, users' = users,
         \/ events' = events
         \/ \E e : events' = events \cup {e} /\ e.type = "logged_in",
         \A i \in issued' : i \in issued \/ i.user \in users,
         \A k : Known(k) => Known(k)'
  PROVE  RegistrationAllOrNothing'
<1> DEFINE registered == {x \in events : x.type = "registered"}
<1>1. registered' = registered
  OBVIOUS
<1>2. /\ users = {e.user : e \in registered}
      /\ \A e, f \in registered : e.user = f.user => e = f
      /\ \A e \in registered : Known(e.sid)
      /\ \A i \in issued : i.user \in users
  BY DEF RegistrationAllOrNothing
<1> HIDE DEF registered
<1>3. /\ users' = {e.user : e \in registered'}
      /\ \A e, f \in registered' : e.user = f.user => e = f
      /\ \A e \in registered' : Known(e.sid)'
      /\ \A i \in issued' : i.user \in users'
  BY <1>1, <1>2
<1> QED BY <1>3 DEF RegistrationAllOrNothing, registered

-----------------------------------------------------------------------------
(* Steps that only answer.                                                  *)
LEMMA OnlyAnswers ==
  ASSUME AuthInv, reply'.op \in Ops,
         UNCHANGED <<users, sessions, history, events, devLock, rowLock, job, tokens, sids,
                     issued, spent, revoked>>
  PROVE  AuthInv'
<1>1. TypeOK'
  BY DEF AuthInv, SessionsInv, TypeOK
<1>2. /\ OneSessionPerDevice' /\ IdsInOrder' /\ IdsKnown' /\ EmailsHeld'
      /\ RevokedIsFinal' /\ RegistrationAllOrNothing'
  BY DEF AuthInv, SessionsInv, OneSessionPerDevice, IdsInOrder, IdsKnown, EmailsHeld, Known,
         RevokedIsFinal, RegistrationAllOrNothing
<1>3. \A r \in Requests : TransactionSound(r)'
  BY DEF AuthInv, SessionsInv, TransactionSound, SessionsOn, WithId
<1> QED BY <1>1, <1>2, <1>3 DEF AuthInv, SessionsInv

(* Steps of a transaction that write nothing yet.                           *)
LEMMA OnlyMoves ==
  ASSUME AuthInv, NEW r \in Requests, NEW j, Moves(r, j), TransactionSound(r)',
         reply'.op \in Ops,
         UNCHANGED <<users, sessions, history, events, tokens, sids, issued, spent, revoked>>
  PROVE  AuthInv'
<1>0. SessionsInv /\ TypeOK /\ IdsInOrder
  BY DEF AuthInv, SessionsInv
<1>1. TypeOK'
  BY <1>0 DEF TypeOK, Moves
<1>2. /\ OneSessionPerDevice' /\ IdsInOrder' /\ IdsKnown' /\ RevokedIsFinal'
      /\ RegistrationAllOrNothing'
  BY DEF AuthInv, SessionsInv, OneSessionPerDevice, IdsInOrder, IdsKnown, Known, RevokedIsFinal,
         RegistrationAllOrNothing
<1>3. RowsKept(NoSid)
  BY <1>0, Untouched
<1>4. \A x \in Requests : Undisturbed(x)
  BY <1>0, <1>3, UpdateUndisturbing
<1>5. users \subseteq users' /\ sids' \in Nat /\ sids <= sids' /\ sessions' \subseteq Session
  BY <1>0 DEF TypeOK
<1>6. \A x \in Requests : TransactionSound(x)'
  BY <1>0, <1>4, <1>5, AllSound
<1>7. EmailsHeld'
  BY <1>0, EmailsKept DEF SessionsInv
<1> QED BY <1>1, <1>2, <1>6, <1>7 DEF AuthInv, SessionsInv

(* The next token and the next session id, within their bounds.             *)
LEMMA Numbers ==
  ASSUME TypeOK
  PROVE  /\ tokens \in Nat /\ sids \in Nat
         /\ tokens < MaxTokens => NewToken \in Token /\ NewToken \in 0..MaxTokens
         /\ sids < MaxSessions => NewSid \in Sid /\ NewSid \in 0..MaxSessions
         /\ NewToken = tokens + 1 /\ NewSid = sids + 1
         /\ NewToken > tokens /\ NewSid > sids
  BY DEF TypeOK, NewToken, NewSid, Token, Sid

(* A registration that goes on with the same e-mail.                        *)
LEMMA RegisterGoesOn ==
  ASSUME AuthInv, NEW r \in Requests, job[r].step \in RegisterSteps,
         NEW st \in RegisterSteps, NEW w \in SUBSET RegisterWrites,
         Begin(r, RegisterJob(st, job[r].user, job[r].dev, job[r].push, w)),
         \/ devLock' = devLock
         \/ devLock[job[r].dev] = NoRequest /\ devLock' = [devLock EXCEPT ![job[r].dev] = r],
         st = "insert_event" => w = {"user", "session"},
         st = "commit" => w = RegisterWrites,
         st \in {"insert_event", "commit"} => devLock'[job[r].dev] = r,
         st # "insert_session", reply'.op \in Ops,
         UNCHANGED <<users, sessions, history, events, rowLock, tokens, sids, issued, spent, revoked>>
  PROVE  AuthInv'
<1> DEFINE j == RegisterJob(st, job[r].user, job[r].dev, job[r].push, w)
<1>0. TypeOK /\ EmailsHeld /\ TransactionSound(r)
  BY DEF AuthInv, SessionsInv
<1>1. job[r].user \in Users /\ job[r].dev \in Devices /\ job[r].push \in PushArgs
  BY <1>0, JobFields
<1>2. j \in Jobs /\ j.step = st /\ j.user = job[r].user /\ j.dev = job[r].dev /\ j.wrote = w
  BY <1>1, JobTypes DEF RegisterJob
<1>3. Begin(r, j)
  OBVIOUS
<1> HIDE DEF j
<1>4. Exclusive(r, j)
  BY <1>0, <1>2 DEF Exclusive, EmailsHeld
<1>5. Moves(r, j)
  BY <1>0, <1>1, <1>2, <1>3, <1>4, Moved
<1>6. TransactionSound(r)'
  <2>1. job'[r] = j /\ j.user \notin users'
    BY <1>0, <1>2, <1>5 DEF TransactionSound, Moves
  <2> QED BY <1>2, <2>1 DEF TransactionSound, RegisterSteps
<1> QED BY <1>5, <1>6, OnlyMoves

LEMMA RegisterUserStep ==
  ASSUME AuthInv, NEW r \in Requests, NEW u \in Users, NEW d \in Devices, NEW p \in PushArgs,
         RegisterUser(r, u, d, p)
  PROVE  AuthInv'
<1> DEFINE j == RegisterJob("insert_session", u, d, p, {"user"})
<1>0. TypeOK
  BY DEF AuthInv, SessionsInv
<1>1. /\ j \in Jobs /\ j.step = "insert_session" /\ j.user = u /\ j.wrote = {"user"}
  <2>1. "insert_session" \in RegisterSteps /\ {"user"} \in SUBSET RegisterWrites
    BY DEF RegisterSteps, RegisterWrites
  <2> QED BY <2>1, JobTypes DEF RegisterJob
<1>2. Begin(r, j)
  BY DEF RegisterUser
<1> HIDE DEF j
<1>3. Exclusive(r, j)
  BY <1>1 DEF Exclusive, RegisterUser, EmailFree
<1>4. Moves(r, j)
  BY <1>0, <1>1, <1>2, <1>3, Moved DEF RegisterUser
<1>5. TransactionSound(r)'
  <2>1. job'[r] = j /\ u \notin users'
    BY <1>4 DEF RegisterUser, Moves, tables
  <2> QED BY <1>1, <2>1 DEF TransactionSound
<1>6. reply'.op \in Ops
  BY <1>0 DEF RegisterUser, TypeOK
<1> QED BY <1>4, <1>5, <1>6, OnlyMoves DEF RegisterUser, tables, ghosts

LEMMA RegisterSessionStep ==
  ASSUME AuthInv, NEW r \in Requests, RegisterSession(r)
  PROVE  AuthInv'
<1>0. TypeOK /\ TransactionSound(r)
  BY DEF AuthInv, SessionsInv
<1>1. job[r].step = "insert_session" /\ job[r].step \in RegisterSteps /\ job[r].wrote = {"user"}
  BY <1>0 DEF RegisterSession, RegisterSteps, TransactionSound
<1>2. /\ Begin(r, RegisterJob("insert_event", job[r].user, job[r].dev, job[r].push, {"user", "session"}))
      /\ devLock[job[r].dev] = NoRequest /\ devLock' = [devLock EXCEPT ![job[r].dev] = r]
  <2>1. job[r].wrote \cup {"session"} = {"user", "session"}
    BY <1>1
  <2> QED BY <2>1 DEF RegisterSession
<1>3. "insert_event" \in RegisterSteps /\ {"user", "session"} \in SUBSET RegisterWrites
  BY DEF RegisterSteps, RegisterWrites
<1>4. devLock'[job[r].dev] = r
  BY <1>0, <1>1, <1>2, JobFields DEF TypeOK
<1>5. reply'.op \in Ops
  BY <1>0 DEF RegisterSession, TypeOK
<1>6. UNCHANGED <<users, sessions, history, events, rowLock, tokens, sids, issued, spent, revoked>>
  BY DEF RegisterSession, tables, ghosts
<1> QED BY <1>1, <1>2, <1>3, <1>4, <1>5, <1>6, RegisterGoesOn

LEMMA RegisterEventStep ==
  ASSUME AuthInv, NEW r \in Requests, RegisterEvent(r)
  PROVE  AuthInv'
<1>0. TypeOK /\ TransactionSound(r)
  BY DEF AuthInv, SessionsInv
<1>1. /\ job[r].step = "insert_event" /\ job[r].step \in RegisterSteps
      /\ job[r].wrote = {"user", "session"} /\ devLock[job[r].dev] = r
  BY <1>0 DEF RegisterEvent, RegisterSteps, TransactionSound
<1>2. /\ Begin(r, RegisterJob("commit", job[r].user, job[r].dev, job[r].push, RegisterWrites))
      /\ devLock' = devLock
  <2>1. job[r].wrote \cup {"event"} = RegisterWrites
    BY <1>1 DEF RegisterWrites
  <2> QED BY <2>1 DEF RegisterEvent
<1>3. "commit" \in RegisterSteps
  BY DEF RegisterSteps
<1>4. reply'.op \in Ops
  BY <1>0 DEF RegisterEvent, TypeOK
<1>5. UNCHANGED <<users, sessions, history, events, rowLock, tokens, sids, issued, spent, revoked>>
  BY DEF RegisterEvent, tables, ghosts
<1> QED BY <1>1, <1>2, <1>3, <1>4, <1>5, RegisterGoesOn

LEMMA RegisterErrorStep ==
  ASSUME AuthInv, NEW r \in Requests, RegisterError(r)
  PROVE  AuthInv'
<1>0. TypeOK
  BY DEF AuthInv, SessionsInv
<1>1. job[r].step \in RegisterSteps /\ "unregistered" \in RegisterSteps
  BY DEF RegisterError, RegisterSteps
<1>2. job[r].wrote \in SUBSET RegisterWrites
  BY <1>0, <1>1, JobFields
<1>3. reply'.op \in Ops
  BY DEF RegisterError, Reply, Ops
<1>4. /\ UNCHANGED <<users, sessions, history, events, rowLock, tokens, sids, issued, spent, revoked>>
      /\ Begin(r, RegisterJob("unregistered", job[r].user, job[r].dev, job[r].push, job[r].wrote))
      /\ \/ devLock' = devLock
         \/ devLock[job[r].dev] = NoRequest /\ devLock' = [devLock EXCEPT ![job[r].dev] = r]
  BY DEF RegisterError, tables, ghosts
<1> QED BY <1>1, <1>2, <1>3, <1>4, RegisterGoesOn

LEMMA LoginStartStep ==
  ASSUME AuthInv, NEW r \in Requests, NEW u \in Users, NEW d \in Devices, LoginStart(r, u, d)
  PROVE  AuthInv'
<1>0. TypeOK /\ IdsInOrder
  BY DEF AuthInv, SessionsInv
<1>1. \A s \in sessions : s.sid \in Sid /\ s.sid # NoSid /\ s.sid <= sids
  BY <1>0 DEF TypeOK, IdsInOrder, Session, Sid
<1>2. PICK seen \in IF SessionsOn(u, d) = {} THEN {NoSid} ELSE {s.sid : s \in SessionsOn(u, d)} :
        Begin(r, [step |-> "login", user |-> u, dev |-> d, seen |-> seen])
  BY DEF LoginStart
<1> DEFINE j == [step |-> "login", user |-> u, dev |-> d, seen |-> seen]
<1>3. \/ seen = NoSid /\ SessionsOn(u, d) = {}
      \/ \E s \in sessions : s.user = u /\ s.sid = seen
  BY <1>2 DEF SessionsOn
<1>4. seen \in Sid \cup {NoSid} /\ seen <= sids
  BY <1>0, <1>1, <1>3 DEF TypeOK
<1>5. j \in Jobs
  BY <1>4, JobTypes
<1>a. Exclusive(r, j)
  BY NotRegistering
<1>6. Moves(r, j)
  BY <1>0, <1>2, <1>5, <1>a, Moved DEF LoginStart
<1>7. /\ seen = NoSid => SessionsOn(u, d)' = {}
      /\ \A s \in sessions' : s.sid = seen => s.user = u
  <2>1. sessions' = sessions
    BY DEF LoginStart, tables
  <2>2. seen = NoSid => SessionsOn(u, d)' = {}
    BY <1>1, <1>3, <2>1 DEF SessionsOn
  <2>3. ASSUME NEW s \in sessions, s.sid = seen PROVE s.user = u
    BY <1>0, <1>1, <1>3, <2>3 DEF IdsInOrder
  <2> QED BY <2>1, <2>2, <2>3
<1>8. /\ job'[r] = j /\ devLock'[d] = r /\ u \in users' /\ sids' = sids
  BY <1>0, <1>6 DEF Moves, LoginStart, tables, TypeOK
<1>9. TransactionSound(r)'
  BY <1>4, <1>7, <1>8 DEF TransactionSound, WithId, SessionsOn, RegisterSteps
<1> HIDE DEF j
<1>10. reply' = reply
  BY DEF LoginStart
<1>11. reply'.op \in Ops
  BY <1>0, <1>10 DEF TypeOK
<1> QED BY <1>6, <1>9, <1>11, OnlyMoves DEF LoginStart, tables, ghosts

LEMMA LoginErrorStep ==
  ASSUME AuthInv, NEW r \in Requests, LoginError(r)
  PROVE  AuthInv'
<1>1. TypeOK /\ Abandoned \in Jobs
  BY JobTypes DEF AuthInv, SessionsInv
<1>2. Moves(r, Abandoned)
  BY <1>1, Moved, JobTypes, NotRegistering DEF LoginError
<1>3. TransactionSound(r)'
  BY <1>2, Idle DEF Moves
<1>4. reply'.op \in Ops
  BY DEF LoginError, Reply, Ops
<1> QED BY <1>2, <1>3, <1>4, OnlyMoves DEF LoginError, tables, ghosts

LEMMA CommitErrorStep ==
  ASSUME AuthInv, NEW r \in Requests, CommitError(r)
  PROVE  AuthInv'
<1>1. TypeOK
  BY DEF AuthInv, SessionsInv
<1>2. Moves(r, Free)
  BY <1>1, Ended DEF CommitError
<1>3. TransactionSound(r)'
  BY <1>2, Idle DEF Moves
<1>4. reply'.op \in Ops
  BY DEF CommitError, Reply, Ops
<1> QED BY <1>2, <1>3, <1>4, OnlyMoves DEF CommitError, tables, ghosts

LEMMA ContextDoneStep ==
  ASSUME AuthInv, NEW r \in Requests, ContextDone(r)
  PROVE  AuthInv'
<1>1. TypeOK
  BY DEF AuthInv, SessionsInv
<1>2. Moves(r, Free)
  BY <1>1, Ended DEF ContextDone
<1>3. TransactionSound(r)'
  BY <1>2, Idle DEF Moves
<1>4. reply'.op \in Ops
  BY <1>1 DEF ContextDone, TypeOK
<1> QED BY <1>2, <1>3, <1>4, OnlyMoves DEF ContextDone, tables, ghosts

LEMMA RollbackStep ==
  ASSUME AuthInv, NEW r \in Requests, Rollback(r)
  PROVE  AuthInv'
<1>1. TypeOK
  BY DEF AuthInv, SessionsInv
<1>2. Moves(r, Free)
  BY <1>1, Ended DEF Rollback
<1>3. TransactionSound(r)'
  BY <1>2, Idle DEF Moves
<1>4. reply'.op \in Ops
  BY DEF Rollback, Reply, Ops
<1> QED BY <1>2, <1>3, <1>4, OnlyMoves DEF Rollback, tables, ghosts

LEMMA RefreshSelectStep ==
  ASSUME AuthInv, NEW r \in Requests, NEW old, RefreshSelect(r, old)
  PROVE  AuthInv'
<1>0. TypeOK /\ IdsInOrder
  BY DEF AuthInv, SessionsInv
<1>1. PICK s \in sessions :
        /\ s.hash = old /\ rowLock[s.sid] = NoRequest
        /\ rowLock' = [rowLock EXCEPT ![s.sid] = r]
        /\ Begin(r, [step |-> "rotate", old |-> old, sid |-> s.sid])
  BY DEF RefreshSelect
<1> DEFINE j == [step |-> "rotate", old |-> old, sid |-> s.sid]
<1>2. s.sid \in Sid /\ s.hash \in Token /\ s.sid <= sids
  BY <1>0 DEF TypeOK, IdsInOrder, Session
<1>3. j \in Jobs
  BY <1>1, <1>2, JobTypes
<1>a. Exclusive(r, j)
  BY NotRegistering
<1>4. Moves(r, j)
  BY <1>0, <1>1, <1>2, <1>3, <1>a, Moved DEF RefreshSelect
<1>5. job'[r] = j /\ rowLock'[s.sid] = r /\ sids' = sids /\ sessions' = sessions
  BY <1>0, <1>1, <1>2, <1>4 DEF Moves, RefreshSelect, tables, TypeOK
<1>6. TransactionSound(r)'
  BY <1>1, <1>2, <1>5 DEF TransactionSound, WithId, RegisterSteps
<1> HIDE DEF j
<1>7. reply'.op \in Ops
  BY <1>0 DEF TypeOK, RefreshSelect
<1> QED BY <1>4, <1>6, <1>7, OnlyMoves DEF RefreshSelect, tables, ghosts

LEMMA RevokeLockStep ==
  ASSUME AuthInv, NEW r \in Requests, NEW u \in Users, NEW sid \in Sid, RevokeLock(r, u, sid)
  PROVE  AuthInv'
<1>0. TypeOK /\ IdsInOrder
  BY DEF AuthInv, SessionsInv
<1> DEFINE j == [step |-> "locked", sid |-> sid, user |-> u, hash |-> NoTok]
<1>1. j \in Jobs
  BY JobTypes
<1>a. Exclusive(r, j)
  BY NotRegistering
<1>2. Moves(r, j)
  BY <1>0, <1>1, <1>a, Moved DEF RevokeLock
<1>3. sid <= sids
  BY <1>0 DEF IdsInOrder, RevokeLock, WithId
<1>4. job'[r] = j /\ rowLock'[sid] = r /\ sids' = sids
  BY <1>0, <1>2 DEF Moves, RevokeLock, TypeOK
<1>5. TransactionSound(r)'
  BY <1>3, <1>4 DEF TransactionSound, RegisterSteps
<1> HIDE DEF j
<1>6. reply'.op \in Ops
  BY <1>0 DEF TypeOK, RevokeLock
<1> QED BY <1>2, <1>5, <1>6, OnlyMoves DEF RevokeLock, tables, ghosts

LEMMA RevokeArchiveStep ==
  ASSUME AuthInv, NEW r \in Requests, RevokeArchive(r)
  PROVE  AuthInv'
<1>0. TypeOK /\ IdsInOrder /\ TransactionSound(r)
  BY DEF AuthInv, SessionsInv
<1>1. /\ job[r].step = "locked" /\ job[r].sid \in Sid /\ job[r].user \in Users
      /\ rowLock[job[r].sid] = r /\ job[r].sid <= sids
  BY <1>0, JobFields DEF RevokeArchive, TransactionSound
<1>2. PICK s \in WithId(job[r].sid) : 
        Begin(r, [step |-> "archived", sid |-> job[r].sid, user |-> job[r].user, hash |-> s.hash])
  BY DEF RevokeArchive
<1>3. s \in sessions /\ s.sid = job[r].sid /\ s.hash \in Token /\ s.hash # NoTok
  BY <1>0 DEF WithId, TypeOK, Session, Token
<1> DEFINE j == [step |-> "archived", sid |-> job[r].sid, user |-> job[r].user, hash |-> s.hash]
<1>5. j \in Jobs
  BY <1>1, <1>3, JobTypes
<1>6. Begin(r, j)
  BY <1>2
<1>7. Moves(r, j)
  BY <1>0, <1>5, <1>6, Moved, NotRegistering DEF RevokeArchive
<1>8. job'[r] = j /\ rowLock' = rowLock /\ sids' = sids /\ sessions' = sessions
  BY <1>7 DEF Moves, RevokeArchive, tables
<1>9. \A t \in sessions : t.sid = job[r].sid => t.hash = s.hash
  BY <1>0, <1>3 DEF IdsInOrder
<1>10. TransactionSound(r)'
  BY <1>1, <1>3, <1>8, <1>9 DEF TransactionSound, WithId, RegisterSteps
<1> HIDE DEF j
<1>11. reply'.op \in Ops
  BY <1>0 DEF TypeOK, RevokeArchive
<1> QED BY <1>7, <1>10, <1>11, OnlyMoves DEF RevokeArchive, tables, ghosts

-----------------------------------------------------------------------------
(* Steps that commit.                                                       *)

LEMMA RegisterCommitStep ==
  ASSUME AuthInv, NEW r \in Requests, NEW lost \in BOOLEAN, RegisterCommit(r, lost)
  PROVE  AuthInv'
<1>0. /\ TypeOK /\ IdsInOrder /\ IdsKnown /\ EmailsHeld /\ OneSessionPerDevice /\ RevokedIsFinal
      /\ RegistrationAllOrNothing /\ SessionsInv /\ TransactionSound(r)
  BY DEF AuthInv, SessionsInv
<1> DEFINE u == job[r].user
           f == Fresh(u, job[r].dev, job[r].push)
           e == Event("registered", u, NewSid)
<1>a. job[r].step = "commit" /\ job[r].step \in RegisterSteps /\ tokens < MaxTokens /\ sids < MaxSessions
  BY DEF RegisterCommit, RegisterSteps
<1>b. /\ u \in Users /\ job[r].dev \in Devices /\ job[r].push \in PushArgs /\ u \notin users
      /\ "user" \in job[r].wrote /\ "session" \in job[r].wrote /\ "event" \in job[r].wrote
  BY <1>0, <1>a, JobFields DEF TransactionSound, RegisterWrites
<1>1. /\ f \in Session /\ f.sid = NewSid /\ f.user = u /\ f.hash = NewToken
      /\ NewSid \in Sid /\ NewToken \in Token
  BY <1>0, <1>a, <1>b, Numbers DEF Fresh, Session, PushOr, PushArgs
<1>2. /\ sids' = NewSid /\ tokens' = NewToken /\ End(r) /\ Unlock(r)
      /\ history' = history /\ spent' = spent /\ revoked' = revoked
      /\ issued' = issued \/ issued' = issued \cup {[user |-> u, sid |-> NewSid, tok |-> NewToken]}
  BY DEF RegisterCommit, Issue
<1>3. users' = users \cup {u} /\ sessions' = sessions \cup {f} /\ events' = events \cup {e}
  BY <1>b DEF RegisterCommit
<1>4. e.type = "registered" /\ e.user = u /\ e.sid = NewSid /\ e.tok = NewToken
      /\ e = [type |-> "registered", user |-> u, sid |-> NewSid, tok |-> NewToken]
  BY DEF Event
<1> HIDE DEF u, f, e
<1>5. Moves(r, Free)
  BY <1>0, <1>2, Ended
<1>6. TransactionSound(r)'
  BY <1>5, Idle DEF Moves
<1>7. TypeOK'
  <2>1. users' \in SUBSET Users /\ sessions' \in SUBSET Session
    BY <1>0, <1>1, <1>3, <1>b DEF TypeOK
  <2>2. events' \in SUBSET [type : {"registered", "logged_in"}, user : Users,
                            sid : Sid \cup {NoSid}, tok : Token]
    BY <1>0, <1>1, <1>3, <1>4, <1>b DEF TypeOK
  <2>3. issued' \in SUBSET [user : Users, sid : Sid \cup {NoSid}, tok : Token]
    BY <1>0, <1>1, <1>2, <1>b DEF TypeOK
  <2>4. tokens' \in 0..MaxTokens /\ sids' \in 0..MaxSessions
    BY <1>0, <1>2, <1>a, Numbers
  <2>5. reply'.op \in Ops
    BY DEF RegisterCommit, Reply, Ops
  <2>6. /\ history' \in SUBSET [sid : Sid, hash : Token, reason : {"rotated", "logout"}]
        /\ spent' \in SUBSET Token /\ revoked' \in SUBSET [sid : Sid, hash : Token]
    BY <1>0, <1>2 DEF TypeOK
  <2> QED BY <1>5, <2>1, <2>2, <2>3, <2>4, <2>5, <2>6 DEF TypeOK, Moves
<1>8. \A s \in sessions : s.user # u /\ s.sid # f.sid /\ s.hash # f.hash /\ s.sid <= sids /\ s.sid <= NewSid
                          /\ s.hash <= NewToken /\ s.sid \in Nat
  <2>1. \A s \in sessions : s.sid \in Nat /\ s.hash \in Nat /\ s.sid <= sids /\ s.hash <= tokens /\ s.user \in users
    BY <1>0 DEF TypeOK, IdsInOrder, Session, Sid, Token
  <2> QED BY <1>0, <1>1, <1>b, <2>1, Numbers
<1>9. OneSessionPerDevice'
  BY <1>0, <1>1, <1>3, <1>8 DEF OneSessionPerDevice
<1>10. IdsInOrder'
  <2>0. (\A k \in spent : k \in Nat) /\ (\A x \in revoked : x.sid \in Nat)
    BY <1>0 DEF TypeOK, Token, Sid
  <2>1. (\A k \in spent' : k <= tokens') /\ (\A x \in revoked' : x.sid <= sids')
    BY <1>0, <1>2, <2>0, Numbers DEF IdsInOrder
  <2>2. f.hash \notin spent
    BY <1>0, <1>1, <2>0, Numbers DEF IdsInOrder
  <2>3. \A s \in sessions' : s.sid <= sids' /\ s.hash <= tokens' /\ s.hash \notin spent' /\ s.user \in users'
    BY <1>0, <1>1, <1>2, <1>3, <1>8, <2>0, <2>2, Numbers DEF IdsInOrder
  <2>4. \A s, t \in sessions' : s.sid = t.sid \/ s.hash = t.hash => s = t
    BY <1>0, <1>3, <1>8 DEF IdsInOrder
  <2> QED BY <2>1, <2>3, <2>4 DEF IdsInOrder
<1>11. ASSUME NEW x \in Requests \ {r} PROVE Undisturbed(x)
  <2>1. \A s \in sessions : s \in sessions' /\ Carries(s, s)
    BY <1>3 DEF Carries
  <2>2. f.sid > sids /\ f.user \notin users
    BY <1>0, <1>1, <1>b, Numbers
  <2>3. job[x].step \in RegisterSteps => job[x].user # u
    BY <1>0, <1>a DEF EmailsHeld, u
  <2>4. job[x].step \in RegisterSteps => job[x].user \notin users' \ users
    BY <1>3, <2>3
  <2>5. \A n \in sessions' :
          \/ \E s \in sessions : Carries(n, s) /\ (rowLock[n.sid] = x => n.hash = s.hash)
          \/ n.sid > sids /\ (n.user \notin users \/ devLock[n.dev] # x)
    BY <1>3, <2>1, <2>2
  <2> QED BY <2>1, <2>4, <2>5 DEF Undisturbed
<1>12. \A x \in Requests : TransactionSound(x)'
  <2>1. users \subseteq users' /\ sids' \in Nat /\ sids <= sids' /\ sessions' \subseteq Session
    BY <1>0, <1>2, <1>3, <1>7, Numbers DEF TypeOK
  <2> QED BY <1>0, <1>5, <1>6, <1>11, <2>1, AllSound
<1>13. RevokedIsFinal'
  <2>1. \A n \in sessions' : (\E s \in sessions : n.sid = s.sid) \/ n.sid = sids + 1
    BY <1>0, <1>1, <1>3, Numbers
  <2> QED BY <1>0, <1>2, <2>1, RevokedKept
<1>14. /\ IdsKnown' /\ \A k : Known(k) => Known(k)'
       /\ \E n \in sessions' : n.sid = NewSid
  <2>1. \E n \in sessions' : n.sid = sids + 1
    BY <1>0, <1>1, <1>3, Numbers
  <2>2. \E n \in sessions' : n.sid = NewSid
    BY <1>0, <2>1, Numbers
  <2>3. sids' = sids + 1
    BY <1>0, <1>2, Numbers
  <2>4. \A s \in sessions : \E n \in sessions' : n.sid = s.sid
    BY <1>3
  <2> QED BY <1>0, <1>2, <2>1, <2>2, <2>3, <2>4, IdsStayKnown
<1>15. RegistrationAllOrNothing'
  <2> DEFINE registered == {x \in events : x.type = "registered"}
  <2>1. registered' = registered \cup {e}
    BY <1>3, <1>4
  <2>2. /\ users = {x.user : x \in registered}
        /\ \A x, y \in registered : x.user = y.user => x = y
        /\ \A x \in registered : Known(x.sid)
        /\ \A i \in issued : i.user \in users
    BY <1>0 DEF RegistrationAllOrNothing
  <2> HIDE DEF registered
  <2>3. users' = {x.user : x \in registered'}
    BY <1>3, <1>4, <2>1, <2>2
  <2>4. \A x, y \in registered' : x.user = y.user => x = y
    BY <1>4, <1>b, <2>1, <2>2
  <2>5. \A x \in registered' : Known(x.sid)'
    <3>1. ASSUME NEW x, x.sid = NewSid PROVE Known(x.sid)'
      BY <1>14, <3>1 DEF Known
    <3> QED BY <1>4, <1>14, <2>1, <2>2, <3>1
  <2>6. \A i \in issued' : i.user \in users'
    BY <1>2, <1>3, <2>2
  <2> QED BY <2>3, <2>4, <2>5, <2>6 DEF RegistrationAllOrNothing, registered
<1>16. EmailsHeld'
  BY <1>0, <1>5, EmailsKept
<1> QED BY <1>7, <1>9, <1>10, <1>12, <1>13, <1>14, <1>15, <1>16 DEF AuthInv, SessionsInv

(* What the end of every login has in common.                               *)
LEMMA LoginCommits ==
  ASSUME AuthInv, NEW r \in Requests, NEW u \in users, NEW sid \in Sid \cup {NoSid},
         NEW lost \in BOOLEAN, LoginCommit(r, u, sid, lost)
  PROVE  /\ users' = users /\ spent' = spent /\ revoked' = revoked
         /\ tokens < MaxTokens /\ tokens' = NewToken /\ tokens' \in 0..MaxTokens
         /\ events' \in SUBSET [type : {"registered", "logged_in"}, user : Users,
                                sid : Sid \cup {NoSid}, tok : Token]
         /\ issued' \in SUBSET [user : Users, sid : Sid \cup {NoSid}, tok : Token]
         /\ reply'.op \in Ops
         /\ (\A k : Known(k) => Known(k)') => RegistrationAllOrNothing'
         /\ Moves(r, Free) /\ TransactionSound(r)'
<1>0. TypeOK /\ RegistrationAllOrNothing /\ u \in Users
  BY DEF AuthInv, SessionsInv, TypeOK
<1>1. /\ users' = users /\ spent' = spent /\ revoked' = revoked
      /\ tokens < MaxTokens /\ tokens' = NewToken /\ End(r) /\ Unlock(r)
  BY DEF LoginCommit
<1>2. tokens' \in 0..MaxTokens /\ NewToken \in Token
  BY <1>0, <1>1, Numbers
<1>3. events' \in SUBSET [type : {"registered", "logged_in"}, user : Users,
                          sid : Sid \cup {NoSid}, tok : Token]
  BY <1>0, <1>2 DEF TypeOK, LoginCommit, Event
<1>4. issued' \in SUBSET [user : Users, sid : Sid \cup {NoSid}, tok : Token]
  BY <1>0, <1>2 DEF TypeOK, LoginCommit, Issue
<1>5. reply'.op \in Ops
  BY DEF LoginCommit, Reply, Ops
<1>6. ASSUME \A k : Known(k) => Known(k)' PROVE RegistrationAllOrNothing'
  <2>1. events' = events \cup {Event("logged_in", u, sid)} /\ Event("logged_in", u, sid).type = "logged_in"
    BY DEF LoginCommit, Event
  <2>2. \A i \in issued' : i \in issued \/ i.user \in users
    BY DEF LoginCommit, Issue
  <2> QED BY <1>0, <1>1, <1>6, <2>1, <2>2, AccountsKept
<1>7. Moves(r, Free)
  BY <1>0, <1>1, Ended
<1>8. TransactionSound(r)'
  BY <1>7, Idle DEF Moves
<1> QED BY <1>1, <1>2, <1>3, <1>4, <1>5, <1>6, <1>7, <1>8

(* A login that updates a session, or writes none (sid = NoSid).             *)
LEMMA LoginUpdates ==
  ASSUME AuthInv, NEW r \in Requests, NEW u \in users, NEW sid \in Sid \cup {NoSid},
         NEW lost \in BOOLEAN, LoginCommit(r, u, sid, lost), NEW old, RowsKept(old),
         old = NoSid \/ (old \in Sid /\ rowLock[old] = NoRequest),
         history' \in SUBSET [sid : Sid, hash : Token, reason : {"rotated", "logout"}],
         history \subseteq history', sids' = sids
  PROVE  AuthInv'
<1>0. /\ SessionsInv /\ TypeOK /\ IdsInOrder /\ IdsKnown /\ EmailsHeld /\ OneSessionPerDevice
      /\ RevokedIsFinal
  BY DEF AuthInv, SessionsInv
<1>1. /\ users' = users /\ spent' = spent /\ revoked' = revoked
      /\ tokens' = NewToken /\ Moves(r, Free) /\ TransactionSound(r)'
  BY LoginCommits
<1>a. IdsKnown' /\ \A k : Known(k) => Known(k)'
  <2>1. \A s \in sessions : \E n \in sessions' : n.sid = s.sid
    BY DEF RowsKept, Carries
  <2> QED BY <1>0, <1>1, <2>1, IdsStayKnown
<1>b. RegistrationAllOrNothing'
  BY <1>a, LoginCommits
<1>c. EmailsHeld'
  BY <1>0, <1>1, EmailsKept
<1>2. TypeOK'
  <2>1. sessions' \in SUBSET Session
    BY DEF RowsKept
  <2>2. users' \in SUBSET Users /\ sids' \in 0..MaxSessions /\ spent' \in SUBSET Token
        /\ revoked' \in SUBSET [sid : Sid, hash : Token]
    BY <1>0, <1>1 DEF TypeOK
  <2>3. /\ events' \in SUBSET [type : {"registered", "logged_in"}, user : Users,
                               sid : Sid \cup {NoSid}, tok : Token]
        /\ issued' \in SUBSET [user : Users, sid : Sid \cup {NoSid}, tok : Token]
        /\ reply'.op \in Ops /\ tokens' \in 0..MaxTokens
    BY LoginCommits
  <2> QED BY <1>1, <2>1, <2>2, <2>3 DEF TypeOK, Moves
<1>3. OneSessionPerDevice' /\ IdsInOrder'
  BY <1>0, <1>1, IdsKept
<1>4. ASSUME NEW x \in Requests PROVE Undisturbed(x)
  <2>1. old = NoSid \/ rowLock[old] # x
    OBVIOUS
  <2> QED BY <1>0, <1>1, <2>1, UpdateUndisturbing
<1>5. users \subseteq users' /\ sids' \in Nat /\ sids <= sids' /\ sessions' \subseteq Session
  BY <1>0, <1>1, Numbers DEF RowsKept
<1>6. \A x \in Requests : TransactionSound(x)'
  BY <1>0, <1>1, <1>4, <1>5, AllSound
<1>7. RevokedIsFinal'
  <2>1. \A n \in sessions' : \E s \in sessions : n.sid = s.sid
    BY DEF RowsKept, Carries
  <2> QED BY <1>0, <1>1, <2>1, RevokedKept
<1> QED BY <1>1, <1>2, <1>3, <1>6, <1>7, <1>a, <1>b, <1>c DEF AuthInv, SessionsInv

(* What a login's archive adds to the history.                              *)
LEMMA RotatedType ==
  ASSUME TypeOK, NEW sid
  PROVE  Rotated(sid) \in SUBSET [sid : Sid, hash : Token, reason : {"rotated", "logout"}]
  BY DEF TypeOK, Rotated, WithId, Session

LEMMA LoginExistingStep ==
  ASSUME AuthInv, NEW r \in Requests, NEW p \in PushArgs, NEW lost \in BOOLEAN,
         LoginExisting(r, p, lost)
  PROVE  AuthInv'
<1>0. TypeOK /\ IdsInOrder /\ TransactionSound(r)
  BY DEF AuthInv, SessionsInv
<1>1. job[r].step = "login" /\ job[r].seen # NoSid /\ rowLock[job[r].seen] = NoRequest
  BY DEF LoginExisting
<1>2. job[r].seen \in Sid /\ job[r].user \in users
  BY <1>0, <1>1, JobFields DEF TransactionSound
<1>3. sessions' = Reissued(job[r].seen, p) /\ LoginCommit(r, job[r].user, job[r].seen, lost) /\ sids' = sids
  BY DEF LoginExisting
<1>4. tokens < MaxTokens
  BY <1>3 DEF LoginCommit
<1>5. RowsKept(job[r].seen)
  BY <1>0, <1>3, <1>4, Overwritten
<1>6. /\ history' \in SUBSET [sid : Sid, hash : Token, reason : {"rotated", "logout"}]
      /\ history \subseteq history'
  <2>1. history' = history \cup Rotated(job[r].seen) \/ history' = history
    BY DEF LoginExisting
  <2>2. history \in SUBSET [sid : Sid, hash : Token, reason : {"rotated", "logout"}]
    BY <1>0 DEF TypeOK
  <2>3. Rotated(job[r].seen) \in SUBSET [sid : Sid, hash : Token, reason : {"rotated", "logout"}]
    BY <1>0, RotatedType
  <2> QED BY <2>1, <2>2, <2>3
<1> QED BY <1>1, <1>2, <1>3, <1>5, <1>6, LoginUpdates

LEMMA LoginUpsertErrorStep ==
  ASSUME AuthInv, NEW r \in Requests, NEW lost \in BOOLEAN, LoginUpsertError(r, lost)
  PROVE  AuthInv'
<1>0. TypeOK /\ IdsInOrder /\ TransactionSound(r)
  BY DEF AuthInv, SessionsInv
<1>1. job[r].step = "login" /\ LoginCommit(r, job[r].user, NoSid, lost) /\ sids' = sids /\ sessions' = sessions
  BY DEF LoginUpsertError
<1>2. job[r].user \in users
  BY <1>0, <1>1 DEF TransactionSound
<1>3. RowsKept(NoSid)
  BY <1>0, <1>1, Untouched
<1>4. /\ history' \in SUBSET [sid : Sid, hash : Token, reason : {"rotated", "logout"}]
      /\ history \subseteq history'
  <2>1. history' = history \cup Rotated(job[r].seen) \/ history' = history
    BY DEF LoginUpsertError
  <2>2. history \in SUBSET [sid : Sid, hash : Token, reason : {"rotated", "logout"}]
    BY <1>0 DEF TypeOK
  <2>3. Rotated(job[r].seen) \in SUBSET [sid : Sid, hash : Token, reason : {"rotated", "logout"}]
    BY <1>0, RotatedType
  <2> QED BY <2>1, <2>2, <2>3
<1> QED BY <1>1, <1>2, <1>3, <1>4, LoginUpdates

LEMMA LoginDeviceErrorStep ==
  ASSUME AuthInv, NEW r \in Requests, NEW u \in Users, NEW lost \in BOOLEAN,
         LoginDeviceError(r, u, lost)
  PROVE  AuthInv'
<1>0. TypeOK /\ IdsInOrder
  BY DEF AuthInv, SessionsInv
<1>1. /\ u \in users /\ LoginCommit(r, u, NoSid, lost)
      /\ sids' = sids /\ sessions' = sessions /\ history' = history
  BY DEF LoginDeviceError
<1>2. RowsKept(NoSid)
  BY <1>0, <1>1, Untouched
<1>3. /\ history' \in SUBSET [sid : Sid, hash : Token, reason : {"rotated", "logout"}]
      /\ history \subseteq history'
  BY <1>0, <1>1 DEF TypeOK
<1> QED BY <1>1, <1>2, <1>3, LoginUpdates

LEMMA LoginNewStep ==
  ASSUME AuthInv, NEW r \in Requests, NEW p \in PushArgs, NEW lost \in BOOLEAN,
         LoginNew(r, p, lost)
  PROVE  AuthInv'
<1>0. /\ SessionsInv /\ TypeOK /\ IdsInOrder /\ IdsKnown /\ EmailsHeld /\ OneSessionPerDevice /\ RevokedIsFinal
      /\ TransactionSound(r)
  BY DEF AuthInv, SessionsInv
<1> DEFINE u == job[r].user
           d == job[r].dev
           f == Fresh(u, d, p)
<1>1. /\ job[r].step = "login" /\ job[r].seen = NoSid /\ sids < MaxSessions
      /\ sessions' = sessions \cup {f} /\ sids' = NewSid /\ history' = history
      /\ LoginCommit(r, u, NewSid, lost)
  BY DEF LoginNew
<1>2. /\ u \in users /\ u \in Users /\ d \in Devices /\ devLock[d] = r
      /\ \A s \in sessions : ~(s.user = u /\ s.dev = d)
  BY <1>0, <1>1, JobFields DEF TransactionSound, SessionsOn
<1>3. NewSid \in Sid
  BY <1>0, <1>1, Numbers
<1> HIDE DEF u, d
<1>4. /\ users' = users /\ spent' = spent /\ revoked' = revoked /\ tokens < MaxTokens
      /\ tokens' = NewToken /\ Moves(r, Free) /\ TransactionSound(r)'
  BY <1>1, <1>2, <1>3, LoginCommits
<1>5. f \in Session /\ f.sid = NewSid /\ f.user = u /\ f.dev = d /\ f.hash = NewToken
  <2>1. NewToken \in Token
    BY <1>0, <1>4, Numbers
  <2> QED BY <1>2, <1>3, <2>1 DEF Fresh, Session, PushOr, PushArgs
<1> HIDE DEF f
<1>6. TypeOK'
  <2>1. sessions' \in SUBSET Session
    BY <1>0, <1>1, <1>5 DEF TypeOK
  <2>2. users' \in SUBSET Users /\ spent' \in SUBSET Token
        /\ revoked' \in SUBSET [sid : Sid, hash : Token]
        /\ history' \in SUBSET [sid : Sid, hash : Token, reason : {"rotated", "logout"}]
    BY <1>0, <1>1, <1>4 DEF TypeOK
  <2>3. /\ events' \in SUBSET [type : {"registered", "logged_in"}, user : Users,
                               sid : Sid \cup {NoSid}, tok : Token]
        /\ issued' \in SUBSET [user : Users, sid : Sid \cup {NoSid}, tok : Token]
        /\ reply'.op \in Ops /\ tokens' \in 0..MaxTokens
    BY <1>1, <1>2, <1>3, LoginCommits
  <2>4. sids' \in 0..MaxSessions
    BY <1>0, <1>1, Numbers
  <2> QED BY <1>4, <2>1, <2>2, <2>3, <2>4 DEF TypeOK, Moves
<1>7. \A s \in sessions : s.sid # f.sid /\ s.hash # f.hash /\ s.sid <= NewSid /\ s.hash <= NewToken
  <2>1. \A s \in sessions : s.sid \in Nat /\ s.hash \in Nat /\ s.sid <= sids /\ s.hash <= tokens
    BY <1>0 DEF TypeOK, IdsInOrder, Session, Sid, Token
  <2> QED BY <1>0, <1>5, <2>1, Numbers
<1>8. OneSessionPerDevice'
  BY <1>0, <1>1, <1>2, <1>5 DEF OneSessionPerDevice
<1>9. IdsInOrder'
  <2>0. (\A k \in spent : k \in Nat) /\ (\A x \in revoked : x.sid \in Nat)
    BY <1>0 DEF TypeOK, Token, Sid
  <2>1. (\A k \in spent' : k <= tokens') /\ (\A x \in revoked' : x.sid <= sids')
    BY <1>0, <1>1, <1>4, <2>0, Numbers DEF IdsInOrder
  <2>2. f.hash \notin spent
    BY <1>0, <1>5, <2>0, Numbers DEF IdsInOrder
  <2>3. \A s \in sessions' : s.sid <= sids' /\ s.hash <= tokens' /\ s.hash \notin spent' /\ s.user \in users'
    BY <1>0, <1>1, <1>2, <1>4, <1>5, <1>7, <2>2, Numbers DEF IdsInOrder
  <2>4. \A s, t \in sessions' : s.sid = t.sid \/ s.hash = t.hash => s = t
    BY <1>0, <1>1, <1>7 DEF IdsInOrder
  <2> QED BY <2>1, <2>3, <2>4 DEF IdsInOrder
<1>10. ASSUME NEW x \in Requests \ {r} PROVE Undisturbed(x)
  <2>1. \A s \in sessions : s \in sessions' /\ Carries(s, s)
    BY <1>1 DEF Carries
  <2>2. f.sid > sids /\ devLock[f.dev] # x
    BY <1>0, <1>2, <1>5, Numbers
  <2> QED BY <1>1, <1>4, <2>1, <2>2 DEF Undisturbed
<1>11. users \subseteq users' /\ sids' \in Nat /\ sids <= sids' /\ sessions' \subseteq Session
  BY <1>0, <1>1, <1>4, <1>6, Numbers DEF TypeOK
<1>12. \A x \in Requests : TransactionSound(x)'
  BY <1>0, <1>4, <1>10, <1>11, AllSound
<1>13. RevokedIsFinal'
  <2>1. \A n \in sessions' : (\E s \in sessions : n.sid = s.sid) \/ n.sid = sids + 1
    BY <1>0, <1>1, <1>5, Numbers
  <2>2. history \subseteq history'
    BY <1>1
  <2> QED BY <1>0, <1>4, <2>1, <2>2, RevokedKept
<1>14. IdsKnown' /\ \A k : Known(k) => Known(k)'
  <2>1. \E n \in sessions' : n.sid = sids + 1
    BY <1>0, <1>1, <1>5, Numbers
  <2>2. sids' = sids + 1
    BY <1>0, <1>1, Numbers
  <2>3. \A s \in sessions : \E n \in sessions' : n.sid = s.sid
    BY <1>1
  <2> QED BY <1>0, <1>4, <2>1, <2>2, <2>3, IdsStayKnown
<1>15. RegistrationAllOrNothing'
  BY <1>1, <1>2, <1>3, <1>14, LoginCommits
<1>16. EmailsHeld'
  BY <1>0, <1>4, EmailsKept
<1> QED BY <1>6, <1>8, <1>9, <1>12, <1>13, <1>14, <1>15, <1>16 DEF AuthInv, SessionsInv

LEMMA RefreshRotateStep ==
  ASSUME AuthInv, NEW r \in Requests, NEW p \in PushArgs, NEW lost \in BOOLEAN,
         RefreshRotate(r, p, lost)
  PROVE  AuthInv'
<1>0. /\ SessionsInv /\ TypeOK /\ IdsInOrder /\ IdsKnown /\ EmailsHeld /\ OneSessionPerDevice /\ RevokedIsFinal
      /\ RegistrationAllOrNothing /\ TransactionSound(r)
  BY DEF AuthInv, SessionsInv
<1> DEFINE sid == job[r].sid
           old == job[r].old
<1>1. /\ job[r].step = "rotate" /\ tokens < MaxTokens /\ tokens' = NewToken
      /\ sessions' = Reissued(sid, p) /\ spent' = spent \cup {old}
      /\ End(r) /\ Unlock(r)
      /\ users' = users /\ history' = history /\ events' = events /\ sids' = sids /\ revoked' = revoked
  BY DEF RefreshRotate
<1>2. sid \in Sid /\ old \in Token
  BY <1>0, <1>1, JobFields
<1>3. rowLock[sid] = r /\ \E s \in sessions : s.sid = sid /\ s.hash = old
  BY <1>0, <1>1 DEF TransactionSound, WithId
<1>4. /\ issued' \in SUBSET [user : Users, sid : Sid \cup {NoSid}, tok : Token]
      /\ reply'.op \in Ops
  <2>1. NewToken \in Token /\ issued \in SUBSET [user : Users, sid : Sid \cup {NoSid}, tok : Token]
    BY <1>0, <1>1, Numbers DEF TypeOK
  <2>2. \A s \in WithId(sid) : s.user \in Users /\ s.sid \in Sid
    BY <1>0 DEF WithId, TypeOK, Session
  <2>3. \/ issued' = issued
        \/ issued' = issued \cup {[user |-> s.user, sid |-> s.sid, tok |-> NewToken] : s \in WithId(sid)}
    BY DEF RefreshRotate
  <2>4. reply'.op \in Ops
    BY DEF RefreshRotate, Reply, Ops
  <2> HIDE DEF sid
  <2> QED BY <2>1, <2>2, <2>3, <2>4
<1> HIDE DEF sid, old
<1>5. RowsKept(sid) /\ \A n \in sessions' : n.sid = sid => n.hash = NewToken
  BY <1>0, <1>1, Overwritten
<1>6. Moves(r, Free)
  BY <1>0, <1>1, Ended
<1>7. TransactionSound(r)'
  BY <1>6, Idle DEF Moves
<1>8. TypeOK'
  <2>1. sessions' \in SUBSET Session
    BY <1>5 DEF RowsKept
  <2>2. tokens' \in 0..MaxTokens
    BY <1>0, <1>1, Numbers
  <2>3. spent' \in SUBSET Token
    BY <1>0, <1>1, <1>2 DEF TypeOK
  <2>4. /\ users' \in SUBSET Users /\ sids' \in 0..MaxSessions
        /\ revoked' \in SUBSET [sid : Sid, hash : Token]
        /\ history' \in SUBSET [sid : Sid, hash : Token, reason : {"rotated", "logout"}]
        /\ events' \in SUBSET [type : {"registered", "logged_in"}, user : Users,
                               sid : Sid \cup {NoSid}, tok : Token]
    BY <1>0, <1>1 DEF TypeOK
  <2> QED BY <1>4, <1>6, <2>1, <2>2, <2>3, <2>4 DEF TypeOK, Moves
<1>9. OneSessionPerDevice' /\ IdsInOrder'
  <2>1. \E s \in sessions : /\ s.sid = sid /\ spent' = spent \cup {s.hash}
                            /\ \A n \in sessions' : n.sid = sid => n.hash = NewToken
    BY <1>1, <1>3, <1>5
  <2> QED BY <1>0, <1>1, <1>5, <2>1, IdsKept
<1>10. ASSUME NEW x \in Requests \ {r} PROVE Undisturbed(x)
  <2>1. rowLock[sid] # x
    BY <1>3
  <2> QED BY <1>0, <1>1, <1>5, <2>1, UpdateUndisturbing
<1>11. users \subseteq users' /\ sids' \in Nat /\ sids <= sids' /\ sessions' \subseteq Session
  BY <1>0, <1>1, <1>5, Numbers DEF RowsKept
<1>12. \A x \in Requests : TransactionSound(x)'
  BY <1>0, <1>6, <1>7, <1>10, <1>11, AllSound
<1>13. RevokedIsFinal'
  <2>1. \A n \in sessions' : \E s \in sessions : n.sid = s.sid
    BY <1>5 DEF RowsKept, Carries
  <2>2. history \subseteq history'
    BY <1>1
  <2> QED BY <1>0, <1>1, <2>1, <2>2, RevokedKept
<1>14. IdsKnown' /\ \A k : Known(k) => Known(k)'
  <2>1. \A s \in sessions : \E n \in sessions' : n.sid = s.sid
    BY <1>5 DEF RowsKept, Carries
  <2> QED BY <1>0, <1>1, <2>1, IdsStayKnown
<1>15. RegistrationAllOrNothing'
  <2>1. \A s \in WithId(sid) : s.user \in users
    BY <1>0 DEF WithId, IdsInOrder
  <2>2. \A i \in issued' : i \in issued \/ i.user \in users
    <3>1. \/ issued' = issued
          \/ issued' = issued \cup {[user |-> s.user, sid |-> s.sid, tok |-> NewToken] : s \in WithId(sid)}
      BY DEF RefreshRotate, sid
    <3> QED BY <2>1, <3>1
  <2> QED BY <1>0, <1>1, <1>14, <2>2, AccountsKept
<1>16. EmailsHeld'
  BY <1>0, <1>6, EmailsKept
<1> QED BY <1>8, <1>9, <1>12, <1>13, <1>14, <1>15, <1>16 DEF AuthInv, SessionsInv

LEMMA RevokeDeleteStep ==
  ASSUME AuthInv, NEW r \in Requests, NEW lost \in BOOLEAN, RevokeDelete(r, lost)
  PROVE  AuthInv'
<1>0. /\ SessionsInv /\ TypeOK /\ IdsInOrder /\ IdsKnown /\ EmailsHeld /\ OneSessionPerDevice /\ RevokedIsFinal
      /\ RegistrationAllOrNothing /\ TransactionSound(r)
  BY DEF AuthInv, SessionsInv
<1> DEFINE sid == job[r].sid
           hash == job[r].hash
           entry == [sid |-> sid, hash |-> hash, reason |-> "logout"]
<1>1. /\ job[r].step = "archived"
      /\ history' = history \cup {entry} /\ sessions' = sessions \ WithId(sid)
      /\ revoked' = revoked \cup {[sid |-> s.sid, hash |-> s.hash] : s \in WithId(sid)}
      /\ End(r) /\ Unlock(r)
      /\ users' = users /\ events' = events /\ tokens' = tokens /\ sids' = sids
      /\ issued' = issued /\ spent' = spent
  BY DEF RevokeDelete
<1>2. sid \in Sid /\ hash \in Token
  BY <1>0, <1>1, JobFields DEF TransactionSound
<1>3. /\ rowLock[sid] = r /\ sid <= sids
      /\ \A s \in sessions : s.sid = sid => s.hash = hash
  BY <1>0, <1>1 DEF TransactionSound, WithId
<1>4. reply'.op \in Ops
  BY DEF RevokeDelete, Reply, Ops
<1> HIDE DEF sid, hash
<1>5. /\ \A n \in sessions' : n \in sessions /\ n.sid # sid
      /\ \A s \in sessions : s.sid # sid => s \in sessions'
      /\ \A x \in revoked' : x \in revoked \/ x = [sid |-> sid, hash |-> hash]
  BY <1>1, <1>3 DEF WithId
<1>6. Moves(r, Free)
  BY <1>0, <1>1, Ended
<1>7. TransactionSound(r)'
  BY <1>6, Idle DEF Moves
<1>8. TypeOK'
  <2>1. sessions' \in SUBSET Session
    BY <1>0, <1>5 DEF TypeOK
  <2>2. history' \in SUBSET [sid : Sid, hash : Token, reason : {"rotated", "logout"}]
    BY <1>0, <1>1, <1>2 DEF TypeOK
  <2>3. revoked' \in SUBSET [sid : Sid, hash : Token]
    BY <1>0, <1>2, <1>5 DEF TypeOK
  <2>4. /\ users' \in SUBSET Users /\ sids' \in 0..MaxSessions /\ tokens' \in 0..MaxTokens
        /\ issued' \in SUBSET [user : Users, sid : Sid \cup {NoSid}, tok : Token]
        /\ spent' \in SUBSET Token
        /\ events' \in SUBSET [type : {"registered", "logged_in"}, user : Users,
                               sid : Sid \cup {NoSid}, tok : Token]
    BY <1>0, <1>1 DEF TypeOK
  <2> QED BY <1>4, <1>6, <2>1, <2>2, <2>3, <2>4 DEF TypeOK, Moves
<1>9. OneSessionPerDevice'
  BY <1>0, <1>5 DEF OneSessionPerDevice
<1>10. IdsInOrder'
  <2>1. /\ \A s \in sessions' :
             s.sid <= sids' /\ s.hash <= tokens' /\ s.hash \notin spent' /\ s.user \in users'
        /\ \A s, t \in sessions' : s.sid = t.sid \/ s.hash = t.hash => s = t
        /\ \A k \in spent' : k <= tokens'
    BY <1>0, <1>1, <1>5 DEF IdsInOrder
  <2>2. \A x \in revoked' : x.sid <= sids'
    BY <1>0, <1>1, <1>3, <1>5 DEF IdsInOrder
  <2> QED BY <2>1, <2>2 DEF IdsInOrder
<1>11. ASSUME NEW x \in Requests \ {r} PROVE Undisturbed(x)
  <2>1. \A s \in sessions : rowLock[s.sid] = x => s \in sessions'
    BY <1>3, <1>5
  <2> QED BY <1>1, <1>5, <2>1 DEF Undisturbed, Carries
<1>12. users \subseteq users' /\ sids' \in Nat /\ sids <= sids' /\ sessions' \subseteq Session
  BY <1>0, <1>1, <1>8, Numbers DEF TypeOK
<1>13. \A x \in Requests : TransactionSound(x)'
  BY <1>0, <1>6, <1>7, <1>11, <1>12, AllSound
<1>14. RevokedIsFinal'
  <2>1. ASSUME NEW x \in revoked', NEW s \in sessions' PROVE x.sid # s.sid
    <3>1. CASE x \in revoked
      BY <1>0, <1>5, <3>1 DEF RevokedIsFinal
    <3>2. CASE x = [sid |-> sid, hash |-> hash]
      BY <1>5, <3>2
    <3> QED BY <1>5, <3>1, <3>2
  <2>2. ASSUME NEW x \in revoked'
        PROVE  [sid |-> x.sid, hash |-> x.hash, reason |-> "logout"] \in history'
    <3>1. CASE x \in revoked
      BY <1>0, <1>1, <3>1 DEF RevokedIsFinal
    <3>2. CASE x = [sid |-> sid, hash |-> hash]
      BY <1>1, <3>2
    <3> QED BY <1>5, <3>1, <3>2
  <2> QED BY <2>1, <2>2 DEF RevokedIsFinal
<1>15. IdsKnown' /\ \A k : Known(k) => Known(k)'
  <2>1. ASSUME NEW s \in sessions
        PROVE  (\E n \in sessions' : n.sid = s.sid) \/ (\E x \in revoked' : x.sid = s.sid)
    <3>1. CASE s.sid = sid
      <4>1. s \in WithId(sid)
        BY <3>1 DEF WithId
      <4>2. [sid |-> s.sid, hash |-> s.hash] \in revoked'
        BY <1>1, <4>1
      <4> QED BY <4>2
    <3>2. CASE s.sid # sid
      BY <1>5, <3>2
    <3> QED BY <3>1, <3>2
  <2>2. revoked \subseteq revoked'
    BY <1>1
  <2> QED BY <1>0, <1>1, <2>1, <2>2, IdsStayKnown
<1>16. RegistrationAllOrNothing'
  BY <1>0, <1>1, <1>15, AccountsKept
<1>17. EmailsHeld'
  BY <1>0, <1>6, EmailsKept
<1> QED BY <1>8, <1>9, <1>10, <1>13, <1>14, <1>15, <1>16, <1>17 DEF AuthInv, SessionsInv

(* A statement that changes another column than the token.                  *)
LEMMA AmendStep ==
  ASSUME AuthInv, NEW s \in sessions, NEW t \in Session, Carries(t, s), t.hash = s.hash,
         sessions' = Put(t), reply'.op \in Ops,
         UNCHANGED <<users, history, events, devLock, rowLock, job, tokens, sids,
                     issued, spent, revoked>>
  PROVE  AuthInv'
<1>0. /\ SessionsInv /\ TypeOK /\ IdsInOrder /\ IdsKnown /\ EmailsHeld /\ OneSessionPerDevice
      /\ RevokedIsFinal /\ RegistrationAllOrNothing
  BY DEF AuthInv, SessionsInv
<1>1. RowsKept(NoSid)
  BY <1>0, Amended
<1>2. TypeOK'
  BY <1>0, <1>1 DEF TypeOK, RowsKept
<1>3. OneSessionPerDevice' /\ IdsInOrder'
  BY <1>0, <1>1, IdsKept
<1>4. ASSUME NEW x \in Requests PROVE TransactionSound(x)'
  <2>1. Undisturbed(x) /\ TransactionSound(x)
    BY <1>0, <1>1, UpdateUndisturbing DEF SessionsInv
  <2>2. users \subseteq users' /\ sids' \in Nat /\ sids <= sids' /\ sessions' \subseteq Session
    BY <1>0, <1>1, Numbers DEF RowsKept
  <2>3. job' = job /\ devLock' = devLock /\ rowLock' = rowLock
    OBVIOUS
  <2> QED BY <1>0, <2>1, <2>2, <2>3, TransactionKept
<1>5. RevokedIsFinal'
  <2>1. \A n \in sessions' : \E x \in sessions : n.sid = x.sid
    BY <1>1 DEF RowsKept, Carries
  <2>2. history \subseteq history' /\ revoked' = revoked
    OBVIOUS
  <2> QED BY <1>0, <2>1, <2>2, RevokedKept
<1>6. IdsKnown' /\ \A k : Known(k) => Known(k)'
  <2>1. \A x \in sessions : \E n \in sessions' : n.sid = x.sid
    BY <1>1 DEF RowsKept, Carries
  <2> QED BY <1>0, <2>1, IdsStayKnown
<1>7. RegistrationAllOrNothing'
  BY <1>0, <1>6, AccountsKept
<1>8. EmailsHeld'
  BY <1>0 DEF EmailsHeld
<1> QED BY <1>2, <1>3, <1>4, <1>5, <1>6, <1>7, <1>8 DEF AuthInv, SessionsInv

LEMMA UpdatePushTokenStep ==
  ASSUME AuthInv, NEW u, NEW sid, NEW p \in PushTokens, UpdatePushToken(u, sid, p)
  PROVE  AuthInv'
<1>0. sessions \subseteq Session
  BY DEF AuthInv, SessionsInv, TypeOK
<1>1. /\ reply'.op \in Ops
      /\ UNCHANGED <<users, history, events, devLock, rowLock, job, tokens, sids,
                     issued, spent, revoked>>
  <2>1. UNCHANGED <<users, history, events, devLock, rowLock, job, tokens, sids,
                    issued, spent, revoked>>
    BY DEF UpdatePushToken, ghosts
  <2>2. reply' = Reply("push", 200, u, sid, NoTok, NoTok) \/ reply' = Reply("push", 404, u, sid, NoTok, NoTok)
    BY DEF UpdatePushToken
  <2>3. reply'.op = "push"
    BY <2>2 DEF Reply
  <2> QED BY <2>1, <2>3 DEF Ops
<1>2. CASE sessions' = sessions
  BY <1>1, <1>2, OnlyAnswers
<1>3. ASSUME NEW s \in sessions, sessions' = Put([s EXCEPT !.push = p]) PROVE AuthInv'
  <2> DEFINE t == [s EXCEPT !.push = p]
  <2>1. t \in Session /\ Carries(t, s) /\ t.hash = s.hash
    BY <1>0 DEF Session, Carries
  <2>2. sessions' = Put(t)
    BY <1>3
  <2> HIDE DEF t
  <2> QED BY <1>1, <2>1, <2>2, AmendStep
<1> QED BY <1>2, <1>3 DEF UpdatePushToken, WithId

LEMMA ExpireStep ==
  ASSUME AuthInv, NEW s \in sessions, Expire(s)
  PROVE  AuthInv'
<1>0. sessions \subseteq Session
  BY DEF AuthInv, SessionsInv, TypeOK
<1>1. /\ reply'.op \in Ops
      /\ UNCHANGED <<users, history, events, devLock, rowLock, job, tokens, sids,
                     issued, spent, revoked>>
  BY DEF Expire, ghosts, AuthInv, SessionsInv, TypeOK
<1> DEFINE t == [s EXCEPT !.expired = TRUE]
<1>2. t \in Session /\ Carries(t, s) /\ t.hash = s.hash
  BY <1>0 DEF Session, Carries
<1>3. sessions' = Put(t)
  BY DEF Expire
<1> HIDE DEF t
<1> QED BY <1>1, <1>2, <1>3, AmendStep

-----------------------------------------------------------------------------
(* The theorems.                                                            *)

(* Register, Login, RefreshToken, LogoutSession and UpdatePushToken, however  *)
(* their transactions interleave, keep the tables, locks and open            *)
(* transactions consistent with each other.                                 *)
THEOREM SessionsInductive == Spec => []AuthInv
<1>1. Init => AuthInv
  <2> SUFFICES ASSUME Init PROVE AuthInv
    OBVIOUS
  <2>1. TypeOK
    <3>1. reply.op \in Ops
      BY DEF Init, Reply, Ops
    <3>2. Free \in Jobs
      BY JobTypes
    <3> QED BY <3>1, <3>2 DEF Init, TypeOK
  <2>2. OneSessionPerDevice /\ IdsInOrder /\ IdsKnown /\ RevokedIsFinal /\ RegistrationAllOrNothing
    BY DEF Init, OneSessionPerDevice, IdsInOrder, IdsKnown, RevokedIsFinal, RegistrationAllOrNothing
  <2>3. EmailsHeld /\ \A r \in Requests : TransactionSound(r)
    <3>1. \A r \in Requests : job[r].step = "free"
      BY JobTypes DEF Init
    <3> QED BY <3>1 DEF TransactionSound, EmailsHeld, RegisterSteps
  <2> QED BY <2>1, <2>2, <2>3 DEF AuthInv, SessionsInv
<1>2. AuthInv /\ [Next]_vars => AuthInv'
  <2> SUFFICES ASSUME AuthInv, [Next]_vars PROVE AuthInv'
    OBVIOUS
  <2>0. \A i \in issued : i.user \in Users
    BY DEF AuthInv, SessionsInv, TypeOK
  <2>1. CASE AccountNext
    <3>1. ASSUME NEW u \in Users, RegisterDuplicate(u) PROVE AuthInv'
      BY <3>1, OnlyAnswers DEF RegisterDuplicate, Reply, Ops, tables, ghosts
    <3> QED BY <2>1, <3>1, RegisterUserStep, LoginStartStep, LoginDeviceErrorStep
        DEF AccountNext
  <2>2. ASSUME NEW r \in Requests, RequestNext(r) PROVE AuthInv'
    <3>0. CASE RegisterSession(r) \/ RegisterEvent(r) \/ RegisterError(r)
      BY <3>0, RegisterSessionStep, RegisterEventStep, RegisterErrorStep
    <3>1. ASSUME NEW p \in PushArgs, NEW lost \in BOOLEAN,
                 LoginExisting(r, p, lost) \/ LoginNew(r, p, lost)
          PROVE  AuthInv'
      BY <3>1, LoginExistingStep, LoginNewStep
    <3>2. CASE LoginError(r) \/ CommitError(r) \/ ContextDone(r) \/ Rollback(r) \/ RevokeArchive(r)
      BY <3>2, LoginErrorStep, CommitErrorStep, ContextDoneStep, RollbackStep, RevokeArchiveStep
    <3>3. ASSUME NEW i \in issued, RefreshSelect(r, i.tok) PROVE AuthInv'
      BY <3>3, RefreshSelectStep
    <3>4. ASSUME NEW p \in PushArgs, NEW lost \in BOOLEAN, RefreshRotate(r, p, lost) PROVE AuthInv'
      BY <3>4, RefreshRotateStep
    <3>5. ASSUME NEW i \in issued, NEW sid \in Sid, RevokeLock(r, i.user, sid) PROVE AuthInv'
      BY <2>0, <3>5, RevokeLockStep
    <3>6. ASSUME NEW lost \in BOOLEAN,
                 RegisterCommit(r, lost) \/ LoginUpsertError(r, lost) \/ RevokeDelete(r, lost)
          PROVE  AuthInv'
      BY <3>6, RegisterCommitStep, LoginUpsertErrorStep, RevokeDeleteStep
    <3> QED BY <2>2, <3>0, <3>1, <3>2, <3>3, <3>4, <3>5, <3>6 DEF RequestNext
  <2>3. CASE SingleStatementNext
    <3>1. ASSUME NEW old, RefreshRefused(old) PROVE AuthInv'
      <4>1. reply'.op \in Ops
        BY <3>1 DEF RefreshRefused, Reply, Ops
      <4> QED BY <3>1, <4>1, OnlyAnswers DEF RefreshRefused, tables, ghosts
    <3>2. ASSUME NEW u, NEW sid, LogoutAllSessions(u, sid) \/ RevokeMissing(u, sid) PROVE AuthInv'
      <4>1. reply'.op \in Ops
        BY <3>2 DEF LogoutAllSessions, RevokeMissing, Reply, Ops
      <4> QED BY <3>2, <4>1, OnlyAnswers DEF LogoutAllSessions, RevokeMissing, tables, ghosts
    <3> QED BY <2>3, <3>1, <3>2, UpdatePushTokenStep, ExpireStep DEF SingleStatementNext
  <2>4. CASE UNCHANGED vars
    <3>1. reply'.op \in Ops
      BY <2>4 DEF vars, AuthInv, SessionsInv, TypeOK
    <3> QED BY <2>4, <3>1, OnlyAnswers DEF vars, tables, ghosts
  <2> QED BY <2>1, <2>2, <2>3, <2>4 DEF Next
<1> QED BY <1>1, <1>2, PTL DEF Spec

(* A user never has two sessions on one device, no token is a session's twice, *)
(* and what a transaction has read and locked is still so when it writes.      *)
THEOREM SessionsConsistent == Spec => []SessionsInv
<1>1. AuthInv => SessionsInv
  BY DEF AuthInv
<1> QED BY <1>1, SessionsInductive, PTL

(* No session comes back after LogoutSession answered 200, and the history has *)
(* the token it last had.                                                     *)
THEOREM LogoutIsFinal == Spec => []RevokedIsFinal
<1>1. AuthInv => RevokedIsFinal
  BY DEF AuthInv
<1> QED BY <1>1, SessionsInductive, PTL

(* An account, its event and its first session are committed together or not   *)
(* at all, and tokens are handed out only for accounts that were.             *)
THEOREM RegistrationAtomic == Spec => []RegistrationAllOrNothing
<1>1. AuthInv => RegistrationAllOrNothing
  BY DEF AuthInv
<1> QED BY <1>1, SessionsInductive, PTL

(* Who answers what: only the rotation answers a refresh with 200, and only   *)
(* the end of a login a login.                                              *)
LEMMA OnlyLoginCommits ==
  ASSUME NEW r \in Requests, NEW u, NEW sid, NEW lost, LoginCommit(r, u, sid, lost)
  PROVE  ~Answered("refresh", 200)
  <1>1. reply'.op = "login"
    BY DEF LoginCommit, Reply
  <1> QED BY <1>1 DEF Answered

LEMMA AccountAnswers ==
  ASSUME AccountNext
  PROVE  /\ ~Answered("refresh", 200)
         /\ ~Answered("login", 200) \/ \E u \in Users, r \in Requests, lost \in BOOLEAN : LoginDeviceError(r, u, lost)
<1>1. ASSUME NEW u, RegisterDuplicate(u) PROVE ~Answered("refresh", 200) /\ ~Answered("login", 200)
  BY <1>1 DEF RegisterDuplicate, Reply, Answered
<1>2. ASSUME NEW r, NEW u, NEW d, NEW p, RegisterUser(r, u, d, p)
      PROVE  ~Answered("refresh", 200) /\ ~Answered("login", 200)
  BY <1>2 DEF RegisterUser, Answered
<1>4. ASSUME NEW r, NEW u, NEW d, LoginStart(r, u, d)
      PROVE  ~Answered("refresh", 200) /\ ~Answered("login", 200)
  BY <1>4 DEF LoginStart, Answered
<1>5. ASSUME NEW r \in Requests, NEW u, NEW lost, LoginDeviceError(r, u, lost) PROVE ~Answered("refresh", 200)
  BY <1>5, OnlyLoginCommits DEF LoginDeviceError
<1> QED BY <1>1, <1>2, <1>4, <1>5 DEF AccountNext

LEMMA RequestAnswers ==
  ASSUME NEW r \in Requests, RequestNext(r)
  PROVE  /\ \/ ~Answered("refresh", 200)
            \/ \E p \in PushArgs, lost \in BOOLEAN : RefreshRotate(r, p, lost)
         /\ \/ ~Answered("login", 200)
            \/ \E p \in PushArgs, lost \in BOOLEAN : LoginExisting(r, p, lost) \/ LoginNew(r, p, lost)
            \/ \E lost \in BOOLEAN : LoginUpsertError(r, lost)
<1>0. ASSUME RegisterSession(r) \/ RegisterEvent(r) PROVE ~Answered("refresh", 200) /\ ~Answered("login", 200)
  BY <1>0 DEF RegisterSession, RegisterEvent, Answered
<1>a. ASSUME RegisterError(r) PROVE ~Answered("refresh", 200) /\ ~Answered("login", 200)
  BY <1>a DEF RegisterError, Reply, Answered
<1>b. ASSUME NEW lost, RegisterCommit(r, lost) PROVE ~Answered("refresh", 200) /\ ~Answered("login", 200)
  <2>1. reply'.op = "register"
    BY <1>b DEF RegisterCommit, Reply
  <2> QED BY <2>1 DEF Answered
<1>c. ASSUME CommitError(r) PROVE ~Answered("refresh", 200) /\ ~Answered("login", 200)
  <2>1. reply'.code = 500
    BY <1>c DEF CommitError, Reply
  <2> QED BY <2>1 DEF Answered
<1>1. ASSUME NEW p, NEW lost, LoginExisting(r, p, lost) \/ LoginNew(r, p, lost)
      PROVE  ~Answered("refresh", 200)
  BY <1>1, OnlyLoginCommits DEF LoginExisting, LoginNew
<1>2. ASSUME NEW lost, LoginUpsertError(r, lost) PROVE ~Answered("refresh", 200)
  BY <1>2, OnlyLoginCommits DEF LoginUpsertError
<1>3. ASSUME LoginError(r) PROVE ~Answered("refresh", 200) /\ ~Answered("login", 200)
  BY <1>3 DEF LoginError, Reply, Answered
<1>4. ASSUME ContextDone(r) \/ RevokeArchive(r) PROVE ~Answered("refresh", 200) /\ ~Answered("login", 200)
  BY <1>4 DEF ContextDone, RevokeArchive, Answered
<1>5. ASSUME NEW old, RefreshSelect(r, old) PROVE ~Answered("refresh", 200) /\ ~Answered("login", 200)
  BY <1>5 DEF RefreshSelect, Answered
<1>6. ASSUME NEW p, NEW lost, RefreshRotate(r, p, lost) PROVE ~Answered("login", 200)
  BY <1>6 DEF RefreshRotate, Reply, Answered
<1>7. ASSUME NEW u, NEW sid, RevokeLock(r, u, sid) PROVE ~Answered("refresh", 200) /\ ~Answered("login", 200)
  BY <1>7 DEF RevokeLock, Answered
<1>8. ASSUME NEW lost, RevokeDelete(r, lost) PROVE ~Answered("refresh", 200) /\ ~Answered("login", 200)
  <2>1. reply'.op = "logout"
    BY <1>8 DEF RevokeDelete, Reply
  <2> QED BY <2>1 DEF Answered
<1>9. ASSUME Rollback(r) PROVE ~Answered("refresh", 200) /\ ~Answered("login", 200)
  BY <1>9 DEF Rollback, Reply, Answered
<1> QED BY <1>0, <1>1, <1>2, <1>3, <1>4, <1>5, <1>6, <1>7, <1>8, <1>9, <1>a, <1>b, <1>c DEF RequestNext

LEMMA StatementAnswers ==
  ASSUME SingleStatementNext
  PROVE  ~Answered("refresh", 200) /\ ~Answered("login", 200)
<1>1. ASSUME NEW old, RefreshRefused(old) PROVE ~Answered("refresh", 200) /\ ~Answered("login", 200)
  BY <1>1 DEF RefreshRefused, Reply, Answered
<1>2. ASSUME NEW u, NEW sid, LogoutAllSessions(u, sid)
      PROVE  ~Answered("refresh", 200) /\ ~Answered("login", 200)
  BY <1>2 DEF LogoutAllSessions, Reply, Answered
<1>3. ASSUME NEW u, NEW sid, RevokeMissing(u, sid)
      PROVE  ~Answered("refresh", 200) /\ ~Answered("login", 200)
  BY <1>3 DEF RevokeMissing, Reply, Answered
<1>4. ASSUME NEW u, NEW sid, NEW p, UpdatePushToken(u, sid, p)
      PROVE  ~Answered("refresh", 200) /\ ~Answered("login", 200)
  <2>1. reply' = Reply("push", 200, u, sid, NoTok, NoTok) \/ reply' = Reply("push", 404, u, sid, NoTok, NoTok)
    BY <1>4 DEF UpdatePushToken
  <2>2. reply'.op = "push"
    BY <2>1 DEF Reply
  <2> QED BY <2>2 DEF Answered
<1>5. ASSUME NEW s, Expire(s) PROVE ~Answered("refresh", 200) /\ ~Answered("login", 200)
  BY <1>5 DEF Expire, Answered
<1> QED BY <1>1, <1>2, <1>3, <1>4, <1>5 DEF SingleStatementNext

(* The row's lock holds from the SELECT ... FOR UPDATE to the UPDATE, so the   *)
(* token that RefreshToken exchanges is still its session's: it was not        *)
(* exchanged before, and its session was not logged out.                       *)
THEOREM TokensExchangedOnce == Spec => TokenExchangedOnce
<1> DEFINE A == Answered("refresh", 200) =>
                  /\ reply'.old \notin spent
                  /\ \A x \in revoked : x.sid # reply'.sid
<1>1. AuthInv /\ [Next]_vars => [A]_vars
  <2> SUFFICES ASSUME AuthInv, Next, Answered("refresh", 200)
               PROVE  reply'.old \notin spent /\ \A x \in revoked : x.sid # reply'.sid
    OBVIOUS
  <2>1. PICK r \in Requests, p \in PushArgs, lost \in BOOLEAN : RefreshRotate(r, p, lost)
    BY AccountAnswers, RequestAnswers, StatementAnswers DEF Next
  <2>2. IdsInOrder /\ RevokedIsFinal /\ TransactionSound(r)
    BY DEF AuthInv, SessionsInv
  <2>3. job[r].step = "rotate"
    BY <2>1 DEF RefreshRotate
  <2>4. PICK s \in sessions : s.sid = job[r].sid /\ s.hash = job[r].old
    BY <2>2, <2>3 DEF TransactionSound, WithId
  <2>5. reply'.old = job[r].old /\ reply'.sid = job[r].sid
    BY <2>1 DEF RefreshRotate, Reply, Answered
  <2>6. s.hash \notin spent
    BY <2>2 DEF IdsInOrder
  <2>7. \A x \in revoked : x.sid # s.sid
    BY <2>2 DEF RevokedIsFinal
  <2> QED BY <2>4, <2>5, <2>6, <2>7
<1> QED BY <1>1, SessionsInductive, PTL DEF Spec, TokenExchangedOnce

(* A login that found an existing session overwrites that session of the same *)
(* account unless it was logged out since, and one that found none inserts its *)
(* own; no session id is ever forgotten, so nothing else is possible.          *)
THEOREM LoginSessionsExplained == Spec => LoginWithoutSessionExplained
<1> DEFINE Current == \E s \in sessions' :
                        s.sid = reply'.sid /\ s.hash = reply'.tok /\ s.user = reply'.user
           B == Current \/ reply'.sid = NoSid \/ \E x \in revoked : x.sid = reply'.sid
           A == Answered("login", 200) => B
<1>1. AuthInv /\ [Next]_vars => [A]_vars
  <2> SUFFICES ASSUME AuthInv, Next, Answered("login", 200) PROVE B
    OBVIOUS
  <2>0. TypeOK /\ IdsInOrder /\ IdsKnown
    BY DEF AuthInv, SessionsInv
  <2>1. ASSUME NEW r, NEW u, NEW sid, NEW lost, LoginCommit(r, u, sid, lost)
        PROVE  reply'.sid = sid /\ reply'.user = u /\ reply'.tok = NewToken
    BY <2>1 DEF LoginCommit, Reply, Answered
  <2>3. ASSUME NEW r \in Requests, NEW p \in PushArgs, NEW lost \in BOOLEAN, LoginExisting(r, p, lost)
        PROVE  B
    <3>1. /\ job[r].step = "login" /\ sessions' = Reissued(job[r].seen, p) /\ job[r].seen # NoSid
          /\ LoginCommit(r, job[r].user, job[r].seen, lost) /\ tokens < MaxTokens
      BY <2>3 DEF LoginExisting, LoginCommit
    <3>2. reply'.sid = job[r].seen /\ reply'.user = job[r].user /\ reply'.tok = NewToken
      BY <2>1, <3>1
    <3>3. RowsKept(job[r].seen) /\ \A x \in sessions' : x.sid = job[r].seen => x.hash = NewToken
      BY <2>0, <3>1, Overwritten
    <3>4. \A s \in sessions : s.sid = job[r].seen => s.user = job[r].user
      BY <3>1 DEF AuthInv, SessionsInv, TransactionSound, WithId
    <3>5. Known(job[r].seen)
      <4>1. job[r].seen \in Sid /\ job[r].seen <= sids
        BY <2>0, <3>1, JobFields DEF AuthInv, SessionsInv, TransactionSound
      <4>2. job[r].seen \in 1..sids
        BY <2>0, <4>1 DEF Sid, TypeOK
      <4> QED BY <2>0, <4>2 DEF IdsKnown
    <3>6. ASSUME NEW s \in sessions, s.sid = job[r].seen PROVE Current
      <4>1. PICK n \in sessions' : Carries(n, s)
        BY <3>3 DEF RowsKept, Carries
      <4>2. n.sid = reply'.sid /\ n.hash = reply'.tok /\ n.user = reply'.user
        BY <3>2, <3>3, <3>4, <3>6, <4>1 DEF Carries
      <4> QED BY <4>2
    <3> QED BY <3>2, <3>5, <3>6 DEF Known
  <2>4. ASSUME NEW r \in Requests, NEW p \in PushArgs, NEW lost \in BOOLEAN, LoginNew(r, p, lost)
        PROVE  Current
    <3> DEFINE f == Fresh(job[r].user, job[r].dev, p)
    <3>1. sessions' = sessions \cup {f} /\ LoginCommit(r, job[r].user, NewSid, lost)
      BY <2>4 DEF LoginNew
    <3>2. reply'.sid = NewSid /\ reply'.user = job[r].user /\ reply'.tok = NewToken
      BY <2>1, <3>1
    <3>3. f.sid = NewSid /\ f.hash = NewToken /\ f.user = job[r].user
      BY DEF Fresh
    <3> HIDE DEF f
    <3> QED BY <3>1, <3>2, <3>3
  <2>5. ASSUME NEW r \in Requests, NEW lost, LoginUpsertError(r, lost) PROVE reply'.sid = NoSid
    BY <2>1, <2>5 DEF LoginUpsertError
  <2>6. ASSUME NEW r \in Requests, NEW u, NEW lost, LoginDeviceError(r, u, lost) PROVE reply'.sid = NoSid
    BY <2>1, <2>6 DEF LoginDeviceError
  <2> HIDE DEF Current
  <2> QED BY <2>3, <2>4, <2>5, <2>6, AccountAnswers, RequestAnswers, StatementAnswers DEF Next
<1> QED BY <1>1, SessionsInductive, PTL DEF Spec, LoginWithoutSessionExplained
=============================================================================
