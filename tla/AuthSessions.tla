---------------------------- MODULE AuthSessions ----------------------------
(***************************************************************************)
(* Accounts and device sessions of the auth service: Register, Login,      *)
(* RefreshToken, LogoutSession, LogoutAllSessions and UpdatePushToken      *)
(* (internal/auth/service/auth/service.go) with the transactions of        *)
(* internal/auth/repository/auth.go, run by concurrent requests.           *)
(*                                                                         *)
(* A transaction is cut where another request can act in between (after a  *)
(* plain snapshot read and after each SELECT ... FOR UPDATE) and, in       *)
(* Register, after each insert, where a failure leaves it open.  Elsewhere *)
(* the statements from the first write of a session row to the commit are  *)
(* one step, because the row's lock keeps every other request away.  A     *)
(* commit may report an error and have taken effect all the same (lost).   *)
(* Refresh tokens and session ids are numbers handed out in order; a token *)
(* stands for its hash as well (SHA-256 of 32 random bytes).  InnoDB locks *)
(* more rows than the ones changed (public_id has no index); the model     *)
(* locks only those, so it has every interleaving MySQL allows and more.   *)
(***************************************************************************)
EXTENDS Naturals, FiniteSets

CONSTANTS Users,       \* e-mail addresses
          Devices,     \* (installation_id, platform) pairs
          Requests,    \* concurrent requests
          PushTokens,  \* values of push_token, "" among them
          MaxTokens,   \* bound: refresh tokens generated
          MaxSessions, \* bound: sessions created
          NoRequest

NoPush == ""   \* a push_token that is empty, or NULL

ASSUME SessionsAssumption ==
    /\ NoPush \in PushTokens
    /\ MaxTokens \in Nat /\ MaxSessions \in Nat
    /\ NoRequest \notin Requests

VARIABLES users,     \* table users
          sessions,  \* table device_sessions
          history,   \* table device_session_history
          events,    \* inserts into auth_outbox_events
          devLock,   \* holder of each devices row
          rowLock,   \* holder of each device_sessions row
          job,       \* the open transaction of each request
          tokens,    \* refresh tokens generated so far
          sids,      \* sessions created so far
          issued,    \* what clients hold: access and refresh tokens
          reply,     \* the last response sent
          spent,     \* history: refresh tokens exchanged for new ones
          revoked    \* history: sessions logged out, with their last token

tables == <<users, sessions, history, events>>
ghosts == <<issued, spent, revoked>>
vars == <<tables, devLock, rowLock, job, tokens, sids, reply, ghosts>>

Token == 1..MaxTokens
Sid   == 1..MaxSessions
NoSid == 0     \* the empty session id
NoTok == 0

\* The request's push_token: absent (nil) it leaves the column alone, "" clears
\* it (NULL), which is also what a new row has.
PushArgs == PushTokens \cup {"nil"}
PushOr(p, old) == IF p = "nil" THEN old ELSE p

Session == [sid : Sid, user : Users, dev : Devices, hash : Token,
            push : PushTokens, expired : BOOLEAN]

\* Register's transaction: the statement it is at, or "unregistered" once its
\* closure has failed; and the tables it has written, which the commit will show.
RegisterSteps == {"insert_session", "insert_event", "commit", "unregistered"}
RegisterWrites == {"user", "session", "event"}

Free == [step |-> "free"]
\* RunInTx's closure failed: answered, but the transaction is still open.
Abandoned == [step |-> "abandoned"]
Jobs == {Free}
    \cup [step : {"abandoned"}]
    \cup [step : RegisterSteps, user : Users, dev : Devices, push : PushArgs,
          wrote : SUBSET RegisterWrites]
    \cup [step : {"login"}, user : Users, dev : Devices, seen : Sid \cup {NoSid}]
    \cup [step : {"rotate"}, old : Token, sid : Sid]
    \cup [step : {"locked", "archived"}, sid : Sid, user : Users, hash : Token \cup {NoTok}]

Ops == {"none", "register", "login", "refresh", "logout", "logout_all", "push"}
Reply(op, code, user, sid, tok, old) ==
    [op |-> op, code |-> code, user |-> user, sid |-> sid, tok |-> tok, old |-> old]
NoUser == "nobody"

TypeOK ==
    /\ users \in SUBSET Users
    /\ sessions \in SUBSET Session
    /\ history \in SUBSET [sid : Sid, hash : Token, reason : {"rotated", "logout"}]
    /\ events \in SUBSET [type : {"registered", "logged_in"}, user : Users,
                          sid : Sid \cup {NoSid}, tok : Token]
    /\ devLock \in [Devices -> Requests \cup {NoRequest}]
    /\ rowLock \in [Sid -> Requests \cup {NoRequest}]
    /\ job \in [Requests -> Jobs]
    /\ tokens \in 0..MaxTokens /\ sids \in 0..MaxSessions
    /\ issued \in SUBSET [user : Users, sid : Sid \cup {NoSid}, tok : Token]
    /\ reply.op \in Ops
    /\ spent \in SUBSET Token
    /\ revoked \in SUBSET [sid : Sid, hash : Token]

Init ==
    /\ users = {} /\ sessions = {} /\ history = {} /\ events = {}
    /\ devLock = [d \in Devices |-> NoRequest]
    /\ rowLock = [s \in Sid |-> NoRequest]
    /\ job = [r \in Requests |-> Free]
    /\ tokens = 0 /\ sids = 0
    /\ issued = {} /\ spent = {} /\ revoked = {}
    /\ reply = Reply("none", 0, NoUser, NoSid, NoTok, NoTok)

-----------------------------------------------------------------------------
SessionsOn(u, d) == {s \in sessions : s.user = u /\ s.dev = d}
WithId(sid) == {s \in sessions : s.sid = sid}
Put(s) == {x \in sessions : x.sid # s.sid} \cup {s}

Begin(r, j) == job' = [job EXCEPT ![r] = j]
End(r) == job' = [job EXCEPT ![r] = Free]
Unlock(r) == /\ devLock' = [d \in Devices |-> IF devLock[d] = r THEN NoRequest ELSE devLock[d]]
             /\ rowLock' = [s \in Sid |-> IF rowLock[s] = r THEN NoRequest ELSE rowLock[s]]

NewToken == tokens + 1
NewSid == sids + 1
Issue(u, sid) == issued' = issued \cup {[user |-> u, sid |-> sid, tok |-> NewToken]}
Event(type, u, sid) == [type |-> type, user |-> u, sid |-> sid, tok |-> NewToken]
Fresh(u, d, p) == [sid |-> NewSid, user |-> u, dev |-> d, hash |-> NewToken,
                   push |-> PushOr(p, NoPush), expired |-> FALSE]

\* UPDATE device_sessions ... WHERE public_id = ?
Reissued(sid, p) ==
    {x \in sessions : x.sid # sid} \cup
    {[s EXCEPT !.hash = NewToken, !.expired = FALSE, !.push = PushOr(p, @)] : s \in WithId(sid)}

-----------------------------------------------------------------------------
(* Register.  The insert into users holds the e-mail's key until the         *)
(* transaction ends, also one that RunInTx has left open.                   *)
EmailFree(u) ==
    \A x \in Requests : job[x].step \in RegisterSteps => job[x].user # u

RegisterJob(step, u, d, p, wrote) ==
    [step |-> step, user |-> u, dev |-> d, push |-> p, wrote |-> wrote]

RegisterUser(r, u, d, p) ==
    /\ job[r] = Free
    /\ u \notin users /\ EmailFree(u)
    /\ Begin(r, RegisterJob("insert_session", u, d, p, {"user"}))
    /\ UNCHANGED <<tables, devLock, rowLock, tokens, sids, reply, ghosts>>

(* UpsertSession: the device, which is locked, and the new user's session.    *)
RegisterSession(r) ==
    LET j == job[r] IN
    /\ j.step = "insert_session"
    /\ devLock[j.dev] = NoRequest
    /\ devLock' = [devLock EXCEPT ![j.dev] = r]
    /\ Begin(r, RegisterJob("insert_event", j.user, j.dev, j.push, j.wrote \cup {"session"}))
    /\ UNCHANGED <<tables, rowLock, tokens, sids, reply, ghosts>>

\* Mutant: the error of the outbox insert is not looked at.
RegisterEventUnchecked(r) ==
    LET j == job[r] IN
    /\ j.step = "insert_event"
    /\ \E written \in SUBSET {"event"} :
         Begin(r, RegisterJob("commit", j.user, j.dev, j.push, j.wrote \cup written))
    /\ UNCHANGED <<tables, devLock, rowLock, tokens, sids, reply, ghosts>>

RegisterEvent(r) ==
    LET j == job[r] IN
    /\ j.step = "insert_event"
    /\ Begin(r, RegisterJob("commit", j.user, j.dev, j.push, j.wrote \cup {"event"}))
    /\ UNCHANGED <<tables, devLock, rowLock, tokens, sids, reply, ghosts>>

(* A statement of the closure fails: 500, and RunInTx leaves the transaction   *)
(* open, with the device if the upsert got that far.                         *)
RegisterError(r) ==
    LET j == job[r] IN
    /\ j.step \in {"insert_session", "insert_event"}
    /\ \/ UNCHANGED devLock
       \/ devLock[j.dev] = NoRequest /\ devLock' = [devLock EXCEPT ![j.dev] = r]
    /\ Begin(r, RegisterJob("unregistered", j.user, j.dev, j.push, j.wrote))
    /\ reply' = Reply("register", 500, j.user, NoSid, NoTok, NoTok)
    /\ UNCHANGED <<tables, rowLock, tokens, sids, ghosts>>

(* COMMIT shows what the transaction wrote, and 201; or the commit took       *)
(* effect, reported an error, and the answer is 500 all the same.            *)
RegisterCommit(r, lost) ==
    LET j == job[r] IN
    /\ j.step = "commit"
    /\ tokens < MaxTokens /\ sids < MaxSessions
    /\ users' = users \cup {u \in {j.user} : "user" \in j.wrote}
    /\ sessions' = sessions \cup {f \in {Fresh(j.user, j.dev, j.push)} : "session" \in j.wrote}
    /\ events' = events \cup {e \in {Event("registered", j.user, NewSid)} : "event" \in j.wrote}
    /\ tokens' = NewToken /\ sids' = NewSid
    /\ IF lost
       THEN /\ reply' = Reply("register", 500, j.user, NoSid, NoTok, NoTok)
            /\ UNCHANGED issued
       ELSE /\ reply' = Reply("register", 201, j.user, NewSid, NewToken, NoTok)
            /\ Issue(j.user, NewSid)
    /\ End(r) /\ Unlock(r)
    /\ UNCHANGED <<history, spent, revoked>>

(* The unique key on email refuses the insert (1062), or the wait for a       *)
(* transaction that holds the key times out: the closure's error is wrapped   *)
(* into KindInternal.                                                       *)
RegisterDuplicate(u) ==
    /\ u \in users \/ ~EmailFree(u)
    /\ reply' = Reply("register", 500, u, NoSid, NoTok, NoTok)
    /\ UNCHANGED <<tables, devLock, rowLock, job, tokens, sids, ghosts>>

-----------------------------------------------------------------------------
\* Mutant: the device is looked up, not upserted, and so not locked.
LoginStartUnlocked(r, u, d) ==
    /\ job[r] = Free /\ u \in users
    /\ \E seen \in IF SessionsOn(u, d) = {} THEN {NoSid}
                   ELSE {s.sid : s \in SessionsOn(u, d)} :
         Begin(r, [step |-> "login", user |-> u, dev |-> d, seen |-> seen])
    /\ UNCHANGED <<tables, devLock, rowLock, tokens, sids, reply, ghosts>>

(* Login, first part: GetUserByEmail, BEGIN, the upsert that locks the       *)
(* devices row, and the plain SELECT of the existing session.               *)
LoginStart(r, u, d) ==
    /\ job[r] = Free /\ u \in users
    /\ devLock[d] = NoRequest
    /\ devLock' = [devLock EXCEPT ![d] = r]
    /\ \E seen \in IF SessionsOn(u, d) = {} THEN {NoSid}
                   ELSE {s.sid : s \in SessionsOn(u, d)} :
         Begin(r, [step |-> "login", user |-> u, dev |-> d, seen |-> seen])
    /\ UNCHANGED <<tables, rowLock, tokens, sids, reply, ghosts>>

(* GenerateAccessToken, InsertOutboxEvent, COMMIT and the 200 response; or a   *)
(* commit that took effect and reported an error, a 500.                    *)
LoginCommit(r, u, sid, lost) ==
    /\ tokens < MaxTokens
    /\ tokens' = NewToken
    /\ events' = events \cup {Event("logged_in", u, sid)}
    /\ IF lost
       THEN /\ reply' = Reply("login", 500, u, NoSid, NoTok, NoTok)
            /\ UNCHANGED issued
       ELSE /\ reply' = Reply("login", 200, u, sid, NewToken, NoTok)
            /\ Issue(u, sid)
    /\ End(r) /\ Unlock(r)
    /\ UNCHANGED <<users, spent, revoked>>

\* INSERT INTO device_session_history ... SELECT ... 'rotated'
Rotated(sid) == {[sid |-> s.sid, hash |-> s.hash, reason |-> "rotated"] : s \in WithId(sid)}

\* Mutant: the existing session keeps its refresh token.
LoginKeepsToken(r, p, lost) ==
    LET j == job[r] IN
    /\ j.step = "login" /\ j.seen # NoSid
    /\ rowLock[j.seen] = NoRequest
    /\ UNCHANGED <<sessions, history, sids>>
    /\ LoginCommit(r, j.user, j.seen, lost)

(* Second part, the existing session: archive it (an error is dropped) and   *)
(* overwrite it WHERE public_id = ?, which may match no row any more.        *)
LoginExisting(r, p, lost) ==
    LET j == job[r] IN
    /\ j.step = "login" /\ j.seen # NoSid
    /\ rowLock[j.seen] = NoRequest
    /\ sessions' = Reissued(j.seen, p)
    /\ \/ history' = history \cup Rotated(j.seen)
       \/ UNCHANGED history
    /\ UNCHANGED sids
    /\ LoginCommit(r, j.user, j.seen, lost)

(* Second part, no session on this device: insert one.                      *)
LoginNew(r, p, lost) ==
    LET j == job[r] IN
    /\ j.step = "login" /\ j.seen = NoSid
    /\ sids < MaxSessions
    /\ sessions' = sessions \cup {Fresh(j.user, j.dev, p)}
    /\ sids' = NewSid
    /\ UNCHANGED history
    /\ LoginCommit(r, j.user, NewSid, lost)

(* UpsertSession returns an error (a lock wait timeout, say), and Login       *)
(* overwrites it with GenerateAccessToken's: the rest goes on with session   *)
(* id "".  The upsert of the device may fail, or a later statement; an       *)
(* archive that was written before stays.                                   *)
LoginDeviceError(r, u, lost) ==
    /\ job[r] = Free /\ u \in users
    /\ UNCHANGED <<sessions, history, sids>>
    /\ LoginCommit(r, u, NoSid, lost)

LoginUpsertError(r, lost) ==
    LET j == job[r] IN
    /\ j.step = "login"
    /\ \/ /\ j.seen # NoSid /\ rowLock[j.seen] = NoRequest
          /\ history' = history \cup Rotated(j.seen)
       \/ UNCHANGED history
    /\ UNCHANGED <<sessions, sids>>
    /\ LoginCommit(r, j.user, NoSid, lost)

(* An error of the outbox insert: 500, transaction open.                     *)
LoginError(r) ==
    /\ job[r].step = "login"
    /\ Begin(r, Abandoned)
    /\ reply' = Reply("login", 500, job[r].user, NoSid, NoTok, NoTok)
    /\ UNCHANGED <<tables, devLock, rowLock, tokens, sids, ghosts>>

(* The commit of Register or Login fails without effect: 500, rolled back.    *)
CommitError(r) ==
    /\ job[r].step \in {"commit", "login"}
    /\ End(r) /\ Unlock(r)
    /\ reply' = Reply(IF job[r].step = "login" THEN "login" ELSE "register", 500,
                      job[r].user, NoSid, NoTok, NoTok)
    /\ UNCHANGED <<tables, tokens, sids, ghosts>>

(* The context of a request ends, and database/sql rolls back what RunInTx    *)
(* left open.                                                               *)
ContextDone(r) ==
    /\ job[r].step \in {"abandoned", "login"} \cup RegisterSteps
    /\ End(r) /\ Unlock(r)
    /\ UNCHANGED <<tables, tokens, sids, reply, ghosts>>

-----------------------------------------------------------------------------
\* Mutant: SELECT without FOR UPDATE.
RefreshRead(r, old) ==
    /\ job[r] = Free
    /\ \E s \in sessions :
        /\ s.hash = old /\ ~s.expired
        /\ Begin(r, [step |-> "rotate", old |-> old, sid |-> s.sid])
    /\ UNCHANGED <<tables, devLock, rowLock, tokens, sids, reply, ghosts>>

(* RefreshToken: SELECT ... WHERE refresh_token_hash = ? FOR UPDATE waits    *)
(* for the row's lock and then finds the row under its current token.       *)
RefreshSelect(r, old) ==
    LET found == {s \in sessions : s.hash = old} IN
    /\ job[r] = Free
    /\ \E s \in found :
        /\ rowLock[s.sid] = NoRequest /\ ~s.expired
        /\ rowLock' = [rowLock EXCEPT ![s.sid] = r]
        /\ Begin(r, [step |-> "rotate", old |-> old, sid |-> s.sid])
    /\ UNCHANGED <<tables, devLock, tokens, sids, reply, ghosts>>

(* No such row: 401.  An expired one: KindInternal, 500.                     *)
RefreshRefused(old) ==
    LET found == {s \in sessions : s.hash = old} IN
    /\ \/ found = {} /\ reply' = Reply("refresh", 401, NoUser, NoSid, NoTok, old)
       \/ \E s \in found :
            /\ rowLock[s.sid] = NoRequest /\ s.expired
            /\ reply' = Reply("refresh", 500, NoUser, s.sid, NoTok, old)
    /\ UNCHANGED <<tables, devLock, rowLock, job, tokens, sids, ghosts>>

(* UPDATE ... WHERE public_id = ?, COMMIT.  An error reported by a commit     *)
(* that took effect, or by GenerateAccessToken after it, is a 500 and the    *)
(* client never gets the new token.                                        *)
RefreshRotate(r, p, lost) ==
    LET j == job[r] IN
    /\ j.step = "rotate" /\ tokens < MaxTokens
    /\ tokens' = NewToken
    /\ sessions' = Reissued(j.sid, p)
    /\ spent' = spent \cup {j.old}
    /\ IF lost
       THEN /\ reply' = Reply("refresh", 500, NoUser, NoSid, NoTok, NoTok)
            /\ UNCHANGED issued
       ELSE /\ reply' = Reply("refresh", 200, NoUser, j.sid, NewToken, j.old)
            /\ issued' = issued \cup
                 {[user |-> s.user, sid |-> s.sid, tok |-> NewToken] : s \in WithId(j.sid)}
    /\ End(r) /\ Unlock(r)
    /\ UNCHANGED <<users, history, events, sids, revoked>>

-----------------------------------------------------------------------------
\* Mutant: the row is not locked first.
RevokeNoLock(r, u, sid) ==
    /\ job[r] = Free
    /\ \E s \in WithId(sid) : s.user = u
    /\ Begin(r, [step |-> "locked", sid |-> sid, user |-> u, hash |-> NoTok])
    /\ UNCHANGED <<tables, devLock, rowLock, tokens, sids, reply, ghosts>>

(* LogoutSession: lock the row, archive it, delete it and commit.            *)
RevokeLock(r, u, sid) ==
    /\ job[r] = Free
    /\ rowLock[sid] = NoRequest
    /\ \E s \in WithId(sid) : s.user = u
    /\ rowLock' = [rowLock EXCEPT ![sid] = r]
    /\ Begin(r, [step |-> "locked", sid |-> sid, user |-> u, hash |-> NoTok])
    /\ UNCHANGED <<tables, devLock, tokens, sids, reply, ghosts>>

RevokeArchive(r) ==
    LET j == job[r] IN
    /\ j.step = "locked"
    /\ \E s \in WithId(j.sid) :
         Begin(r, [step |-> "archived", sid |-> j.sid, user |-> j.user, hash |-> s.hash])
    /\ UNCHANGED <<tables, devLock, rowLock, tokens, sids, reply, ghosts>>

\* A commit that took effect and reported an error is a 500.
RevokeDelete(r, lost) ==
    LET j == job[r] IN
    /\ j.step = "archived"
    /\ history' = history \cup {[sid |-> j.sid, hash |-> j.hash, reason |-> "logout"]}
    /\ sessions' = sessions \ WithId(j.sid)
    /\ revoked' = revoked \cup {[sid |-> s.sid, hash |-> s.hash] : s \in WithId(j.sid)}
    /\ reply' = Reply("logout", IF lost THEN 500 ELSE 200, j.user, j.sid, NoTok, NoTok)
    /\ End(r) /\ Unlock(r)
    /\ UNCHANGED <<users, events, tokens, sids, issued, spent>>

(* No such session of this user: the archive affects no row, 500.            *)
RevokeMissing(u, sid) ==
    /\ \A s \in WithId(sid) : s.user # u
    /\ reply' = Reply("logout", 500, u, sid, NoTok, NoTok)
    /\ UNCHANGED <<tables, devLock, rowLock, job, tokens, sids, ghosts>>

(* A statement fails: Rollback is deferred in these two, 500.                *)
Rollback(r) ==
    /\ job[r].step \in {"rotate", "locked", "archived"}
    /\ End(r) /\ Unlock(r)
    /\ reply' = Reply(IF job[r].step = "rotate" THEN "refresh" ELSE "logout", 500,
                      NoUser, job[r].sid, NoTok, NoTok)
    /\ UNCHANGED <<tables, tokens, sids, ghosts>>

(* LogoutAllSessions: selectArgs has three values for a lock query with two  *)
(* placeholders, so the driver refuses it before anything is sent; 500.      *)
LogoutAllSessions(u, current) ==
    /\ reply' = Reply("logout_all", 500, u, current, NoTok, NoTok)
    /\ UNCHANGED <<tables, devLock, rowLock, job, tokens, sids, ghosts>>

(* UpdatePushToken: MySQL counts changed rows, so the token that is already  *)
(* there gives 0 and a 404, like a session that is not there.                *)
UpdatePushToken(u, sid, p) ==
    LET mine == {s \in WithId(sid) : s.user = u} IN
    /\ rowLock[sid] = NoRequest
    /\ \/ \E s \in mine :
            /\ s.push # p
            /\ sessions' = Put([s EXCEPT !.push = p])
            /\ reply' = Reply("push", 200, u, sid, NoTok, NoTok)
       \/ /\ \A s \in mine : s.push = p
          /\ reply' = Reply("push", 404, u, sid, NoTok, NoTok)
          /\ UNCHANGED sessions
    /\ UNCHANGED <<users, history, events, devLock, rowLock, job, tokens, sids, ghosts>>

(* Time passes expires_at.                                                  *)
Expire(s) ==
    /\ ~s.expired
    /\ sessions' = Put([s EXCEPT !.expired = TRUE])
    /\ UNCHANGED <<users, history, events, devLock, rowLock, job, tokens, sids, reply, ghosts>>

-----------------------------------------------------------------------------
AccountNext ==
    \E u \in Users :
        \/ RegisterDuplicate(u)
        \/ \E r \in Requests, d \in Devices :
              \/ \E p \in PushArgs : RegisterUser(r, u, d, p)
              \/ LoginStart(r, u, d)
        \/ \E r \in Requests, lost \in BOOLEAN : LoginDeviceError(r, u, lost)

RequestNext(r) ==
    \/ RegisterSession(r) \/ RegisterEvent(r) \/ RegisterError(r)
    \/ \E lost \in BOOLEAN : RegisterCommit(r, lost)
    \/ \E p \in PushArgs, lost \in BOOLEAN : LoginExisting(r, p, lost) \/ LoginNew(r, p, lost)
    \/ \E lost \in BOOLEAN : LoginUpsertError(r, lost)
    \/ LoginError(r) \/ CommitError(r) \/ ContextDone(r)
    \/ \E i \in issued : RefreshSelect(r, i.tok)
    \/ \E p \in PushArgs, lost \in BOOLEAN : RefreshRotate(r, p, lost)
    \/ \E i \in issued, sid \in Sid : RevokeLock(r, i.user, sid)
    \/ RevokeArchive(r) \/ Rollback(r)
    \/ \E lost \in BOOLEAN : RevokeDelete(r, lost)

SingleStatementNext ==
    \/ \E i \in issued : RefreshRefused(i.tok) \/ LogoutAllSessions(i.user, i.sid)
    \/ \E i \in issued, sid \in Sid : RevokeMissing(i.user, sid)
    \/ \E i \in issued, p \in PushTokens :
          i.sid # NoSid /\ UpdatePushToken(i.user, i.sid, p)
    \/ \E s \in sessions : Expire(s)

Next == \/ AccountNext
        \/ \E r \in Requests : RequestNext(r)
        \/ SingleStatementNext

Spec == Init /\ [][Next]_vars

-----------------------------------------------------------------------------
(* Properties.                                                             *)

Answered(op, code) == reply' # reply /\ reply'.op = op /\ reply'.code = code

OneSessionPerDevice ==
    \A s, t \in sessions : s.user = t.user /\ s.dev = t.dev => s = t

\* Ids and tokens are used once, also over time: every session has its own, no
\* token that was exchanged is a session's, and a session's user is registered.
IdsInOrder ==
    /\ \A s \in sessions :
         s.sid <= sids /\ s.hash <= tokens /\ s.hash \notin spent /\ s.user \in users
    /\ \A s, t \in sessions : s.sid = t.sid \/ s.hash = t.hash => s = t
    /\ \A x \in revoked : x.sid <= sids
    /\ \A k \in spent : k <= tokens

\* No session id is forgotten: each is a session's, or that of one logged out.
Known(n) == (\E s \in sessions : s.sid = n) \/ (\E x \in revoked : x.sid = n)
IdsKnown == \A n \in 1..sids : Known(n)

\* Two open transactions never register the same e-mail.
EmailsHeld ==
    \A r, x \in Requests :
        /\ job[r].step \in RegisterSteps /\ job[x].step \in RegisterSteps
        /\ job[r].user = job[x].user
        => r = x

\* What a transaction has read is still so, as far as its locks go: a login that
\* found no session on its device may insert one, a session that it found has not
\* changed hands, a refresh token is current until it is exchanged, and the token
\* that a logout has archived is the session's.  A registration knows that its
\* e-mail is not an account yet, and commits only when it has written everything.
TransactionSound(r) ==
    LET j == job[r] IN
    /\ j.step \in RegisterSteps => j.user \notin users
    /\ j.step = "insert_session" => j.wrote = {"user"}
    /\ j.step = "insert_event" => j.wrote = {"user", "session"}
    /\ j.step = "commit" => j.wrote = RegisterWrites
    /\ j.step \in {"insert_event", "commit"} => devLock[j.dev] = r
    /\ j.step = "login" =>
          /\ devLock[j.dev] = r /\ j.user \in users /\ j.seen <= sids
          /\ j.seen = NoSid => SessionsOn(j.user, j.dev) = {}
          /\ \A s \in WithId(j.seen) : s.user = j.user
    /\ j.step \in {"rotate", "locked", "archived"} => rowLock[j.sid] = r /\ j.sid <= sids
    /\ j.step = "rotate" => \E s \in WithId(j.sid) : s.hash = j.old
    /\ j.step = "archived" => j.hash # NoTok /\ \A s \in WithId(j.sid) : s.hash = j.hash

\* The types, and: a user has at most one session per device.  The unique key is
\* not part of the model: the lock on the devices row, taken before the existing
\* session is looked up, already keeps two logins from both inserting one.  The
\* rest is what makes this inductive.
SessionsInv ==
    /\ TypeOK /\ OneSessionPerDevice /\ IdsInOrder /\ IdsKnown /\ EmailsHeld
    /\ \A r \in Requests : TransactionSound(r)

\* A refresh token is exchanged at most once, however many requests present it
\* at the same time, and never after its session was logged out.
TokenExchangedOnce ==
    [][Answered("refresh", 200) =>
         /\ reply'.old \notin spent
         /\ \A x \in revoked : x.sid # reply'.sid]_vars

\* A session that was logged out does not come back, also when a login that
\* found it before is still under way, and the history keeps it with the token it
\* last had: no refresh slips in between the archive and the delete.
RevokedIsFinal ==
    \A x \in revoked :
        /\ \A s \in sessions : x.sid # s.sid
        /\ [sid |-> x.sid, hash |-> x.hash, reason |-> "logout"] \in history

\* A login that answers 200 leaves its refresh token as the current one of a
\* session of that account, with two exceptions only: UpsertSession's error was
\* dropped (session id ""), or the session it had found was logged out between its
\* SELECT and its UPDATE, which then changed no row.
LoginWithoutSessionExplained ==
    [][Answered("login", 200) =>
         \/ \E s \in sessions' :
               s.sid = reply'.sid /\ s.hash = reply'.tok /\ s.user = reply'.user
         \/ reply'.sid = NoSid
         \/ \E x \in revoked : x.sid = reply'.sid]_vars

\* Register leaves an account, its one "user.created" event and the session that
\* came with it (until it is logged out), or nothing of the three, wherever
\* between its inserts and its commit it fails; and no client ever holds tokens of
\* an account that was rolled back.
RegistrationAllOrNothing ==
    LET registered == {e \in events : e.type = "registered"} IN
    /\ users = {e.user : e \in registered}
    /\ \A e, f \in registered : e.user = f.user => e = f
    /\ \A e \in registered : Known(e.sid)
    /\ \A i \in issued : i.user \in users

-----------------------------------------------------------------------------
(* What a comment says, and the code does not do.                           *)

\* "3. IF EXISTS -> MOVE TO HISTORY + UPDATE ... 4. ELSE -> CREATE NEW SESSION"
\* (repository/auth.go): a login that succeeds leaves a session with its token.
LoginLeavesSession ==
    [][Answered("login", 200) => \E s \in sessions' : s.hash = reply'.tok]_vars
=============================================================================
