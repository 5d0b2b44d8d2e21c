------------------------------ MODULE Sessions ------------------------------
(***************************************************************************)
(* Accounts, sessions and the audit log: auth/service.go and auth/audit.go.*)
(* A request reads what it needs, then writes in one transaction that ends *)
(* with an entry of the audit log, for which it waits until no other       *)
(* transaction is adding one. A statement waits for the rows that another  *)
(* open transaction has written; what it changes is seen once it commits.  *)
(*                                                                         *)
(* Session n and refresh token n are issued together, in the order of      *)
(* commits. No code changes the status of a user, so all are active.       *)
(***************************************************************************)
EXTENDS Integers, Sequences, FiniteSets

CONSTANTS
  Emails,
  Requests,           \* the requests in progress at the same time
  LockoutThreshold,
  MaxEvents           \* bound: requests, failures of requests, and expiries

ASSUME EmailsAssumption == Emails # {}
ASSUME ThresholdAssumption == LockoutThreshold \in Nat \ {0} /\ MaxEvents \in Nat

VARIABLES
  user,     \* Emails -> Users: app_user
  tok,      \* Seq(Tokens): user_session and refresh_token
  audit,    \* Seq(Entries): audit_log
  req,      \* Requests -> Reqs: what a request holds in memory
  misses,   \* Emails -> Nat: failures recorded since the last login
  events

sessionVars == <<user, tok, audit, req, misses, events>>

Actions == {"registered", "login", "logout", "replayed"}
Hashes == Seq(Actions)              \* chainHash, see below

Users == [exists : BOOLEAN, failed : Nat, locked : {"no", "yes", "elapsed"}]
Tokens == [email : Emails, family : Nat \ {0}, used : BOOLEAN, revoked : BOOLEAN,
           live : BOOLEAN,          \* the session's revoked_at is NULL
           age : 0..2]              \* 1: the session has expired, 2: the token too
Entries == [action : Actions, prev : Hashes, hash : Hashes]

(* op: what the request is about to write; id: the token or session it is   *)
(* about; seen: failed_logins as read; rows: the tokens a replay revokes;   *)
(* prev: the hash its audit entry follows.                                  *)
Ops == {"none", "login", "rotate"} \cup Actions
Reqs == [op : Ops, at : {"read", "waits", "open", "audit"}, email : SUBSET Emails,
         id : Nat, seen : Nat, rows : SUBSET Nat, prev : Hashes]
Idle == [op |-> "none", at |-> "read", email |-> {}, id |-> 0, seen |-> 0, rows |-> {},
         prev |-> <<>>]

SessionsTypeOK ==
  /\ user \in [Emails -> Users]
  /\ tok \in Seq(Tokens)
  /\ audit \in Seq(Entries)
  /\ req \in [Requests -> Reqs]
  /\ misses \in [Emails -> Nat]
  /\ events \in 0..MaxEvents
-----------------------------------------------------------------------------
(* SHA-256 over the previous hash and the entry: no two entries collide, so *)
(* the hash is as good as the list of what it was computed from.            *)
chainHash(prev, action) == Append(prev, action)

(* Recomputes every link.                                                   *)
VerifyChain(log) == \A i \in 1..Len(log) :
  log[i].hash = chainHash(IF i = 1 THEN <<>> ELSE log[i - 1].hash, log[i].action)

(* The statements of auth.sql. X_Y is X with a fault in it.                 *)
GetLastAuditHash(log) == IF log = <<>> THEN <<>> ELSE log[Len(log)].hash
InsertAudit(log, action, prev) ==
  Append(log, [action |-> action, prev |-> prev, hash |-> chainHash(prev, action)])

LockAuditChain_None(r) == TRUE
LockAuditChain_Table(r) == \A q \in Requests \ {r} : req[q].at \notin {"open", "audit"}
LockAuditChain(r) == \A q \in Requests \ {r} : req[q].at # "audit"

(* The counter and the lock are computed from the row as it is.             *)
RecordLoginFailure_Read(u, seen) ==
  [u EXCEPT !.failed = seen + 1, !.locked = IF seen + 1 >= LockoutThreshold THEN "yes" ELSE @]
RecordLoginFailure(u, seen) ==
  [u EXCEPT !.failed = @ + 1, !.locked = IF u.failed + 1 >= LockoutThreshold THEN "yes" ELSE @]
RecordLoginSuccess(u) == [u EXCEPT !.failed = 0, !.locked = "no"]
CreateUser == [exists |-> TRUE, failed |-> 0, locked |-> "no"]

NewToken(e, family) ==
  [email |-> e, family |-> family, used |-> FALSE, revoked |-> FALSE, live |-> TRUE, age |-> 0]

(* issue: CreateSession and CreateRefreshToken, in a family of their own.   *)
Issue(t, e) == Append(t, NewToken(e, Len(t) + 1))

(* Refresh: both again, in the same family, MarkRefreshUsed, RevokeSession. *)
Rotate_KeepsSession(t, n) ==
  Append([t EXCEPT ![n].used = TRUE], NewToken(t[n].email, t[n].family))
Rotate_NoFamily(t, n) ==
  Append([t EXCEPT ![n].used = TRUE, ![n].live = FALSE], NewToken(t[n].email, 0))
Rotate(t, n) ==
  Append([t EXCEPT ![n].used = TRUE, ![n].live = FALSE], NewToken(t[n].email, t[n].family))

InFamily(f) == {n \in 1..Len(tok) : tok[n].family = f}
RevokeRefreshFamily(f) == {n \in InFamily(f) : ~tok[n].revoked}
RevokeSession(t, n) == [t EXCEPT ![n].live = FALSE]

(* RevokeRefreshFamily has found its rows, RevokeSessionsForFamily looks    *)
(* again: a token that was added between the two loses only its session.    *)
RevokeFamily(t, rows, f) == [n \in DOMAIN t |->
  [t[n] EXCEPT !.revoked = @ \/ n \in rows, !.live = @ /\ t[n].family # f]]

(* The rows that the open transaction of a request has written.             *)
UserRows(r) == IF req[r].op \in {"login", "registered"} /\ req[r].at \in {"open", "audit"}
               THEN req[r].email ELSE {}
TokenRows(r) == IF req[r].at \notin {"open", "audit"} THEN {}
                ELSE IF req[r].op = "logout" THEN {req[r].id} ELSE req[r].rows
UserFree(r, e) == \A q \in Requests \ {r} : e \notin UserRows(q)
TokensFree(r, N) == \A q \in Requests \ {r} : N \cap TokenRows(q) = {}
-----------------------------------------------------------------------------
SessionsInit ==
  /\ user = [e \in Emails |-> [exists |-> FALSE, failed |-> 0, locked |-> "no"]]
  /\ tok = <<>>
  /\ audit = <<>>
  /\ req = [r \in Requests |-> Idle]
  /\ misses = [e \in Emails |-> 0]
  /\ events = 0

Event == events < MaxEvents /\ events' = events + 1

Start(r, new) ==
  /\ req[r].op = "none" /\ Event
  /\ req' = [req EXCEPT ![r] = new]
  /\ UNCHANGED <<user, tok, audit, misses>>

End(r) == req' = [req EXCEPT ![r] = Idle]

Register(r, e) == Start(r, [Idle EXCEPT !.op = "registered", !.email = {e}])

(* Login: GetUserByEmail, and the lock ...                                  *)
Login(r, e) ==
  /\ user[e].exists /\ user[e].locked # "yes"
  /\ Start(r, [Idle EXCEPT !.op = "login", !.email = {e}, !.seen = user[e].failed])

(* ... then a wrong password is counted.                                    *)
WrongPassword(r, e) ==
  /\ req[r].op = "login" /\ req[r].at = "read" /\ e \in req[r].email
  /\ UserFree(r, e)
  /\ user' = [user EXCEPT ![e] = RecordLoginFailure(@, req[r].seen)]
  /\ misses' = [misses EXCEPT ![e] = @ + 1]
  /\ End(r)
  /\ UNCHANGED <<tok, audit, events>>

(* Refresh: a token that was used is replayed, one that was revoked or has  *)
(* expired is refused, and others are rotated.                              *)
Refresh(r, n) ==
  /\ tok[n].used \/ (~tok[n].revoked /\ tok[n].age < 2)
  /\ Start(r, [Idle EXCEPT !.op = IF tok[n].used THEN "replayed" ELSE "rotate",
                           !.id = n, !.email = {tok[n].email}])

RotateToken(r, n) ==
  /\ req[r].op = "rotate" /\ n = req[r].id
  /\ TokensFree(r, {n})
  /\ tok' = Rotate(tok, n)
  /\ End(r)
  /\ UNCHANGED <<user, audit, misses, events>>

Logout(r, n) ==
  /\ tok[n].live /\ tok[n].age = 0
  /\ Start(r, [Idle EXCEPT !.op = "logout", !.id = n, !.email = {tok[n].email}])

(* revokeFamily: the first statement finds its rows, and waits for them.    *)
FindFamily(r) ==
  /\ req[r].op = "replayed" /\ req[r].at = "read"
  /\ req' = [req EXCEPT ![r].at = "waits",
                        ![r].rows = RevokeRefreshFamily(tok[req[r].id].family)]
  /\ UNCHANGED <<user, tok, audit, misses, events>>

(* The writes of a transaction, up to the audit entry. A second insert of   *)
(* an email waits for the first to commit, and then fails.                  *)
Ready(r) ==
  \/ req[r].op \in {"login", "registered"} /\ req[r].at = "read"
     /\ \A e \in req[r].email : UserFree(r, e) /\ (req[r].op = "login" <=> user[e].exists)
  \/ req[r].op = "logout" /\ req[r].at = "read" /\ TokensFree(r, {req[r].id})
  \/ req[r].op = "replayed" /\ req[r].at = "waits"
     /\ TokensFree(r, InFamily(tok[req[r].id].family))
Open(r) ==
  /\ Ready(r)
  /\ req' = [req EXCEPT ![r].at = "open"]
  /\ UNCHANGED <<user, tok, audit, misses, events>>

EmailTaken(r, e) ==
  /\ req[r].op = "registered" /\ req[r].at = "read" /\ e \in req[r].email
  /\ UserFree(r, e) /\ user[e].exists
  /\ End(r)
  /\ UNCHANGED <<user, tok, audit, misses, events>>

(* Append: the lock, then the last hash ...                                 *)
AppendAudit(r) ==
  /\ req[r].at = "open" /\ LockAuditChain(r)
  /\ req' = [req EXCEPT ![r].at = "audit", ![r].prev = GetLastAuditHash(audit)]
  /\ UNCHANGED <<user, tok, audit, misses, events>>

(* ... then the entry, and the transaction commits.                         *)
Commit(r, e) ==
  /\ req[r].at = "audit" /\ e \in req[r].email
  /\ audit' = InsertAudit(audit, req[r].op, req[r].prev)
  /\ user' = CASE req[r].op = "registered" -> [user EXCEPT ![e] = CreateUser]
               [] req[r].op = "login"      -> [user EXCEPT ![e] = RecordLoginSuccess(@)]
               [] OTHER                    -> user
  /\ tok' = CASE req[r].op = "logout"   -> RevokeSession(tok, req[r].id)
              [] req[r].op = "replayed" ->
                   RevokeFamily(tok, req[r].rows, tok[req[r].id].family)
              [] OTHER                  -> Issue(tok, e)
  /\ misses' = IF req[r].op = "login" THEN [misses EXCEPT ![e] = 0] ELSE misses
  /\ End(r)
  /\ UNCHANGED events

(* A statement or the process fails: the transaction is rolled back.        *)
Fail(r) ==
  /\ req[r].op # "none" /\ Event
  /\ End(r)
  /\ UNCHANGED <<user, tok, audit, misses>>

LockElapses(e) ==
  /\ user[e].locked = "yes" /\ Event
  /\ user' = [user EXCEPT ![e].locked = "elapsed"]
  /\ UNCHANGED <<tok, audit, req, misses>>

Expire(n) ==
  /\ tok[n].age < 2 /\ Event
  /\ tok' = [tok EXCEPT ![n].age = @ + 1]
  /\ UNCHANGED <<user, audit, req, misses>>

Proceed(r) ==
  \/ FindFamily(r) \/ Open(r) \/ AppendAudit(r)
  \/ \E n \in 1..Len(tok) : RotateToken(r, n)
  \/ \E e \in req[r].email : WrongPassword(r, e) \/ EmailTaken(r, e) \/ Commit(r, e)

SessionsNext ==
  \/ \E r \in Requests, e \in Emails : Register(r, e) \/ Login(r, e)
  \/ \E r \in Requests : \E n \in 1..Len(tok) : Refresh(r, n) \/ Logout(r, n)
  \/ \E r \in Requests : Proceed(r) \/ Fail(r)
  \/ \E e \in Emails : LockElapses(e)
  \/ \E n \in 1..Len(tok) : Expire(n)

SessionsSpec == SessionsInit /\ [][SessionsNext]_sessionVars

(* A request goes on when it can, and gets the lock it waits for: the       *)
(* database grants locks in the order of the requests.                      *)
FairSpec == SessionsSpec /\ \A r \in Requests : WF_sessionVars(Proceed(r))
-----------------------------------------------------------------------------
(* The audit log is one chain, however many transactions want to add to it  *)
(* at once and whichever of them roll back: VerifyChain finds no bad entry. *)
AuditVerifies == VerifyChain(audit)

(* A session that is live belongs to a refresh token that was neither used  *)
(* nor revoked, whatever rotations, logouts and revocations run together.   *)
LiveSessionIsCurrent == \A n \in 1..Len(tok) : tok[n].live => ~tok[n].used /\ ~tok[n].revoked

(* "Concurrent attempts cannot race past the threshold by each reading a    *)
(* stale counter": once that many failures follow the last login, the       *)
(* account is locked, or the time it was locked for has passed.             *)
LockoutCounts == \A e \in Emails : misses[e] >= LockoutThreshold => user[e].locked # "no"

(* No request waits for ever for the rows and the lock that others hold.    *)
RequestsEnd == \A r \in Requests : req[r].op # "none" ~> req[r].op = "none"
=============================================================================
