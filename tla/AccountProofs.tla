---------------------------- MODULE AccountProofs ----------------------------
(***************************************************************************)
(* Proofs about a user's account: first Sessions, for any number of emails,*)
(* requests in progress and events, and any lockout threshold; then        *)
(* Erasure, for any number of uploads, erasures, tables and faults.        *)
(***************************************************************************)
EXTENDS Sessions, Erasure, TLAPS, SequenceTheorems, FiniteSetTheorems

(* What a request in progress knows: the token it is about exists, a replay *)
(* found its rows in the family of that token, a login is of a user that    *)
(* exists, an open registration of one that does not, and the hash that an  *)
(* audit entry is to follow is the last one.                                *)
ReqKnown(q) ==
  /\ req[q].at # "read" => req[q].op \in Actions
  /\ req[q].op \in {"rotate", "replayed", "logout"} => req[q].id \in 1..Len(tok)
  /\ req[q].op = "replayed" /\ req[q].at # "read" =>
       req[q].rows \subseteq InFamily(tok[req[q].id].family)
  /\ req[q].op = "login" => \A e \in req[q].email : user[e].exists
  /\ req[q].op = "registered" /\ req[q].at \in {"open", "audit"} =>
       \A e \in req[q].email : ~user[e].exists
  /\ req[q].at = "audit" => req[q].prev = GetLastAuditHash(audit)

(* The lock of the audit log, and those of the user rows, exclude.          *)
Exclusive == \A q, r \in Requests : q # r =>
  /\ ~(req[q].at = "audit" /\ req[r].at = "audit")
  /\ UserRows(q) \cap UserRows(r) = {}

(* No failure since the last login is missing from the counter, and the     *)
(* counter locks the account.                                               *)
Accounts == \A e \in Emails :
  /\ misses[e] <= user[e].failed
  /\ user[e].failed >= LockoutThreshold => user[e].locked # "no"
  /\ ~user[e].exists => misses[e] = 0

SessionsInv ==
  /\ SessionsTypeOK
  /\ \A q \in Requests : ReqKnown(q)
  /\ Exclusive
  /\ Accounts
  /\ AuditVerifies
  /\ LiveSessionIsCurrent
-----------------------------------------------------------------------------
(* Sequences of tokens. What no statement does: shorten the sequence or     *)
(* move a token to another family.                                          *)
Follows(t, u) ==
  /\ u \in Seq(Tokens)
  /\ Len(t) <= Len(u)
  /\ \A n \in 1..Len(t) : u[n].family = t[n].family

(* Every live session is of a token that is neither used nor revoked.       *)
Current(t) == \A n \in 1..Len(t) : t[n].live => ~t[n].used /\ ~t[n].revoked

LEMMA AppendFacts ==
  ASSUME NEW S, NEW s \in Seq(S), NEW x \in S
  PROVE  /\ Append(s, x) \in Seq(S)
         /\ Len(Append(s, x)) = Len(s) + 1
         /\ \A n \in 1..Len(s) : Append(s, x)[n] = s[n]
         /\ Append(s, x)[Len(s) + 1] = x
  OBVIOUS

LEMMA NewTokenType ==
  ASSUME NEW e \in Emails, NEW f \in Nat \ {0}
  PROVE  /\ NewToken(e, f) \in Tokens
         /\ ~NewToken(e, f).used /\ ~NewToken(e, f).revoked
         /\ NewToken(e, f).family = f
  BY DEF NewToken, Tokens

LEMMA IssueFollows ==
  ASSUME NEW t \in Seq(Tokens), NEW e \in Emails
  PROVE  Follows(t, Issue(t, e)) /\ (Current(t) => Current(Issue(t, e)))
<1>0. Len(t) \in Nat
  BY LenProperties
<1>1. PICK x \in Tokens : x = NewToken(e, Len(t) + 1)
  BY <1>0, NewTokenType
<1>2. ~x.used /\ ~x.revoked
  BY <1>0, <1>1, NewTokenType
<1>3. Issue(t, e) = Append(t, x)
  BY <1>1 DEF Issue
<1>4. Follows(t, Append(t, x))
  BY <1>0, AppendFacts DEF Follows
<1>5. Current(t) => Current(Append(t, x))
  BY <1>0, <1>2, AppendFacts DEF Current
<1> QED
  BY <1>3, <1>4, <1>5

(* A token replaced by another of its family.                               *)
LEMMA ReplaceFollows ==
  ASSUME NEW t \in Seq(Tokens), NEW n \in 1..Len(t), NEW x \in Tokens,
         x.family = t[n].family, x.live => ~x.used /\ ~x.revoked
  PROVE  /\ Follows(t, [t EXCEPT ![n] = x])
         /\ Current(t) => Current([t EXCEPT ![n] = x])
         /\ [t EXCEPT ![n] = x] \in Seq(Tokens)
<1>1. /\ [t EXCEPT ![n] = x] \in Seq(Tokens)
      /\ Len([t EXCEPT ![n] = x]) = Len(t)
      /\ \A j \in 1..Len(t) : [t EXCEPT ![n] = x][j] = IF j = n THEN x ELSE t[j]
  BY ExceptSeq
<1>2. Len(t) \in Nat
  BY LenProperties
<1> QED
  BY <1>1, <1>2 DEF Follows, Current

LEMMA RotateFollows ==
  ASSUME NEW t \in Seq(Tokens), NEW n \in 1..Len(t)
  PROVE  Follows(t, Rotate(t, n)) /\ (Current(t) => Current(Rotate(t, n)))
<1>0. Len(t) \in Nat /\ t[n] \in Tokens
  BY LenProperties, ElementOfSeq
<1>1. PICK x \in Tokens : x = [t[n] EXCEPT !.used = TRUE, !.live = FALSE]
  <2>1. [t[n] EXCEPT !.used = TRUE, !.live = FALSE] \in Tokens
    BY <1>0 DEF Tokens
  <2> QED
    BY <2>1
<1>2. x.family = t[n].family /\ ~x.live
  BY <1>0, <1>1 DEF Tokens
<1>3. PICK y \in Tokens : y = NewToken(t[n].email, t[n].family)
  <2>1. t[n].email \in Emails /\ t[n].family \in Nat \ {0}
    BY <1>0 DEF Tokens
  <2> QED
    BY <2>1, NewTokenType
<1>4. ~y.used /\ ~y.revoked
  BY <1>3 DEF NewToken
<1>5. PICK u \in Seq(Tokens) : u = [t EXCEPT ![n] = x]
  BY <1>2, ReplaceFollows
<1>6. Follows(t, u) /\ (Current(t) => Current(u))
  BY <1>2, <1>5, ReplaceFollows
<1>7. Rotate(t, n) = Append(u, y)
  BY <1>1, <1>3, <1>5 DEF Rotate
<1>8. Len(u) \in Nat
  BY LenProperties
<1>9. Follows(t, Append(u, y))
  BY <1>0, <1>6, <1>8, AppendFacts DEF Follows
<1>10. Current(u) => Current(Append(u, y))
  BY <1>4, <1>8, AppendFacts DEF Current
<1> QED
  BY <1>6, <1>7, <1>9, <1>10

LEMMA RevokeSessionFollows ==
  ASSUME NEW t \in Seq(Tokens), NEW n \in 1..Len(t)
  PROVE  Follows(t, RevokeSession(t, n)) /\ (Current(t) => Current(RevokeSession(t, n)))
<1>0. t[n] \in Tokens
  BY ElementOfSeq
<1>1. PICK x \in Tokens : x = [t[n] EXCEPT !.live = FALSE]
  <2>1. [t[n] EXCEPT !.live = FALSE] \in Tokens
    BY <1>0 DEF Tokens
  <2> QED
    BY <2>1
<1>2. x.family = t[n].family /\ ~x.live
  BY <1>0, <1>1 DEF Tokens
<1>3. RevokeSession(t, n) = [t EXCEPT ![n] = x]
  BY <1>1 DEF RevokeSession
<1> QED
  BY <1>2, <1>3, ReplaceFollows

(* A session is not made live by its age.                                   *)
LEMMA ExpireFollows ==
  ASSUME NEW t \in Seq(Tokens), NEW n \in 1..Len(t), t[n].age < 2
  PROVE  LET u == [t EXCEPT ![n].age = @ + 1]
         IN Follows(t, u) /\ (Current(t) => Current(u))
<1>0. t[n] \in Tokens
  BY ElementOfSeq
<1>1. PICK x \in Tokens : x = [t[n] EXCEPT !.age = t[n].age + 1]
  <2>1. [t[n] EXCEPT !.age = t[n].age + 1] \in Tokens
    BY <1>0 DEF Tokens
  <2> QED
    BY <2>1
<1>2. /\ x.family = t[n].family /\ x.live = t[n].live
      /\ x.used = t[n].used /\ x.revoked = t[n].revoked
  BY <1>0, <1>1 DEF Tokens
<1>3. [t EXCEPT ![n].age = @ + 1] = [t EXCEPT ![n] = x]
  BY <1>1
<1>4. CASE x.live => ~x.used /\ ~x.revoked
  BY <1>2, <1>3, <1>4, ReplaceFollows
<1>5. CASE ~(x.live => ~x.used /\ ~x.revoked)
  <2>1. ~Current(t)
    BY <1>2, <1>5 DEF Current
  <2>2. Follows(t, [t EXCEPT ![n] = x])
    BY <1>2, ExceptSeq, LenProperties DEF Follows
  <2> QED
    BY <1>3, <2>1, <2>2
<1> QED
  BY <1>4, <1>5

(* A replay revokes tokens of the family whose sessions it ends.            *)
LEMMA RevokeFamilyFollows ==
  ASSUME NEW t \in Seq(Tokens), NEW rows, NEW f,
         \A n \in 1..Len(t) : n \in rows => t[n].family = f
  PROVE  /\ Follows(t, RevokeFamily(t, rows, f))
         /\ Current(t) => Current(RevokeFamily(t, rows, f))
<1> DEFINE x(n) == [t[n] EXCEPT !.revoked = @ \/ n \in rows, !.live = @ /\ t[n].family # f]
<1>0. Len(t) \in Nat /\ DOMAIN t = 1..Len(t)
  BY LenProperties
<1>1. ASSUME NEW n \in 1..Len(t)
      PROVE  /\ x(n) \in Tokens
             /\ x(n).family = t[n].family /\ x(n).used = t[n].used
             /\ x(n).revoked <=> t[n].revoked \/ n \in rows
             /\ x(n).live <=> t[n].live /\ t[n].family # f
  <2>1. t[n] \in Tokens
    BY ElementOfSeq
  <2> QED
    BY <2>1 DEF Tokens
<1>2. PICK u : u = [n \in 1..Len(t) |-> x(n)]
  OBVIOUS
<1>3. u \in Seq(Tokens) /\ Len(u) = Len(t)
  <2>1. u \in [1..Len(t) -> Tokens]
    BY <1>1, <1>2
  <2> HIDE DEF x
  <2>2. u \in Seq(Tokens)
    BY <1>0, <2>1, SeqDef
  <2> QED
    BY <1>0, <1>2, <2>2, LenProperties
<1>4. RevokeFamily(t, rows, f) = u
  BY <1>0, <1>2 DEF RevokeFamily
<1>5. \A n \in 1..Len(t) : u[n] = x(n)
  BY <1>2
<1> HIDE DEF x
<1>6. Follows(t, u)
  BY <1>0, <1>1, <1>3, <1>5 DEF Follows
<1>7. Current(t) => Current(u)
  BY <1>1, <1>3, <1>5 DEF Current
<1> QED
  BY <1>4, <1>6, <1>7
-----------------------------------------------------------------------------
(* The audit log with one more entry, computed from the last hash.          *)
LEMMA ChainGrows ==
  ASSUME NEW log \in Seq(Entries), VerifyChain(log), NEW action \in Actions
  PROVE  /\ InsertAudit(log, action, GetLastAuditHash(log)) \in Seq(Entries)
         /\ VerifyChain(InsertAudit(log, action, GetLastAuditHash(log)))
<1>0. Len(log) \in Nat /\ (log = <<>> <=> Len(log) = 0)
  BY LenProperties, EmptySeq
<1>1. PICK prev \in Hashes : prev = GetLastAuditHash(log)
  <2>1. CASE log = <<>>
    BY <2>1, EmptySeq DEF GetLastAuditHash, Hashes
  <2>2. CASE log # <<>>
    <3>1. log[Len(log)] \in Entries
      BY <1>0, <2>2, ElementOfSeq
    <3> QED
      BY <2>2, <3>1 DEF GetLastAuditHash, Entries
  <2> QED
    BY <2>1, <2>2
<1>2. prev = IF Len(log) = 0 THEN <<>> ELSE log[Len(log)].hash
  BY <1>0, <1>1 DEF GetLastAuditHash
<1>3. chainHash(prev, action) \in Hashes
  BY AppendFacts DEF chainHash, Hashes
<1>4. PICK x \in Entries :
        x = [action |-> action, prev |-> prev, hash |-> chainHash(prev, action)]
  BY <1>3 DEF Entries
<1>5. x.action = action /\ x.hash = chainHash(prev, action)
  BY <1>4
<1>6. InsertAudit(log, action, GetLastAuditHash(log)) = Append(log, x)
  BY <1>1, <1>4 DEF InsertAudit
<1>7. ASSUME NEW i \in 1..Len(log) + 1
      PROVE  Append(log, x)[i].hash =
               chainHash(IF i = 1 THEN <<>> ELSE Append(log, x)[i - 1].hash,
                         Append(log, x)[i].action)
  <2>1. CASE i \in 1..Len(log)
    <3>1. Append(log, x)[i] = log[i] /\ (i # 1 => Append(log, x)[i - 1] = log[i - 1])
      BY <1>0, <2>1, AppendFacts
    <3>2. log[i].hash = chainHash(IF i = 1 THEN <<>> ELSE log[i - 1].hash, log[i].action)
      BY <2>1 DEF VerifyChain
    <3> QED
      BY <3>1, <3>2
  <2>2. CASE i = Len(log) + 1
    <3>1. Append(log, x)[i] = x /\ (i # 1 => Append(log, x)[i - 1] = log[i - 1])
      BY <1>0, <2>2, AppendFacts
    <3>2. prev = IF i = 1 THEN <<>> ELSE Append(log, x)[i - 1].hash
      BY <1>0, <1>2, <2>2, <3>1
    <3> QED
      BY <1>5, <3>1, <3>2
  <2> QED
    BY <1>0, <2>1, <2>2
<1>8. Append(log, x) \in Seq(Entries) /\ Len(Append(log, x)) = Len(log) + 1
  BY AppendFacts
<1>9. VerifyChain(Append(log, x))
  BY <1>7, <1>8 DEF VerifyChain
<1> QED
  BY <1>6, <1>8, <1>9

(* One request's next record.                                               *)
Puts(r, new) == new \in Reqs /\ req' = [req EXCEPT ![r] = new]

LEMMA IdleType == Idle \in Reqs /\ Idle.op = "none" /\ Idle.at = "read"
  BY EmptySeq DEF Idle, Reqs, Ops, Hashes

LEMMA PutTypes ==
  ASSUME SessionsTypeOK, NEW r \in Requests, NEW new, Puts(r, new)
  PROVE  /\ req' \in [Requests -> Reqs]
         /\ req'[r] = new
         /\ \A q \in Requests : q # r => req'[q] = req[q]
  BY DEF Puts, SessionsTypeOK

LEMMA EndPuts ==
  ASSUME NEW r \in Requests, End(r)
  PROVE  Puts(r, Idle)
  BY IdleType DEF End, Puts

(* What the other requests know stays true.                                 *)
LEMMA OthersKnow ==
  ASSUME SessionsInv, NEW q \in Requests, req'[q] = req[q],
         Follows(tok, tok'),
         \A e \in Emails : user[e].exists => user'[e].exists,
         \A e \in Emails : user'[e].exists /\ ~user[e].exists => e \notin UserRows(q),
         audit' = audit \/ req[q].at # "audit"
  PROVE  ReqKnown(q)'
<1>0. /\ ReqKnown(q) /\ req[q] \in Reqs /\ req[q].email \subseteq Emails
      /\ tok \in Seq(Tokens) /\ Len(tok) \in Nat
  BY LenProperties DEF SessionsInv, SessionsTypeOK, Reqs
<1>1. /\ Len(tok) <= Len(tok') /\ Len(tok') \in Nat
      /\ \A n \in 1..Len(tok) : tok'[n].family = tok[n].family
  BY LenProperties DEF Follows
<1>2. req[q].op \in {"rotate", "replayed", "logout"} => req[q].id \in 1..Len(tok')
  BY <1>0, <1>1 DEF ReqKnown
<1>3. ASSUME req[q].op = "replayed", req[q].at # "read"
      PROVE  req[q].rows \subseteq InFamily(tok[req[q].id].family)'
  <2>1. req[q].id \in 1..Len(tok) /\ req[q].rows \subseteq InFamily(tok[req[q].id].family)
    BY <1>0, <1>3 DEF ReqKnown
  <2>2. tok'[req'[q].id].family = tok[req[q].id].family
    BY <1>1, <2>1
  <2> QED
    BY <1>0, <1>1, <2>1, <2>2 DEF InFamily
<1>4. /\ req[q].op = "login" => \A e \in req[q].email : user'[e].exists
      /\ req[q].op = "registered" /\ req[q].at \in {"open", "audit"} =>
           \A e \in req[q].email : ~user'[e].exists
  BY <1>0 DEF ReqKnown, UserRows
<1>5. req[q].at = "audit" => req[q].prev = GetLastAuditHash(audit)'
  BY <1>0 DEF ReqKnown, GetLastAuditHash
<1> QED
  BY <1>0, <1>2, <1>3, <1>4, <1>5 DEF ReqKnown

LEMMA ExclusivePut ==
  ASSUME SessionsInv, NEW r \in Requests, NEW new, Puts(r, new),
         new.at = "audit" => \A q \in Requests \ {r} : req[q].at # "audit",
         new.op \in {"login", "registered"} /\ new.at \in {"open", "audit"} =>
           \A q \in Requests \ {r} : new.email \cap UserRows(q) = {}
  PROVE  Exclusive'
<1>1. req'[r] = new /\ \A q \in Requests \ {r} : req'[q] = req[q]
  BY PutTypes DEF SessionsInv
<1>2. \A q \in Requests \ {r} : UserRows(q)' = UserRows(q)
  BY <1>1 DEF UserRows
<1>3. \A q \in Requests \ {r} : UserRows(r)' \cap UserRows(q)' = {}
  BY <1>1, <1>2 DEF UserRows
<1>4. \A q \in Requests \ {r} : ~(req'[r].at = "audit" /\ req'[q].at = "audit")
  BY <1>1
<1>5. \A p, q \in Requests \ {r} : p # q =>
        ~(req'[p].at = "audit" /\ req'[q].at = "audit") /\ UserRows(p)' \cap UserRows(q)' = {}
  BY <1>1, <1>2 DEF SessionsInv, Exclusive
<1> QED
  BY <1>3, <1>4, <1>5 DEF Exclusive

(* A step that changes nothing but its request.                             *)
LEMMA OnlyTheRequest ==
  ASSUME SessionsInv, NEW r \in Requests, NEW new, Puts(r, new),
         UNCHANGED <<user, tok, audit, misses>>, events' \in 0..MaxEvents,
         new.at = "audit" => \A q \in Requests \ {r} : req[q].at # "audit",
         new.op \in {"login", "registered"} /\ new.at \in {"open", "audit"} =>
           \A q \in Requests \ {r} : new.email \cap UserRows(q) = {},
         ReqKnown(r)'
  PROVE  SessionsInv'
<1>0. SessionsTypeOK
  BY DEF SessionsInv
<1>1. req' \in [Requests -> Reqs] /\ \A q \in Requests : q # r => req'[q] = req[q]
  BY <1>0, PutTypes
<1>2. SessionsTypeOK'
  BY <1>0, <1>1 DEF SessionsTypeOK
<1>3. Follows(tok, tok')
  BY <1>0, LenProperties DEF Follows, SessionsTypeOK
<1>4. \A q \in Requests : ReqKnown(q)'
  BY <1>1, <1>3, OthersKnow
<1>5. Exclusive'
  BY ExclusivePut
<1>6. Accounts' /\ AuditVerifies' /\ LiveSessionIsCurrent'
  BY DEF SessionsInv, Accounts, AuditVerifies, LiveSessionIsCurrent
<1> QED
  BY <1>2, <1>4, <1>5, <1>6 DEF SessionsInv

LEMMA EventType ==
  ASSUME SessionsTypeOK, Event
  PROVE  events' \in 0..MaxEvents
  BY ThresholdAssumption DEF Event, SessionsTypeOK

(* A request that begins.                                                   *)
LEMMA Starts ==
  ASSUME SessionsInv, NEW r \in Requests, NEW new \in Reqs, Start(r, new),
         new.at = "read",
         new.op \in {"rotate", "replayed", "logout"} => new.id \in 1..Len(tok),
         new.op = "login" => \A e \in new.email : user[e].exists
  PROVE  SessionsInv'
<1>0. /\ SessionsTypeOK /\ Puts(r, new) /\ events' \in 0..MaxEvents
      /\ UNCHANGED <<user, tok, audit, misses>>
  BY EventType DEF SessionsInv, Start, Puts
<1>1. req'[r] = new
  BY <1>0, PutTypes
<1>2. ReqKnown(r)'
  BY <1>0, <1>1 DEF ReqKnown
<1> QED
  BY <1>0, <1>2, OnlyTheRequest

LEMMA RequestsBegin ==
  ASSUME SessionsInv, NEW r \in Requests,
         \/ \E e \in Emails : Register(r, e) \/ Login(r, e)
         \/ \E n \in 1..Len(tok) : Refresh(r, n) \/ Logout(r, n)
  PROVE  SessionsInv'
<1>0. /\ SessionsTypeOK /\ tok \in Seq(Tokens) /\ Len(tok) \in Nat
      /\ \A n \in 1..Len(tok) : tok[n] \in Tokens /\ tok[n].email \in Emails /\ n \in Nat
      /\ \A e \in Emails : user[e].failed \in Nat
  <2>1. SessionsTypeOK /\ tok \in Seq(Tokens)
    BY DEF SessionsInv, SessionsTypeOK
  <2>2. \A n \in 1..Len(tok) : tok[n] \in Tokens
    BY <2>1, ElementOfSeq
  <2>3. Len(tok) \in Nat
    BY <2>1, LenProperties
  <2> QED
    BY <2>1, <2>2, <2>3 DEF SessionsTypeOK, Users, Tokens
<1>1. ASSUME NEW e \in Emails, Register(r, e) PROVE SessionsInv'
  <2>1. PICK new \in Reqs : new = [Idle EXCEPT !.op = "registered", !.email = {e}]
    <3>1. [Idle EXCEPT !.op = "registered", !.email = {e}] \in Reqs
      BY IdleType DEF Reqs, Ops, Actions
    <3> QED
      BY <3>1
  <2>2. new.at = "read" /\ new.op = "registered"
    BY <2>1, IdleType DEF Reqs
  <2> QED
    BY <1>1, <2>1, <2>2, Starts DEF Register
<1>2. ASSUME NEW e \in Emails, Login(r, e) PROVE SessionsInv'
  <2>1. PICK new \in Reqs :
          new = [Idle EXCEPT !.op = "login", !.email = {e}, !.seen = user[e].failed]
    <3>1. [Idle EXCEPT !.op = "login", !.email = {e}, !.seen = user[e].failed] \in Reqs
      BY <1>0, IdleType DEF Reqs, Ops, Actions
    <3> QED
      BY <3>1
  <2>2. new.at = "read" /\ new.op = "login" /\ new.email = {e}
    BY <2>1, IdleType DEF Reqs
  <2>3. user[e].exists /\ Start(r, new)
    BY <1>2, <2>1 DEF Login
  <2> QED
    BY <2>2, <2>3, Starts
<1>3. ASSUME NEW n \in 1..Len(tok), Refresh(r, n) PROVE SessionsInv'
  <2>1. PICK new \in Reqs :
          new = [Idle EXCEPT !.op = IF tok[n].used THEN "replayed" ELSE "rotate",
                             !.id = n, !.email = {tok[n].email}]
    <3>1. [Idle EXCEPT !.op = IF tok[n].used THEN "replayed" ELSE "rotate",
                       !.id = n, !.email = {tok[n].email}] \in Reqs
      BY <1>0, IdleType DEF Reqs, Ops, Actions
    <3> QED
      BY <3>1
  <2>2. new.at = "read" /\ new.op \in {"replayed", "rotate"} /\ new.id = n
    BY <2>1, IdleType DEF Reqs
  <2>3. Start(r, new)
    BY <1>3, <2>1 DEF Refresh
  <2> QED
    BY <2>2, <2>3, Starts
<1>4. ASSUME NEW n \in 1..Len(tok), Logout(r, n) PROVE SessionsInv'
  <2>1. PICK new \in Reqs :
          new = [Idle EXCEPT !.op = "logout", !.id = n, !.email = {tok[n].email}]
    <3>1. [Idle EXCEPT !.op = "logout", !.id = n, !.email = {tok[n].email}] \in Reqs
      BY <1>0, IdleType DEF Reqs, Ops, Actions
    <3> QED
      BY <3>1
  <2>2. new.at = "read" /\ new.op = "logout" /\ new.id = n
    BY <2>1, IdleType DEF Reqs
  <2>3. Start(r, new)
    BY <1>4, <2>1 DEF Logout
  <2> QED
    BY <2>2, <2>3, Starts
<1> QED
  BY <1>1, <1>2, <1>3, <1>4

(* A request that ends without a write.                                     *)
LEMMA RequestsEndQuietly ==
  ASSUME SessionsInv, NEW r \in Requests, Fail(r) \/ \E e \in req[r].email : EmailTaken(r, e)
  PROVE  SessionsInv'
<1>1. Puts(r, Idle) /\ UNCHANGED <<user, tok, audit, misses>> /\ events' \in 0..MaxEvents
  BY EndPuts, EventType DEF Fail, EmailTaken, SessionsInv, SessionsTypeOK
<1>2. req'[r] = Idle
  BY <1>1, PutTypes DEF SessionsInv
<1>3. ReqKnown(r)'
  BY <1>2, IdleType DEF ReqKnown
<1> QED
  BY <1>1, <1>3, IdleType, OnlyTheRequest

(* The rows a replay is about to revoke.                                    *)
LEMMA FamilyFound ==
  ASSUME SessionsInv, NEW r \in Requests, FindFamily(r)
  PROVE  SessionsInv'
<1>0. /\ SessionsTypeOK /\ req[r] \in Reqs /\ ReqKnown(r) /\ req[r].op = "replayed"
      /\ UNCHANGED <<user, tok, audit, misses, events>> /\ events \in 0..MaxEvents
  BY DEF SessionsInv, SessionsTypeOK, FindFamily
<1>1. /\ RevokeRefreshFamily(tok[req[r].id].family) \subseteq Nat
      /\ RevokeRefreshFamily(tok[req[r].id].family) \subseteq InFamily(tok[req[r].id].family)
  BY DEF RevokeRefreshFamily, InFamily
<1>2. PICK new \in Reqs :
        new = [req[r] EXCEPT !.at = "waits",
                             !.rows = RevokeRefreshFamily(tok[req[r].id].family)]
  <2>1. [req[r] EXCEPT !.at = "waits", !.rows = RevokeRefreshFamily(tok[req[r].id].family)]
          \in Reqs
    BY <1>0, <1>1 DEF Reqs
  <2> QED
    BY <2>1
<1>3. /\ new.at = "waits" /\ new.op = "replayed" /\ new.id = req[r].id
      /\ new.rows = RevokeRefreshFamily(tok[req[r].id].family)
  BY <1>0, <1>2 DEF Reqs
<1>4. Puts(r, new)
  BY <1>0, <1>2 DEF Puts, FindFamily, SessionsTypeOK
<1>5. req'[r] = new
  BY <1>0, <1>4, PutTypes
<1>6. new.id \in 1..Len(tok) /\ InFamily(tok[new.id].family)' = InFamily(tok[new.id].family)
  BY <1>0, <1>3 DEF ReqKnown, InFamily
<1>7. ReqKnown(r)'
  BY <1>0, <1>1, <1>3, <1>5, <1>6 DEF ReqKnown, Actions
<1> QED
  BY <1>0, <1>3, <1>4, <1>7, OnlyTheRequest

(* A transaction begins to write: it has the rows of the users to itself.   *)
LEMMA Opens ==
  ASSUME SessionsInv, NEW r \in Requests, Open(r)
  PROVE  SessionsInv'
<1>0. /\ SessionsTypeOK /\ req[r] \in Reqs /\ ReqKnown(r) /\ Ready(r)
      /\ UNCHANGED <<user, tok, audit, misses, events>> /\ events \in 0..MaxEvents
  BY DEF SessionsInv, SessionsTypeOK, Open
<1>1. PICK new \in Reqs : new = [req[r] EXCEPT !.at = "open"]
  <2>1. [req[r] EXCEPT !.at = "open"] \in Reqs
    BY <1>0 DEF Reqs
  <2> QED
    BY <2>1
<1>2. /\ new.at = "open" /\ new.op = req[r].op /\ new.id = req[r].id
      /\ new.rows = req[r].rows /\ new.email = req[r].email
  BY <1>0, <1>1 DEF Reqs
<1>3. Puts(r, new)
  BY <1>0, <1>1 DEF Puts, Open, SessionsTypeOK
<1>4. req'[r] = new
  BY <1>0, <1>3, PutTypes
<1>5. /\ new.op \in Actions
      /\ new.op = "replayed" => req[r].at # "read"
      /\ new.op \in {"login", "registered"} =>
           \A e \in new.email : UserFree(r, e) /\ (new.op = "login" <=> user[e].exists)
  BY <1>0, <1>2 DEF Ready, Actions
<1>6. new.op \in {"login", "registered"} =>
        \A q \in Requests \ {r} : new.email \cap UserRows(q) = {}
  BY <1>5 DEF UserFree
<1>7. ReqKnown(r)'
  <2>1. new.op \in {"rotate", "replayed", "logout"} => new.id \in 1..Len(tok')
    BY <1>0, <1>2 DEF ReqKnown
  <2>2. new.op = "replayed" => new.rows \subseteq InFamily(tok[req[r].id].family)'
    BY <1>0, <1>2, <1>4, <1>5 DEF ReqKnown, InFamily
  <2> QED
    BY <1>0, <1>2, <1>4, <1>5, <2>1, <2>2 DEF ReqKnown
<1> QED
  BY <1>0, <1>2, <1>3, <1>6, <1>7, OnlyTheRequest

(* It takes the lock of the audit log and reads the last hash.              *)
LEMMA Appends ==
  ASSUME SessionsInv, NEW r \in Requests, AppendAudit(r)
  PROVE  SessionsInv'
<1>0. /\ SessionsTypeOK /\ req[r] \in Reqs /\ ReqKnown(r) /\ Exclusive /\ req[r].at = "open"
      /\ \A q \in Requests \ {r} : req[q].at # "audit"
      /\ UNCHANGED <<user, tok, audit, misses, events>> /\ events \in 0..MaxEvents
  BY DEF SessionsInv, SessionsTypeOK, AppendAudit, LockAuditChain
<1>1. GetLastAuditHash(audit) \in Hashes
  <2>1. audit \in Seq(Entries)
    BY <1>0 DEF SessionsTypeOK
  <2>2. CASE audit = <<>>
    BY <2>2, EmptySeq DEF GetLastAuditHash, Hashes
  <2>3. CASE audit # <<>>
    <3>1. Len(audit) \in 1..Len(audit)
      BY <2>1, <2>3, EmptySeq
    <3>2. audit[Len(audit)] \in Entries
      BY <2>1, <3>1, ElementOfSeq
    <3> QED
      BY <2>3, <3>2 DEF GetLastAuditHash, Entries
  <2> QED
    BY <2>2, <2>3
<1>2. PICK new \in Reqs :
        new = [req[r] EXCEPT !.at = "audit", !.prev = GetLastAuditHash(audit)]
  <2>1. [req[r] EXCEPT !.at = "audit", !.prev = GetLastAuditHash(audit)] \in Reqs
    BY <1>0, <1>1 DEF Reqs
  <2> QED
    BY <2>1
<1>3. /\ new.at = "audit" /\ new.op = req[r].op /\ new.id = req[r].id
      /\ new.rows = req[r].rows /\ new.email = req[r].email
      /\ new.prev = GetLastAuditHash(audit)
  BY <1>0, <1>2 DEF Reqs
<1>4. Puts(r, new)
  BY <1>0, <1>2 DEF Puts, AppendAudit, SessionsTypeOK
<1>5. req'[r] = new
  BY <1>0, <1>4, PutTypes
<1>6. new.op \in {"login", "registered"} =>
        \A q \in Requests \ {r} : new.email \cap UserRows(q) = {}
  <2>1. new.op \in {"login", "registered"} => UserRows(r) = new.email
    BY <1>0, <1>3 DEF UserRows
  <2> QED
    BY <1>0, <2>1 DEF Exclusive
<1>7. ReqKnown(r)'
  <2>1. new.op \in {"rotate", "replayed", "logout"} => new.id \in 1..Len(tok')
    BY <1>0, <1>3 DEF ReqKnown
  <2>2. new.op = "replayed" => new.rows \subseteq InFamily(tok[req[r].id].family)'
    BY <1>0, <1>3, <1>5 DEF ReqKnown, InFamily
  <2>3. new.prev = GetLastAuditHash(audit)'
    BY <1>0, <1>3
  <2>4. /\ new.op \in Actions
        /\ new.op = "login" => \A e \in new.email : user'[e].exists
        /\ new.op = "registered" => \A e \in new.email : ~user'[e].exists
    BY <1>0, <1>3 DEF ReqKnown
  <2> QED
    BY <1>0, <1>3, <1>5, <2>1, <2>2, <2>3, <2>4 DEF ReqKnown
<1> QED
  BY <1>0, <1>3, <1>4, <1>6, <1>7, OnlyTheRequest

(* A step that ends a request with a write.                                 *)
LEMMA EndsWithWrite ==
  ASSUME SessionsInv, NEW r \in Requests, End(r),
         SessionsTypeOK', Follows(tok, tok'),
         \A e \in Emails : user[e].exists => user'[e].exists,
         \A q \in Requests \ {r}, e \in Emails :
           user'[e].exists /\ ~user[e].exists => e \notin UserRows(q),
         audit' = audit \/ \A q \in Requests \ {r} : req[q].at # "audit",
         Accounts', AuditVerifies', LiveSessionIsCurrent'
  PROVE  SessionsInv'
<1>1. Puts(r, Idle)
  BY EndPuts
<1>2. req'[r] = Idle /\ \A q \in Requests : q # r => req'[q] = req[q]
  BY <1>1, PutTypes DEF SessionsInv
<1>3. ReqKnown(r)'
  BY <1>2, IdleType DEF ReqKnown
<1>4. \A q \in Requests : q # r => ReqKnown(q)'
  BY <1>2, OthersKnow
<1>5. Exclusive'
  BY <1>1, IdleType, ExclusivePut
<1> QED
  BY <1>3, <1>4, <1>5 DEF SessionsInv

LEMMA SameTokens == ASSUME SessionsTypeOK, tok' = tok PROVE Follows(tok, tok')
  BY LenProperties DEF Follows, SessionsTypeOK

(* A wrong password is counted on the row as it is.                         *)
LEMMA CountsFailure ==
  ASSUME SessionsInv, NEW r \in Requests, NEW e \in Emails, WrongPassword(r, e)
  PROVE  SessionsInv'
<1>0. /\ SessionsTypeOK /\ user[e] \in Users /\ End(r) /\ UNCHANGED <<tok, audit, events>>
      /\ user[e].exists
  BY DEF SessionsInv, SessionsTypeOK, WrongPassword, ReqKnown
<1>1. PICK u \in Users : u = RecordLoginFailure(user[e], req[r].seen)
  <2>1. PICK l \in {"no", "yes", "elapsed"} :
          l = IF user[e].failed + 1 >= LockoutThreshold THEN "yes" ELSE user[e].locked
    BY <1>0 DEF Users
  <2>2. PICK f \in Nat : f = user[e].failed + 1
    BY <1>0 DEF Users
  <2>3. [user[e] EXCEPT !.failed = f, !.locked = l] \in Users
    BY <1>0 DEF Users
  <2>4. RecordLoginFailure(user[e], req[r].seen) \in Users
    BY <2>1, <2>2, <2>3 DEF RecordLoginFailure
  <2> QED
    BY <2>4
<1>2. /\ u.exists /\ u.failed = user[e].failed + 1
      /\ u.failed >= LockoutThreshold => u.locked = "yes"
  BY <1>0, <1>1 DEF RecordLoginFailure, Users
<1>3. user' = [user EXCEPT ![e] = u] /\ misses' = [misses EXCEPT ![e] = @ + 1]
  BY <1>1 DEF WrongPassword
<1>4. req' \in [Requests -> Reqs]
  BY <1>0, EndPuts, PutTypes
<1>5. SessionsTypeOK'
  BY <1>0, <1>3, <1>4 DEF SessionsTypeOK
<1>6. \A d \in Emails : user'[d].exists = user[d].exists
  BY <1>0, <1>2, <1>3 DEF SessionsTypeOK, Users
<1>7. Accounts'
  <2>1. misses[e] \in Nat /\ user[e].failed \in Nat /\ misses[e] <= user[e].failed
    BY <1>0 DEF SessionsTypeOK, Users, SessionsInv, Accounts
  <2>2. user'[e] = u /\ misses'[e] = misses[e] + 1
    BY <1>0, <1>3 DEF SessionsTypeOK
  <2>3. \A d \in Emails \ {e} : user'[d] = user[d] /\ misses'[d] = misses[d]
    BY <1>0, <1>3 DEF SessionsTypeOK
  <2> QED
    <3>1. ASSUME NEW d \in Emails \ {e}
          PROVE  /\ misses'[d] <= user'[d].failed
                 /\ user'[d].failed >= LockoutThreshold => user'[d].locked # "no"
                 /\ ~user'[d].exists => misses'[d] = 0
      BY <2>3 DEF SessionsInv, Accounts
    <3>2. /\ misses'[e] <= user'[e].failed
          /\ user'[e].failed >= LockoutThreshold => user'[e].locked # "no"
          /\ ~user'[e].exists => misses'[e] = 0
      BY <1>2, <2>1, <2>2
    <3> QED
      BY <3>1, <3>2 DEF Accounts
<1>8. AuditVerifies' /\ LiveSessionIsCurrent'
  BY <1>0 DEF SessionsInv, AuditVerifies, LiveSessionIsCurrent
<1> QED
  BY <1>0, <1>5, <1>6, <1>7, <1>8, SameTokens, EndsWithWrite

LEMMA Rotates ==
  ASSUME SessionsInv, NEW r \in Requests, NEW n \in 1..Len(tok), RotateToken(r, n)
  PROVE  SessionsInv'
<1>0. /\ SessionsTypeOK /\ tok \in Seq(Tokens) /\ End(r)
      /\ UNCHANGED <<user, audit, misses, events>>
      /\ tok' = Rotate(tok, n) /\ Current(tok)
  BY DEF SessionsInv, SessionsTypeOK, RotateToken, LiveSessionIsCurrent, Current
<1>1. Follows(tok, tok') /\ Current(tok')
  BY <1>0, RotateFollows
<1>2. req' \in [Requests -> Reqs]
  BY <1>0, EndPuts, PutTypes
<1>3. SessionsTypeOK'
  BY <1>0, <1>1, <1>2 DEF SessionsTypeOK, Follows
<1>4. Accounts' /\ AuditVerifies' /\ LiveSessionIsCurrent'
  BY <1>0, <1>1 DEF SessionsInv, Accounts, AuditVerifies, LiveSessionIsCurrent, Current
<1> QED
  BY <1>0, <1>1, <1>3, <1>4, EndsWithWrite

(* The commit of a transaction: its entry follows the last one, because no  *)
(* other transaction has had the lock since it read the hash.               *)
LEMMA Commits ==
  ASSUME SessionsInv, NEW r \in Requests, NEW e \in Emails, Commit(r, e)
  PROVE  SessionsInv'
<1>0. /\ SessionsTypeOK /\ req[r] \in Reqs /\ ReqKnown(r) /\ Exclusive /\ End(r)
      /\ req[r].at = "audit" /\ e \in req[r].email /\ req[r].op \in Actions
      /\ tok \in Seq(Tokens) /\ audit \in Seq(Entries) /\ UNCHANGED events
      /\ Current(tok) /\ VerifyChain(audit) /\ req[r].prev = GetLastAuditHash(audit)
  BY DEF SessionsInv, SessionsTypeOK, Commit, LiveSessionIsCurrent, Current, AuditVerifies, ReqKnown
<1>1. audit' \in Seq(Entries) /\ VerifyChain(audit')
  <2>1. audit' = InsertAudit(audit, req[r].op, GetLastAuditHash(audit))
    BY <1>0 DEF Commit
  <2> QED
    BY <1>0, <2>1, ChainGrows
<1>2. \A q \in Requests \ {r} : req[q].at # "audit"
  BY <1>0 DEF Exclusive
<1>3. Follows(tok, tok') /\ Current(tok')
  <2>1. CASE req[r].op = "logout"
    <3>1. tok' = RevokeSession(tok, req[r].id) /\ req[r].id \in 1..Len(tok)
      BY <1>0, <2>1 DEF Commit, ReqKnown
    <3> QED
      BY <1>0, <3>1, RevokeSessionFollows
  <2>2. CASE req[r].op = "replayed"
    <3>1. /\ tok' = RevokeFamily(tok, req[r].rows, tok[req[r].id].family)
          /\ req[r].rows \subseteq InFamily(tok[req[r].id].family)
      BY <1>0, <2>2 DEF Commit, ReqKnown
    <3>2. \A n \in 1..Len(tok) : n \in req[r].rows => tok[n].family = tok[req[r].id].family
      BY <3>1 DEF InFamily
    <3> QED
      BY <1>0, <3>1, <3>2, RevokeFamilyFollows
  <2>3. CASE req[r].op \notin {"logout", "replayed"}
    <3>1. tok' = Issue(tok, e)
      BY <2>3 DEF Commit
    <3> QED
      BY <1>0, <3>1, IssueFollows
  <2> QED
    BY <2>1, <2>2, <2>3
<1>4. req' \in [Requests -> Reqs]
  BY <1>0, EndPuts, PutTypes
<1>5. /\ user' \in [Emails -> Users] /\ misses' \in [Emails -> Nat]
      /\ \A d \in Emails \ {e} : user'[d] = user[d] /\ misses'[d] = misses[d]
      /\ \/ req[r].op \in {"registered", "login"} /\ user'[e].exists /\ user'[e].failed = 0
            /\ misses'[e] = 0
         \/ req[r].op \notin {"registered", "login"} /\ user' = user /\ misses' = misses
  <2>0. user \in [Emails -> Users] /\ misses \in [Emails -> Nat] /\ user[e] \in Users
    BY <1>0 DEF SessionsTypeOK
  <2>1. CASE req[r].op = "registered"
    <3>1. user' = [user EXCEPT ![e] = CreateUser] /\ misses' = misses
      BY <2>1 DEF Commit
    <3>2. CreateUser \in Users /\ CreateUser.exists /\ CreateUser.failed = 0
      BY DEF CreateUser, Users
    <3>3. misses[e] = 0
      BY <1>0, <2>1 DEF ReqKnown, SessionsInv, Accounts
    <3> QED
      BY <2>0, <2>1, <3>1, <3>2, <3>3
  <2>2. CASE req[r].op = "login"
    <3>1. PICK u \in Users : u = RecordLoginSuccess(user[e])
      <4>1. RecordLoginSuccess(user[e]) \in Users
        BY <2>0 DEF RecordLoginSuccess, Users
      <4> QED
        BY <4>1
    <3>2. u.exists /\ u.failed = 0
      BY <1>0, <2>0, <2>2, <3>1 DEF RecordLoginSuccess, Users, ReqKnown
    <3>3. user' = [user EXCEPT ![e] = u] /\ misses' = [misses EXCEPT ![e] = 0]
      BY <2>2, <3>1 DEF Commit
    <3> QED
      BY <2>0, <2>2, <3>2, <3>3
  <2>3. CASE req[r].op \notin {"registered", "login"}
    <3>1. user' = user /\ misses' = misses
      BY <2>3 DEF Commit
    <3> QED
      BY <2>0, <2>3, <3>1
  <2> QED
    BY <2>1, <2>2, <2>3
<1>6. SessionsTypeOK'
  BY <1>0, <1>1, <1>3, <1>4, <1>5 DEF SessionsTypeOK, Follows
<1>7. \A d \in Emails : user[d].exists => user'[d].exists
  BY <1>5
<1>8. ASSUME NEW q \in Requests \ {r}, NEW d \in Emails, user'[d].exists, ~user[d].exists
      PROVE  d \notin UserRows(q)
  <2>1. d = e /\ req[r].op \in {"registered", "login"}
    BY <1>5, <1>8
  <2>2. e \in UserRows(r)
    BY <1>0, <2>1 DEF UserRows
  <2> QED
    BY <1>0, <2>1, <2>2 DEF Exclusive
<1>9. Accounts'
  <2>1. ASSUME NEW d \in Emails, user'[d] = user[d], misses'[d] = misses[d]
        PROVE  /\ misses'[d] <= user'[d].failed
               /\ user'[d].failed >= LockoutThreshold => user'[d].locked # "no"
               /\ ~user'[d].exists => misses'[d] = 0
    BY <2>1 DEF SessionsInv, Accounts
  <2>2. ASSUME user'[e].exists, user'[e].failed = 0, misses'[e] = 0
        PROVE  /\ misses'[e] <= user'[e].failed
               /\ user'[e].failed >= LockoutThreshold => user'[e].locked # "no"
               /\ ~user'[e].exists => misses'[e] = 0
    BY <2>2, ThresholdAssumption
  <2> QED
    BY <1>5, <2>1, <2>2 DEF Accounts
<1>10. AuditVerifies' /\ LiveSessionIsCurrent'
  BY <1>1, <1>3 DEF AuditVerifies, LiveSessionIsCurrent, Current
<1> QED
  BY <1>0, <1>2, <1>3, <1>6, <1>7, <1>8, <1>9, <1>10, EndsWithWrite

(* Time passes.                                                             *)
LEMMA LocksElapse ==
  ASSUME SessionsInv, NEW e \in Emails, LockElapses(e)
  PROVE  SessionsInv'
<1>0. /\ SessionsTypeOK /\ user[e] \in Users /\ UNCHANGED <<tok, audit, req, misses>>
      /\ events' \in 0..MaxEvents
  BY EventType DEF SessionsInv, SessionsTypeOK, LockElapses
<1>1. PICK u \in Users : u = [user[e] EXCEPT !.locked = "elapsed"]
  <2>1. [user[e] EXCEPT !.locked = "elapsed"] \in Users
    BY <1>0 DEF Users
  <2> QED
    BY <2>1
<1>2. u.exists = user[e].exists /\ u.failed = user[e].failed /\ u.locked = "elapsed"
  BY <1>0, <1>1 DEF Users
<1>3. user' = [user EXCEPT ![e] = u]
  BY <1>0, <1>1 DEF LockElapses
<1>4. \A d \in Emails : /\ user'[d].exists = user[d].exists /\ user'[d].failed = user[d].failed
                        /\ user'[d].locked = "elapsed" \/ user'[d] = user[d]
  BY <1>0, <1>2, <1>3 DEF SessionsTypeOK
<1>5. SessionsTypeOK'
  BY <1>0, <1>3 DEF SessionsTypeOK
<1>6. \A q \in Requests : ReqKnown(q)'
  BY <1>0, <1>4, SameTokens, OthersKnow
<1>7. Exclusive' /\ AuditVerifies' /\ LiveSessionIsCurrent'
  BY <1>0 DEF SessionsInv, Exclusive, UserRows, AuditVerifies, LiveSessionIsCurrent
<1>8. Accounts'
  BY <1>0, <1>4 DEF SessionsInv, Accounts
<1> QED
  BY <1>5, <1>6, <1>7, <1>8 DEF SessionsInv

LEMMA TokensExpire ==
  ASSUME SessionsInv, NEW n \in 1..Len(tok), Expire(n)
  PROVE  SessionsInv'
<1>0. /\ SessionsTypeOK /\ tok \in Seq(Tokens) /\ UNCHANGED <<user, audit, req, misses>>
      /\ events' \in 0..MaxEvents /\ Current(tok)
      /\ tok[n].age < 2 /\ tok' = [tok EXCEPT ![n].age = @ + 1]
  BY EventType DEF SessionsInv, SessionsTypeOK, Expire, LiveSessionIsCurrent, Current
<1>1. Follows(tok, tok') /\ Current(tok')
  BY <1>0, ExpireFollows
<1>2. SessionsTypeOK'
  BY <1>0, <1>1 DEF SessionsTypeOK, Follows
<1>3. \A q \in Requests : ReqKnown(q)'
  BY <1>0, <1>1, OthersKnow
<1>4. Exclusive' /\ AuditVerifies' /\ Accounts'
  BY <1>0 DEF SessionsInv, Exclusive, UserRows, AuditVerifies, Accounts
<1>5. LiveSessionIsCurrent'
  BY <1>1 DEF LiveSessionIsCurrent, Current
<1> QED
  BY <1>2, <1>3, <1>4, <1>5 DEF SessionsInv

LEMMA SessionsInvStep == SessionsInv /\ [SessionsNext]_sessionVars => SessionsInv'
<1> SUFFICES ASSUME SessionsInv, [SessionsNext]_sessionVars PROVE SessionsInv'
  OBVIOUS
<1>1. ASSUME NEW r \in Requests, Proceed(r) PROVE SessionsInv'
  <2>1. req[r].email \subseteq Emails
    BY DEF SessionsInv, SessionsTypeOK, Reqs
  <2>2. \A e \in req[r].email : WrongPassword(r, e) \/ Commit(r, e) => SessionsInv'
    BY <2>1, CountsFailure, Commits
  <2> QED
    BY <1>1, <2>2, FamilyFound, Opens, Appends, Rotates, RequestsEndQuietly DEF Proceed
<1>2. CASE UNCHANGED sessionVars
  <2>1. \A q \in Requests : ReqKnown(q)'
    BY <1>2 DEF SessionsInv, ReqKnown, sessionVars, InFamily
  <2> QED
    BY <1>2, <2>1 DEF sessionVars, SessionsInv, SessionsTypeOK, Exclusive, UserRows, Accounts,
         AuditVerifies, LiveSessionIsCurrent
<1> QED
  BY <1>1, <1>2, RequestsBegin, RequestsEndQuietly, LocksElapse, TokensExpire DEF SessionsNext

LEMMA SessionsInvInit == SessionsInit => SessionsInv
<1> SUFFICES ASSUME SessionsInit PROVE SessionsInv
  OBVIOUS
<1>1. SessionsTypeOK
  <2>1. [exists |-> FALSE, failed |-> 0, locked |-> "no"] \in Users
    BY DEF Users
  <2>2. tok \in Seq(Tokens) /\ audit \in Seq(Entries)
    BY EmptySeq DEF SessionsInit
  <2> QED
    BY <2>1, <2>2, IdleType, ThresholdAssumption DEF SessionsInit, SessionsTypeOK
<1>2. \A q \in Requests : req[q].op = "none" /\ req[q].at = "read"
  BY IdleType DEF SessionsInit
<1>3. (\A q \in Requests : ReqKnown(q)) /\ Exclusive
  BY <1>2 DEF ReqKnown, Exclusive, UserRows
<1>4. Accounts
  BY ThresholdAssumption DEF SessionsInit, Accounts
<1>5. AuditVerifies /\ LiveSessionIsCurrent
  BY EmptySeq DEF SessionsInit, AuditVerifies, VerifyChain, LiveSessionIsCurrent
<1> QED
  BY <1>1, <1>3, <1>4, <1>5 DEF SessionsInv

LEMMA SessionsInvHolds == SessionsSpec => []SessionsInv
  BY SessionsInvInit, SessionsInvStep, PTL DEF SessionsSpec

(* Whatever requests run together, the state has its types: every token has *)
(* a family, and every entry of the audit log the action of a request.      *)
THEOREM SessionsTyped == SessionsSpec => []SessionsTypeOK
<1>1. SessionsInv => SessionsTypeOK
  BY DEF SessionsInv
<1> QED
  BY <1>1, SessionsInvHolds, PTL

(* The audit log verifies, for any number of transactions that add to it    *)
(* and roll back: the lock lets one at a time be between its read of the    *)
(* last hash and its commit.                                                *)
THEOREM AuditIsOneChain == SessionsSpec => []AuditVerifies
<1>1. SessionsInv => AuditVerifies
  BY DEF SessionsInv
<1> QED
  BY <1>1, SessionsInvHolds, PTL

(* A live session is never that of a used or revoked refresh token, for any *)
(* number of rotations, replays and logouts of one family at a time.        *)
THEOREM SessionsAreCurrent == SessionsSpec => []LiveSessionIsCurrent
<1>1. SessionsInv => LiveSessionIsCurrent
  BY DEF SessionsInv
<1> QED
  BY <1>1, SessionsInvHolds, PTL

(* No number of concurrent attempts gets past the lockout threshold.        *)
THEOREM FailuresLock == SessionsSpec => []LockoutCounts
<1>1. SessionsInv => LockoutCounts
  <2> SUFFICES ASSUME SessionsInv, NEW e \in Emails, misses[e] >= LockoutThreshold
               PROVE  user[e].locked # "no"
    BY DEF LockoutCounts
  <2>1. misses[e] \in Nat /\ user[e].failed \in Nat /\ misses[e] <= user[e].failed
    BY DEF SessionsInv, SessionsTypeOK, Users, Accounts
  <2>2. user[e].failed >= LockoutThreshold
    BY <2>1, ThresholdAssumption
  <2> QED
    BY <2>2 DEF SessionsInv, Accounts
<1> QED
  BY <1>1, SessionsInvHolds, PTL
-----------------------------------------------------------------------------
(* Erasing the user.                                                        *)
(* The types, and that what is counted is finite: rows and objects are      *)
(* added one at a time.                                                     *)
ErasureTypeInv == ErasureTypeOK /\ IsFiniteSet(resumes) /\ IsFiniteSet(objects)

(* One erasure's next record.                                               *)
Moves(e, new) == new \in Eras /\ era' = [era EXCEPT ![e] = new]

LEMMA MoveTypes ==
  ASSUME ErasureTypeOK, NEW e \in Erasures, NEW new, Moves(e, new)
  PROVE  /\ era' \in [Erasures -> Eras]
         /\ era'[e] = new
         /\ \A d \in Erasures : d # e => era'[d] = era[d]
  BY DEF Moves, ErasureTypeOK

LEMMA DeletesFacts ==
  /\ Len(Deletes) = 7
  /\ \A n \in 1..7 : Deletes[n] \in Locations
  /\ Deletes[7] = "user_row"
  /\ \A n \in 1..7 : Deletes[n] = "user_row" => n = 7
  BY DEF Deletes, Locations, Tables

LEMMA FiniteTables == ASSUME ErasureTypeOK PROVE IsFiniteSet(tables) /\ Cardinality(tables) \in Nat
<1>1. IsFiniteSet({"profile_skills", "profile", "refresh_tokens", "sessions", "user_tokens",
           "user_row"})
  <2>1. IsFiniteSet({})
    BY FS_EmptySet
  <2>2. IsFiniteSet({} \cup {"profile_skills"})
    BY <2>1, FS_AddElement
  <2>3. IsFiniteSet(({} \cup {"profile_skills"}) \cup {"profile"})
    BY <2>2, FS_AddElement
  <2>4. IsFiniteSet((({} \cup {"profile_skills"}) \cup {"profile"}) \cup {"refresh_tokens"})
    BY <2>3, FS_AddElement
  <2>5. IsFiniteSet(((({} \cup {"profile_skills"}) \cup {"profile"}) \cup {"refresh_tokens"})
                    \cup {"sessions"})
    BY <2>4, FS_AddElement
  <2>6. IsFiniteSet((((({} \cup {"profile_skills"}) \cup {"profile"}) \cup {"refresh_tokens"})
                     \cup {"sessions"}) \cup {"user_tokens"})
    BY <2>5, FS_AddElement
  <2>7. IsFiniteSet(((((({} \cup {"profile_skills"}) \cup {"profile"}) \cup {"refresh_tokens"})
                     \cup {"sessions"}) \cup {"user_tokens"}) \cup {"user_row"})
    BY <2>6, FS_AddElement
  <2>8. ((((({} \cup {"profile_skills"}) \cup {"profile"}) \cup {"refresh_tokens"})
         \cup {"sessions"}) \cup {"user_tokens"}) \cup {"user_row"}
        = {"profile_skills", "profile", "refresh_tokens", "sessions", "user_tokens", "user_row"}
    OBVIOUS
  <2> QED
    BY <2>7, <2>8
<1>2. tables \subseteq {"profile_skills", "profile", "refresh_tokens", "sessions",
                        "user_tokens", "user_row"}
  BY DEF ErasureTypeOK, Tables
<1>3. IsFiniteSet(tables)
  BY <1>1, <1>2, FS_Subset
<1> QED
  BY <1>3, FS_CardinalityType

LEMMA Counts ==
  ASSUME ErasureTypeInv
  PROVE  /\ CountUserTraces \in Nat
         /\ CountUserTraces = 0 => tables = {} /\ resumes = {}
         /\ Cardinality(objects) \in Nat
         /\ Cardinality(objects) = 0 => objects = {}
<1>1. IsFiniteSet(tables) /\ IsFiniteSet(resumes) /\ IsFiniteSet(objects)
  BY FiniteTables DEF ErasureTypeInv
<1>2. /\ Cardinality(tables) \in Nat /\ Cardinality(resumes) \in Nat
      /\ Cardinality(objects) \in Nat
  BY <1>1, FS_CardinalityType
<1>3. /\ Cardinality(tables) = 0 => tables = {}
      /\ Cardinality(resumes) = 0 => resumes = {}
      /\ Cardinality(objects) = 0 => objects = {}
  BY <1>1, FS_EmptySet
<1> QED
  BY <1>2, <1>3 DEF CountUserTraces

(* The record an erasure goes on with after a delete.                       *)
LEMMA AdvancedType ==
  ASSUME NEW r \in Eras, r.pc = "rows"
  PROVE  /\ Advanced(r) \in Eras
         /\ r.next # 7 => Advanced(r).pc = "rows"
         /\ r.next = 7 => Advanced(r).pc = "traces"
         /\ Advanced(r).step = r.step /\ Advanced(r).lost = r.lost
         /\ Advanced(r).completed = r.completed /\ Advanced(r).counted = r.counted
  BY DeletesFacts DEF Advanced, Eras

LEMMA RecordType ==
  ASSUME NEW r \in Eras, NEW loc \in Locations, NEW status \in {"none", "done", "failed"}
  PROVE  /\ RecordErasureStep(r, loc, status) \in Eras
         /\ [r EXCEPT !.lost = TRUE] \in Eras
  BY DEF RecordErasureStep, Eras

(* A step recorded, or lost, leaves the rest of the record as it is.        *)
LEMMA RecordFields ==
  ASSUME NEW r \in Eras, NEW loc \in Locations, NEW status, NEW s,
         \/ s = RecordErasureStep(r, loc, status)
         \/ s = [r EXCEPT !.lost = TRUE]
  PROVE  /\ s.pc = r.pc /\ s.completed = r.completed
         /\ s.step["user_row"] \in {r.step["user_row"], status}
         /\ loc # "user_row" => s.step["user_row"] = r.step["user_row"]
         /\ loc = "user_row" /\ ~s.lost => s.step["user_row"] = status
<1>1. "user_row" \in Locations
  BY DEF Locations, Tables
<1>2. CASE s = RecordErasureStep(r, loc, status)
  <2>1. s = [r EXCEPT !.step = [r.step EXCEPT ![loc] = status]]
    BY <1>2 DEF RecordErasureStep, Eras
  <2>2. s.step = [r.step EXCEPT ![loc] = status] /\ s.pc = r.pc /\ s.completed = r.completed
    BY <2>1 DEF Eras
  <2>3. r.step \in [Locations -> {"none", "done", "failed"}]
    BY DEF Eras
  <2> QED
    BY <1>1, <2>2, <2>3
<1>3. CASE s = [r EXCEPT !.lost = TRUE]
  BY <1>3 DEF Eras
<1> QED
  BY <1>2, <1>3

(* step, when the record it is given is one.                                *)
LEMMA StepMoves ==
  ASSUME ErasureTypeOK, NEW e \in Erasures, NEW r \in Eras, NEW loc \in Locations,
         NEW status \in {"none", "done", "failed"}, Step(e, r, loc, status)
  PROVE  /\ faults' \in 0..MaxFaults
         /\ \/ Moves(e, RecordErasureStep(r, loc, status))
            \/ Moves(e, [r EXCEPT !.lost = TRUE])
<1>1. faults' \in 0..MaxFaults
  BY MaxFaultsAssumption DEF Step, Fault, ErasureTypeOK
<1> QED
  BY <1>1, RecordType DEF Step, Moves

(* What the steps of an erasure leave in its record.                        *)
LEMMA EraseMoves ==
  ASSUME ErasureTypeInv, NEW e \in Erasures
  PROVE
    /\ CreateErasureRequest(e) => Moves(e, [era[e] EXCEPT !.pc = "list"])
    /\ ListPrefix(e) => Moves(e, [era[e] EXCEPT !.pc = "objects", !.todo = objects])
    /\ \A x \in era[e].todo :
         DeleteObject(e, x) => Moves(e, [era[e] EXCEPT !.todo = era[e].todo \ {x}])
    /\ PrefixDeleted(e) =>
         \/ Moves(e, RecordErasureStep([era[e] EXCEPT !.pc = "rows"], "object_storage", "done"))
         \/ Moves(e, [[era[e] EXCEPT !.pc = "rows"] EXCEPT !.lost = TRUE])
    /\ PrefixFails(e) =>
         \/ Moves(e, RecordErasureStep([era[e] EXCEPT !.pc = "rows", !.todo = {}],
                                       "object_storage", "failed"))
         \/ Moves(e, [era[e] EXCEPT !.pc = "rows", !.todo = {}, !.lost = TRUE])
    /\ \A loc \in Locations : DeleteRows(e, loc) =>
         \/ Moves(e, RecordErasureStep(Advanced(era[e]), loc, "done"))
         \/ Moves(e, [Advanced(era[e]) EXCEPT !.lost = TRUE])
    /\ \A loc \in Locations : DeleteRowsFails(e, loc) =>
         \/ Moves(e, RecordErasureStep(Advanced(era[e]), loc, "failed"))
         \/ Moves(e, [Advanced(era[e]) EXCEPT !.lost = TRUE])
    /\ CountTraces(e) =>
         \/ Moves(e, [era[e] EXCEPT !.pc = "count", !.traces = CountUserTraces])
         \/ Moves(e, [era[e] EXCEPT !.pc = "count", !.counted = FALSE])
    /\ CountPrefix(e) =>
         \/ Moves(e, [era[e] EXCEPT !.pc = "complete", !.left = Cardinality(objects),
                                    !.after = Running])
         \/ Moves(e, [era[e] EXCEPT !.pc = "complete", !.counted = FALSE])
    /\ Complete(e) =>
         Moves(e, [era[e] EXCEPT !.pc = "ended",
                                 !.completed = CompleteErasureRequest(era[e].step)])
    /\ Crash(e) => Moves(e, [era[e] EXCEPT !.pc = "ended", !.todo = {}])
<1>0. ErasureTypeOK /\ era[e] \in Eras /\ era \in [Erasures -> Eras] /\ objects \subseteq Objects
  BY DEF ErasureTypeInv, ErasureTypeOK
<1>1. CreateErasureRequest(e) => Moves(e, [era[e] EXCEPT !.pc = "list"])
  BY <1>0 DEF CreateErasureRequest, Moves, Eras
<1>2. ListPrefix(e) => Moves(e, [era[e] EXCEPT !.pc = "objects", !.todo = objects])
  <2>1. [era[e] EXCEPT !.pc = "objects", !.todo = objects] \in Eras
    BY <1>0 DEF Eras
  <2> QED
    BY <2>1, <1>0 DEF ListPrefix, Moves
<1>3. \A x \in era[e].todo :
         DeleteObject(e, x) => Moves(e, [era[e] EXCEPT !.todo = era[e].todo \ {x}])
  <2>1. \A x : [era[e] EXCEPT !.todo = era[e].todo \ {x}] \in Eras
    BY <1>0 DEF Eras
  <2> QED
    BY <2>1, <1>0 DEF DeleteObject, Moves
<1>4. ASSUME PrefixDeleted(e)
      PROVE
         \/ Moves(e, RecordErasureStep([era[e] EXCEPT !.pc = "rows"], "object_storage", "done"))
         \/ Moves(e, [[era[e] EXCEPT !.pc = "rows"] EXCEPT !.lost = TRUE])
  <2>1. [era[e] EXCEPT !.pc = "rows"] \in Eras /\ "object_storage" \in Locations
    BY <1>0 DEF Eras, Locations
  <2> QED
    BY <2>1, <1>0, <1>4, StepMoves DEF PrefixDeleted
<1>5. ASSUME PrefixFails(e)
      PROVE
         \/ Moves(e, RecordErasureStep([era[e] EXCEPT !.pc = "rows", !.todo = {}],
                                       "object_storage", "failed"))
         \/ Moves(e, [era[e] EXCEPT !.pc = "rows", !.todo = {}, !.lost = TRUE])
  <2>1. /\ [era[e] EXCEPT !.pc = "rows", !.todo = {}] \in Eras
        /\ [era[e] EXCEPT !.pc = "rows", !.todo = {}, !.lost = TRUE] \in Eras
        /\ "object_storage" \in Locations
    BY <1>0 DEF Eras, Locations
  <2>2. RecordErasureStep([era[e] EXCEPT !.pc = "rows", !.todo = {}],
                          "object_storage", "failed") \in Eras
    BY <2>1, RecordType
  <2>3. \/ era' = [era EXCEPT ![e] = RecordErasureStep([era[e] EXCEPT !.pc = "rows", !.todo = {}],
                                                       "object_storage", "failed")]
        \/ era' = [era EXCEPT ![e] = [era[e] EXCEPT !.pc = "rows", !.todo = {}, !.lost = TRUE]]
    BY <1>5, <1>0 DEF PrefixFails
  <2> QED
    BY <2>1, <2>2, <2>3 DEF Moves
<1>6. ASSUME NEW loc \in Locations, DeleteRows(e, loc)
      PROVE
         \/ Moves(e, RecordErasureStep(Advanced(era[e]), loc, "done"))
         \/ Moves(e, [Advanced(era[e]) EXCEPT !.lost = TRUE])
  BY <1>0, <1>6, AdvancedType, StepMoves DEF DeleteRows
<1>7. ASSUME NEW loc \in Locations, DeleteRowsFails(e, loc)
      PROVE
         \/ Moves(e, RecordErasureStep(Advanced(era[e]), loc, "failed"))
         \/ Moves(e, [Advanced(era[e]) EXCEPT !.lost = TRUE])
  <2>1. Advanced(era[e]) \in Eras
    BY <1>0, <1>7, AdvancedType DEF DeleteRowsFails
  <2>2. /\ RecordErasureStep(Advanced(era[e]), loc, "failed") \in Eras
        /\ [Advanced(era[e]) EXCEPT !.lost = TRUE] \in Eras
    BY <2>1, RecordType
  <2>3. \/ era' = [era EXCEPT ![e] = RecordErasureStep(Advanced(era[e]), loc, "failed")]
        \/ era' = [era EXCEPT ![e] = [Advanced(era[e]) EXCEPT !.lost = TRUE]]
    BY <1>7, <1>0 DEF DeleteRowsFails
  <2> QED
    BY <2>2, <2>3 DEF Moves
<1>8. CountTraces(e) =>
         \/ Moves(e, [era[e] EXCEPT !.pc = "count", !.traces = CountUserTraces])
         \/ Moves(e, [era[e] EXCEPT !.pc = "count", !.counted = FALSE])
  <2>1. CountUserTraces \in Nat
    BY Counts
  <2>2. /\ [era[e] EXCEPT !.pc = "count", !.traces = CountUserTraces] \in Eras
        /\ [era[e] EXCEPT !.pc = "count", !.counted = FALSE] \in Eras
    BY <2>1, <1>0 DEF Eras
  <2> QED
    BY <2>2, <1>0 DEF CountTraces, Moves
<1>9. CountPrefix(e) =>
         \/ Moves(e, [era[e] EXCEPT !.pc = "complete", !.left = Cardinality(objects),
                                    !.after = Running])
         \/ Moves(e, [era[e] EXCEPT !.pc = "complete", !.counted = FALSE])
  <2>1. Cardinality(objects) \in Nat /\ Running \subseteq Uploads
    BY Counts DEF Running
  <2>2. /\ [era[e] EXCEPT !.pc = "complete", !.left = Cardinality(objects), !.after = Running]
              \in Eras
        /\ [era[e] EXCEPT !.pc = "complete", !.counted = FALSE] \in Eras
    BY <2>1, <1>0 DEF Eras
  <2> QED
    BY <2>2, <1>0 DEF CountPrefix, Moves
<1>10. Complete(e) =>
         Moves(e, [era[e] EXCEPT !.pc = "ended",
                                 !.completed = CompleteErasureRequest(era[e].step)])
  <2>1. CompleteErasureRequest(era[e].step) \in BOOLEAN
    BY DEF CompleteErasureRequest
  <2>2. [era[e] EXCEPT !.pc = "ended", !.completed = CompleteErasureRequest(era[e].step)]
          \in Eras
    BY <2>1, <1>0 DEF Eras
  <2> QED
    BY <2>2, <1>0 DEF Complete, Moves
<1>11. Crash(e) => Moves(e, [era[e] EXCEPT !.pc = "ended", !.todo = {}])
  BY <1>0 DEF Crash, Moves, Eras
<1> QED
  BY <1>1, <1>2, <1>3, <1>4, <1>5, <1>6, <1>7, <1>8, <1>9, <1>10, <1>11

(* What the steps of a request do to the rest.                              *)
LEMMA ErasureTypeStep == ErasureTypeInv /\ [ErasureNext]_erasureVars => ErasureTypeInv'
<1> SUFFICES ASSUME ErasureTypeInv, [ErasureNext]_erasureVars PROVE ErasureTypeInv'
  OBVIOUS
<1>0. /\ ErasureTypeOK /\ MaxFaults \in Nat
      /\ IsFiniteSet(resumes) /\ IsFiniteSet(objects)
  BY MaxFaultsAssumption DEF ErasureTypeInv
<1>1. ASSUME NEW t \in Tables, Write(t) PROVE ErasureTypeInv'
  BY <1>0, <1>1 DEF Write, ErasureTypeInv, ErasureTypeOK
<1>2. ASSUME NEW u \in Uploads, Upload(u) PROVE ErasureTypeInv'
  <2>1. <<u, "file">> \in Objects /\ <<u, "text">> \in Objects
    BY DEF Objects
  <2>2. /\ upload' \in [Uploads -> {"new", "put", "create", "orphan", "extract", "text", "ended"}]
        /\ faults' \in 0..MaxFaults
        /\ UNCHANGED <<tables, era, late>>
    BY <1>0, <1>2 DEF Upload, BeginUpload, PutFile, CreateRow, CreateRowFails, DeleteOrphan,
         NoText, PutText, SetResumeText, UploadFails, Fault, ErasureTypeOK
  <2>3. resumes' = resumes \/ resumes' = resumes \cup {u}
    BY <1>2 DEF Upload, BeginUpload, PutFile, CreateRow, CreateRowFails, DeleteOrphan,
         NoText, PutText, SetResumeText, UploadFails, CreateResume
  <2>4. \/ objects' = objects
        \/ objects' = objects \cup {<<u, "file">>}
        \/ objects' = objects \cup {<<u, "text">>}
        \/ objects' = objects \ {<<u, "file">>}
    BY <1>2 DEF Upload, BeginUpload, PutFile, CreateRow, CreateRowFails, DeleteOrphan,
         NoText, PutText, SetResumeText, UploadFails
  <2>5. resumes' \subseteq Uploads /\ IsFiniteSet(resumes')
    BY <1>0, <2>3, FS_AddElement DEF ErasureTypeOK
  <2>6. objects' \subseteq Objects
    BY <1>0, <2>1, <2>4 DEF ErasureTypeOK
  <2>7. IsFiniteSet(objects')
    <3>1. \A x : IsFiniteSet(objects \cup {x})
      BY <1>0, FS_AddElement
    <3>2. IsFiniteSet(objects \ {<<u, "file">>})
      BY <1>0, FS_Subset
    <3> QED
      BY <1>0, <2>4, <3>1, <3>2
  <2> QED
    BY <1>0, <2>2, <2>5, <2>6, <2>7 DEF ErasureTypeInv, ErasureTypeOK
<1>3. ASSUME NEW e \in Erasures, Erase(e) PROVE ErasureTypeInv'
  <2>1. era' \in [Erasures -> Eras]
    <3>1. \A new : Moves(e, new) => era' \in [Erasures -> Eras]
      BY <1>0, MoveTypes
    <3> QED
      BY <3>1, <1>3, EraseMoves, Zenon DEF Erase
  <2>2. /\ faults' \in 0..MaxFaults
        /\ upload' = upload
        /\ late' \subseteq Uploads
    <3>1. \A x \in objects : x[1] \in Uploads
      BY <1>0 DEF ErasureTypeOK, Objects
    <3>2. late' \subseteq Uploads /\ upload' = upload
      BY <1>0, <1>3, <3>1 DEF Erase, CreateErasureRequest, ListPrefix, PrefixDeleted,
           PrefixFails, DeleteObject, DeleteRows, DeleteRowsFails, CountTraces, CountPrefix,
           Complete, Crash, Running, ErasureTypeOK
    <3>3. faults' = faults \/ (faults' \in {faults + 1, faults + 2} /\ faults' <= MaxFaults)
      BY <1>0, <1>3 DEF Erase, CreateErasureRequest, ListPrefix, PrefixDeleted,
           PrefixFails, DeleteObject, DeleteRows, DeleteRowsFails, CountTraces, CountPrefix,
           Complete, Crash, Step, Fault, ErasureTypeOK
    <3> QED
      BY <1>0, <3>2, <3>3 DEF ErasureTypeOK
  <2>3. tables' \subseteq tables /\ resumes' \subseteq resumes /\ objects' \subseteq objects
    BY <1>3 DEF Erase, CreateErasureRequest, ListPrefix, PrefixDeleted,
         PrefixFails, DeleteObject, DeleteRows, DeleteRowsFails, CountTraces, CountPrefix,
         Complete, Crash, TablesWithout, ResumesWithout
  <2>4. IsFiniteSet(resumes') /\ IsFiniteSet(objects')
    BY <1>0, <2>3, FS_Subset
  <2> QED
    BY <1>0, <2>1, <2>2, <2>3, <2>4 DEF ErasureTypeInv, ErasureTypeOK
<1>4. CASE UNCHANGED erasureVars
  BY <1>0, <1>4 DEF erasureVars, ErasureTypeInv, ErasureTypeOK
<1> QED
  BY <1>1, <1>2, <1>3, <1>4 DEF ErasureNext

LEMMA ErasureTypeInit == ErasureInit => ErasureTypeInv
<1> SUFFICES ASSUME ErasureInit PROVE ErasureTypeInv
  OBVIOUS
<1>1. tables \subseteq Tables
  BY WrittenAssumption DEF ErasureInit, Tables
<1>2. era \in [Erasures -> Eras]
  <2>1. [pc |-> "new", next |-> 1, todo |-> {}, step |-> [loc \in Locations |-> "none"],
         lost |-> FALSE, traces |-> 0, left |-> 0, counted |-> TRUE, after |-> {},
         completed |-> FALSE] \in Eras
    BY DeletesFacts DEF Eras
  <2> QED
    BY <2>1 DEF ErasureInit
<1>3. IsFiniteSet({})
  BY FS_EmptySet
<1>4. /\ upload \in [Uploads -> {"new", "put", "create", "orphan", "extract", "text", "ended"}]
      /\ resumes = {} /\ objects = {} /\ late = {} /\ faults \in 0..MaxFaults
  BY MaxFaultsAssumption DEF ErasureInit
<1> QED
  BY <1>1, <1>2, <1>3, <1>4 DEF ErasureTypeInv, ErasureTypeOK

(* Whatever uploads, erasures and failures come together, the state has     *)
(* its types: a recorded step is one of the locations, and the counts are   *)
(* numbers.                                                                 *)
THEOREM ErasureTyped == ErasureSpec => []ErasureTypeOK
<1>1. ErasureTypeInv => ErasureTypeOK
  BY DEF ErasureTypeInv
<1> QED
  BY <1>1, ErasureTypeInit, ErasureTypeStep, PTL DEF ErasureSpec
-----------------------------------------------------------------------------
(* Every upload outside L is over, and has left no object.                  *)
OnlyOf(L) == /\ \A u \in Uploads \ L : upload[u] = "ended"
             /\ \A x \in objects : x[1] \in L

(* What is known of the objects. While an erasure deletes what it listed,   *)
(* the rest is of uploads that were not over; from then on all that is left *)
(* is.                                                                      *)
ObjectsKnown(r) ==
  /\ r.pc = "objects" =>
       /\ \A u \in Uploads \ late : upload[u] = "ended"
       /\ \A x \in objects : x[1] \in late \/ x \in r.todo
  /\ r.pc \in {"rows", "traces", "count", "complete"} => OnlyOf(late)

(* What the recorded outcomes are worth: unless one was lost, that of the   *)
(* last delete is there before the request can be completed, and if it is   *)
(* "done" the user is gone.                                                 *)
RecordsKnown(r) ==
  /\ r.step["user_row"] = "done" => ~User
  /\ r.pc \in {"traces", "count", "complete"} /\ ~r.lost => r.step["user_row"] # "none"
  /\ r.completed => r.pc = "ended"
  /\ r.completed /\ ~r.lost => ~User

(* What the counts are worth: they were taken after the deletes, and        *)
(* nothing comes back but the objects of uploads that were not over.        *)
CountsKnown(r) ==
  /\ (r.pc \in {"count", "complete"} \/ r.completed) /\ r.counted /\ r.traces = 0 => ~User
  /\ (r.pc = "complete" \/ r.completed) /\ r.counted /\ r.left = 0 => OnlyOf(r.after)

Known(r) == ObjectsKnown(r) /\ RecordsKnown(r) /\ CountsKnown(r)

ErasureInv ==
  /\ ErasureTypeInv
  /\ GoneStaysGone
  /\ ~User => OnlyOf(late)
  /\ \A e \in Erasures : Known(era[e])

(* No step takes up an upload that is over, adds an object but for an       *)
(* upload that is not, or brings the user back.                             *)
LEMMA Grow ==
  ASSUME ErasureTypeInv, [ErasureNext]_erasureVars
  PROVE  /\ \A u \in Uploads : upload[u] = "ended" => upload'[u] = "ended"
         /\ \A x \in objects' \ objects : x[1] \in Uploads /\ upload[x[1]] # "ended"
         /\ late \subseteq late'
         /\ ~User => ~User'
<1>0. ErasureTypeOK
  BY DEF ErasureTypeInv
<1>1. ASSUME NEW t \in Tables, Write(t)
      PROVE upload' = upload /\ objects' = objects /\ late' = late /\ User
  BY <1>1 DEF Write
<1>2. ASSUME NEW u \in Uploads, Upload(u)
      PROVE /\ upload[u] # "ended" /\ \A v \in Uploads \ {u} : upload'[v] = upload[v]
            /\ objects' \subseteq objects \cup {<<u, "file">>, <<u, "text">>}
            /\ late' = late /\ tables' = tables
  BY <1>0, <1>2 DEF Upload, BeginUpload, PutFile, CreateRow, CreateRowFails, DeleteOrphan,
       NoText, PutText, SetResumeText, UploadFails, ErasureTypeOK
<1>3. ASSUME NEW e \in Erasures, Erase(e)
      PROVE /\ upload' = upload /\ objects' \subseteq objects
            /\ late \subseteq late' /\ tables' \subseteq tables
  BY <1>3 DEF Erase, CreateErasureRequest, ListPrefix, PrefixDeleted,
       PrefixFails, DeleteObject, DeleteRows, DeleteRowsFails, CountTraces, CountPrefix,
       Complete, Crash, TablesWithout
<1>4. CASE \E t \in Tables : Write(t)
  BY <1>1, <1>4
<1>5. CASE \E u \in Uploads : Upload(u)
  <2>1. PICK u \in Uploads : Upload(u)
    BY <1>5
  <2>2. \A x \in objects' \ objects : x[1] = u
    BY <1>2, <2>1
  <2> QED
    BY <1>2, <2>1, <2>2 DEF User
<1>6. CASE \E e \in Erasures : Erase(e)
  BY <1>3, <1>6 DEF User
<1>7. CASE UNCHANGED erasureVars
  BY <1>7 DEF erasureVars, User
<1> QED
  BY <1>4, <1>5, <1>6, <1>7 DEF ErasureNext

(* Hence what is known of a record stays true while the record stays.       *)
LEMMA OnlyOfKept ==
  ASSUME ErasureTypeInv, [ErasureNext]_erasureVars, NEW L, NEW M, L \subseteq M, OnlyOf(L)
  PROVE  /\ \A u \in Uploads \ M : upload'[u] = "ended"
         /\ \A x \in objects' : x[1] \in M
  BY Grow DEF OnlyOf

LEMMA KnownKept ==
  ASSUME ErasureTypeInv, [ErasureNext]_erasureVars, NEW d \in Erasures, Known(era[d]),
         era'[d] = era[d]
  PROVE  Known(era[d])'
<1>1. ObjectsKnown(era[d])'
  <2>1. OnlyOf(late) => OnlyOf(late)'
    BY Grow, OnlyOfKept DEF OnlyOf
  <2>2. ASSUME era[d].pc = "objects"
        PROVE  /\ \A u \in Uploads \ late' : upload'[u] = "ended"
               /\ \A x \in objects' : x[1] \in late' \/ x \in era[d].todo
    BY <2>2, Grow DEF Known, ObjectsKnown
  <2> QED
    BY <2>1, <2>2 DEF Known, ObjectsKnown
<1>2. RecordsKnown(era[d])'
  BY Grow DEF Known, RecordsKnown
<1>3. CountsKnown(era[d])'
  <2>1. OnlyOf(era[d].after) => OnlyOf(era[d].after)'
    BY OnlyOfKept DEF OnlyOf
  <2> QED
    BY <2>1, Grow DEF Known, CountsKnown
<1> QED
  BY <1>1, <1>2, <1>3 DEF Known

(* The user goes with everything else, and only by the last delete.         *)
LEMMA GoneStep ==
  ASSUME ErasureInv, [ErasureNext]_erasureVars
  PROVE  /\ GoneStaysGone'
         /\ User /\ ~User' => \E e \in Erasures : era[e].pc = "rows"
<1>1. ASSUME NEW t \in Tables, Write(t) PROVE GoneStaysGone' /\ User'
  BY <1>1 DEF Write, GoneStaysGone, User
<1>2. ASSUME NEW u \in Uploads, Upload(u) PROVE GoneStaysGone' /\ (User' <=> User)
  BY <1>2 DEF Upload, BeginUpload, PutFile, CreateRow, CreateRowFails, DeleteOrphan,
       NoText, PutText, SetResumeText, UploadFails, CreateResume, ErasureInv, GoneStaysGone, User
<1>3. ASSUME NEW e \in Erasures, NEW loc \in Locations, DeleteRows(e, loc)
      PROVE  GoneStaysGone' /\ era[e].pc = "rows"
  BY <1>3 DEF DeleteRows, TablesWithout, ResumesWithout, ErasureInv, GoneStaysGone, User
<1>4. ASSUME NEW e \in Erasures, Erase(e), ~\E loc \in Locations : DeleteRows(e, loc)
      PROVE  UNCHANGED <<tables, resumes>>
  BY <1>4 DEF Erase, CreateErasureRequest, ListPrefix, PrefixDeleted, PrefixFails,
       DeleteObject, DeleteRowsFails, CountTraces, CountPrefix, Complete, Crash
<1>5. CASE UNCHANGED <<tables, resumes>>
  BY <1>5 DEF ErasureInv, GoneStaysGone, User
<1>6. CASE UNCHANGED erasureVars
  BY <1>5, <1>6 DEF erasureVars
<1> QED
  BY <1>1, <1>2, <1>3, <1>4, <1>5, <1>6 DEF ErasureNext

LEMMA GoneIsClear ==
  ASSUME ErasureInv, [ErasureNext]_erasureVars, ~User'
  PROVE  OnlyOf(late)'
<1>1. OnlyOf(late)
  BY GoneStep DEF ErasureInv, Known, ObjectsKnown
<1> QED
  BY <1>1, Grow, OnlyOfKept DEF ErasureInv, OnlyOf

(* What is known of the record that a step of its erasure leaves: first     *)
(* the steps before the deletes.                                            *)
LEMMA BeforeDeletes ==
  ASSUME ErasureInv, [ErasureNext]_erasureVars, NEW e \in Erasures,
         \/ CreateErasureRequest(e) \/ ListPrefix(e) \/ PrefixDeleted(e) \/ PrefixFails(e)
         \/ \E x \in era[e].todo : DeleteObject(e, x)
  PROVE  Known(era[e])'
<1>0. ErasureTypeInv /\ ErasureTypeOK /\ era[e] \in Eras /\ Known(era[e])
  BY DEF ErasureInv, ErasureTypeInv, ErasureTypeOK
<1>1. \A new : Moves(e, new) => era'[e] = new
  BY <1>0, MoveTypes
<1>2. "object_storage" \in Locations /\ "user_row" \in Locations
  BY DEF Locations, Tables
<1>3. OnlyOf(late) => OnlyOf(late)'
  BY <1>0, Grow, OnlyOfKept DEF OnlyOf
<1>4. ASSUME CreateErasureRequest(e)
      PROVE  /\ era[e].pc = "new" /\ era'[e].pc = "list" /\ era'[e].lost = era[e].lost
             /\ era'[e].step["user_row"] = era[e].step["user_row"]
             /\ era'[e].completed = era[e].completed
  <2>1. era'[e] = [era[e] EXCEPT !.pc = "list"]
    BY <1>0, <1>1, <1>4, EraseMoves
  <2> QED
    BY <1>0, <1>4, <2>1 DEF Eras, CreateErasureRequest
<1>5. ASSUME ListPrefix(e)
      PROVE  /\ era[e].pc = "list" /\ era'[e].pc = "objects" /\ era'[e].lost = era[e].lost
             /\ era'[e].step["user_row"] = era[e].step["user_row"]
             /\ era'[e].completed = era[e].completed /\ era'[e].todo = objects
  <2>0. era[e].pc = "list"
    BY <1>5 DEF ListPrefix
  <2>1. era'[e] = [era[e] EXCEPT !.pc = "objects", !.todo = objects]
    BY <1>0, <1>1, <1>5, EraseMoves
  <2> QED
    BY <1>0, <2>0, <2>1 DEF Eras
<1>6. ASSUME NEW x \in era[e].todo, DeleteObject(e, x)
      PROVE  /\ era[e].pc = "objects" /\ era'[e].pc = "objects" /\ era'[e].lost = era[e].lost
             /\ era'[e].step["user_row"] = era[e].step["user_row"]
             /\ era'[e].completed = era[e].completed /\ era'[e].todo = era[e].todo \ {x}
  <2>1. era'[e] = [era[e] EXCEPT !.todo = era[e].todo \ {x}]
    BY <1>0, <1>1, <1>6, EraseMoves
  <2> QED
    BY <1>0, <1>6, <2>1 DEF Eras, DeleteObject
<1>7. ASSUME PrefixDeleted(e)
      PROVE  /\ era[e].pc = "objects" /\ era'[e].pc = "rows"
             /\ era'[e].step["user_row"] = era[e].step["user_row"]
             /\ era'[e].completed = era[e].completed /\ era[e].todo = {}
  <2>0. era[e].pc = "objects" /\ era[e].todo = {}
    BY <1>7 DEF PrefixDeleted
  <2>1. PICK r \in Eras : r = [era[e] EXCEPT !.pc = "rows"]
    BY <1>0 DEF Eras
  <2>2. \/ era'[e] = RecordErasureStep(r, "object_storage", "done")
        \/ era'[e] = [r EXCEPT !.lost = TRUE]
    BY <1>0, <1>1, <1>7, <2>1, EraseMoves
  <2>3. /\ era'[e].pc = r.pc /\ era'[e].completed = r.completed
        /\ era'[e].step["user_row"] = r.step["user_row"]
    BY <1>2, <2>2, RecordFields
  <2> QED
    BY <1>0, <2>0, <2>1, <2>3 DEF Eras
<1>8. ASSUME PrefixFails(e)
      PROVE  /\ era[e].pc \in {"list", "objects"} /\ era'[e].pc = "rows"
             /\ era'[e].step["user_row"] = era[e].step["user_row"]
             /\ era'[e].completed = era[e].completed
  <2>0. era[e].pc \in {"list", "objects"}
    BY <1>8 DEF PrefixFails
  <2>1. PICK r \in Eras : r = [era[e] EXCEPT !.pc = "rows", !.todo = {}]
    BY <1>0 DEF Eras
  <2>2. \/ era'[e] = RecordErasureStep(r, "object_storage", "failed")
        \/ era'[e] = [era[e] EXCEPT !.pc = "rows", !.todo = {}, !.lost = TRUE]
    BY <1>0, <1>1, <1>8, <2>1, EraseMoves
  <2>3. [era[e] EXCEPT !.pc = "rows", !.todo = {}, !.lost = TRUE] = [r EXCEPT !.lost = TRUE]
    BY <1>0, <2>1 DEF Eras
  <2>4. /\ era'[e].pc = r.pc /\ era'[e].completed = r.completed
        /\ era'[e].step["user_row"] = r.step["user_row"]
    BY <1>2, <2>2, <2>3, RecordFields
  <2> QED
    BY <1>0, <2>0, <2>1, <2>4 DEF Eras
<1>9. /\ era[e].pc \in {"new", "list", "objects"} /\ era'[e].pc \in {"list", "objects", "rows"}
      /\ era'[e].step["user_row"] = era[e].step["user_row"]
      /\ era'[e].completed = era[e].completed
  BY <1>4, <1>5, <1>6, <1>7, <1>8
<1>10. RecordsKnown(era[e])' /\ CountsKnown(era[e])'
  BY <1>0, <1>9, Grow DEF Known, RecordsKnown, CountsKnown
<1>11. ObjectsKnown(era[e])'
  <2>1. CASE CreateErasureRequest(e)
    BY <1>4, <2>1 DEF ObjectsKnown
  <2>2. CASE ListPrefix(e)
    BY <1>5, <2>2 DEF ObjectsKnown, ListPrefix, Running
  <2>3. ASSUME NEW x \in era[e].todo, DeleteObject(e, x) PROVE ObjectsKnown(era[e])'
    BY <1>0, <1>6, <2>3 DEF ObjectsKnown, Known, DeleteObject
  <2>4. CASE PrefixDeleted(e)
    <3>1. OnlyOf(late)
      BY <1>0, <1>7, <2>4 DEF ObjectsKnown, Known, OnlyOf
    <3> QED
      BY <1>3, <1>7, <2>4, <3>1 DEF ObjectsKnown
  <2>5. CASE PrefixFails(e)
    <3>1. OnlyOf(late)'
      BY <2>5 DEF PrefixFails, OnlyOf, Running
    <3> QED
      BY <1>8, <2>5, <3>1 DEF ObjectsKnown
  <2> QED
    BY <2>1, <2>2, <2>3, <2>4, <2>5
<1> QED
  BY <1>10, <1>11 DEF Known

(* Then the deletes.                                                        *)
LEMMA Deleting ==
  ASSUME ErasureInv, [ErasureNext]_erasureVars, NEW e \in Erasures, NEW loc \in Locations,
         DeleteRows(e, loc) \/ DeleteRowsFails(e, loc)
  PROVE  Known(era[e])'
<1>0. /\ ErasureTypeInv /\ ErasureTypeOK /\ era[e] \in Eras /\ Known(era[e])
      /\ era[e].pc = "rows" /\ loc = Deletes[era[e].next] /\ era[e].next \in 1..7
      /\ "user_row" \in Locations
  BY DeletesFacts DEF ErasureInv, ErasureTypeInv, ErasureTypeOK, DeleteRows, DeleteRowsFails, Eras,
    Locations,
       Tables
<1>1. \A new : Moves(e, new) => era'[e] = new
  BY <1>0, MoveTypes
<1>2. OnlyOf(late)'
  BY <1>0, Grow, OnlyOfKept DEF OnlyOf, Known, ObjectsKnown
<1>3. /\ Advanced(era[e]) \in Eras
      /\ era[e].next # 7 => Advanced(era[e]).pc = "rows"
      /\ era[e].next = 7 => Advanced(era[e]).pc = "traces"
      /\ Advanced(era[e]).step = era[e].step
      /\ Advanced(era[e]).completed = era[e].completed
  BY <1>0, AdvancedType
<1>4. /\ era[e].next = 7 <=> loc = "user_row"
      /\ ~era[e].completed
  BY <1>0, DeletesFacts DEF Known, RecordsKnown
<1>5. /\ DeleteRows(e, loc) =>
           \/ era'[e] = RecordErasureStep(Advanced(era[e]), loc, "done")
           \/ era'[e] = [Advanced(era[e]) EXCEPT !.lost = TRUE]
      /\ DeleteRowsFails(e, loc) =>
           \/ era'[e] = RecordErasureStep(Advanced(era[e]), loc, "failed")
           \/ era'[e] = [Advanced(era[e]) EXCEPT !.lost = TRUE]
  BY <1>0, <1>1, EraseMoves
<1>6. /\ era'[e].pc = IF loc = "user_row" THEN "traces" ELSE "rows"
      /\ era'[e].completed = FALSE
  <2>1. era'[e].pc = Advanced(era[e]).pc /\ era'[e].completed = Advanced(era[e]).completed
    BY <1>3, <1>5, RecordFields
  <2> QED
    BY <1>0, <1>3, <1>4, <2>1 DEF Eras
<1>7. ASSUME DeleteRows(e, loc)
      PROVE  /\ loc = "user_row" \/ era'[e].step["user_row"] = era[e].step["user_row"]
             /\ loc = "user_row" /\ ~era'[e].lost => era'[e].step["user_row"] # "none"
  BY <1>3, <1>5, <1>7, RecordFields
<1>10. ASSUME DeleteRowsFails(e, loc)
      PROVE  /\ era'[e].step["user_row"] \in {era[e].step["user_row"], "failed"}
             /\ loc = "user_row" /\ ~era'[e].lost => era'[e].step["user_row"] # "none"
  BY <1>3, <1>5, <1>10, RecordFields
<1>8. ObjectsKnown(era[e])' /\ CountsKnown(era[e])'
  BY <1>2, <1>6 DEF ObjectsKnown, CountsKnown
<1>9. RecordsKnown(era[e])'
  <2>1. DeleteRows(e, loc) /\ loc = "user_row" => ~User'
    BY DEF DeleteRows, TablesWithout, User
  <2>2. era[e].step["user_row"] = "done" => ~User'
    BY <1>0, Grow DEF Known, RecordsKnown
  <2>3. era'[e].step["user_row"] = "done" => ~User'
    BY <1>7, <1>10, <2>1, <2>2
  <2> QED
    BY <1>6, <1>7, <1>10, <2>3 DEF RecordsKnown
<1> QED
  BY <1>8, <1>9 DEF Known

(* Then the counts and the end.                                             *)
LEMMA AfterDeletes ==
  ASSUME ErasureInv, [ErasureNext]_erasureVars, NEW e \in Erasures,
         CountTraces(e) \/ CountPrefix(e) \/ Complete(e) \/ Crash(e)
  PROVE  Known(era[e])'
<1>0. ErasureTypeInv /\ ErasureTypeOK /\ era[e] \in Eras /\ Known(era[e])
  BY DEF ErasureInv, ErasureTypeInv, ErasureTypeOK
<1>1. \A new : Moves(e, new) => era'[e] = new
  BY <1>0, MoveTypes
<1>2. (OnlyOf(late) => OnlyOf(late)') /\ (~User => ~User')
  BY <1>0, Grow, OnlyOfKept DEF OnlyOf
<1>3. ASSUME CountTraces(e) PROVE Known(era[e])'
  <2>1. \/ era'[e] = [era[e] EXCEPT !.pc = "count", !.traces = CountUserTraces]
        \/ era'[e] = [era[e] EXCEPT !.pc = "count", !.counted = FALSE]
    BY <1>0, <1>1, <1>3, EraseMoves
  <2>2. era[e].pc = "traces" /\ tables' = tables
    BY <1>3 DEF CountTraces
  <2>3. /\ era'[e].pc = "count" /\ era'[e].step = era[e].step /\ era'[e].lost = era[e].lost
        /\ era'[e].completed = era[e].completed
        /\ era'[e].counted => era'[e].traces = CountUserTraces
    BY <1>0, <2>1 DEF Eras
  <2>4. era'[e].counted /\ era'[e].traces = 0 => ~User'
    BY <1>0, <2>2, <2>3, Counts DEF User
  <2>5. ~era[e].completed
    BY <1>0, <2>2 DEF Known, RecordsKnown
  <2>6. ObjectsKnown(era[e])'
    BY <1>0, <1>2, <2>2, <2>3 DEF Known, ObjectsKnown
  <2>7. RecordsKnown(era[e])'
    BY <1>0, <1>2, <2>2, <2>3, <2>5 DEF Known, RecordsKnown
  <2>8. CountsKnown(era[e])'
    BY <2>3, <2>4, <2>5 DEF CountsKnown
  <2> QED
    BY <2>6, <2>7, <2>8 DEF Known
<1>4. ASSUME CountPrefix(e) PROVE Known(era[e])'
  <2>1. \/ era'[e] = [era[e] EXCEPT !.pc = "complete", !.left = Cardinality(objects),
                                    !.after = Running]
        \/ era'[e] = [era[e] EXCEPT !.pc = "complete", !.counted = FALSE]
    BY <1>0, <1>1, <1>4, EraseMoves
  <2>2. era[e].pc = "count" /\ objects' = objects /\ upload' = upload
    BY <1>4 DEF CountPrefix
  <2>3. /\ era'[e].pc = "complete" /\ era'[e].step = era[e].step /\ era'[e].lost = era[e].lost
        /\ era'[e].completed = era[e].completed /\ era'[e].traces = era[e].traces
        /\ era'[e].counted => /\ era[e].counted
                             /\ era'[e].left = Cardinality(objects)
                             /\ era'[e].after = Running
    BY <1>0, <2>1 DEF Eras
  <2>4. era'[e].counted /\ era'[e].left = 0 => OnlyOf(era[e].after)'
    <3>1. objects = {} => OnlyOf(Running)
      BY DEF OnlyOf, Running
    <3> QED
      BY <1>0, <2>2, <2>3, <3>1, Counts DEF OnlyOf
  <2>5. ~era[e].completed
    BY <1>0, <2>2 DEF Known, RecordsKnown
  <2>6. ObjectsKnown(era[e])'
    BY <1>0, <1>2, <2>2, <2>3 DEF Known, ObjectsKnown
  <2>7. RecordsKnown(era[e])'
    BY <1>0, <1>2, <2>2, <2>3, <2>5 DEF Known, RecordsKnown
  <2>8. CountsKnown(era[e])'
    BY <1>0, <1>2, <2>2, <2>3, <2>4, <2>5 DEF Known, CountsKnown
  <2> QED
    BY <2>6, <2>7, <2>8 DEF Known
<1>5. ASSUME Complete(e) PROVE Known(era[e])'
  <2>1. era'[e] = [era[e] EXCEPT !.pc = "ended",
                                 !.completed = CompleteErasureRequest(era[e].step)]
    BY <1>0, <1>1, <1>5, EraseMoves
  <2>2. era[e].pc = "complete"
    BY <1>5 DEF Complete
  <2>3. /\ era'[e].pc = "ended" /\ era'[e].step = era[e].step /\ era'[e].lost = era[e].lost
        /\ era'[e].completed = CompleteErasureRequest(era[e].step)
        /\ era'[e].traces = era[e].traces /\ era'[e].counted = era[e].counted
        /\ era'[e].left = era[e].left /\ era'[e].after = era[e].after
    BY <1>0, <2>1 DEF Eras
  <2>4. era'[e].completed /\ ~era'[e].lost => era[e].step["user_row"] = "done"
    <3>1. "user_row" \in Locations
      BY DEF Locations, Tables
    <3>2. era[e].step["user_row"] \in {"none", "done", "failed"}
      BY <1>0, <3>1 DEF Eras
    <3> QED
      BY <1>0, <2>2, <2>3, <3>1, <3>2 DEF Known, RecordsKnown, CompleteErasureRequest
  <2>5. OnlyOf(era[e].after) => OnlyOf(era[e].after)'
    BY <1>0, <2>3, OnlyOfKept DEF OnlyOf
  <2>6. ObjectsKnown(era[e])'
    BY <2>3 DEF ObjectsKnown
  <2>7. RecordsKnown(era[e])'
    BY <1>0, <1>2, <2>3, <2>4 DEF Known, RecordsKnown
  <2>8. CountsKnown(era[e])'
    BY <1>0, <1>2, <2>2, <2>3, <2>5 DEF Known, CountsKnown
  <2> QED
    BY <2>6, <2>7, <2>8 DEF Known
<1>6. ASSUME Crash(e) PROVE Known(era[e])'
  <2>1. era'[e] = [era[e] EXCEPT !.pc = "ended", !.todo = {}]
    BY <1>0, <1>1, <1>6, EraseMoves
  <2>2. era[e].pc # "ended"
    BY <1>6 DEF Crash
  <2>3. /\ era'[e].pc = "ended" /\ era'[e].step = era[e].step
        /\ era'[e].completed = era[e].completed
    BY <1>0, <2>1 DEF Eras
  <2>4. ~era[e].completed
    BY <1>0, <2>2 DEF Known, RecordsKnown
  <2> QED
    BY <1>0, <1>2, <2>3, <2>4 DEF Known, ObjectsKnown, RecordsKnown, CountsKnown
<1> QED
  BY <1>3, <1>4, <1>5, <1>6

LEMMA ErasureInvStep == ErasureInv /\ [ErasureNext]_erasureVars => ErasureInv'
<1> SUFFICES ASSUME ErasureInv, [ErasureNext]_erasureVars PROVE ErasureInv'
  OBVIOUS
<1>1. ErasureTypeInv' /\ GoneStaysGone' /\ (~User' => OnlyOf(late)')
  BY ErasureTypeStep, GoneStep, GoneIsClear DEF ErasureInv
<1>2. ASSUME NEW e \in Erasures, Erase(e), NEW d \in Erasures PROVE Known(era[d])'
  <2>1. CASE d = e
    BY <1>2, <2>1, BeforeDeletes, Deleting, AfterDeletes DEF Erase
  <2>2. CASE d # e
    <3>1. \A new : Moves(e, new) => era'[d] = era[d]
      BY <2>2, MoveTypes DEF ErasureInv, ErasureTypeInv
    <3>2. era'[d] = era[d]
      BY <3>1, <1>2, EraseMoves, Zenon DEF Erase, ErasureInv
    <3> QED
      BY <3>2, KnownKept DEF ErasureInv
  <2> QED
    BY <2>1, <2>2
<1>3. ASSUME era' = era, NEW d \in Erasures PROVE Known(era[d])'
  BY <1>3, KnownKept DEF ErasureInv
<1>4. \A t \in Tables : Write(t) => era' = era
  BY DEF Write
<1>5. \A u \in Uploads : Upload(u) => era' = era
  BY DEF Upload, BeginUpload, PutFile, CreateRow, CreateRowFails, DeleteOrphan,
       NoText, PutText, SetResumeText, UploadFails
<1>6. \A d \in Erasures : Known(era[d])'
  BY <1>2, <1>3, <1>4, <1>5 DEF ErasureNext, erasureVars
<1> QED
  BY <1>1, <1>6 DEF ErasureInv

LEMMA ErasureInvInit == ErasureInit => ErasureInv
<1> SUFFICES ASSUME ErasureInit PROVE ErasureInv
  OBVIOUS
<1>1. "user_row" \in Locations /\ User
  BY DEF ErasureInit, Locations, Tables, User
<1>2. ASSUME NEW e \in Erasures
      PROVE  era[e].pc = "new" /\ era[e].step["user_row"] = "none" /\ ~era[e].completed
  BY <1>1 DEF ErasureInit
<1>3. \A e \in Erasures : Known(era[e])
  BY <1>2 DEF Known, ObjectsKnown, RecordsKnown, CountsKnown
<1> QED
  BY <1>1, <1>3, ErasureTypeInit DEF ErasureInv, GoneStaysGone

LEMMA ErasureInvHolds == ErasureSpec => []ErasureInv
  BY ErasureInvInit, ErasureInvStep, PTL DEF ErasureSpec

(* Once the user row is gone no row of the user is left and none comes      *)
(* back: every insert refers to the user row, and its delete cascades.      *)
THEOREM NoRowComesBack == ErasureSpec => []GoneStaysGone
<1>1. ErasureInv => GoneStaysGone
  BY DEF ErasureInv
<1> QED
  BY <1>1, ErasureInvHolds, PTL

(* When the user is gone, the objects left are of uploads that were not     *)
(* over when a prefix was listed, or whose deletion failed: an erasure gets *)
(* to the user row only after it has dealt with the objects, crashes or no. *)
THEOREM NoObjectStranded == ErasureSpec => []NothingStranded
<1>1. ErasureInv => NothingStranded
  BY DEF ErasureInv, NothingStranded, OnlyOf
<1> QED
  BY <1>1, ErasureInvHolds, PTL

(* A request that is completed, with no outcome lost, has erased: the       *)
(* delete of the user row was recorded, and not as failed.                  *)
THEOREM CompletionIsEarned == ErasureSpec => []CompleteMeansErased
<1>1. ErasureInv => CompleteMeansErased
  BY DEF ErasureInv, CompleteMeansErased, GoneStaysGone, OnlyOf, Known, RecordsKnown
<1> QED
  BY <1>1, ErasureInvHolds, PTL

(* Counts of zero are right even if outcomes were lost, and stay right.     *)
THEOREM CountsAreRight == ErasureSpec => []VerifiedMeansErased
<1>1. ErasureInv => VerifiedMeansErased
  BY DEF ErasureInv, VerifiedMeansErased, GoneStaysGone, OnlyOf, Known, CountsKnown
<1> QED
  BY <1>1, ErasureInvHolds, PTL
=============================================================================
