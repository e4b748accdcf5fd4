---------------------------- MODULE SessionsProofs ----------------------------
(***************************************************************************)
(* Proofs of the safety properties of Sessions, for any clients and workers*)
(* and any number of tokens, failures and revocations, and that Sessions   *)
(* implements Families.                                                    *)
(***************************************************************************)
EXTENDS Sessions, TLAPS, WellFoundedInduction

\* A refresh token is issued only while one is free, and is one of those.
LEMMA LowestFree ==
  ASSUME Free # {} PROVE Lowest(Free) \in SessionId /\ sessions[Lowest(Free)].state = "none"
<1>1. Free \subseteq Nat
  BY SessionsAssumption DEF Free, SessionId
<1>2. PICK i \in Free : \A j \in Free : <<j, i>> \notin OpToRel(<, Nat)
  BY <1>1, NatLessThanWellFounded, WFMin
<1>3. ASSUME NEW j \in Free PROVE i <= j
  <2>1. <<j, i>> \notin OpToRel(<, Nat)
    BY <1>2
  <2>2. i \in Nat /\ j \in Nat
    BY <1>1
  <2>3. ~(j < i)
    BY <2>1, <2>2 DEF OpToRel
  <2> QED
    BY <2>2, <2>3
<1>4. Lowest(Free) \in Free
  BY <1>3 DEF Lowest
<1> QED
  BY <1>4 DEF Free

(***************************************************************************)
(* Types                                                                   *)
(***************************************************************************)
\* Tokens refer to sessions that were issued: the ones that clients hold, that
\* requests loaded, and the first of each family.  A session that a request
\* found revoked stays revoked.
FamilyInv ==
  /\ \A s \in SessionId : sessions[s].state = "none" => sessions[s].family = 0
  /\ \A s \in SessionId : sessions[s].state # "none" =>
       sessions[s].family \in SessionId /\ sessions[sessions[s].family].state # "none"
  /\ \A f \in replayed : sessions[f].state # "none"
  /\ \A c \in Clients : cookie[c] # 0 => sessions[cookie[c]].state # "none"
  /\ \A w \in Workers : Serving(w, "refresh") =>
       /\ req[w].client \in Clients
       /\ req[w].id \in SessionId /\ sessions[req[w].id].state # "none"
       /\ req[w].live \/ req[w].id \notin Live
  /\ \A w \in Workers : Serving(w, "login") => req[w].client \in Clients

\* A transaction that starts or ends keeps the types of the others.
LEMMA RequestType ==
  ASSUME TypeOK, NEW w \in Workers, NEW loaded \in Transaction,
         req' = [req EXCEPT ![w] = loaded]
  PROVE  req' \in [Workers -> Transaction]
BY DEF TypeOK

LEMMA IdleType == Idle \in Transaction
BY SessionsAssumption DEF Idle, Transaction, Kinds, Locks

\* The revocation of any set of sessions.
LEMMA RevokeType ==
  ASSUME TypeOK, NEW S,
         sessions' = [s \in SessionId |->
           IF s \in S THEN [sessions[s] EXCEPT !.state = "revoked"] ELSE sessions[s]]
  PROVE  sessions' \in [SessionId -> Session]
BY DEF TypeOK, Session

LEMMA RevokeOneType ==
  ASSUME TypeOK, NEW t \in SessionId, sessions' = [sessions EXCEPT ![t].state = "revoked"]
  PROVE  sessions' \in [SessionId -> Session]
BY DEF TypeOK, Session

LEMMA IssuedType ==
  ASSUME TypeOK, NEW f \in SessionId, NEW late \in BOOLEAN
  PROVE  Issued(f, late) \in Session
BY SessionsAssumption DEF TypeOK, Issued, Session, SessionId

LEMMA AnswerType ==
  ASSUME TypeOK, NEW c \in Clients, NEW s \in SessionId, NEW arrives \in BOOLEAN,
         Answer(c, s, arrives)
  PROVE  cookie' \in [Clients -> 0..MaxSessions] /\ access' \subseteq Clients
BY SessionsAssumption DEF TypeOK, Answer, SessionId

LEMMA AccountType ==
  ASSUME TypeOK, NEW f \in 0..MaxFailed, NEW l \in Locks
  PROVE  [account EXCEPT !.failed = f, !.lock = l] \in Account
BY DEF TypeOK, Account

LEMMA FieldType == TypeOK => account.failed \in 0..MaxFailed /\ account.lock \in Locks
BY DEF TypeOK, Account

LEMMA ForgetType ==
  ASSUME TypeOK, NEW w \in Workers PROVE Forget(w) \in Account
<1>1. 0 \in 0..MaxFailed /\ "none" \in Locks
  BY SessionsAssumption DEF Locks
<1> QED
  BY <1>1, AccountType, FieldType DEF Forget, Written

LEMMA TypeInductive == TypeOK /\ FamilyInv /\ [Next]_vars => TypeOK'
<1> SUFFICES ASSUME TypeOK, FamilyInv, [Next]_vars PROVE TypeOK'
  OBVIOUS
<1> USE SessionsAssumption
<1>1. ASSUME Register PROVE TypeOK'
  <2>1. account' = [status |-> "active", verified |-> FALSE, failed |-> 0, lock |-> "none"]
    BY <1>1 DEF Register, NoAccount
  <2>2. account' \in Account
    BY <2>1 DEF Account, Locks
  <2> QED
    BY <1>1, <2>2 DEF Register, TypeOK, clients, history, Purposes
<1>2. ASSUME VerifyEmail PROVE TypeOK'
  <2>1. account' \in Account
    BY <1>2 DEF VerifyEmail, TypeOK, Account
  <2> QED
    BY <1>2, <2>1 DEF VerifyEmail, TypeOK, clients, history, Purposes
<1>3. ASSUME NEW purpose \in Purposes, SendMail(purpose) PROVE TypeOK'
  BY <1>3 DEF SendMail, TypeOK, clients, history
<1>4. ASSUME NEW w \in Workers, NEW c \in Clients, LoginLoad(w, c) PROVE TypeOK'
  <2>1. PICK kind \in {"wrong", "login"} :
          Begin(w, [Idle EXCEPT !.kind = kind, !.client = c, !.failed = account.failed,
                                !.lock = account.lock])
    BY <1>4 DEF LoginLoad
  <2>2. [Idle EXCEPT !.kind = kind, !.client = c, !.failed = account.failed,
                     !.lock = account.lock] \in Transaction
    BY IdleType, FieldType DEF Transaction, Kinds
  <2>3. req' \in [Workers -> Transaction]
    BY <2>1, <2>2, RequestType DEF Begin
  <2> QED
    BY <2>1, <2>3 DEF Begin, TypeOK, rows, clients, history
<1>5. ASSUME NEW w \in Workers, NEW c \in Clients, NEW expired \in BOOLEAN,
             RefreshLoad(w, c, expired)
      PROVE  TypeOK'
  <2> DEFINE loaded ==
        [Idle EXCEPT !.kind = "refresh", !.client = c, !.id = cookie[c],
                     !.live = cookie[c] \in Live,
                     !.valid = cookie[c] \in Live /\ Active(account) /\ ~expired]
  <2>1. loaded \in Transaction
    <3>1. \A id \in 0..MaxSessions, live \in BOOLEAN, valid \in BOOLEAN :
            [Idle EXCEPT !.kind = "refresh", !.client = c, !.id = id,
                         !.live = live, !.valid = valid] \in Transaction
      BY IdleType DEF Transaction, Kinds
    <3>2. cookie[c] \in 0..MaxSessions
      BY DEF TypeOK
    <3>3. (cookie[c] \in Live) \in BOOLEAN
      OBVIOUS
    <3>4. (cookie[c] \in Live /\ Active(account) /\ ~expired) \in BOOLEAN
      OBVIOUS
    <3> QED
      BY <3>1, <3>2, <3>3, <3>4
  <2>2. req' \in [Workers -> Transaction]
    BY <1>5, <2>1, RequestType DEF RefreshLoad, Begin
  <2> QED
    BY <1>5, <2>2 DEF RefreshLoad, Begin, TypeOK, rows, clients, history
<1>6. ASSUME NEW w \in Workers, ConfirmLoad(w) PROVE TypeOK'
  <2>1. [Idle EXCEPT !.kind = "confirm", !.failed = account.failed, !.lock = account.lock]
          \in Transaction
    BY IdleType, FieldType DEF Transaction, Kinds
  <2>2. req' \in [Workers -> Transaction]
    BY <1>6, <2>1, RequestType DEF ConfirmLoad, Begin
  <2> QED
    BY <1>6, <2>2 DEF ConfirmLoad, Begin, TypeOK, rows, clients, history
<1>7. ASSUME NEW w \in Workers, End(w) PROVE req' \in [Workers -> Transaction]
  BY <1>7, IdleType, RequestType DEF End
<1>8. ASSUME NEW w \in Workers, LoginWrong(w) PROVE TypeOK'
  <2>1. account' \in Account
    <3> DEFINE failed == IF req[w].failed + 1 >= MaxFailed THEN 0 ELSE req[w].failed + 1
    <3> DEFINE lock == IF req[w].failed + 1 >= MaxFailed THEN "until" ELSE account.lock
    <3>1. failed \in 0..MaxFailed
      BY DEF TypeOK, Transaction
    <3>2. lock \in Locks
      BY FieldType DEF Locks
    <3>3. account' = [account EXCEPT !.failed = failed, !.lock = lock]
      BY <1>8 DEF LoginWrong
    <3> QED
      BY <3>1, <3>2, <3>3, AccountType
  <2>2. wrong' \in Nat
    BY <1>8 DEF LoginWrong, TypeOK
  <2>3. overlap' \in BOOLEAN
    BY <1>8 DEF LoginWrong
  <2> QED
    BY <1>7, <1>8, <2>1, <2>2, <2>3 DEF LoginWrong, TypeOK, clients
<1>9. ASSUME NEW w \in Workers, RefreshReplay(w) PROVE TypeOK'
  <2>1. sessions' \in [SessionId -> Session]
    BY <1>9, RevokeType DEF RefreshReplay
  <2>2. replayed' \subseteq SessionId
    BY <1>9 DEF RefreshReplay, TypeOK, FamilyInv
  <2> QED
    BY <1>7, <1>9, <2>1, <2>2 DEF RefreshReplay, Cleared, TypeOK
<1>10. ASSUME NEW w \in Workers, RefreshRefused(w) PROVE TypeOK'
  <2>1. sessions' \in [SessionId -> Session]
    BY <1>10, RevokeOneType DEF RefreshRefused, FamilyInv
  <2> QED
    BY <1>7, <1>10, <2>1 DEF RefreshRefused, Cleared, TypeOK, history
<1>11. ASSUME NEW w \in Workers, ConfirmReset(w) PROVE TypeOK'
  <2>1. sessions' \in [SessionId -> Session]
    BY <1>11, RevokeType DEF ConfirmReset, RevokeAll
  <2>2. account' \in Account
    BY <1>11, ForgetType DEF ConfirmReset
  <2>3. epoch' \in 0..MaxEpoch
    BY <1>11 DEF ConfirmReset, RevokeAll, TypeOK
  <2>4. overlap' \in BOOLEAN
    BY <1>11 DEF ConfirmReset
  <2> QED
    BY <1>7, <1>11, <2>1, <2>2, <2>3, <2>4 DEF ConfirmReset, TypeOK, clients, Purposes
<1>12. ASSUME NEW w \in Workers, NEW arrives \in BOOLEAN, LoginCommit(w, arrives) PROVE TypeOK'
  <2> DEFINE s == Lowest(Free)
  <2>1. s \in SessionId
    BY <1>12, LowestFree DEF LoginCommit
  <2>2. sessions' \in [SessionId -> Session]
    BY <1>12, <2>1, IssuedType DEF LoginCommit, TypeOK
  <2>3. account' \in Account
    BY <1>12, ForgetType DEF LoginCommit
  <2>4. req[w].client \in Clients
    BY <1>12 DEF LoginCommit, FamilyInv
  <2>5. cookie' \in [Clients -> 0..MaxSessions] /\ access' \subseteq Clients
    BY <1>12, <2>1, <2>4, AnswerType DEF LoginCommit
  <2>6. overlap' \in BOOLEAN /\ excused' \in BOOLEAN
    BY <1>12 DEF LoginCommit
  <2> QED
    BY <1>7, <1>12, <2>2, <2>3, <2>5, <2>6 DEF LoginCommit, TypeOK
<1>13. ASSUME NEW w \in Workers, NEW arrives \in BOOLEAN, Rotate(w, arrives) PROVE TypeOK'
  <2> DEFINE s == Lowest(Free)
  <2> DEFINE t == req[w].id
  <2>1. s \in SessionId /\ t \in SessionId /\ sessions[t].family \in SessionId
    BY <1>13, LowestFree DEF Rotate, Rotates, FamilyInv
  <2>2. Issued(sessions[t].family, Late(w)) \in Session
    <3>1. Late(w) \in BOOLEAN
      BY <2>1 DEF Late, TypeOK, Session
    <3> QED
      BY <2>1, <3>1, IssuedType
  <2>3. sessions' \in [SessionId -> Session]
    <3>1. sessions' = [[sessions EXCEPT ![t].state = "revoked"]
                         EXCEPT ![s] = Issued(sessions[t].family, Late(w))]
      BY <1>13 DEF Rotate
    <3>2. [sessions EXCEPT ![t].state = "revoked"] \in [SessionId -> Session]
      BY <2>1 DEF TypeOK, Session
    <3> QED
      BY <2>1, <2>2, <3>1, <3>2
  <2>4. req[w].client \in Clients
    BY <1>13 DEF Rotate, Rotates, FamilyInv
  <2>5. cookie' \in [Clients -> 0..MaxSessions] /\ access' \subseteq Clients
    BY <1>13, <2>1, <2>4, AnswerType DEF Rotate
  <2>6. excused' \in BOOLEAN
    BY <1>13 DEF Rotate
  <2> QED
    BY <1>7, <1>13, <2>3, <2>5, <2>6 DEF Rotate, TypeOK
<1>14. ASSUME NEW w \in Workers, Abort(w) PROVE TypeOK'
  BY <1>7, <1>14 DEF Abort, TypeOK, rows, clients, history
<1>15. ASSUME NEW c \in Clients, Logout(c) PROVE TypeOK'
  <2>1. cookie[c] \in SessionId
    BY <1>15 DEF Logout, TypeOK, SessionId
  <2>2. sessions' \in [SessionId -> Session]
    BY <1>15, <2>1, RevokeOneType DEF Logout
  <2> QED
    BY <1>15, <2>2 DEF Logout, Cleared, TypeOK, history
<1>16. ASSUME NEW c \in Clients, RevokeAll(c)
       PROVE  sessions' \in [SessionId -> Session] /\ epoch' \in 0..MaxEpoch
  <2>1. sessions' \in [SessionId -> Session]
    BY <1>16, RevokeType DEF RevokeAll
  <2>2. epoch' \in 0..MaxEpoch
    BY <1>16 DEF RevokeAll, TypeOK
  <2> QED
    BY <2>1, <2>2
<1>17. ASSUME NEW c \in Clients, LogoutAll(c) PROVE TypeOK'
  BY <1>16, <1>17 DEF LogoutAll, Cleared, TypeOK
<1>18. ASSUME NEW c \in Clients, ChangePassword(c) PROVE TypeOK'
  BY <1>16, <1>18 DEF ChangePassword, TypeOK, clients
<1>19. ASSUME NEW c \in Clients, DeleteAccount(c) PROVE TypeOK'
  <2>1. account' \in Account
    BY <1>19 DEF DeleteAccount, TypeOK, Account
  <2> QED
    BY <1>16, <1>19, <2>1 DEF DeleteAccount, TypeOK, clients
<1>20. ASSUME LockElapses PROVE TypeOK'
  <2>1. account' \in Account
    BY <1>20 DEF LockElapses, TypeOK, Account, Locks
  <2> QED
    BY <1>20, <2>1 DEF LockElapses, TypeOK, clients, history
<1>21. CASE UNCHANGED vars
  BY <1>21 DEF vars, rows, clients, history, TypeOK
<1> QED
  BY <1>1, <1>2, <1>3, <1>4, <1>5, <1>6, <1>8, <1>9, <1>10, <1>11, <1>12, <1>13, <1>14, <1>15,
     <1>17, <1>18, <1>19, <1>20, <1>21 DEF Next, Request, Commit, AtOnce

(***************************************************************************)
(* What the actions do to the sessions                                     *)
(***************************************************************************)
\* s is what it was, but revoked if it is in S.
Kept(s, S) ==
  /\ sessions'[s].family = sessions[s].family
  /\ sessions'[s].epoch = sessions[s].epoch
  /\ sessions'[s].late = sessions[s].late
  /\ sessions'[s].state = IF s \in S THEN "revoked" ELSE sessions[s].state

Revokes(S) == \A s \in SessionId : Kept(s, S)

\* The session n is issued and those of S are revoked.
Adds(n, f, late, S) ==
  /\ n \in SessionId /\ sessions[n].state = "none"
  /\ sessions'[n] = Issued(f, late)
  /\ \A s \in SessionId \ {n} : Kept(s, S)

LEMMA RevokeEffect ==
  ASSUME TypeOK, NEW S,
         sessions' = [s \in SessionId |->
           IF s \in S THEN [sessions[s] EXCEPT !.state = "revoked"] ELSE sessions[s]]
  PROVE  Revokes(S)
BY DEF TypeOK, Session, Revokes, Kept

LEMMA RevokeOneEffect ==
  ASSUME TypeOK, NEW t \in SessionId, sessions' = [sessions EXCEPT ![t].state = "revoked"]
  PROVE  Revokes({t})
BY DEF TypeOK, Session, Revokes, Kept

LEMMA ReplayEffect ==
  ASSUME TypeOK, NEW w \in Workers, RefreshReplay(w)
  PROVE  Revokes(Live \intersect Family(sessions[req[w].id].family))
BY RevokeEffect DEF RefreshReplay

LEMMA RefusedEffect ==
  ASSUME TypeOK, FamilyInv, NEW w \in Workers, RefreshRefused(w)
  PROVE  Revokes({req[w].id})
BY RevokeOneEffect DEF RefreshRefused, FamilyInv

LEMMA LogoutEffect ==
  ASSUME TypeOK, NEW c \in Clients, Logout(c)
  PROVE  cookie[c] \in SessionId /\ Revokes({cookie[c]})
<1>1. cookie[c] \in SessionId
  BY SessionsAssumption DEF Logout, TypeOK, SessionId
<1> QED
  BY <1>1, RevokeOneEffect DEF Logout

LEMMA RevokeAllEffect ==
  ASSUME TypeOK, NEW c, RevokeAll(c) PROVE Revokes(Live)
BY RevokeEffect DEF RevokeAll

LEMMA LoginEffect ==
  ASSUME TypeOK, NEW w \in Workers, NEW arrives \in BOOLEAN, LoginCommit(w, arrives)
  PROVE  Adds(Lowest(Free), Lowest(Free), FALSE, {})
<1>1. Lowest(Free) \in SessionId /\ sessions[Lowest(Free)].state = "none"
  BY LowestFree DEF LoginCommit
<1> QED
  BY <1>1 DEF LoginCommit, TypeOK, Adds, Kept

LEMMA RotateEffect ==
  ASSUME TypeOK, FamilyInv, NEW w \in Workers, NEW arrives \in BOOLEAN, Rotate(w, arrives)
  PROVE  /\ Adds(Lowest(Free), sessions[req[w].id].family, Late(w), {req[w].id})
         /\ req[w].id # Lowest(Free)
<1> DEFINE n == Lowest(Free)
<1> DEFINE t == req[w].id
<1>1. n \in SessionId /\ sessions[n].state = "none"
  BY LowestFree DEF Rotate, Rotates
<1>2. t \in SessionId /\ sessions[t].state # "none"
  BY DEF Rotate, Rotates, FamilyInv
<1>3. sessions' = [[sessions EXCEPT ![t].state = "revoked"]
                     EXCEPT ![n] = Issued(sessions[t].family, Late(w))]
  BY DEF Rotate
<1> HIDE DEF n, t
<1>4. sessions'[n] = Issued(sessions[t].family, Late(w))
  BY <1>1, <1>3 DEF TypeOK
<1>5. ASSUME NEW s \in SessionId \ {n} PROVE Kept(s, {t})
  BY <1>1, <1>2, <1>3 DEF TypeOK, Session, Kept
<1> QED
  BY <1>1, <1>2, <1>4, <1>5 DEF Adds, n, t

\* In each case an issued session stays issued, and keeps its family.
LEMMA FamilyRevokes ==
  ASSUME TypeOK, FamilyInv, NEW S, Revokes(S), S \subseteq SessionId,
         \A s \in S : sessions[s].state # "none"
  PROVE  /\ \A s \in SessionId : sessions'[s].state = "none" => sessions'[s].family = 0
         /\ \A s \in SessionId : sessions'[s].state # "none" =>
              sessions'[s].family \in SessionId /\ sessions'[sessions'[s].family].state # "none"
         /\ \A s \in SessionId : sessions'[s].state = "none" <=> sessions[s].state = "none"
         /\ Live' \subseteq Live
BY DEF FamilyInv, Revokes, Kept, Live

LEMMA FamilyAdds ==
  ASSUME TypeOK, FamilyInv, NEW n, NEW f, NEW late, NEW S, Adds(n, f, late, S),
         S \subseteq SessionId, \A s \in S : sessions[s].state # "none",
         f = n \/ (f \in SessionId /\ sessions[f].state # "none")
  PROVE  /\ \A s \in SessionId : sessions'[s].state = "none" => sessions'[s].family = 0
         /\ \A s \in SessionId : sessions'[s].state # "none" =>
              sessions'[s].family \in SessionId /\ sessions'[sessions'[s].family].state # "none"
         /\ \A s \in SessionId : sessions[s].state # "none" => sessions'[s].state # "none"
         /\ sessions'[n].state # "none"
         /\ Live' \subseteq Live \union {n}
<1>1. sessions'[n].family = f /\ sessions'[n].state = "live"
  BY DEF Adds, Issued
<1> QED
  BY <1>1 DEF FamilyInv, Adds, Kept, Live

LEMMA FamilyInductive == TypeOK /\ FamilyInv /\ [Next]_vars => FamilyInv'
<1> SUFFICES ASSUME TypeOK, FamilyInv, [Next]_vars PROVE FamilyInv'
  OBVIOUS
<1> USE SessionsAssumption
<1>1. ASSUME UNCHANGED <<sessions, cookie, replayed>>,
             \A w \in Workers : req'[w] = req[w] \/ req'[w].kind \notin {"refresh", "login"}
      PROVE  FamilyInv'
  BY <1>1 DEF FamilyInv, Live, Serving
<1>2. ASSUME NEW w \in Workers, End(w), NEW v \in Workers
      PROVE  req'[v] = req[v] \/ req'[v].kind \notin {"refresh", "login"}
  BY <1>2 DEF End, TypeOK, Idle
<1>3. CASE \/ Register \/ VerifyEmail \/ \E purpose \in Purposes : SendMail(purpose)
           \/ LockElapses \/ UNCHANGED vars
  BY <1>1, <1>3 DEF Register, VerifyEmail, SendMail, LockElapses, vars, rows, clients, history
<1>4. ASSUME NEW w \in Workers, NEW c \in Clients, LoginLoad(w, c) PROVE FamilyInv'
  BY <1>4 DEF LoginLoad, Begin, Idle, FamilyInv, Live, Serving, TypeOK, rows, clients, history
<1>5. ASSUME NEW w \in Workers, NEW c \in Clients, NEW expired \in BOOLEAN,
             RefreshLoad(w, c, expired)
      PROVE  FamilyInv'
  <2>1. UNCHANGED <<sessions, cookie, replayed>> /\ cookie[c] \in SessionId
    BY <1>5 DEF RefreshLoad, Begin, TypeOK, SessionId, rows, clients, history
  <2>2. /\ req'[w].kind = "refresh" /\ req'[w].client = c /\ req'[w].id = cookie[c]
        /\ req'[w].live \/ cookie[c] \notin Live
    BY <1>5 DEF RefreshLoad, Begin, Idle, TypeOK
  <2>3. \A v \in Workers \ {w} : req'[v] = req[v]
    BY <1>5 DEF RefreshLoad, Begin, TypeOK
  <2>4. Live' = Live
    BY <2>1 DEF Live
  <2>5. sessions[cookie[c]].state # "none"
    BY <1>5 DEF RefreshLoad, FamilyInv
  <2>6. ASSUME NEW v \in Workers, Serving(v, "refresh")'
        PROVE  /\ req'[v].client \in Clients
               /\ req'[v].id \in SessionId /\ sessions'[req'[v].id].state # "none"
               /\ req'[v].live \/ req'[v].id \notin Live'
    <3>1. CASE v = w
      BY <2>1, <2>2, <2>4, <2>5, <3>1
    <3>2. CASE v # w
      BY <2>1, <2>3, <2>4, <2>6, <3>2 DEF FamilyInv, Serving
    <3> QED
      BY <3>1, <3>2
  <2>7. \A v \in Workers : Serving(v, "login")' => req'[v].client \in Clients
    BY <2>2, <2>3 DEF FamilyInv, Serving
  <2> QED
    BY <2>1, <2>6, <2>7 DEF FamilyInv
<1>6. ASSUME NEW w \in Workers, ConfirmLoad(w) PROVE FamilyInv'
  BY <1>6 DEF ConfirmLoad, Begin, Idle, FamilyInv, Live, Serving, TypeOK, rows, clients, history
<1>7. ASSUME NEW w \in Workers, LoginWrong(w) \/ Abort(w) PROVE FamilyInv'
  BY <1>1, <1>2, <1>7 DEF LoginWrong, Abort, rows, clients, history
<1>8. ASSUME NEW S, Revokes(S), S \subseteq SessionId, \A s \in S : sessions[s].state # "none",
             \A w \in Workers : req'[w] = req[w] \/ req'[w].kind \notin {"refresh", "login"},
             UNCHANGED cookie,
             \A f \in replayed' \ replayed : f \in SessionId /\ sessions[f].state # "none"
      PROVE  FamilyInv'
  <2>1. \A f \in replayed' : f \in SessionId /\ sessions'[f].state # "none"
    BY <1>8, FamilyRevokes DEF FamilyInv, TypeOK
  <2>2. \A c \in Clients : cookie'[c] # 0 => sessions'[cookie'[c]].state # "none"
    <3>1. \A c \in Clients : cookie[c] # 0 => cookie[c] \in SessionId
      BY DEF TypeOK, SessionId
    <3> QED
      BY <1>8, <3>1, FamilyRevokes DEF FamilyInv
  <2>3. ASSUME NEW w \in Workers, Serving(w, "refresh")'
        PROVE  /\ req'[w].client \in Clients
               /\ req'[w].id \in SessionId /\ sessions'[req'[w].id].state # "none"
               /\ req'[w].live \/ req'[w].id \notin Live'
    <3>1. req'[w] = req[w]
      BY <1>8, <2>3 DEF Serving
    <3> QED
      BY <1>8, <2>3, <3>1, FamilyRevokes DEF FamilyInv, Serving
  <2>4. \A w \in Workers : Serving(w, "login")' => req'[w].client \in Clients
    BY <1>8 DEF FamilyInv, Serving
  <2> QED
    BY <1>8, <2>1, <2>2, <2>3, <2>4, FamilyRevokes DEF FamilyInv
<1>9. ASSUME NEW w \in Workers, RefreshReplay(w) PROVE FamilyInv'
  <2>1. \A s \in Live \intersect Family(sessions[req[w].id].family) :
          s \in SessionId /\ sessions[s].state # "none"
    BY DEF Live
  <2>2. sessions[req[w].id].family \in SessionId
          /\ sessions[sessions[req[w].id].family].state # "none"
    BY <1>9 DEF RefreshReplay, FamilyInv
  <2> QED
    BY <1>2, <1>8, <1>9, <2>1, <2>2, ReplayEffect DEF RefreshReplay, Cleared
<1>10. ASSUME NEW w \in Workers, RefreshRefused(w) PROVE FamilyInv'
  <2>1. req[w].id \in SessionId /\ sessions[req[w].id].state # "none"
    BY <1>10 DEF RefreshRefused, FamilyInv
  <2> QED
    BY <1>2, <1>8, <1>10, <2>1, RefusedEffect DEF RefreshRefused, Cleared, history
<1>11. ASSUME NEW c \in Clients, Logout(c) PROVE FamilyInv'
  <2>1. sessions[cookie[c]].state # "none"
    BY <1>11 DEF Logout, FamilyInv
  <2> QED
    BY <1>8, <1>11, <2>1, LogoutEffect DEF Logout, Cleared, history
<1>12. ASSUME NEW c, RevokeAll(c), UNCHANGED <<cookie, replayed>>,
              \A w \in Workers : req'[w] = req[w] \/ req'[w].kind \notin {"refresh", "login"}
       PROVE  FamilyInv'
  <2>1. \A s \in Live : s \in SessionId /\ sessions[s].state # "none"
    BY DEF Live
  <2> QED
    BY <1>8, <1>12, <2>1, RevokeAllEffect
<1>13. ASSUME NEW w \in Workers, ConfirmReset(w) PROVE FamilyInv'
  BY <1>2, <1>12, <1>13 DEF ConfirmReset, clients
<1>14. ASSUME NEW c \in Clients, LogoutAll(c) \/ ChangePassword(c) \/ DeleteAccount(c)
       PROVE  FamilyInv'
  BY <1>12, <1>14 DEF LogoutAll, ChangePassword, DeleteAccount, Cleared, clients
<1>15. ASSUME NEW n, NEW f, NEW late, NEW S, Adds(n, f, late, S), S \subseteq SessionId,
              \A s \in S : sessions[s].state # "none",
              f = n \/ (f \in SessionId /\ sessions[f].state # "none"),
              NEW c \in Clients, NEW arrives \in BOOLEAN, Answer(c, n, arrives),
              \A w \in Workers : req'[w] = req[w] \/ req'[w].kind \notin {"refresh", "login"},
              UNCHANGED replayed
       PROVE  FamilyInv'
  <2>1. \A g \in replayed' : sessions'[g].state # "none"
    BY <1>15, FamilyAdds DEF FamilyInv, TypeOK
  <2>2. \A d \in Clients : cookie'[d] # 0 => sessions'[cookie'[d]].state # "none"
    <3>1. \A d \in Clients : cookie[d] # 0 => cookie[d] \in SessionId
      BY DEF TypeOK, SessionId
    <3>2. \A d \in Clients : cookie'[d] \in {cookie[d], n}
      BY <1>15 DEF Answer, TypeOK
    <3> QED
      BY <1>15, <3>1, <3>2, FamilyAdds DEF FamilyInv
  <2>3. ASSUME NEW w \in Workers, Serving(w, "refresh")'
        PROVE  /\ req'[w].client \in Clients
               /\ req'[w].id \in SessionId /\ sessions'[req'[w].id].state # "none"
               /\ req'[w].live \/ req'[w].id \notin Live'
    <3>1. req'[w] = req[w] /\ Serving(w, "refresh")
      BY <1>15, <2>3 DEF Serving
    <3>2. req[w].id \in SessionId /\ sessions[req[w].id].state # "none" /\ req[w].id # n
      BY <1>15, <3>1 DEF FamilyInv, Adds
    <3> QED
      BY <1>15, <3>1, <3>2, FamilyAdds DEF FamilyInv
  <2>4. \A w \in Workers : Serving(w, "login")' => req'[w].client \in Clients
    BY <1>15 DEF FamilyInv, Serving
  <2> QED
    BY <1>15, <2>1, <2>2, <2>3, <2>4, FamilyAdds DEF FamilyInv
<1>16. ASSUME NEW w \in Workers, NEW arrives \in BOOLEAN, LoginCommit(w, arrives)
       PROVE  FamilyInv'
  <2>1. req[w].client \in Clients /\ UNCHANGED replayed /\ End(w)
          /\ Answer(req[w].client, Lowest(Free), arrives)
    BY <1>16 DEF LoginCommit, FamilyInv
  <2>2. \A v \in Workers : req'[v] = req[v] \/ req'[v].kind \notin {"refresh", "login"}
    BY <1>2, <2>1
  <2>3. \E n, late : n = Lowest(Free) /\ Adds(n, n, late, {})
    BY <1>16, LoginEffect
  <2>4. {} \subseteq SessionId /\ \A s \in {} : sessions[s].state # "none"
    OBVIOUS
  <2> QED
    BY <1>15, <2>1, <2>2, <2>3, <2>4
<1>17. ASSUME NEW w \in Workers, NEW arrives \in BOOLEAN, Rotate(w, arrives) PROVE FamilyInv'
  <2>1. req[w].client \in Clients /\ UNCHANGED replayed /\ End(w)
          /\ Answer(req[w].client, Lowest(Free), arrives)
    BY <1>17 DEF Rotate, Rotates, FamilyInv
  <2>2. req[w].id \in SessionId /\ sessions[req[w].id].state # "none"
    BY <1>17 DEF Rotate, Rotates, FamilyInv
  <2>3. sessions[req[w].id].family \in SessionId
          /\ sessions[sessions[req[w].id].family].state # "none"
    BY <2>2 DEF FamilyInv
  <2>4. \A v \in Workers : req'[v] = req[v] \/ req'[v].kind \notin {"refresh", "login"}
    BY <1>2, <2>1
  <2>5. Adds(Lowest(Free), sessions[req[w].id].family, Late(w), {req[w].id})
    BY <1>17, RotateEffect
  <2> QED
    BY <1>15, <2>1, <2>2, <2>3, <2>4, <2>5
<1> QED
  BY <1>3, <1>4, <1>5, <1>6, <1>7, <1>9, <1>10, <1>11, <1>13, <1>14, <1>16, <1>17
  DEF Next, Request, Commit, AtOnce

LEMMA TypeInit == Init => TypeOK /\ FamilyInv
<1> SUFFICES ASSUME Init PROVE TypeOK /\ FamilyInv
  OBVIOUS
<1> USE SessionsAssumption
<1>1. account \in Account /\ mails \in [Purposes -> {"none", "sent", "spent"}]
  BY DEF Init, NoAccount, Account, Locks
<1>2. sessions \in [SessionId -> Session] /\ req \in [Workers -> Transaction]
  BY IdleType DEF Init, NoSession, Session
<1>3. cookie \in [Clients -> 0..MaxSessions] /\ access \subseteq Clients /\ epoch \in 0..MaxEpoch
  BY DEF Init
<1>4. replayed \subseteq SessionId /\ excused \in BOOLEAN /\ overlap \in BOOLEAN /\ wrong \in Nat
  BY DEF Init
<1>5. FamilyInv
  BY DEF Init, FamilyInv, NoSession, Idle, Serving
<1> QED
  BY <1>1, <1>2, <1>3, <1>4, <1>5 DEF TypeOK

LEMMA TypeInv == Spec => [](TypeOK /\ FamilyInv)
BY TypeInit, TypeInductive, FamilyInductive, PTL DEF Spec

\* Every variable of the model keeps its type.
THEOREM TypeCorrect == Spec => []TypeOK
BY TypeInv, PTL

(***************************************************************************)
(* Revocation                                                              *)
(***************************************************************************)
\* A successor of t joins the family of t, which it replaces.
Replaces(n, t) ==
  /\ t \in SessionId /\ t # n /\ sessions[t].state # "none"
  /\ \E late \in BOOLEAN :
       /\ Adds(n, sessions[t].family, late, {t})
       /\ late <=> ~(t \in Live /\ ~sessions[t].late)

\* A step changes the sessions in one of these ways.
LEMMA Effects ==
  ASSUME TypeOK, FamilyInv, [Next]_vars
  PROVE  \/ UNCHANGED <<sessions, epoch, replayed>>
         \/ UNCHANGED <<epoch, replayed>> /\ \E t \in SessionId : Revokes({t})
         \/ /\ UNCHANGED epoch
            /\ \E f \in SessionId : /\ sessions[f].state # "none"
                                    /\ Revokes(Live \intersect Family(f))
                                    /\ replayed' = replayed \union {f}
         \/ UNCHANGED replayed /\ epoch' = epoch + 1 /\ Revokes(Live)
         \/ UNCHANGED <<epoch, replayed>> /\ \E n : Adds(n, n, FALSE, {})
         \/ UNCHANGED <<epoch, replayed>> /\ \E n, t : Replaces(n, t)
<1>1. CASE \/ Register \/ VerifyEmail \/ \E purpose \in Purposes : SendMail(purpose)
           \/ LockElapses \/ UNCHANGED vars
           \/ \E w \in Workers : Request(w) \/ LoginWrong(w) \/ Abort(w)
  BY <1>1 DEF Register, VerifyEmail, SendMail, LockElapses, Request, LoginLoad, RefreshLoad,
              ConfirmLoad, Begin, LoginWrong, Abort, vars, rows, history
<1>2. CASE \E w \in Workers : RefreshReplay(w)
  BY <1>2, ReplayEffect DEF RefreshReplay, FamilyInv
<1>3. CASE \E w \in Workers : RefreshRefused(w)
  BY <1>3, RefusedEffect DEF RefreshRefused, history, FamilyInv
<1>4. CASE \E c \in Clients : Logout(c)
  BY <1>4, LogoutEffect DEF Logout, history
<1>5. CASE \/ \E w \in Workers : ConfirmReset(w)
           \/ \E c \in Clients : LogoutAll(c) \/ ChangePassword(c) \/ DeleteAccount(c)
  BY <1>5, RevokeAllEffect DEF ConfirmReset, LogoutAll, ChangePassword, DeleteAccount, RevokeAll
<1>6. CASE \E w \in Workers, arrives \in BOOLEAN : LoginCommit(w, arrives)
  <2>1. UNCHANGED <<epoch, replayed>>
    BY <1>6 DEF LoginCommit
  <2>2. \E n : Adds(n, n, FALSE, {})
    BY <1>6, LoginEffect
  <2> QED
    BY <2>1, <2>2
<1>7. CASE \E w \in Workers, arrives \in BOOLEAN : Rotate(w, arrives)
  <2>1. PICK w \in Workers, arrives \in BOOLEAN : Rotate(w, arrives)
    BY <1>7
  <2>2. UNCHANGED <<epoch, replayed>>
    BY <2>1 DEF Rotate
  <2>3. req[w].id \in SessionId /\ sessions[req[w].id].state # "none"
    BY <2>1 DEF Rotate, Rotates, FamilyInv
  <2>4. Late(w) \in BOOLEAN /\ (Late(w) <=> ~(req[w].id \in Live /\ ~sessions[req[w].id].late))
    BY <2>3 DEF Late, TypeOK, Session
  <2>5. /\ Adds(Lowest(Free), sessions[req[w].id].family, Late(w), {req[w].id})
        /\ req[w].id # Lowest(Free)
    BY <2>1, RotateEffect
  <2>6. Replaces(Lowest(Free), req[w].id)
    BY <2>3, <2>4, <2>5 DEF Replaces
  <2> QED
    BY <2>2, <2>6
<1> QED
  BY <1>1, <1>2, <1>3, <1>4, <1>5, <1>6, <1>7 DEF Next, Commit, AtOnce

LEMMA EpochInductive ==
  TypeOK /\ FamilyInv /\ RevokedAtOnce /\ [Next]_vars => RevokedAtOnce'
<1> SUFFICES ASSUME TypeOK, FamilyInv, RevokedAtOnce, [Next]_vars PROVE RevokedAtOnce'
  OBVIOUS
<1>1. CASE UNCHANGED <<sessions, epoch, replayed>>
  BY <1>1 DEF RevokedAtOnce, Live
<1>2. ASSUME NEW S, Revokes(S), UNCHANGED epoch PROVE RevokedAtOnce'
  BY <1>2 DEF RevokedAtOnce, Live, Revokes, Kept
<1>3. CASE Revokes(Live)
  BY <1>3 DEF RevokedAtOnce, Live, Revokes, Kept
<1>4. ASSUME NEW n, NEW f, NEW late, NEW S, Adds(n, f, late, S), UNCHANGED epoch
      PROVE  RevokedAtOnce'
  BY <1>4 DEF RevokedAtOnce, Live, Adds, Kept, Issued
<1> QED
  BY <1>1, <1>2, <1>3, <1>4, Effects DEF Replaces

LEMMA LineInductive ==
  TypeOK /\ FamilyInv /\ OneLivePerFamily /\ [Next]_vars => OneLivePerFamily'
<1> SUFFICES ASSUME TypeOK, FamilyInv, OneLivePerFamily, [Next]_vars PROVE OneLivePerFamily'
  OBVIOUS
<1>1. CASE UNCHANGED <<sessions, epoch, replayed>>
  BY <1>1 DEF OneLivePerFamily, Live
<1>2. ASSUME NEW S, Revokes(S), UNCHANGED replayed PROVE OneLivePerFamily'
  BY <1>2 DEF OneLivePerFamily, Live, Revokes, Kept
<1>3. ASSUME NEW f, Revokes(Live \intersect Family(f)), replayed' = replayed \union {f}
      PROVE  OneLivePerFamily'
  BY <1>3 DEF OneLivePerFamily, Live, Family, Revokes, Kept
<1>4. ASSUME NEW n, Adds(n, n, FALSE, {}), UNCHANGED replayed
      PROVE  OneLivePerFamily'
  <2>1. n \notin replayed /\ \A s \in Live : sessions[s].family # n
    BY <1>4 DEF FamilyInv, Adds, Live
  <2> QED
    BY <1>4, <2>1 DEF OneLivePerFamily, Live, Adds, Kept, Issued
<1>5. ASSUME NEW n, NEW t, Replaces(n, t), UNCHANGED replayed PROVE OneLivePerFamily'
  <2>1. PICK late \in BOOLEAN : /\ Adds(n, sessions[t].family, late, {t})
                                /\ late <=> ~(t \in Live /\ ~sessions[t].late)
    BY <1>5 DEF Replaces
  <2>2. sessions'[n].family = sessions[t].family /\ sessions'[n].late = late
    BY <2>1 DEF Adds, Issued
  <2>3. ASSUME NEW s \in Live', s # n
        PROVE  /\ s \in Live /\ s # t /\ sessions'[s].family = sessions[s].family
               /\ sessions'[s].late = sessions[s].late
    BY <2>1, <2>3, <1>5 DEF Live, Adds, Kept, Replaces
  <2>4. t \in SessionId
    BY <1>5 DEF Replaces
  <2> QED
    BY <1>5, <2>1, <2>2, <2>3, <2>4 DEF OneLivePerFamily
<1>6. CASE UNCHANGED replayed /\ Revokes(Live)
  BY <1>2, <1>6
<1>7. CASE UNCHANGED <<epoch, replayed>> /\ \E S : Revokes(S)
  BY <1>2, <1>7
<1>8. CASE UNCHANGED <<epoch, replayed>> /\ \E n : Adds(n, n, FALSE, {})
  BY <1>4, <1>8
<1>9. CASE UNCHANGED <<epoch, replayed>> /\ \E n, t : Replaces(n, t)
  BY <1>5, <1>9
<1> QED
  BY <1>1, <1>3, <1>6, <1>7, <1>8, <1>9, Effects

\* After a change or a reset of the password, a sign-out everywhere or the
\* deletion of the account, no session issued before is left.
THEOREM Revoked == Spec => []RevokedAtOnce
<1>1. Init => RevokedAtOnce
  BY DEF Init, RevokedAtOnce, Live, NoSession
<1> QED
  BY <1>1, TypeInv, EpochInductive, PTL DEF Spec

\* A family has one live token at most, and none once a revoked token of it was
\* presented again, but for what a refresh that overlapped the end of its own
\* token added.
THEOREM OneLive == Spec => []OneLivePerFamily
<1>1. Init => OneLivePerFamily
  BY DEF Init, OneLivePerFamily, Live, NoSession
<1> QED
  BY <1>1, TypeInv, LineInductive, PTL DEF Spec

(***************************************************************************)
(* The failure counter                                                     *)
(***************************************************************************)
\* The row counts the wrong passwords, until two logins overlap.  An account
\* that does not exist has no request, and no token to reset its password.
CountInv ==
  /\ overlap \/ (wrong = account.failed /\ account.failed < MaxFailed)
  /\ account.status = "none" =>
       /\ account.failed = 0 /\ wrong = 0 /\ mails["reset"] = "none"
       /\ \A w \in Workers : req[w].kind \notin {"login", "wrong", "confirm"}

LEMMA CountInductive == TypeOK /\ CountInv /\ [Next]_vars => CountInv'
<1> SUFFICES ASSUME TypeOK, CountInv, [Next]_vars PROVE CountInv'
  OBVIOUS
<1> USE SessionsAssumption
<1>1. ASSUME UNCHANGED <<account, mails, wrong, overlap>>,
             \A w \in Workers : req'[w] = req[w] \/ req'[w].kind \in {"idle", "refresh"}
      PROVE  CountInv'
  BY <1>1 DEF CountInv
<1>2. ASSUME NEW w \in Workers, End(w), NEW v \in Workers
      PROVE  req'[v] = req[v] \/ req'[v].kind \in {"idle", "refresh"}
  BY <1>2 DEF End, TypeOK, Idle
<1>3. CASE Register
  BY <1>3 DEF Register, NoAccount, CountInv, history
<1>4. CASE VerifyEmail
  <2>1. account'.failed = account.failed /\ account'.status = account.status
    BY <1>4 DEF VerifyEmail, TypeOK, Account
  <2>2. mails'["reset"] = mails["reset"]
    BY <1>4 DEF VerifyEmail, TypeOK, Purposes
  <2> QED
    BY <1>4, <2>1, <2>2 DEF VerifyEmail, CountInv, history
<1>5. ASSUME NEW purpose \in Purposes, SendMail(purpose) PROVE CountInv'
  BY <1>5 DEF SendMail, Active, CountInv, history
<1>6. ASSUME NEW w \in Workers, NEW c \in Clients, LoginLoad(w, c) PROVE CountInv'
  BY <1>6 DEF LoginLoad, Begin, Active, CountInv, rows, history
<1>7. ASSUME NEW w \in Workers, NEW c \in Clients, NEW expired \in BOOLEAN,
             RefreshLoad(w, c, expired)
      PROVE  CountInv'
  <2>1. UNCHANGED <<account, mails, wrong, overlap>>
    BY <1>7 DEF RefreshLoad, Begin, rows, history
  <2>2. \A v \in Workers : req'[v] = req[v] \/ req'[v].kind \in {"idle", "refresh"}
    BY <1>7 DEF RefreshLoad, Begin, TypeOK, Idle
  <2> QED
    BY <1>1, <2>1, <2>2
<1>8. ASSUME NEW w \in Workers, ConfirmLoad(w) PROVE CountInv'
  BY <1>8 DEF ConfirmLoad, Begin, CountInv, rows, history
<1>9. ASSUME NEW w \in Workers, LoginWrong(w) PROVE CountInv'
  <2> DEFINE locks == req[w].failed + 1 >= MaxFailed
  <2>1. account'.failed = (IF locks THEN 0 ELSE req[w].failed + 1)
          /\ account'.status = account.status
    BY <1>9 DEF LoginWrong, TypeOK, Account
  <2>2. account.status # "none"
    BY <1>9 DEF LoginWrong, Serving, CountInv
  <2>3. overlap' = (overlap \/ req[w].failed # account.failed)
          /\ wrong' = (IF locks \/ overlap' THEN 0 ELSE wrong + 1)
    BY <1>9 DEF LoginWrong
  <2>4. account.failed \in Nat /\ req[w].failed \in Nat
    BY DEF TypeOK, Account, Transaction
  <2>5. overlap' \/ (wrong' = account'.failed /\ account'.failed < MaxFailed)
    <3>1. SUFFICES ASSUME ~overlap'
                   PROVE  wrong' = account'.failed /\ account'.failed < MaxFailed
      OBVIOUS
    <3>2. ~overlap /\ req[w].failed = account.failed
      BY <2>3, <3>1
    <3>3. wrong' = (IF locks THEN 0 ELSE wrong + 1)
      BY <2>3, <3>1
    <3> QED
      BY <2>1, <2>4, <3>2, <3>3 DEF CountInv
  <2> QED
    BY <2>1, <2>2, <2>5 DEF CountInv
<1>10. ASSUME NEW w \in Workers, Serving(w, "login") \/ Serving(w, "confirm"),
              account' = Forget(w), wrong' = 0,
              overlap' = (overlap \/ req[w].failed # account.failed)
       PROVE  CountInv'
  <2>1. account'.failed = Written(0, req[w].failed, account.failed)
          /\ account'.status = account.status
    BY <1>10 DEF Forget, TypeOK, Account
  <2>2. account.status # "none"
    BY <1>10 DEF Serving, CountInv
  <2>3. overlap' \/ (wrong' = account'.failed /\ account'.failed < MaxFailed)
    <3>1. SUFFICES ASSUME ~overlap' PROVE account'.failed = 0
      BY <1>10
    <3>2. req[w].failed = account.failed
      BY <1>10, <3>1
    <3> QED
      BY <2>1, <3>2 DEF Written
  <2> QED
    BY <2>1, <2>2, <2>3 DEF CountInv
<1>11. ASSUME NEW w \in Workers, RefreshReplay(w) \/ RefreshRefused(w) \/ Abort(w)
              \/ \E arrives \in BOOLEAN : Rotate(w, arrives)
       PROVE  CountInv'
  <2>1. UNCHANGED <<account, mails, wrong, overlap>> /\ End(w)
    BY <1>11 DEF RefreshReplay, RefreshRefused, Abort, Rotate, rows, history
  <2> QED
    BY <1>1, <1>2, <2>1
<1>12. ASSUME NEW c \in Clients, Logout(c) \/ LogoutAll(c) \/ ChangePassword(c) PROVE CountInv'
  BY <1>1, <1>12 DEF Logout, LogoutAll, ChangePassword, history
<1>13. ASSUME NEW c \in Clients, DeleteAccount(c) PROVE CountInv'
  <2>1. account'.failed = account.failed /\ account'.status = "deleted"
    BY <1>13 DEF DeleteAccount, TypeOK, Account
  <2> QED
    BY <1>13, <2>1 DEF DeleteAccount, CountInv
<1>14. CASE LockElapses
  <2>1. account'.failed = account.failed /\ account'.status = account.status
    BY <1>14 DEF LockElapses, TypeOK, Account
  <2> QED
    BY <1>14, <2>1 DEF LockElapses, CountInv, history
<1>15. CASE UNCHANGED vars
  BY <1>1, <1>15 DEF vars, rows, history
<1>16. ASSUME NEW w \in Workers, ConfirmReset(w) PROVE CountInv'
  BY <1>10, <1>16 DEF ConfirmReset
<1>17. ASSUME NEW w \in Workers, NEW arrives \in BOOLEAN, LoginCommit(w, arrives) PROVE CountInv'
  BY <1>10, <1>17 DEF LoginCommit
<1> QED
  BY <1>3, <1>4, <1>5, <1>6, <1>7, <1>8, <1>9, <1>11, <1>12, <1>13, <1>14, <1>15, <1>16, <1>17
  DEF Next, Request, Commit, AtOnce

\* Unless two logins overlapped, MaxFailed wrong passwords that no success or
\* reset separates lock the account.
THEOREM Failures == Spec => []FailuresLock
<1>1. Init => CountInv
  BY SessionsAssumption DEF Init, NoAccount, Idle, CountInv, Purposes
<1>2. TypeOK /\ CountInv => FailuresLock
  BY DEF CountInv, FailuresLock
<1> QED
  BY <1>1, <1>2, TypeInv, CountInductive, PTL DEF Spec

(***************************************************************************)
(* Replays                                                                 *)
(***************************************************************************)
\* A client holds a token in its cookie, or in a refresh that is under way.
Hold(c, t) ==
  cookie[c] = t \/ \E w \in Workers : Serving(w, "refresh") /\ req[w].client = c /\ req[w].id = t

\* The tokens of a family are in the hands of one client.
HolderInv ==
  \A c, d \in Clients, s, t \in SessionId :
    Hold(c, s) /\ Hold(d, t) /\ sessions[s].family = sessions[t].family => c = d

\* Who holds a token that is dead or comes from a late refresh holds the last
\* of its family, unless an answer was lost or two refreshes overlapped.
Settled(t) ==
  (t \notin Live \/ sessions[t].late) =>
    \A s \in Live : sessions[s].family = sessions[t].family => sessions[s].late

ReplayInv == ~excused => \A c \in Clients, t \in SessionId : Hold(c, t) => Settled(t)

HoldsNoMore == \A c \in Clients, t \in SessionId : Hold(c, t)' => Hold(c, t)

LEMMA HoldIssued ==
  ASSUME FamilyInv, NEW c \in Clients, NEW t \in SessionId, Hold(c, t)
  PROVE  sessions[t].state # "none" /\ sessions[t].family \in SessionId
BY SessionsAssumption DEF FamilyInv, Hold, SessionId

\* Only a login or a refresh that ends puts a token in new hands.
LEMMA HoldEnd ==
  ASSUME TypeOK, NEW w \in Workers, End(w), UNCHANGED cookie PROVE HoldsNoMore
BY DEF TypeOK, End, Idle, HoldsNoMore, Hold, Serving

LEMMA HoldSame == ASSUME UNCHANGED <<cookie, req>> PROVE HoldsNoMore
BY DEF HoldsNoMore, Hold, Serving

LEMMA HoldAnswer ==
  ASSUME TypeOK, NEW w \in Workers, End(w), NEW c \in Clients, NEW n, NEW arrives \in BOOLEAN,
         Answer(c, n, arrives), NEW d \in Clients, NEW t \in SessionId, Hold(d, t)'
  PROVE  Hold(d, t) \/ (d = c /\ t = n)
BY DEF TypeOK, End, Idle, Answer, Hold, Serving

LEMMA HoldSteps ==
  ASSUME TypeOK, FamilyInv, [Next]_vars,
         ~\E w \in Workers, arrives \in BOOLEAN : LoginCommit(w, arrives) \/ Rotate(w, arrives)
  PROVE  HoldsNoMore
<1>1. CASE \/ Register \/ VerifyEmail \/ \E purpose \in Purposes : SendMail(purpose)
           \/ LockElapses \/ UNCHANGED vars \/ \E c \in Clients : AtOnce(c)
  BY <1>1, HoldSame DEF Register, VerifyEmail, SendMail, LockElapses, AtOnce, Logout,
     LogoutAll, ChangePassword, DeleteAccount, Cleared, vars, clients
<1>2. ASSUME NEW w \in Workers, NEW c \in Clients, LoginLoad(w, c) PROVE HoldsNoMore
  BY <1>2 DEF LoginLoad, Begin, TypeOK, Idle, HoldsNoMore, Hold, Serving, clients
<1>3. ASSUME NEW w \in Workers, NEW c \in Clients, NEW expired \in BOOLEAN,
             RefreshLoad(w, c, expired)
      PROVE  HoldsNoMore
  BY <1>3 DEF RefreshLoad, Begin, TypeOK, Idle, HoldsNoMore, Hold, Serving, clients
<1>4. ASSUME NEW w \in Workers, ConfirmLoad(w) PROVE HoldsNoMore
  BY <1>4 DEF ConfirmLoad, Begin, TypeOK, Idle, HoldsNoMore, Hold, Serving, clients
<1>5. CASE \E w \in Workers : LoginWrong(w) \/ RefreshReplay(w) \/ RefreshRefused(w)
                              \/ ConfirmReset(w) \/ Abort(w)
  BY <1>5, HoldEnd DEF LoginWrong, RefreshReplay, RefreshRefused, ConfirmReset, Abort, Cleared,
     clients
<1> QED
  BY <1>1, <1>2, <1>3, <1>4, <1>5 DEF Next, Request, Commit

LEMMA HolderInductive == TypeOK /\ FamilyInv /\ HolderInv /\ [Next]_vars => HolderInv'
<1> SUFFICES ASSUME TypeOK, FamilyInv, HolderInv, [Next]_vars PROVE HolderInv'
  OBVIOUS
<1>1. ASSUME NEW w \in Workers, NEW arrives \in BOOLEAN, LoginCommit(w, arrives) PROVE HolderInv'
  <2> DEFINE n == Lowest(Free)
  <2> DEFINE c == req[w].client
  <2>1. c \in Clients
    BY <1>1 DEF LoginCommit, FamilyInv
  <2>2. n \in SessionId /\ sessions[n].state = "none" /\ sessions'[n].family = n
    BY <1>1, LoginEffect DEF Adds, Issued
  <2>3. \A s \in SessionId \ {n} : sessions'[s].family = sessions[s].family
    BY <1>1, LoginEffect DEF Adds, Kept
  <2>4. \A d \in Clients, t \in SessionId : Hold(d, t)' => Hold(d, t) \/ (d = c /\ t = n)
    BY <1>1, <2>1, HoldAnswer DEF LoginCommit
  <2>5. \A d \in Clients, t \in SessionId : Hold(d, t) => t # n /\ sessions[t].family # n
    BY <2>2, HoldIssued DEF FamilyInv
  <2> HIDE DEF n, c
  <2> QED
    BY <2>1, <2>2, <2>3, <2>4, <2>5 DEF HolderInv
<1>2. ASSUME NEW w \in Workers, NEW arrives \in BOOLEAN, Rotate(w, arrives) PROVE HolderInv'
  <2> DEFINE n == Lowest(Free)
  <2> DEFINE c == req[w].client
  <2> DEFINE u == req[w].id
  <2>1. c \in Clients /\ u \in SessionId /\ Hold(c, u)
    BY <1>2 DEF Rotate, Rotates, FamilyInv, Hold
  <2>2. n \in SessionId /\ sessions[n].state = "none" /\ sessions'[n].family = sessions[u].family
    <3>1. Adds(n, sessions[u].family, Late(w), {u})
      BY <1>2, RotateEffect
    <3> QED
      BY <3>1 DEF Adds, Issued
  <2>3. \A s \in SessionId \ {n} : sessions'[s].family = sessions[s].family
    BY <1>2, RotateEffect DEF Adds, Kept
  <2>4. \A d \in Clients, t \in SessionId : Hold(d, t)' => Hold(d, t) \/ (d = c /\ t = n)
    BY <1>2, <2>1, HoldAnswer DEF Rotate
  <2>5. \A d \in Clients, t \in SessionId : Hold(d, t) => t # n
    BY <2>2, HoldIssued
  <2> HIDE DEF n, c, u
  <2> QED
    BY <2>1, <2>2, <2>3, <2>4, <2>5 DEF HolderInv
<1>3. CASE ~\E w \in Workers, arrives \in BOOLEAN : LoginCommit(w, arrives) \/ Rotate(w, arrives)
  <2>1. HoldsNoMore
    BY <1>3, HoldSteps
  <2>2. \A t \in SessionId : sessions[t].state # "none" => sessions'[t].family = sessions[t].family
    BY Effects DEF Revokes, Adds, Kept, Replaces
  <2> QED
    BY <2>1, <2>2, HoldIssued DEF HolderInv, HoldsNoMore
<1> QED
  BY <1>1, <1>2, <1>3

LEMMA ReplayInductive ==
  TypeOK /\ FamilyInv /\ OneLivePerFamily /\ HolderInv /\ ReplayInv /\ [Next]_vars => ReplayInv'
<1> SUFFICES ASSUME TypeOK, FamilyInv, OneLivePerFamily, HolderInv, ReplayInv, [Next]_vars,
                    ~excused', NEW d \in Clients, NEW t \in SessionId, Hold(d, t)'
             PROVE  Settled(t)'
  BY DEF ReplayInv
<1>1. ASSUME UNCHANGED <<sessions, excused>>, HoldsNoMore PROVE Settled(t)'
  BY <1>1 DEF ReplayInv, HoldsNoMore, Settled, Live
<1>2. ASSUME NEW S, Revokes(S), UNCHANGED excused, HoldsNoMore,
             (\E u \in SessionId : S = {u}) \/ (\E f : S = Live \intersect Family(f)) \/ S = Live
      PROVE  Settled(t)'
  <2>1. Settled(t)
    BY <1>2 DEF ReplayInv, HoldsNoMore
  <2>2. \A s \in Live' : s \in Live /\ s \notin S
    BY <1>2 DEF Live, Revokes, Kept
  <2>3. \A s \in SessionId : /\ sessions'[s].family = sessions[s].family
                             /\ sessions'[s].late = sessions[s].late
    BY <1>2 DEF Revokes, Kept
  <2>4. \A s \in Live : s \in Live' \/ s \in S
    BY <1>2 DEF Live, Revokes, Kept
  <2>5. \A s \in Live : s \in SessionId
    BY DEF Live
  <2> QED
    BY <1>2, <2>1, <2>2, <2>3, <2>4, <2>5 DEF Settled, OneLivePerFamily, Family
<1>3. ASSUME NEW w \in Workers, NEW arrives \in BOOLEAN, LoginCommit(w, arrives) PROVE Settled(t)'
  <2> DEFINE n == Lowest(Free)
  <2> DEFINE c == req[w].client
  <2>1. ~excused /\ c \in Clients
    BY <1>3 DEF LoginCommit, FamilyInv
  <2>2. /\ n \in SessionId /\ sessions[n].state = "none" /\ sessions'[n].family = n
        /\ sessions'[n].state = "live" /\ ~sessions'[n].late
    BY <1>3, LoginEffect DEF Adds, Issued
  <2>3. \A s \in SessionId \ {n} : Kept(s, {})
    BY <1>3, LoginEffect DEF Adds
  <2>4. Hold(d, t) \/ t = n
    BY <1>3, <2>1, HoldAnswer DEF LoginCommit
  <2> HIDE DEF n, c
  <2>5. CASE t = n
    BY <2>2, <2>5 DEF Settled, Live
  <2>6. CASE Hold(d, t) /\ t # n
    <3>1. sessions[t].family # n /\ Settled(t)
      BY <2>1, <2>2, <2>6, HoldIssued DEF FamilyInv, ReplayInv
    <3> QED
      BY <2>2, <2>3, <2>6, <3>1 DEF Settled, Live, Kept
  <2> QED
    BY <2>4, <2>5, <2>6
<1>4. ASSUME NEW w \in Workers, NEW arrives \in BOOLEAN, Rotate(w, arrives) PROVE Settled(t)'
  <2> DEFINE n == Lowest(Free)
  <2> DEFINE c == req[w].client
  <2> DEFINE u == req[w].id
  <2> DEFINE f == sessions[u].family
  <2>1. /\ ~excused /\ arrives
        /\ \A v \in Workers \ {w} : ~(Serving(v, "refresh") /\ req[v].id = u)
    BY <1>4 DEF Rotate
  <2>2. c \in Clients /\ u \in SessionId /\ Hold(c, u) /\ Settled(u)
    BY <1>4, <2>1 DEF Rotate, Rotates, FamilyInv, Hold, ReplayInv
  <2>3. /\ n \in SessionId /\ sessions[n].state = "none" /\ n # u
        /\ sessions'[n].family = f /\ sessions'[n].state = "live"
        /\ sessions'[n].late = Late(w)
    <3>1. Adds(n, f, Late(w), {u}) /\ n # u
      BY <1>4, RotateEffect
    <3> QED
      BY <3>1 DEF Adds, Issued
  <2>4. \A s \in SessionId \ {n} : Kept(s, {u})
    BY <1>4, RotateEffect DEF Adds
  <2>5. Hold(d, t) \/ (d = c /\ t = n)
    BY <1>4, <2>2, HoldAnswer DEF Rotate
  <2>6. \A s \in Live' : s = n \/ (s \in Live /\ s # u)
    BY <2>4 DEF Live, Kept
  <2>7. \A s \in Live : s \in SessionId /\ s # n
    BY <2>3 DEF Live
  <2>8. CASE Late(w)
    <3>1. \A s \in Live : sessions[s].family = f => sessions[s].late
      BY <2>2, <2>8 DEF Late, Settled
    <3>2. \A s \in Live' : sessions'[s].family = f => sessions'[s].late
      BY <2>3, <2>4, <2>6, <2>7, <2>8, <3>1 DEF Kept
    <3>3. CASE sessions'[t].family = f
      BY <3>2, <3>3 DEF Settled
    <3>4. CASE sessions'[t].family # f
      <4>1. t # n /\ Settled(t)
        BY <2>1, <2>3, <2>5, <3>4 DEF ReplayInv
      <4>2. t # u /\ (t \in Live => t \in Live')
        BY <2>4, <3>4, <4>1 DEF Kept, Live
      <4> QED
        BY <2>3, <2>4, <2>6, <2>7, <3>4, <4>1, <4>2 DEF Settled, Kept
    <3> QED
      BY <3>3, <3>4
  <2>9. CASE ~Late(w)
    <3>1. u \in Live /\ ~sessions[u].late
      BY <2>9 DEF Late
    <3>2. CASE t = n
      BY <2>3, <2>9, <3>2 DEF Settled, Live
    <3>3. CASE t # n /\ sessions[t].family = f
      <4>1. d = c
        BY <2>2, <2>5, <3>3 DEF HolderInv
      <4>2. cookie'[c] = n /\ Hold(c, t)
        BY <1>4, <2>1, <2>2, <2>5, <3>3, <4>1 DEF Rotate, Answer, TypeOK
      <4>3. t # u
        BY <1>4, <2>1, <3>3, <4>1, <4>2 DEF Rotate, End, TypeOK, Idle, Hold, Serving
      <4> QED
        BY <2>1, <2>2, <3>1, <3>3, <4>2, <4>3 DEF ReplayInv, Settled, OneLivePerFamily
    <3>4. CASE t # n /\ sessions[t].family # f
      <4>1. Settled(t) /\ t # u /\ sessions'[t].family = sessions[t].family
        BY <2>1, <2>4, <2>5, <3>4 DEF ReplayInv, Kept
      <4>2. t \in Live => t \in Live'
        BY <2>4, <3>4, <4>1 DEF Kept, Live
      <4> QED
        BY <2>3, <2>4, <2>6, <2>7, <3>4, <4>1, <4>2 DEF Settled, Kept
    <3> QED
      BY <3>2, <3>3, <3>4
  <2> QED
    BY <2>8, <2>9
<1>5. CASE ~\E w \in Workers, arrives \in BOOLEAN : LoginCommit(w, arrives) \/ Rotate(w, arrives)
  <2>1. HoldsNoMore
    BY <1>5, HoldSteps
  <2>2. CASE \/ Register \/ VerifyEmail \/ \E purpose \in Purposes : SendMail(purpose)
             \/ LockElapses \/ UNCHANGED vars
             \/ \E w \in Workers : Request(w) \/ LoginWrong(w) \/ Abort(w)
    BY <1>1, <2>1, <2>2 DEF Register, VerifyEmail, SendMail, LockElapses, Request, LoginLoad,
       RefreshLoad, ConfirmLoad, Begin, LoginWrong, Abort, vars, rows, history
  <2>3. ASSUME NEW w \in Workers, RefreshReplay(w) PROVE Settled(t)'
    BY <1>2, <2>1, <2>3, ReplayEffect DEF RefreshReplay
  <2>4. ASSUME NEW w \in Workers, RefreshRefused(w) PROVE Settled(t)'
    <3>1. req[w].id \in SessionId /\ UNCHANGED excused
      BY <2>4 DEF RefreshRefused, FamilyInv, history
    <3> QED
      BY <1>2, <2>1, <2>4, <3>1, RefusedEffect
  <2>5. ASSUME NEW c \in Clients, Logout(c) PROVE Settled(t)'
    BY <1>2, <2>1, <2>5, LogoutEffect DEF Logout, history
  <2>6. CASE \/ \E w \in Workers : ConfirmReset(w)
             \/ \E c \in Clients : LogoutAll(c) \/ ChangePassword(c) \/ DeleteAccount(c)
    <3>1. Revokes(Live) /\ UNCHANGED excused
      BY <2>6, RevokeAllEffect DEF ConfirmReset, LogoutAll, ChangePassword, DeleteAccount
    <3> QED
      BY <1>2, <2>1, <3>1
  <2> QED
    BY <1>5, <2>2, <2>3, <2>4, <2>5, <2>6 DEF Next, Commit, AtOnce
<1> QED
  BY <1>3, <1>4, <1>5

LEMMA ReplayStable == Spec => [](HolderInv /\ ReplayInv)
<1>1. Init => HolderInv /\ ReplayInv
  BY SessionsAssumption DEF Init, HolderInv, ReplayInv, Hold, SessionId, Idle, Serving
<1> QED
  BY <1>1, TypeInv, OneLive, HolderInductive, ReplayInductive, PTL DEF Spec

\* A holder whose answers all arrive and who refreshes a token once at a time
\* is never signed out for having presented a revoked token.
THEOREM Replays == Spec => ReplayKillsOnlyLost
<1>1. ASSUME TypeOK, FamilyInv, ReplayInv, NEW w \in Workers, NEW s \in SessionId,
             RefreshReplay(w), s \in Live, sessions'[s].state = "revoked", ~excused
      PROVE  sessions[s].late
  <2>1. req[w].client \in Clients /\ req[w].id \in SessionId /\ req[w].id \notin Live
    BY <1>1 DEF RefreshReplay, FamilyInv
  <2>2. Hold(req[w].client, req[w].id)
    BY <1>1 DEF RefreshReplay, Hold
  <2>3. sessions[s].family = sessions[req[w].id].family
    BY <1>1, ReplayEffect DEF Revokes, Kept, Live, Family
  <2> QED
    BY <1>1, <2>1, <2>2, <2>3 DEF ReplayInv, Settled
<1>2. TypeOK /\ FamilyInv /\ ReplayInv =>
        [\A w \in Workers, s \in SessionId :
           /\ RefreshReplay(w) /\ s \in Live /\ sessions'[s].state = "revoked"
           => excused \/ sessions[s].late]_vars
  BY <1>1
<1> QED
  BY <1>2, TypeInv, ReplayStable, PTL DEF ReplayKillsOnlyLost

(***************************************************************************)
(* Families of tokens (Families)                                           *)
(***************************************************************************)
\* The heads and the strays of the mapping.
Heads == {s \in SessionId : sessions[s].state = "live" /\ ~sessions[s].late}
Strays == {s \in SessionId : sessions[s].state = "live" /\ sessions[s].late}
FamilyOf == [s \in SessionId |-> sessions[s].family]

LEMMA RevokesMapped ==
  ASSUME NEW S, Revokes(S)
  PROVE  /\ FamilyOf' = FamilyOf
         /\ Heads' = Heads \ S /\ Strays' = Strays \ S
BY DEF Revokes, Kept, FamilyOf, Heads, Strays

LEMMA AddsFamily ==
  ASSUME NEW n, NEW f, NEW late, NEW S, Adds(n, f, late, S)
  PROVE  FamilyOf' = [FamilyOf EXCEPT ![n] = f]
<1>1. \A s \in SessionId : sessions'[s].family = IF s = n THEN f ELSE sessions[s].family
  BY DEF Adds, Issued, Kept
<1>2. FamilyOf' = [s \in SessionId |-> IF s = n THEN f ELSE sessions[s].family]
  BY <1>1 DEF FamilyOf
<1>3. [FamilyOf EXCEPT ![n] = f] = [s \in SessionId |-> IF s = n THEN f ELSE sessions[s].family]
  BY DEF FamilyOf
<1> QED
  BY <1>2, <1>3

LEMMA AddsHead ==
  ASSUME NEW n, NEW f, NEW S, Adds(n, f, FALSE, S)
  PROVE  /\ FamilyOf' = [FamilyOf EXCEPT ![n] = f]
         /\ Heads' = (Heads \ S) \union {n} /\ Strays' = Strays \ S
<1>1. /\ n \in SessionId /\ sessions[n].state = "none"
      /\ sessions'[n] = [state |-> "live", family |-> f, epoch |-> epoch, late |-> FALSE]
  BY DEF Adds, Issued
<1>2. \A s \in SessionId \ {n} : Kept(s, S)
  BY DEF Adds
<1>3. Heads' = (Heads \ S) \union {n}
  BY <1>1, <1>2 DEF Kept, Heads
<1>4. Strays' = Strays \ S
  BY <1>1, <1>2 DEF Kept, Strays
<1> QED
  BY <1>3, <1>4, AddsFamily

LEMMA AddsStray ==
  ASSUME NEW n, NEW f, NEW S, Adds(n, f, TRUE, S)
  PROVE  /\ FamilyOf' = [FamilyOf EXCEPT ![n] = f]
         /\ Heads' = Heads \ S /\ Strays' = (Strays \ S) \union {n}
<1>1. /\ n \in SessionId /\ sessions[n].state = "none"
      /\ sessions'[n] = [state |-> "live", family |-> f, epoch |-> epoch, late |-> TRUE]
  BY DEF Adds, Issued
<1>2. \A s \in SessionId \ {n} : Kept(s, S)
  BY DEF Adds
<1>3. Heads' = Heads \ S
  BY <1>1, <1>2 DEF Kept, Heads
<1>4. Strays' = (Strays \ S) \union {n}
  BY <1>1, <1>2 DEF Kept, Strays
<1> QED
  BY <1>3, <1>4, AddsFamily

LEMMA FamiliesInit == Init => Fam!Init
<1> SUFFICES ASSUME Init PROVE Fam!Init
  OBVIOUS
<1>1. \A s \in SessionId : sessions[s] = NoSession
  BY DEF Init
<1> QED
  BY <1>1 DEF Init, NoSession, Fam!Init

\* One step per commit of Effects: the transactions that only read stutter.
LEMMA FamiliesStep == TypeOK /\ FamilyInv /\ [Next]_vars => [Fam!Next]_Fam!vars
<1> SUFFICES ASSUME TypeOK, FamilyInv, [Next]_vars PROVE Fam!Next \/ UNCHANGED Fam!vars
  OBVIOUS
<1>1. CASE UNCHANGED <<sessions, epoch, replayed>>
  BY <1>1 DEF Fam!vars, Heads, Strays, FamilyOf
<1>2. ASSUME UNCHANGED <<epoch, replayed>>, NEW t \in SessionId, Revokes({t})
      PROVE  Fam!Next \/ UNCHANGED Fam!vars
  <2>1. FamilyOf' = FamilyOf /\ Heads' = Heads \ {t} /\ Strays' = Strays \ {t}
    BY <1>2, RevokesMapped
  <2>2. CASE t \in Heads \union Strays
    BY <1>2, <2>1, <2>2 DEF Fam!Next, Fam!End, Heads, Strays, FamilyOf
  <2>3. CASE t \notin Heads \union Strays
    <3>1. Heads' = Heads /\ Strays' = Strays
      BY <2>1, <2>3
    <3> QED
      BY <1>2, <2>1, <3>1 DEF Fam!vars, Heads, Strays, FamilyOf
  <2> QED
    BY <2>2, <2>3
<1>3. ASSUME UNCHANGED epoch, NEW f \in SessionId, sessions[f].state # "none",
             Revokes(Live \intersect Family(f)), replayed' = replayed \union {f}
      PROVE  Fam!Replay(f)
  <2>1. /\ FamilyOf' = FamilyOf
        /\ Heads' = Heads \ (Live \intersect Family(f))
        /\ Strays' = Strays \ (Live \intersect Family(f))
    BY <1>3, RevokesMapped
  <2>2. Heads' = {t \in Heads : FamilyOf[t] # f} /\ Strays' = {t \in Strays : FamilyOf[t] # f}
    BY <2>1 DEF Live, Family, Heads, Strays, FamilyOf
  <2>3. FamilyOf[f] # 0
    BY <1>3, SessionsAssumption DEF FamilyInv, SessionId, FamilyOf
  <2> QED
    BY <1>3, <2>1, <2>2, <2>3 DEF Fam!Replay, Heads, Strays, FamilyOf
<1>4. ASSUME UNCHANGED replayed, epoch' = epoch + 1, Revokes(Live) PROVE Fam!EndAll
  <2>1. FamilyOf' = FamilyOf /\ Heads' = Heads \ Live /\ Strays' = Strays \ Live
    BY <1>4, RevokesMapped
  <2>2. Heads' = {} /\ Strays' = {}
    BY <2>1 DEF Live, Heads, Strays
  <2> QED
    BY <1>4, <2>1, <2>2 DEF Fam!EndAll, Heads, Strays, FamilyOf
<1>5. ASSUME UNCHANGED <<epoch, replayed>>, NEW n, Adds(n, n, FALSE, {})
      PROVE  n \in SessionId /\ Fam!Issue(n) /\ Fam!Open(n)
  <2>1. /\ FamilyOf' = [FamilyOf EXCEPT ![n] = n]
        /\ Heads' = (Heads \ {}) \union {n} /\ Strays' = Strays \ {}
    BY <1>5, AddsHead
  <2>2. n \in SessionId /\ FamilyOf[n] = 0 /\ FamilyOf'[n] # 0
    BY <1>5, <2>1, SessionsAssumption DEF Adds, FamilyInv, SessionId, FamilyOf
  <2> QED
    BY <1>5, <2>1, <2>2 DEF Fam!Issue, Fam!Open, Heads, Strays, FamilyOf
<1>6. ASSUME UNCHANGED <<epoch, replayed>>, NEW n, NEW t, Replaces(n, t)
      PROVE  /\ n \in SessionId /\ t \in SessionId /\ Fam!Issue(n)
             /\ Fam!HandOn(t, n) \/ Fam!Stray(t, n)
  <2>1. t \in SessionId /\ t # n /\ sessions[t].state # "none"
    BY <1>6 DEF Replaces
  <2>2. PICK late \in BOOLEAN : /\ Adds(n, sessions[t].family, late, {t})
                                /\ late <=> ~(t \in Live /\ ~sessions[t].late)
    BY <1>6 DEF Replaces
  <2>3. sessions[t].family = FamilyOf[t] /\ FamilyOf[t] # 0
    BY <2>1, SessionsAssumption DEF FamilyInv, SessionId, FamilyOf
  <2>4. n \in SessionId /\ FamilyOf[n] = 0
    BY <2>2 DEF Adds, FamilyInv, FamilyOf
  <2>5. FamilyOf' = [FamilyOf EXCEPT ![n] = FamilyOf[t]]
    BY <2>2, <2>3, AddsFamily
  <2>6. Fam!Issue(n)
    <3>1. FamilyOf'[n] # 0
      BY <2>3, <2>4, <2>5 DEF FamilyOf
    <3> QED
      BY <1>6, <2>4, <3>1 DEF Fam!Issue, FamilyOf
  <2>7. CASE late = TRUE
    <3>1. t \notin Heads
      BY <2>2, <2>7 DEF Live, Heads
    <3>2. Heads' = Heads \ {t} /\ Strays' = (Strays \ {t}) \union {n}
      BY <2>2, <2>7, AddsStray
    <3>3. Heads' = Heads
      BY <3>1, <3>2
    <3>4. Fam!Stray(t, n)
      BY <2>5, <3>1, <3>2, <3>3 DEF Fam!Stray, Heads, Strays, FamilyOf
    <3> QED
      BY <2>1, <2>4, <2>6, <3>4
  <2>8. CASE late = FALSE
    <3>1. t \in Heads /\ t \notin Strays
      BY <2>1, <2>2, <2>8 DEF Live, Heads, Strays
    <3>2. Heads' = (Heads \ {t}) \union {n} /\ Strays' = Strays \ {t}
      BY <2>2, <2>8, AddsHead
    <3>3. Strays' = Strays
      BY <3>1, <3>2
    <3>4. Fam!HandOn(t, n)
      BY <2>5, <3>1, <3>2, <3>3 DEF Fam!HandOn, Heads, Strays, FamilyOf
    <3> QED
      BY <2>1, <2>4, <2>6, <3>4
  <2> QED
    BY <2>7, <2>8
<1> QED
  BY <1>1, <1>2, <1>3, <1>4, <1>5, <1>6, Effects DEF Fam!Next

\* Every commit of a request opens a family, hands its head on to a fresh
\* successor, adds a stray or ends a token, a family or all of them.
THEOREM Delegation == Spec => HandsOn
<1>1. Init => Fam!Init
  BY FamiliesInit
<1> QED
  BY <1>1, TypeInv, FamiliesStep, PTL DEF Spec, HandsOn, Fam!Spec

\* No step of Families gives a head to a family that has none and was opened.
LEMMA LivesStep ==
  ASSUME FamilyInv, Fam!Next, NEW f \in SessionId, FamilyOf[f] # 0,
         \A s \in Heads : FamilyOf[s] # f
  PROVE  \A s \in Heads' : FamilyOf'[s] # f
<1> USE DEF Heads, FamilyOf
<1>0. ASSUME NEW n \in SessionId, NEW g, FamilyOf' = [FamilyOf EXCEPT ![n] = g]
      PROVE  \A s \in SessionId : FamilyOf'[s] = IF s = n THEN g ELSE FamilyOf[s]
  BY <1>0
<1>1. ASSUME NEW n \in SessionId, Fam!Issue(n), Fam!Open(n) PROVE \A s \in Heads' : FamilyOf'[s] # f
  BY <1>1 DEF Fam!Issue, Fam!Open
<1>2. ASSUME NEW n \in SessionId, NEW t \in SessionId, Fam!Issue(n), Fam!HandOn(t, n)
      PROVE  \A s \in Heads' : FamilyOf'[s] # f
  <2>1. t \in Heads /\ Heads' = (Heads \ {t}) \union {n}
    BY <1>2 DEF Fam!HandOn
  <2>2. FamilyOf' = [FamilyOf EXCEPT ![n] = FamilyOf[t]]
    BY <1>2 DEF Fam!HandOn
  <2>3. \A s \in SessionId : FamilyOf'[s] = IF s = n THEN FamilyOf[t] ELSE FamilyOf[s]
    BY <1>0, <2>2
  <2> HIDE DEF FamilyOf
  <2> QED
    BY <2>1, <2>3
<1>3. ASSUME NEW n \in SessionId, NEW t \in SessionId, Fam!Issue(n), Fam!Stray(t, n)
      PROVE  \A s \in Heads' : FamilyOf'[s] # f
  <2>1. Heads' = Heads /\ FamilyOf[n] = 0
    BY <1>3 DEF Fam!Issue, Fam!Stray
  <2>2. FamilyOf' = [FamilyOf EXCEPT ![n] = FamilyOf[t]] /\ t \notin Heads
    BY <1>3 DEF Fam!Stray
  <2>3. \A s \in SessionId : FamilyOf'[s] = IF s = n THEN FamilyOf[t] ELSE FamilyOf[s]
    BY <1>0, <2>2
  <2>4. n \notin Heads
    BY <2>1, SessionsAssumption DEF FamilyInv, SessionId
  <2> HIDE DEF FamilyOf
  <2> QED
    BY <2>1, <2>3, <2>4
<1>4. ASSUME NEW t \in SessionId, Fam!End(t) \/ Fam!Replay(t) PROVE \A s \in Heads' : FamilyOf'[s] # f
  BY <1>4 DEF Fam!End, Fam!Replay
<1>5. ASSUME Fam!EndAll PROVE \A s \in Heads' : FamilyOf'[s] # f
  BY <1>5 DEF Fam!EndAll
<1> QED
  BY <1>1, <1>2, <1>3, <1>4, <1>5 DEF Fam!Next

\* A family without a head stays without one: what was signed out, refused or
\* replayed lives on by no later refresh, except through a stray.
THEOREM EndsForGood == Spec => Fam!EndedForGood
<1>1. FamilyInv /\ [Fam!Next]_Fam!vars =>
        [\A f \in SessionId : [s \in SessionId |-> sessions[s].family][f] # 0 /\ f \notin Fam!Lives
                              => f \notin Fam!Lives']_Fam!vars
  <2> SUFFICES ASSUME FamilyInv, Fam!Next, NEW f \in SessionId, sessions[f].family # 0, f \notin Fam!Lives
               PROVE  f \notin Fam!Lives'
    OBVIOUS
  <2>1. FamilyOf[f] # 0 /\ \A s \in Heads : FamilyOf[s] # f
    BY DEF Fam!Lives, Heads, FamilyOf
  <2>2. \A s \in Heads' : FamilyOf'[s] # f
    BY <2>1, LivesStep
  <2> QED
    BY <2>2 DEF Fam!Lives, Heads, FamilyOf
<1> QED
  BY <1>1, TypeInv, Delegation, PTL DEF HandsOn, Fam!Spec, Fam!EndedForGood

(***************************************************************************)
(* Revocation is final but for refreshes under way                         *)
(***************************************************************************)
\* A refresh under way that loaded its token before it was spent.
Loaded(w) == Serving(w, "refresh") /\ req[w].live

\* Somebody else revokes the token of a refresh that is under way.
Disturbs ==
  \E w \in Workers : /\ Loaded(w) /\ req[w].id \in Live
                     /\ req'[w] = req[w] /\ sessions'[req[w].id].state # "live"

FinalInv == RevocationFinal /\ \A w \in Workers : Loaded(w) => req[w].id \in Live

LEMMA RequestMoves ==
  ASSUME TypeOK, [Next]_vars, NEW w \in Workers
  PROVE  \/ req'[w] = req[w] \/ req'[w] = Idle
         \/ UNCHANGED sessions /\ (Loaded(w)' => req'[w].id \in Live)
<1> USE DEF TypeOK, rows, clients, history
<1>1. CASE UNCHANGED req
  BY <1>1
<1>2. ASSUME NEW v \in Workers, End(v) PROVE req'[w] = req[w] \/ req'[w] = Idle
  BY <1>2 DEF End
<1>3. ASSUME NEW v \in Workers, NEW c \in Clients, LoginLoad(v, c)
      PROVE  UNCHANGED sessions /\ (req'[w] = req[w] \/ ~Loaded(w)')
  BY <1>3 DEF LoginLoad, Begin, Idle, Loaded, Serving
<1>4. ASSUME NEW v \in Workers, NEW c \in Clients, NEW expired \in BOOLEAN,
             RefreshLoad(v, c, expired)
      PROVE  UNCHANGED sessions /\ (req'[w] = req[w] \/ (Loaded(w)' => req'[w].id \in Live))
  BY <1>4 DEF RefreshLoad, Begin, Idle, Loaded, Serving
<1>5. ASSUME NEW v \in Workers, ConfirmLoad(v)
      PROVE  UNCHANGED sessions /\ (req'[w] = req[w] \/ ~Loaded(w)')
  BY <1>5 DEF ConfirmLoad, Begin, Idle, Loaded, Serving
<1> QED
  BY <1>1, <1>2, <1>3, <1>4, <1>5
     DEF Next, Register, VerifyEmail, SendMail, LockElapses, Request, Commit, Abort, AtOnce,
         Logout, LogoutAll, ChangePassword, DeleteAccount, LoginWrong, RefreshReplay,
         RefreshRefused, ConfirmReset, LoginCommit, Rotate, vars

LEMMA NoneLate ==
  ASSUME TypeOK, FamilyInv, FinalInv, [Next]_vars PROVE RevocationFinal'
<1> USE DEF FinalInv, RevocationFinal, Live
<1>1. CASE UNCHANGED sessions
  BY <1>1
<1>2. ASSUME NEW S, Revokes(S) PROVE RevocationFinal'
  BY <1>2 DEF Revokes, Kept
<1>3. ASSUME NEW n, NEW f, NEW S, Adds(n, f, FALSE, S) PROVE RevocationFinal'
  BY <1>3 DEF Adds, Issued, Kept
<1>4. ASSUME NEW w \in Workers, NEW arrives \in BOOLEAN, Rotate(w, arrives)
      PROVE  RevocationFinal'
  <2>1. req[w].id \in Live
    BY <1>4 DEF Rotate, Rotates, Loaded
  <2>2. Late(w) = FALSE
    BY <2>1 DEF Late, TypeOK, Session
  <2> QED
    BY <1>3, <1>4, <2>2, RotateEffect
<1>5. ASSUME NEW w \in Workers, NEW arrives \in BOOLEAN, LoginCommit(w, arrives)
      PROVE  RevocationFinal'
  BY <1>3, <1>5, LoginEffect
<1>6. ASSUME NEW w \in Workers, RefreshReplay(w) \/ RefreshRefused(w) \/ ConfirmReset(w)
      PROVE  RevocationFinal'
  BY <1>2, <1>6, ReplayEffect, RefusedEffect, RevokeAllEffect DEF ConfirmReset
<1>7. ASSUME NEW c \in Clients, AtOnce(c) PROVE RevocationFinal'
  BY <1>2, <1>7, LogoutEffect, RevokeAllEffect
     DEF AtOnce, LogoutAll, ChangePassword, DeleteAccount
<1> HIDE DEF FinalInv, RevocationFinal, Live
<1> QED
  BY <1>1, <1>4, <1>5, <1>6, <1>7
     DEF Next, Register, VerifyEmail, SendMail, LockElapses, Request, LoginLoad, RefreshLoad,
         ConfirmLoad, Begin, Commit, Abort, LoginWrong, vars, rows

LEMMA FinalInductive ==
  TypeOK /\ FamilyInv /\ FinalInv /\ [Next]_vars /\ [~Disturbs]_vars => FinalInv'
<1> SUFFICES ASSUME TypeOK, FamilyInv, FinalInv, [Next]_vars, [~Disturbs]_vars
             PROVE  FinalInv'
  OBVIOUS
<1>1. ASSUME NEW w \in Workers, Loaded(w)' PROVE req'[w].id \in Live'
  <2>1. CASE req'[w] = req[w]
    <3>1. Loaded(w) /\ req[w].id \in Live
      BY <1>1, <2>1 DEF FinalInv, Loaded, Serving
    <3>2. CASE UNCHANGED vars
      BY <2>1, <3>1, <3>2 DEF vars, rows, Live
    <3>3. CASE ~Disturbs
      BY <2>1, <3>1, <3>3 DEF Disturbs, Live
    <3> QED
      BY <3>2, <3>3
  <2>2. CASE req'[w] = Idle
    BY <1>1, <2>2 DEF Loaded, Serving, Idle
  <2>3. CASE UNCHANGED sessions /\ (Loaded(w)' => req'[w].id \in Live)
    BY <1>1, <2>3 DEF Live
  <2> QED
    BY <2>1, <2>2, <2>3, RequestMoves
<1> QED
  BY <1>1, NoneLate DEF FinalInv

\* The sign-out of every session is final as long as no request revokes a token
\* that a refresh under way has loaded: nothing else makes it fail.
THEOREM FinalUndisturbed == Spec /\ [][~Disturbs]_vars => []RevocationFinal
<1>1. Init => FinalInv
  BY DEF Init, FinalInv, RevocationFinal, Live, Loaded, Serving, NoSession, Idle
<1>2. FinalInv => RevocationFinal
  BY DEF FinalInv
<1> QED
  BY <1>1, <1>2, TypeInv, FinalInductive, PTL DEF Spec
===============================================================================
