------------------------------- MODULE Sessions -------------------------------
(***************************************************************************)
(* One account and its sessions (api/v1/auth.py, api/deps.py,              *)
(* api/v1/privacy.py, models/user.py): registration, the failure counter   *)
(* and the lock of a login, rotation of the refresh token, one-time tokens *)
(* sent by e-mail, sign-out, change of password, deletion.                 *)
(*                                                                         *)
(* Every request is one READ COMMITTED transaction whose SELECTs lock      *)
(* nothing.  One that writes what depends on what it loaded is two         *)
(* actions, the SELECTs with the refusals that follow and the commit; any  *)
(* other is one.  The bulk UPDATE that revokes sessions locks them until   *)
(* the commit and goes with it.  An answer may be lost: the client then    *)
(* keeps the cookie it had.  That an access token or a one-time token      *)
(* expires only means that it is not used.                                 *)
(***************************************************************************)
EXTENDS Naturals, FiniteSets

CONSTANTS
  Workers,      \* threads that serve requests
  Clients,      \* browsers of the account's holder
  MaxFailed,    \* MAX_FAILED_LOGINS
  MaxSessions,  \* bound: refresh tokens ever issued
  MaxEpoch      \* bound: changes of password, sign-outs everywhere, deletions

ASSUME SessionsAssumption ==
  /\ MaxFailed \in Nat \ {0, 1}
  /\ MaxSessions \in Nat /\ MaxEpoch \in Nat
  /\ 0 \notin Clients

VARIABLES
  (* committed rows *)
  account,   \* users: status, verified, failed, lock
  sessions,  \* user_sessions: the refresh tokens
  mails,     \* one_time_tokens
  (* the clients *)
  cookie,    \* the refresh token each client holds, 0 for none
  access,    \* the clients that were given an access token
  (* transactions in progress *)
  req,       \* the request each worker serves and what it loaded
  (* history *)
  epoch,     \* number of commits that revoked every session
  replayed,  \* families revoked because a revoked token was presented
  excused,   \* an answer was lost, or two refreshes of one token overlapped
  wrong,     \* wrong passwords answered since failures were last forgotten
  overlap    \* a login committed on a count that was no longer the row's

rows == <<account, sessions, mails>>
clients == <<cookie, access>>
history == <<epoch, replayed, excused, wrong, overlap>>
vars == <<rows, clients, req, history>>

SessionId == 1..MaxSessions
Purposes == {"verify", "reset"}
Locks == {"none", "until", "elapsed"}   \* locked_until: NULL, to come, past
Account == [status: {"none", "active", "deleted"}, verified: BOOLEAN,
            failed: 0..MaxFailed, lock: Locks]
Session == [state: {"none", "live", "revoked"}, family: 0..MaxSessions, epoch: 0..MaxEpoch, late: BOOLEAN]
Kinds == {"idle", "login", "wrong", "refresh", "confirm"}
Transaction == [kind: Kinds, client: Clients \union {0}, id: 0..MaxSessions,
                failed: 0..MaxFailed, lock: Locks, live: BOOLEAN, valid: BOOLEAN]

NoSession == [state |-> "none", family |-> 0, epoch |-> 0, late |-> FALSE]
NoAccount == [status |-> "none", verified |-> FALSE, failed |-> 0, lock |-> "none"]
Idle == [kind |-> "idle", client |-> 0, id |-> 0,
         failed |-> 0, lock |-> "none", live |-> FALSE, valid |-> FALSE]

Locked(acc) == acc.lock = "until"
Active(acc) == acc.status = "active"
Free == {s \in SessionId : sessions[s].state = "none"}
Lowest(S) == CHOOSE i \in S : \A j \in S : i <= j
Live == {s \in SessionId : sessions[s].state = "live"}
Family(f) == {s \in SessionId : sessions[s].family = f}

\* SQLAlchemy's UPDATE names a column only if the attribute differs from the
\* value the request loaded.
Written(new, loaded, current) == IF new = loaded THEN current ELSE new

\* The SELECTs of a request: from here on it works on what they returned.
Begin(w, loaded) ==
  /\ req[w].kind = "idle"
  /\ req' = [req EXCEPT ![w] = loaded]
  /\ UNCHANGED <<rows, clients, history>>
Serving(w, kind) == req[w].kind = kind
End(w) == req' = [req EXCEPT ![w] = Idle]

(***************************************************************************)
(* get_db: an exception or a stop of the process ends the transaction      *)
(***************************************************************************)
Abort(w) ==
  /\ ~Serving(w, "idle")
  /\ End(w)
  /\ UNCHANGED <<rows, clients, history>>

(***************************************************************************)
(* register: the unique key on users.email decides between two requests.   *)
(***************************************************************************)
Register ==
  /\ account.status = "none"
  /\ account' = [NoAccount EXCEPT !.status = "active"]
  /\ mails' = [mails EXCEPT !["verify"] = "sent"]
  /\ UNCHANGED <<sessions, clients, req, history>>

(***************************************************************************)
(* login                                                                   *)
(***************************************************************************)
\* 423 while locked; the address of a deleted account is anonymised.
LoginLoad(w, c) ==
  /\ Active(account) /\ ~Locked(account)
  /\ \E kind \in {"wrong", "login"} :
       /\ kind = "login" => account.verified
       /\ Begin(w, [Idle EXCEPT !.kind = kind, !.client = c, !.failed = account.failed,
                                !.lock = account.lock])

\* Variant: one failure more than the limit.
LoginWrongMore(w) ==
  LET failed == req[w].failed
      locks == failed + 1 > MaxFailed
  IN
  /\ Serving(w, "wrong")
  /\ account' = [account EXCEPT !.failed = IF locks THEN 0 ELSE failed + 1,
                                !.lock = IF locks THEN "until" ELSE @]
  /\ overlap' = (overlap \/ failed # account.failed)
  /\ wrong' = IF locks \/ overlap' THEN 0 ELSE wrong + 1
  /\ End(w)
  /\ UNCHANGED <<sessions, mails, clients, epoch, replayed, excused>>

\* The count is the loaded one plus one; at MaxFailed it turns into a lock.
LoginWrong(w) ==
  LET failed == req[w].failed
      locks == failed + 1 >= MaxFailed
  IN
  /\ Serving(w, "wrong")
  /\ account' = [account EXCEPT !.failed = IF locks THEN 0 ELSE failed + 1,
                                !.lock = IF locks THEN "until" ELSE @]
  /\ overlap' = (overlap \/ failed # account.failed)
  /\ wrong' = IF locks \/ overlap' THEN 0 ELSE wrong + 1
  /\ End(w)
  /\ UNCHANGED <<sessions, mails, clients, epoch, replayed, excused>>

Forget(w) == [account EXCEPT !.failed = Written(0, req[w].failed, @),
                             !.lock = Written("none", req[w].lock, @)]

\* What the client keeps of an answer that sets a cookie and may be lost.
Answer(c, token, arrives) ==
  /\ cookie' = IF arrives THEN [cookie EXCEPT ![c] = token] ELSE cookie
  /\ access' = IF arrives THEN access \union {c} ELSE access

\* _clear_refresh_cookie: the order is a header of the injected response, which
\* FastAPI leaves out of an HTTPException and of a Response that is returned.
\* The client keeps the revoked token.
Cleared == UNCHANGED cookie

\* _issue_refresh
Issued(family, late) ==
  [state |-> "live", family |-> family, epoch |-> epoch, late |-> late]

LoginCommit(w, arrives) ==
  LET s == Lowest(Free) IN
  /\ Serving(w, "login") /\ Free # {}
  /\ account' = Forget(w)
  /\ sessions' = [sessions EXCEPT ![s] = Issued(s, FALSE)]
  /\ Answer(req[w].client, s, arrives)
  /\ excused' = (excused \/ ~arrives)
  /\ wrong' = 0
  /\ overlap' = (overlap \/ req[w].failed # account.failed)
  /\ End(w)
  /\ UNCHANGED <<mails, epoch, replayed>>

(***************************************************************************)
(* refresh                                                                 *)
(***************************************************************************)
\* expires_at may have come: a token refused for it is revoked, so it is
\* enough to choose when it is presented.
RefreshLoad(w, c, expired) ==
  /\ cookie[c] # 0
  /\ Begin(w, [Idle EXCEPT !.kind = "refresh", !.client = c, !.id = cookie[c],
                           !.live = cookie[c] \in Live,
                           !.valid = cookie[c] \in Live /\ Active(account) /\ ~expired])

\* Variant: every session of the account is revoked.
ReplayAll(w) ==
  /\ Serving(w, "refresh") /\ ~req[w].live
  /\ sessions' = [s \in SessionId |->
       IF s \in Live THEN [sessions[s] EXCEPT !.state = "revoked"] ELSE sessions[s]]
  /\ replayed' = replayed \union {sessions[req[w].id].family}
  /\ Cleared
  /\ End(w)
  /\ UNCHANGED <<account, mails, access, epoch, excused, wrong, overlap>>

\* A revoked token that comes back ends its family, whatever its state now.
RefreshReplay(w) ==
  LET family == sessions[req[w].id].family IN
  /\ Serving(w, "refresh") /\ ~req[w].live
  /\ sessions' = [s \in SessionId |->
       IF s \in Live \intersect Family(family) THEN [sessions[s] EXCEPT !.state = "revoked"]
                                               ELSE sessions[s]]
  /\ replayed' = replayed \union {family}
  /\ Cleared
  /\ End(w)
  /\ UNCHANGED <<account, mails, access, epoch, excused, wrong, overlap>>

\* An expired token, or one of an account that is gone, is revoked.
RefreshRefused(w) ==
  /\ Serving(w, "refresh") /\ req[w].live
  /\ ~req[w].valid
  /\ sessions' = [sessions EXCEPT ![req[w].id].state = "revoked"]
  /\ Cleared
  /\ End(w)
  /\ UNCHANGED <<account, mails, access, history>>

Rotates(w) ==
  /\ Serving(w, "refresh") /\ req[w].live
  /\ req[w].valid
  /\ Free # {}

\* The token presented is no longer live, or descends from such a token.
Late(w) == req[w].id \notin Live \/ sessions[req[w].id].late

\* Variant: the token that was presented stays valid.
RotateKeep(w, arrives) ==
  LET s == Lowest(Free) IN
  /\ Rotates(w)
  /\ sessions' = [sessions EXCEPT ![s] = Issued(sessions[req[w].id].family, Late(w))]
  /\ Answer(req[w].client, s, arrives)
  /\ excused' = (excused \/ ~arrives)
  /\ End(w)
  /\ UNCHANGED <<account, mails, epoch, replayed, wrong, overlap>>

\* The presented token dies, its successor joins the family.
Rotate(w, arrives) ==
  LET s == Lowest(Free)
      t == req[w].id
  IN
  /\ Rotates(w)
  /\ sessions' = [sessions EXCEPT ![t].state = "revoked",
                                  ![s] = Issued(sessions[req[w].id].family, Late(w))]
  /\ Answer(req[w].client, s, arrives)
  /\ excused' = (excused \/ ~arrives \/ \E v \in Workers \ {w} : Serving(v, "refresh") /\ req[v].id = t)
  /\ End(w)
  /\ UNCHANGED <<account, mails, epoch, replayed, wrong, overlap>>

(***************************************************************************)
(* logout                                                                  *)
(***************************************************************************)
Logout(c) ==
  /\ cookie[c] # 0
  /\ sessions' = [sessions EXCEPT ![cookie[c]].state = "revoked"]
  /\ Cleared
  /\ UNCHANGED <<account, mails, access, req, history>>

(***************************************************************************)
(* What revokes every session: logout_all, change_password,                *)
(* confirm_password_reset, delete_my_account.                              *)
(***************************************************************************)
\* get_current_user: the access token is a JWT, which no row can revoke.
Authenticated(c) == c \in access /\ Active(account) /\ ~Locked(account)

\* Variant: only the session of the client that asks is revoked.
RevokeOwn(c) ==
  /\ epoch < MaxEpoch /\ epoch' = epoch + 1
  /\ sessions' = [s \in SessionId |->
       IF s \in Live /\ c # 0 /\ s = cookie[c] THEN [sessions[s] EXCEPT !.state = "revoked"]
                                               ELSE sessions[s]]

RevokeAll(c) ==
  /\ epoch < MaxEpoch /\ epoch' = epoch + 1
  /\ sessions' = [s \in SessionId |->
       IF s \in Live THEN [sessions[s] EXCEPT !.state = "revoked"] ELSE sessions[s]]

LogoutAll(c) ==
  /\ Authenticated(c)
  /\ RevokeAll(c)
  /\ Cleared
  /\ UNCHANGED <<account, mails, access, req, replayed, excused, wrong, overlap>>

ChangePassword(c) ==
  /\ Authenticated(c)
  /\ RevokeAll(c)
  /\ UNCHANGED <<account, mails, clients, req, replayed, excused, wrong, overlap>>

DeleteAccount(c) ==
  /\ Authenticated(c)
  /\ RevokeAll(c)
  /\ account' = [account EXCEPT !.status = "deleted"]
  /\ UNCHANGED <<mails, clients, req, replayed, excused, wrong, overlap>>

(***************************************************************************)
(* One-time tokens: resend_verification, verify_email,                     *)
(* request_password_reset, confirm_password_reset                          *)
(***************************************************************************)
\* Bound: one token of a purpose at a time; it is sent again when that one is
\* spent and no request is using it.
SendMail(purpose) ==
  /\ Active(account)
  /\ purpose = "verify" => ~account.verified
  /\ mails[purpose] # "sent"
  /\ purpose = "reset" => \A w \in Workers : ~Serving(w, "confirm")
  /\ mails' = [mails EXCEPT ![purpose] = "sent"]
  /\ UNCHANGED <<account, sessions, clients, req, history>>

VerifyEmail ==
  /\ mails["verify"] = "sent"
  /\ mails' = [mails EXCEPT !["verify"] = "spent"]
  /\ account' = [account EXCEPT !.verified = TRUE]
  /\ UNCHANGED <<sessions, clients, req, history>>

ConfirmLoad(w) ==
  /\ mails["reset"] = "sent"
  /\ Begin(w, [Idle EXCEPT !.kind = "confirm", !.failed = account.failed, !.lock = account.lock])

\* A new password, the failures forgotten, every session revoked.
ConfirmReset(w) ==
  /\ Serving(w, "confirm")
  /\ mails' = [mails EXCEPT !["reset"] = "spent"]
  /\ account' = Forget(w)
  /\ RevokeAll(0)
  /\ wrong' = 0
  /\ overlap' = (overlap \/ req[w].failed # account.failed)
  /\ End(w)
  /\ UNCHANGED <<clients, replayed, excused>>

(***************************************************************************)
(* Time: the minutes of a lock                                             *)
(***************************************************************************)
LockElapses ==
  /\ Locked(account)
  /\ account' = [account EXCEPT !.lock = "elapsed"]
  /\ UNCHANGED <<sessions, mails, clients, req, history>>

Init ==
  /\ account = NoAccount
  /\ sessions = [s \in SessionId |-> NoSession]
  /\ mails = [purpose \in Purposes |-> "none"]
  /\ cookie = [c \in Clients |-> 0]
  /\ access = {}
  /\ req = [w \in Workers |-> Idle]
  /\ epoch = 0 /\ replayed = {} /\ excused = FALSE /\ wrong = 0 /\ overlap = FALSE

Request(w) ==
  \/ \E c \in Clients : LoginLoad(w, c) \/ \E expired \in BOOLEAN : RefreshLoad(w, c, expired)
  \/ ConfirmLoad(w)

Commit(w) ==
  \/ LoginWrong(w) \/ RefreshReplay(w) \/ RefreshRefused(w) \/ ConfirmReset(w)
  \/ \E arrives \in BOOLEAN : LoginCommit(w, arrives) \/ Rotate(w, arrives)

AtOnce(c) ==
  \/ Logout(c) \/ LogoutAll(c) \/ ChangePassword(c) \/ DeleteAccount(c)

Next ==
  \/ Register \/ VerifyEmail
  \/ \E purpose \in Purposes : SendMail(purpose)
  \/ \E w \in Workers : Request(w) \/ Commit(w) \/ Abort(w)
  \/ \E c \in Clients : AtOnce(c)
  \/ LockElapses

Spec == Init /\ [][Next]_vars

(***************************************************************************)
(* Properties                                                              *)
(***************************************************************************)
TypeOK ==
  /\ account \in Account
  /\ sessions \in [SessionId -> Session]
  /\ mails \in [Purposes -> {"none", "sent", "spent"}]
  /\ cookie \in [Clients -> 0..MaxSessions]
  /\ access \subseteq Clients
  /\ req \in [Workers -> Transaction]
  /\ epoch \in 0..MaxEpoch
  /\ replayed \subseteq SessionId
  /\ excused \in BOOLEAN /\ overlap \in BOOLEAN /\ wrong \in Nat

\* After a change or a reset of the password, a sign-out everywhere or the
\* deletion of the account, no session issued before is left (auth.py:529).
RevokedAtOnce == \A s \in Live : sessions[s].epoch = epoch

\* A family has one live token at most, and none once a revoked token of it
\* was presented again (models/user.py:62-63), except for what a refresh that
\* overlapped the end of its own token added.
OneLivePerFamily ==
  /\ \A s, t \in Live :
       sessions[s].family = sessions[t].family /\ ~sessions[s].late /\ ~sessions[t].late => s = t
  /\ \A s \in Live : sessions[s].family \in replayed => sessions[s].late

\* What the holder of a token sees of the above.
Fam == INSTANCE Families WITH
  Tokens <- SessionId,
  family <- [s \in SessionId |-> sessions[s].family],
  heads  <- {s \in SessionId : sessions[s].state = "live" /\ ~sessions[s].late},
  strays <- {s \in SessionId : sessions[s].state = "live" /\ sessions[s].late}

\* Every commit of a request of auth.py or privacy.py opens a family, hands its
\* one token on to a fresh successor, adds a stray or ends a token, a family or
\* all of them, in one step; a family that lost its token never gets one again.
HandsOn == Fam!Spec

\* A holder whose answers all arrive and who refreshes a token once at a time
\* is never signed out for having presented a revoked token (auth.py:316).
ReplayKillsOnlyLost ==
  [][\A w \in Workers, s \in SessionId :
       /\ RefreshReplay(w) /\ s \in Live /\ sessions'[s].state = "revoked"
       => excused \/ sessions[s].late]_vars

\* The sign-out of every session is final: no live token descends from one that
\* it, or anything else, revoked (auth.py:383).  A refresh that loaded its token
\* before issues a successor after, so this does not hold.
RevocationFinal == \A s \in Live : ~sessions[s].late

\* Unless two logins overlapped, MaxFailed wrong passwords that no success or
\* reset separates lock the account (auth.py:252-256).
FailuresLock == overlap \/ wrong < MaxFailed
=============================================================================
