------------------------------ MODULE Sessions ------------------------------
(***************************************************************************)
(* The user service's sessions of one account.  A refresh token is a JWT   *)
(* that carries the account's token_version and a Redis key; a set in      *)
(* Redis indexes the keys of the account.  Logins and rotations add keys,  *)
(* a password reset, a Google login or a deletion raises token_version and *)
(* revokes them all.  Requests run concurrently; each is split where it    *)
(* awaits Redis or PostgreSQL, and its transaction commits last.           *)
(*                                                                         *)
(* A refresh token has no random part: its claims are the account, the     *)
(* version and an expiry in whole seconds.  A token is <<version, second>>.*)
(***************************************************************************)
EXTENDS Naturals

CONSTANTS
  Requests,     \* requests in progress at once
  None,         \* no request
  MaxVersion,   \* bound: token_version
  MaxSecond,    \* bound: seconds in which tokens are minted
  MaxFaults     \* bound: requests that fail half-way

ASSUME SessionsAssumption ==
  /\ None \notin Requests
  /\ MaxVersion \in Nat \ {0} /\ MaxSecond \in Nat \ {0} /\ MaxFaults \in Nat

VARIABLES
  version,     \* users.token_version, as committed
  active,      \* users.is_active
  verified,    \* users.is_verified
  verifyToken, \* the verification token waits in Redis
  resetTokens, \* password reset tokens that wait in Redis
  lock,        \* the request whose transaction has updated the row
  keys,        \* refresh tokens with a Redis key
  index,       \* the account's set of refresh tokens
  job,         \* what each request is doing
  now,         \* the current second
  life,        \* history: refresh tokens handed out, exchanged, handed out twice
  born,        \* history: the epoch in which a token's request read the account
  epoch,       \* history: revocations committed
  overlapped,  \* history: a revocation wrote a version read before another's commit
  leaked,      \* history: a token of an earlier epoch was exchanged
  faults       \* history: requests that failed half-way

accountVars == <<version, active, verified, verifyToken, resetTokens, lock>>
redisVars == <<keys, index>>
historyVars == <<life, born, epoch, overlapped, leaked>>
vars == <<accountVars, redisVars, job, now, historyVars, faults>>

Versions == 1..MaxVersion
Seconds == 1..MaxSecond
Tokens == Versions \X Seconds
NoToken == <<0, 0>>

Job(op, step) ==
  [op |-> op, step |-> step, ver |-> 0, born |-> 0, token |-> NoToken, snap |-> {}]

Free == Job("none", "none")

Jobs ==
  [op : {"none", "login", "refresh", "reuse", "reset", "google", "delete"},
   step : {"none", "write", "members", "purge", "check", "store", "commit"},
   ver : 0..MaxVersion, born : Nat, token : Tokens \cup {NoToken}, snap : SUBSET Tokens]

TypeOK ==
  /\ version \in Versions
  /\ active \in BOOLEAN /\ verified \in BOOLEAN /\ verifyToken \in BOOLEAN
  /\ resetTokens \in Nat
  /\ lock \in Requests \cup {None}
  /\ keys \subseteq Tokens /\ index \subseteq Tokens
  /\ job \in [Requests -> Jobs]
  /\ now \in Seconds
  /\ life \in [Tokens -> {"new", "issued", "used", "twin"}]
  /\ born \in [Tokens -> Nat] /\ epoch \in Nat
  /\ overlapped \in BOOLEAN /\ leaked \in BOOLEAN
  /\ faults \in 0..MaxFaults

\* create_user has committed.
Init ==
  /\ version = 1 /\ active = TRUE /\ verified = FALSE
  /\ verifyToken = TRUE /\ resetTokens = 0 /\ lock = None
  /\ keys = {} /\ index = {}
  /\ job = [r \in Requests |-> Free]
  /\ now = 1
  /\ life = [t \in Tokens |-> "new"]
  /\ born = [t \in Tokens |-> 0] /\ epoch = 0
  /\ overlapped = FALSE /\ leaked = FALSE
  /\ faults = 0

Become(r, j) == job' = [job EXCEPT ![r] = j]
Idle(r) == job[r] = Free
Bumping(r) == job[r].op \in {"reset", "google", "delete"}
Fault == faults < MaxFaults /\ faults' = faults + 1

-----------------------------------------------------------------------------
(* Accounts.                                                                *)

\* verify_email: GETDEL first; the transaction may fail after it.
VerifyEmail ==
  /\ verifyToken
  /\ verifyToken' = FALSE
  /\ \/ verified' = TRUE /\ UNCHANGED faults
     \/ UNCHANGED verified /\ Fault
  /\ UNCHANGED <<version, active, resetTokens, lock, redisVars, job, now, historyVars>>

\* request_password_reset: every request leaves a token of its own.
ForgotPassword ==
  /\ active
  /\ resetTokens + version < MaxVersion
  /\ resetTokens' = resetTokens + 1
  /\ UNCHANGED <<version, active, verified, verifyToken, lock, redisVars, job, now,
                 historyVars, faults>>

\* reset_password_with_token: GETDEL, then the account is read.
BeginReset(r) ==
  /\ Idle(r)
  /\ resetTokens > 0
  /\ resetTokens' = resetTokens - 1
  /\ Become(r, [Job("reset", "write") EXCEPT !.ver = version])
  /\ UNCHANGED <<version, active, verified, verifyToken, lock, redisVars, now, historyVars, faults>>

BeginDelete(r) ==
  /\ Idle(r)
  /\ Become(r, [Job("delete", "write") EXCEPT !.ver = version])
  /\ UNCHANGED <<accountVars, redisVars, now, historyVars, faults>>

\* login_or_register_google_user: a deleted account no longer has the email.
BeginGoogle(r) ==
  /\ Idle(r)
  /\ active
  /\ Become(r, [Job("google", "write") EXCEPT !.ver = version])
  /\ UNCHANGED <<accountVars, redisVars, now, historyVars, faults>>

\* Mutant of BumpVersion: sets the password and leaves the version alone.
KeepVersion(r) ==
  /\ job[r].step = "write"
  /\ lock = None
  /\ job[r].ver < MaxVersion
  /\ lock' = r
  /\ Become(r, [job[r] EXCEPT !.step = "members"])
  /\ overlapped' = (overlapped \/ job[r].ver # version)
  /\ UNCHANGED <<version, active, verified, verifyToken, resetTokens, redisVars, now, life,
                 born, epoch, leaked, faults>>

\* The UPDATE: it waits for another transaction's row lock, and writes one more
\* than the version this one has read, however long ago.
BumpVersion(r) ==
  /\ job[r].step = "write"
  /\ lock = None
  /\ job[r].ver < MaxVersion
  /\ lock' = r
  /\ Become(r, [job[r] EXCEPT !.step = "members", !.ver = @ + 1])
  /\ overlapped' = (overlapped \/ job[r].ver # version)
  /\ UNCHANGED <<version, active, verified, verifyToken, resetTokens, redisVars, now, life,
                 born, epoch, leaked, faults>>

AfterRevoke(op) ==
  CASE op = "reuse" -> "none" [] op = "google" -> "store" [] OTHER -> "commit"

Revoked(r) ==
  Become(r, IF job[r].op = "reuse" THEN Free
            ELSE [job[r] EXCEPT !.step = AfterRevoke(job[r].op), !.snap = {},
                                !.born = epoch + 1])

\* _revoke_all_refresh_for_user: SMEMBERS ...
ReadMembers(r) ==
  /\ job[r].step = "members"
  /\ \/ index = {} /\ Revoked(r)
     \/ index # {} /\ Become(r, [job[r] EXCEPT !.step = "purge", !.snap = index])
  /\ UNCHANGED <<accountVars, redisVars, now, historyVars, faults>>

\* ... then one pipeline of DELs.
Purge(r) ==
  /\ job[r].step = "purge"
  /\ keys' = keys \ job[r].snap
  /\ index' = {}
  /\ Revoked(r)
  /\ UNCHANGED <<accountVars, now, historyVars, faults>>

CommitBump(r) ==
  /\ job[r].step = "commit"
  /\ version' = job[r].ver
  /\ active' = (active /\ job[r].op # "delete")
  /\ verified' = (verified \/ job[r].op = "google")
  /\ lock' = None
  /\ epoch' = epoch + 1
  /\ Become(r, Free)
  /\ UNCHANGED <<verifyToken, resetTokens, redisVars, now, life, born,
                 overlapped, leaked, faults>>

-----------------------------------------------------------------------------
(* Sessions.                                                                *)

\* authenticate_user: the row is read, the password checked ...
BeginLogin(r) ==
  /\ Idle(r)
  /\ active /\ verified
  /\ Become(r, [Job("login", "store") EXCEPT !.ver = version, !.born = epoch])
  /\ UNCHANGED <<accountVars, redisVars, now, historyVars, faults>>

\* ... and _store_refresh adds key and index entry in one transaction.
StoreRefresh(r) ==
  /\ job[r].step = "store"
  /\ LET t == <<job[r].ver, now>>
     IN  /\ keys' = keys \cup {t}
         /\ index' = index \cup {t}
         /\ life' = [life EXCEPT ![t] = IF @ = "new" THEN "issued" ELSE "twin"]
         /\ born' = [born EXCEPT ![t] = job[r].born]
  /\ Become(r, IF job[r].op = "google" THEN [job[r] EXCEPT !.step = "commit"] ELSE Free)
  /\ UNCHANGED <<accountVars, now, epoch, overlapped, leaked, faults>>

\* Mutant of BeginRefresh: reads the key and does not delete it.
BeginRefreshKeeping(r, t) ==
  /\ Idle(r)
  /\ life[t] # "new"
  /\ \/ /\ t \in keys
        /\ life' = [life EXCEPT ![t] = IF @ = "twin" THEN @ ELSE "used"]
        /\ Become(r, [Job("refresh", "check") EXCEPT !.token = t])
     \/ t \notin keys /\ Become(r, Job("reuse", "members")) /\ UNCHANGED life
  /\ UNCHANGED <<accountVars, redisVars, now, born, epoch, overlapped, leaked, faults>>

\* refresh_access_token: GETDEL; a token without a key means reuse, and ends
\* every session of the account.
BeginRefresh(r, t) ==
  /\ Idle(r)
  /\ life[t] # "new"
  /\ \/ /\ t \in keys
        /\ keys' = keys \ {t}
        /\ life' = [life EXCEPT ![t] = IF @ = "twin" THEN @ ELSE "used"]
        /\ Become(r, [Job("refresh", "check") EXCEPT !.token = t])
     \/ t \notin keys /\ Become(r, Job("reuse", "members")) /\ UNCHANGED <<keys, life>>
  /\ UNCHANGED <<accountVars, index, now, born, epoch, overlapped, leaked, faults>>

\* SREM, then the check against the account as committed.
CheckAccount(r) ==
  /\ job[r].step = "check"
  /\ LET t == job[r].token
         valid == active /\ t[1] = version
     IN  /\ index' = index \ {t}
         /\ Become(r, IF valid THEN [Job("refresh", "store") EXCEPT !.ver = version, !.born = epoch]
                      ELSE Free)
         /\ leaked' = (leaked \/ (valid /\ born[t] # epoch))
  /\ UNCHANGED <<accountVars, keys, now, life, born, epoch, overlapped, faults>>

\* logout_user.
Logout(t) ==
  /\ life[t] # "new"
  /\ t \in keys \cup index
  /\ keys' = keys \ {t}
  /\ index' = index \ {t}
  /\ UNCHANGED <<accountVars, job, now, historyVars, faults>>

\* Redis or PostgreSQL fails: a transaction rolls back, what Redis did stays.
RequestFails(r) ==
  /\ ~Idle(r)
  /\ Fault
  /\ lock' = IF lock = r THEN None ELSE lock
  /\ Become(r, Free)
  /\ UNCHANGED <<version, active, verified, verifyToken, resetTokens, redisVars, now, historyVars>>

Tick ==
  /\ now < MaxSecond
  /\ now' = now + 1
  /\ UNCHANGED <<accountVars, redisVars, job, historyVars, faults>>

Account ==
  \/ VerifyEmail \/ ForgotPassword
  \/ \E r \in Requests :
       \/ BeginReset(r) \/ BeginDelete(r) \/ BeginGoogle(r)
       \/ BumpVersion(r) \/ ReadMembers(r) \/ Purge(r) \/ CommitBump(r)

Session ==
  \/ \E r \in Requests :
       \/ BeginLogin(r) \/ StoreRefresh(r) \/ CheckAccount(r)
       \/ \E t \in Tokens : BeginRefresh(r, t)
  \/ \E t \in Tokens : Logout(t)

Next == Account \/ Session \/ Tick \/ \E r \in Requests : RequestFails(r)

Spec == Init /\ [][Next]_vars

-----------------------------------------------------------------------------
(* Properties.                                                              *)

\* A refresh token buys one rotation: once exchanged it has no key, unless the
\* same token was handed out again within its second.
RotatedTokenIsDead == \A t \in keys : life[t] # "used"

\* A password reset, a Google login or a deletion ends every session opened
\* before it commits, requests in flight included, unless two of them read the
\* same version.
RevokedStaysOut == leaked => overlapped

=============================================================================
