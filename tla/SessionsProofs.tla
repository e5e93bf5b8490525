--------------------------- MODULE SessionsProofs ---------------------------
(***************************************************************************)
(* Theorems about Sessions, for every set of requests and every bound.     *)
(* Versions and epochs go in step as long as no two revocations overlap,   *)
(* and a token's version tells the epoch its request read the account in.  *)
(***************************************************************************)
EXTENDS Sessions, TLAPS

\* The request holds the row's lock: it has updated it and not committed.
Holding(r) == Bumping(r) /\ job[r].step \in {"members", "purge", "store", "commit"}

\* What a step of a request may rely on.
JobOK(r) ==
  /\ job[r].step \in {"write", "store", "commit"} => job[r].ver \in Versions
  /\ job[r].step \in {"write", "commit"} => Bumping(r)
  /\ job[r].step \in {"members", "purge"} =>
       job[r].op = "reuse" \/ (Bumping(r) /\ job[r].ver \in Versions)
  /\ job[r].step = "check" => job[r].token \in Tokens /\ life[job[r].token] # "new"
  /\ Holding(r) => lock = r

\* What a request writes is a version ahead, and what it mints is of its epoch.
JobInStep(r) ==
  /\ Holding(r) => job[r].ver = version + 1
  /\ job[r].step = "store" => job[r].born + 1 = job[r].ver

TokensInStep == \A t \in Tokens : life[t] # "new" => born[t] + 1 = t[1]

InStep ==
  /\ version = epoch + 1
  /\ \A r \in Requests : JobInStep(r)
  /\ TokensInStep
  /\ ~leaked

\* The inductive invariant.
IInv ==
  /\ TypeOK
  /\ \A r \in Requests : JobOK(r)
  /\ RotatedTokenIsDead
  /\ ~overlapped => InStep

-----------------------------------------------------------------------------
(* Every action keeps every variable in its type.                           *)

AccountType ==
  /\ version \in Versions
  /\ active \in BOOLEAN /\ verified \in BOOLEAN /\ verifyToken \in BOOLEAN
  /\ resetTokens \in Nat
  /\ lock \in Requests \cup {None}
  /\ now \in Seconds
  /\ faults \in 0..MaxFaults

TokenType ==
  /\ keys \subseteq Tokens /\ index \subseteq Tokens
  /\ life \in [Tokens -> {"new", "issued", "used", "twin"}]
  /\ born \in [Tokens -> Nat] /\ epoch \in Nat
  /\ overlapped \in BOOLEAN /\ leaked \in BOOLEAN

\* A committed version is one a request may hold.
LEMMA VersionRange == Versions \subseteq 0..MaxVersion /\ 0 \in 0..MaxVersion
BY SessionsAssumption DEF SessionsAssumption, Versions

\* A request that is over.
LEMMA FreeJob == Free \in Jobs
BY VersionRange DEF Free, Job, Jobs, NoToken

\* Type correctness is preserved.
LEMMA TypeStep ==
  ASSUME TypeOK, \A r \in Requests : JobOK(r), [Next]_vars
  PROVE  TypeOK'
<1>1. CASE VerifyEmail
  <2>1. faults' \in 0..MaxFaults
    BY <1>1, SessionsAssumption DEF VerifyEmail, Fault, TypeOK, SessionsAssumption
  <2> QED BY <1>1, <2>1 DEF VerifyEmail, TypeOK, redisVars, historyVars
<1>2. CASE ForgotPassword
  <2>1. job' \in [Requests -> Jobs]
    BY <1>2 DEF ForgotPassword, TypeOK
  <2>2. AccountType'
    BY <1>2, SessionsAssumption DEF ForgotPassword, AccountType, TypeOK,
       SessionsAssumption
  <2>3. TokenType'
    BY <1>2 DEF ForgotPassword, TokenType, TypeOK, redisVars, historyVars
  <2> QED BY <2>1, <2>2, <2>3 DEF TypeOK, AccountType, TokenType
<1>3. ASSUME NEW r \in Requests, BeginReset(r)
      PROVE  TypeOK'
  <2>1. job' \in [Requests -> Jobs]
    <3>1. [Job("reset", "write") EXCEPT !.ver = version] \in Jobs
      BY <1>3, VersionRange DEF Job, Jobs, TypeOK, NoToken
    <3> QED BY <1>3, <3>1 DEF BeginReset, Become, TypeOK
  <2>2. AccountType'
    BY <1>3, SessionsAssumption DEF BeginReset, AccountType, TypeOK, SessionsAssumption
  <2>3. TokenType'
    BY <1>3 DEF BeginReset, TokenType, TypeOK, redisVars, historyVars
  <2> QED BY <2>1, <2>2, <2>3 DEF TypeOK, AccountType, TokenType
<1>4. ASSUME NEW r \in Requests, BeginDelete(r)
      PROVE  TypeOK'
  <2>1. job' \in [Requests -> Jobs]
    <3>1. [Job("delete", "write") EXCEPT !.ver = version] \in Jobs
      BY <1>4, VersionRange DEF Job, Jobs, TypeOK, NoToken
    <3> QED BY <1>4, <3>1 DEF BeginDelete, Become, TypeOK
  <2>2. AccountType'
    BY <1>4, SessionsAssumption DEF BeginDelete, AccountType, TypeOK,
       SessionsAssumption, accountVars
  <2>3. TokenType'
    BY <1>4 DEF BeginDelete, TokenType, TypeOK, redisVars, historyVars
  <2> QED BY <2>1, <2>2, <2>3 DEF TypeOK, AccountType, TokenType
<1>5. ASSUME NEW r \in Requests, BeginGoogle(r)
      PROVE  TypeOK'
  <2>1. job' \in [Requests -> Jobs]
    <3>1. [Job("google", "write") EXCEPT !.ver = version] \in Jobs
      BY <1>5, VersionRange DEF Job, Jobs, TypeOK, NoToken
    <3> QED BY <1>5, <3>1 DEF BeginGoogle, Become, TypeOK
  <2>2. AccountType'
    BY <1>5, SessionsAssumption DEF BeginGoogle, AccountType, TypeOK,
       SessionsAssumption, accountVars
  <2>3. TokenType'
    BY <1>5 DEF BeginGoogle, TokenType, TypeOK, redisVars, historyVars
  <2> QED BY <2>1, <2>2, <2>3 DEF TypeOK, AccountType, TokenType
<1>6. ASSUME NEW r \in Requests, BumpVersion(r)
      PROVE  TypeOK'
  <2>1. job' \in [Requests -> Jobs]
    <3>1. job[r] \in Jobs /\ job[r].ver + 1 \in 0..MaxVersion
      BY <1>6, SessionsAssumption DEF BumpVersion, Jobs, TypeOK, SessionsAssumption
    <3>2. [job[r] EXCEPT !.step = "members", !.ver = @ + 1] \in Jobs
      BY <3>1 DEF Jobs
    <3> QED BY <1>6, <3>2 DEF BumpVersion, Become, TypeOK
  <2>2. AccountType'
    BY <1>6, SessionsAssumption DEF BumpVersion, AccountType, TypeOK, SessionsAssumption
  <2>3. TokenType'
    BY <1>6 DEF BumpVersion, TokenType, TypeOK, redisVars
  <2> QED BY <2>1, <2>2, <2>3 DEF TypeOK, AccountType, TokenType
<1>7. ASSUME NEW r \in Requests, ReadMembers(r)
      PROVE  TypeOK'
  <2>1. job' \in [Requests -> Jobs]
    <3>1. job[r] \in Jobs /\ AfterRevoke(job[r].op) \in {"none", "store", "commit"}
      BY DEF AfterRevoke, TypeOK
    <3>0. epoch + 1 \in Nat
      BY DEF TypeOK
    <3>2. [job[r] EXCEPT !.step = AfterRevoke(job[r].op), !.snap = {}, !.born = epoch + 1] \in Jobs
      BY <3>0, <3>1 DEF Jobs
    <3>3. [job[r] EXCEPT !.step = "purge", !.snap = index] \in Jobs
      BY <3>1 DEF Jobs, TypeOK
    <3> QED BY <1>7, <3>2, <3>3, FreeJob DEF ReadMembers, Revoked, Become, TypeOK
  <2>2. AccountType'
    BY <1>7, SessionsAssumption DEF ReadMembers, AccountType, TypeOK,
       SessionsAssumption, accountVars
  <2>3. TokenType'
    BY <1>7 DEF ReadMembers, TokenType, TypeOK, redisVars, historyVars
  <2> QED BY <2>1, <2>2, <2>3 DEF TypeOK, AccountType, TokenType
<1>8. ASSUME NEW r \in Requests, Purge(r)
      PROVE  TypeOK'
  <2>1. job' \in [Requests -> Jobs]
    <3>1. job[r] \in Jobs /\ AfterRevoke(job[r].op) \in {"none", "store", "commit"}
      BY DEF AfterRevoke, TypeOK
    <3>0. epoch + 1 \in Nat
      BY DEF TypeOK
    <3>2. [job[r] EXCEPT !.step = AfterRevoke(job[r].op), !.snap = {}, !.born = epoch + 1] \in Jobs
      BY <3>0, <3>1 DEF Jobs
    <3> QED BY <1>8, <3>2, FreeJob DEF Purge, Revoked, Become, TypeOK
  <2>2. AccountType'
    BY <1>8, SessionsAssumption DEF Purge, AccountType, TypeOK, SessionsAssumption,
       accountVars
  <2>3. TokenType'
    BY <1>8 DEF Purge, TokenType, TypeOK, historyVars
  <2> QED BY <2>1, <2>2, <2>3 DEF TypeOK, AccountType, TokenType
<1>9. ASSUME NEW r \in Requests, CommitBump(r)
      PROVE  TypeOK'
  <2>1. job' \in [Requests -> Jobs]
    BY <1>9, FreeJob DEF CommitBump, Become, TypeOK
  <2>4. job[r].ver \in Versions
    BY <1>9 DEF CommitBump, JobOK
  <2>2. AccountType'
    BY <1>9, <2>4, SessionsAssumption DEF CommitBump, AccountType, TypeOK,
       SessionsAssumption
  <2>3. TokenType'
    BY <1>9, <2>4 DEF CommitBump, TokenType, TypeOK, redisVars
  <2> QED BY <2>1, <2>2, <2>3 DEF TypeOK, AccountType, TokenType
<1>10. ASSUME NEW r \in Requests, BeginLogin(r)
      PROVE  TypeOK'
  <2>1. job' \in [Requests -> Jobs]
    <3>1. [Job("login", "store") EXCEPT !.ver = version, !.born = epoch] \in Jobs
      BY <1>10, VersionRange DEF Job, Jobs, TypeOK, NoToken
    <3> QED BY <1>10, <3>1 DEF BeginLogin, Become, TypeOK
  <2>2. AccountType'
    BY <1>10, SessionsAssumption DEF BeginLogin, AccountType, TypeOK,
       SessionsAssumption, accountVars
  <2>3. TokenType'
    BY <1>10 DEF BeginLogin, TokenType, TypeOK, redisVars, historyVars
  <2> QED BY <2>1, <2>2, <2>3 DEF TypeOK, AccountType, TokenType
<1>11. ASSUME NEW r \in Requests, StoreRefresh(r)
      PROVE  TypeOK'
  <2>1. job' \in [Requests -> Jobs]
    <3>1. job[r] \in Jobs
      BY DEF TypeOK
    <3>2. [job[r] EXCEPT !.step = "commit"] \in Jobs
      BY <3>1 DEF Jobs
    <3> QED BY <1>11, <3>2, FreeJob DEF StoreRefresh, Become, TypeOK
  <2>4. <<job[r].ver, now>> \in Tokens /\ job[r].born \in Nat
    BY <1>11 DEF StoreRefresh, JobOK, TypeOK, Jobs, Tokens
  <2>2. AccountType'
    BY <1>11, <2>4, SessionsAssumption DEF StoreRefresh, AccountType, TypeOK,
       SessionsAssumption, accountVars
  <2>3. TokenType'
    BY <1>11, <2>4 DEF StoreRefresh, TokenType, TypeOK
  <2> QED BY <2>1, <2>2, <2>3 DEF TypeOK, AccountType, TokenType
<1>12. ASSUME NEW r \in Requests, CheckAccount(r)
      PROVE  TypeOK'
  <2>1. job' \in [Requests -> Jobs]
    <3>1. [Job("refresh", "store") EXCEPT !.ver = version, !.born = epoch] \in Jobs
      BY VersionRange DEF Job, Jobs, TypeOK, NoToken
    <3> QED BY <1>12, <3>1, FreeJob DEF CheckAccount, Become, TypeOK
  <2>2. AccountType'
    BY <1>12, SessionsAssumption DEF CheckAccount, AccountType, TypeOK,
       SessionsAssumption, accountVars
  <2>3. TokenType'
    BY <1>12 DEF CheckAccount, TokenType, TypeOK
  <2> QED BY <2>1, <2>2, <2>3 DEF TypeOK, AccountType, TokenType
<1>13. ASSUME NEW r \in Requests, NEW t \in Tokens, BeginRefresh(r, t)
      PROVE  TypeOK'
  <2>1. job' \in [Requests -> Jobs]
    <3>1. [Job("refresh", "check") EXCEPT !.token = t] \in Jobs
      BY VersionRange DEF Job, Jobs
    <3>2. Job("reuse", "members") \in Jobs
      BY VersionRange DEF Job, Jobs, NoToken
    <3> QED BY <1>13, <3>1, <3>2 DEF BeginRefresh, Become, TypeOK
  <2>2. AccountType'
    BY <1>13, SessionsAssumption DEF BeginRefresh, AccountType, TypeOK,
       SessionsAssumption, accountVars
  <2>3. TokenType'
    BY <1>13 DEF BeginRefresh, TokenType, TypeOK
  <2> QED BY <2>1, <2>2, <2>3 DEF TypeOK, AccountType, TokenType
<1>14. ASSUME NEW t \in Tokens, Logout(t)
      PROVE  TypeOK'
  <2>1. job' \in [Requests -> Jobs]
    BY <1>14 DEF Logout, TypeOK
  <2>2. AccountType'
    BY <1>14, SessionsAssumption DEF Logout, AccountType, TypeOK, SessionsAssumption,
       accountVars
  <2>3. TokenType'
    BY <1>14 DEF Logout, TokenType, TypeOK, historyVars
  <2> QED BY <2>1, <2>2, <2>3 DEF TypeOK, AccountType, TokenType
<1>15. ASSUME NEW r \in Requests, RequestFails(r)
      PROVE  TypeOK'
  <2>1. job' \in [Requests -> Jobs]
    BY <1>15, FreeJob DEF RequestFails, Become, TypeOK
  <2>2. AccountType'
    BY <1>15, SessionsAssumption DEF RequestFails, Fault, AccountType, TypeOK,
       SessionsAssumption
  <2>3. TokenType'
    BY <1>15 DEF RequestFails, TokenType, TypeOK, redisVars, historyVars
  <2> QED BY <2>1, <2>2, <2>3 DEF TypeOK, AccountType, TokenType
<1>16. CASE Tick
  <2>1. job' \in [Requests -> Jobs]
    BY <1>16 DEF Tick, TypeOK
  <2>2. AccountType'
    BY <1>16, SessionsAssumption DEF Tick, AccountType, TypeOK, SessionsAssumption,
       Seconds, accountVars
  <2>3. TokenType'
    BY <1>16 DEF Tick, TokenType, TypeOK, redisVars, historyVars
  <2> QED BY <2>1, <2>2, <2>3 DEF TypeOK, AccountType, TokenType
<1>17. CASE UNCHANGED vars
  BY <1>17 DEF vars, accountVars, redisVars, historyVars, TypeOK
<1> QED BY <1>1, <1>2, <1>3, <1>4, <1>5, <1>6, <1>7, <1>8, <1>9, <1>10, <1>11, <1>12,
         <1>13, <1>14, <1>15, <1>16, <1>17 DEF Next, Account, Session

-----------------------------------------------------------------------------
(* What a request may rely on.                                              *)

\* A token handed out stays handed out.
LEMMA LifeGrows ==
  ASSUME TypeOK, [Next]_vars
  PROVE  \A t \in Tokens : life[t] # "new" => life'[t] # "new"
<1>1. ASSUME NEW r \in Requests, StoreRefresh(r)
      PROVE  \A t \in Tokens : life[t] # "new" => life'[t] # "new"
  BY <1>1 DEF StoreRefresh, TypeOK
<1>2. ASSUME NEW r \in Requests, NEW t \in Tokens, BeginRefresh(r, t)
      PROVE  \A u \in Tokens : life[u] # "new" => life'[u] # "new"
  BY <1>2 DEF BeginRefresh, TypeOK
<1>3. \/ life' = life
      \/ \E r \in Requests : StoreRefresh(r) \/ \E t \in Tokens : BeginRefresh(r, t)
  BY DEF Next, Account, Session, vars, historyVars, VerifyEmail, ForgotPassword, BeginReset,
     BeginDelete, BeginGoogle, BumpVersion, ReadMembers, Purge, CommitBump, BeginLogin,
     CheckAccount, Logout, RequestFails, Tick
<1> QED BY <1>1, <1>2, <1>3

\* Every step keeps to what the next steps of a request rely on: only the request
\* that holds the lock writes the version, and it holds it until it ends.
LEMMA JobStep ==
  ASSUME TypeOK, \A r \in Requests : JobOK(r), [Next]_vars
  PROVE  \A r \in Requests : JobOK(r)'
<1> SUFFICES ASSUME NEW q \in Requests
             PROVE  JobOK(q)'
  OBVIOUS
<1> USE LifeGrows
<1>1. CASE VerifyEmail
  BY <1>1 DEF VerifyEmail, JobOK, Holding, Bumping, TypeOK
<1>2. CASE ForgotPassword
  BY <1>2 DEF ForgotPassword, JobOK, Holding, Bumping, TypeOK
<1>3. ASSUME NEW r \in Requests, BeginReset(r)
      PROVE  JobOK(q)'
  <2>1. CASE q = r
    BY <1>3, <2>1 DEF BeginReset, Become, Job, JobOK, Holding, Bumping, TypeOK
  <2>2. CASE q # r
    <3>1. job'[q] = job[q]
      BY <1>3, <2>2 DEF BeginReset, Become, TypeOK
    <3>2. Holding(q) => lock' = lock
      BY <1>3, <2>2, SessionsAssumption DEF BeginReset, JobOK, Holding, Bumping,
         SessionsAssumption
    <3> QED BY <3>1, <3>2 DEF JobOK, Holding, Bumping, TypeOK, Jobs
  <2> QED BY <2>1, <2>2
<1>4. ASSUME NEW r \in Requests, BeginDelete(r)
      PROVE  JobOK(q)'
  <2>1. CASE q = r
    BY <1>4, <2>1 DEF BeginDelete, Become, Job, JobOK, Holding, Bumping, TypeOK,
       accountVars
  <2>2. CASE q # r
    <3>1. job'[q] = job[q]
      BY <1>4, <2>2 DEF BeginDelete, Become, TypeOK
    <3>2. Holding(q) => lock' = lock
      BY <1>4, <2>2, SessionsAssumption DEF BeginDelete, JobOK, Holding, Bumping,
         SessionsAssumption, accountVars
    <3> QED BY <3>1, <3>2 DEF JobOK, Holding, Bumping, TypeOK, Jobs
  <2> QED BY <2>1, <2>2
<1>5. ASSUME NEW r \in Requests, BeginGoogle(r)
      PROVE  JobOK(q)'
  <2>1. CASE q = r
    BY <1>5, <2>1 DEF BeginGoogle, Become, Job, JobOK, Holding, Bumping, TypeOK,
       accountVars
  <2>2. CASE q # r
    <3>1. job'[q] = job[q]
      BY <1>5, <2>2 DEF BeginGoogle, Become, TypeOK
    <3>2. Holding(q) => lock' = lock
      BY <1>5, <2>2, SessionsAssumption DEF BeginGoogle, JobOK, Holding, Bumping,
         SessionsAssumption, accountVars
    <3> QED BY <3>1, <3>2 DEF JobOK, Holding, Bumping, TypeOK, Jobs
  <2> QED BY <2>1, <2>2
<1>6. ASSUME NEW r \in Requests, BumpVersion(r)
      PROVE  JobOK(q)'
  <2>1. CASE q = r
    BY <1>6, <2>1, SessionsAssumption DEF BumpVersion, Become, JobOK, Holding, Bumping,
       TypeOK, Versions, Jobs, SessionsAssumption
  <2>2. CASE q # r
    <3>1. job'[q] = job[q]
      BY <1>6, <2>2 DEF BumpVersion, Become, TypeOK
    <3>2. Holding(q) => lock' = lock
      BY <1>6, <2>2, SessionsAssumption DEF BumpVersion, JobOK, Holding, Bumping,
         SessionsAssumption
    <3> QED BY <3>1, <3>2 DEF JobOK, Holding, Bumping, TypeOK, Jobs
  <2> QED BY <2>1, <2>2
<1>7. ASSUME NEW r \in Requests, ReadMembers(r)
      PROVE  JobOK(q)'
  <2>1. CASE q = r
    <3>1. CASE Revoked(r)
      BY <1>7, <2>1, <3>1 DEF ReadMembers, Become, Revoked, AfterRevoke, Free, Job, JobOK,
         Holding, Bumping, TypeOK, accountVars
    <3>2. CASE Become(r, [job[r] EXCEPT !.step = "purge", !.snap = index])
      BY <1>7, <2>1, <3>2 DEF ReadMembers, Become, JobOK, Holding, Bumping, TypeOK, accountVars
    <3> QED BY <1>7, <3>1, <3>2 DEF ReadMembers
  <2>2. CASE q # r
    <3>1. job'[q] = job[q]
      BY <1>7, <2>2 DEF ReadMembers, Revoked, Become, TypeOK
    <3>2. Holding(q) => lock' = lock
      BY <1>7, <2>2, SessionsAssumption DEF ReadMembers, JobOK, Holding, Bumping,
         SessionsAssumption, accountVars
    <3> QED BY <3>1, <3>2 DEF JobOK, Holding, Bumping, TypeOK, Jobs
  <2> QED BY <2>1, <2>2
<1>8. ASSUME NEW r \in Requests, Purge(r)
      PROVE  JobOK(q)'
  <2>1. CASE q = r
    BY <1>8, <2>1 DEF Purge, Become, Revoked, AfterRevoke, Free, Job, JobOK, Holding,
       Bumping, TypeOK, accountVars
  <2>2. CASE q # r
    <3>1. job'[q] = job[q]
      BY <1>8, <2>2 DEF Purge, Revoked, Become, TypeOK
    <3>2. Holding(q) => lock' = lock
      BY <1>8, <2>2, SessionsAssumption DEF Purge, JobOK, Holding, Bumping,
         SessionsAssumption, accountVars
    <3> QED BY <3>1, <3>2 DEF JobOK, Holding, Bumping, TypeOK, Jobs
  <2> QED BY <2>1, <2>2
<1>9. ASSUME NEW r \in Requests, CommitBump(r)
      PROVE  JobOK(q)'
  <2>1. CASE q = r
    BY <1>9, <2>1 DEF CommitBump, Become, Free, Job, JobOK, Holding, Bumping, TypeOK
  <2>2. CASE q # r
    <3>1. job'[q] = job[q]
      BY <1>9, <2>2 DEF CommitBump, Become, TypeOK
    <3>2. Holding(q) => lock' = lock
      BY <1>9, <2>2, SessionsAssumption DEF CommitBump, JobOK, Holding, Bumping,
         SessionsAssumption
    <3> QED BY <3>1, <3>2 DEF JobOK, Holding, Bumping, TypeOK, Jobs
  <2> QED BY <2>1, <2>2
<1>10. ASSUME NEW r \in Requests, BeginLogin(r)
      PROVE  JobOK(q)'
  <2>1. CASE q = r
    BY <1>10, <2>1 DEF BeginLogin, Become, Job, JobOK, Holding, Bumping, TypeOK,
       accountVars
  <2>2. CASE q # r
    <3>1. job'[q] = job[q]
      BY <1>10, <2>2 DEF BeginLogin, Become, TypeOK
    <3>2. Holding(q) => lock' = lock
      BY <1>10, <2>2, SessionsAssumption DEF BeginLogin, JobOK, Holding, Bumping,
         SessionsAssumption, accountVars
    <3> QED BY <3>1, <3>2 DEF JobOK, Holding, Bumping, TypeOK, Jobs
  <2> QED BY <2>1, <2>2
<1>11. ASSUME NEW r \in Requests, StoreRefresh(r)
      PROVE  JobOK(q)'
  <2>1. CASE q = r
    BY <1>11, <2>1 DEF StoreRefresh, Become, Free, Job, JobOK, Holding, Bumping, TypeOK,
       accountVars
  <2>2. CASE q # r
    <3>1. job'[q] = job[q]
      BY <1>11, <2>2 DEF StoreRefresh, Become, TypeOK
    <3>2. Holding(q) => lock' = lock
      BY <1>11, <2>2, SessionsAssumption DEF StoreRefresh, JobOK, Holding, Bumping,
         SessionsAssumption, accountVars
    <3> QED BY <3>1, <3>2 DEF JobOK, Holding, Bumping, TypeOK, Jobs
  <2> QED BY <2>1, <2>2
<1>12. ASSUME NEW r \in Requests, CheckAccount(r)
      PROVE  JobOK(q)'
  <2>1. CASE q = r
    BY <1>12, <2>1 DEF CheckAccount, Become, Free, Job, JobOK, Holding, Bumping, TypeOK,
       accountVars
  <2>2. CASE q # r
    <3>1. job'[q] = job[q]
      BY <1>12, <2>2 DEF CheckAccount, Become, TypeOK
    <3>2. Holding(q) => lock' = lock
      BY <1>12, <2>2, SessionsAssumption DEF CheckAccount, JobOK, Holding, Bumping,
         SessionsAssumption, accountVars
    <3> QED BY <3>1, <3>2 DEF JobOK, Holding, Bumping, TypeOK, Jobs
  <2> QED BY <2>1, <2>2
<1>13. ASSUME NEW r \in Requests, NEW t \in Tokens, BeginRefresh(r, t)
      PROVE  JobOK(q)'
  <2>1. CASE q = r
    BY <1>13, <2>1 DEF BeginRefresh, Become, Job, JobOK, Holding, Bumping, TypeOK,
       accountVars
  <2>2. CASE q # r
    <3>1. job'[q] = job[q]
      BY <1>13, <2>2 DEF BeginRefresh, Become, TypeOK
    <3>2. Holding(q) => lock' = lock
      BY <1>13, <2>2, SessionsAssumption DEF BeginRefresh, JobOK, Holding, Bumping,
         SessionsAssumption, accountVars
    <3> QED BY <3>1, <3>2 DEF JobOK, Holding, Bumping, TypeOK, Jobs
  <2> QED BY <2>1, <2>2
<1>14. ASSUME NEW t \in Tokens, Logout(t)
      PROVE  JobOK(q)'
  BY <1>14 DEF Logout, JobOK, Holding, Bumping, TypeOK, accountVars
<1>15. ASSUME NEW r \in Requests, RequestFails(r)
      PROVE  JobOK(q)'
  <2>1. CASE q = r
    BY <1>15, <2>1 DEF RequestFails, Become, Free, Job, JobOK, Holding, Bumping, TypeOK
  <2>2. CASE q # r
    <3>1. job'[q] = job[q]
      BY <1>15, <2>2 DEF RequestFails, Become, TypeOK
    <3>2. Holding(q) => lock' = lock
      BY <1>15, <2>2, SessionsAssumption DEF RequestFails, JobOK, Holding, Bumping,
         SessionsAssumption
    <3> QED BY <3>1, <3>2 DEF JobOK, Holding, Bumping, TypeOK, Jobs
  <2> QED BY <2>1, <2>2
<1>16. CASE Tick
  BY <1>16 DEF Tick, JobOK, Holding, Bumping, TypeOK, accountVars
<1>17. CASE UNCHANGED vars
  BY <1>17 DEF vars, accountVars, redisVars, historyVars, JobOK, Holding, Bumping
<1> QED BY <1>1, <1>2, <1>3, <1>4, <1>5, <1>6, <1>7, <1>8, <1>9, <1>10, <1>11, <1>12,
         <1>13, <1>14, <1>15, <1>16, <1>17 DEF Next, Account, Session

-----------------------------------------------------------------------------
(* Rotation.                                                                *)

\* A key is only added as its token is handed out, and goes as it is exchanged.
LEMMA TokenStep ==
  ASSUME TypeOK, \A r \in Requests : JobOK(r), RotatedTokenIsDead, [Next]_vars
  PROVE  RotatedTokenIsDead'
<1>1. ASSUME NEW r \in Requests, StoreRefresh(r)
      PROVE  RotatedTokenIsDead'
  <2>1. <<job[r].ver, now>> \in Tokens
    BY <1>1 DEF StoreRefresh, JobOK, TypeOK, Tokens
  <2> QED BY <1>1, <2>1 DEF StoreRefresh, RotatedTokenIsDead, TypeOK
<1>2. ASSUME NEW r \in Requests, NEW t \in Tokens, BeginRefresh(r, t)
      PROVE  RotatedTokenIsDead'
  BY <1>2 DEF BeginRefresh, RotatedTokenIsDead, TypeOK
<1>3. \/ life' = life /\ keys' \subseteq keys
      \/ \E r \in Requests : StoreRefresh(r) \/ \E t \in Tokens : BeginRefresh(r, t)
  BY DEF Next, Account, Session, vars, redisVars, historyVars, VerifyEmail, ForgotPassword,
     BeginReset, BeginDelete, BeginGoogle, BumpVersion, ReadMembers, Purge, CommitBump,
     BeginLogin, CheckAccount, Logout, RequestFails, Tick
<1> QED BY <1>1, <1>2, <1>3 DEF RotatedTokenIsDead

-----------------------------------------------------------------------------
(* Versions and epochs in step.                                             *)

\* What a request will write or mint stays in step.
LEMMA JobInStepStep ==
  ASSUME TypeOK, \A r \in Requests : JobOK(r), InStep, ~overlapped', [Next]_vars
  PROVE  \A r \in Requests : JobInStep(r)'
<1> SUFFICES ASSUME NEW q \in Requests
             PROVE  JobInStep(q)'
  OBVIOUS
<1>1. CASE VerifyEmail
  BY <1>1 DEF VerifyEmail, InStep, JobInStep, Holding, Bumping
<1>2. CASE ForgotPassword
  BY <1>2 DEF ForgotPassword, InStep, JobInStep, Holding, Bumping
<1>3. ASSUME NEW r \in Requests, BeginReset(r)
      PROVE  JobInStep(q)'
  <2>1. CASE q = r
    BY <1>3, <2>1 DEF BeginReset, Become, Job, InStep, JobOK, JobInStep, Holding,
       Bumping, TypeOK, historyVars
  <2>2. CASE q # r
    <3>1. job'[q] = job[q]
      BY <1>3, <2>2 DEF BeginReset, Become, TypeOK
    <3>2. version' = version
      BY <1>3 DEF BeginReset
    <3> QED BY <3>1, <3>2 DEF InStep, JobInStep, Holding, Bumping
  <2> QED BY <2>1, <2>2
<1>4. ASSUME NEW r \in Requests, BeginDelete(r)
      PROVE  JobInStep(q)'
  <2>1. CASE q = r
    BY <1>4, <2>1 DEF BeginDelete, Become, Job, InStep, JobOK, JobInStep, Holding,
       Bumping, TypeOK, accountVars, historyVars
  <2>2. CASE q # r
    <3>1. job'[q] = job[q]
      BY <1>4, <2>2 DEF BeginDelete, Become, TypeOK
    <3>2. version' = version
      BY <1>4 DEF BeginDelete, accountVars
    <3> QED BY <3>1, <3>2 DEF InStep, JobInStep, Holding, Bumping
  <2> QED BY <2>1, <2>2
<1>5. ASSUME NEW r \in Requests, BeginGoogle(r)
      PROVE  JobInStep(q)'
  <2>1. CASE q = r
    BY <1>5, <2>1 DEF BeginGoogle, Become, Job, InStep, JobOK, JobInStep, Holding,
       Bumping, TypeOK, accountVars, historyVars
  <2>2. CASE q # r
    <3>1. job'[q] = job[q]
      BY <1>5, <2>2 DEF BeginGoogle, Become, TypeOK
    <3>2. version' = version
      BY <1>5 DEF BeginGoogle, accountVars
    <3> QED BY <3>1, <3>2 DEF InStep, JobInStep, Holding, Bumping
  <2> QED BY <2>1, <2>2
<1>6. ASSUME NEW r \in Requests, BumpVersion(r)
      PROVE  JobInStep(q)'
  <2>1. CASE q = r
    <3>1. job[r].ver = version
      BY <1>6 DEF BumpVersion, TypeOK
    <3>2. job'[r] = [job[r] EXCEPT !.step = "members", !.ver = @ + 1] /\ version' = version
      BY <1>6 DEF BumpVersion, Become, TypeOK
    <3>3. job'[r].ver = version + 1 /\ job'[r].step = "members"
      BY <3>1, <3>2 DEF TypeOK, Jobs
    <3> QED BY <2>1, <3>2, <3>3 DEF JobInStep
  <2>2. CASE q # r
    <3>1. job'[q] = job[q]
      BY <1>6, <2>2 DEF BumpVersion, Become, TypeOK
    <3>2. version' = version
      BY <1>6 DEF BumpVersion
    <3> QED BY <3>1, <3>2 DEF InStep, JobInStep, Holding, Bumping
  <2> QED BY <2>1, <2>2
<1>7. ASSUME NEW r \in Requests, ReadMembers(r)
      PROVE  JobInStep(q)'
  <2>1. CASE q = r
    <3>1. CASE Revoked(r)
      BY <1>7, <2>1, <3>1 DEF ReadMembers, Become, Revoked, AfterRevoke, Free, Job, InStep,
         JobOK, JobInStep, Holding, Bumping, TypeOK, accountVars, historyVars
    <3>2. CASE Become(r, [job[r] EXCEPT !.step = "purge", !.snap = index])
      BY <1>7, <2>1, <3>2 DEF ReadMembers, Become, InStep, JobInStep, Holding, Bumping, TypeOK,
         accountVars
    <3> QED BY <1>7, <3>1, <3>2 DEF ReadMembers
  <2>2. CASE q # r
    <3>1. job'[q] = job[q]
      BY <1>7, <2>2 DEF ReadMembers, Revoked, Become, TypeOK
    <3>2. version' = version
      BY <1>7 DEF ReadMembers, accountVars
    <3> QED BY <3>1, <3>2 DEF InStep, JobInStep, Holding, Bumping
  <2> QED BY <2>1, <2>2
<1>8. ASSUME NEW r \in Requests, Purge(r)
      PROVE  JobInStep(q)'
  <2>1. CASE q = r
    BY <1>8, <2>1 DEF Purge, Become, Revoked, AfterRevoke, Free, Job, InStep, JobOK,
       JobInStep, Holding, Bumping, TypeOK, accountVars, historyVars
  <2>2. CASE q # r
    <3>1. job'[q] = job[q]
      BY <1>8, <2>2 DEF Purge, Revoked, Become, TypeOK
    <3>2. version' = version
      BY <1>8 DEF Purge, accountVars
    <3> QED BY <3>1, <3>2 DEF InStep, JobInStep, Holding, Bumping
  <2> QED BY <2>1, <2>2
<1>9. ASSUME NEW r \in Requests, CommitBump(r)
      PROVE  JobInStep(q)'
  <2>1. CASE q = r
    BY <1>9, <2>1 DEF CommitBump, Become, Free, Job, InStep, JobOK, JobInStep, Holding,
       Bumping, TypeOK
  <2>2. CASE q # r
    <3>1. job'[q] = job[q]
      BY <1>9, <2>2 DEF CommitBump, Become, TypeOK
    <3>2. ~Holding(q)
      BY <1>9, <2>2 DEF CommitBump, JobOK, Holding, Bumping
    <3> QED BY <3>1, <3>2 DEF InStep, JobInStep, Holding, Bumping
  <2> QED BY <2>1, <2>2
<1>10. ASSUME NEW r \in Requests, BeginLogin(r)
      PROVE  JobInStep(q)'
  <2>1. CASE q = r
    BY <1>10, <2>1 DEF BeginLogin, Become, Job, InStep, JobOK, JobInStep, Holding,
       Bumping, TypeOK, accountVars, historyVars
  <2>2. CASE q # r
    <3>1. job'[q] = job[q]
      BY <1>10, <2>2 DEF BeginLogin, Become, TypeOK
    <3>2. version' = version
      BY <1>10 DEF BeginLogin, accountVars
    <3> QED BY <3>1, <3>2 DEF InStep, JobInStep, Holding, Bumping
  <2> QED BY <2>1, <2>2
<1>11. ASSUME NEW r \in Requests, StoreRefresh(r)
      PROVE  JobInStep(q)'
  <2>1. CASE q = r
    BY <1>11, <2>1 DEF StoreRefresh, Become, Free, Job, InStep, JobOK, JobInStep,
       Holding, Bumping, TypeOK, accountVars
  <2>2. CASE q # r
    <3>1. job'[q] = job[q]
      BY <1>11, <2>2 DEF StoreRefresh, Become, TypeOK
    <3>2. version' = version
      BY <1>11 DEF StoreRefresh, accountVars
    <3> QED BY <3>1, <3>2 DEF InStep, JobInStep, Holding, Bumping
  <2> QED BY <2>1, <2>2
<1>12. ASSUME NEW r \in Requests, CheckAccount(r)
      PROVE  JobInStep(q)'
  <2>1. CASE q = r
    BY <1>12, <2>1 DEF CheckAccount, Become, Free, Job, InStep, JobOK, JobInStep,
       Holding, Bumping, TypeOK, accountVars
  <2>2. CASE q # r
    <3>1. job'[q] = job[q]
      BY <1>12, <2>2 DEF CheckAccount, Become, TypeOK
    <3>2. version' = version
      BY <1>12 DEF CheckAccount, accountVars
    <3> QED BY <3>1, <3>2 DEF InStep, JobInStep, Holding, Bumping
  <2> QED BY <2>1, <2>2
<1>13. ASSUME NEW r \in Requests, NEW t \in Tokens, BeginRefresh(r, t)
      PROVE  JobInStep(q)'
  <2>1. CASE q = r
    BY <1>13, <2>1 DEF BeginRefresh, Become, Job, InStep, JobOK, JobInStep, Holding,
       Bumping, TypeOK, accountVars
  <2>2. CASE q # r
    <3>1. job'[q] = job[q]
      BY <1>13, <2>2 DEF BeginRefresh, Become, TypeOK
    <3>2. version' = version
      BY <1>13 DEF BeginRefresh, accountVars
    <3> QED BY <3>1, <3>2 DEF InStep, JobInStep, Holding, Bumping
  <2> QED BY <2>1, <2>2
<1>14. ASSUME NEW t \in Tokens, Logout(t)
      PROVE  JobInStep(q)'
  BY <1>14 DEF Logout, InStep, JobInStep, Holding, Bumping, accountVars
<1>15. ASSUME NEW r \in Requests, RequestFails(r)
      PROVE  JobInStep(q)'
  <2>1. CASE q = r
    BY <1>15, <2>1 DEF RequestFails, Become, Free, Job, InStep, JobOK, JobInStep,
       Holding, Bumping, TypeOK, historyVars
  <2>2. CASE q # r
    <3>1. job'[q] = job[q]
      BY <1>15, <2>2 DEF RequestFails, Become, TypeOK
    <3>2. version' = version
      BY <1>15 DEF RequestFails
    <3> QED BY <3>1, <3>2 DEF InStep, JobInStep, Holding, Bumping
  <2> QED BY <2>1, <2>2
<1>16. CASE Tick
  BY <1>16 DEF Tick, InStep, JobInStep, Holding, Bumping, accountVars
<1>17. CASE UNCHANGED vars
  BY <1>17 DEF vars, accountVars, redisVars, historyVars, InStep, JobInStep, Holding,
     Bumping
<1> QED BY <1>1, <1>2, <1>3, <1>4, <1>5, <1>6, <1>7, <1>8, <1>9, <1>10, <1>11, <1>12,
         <1>13, <1>14, <1>15, <1>16, <1>17 DEF Next, Account, Session

\* A token minted for an account that was read before a revocation carries the
\* version from before it.
LEMMA TokensInStepStep ==
  ASSUME TypeOK, \A r \in Requests : JobOK(r), InStep, [Next]_vars
  PROVE  TokensInStep'
<1>1. ASSUME NEW r \in Requests, StoreRefresh(r)
      PROVE  TokensInStep'
  <2>1. job[r].born + 1 = job[r].ver
    BY <1>1 DEF StoreRefresh, InStep, JobInStep
  <2>2. <<job[r].ver, now>> \in Tokens
    BY <1>1 DEF StoreRefresh, JobOK, TypeOK, Tokens
  <2> QED BY <1>1, <2>1, <2>2 DEF StoreRefresh, InStep, TokensInStep, TypeOK
<1>2. ASSUME NEW r \in Requests, NEW t \in Tokens, BeginRefresh(r, t)
      PROVE  TokensInStep'
  BY <1>2 DEF BeginRefresh, InStep, TokensInStep, TypeOK
<1>3. \/ UNCHANGED <<life, born>>
      \/ \E r \in Requests : StoreRefresh(r) \/ \E t \in Tokens : BeginRefresh(r, t)
  BY DEF Next, Account, Session, vars, historyVars, VerifyEmail, ForgotPassword, BeginReset,
     BeginDelete, BeginGoogle, BumpVersion, ReadMembers, Purge, CommitBump, BeginLogin,
     CheckAccount, Logout, RequestFails, Tick
<1> QED BY <1>1, <1>2, <1>3 DEF InStep, TokensInStep

\* While no two revocations overlap each commit raises the version with the
\* epoch, and no token of an earlier epoch passes the check of its version.
LEMMA InStepStep ==
  ASSUME TypeOK, \A r \in Requests : JobOK(r), InStep, ~overlapped', [Next]_vars
  PROVE  InStep'
<1>1. version' = epoch' + 1
  <2>1. ASSUME NEW r \in Requests, CommitBump(r)
        PROVE  version' = epoch' + 1
    BY <2>1 DEF CommitBump, InStep, JobInStep, JobOK, Holding, Bumping, TypeOK, Versions, Jobs
  <2>2. UNCHANGED <<version, epoch>> \/ \E r \in Requests : CommitBump(r)
    BY DEF Next, Account, Session, vars, accountVars, historyVars, VerifyEmail,
       ForgotPassword, BeginReset, BeginDelete, BeginGoogle, BumpVersion, ReadMembers, Purge,
       BeginLogin, StoreRefresh, CheckAccount, BeginRefresh, Logout, RequestFails, Tick
  <2> QED BY <2>1, <2>2 DEF InStep
<1>2. ~leaked'
  <2>1. ASSUME NEW r \in Requests, CheckAccount(r)
        PROVE  ~leaked'
    <3>1. job[r].token \in Tokens /\ life[job[r].token] # "new"
      BY <2>1 DEF CheckAccount, JobOK
    <3>2. PICK t \in Tokens : t = job[r].token
      BY <3>1
    <3>3. born[t] + 1 = t[1] /\ born[t] \in Nat /\ epoch \in Nat
      BY <3>1, <3>2 DEF InStep, TokensInStep, TypeOK
    <3>4. t[1] = version => born[t] = epoch
      BY <3>3 DEF InStep
    <3> QED BY <2>1, <3>2, <3>4 DEF CheckAccount, InStep
  <2>2. leaked' = leaked \/ \E r \in Requests : CheckAccount(r)
    BY DEF Next, Account, Session, vars, historyVars, VerifyEmail, ForgotPassword, BeginReset,
       BeginDelete, BeginGoogle, BumpVersion, ReadMembers, Purge, CommitBump, BeginLogin,
       StoreRefresh, BeginRefresh, Logout, RequestFails, Tick
  <2> QED BY <2>1, <2>2 DEF InStep
<1> QED BY <1>1, <1>2, JobInStepStep, TokensInStepStep DEF InStep

-----------------------------------------------------------------------------
(* The theorems.                                                            *)

\* A new account has no sessions.
LEMMA Start == Init => IInv
<1> SUFFICES ASSUME Init
             PROVE  IInv
  OBVIOUS
<1>1. TypeOK
  <2>1. version \in Versions /\ now \in Seconds /\ faults \in 0..MaxFaults
    BY SessionsAssumption DEF SessionsAssumption, Init, Versions, Seconds
  <2>2. job \in [Requests -> Jobs]
    BY FreeJob DEF Init
  <2> QED BY <2>1, <2>2 DEF Init, TypeOK
<1>2. \A r \in Requests : JobOK(r)
  BY DEF Init, Free, Job, JobOK, Holding, Bumping
<1>3. RotatedTokenIsDead
  BY DEF Init, RotatedTokenIsDead
<1>4. InStep
  BY DEF Init, InStep, JobInStep, TokensInStep, Holding, Bumping, Free, Job
<1> QED BY <1>1, <1>2, <1>3, <1>4 DEF IInv

\* overlapped is never taken back.
LEMMA OverlapStays ==
  ASSUME [Next]_vars, ~overlapped', overlapped \in BOOLEAN
  PROVE  ~overlapped
BY DEF Next, Account, Session, vars, historyVars, VerifyEmail, ForgotPassword, BeginReset,
   BeginDelete, BeginGoogle, BumpVersion, ReadMembers, Purge, CommitBump, BeginLogin,
   StoreRefresh, CheckAccount, BeginRefresh, Logout, RequestFails, Tick

\* The inductive invariant holds throughout.
THEOREM Inductive == Spec => []IInv
<1>1. IInv /\ [Next]_vars => IInv'
  <2> SUFFICES ASSUME IInv, [Next]_vars
               PROVE  IInv'
    OBVIOUS
  <2>1. TypeOK'
    BY TypeStep DEF IInv
  <2>2. \A r \in Requests : JobOK(r)'
    BY JobStep DEF IInv
  <2>3. RotatedTokenIsDead'
    BY TokenStep DEF IInv
  <2>4. ~overlapped' => InStep'
    BY OverlapStays, InStepStep DEF IInv, TypeOK
  <2> QED BY <2>1, <2>2, <2>3, <2>4 DEF IInv
<1> QED BY Start, <1>1, PTL DEF Spec

\* The account's row, its Redis keys and its requests stay in their types.
THEOREM TypeCorrect == Spec => []TypeOK
<1>1. IInv => TypeOK
  BY DEF IInv
<1> QED BY <1>1, Inductive, PTL

\* refresh_access_token's GETDEL makes a refresh token good for one rotation,
\* whatever requests run beside it and wherever they fail.
THEOREM RotationIsFinal == Spec => []RotatedTokenIsDead
<1>1. IInv => RotatedTokenIsDead
  BY DEF IInv
<1> QED BY <1>1, Inductive, PTL

\* token_version keeps out every session opened before a revocation committed,
\* even one whose key is written after the revocation has purged the keys.
THEOREM RevocationIsFinal == Spec => []RevokedStaysOut
<1>1. IInv => RevokedStaysOut
  BY DEF IInv, InStep, RevokedStaysOut
<1> QED BY <1>1, Inductive, PTL

=============================================================================
