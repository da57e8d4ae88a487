---------------------------- MODULE AuthTokensProofs ----------------------------
(***************************************************************************)
(* Proofs of the safety properties of AuthTokens, for any accounts,        *)
(* lifetimes and cleanup interval.                                         *)
(***************************************************************************)
EXTENDS AuthTokens, TLAPS

\* An entry is kept until the token's own expiry, and a token that was ended is
\* in the blacklist or expired: no sweep opens a gap between the two.
EntriesOutlive ==
  /\ \A t \in DOMAIN blacklist : blacklist[t] = t.exp
  /\ \A t \in ended : t \in DOMAIN blacklist \/ now > t.exp

\* The last sweep left nothing expired, and the last request that ended a
\* session swept if it was due.
SweepsKeepUp ==
  /\ \A t \in DOMAIN blacklist : lastCleanup \leq blacklist[t]
  /\ lastEnd - lastCleanup \leq CleanupInterval

IInv == TypeOK /\ EntriesOutlive /\ SweepsKeepUp

-----------------------------------------------------------------------------
\* What a client is handed are tokens.
LEMMA NewTokensType ==
  ASSUME NEW u \in Users, TypeOK, Exists(u)
  PROVE  NewTokens(u) \subseteq Token
<1> USE AuthAssumption
<1> SUFFICES ASSUME NEW kind \in Kinds
             PROVE  NewToken(u, kind) \in Token
  BY DEF NewTokens
<1>1. accounts[u] \in Account
  BY DEF TypeOK, Exists
<1>2. accounts[u].admin \in BOOLEAN /\ accounts[u].profile \in Profiles
  BY <1>1 DEF Account
<1> DEFINE time == now + IF kind = "access" THEN AccessLife ELSE RefreshLife
<1>3. time \in Int
  BY DEF TypeOK
<1>4. time % Second \in Int
  BY <1>3
<1>5. Encoded(time) \in Int
  <2> HIDE DEF time
  <2> QED BY <1>3, <1>4 DEF Encoded
<1> QED
  BY <1>2, <1>5 DEF NewToken, Token

\* Handing out tokens leaves the clients with tokens.
LEMMA HandOutType ==
  ASSUME NEW u \in Users, TypeOK, Exists(u), HandOut(u)
  PROVE  issued \subseteq issued' /\ issued' \subseteq Token
BY NewTokensType DEF HandOut, TypeOK

\* An accepted token belongs to an account.
LEMMA AuthenticatedFacts ==
  ASSUME NEW t \in issued, TypeOK, Authenticated(t)
  PROVE  /\ t \in Token /\ t.user \in Users /\ t.exp \in Int
         /\ Exists(t.user) /\ accounts[t.user] \in Account
         /\ accounts[t.user].active
         /\ now \leq t.exp
<1>1. t \in Token /\ t.user \in Users /\ t.exp \in Int
  BY DEF TypeOK, Token
<1> QED
  BY <1>1 DEF Authenticated, Active, Exists, Verified, TypeOK

\* Ending a token keeps the blacklist in order.
LEMMA InvalidateKeeps ==
  ASSUME IInv, NEW t \in issued, t.exp \in Int, now \leq t.exp, Invalidate(t),
         now' = now
  PROVE  /\ blacklist' \in [DOMAIN blacklist' -> Int]
         /\ DOMAIN blacklist' \subseteq ended' /\ ended' \subseteq issued
         /\ lastEnd' \in 0..now' /\ lastCleanup' \in 0..lastEnd'
         /\ EntriesOutlive' /\ SweepsKeepUp'
<1> USE AuthAssumption DEF IInv
<1> DEFINE entries == With(t)
<1>1. DOMAIN entries = DOMAIN blacklist \cup {t}
  BY DEF With
<1>2. /\ entries[t] = t.exp
      /\ \A s \in DOMAIN entries : entries[s] = s.exp /\ entries[s] \in Int
  BY DEF With, EntriesOutlive, TypeOK
<1>3. now \in Int /\ lastCleanup \in Int /\ lastEnd \in Int /\ CleanupInterval \in Int
      /\ 0 \leq lastCleanup /\ lastCleanup \leq lastEnd /\ lastEnd \leq now
  BY DEF TypeOK
<1>4. \A s \in DOMAIN entries : lastCleanup \leq entries[s]
  BY <1>1, <1>2, <1>3 DEF SweepsKeepUp, EntriesOutlive
<1> HIDE DEF entries
<1>5. /\ DOMAIN blacklist' = {s \in DOMAIN entries : ~(CleanupDue /\ Over(entries[s]))}
      /\ \A s \in DOMAIN blacklist' : blacklist'[s] = entries[s]
      /\ blacklist' = [s \in DOMAIN blacklist' |-> entries[s]]
  BY DEF Invalidate, Swept, entries
<1>6. ended' = ended \cup {t} /\ lastEnd' = now
  BY DEF Invalidate
<1>7. blacklist' \in [DOMAIN blacklist' -> Int]
  BY <1>2, <1>5
<1>8. DOMAIN blacklist' \subseteq ended' /\ ended' \subseteq issued
  BY <1>1, <1>5, <1>6 DEF TypeOK
<1>9. lastEnd' \in 0..now' /\ lastCleanup' \in 0..lastEnd'
  BY <1>3, <1>6 DEF Invalidate
<1>10. EntriesOutlive'
  <2>1. \A s \in DOMAIN blacklist' : blacklist'[s] = s.exp
    BY <1>2, <1>5
  <2>2. ASSUME NEW s \in ended'
        PROVE  s \in DOMAIN blacklist' \/ now' > s.exp
    <3>1. CASE s \in DOMAIN entries
      BY <1>2, <1>5, <3>1 DEF Over
    <3>2. CASE s \notin DOMAIN entries
      BY <1>1, <1>6, <3>2 DEF EntriesOutlive
    <3> QED
      BY <3>1, <3>2
  <2> QED
    BY <2>1, <2>2 DEF EntriesOutlive
<1>11. SweepsKeepUp'
  <2>1. CASE CleanupDue
    <3>1. lastCleanup' = now
      BY <2>1 DEF Invalidate
    <3>2. \A s \in DOMAIN blacklist' : now \leq blacklist'[s]
      BY <1>2, <1>3, <1>5, <2>1 DEF Over
    <3> QED
      BY <1>3, <1>6, <3>1, <3>2 DEF SweepsKeepUp
  <2>2. CASE ~CleanupDue
    <3>1. lastCleanup' = lastCleanup
      BY <2>2 DEF Invalidate
    <3>2. now - lastCleanup \leq CleanupInterval
      BY <1>3, <2>2 DEF CleanupDue
    <3>3. \A s \in DOMAIN blacklist' : lastCleanup \leq blacklist'[s]
      BY <1>4, <1>5
    <3> QED
      BY <1>6, <3>1, <3>2, <3>3 DEF SweepsKeepUp
  <2> QED
    BY <2>1, <2>2
<1> QED
  BY <1>7, <1>8, <1>9, <1>10, <1>11

\* A step that writes an account leaves the rest of the invariant alone.
LEMMA SetAccountKeeps ==
  ASSUME IInv, NEW u \in Users, NEW account \in Account \cup {NoAccount},
         SetAccount(u, account)
  PROVE  IInv'
BY DEF IInv, TypeOK, EntriesOutlive, SweepsKeepUp, SetAccount

-----------------------------------------------------------------------------
\* The invariant holds at the start.
LEMMA InitInv == Init => IInv
BY AuthAssumption DEF Init, IInv, TypeOK, EntriesOutlive, SweepsKeepUp

\* Every step keeps the invariant.
LEMMA StepInv == IInv /\ [Next]_vars => IInv'
<1> SUFFICES ASSUME IInv, [Next]_vars
             PROVE  IInv'
  OBVIOUS
<1> USE AuthAssumption
<1>t. TypeOK
  BY DEF IInv
<1>1. CASE Tick
  BY <1>1 DEF Tick, IInv, TypeOK, EntriesOutlive, SweepsKeepUp, Token
<1>2. ASSUME NEW u \in Users, NEW p \in Passwords, Login(u, p)
      PROVE  IInv'
  <2>1. issued \subseteq issued' /\ issued' \subseteq Token
    BY <1>2, <1>t, HandOutType DEF Login, Active
  <2> QED
    BY <1>2, <2>1 DEF Login, IInv, TypeOK, EntriesOutlive, SweepsKeepUp
<1>3. ASSUME NEW t \in issued, Refresh(t)
      PROVE  IInv'
  <2>1. /\ t.user \in Users /\ t.exp \in Int /\ Exists(t.user) /\ now \leq t.exp
        /\ Invalidate(t) /\ HandOut(t.user) /\ UNCHANGED <<now, accounts>>
    BY <1>3, <1>t, AuthenticatedFacts DEF Refresh
  <2>2. issued \subseteq issued' /\ issued' \subseteq Token
    BY <2>1, <1>t, HandOutType
  <2>3. /\ blacklist' \in [DOMAIN blacklist' -> Int]
        /\ DOMAIN blacklist' \subseteq ended' /\ ended' \subseteq issued
        /\ lastEnd' \in 0..now' /\ lastCleanup' \in 0..lastEnd'
        /\ EntriesOutlive' /\ SweepsKeepUp'
    BY <2>1, InvalidateKeeps
  <2> QED
    BY <2>1, <2>2, <2>3 DEF IInv, TypeOK
<1>4. ASSUME NEW t \in issued, Logout(t)
      PROVE  IInv'
  <2>1. /\ t.exp \in Int /\ now \leq t.exp
        /\ Invalidate(t) /\ UNCHANGED <<now, accounts, issued>>
    BY <1>4, <1>t, AuthenticatedFacts DEF Logout
  <2>2. /\ blacklist' \in [DOMAIN blacklist' -> Int]
        /\ DOMAIN blacklist' \subseteq ended' /\ ended' \subseteq issued
        /\ lastEnd' \in 0..now' /\ lastCleanup' \in 0..lastEnd'
        /\ EntriesOutlive' /\ SweepsKeepUp'
    BY <2>1, InvalidateKeeps
  <2> QED
    BY <2>1, <2>2 DEF IInv, TypeOK
<1>5. ASSUME NEW t \in issued, Refused(t)
      PROVE  IInv'
  <2>1. /\ DOMAIN blacklist' = DOMAIN blacklist \ {s \in {t} : ~Blacklisted(s)}
        /\ \A s \in DOMAIN blacklist' : blacklist'[s] = blacklist[s]
        /\ blacklist' = [s \in DOMAIN blacklist' |-> blacklist[s]]
        /\ UNCHANGED <<now, accounts, lastCleanup, issued, ended, lastEnd>>
    BY <1>5 DEF Refused, Without
  <2>2. blacklist' \in [DOMAIN blacklist' -> Int] /\ DOMAIN blacklist' \subseteq ended'
    BY <2>1 DEF IInv, TypeOK
  <2>3. ASSUME NEW s \in ended'
        PROVE  s \in DOMAIN blacklist' \/ now' > s.exp
    <3>1. s \in DOMAIN blacklist \/ now > s.exp
      BY <2>1 DEF IInv, EntriesOutlive
    <3>2. CASE s \in DOMAIN blacklist /\ s \notin DOMAIN blacklist'
      <4>1. s = t /\ ~Blacklisted(s)
        BY <2>1, <3>2
      <4>2. now > blacklist[s] /\ blacklist[s] = s.exp
        BY <4>1, <3>2 DEF Blacklisted, Over, IInv, EntriesOutlive
      <4> QED
        BY <2>1, <4>2
    <3> QED
      BY <2>1, <3>1, <3>2
  <2>4. EntriesOutlive'
    BY <2>1, <2>3 DEF IInv, EntriesOutlive
  <2>5. SweepsKeepUp'
    BY <2>1 DEF IInv, SweepsKeepUp
  <2> QED
    BY <2>1, <2>2, <2>4, <2>5 DEF IInv, TypeOK
<1>6. ASSUME NEW t \in issued, NEW old \in Passwords, NEW new \in Passwords,
             ChangePassword(t, old, new)
      PROVE  IInv'
  <2>1. t.user \in Users /\ accounts[t.user] \in Account
    BY <1>6, <1>t, AuthenticatedFacts DEF ChangePassword
  <2>2. [accounts[t.user] EXCEPT !.password = new] \in Account
    BY <2>1 DEF Account
  <2> QED
    BY <1>6, <2>1, <2>2, SetAccountKeeps DEF ChangePassword
<1>7. ASSUME NEW t \in issued, NEW admin \in BOOLEAN, NEW active \in BOOLEAN,
             NEW profile \in Profiles, UpdateMe(t, admin, active, profile)
      PROVE  IInv'
  <2>1. t.user \in Users /\ accounts[t.user] \in Account
    BY <1>7, <1>t, AuthenticatedFacts DEF UpdateMe
  <2>2. [accounts[t.user] EXCEPT !.admin = admin, !.active = active,
                                 !.profile = profile] \in Account
    BY <2>1 DEF Account
  <2> QED
    BY <1>7, <2>1, <2>2, SetAccountKeeps DEF UpdateMe
<1>8. ASSUME NEW t \in issued, NEW admin \in BOOLEAN, NEW active \in BOOLEAN,
             NEW profile \in Profiles, NEW u \in Users,
             UpdateUser(t, u, admin, active, profile)
      PROVE  IInv'
  <2>1. accounts[u] \in Account
    BY <1>8, <1>t DEF UpdateUser, Exists, TypeOK
  <2>2. [accounts[u] EXCEPT !.admin = admin, !.active = active,
                            !.profile = profile] \in Account
    BY <2>1 DEF Account
  <2> QED
    BY <1>8, <2>2, SetAccountKeeps DEF UpdateUser
<1>9. ASSUME NEW t \in issued, NEW u \in Users, DeleteUser(t, u)
      PROVE  IInv'
  BY <1>9, SetAccountKeeps DEF DeleteUser
<1>10. ASSUME NEW t \in issued, NEW u \in Users, NEW account \in Account,
              CreateUser(t, u, account)
       PROVE  IInv'
  BY <1>10, SetAccountKeeps DEF CreateUser
<1>11. CASE UNCHANGED vars
  BY <1>11 DEF vars, IInv, TypeOK, EntriesOutlive, SweepsKeepUp
<1> QED
  BY <1>1, <1>2, <1>3, <1>4, <1>5, <1>6, <1>7, <1>8, <1>9, <1>10, <1>11 DEF Next

\* The invariant holds throughout.
THEOREM Invariance == Spec => []IInv
BY InitInv, StepInv, PTL DEF Spec

\* Type correctness, for every value of the constants.
THEOREM TypeCorrect == Spec => []TypeOK
<1>1. IInv => TypeOK
  BY DEF IInv
<1> QED
  BY Invariance, <1>1, PTL

\* A token that was ended does not verify: its entry outlives it.
LEMMA EndedNotVerified ==
  ASSUME IInv, NEW t \in ended
  PROVE  ~Verified(t)
<1> SUFFICES ASSUME Verified(t) PROVE FALSE
  OBVIOUS
<1>1. t.exp \in Int /\ now \in Int
  BY DEF IInv, TypeOK, Token
<1>2. now \leq t.exp /\ t \in DOMAIN blacklist /\ blacklist[t] = t.exp
  BY <1>1 DEF IInv, EntriesOutlive, Verified
<1> QED
  BY <1>1, <1>2 DEF Verified, Blacklisted, Over

\* A token that was logged out or exchanged is never accepted again
\* (TokenBlacklist, JWTManager.verify_token).
THEOREM EndedCorrect == Spec => []EndedStayEnded
<1>1. IInv => EndedStayEnded
  BY EndedNotVerified DEF EndedStayEnded
<1> QED
  BY Invariance, <1>1, PTL

\* The blacklist holds no entry that had expired a cleanup interval before the
\* latest request that ended a session (TokenBlacklist._cleanup_if_needed).
THEOREM SweptCorrect == Spec => []BlacklistIsSwept
<1>1. IInv => BlacklistIsSwept
  BY AuthAssumption DEF IInv, TypeOK, SweepsKeepUp, BlacklistIsSwept
<1> QED
  BY Invariance, <1>1, PTL

\* No deletion leaves the service without an active admin (delete_user).
THEOREM DeletionsCorrect == Spec => DeletionsSpareAnAdmin
<1> USE AuthAssumption
<1>1. ASSUME IInv, [Next]_vars, NEW u \in Users
      PROVE  DeletionSparesAdmin(u)
  <2> SUFFICES ASSUME Exists(u), accounts'[u] = NoAccount
               PROVE  ActiveAdmins(accounts') # {}
    BY DEF DeletionSparesAdmin
  <2>t. TypeOK
    BY <1>1 DEF IInv
  <2>1. ASSUME NEW t \in issued, NEW v \in Users, DeleteUser(t, v)
        PROVE  t.user \in ActiveAdmins(accounts')
    <3>1. t.user \in Users /\ Exists(t.user) /\ accounts[t.user].active
          /\ accounts[t.user].admin
      BY <2>1, <2>t, AuthenticatedFacts DEF DeleteUser, Admin
    <3>2. accounts'[t.user] = accounts[t.user]
      BY <2>1, <2>t, <3>1 DEF DeleteUser, SetAccount, TypeOK
    <3> QED
      BY <3>1, <3>2 DEF ActiveAdmins, Exists
  <2>2. ASSUME NEW w \in Users, NEW account \in Account, SetAccount(w, account)
        PROVE  FALSE
    BY <2>2, <2>t DEF SetAccount, TypeOK, Exists
  <2>3. ASSUME NEW t \in issued, NEW old \in Passwords, NEW new \in Passwords,
               ChangePassword(t, old, new)
        PROVE  FALSE
    <3>1. t.user \in Users /\ accounts[t.user] \in Account
      BY <2>3, <2>t, AuthenticatedFacts DEF ChangePassword
    <3>2. [accounts[t.user] EXCEPT !.password = new] \in Account
      BY <3>1 DEF Account
    <3> QED
      BY <2>2, <2>3, <3>1, <3>2 DEF ChangePassword
  <2>4. ASSUME NEW t \in issued, NEW admin \in BOOLEAN, NEW active \in BOOLEAN,
               NEW profile \in Profiles, UpdateMe(t, admin, active, profile)
        PROVE  FALSE
    <3>1. t.user \in Users /\ accounts[t.user] \in Account
      BY <2>4, <2>t, AuthenticatedFacts DEF UpdateMe
    <3>2. [accounts[t.user] EXCEPT !.admin = admin, !.active = active,
                                   !.profile = profile] \in Account
      BY <3>1 DEF Account
    <3> QED
      BY <2>2, <2>4, <3>1, <3>2 DEF UpdateMe
  <2>5. ASSUME NEW t \in issued, NEW admin \in BOOLEAN, NEW active \in BOOLEAN,
               NEW profile \in Profiles, NEW v \in Users,
               UpdateUser(t, v, admin, active, profile)
        PROVE  FALSE
    <3>1. accounts[v] \in Account
      BY <2>5, <2>t DEF UpdateUser, Exists, TypeOK
    <3>2. [accounts[v] EXCEPT !.admin = admin, !.active = active,
                              !.profile = profile] \in Account
      BY <3>1 DEF Account
    <3> QED
      BY <2>2, <2>5, <3>2 DEF UpdateUser
  <2>6. ASSUME NEW t \in issued, NEW v \in Users, NEW account \in Account,
               CreateUser(t, v, account)
        PROVE  FALSE
    BY <2>2, <2>6 DEF CreateUser
  <2>7. ASSUME accounts' = accounts
        PROVE  FALSE
    BY <2>7 DEF Exists
  <2>8. ASSUME NEW t \in issued, Refresh(t) \/ Logout(t) \/ Refused(t)
        PROVE  FALSE
    BY <2>7, <2>8 DEF Refresh, Logout, Refused
  <2>9. CASE UNCHANGED vars \/ Tick \/ \E v \in Users, p \in Passwords : Login(v, p)
    BY <2>7, <2>9 DEF vars, Tick, Login
  <2> QED
    BY <1>1, <2>1, <2>3, <2>4, <2>5, <2>6, <2>8, <2>9 DEF Next
<1>2. IInv /\ [Next]_vars => [\A u \in Users : DeletionSparesAdmin(u)]_vars
  BY <1>1
<1> QED
  BY Invariance, <1>2, PTL DEF Spec, DeletionsSpareAnAdmin

-----------------------------------------------------------------------------
(* The service remembers every ended token (Sessions). *)

\* Whom the service takes for authenticated holds a good token.
LEMMA AuthenticatedIsGood ==
  ASSUME IInv, NEW t \in issued, Authenticated(t)
  PROVE  Remembered!Good(t)
BY EndedNotVerified DEF Authenticated, Verified, Active, Exists,
                        Remembered!Good, Remembered!Active

\* New tokens are their user's and carry its role.
LEMMA HandOutIsHonest ==
  ASSUME NEW u, HandOut(u)
  PROVE  Remembered!HandOut(u)
BY DEF HandOut, NewTokens, NewToken, Remembered!HandOut

\* Writing one account touches no other.
LEMMA SetAccountIsOne ==
  ASSUME TypeOK, NEW u \in Users, NEW account, SetAccount(u, account)
  PROVE  Remembered!OnlyOf(u) /\ accounts'[u] = account
BY DEF SetAccount, TypeOK, Remembered!OnlyOf

\* An admin who writes an account is a good token's holder.
LEMMA AdminWrites ==
  ASSUME IInv, NEW t \in issued, Authenticated(t), accounts[t.user].admin,
         NEW u \in Users, NEW account, SetAccount(u, account)
  PROVE  Remembered!Next
<1>1. Remembered!ByAdmin(t)
  BY AuthenticatedIsGood, SetAccountIsOne DEF IInv, Remembered!ByAdmin
<1> QED
  BY <1>1 DEF Remembered!Next

\* Who writes its own account stays what it is.
LEMMA OwnerWrites ==
  ASSUME IInv, NEW t \in issued, Authenticated(t), NEW account \in Account,
         account.active, account.admin => accounts[t.user].admin,
         SetAccount(t.user, account)
  PROVE  Remembered!Next
<1>1. t.user \in Users /\ account # NoAccount
  BY AuthenticatedFacts, AuthAssumption DEF IInv
<1>2. Remembered!ByOwner(t)
  BY <1>1, AuthenticatedIsGood, SetAccountIsOne DEF IInv, Remembered!ByOwner
<1> QED
  BY <1>2 DEF Remembered!Next

\* Every request does what the remembering service might do, or what it does
\* cannot be seen there.
LEMMA SessionsStep ==
  ASSUME IInv, [Next]_vars
  PROVE  [Remembered!Next]_(Remembered!vars)
<1>t. TypeOK
  BY DEF IInv
<1>1. CASE Tick
  BY <1>1 DEF Tick, Remembered!Tick, Remembered!Next
<1>2. ASSUME NEW u \in Users, NEW p \in Passwords, Login(u, p)
      PROVE  Remembered!Next
  <2>1. Remembered!Login(u)
    BY <1>2, HandOutIsHonest DEF Login, Active, Exists, Remembered!Login, Remembered!Active
  <2> QED
    BY <2>1 DEF Remembered!Next
<1>3. ASSUME NEW t \in issued, Refresh(t) \/ Logout(t)
      PROVE  Remembered!Next
  <2>1. Authenticated(t) /\ Invalidate(t) /\ UNCHANGED <<now, accounts>>
    BY <1>3 DEF Refresh, Logout
  <2>2. Remembered!HandOut(t.user)
    BY <1>3, HandOutIsHonest DEF Refresh, Logout, Remembered!HandOut
  <2>3. Remembered!End(t)
    BY <2>1, <2>2, AuthenticatedIsGood DEF Invalidate, Remembered!End
  <2> QED
    BY <2>3 DEF Remembered!Next
<1>4. ASSUME NEW t \in issued, Refused(t)
      PROVE  UNCHANGED Remembered!vars
  BY <1>4 DEF Refused, Remembered!vars
<1>5. ASSUME NEW t \in issued, NEW old \in Passwords, NEW new \in Passwords,
             ChangePassword(t, old, new)
      PROVE  Remembered!Next
  <2> DEFINE account == [accounts[t.user] EXCEPT !.password = new]
  <2>1. Authenticated(t) /\ SetAccount(t.user, account)
    BY <1>5 DEF ChangePassword
  <2>2. accounts[t.user] \in Account /\ accounts[t.user].active
    BY <2>1, <1>t, AuthenticatedFacts
  <2>3. account \in Account /\ account.active /\ account.admin = accounts[t.user].admin
    BY <2>2 DEF Account
  <2> QED
    BY <2>1, <2>3, OwnerWrites
<1>6. ASSUME NEW t \in issued, NEW admin \in BOOLEAN, NEW active \in BOOLEAN,
             NEW profile \in Profiles, UpdateMe(t, admin, active, profile)
      PROVE  Remembered!Next
  <2> DEFINE account == [accounts[t.user] EXCEPT !.admin = admin, !.active = active,
                                                 !.profile = profile]
  <2>1. /\ Authenticated(t) /\ SetAccount(t.user, account)
        /\ ~accounts[t.user].admin => ~admin /\ active
    BY <1>6 DEF UpdateMe
  <2>2. t.user \in Users /\ accounts[t.user] \in Account
    BY <2>1, <1>t, AuthenticatedFacts
  <2>3. account \in Account /\ account.active = active /\ account.admin = admin
    BY <2>2 DEF Account
  <2>4. CASE accounts[t.user].admin
    BY <2>1, <2>2, <2>4, AdminWrites
  <2>5. CASE ~accounts[t.user].admin
    BY <2>1, <2>3, <2>5, OwnerWrites
  <2> QED
    BY <2>4, <2>5
<1>7. ASSUME NEW t \in issued, NEW u \in Users, NEW account, Admin(t), SetAccount(u, account)
      PROVE  Remembered!Next
  BY <1>7, AdminWrites DEF Admin
<1>8. CASE UNCHANGED vars
  BY <1>8 DEF vars, Remembered!vars
<1> QED
  BY <1>1, <1>2, <1>3, <1>4, <1>5, <1>6, <1>7, <1>8
  DEF Next, UpdateUser, DeleteUser, CreateUser

\* Nobody can tell that entries leave the blacklist (TokenBlacklist), and accounts
\* change only as their owners and the admins may (auth_router.py).
THEOREM SessionsCorrect == Spec => SessionsSpec
<1>1. Init => Remembered!Init
  BY DEF Init, Remembered!Init
<1>2. IInv /\ [Next]_vars => [Remembered!Next]_(Remembered!vars)
  BY SessionsStep
<1> QED
  BY <1>1, <1>2, Invariance, PTL DEF Spec, SessionsSpec, Remembered!Spec
===============================================================================
