------------------------------- MODULE AuthTokens -------------------------------
(***************************************************************************)
(* Accounts and JWT sessions: backend/api/auth.py and the endpoints of     *)
(* backend/api/routers/auth_router.py.                                     *)
(*                                                                         *)
(* No endpoint of the router and none of its dependencies suspends, so a   *)
(* request is one atomic step, from the verification of its token to its   *)
(* answer.  A token is signed and not stored: it is its payload, and two   *)
(* tokens with the same payload are one token.  `exp` is encoded in whole  *)
(* seconds while the clock is finer; the clock is taken to be monotonic    *)
(* and one request to read it once.                                        *)
(***************************************************************************)
EXTENDS Integers, FiniteSets

CONSTANTS Users,            \* user names
          Passwords,        \* strong enough ones
          Profiles,         \* e-mail address and full name
          InitialAccounts,  \* USERS_DB when the service starts
          Second,           \* clock ticks to a second
          AccessLife, RefreshLife, CleanupInterval,
          MaxTime,          \* bound on the clock
          MaxTokens,        \* bound on the tokens handed out
          NoAccount

VARIABLES now,
          accounts,         \* USERS_DB
          blacklist,        \* token -> the expiry it is kept until
          lastCleanup,
          issued,           \* the tokens clients hold
          ended,            \* history: tokens logged out or exchanged
          lastEnd           \* history: time of the last such request

vars == <<now, accounts, blacklist, lastCleanup, issued, ended, lastEnd>>

Kinds == {"access", "refresh"}

Account == [admin : BOOLEAN, active : BOOLEAN, password : Passwords, profile : Profiles]

Token == [user : Users, admin : BOOLEAN, profile : Profiles, kind : Kinds, exp : Int]

ASSUME AuthAssumption ==
  /\ InitialAccounts \in [Users -> Account \cup {NoAccount}]
  /\ NoAccount \notin Account
  /\ Second \in Nat \ {0}
  /\ AccessLife \in Nat /\ RefreshLife \in Nat /\ CleanupInterval \in Nat
  /\ MaxTime \in Nat /\ MaxTokens \in Nat

TypeOK ==
  /\ now \in 0..MaxTime
  /\ accounts \in [Users -> Account \cup {NoAccount}]
  /\ blacklist \in [DOMAIN blacklist -> Int]
  /\ DOMAIN blacklist \subseteq ended
  /\ lastCleanup \in 0..lastEnd
  /\ issued \subseteq Token
  /\ ended \subseteq issued
  /\ lastEnd \in 0..now

Init ==
  /\ now = 0
  /\ accounts = InitialAccounts
  /\ blacklist = [t \in {} |-> 0]
  /\ lastCleanup = 0
  /\ issued = {}
  /\ ended = {}
  /\ lastEnd = 0

-----------------------------------------------------------------------------
(* TokenBlacklist. *)

\* Mutant: the second of the expiry counts as over.
Over_AtExpiry(expiry) == now \geq expiry

Over(expiry) == now > expiry

Without(tokens) == [t \in DOMAIN blacklist \ tokens |-> blacklist[t]]

\* is_blacklisted drops an entry it finds expired.
Blacklisted(t) == t \in DOMAIN blacklist /\ ~Over(blacklist[t])

CleanupDue == now - lastCleanup > CleanupInterval

With(t) == [s \in DOMAIN blacklist \cup {t} |-> IF s = t THEN t.exp ELSE blacklist[s]]

\* Mutant: the time of the cleanup is noted and the cleanup forgotten.
Swept_Later(entries) == entries

\* What the cleanup leaves of the entries, if it is due.
Swept(entries) ==
  [s \in {s \in DOMAIN entries : ~(CleanupDue /\ Over(entries[s]))} |-> entries[s]]

\* invalidate_token, with the cleanup it may bring.
Invalidate(t) ==
  /\ blacklist' = Swept(With(t))
  /\ lastCleanup' = IF CleanupDue THEN now ELSE lastCleanup
  /\ ended' = ended \cup {t}
  /\ lastEnd' = now

-----------------------------------------------------------------------------
(* JWTManager. *)

\* jwt.encode keeps the whole seconds of a time.
Encoded(time) == time - (time % Second)

NewToken(u, kind) ==
  [user |-> u, admin |-> accounts[u].admin, profile |-> accounts[u].profile,
   kind |-> kind,
   exp |-> Encoded(now + IF kind = "access" THEN AccessLife ELSE RefreshLife)]

NewTokens(u) == {NewToken(u, kind) : kind \in Kinds}

Verified(t) == ~Blacklisted(t) /\ now \leq t.exp

Exists(u) == accounts[u] # NoAccount

Active(u) == Exists(u) /\ accounts[u].active

\* get_current_active_user; a token of either kind will do.
Authenticated(t) == t \in issued /\ Verified(t) /\ Active(t.user)

\* require_admin: by the roles of the account, not by those in the token.
Admin(t) == Authenticated(t) /\ accounts[t.user].admin

HandOut(u) ==
  /\ issued' = issued \cup NewTokens(u)
  /\ Cardinality(issued') \leq MaxTokens

-----------------------------------------------------------------------------
(* The endpoints.  A request that is turned down for other reasons than its *)
(* token changes nothing.                                                   *)

Login(u, password) ==
  /\ Active(u)
  /\ accounts[u].password = password
  /\ HandOut(u)
  /\ UNCHANGED <<now, accounts, blacklist, lastCleanup, ended, lastEnd>>

\* The refresh token is given up for a new pair.
Refresh(t) ==
  /\ Authenticated(t)
  /\ t.kind = "refresh"
  /\ Invalidate(t)
  /\ HandOut(t.user)
  /\ UNCHANGED <<now, accounts>>

\* Only the token that was presented goes; its partner is not known.
Logout(t) ==
  /\ Authenticated(t)
  /\ Invalidate(t)
  /\ UNCHANGED <<now, accounts, issued>>

\* Any request with a token that does not verify.
Refused(t) ==
  /\ t \in issued /\ ~Verified(t)
  /\ blacklist' = Without({s \in {t} : ~Blacklisted(s)})
  /\ UNCHANGED <<now, accounts, lastCleanup, issued, ended, lastEnd>>

SetAccount(u, account) ==
  /\ accounts' = [accounts EXCEPT ![u] = account]
  /\ UNCHANGED <<now, blacklist, lastCleanup, issued, ended, lastEnd>>

\* The tokens of the account stay as they are.
ChangePassword(t, old, new) ==
  /\ Authenticated(t)
  /\ accounts[t.user].password = old
  /\ SetAccount(t.user, [accounts[t.user] EXCEPT !.password = new])

\* Only an admin may change roles and activity, its own included.
UpdateMe(t, admin, active, profile) ==
  /\ Authenticated(t)
  /\ ~accounts[t.user].admin => ~admin /\ active
  /\ SetAccount(t.user, [accounts[t.user] EXCEPT !.admin = admin, !.active = active,
                                                 !.profile = profile])

UpdateUser(t, u, admin, active, profile) ==
  /\ Admin(t)
  /\ Exists(u)
  /\ SetAccount(u, [accounts[u] EXCEPT !.admin = admin, !.active = active,
                                       !.profile = profile])

CreateUser(t, u, account) ==
  /\ Admin(t)
  /\ ~Exists(u)
  /\ account.active
  /\ SetAccount(u, account)

\* Mutant: the test for self-deletion is gone.
DeleteUser_Anyone(t, u) ==
  /\ Admin(t)
  /\ Exists(u)
  /\ SetAccount(u, NoAccount)

\* Mutant: the record is only closed and its password cleared.
DeleteUser_Closes(t, u) ==
  /\ Admin(t)
  /\ u # t.user
  /\ Exists(u)
  /\ SetAccount(u, [accounts[u] EXCEPT !.active = FALSE, !.password = NoAccount])

DeleteUser(t, u) ==
  /\ Admin(t)
  /\ u # t.user
  /\ Exists(u)
  /\ SetAccount(u, NoAccount)

Tick ==
  /\ now < MaxTime
  /\ now' = now + 1
  /\ UNCHANGED <<accounts, blacklist, lastCleanup, issued, ended, lastEnd>>

Next ==
  \/ Tick
  \/ \E u \in Users, p \in Passwords : Login(u, p)
  \/ \E t \in issued :
       \/ Refresh(t) \/ Logout(t) \/ Refused(t)
       \/ \E old, new \in Passwords : ChangePassword(t, old, new)
       \/ \E admin, active \in BOOLEAN, profile \in Profiles :
            \/ UpdateMe(t, admin, active, profile)
            \/ \E u \in Users : UpdateUser(t, u, admin, active, profile)
       \/ \E u \in Users :
            \/ DeleteUser(t, u)
            \/ \E account \in Account : CreateUser(t, u, account)

Spec == Init /\ [][Next]_vars

\* Time passes; clients owe nothing.
FairSpec == Spec /\ WF_vars(Tick)

-----------------------------------------------------------------------------
(* Properties. *)

\* A token that was logged out, or a refresh token that was exchanged, is
\* never accepted again, although its entry does not stay in the blacklist:
\* entries expire and are swept, and clients may get an equal token later.
EndedStayEnded == \A t \in ended : ~Verified(t)

\* The blacklist does not collect dead entries: whatever a request that ended a
\* session leaves in it had not expired one cleanup interval before.
BlacklistIsSwept ==
  \A t \in DOMAIN blacklist : lastEnd - CleanupInterval \leq blacklist[t]

ActiveAdmins(db) == {u \in Users : db[u] # NoAccount /\ db[u].active /\ db[u].admin}

DeletionSparesAdmin(u) ==
  Exists(u) /\ accounts'[u] = NoAccount => ActiveAdmins(accounts') # {}

\* "Prevent self-deletion" (delete_user): whatever sequence of deletions and
\* demotions came before, no deletion leaves the service without an admin.
DeletionsSpareAnAdmin == [][\A u \in Users : DeletionSparesAdmin(u)]_vars

-----------------------------------------------------------------------------
(* What all that is for. *)

Remembered == INSTANCE Sessions

\* Nobody can tell that the blacklist forgets: the service works like one that
\* remembers every token that was ended (Sessions), whatever entries expired or
\* were swept, and accounts change only as the holders of good tokens may.
SessionsSpec == Remembered!Spec
===============================================================================
