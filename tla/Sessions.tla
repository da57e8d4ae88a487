------------------------------- MODULE Sessions -------------------------------
(***************************************************************************)
(* What the owner of the accounts may rely on: a service that remembers    *)
(* every token that was ever ended, and lets nobody change an account but  *)
(* who holds a good token, an admin any account and others their own.      *)
(***************************************************************************)
EXTENDS Integers

CONSTANTS Users, NoAccount, InitialAccounts, MaxTime

VARIABLES now, accounts, issued, ended

vars == <<now, accounts, issued, ended>>

Init ==
  /\ now = 0
  /\ accounts = InitialAccounts
  /\ issued = {}
  /\ ended = {}

Active(u) == accounts[u] # NoAccount /\ accounts[u].active

Good(t) == t \in issued \ ended /\ now \leq t.exp /\ Active(t.user)

Tick ==
  /\ now < MaxTime
  /\ now' = now + 1
  /\ UNCHANGED <<accounts, issued, ended>>

\* What is new among the tokens is of u and says of it what is so.
HandOut(u) ==
  /\ issued \subseteq issued'
  /\ \A s \in issued' \ issued : s.user = u /\ s.admin = accounts[u].admin

Login(u) ==
  /\ Active(u)
  /\ HandOut(u)
  /\ UNCHANGED <<now, accounts, ended>>

\* Logged out, or exchanged for others.
End(t) ==
  /\ Good(t)
  /\ ended' = ended \cup {t}
  /\ HandOut(t.user)
  /\ UNCHANGED <<now, accounts>>

OnlyOf(u) ==
  /\ DOMAIN accounts' = DOMAIN accounts
  /\ \A v \in DOMAIN accounts \ {u} : accounts'[v] = accounts[v]
  /\ UNCHANGED <<now, issued, ended>>

ByAdmin(t) ==
  /\ Good(t) /\ accounts[t.user].admin
  /\ \E u \in Users : OnlyOf(u)

\* Who is no admin can neither become one nor close its account.
ByOwner(t) ==
  /\ Good(t)
  /\ OnlyOf(t.user)
  /\ accounts'[t.user] # NoAccount
  /\ accounts'[t.user].admin => accounts[t.user].admin
  /\ accounts'[t.user].active

Next ==
  \/ Tick
  \/ \E u \in Users : Login(u)
  \/ \E t \in issued : End(t) \/ ByAdmin(t) \/ ByOwner(t)

Spec == Init /\ [][Next]_vars
===============================================================================
