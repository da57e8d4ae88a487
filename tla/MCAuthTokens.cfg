SPECIFICATION Spec
CONSTANTS
  admin = admin
  user = user
  p = p
  q = q
  r = r
  Users = {admin, user}
  Passwords = {p, q}
  Profiles = {r}
  InitialAccounts <- DefaultAccounts
  Second = 2
  AccessLife = 2
  RefreshLife = 4
  CleanupInterval = 1
  MaxTime = 4
  MaxTokens = 4
  NoAccount = NoAccount
INVARIANTS
  TypeOK
  BlacklistIsSwept
PROPERTIES DeletionsSpareAnAdmin SessionsSpec
CHECK_DEADLOCK FALSE
