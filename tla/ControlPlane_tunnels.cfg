CONSTANTS
  r1 = r1
  r2 = r2
  r3 = r3
  r4 = r4
  good = good
  lapsed = lapsed
  foreign = foreign
  forged = forged
  c1 = c1
  f1 = f1
  pw1 = pw1
  pw2 = pw2
  u1 = u1
  u2 = u2
  k1 = k1
  Parts = {"tunnels"}
  Posts = {r1, r2}
  Texts = {good, lapsed, foreign, forged}
  Genuine = {good, lapsed, foreign}
  Foreign = {foreign}
  ExpiresAt <- MCExpiresAt
  TrialDays = 1
  MaxDay = 2
  MaxBoots = 3
  MaxIoFaults = 1
  Reqs = {r1, r2, r3}
  Conns = {c1}
  Prints = {f1}
  Passwords = {pw1, pw2}
  VaultTrouble = 2
  Calls = {r1, r2, r3, r4}
  AccessTtl = 0
  RefreshTtl = 1
  MaxClock = 2
  MaxSqlFaults = 1
  Acts = {r1, r2, r3, r4}
  Members = {u1, u2}
  MaxWsFaults = 1
  Resolves = {r1, r2, r3, r4}
  TunnelKeys = {k1}
  Workers = 2
  MaxUses = 1
SPECIFICATION Spec
INVARIANT DeadSessionRebuilt
CHECK_DEADLOCK FALSE
