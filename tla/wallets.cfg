SPECIFICATION FairSpec
CONSTANTS
  w1 = w1
  w2 = w2
  Wallets <- MCWallets
  Twins <- MCTwins
  Requests = {r1}
  Migrators = {m1, m2}
  Keys = {k1, k2}
  Legacy = legacy
  NoKey = nokey
  LegacyKnown = TRUE
CHECK_DEADLOCK FALSE
INVARIANT WalletsDecrypt
INVARIANT ReferencesLive
PROPERTY StaysDecryptable
PROPERTY LegacyMigrated
