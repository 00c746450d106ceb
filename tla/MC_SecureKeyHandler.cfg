SPECIFICATION Spec
CONSTANTS
    Secrets = {s1, s2}
    Passphrases = {p1, p2}
    Paths = {a, b}
    MaxPaths = 2
    Txs = {t1}
    Junk = junk
    NULL = NULL
INVARIANTS
  SecretsGuarded
  AllWitnessesOrNone
  RestoredIsSaved
PROPERTIES
  CallReturns
