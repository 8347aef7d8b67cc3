SPECIFICATION FairCacheSpec
CONSTANTS
    a = a
    b = b
    Getters = {g1, g2}
    Ids = {a, b}
    MaxSeq = 2
    Commands <- MCCommands
    batchSize = 2
    MaxAdds = 4
INVARIANTS
    CacheTypeOK
    NoLostWakeup
    NothingDropped
PROPERTY WaiterServed
