\* All six builders; one or two premade accounts, one more that ndiem and
\* nalgorand may create, two contracts of one name or of two, and three
\* transactions sent by two clients.
SPECIFICATION FairSpec
CONSTANTS
    Chains = {"ethereum", "avalanche", "algorand", "solana", "diem", "aptos"}
    Envs <- MCEnvs
    Params <- MCParams
    MaxPremade = 2
    MaxNew = 1
    MaxContracts = 2
    Names = {n1, n2}
    MaxTxs = 3
    Clients = {c1, c2}
    Used = 3
    LinkMessages <- MCLinkMessages
INVARIANTS
    DeliveredAsSent
    NumberedFromLedger
    DistinctOnLedger
    MintKeyStaysOnPrimary
PROPERTIES
    SoundIncluded
CHECK_DEADLOCK FALSE
