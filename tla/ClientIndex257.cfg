SPECIFICATION IndexSpec
CONSTANTS
    Senders = {0, 256}
    Kinds = {"transfer", "invoke"}
    MaxClients = 257
    MaxSent = 2
INVARIANT FiledWhereSent
CHECK_DEADLOCK FALSE
