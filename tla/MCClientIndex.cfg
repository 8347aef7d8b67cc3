SPECIFICATION IndexSpec
CONSTANTS
    Senders = {0, 1, 255}
    Kinds = {"transfer", "invoke"}
    MaxClients = 256
    MaxSent = 3
INVARIANTS
    FiledWhereSent
CHECK_DEADLOCK FALSE
