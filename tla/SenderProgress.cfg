CONSTANTS
    Relays = {r1, r2}
    Updates = {u1}
    Requests = {transfer}
    RequestOf <- MCRequestOf
    OnlySaved = {}
    TooHigh = {u1}
    Nobody = nobody
    MaxEvictions = 1
SPECIFICATION FairSpec
INVARIANTS
    GasIsAccountedFor
PROPERTIES
    ImplementsChainCall
    EveryCallEnds
