CONSTANTS
    Relays = {r1}
    Updates = {u1, u2, u3}
    Requests = {transfer}
    RequestOf <- MCRequestOf
    OnlySaved = {u3}
    TooHigh = {}
    Nobody = nobody
    MaxEvictions = 1
SPECIFICATION Spec
INVARIANTS
    NoncesNeverCollide
    FeesAgreeUnlessReported
