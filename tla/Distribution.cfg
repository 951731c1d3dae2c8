CONSTANTS
    Accounts = {operator, alice, bob}
    Agent = operator
    Amounts = {1, 2}
    Capacity = 4
    Deposits = {2, 3}
    Durations = {0, 1, 2}
    DefaultDuration = 3
    MaxTime = 4
    MaxYield = 5
SPECIFICATION Spec
SYMMETRY Symmetry
INVARIANTS
    TypeOK
    YieldIsAccountedFor
    NobodyBeyondTheYield
    StaticSharesAreCovered
PROPERTIES
    ReleaseNeverGoesBack
