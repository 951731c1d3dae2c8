CONSTANTS
    Users = {u1, u2}
    Assets = {gold, art}
    Prices = {1, 2}
    Quantities = {1, 2}
    Workers = {w1, w2}
    BookLimit = 2
    Faults = TRUE
    MaxOrders = 2
    MaxTrades = 2
    MaxEpochs = 1
SPECIFICATION EpochSpec
SYMMETRY Symmetry
INVARIANTS
    TypeOK
    FillsAgreeWithStatus
    TasksAreCurrent
    TradesHonourOrders
    SettlementsMirrorTrades
    NoPhantomFill
    SuccessMeansClosed
PROPERTIES
    HistoryIsKept
