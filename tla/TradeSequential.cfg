CONSTANTS
    Users = {u1, u2}
    Assets = {gold}
    Prices = {0, 1}
    Quantities = {1, 2}
    Workers = {w1}
    BookLimit = 2
    Faults = FALSE
    MaxOrders = 3
    MaxTrades = 3
    MaxEpochs = 1
SPECIFICATION EpochSpec
SYMMETRY Symmetry
INVARIANTS
    BooksBalanceAtRest
    ClosedOnce
PROPERTIES
    ImplementsOrderBook
