CONSTANTS
    Callers = {alice, bob}
    NilUser = nil
    Users = {nil}
    Assets = {gold}
    Prices = {1, 2}
    Quantities = {1, 2}
    Workers = {w1, w2}
    BookLimit = 10
    Faults = FALSE
    MaxOrders = 2
    MaxTrades = 2
SPECIFICATION ApiSpec
SYMMETRY Symmetry
INVARIANT
    OnlyTheCallersOwnOrder
