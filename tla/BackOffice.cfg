CONSTANTS
    Assets = {gold}
    Rules <- MCRules
    NoRule = NoRule
    Amounts = {1, 2}
    Desks = {d1, d2}
    MaxRequests = 2
    Holders = {alice}
    Lists <- MCLists
    Periods = {1}
    Totals = {1}
    Interests = {1}
    Payers = {p1, p2}
    MaxPlans = 2
    MaxPayments = 3
    MaxEarned = 3
SPECIFICATION Spec
SYMMETRY Symmetry
CONSTRAINTS
    OneAtATime
    FewCents
INVARIANTS
    TypeOK
    AdmittedByOneRule
    NothingLeavesUnapproved
    PaidPeriodsAreRecorded
    OverpaymentIsBounded
    NoInterestIsInvented
PROPERTIES
    RequestsKeepTheirHistory
