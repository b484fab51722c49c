SPECIFICATION Spec
CONSTANTS
    u1 = u1
    u2 = u2
    c1 = c1
    None = None
    Users = {u1, u2}
    Contracts = {c1}
    InitialFunds <- MCInitialFunds
    Fees = {1, 2}
    Allowances = {2}
    GasAmounts = {1, 2}
    RequestGrantGasLimit = 1
INVARIANTS
    BooksAgree
    AllowancesAddUp
