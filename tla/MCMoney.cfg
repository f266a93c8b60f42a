SPECIFICATION Spec
CONSTANTS
    Own = own
    Accounts = {own, guild}
    StackSize = 3
    Places = 3
    Amounts = {1, 5, 8}
    InitialBag <- Bag
    MaxCalls = 4
INVARIANTS MoneyConserved
CHECK_DEADLOCK FALSE
