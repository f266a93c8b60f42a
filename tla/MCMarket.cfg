SPECIFICATION Spec
CONSTANTS
    Traders = {t1, t2}
    Prices = {2}
    Amounts = {1, 2}
    Fee = 1
    Funds = 4
    Goods = 2
    MaxOffers = 2
    MaxResults = 2
    MaxErrors = 0
INVARIANTS MarketConserves
CHECK_DEADLOCK FALSE
