SPECIFICATION MCSpec
CONSTANTS
    Own = own
    Accounts = {own, guild}
    StackSize = 3
    Places = 3
    Amounts = {1, 5, 8}
    InitialBag <- Bag
    MaxCalls = 3
    p1 = p1
    p2 = p2
    p3 = p3
    Nobody = nobody
    sack = sack
    x = x
    Players = {p1, p2, p3}
    Goods = {sack, s1, s2, x}
    Bags = {sack}
    Stackables = {s1, s2}
    Capacity = 2
    Start <- FirstPlace
    MaxMoves = 2
    Prices = {2}
    Quantities = {1, 2}
    Fee = 1
    Funds = 4
    Stock = 2
    MaxOffers = 2
    MaxResults = 2
    MaxErrors = 1
    MaxParties = 2
    MaxSteps = 1
    MaxRefusals = 0
    Houses = {h1}
    Traders = {p1, p2}
    Rent = 1
    Bids = {1, 3}
    Wallet = 6
    Tenants = {p1}
    MaxDemands = 3
    MaxStops = 2
INVARIANTS MoneyKept TradeKept TradeFair MarketKept PartyKept HousesKept
PROPERTIES OldOffersLeave
CHECK_DEADLOCK FALSE
