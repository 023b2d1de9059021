\* A cash-secured put is suggested in a bear regime.
SPECIFICATION SpecOfOne
CONSTANTS
    None = None
    Rows = {1, 2}
    Numbers = {"n1", "n2"}
    Callbacks = {"c1", "c2"}
    Selects = {"s1"}
    Disconnects = {"d1"}
    Workers = {"w1"}
    MaxGrants = 2
    Revocable = {1}
    Markets <- MCMarkets
    Count = 3
    Requests <- MCRequests
    Quotes <- MCQuotes
    Custom = {50, 400}
    Start = 1
    Horizon = 31
    Outages = {1, 3, 25}
    Holidays = {14}
INVARIANT NoRiseInBearRegime
CHECK_DEADLOCK FALSE
