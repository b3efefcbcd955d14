SPECIFICATION FairSpec
CONSTANTS
  Capital = 2
  Leverage = 2
  Hedge = FALSE
  Entries = {"buy"}
  Lots = {2}
  Partial = TRUE
  ScaleOut = TRUE
  Templates <- Exits
  Requests = {"market", "close"}
  MaxOrders = 2
  MaxRows = 1
  MaxRequests = 1
INVARIANTS LedgerBalances OneWay
PROPERTIES StopLegCancelled StopsExecute
CONSTRAINT Apart
