SPECIFICATION Spec
CONSTANTS
  RecordCap = 2
  HistoryCap = 1
  H24 = 1
  D7 = 2
  OfferIds = {o1, o2}
  Specs <- OfferSpecs
  Filters <- PriceFilters
  Prices <- SomePrices
  Stocks <- SomeStocks
  Quantities <- SomeQuantities
  ValidUntils = {5}
  MaxOrders = 3
  MaxTime = 2
SYMMETRY OfferSymmetry
CHECK_DEADLOCK FALSE
INVARIANTS TypeOK StockConserved OrdersAreSales StatisticsAreExact 
PROPERTIES SoldIsFinal
