CONSTANTS
  Ref <- MCRef
  Price <- MCPrice
  MaxShares = 2
  Modulus = 3
  MaxOrders = 3
  BarPrices <- MCBarPrices
  BarQuantities <- MCBarQuantities
  PerBar = 2
  MaxTrades = 4
  MaxTime = 2
  MaxThrows = 1
  Prices <- MCPrices
  Quantities <- MCQuantities
  Times <- MCTimes
  MaxSamples = 4
  Locate <- MCLocate
  CrossType <- MCCrossType
  Quantity <- MCQuantity
  MaxMessages = 3

SPECIFICATION MCSpec

VIEW MCView

INVARIANTS
  LegacyBookIsSound
  MetricsAreExact
  
  AveragesAreExact
  AuctionsFollowFeed

PROPERTIES
  LegacyImplementsBookSpec
  BidFlowIsWhatHappened

CHECK_DEADLOCK FALSE
