CONSTANTS
  Ref <- MCRef
  Price <- MCPrice
  MaxShares = 2
  Locate <- MCLocate
  ListedSymbol <- MCListedSymbol
  NoSymbol = ""
  FeedRef <- MCFeedRef

SPECIFICATION MCSpec

VIEW MCView

INVARIANTS
  RoutingIsSound

PROPERTIES
  QuotesAreExact
  TapeTellsExecutions
