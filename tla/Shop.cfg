SPECIFICATION Spec
CONSTANTS
  r1 = r1  r2 = r2  r3 = r3
  skuA = skuA  skuB = skuB  skuC = skuC  main = main  annex = annex  usd = usd  eur = eur
  Requests = {r1, r2, r3}
  Skus = {skuA, skuB, skuC}
  Locations = {main, annex}
  DefaultLocation = main
  Currencies = {usd, eur}
  Calls <- DistinctCalls
  PoolSize = 1
  Subscribed = TRUE
  Catalogue <- MCCatalogue
  InitialStock <- MCStock
  None = None
INVARIANT StockAccounted
PROPERTY ShopSpec
