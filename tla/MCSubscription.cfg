SPECIFICATION FairSpec
CONSTANTS
  BTC = BTC
  btc = btc
  ETH = ETH
  eth = eth
  XRP = XRP
  xrp = xrp
  Symbols = {BTC, btc, ETH, eth, XRP, xrp}
  normalized_symbol <- LowerCase
  Listed = {BTC, ETH, XRP}
  Discarded = {XRP}
  ClientSymbols = {BTC, btc, eth}
  MaxSubscriptions = 2
  EnableSecondary = TRUE
  TimeSeries = FALSE
  MaxFaults = 1
  MaxLosses = 1
  MaxUpdates = 1
INVARIANTS
  TypeOK
  SliceSubscribedOnce
  EverySymbolHasItsStream
  OneAnswerPerRound
PROPERTIES
  ImplementsStream
  EverySymbolSent
CHECK_DEADLOCK FALSE
