SPECIFICATION Spec
CONSTANTS
  usdcWeth = usdcWeth
  altWeth = altWeth
  usdc = usdc
  weth = weth
  alt = alt
  Pools = {usdcWeth, altWeth}
  Tokens = {usdc, weth, alt}
  Null = Null
  Token0 <- PoolToken0
  Token1 <- PoolToken1
  FeeTier <- PoolFeeTier
  Ranges <- PoolRanges
  PoolTicks <- PriceTicks
  TokenPrices <- PricesOfTick
  NoDecimals = {}
  WETH = weth
  WhitelistTokens = {weth, usdc}
  StableCoins = {usdc}
  UsdcWethPool = usdcWeth
  MinimumEthLocked = 0
  AfterFirstGraft = TRUE
  MaxTickIters = 1
  HoursPerDay = 2
  MaxHour = 2
  MaxAmount = 1
  MaxTransactions = 1
  MaxEvents = 4
INVARIANTS
  EntityPerEvent
CHECK_DEADLOCK FALSE
