----------------------------- MODULE PoolHandlers -----------------------------
(***************************************************************************)
(* The pool event handlers of uni-info-watcher: PoolCreated, Initialize,   *)
(* Mint, Burn and Swap, with the prices they derive and the day and hour   *)
(* data they keep.                                                         *)
(*                                                                         *)
(* A handler is one transaction and the events job runs one handler at a   *)
(* time, so that each is one step.  A read gives the row last saved, which *)
(* is not always the one the handler is about to save.  The pool contracts *)
(* are the environment: their state decides which events are possible.     *)
(*                                                                         *)
(* Amounts are whole numbers; an amount in USD counts half dollars, since  *)
(* the volume of a swap is half of what goes in and out, and a fee counts  *)
(* millionths of that.  Fields that copy another field of the same handler *)
(* call and that no property reads are left out.                           *)
(***************************************************************************)
EXTENDS Integers, Sequences, FiniteSets, FiniteSetsExt, TLC

CONSTANTS
  Pools, Tokens, Null,
  Token0, Token1, FeeTier,  \* of each pool
  Ranges,                   \* pool -> the (lower, upper) ticks of its positions
  PoolTicks,                \* pool -> the ticks its price moves between
  TokenPrices,              \* tick -> token0Price and token1Price
  NoDecimals,               \* tokens whose decimals cannot be read
  WETH, WhitelistTokens, StableCoins,
  UsdcWethPool,             \* USDC_WETH_03_POOL
  MinimumEthLocked,         \* MINIMUM_ETH_LOCKED
  AfterFirstGraft,          \* blocks are later than FIRST_GRAFT_BLOCK
  MaxTickIters,             \* the 100 above which crossed ticks are ignored
  HoursPerDay,
  MaxHour,                  \* bound: hours of blocks
  MaxAmount,                \* bound: liquidity of one Mint
  MaxTransactions,          \* bound: transactions
  MaxEvents                 \* bound: Mint, Burn and Swap events

\* The rows of the tables.
FactoryRows == [poolCount : Nat, txCount : Nat, totalVolumeETH : Nat, totalVolumeUSD : Nat,
                totalFeesUSD : Nat, totalValueLockedETH : Int]
PoolRows == [liquidity : Int, tick : Int \cup {Null}, token0Price : Nat, token1Price : Nat,
             totalValueLockedToken0 : Int, totalValueLockedToken1 : Int,
             totalValueLockedETH : Int, volumeToken0 : Nat, volumeToken1 : Nat,
             volumeUSD : Nat, feesUSD : Nat, txCount : Nat]
TokenRows == [totalValueLocked : Int, volume : Nat, volumeUSD : Nat, feesUSD : Nat,
              txCount : Nat, derivedETH : Nat, whitelistPools : Seq(Pools)]
TickRows == [liquidityGross : Int, liquidityNet : Int]
UniswapDayRows == [volumeETH : Nat, volumeUSD : Nat, feesUSD : Nat]
PoolIntervalRows == [open : Nat, high : Nat, low : Nat, close : Nat, txCount : Nat,
                     volumeToken0 : Nat, volumeToken1 : Nat, volumeUSD : Nat, feesUSD : Nat]
TokenDayRows == [open : Nat, high : Nat, low : Nat, close : Nat,
                 volume : Nat, volumeUSD : Nat, feesUSD : Nat]
TokenHourRows == [open : Nat, high : Nat, low : Nat, close : Nat]
TransactionRows == [id : Nat, timestamp : Nat]

\* A missing row or value is none of them.
ASSUME NullAssumption ==
  /\ Null \notin Int
  /\ Null \notin FactoryRows /\ Null \notin PoolRows /\ Null \notin TokenRows
  /\ Null \notin TickRows /\ Null \notin UniswapDayRows /\ Null \notin PoolIntervalRows
  /\ Null \notin TokenDayRows /\ Null \notin TokenHourRows /\ Null \notin TransactionRows

\* There are finitely many pools, tokens and positions; ranges are not empty, prices are not
\* negative, and the tier of 100, which feeTierToTickSpacing refuses before the first graft,
\* comes after it.
ASSUME PoolsAssumption ==
  /\ IsFiniteSet(Pools) /\ IsFiniteSet(Tokens)
  /\ \A p \in Pools : /\ IsFiniteSet(Ranges[p]) /\ Ranges[p] \subseteq Int \X Int
                      /\ \A r \in Ranges[p] : r[1] < r[2]
                      /\ PoolTicks[p] \subseteq Int
                      /\ \A t \in PoolTicks[p] : TokenPrices[t] \in Nat \X Nat
  /\ Token0 \in [Pools -> Tokens] /\ Token1 \in [Pools -> Tokens]
  /\ \A p \in Pools : Token0[p] # Token1[p]
  /\ FeeTier \in [Pools -> {100, 500, 3000, 10000}]
  /\ \A p \in Pools : FeeTier[p] = 100 => AfterFirstGraft
  /\ WhitelistTokens \subseteq Tokens /\ StableCoins \subseteq Tokens
  /\ NoDecimals \subseteq Tokens
  /\ AfterFirstGraft \in BOOLEAN
  /\ {MinimumEthLocked, MaxTickIters, MaxHour, MaxAmount, MaxTransactions, MaxEvents}
       \subseteq Nat
  /\ HoursPerDay \in Nat \ {0}

VARIABLES
  \* the pool contracts: tick, liquidity of each position, reserves of both tokens
  chain,
  \* the block and transaction being processed
  hour, transaction,
  \* the entity tables
  factory, bundle, pool, token, tick,
  uniswapDayData, poolDayData, poolHourData, tokenDayData, tokenHourData, tickDayData,
  transactions, entities  \* Transaction; Mint, Burn and Swap

environmentVars == <<hour, transaction>>
intervalVars == <<uniswapDayData, poolDayData, poolHourData, tokenDayData, tokenHourData,
                  tickDayData>>
vars == <<chain, environmentVars, factory, bundle, pool, token, tick, intervalVars,
          transactions, entities>>

Hours == 0..MaxHour
DayOf(h) == h \div HoursPerDay
Days == {DayOf(h) : h \in Hours}
today == DayOf(hour)

TicksOf(p) == {r[1] : r \in Ranges[p]} \cup {r[2] : r \in Ranges[p]}
Created == {p \in Pools : pool[p] # Null}
TokensOf(p) == {Token0[p], Token1[p]}

\* The sum of a column.
SumOf(rows, keys, column) == SumFunction([k \in keys |-> rows[k][column]])

Abs(n) == IF n < 0 THEN -n ELSE n
SafeDiv(n, m) == IF m = 0 THEN 0 ELSE n \div m

\* The rows the handlers create, with the defaults of their columns.
NewFactory == [poolCount |-> 0, txCount |-> 0, totalVolumeETH |-> 0, totalVolumeUSD |-> 0,
               totalFeesUSD |-> 0, totalValueLockedETH |-> 0]
NewPool == [liquidity |-> 0, tick |-> Null, token0Price |-> 0, token1Price |-> 0,
            totalValueLockedToken0 |-> 0, totalValueLockedToken1 |-> 0,
            totalValueLockedETH |-> 0, volumeToken0 |-> 0, volumeToken1 |-> 0,
            volumeUSD |-> 0, feesUSD |-> 0, txCount |-> 0]
NewToken == [totalValueLocked |-> 0, volume |-> 0, volumeUSD |-> 0, feesUSD |-> 0,
             txCount |-> 0, derivedETH |-> 0, whitelistPools |-> <<>>]
NewTick == [liquidityGross |-> 0, liquidityNet |-> 0]
NewUniswapDayData == [volumeETH |-> 0, volumeUSD |-> 0, feesUSD |-> 0]
NewPoolDayData(price) == [open |-> price, high |-> price, low |-> price, close |-> price,
                          txCount |-> 0, volumeToken0 |-> 0, volumeToken1 |-> 0,
                          volumeUSD |-> 0, feesUSD |-> 0]
NewPoolHourData(price) == NewPoolDayData(price)
NewTokenDayData(price) == [open |-> price, high |-> price, low |-> price, close |-> price,
                           volume |-> 0, volumeUSD |-> 0, feesUSD |-> 0]
NewTokenHourData(price) == [open |-> price, high |-> price, low |-> price, close |-> price]

\* loadTransaction: the row of the transaction being processed, as it saves it.
LoadTransaction == [id |-> transaction, timestamp |-> hour]

NewEntity(kind, p, txCount, amount0, amount1, amountUSD) ==
  [kind |-> kind, transaction |-> transaction, txCount |-> txCount, pool |-> p,
   timestamp |-> LoadTransaction.timestamp, amount0 |-> amount0, amount1 |-> amount1,
   amountUSD |-> amountUSD]

AmountUSD(p, amount0, amount1) ==
  2 * (amount0 * (token[Token0[p]].derivedETH * bundle)
         + amount1 * (token[Token1[p]].derivedETH * bundle))

NewMint(p, txCount, amount0, amount1) ==
  NewEntity("mint", p, txCount, amount0, amount1, AmountUSD(p, amount0, amount1))
NewBurn(p, txCount, amount0, amount1) ==
  NewEntity("burn", p, txCount, amount0, amount1, AmountUSD(p, amount0, amount1))

\* Mutant: the volume of a swap, without its direction.
NewSwapVolume(p, txCount, amount0, amount1, usd) ==
  NewEntity("swap", p, txCount, Abs(amount0), Abs(amount1), usd)

NewSwap(p, txCount, amount0, amount1, usd) ==
  NewEntity("swap", p, txCount, amount0, amount1, usd)

-----------------------------------------------------------------------------
(* utils/pricing.ts.  The arguments are the saved rows a function reads. *)

EthPriceInUSD(pools) ==
  IF UsdcWethPool \in Pools /\ pools[UsdcWethPool] # Null
  THEN pools[UsdcWethPool].token0Price ELSE 0

\* What the other token of pool p is worth, and the price of t in that token.
EthLocked(p, t, pools, tokens) ==
  IF Token0[p] = t
  THEN pools[p].totalValueLockedToken1 * tokens[Token1[p]].derivedETH
  ELSE pools[p].totalValueLockedToken0 * tokens[Token0[p]].derivedETH

EthPrice(p, t, pools, tokens) ==
  IF Token0[p] = t
  THEN pools[p].token1Price * tokens[Token1[p]].derivedETH
  ELSE pools[p].token0Price * tokens[Token0[p]].derivedETH

\* The first of the white-listed pools with the most ETH locked, if any has enough.
FindEthPerToken(t, pools, tokens, ethPriceUSD) ==
  LET list == tokens[t].whitelistPools
      locked(i) == EthLocked(list[i], t, pools, tokens)
      deep == {i \in DOMAIN list : /\ pools[list[i]].liquidity > 0
                                   /\ locked(i) > MinimumEthLocked}
      best == {i \in deep : /\ \A j \in deep : locked(j) <= locked(i)
                            /\ \A j \in deep : j < i => locked(j) < locked(i)}
  IN IF t = WETH THEN 1
     ELSE IF AfterFirstGraft /\ t \in StableCoins THEN SafeDiv(1, ethPriceUSD)
     ELSE IF best = {} THEN 0
     ELSE EthPrice(list[CHOOSE i \in best : TRUE], t, pools, tokens)

\* In USD; getTrackedAmountUSD halved.
TrackedAmountUSD(p, amount0, amount1) ==
  LET usd0 == amount0 * token[Token0[p]].derivedETH * bundle
      usd1 == amount1 * token[Token1[p]].derivedETH * bundle
  IN CASE TokensOf(p) \subseteq WhitelistTokens -> usd0 + usd1
       [] TokensOf(p) \cap WhitelistTokens = {Token0[p]} -> 2 * usd0
       [] TokensOf(p) \cap WhitelistTokens = {Token1[p]} -> 2 * usd1
       [] OTHER -> 0

-----------------------------------------------------------------------------
(* utils/interval-updates.ts.  Each row is looked up by id and interval and *)
(* created when there is none; the caller adds volumes to it.               *)

\* Mutant: the row of the day is created anew.
FreshUniswapRow == NewUniswapDayData

UniswapRow == IF uniswapDayData[today] = Null THEN NewUniswapDayData ELSE uniswapDayData[today]

\* Mutant: a day that has begun keeps its low.
WithHighOnly(row, price) == [row EXCEPT !.high = Max({@, price})]

WithHighAndLow(row, price) == [row EXCEPT !.high = Max({@, price}), !.low = Min({@, price})]

\* The price is that of the saved pool.  close stays what it is at creation.
PoolDayRow(p, price) ==
  LET row == IF poolDayData[p][today] = Null THEN NewPoolDayData(price) ELSE poolDayData[p][today]
  IN [WithHighAndLow(row, price) EXCEPT !.txCount = @ + 1]

PoolHourRow(p, price) ==
  LET row == IF poolHourData[p][hour] = Null THEN NewPoolHourData(price) ELSE poolHourData[p][hour]
  IN [WithHighAndLow(row, price) EXCEPT !.txCount = @ + 1, !.close = price]

\* The price in USD of a token in hand, which need not be the saved one.
TokenDayRow(t, price) ==
  LET row == IF tokenDayData[t][today] = Null THEN NewTokenDayData(price)
             ELSE tokenDayData[t][today]
  IN [WithHighAndLow(row, price) EXCEPT !.close = price]

TokenHourRow(t, price) ==
  LET row == IF tokenHourData[t][hour] = Null THEN NewTokenHourData(price)
             ELSE tokenHourData[t][hour]
  IN [WithHighAndLow(row, price) EXCEPT !.close = price]

TickDayRow(row) == [liquidityGross |-> row.liquidityGross, liquidityNet |-> row.liquidityNet]

\* Mutant: from the saved ticks, before the handler saves them.
UpdateTickDayDataFromSaved(p, indexes, rows) ==
  tickDayData' = [tickDayData EXCEPT
    ![p] = [i \in TicksOf(p) |-> [d \in Days |-> IF d = today /\ i \in indexes
                                                  THEN tick[p][i] ELSE @[i][d]]]]

\* updateTickDayData, for the ticks of pool p in indexes, as they are in rows.
UpdateTickDayData(p, indexes, rows) ==
  tickDayData' = [tickDayData EXCEPT
    ![p] = [i \in TicksOf(p) |-> [d \in Days |-> IF d = today /\ i \in indexes
                                                  THEN TickDayRow(rows[i]) ELSE @[i][d]]]]

-----------------------------------------------------------------------------
(* The pool contracts. *)

NewContract(p) == [tick |-> Null, liquidity |-> [r \in Ranges[p] |-> 0],
                   reserve0 |-> 0, reserve1 |-> 0]

Initialized(p) == chain[p].tick # Null

LiquidityOf(p, ranges) == SumFunction([r \in ranges |-> chain[p].liquidity[r]])

\* The liquidity of the positions whose range includes the tick.
ActiveLiquidity(p, t) == LiquidityOf(p, {r \in Ranges[p] : r[1] <= t /\ t < r[2]})

\* What a position holds of both tokens.
Amount0(p, r, liquidity) == IF chain[p].tick < r[2] THEN liquidity ELSE 0
Amount1(p, r, liquidity) == IF chain[p].tick >= r[1] THEN liquidity ELSE 0

\* The tokens a swap may move, as the price moves from one tick to another.
SwapAmounts(from, to) ==
  CASE to > from -> {<<-1, 2>>}
    [] to < from -> {<<2, -1>>}
    [] to = from -> {<<1, -1>>, <<-1, 1>>}

-----------------------------------------------------------------------------
(* The handlers. *)

\* A pool is white-listed for a token when the other token is.
WithWhitelistPool(row, other, p) ==
  IF other \in WhitelistTokens
  THEN [row EXCEPT !.whitelistPools = Append(@, p)] ELSE row

\* Nothing is saved for a pool with a token without decimals, and it is not watched.
HandlePoolCreated(p) ==
  LET tokenRow(t) == IF token[t] = Null THEN NewToken ELSE token[t] IN
  /\ p \notin Created /\ TokensOf(p) \cap NoDecimals = {}
  /\ pool' = [pool EXCEPT ![p] = NewPool]
  /\ token' = [token EXCEPT
                 ![Token0[p]] = WithWhitelistPool(tokenRow(Token0[p]), Token1[p], p),
                 ![Token1[p]] = WithWhitelistPool(tokenRow(Token1[p]), Token0[p], p)]
  /\ factory' = LET row == IF factory = Null THEN NewFactory ELSE factory
                IN [row EXCEPT !.poolCount = @ + 1]
  /\ UNCHANGED <<chain, environmentVars, bundle, tick, intervalVars, transactions, entities>>

\* The pool itself is not saved: it gets its tick and price with the first swap.
\* The bundle is saved after the prices of the tokens are found.
HandleInitialize(p, t) ==
  /\ p \in Created /\ ~Initialized(p)
  /\ chain' = [chain EXCEPT ![p].tick = t]
  /\ bundle' = EthPriceInUSD(pool)
  /\ token' = [u \in Tokens |->
                 IF u \in TokensOf(p)
                 THEN [token[u] EXCEPT !.derivedETH = FindEthPerToken(u, pool, token, bundle)]
                 ELSE token[u]]
  /\ poolDayData' = [poolDayData EXCEPT ![p][today] = PoolDayRow(p, pool[p].token0Price)]
  /\ poolHourData' = [poolHourData EXCEPT ![p][hour] = PoolHourRow(p, pool[p].token0Price)]
  /\ UNCHANGED <<environmentVars, factory, pool, tick, uniswapDayData, tokenDayData,
                 tokenHourData, tickDayData, transactions, entities>>

\* Mutant: the value the pool has had is not taken out first.
WithPoolLockedTwice(row, old, new) ==
  [row EXCEPT !.totalValueLockedETH = @ + new.totalValueLockedETH, !.txCount = @ + 1]

\* "Reset tvl aggregates until new amounts calculated", then "with new amounts".
WithPoolLocked(row, old, new) ==
  [row EXCEPT !.totalValueLockedETH = @ - old.totalValueLockedETH + new.totalValueLockedETH,
              !.txCount = @ + 1]

\* Mutant: with the sign of a burn.
WithAmountsTaken(row, amount0, amount1) ==
  [row EXCEPT !.totalValueLockedToken0 = @ - amount0, !.totalValueLockedToken1 = @ - amount1,
              !.txCount = @ + 1]

\* Amounts of both tokens enter a pool, or leave it when negative.
WithAmounts(row, amount0, amount1) ==
  [row EXCEPT !.totalValueLockedToken0 = @ + amount0, !.totalValueLockedToken1 = @ + amount1,
              !.txCount = @ + 1]

\* What a pool holds at the given prices of its tokens.
Valued(row, derivedETH0, derivedETH1) ==
  [row EXCEPT !.totalValueLockedETH = row.totalValueLockedToken0 * derivedETH0
                                        + row.totalValueLockedToken1 * derivedETH1]

WithTokenLocked(row, amount) ==
  [row EXCEPT !.totalValueLocked = @ + amount, !.txCount = @ + 1]

\* "We only want to update it if the new position includes the current tick."
IncludesCurrentTick(p, r) ==
  pool[p].tick # Null /\ r[1] <= pool[p].tick /\ r[2] > pool[p].tick

\* An entity's id is its transaction # txCount; saving it replaces the one with that id.
SaveEntity(entity) ==
  /\ entities' = {e \in entities : ~(/\ e.kind = entity.kind /\ e.transaction = entity.transaction
                                     /\ e.txCount = entity.txCount)}
                   \cup {entity}
  /\ transactions' = [transactions EXCEPT ![transaction] = LoadTransaction]

EventsLeft == SumOf(pool, Created, "txCount") < MaxEvents

\* Mutant: both ticks of the range gain.
MovedTickSameSign(row, i, r, amount) ==
  [row EXCEPT !.liquidityGross = @ + amount, !.liquidityNet = @ + amount]

\* Liquidity that enters a range is gained at its lower tick and lost at its upper.
MovedTick(row, i, r, amount) ==
  [row EXCEPT !.liquidityGross = @ + amount,
              !.liquidityNet = IF i = r[1] THEN @ + amount ELSE @ - amount]

\* The tick, or the one createTick makes.
LoadedTick(p, i) == IF tick[p][i] = Null THEN NewTick ELSE tick[p][i]

\* What _handleMint and, with negative amounts, _handleBurn do: the interval data
\* are updated from the saved pool and factory, before these are saved.
MoveLiquidity(entity, p, r, liquidity, amount0, amount1) ==
  LET t0 == Token0[p]
      t1 == Token1[p]
      row == [WithAmounts(pool[p], amount0, amount1) EXCEPT
                !.liquidity = IF IncludesCurrentTick(p, r) THEN @ + liquidity ELSE @]
      valued == Valued(row, token[t0].derivedETH, token[t1].derivedETH)
      ticks == [i \in TicksOf(p) |->
                  IF i \notin {r[1], r[2]} THEN tick[p][i]
                  ELSE MovedTick(LoadedTick(p, i), i, r, liquidity)]
      price(t) == token[t].derivedETH * bundle
  IN
  /\ pool' = [pool EXCEPT ![p] = valued]
  /\ factory' = WithPoolLocked(factory, pool[p], valued)
  /\ token' = [token EXCEPT ![t0] = WithTokenLocked(@, amount0),
                            ![t1] = WithTokenLocked(@, amount1)]
  /\ tick' = [tick EXCEPT ![p] = ticks]
  /\ uniswapDayData' = [uniswapDayData EXCEPT ![today] = UniswapRow]
  /\ poolDayData' = [poolDayData EXCEPT ![p][today] = PoolDayRow(p, pool[p].token0Price)]
  /\ poolHourData' = [poolHourData EXCEPT ![p][hour] = PoolHourRow(p, pool[p].token0Price)]
  /\ tokenDayData' = [tokenDayData EXCEPT ![t0][today] = TokenDayRow(t0, price(t0)),
                                          ![t1][today] = TokenDayRow(t1, price(t1))]
  /\ tokenHourData' = [tokenHourData EXCEPT ![t0][hour] = TokenHourRow(t0, price(t0)),
                                            ![t1][hour] = TokenHourRow(t1, price(t1))]
  /\ UpdateTickDayData(p, {r[1], r[2]}, ticks)
  /\ SaveEntity(entity)
  /\ chain' = [chain EXCEPT ![p].liquidity[r] = @ + liquidity,
                            ![p].reserve0 = @ + amount0, ![p].reserve1 = @ + amount1]
  /\ UNCHANGED <<environmentVars, bundle>>

HandleMint(p, r, liquidity) ==
  /\ p \in Created /\ Initialized(p) /\ EventsLeft
  /\ LET amount0 == Amount0(p, r, liquidity)
         amount1 == Amount1(p, r, liquidity)
     IN MoveLiquidity(NewMint(p, pool[p].txCount + 1, amount0, amount1),
                      p, r, liquidity, amount0, amount1)

\* A position can be burnt in part, or not at all (to account for its fees).
HandleBurn(p, r, liquidity) ==
  /\ p \in Created /\ Initialized(p) /\ EventsLeft
  /\ chain[p].liquidity[r] > 0 /\ liquidity <= chain[p].liquidity[r]
  /\ LET amount0 == Amount0(p, r, liquidity)
         amount1 == Amount1(p, r, liquidity)
     IN /\ amount0 <= chain[p].reserve0 /\ amount1 <= chain[p].reserve1
        /\ MoveLiquidity(NewBurn(p, pool[p].txCount + 1, amount0, amount1),
                         p, r, -liquidity, -amount0, -amount1)

\* feeTierToTickSpacing
FeeTierToTickSpacing(feeTier) ==
  CASE feeTier = 10000 -> 200 [] feeTier = 3000 -> 60 [] feeTier = 500 -> 10
    [] feeTier = 100 -> 1

\* The % of JavaScript, which has the sign of the dividend.
Remainder(n, m) == IF n < 0 THEN -(-n % m) ELSE n % m

ExistingTicks(p, indexes) == {i \in indexes : tick[p][i] # Null}

\* "Update inner vars of current or crossed ticks": the existing ones among those
\* the loops of _handleSwap load.
LoadedTicks(p, oldTick, newTick) ==
  LET spacing == FeeTierToTickSpacing(FeeTier[p])
      modulo == Remainder(newTick, spacing)
      old == IF oldTick = Null THEN 0 ELSE oldTick
      up == old + spacing - modulo
      down == old - modulo
      crossed == IF Abs(old - newTick) \div spacing > MaxTickIters THEN {}
                 ELSE IF newTick > old
                 THEN {i \in TicksOf(p) : up <= i /\ i < newTick /\ (i - up) % spacing = 0}
                 ELSE {i \in TicksOf(p) : newTick <= i /\ i <= down /\ (down - i) % spacing = 0}
      current == {i \in TicksOf(p) : i = newTick /\ modulo = 0}
  IN ExistingTicks(p, current \cup (IF newTick = old THEN {} ELSE crossed))

\* Volumes of both tokens, in USD and fees; of a pool or a pool's interval.
WithPoolVolume(row, amount0, amount1, usd, fees) ==
  [row EXCEPT !.volumeToken0 = @ + amount0, !.volumeToken1 = @ + amount1,
              !.volumeUSD = @ + usd, !.feesUSD = @ + fees]

\* The same of a token or a token's day.
WithTokenVolume(row, amount, usd, fees) ==
  [row EXCEPT !.volume = @ + amount, !.volumeUSD = @ + usd, !.feesUSD = @ + fees]

\* "Update volume metrics" of the intervals, for a pool saved with the given price.  The rows of
\* a token's hour are not saved again with their volumes.
UpdateVolumes(p, price, tokenPrice, amount0, amount1, usd, eth, fees) ==
  LET t0 == Token0[p]
      t1 == Token1[p]
      hourRow == PoolHourRow(p, price)
  IN
  /\ uniswapDayData' = [uniswapDayData EXCEPT
       ![today] = [UniswapRow EXCEPT !.volumeETH = @ + eth, !.volumeUSD = @ + usd,
                                     !.feesUSD = @ + fees]]
  /\ poolDayData' = [poolDayData EXCEPT
       ![p][today] = WithPoolVolume(PoolDayRow(p, price), amount0, amount1, usd, fees)]
  /\ poolHourData' = [poolHourData EXCEPT
       ![p][hour] = IF AfterFirstGraft
                    THEN WithPoolVolume(hourRow, amount0, amount1, usd, fees) ELSE hourRow]
  /\ tokenDayData' = [tokenDayData EXCEPT
       ![t0][today] = WithTokenVolume(TokenDayRow(t0, tokenPrice[t0]), amount0, usd, fees),
       ![t1][today] = WithTokenVolume(TokenDayRow(t1, tokenPrice[t1]), amount1, usd, fees)]
  /\ tokenHourData' = [tokenHourData EXCEPT ![t0][hour] = TokenHourRow(t0, tokenPrice[t0]),
                                            ![t1][hour] = TokenHourRow(t1, tokenPrice[t1])]

\* The pool is saved with its new price first; the prices of the tokens are found
\* with that pool and with the tokens as they were.
HandleSwap(p, newTick, amount0, amount1) ==
  LET t0 == Token0[p]
      t1 == Token1[p]
      abs0 == Abs(amount0)
      abs1 == Abs(amount1)
      usd == TrackedAmountUSD(p, abs0, abs1)
      eth == SafeDiv(usd, bundle)
      fees == usd * FeeTier[p]
      moved == WithPoolVolume(WithAmounts(pool[p], amount0, amount1), abs0, abs1, usd, fees)
      priced == [moved EXCEPT !.liquidity = ActiveLiquidity(p, newTick), !.tick = newTick,
                              !.token0Price = TokenPrices[newTick][1],
                              !.token1Price = TokenPrices[newTick][2]]
      saved == [pool EXCEPT ![p] = priced]
      ethPriceUSD == EthPriceInUSD(saved)
      derivedETH(t) == FindEthPerToken(t, saved, token, ethPriceUSD)
      valued == Valued(priced, derivedETH(t0), derivedETH(t1))
      swapped(t, amount) ==
        [WithTokenVolume(WithTokenLocked(token[t], amount), Abs(amount), usd, fees)
           EXCEPT !.derivedETH = derivedETH(t)]
  IN
  /\ p \in Created /\ Initialized(p) /\ EventsLeft
  /\ chain[p].reserve0 + amount0 >= 0 /\ chain[p].reserve1 + amount1 >= 0
  /\ pool' = [saved EXCEPT ![p] = valued]
  /\ bundle' = ethPriceUSD
  /\ factory' = [WithPoolLocked(factory, pool[p], valued) EXCEPT
                   !.totalVolumeETH = @ + eth, !.totalVolumeUSD = @ + usd,
                   !.totalFeesUSD = @ + fees]
  /\ token' = [token EXCEPT ![t0] = swapped(t0, amount0), ![t1] = swapped(t1, amount1)]
  /\ UpdateVolumes(p, priced.token0Price, [t \in {t0, t1} |-> derivedETH(t) * ethPriceUSD],
                   abs0, abs1, usd, eth, fees)
  /\ UpdateTickDayData(p, LoadedTicks(p, pool[p].tick, newTick), tick[p])
  /\ SaveEntity(NewSwap(p, priced.txCount, amount0, amount1, usd))
  /\ chain' = [chain EXCEPT ![p].tick = newTick, ![p].reserve0 = @ + amount0,
                            ![p].reserve1 = @ + amount1]
  /\ UNCHANGED <<environmentVars, tick>>

-----------------------------------------------------------------------------
\* The next transaction, in the same hour or a later one.
NextTransaction ==
  /\ transaction < MaxTransactions
  /\ transaction' = transaction + 1
  /\ hour' \in hour..MaxHour
  /\ UNCHANGED <<chain, factory, bundle, pool, token, tick, intervalVars, transactions,
                 entities>>

Init ==
  /\ chain = [p \in Pools |-> NewContract(p)]
  /\ hour = 0 /\ transaction = 0
  /\ factory = Null /\ bundle = 0
  /\ pool = [p \in Pools |-> Null] /\ token = [t \in Tokens |-> Null]
  /\ tick = [p \in Pools |-> [i \in TicksOf(p) |-> Null]]
  /\ uniswapDayData = [d \in Days |-> Null]
  /\ poolDayData = [p \in Pools |-> [d \in Days |-> Null]]
  /\ poolHourData = [p \in Pools |-> [h \in Hours |-> Null]]
  /\ tokenDayData = [t \in Tokens |-> [d \in Days |-> Null]]
  /\ tokenHourData = [t \in Tokens |-> [h \in Hours |-> Null]]
  /\ tickDayData = [p \in Pools |-> [i \in TicksOf(p) |-> [d \in Days |-> Null]]]
  /\ transactions = [n \in 0..MaxTransactions |-> Null] /\ entities = {}

Next ==
  \/ NextTransaction
  \/ \E p \in Pools :
       \/ HandlePoolCreated(p)
       \/ \E t \in PoolTicks[p] : HandleInitialize(p, t)
       \/ \E r \in Ranges[p] :
            \/ \E liquidity \in 1..MaxAmount : HandleMint(p, r, liquidity)
            \/ \E liquidity \in 0..chain[p].liquidity[r] : HandleBurn(p, r, liquidity)
       \/ \E t \in PoolTicks[p] :
            Initialized(p) /\ \E a \in SwapAmounts(chain[p].tick, t) : HandleSwap(p, t, a[1], a[2])

Spec == Init /\ [][Next]_vars
-----------------------------------------------------------------------------
(* Properties. *)

Kept(rows) == {k \in DOMAIN rows : rows[k] # Null}
HoursOf(rows, d) == {h \in Kept(rows) : DayOf(h) = d}
CreatedWith0(t) == {p \in Created : Token0[p] = t}
CreatedWith1(t) == {p \in Created : Token1[p] = t}
CreatedWith(t) == {p \in Created : t \in TokensOf(p)}

\* Rows hold what their columns allow, and no counter or liquidity is negative.
TypeOK ==
  /\ hour \in Hours /\ transaction \in 0..MaxTransactions
  /\ factory \in FactoryRows \cup {Null} /\ bundle \in Nat
  /\ factory # Null => factory.poolCount = Cardinality(Created)
  /\ pool \in [Pools -> PoolRows \cup {Null}]
  /\ \A p \in Created : /\ {pool[p].liquidity, pool[p].totalValueLockedToken0,
                             pool[p].totalValueLockedToken1} \subseteq Nat
                         /\ pool[p].tick \in PoolTicks[p] \cup {Null}
  /\ DOMAIN chain = Pools /\ DOMAIN tick = Pools /\ DOMAIN tickDayData = Pools
  /\ token \in [Tokens -> TokenRows \cup {Null}]
  /\ \A t \in Kept(token) : token[t].totalValueLocked \in Nat
  /\ \A p \in Pools : /\ tick[p] \in [TicksOf(p) -> TickRows \cup {Null}]
                       /\ \A i \in Kept(tick[p]) : tick[p][i].liquidityGross \in Nat
  /\ uniswapDayData \in [Days -> UniswapDayRows \cup {Null}]
  /\ poolDayData \in [Pools -> [Days -> PoolIntervalRows \cup {Null}]]
  /\ poolHourData \in [Pools -> [Hours -> PoolIntervalRows \cup {Null}]]
  /\ tokenDayData \in [Tokens -> [Days -> TokenDayRows \cup {Null}]]
  /\ tokenHourData \in [Tokens -> [Hours -> TokenHourRows \cup {Null}]]
  /\ \A p \in Pools : tickDayData[p] \in [TicksOf(p) -> [Days -> TickRows \cup {Null}]]
  /\ transactions \in [0..MaxTransactions -> TransactionRows \cup {Null}]

\* The totals of the factory and of the tokens are kept by differences, handler by
\* handler, while prices change under them; they are the sums over the pools, and a
\* pool holds what its contract holds.
TotalsAgree ==
  factory # Null =>
    /\ factory.totalValueLockedETH = SumOf(pool, Created, "totalValueLockedETH")
    /\ factory.txCount = SumOf(pool, Created, "txCount")
    /\ \A t \in Kept(token) :
         token[t].totalValueLocked
           = SumOf(pool, CreatedWith0(t), "totalValueLockedToken0")
             + SumOf(pool, CreatedWith1(t), "totalValueLockedToken1")
    /\ \A p \in Created : /\ pool[p].totalValueLockedToken0 = chain[p].reserve0
                           /\ pool[p].totalValueLockedToken1 = chain[p].reserve1

\* Volumes and fees are added up in five tables; the sums over pools, days and hours
\* agree, also when a day or hour begins with an event that is not a swap.
VolumesAgree ==
  factory # Null =>
    /\ factory.totalVolumeUSD = SumOf(pool, Created, "volumeUSD")
    /\ factory.totalVolumeUSD = SumOf(uniswapDayData, Kept(uniswapDayData), "volumeUSD")
    /\ factory.totalVolumeETH = SumOf(uniswapDayData, Kept(uniswapDayData), "volumeETH")
    /\ factory.totalFeesUSD = SumOf(uniswapDayData, Kept(uniswapDayData), "feesUSD")
    /\ \A p \in Created :
         /\ pool[p].volumeUSD = SumOf(poolDayData[p], Kept(poolDayData[p]), "volumeUSD")
         /\ AfterFirstGraft => \A d \in Kept(poolDayData[p]) :
              poolDayData[p][d].volumeToken0
                = SumOf(poolHourData[p], HoursOf(poolHourData[p], d), "volumeToken0")
    /\ \A t \in Kept(token) :
         /\ token[t].volumeUSD = SumOf(pool, CreatedWith(t), "volumeUSD")
         /\ token[t].volume = SumOf(tokenDayData[t], Kept(tokenDayData[t]), "volume")

\* The ticks add up to the positions of the pool contract; from its first swap on a
\* pool has the tick of the contract, and its liquidity is that of the positions in
\* range and of the ticks up to it, through mints, burns and price moves.
LiquidityAgrees ==
  \A p \in Created :
    /\ \A i \in Kept(tick[p]) :
         LET lower == LiquidityOf(p, {r \in Ranges[p] : r[1] = i})
             upper == LiquidityOf(p, {r \in Ranges[p] : r[2] = i})
         IN tick[p][i] = [liquidityGross |-> lower + upper, liquidityNet |-> lower - upper]
    /\ pool[p].tick = Null => pool[p].liquidity = 0
    /\ pool[p].tick # Null =>
         /\ pool[p].tick = chain[p].tick
         /\ pool[p].liquidity = ActiveLiquidity(p, pool[p].tick)
         /\ pool[p].liquidity
              = SumOf(tick[p], {i \in Kept(tick[p]) : i <= pool[p].tick}, "liquidityNet")

\* A day of a pool or a token is made of its hours: it opens with the first of them, its high
\* and low are theirs, the transactions of a pool's day are their sum, a token's day closes
\* with the last, and the price the pool has now lies between today's low and high.
DaysMadeOfHours ==
  LET madeOf(day, hours, rows) ==
        /\ hours # {}
        /\ day.open = rows[Min(hours)].open
        /\ day.high = Max({rows[h].high : h \in hours})
        /\ day.low = Min({rows[h].low : h \in hours})
  IN
  /\ \A p \in Created : \A d \in Kept(poolDayData[p]) :
       LET day == poolDayData[p][d]
           hours == HoursOf(poolHourData[p], d)
       IN /\ madeOf(day, hours, poolHourData[p])
          /\ day.txCount = SumOf(poolHourData[p], hours, "txCount")
          /\ d = today => day.low <= pool[p].token0Price /\ pool[p].token0Price <= day.high
  /\ \A t \in Tokens : \A d \in Kept(tokenDayData[t]) :
       LET hours == HoursOf(tokenHourData[t], d)
       IN /\ madeOf(tokenDayData[t][d], hours, tokenHourData[t])
          /\ tokenDayData[t][d].close = tokenHourData[t][Max(hours)].close

\* The last row of a tick's days is the tick as it is, whichever of minting, burning
\* and crossing wrote it, and in whatever order row and tick were saved.
TickDayDataCurrent ==
  \A p \in Created : \A i \in Kept(tick[p]) :
    LET days == Kept(tickDayData[p][i])
    IN days # {} /\ tickDayData[p][i][Max(days)] = TickDayRow(tick[p][i])

\* As long as no two events share an id, the entities of a pool account for what it holds and
\* for its days: mints bring in what burns and swaps leave, and the swaps whose transactions are
\* of a day make up its volume.
EntitiesAccountForPool ==
  \A p \in Created :
    LET of(kind) == {e \in entities : e.pool = p /\ e.kind = kind}
        total0(kind) == SumFunction([e \in of(kind) |-> e.amount0])
        total1(kind) == SumFunction([e \in of(kind) |-> e.amount1])
        swapsOf(d) == {e \in of("swap") : DayOf(transactions[e.transaction].timestamp) = d}
    IN Cardinality(UNION {of(kind) : kind \in {"mint", "burn", "swap"}}) = pool[p].txCount =>
         /\ total0("mint") - total0("burn") + total0("swap") = pool[p].totalValueLockedToken0
         /\ total1("mint") - total1("burn") + total1("swap") = pool[p].totalValueLockedToken1
         /\ \A d \in Kept(poolDayData[p]) :
              poolDayData[p][d].volumeUSD = SumFunction([e \in swapsOf(d) |-> e.amountUSD])

\* smoke.test.ts: "should create a Swap entity", and likewise Mint and Burn: every event
\* that counts in txCount has its entity.
EntityPerEvent ==
  \A p \in Created : Cardinality({e \in entities : e.pool = p}) = pool[p].txCount
=============================================================================
