-------------------------- MODULE PoolHandlersProofs --------------------------
(***************************************************************************)
(* What the pool handlers keep, for all pools, tokens, ranges, prices and  *)
(* bounds.                                                                 *)
(***************************************************************************)
EXTENDS PoolHandlers, InductionLemmas

-----------------------------------------------------------------------------
(* The rows the handlers make. *)

LEMMA Extremes ==
  ASSUME NEW a \in Int, NEW b \in Int
  PROVE  /\ Max({a, b}) = IF a >= b THEN a ELSE b
         /\ Min({a, b}) = IF a <= b THEN a ELSE b
<1>1. \E x \in {a, b} : \A y \in {a, b} : x >= y
  OBVIOUS
<1>2. \E x \in {a, b} : \A y \in {a, b} : x <= y
  OBVIOUS
<1>3. /\ Max({a, b}) \in {a, b} /\ \A y \in {a, b} : Max({a, b}) >= y
  BY <1>1 DEF Max
<1>4. /\ Min({a, b}) \in {a, b} /\ \A y \in {a, b} : Min({a, b}) <= y
  BY <1>2 DEF Min
<1>5. QED BY <1>3, <1>4

LEMMA NewRows ==
  /\ NewFactory \in FactoryRows /\ NewPool \in PoolRows /\ NewToken \in TokenRows
  /\ NewTick \in TickRows /\ NewUniswapDayData \in UniswapDayRows
  /\ \A price \in Nat : /\ NewPoolDayData(price) \in PoolIntervalRows
                        /\ NewTokenDayData(price) \in TokenDayRows
                        /\ NewTokenHourData(price) \in TokenHourRows
  BY DEF NewFactory, NewPool, NewToken, NewTick, NewUniswapDayData, NewPoolDayData,
         NewTokenDayData, NewTokenHourData, FactoryRows, PoolRows, TokenRows, TickRows,
         UniswapDayRows, PoolIntervalRows, TokenDayRows, TokenHourRows

\* The columns of a pool's row that mints, burns and swaps change.
LEMMA WithAmountsRow ==
  ASSUME NEW row \in PoolRows, NEW amount0 \in Int, NEW amount1 \in Int
  PROVE  LET new == WithAmounts(row, amount0, amount1) IN
         /\ new \in PoolRows
         /\ new.totalValueLockedToken0 = row.totalValueLockedToken0 + amount0
         /\ new.totalValueLockedToken1 = row.totalValueLockedToken1 + amount1
         /\ new.txCount = row.txCount + 1
         /\ new.liquidity = row.liquidity /\ new.tick = row.tick
         /\ new.token0Price = row.token0Price /\ new.token1Price = row.token1Price
         /\ new.volumeToken0 = row.volumeToken0 /\ new.volumeToken1 = row.volumeToken1
         /\ new.volumeUSD = row.volumeUSD /\ new.feesUSD = row.feesUSD
<1> DEFINE a == row.totalValueLockedToken0 + amount0
           b == row.totalValueLockedToken1 + amount1
           c == row.txCount + 1
<1>1. a \in Int /\ b \in Int /\ c \in Nat
  BY DEF PoolRows
<1>2. WithAmounts(row, amount0, amount1)
        = [[[row EXCEPT !.totalValueLockedToken0 = a] EXCEPT !.totalValueLockedToken1 = b]
             EXCEPT !.txCount = c]
  BY DEF WithAmounts, PoolRows
<1> HIDE DEF a, b, c
<1>3. QED BY <1>1, <1>2 DEF PoolRows, a, b, c

LEMMA ValuedRow ==
  ASSUME NEW row \in PoolRows, NEW derivedETH0 \in Nat, NEW derivedETH1 \in Nat
  PROVE  LET new == Valued(row, derivedETH0, derivedETH1) IN
         /\ new \in PoolRows
         /\ new.totalValueLockedToken0 = row.totalValueLockedToken0
         /\ new.totalValueLockedToken1 = row.totalValueLockedToken1
         /\ new.txCount = row.txCount
         /\ new.liquidity = row.liquidity /\ new.tick = row.tick
         /\ new.token0Price = row.token0Price /\ new.token1Price = row.token1Price
         /\ new.volumeToken0 = row.volumeToken0 /\ new.volumeToken1 = row.volumeToken1
         /\ new.volumeUSD = row.volumeUSD /\ new.feesUSD = row.feesUSD
  BY DEF Valued, PoolRows

PoolVolumeAdded(new, row, usd) ==
  /\ new \in PoolRows
  /\ new.totalValueLockedToken0 = row.totalValueLockedToken0
  /\ new.totalValueLockedToken1 = row.totalValueLockedToken1
  /\ new.txCount = row.txCount
  /\ new.volumeUSD = row.volumeUSD + usd

LEMMA WithPoolVolumeRow ==
  ASSUME NEW row \in PoolRows, NEW amount0 \in Nat, NEW amount1 \in Nat,
         NEW usd \in Nat, NEW fees \in Nat
  PROVE  PoolVolumeAdded(WithPoolVolume(row, amount0, amount1, usd, fees), row, usd)
<1> DEFINE a == row.volumeToken0 + amount0
           b == row.volumeToken1 + amount1
           c == row.volumeUSD + usd
           d == row.feesUSD + fees
<1>1. a \in Nat /\ b \in Nat /\ c \in Nat /\ d \in Nat
  BY DEF PoolRows
<1>2. WithPoolVolume(row, amount0, amount1, usd, fees)
        = [[[[row EXCEPT !.volumeToken0 = a] EXCEPT !.volumeToken1 = b]
              EXCEPT !.volumeUSD = c] EXCEPT !.feesUSD = d]
  BY DEF WithPoolVolume, PoolRows
<1> HIDE DEF a, b, c, d
<1>3. QED BY <1>1, <1>2 DEF PoolVolumeAdded, PoolRows, a, b, c, d

LEMMA WithPoolLockedRow ==
  ASSUME NEW row \in FactoryRows, NEW old \in PoolRows, NEW new \in PoolRows
  PROVE  LET saved == WithPoolLocked(row, old, new) IN
         /\ saved \in FactoryRows
         /\ saved.totalValueLockedETH
              = row.totalValueLockedETH - old.totalValueLockedETH + new.totalValueLockedETH
         /\ saved.txCount = row.txCount + 1 /\ saved.poolCount = row.poolCount
         /\ saved.totalVolumeETH = row.totalVolumeETH
         /\ saved.totalVolumeUSD = row.totalVolumeUSD
         /\ saved.totalFeesUSD = row.totalFeesUSD
<1> DEFINE a == row.totalValueLockedETH - old.totalValueLockedETH + new.totalValueLockedETH
           b == row.txCount + 1
<1>1. a \in Int /\ b \in Nat
  BY DEF PoolRows, FactoryRows
<1>2. WithPoolLocked(row, old, new)
        = [[row EXCEPT !.totalValueLockedETH = a] EXCEPT !.txCount = b]
  BY DEF WithPoolLocked, FactoryRows
<1> HIDE DEF a, b
<1>3. QED BY <1>1, <1>2 DEF FactoryRows, a, b

LEMMA WithTokenLockedRow ==
  ASSUME NEW row \in TokenRows, NEW amount \in Int
  PROVE  LET new == WithTokenLocked(row, amount) IN
         /\ new \in TokenRows
         /\ new.totalValueLocked = row.totalValueLocked + amount
         /\ new.volume = row.volume /\ new.volumeUSD = row.volumeUSD
         /\ new.whitelistPools = row.whitelistPools
<1> DEFINE a == row.totalValueLocked + amount
           b == row.txCount + 1
<1>1. a \in Int /\ b \in Nat
  BY DEF TokenRows
<1>2. WithTokenLocked(row, amount)
        = [[row EXCEPT !.totalValueLocked = a] EXCEPT !.txCount = b]
  BY DEF WithTokenLocked, TokenRows
<1> HIDE DEF a, b
<1>3. QED BY <1>1, <1>2 DEF TokenRows, a, b

TokenVolumeAdded(new, row, amount, usd) ==
  /\ new \in TokenRows
  /\ new.totalValueLocked = row.totalValueLocked
  /\ new.volume = row.volume + amount /\ new.volumeUSD = row.volumeUSD + usd
  /\ new.whitelistPools = row.whitelistPools

LEMMA WithTokenVolumeRow ==
  ASSUME NEW row \in TokenRows, NEW amount \in Nat, NEW usd \in Nat, NEW fees \in Nat
  PROVE  TokenVolumeAdded(WithTokenVolume(row, amount, usd, fees), row, amount, usd)
<1> DEFINE a == row.volume + amount
           b == row.volumeUSD + usd
           c == row.feesUSD + fees
<1>1. a \in Nat /\ b \in Nat /\ c \in Nat
  BY DEF TokenRows
<1>2. WithTokenVolume(row, amount, usd, fees)
        = [[[row EXCEPT !.volume = a] EXCEPT !.volumeUSD = b] EXCEPT !.feesUSD = c]
  BY DEF WithTokenVolume, TokenRows
<1> HIDE DEF a, b, c
<1>3. QED BY <1>1, <1>2 DEF TokenVolumeAdded, TokenRows, a, b, c

LEMMA MovedTickRow ==
  ASSUME NEW row \in TickRows, NEW i, NEW r, NEW amount \in Int
  PROVE  LET new == MovedTick(row, i, r, amount) IN
         /\ new \in TickRows
         /\ new.liquidityGross = row.liquidityGross + amount
         /\ new.liquidityNet = IF i = r[1] THEN row.liquidityNet + amount
                               ELSE row.liquidityNet - amount
<1> DEFINE a == row.liquidityGross + amount
           b == IF i = r[1] THEN row.liquidityNet + amount ELSE row.liquidityNet - amount
<1>1. a \in Int /\ b \in Int
  BY DEF TickRows
<1>2. MovedTick(row, i, r, amount)
        = [[row EXCEPT !.liquidityGross = a] EXCEPT !.liquidityNet = b]
  BY DEF MovedTick, TickRows
<1> HIDE DEF a, b
<1>3. QED BY <1>1, <1>2 DEF TickRows, a, b

-----------------------------------------------------------------------------
(* The rows of days and hours. *)

\* What a price does to the row of an interval, or to a missing one.
Extended(new, old, price) ==
  /\ new.open = IF old = Null THEN price ELSE old.open
  /\ new.high = IF old = Null THEN price ELSE IF old.high >= price THEN old.high ELSE price
  /\ new.low = IF old = Null THEN price ELSE IF old.low <= price THEN old.low ELSE price

\* A column of counts, zero in a missing row.
Count(row, column) == IF row = Null THEN 0 ELSE row[column]

LEMMA HighAndLow ==
  ASSUME NEW Rows \in {PoolIntervalRows, TokenDayRows, TokenHourRows},
         NEW row \in Rows, NEW price \in Nat
  PROVE  LET new == WithHighAndLow(row, price) IN
         /\ new \in Rows
         /\ new.open = row.open
         /\ new.high = IF row.high >= price THEN row.high ELSE price
         /\ new.low = IF row.low <= price THEN row.low ELSE price
         /\ \A c \in DOMAIN row \ {"high", "low"} : new[c] = row[c]
         /\ DOMAIN new = DOMAIN row
<1> DEFINE a == IF row.high >= price THEN row.high ELSE price
           b == IF row.low <= price THEN row.low ELSE price
<1>0. row.high \in Nat /\ row.low \in Nat
  <2>1. CASE Rows = PoolIntervalRows
    BY <2>1 DEF PoolIntervalRows
  <2>2. CASE Rows = TokenDayRows
    BY <2>2 DEF TokenDayRows
  <2>3. CASE Rows = TokenHourRows
    BY <2>3 DEF TokenHourRows
  <2>4. QED BY <2>1, <2>2, <2>3
<1>1. a \in Nat /\ b \in Nat
  BY <1>0
<1>2. Max({row.high, price}) = a /\ Min({row.low, price}) = b
  <2>1. row.high \in Int /\ row.low \in Int /\ price \in Int
    BY <1>0
  <2>2. QED BY <2>1, Extremes
<1>3. WithHighAndLow(row, price)
        = [[row EXCEPT !.high = Max({row.high, price})] EXCEPT !.low = Min({row.low, price})]
  BY DEF WithHighAndLow, PoolIntervalRows, TokenDayRows, TokenHourRows
<1>4. WithHighAndLow(row, price) = [[row EXCEPT !.high = a] EXCEPT !.low = b]
  BY <1>2, <1>3
<1> HIDE DEF a, b
<1>5. CASE Rows = PoolIntervalRows
  BY <1>1, <1>4, <1>5 DEF PoolIntervalRows, a, b
<1>6. CASE Rows = TokenDayRows
  BY <1>1, <1>4, <1>6 DEF TokenDayRows, a, b
<1>7. CASE Rows = TokenHourRows
  BY <1>1, <1>4, <1>7 DEF TokenHourRows, a, b
<1>8. QED BY <1>5, <1>6, <1>7

\* A row of a pool's day or hour counts a transaction; its volumes stay what they are.
PoolTouched(new, old, price) ==
  /\ new \in PoolIntervalRows
  /\ Extended(new, old, price)
  /\ new.txCount = Count(old, "txCount") + 1

SameVolume(new, old) ==
  /\ new.volumeToken0 = Count(old, "volumeToken0")
  /\ new.volumeUSD = Count(old, "volumeUSD")

LEMMA PoolDayTouched ==
  ASSUME NEW p, poolDayData[p][today] \in PoolIntervalRows \cup {Null}, NEW price \in Nat
  PROVE  /\ PoolTouched(PoolDayRow(p, price), poolDayData[p][today], price)
         /\ SameVolume(PoolDayRow(p, price), poolDayData[p][today])
<1> DEFINE old == poolDayData[p][today]
           row == IF old = Null THEN NewPoolDayData(price) ELSE old
           wide == WithHighAndLow(row, price)
<1>1. row \in PoolIntervalRows
  BY NewRows
<1>2. /\ wide \in PoolIntervalRows /\ wide.open = row.open
      /\ wide.high = IF row.high >= price THEN row.high ELSE price
      /\ wide.low = IF row.low <= price THEN row.low ELSE price
      /\ \A c \in DOMAIN row \ {"high", "low"} : wide[c] = row[c]
  <2> HIDE DEF row
  <2>1. QED BY <1>1, HighAndLow
<1>3. /\ wide.txCount = row.txCount /\ wide.volumeToken0 = row.volumeToken0
      /\ wide.volumeUSD = row.volumeUSD
  <2> HIDE DEF row, wide
  <2>1. QED BY <1>1, <1>2 DEF PoolIntervalRows
<1> DEFINE n == wide.txCount + 1
           new == PoolDayRow(p, price)
<1>4. n \in Nat
  BY <1>2 DEF PoolIntervalRows
<1>5. new = [wide EXCEPT !.txCount = n]
  BY DEF PoolDayRow
<1>6. /\ new \in PoolIntervalRows /\ new.open = wide.open /\ new.high = wide.high
      /\ new.low = wide.low /\ new.txCount = n
      /\ new.volumeToken0 = wide.volumeToken0 /\ new.volumeUSD = wide.volumeUSD
  <2> HIDE DEF n, wide, new
  <2>1. QED BY <1>2, <1>4, <1>5 DEF PoolIntervalRows
<1>7. CASE old = Null
  <2>1. row = NewPoolDayData(price)
    BY <1>7
  <2>2. row.open = price /\ row.high = price /\ row.low = price /\ row.txCount = 0
        /\ row.volumeToken0 = 0 /\ row.volumeUSD = 0
    BY <2>1 DEF NewPoolDayData
  <2> HIDE DEF row, wide, new
  <2>3. QED BY <1>2, <1>3, <1>6, <1>7, <2>2 DEF PoolTouched, Extended, Count, SameVolume, new
<1>8. CASE old # Null
  <2>1. row = old
    BY <1>8
  <2> HIDE DEF row, wide, new
  <2>2. QED BY <1>2, <1>3, <1>6, <1>8, <2>1 DEF PoolTouched, Extended, Count, SameVolume, new
<1>9. QED BY <1>7, <1>8

LEMMA PoolHourTouched ==
  ASSUME NEW p, poolHourData[p][hour] \in PoolIntervalRows \cup {Null}, NEW price \in Nat
  PROVE  /\ PoolTouched(PoolHourRow(p, price), poolHourData[p][hour], price)
         /\ SameVolume(PoolHourRow(p, price), poolHourData[p][hour])
<1> DEFINE old == poolHourData[p][hour]
           row == IF old = Null THEN NewPoolHourData(price) ELSE old
           wide == WithHighAndLow(row, price)
<1>1. row \in PoolIntervalRows
  BY NewRows DEF NewPoolHourData
<1>2. /\ wide \in PoolIntervalRows /\ wide.open = row.open
      /\ wide.high = IF row.high >= price THEN row.high ELSE price
      /\ wide.low = IF row.low <= price THEN row.low ELSE price
      /\ \A c \in DOMAIN row \ {"high", "low"} : wide[c] = row[c]
  <2> HIDE DEF row
  <2>1. QED BY <1>1, HighAndLow
<1>3. /\ wide.txCount = row.txCount /\ wide.volumeToken0 = row.volumeToken0
      /\ wide.volumeUSD = row.volumeUSD
  <2> HIDE DEF row, wide
  <2>1. QED BY <1>1, <1>2 DEF PoolIntervalRows
<1> DEFINE n == wide.txCount + 1
           new == PoolHourRow(p, price)
<1>4. n \in Nat
  BY <1>2 DEF PoolIntervalRows
<1>5. new = [[wide EXCEPT !.txCount = n] EXCEPT !.close = price]
  BY DEF PoolHourRow
<1>6. /\ new \in PoolIntervalRows /\ new.open = wide.open /\ new.high = wide.high
      /\ new.low = wide.low /\ new.txCount = n
      /\ new.volumeToken0 = wide.volumeToken0 /\ new.volumeUSD = wide.volumeUSD
  <2> HIDE DEF n, wide, new
  <2>1. QED BY <1>2, <1>4, <1>5 DEF PoolIntervalRows
<1>7. CASE old = Null
  <2>1. row = NewPoolDayData(price)
    BY <1>7 DEF NewPoolHourData
  <2>2. row.open = price /\ row.high = price /\ row.low = price /\ row.txCount = 0
        /\ row.volumeToken0 = 0 /\ row.volumeUSD = 0
    BY <2>1 DEF NewPoolDayData
  <2> HIDE DEF row, wide, new
  <2>3. QED BY <1>2, <1>3, <1>6, <1>7, <2>2 DEF PoolTouched, Extended, Count, SameVolume, new
<1>8. CASE old # Null
  <2>1. row = old
    BY <1>8
  <2> HIDE DEF row, wide, new
  <2>2. QED BY <1>2, <1>3, <1>6, <1>8, <2>1 DEF PoolTouched, Extended, Count, SameVolume, new
<1>9. QED BY <1>7, <1>8

\* With the volumes of a swap.
LEMMA PoolVolumeTouched ==
  ASSUME NEW row, NEW old, NEW price, PoolTouched(row, old, price), SameVolume(row, old),
         NEW amount0 \in Nat, NEW amount1 \in Nat, NEW usd \in Nat, NEW fees \in Nat
  PROVE  LET new == WithPoolVolume(row, amount0, amount1, usd, fees) IN
         /\ PoolTouched(new, old, price)
         /\ new.volumeToken0 = Count(old, "volumeToken0") + amount0
         /\ new.volumeUSD = Count(old, "volumeUSD") + usd
<1> DEFINE a == row.volumeToken0 + amount0
           b == row.volumeToken1 + amount1
           c == row.volumeUSD + usd
           d == row.feesUSD + fees
           new == WithPoolVolume(row, amount0, amount1, usd, fees)
<1>0. row \in PoolIntervalRows
  BY DEF PoolTouched
<1>1. a \in Nat /\ b \in Nat /\ c \in Nat /\ d \in Nat
  BY <1>0 DEF PoolIntervalRows
<1>2. new = [[[[row EXCEPT !.volumeToken0 = a] EXCEPT !.volumeToken1 = b]
                EXCEPT !.volumeUSD = c] EXCEPT !.feesUSD = d]
  BY <1>0 DEF WithPoolVolume, PoolIntervalRows
<1>3. /\ new \in PoolIntervalRows /\ new.open = row.open /\ new.high = row.high
      /\ new.low = row.low /\ new.txCount = row.txCount
      /\ new.volumeToken0 = a /\ new.volumeUSD = c
  <2> HIDE DEF a, b, c, d, new
  <2>1. QED BY <1>0, <1>1, <1>2 DEF PoolIntervalRows
<1>4. QED
  <2> HIDE DEF new
  <2>1. QED BY <1>3 DEF PoolTouched, Extended, SameVolume, new

LEMMA TokenDayTouched ==
  ASSUME NEW t, tokenDayData[t][today] \in TokenDayRows \cup {Null}, NEW price \in Nat
  PROVE  LET new == TokenDayRow(t, price) IN
         /\ new \in TokenDayRows /\ Extended(new, tokenDayData[t][today], price)
         /\ new.close = price /\ new.volume = Count(tokenDayData[t][today], "volume")
<1> DEFINE old == tokenDayData[t][today]
           row == IF old = Null THEN NewTokenDayData(price) ELSE old
           wide == WithHighAndLow(row, price)
           new == TokenDayRow(t, price)
<1>1. row \in TokenDayRows
  BY NewRows
<1>2. /\ wide \in TokenDayRows /\ wide.open = row.open
      /\ wide.high = IF row.high >= price THEN row.high ELSE price
      /\ wide.low = IF row.low <= price THEN row.low ELSE price
      /\ \A c \in DOMAIN row \ {"high", "low"} : wide[c] = row[c]
  <2> HIDE DEF row
  <2>1. QED BY <1>1, HighAndLow
<1>3. wide.volume = row.volume
  <2> HIDE DEF row, wide
  <2>1. QED BY <1>1, <1>2 DEF TokenDayRows
<1>5. new = [wide EXCEPT !.close = price]
  BY DEF TokenDayRow
<1>6. /\ new \in TokenDayRows /\ new.open = wide.open /\ new.high = wide.high
      /\ new.low = wide.low /\ new.close = price /\ new.volume = wide.volume
  <2> HIDE DEF wide, new
  <2>1. QED BY <1>2, <1>5 DEF TokenDayRows
<1>7. CASE old = Null
  <2>1. row = NewTokenDayData(price)
    BY <1>7
  <2>2. row.open = price /\ row.high = price /\ row.low = price /\ row.volume = 0
    BY <2>1 DEF NewTokenDayData
  <2> HIDE DEF row, wide, new
  <2>3. QED BY <1>2, <1>3, <1>6, <1>7, <2>2 DEF Extended, Count, new
<1>8. CASE old # Null
  <2>1. row = old
    BY <1>8
  <2> HIDE DEF row, wide, new
  <2>2. QED BY <1>2, <1>3, <1>6, <1>8, <2>1 DEF Extended, Count, new
<1>9. QED BY <1>7, <1>8

LEMMA TokenHourTouched ==
  ASSUME NEW t, tokenHourData[t][hour] \in TokenHourRows \cup {Null}, NEW price \in Nat
  PROVE  LET new == TokenHourRow(t, price) IN
         /\ new \in TokenHourRows /\ Extended(new, tokenHourData[t][hour], price)
         /\ new.close = price
<1> DEFINE old == tokenHourData[t][hour]
           row == IF old = Null THEN NewTokenHourData(price) ELSE old
           wide == WithHighAndLow(row, price)
           new == TokenHourRow(t, price)
<1>1. row \in TokenHourRows
  BY NewRows
<1>2. /\ wide \in TokenHourRows /\ wide.open = row.open
      /\ wide.high = IF row.high >= price THEN row.high ELSE price
      /\ wide.low = IF row.low <= price THEN row.low ELSE price
  <2> HIDE DEF row
  <2>1. QED BY <1>1, HighAndLow
<1>5. new = [wide EXCEPT !.close = price]
  BY DEF TokenHourRow
<1>6. /\ new \in TokenHourRows /\ new.open = wide.open /\ new.high = wide.high
      /\ new.low = wide.low /\ new.close = price
  <2> HIDE DEF wide, new
  <2>1. QED BY <1>2, <1>5 DEF TokenHourRows
<1>7. CASE old = Null
  <2>1. row = NewTokenHourData(price)
    BY <1>7
  <2>2. row.open = price /\ row.high = price /\ row.low = price
    BY <2>1 DEF NewTokenHourData
  <2> HIDE DEF row, wide, new
  <2>3. QED BY <1>2, <1>6, <1>7, <2>2 DEF Extended, new
<1>8. CASE old # Null
  <2>1. row = old
    BY <1>8
  <2> HIDE DEF row, wide, new
  <2>2. QED BY <1>2, <1>6, <1>8, <2>1 DEF Extended, new
<1>9. QED BY <1>7, <1>8

\* With the volume of a swap.
TokenDayAdded(new, row, amount) ==
  /\ new \in TokenDayRows
  /\ new.open = row.open /\ new.high = row.high /\ new.low = row.low
  /\ new.close = row.close /\ new.volume = row.volume + amount

LEMMA TokenVolumeTouched ==
  ASSUME NEW row \in TokenDayRows, NEW amount \in Nat, NEW usd \in Nat, NEW fees \in Nat
  PROVE  TokenDayAdded(WithTokenVolume(row, amount, usd, fees), row, amount)
<1> DEFINE a == row.volume + amount
           b == row.volumeUSD + usd
           c == row.feesUSD + fees
<1>1. a \in Nat /\ b \in Nat /\ c \in Nat
  BY DEF TokenDayRows
<1>2. WithTokenVolume(row, amount, usd, fees)
        = [[[row EXCEPT !.volume = a] EXCEPT !.volumeUSD = b] EXCEPT !.feesUSD = c]
  BY DEF WithTokenVolume, TokenDayRows
<1> HIDE DEF a, b, c
<1>3. QED BY <1>1, <1>2 DEF TokenDayAdded, TokenDayRows, a, b, c

-----------------------------------------------------------------------------
(* The inductive invariant: types, and what a missing row says. *)

Contract(p) == [tick : PoolTicks[p] \cup {Null}, liquidity : [Ranges[p] -> Nat],
                reserve0 : Nat, reserve1 : Nat]

TypeInv ==
  /\ hour \in Hours /\ transaction \in 0..MaxTransactions
  /\ factory \in FactoryRows \cup {Null} /\ bundle \in Nat
  /\ DOMAIN chain = Pools /\ DOMAIN tick = Pools /\ DOMAIN tickDayData = Pools
  /\ \A p \in Pools : /\ chain[p] \in Contract(p)
                      /\ tick[p] \in [TicksOf(p) -> TickRows \cup {Null}]
                      /\ tickDayData[p] \in [TicksOf(p) -> [Days -> TickRows \cup {Null}]]
  /\ pool \in [Pools -> PoolRows \cup {Null}]
  /\ \A p \in Created : pool[p].tick \in PoolTicks[p] \cup {Null}
  /\ token \in [Tokens -> TokenRows \cup {Null}]
  /\ uniswapDayData \in [Days -> UniswapDayRows \cup {Null}]
  /\ poolDayData \in [Pools -> [Days -> PoolIntervalRows \cup {Null}]]
  /\ poolHourData \in [Pools -> [Hours -> PoolIntervalRows \cup {Null}]]
  /\ tokenDayData \in [Tokens -> [Days -> TokenDayRows \cup {Null}]]
  /\ tokenHourData \in [Tokens -> [Hours -> TokenHourRows \cup {Null}]]
  /\ transactions \in [0..MaxTransactions -> TransactionRows \cup {Null}]

\* There is a factory and there are tokens once there are pools; a white-listed pool of a
\* token exists and has the token.
Registered ==
  /\ factory # Null <=> Created # {}
  /\ Created = {} => Kept(token) = {}
  /\ factory # Null => factory.poolCount = Cardinality(Created)
  /\ \A p \in Created : TokensOf(p) \subseteq Kept(token)
  /\ \A t \in Kept(token) : \A i \in DOMAIN token[t].whitelistPools :
       LET p == token[t].whitelistPools[i] IN p \in Created /\ t \in TokensOf(p)

\* Nothing is known of a pool before it is created, of a token before its first pool, and
\* of an hour or day to come.
NothingBefore ==
  /\ \A p \in Pools \ Created :
       /\ chain[p] = NewContract(p)
       /\ \A i \in TicksOf(p) : tick[p][i] = Null
       /\ \A d \in Days : poolDayData[p][d] = Null
       /\ \A h \in Hours : poolHourData[p][h] = Null
  /\ \A t \in Tokens \ Kept(token) :
       /\ \A d \in Days : tokenDayData[t][d] = Null
       /\ \A h \in Hours : tokenHourData[t][h] = Null
  /\ Created = {} => \A d \in Days : uniswapDayData[d] = Null

Basics == TypeInv /\ Registered /\ NothingBefore

-----------------------------------------------------------------------------
(* Prices. *)

LEMMA Constants ==
  /\ \A p \in Pools : /\ Token0[p] \in Tokens /\ Token1[p] \in Tokens /\ Token0[p] # Token1[p]
                      /\ IsFiniteSet(Ranges[p])
                      /\ \A r \in Ranges[p] : r[1] \in Int /\ r[2] \in Int /\ r[1] < r[2]
                      /\ FeeTier[p] \in Nat /\ PoolTicks[p] \subseteq Int
                      /\ \A t \in PoolTicks[p] : TokenPrices[t][1] \in Nat /\ TokenPrices[t][2] \in Nat
  /\ IsFiniteSet(Pools) /\ HoursPerDay \in Nat \ {0} /\ MaxHour \in Nat /\ MaxTransactions \in Nat
  /\ MaxAmount \in Nat
  BY PoolsAssumption

LEMMA EthPriceNat ==
  ASSUME NEW pools \in [Pools -> PoolRows \cup {Null}]
  PROVE  EthPriceInUSD(pools) \in Nat
  BY DEF EthPriceInUSD, PoolRows

LEMMA PriceNat ==
  ASSUME NEW pools \in [Pools -> PoolRows \cup {Null}],
         NEW tokens \in [Tokens -> TokenRows \cup {Null}],
         NEW t \in Tokens, tokens[t] # Null, NEW ethPriceUSD \in Nat,
         \A i \in DOMAIN tokens[t].whitelistPools :
           LET p == tokens[t].whitelistPools[i]
           IN /\ p \in Pools /\ pools[p] # Null
              /\ tokens[Token0[p]] # Null /\ tokens[Token1[p]] # Null
  PROVE  FindEthPerToken(t, pools, tokens, ethPriceUSD) \in Nat
<1> DEFINE list == tokens[t].whitelistPools
           locked(i) == EthLocked(list[i], t, pools, tokens)
           deep == {i \in DOMAIN list : /\ pools[list[i]].liquidity > 0
                                        /\ locked(i) > MinimumEthLocked}
           best == {i \in deep : /\ \A j \in deep : locked(j) <= locked(i)
                                 /\ \A j \in deep : j < i => locked(j) < locked(i)}
           chosen == CHOOSE i \in best : TRUE
<1>1. FindEthPerToken(t, pools, tokens, ethPriceUSD)
        = IF t = WETH THEN 1
          ELSE IF AfterFirstGraft /\ t \in StableCoins THEN SafeDiv(1, ethPriceUSD)
          ELSE IF best = {} THEN 0
          ELSE EthPrice(list[chosen], t, pools, tokens)
  BY DEF FindEthPerToken
<1>2. SafeDiv(1, ethPriceUSD) \in Nat
  BY DEF SafeDiv
<1>3. ASSUME best # {} PROVE EthPrice(list[chosen], t, pools, tokens) \in Nat
  <2>1. chosen \in DOMAIN list
    BY <1>3
  <2> DEFINE p == list[chosen]
  <2>2. p \in Pools /\ pools[p] # Null /\ tokens[Token0[p]] # Null /\ tokens[Token1[p]] # Null
    <3> HIDE DEF chosen
    <3>1. QED BY <2>1
  <2> HIDE DEF p
  <2>3. /\ pools[p].token0Price \in Nat /\ pools[p].token1Price \in Nat
        /\ tokens[Token0[p]].derivedETH \in Nat /\ tokens[Token1[p]].derivedETH \in Nat
    BY <2>2, Constants DEF PoolRows, TokenRows
  <2>4. EthPrice(p, t, pools, tokens) \in Nat
    BY <2>3 DEF EthPrice
  <2>5. QED BY <2>4 DEF p
<1> HIDE DEF best, chosen, list
<1>4. QED BY <1>1, <1>2, <1>3

-----------------------------------------------------------------------------
(* What a mint, a burn and a swap have in common. *)

OnlyAt(new, old, k) ==
  /\ new = [j \in DOMAIN old |-> new[j]]
  /\ \A j \in DOMAIN old \ {k} : new[j] = old[j]

\* The pool's row.
PoolMoved(p, amount0, amount1, usd) ==
  /\ OnlyAt(pool', pool, p)
  /\ pool'[p] \in PoolRows
  /\ pool'[p].tick \in PoolTicks[p] \cup {Null}
  /\ pool'[p].totalValueLockedToken0 = pool[p].totalValueLockedToken0 + amount0
  /\ pool'[p].totalValueLockedToken1 = pool[p].totalValueLockedToken1 + amount1
  /\ pool'[p].txCount = pool[p].txCount + 1
  /\ pool'[p].volumeUSD = pool[p].volumeUSD + usd

FactoryMoved(p, usd, eth, fees) ==
  /\ factory' \in FactoryRows
  /\ factory'.poolCount = factory.poolCount
  /\ factory'.txCount = factory.txCount + 1
  /\ factory'.totalValueLockedETH = factory.totalValueLockedETH - pool[p].totalValueLockedETH
                                      + pool'[p].totalValueLockedETH
  /\ factory'.totalVolumeETH = factory.totalVolumeETH + eth
  /\ factory'.totalVolumeUSD = factory.totalVolumeUSD + usd
  /\ factory'.totalFeesUSD = factory.totalFeesUSD + fees

TokenMoved(t, amount, volume, usd) ==
  /\ token'[t] \in TokenRows
  /\ token'[t].totalValueLocked = token[t].totalValueLocked + amount
  /\ token'[t].volume = token[t].volume + volume
  /\ token'[t].volumeUSD = token[t].volumeUSD + usd
  /\ token'[t].whitelistPools = token[t].whitelistPools

TokensMoved(p, amount0, amount1, volume0, volume1, usd) ==
  /\ token' = [t \in Tokens |-> token'[t]]
  /\ \A t \in Tokens \ TokensOf(p) : token'[t] = token[t]
  /\ TokenMoved(Token0[p], amount0, volume0, usd)
  /\ TokenMoved(Token1[p], amount1, volume1, usd)

UniswapDayMoved(usd, eth, fees) ==
  /\ OnlyAt(uniswapDayData', uniswapDayData, today)
  /\ uniswapDayData'[today] \in UniswapDayRows
  /\ uniswapDayData'[today].volumeETH = Count(uniswapDayData[today], "volumeETH") + eth
  /\ uniswapDayData'[today].volumeUSD = Count(uniswapDayData[today], "volumeUSD") + usd
  /\ uniswapDayData'[today].feesUSD = Count(uniswapDayData[today], "feesUSD") + fees

PoolIntervalsMoved(p, volume0, usd) ==
  /\ OnlyAt(poolDayData', poolDayData, p) /\ OnlyAt(poolHourData', poolHourData, p)
  /\ OnlyAt(poolDayData'[p], poolDayData[p], today)
  /\ OnlyAt(poolHourData'[p], poolHourData[p], hour)
  /\ PoolTouched(poolDayData'[p][today], poolDayData[p][today], pool'[p].token0Price)
  /\ PoolTouched(poolHourData'[p][hour], poolHourData[p][hour], pool'[p].token0Price)
  /\ poolDayData'[p][today].volumeToken0 = Count(poolDayData[p][today], "volumeToken0") + volume0
  /\ poolDayData'[p][today].volumeUSD = Count(poolDayData[p][today], "volumeUSD") + usd
  /\ AfterFirstGraft =>
       poolHourData'[p][hour].volumeToken0
         = Count(poolHourData[p][hour], "volumeToken0") + volume0

TokenIntervalsMoved(t, volume) ==
  /\ OnlyAt(tokenDayData'[t], tokenDayData[t], today)
  /\ OnlyAt(tokenHourData'[t], tokenHourData[t], hour)
  /\ tokenDayData'[t][today] \in TokenDayRows
  /\ tokenHourData'[t][hour] \in TokenHourRows
  /\ \E price \in Nat :
       /\ Extended(tokenDayData'[t][today], tokenDayData[t][today], price)
       /\ Extended(tokenHourData'[t][hour], tokenHourData[t][hour], price)
       /\ tokenDayData'[t][today].close = price /\ tokenHourData'[t][hour].close = price
  /\ tokenDayData'[t][today].volume = Count(tokenDayData[t][today], "volume") + volume

TokensIntervalsMoved(p, volume0, volume1) ==
  /\ tokenDayData' = [t \in Tokens |-> tokenDayData'[t]]
  /\ tokenHourData' = [t \in Tokens |-> tokenHourData'[t]]
  /\ \A t \in Tokens \ TokensOf(p) : /\ tokenDayData'[t] = tokenDayData[t]
                                     /\ tokenHourData'[t] = tokenHourData[t]
  /\ TokenIntervalsMoved(Token0[p], volume0)
  /\ TokenIntervalsMoved(Token1[p], volume1)

\* The contract's reserves, the ticks' days, and the transaction.
ContractMoved(p, amount0, amount1) ==
  /\ OnlyAt(chain', chain, p)
  /\ chain'[p] \in Contract(p)
  /\ chain'[p].reserve0 = chain[p].reserve0 + amount0
  /\ chain'[p].reserve1 = chain[p].reserve1 + amount1

Event(p, amount0, amount1, volume0, volume1, usd, eth, fees) ==
  /\ PoolMoved(p, amount0, amount1, usd)
  /\ FactoryMoved(p, usd, eth, fees)
  /\ TokensMoved(p, amount0, amount1, volume0, volume1, usd)
  /\ UniswapDayMoved(usd, eth, fees)
  /\ PoolIntervalsMoved(p, volume0, usd)
  /\ TokensIntervalsMoved(p, volume0, volume1)
  /\ ContractMoved(p, amount0, amount1)
  /\ UNCHANGED environmentVars
  /\ bundle' \in Nat

\* The rows a handler reads are there.
LEMMA RowsRead ==
  ASSUME Basics, NEW p \in Created
  PROVE  /\ p \in Pools /\ pool[p] \in PoolRows
         /\ Token0[p] \in Tokens /\ Token1[p] \in Tokens /\ Token0[p] # Token1[p]
         /\ token[Token0[p]] \in TokenRows /\ token[Token1[p]] \in TokenRows
         /\ factory \in FactoryRows
         /\ chain[p] \in Contract(p) /\ bundle \in Nat
         /\ today \in Days /\ hour \in Hours
         /\ uniswapDayData[today] \in UniswapDayRows \cup {Null}
         /\ poolDayData[p][today] \in PoolIntervalRows \cup {Null}
         /\ poolHourData[p][hour] \in PoolIntervalRows \cup {Null}
         /\ \A t \in Tokens : /\ tokenDayData[t][today] \in TokenDayRows \cup {Null}
                              /\ tokenHourData[t][hour] \in TokenHourRows \cup {Null}
<1>1. p \in Pools /\ pool[p] \in PoolRows
  BY DEF Basics, TypeInv, Created
<1>2. Token0[p] \in Tokens /\ Token1[p] \in Tokens /\ Token0[p] # Token1[p]
  BY <1>1, Constants
<1>3. token[Token0[p]] \in TokenRows /\ token[Token1[p]] \in TokenRows
  BY <1>2 DEF Basics, TypeInv, Registered, TokensOf, Kept
<1>4. factory \in FactoryRows
  BY DEF Basics, TypeInv, Registered
<1>5. today \in Days /\ hour \in Hours
  BY DEF Basics, TypeInv, today, Days
<1>6. /\ uniswapDayData[today] \in UniswapDayRows \cup {Null}
      /\ poolDayData[p][today] \in PoolIntervalRows \cup {Null}
      /\ poolHourData[p][hour] \in PoolIntervalRows \cup {Null}
      /\ \A t \in Tokens : /\ tokenDayData[t][today] \in TokenDayRows \cup {Null}
                           /\ tokenHourData[t][hour] \in TokenHourRows \cup {Null}
  BY <1>1, <1>5 DEF Basics, TypeInv
<1>7. chain[p] \in Contract(p) /\ bundle \in Nat
  BY <1>1 DEF Basics, TypeInv
<1>8. QED BY <1>1, <1>2, <1>3, <1>4, <1>5, <1>6, <1>7

UniswapAdded(new, usd, eth, fees) ==
  /\ new \in UniswapDayRows
  /\ new.volumeETH = Count(uniswapDayData[today], "volumeETH") + eth
  /\ new.volumeUSD = Count(uniswapDayData[today], "volumeUSD") + usd
  /\ new.feesUSD = Count(uniswapDayData[today], "feesUSD") + fees

LEMMA UniswapRowCount ==
  ASSUME uniswapDayData[today] \in UniswapDayRows \cup {Null},
         NEW usd \in Nat, NEW eth \in Nat, NEW fees \in Nat
  PROVE  /\ UniswapRow \in UniswapDayRows
         /\ UniswapRow.volumeETH = Count(uniswapDayData[today], "volumeETH")
         /\ UniswapRow.volumeUSD = Count(uniswapDayData[today], "volumeUSD")
         /\ UniswapRow.feesUSD = Count(uniswapDayData[today], "feesUSD")
         /\ UniswapAdded([UniswapRow EXCEPT !.volumeETH = @ + eth, !.volumeUSD = @ + usd,
                                            !.feesUSD = @ + fees], usd, eth, fees)
<1>1. /\ UniswapRow \in UniswapDayRows
      /\ UniswapRow.volumeETH = Count(uniswapDayData[today], "volumeETH")
      /\ UniswapRow.volumeUSD = Count(uniswapDayData[today], "volumeUSD")
      /\ UniswapRow.feesUSD = Count(uniswapDayData[today], "feesUSD")
  <2>1. CASE uniswapDayData[today] = Null
    BY <2>1, NewRows DEF UniswapRow, NewUniswapDayData, Count
  <2>2. CASE uniswapDayData[today] # Null
    BY <2>2 DEF UniswapRow, Count
  <2>3. QED BY <2>1, <2>2
<1> DEFINE row == UniswapRow
           a == row.volumeETH + eth
           b == row.volumeUSD + usd
           c == row.feesUSD + fees
           new == [row EXCEPT !.volumeETH = @ + eth, !.volumeUSD = @ + usd, !.feesUSD = @ + fees]
<1>2. a \in Nat /\ b \in Nat /\ c \in Nat
  BY <1>1 DEF UniswapDayRows
<1>3. new = [[[row EXCEPT !.volumeETH = a] EXCEPT !.volumeUSD = b] EXCEPT !.feesUSD = c]
  <2> HIDE DEF row
  <2>1. row \in UniswapDayRows
    BY <1>1 DEF row
  <2>2. QED BY <2>1 DEF UniswapDayRows
<1>4. new \in UniswapDayRows /\ new.volumeETH = a /\ new.volumeUSD = b /\ new.feesUSD = c
  <2> HIDE DEF a, b, c, row, new
  <2>1. row \in UniswapDayRows
    BY <1>1 DEF row
  <2>2. QED BY <1>2, <1>3, <2>1 DEF UniswapDayRows
<1>5. UniswapAdded(new, usd, eth, fees)
  <2> HIDE DEF new
  <2>1. QED BY <1>1, <1>4 DEF UniswapAdded
<1>6. QED BY <1>1, <1>5

\* Mints and burns have no volume.
LEMMA MoveLiquidityEvent ==
  ASSUME Basics, NEW p \in Created, NEW r \in Ranges[p], NEW liquidity \in Int,
         NEW amount0 \in Int, NEW amount1 \in Int,
         chain[p].liquidity[r] + liquidity \in Nat,
         chain[p].reserve0 + amount0 \in Nat, chain[p].reserve1 + amount1 \in Nat,
         NEW entity, MoveLiquidity(entity, p, r, liquidity, amount0, amount1)
  PROVE  /\ Event(p, amount0, amount1, 0, 0, 0, 0, 0)
         /\ pool'[p].tick = pool[p].tick
         /\ pool'[p].liquidity = IF IncludesCurrentTick(p, r) THEN pool[p].liquidity + liquidity
                                 ELSE pool[p].liquidity
<1> DEFINE t0 == Token0[p]
           t1 == Token1[p]
           moved == WithAmounts(pool[p], amount0, amount1)
           l == IF IncludesCurrentTick(p, r) THEN moved.liquidity + liquidity ELSE moved.liquidity
           inRange == [moved EXCEPT !.liquidity = l]
           valued == Valued(inRange, token[t0].derivedETH, token[t1].derivedETH)
           price(t) == token[t].derivedETH * bundle
<1>1. /\ pool' = [pool EXCEPT ![p] = valued]
      /\ factory' = WithPoolLocked(factory, pool[p], valued)
      /\ token' = [token EXCEPT ![t0] = WithTokenLocked(@, amount0),
                                ![t1] = WithTokenLocked(@, amount1)]
      /\ uniswapDayData' = [uniswapDayData EXCEPT ![today] = UniswapRow]
      /\ poolDayData' = [poolDayData EXCEPT ![p][today] = PoolDayRow(p, pool[p].token0Price)]
      /\ poolHourData' = [poolHourData EXCEPT ![p][hour] = PoolHourRow(p, pool[p].token0Price)]
      /\ tokenDayData' = [tokenDayData EXCEPT ![t0][today] = TokenDayRow(t0, price(t0)),
                                              ![t1][today] = TokenDayRow(t1, price(t1))]
      /\ tokenHourData' = [tokenHourData EXCEPT ![t0][hour] = TokenHourRow(t0, price(t0)),
                                                ![t1][hour] = TokenHourRow(t1, price(t1))]
      /\ chain' = [chain EXCEPT ![p].liquidity[r] = @ + liquidity,
                                ![p].reserve0 = @ + amount0, ![p].reserve1 = @ + amount1]
      /\ UNCHANGED <<environmentVars, bundle>>
  BY DEF MoveLiquidity
<1>0. /\ p \in Pools /\ pool[p] \in PoolRows
      /\ t0 \in Tokens /\ t1 \in Tokens /\ t0 # t1
      /\ token[t0] \in TokenRows /\ token[t1] \in TokenRows
      /\ factory \in FactoryRows
      /\ chain[p] \in Contract(p) /\ bundle \in Nat
      /\ today \in Days /\ hour \in Hours
      /\ uniswapDayData[today] \in UniswapDayRows \cup {Null}
      /\ poolDayData[p][today] \in PoolIntervalRows \cup {Null}
      /\ poolHourData[p][hour] \in PoolIntervalRows \cup {Null}
      /\ \A t \in Tokens : /\ tokenDayData[t][today] \in TokenDayRows \cup {Null}
                           /\ tokenHourData[t][hour] \in TokenHourRows \cup {Null}
  BY RowsRead
<1> USE <1>0
<1>2. /\ moved \in PoolRows /\ l \in Int /\ moved.liquidity = pool[p].liquidity
      /\ moved.token0Price = pool[p].token0Price /\ moved.tick = pool[p].tick
      /\ moved.totalValueLockedToken0 = pool[p].totalValueLockedToken0 + amount0
      /\ moved.totalValueLockedToken1 = pool[p].totalValueLockedToken1 + amount1
      /\ moved.txCount = pool[p].txCount + 1 /\ moved.volumeUSD = pool[p].volumeUSD
  <2>1. /\ moved \in PoolRows /\ moved.liquidity = pool[p].liquidity
        /\ moved.token0Price = pool[p].token0Price /\ moved.tick = pool[p].tick
        /\ moved.totalValueLockedToken0 = pool[p].totalValueLockedToken0 + amount0
        /\ moved.totalValueLockedToken1 = pool[p].totalValueLockedToken1 + amount1
        /\ moved.txCount = pool[p].txCount + 1 /\ moved.volumeUSD = pool[p].volumeUSD
    BY WithAmountsRow
  <2>2. l \in Int
    <3> HIDE DEF moved
    <3>1. QED BY <2>1 DEF PoolRows
  <2>3. QED BY <2>1, <2>2
<1>3. /\ inRange \in PoolRows /\ inRange.liquidity = l
      /\ inRange.token0Price = moved.token0Price /\ inRange.tick = moved.tick
      /\ inRange.totalValueLockedToken0 = moved.totalValueLockedToken0
      /\ inRange.totalValueLockedToken1 = moved.totalValueLockedToken1
      /\ inRange.txCount = moved.txCount /\ inRange.volumeUSD = moved.volumeUSD
  <2> HIDE DEF moved, l
  <2>1. QED BY <1>2 DEF PoolRows
<1>4. /\ valued \in PoolRows /\ valued.liquidity = l
      /\ valued.token0Price = pool[p].token0Price /\ valued.tick = pool[p].tick
      /\ valued.totalValueLockedToken0 = pool[p].totalValueLockedToken0 + amount0
      /\ valued.totalValueLockedToken1 = pool[p].totalValueLockedToken1 + amount1
      /\ valued.txCount = pool[p].txCount + 1 /\ valued.volumeUSD = pool[p].volumeUSD
  <2>1. token[t0].derivedETH \in Nat /\ token[t1].derivedETH \in Nat
    BY DEF TokenRows
  <2> HIDE DEF moved, inRange
  <2>2. /\ valued \in PoolRows /\ valued.liquidity = inRange.liquidity
        /\ valued.token0Price = inRange.token0Price /\ valued.tick = inRange.tick
        /\ valued.totalValueLockedToken0 = inRange.totalValueLockedToken0
        /\ valued.totalValueLockedToken1 = inRange.totalValueLockedToken1
        /\ valued.txCount = inRange.txCount /\ valued.volumeUSD = inRange.volumeUSD
    <3> DEFINE d0 == token[t0].derivedETH
               d1 == token[t1].derivedETH
    <3> HIDE <1>0 DEF d0, d1
    <3>1. inRange \in PoolRows /\ d0 \in Nat /\ d1 \in Nat
      BY <1>3, <2>1 DEF d0, d1
    <3>2. LET new == Valued(inRange, d0, d1) IN
          /\ new \in PoolRows
          /\ new.totalValueLockedToken0 = inRange.totalValueLockedToken0
          /\ new.totalValueLockedToken1 = inRange.totalValueLockedToken1
          /\ new.txCount = inRange.txCount
          /\ new.liquidity = inRange.liquidity /\ new.tick = inRange.tick
          /\ new.token0Price = inRange.token0Price /\ new.token1Price = inRange.token1Price
          /\ new.volumeToken0 = inRange.volumeToken0 /\ new.volumeToken1 = inRange.volumeToken1
          /\ new.volumeUSD = inRange.volumeUSD /\ new.feesUSD = inRange.feesUSD
      BY ONLY <3>1, ValuedRow, Zenon
    <3>3. valued = Valued(inRange, d0, d1)
      BY DEF d0, d1
    <3> HIDE DEF valued
    <3>4. QED BY <3>2, <3>3
  <2> HIDE DEF valued
  <2>3. QED BY <1>2, <1>3, <2>2
<1> HIDE DEF moved, l, inRange, valued
<1>5. PoolMoved(p, amount0, amount1, 0)
  <2>1. pool'[p] = valued /\ OnlyAt(pool', pool, p)
    BY <1>1 DEF OnlyAt, Basics, TypeInv
  <2>2. pool[p].tick \in PoolTicks[p] \cup {Null} /\ pool[p].volumeUSD \in Nat
    BY DEF Basics, TypeInv, PoolRows
  <2>3. QED BY <1>4, <2>1, <2>2 DEF PoolMoved
<1>6. FactoryMoved(p, 0, 0, 0)
  <2>1. pool'[p] = valued
    BY <1>1 DEF Basics, TypeInv
  <2>2. /\ factory.totalVolumeETH \in Nat /\ factory.totalVolumeUSD \in Nat
        /\ factory.totalFeesUSD \in Nat
    BY DEF FactoryRows
  <2>3. QED BY <1>1, <1>4, <2>1, <2>2, WithPoolLockedRow DEF FactoryMoved
<1>7. TokensMoved(p, amount0, amount1, 0, 0, 0)
  <2>1. /\ token' = [t \in Tokens |-> token'[t]]
        /\ \A t \in Tokens \ TokensOf(p) : token'[t] = token[t]
        /\ token'[t0] = WithTokenLocked(token[t0], amount0)
        /\ token'[t1] = WithTokenLocked(token[t1], amount1)
    BY <1>1 DEF Basics, TypeInv, TokensOf
  <2>2. ASSUME NEW t, token[t] \in TokenRows
        PROVE  token[t].volume \in Nat /\ token[t].volumeUSD \in Nat
    BY <2>2 DEF TokenRows
  <2>3. ASSUME NEW t, token[t] \in TokenRows, NEW amount \in Int,
               token'[t] = WithTokenLocked(token[t], amount)
        PROVE  TokenMoved(t, amount, 0, 0)
    <3> DEFINE new == WithTokenLocked(token[t], amount)
    <3>1. /\ new \in TokenRows
          /\ new.totalValueLocked = token[t].totalValueLocked + amount
          /\ new.volume = token[t].volume /\ new.volumeUSD = token[t].volumeUSD
          /\ new.whitelistPools = token[t].whitelistPools
      BY <2>3, WithTokenLockedRow
    <3>2. token[t].volume + 0 = token[t].volume /\ token[t].volumeUSD + 0 = token[t].volumeUSD
      BY <2>2, <2>3
    <3> HIDE DEF new
    <3>3. token'[t] = new
      BY <2>3 DEF new
    <3>4. QED BY <3>1, <3>2, <3>3 DEF TokenMoved
  <2>4. TokenMoved(t0, amount0, 0, 0) /\ TokenMoved(t1, amount1, 0, 0)
    BY <2>1, <2>3
  <2>5. QED BY <2>1, <2>4 DEF TokensMoved
<1>8. UniswapDayMoved(0, 0, 0)
  <2>1. /\ uniswapDayData'[today] = UniswapRow
        /\ OnlyAt(uniswapDayData', uniswapDayData, today)
    BY <1>1 DEF OnlyAt, Basics, TypeInv
  <2> DEFINE old == uniswapDayData[today]
  <2>2. /\ UniswapRow \in UniswapDayRows
        /\ UniswapRow.volumeETH = Count(old, "volumeETH")
        /\ UniswapRow.volumeUSD = Count(old, "volumeUSD")
        /\ UniswapRow.feesUSD = Count(old, "feesUSD")
    BY UniswapRowCount
  <2>3. /\ UniswapRow.volumeETH \in Nat /\ UniswapRow.volumeUSD \in Nat
        /\ UniswapRow.feesUSD \in Nat
    BY <2>2 DEF UniswapDayRows
  <2>4. QED BY <2>1, <2>2, <2>3 DEF UniswapDayMoved
<1>9. PoolIntervalsMoved(p, 0, 0)
  <2>1. /\ OnlyAt(poolDayData', poolDayData, p) /\ OnlyAt(poolHourData', poolHourData, p)
        /\ OnlyAt(poolDayData'[p], poolDayData[p], today)
        /\ OnlyAt(poolHourData'[p], poolHourData[p], hour)
        /\ poolDayData'[p][today] = PoolDayRow(p, pool[p].token0Price)
        /\ poolHourData'[p][hour] = PoolHourRow(p, pool[p].token0Price)
    BY <1>1 DEF OnlyAt, Basics, TypeInv
  <2>2. pool'[p].token0Price = pool[p].token0Price /\ pool[p].token0Price \in Nat
    BY <1>1, <1>4 DEF Basics, TypeInv, PoolRows
  <2> DEFINE day == PoolDayRow(p, pool[p].token0Price)
             hours == PoolHourRow(p, pool[p].token0Price)
  <2>3. PoolTouched(day, poolDayData[p][today], pool[p].token0Price)
        /\ SameVolume(day, poolDayData[p][today])
    BY <2>2, PoolDayTouched
  <2>4. PoolTouched(hours, poolHourData[p][hour], pool[p].token0Price)
        /\ SameVolume(hours, poolHourData[p][hour])
    BY <2>2, PoolHourTouched
  <2> HIDE DEF day, hours
  <2>5. day.volumeToken0 \in Nat /\ day.volumeUSD \in Nat /\ hours.volumeToken0 \in Nat
    BY <2>3, <2>4 DEF PoolTouched, PoolIntervalRows
  <2>6. poolDayData'[p][today] = day /\ poolHourData'[p][hour] = hours
    BY <2>1 DEF day, hours
  <2>7. QED BY <2>1, <2>2, <2>3, <2>4, <2>5, <2>6 DEF PoolIntervalsMoved, SameVolume
<1>10. TokensIntervalsMoved(p, 0, 0)
  <2>1. /\ tokenDayData' = [t \in Tokens |-> tokenDayData'[t]]
        /\ tokenHourData' = [t \in Tokens |-> tokenHourData'[t]]
        /\ \A t \in Tokens \ TokensOf(p) : /\ tokenDayData'[t] = tokenDayData[t]
                                           /\ tokenHourData'[t] = tokenHourData[t]
    BY <1>1 DEF Basics, TypeInv, TokensOf
  <2>2. \A t \in TokensOf(p) :
          /\ OnlyAt(tokenDayData'[t], tokenDayData[t], today)
          /\ OnlyAt(tokenHourData'[t], tokenHourData[t], hour)
          /\ tokenDayData'[t][today] = TokenDayRow(t, price(t))
          /\ tokenHourData'[t][hour] = TokenHourRow(t, price(t))
    <3> HIDE DEF price
    <3>1. QED BY <1>1 DEF OnlyAt, Basics, TypeInv, TokensOf
  <2>3. \A t \in TokensOf(p) : price(t) \in Nat
    <3>1. \A t \in TokensOf(p) : token[t].derivedETH \in Nat
      BY DEF TokensOf, TokenRows
    <3>2. QED BY <3>1
  <2>4. ASSUME NEW t \in TokensOf(p) PROVE TokenIntervalsMoved(t, 0)
    <3>1. t \in Tokens
      BY DEF TokensOf
    <3> DEFINE day == TokenDayRow(t, price(t))
               hours == TokenHourRow(t, price(t))
    <3>2. /\ day \in TokenDayRows /\ Extended(day, tokenDayData[t][today], price(t))
          /\ day.close = price(t) /\ day.volume = Count(tokenDayData[t][today], "volume")
      <4> HIDE DEF price
      <4>1. QED BY <2>3, <3>1, TokenDayTouched
    <3>3. /\ hours \in TokenHourRows /\ Extended(hours, tokenHourData[t][hour], price(t))
          /\ hours.close = price(t)
      <4> HIDE DEF price
      <4>1. QED BY <2>3, <3>1, TokenHourTouched
    <3>4. tokenDayData'[t][today] = day /\ tokenHourData'[t][hour] = hours
      BY <2>2
    <3>5. price(t) \in Nat
      BY <2>3
    <3> HIDE DEF day, hours, price
    <3>6. day.volume \in Nat
      BY <3>2 DEF TokenDayRows
    <3>7. QED BY <2>2, <3>2, <3>3, <3>4, <3>5, <3>6 DEF TokenIntervalsMoved
  <2>5. QED BY <2>1, <2>4 DEF TokensIntervalsMoved, TokensOf
<1>11. ContractMoved(p, amount0, amount1)
  <2> DEFINE c == chain[p]
             m == [c.liquidity EXCEPT ![r] = @ + liquidity]
             a == c.reserve0 + amount0
             b == c.reserve1 + amount1
  <2>1. m \in [Ranges[p] -> Nat] /\ a \in Nat /\ b \in Nat
    BY DEF Contract
  <2>2. chain'[p] = [[[c EXCEPT !.liquidity = m] EXCEPT !.reserve0 = a] EXCEPT !.reserve1 = b]
        /\ OnlyAt(chain', chain, p)
    BY <1>1 DEF OnlyAt, Basics, TypeInv, Contract
  <2> HIDE DEF m, a, b
  <2>3. chain'[p] \in Contract(p) /\ chain'[p].reserve0 = a /\ chain'[p].reserve1 = b
    BY <2>1, <2>2 DEF Contract
  <2>4. QED BY <2>2, <2>3 DEF ContractMoved, a, b
<1>12. pool'[p].tick = pool[p].tick /\ pool'[p].liquidity = l
  BY <1>1, <1>4 DEF Basics, TypeInv
<1>13. l = IF IncludesCurrentTick(p, r) THEN pool[p].liquidity + liquidity ELSE pool[p].liquidity
  BY <1>2 DEF l
<1>14. QED
  BY <1>1, <1>12, <1>13, <1>5, <1>6, <1>7, <1>8, <1>9, <1>10, <1>11 DEF Event

LEMMA TrackedNat ==
  ASSUME Basics, NEW p \in Created, NEW amount0 \in Nat, NEW amount1 \in Nat
  PROVE  TrackedAmountUSD(p, amount0, amount1) \in Nat
<1> DEFINE d0 == token[Token0[p]].derivedETH
           d1 == token[Token1[p]].derivedETH
           usd0 == amount0 * d0 * bundle
           usd1 == amount1 * d1 * bundle
<1>1. d0 \in Nat /\ d1 \in Nat /\ bundle \in Nat
  BY RowsRead DEF TokenRows
<1>2. usd0 \in Nat /\ usd1 \in Nat
  <2> HIDE DEF d0, d1
  <2>1. amount0 * d0 \in Nat /\ amount1 * d1 \in Nat
    BY <1>1
  <2>2. QED BY <1>1, <2>1
<1>3. TrackedAmountUSD(p, amount0, amount1)
        = CASE TokensOf(p) \subseteq WhitelistTokens -> usd0 + usd1
            [] TokensOf(p) \cap WhitelistTokens = {Token0[p]} -> 2 * usd0
            [] TokensOf(p) \cap WhitelistTokens = {Token1[p]} -> 2 * usd1
            [] OTHER -> 0
  BY DEF TrackedAmountUSD
<1>4. usd0 + usd1 \in Nat /\ 2 * usd0 \in Nat /\ 2 * usd1 \in Nat /\ 0 \in Nat
  <2> HIDE DEF usd0, usd1
  <2>1. QED BY <1>2
<1> DEFINE a == usd0 + usd1
           b == 2 * usd0
           c == 2 * usd1
           A == TokensOf(p) \subseteq WhitelistTokens
           B == TokensOf(p) \cap WhitelistTokens = {Token0[p]}
           C == TokensOf(p) \cap WhitelistTokens = {Token1[p]}
<1>5. TrackedAmountUSD(p, amount0, amount1)
        = CASE A -> a [] B -> b [] C -> c [] OTHER -> 0
  BY <1>3
<1>6. a \in Nat /\ b \in Nat /\ c \in Nat
  BY <1>4
<1> HIDE DEF a, b, c, A, B, C
<1>7. QED BY <1>5, <1>6

LEMMA LiquidityInt ==
  ASSUME TypeInv, NEW p \in Pools, NEW ranges \in SUBSET Ranges[p]
  PROVE  /\ LiquidityOf(p, ranges) \in Nat
         /\ IsFiniteSet(ranges)
         /\ [r \in ranges |-> chain[p].liquidity[r]] \in [ranges -> Nat]
         /\ \A r \in ranges : chain[p].liquidity[r] <= LiquidityOf(p, ranges)
<1> DEFINE f == [r \in ranges |-> chain[p].liquidity[r]]
<1>1. IsFiniteSet(ranges)
  BY Constants, FS_Subset
<1>2. f \in [ranges -> Nat]
  BY DEF TypeInv, Contract
<1>3. \A r \in ranges : f[r] = chain[p].liquidity[r]
  OBVIOUS
<1>4. SumFunction(f) = LiquidityOf(p, ranges)
  BY DEF LiquidityOf
<1> HIDE DEF f
<1>5. QED BY <1>1, <1>2, <1>3, <1>4, SumNat DEF f

\* The white-listed pools of a token have their rows, also once a pool is saved.
LEMMA HandlerPriceNat ==
  ASSUME Basics, NEW p \in Created, NEW row \in PoolRows, NEW t \in Tokens, token[t] # Null,
         NEW ethPriceUSD \in Nat
  PROVE  FindEthPerToken(t, [pool EXCEPT ![p] = row], token, ethPriceUSD) \in Nat
<1> DEFINE saved == [pool EXCEPT ![p] = row]
<1>1. saved \in [Pools -> PoolRows \cup {Null}] /\ \A q \in Created : saved[q] # Null
  BY NullAssumption DEF Basics, TypeInv, Created
<1>2. ASSUME NEW i \in DOMAIN token[t].whitelistPools
      PROVE  LET q == token[t].whitelistPools[i]
             IN /\ q \in Pools /\ saved[q] # Null
                /\ token[Token0[q]] # Null /\ token[Token1[q]] # Null
  <2> DEFINE q == token[t].whitelistPools[i]
  <2>1. q \in Created
    BY DEF Basics, Registered, Kept, TypeInv
  <2> HIDE DEF q
  <2>2. q \in Pools /\ TokensOf(q) \subseteq Kept(token)
    BY <2>1 DEF Basics, Registered, Created
  <2>3. QED BY <1>1, <2>1, <2>2 DEF q, TokensOf, Kept
<1> HIDE DEF saved
<1>3. token \in [Tokens -> TokenRows \cup {Null}]
  BY DEF Basics, TypeInv
<1>4. FindEthPerToken(t, saved, token, ethPriceUSD) \in Nat
  BY <1>1, <1>2, <1>3, PriceNat
<1>5. QED BY <1>4 DEF saved

LEMMA AbsNat == ASSUME NEW n \in Int PROVE Abs(n) \in Nat
  BY DEF Abs

SwapVolume(p, amount0, amount1) == TrackedAmountUSD(p, Abs(amount0), Abs(amount1))

LEMMA SwapEvent ==
  ASSUME Basics, NEW p \in Created, NEW newTick \in PoolTicks[p],
         NEW amount0 \in Int, NEW amount1 \in Int, HandleSwap(p, newTick, amount0, amount1)
  PROVE  /\ \E usd, eth, fees \in Nat :
              /\ Event(p, amount0, amount1, Abs(amount0), Abs(amount1), usd, eth, fees)
              /\ usd = SwapVolume(p, amount0, amount1)
         /\ pool'[p].tick = newTick /\ pool'[p].liquidity = ActiveLiquidity(p, newTick)
<1> DEFINE t0 == Token0[p]
           t1 == Token1[p]
           abs0 == Abs(amount0)
           abs1 == Abs(amount1)
           usd == TrackedAmountUSD(p, abs0, abs1)
           eth == SafeDiv(usd, bundle)
           fees == usd * FeeTier[p]
           entered == WithAmounts(pool[p], amount0, amount1)
           moved == WithPoolVolume(entered, abs0, abs1, usd, fees)
           priced == [moved EXCEPT !.liquidity = ActiveLiquidity(p, newTick), !.tick = newTick,
                                   !.token0Price = TokenPrices[newTick][1],
                                   !.token1Price = TokenPrices[newTick][2]]
           saved == [pool EXCEPT ![p] = priced]
           ethPriceUSD == EthPriceInUSD(saved)
           derivedETH(t) == FindEthPerToken(t, saved, token, ethPriceUSD)
           valued == Valued(priced, derivedETH(t0), derivedETH(t1))
           swapped(t, amount) ==
             [WithTokenVolume(WithTokenLocked(token[t], amount), Abs(amount), usd, fees)
                EXCEPT !.derivedETH = derivedETH(t)]
           price(t) == derivedETH(t) * ethPriceUSD
           day0 == WithTokenVolume(TokenDayRow(t0, price(t0)), abs0, usd, fees)
           day1 == WithTokenVolume(TokenDayRow(t1, price(t1)), abs1, usd, fees)
           poolDay == WithPoolVolume(PoolDayRow(p, priced.token0Price), abs0, abs1, usd, fees)
           hourRow == PoolHourRow(p, priced.token0Price)
           poolHour == IF AfterFirstGraft
                       THEN WithPoolVolume(hourRow, abs0, abs1, usd, fees) ELSE hourRow
<1>0. /\ p \in Pools /\ pool[p] \in PoolRows
      /\ t0 \in Tokens /\ t1 \in Tokens /\ t0 # t1
      /\ token[t0] \in TokenRows /\ token[t1] \in TokenRows
      /\ factory \in FactoryRows
      /\ chain[p] \in Contract(p) /\ bundle \in Nat
      /\ today \in Days /\ hour \in Hours
      /\ uniswapDayData[today] \in UniswapDayRows \cup {Null}
      /\ poolDayData[p][today] \in PoolIntervalRows \cup {Null}
      /\ poolHourData[p][hour] \in PoolIntervalRows \cup {Null}
      /\ \A t \in Tokens : /\ tokenDayData[t][today] \in TokenDayRows \cup {Null}
                           /\ tokenHourData[t][hour] \in TokenHourRows \cup {Null}
  BY RowsRead
<1>1. /\ pool' = [saved EXCEPT ![p] = valued]
      /\ bundle' = ethPriceUSD
      /\ factory' = [WithPoolLocked(factory, pool[p], valued) EXCEPT
                       !.totalVolumeETH = @ + eth, !.totalVolumeUSD = @ + usd,
                       !.totalFeesUSD = @ + fees]
      /\ token' = [token EXCEPT ![t0] = swapped(t0, amount0), ![t1] = swapped(t1, amount1)]
      /\ chain' = [chain EXCEPT ![p].tick = newTick, ![p].reserve0 = @ + amount0,
                                ![p].reserve1 = @ + amount1]
      /\ chain[p].reserve0 + amount0 >= 0 /\ chain[p].reserve1 + amount1 >= 0
      /\ UNCHANGED environmentVars
  BY DEF HandleSwap
<1>2. UpdateVolumes(p, priced.token0Price, [t \in {t0, t1} |-> derivedETH(t) * ethPriceUSD],
                    abs0, abs1, usd, eth, fees)
  BY DEF HandleSwap
<1>3. /\ uniswapDayData' = [uniswapDayData EXCEPT
           ![today] = [UniswapRow EXCEPT !.volumeETH = @ + eth, !.volumeUSD = @ + usd,
                                         !.feesUSD = @ + fees]]
      /\ poolDayData' = [poolDayData EXCEPT ![p][today] = poolDay]
      /\ poolHourData' = [poolHourData EXCEPT ![p][hour] = poolHour]
      /\ tokenDayData' = [tokenDayData EXCEPT ![t0][today] = day0, ![t1][today] = day1]
      /\ tokenHourData' = [tokenHourData EXCEPT ![t0][hour] = TokenHourRow(t0, price(t0)),
                                                ![t1][hour] = TokenHourRow(t1, price(t1))]
  <2> HIDE DEF derivedETH, usd, eth, fees, abs0, abs1, priced, ethPriceUSD
  <2>1. QED BY <1>2 DEF UpdateVolumes
<1>4. abs0 \in Nat /\ abs1 \in Nat /\ usd \in Nat /\ eth \in Nat /\ fees \in Nat
  <2>1. abs0 \in Nat /\ abs1 \in Nat
    BY AbsNat
  <2> HIDE DEF abs0, abs1
  <2>2. usd \in Nat
    BY <2>1, TrackedNat
  <2> HIDE DEF usd
  <2>3. eth \in Nat /\ fees \in Nat
    BY <1>0, <2>2, Constants DEF SafeDiv
  <2>4. QED BY <2>1, <2>2, <2>3
<1> HIDE DEF abs0, abs1, usd, eth, fees
<1>5. /\ entered \in PoolRows
      /\ entered.totalValueLockedToken0 = pool[p].totalValueLockedToken0 + amount0
      /\ entered.totalValueLockedToken1 = pool[p].totalValueLockedToken1 + amount1
      /\ entered.txCount = pool[p].txCount + 1
      /\ entered.volumeUSD = pool[p].volumeUSD
  BY <1>0, WithAmountsRow
<1> HIDE DEF entered
<1>6. /\ moved \in PoolRows
      /\ moved.totalValueLockedToken0 = entered.totalValueLockedToken0
      /\ moved.totalValueLockedToken1 = entered.totalValueLockedToken1
      /\ moved.txCount = entered.txCount
      /\ moved.volumeUSD = entered.volumeUSD + usd
  <2>1. PoolVolumeAdded(moved, entered, usd)
    BY <1>4, <1>5, WithPoolVolumeRow
  <2>2. QED BY <2>1 DEF PoolVolumeAdded
<1> HIDE DEF moved
<1>7. /\ priced \in PoolRows
      /\ priced.totalValueLockedToken0 = moved.totalValueLockedToken0
      /\ priced.totalValueLockedToken1 = moved.totalValueLockedToken1
      /\ priced.txCount = moved.txCount
      /\ priced.volumeUSD = moved.volumeUSD
      /\ priced.tick = newTick /\ priced.liquidity = ActiveLiquidity(p, newTick)
      /\ priced.token0Price = TokenPrices[newTick][1]
  <2> DEFINE a == ActiveLiquidity(p, newTick)
             b == TokenPrices[newTick][1]
             c == TokenPrices[newTick][2]
  <2>1. a \in Int
    BY <1>0, LiquidityInt DEF ActiveLiquidity, Basics
  <2>2. b \in Nat /\ c \in Nat /\ newTick \in Int
    BY <1>0, Constants
  <2>3. priced = [[[[moved EXCEPT !.liquidity = a] EXCEPT !.tick = newTick]
                     EXCEPT !.token0Price = b] EXCEPT !.token1Price = c]
    OBVIOUS
  <2> HIDE DEF a, b, c, priced
  <2>4. QED BY <1>6, <2>1, <2>2, <2>3 DEF PoolRows, a, b, c
<1> HIDE DEF priced
<1>8. saved \in [Pools -> PoolRows \cup {Null}] /\ ethPriceUSD \in Nat
  <2>1. saved \in [Pools -> PoolRows \cup {Null}]
    BY <1>7 DEF Basics, TypeInv
  <2> HIDE DEF saved
  <2>2. QED BY <2>1, EthPriceNat
<1>9. derivedETH(t0) \in Nat /\ derivedETH(t1) \in Nat
  <2> HIDE DEF ethPriceUSD
  <2>1. token[t0] # Null /\ token[t1] # Null
    BY <1>0, NullAssumption
  <2>2. QED BY <1>0, <1>7, <1>8, <2>1, HandlerPriceNat
<1> HIDE DEF ethPriceUSD, derivedETH
<1>10. /\ valued \in PoolRows
       /\ valued.totalValueLockedToken0 = priced.totalValueLockedToken0
       /\ valued.totalValueLockedToken1 = priced.totalValueLockedToken1
       /\ valued.txCount = priced.txCount
       /\ valued.volumeUSD = priced.volumeUSD
       /\ valued.tick = priced.tick /\ valued.liquidity = priced.liquidity
       /\ valued.token0Price = priced.token0Price
  <2> DEFINE d0 == derivedETH(t0)
             d1 == derivedETH(t1)
  <2>1. d0 \in Nat /\ d1 \in Nat
    BY <1>9
  <2>2. valued = Valued(priced, d0, d1)
    OBVIOUS
  <2> HIDE DEF d0, d1, valued
  <2>3. LET new == Valued(priced, d0, d1) IN
        /\ new \in PoolRows
        /\ new.totalValueLockedToken0 = priced.totalValueLockedToken0
        /\ new.totalValueLockedToken1 = priced.totalValueLockedToken1
        /\ new.txCount = priced.txCount
        /\ new.liquidity = priced.liquidity /\ new.tick = priced.tick
        /\ new.token0Price = priced.token0Price /\ new.token1Price = priced.token1Price
        /\ new.volumeToken0 = priced.volumeToken0 /\ new.volumeToken1 = priced.volumeToken1
        /\ new.volumeUSD = priced.volumeUSD /\ new.feesUSD = priced.feesUSD
    BY ONLY <1>7, <2>1, ValuedRow, Zenon
  <2>4. QED BY <2>2, <2>3
<1> HIDE DEF valued
<1>11. pool'[p] = valued /\ OnlyAt(pool', pool, p)
  BY <1>0, <1>1 DEF OnlyAt, Basics, TypeInv
<1>12. PoolMoved(p, amount0, amount1, usd)
  BY <1>5, <1>6, <1>7, <1>10, <1>11 DEF PoolMoved
<1>13. pool'[p].tick = newTick /\ pool'[p].liquidity = ActiveLiquidity(p, newTick)
  BY <1>7, <1>10, <1>11
<1>14. FactoryMoved(p, usd, eth, fees)
  <2> DEFINE f == WithPoolLocked(factory, pool[p], valued)
             a == f.totalVolumeETH + eth
             b == f.totalVolumeUSD + usd
             c == f.totalFeesUSD + fees
  <2>1. /\ f \in FactoryRows
        /\ f.totalValueLockedETH
             = factory.totalValueLockedETH - pool[p].totalValueLockedETH + valued.totalValueLockedETH
        /\ f.txCount = factory.txCount + 1 /\ f.poolCount = factory.poolCount
        /\ f.totalVolumeETH = factory.totalVolumeETH
        /\ f.totalVolumeUSD = factory.totalVolumeUSD
        /\ f.totalFeesUSD = factory.totalFeesUSD
    BY <1>0, <1>10, WithPoolLockedRow
  <2>2. a \in Nat /\ b \in Nat /\ c \in Nat
    <3> HIDE DEF f
    <3>1. QED BY <1>4, <2>1 DEF FactoryRows
  <2>3. factory' = [[[f EXCEPT !.totalVolumeETH = a] EXCEPT !.totalVolumeUSD = b]
                      EXCEPT !.totalFeesUSD = c]
    <3>1. factory' = [f EXCEPT !.totalVolumeETH = @ + eth, !.totalVolumeUSD = @ + usd,
                               !.totalFeesUSD = @ + fees]
      BY <1>1
    <3> HIDE DEF f
    <3>2. QED BY <2>1, <3>1 DEF FactoryRows
  <2> HIDE DEF f, a, b, c
  <2>4. /\ factory' \in FactoryRows
        /\ factory'.poolCount = f.poolCount /\ factory'.txCount = f.txCount
        /\ factory'.totalValueLockedETH = f.totalValueLockedETH
        /\ factory'.totalVolumeETH = a /\ factory'.totalVolumeUSD = b /\ factory'.totalFeesUSD = c
    BY <2>1, <2>2, <2>3 DEF FactoryRows
  <2>5. QED BY <1>11, <2>1, <2>4 DEF FactoryMoved, a, b, c
<1>15. \A t \in TokensOf(p), amount \in {amount0, amount1} :
         /\ swapped(t, amount) \in TokenRows
         /\ swapped(t, amount).totalValueLocked = token[t].totalValueLocked + amount
         /\ swapped(t, amount).volume = token[t].volume + Abs(amount)
         /\ swapped(t, amount).volumeUSD = token[t].volumeUSD + usd
         /\ swapped(t, amount).whitelistPools = token[t].whitelistPools
  <2> SUFFICES ASSUME NEW t \in TokensOf(p), NEW amount \in {amount0, amount1}
               PROVE  /\ swapped(t, amount) \in TokenRows
                      /\ swapped(t, amount).totalValueLocked = token[t].totalValueLocked + amount
                      /\ swapped(t, amount).volume = token[t].volume + Abs(amount)
                      /\ swapped(t, amount).volumeUSD = token[t].volumeUSD + usd
                      /\ swapped(t, amount).whitelistPools = token[t].whitelistPools
    OBVIOUS
  <2> DEFINE x == token[t]
             y == WithTokenLocked(x, amount)
             z == WithTokenVolume(y, Abs(amount), usd, fees)
             d == derivedETH(t)
  <2>1. x \in TokenRows /\ d \in Nat /\ amount \in Int
    BY <1>0, <1>9 DEF TokensOf
  <2>2. Abs(amount) \in Nat
    BY <2>1, AbsNat
  <2> HIDE DEF x, d
  <2>3. /\ y \in TokenRows
        /\ y.totalValueLocked = x.totalValueLocked + amount
        /\ y.volume = x.volume /\ y.volumeUSD = x.volumeUSD
        /\ y.whitelistPools = x.whitelistPools
    BY <2>1, WithTokenLockedRow
  <2> HIDE DEF y
  <2>4. /\ z \in TokenRows
        /\ z.totalValueLocked = y.totalValueLocked
        /\ z.volume = y.volume + Abs(amount) /\ z.volumeUSD = y.volumeUSD + usd
        /\ z.whitelistPools = y.whitelistPools
    <3>1. TokenVolumeAdded(z, y, Abs(amount), usd)
      BY <1>4, <2>2, <2>3, WithTokenVolumeRow
    <3>2. QED BY <3>1 DEF TokenVolumeAdded
  <2>5. swapped(t, amount) = [z EXCEPT !.derivedETH = d]
    BY DEF x, y, d
  <2> HIDE DEF z, swapped
  <2>6. /\ swapped(t, amount) \in TokenRows
        /\ swapped(t, amount).totalValueLocked = z.totalValueLocked
        /\ swapped(t, amount).volume = z.volume /\ swapped(t, amount).volumeUSD = z.volumeUSD
        /\ swapped(t, amount).whitelistPools = z.whitelistPools
    BY <2>1, <2>4, <2>5 DEF TokenRows
  <2>7. QED BY <2>3, <2>4, <2>6 DEF x
<1> HIDE DEF swapped
<1>16. TokensMoved(p, amount0, amount1, abs0, abs1, usd)
  <2>1. /\ token' = [t \in Tokens |-> token'[t]]
        /\ \A t \in Tokens \ TokensOf(p) : token'[t] = token[t]
        /\ token'[t0] = swapped(t0, amount0)
        /\ token'[t1] = swapped(t1, amount1)
    BY <1>0, <1>1 DEF Basics, TypeInv, TokensOf
  <2>2. TokenMoved(t0, amount0, abs0, usd) /\ TokenMoved(t1, amount1, abs1, usd)
    BY <1>15, <2>1 DEF TokenMoved, TokensOf, abs0, abs1
  <2>3. QED BY <2>1, <2>2 DEF TokensMoved
<1>17. UniswapDayMoved(usd, eth, fees)
  <2> DEFINE new == [UniswapRow EXCEPT !.volumeETH = @ + eth, !.volumeUSD = @ + usd,
                                       !.feesUSD = @ + fees]
  <2>1. uniswapDayData'[today] = new /\ OnlyAt(uniswapDayData', uniswapDayData, today)
    BY <1>0, <1>3 DEF OnlyAt, Basics, TypeInv
  <2>2. UniswapAdded(new, usd, eth, fees)
    BY <1>0, <1>4, UniswapRowCount
  <2> HIDE DEF new
  <2>3. QED BY <2>1, <2>2 DEF UniswapDayMoved, UniswapAdded
<1>18. PoolIntervalsMoved(p, abs0, usd)
  <2> DEFINE price0 == priced.token0Price
  <2>1. price0 \in Nat /\ pool'[p].token0Price = price0
    BY <1>7, <1>10, <1>11 DEF PoolRows
  <2>2. /\ OnlyAt(poolDayData', poolDayData, p) /\ OnlyAt(poolHourData', poolHourData, p)
        /\ OnlyAt(poolDayData'[p], poolDayData[p], today)
        /\ OnlyAt(poolHourData'[p], poolHourData[p], hour)
        /\ poolDayData'[p][today] = poolDay
        /\ poolHourData'[p][hour] = poolHour
    <3> HIDE DEF poolDay, poolHour
    <3>1. QED BY <1>0, <1>3 DEF OnlyAt, Basics, TypeInv
  <2> DEFINE dayRow == PoolDayRow(p, price0)
  <2>3. /\ PoolTouched(dayRow, poolDayData[p][today], price0)
        /\ SameVolume(dayRow, poolDayData[p][today])
    BY <1>0, <2>1, PoolDayTouched
  <2>4. /\ PoolTouched(hourRow, poolHourData[p][hour], price0)
        /\ SameVolume(hourRow, poolHourData[p][hour])
    BY <1>0, <2>1, PoolHourTouched
  <2>5. poolDay = WithPoolVolume(dayRow, abs0, abs1, usd, fees)
    OBVIOUS
  <2> HIDE DEF dayRow, poolDay, hourRow, price0
  <2>6. /\ PoolTouched(poolDay, poolDayData[p][today], price0)
        /\ poolDay.volumeToken0 = Count(poolDayData[p][today], "volumeToken0") + abs0
        /\ poolDay.volumeUSD = Count(poolDayData[p][today], "volumeUSD") + usd
    BY <1>4, <2>3, <2>5, PoolVolumeTouched
  <2>7. /\ PoolTouched(poolHour, poolHourData[p][hour], price0)
        /\ AfterFirstGraft =>
             poolHour.volumeToken0 = Count(poolHourData[p][hour], "volumeToken0") + abs0
    <3>1. CASE AfterFirstGraft
      <4> DEFINE new == WithPoolVolume(hourRow, abs0, abs1, usd, fees)
      <4>1. /\ PoolTouched(new, poolHourData[p][hour], price0)
            /\ new.volumeToken0 = Count(poolHourData[p][hour], "volumeToken0") + abs0
        BY <1>4, <2>4, PoolVolumeTouched
      <4>2. poolHour = new
        BY <3>1
      <4> HIDE DEF new, poolHour
      <4>3. QED BY <4>1, <4>2
    <3>2. CASE ~AfterFirstGraft
      BY <2>4, <3>2
    <3>3. QED BY <3>1, <3>2
  <2> HIDE DEF poolHour
  <2>8. QED BY <2>1, <2>2, <2>6, <2>7 DEF PoolIntervalsMoved
<1>19. TokensIntervalsMoved(p, abs0, abs1)
  <2>1. /\ tokenDayData' = [t \in Tokens |-> tokenDayData'[t]]
        /\ tokenHourData' = [t \in Tokens |-> tokenHourData'[t]]
        /\ \A t \in Tokens \ TokensOf(p) : /\ tokenDayData'[t] = tokenDayData[t]
                                           /\ tokenHourData'[t] = tokenHourData[t]
    <3> HIDE DEF day0, day1, price
    <3>1. QED BY <1>0, <1>3 DEF Basics, TypeInv, TokensOf
  <2>2. /\ tokenDayData'[t0][today] = day0 /\ tokenDayData'[t1][today] = day1
        /\ \A t \in TokensOf(p) : /\ OnlyAt(tokenDayData'[t], tokenDayData[t], today)
                                  /\ OnlyAt(tokenHourData'[t], tokenHourData[t], hour)
                                  /\ tokenHourData'[t][hour] = TokenHourRow(t, price(t))
    <3> HIDE DEF day0, day1, price
    <3>1. QED BY <1>0, <1>3 DEF OnlyAt, Basics, TypeInv, TokensOf
  <2>3. \A t \in TokensOf(p) : price(t) \in Nat
    <3>1. \A t \in TokensOf(p) : derivedETH(t) \in Nat
      BY <1>9 DEF TokensOf
    <3>2. QED BY <1>8, <3>1
  <2> HIDE DEF price
  <2>4. ASSUME NEW t \in TokensOf(p), NEW volume \in Nat,
               tokenDayData'[t][today] = WithTokenVolume(TokenDayRow(t, price(t)), volume, usd, fees)
        PROVE  TokenIntervalsMoved(t, volume)
    <3>1. t \in Tokens /\ price(t) \in Nat
      BY <1>0, <2>3 DEF TokensOf
    <3> DEFINE day == TokenDayRow(t, price(t))
               new == WithTokenVolume(day, volume, usd, fees)
               hours == TokenHourRow(t, price(t))
    <3>2. /\ day \in TokenDayRows /\ Extended(day, tokenDayData[t][today], price(t))
          /\ day.close = price(t) /\ day.volume = Count(tokenDayData[t][today], "volume")
      BY <1>0, <3>1, TokenDayTouched
    <3>3. /\ hours \in TokenHourRows /\ Extended(hours, tokenHourData[t][hour], price(t))
          /\ hours.close = price(t)
      BY <1>0, <3>1, TokenHourTouched
    <3> HIDE DEF day, hours
    <3>4. /\ new \in TokenDayRows
          /\ new.open = day.open /\ new.high = day.high /\ new.low = day.low
          /\ new.close = day.close /\ new.volume = day.volume + volume
      <4>1. TokenDayAdded(new, day, volume)
        BY <1>4, <3>2, TokenVolumeTouched
      <4>2. QED BY <4>1 DEF TokenDayAdded
    <3>5. tokenDayData'[t][today] = new /\ tokenHourData'[t][hour] = hours
      BY <2>2, <2>4 DEF day, hours
    <3> HIDE DEF new
    <3>6. Extended(new, tokenDayData[t][today], price(t))
      BY <3>2, <3>4 DEF Extended
    <3>7. QED BY <2>2, <3>1, <3>2, <3>3, <3>4, <3>5, <3>6 DEF TokenIntervalsMoved
  <2>5. TokenIntervalsMoved(t0, abs0) /\ TokenIntervalsMoved(t1, abs1)
    BY <1>4, <2>2, <2>4 DEF TokensOf
  <2>6. QED BY <2>1, <2>5 DEF TokensIntervalsMoved
<1>20. ContractMoved(p, amount0, amount1)
  <2> DEFINE c == chain[p]
             a == c.reserve0 + amount0
             b == c.reserve1 + amount1
  <2>1. a \in Nat /\ b \in Nat
    BY <1>0, <1>1 DEF Contract
  <2>2. chain'[p] = [[[c EXCEPT !.tick = newTick] EXCEPT !.reserve0 = a] EXCEPT !.reserve1 = b]
        /\ OnlyAt(chain', chain, p)
    BY <1>0, <1>1 DEF OnlyAt, Basics, TypeInv, Contract
  <2>3. c \in Contract(p)
    BY <1>0
  <2> HIDE DEF a, b, c
  <2>4. chain'[p] \in Contract(p) /\ chain'[p].reserve0 = a /\ chain'[p].reserve1 = b
    BY <2>1, <2>2, <2>3 DEF Contract
  <2>5. QED BY <2>2, <2>4 DEF ContractMoved, a, b, c
<1>21. Event(p, amount0, amount1, abs0, abs1, usd, eth, fees)
  BY <1>1, <1>8, <1>12, <1>14, <1>16, <1>17, <1>18, <1>19, <1>20 DEF Event
<1>22. usd = SwapVolume(p, amount0, amount1)
  BY DEF SwapVolume, usd, abs0, abs1
<1>23. QED
  BY <1>4, <1>13, <1>21, <1>22 DEF abs0, abs1

-----------------------------------------------------------------------------
(* The basics are kept. *)

\* The columns of an event that are counts.
Amounts(amount0, amount1, volume0, volume1, usd, eth, fees) ==
  /\ amount0 \in Int /\ amount1 \in Int
  /\ volume0 \in Nat /\ volume1 \in Nat /\ usd \in Nat /\ eth \in Nat /\ fees \in Nat

LEMMA EventKeeps ==
  ASSUME Basics, NEW p \in Created, NEW amount0, NEW amount1, NEW volume0, NEW volume1,
         NEW usd, NEW eth, NEW fees,
         Event(p, amount0, amount1, volume0, volume1, usd, eth, fees)
  PROVE  Created' = Created /\ Kept(token)' = Kept(token)
<1>1. Created' = Created
  <2>1. DOMAIN pool' = Pools /\ \A q \in Pools \ {p} : pool'[q] = pool[q]
    BY DEF Event, PoolMoved, OnlyAt, Basics, TypeInv
  <2>2. pool'[p] # Null /\ pool[p] # Null /\ p \in Pools
    BY NullAssumption DEF Event, PoolMoved, Created
  <2>3. QED BY <2>1, <2>2 DEF Created
<1>2. Kept(token)' = Kept(token)
  <2>1. DOMAIN token' = Tokens /\ DOMAIN token = Tokens
        /\ \A t \in Tokens \ TokensOf(p) : token'[t] = token[t]
    BY DEF Event, TokensMoved, Basics, TypeInv
  <2>2. \A t \in TokensOf(p) : token'[t] # Null /\ token[t] # Null
    BY NullAssumption, RowsRead DEF Event, TokensMoved, TokenMoved, TokensOf
  <2>3. QED BY <2>1, <2>2 DEF Kept
<1>3. QED BY <1>1, <1>2

LEMMA EventBasics ==
  ASSUME Basics, NEW p \in Created, NEW amount0, NEW amount1, NEW volume0, NEW volume1,
         NEW usd, NEW eth, NEW fees,
         Event(p, amount0, amount1, volume0, volume1, usd, eth, fees),
         DOMAIN tick' = Pools, DOMAIN tickDayData' = Pools,
         \A q \in Pools : /\ tick'[q] \in [TicksOf(q) -> TickRows \cup {Null}]
                          /\ tickDayData'[q] \in [TicksOf(q) -> [Days -> TickRows \cup {Null}]],
         \A q \in Pools \ {p} : tick'[q] = tick[q],
         transactions' \in [0..MaxTransactions -> TransactionRows \cup {Null}]
  PROVE  Basics'
<1>0. p \in Pools /\ today \in Days /\ hour \in Hours /\ hour' = hour /\ today' = today
      /\ transaction' = transaction
      /\ Token0[p] \in Tokens /\ Token1[p] \in Tokens
  BY RowsRead DEF Event, environmentVars, today
<1>1. Created' = Created /\ Kept(token)' = Kept(token)
  BY EventKeeps
<1>2. factory' \in FactoryRows /\ bundle' \in Nat /\ factory'.poolCount = factory.poolCount
  BY DEF Event, FactoryMoved
<1>3. DOMAIN chain' = Pools /\ \A q \in Pools : chain'[q] \in Contract(q)
  BY DEF Event, ContractMoved, OnlyAt, Basics, TypeInv
<1>4. /\ pool' \in [Pools -> PoolRows \cup {Null}]
      /\ \A q \in Created : pool'[q].tick \in PoolTicks[q] \cup {Null}
  <2>1. DOMAIN pool' = Pools /\ \A q \in Pools \ {p} : pool'[q] = pool[q]
    BY DEF Event, PoolMoved, OnlyAt, Basics, TypeInv
  <2>2. pool'[p] \in PoolRows /\ pool'[p].tick \in PoolTicks[p] \cup {Null}
    BY DEF Event, PoolMoved
  <2>3. \A q \in Pools : pool[q] \in PoolRows \cup {Null}
    BY DEF Basics, TypeInv
  <2>4. \A q \in Created : q \in Pools /\ pool[q].tick \in PoolTicks[q] \cup {Null}
    BY DEF Basics, TypeInv, Created
  <2>5. pool' = [q \in Pools |-> pool'[q]]
    BY DEF Event, PoolMoved, OnlyAt, Basics, TypeInv
  <2>6. QED BY <2>1, <2>2, <2>3, <2>4, <2>5
<1>5. token' \in [Tokens -> TokenRows \cup {Null}]
  <2>1. /\ token' = [t \in Tokens |-> token'[t]]
        /\ \A t \in Tokens \ TokensOf(p) : token'[t] = token[t]
        /\ \A t \in TokensOf(p) : token'[t] \in TokenRows
    BY DEF Event, TokensMoved, TokenMoved, TokensOf
  <2>2. \A t \in Tokens : token[t] \in TokenRows \cup {Null}
    BY DEF Basics, TypeInv
  <2>3. \A t \in Tokens : token'[t] \in TokenRows \cup {Null}
    BY <2>1, <2>2
  <2>4. QED BY <2>1, <2>3
<1>6. uniswapDayData' \in [Days -> UniswapDayRows \cup {Null}]
  <2>1. /\ uniswapDayData' = [d \in Days |-> uniswapDayData'[d]]
        /\ \A d \in Days \ {today} : uniswapDayData'[d] = uniswapDayData[d]
        /\ uniswapDayData'[today] \in UniswapDayRows
    BY DEF Event, UniswapDayMoved, OnlyAt, Basics, TypeInv
  <2>2. \A d \in Days : uniswapDayData[d] \in UniswapDayRows \cup {Null}
    BY DEF Basics, TypeInv
  <2>3. \A d \in Days : uniswapDayData'[d] \in UniswapDayRows \cup {Null}
    BY <2>1, <2>2
  <2>4. QED BY <2>1, <2>3
<1>7. /\ poolDayData' \in [Pools -> [Days -> PoolIntervalRows \cup {Null}]]
      /\ poolHourData' \in [Pools -> [Hours -> PoolIntervalRows \cup {Null}]]
  <2> DEFINE Row == PoolIntervalRows \cup {Null}
  <2>1. PoolIntervalsMoved(p, volume0, usd)
    BY DEF Event
  <2>2. \A q \in Pools : poolDayData[q] \in [Days -> Row] /\ poolHourData[q] \in [Hours -> Row]
    BY DEF Basics, TypeInv
  <2>3. /\ poolDayData' = [q \in Pools |-> poolDayData'[q]]
        /\ poolHourData' = [q \in Pools |-> poolHourData'[q]]
        /\ \A q \in Pools \ {p} : /\ poolDayData'[q] = poolDayData[q]
                                  /\ poolHourData'[q] = poolHourData[q]
    BY <2>1 DEF PoolIntervalsMoved, OnlyAt, Basics, TypeInv
  <2>4. /\ poolDayData'[p] = [d \in Days |-> poolDayData'[p][d]]
        /\ poolHourData'[p] = [h \in Hours |-> poolHourData'[p][h]]
        /\ \A d \in Days \ {today} : poolDayData'[p][d] = poolDayData[p][d]
        /\ \A h \in Hours \ {hour} : poolHourData'[p][h] = poolHourData[p][h]
    BY <1>0, <2>1, <2>2 DEF PoolIntervalsMoved, OnlyAt
  <2>5. poolDayData'[p][today] \in Row /\ poolHourData'[p][hour] \in Row
    BY <2>1 DEF PoolIntervalsMoved, PoolTouched
  <2>6. poolDayData'[p] \in [Days -> Row] /\ poolHourData'[p] \in [Hours -> Row]
    <3>1. \A d \in Days : poolDayData'[p][d] \in Row
      BY <1>0, <2>2, <2>4, <2>5
    <3>2. \A h \in Hours : poolHourData'[p][h] \in Row
      BY <1>0, <2>2, <2>4, <2>5
    <3> HIDE DEF Row
    <3>3. QED BY <2>4, <3>1, <3>2
  <2>7. \A q \in Pools : poolDayData'[q] \in [Days -> Row] /\ poolHourData'[q] \in [Hours -> Row]
    <3> HIDE DEF Row
    <3>1. QED BY <2>2, <2>3, <2>6
  <2>8. QED BY <2>3, <2>7
<1>8. /\ tokenDayData' \in [Tokens -> [Days -> TokenDayRows \cup {Null}]]
      /\ tokenHourData' \in [Tokens -> [Hours -> TokenHourRows \cup {Null}]]
  <2> DEFINE DayRow == TokenDayRows \cup {Null}
             HourRow == TokenHourRows \cup {Null}
  <2>1. /\ tokenDayData' = [t \in Tokens |-> tokenDayData'[t]]
        /\ tokenHourData' = [t \in Tokens |-> tokenHourData'[t]]
        /\ \A t \in Tokens \ TokensOf(p) : /\ tokenDayData'[t] = tokenDayData[t]
                                           /\ tokenHourData'[t] = tokenHourData[t]
    BY DEF Event, TokensIntervalsMoved
  <2>2. \A t \in TokensOf(p) : \E volume : TokenIntervalsMoved(t, volume)
    BY DEF Event, TokensIntervalsMoved, TokensOf
  <2>3. \A t \in Tokens : tokenDayData[t] \in [Days -> DayRow] /\ tokenHourData[t] \in [Hours -> HourRow]
    BY DEF Basics, TypeInv
  <2>4. ASSUME NEW t \in TokensOf(p)
        PROVE  tokenDayData'[t] \in [Days -> DayRow] /\ tokenHourData'[t] \in [Hours -> HourRow]
    <3>0. t \in Tokens
      BY <1>0 DEF TokensOf
    <3>1. /\ OnlyAt(tokenDayData'[t], tokenDayData[t], today)
          /\ OnlyAt(tokenHourData'[t], tokenHourData[t], hour)
          /\ tokenDayData'[t][today] \in DayRow /\ tokenHourData'[t][hour] \in HourRow
      BY <2>2 DEF TokenIntervalsMoved
    <3>2. /\ tokenDayData'[t] = [d \in Days |-> tokenDayData'[t][d]]
          /\ tokenHourData'[t] = [h \in Hours |-> tokenHourData'[t][h]]
          /\ \A d \in Days \ {today} : tokenDayData'[t][d] = tokenDayData[t][d]
          /\ \A h \in Hours \ {hour} : tokenHourData'[t][h] = tokenHourData[t][h]
      BY <1>0, <2>3, <3>0, <3>1 DEF OnlyAt
    <3>3. \A d \in Days : tokenDayData'[t][d] \in DayRow
      BY <1>0, <2>3, <3>0, <3>1, <3>2
    <3>4. \A h \in Hours : tokenHourData'[t][h] \in HourRow
      BY <1>0, <2>3, <3>0, <3>1, <3>2
    <3> HIDE DEF DayRow, HourRow
    <3>5. QED BY <3>2, <3>3, <3>4
  <2>5. \A t \in Tokens : tokenDayData'[t] \in [Days -> DayRow] /\ tokenHourData'[t] \in [Hours -> HourRow]
    <3> HIDE DEF DayRow, HourRow
    <3>1. QED BY <2>1, <2>3, <2>4
  <2>6. QED BY <2>1, <2>5
<1>9. hour' \in Hours /\ transaction' \in 0..MaxTransactions
  BY <1>0 DEF Basics, TypeInv
<1>10. TypeInv'
  <2>1. Contract(p)' = Contract(p)
    BY DEF Contract
  <2>2. \A q \in Created' : pool'[q].tick \in PoolTicks[q] \cup {Null}
    BY <1>1, <1>4
  <2>3. QED
    BY <1>2, <1>3, <1>4, <1>5, <1>6, <1>7, <1>8, <1>9, <2>2 DEF TypeInv, Contract, TicksOf
<1>11. Registered'
  <2>1. factory' # Null /\ factory # Null /\ Created # {}
    BY <1>2, NullAssumption, RowsRead
  <2>2. factory'.poolCount = Cardinality(Created)
    BY <1>2, <2>1 DEF Basics, Registered
  <2>3. \A t \in Kept(token) : token'[t].whitelistPools = token[t].whitelistPools
    BY DEF Event, TokensMoved, TokenMoved, TokensOf, Kept, Basics, TypeInv
  <2>4. \A t \in Kept(token) : \A i \in DOMAIN token'[t].whitelistPools :
          token'[t].whitelistPools[i] \in Created /\ t \in TokensOf(token'[t].whitelistPools[i])
    BY <2>3 DEF Basics, Registered
  <2>5. QED BY <1>1, <2>1, <2>2, <2>4 DEF Basics, Registered, TokensOf
<1>12. NothingBefore'
  <2>1. ASSUME NEW q \in Pools \ Created
        PROVE  /\ chain'[q] = NewContract(q)
               /\ \A i \in TicksOf(q) : tick'[q][i] = Null
               /\ \A d \in Days : poolDayData'[q][d] = Null
               /\ \A h \in Hours : poolHourData'[q][h] = Null
    <3>1. /\ chain[q] = NewContract(q)
          /\ \A i \in TicksOf(q) : tick[q][i] = Null
          /\ \A d \in Days : poolDayData[q][d] = Null
          /\ \A h \in Hours : poolHourData[q][h] = Null
      BY DEF Basics, NothingBefore
    <3>2. /\ q # p /\ chain'[q] = chain[q] /\ tick'[q] = tick[q]
          /\ poolDayData'[q] = poolDayData[q] /\ poolHourData'[q] = poolHourData[q]
      BY DEF Event, ContractMoved, PoolIntervalsMoved, OnlyAt, Basics, TypeInv
    <3>3. QED BY <3>1, <3>2
  <2>2. ASSUME NEW t \in Tokens \ Kept(token)
        PROVE  /\ \A d \in Days : tokenDayData'[t][d] = Null
               /\ \A h \in Hours : tokenHourData'[t][h] = Null
    <3>1. t \notin TokensOf(p)
      BY DEF Basics, Registered
    <3>2. tokenDayData'[t] = tokenDayData[t] /\ tokenHourData'[t] = tokenHourData[t]
      BY <3>1 DEF Event, TokensIntervalsMoved
    <3>3. QED BY <3>2 DEF Basics, NothingBefore
  <2>3. Created # {}
    OBVIOUS
  <2>4. QED
    BY <1>1, <2>1, <2>2, <2>3 DEF NothingBefore, NewContract, TicksOf
<1>13. QED BY <1>10, <1>11, <1>12 DEF Basics

-----------------------------------------------------------------------------
(* What the creation and the initialization of a pool do. *)

\* The row of a token of a new pool, which may be white-listed for it.
TokenListed(new, old, p) ==
  /\ new \in TokenRows
  /\ \A c \in {"totalValueLocked", "volume", "volumeUSD"} : new[c] = Count(old, c)
  /\ \A i \in DOMAIN new.whitelistPools :
       \/ new.whitelistPools[i] = p
       \/ old # Null /\ i \in DOMAIN old.whitelistPools
            /\ new.whitelistPools[i] = old.whitelistPools[i]

PoolAdded(p) ==
  /\ p \in Pools \ Created
  /\ Created' = Created \cup {p} /\ Kept(token)' = Kept(token) \cup TokensOf(p)
  /\ OnlyAt(pool', pool, p) /\ pool'[p] = NewPool
  /\ factory' \in FactoryRows
  /\ factory'.poolCount = Count(factory, "poolCount") + 1
  /\ \A c \in {"txCount", "totalVolumeETH", "totalVolumeUSD", "totalFeesUSD", "totalValueLockedETH"} :
       factory'[c] = Count(factory, c)
  /\ token' = [t \in Tokens |-> token'[t]]
  /\ \A t \in Tokens \ TokensOf(p) : token'[t] = token[t]
  /\ \A t \in TokensOf(p) : TokenListed(token'[t], token[t], p)
  /\ UNCHANGED <<chain, environmentVars, bundle, tick, intervalVars, transactions, entities>>

LEMMA Listed ==
  ASSUME NEW old \in TokenRows \cup {Null}, NEW p \in Pools, NEW other
  PROVE  TokenListed(WithWhitelistPool(IF old = Null THEN NewToken ELSE old, other, p), old, p)
<1> DEFINE row == IF old = Null THEN NewToken ELSE old
           list == IF other \in WhitelistTokens THEN Append(row.whitelistPools, p)
                   ELSE row.whitelistPools
           new == WithWhitelistPool(row, other, p)
<1>1. row \in TokenRows
  BY NewRows
<1>2. \A c \in {"totalValueLocked", "volume", "volumeUSD"} : row[c] = Count(old, c)
  BY DEF NewToken, Count
<1>3. row.whitelistPools = IF old = Null THEN <<>> ELSE old.whitelistPools
  BY DEF NewToken
<1> HIDE DEF row
<1>4. new = [row EXCEPT !.whitelistPools = list]
  BY <1>1 DEF WithWhitelistPool, TokenRows
<1>5. row.whitelistPools \in Seq(Pools)
  BY <1>1 DEF TokenRows
<1>6. /\ list \in Seq(Pools)
      /\ \A i \in DOMAIN list :
           list[i] = p \/ (i \in DOMAIN row.whitelistPools /\ list[i] = row.whitelistPools[i])
  <2> DEFINE s == row.whitelistPools
  <2>1. s \in Seq(Pools)
    BY <1>5
  <2> HIDE DEF s
  <2>2. Append(s, p) \in Seq(Pools)
    BY <2>1
  <2>3. \A i \in DOMAIN Append(s, p) : Append(s, p)[i] = p \/ (i \in DOMAIN s /\ Append(s, p)[i] = s[i])
    BY <2>1
  <2>4. QED BY <2>1, <2>2, <2>3 DEF s
<1> HIDE DEF list, new
<1>7. /\ new \in TokenRows /\ new.whitelistPools = list
      /\ \A c \in {"totalValueLocked", "volume", "volumeUSD"} : new[c] = row[c]
  BY <1>1, <1>4, <1>6 DEF TokenRows
<1>8. \A i \in DOMAIN new.whitelistPools :
        \/ new.whitelistPools[i] = p
        \/ old # Null /\ i \in DOMAIN old.whitelistPools
             /\ new.whitelistPools[i] = old.whitelistPools[i]
  <2>1. CASE old = Null
    BY <1>3, <1>6, <1>7, <2>1
  <2>2. CASE old # Null
    BY <1>3, <1>6, <1>7, <2>2
  <2>3. QED BY <2>1, <2>2
<1>9. TokenListed(new, old, p)
  BY <1>2, <1>7, <1>8 DEF TokenListed
<1>10. QED BY <1>9 DEF new, row

LEMMA PoolCreatedAdds ==
  ASSUME Basics, NEW p \in Pools, HandlePoolCreated(p)
  PROVE  PoolAdded(p)
<1> DEFINE t0 == Token0[p]
           t1 == Token1[p]
           tokenRow(t) == IF token[t] = Null THEN NewToken ELSE token[t]
           new0 == WithWhitelistPool(tokenRow(t0), t1, p)
           new1 == WithWhitelistPool(tokenRow(t1), t0, p)
           row == IF factory = Null THEN NewFactory ELSE factory
           n == row.poolCount + 1
<1>1. /\ p \notin Created /\ pool' = [pool EXCEPT ![p] = NewPool]
      /\ token' = [token EXCEPT ![t0] = new0, ![t1] = new1]
      /\ factory' = [row EXCEPT !.poolCount = n]
      /\ UNCHANGED <<chain, environmentVars, bundle, tick, intervalVars, transactions, entities>>
  BY DEF HandlePoolCreated
<1>2. t0 \in Tokens /\ t1 \in Tokens /\ t0 # t1
  BY Constants
<1>3. TokenListed(new0, token[t0], p) /\ TokenListed(new1, token[t1], p)
  <2>1. token[t0] \in TokenRows \cup {Null} /\ token[t1] \in TokenRows \cup {Null}
    BY <1>2 DEF Basics, TypeInv
  <2>2. QED BY <2>1, Listed
<1>4. /\ OnlyAt(pool', pool, p) /\ pool'[p] = NewPool
      /\ Created' = Created \cup {p}
  <2>1. pool \in [Pools -> PoolRows \cup {Null}]
    BY DEF Basics, TypeInv
  <2>2. pool' = [q \in Pools |-> IF q = p THEN NewPool ELSE pool[q]]
    BY <1>1, <2>1
  <2>3. NewPool # Null
    BY NewRows, NullAssumption
  <2>4. QED BY <2>1, <2>2, <2>3 DEF OnlyAt, Created
<1>5. /\ factory' \in FactoryRows
      /\ factory'.poolCount = Count(factory, "poolCount") + 1
      /\ \A c \in {"txCount", "totalVolumeETH", "totalVolumeUSD", "totalFeesUSD", "totalValueLockedETH"} :
           factory'[c] = Count(factory, c)
  <2>1. row \in FactoryRows
    BY NewRows DEF Basics, TypeInv
  <2>2. \A c \in {"poolCount", "txCount", "totalVolumeETH", "totalVolumeUSD", "totalFeesUSD",
                   "totalValueLockedETH"} : row[c] = Count(factory, c)
    BY DEF NewFactory, Count
  <2>3. n \in Nat
    BY <2>1 DEF FactoryRows
  <2> HIDE DEF row
  <2>4. n = Count(factory, "poolCount") + 1
    BY <2>2
  <2> HIDE DEF n
  <2>5. QED BY <1>1, <2>1, <2>2, <2>3, <2>4 DEF FactoryRows
<1>6. /\ token' = [t \in Tokens |-> token'[t]]
      /\ \A t \in Tokens \ TokensOf(p) : token'[t] = token[t]
      /\ token'[t0] = new0 /\ token'[t1] = new1
      /\ DOMAIN token = Tokens
  <2> HIDE DEF new0, new1
  <2>1. DOMAIN token = Tokens
    BY DEF Basics, TypeInv
  <2>2. QED BY <1>1, <1>2, <2>1 DEF TokensOf
<1>7. \A t \in TokensOf(p) : TokenListed(token'[t], token[t], p)
  <2> HIDE DEF new0, new1
  <2>1. QED BY <1>3, <1>6 DEF TokensOf
<1>8. Kept(token)' = Kept(token) \cup TokensOf(p)
  <2>1. \A t \in TokensOf(p) : token'[t] # Null /\ t \in Tokens
    BY <1>2, <1>7, NullAssumption DEF TokenListed, TokensOf
  <2>2. DOMAIN token' = Tokens
    BY <1>6
  <2>3. QED BY <1>6, <2>1, <2>2 DEF Kept
<1> HIDE DEF new0, new1, row, n
<1>9. QED BY <1>1, <1>4, <1>5, <1>6, <1>7, <1>8 DEF PoolAdded

PoolPriced(p, t) ==
  /\ p \in Created /\ chain[p].tick = Null
  /\ OnlyAt(chain', chain, p)
  /\ chain'[p] \in Contract(p) /\ chain'[p].tick = t
  /\ chain'[p].liquidity = chain[p].liquidity
  /\ chain'[p].reserve0 = chain[p].reserve0 /\ chain'[p].reserve1 = chain[p].reserve1
  /\ bundle' \in Nat
  /\ token' = [u \in Tokens |-> token'[u]]
  /\ \A u \in Tokens \ TokensOf(p) : token'[u] = token[u]
  /\ \A u \in TokensOf(p) : TokenMoved(u, 0, 0, 0)
  /\ OnlyAt(poolDayData', poolDayData, p) /\ OnlyAt(poolHourData', poolHourData, p)
  /\ OnlyAt(poolDayData'[p], poolDayData[p], today)
  /\ OnlyAt(poolHourData'[p], poolHourData[p], hour)
  /\ PoolTouched(poolDayData'[p][today], poolDayData[p][today], pool[p].token0Price)
  /\ PoolTouched(poolHourData'[p][hour], poolHourData[p][hour], pool[p].token0Price)
  /\ SameVolume(poolDayData'[p][today], poolDayData[p][today])
  /\ SameVolume(poolHourData'[p][hour], poolHourData[p][hour])
  /\ UNCHANGED <<environmentVars, factory, pool, tick, uniswapDayData, tokenDayData,
                 tokenHourData, tickDayData, transactions, entities>>

LEMMA InitializePrices ==
  ASSUME Basics, NEW p \in Pools, NEW t \in PoolTicks[p], HandleInitialize(p, t)
  PROVE  PoolPriced(p, t)
<1> DEFINE price == pool[p].token0Price
           day == PoolDayRow(p, price)
           hourly == PoolHourRow(p, price)
           derived(u) == FindEthPerToken(u, pool, token, bundle)
<1>1. /\ p \in Created /\ chain[p].tick = Null
      /\ chain' = [chain EXCEPT ![p].tick = t]
      /\ bundle' = EthPriceInUSD(pool)
      /\ token' = [u \in Tokens |-> IF u \in TokensOf(p)
                                    THEN [token[u] EXCEPT !.derivedETH = derived(u)] ELSE token[u]]
      /\ poolDayData' = [poolDayData EXCEPT ![p][today] = day]
      /\ poolHourData' = [poolHourData EXCEPT ![p][hour] = hourly]
      /\ UNCHANGED <<environmentVars, factory, pool, tick, uniswapDayData, tokenDayData,
                     tokenHourData, tickDayData, transactions, entities>>
  BY DEF HandleInitialize, Initialized
<1>2. /\ pool[p] \in PoolRows /\ TokensOf(p) \subseteq Tokens
      /\ \A u \in TokensOf(p) : token[u] \in TokenRows
      /\ chain[p] \in Contract(p) /\ bundle \in Nat
      /\ today \in Days /\ hour \in Hours
      /\ poolDayData[p][today] \in PoolIntervalRows \cup {Null}
      /\ poolHourData[p][hour] \in PoolIntervalRows \cup {Null}
  BY <1>1, RowsRead DEF TokensOf
<1>3. price \in Nat
  BY <1>2 DEF PoolRows
<1>4. /\ PoolTouched(day, poolDayData[p][today], price) /\ SameVolume(day, poolDayData[p][today])
      /\ PoolTouched(hourly, poolHourData[p][hour], price)
      /\ SameVolume(hourly, poolHourData[p][hour])
  BY <1>2, <1>3, PoolDayTouched, PoolHourTouched
<1>5. /\ OnlyAt(chain', chain, p)
      /\ chain'[p] \in Contract(p) /\ chain'[p].tick = t
      /\ chain'[p].liquidity = chain[p].liquidity
      /\ chain'[p].reserve0 = chain[p].reserve0 /\ chain'[p].reserve1 = chain[p].reserve1
  <2>1. DOMAIN chain = Pools
    BY DEF Basics, TypeInv
  <2>2. chain'[p] = [chain[p] EXCEPT !.tick = t]
    BY <1>1, <2>1
  <2>3. OnlyAt(chain', chain, p)
    BY <1>1, <2>1 DEF OnlyAt
  <2>4. QED BY <1>2, <2>2, <2>3 DEF Contract
<1>6. bundle' \in Nat
  BY <1>1, EthPriceNat DEF Basics, TypeInv
<1>7. /\ token' = [u \in Tokens |-> token'[u]]
      /\ \A u \in Tokens \ TokensOf(p) : token'[u] = token[u]
      /\ \A u \in TokensOf(p) : token'[u] = [token[u] EXCEPT !.derivedETH = derived(u)]
  <2> HIDE DEF derived
  <2>1. QED BY <1>1, <1>2
<1>8. \A u \in TokensOf(p) : derived(u) \in Nat
  <2>1. SUFFICES ASSUME NEW u \in TokensOf(p) PROVE derived(u) \in Nat
    OBVIOUS
  <2>2. \A i \in DOMAIN token[u].whitelistPools :
           LET q == token[u].whitelistPools[i]
           IN /\ q \in Pools /\ pool[q] # Null
              /\ token[Token0[q]] # Null /\ token[Token1[q]] # Null
    <3>1. u \in Kept(token)
      BY <1>2, NullAssumption DEF Kept, Basics, TypeInv
    <3>2. QED BY <3>1 DEF Basics, Registered, Created, Kept, TokensOf
  <2>3. token[u] # Null /\ u \in Tokens
    BY <1>2, NullAssumption
  <2>4. QED BY <1>2, <2>2, <2>3, PriceNat DEF Basics, TypeInv
<1>9. \A u \in TokensOf(p) : TokenMoved(u, 0, 0, 0)
  <2>1. SUFFICES ASSUME NEW u \in TokensOf(p) PROVE TokenMoved(u, 0, 0, 0)
    OBVIOUS
  <2> HIDE DEF derived
  <2>2. token[u] \in TokenRows /\ derived(u) \in Nat
        /\ token'[u] = [token[u] EXCEPT !.derivedETH = derived(u)]
    BY <1>2, <1>7, <1>8
  <2>3. QED BY <2>2 DEF TokenMoved, TokenRows
<1>10. /\ OnlyAt(poolDayData', poolDayData, p) /\ OnlyAt(poolHourData', poolHourData, p)
       /\ OnlyAt(poolDayData'[p], poolDayData[p], today)
       /\ OnlyAt(poolHourData'[p], poolHourData[p], hour)
       /\ poolDayData'[p][today] = day /\ poolHourData'[p][hour] = hourly
  <2> HIDE DEF day, hourly
  <2>1. /\ poolDayData \in [Pools -> [Days -> PoolIntervalRows \cup {Null}]]
        /\ poolHourData \in [Pools -> [Hours -> PoolIntervalRows \cup {Null}]]
    BY DEF Basics, TypeInv
  <2>2. QED BY <1>1, <1>2, <2>1 DEF OnlyAt
<1> HIDE DEF day, hourly, derived
<1>11. QED BY <1>1, <1>4, <1>5, <1>6, <1>7, <1>9, <1>10 DEF PoolPriced

-----------------------------------------------------------------------------
(* The basics are an invariant. *)

LEMMA Starts ==
  ASSUME Init
  PROVE  Created = {} /\ Kept(token) = {} /\ Basics
<1>1. Created = {} /\ Kept(token) = {}
  BY DEF Init, Created, Kept
<1>2. \A p \in Pools : NewContract(p) \in Contract(p)
  BY DEF NewContract, Contract
<1>3. hour \in Hours /\ transaction \in 0..MaxTransactions
  BY Constants DEF Init, Hours
<1>4. TypeInv
  BY <1>1, <1>2, <1>3 DEF Init, TypeInv, Created
<1>5. Registered
  BY <1>1 DEF Registered, Init
<1>6. NothingBefore
  BY DEF NothingBefore, Init
<1>7. QED BY <1>1, <1>4, <1>5, <1>6 DEF Basics

LEMMA AddedBasics ==
  ASSUME Basics, NEW p, PoolAdded(p)
  PROVE  Basics'
<1>1. /\ p \in Pools \ Created /\ Created' = Created \cup {p}
      /\ Kept(token)' = Kept(token) \cup TokensOf(p)
      /\ factory' \in FactoryRows
      /\ UNCHANGED <<chain, environmentVars, bundle, tick, intervalVars, transactions, entities>>
  BY DEF PoolAdded
<1>2. pool' \in [Pools -> PoolRows \cup {Null}]
      /\ \A q \in Created' : pool'[q].tick \in PoolTicks[q] \cup {Null}
  <2>1. /\ pool' = [q \in Pools |-> pool'[q]] /\ pool'[p] = NewPool
        /\ \A q \in Pools \ {p} : pool'[q] = pool[q]
    BY DEF PoolAdded, OnlyAt, Basics, TypeInv
  <2>2. \A q \in Pools : pool[q] \in PoolRows \cup {Null}
    BY DEF Basics, TypeInv
  <2>3. \A q \in Created : q \in Pools /\ pool[q].tick \in PoolTicks[q] \cup {Null}
    BY DEF Basics, TypeInv, Created
  <2>4. NewPool \in PoolRows /\ NewPool.tick = Null
    BY NewRows DEF NewPool
  <2>5. QED BY <1>1, <2>1, <2>2, <2>3, <2>4
<1>3. token' \in [Tokens -> TokenRows \cup {Null}]
  <2>1. /\ token' = [t \in Tokens |-> token'[t]]
        /\ \A t \in Tokens \ TokensOf(p) : token'[t] = token[t]
        /\ \A t \in TokensOf(p) : token'[t] \in TokenRows
    BY DEF PoolAdded, TokenListed
  <2>2. \A t \in Tokens : token[t] \in TokenRows \cup {Null}
    BY DEF Basics, TypeInv
  <2>3. \A t \in Tokens : token'[t] \in TokenRows \cup {Null}
    BY <2>1, <2>2
  <2>4. QED BY <2>1, <2>3
<1>4. TypeInv'
  BY <1>1, <1>2, <1>3
     DEF TypeInv, Basics, Contract, TicksOf, Hours, Days, environmentVars, intervalVars
<1>5. Registered'
  <2>1. factory' # Null /\ Created' # {}
    BY <1>1, NullAssumption
  <2>2. factory'.poolCount = Cardinality(Created')
    <3>1. IsFiniteSet(Created)
      <4>1. Created \subseteq Pools
        BY DEF Created
      <4>2. QED BY <4>1, Constants, FS_Subset
    <3>2. Cardinality(Created') = Cardinality(Created) + 1
      BY <1>1, <3>1, FS_AddElement
    <3>3. CASE factory = Null
      <4>1. Created = {}
        BY <3>3 DEF Basics, Registered
      <4>2. QED BY <3>2, <3>3, <4>1, FS_EmptySet DEF PoolAdded, Count
    <3>4. CASE factory # Null
      BY <3>2, <3>4 DEF PoolAdded, Count, Basics, Registered
    <3>5. QED BY <3>3, <3>4
  <2>3. \A q \in Created' : TokensOf(q) \subseteq Kept(token)'
    BY <1>1 DEF Basics, Registered
  <2>4. ASSUME NEW t \in Kept(token)', NEW i \in DOMAIN token'[t].whitelistPools
        PROVE  token'[t].whitelistPools[i] \in Created' /\ t \in TokensOf(token'[t].whitelistPools[i])
    <3>1. CASE t \in TokensOf(p)
      <4>1. \/ token'[t].whitelistPools[i] = p
            \/ token[t] # Null /\ i \in DOMAIN token[t].whitelistPools
                 /\ token'[t].whitelistPools[i] = token[t].whitelistPools[i]
        BY <3>1 DEF PoolAdded, TokenListed
      <4>2. CASE token'[t].whitelistPools[i] = p
        BY <1>1, <3>1, <4>2
      <4>3. CASE token[t] # Null /\ i \in DOMAIN token[t].whitelistPools
                 /\ token'[t].whitelistPools[i] = token[t].whitelistPools[i]
        <5>1. t \in Kept(token)
          BY <3>1, <4>3, Constants, <1>1 DEF Kept, Basics, TypeInv, TokensOf
        <5>2. QED BY <1>1, <4>3, <5>1 DEF Basics, Registered
      <4>4. QED BY <4>1, <4>2, <4>3
    <3>2. CASE t \notin TokensOf(p)
      <4>1. t \in Kept(token) /\ token'[t] = token[t]
        BY <1>1, <3>2 DEF PoolAdded, Kept, Basics, TypeInv
      <4>2. QED BY <1>1, <4>1 DEF Basics, Registered
    <3>3. QED BY <3>1, <3>2
  <2>5. QED BY <2>1, <2>2, <2>3, <2>4 DEF Registered, TokensOf
<1>6. NothingBefore'
  BY <1>1 DEF NothingBefore, Basics, NewContract, TicksOf, Days, Hours, environmentVars, intervalVars
<1>7. QED BY <1>4, <1>5, <1>6 DEF Basics

LEMMA PricedBasics ==
  ASSUME Basics, NEW p \in Pools, NEW t \in PoolTicks[p], PoolPriced(p, t)
  PROVE  Basics' /\ Created' = Created /\ Kept(token)' = Kept(token)
<1>1. /\ p \in Created
      /\ UNCHANGED <<environmentVars, factory, pool, tick, uniswapDayData, tokenDayData,
                     tokenHourData, tickDayData, transactions, entities>>
      /\ bundle' \in Nat
  BY DEF PoolPriced
<1>2. Created' = Created
  BY <1>1 DEF Created
<1>3. /\ token' = [u \in Tokens |-> token'[u]]
      /\ \A u \in Tokens \ TokensOf(p) : token'[u] = token[u]
      /\ \A u \in TokensOf(p) : /\ token[u] \in TokenRows /\ token'[u] \in TokenRows
                                /\ token'[u].whitelistPools = token[u].whitelistPools
  BY <1>1, RowsRead DEF PoolPriced, TokenMoved, TokensOf
<1>4. token' \in [Tokens -> TokenRows \cup {Null}]
  <2>1. \A u \in Tokens : token[u] \in TokenRows \cup {Null}
    BY DEF Basics, TypeInv
  <2>2. \A u \in Tokens : token'[u] \in TokenRows \cup {Null}
    BY <1>3, <2>1
  <2>3. QED BY <1>3, <2>2
<1>5. Kept(token)' = Kept(token)
  <2>1. DOMAIN token' = Tokens /\ DOMAIN token = Tokens
    BY <1>3 DEF Basics, TypeInv
  <2>2. \A u \in TokensOf(p) : token'[u] # Null /\ token[u] # Null
    BY <1>3, NullAssumption
  <2>3. QED BY <1>3, <2>1, <2>2 DEF Kept
<1>6. DOMAIN chain' = Pools /\ \A q \in Pools : chain'[q] \in Contract(q)
  BY DEF PoolPriced, OnlyAt, Basics, TypeInv
<1>7. /\ poolDayData' \in [Pools -> [Days -> PoolIntervalRows \cup {Null}]]
      /\ poolHourData' \in [Pools -> [Hours -> PoolIntervalRows \cup {Null}]]
  <2> DEFINE Row == PoolIntervalRows \cup {Null}
  <2>0. today \in Days /\ hour \in Hours
    BY <1>1, RowsRead
  <2>1. /\ OnlyAt(poolDayData', poolDayData, p) /\ OnlyAt(poolHourData', poolHourData, p)
        /\ OnlyAt(poolDayData'[p], poolDayData[p], today)
        /\ OnlyAt(poolHourData'[p], poolHourData[p], hour)
        /\ poolDayData'[p][today] \in Row /\ poolHourData'[p][hour] \in Row
    BY DEF PoolPriced, PoolTouched
  <2>2. \A q \in Pools : poolDayData[q] \in [Days -> Row] /\ poolHourData[q] \in [Hours -> Row]
    BY DEF Basics, TypeInv
  <2>3. /\ poolDayData' = [q \in Pools |-> poolDayData'[q]]
        /\ poolHourData' = [q \in Pools |-> poolHourData'[q]]
        /\ \A q \in Pools \ {p} : /\ poolDayData'[q] = poolDayData[q]
                                  /\ poolHourData'[q] = poolHourData[q]
    BY <2>1 DEF OnlyAt, Basics, TypeInv
  <2>4. /\ poolDayData'[p] = [d \in Days |-> poolDayData'[p][d]]
        /\ poolHourData'[p] = [h \in Hours |-> poolHourData'[p][h]]
        /\ \A d \in Days \ {today} : poolDayData'[p][d] = poolDayData[p][d]
        /\ \A h \in Hours \ {hour} : poolHourData'[p][h] = poolHourData[p][h]
    BY <2>1, <2>2 DEF OnlyAt
  <2>5. poolDayData'[p] \in [Days -> Row] /\ poolHourData'[p] \in [Hours -> Row]
    <3>1. \A d \in Days : poolDayData'[p][d] \in Row
      BY <2>0, <2>1, <2>2, <2>4
    <3>2. \A h \in Hours : poolHourData'[p][h] \in Row
      BY <2>0, <2>1, <2>2, <2>4
    <3> HIDE DEF Row
    <3>3. QED BY <2>4, <3>1, <3>2
  <2>6. \A q \in Pools : poolDayData'[q] \in [Days -> Row] /\ poolHourData'[q] \in [Hours -> Row]
    <3> HIDE DEF Row
    <3>1. QED BY <2>2, <2>3, <2>5
  <2>7. QED BY <2>3, <2>6
<1>8. TypeInv'
  BY <1>1, <1>2, <1>4, <1>6, <1>7
     DEF TypeInv, Basics, Contract, TicksOf, Hours, Days, environmentVars
<1>9. Registered'
  <2>1. \A u \in Kept(token) : token'[u].whitelistPools = token[u].whitelistPools
    BY <1>3 DEF Kept, Basics, TypeInv
  <2>2. QED BY <1>1, <1>2, <1>5, <2>1 DEF Registered, Basics, TokensOf
<1>10. NothingBefore'
  <2>1. ASSUME NEW q \in Pools \ Created
        PROVE  /\ chain'[q] = chain[q]
               /\ poolDayData'[q] = poolDayData[q] /\ poolHourData'[q] = poolHourData[q]
    BY <1>1 DEF PoolPriced, OnlyAt, Basics, TypeInv
  <2>2. QED BY <1>1, <1>2, <1>5, <2>1 DEF NothingBefore, Basics, NewContract, TicksOf, Days, Hours
<1>11. QED BY <1>2, <1>5, <1>8, <1>9, <1>10 DEF Basics

-----------------------------------------------------------------------------
(* What mints, burns and swaps do to ticks and entities. *)

TickAt(row, gross, net) ==
  row = [liquidityGross |-> gross, liquidityNet |-> net]

TicksMoved(p, r, liquidity) ==
  /\ OnlyAt(tick', tick, p)
  /\ tick'[p] \in [TicksOf(p) -> TickRows \cup {Null}]
  /\ \A i \in TicksOf(p) \ {r[1], r[2]} : tick'[p][i] = tick[p][i]
  /\ TickAt(tick'[p][r[1]], Count(tick[p][r[1]], "liquidityGross") + liquidity,
            Count(tick[p][r[1]], "liquidityNet") + liquidity)
  /\ TickAt(tick'[p][r[2]], Count(tick[p][r[2]], "liquidityGross") + liquidity,
            Count(tick[p][r[2]], "liquidityNet") - liquidity)

\* The rows of a tick's days, from the ticks as they are saved.
TickDaysMoved(p, indexes) ==
  /\ OnlyAt(tickDayData', tickDayData, p)
  /\ tickDayData'[p] \in [TicksOf(p) -> [Days -> TickRows \cup {Null}]]
  /\ \A i \in TicksOf(p) : \A d \in Days :
       tickDayData'[p][i][d] = IF d = today /\ i \in indexes THEN TickDayRow(tick'[p][i])
                               ELSE tickDayData[p][i][d]

Saved(kind, p, amount0, amount1, usd) ==
  SaveEntity(NewEntity(kind, p, pool[p].txCount + 1, amount0, amount1, usd))

LiquidityMoved(p, r, liquidity, amount0, amount1) ==
  /\ p \in Created /\ chain[p].tick # Null
  /\ Event(p, amount0, amount1, 0, 0, 0, 0, 0)
  /\ pool'[p].tick = pool[p].tick
  /\ pool'[p].liquidity = IF IncludesCurrentTick(p, r) THEN pool[p].liquidity + liquidity
                          ELSE pool[p].liquidity
  /\ TicksMoved(p, r, liquidity) /\ TickDaysMoved(p, {r[1], r[2]})
  /\ chain'[p].tick = chain[p].tick
  /\ chain'[p].liquidity = [chain[p].liquidity EXCEPT ![r] = @ + liquidity]
  /\ \E usd : \/ Saved("mint", p, amount0, amount1, usd)
              \/ Saved("burn", p, -amount0, -amount1, usd)

SwapMoved(p, t, amount0, amount1) ==
  /\ p \in Created /\ chain[p].tick # Null
  /\ \E usd, eth, fees \in Nat :
       /\ Event(p, amount0, amount1, Abs(amount0), Abs(amount1), usd, eth, fees)
       /\ Saved("swap", p, amount0, amount1, usd)
  /\ pool'[p].tick = t /\ pool'[p].liquidity = ActiveLiquidity(p, t)
  /\ tick' = tick
  /\ \E indexes \in SUBSET Kept(tick[p]) : TickDaysMoved(p, indexes)
  /\ chain'[p].tick = t /\ chain'[p].liquidity = chain[p].liquidity

LEMMA MoveLiquidityTicks ==
  ASSUME Basics, NEW p \in Created, NEW r \in Ranges[p], NEW liquidity \in Int,
         NEW amount0 \in Int, NEW amount1 \in Int,
         NEW entity, MoveLiquidity(entity, p, r, liquidity, amount0, amount1)
  PROVE  /\ TicksMoved(p, r, liquidity) /\ TickDaysMoved(p, {r[1], r[2]})
         /\ chain'[p].tick = chain[p].tick
         /\ chain'[p].liquidity = [chain[p].liquidity EXCEPT ![r] = @ + liquidity]
<1> DEFINE moved(i) == MovedTick(LoadedTick(p, i), i, r, liquidity)
           ticks == [i \in TicksOf(p) |-> IF i \notin {r[1], r[2]} THEN tick[p][i] ELSE moved(i)]
<1>1. /\ tick' = [tick EXCEPT ![p] = ticks]
      /\ UpdateTickDayData(p, {r[1], r[2]}, ticks)
      /\ chain' = [chain EXCEPT ![p].liquidity[r] = @ + liquidity,
                                ![p].reserve0 = @ + amount0, ![p].reserve1 = @ + amount1]
  BY DEF MoveLiquidity
<1>2. /\ p \in Pools /\ r[1] \in TicksOf(p) /\ r[2] \in TicksOf(p) /\ r[1] # r[2]
      /\ DOMAIN tick = Pools /\ tick[p] \in [TicksOf(p) -> TickRows \cup {Null}]
      /\ DOMAIN tickDayData = Pools
      /\ tickDayData[p] \in [TicksOf(p) -> [Days -> TickRows \cup {Null}]]
      /\ DOMAIN chain = Pools /\ chain[p] \in Contract(p)
  <2>1. p \in Pools
    BY DEF Created
  <2>2. r[1] # r[2]
    BY <2>1, Constants
  <2>3. QED BY <2>1, <2>2 DEF TicksOf, Basics, TypeInv
<1>3. \A i \in {r[1], r[2]} :
        /\ LoadedTick(p, i) \in TickRows
        /\ LoadedTick(p, i).liquidityGross = Count(tick[p][i], "liquidityGross")
        /\ LoadedTick(p, i).liquidityNet = Count(tick[p][i], "liquidityNet")
  BY <1>2, NewRows DEF LoadedTick, NewTick, Count
<1>4. /\ moved(r[1]) \in TickRows /\ moved(r[2]) \in TickRows
      /\ TickAt(moved(r[1]), Count(tick[p][r[1]], "liquidityGross") + liquidity,
                Count(tick[p][r[1]], "liquidityNet") + liquidity)
      /\ TickAt(moved(r[2]), Count(tick[p][r[2]], "liquidityGross") + liquidity,
                Count(tick[p][r[2]], "liquidityNet") - liquidity)
  <2>1. ASSUME NEW i \in {r[1], r[2]}
        PROVE  /\ moved(i) \in TickRows
               /\ moved(i).liquidityGross = Count(tick[p][i], "liquidityGross") + liquidity
               /\ moved(i).liquidityNet = IF i = r[1]
                    THEN Count(tick[p][i], "liquidityNet") + liquidity
                    ELSE Count(tick[p][i], "liquidityNet") - liquidity
    <3> DEFINE row == LoadedTick(p, i)
    <3>1. /\ row \in TickRows
          /\ row.liquidityGross = Count(tick[p][i], "liquidityGross")
          /\ row.liquidityNet = Count(tick[p][i], "liquidityNet")
      BY <1>3
    <3> HIDE DEF row
    <3>2. LET new == MovedTick(row, i, r, liquidity) IN
          /\ new \in TickRows
          /\ new.liquidityGross = row.liquidityGross + liquidity
          /\ new.liquidityNet = IF i = r[1] THEN row.liquidityNet + liquidity
                                ELSE row.liquidityNet - liquidity
      BY <3>1, MovedTickRow
    <3>3. QED BY <3>1, <3>2 DEF row
  <2> HIDE DEF moved
  <2>2. QED BY <1>2, <2>1 DEF TickAt, TickRows
<1> HIDE DEF moved
<1>5. /\ tick'[p] = ticks /\ OnlyAt(tick', tick, p)
      /\ ticks[r[1]] = moved(r[1]) /\ ticks[r[2]] = moved(r[2])
      /\ \A i \in TicksOf(p) \ {r[1], r[2]} : ticks[i] = tick[p][i]
      /\ ticks \in [TicksOf(p) -> TickRows \cup {Null}]
  BY <1>1, <1>2, <1>4 DEF OnlyAt
<1> HIDE DEF ticks
<1>6. TicksMoved(p, r, liquidity)
  BY <1>4, <1>5 DEF TicksMoved
<1>7. \A i \in {r[1], r[2]} : TickDayRow(ticks[i]) \in TickRows
  BY <1>4, <1>5 DEF TickDayRow, TickRows
<1>8. TickDaysMoved(p, {r[1], r[2]})
  <2> DEFINE new == [i \in TicksOf(p) |-> [d \in Days |->
                       IF d = today /\ i \in {r[1], r[2]} THEN TickDayRow(ticks[i])
                       ELSE tickDayData[p][i][d]]]
  <2>1. tickDayData' = [tickDayData EXCEPT ![p] = new]
    BY <1>1 DEF UpdateTickDayData
  <2>2. tickDayData'[p] = new /\ OnlyAt(tickDayData', tickDayData, p)
    <3> HIDE DEF new
    <3>1. QED BY <1>2, <2>1 DEF OnlyAt
  <2>3. new \in [TicksOf(p) -> [Days -> TickRows \cup {Null}]]
    BY <1>2, <1>7
  <2>4. QED BY <1>5, <2>2, <2>3 DEF TickDaysMoved
<1>9. /\ chain'[p].tick = chain[p].tick
      /\ chain'[p].liquidity = [chain[p].liquidity EXCEPT ![r] = @ + liquidity]
  BY <1>1, <1>2 DEF Contract
<1>10. QED BY <1>6, <1>8, <1>9

LEMMA SaveTransaction ==
  ASSUME Basics, NEW entity, SaveEntity(entity)
  PROVE  transactions' \in [0..MaxTransactions -> TransactionRows \cup {Null}]
<1>1. LoadTransaction \in TransactionRows
  BY Constants DEF LoadTransaction, TransactionRows, Basics, TypeInv, Hours
<1>2. QED BY <1>1 DEF SaveEntity, Basics, TypeInv

LEMMA LiquidityMoves ==
  ASSUME Basics, NEW p \in Created, chain[p].tick # Null,
         NEW r \in Ranges[p], NEW liquidity \in Int,
         NEW amount0 \in Int, NEW amount1 \in Int,
         chain[p].liquidity[r] + liquidity \in Nat,
         chain[p].reserve0 + amount0 \in Nat, chain[p].reserve1 + amount1 \in Nat,
         NEW entity, MoveLiquidity(entity, p, r, liquidity, amount0, amount1),
         \E usd : \/ entity = NewEntity("mint", p, pool[p].txCount + 1, amount0, amount1, usd)
                  \/ entity = NewEntity("burn", p, pool[p].txCount + 1, -amount0, -amount1, usd)
  PROVE  /\ LiquidityMoved(p, r, liquidity, amount0, amount1)
         /\ Basics'
<1>1. SaveEntity(entity)
  BY DEF MoveLiquidity
<1>2. \E usd : \/ Saved("mint", p, amount0, amount1, usd)
               \/ Saved("burn", p, -amount0, -amount1, usd)
  BY <1>1 DEF Saved
<1>3. /\ Event(p, amount0, amount1, 0, 0, 0, 0, 0)
      /\ pool'[p].tick = pool[p].tick
      /\ pool'[p].liquidity = IF IncludesCurrentTick(p, r) THEN pool[p].liquidity + liquidity
                              ELSE pool[p].liquidity
  BY MoveLiquidityEvent
<1>4. /\ TicksMoved(p, r, liquidity) /\ TickDaysMoved(p, {r[1], r[2]})
      /\ chain'[p].tick = chain[p].tick
      /\ chain'[p].liquidity = [chain[p].liquidity EXCEPT ![r] = @ + liquidity]
  BY MoveLiquidityTicks
<1>5. LiquidityMoved(p, r, liquidity, amount0, amount1)
  BY <1>2, <1>3, <1>4 DEF LiquidityMoved
<1>6. /\ DOMAIN tick' = Pools /\ DOMAIN tickDayData' = Pools
      /\ \A q \in Pools : /\ tick'[q] \in [TicksOf(q) -> TickRows \cup {Null}]
                          /\ tickDayData'[q] \in [TicksOf(q) -> [Days -> TickRows \cup {Null}]]
      /\ \A q \in Pools \ {p} : tick'[q] = tick[q]
  <2>1. /\ OnlyAt(tick', tick, p) /\ tick'[p] \in [TicksOf(p) -> TickRows \cup {Null}]
        /\ OnlyAt(tickDayData', tickDayData, p)
        /\ tickDayData'[p] \in [TicksOf(p) -> [Days -> TickRows \cup {Null}]]
    BY <1>4 DEF TicksMoved, TickDaysMoved
  <2>2. QED BY <2>1 DEF OnlyAt, Basics, TypeInv
<1>7. transactions' \in [0..MaxTransactions -> TransactionRows \cup {Null}]
  BY <1>1, SaveTransaction
<1>8. Basics'
  BY <1>3, <1>6, <1>7, EventBasics
<1>9. QED BY <1>5, <1>8

LEMMA MintMoves ==
  ASSUME Basics, NEW p \in Pools, NEW r \in Ranges[p], NEW liquidity \in 1..MaxAmount,
         HandleMint(p, r, liquidity)
  PROVE  /\ \E l, amount0, amount1 \in Int : LiquidityMoved(p, r, l, amount0, amount1)
         /\ Basics'
<1> DEFINE amount0 == Amount0(p, r, liquidity)
           amount1 == Amount1(p, r, liquidity)
           usd == AmountUSD(p, amount0, amount1)
           entity == NewMint(p, pool[p].txCount + 1, amount0, amount1)
<1>1. /\ p \in Created /\ chain[p].tick # Null
      /\ MoveLiquidity(entity, p, r, liquidity, amount0, amount1)
  BY DEF HandleMint, Initialized
<1>2. liquidity \in Nat /\ amount0 \in Nat /\ amount1 \in Nat
  BY Constants DEF Amount0, Amount1
<1>3. entity = NewEntity("mint", p, pool[p].txCount + 1, amount0, amount1, usd)
  BY DEF NewMint
<1>4. chain[p].liquidity[r] \in Nat /\ chain[p].reserve0 \in Nat /\ chain[p].reserve1 \in Nat
  BY DEF Basics, TypeInv, Contract
<1> HIDE DEF amount0, amount1, usd, entity
<1>5. /\ chain[p].liquidity[r] + liquidity \in Nat /\ amount0 \in Int /\ amount1 \in Int
      /\ chain[p].reserve0 + amount0 \in Nat /\ chain[p].reserve1 + amount1 \in Nat
      /\ liquidity \in Int
  BY <1>2, <1>4
<1>6. LiquidityMoved(p, r, liquidity, amount0, amount1) /\ Basics'
  BY <1>1, <1>3, <1>5, LiquidityMoves
<1>7. QED BY <1>5, <1>6

LEMMA BurnMoves ==
  ASSUME Basics, NEW p \in Pools, NEW r \in Ranges[p],
         NEW liquidity \in 0..chain[p].liquidity[r], HandleBurn(p, r, liquidity)
  PROVE  /\ \E l, amount0, amount1 \in Int : LiquidityMoved(p, r, l, amount0, amount1)
         /\ Basics'
<1> DEFINE amount0 == Amount0(p, r, liquidity)
           amount1 == Amount1(p, r, liquidity)
           out0 == -amount0
           out1 == -amount1
           less == -liquidity
           usd == AmountUSD(p, amount0, amount1)
           entity == NewBurn(p, pool[p].txCount + 1, amount0, amount1)
<1>1. /\ p \in Created /\ chain[p].tick # Null /\ liquidity <= chain[p].liquidity[r]
      /\ amount0 <= chain[p].reserve0 /\ amount1 <= chain[p].reserve1
      /\ MoveLiquidity(entity, p, r, less, out0, out1)
  BY DEF HandleBurn, Initialized
<1>2. liquidity \in Nat /\ amount0 \in Nat /\ amount1 \in Nat
  BY DEF Amount0, Amount1
<1>3. entity = NewEntity("burn", p, pool[p].txCount + 1, amount0, amount1, usd)
  BY DEF NewBurn
<1>4. chain[p].liquidity[r] \in Nat /\ chain[p].reserve0 \in Nat /\ chain[p].reserve1 \in Nat
  BY DEF Basics, TypeInv, Contract
<1> HIDE DEF amount0, amount1, usd, entity
<1>5. /\ chain[p].liquidity[r] + less \in Nat /\ out0 \in Int /\ out1 \in Int
      /\ chain[p].reserve0 + out0 \in Nat /\ chain[p].reserve1 + out1 \in Nat
      /\ less \in Int /\ amount0 = -out0 /\ amount1 = -out1
  BY <1>1, <1>2, <1>4
<1> HIDE DEF out0, out1, less
<1>6. entity = NewEntity("burn", p, pool[p].txCount + 1, -out0, -out1, usd)
  BY <1>3, <1>5
<1>7. LiquidityMoved(p, r, less, out0, out1) /\ Basics'
  BY <1>1, <1>5, <1>6, LiquidityMoves
<1>8. QED BY <1>5, <1>7

LEMMA SwapMoves ==
  ASSUME Basics, NEW p \in Pools, NEW t \in PoolTicks[p],
         NEW amount0 \in Int, NEW amount1 \in Int, HandleSwap(p, t, amount0, amount1)
  PROVE  SwapMoved(p, t, amount0, amount1) /\ Basics'
<1> DEFINE usd == SwapVolume(p, amount0, amount1)
           txCount == WithPoolVolume(WithAmounts(pool[p], amount0, amount1), Abs(amount0),
                                     Abs(amount1), usd, usd * FeeTier[p]).txCount
           indexes == LoadedTicks(p, pool[p].tick, t)
           priced == [WithPoolVolume(WithAmounts(pool[p], amount0, amount1), Abs(amount0),
                                     Abs(amount1), usd, usd * FeeTier[p]) EXCEPT
                        !.liquidity = ActiveLiquidity(p, t), !.tick = t,
                        !.token0Price = TokenPrices[t][1], !.token1Price = TokenPrices[t][2]]
<1>1. /\ p \in Created /\ chain[p].tick # Null
      /\ UpdateTickDayData(p, indexes, tick[p])
      /\ SaveEntity(NewSwap(p, priced.txCount, amount0, amount1, usd))
      /\ chain' = [chain EXCEPT ![p].tick = t, ![p].reserve0 = @ + amount0,
                                ![p].reserve1 = @ + amount1]
      /\ tick' = tick
  BY DEF HandleSwap, Initialized, SwapVolume
<1>2. /\ p \in Pools
      /\ DOMAIN tick = Pools /\ tick[p] \in [TicksOf(p) -> TickRows \cup {Null}]
      /\ DOMAIN tickDayData = Pools
      /\ tickDayData[p] \in [TicksOf(p) -> [Days -> TickRows \cup {Null}]]
      /\ DOMAIN chain = Pools /\ chain[p] \in Contract(p)
  BY DEF Basics, TypeInv
<1>3. PICK v, eth, fees \in Nat :
        /\ Event(p, amount0, amount1, Abs(amount0), Abs(amount1), v, eth, fees)
        /\ v = usd
  BY <1>1, SwapEvent
<1>4. pool'[p].tick = t /\ pool'[p].liquidity = ActiveLiquidity(p, t)
  BY <1>1, SwapEvent
<1>5. priced.txCount = pool[p].txCount + 1
  BY <1>1, RowsRead DEF WithPoolVolume, WithAmounts, PoolRows
<1> HIDE DEF indexes, priced, usd
<1>6. Saved("swap", p, amount0, amount1, v)
  BY <1>1, <1>3, <1>5 DEF Saved, NewSwap
<1>7. indexes \subseteq Kept(tick[p])
  BY <1>2 DEF indexes, LoadedTicks, ExistingTicks, TicksOf, Kept
<1>8. /\ chain'[p].tick = t /\ chain'[p].liquidity = chain[p].liquidity
  BY <1>1, <1>2 DEF Contract
<1>9. TickDaysMoved(p, indexes)
  <2> DEFINE new == [i \in TicksOf(p) |-> [d \in Days |->
                       IF d = today /\ i \in indexes THEN TickDayRow(tick[p][i])
                       ELSE tickDayData[p][i][d]]]
  <2>1. tickDayData' = [tickDayData EXCEPT ![p] = new]
    BY <1>1 DEF UpdateTickDayData
  <2>2. tickDayData'[p] = new /\ OnlyAt(tickDayData', tickDayData, p)
    <3> HIDE DEF new
    <3>1. QED BY <1>2, <2>1 DEF OnlyAt
  <2>3. \A i \in indexes : TickDayRow(tick[p][i]) \in TickRows
    BY <1>2, <1>7 DEF TickDayRow, TickRows, Kept
  <2>4. new \in [TicksOf(p) -> [Days -> TickRows \cup {Null}]]
    BY <1>2, <2>3
  <2>5. QED BY <1>1, <2>2, <2>4 DEF TickDaysMoved
<1>10. SwapMoved(p, t, amount0, amount1)
  BY <1>1, <1>3, <1>4, <1>6, <1>7, <1>8, <1>9 DEF SwapMoved
<1>11. /\ DOMAIN tick' = Pools /\ DOMAIN tickDayData' = Pools
       /\ \A q \in Pools : /\ tick'[q] \in [TicksOf(q) -> TickRows \cup {Null}]
                           /\ tickDayData'[q] \in [TicksOf(q) -> [Days -> TickRows \cup {Null}]]
       /\ \A q \in Pools \ {p} : tick'[q] = tick[q]
  BY <1>1, <1>9 DEF TickDaysMoved, OnlyAt, Basics, TypeInv
<1>12. transactions' \in [0..MaxTransactions -> TransactionRows \cup {Null}]
  BY <1>1, SaveTransaction
<1>13. Basics'
  <2>1. Event(p, amount0, amount1, Abs(amount0), Abs(amount1), v, eth, fees)
    BY <1>3
  <2>2. QED BY <1>1, <1>11, <1>12, <2>1, EventBasics
<1>14. QED BY <1>10, <1>13

LEMMA SwapAmountsInt ==
  ASSUME NEW from \in Int, NEW to \in Int, NEW a \in SwapAmounts(from, to)
  PROVE  a[1] \in Int /\ a[2] \in Int
<1>1. CASE to > from
  <2>1. SwapAmounts(from, to) = {<<-1, 2>>}
    BY <1>1 DEF SwapAmounts
  <2>2. QED BY <2>1
<1>2. CASE to < from
  <2>1. SwapAmounts(from, to) = {<<2, -1>>}
    BY <1>2 DEF SwapAmounts
  <2>2. QED BY <2>1
<1>3. CASE to = from
  <2>1. SwapAmounts(from, to) = {<<1, -1>>, <<-1, 1>>}
    BY <1>3 DEF SwapAmounts
  <2>2. QED BY <2>1
<1>4. QED BY <1>1, <1>2, <1>3

\* Every step is one of these.
Step ==
  \/ NextTransaction
  \/ \E p \in Pools : PoolAdded(p)
  \/ \E p \in Pools : \E t \in PoolTicks[p] : PoolPriced(p, t)
  \/ \E p \in Pools : \E r \in Ranges[p] : \E l, amount0, amount1 \in Int :
       LiquidityMoved(p, r, l, amount0, amount1)
  \/ \E p \in Pools : \E t \in PoolTicks[p] : \E amount0, amount1 \in Int :
       SwapMoved(p, t, amount0, amount1)

LEMMA Steps ==
  ASSUME Basics, Next
  PROVE  Step /\ Basics'
<1>1. CASE NextTransaction
  <2>1. /\ transaction' \in 0..MaxTransactions /\ hour' \in Hours
        /\ UNCHANGED <<chain, factory, bundle, pool, token, tick, intervalVars, transactions,
                       entities>>
    BY <1>1, Constants DEF NextTransaction, Hours, Basics, TypeInv
  <2>2. TypeInv'
    BY <2>1 DEF TypeInv, Basics, Contract, Created, TicksOf, Hours, Days, intervalVars
  <2>3. Registered'
    BY <2>1 DEF Registered, Basics, Created, TokensOf, Kept
  <2>4. NothingBefore'
    BY <2>1 DEF NothingBefore, Basics, NewContract, Created, Kept, TicksOf, Hours, Days, intervalVars
  <2>5. QED BY <1>1, <2>2, <2>3, <2>4 DEF Basics, Step
<1>2. ASSUME NEW p \in Pools, HandlePoolCreated(p)
      PROVE  Step /\ Basics'
  <2>1. PoolAdded(p)
    BY <1>2, PoolCreatedAdds
  <2>2. QED BY <2>1, AddedBasics DEF Step
<1>3. ASSUME NEW p \in Pools, NEW t \in PoolTicks[p], HandleInitialize(p, t)
      PROVE  Step /\ Basics'
  <2>1. PoolPriced(p, t)
    BY <1>3, InitializePrices
  <2>2. QED BY <2>1, PricedBasics DEF Step
<1>4. ASSUME NEW p \in Pools, NEW r \in Ranges[p], NEW liquidity \in 1..MaxAmount,
             HandleMint(p, r, liquidity)
      PROVE  Step /\ Basics'
  BY <1>4, MintMoves DEF Step
<1>5. ASSUME NEW p \in Pools, NEW r \in Ranges[p], NEW liquidity \in 0..chain[p].liquidity[r],
             HandleBurn(p, r, liquidity)
      PROVE  Step /\ Basics'
  BY <1>5, BurnMoves DEF Step
<1>6. ASSUME NEW p \in Pools, NEW t \in PoolTicks[p], Initialized(p),
             NEW a \in SwapAmounts(chain[p].tick, t), HandleSwap(p, t, a[1], a[2])
      PROVE  Step /\ Basics'
  <2>1. chain[p].tick \in Int /\ t \in Int
    BY <1>6, Constants DEF Initialized, Basics, TypeInv, Contract
  <2>2. a[1] \in Int /\ a[2] \in Int
    BY <2>1, SwapAmountsInt
  <2>3. SwapMoved(p, t, a[1], a[2]) /\ Basics'
    BY <1>6, <2>2, SwapMoves
  <2>4. QED BY <2>2, <2>3 DEF Step
<1>7. QED BY <1>1, <1>2, <1>3, <1>4, <1>5, <1>6 DEF Next

LEMMA Unchanged ==
  ASSUME UNCHANGED vars, Basics
  PROVE  Basics'
<1>1. UNCHANGED <<chain, hour, transaction, factory, bundle, pool, token, tick, uniswapDayData,
                  poolDayData, poolHourData, tokenDayData, tokenHourData, tickDayData,
                  transactions, entities>>
  BY DEF vars, environmentVars, intervalVars
<1>2. TypeInv'
  BY <1>1 DEF TypeInv, Basics, Contract, Created, TicksOf, Hours, Days
<1>3. Registered'
  BY <1>1 DEF Registered, Basics, Created, TokensOf, Kept
<1>4. NothingBefore'
  BY <1>1 DEF NothingBefore, Basics, NewContract, Created, Kept, TicksOf, Hours, Days
<1>5. QED BY <1>2, <1>3, <1>4 DEF Basics

\* Rows have their types, there is a factory and there are tokens once there are pools, and
\* nothing is known of what does not exist yet.
THEOREM BasicsHold == Spec => []Basics
<1>1. Init => Basics
  BY Starts
<1>2. Basics /\ [Next]_vars => Basics'
  BY Steps, Unchanged
<1>3. QED BY <1>1, <1>2, PTL DEF Spec

-----------------------------------------------------------------------------
(* Sums of columns. *)

LEMMA SumOfSame ==
  ASSUME NEW S, NEW old, NEW new, NEW c, \A x \in S : new[x][c] = old[x][c]
  PROVE  SumOf(new, S, c) = SumOf(old, S, c)
<1>1. [x \in S |-> new[x][c]] = [x \in S |-> old[x][c]]
  OBVIOUS
<1>2. QED BY <1>1 DEF SumOf

\* How the sum of a column goes with the row at x, changed or new.
Moves(new, old, S, x, c) ==
  /\ SumOf(old, S, c) \in Int
  /\ x \in S => SumOf(new, S, c) = SumOf(old, S, c) - old[x][c] + new[x][c]
  /\ x \notin S => SumOf(new, S \cup {x}, c) = SumOf(old, S, c) + new[x][c]

LEMMA SumOfMoves ==
  ASSUME NEW S, IsFiniteSet(S), NEW x, NEW old, NEW new, NEW c,
         \A y \in S : old[y][c] \in Int, new[x][c] \in Int,
         \A y \in S \ {x} : new[y][c] = old[y][c]
  PROVE  Moves(new, old, S, x, c)
<1>1. PICK f, h : f = [y \in S |-> old[y][c]] /\ h = [y \in S \cup {x} |-> new[y][c]]
  OBVIOUS
<1>2. /\ IsFiniteSet(S) /\ f \in [S -> Int] /\ h \in [S \cup {x} -> Int]
      /\ \A y \in S \ {x} : h[y] = f[y]
  BY <1>1
<1>8. h[x] = new[x][c] /\ (x \in S => f[x] = old[x][c])
  BY <1>1
<1>3. /\ SumOf(old, S, c) = SumFunction(f)
      /\ SumOf(new, S \cup {x}, c) = SumFunction(h)
  BY <1>1 DEF SumOf
<1>4. SumFunction(f) \in Int
  BY <1>2, SumInt
<1>5. CASE x \in S
  <2>1. S \cup {x} = S
    BY <1>5
  <2>2. h \in [S -> Int]
    BY <1>2, <2>1
  <2>3. SumFunction(h) = SumFunction(f) - f[x] + h[x]
    BY <1>2, <1>5, <2>2, SumWithOneChanged
  <2>4. QED BY <1>2, <1>3, <1>4, <1>5, <1>8, <2>1, <2>3 DEF Moves
<1>6. CASE x \notin S
  <2>1. \A y \in S : h[y] = f[y]
    BY <1>2, <1>6
  <2>2. SumFunction(h) = SumFunction(f) + h[x]
    BY ONLY <1>2, <1>6, <2>1, SumWithOneMore
  <2>3. QED BY <1>3, <1>4, <1>6, <1>8, <2>2 DEF Moves
<1>7. QED BY <1>5, <1>6 DEF Moves

LEMMA SumOfNat ==
  ASSUME NEW S, IsFiniteSet(S), NEW rows, NEW c, \A x \in S : rows[x][c] \in Nat
  PROVE  SumOf(rows, S, c) \in Nat
<1>1. [x \in S |-> rows[x][c]] \in [S -> Nat]
  OBVIOUS
<1>2. QED BY <1>1, SumNat DEF SumOf

LEMMA SumOfNone ==
  ASSUME NEW rows, NEW c
  PROVE  SumOf(rows, {}, c) = 0
<1>1. [x \in {} |-> rows[x][c]] \in [{} -> Int]
  OBVIOUS
<1>2. QED BY <1>1, SumEmpty DEF SumOf

\* Columns of a pool that are summed over pools.
PoolColumns == {"totalValueLockedETH", "txCount", "totalValueLockedToken0",
                "totalValueLockedToken1", "volumeUSD"}

LEMMA CreatedFinite ==
  ASSUME NEW S, S \subseteq Created
  PROVE  IsFiniteSet(S)
<1>1. S \subseteq Pools
  BY DEF Created
<1>2. QED BY <1>1, Constants, FS_Subset

LEMMA PoolSumMoved ==
  ASSUME Basics, NEW p \in Created, OnlyAt(pool', pool, p), pool'[p] \in PoolRows,
         NEW S, S \subseteq Created, NEW c \in PoolColumns
  PROVE  /\ SumOf(pool, S, c) \in Int /\ pool[p][c] \in Int /\ pool'[p][c] \in Int
         /\ SumOf(pool', S, c)
              = SumOf(pool, S, c) + (IF p \in S THEN pool'[p][c] - pool[p][c] ELSE 0)
<1>1. IsFiniteSet(S)
  BY CreatedFinite
<1>2. \A q \in Created : q \in Pools /\ pool[q] \in PoolRows
  BY DEF Basics, TypeInv, Created
<1>3. \A q \in Created : pool[q][c] \in Int
  BY <1>2 DEF PoolColumns, PoolRows
<1>4. pool'[p][c] \in Int
  BY DEF PoolColumns, PoolRows
<1>5. \A q \in S \ {p} : pool'[q][c] = pool[q][c]
  BY <1>2 DEF OnlyAt, Basics, TypeInv
<1>6. \A q \in S : pool[q][c] \in Int
  BY <1>3
<1>7. /\ SumOf(pool, S, c) \in Int
      /\ p \in S => SumOf(pool', S, c) = SumOf(pool, S, c) - pool[p][c] + pool'[p][c]
  <2>1. Moves(pool', pool, S, p, c)
    BY <1>1, <1>4, <1>5, <1>6, SumOfMoves
  <2>2. QED BY <2>1 DEF Moves
<1>8. CASE p \in S
  BY <1>3, <1>4, <1>7, <1>8
<1>9. CASE p \notin S
  <2>1. SumOf(pool', S, c) = SumOf(pool, S, c)
    BY <1>5, <1>9, SumOfSame
  <2>2. QED BY <1>3, <1>4, <1>7, <1>9, <2>1
<1>10. QED BY <1>8, <1>9

LEMMA PoolSumAdded ==
  ASSUME Basics, NEW p, PoolAdded(p), NEW S, S \subseteq Created, NEW c \in PoolColumns
  PROVE  SumOf(pool', S, c) = SumOf(pool, S, c) /\ SumOf(pool', S \cup {p}, c) = SumOf(pool, S, c)
<1>1. IsFiniteSet(S)
  BY CreatedFinite
<1>2. \A q \in Created : q \in Pools /\ pool[q] \in PoolRows
  BY DEF Basics, TypeInv, Created
<1>3. \A q \in S : pool[q][c] \in Int
  BY <1>2 DEF PoolColumns, PoolRows
<1>4. p \notin S /\ pool'[p][c] = 0
  BY DEF PoolAdded, NewPool, PoolColumns
<1>5. \A q \in S \ {p} : pool'[q][c] = pool[q][c]
  BY <1>2 DEF PoolAdded, OnlyAt, Basics, TypeInv
<1>6. /\ SumOf(pool, S, c) \in Int
      /\ SumOf(pool', S \cup {p}, c) = SumOf(pool, S, c) + pool'[p][c]
  <2>1. pool'[p][c] \in Int
    BY <1>4
  <2>2. Moves(pool', pool, S, p, c)
    BY <1>1, <1>3, <1>5, <2>1, SumOfMoves
  <2>3. QED BY <1>4, <2>2 DEF Moves
<1>7. SumOf(pool', S, c) = SumOf(pool, S, c)
  BY <1>4, <1>5, SumOfSame
<1>8. QED BY <1>4, <1>6, <1>7

-----------------------------------------------------------------------------
(* The totals of the factory, the tokens and the pools. *)

\* What an event, with the amounts it moves, has in common for the totals and volumes.
AnyEvent(p, amount0, amount1, volume0, volume1, usd, eth, fees) ==
  /\ p \in Created /\ Event(p, amount0, amount1, volume0, volume1, usd, eth, fees)
  /\ Amounts(amount0, amount1, volume0, volume1, usd, eth, fees)

LEMMA StepKinds ==
  ASSUME Basics, Step
  PROVE  \/ NextTransaction
         \/ \E p \in Pools : PoolAdded(p)
         \/ \E p \in Pools : \E t \in PoolTicks[p] : PoolPriced(p, t)
         \/ \E p \in Created : \E amount0, amount1 \in Int :
              \E volume0, volume1, usd, eth, fees \in Nat :
                AnyEvent(p, amount0, amount1, volume0, volume1, usd, eth, fees)
<1>1. ASSUME NEW p \in Pools, NEW r \in Ranges[p], NEW l \in Int, NEW amount0 \in Int,
             NEW amount1 \in Int, LiquidityMoved(p, r, l, amount0, amount1)
      PROVE  AnyEvent(p, amount0, amount1, 0, 0, 0, 0, 0)
  BY <1>1 DEF LiquidityMoved, AnyEvent, Amounts
<1>2. ASSUME NEW p \in Pools, NEW t \in PoolTicks[p], NEW amount0 \in Int, NEW amount1 \in Int,
             SwapMoved(p, t, amount0, amount1)
      PROVE  p \in Created /\ \E volume0, volume1, usd, eth, fees \in Nat :
               AnyEvent(p, amount0, amount1, volume0, volume1, usd, eth, fees)
  <2>1. PICK usd \in Nat, eth \in Nat, fees \in Nat :
          Event(p, amount0, amount1, Abs(amount0), Abs(amount1), usd, eth, fees)
    BY <1>2 DEF SwapMoved
  <2>2. Abs(amount0) \in Nat /\ Abs(amount1) \in Nat /\ p \in Created
    BY <1>2, AbsNat DEF SwapMoved
  <2>3. AnyEvent(p, amount0, amount1, Abs(amount0), Abs(amount1), usd, eth, fees)
    BY <2>1, <2>2 DEF AnyEvent, Amounts
  <2>4. QED BY <2>2, <2>3
<1>3. ASSUME NEW p \in Pools, NEW r \in Ranges[p], NEW l \in Int, NEW amount0 \in Int,
             NEW amount1 \in Int, LiquidityMoved(p, r, l, amount0, amount1)
      PROVE  p \in Created /\ \E volume0, volume1, usd, eth, fees \in Nat :
               AnyEvent(p, amount0, amount1, volume0, volume1, usd, eth, fees)
  <2>1. AnyEvent(p, amount0, amount1, 0, 0, 0, 0, 0)
    BY <1>1, <1>3
  <2>2. 0 \in Nat /\ p \in Created
    BY <2>1 DEF AnyEvent
  <2>3. QED BY <2>1, <2>2
<1>4. QED BY <1>2, <1>3 DEF Step

LEMMA TotalsKept ==
  ASSUME Basics, TotalsAgree, Step
  PROVE  TotalsAgree'
<1> DEFINE Locked0(rows, t) == SumOf(rows, CreatedWith0(t), "totalValueLockedToken0")
           Locked1(rows, t) == SumOf(rows, CreatedWith1(t), "totalValueLockedToken1")
<1>1. CASE NextTransaction
  BY <1>1 DEF NextTransaction, TotalsAgree, Created, Kept, CreatedWith0, CreatedWith1
<1>2. ASSUME NEW p \in Pools, PoolAdded(p)
      PROVE  TotalsAgree'
  <2>1. /\ p \in Pools \ Created /\ Created' = Created \cup {p}
        /\ Kept(token)' = Kept(token) \cup TokensOf(p)
        /\ factory'.totalValueLockedETH = Count(factory, "totalValueLockedETH")
        /\ factory'.txCount = Count(factory, "txCount")
        /\ chain' = chain
    BY <1>2 DEF PoolAdded
  <2>2. \A c \in PoolColumns : SumOf(pool', Created', c) = SumOf(pool, Created, c)
    BY <1>2, <2>1, PoolSumAdded
  <2>3. /\ factory'.totalValueLockedETH = SumOf(pool', Created', "totalValueLockedETH")
        /\ factory'.txCount = SumOf(pool', Created', "txCount")
    <3>1. CASE factory = Null
      <4>1. Created = {}
        BY <3>1 DEF Basics, Registered
      <4>2. QED BY <2>1, <2>2, <3>1, <4>1, SumOfNone DEF Count, PoolColumns
    <3>2. CASE factory # Null
      BY <2>1, <2>2, <3>2 DEF Count, PoolColumns, TotalsAgree
    <3>3. QED BY <3>1, <3>2
  <2>4. ASSUME NEW t \in Tokens
        PROVE  Locked0(pool, t)' = Locked0(pool, t) /\ Locked1(pool, t)' = Locked1(pool, t)
    <3>1. /\ CreatedWith0(t) \subseteq Created /\ CreatedWith1(t) \subseteq Created
          /\ CreatedWith0(t)' = IF Token0[p] = t THEN CreatedWith0(t) \cup {p} ELSE CreatedWith0(t)
          /\ CreatedWith1(t)' = IF Token1[p] = t THEN CreatedWith1(t) \cup {p} ELSE CreatedWith1(t)
      BY <2>1 DEF CreatedWith0, CreatedWith1
    <3>2. /\ SumOf(pool', CreatedWith0(t)', "totalValueLockedToken0") = Locked0(pool, t)
          /\ SumOf(pool', CreatedWith1(t)', "totalValueLockedToken1") = Locked1(pool, t)
      BY <1>2, <3>1, PoolSumAdded DEF PoolColumns
    <3>3. QED BY <3>2
  <2>5. ASSUME NEW t \in Kept(token)'
        PROVE  token'[t].totalValueLocked = Locked0(pool, t)' + Locked1(pool, t)'
    <3>0. t \in Tokens
      BY <2>1, Constants DEF Kept, TokensOf, Basics, TypeInv
    <3>1. token'[t].totalValueLocked = Count(token[t], "totalValueLocked")
      <4>1. CASE t \in TokensOf(p)
        BY <1>2, <4>1 DEF PoolAdded, TokenListed
      <4>2. CASE t \notin TokensOf(p)
        <5>1. token'[t] = token[t] /\ token[t] # Null
          BY <1>2, <2>1, <3>0, <4>2 DEF PoolAdded, Kept
        <5>2. QED BY <5>1 DEF Count
      <4>3. QED BY <4>1, <4>2
    <3>2. CASE token[t] = Null
      <4>1. CreatedWith0(t) = {} /\ CreatedWith1(t) = {}
        BY <3>2 DEF CreatedWith0, CreatedWith1, Basics, Registered, TokensOf, Kept
      <4>2. QED BY <2>4, <3>0, <3>1, <3>2, <4>1, SumOfNone DEF Count
    <3>3. CASE token[t] # Null
      <4>1. t \in Kept(token) /\ factory # Null
        <5>1. t \in Kept(token)
          BY <3>0, <3>3 DEF Kept, Basics, TypeInv
        <5>2. QED BY <5>1 DEF Basics, Registered
      <4>2. QED BY <2>4, <3>0, <3>1, <3>3, <4>1 DEF Count, TotalsAgree
    <3>4. QED BY <3>2, <3>3
  <2>6. ASSUME NEW q \in Created'
        PROVE  /\ pool'[q].totalValueLockedToken0 = chain'[q].reserve0
               /\ pool'[q].totalValueLockedToken1 = chain'[q].reserve1
    <3>1. CASE q = p
      <4>1. chain[p] = NewContract(p) /\ pool'[p] = NewPool
        BY <1>2, <2>1 DEF Basics, NothingBefore, PoolAdded
      <4>2. QED BY <2>1, <3>1, <4>1 DEF NewContract, NewPool
    <3>2. CASE q # p
      <4>1. q \in Created /\ pool'[q] = pool[q] /\ factory # Null
        BY <1>2, <2>1, <3>2 DEF PoolAdded, OnlyAt, Basics, TypeInv, Created, Registered
      <4>2. QED BY <2>1, <4>1 DEF TotalsAgree
    <3>3. QED BY <3>1, <3>2
  <2>7. QED BY <2>3, <2>5, <2>6 DEF TotalsAgree
<1>3. ASSUME NEW p \in Pools, NEW t \in PoolTicks[p], PoolPriced(p, t)
      PROVE  TotalsAgree'
  <2>1. /\ Created' = Created /\ Kept(token)' = Kept(token)
        /\ pool' = pool /\ factory' = factory /\ p \in Created
    BY <1>3, PricedBasics DEF PoolPriced
  <2>2. \A u \in Tokens : Locked0(pool, u)' = Locked0(pool, u) /\ Locked1(pool, u)' = Locked1(pool, u)
    BY <2>1 DEF CreatedWith0, CreatedWith1
  <2>3. \A u \in Kept(token) : token'[u].totalValueLocked = token[u].totalValueLocked
    <3>1. SUFFICES ASSUME NEW u \in Kept(token)
                   PROVE  token'[u].totalValueLocked = token[u].totalValueLocked
      OBVIOUS
    <3>2. CASE u \in TokensOf(p)
      <4>1. token[u] \in TokenRows
        BY <2>1, <3>2, RowsRead DEF TokensOf
      <4>2. token'[u].totalValueLocked = token[u].totalValueLocked + 0
        BY <1>3, <3>2 DEF PoolPriced, TokenMoved
      <4>3. QED BY <4>1, <4>2 DEF TokenRows
    <3>3. CASE u \notin TokensOf(p)
      BY <1>3, <3>3 DEF PoolPriced, Kept, Basics, TypeInv
    <3>4. QED BY <3>2, <3>3
  <2>4. \A q \in Created : chain'[q].reserve0 = chain[q].reserve0 /\ chain'[q].reserve1 = chain[q].reserve1
    BY <1>3 DEF PoolPriced, OnlyAt, Basics, TypeInv, Created
  <2>5. \A u \in Kept(token) : u \in Tokens
    BY DEF Kept, Basics, TypeInv
  <2>6. QED BY <2>1, <2>2, <2>3, <2>4, <2>5 DEF TotalsAgree
<1>4. ASSUME NEW p \in Created, NEW amount0 \in Int, NEW amount1 \in Int,
             NEW volume0 \in Nat, NEW volume1 \in Nat, NEW usd \in Nat, NEW eth \in Nat,
             NEW fees \in Nat, AnyEvent(p, amount0, amount1, volume0, volume1, usd, eth, fees)
      PROVE  TotalsAgree'
  <2>1. /\ Event(p, amount0, amount1, volume0, volume1, usd, eth, fees)
        /\ Created' = Created /\ Kept(token)' = Kept(token)
    BY <1>4, EventKeeps DEF AnyEvent
  <2>2. /\ p \in Pools /\ pool[p] \in PoolRows /\ factory \in FactoryRows /\ factory # Null
        /\ Token0[p] \in Tokens /\ Token1[p] \in Tokens /\ Token0[p] # Token1[p]
        /\ token[Token0[p]] \in TokenRows /\ token[Token1[p]] \in TokenRows
        /\ chain[p] \in Contract(p)
    BY RowsRead, NullAssumption
  <2>3. /\ OnlyAt(pool', pool, p) /\ pool'[p] \in PoolRows
        /\ pool'[p].totalValueLockedToken0 = pool[p].totalValueLockedToken0 + amount0
        /\ pool'[p].totalValueLockedToken1 = pool[p].totalValueLockedToken1 + amount1
        /\ pool'[p].txCount = pool[p].txCount + 1
    BY <2>1 DEF Event, PoolMoved
  <2>4. /\ factory'.txCount = factory.txCount + 1
        /\ factory'.totalValueLockedETH = factory.totalValueLockedETH - pool[p].totalValueLockedETH
                                            + pool'[p].totalValueLockedETH
    BY <2>1 DEF Event, FactoryMoved
  <2>5. /\ factory'.totalValueLockedETH = SumOf(pool', Created, "totalValueLockedETH")
        /\ factory'.txCount = SumOf(pool', Created, "txCount")
    <3>1. \A c \in PoolColumns :
            /\ SumOf(pool, Created, c) \in Int /\ pool[p][c] \in Int /\ pool'[p][c] \in Int
            /\ SumOf(pool', Created, c)
                 = SumOf(pool, Created, c) + (IF p \in Created THEN pool'[p][c] - pool[p][c] ELSE 0)
      BY <2>3, PoolSumMoved
    <3>2. \A c \in PoolColumns :
            /\ SumOf(pool, Created, c) \in Int /\ pool[p][c] \in Int /\ pool'[p][c] \in Int
            /\ SumOf(pool', Created, c) = SumOf(pool, Created, c) + (pool'[p][c] - pool[p][c])
      BY <3>1
    <3>3. "totalValueLockedETH" \in PoolColumns /\ "txCount" \in PoolColumns
      BY DEF PoolColumns
    <3>4. QED BY <2>2, <2>3, <2>4, <3>2, <3>3 DEF TotalsAgree
  <2>6. ASSUME NEW t \in Kept(token)
        PROVE  token'[t].totalValueLocked
                 = SumOf(pool', CreatedWith0(t), "totalValueLockedToken0")
                   + SumOf(pool', CreatedWith1(t), "totalValueLockedToken1")
    <3>0. t \in Tokens /\ CreatedWith0(t) \subseteq Created /\ CreatedWith1(t) \subseteq Created
          /\ (p \in CreatedWith0(t) <=> Token0[p] = t) /\ (p \in CreatedWith1(t) <=> Token1[p] = t)
      BY DEF Kept, Basics, TypeInv, CreatedWith0, CreatedWith1
    <3>1. /\ SumOf(pool, CreatedWith0(t), "totalValueLockedToken0") \in Int
          /\ SumOf(pool', CreatedWith0(t), "totalValueLockedToken0")
               = SumOf(pool, CreatedWith0(t), "totalValueLockedToken0")
                 + (IF p \in CreatedWith0(t)
                    THEN pool'[p]["totalValueLockedToken0"] - pool[p]["totalValueLockedToken0"] ELSE 0)
      BY <2>3, <3>0, PoolSumMoved DEF PoolColumns
    <3>2. /\ SumOf(pool, CreatedWith1(t), "totalValueLockedToken1") \in Int
          /\ SumOf(pool', CreatedWith1(t), "totalValueLockedToken1")
               = SumOf(pool, CreatedWith1(t), "totalValueLockedToken1")
                 + (IF p \in CreatedWith1(t)
                    THEN pool'[p]["totalValueLockedToken1"] - pool[p]["totalValueLockedToken1"] ELSE 0)
      BY <2>3, <3>0, PoolSumMoved DEF PoolColumns
    <3>3. /\ pool[p].totalValueLockedToken0 \in Int /\ pool[p].totalValueLockedToken1 \in Int
      BY <2>2 DEF PoolRows
    <3>4. token[t].totalValueLocked = SumOf(pool, CreatedWith0(t), "totalValueLockedToken0")
                                        + SumOf(pool, CreatedWith1(t), "totalValueLockedToken1")
      BY <2>2 DEF TotalsAgree
    <3>5. CASE t = Token0[p]
      <4>1. token'[t].totalValueLocked = token[t].totalValueLocked + amount0
        BY <2>1, <3>5 DEF Event, TokensMoved, TokenMoved
      <4>2. p \in CreatedWith0(t) /\ p \notin CreatedWith1(t)
        BY <2>2, <3>0, <3>5
      <4>3. QED BY <2>3, <3>1, <3>2, <3>3, <3>4, <4>1, <4>2
    <3>6. CASE t = Token1[p]
      <4>1. token'[t].totalValueLocked = token[t].totalValueLocked + amount1
        BY <2>1, <3>6 DEF Event, TokensMoved, TokenMoved
      <4>2. p \notin CreatedWith0(t) /\ p \in CreatedWith1(t)
        BY <2>2, <3>0, <3>6
      <4>3. QED BY <2>3, <3>1, <3>2, <3>3, <3>4, <4>1, <4>2
    <3>7. CASE t \notin TokensOf(p)
      <4>1. token'[t] = token[t]
        BY <2>1, <3>0, <3>7 DEF Event, TokensMoved
      <4>2. p \notin CreatedWith0(t) /\ p \notin CreatedWith1(t)
        BY <3>0, <3>7 DEF TokensOf
      <4>3. QED BY <3>1, <3>2, <3>4, <4>1, <4>2
    <3>8. QED BY <3>5, <3>6, <3>7 DEF TokensOf
  <2>7. ASSUME NEW q \in Created
        PROVE  /\ pool'[q].totalValueLockedToken0 = chain'[q].reserve0
               /\ pool'[q].totalValueLockedToken1 = chain'[q].reserve1
    <3>1. CASE q = p
      BY <2>1, <2>2, <2>3, <3>1 DEF TotalsAgree, Event, ContractMoved
    <3>2. CASE q # p
      <4>1. pool'[q] = pool[q] /\ chain'[q] = chain[q]
        BY <2>1, <2>3, <3>2 DEF Event, ContractMoved, OnlyAt, Created, Basics, TypeInv
      <4>2. QED BY <2>2, <4>1 DEF TotalsAgree
    <3>3. QED BY <3>1, <3>2
  <2>8. \A t : CreatedWith0(t)' = CreatedWith0(t) /\ CreatedWith1(t)' = CreatedWith1(t)
    BY <2>1 DEF CreatedWith0, CreatedWith1
  <2>9. QED BY <2>1, <2>5, <2>6, <2>7, <2>8 DEF TotalsAgree
<1>5. QED BY <1>1, <1>2, <1>3, <1>4, StepKinds

\* The totals of the factory and the tokens are the sums over the pools, and a pool holds what
\* its contract holds, after every handler.
THEOREM TotalsAlwaysAgree == Spec => []TotalsAgree
<1>1. Init => Basics /\ TotalsAgree
  BY Starts DEF Init, TotalsAgree
<1>2. Basics /\ TotalsAgree /\ [Next]_vars => Basics' /\ TotalsAgree'
  <2>1. SUFFICES ASSUME Basics, TotalsAgree, [Next]_vars
                 PROVE  Basics' /\ TotalsAgree'
    OBVIOUS
  <2>2. CASE Next
    BY <2>1, <2>2, Steps, TotalsKept
  <2>3. CASE UNCHANGED vars
    BY <2>1, <2>3, Unchanged DEF vars, TotalsAgree, Created, Kept, CreatedWith0, CreatedWith1
  <2>4. QED BY <2>1, <2>2, <2>3
<1>3. QED BY <1>1, <1>2, PTL DEF Spec

-----------------------------------------------------------------------------
(* Sums over days and hours. *)

LEMMA TimesFinite == IsFiniteSet(Hours) /\ IsFiniteSet(Days)
<1>1. IsFiniteSet(Hours)
  <2>1. 0 \in Int /\ MaxHour \in Int
    BY Constants
  <2>2. IsFiniteSet(0..MaxHour)
    BY ONLY <2>1, FS_Interval
  <2>3. QED BY <2>2 DEF Hours
<1>2. IsFiniteSet(Days)
  <2> DEFINE f == [h \in Hours |-> DayOf(h)]
  <2>1. f \in Surjection(Hours, Days)
    BY DEF Surjection, Days
  <2> HIDE DEF f
  <2>2. QED BY <1>1, <2>1, FS_Surjection
<1>3. QED BY <1>1, <1>2

\* A row that gains v in column c; over the keys in S.
SumGains(new, old, S, k, c, v) ==
  /\ SumOf(old, Kept(old) \cap S, c) \in Int
  /\ SumOf(new, Kept(new) \cap S, c)
       = SumOf(old, Kept(old) \cap S, c) + (IF k \in S THEN v ELSE 0)

LEMMA RowGains ==
  ASSUME NEW old, NEW new, NEW k \in DOMAIN old, OnlyAt(new, old, k),
         IsFiniteSet(DOMAIN old), new[k] # Null, NEW c,
         \A y \in Kept(old) : old[y][c] \in Int,
         NEW v \in Int, new[k][c] = Count(old[k], c) + v, NEW S
  PROVE  SumGains(new, old, S, k, c, v)
<1> DEFINE T == Kept(old) \cap S
<1>0. v \in Int /\ new[k][c] = Count(old[k], c) + v
  OBVIOUS
<1>1. DOMAIN new = DOMAIN old /\ \A y \in DOMAIN old \ {k} : new[y] = old[y]
  BY DEF OnlyAt
<1>2. Kept(new) = Kept(old) \cup {k}
  BY <1>1 DEF Kept
<1>3. Count(old[k], c) \in Int
  BY DEF Count, Kept
<1>4. IsFiniteSet(T)
  <2>1. T \subseteq DOMAIN old
    BY DEF Kept
  <2> HIDE DEF T
  <2>2. QED BY <2>1, FS_Subset
<1>5. Moves(new, old, T, k, c)
  <2>1. \A y \in T : old[y][c] \in Int
    OBVIOUS
  <2>2. new[k][c] \in Int
    BY <1>3
  <2>3. \A y \in T \ {k} : new[y][c] = old[y][c]
    BY <1>1 DEF Kept
  <2> HIDE DEF T
  <2>4. QED BY ONLY <1>4, <2>1, <2>2, <2>3, SumOfMoves
<1>6. CASE k \in S /\ k \in T
  <2>1. Kept(new) \cap S = T
    BY <1>2, <1>6
  <2>2. Count(old[k], c) = old[k][c]
    BY <1>6 DEF Count, Kept
  <2> HIDE DEF T
  <2>3. SumOf(new, Kept(new) \cap S, c) = SumOf(new, T, c)
    BY <2>1, Zenon
  <2>4. k \in S /\ SumOf(old, T, c) \in Int /\ SumOf(new, Kept(new) \cap S, c) = SumOf(old, T, c) + v
    BY ONLY <1>0, <1>3, <1>5, <1>6, <2>2, <2>3 DEF Moves
  <2>5. QED BY <2>4 DEF SumGains, T
<1>7. CASE k \in S /\ k \notin T
  <2>1. Kept(new) \cap S = T \cup {k}
    BY <1>2, <1>7
  <2>2. Count(old[k], c) = 0
    BY <1>7 DEF Count, Kept
  <2> HIDE DEF T
  <2>3. SumOf(new, Kept(new) \cap S, c) = SumOf(new, T \cup {k}, c)
    BY <2>1, Zenon
  <2>4. k \in S /\ SumOf(old, T, c) \in Int /\ SumOf(new, Kept(new) \cap S, c) = SumOf(old, T, c) + v
    BY ONLY <1>0, <1>5, <1>7, <2>2, <2>3 DEF Moves
  <2>5. QED BY <2>4 DEF SumGains, T
<1>8. CASE k \notin S
  <2>1. Kept(new) \cap S = T
    BY <1>2, <1>8
  <2>2. SumOf(new, T, c) = SumOf(old, T, c)
    <3>1. \A y \in T : new[y][c] = old[y][c]
      BY <1>1, <1>8 DEF Kept
    <3> HIDE DEF T
    <3>2. QED BY <3>1, SumOfSame
  <2> HIDE DEF T
  <2>3. SumOf(new, Kept(new) \cap S, c) = SumOf(new, T, c)
    BY <2>1, Zenon
  <2>4. SumOf(old, T, c) \in Int /\ SumOf(new, Kept(new) \cap S, c) = SumOf(old, T, c) + 0
    BY ONLY <1>5, <2>2, <2>3 DEF Moves
  <2>5. QED BY <1>8, <2>4 DEF SumGains, T
<1>9. QED BY <1>6, <1>7, <1>8

HourSums(c) ==
  \A p \in Pools : \A d \in Days :
    Count(poolDayData[p][d], c)
      = SumOf(poolHourData[p], HoursOf(poolHourData[p], d), c)

\* A pool's rows of a day and an hour gain the same.
IntervalsGain(p, c, v) ==
  /\ OnlyAt(poolDayData', poolDayData, p) /\ OnlyAt(poolHourData', poolHourData, p)
  /\ OnlyAt(poolDayData'[p], poolDayData[p], today)
  /\ OnlyAt(poolHourData'[p], poolHourData[p], hour)
  /\ poolDayData'[p][today] # Null /\ poolHourData'[p][hour] # Null
  /\ poolDayData'[p][today][c] = Count(poolDayData[p][today], c) + v
  /\ poolHourData'[p][hour][c] = Count(poolHourData[p][hour], c) + v

LEMMA IntervalsGainSums ==
  ASSUME Basics, NEW p \in Pools, NEW c \in {"volumeToken0", "txCount"}, NEW v \in Int,
         IntervalsGain(p, c, v), HourSums(c)
  PROVE  HourSums(c)'
<1>1. /\ today \in Days /\ hour \in Hours /\ today = DayOf(hour)
      /\ \A q \in Pools : /\ DOMAIN poolDayData[q] = Days /\ DOMAIN poolHourData[q] = Hours
                          /\ \A h \in Hours : poolHourData[q][h] \in PoolIntervalRows \cup {Null}
      /\ DOMAIN poolDayData = Pools /\ DOMAIN poolHourData = Pools
  BY DEF Basics, TypeInv, today, Days
<1>2. SUFFICES ASSUME NEW q \in Pools, NEW d \in Days
               PROVE  Count(poolDayData'[q][d], c)
                        = SumOf(poolHourData'[q], HoursOf(poolHourData'[q], d), c)
  BY DEF HourSums, HoursOf, Kept, DayOf, Days, Hours
<1>3. Count(poolDayData[q][d], c) = SumOf(poolHourData[q], HoursOf(poolHourData[q], d), c)
  BY DEF HourSums
<1>4. CASE q # p
  <2>1. poolDayData'[q] = poolDayData[q] /\ poolHourData'[q] = poolHourData[q]
    BY <1>1, <1>4 DEF IntervalsGain, OnlyAt
  <2>2. QED BY <1>3, <2>1
<1>5. CASE q = p
  <2> DEFINE S == {h \in Hours : DayOf(h) = d}
             old == poolHourData[p]
             new == poolHourData'[p]
  <2>1. /\ OnlyAt(new, old, hour) /\ new[hour] # Null
        /\ new[hour][c] = Count(old[hour], c) + v
    BY DEF IntervalsGain
  <2>2. /\ IsFiniteSet(DOMAIN old) /\ hour \in DOMAIN old
        /\ \A y \in Kept(old) : old[y][c] \in Int
    <3>1. \A y \in Kept(old) : old[y] \in PoolIntervalRows
      BY <1>1 DEF Kept
    <3>2. \A row \in PoolIntervalRows : row[c] \in Int
      BY DEF PoolIntervalRows
    <3> HIDE DEF old
    <3>3. \A y \in Kept(old) : old[y][c] \in Int
      BY <3>1, <3>2
    <3>4. QED BY <1>1, <3>3, TimesFinite DEF old
  <2>3. HoursOf(old, d) = Kept(old) \cap S /\ HoursOf(new, d) = Kept(new) \cap S
    <3>1. DOMAIN old = Hours /\ DOMAIN new = Hours
      BY <1>1, <2>1 DEF OnlyAt
    <3> HIDE DEF old, new
    <3>2. QED BY <3>1 DEF HoursOf, Kept
  <2>4. hour \in S <=> d = today
    BY <1>1
  <2> HIDE DEF old, new, S
  <2>5. SumGains(new, old, S, hour, c, v)
    BY <2>1, <2>2, RowGains
  <2>6. SumOf(new, HoursOf(new, d), c)
          = SumOf(old, HoursOf(old, d), c) + (IF d = today THEN v ELSE 0)
    BY <2>3, <2>4, <2>5 DEF SumGains
  <2>7. SumOf(old, HoursOf(old, d), c) \in Int
    BY <2>3, <2>5 DEF SumGains
  <2>8. Count(poolDayData'[p][d], c) = Count(poolDayData[p][d], c) + (IF d = today THEN v ELSE 0)
    <3>1. CASE d = today
      BY <3>1 DEF IntervalsGain, Count
    <3>2. CASE d # today
      <4>1. poolDayData'[p][d] = poolDayData[p][d]
        BY <1>1, <3>2 DEF IntervalsGain, OnlyAt
      <4>2. Count(poolDayData[p][d], c) \in Int
        BY <1>3, <1>5, <2>7 DEF old
      <4>3. QED BY <3>2, <4>1, <4>2
    <3>3. QED BY <3>1, <3>2
  <2>9. QED BY <1>3, <1>5, <2>6, <2>7, <2>8 DEF old, new
<1>6. QED BY <1>4, <1>5

LEMMA HourSumsKept ==
  ASSUME Basics, Step, NEW c \in {"volumeToken0", "txCount"},
         c = "volumeToken0" => AfterFirstGraft, HourSums(c)
  PROVE  HourSums(c)'
<1>1. CASE UNCHANGED <<poolDayData, poolHourData>>
  BY <1>1 DEF HourSums, HoursOf, Kept, DayOf, Days, Hours
<1>2. CASE NextTransaction
  BY <1>1, <1>2 DEF NextTransaction, intervalVars
<1>3. ASSUME NEW p \in Pools, PoolAdded(p)
      PROVE  HourSums(c)'
  BY <1>1, <1>3 DEF PoolAdded, intervalVars
<1>4. ASSUME NEW p \in Pools, NEW t \in PoolTicks[p], PoolPriced(p, t)
      PROVE  HourSums(c)'
  <2>1. \E v \in Int : IntervalsGain(p, c, v)
    <3>1. CASE c = "volumeToken0"
      <4>1. poolDayData[p][today] \in PoolIntervalRows \cup {Null}
            /\ poolHourData[p][hour] \in PoolIntervalRows \cup {Null}
        BY <1>4, RowsRead DEF PoolPriced
      <4>2. Count(poolDayData[p][today], c) \in Int /\ Count(poolHourData[p][hour], c) \in Int
        BY <3>1, <4>1 DEF Count, PoolIntervalRows
      <4>3. IntervalsGain(p, c, 0)
        BY <1>4, <3>1, <4>2, NullAssumption DEF PoolPriced, PoolTouched, SameVolume, IntervalsGain
      <4>4. QED BY <4>3
    <3>2. CASE c = "txCount"
      <4>1. IntervalsGain(p, c, 1)
        BY <1>4, <3>2, NullAssumption DEF PoolPriced, PoolTouched, IntervalsGain
      <4>2. QED BY <4>1
    <3>3. QED BY <3>1, <3>2
  <2>2. QED BY <2>1, IntervalsGainSums
<1>5. ASSUME NEW p \in Created, NEW amount0 \in Int, NEW amount1 \in Int,
             NEW volume0 \in Nat, NEW volume1 \in Nat, NEW usd \in Nat, NEW eth \in Nat,
             NEW fees \in Nat, AnyEvent(p, amount0, amount1, volume0, volume1, usd, eth, fees)
      PROVE  HourSums(c)'
  <2>0. PoolIntervalsMoved(p, volume0, usd) /\ p \in Pools
    BY <1>5, RowsRead DEF AnyEvent, Event
  <2>1. \E v \in Int : IntervalsGain(p, c, v)
    <3>1. CASE c = "volumeToken0"
      <4>1. IntervalsGain(p, c, volume0)
        BY <2>0, <3>1, NullAssumption DEF PoolIntervalsMoved, PoolTouched, IntervalsGain
      <4>2. QED BY <4>1
    <3>2. CASE c = "txCount"
      <4>1. IntervalsGain(p, c, 1)
        BY <2>0, <3>2, NullAssumption DEF PoolIntervalsMoved, PoolTouched, IntervalsGain
      <4>2. QED BY <4>1
    <3>3. QED BY <3>1, <3>2
  <2>2. QED BY <2>0, <2>1, IntervalsGainSums
<1>6. QED BY <1>2, <1>3, <1>4, <1>5, StepKinds

AllGain(new, old, c, v) ==
  /\ SumOf(old, Kept(old), c) \in Int
  /\ SumOf(new, Kept(new), c) = SumOf(old, Kept(old), c) + v

LEMMA RowsGain ==
  ASSUME NEW old, NEW new, NEW k \in DOMAIN old, OnlyAt(new, old, k),
         IsFiniteSet(DOMAIN old), new[k] # Null, NEW c,
         \A y \in Kept(old) : old[y][c] \in Int,
         NEW v \in Int, new[k][c] = Count(old[k], c) + v
  PROVE  AllGain(new, old, c, v)
<1>1. SumGains(new, old, DOMAIN old, k, c, v)
  BY RowGains
<1>2. Kept(old) \cap DOMAIN old = Kept(old) /\ Kept(new) \cap DOMAIN old = Kept(new)
  BY DEF Kept, OnlyAt
<1>3. /\ SumOf(old, Kept(old) \cap DOMAIN old, c) = SumOf(old, Kept(old), c)
      /\ SumOf(new, Kept(new) \cap DOMAIN old, c) = SumOf(new, Kept(new), c)
  BY <1>2, Zenon
<1>4. QED BY <1>1, <1>3 DEF SumGains, AllGain

LEMMA NoneKept ==
  ASSUME NEW rows, \A k \in DOMAIN rows : rows[k] = Null, NEW c
  PROVE  SumOf(rows, Kept(rows), c) = 0
<1>1. Kept(rows) = {}
  BY DEF Kept
<1>2. SumOf(rows, Kept(rows), c) = SumOf(rows, {}, c)
  BY <1>1, Zenon
<1>3. QED BY <1>2, SumOfNone

FactoryVolumes ==
  factory # Null =>
    /\ factory.totalVolumeUSD = SumOf(pool, Created, "volumeUSD")
    /\ factory.totalVolumeUSD = SumOf(uniswapDayData, Kept(uniswapDayData), "volumeUSD")
    /\ factory.totalVolumeETH = SumOf(uniswapDayData, Kept(uniswapDayData), "volumeETH")
    /\ factory.totalFeesUSD = SumOf(uniswapDayData, Kept(uniswapDayData), "feesUSD")

PoolVolumes ==
  \A p \in Created : pool[p].volumeUSD = SumOf(poolDayData[p], Kept(poolDayData[p]), "volumeUSD")

TokenVolumes ==
  \A t \in Kept(token) :
    /\ token[t].volumeUSD = SumOf(pool, CreatedWith(t), "volumeUSD")
    /\ token[t].volume = SumOf(tokenDayData[t], Kept(tokenDayData[t]), "volume")

HourVolumes == AfterFirstGraft => HourSums("volumeToken0")

VolumesInv == FactoryVolumes /\ PoolVolumes /\ TokenVolumes /\ HourVolumes

LEMMA VolumesFollow ==
  ASSUME Basics, VolumesInv
  PROVE  VolumesAgree
<1>1. ASSUME NEW p \in Created, NEW d \in Kept(poolDayData[p]), AfterFirstGraft
      PROVE  poolDayData[p][d].volumeToken0
               = SumOf(poolHourData[p], HoursOf(poolHourData[p], d), "volumeToken0")
  <2>1. p \in Pools /\ d \in Days /\ poolDayData[p][d] # Null
    BY DEF Created, Kept, Basics, TypeInv
  <2>2. QED BY <1>1, <2>1 DEF VolumesInv, HourVolumes, HourSums, Count
<1>2. QED
  BY <1>1 DEF VolumesAgree, VolumesInv, FactoryVolumes, PoolVolumes, TokenVolumes

LEMMA FactoryVolumesKept ==
  ASSUME Basics, FactoryVolumes, Step
  PROVE  FactoryVolumes'
<1>1. CASE NextTransaction
  BY <1>1 DEF NextTransaction, FactoryVolumes, Created, Kept, intervalVars
<1>2. ASSUME NEW p \in Pools, PoolAdded(p)
      PROVE  FactoryVolumes'
  <2>1. /\ Created' = Created \cup {p} /\ uniswapDayData' = uniswapDayData
        /\ factory'.totalVolumeETH = Count(factory, "totalVolumeETH")
        /\ factory'.totalVolumeUSD = Count(factory, "totalVolumeUSD")
        /\ factory'.totalFeesUSD = Count(factory, "totalFeesUSD")
    BY <1>2 DEF PoolAdded, intervalVars
  <2>2. SumOf(pool', Created', "volumeUSD") = SumOf(pool, Created, "volumeUSD")
    BY <1>2, <2>1, PoolSumAdded DEF PoolColumns
  <2>3. CASE factory = Null
    <3>1. Created = {} /\ \A d \in DOMAIN uniswapDayData : uniswapDayData[d] = Null
      BY <2>3 DEF Basics, Registered, NothingBefore, TypeInv
    <3>2. /\ SumOf(pool, Created, "volumeUSD") = 0
          /\ \A c : SumOf(uniswapDayData, Kept(uniswapDayData), c) = 0
      BY <3>1, SumOfNone, NoneKept
    <3>3. QED BY <2>1, <2>2, <2>3, <3>2 DEF FactoryVolumes, Count, Kept
  <2>4. CASE factory # Null
    BY <2>1, <2>2, <2>4 DEF FactoryVolumes, Count, Kept
  <2>5. QED BY <2>3, <2>4
<1>3. ASSUME NEW p \in Pools, NEW t \in PoolTicks[p], PoolPriced(p, t)
      PROVE  FactoryVolumes'
  BY <1>3 DEF PoolPriced, FactoryVolumes, Created, Kept
<1>4. ASSUME NEW p \in Created, NEW amount0 \in Int, NEW amount1 \in Int,
             NEW volume0 \in Nat, NEW volume1 \in Nat, NEW usd \in Nat, NEW eth \in Nat,
             NEW fees \in Nat, AnyEvent(p, amount0, amount1, volume0, volume1, usd, eth, fees)
      PROVE  FactoryVolumes'
  <2>1. /\ Event(p, amount0, amount1, volume0, volume1, usd, eth, fees)
        /\ Created' = Created
    BY <1>4, EventKeeps DEF AnyEvent
  <2>2. /\ OnlyAt(pool', pool, p) /\ pool'[p] \in PoolRows /\ pool[p] \in PoolRows
        /\ pool'[p].volumeUSD = pool[p].volumeUSD + usd
        /\ factory # Null
    BY <2>1, RowsRead, NullAssumption DEF Event, PoolMoved
  <2>3. /\ factory'.totalVolumeETH = factory.totalVolumeETH + eth
        /\ factory'.totalVolumeUSD = factory.totalVolumeUSD + usd
        /\ factory'.totalFeesUSD = factory.totalFeesUSD + fees
    BY <2>1 DEF Event, FactoryMoved
  <2>4. /\ SumOf(pool, Created, "volumeUSD") \in Int
        /\ SumOf(pool', Created, "volumeUSD") = SumOf(pool, Created, "volumeUSD") + usd
    <3>1. /\ SumOf(pool, Created, "volumeUSD") \in Int
          /\ SumOf(pool', Created, "volumeUSD")
               = SumOf(pool, Created, "volumeUSD")
                 + (IF p \in Created THEN pool'[p]["volumeUSD"] - pool[p]["volumeUSD"] ELSE 0)
      BY <2>2, PoolSumMoved DEF PoolColumns
    <3>2. pool[p].volumeUSD \in Int
      BY <2>2 DEF PoolRows
    <3>3. QED BY <2>2, <3>1, <3>2
  <2>5. /\ AllGain(uniswapDayData', uniswapDayData, "volumeUSD", usd)
        /\ AllGain(uniswapDayData', uniswapDayData, "volumeETH", eth)
        /\ AllGain(uniswapDayData', uniswapDayData, "feesUSD", fees)
    <3>1. /\ today \in DOMAIN uniswapDayData
          /\ OnlyAt(uniswapDayData', uniswapDayData, today)
          /\ IsFiniteSet(DOMAIN uniswapDayData) /\ uniswapDayData'[today] # Null
          /\ uniswapDayData'[today].volumeETH = Count(uniswapDayData[today], "volumeETH") + eth
          /\ uniswapDayData'[today].volumeUSD = Count(uniswapDayData[today], "volumeUSD") + usd
          /\ uniswapDayData'[today].feesUSD = Count(uniswapDayData[today], "feesUSD") + fees
      BY <2>1, RowsRead, TimesFinite, NullAssumption DEF Event, UniswapDayMoved, Basics, TypeInv
    <3>2. \A y \in Kept(uniswapDayData) : uniswapDayData[y] \in UniswapDayRows
      BY DEF Kept, Basics, TypeInv
    <3>3. \A y \in Kept(uniswapDayData) : /\ uniswapDayData[y]["volumeUSD"] \in Int
                                          /\ uniswapDayData[y]["volumeETH"] \in Int
                                          /\ uniswapDayData[y]["feesUSD"] \in Int
      BY <3>2 DEF UniswapDayRows
    <3>4. QED BY <3>1, <3>3, RowsGain
  <2>6. QED BY <2>1, <2>2, <2>3, <2>4, <2>5 DEF FactoryVolumes, AllGain
<1>5. QED BY <1>1, <1>2, <1>3, <1>4, StepKinds

LEMMA PoolVolumesKept ==
  ASSUME Basics, PoolVolumes, Step
  PROVE  PoolVolumes'
<1>1. CASE NextTransaction
  BY <1>1 DEF NextTransaction, PoolVolumes, Created, Kept, intervalVars
<1>2. ASSUME NEW p \in Pools, PoolAdded(p)
      PROVE  PoolVolumes'
  <2>1. /\ Created' = Created \cup {p} /\ poolDayData' = poolDayData /\ pool'[p].volumeUSD = 0
        /\ \A q \in Created : pool'[q] = pool[q]
    BY <1>2 DEF PoolAdded, intervalVars, NewPool, OnlyAt, Created, Basics, TypeInv
  <2>2. \A d \in DOMAIN poolDayData[p] : poolDayData[p][d] = Null
    BY <1>2 DEF PoolAdded, Basics, NothingBefore, TypeInv
  <2>3. SumOf(poolDayData[p], Kept(poolDayData[p]), "volumeUSD") = 0
    BY <2>2, NoneKept
  <2>4. QED BY <2>1, <2>3 DEF PoolVolumes, Kept
<1>3. ASSUME NEW p \in Created, NEW v \in Int,
             Created' = Created, \A q \in Created \ {p} : pool'[q] = pool[q],
             pool'[p].volumeUSD = pool[p].volumeUSD + v,
             OnlyAt(poolDayData', poolDayData, p), OnlyAt(poolDayData'[p], poolDayData[p], today),
             poolDayData'[p][today] # Null,
             poolDayData'[p][today].volumeUSD = Count(poolDayData[p][today], "volumeUSD") + v
      PROVE  PoolVolumes'
  <2>1. AllGain(poolDayData'[p], poolDayData[p], "volumeUSD", v)
    <3> DEFINE old == poolDayData[p]
    <3>1. today \in DOMAIN old /\ IsFiniteSet(DOMAIN old)
      BY RowsRead, TimesFinite DEF Basics, TypeInv
    <3>2. \A y \in Kept(old) : old[y] \in PoolIntervalRows
      BY RowsRead DEF Kept, Basics, TypeInv
    <3> HIDE DEF old
    <3>3. \A y \in Kept(old) : old[y]["volumeUSD"] \in Int
      BY <3>2 DEF PoolIntervalRows
    <3>4. /\ OnlyAt(poolDayData'[p], old, today) /\ poolDayData'[p][today] # Null
          /\ poolDayData'[p][today]["volumeUSD"] = Count(old[today], "volumeUSD") + v
      BY <1>3 DEF old
    <3>5. AllGain(poolDayData'[p], old, "volumeUSD", v)
      BY <3>1, <3>3, <3>4, RowsGain
    <3>6. QED BY <3>5 DEF old
  <2>2. pool'[p].volumeUSD = SumOf(poolDayData'[p], Kept(poolDayData'[p]), "volumeUSD")
    BY <1>3, <2>1 DEF PoolVolumes, AllGain
  <2>3. \A q \in Created \ {p} : poolDayData'[q] = poolDayData[q]
    BY <1>3 DEF OnlyAt, Created, Basics, TypeInv
  <2>4. QED BY <1>3, <2>2, <2>3 DEF PoolVolumes, Kept
<1>4. ASSUME NEW p \in Pools, NEW t \in PoolTicks[p], PoolPriced(p, t)
      PROVE  PoolVolumes'
  <2>1. /\ p \in Created /\ Created' = Created /\ pool' = pool
        /\ pool[p].volumeUSD \in Int
        /\ poolDayData[p][today] \in PoolIntervalRows \cup {Null}
    BY <1>4, PricedBasics, RowsRead DEF PoolPriced, PoolRows
  <2>2. Count(poolDayData[p][today], "volumeUSD") \in Int
    BY <2>1 DEF Count, PoolIntervalRows
  <2>3. /\ OnlyAt(poolDayData', poolDayData, p) /\ OnlyAt(poolDayData'[p], poolDayData[p], today)
        /\ poolDayData'[p][today] # Null
        /\ poolDayData'[p][today].volumeUSD = Count(poolDayData[p][today], "volumeUSD") + 0
        /\ pool'[p].volumeUSD = pool[p].volumeUSD + 0
    BY <1>4, <2>1, <2>2, NullAssumption DEF PoolPriced, PoolTouched, SameVolume
  <2>4. 0 \in Int /\ \A q \in Created \ {p} : pool'[q] = pool[q]
    BY <2>1
  <2>5. QED BY ONLY <1>3, <2>1, <2>3, <2>4
<1>5. ASSUME NEW p \in Created, NEW amount0 \in Int, NEW amount1 \in Int,
             NEW volume0 \in Nat, NEW volume1 \in Nat, NEW usd \in Nat, NEW eth \in Nat,
             NEW fees \in Nat, AnyEvent(p, amount0, amount1, volume0, volume1, usd, eth, fees)
      PROVE  PoolVolumes'
  <2>1. /\ Event(p, amount0, amount1, volume0, volume1, usd, eth, fees)
        /\ Created' = Created
    BY <1>5, EventKeeps DEF AnyEvent
  <2>2. /\ pool'[p].volumeUSD = pool[p].volumeUSD + usd
        /\ \A q \in Created \ {p} : pool'[q] = pool[q]
    BY <2>1 DEF Event, PoolMoved, OnlyAt, Created, Basics, TypeInv
  <2>3. /\ OnlyAt(poolDayData', poolDayData, p) /\ OnlyAt(poolDayData'[p], poolDayData[p], today)
        /\ poolDayData'[p][today] # Null
        /\ poolDayData'[p][today].volumeUSD = Count(poolDayData[p][today], "volumeUSD") + usd
    BY <2>1, NullAssumption DEF Event, PoolIntervalsMoved, PoolTouched
  <2>4. usd \in Int
    OBVIOUS
  <2>5. QED BY ONLY <1>3, <2>1, <2>2, <2>3, <2>4, <1>5
<1>6. QED BY <1>1, <1>2, <1>4, <1>5, StepKinds

LEMMA TokenVolumesKept ==
  ASSUME Basics, TokenVolumes, Step
  PROVE  TokenVolumes'
<1>1. CASE NextTransaction
  BY <1>1 DEF NextTransaction, TokenVolumes, CreatedWith, Created, Kept, intervalVars
<1>2. ASSUME NEW p \in Pools, PoolAdded(p)
      PROVE  TokenVolumes'
  <2>1. /\ p \in Pools \ Created /\ Created' = Created \cup {p}
        /\ Kept(token)' = Kept(token) \cup TokensOf(p)
        /\ tokenDayData' = tokenDayData
    BY <1>2 DEF PoolAdded, intervalVars
  <2>2. SUFFICES ASSUME NEW t \in Kept(token)'
                 PROVE  /\ token'[t].volumeUSD = SumOf(pool', CreatedWith(t)', "volumeUSD")
                        /\ token'[t].volume = SumOf(tokenDayData[t], Kept(tokenDayData[t]), "volume")
    BY <2>1 DEF TokenVolumes, Kept
  <2>3. t \in Tokens
    BY <2>1, Constants DEF Kept, TokensOf, Basics, TypeInv
  <2>4. SumOf(pool', CreatedWith(t)', "volumeUSD") = SumOf(pool, CreatedWith(t), "volumeUSD")
    <3>1. /\ CreatedWith(t) \subseteq Created
          /\ CreatedWith(t)' = IF t \in TokensOf(p) THEN CreatedWith(t) \cup {p} ELSE CreatedWith(t)
      BY <2>1 DEF CreatedWith, TokensOf
    <3>2. QED BY <1>2, <3>1, PoolSumAdded DEF PoolColumns
  <2>5. /\ token'[t].volumeUSD = Count(token[t], "volumeUSD")
        /\ token'[t].volume = Count(token[t], "volume")
    <3>1. CASE t \in TokensOf(p)
      BY <1>2, <3>1 DEF PoolAdded, TokenListed
    <3>2. CASE t \notin TokensOf(p)
      <4>1. token'[t] = token[t] /\ token[t] # Null
        BY <1>2, <2>1, <2>3, <3>2 DEF PoolAdded, Kept
      <4>2. QED BY <4>1 DEF Count
    <3>3. QED BY <3>1, <3>2
  <2>6. CASE token[t] = Null
    <3>1. CreatedWith(t) = {} /\ \A d \in DOMAIN tokenDayData[t] : tokenDayData[t][d] = Null
      BY <2>3, <2>6 DEF CreatedWith, Basics, Registered, NothingBefore, TypeInv, TokensOf, Kept
    <3>2. /\ SumOf(pool, CreatedWith(t), "volumeUSD") = 0
          /\ SumOf(tokenDayData[t], Kept(tokenDayData[t]), "volume") = 0
      BY <3>1, SumOfNone, NoneKept
    <3>3. QED BY <2>4, <2>5, <2>6, <3>2 DEF Count
  <2>7. CASE token[t] # Null
    <3>1. t \in Kept(token)
      BY <2>3, <2>7 DEF Kept, Basics, TypeInv
    <3>2. QED BY <2>4, <2>5, <2>7, <3>1 DEF Count, TokenVolumes
  <2>8. QED BY <2>6, <2>7
<1>3. ASSUME NEW p \in Pools, NEW t \in PoolTicks[p], PoolPriced(p, t)
      PROVE  TokenVolumes'
  <2>1. /\ Created' = Created /\ Kept(token)' = Kept(token)
        /\ pool' = pool /\ tokenDayData' = tokenDayData /\ p \in Created
    BY <1>3, PricedBasics DEF PoolPriced
  <2>2. ASSUME NEW u \in Kept(token)
        PROVE  token'[u].volumeUSD = token[u].volumeUSD /\ token'[u].volume = token[u].volume
    <3>2. CASE u \in TokensOf(p)
      <4>1. token[u] \in TokenRows
        BY <2>1, <3>2, RowsRead DEF TokensOf
      <4>2. token[u].volumeUSD \in Nat /\ token[u].volume \in Nat
        BY <4>1 DEF TokenRows
      <4>3. /\ token'[u].volumeUSD = token[u].volumeUSD + 0
            /\ token'[u].volume = token[u].volume + 0
        BY <1>3, <3>2 DEF PoolPriced, TokenMoved
      <4>4. QED BY <4>2, <4>3
    <3>3. CASE u \notin TokensOf(p)
      BY <1>3, <3>3 DEF PoolPriced, Kept, Basics, TypeInv
    <3>4. QED BY <3>2, <3>3
  <2>3. \A u : CreatedWith(u)' = CreatedWith(u)
    BY <2>1 DEF CreatedWith, TokensOf
  <2>4. QED BY <2>1, <2>2, <2>3 DEF TokenVolumes, Kept
<1>4. ASSUME NEW p \in Created, NEW amount0 \in Int, NEW amount1 \in Int,
             NEW volume0 \in Nat, NEW volume1 \in Nat, NEW usd \in Nat, NEW eth \in Nat,
             NEW fees \in Nat, AnyEvent(p, amount0, amount1, volume0, volume1, usd, eth, fees)
      PROVE  TokenVolumes'
  <2>1. /\ Event(p, amount0, amount1, volume0, volume1, usd, eth, fees)
        /\ Created' = Created /\ Kept(token)' = Kept(token)
    BY <1>4, EventKeeps DEF AnyEvent
  <2>2. SUFFICES ASSUME NEW t \in Kept(token)
                 PROVE  /\ token'[t].volumeUSD = SumOf(pool', CreatedWith(t), "volumeUSD")
                        /\ token'[t].volume
                             = SumOf(tokenDayData'[t], Kept(tokenDayData'[t]), "volume")
    <3>1. \A u : CreatedWith(u)' = CreatedWith(u)
      BY <2>1 DEF CreatedWith, TokensOf
    <3>2. QED BY <2>1, <3>1 DEF TokenVolumes, Kept
  <2>3. /\ t \in Tokens /\ token[t] \in TokenRows
        /\ token[t].volumeUSD = SumOf(pool, CreatedWith(t), "volumeUSD")
        /\ token[t].volume = SumOf(tokenDayData[t], Kept(tokenDayData[t]), "volume")
    BY DEF TokenVolumes, Kept, Basics, TypeInv
  <2>4. /\ SumOf(pool, CreatedWith(t), "volumeUSD") \in Int
        /\ SumOf(pool', CreatedWith(t), "volumeUSD")
             = SumOf(pool, CreatedWith(t), "volumeUSD") + (IF t \in TokensOf(p) THEN usd ELSE 0)
    <3>1. CreatedWith(t) \subseteq Created /\ (p \in CreatedWith(t) <=> t \in TokensOf(p))
      BY DEF CreatedWith
    <3>2. /\ OnlyAt(pool', pool, p) /\ pool'[p] \in PoolRows /\ pool[p] \in PoolRows
          /\ pool'[p].volumeUSD = pool[p].volumeUSD + usd
      BY <2>1, RowsRead DEF Event, PoolMoved
    <3>3. /\ SumOf(pool, CreatedWith(t), "volumeUSD") \in Int
          /\ SumOf(pool', CreatedWith(t), "volumeUSD")
               = SumOf(pool, CreatedWith(t), "volumeUSD")
                 + (IF p \in CreatedWith(t) THEN pool'[p]["volumeUSD"] - pool[p]["volumeUSD"] ELSE 0)
      BY <3>1, <3>2, PoolSumMoved DEF PoolColumns
    <3>4. pool[p].volumeUSD \in Int
      BY <3>2 DEF PoolRows
    <3>5. QED BY <3>1, <3>2, <3>3, <3>4
  <2>5. CASE t \notin TokensOf(p)
    <3>1. token'[t] = token[t] /\ tokenDayData'[t] = tokenDayData[t]
      BY <2>1, <2>3, <2>5 DEF Event, TokensMoved, TokensIntervalsMoved
    <3>2. QED BY <2>3, <2>4, <2>5, <3>1
  <2>6. CASE t \in TokensOf(p)
    <3>1. PICK volume \in {volume0, volume1} :
            /\ TokenIntervalsMoved(t, volume)
            /\ token'[t].volumeUSD = token[t].volumeUSD + usd
            /\ token'[t].volume = token[t].volume + volume
      <4>1. CASE t = Token0[p]
        BY <2>1, <4>1 DEF Event, TokensMoved, TokenMoved, TokensIntervalsMoved
      <4>2. CASE t = Token1[p]
        BY <2>1, <4>2 DEF Event, TokensMoved, TokenMoved, TokensIntervalsMoved
      <4>3. QED BY <2>6, <4>1, <4>2 DEF TokensOf
    <3>2. AllGain(tokenDayData'[t], tokenDayData[t], "volume", volume)
      <4> DEFINE old == tokenDayData[t]
      <4>1. today \in DOMAIN old /\ IsFiniteSet(DOMAIN old)
        BY <2>3, RowsRead, TimesFinite DEF Basics, TypeInv
      <4>2. \A y \in Kept(old) : old[y] \in TokenDayRows
        BY <2>3 DEF Kept, Basics, TypeInv
      <4>3. /\ OnlyAt(tokenDayData'[t], old, today) /\ tokenDayData'[t][today] # Null
            /\ tokenDayData'[t][today]["volume"] = Count(old[today], "volume") + volume
        BY <3>1, NullAssumption DEF TokenIntervalsMoved
      <4> HIDE DEF old
      <4>4. \A y \in Kept(old) : old[y]["volume"] \in Int
        BY <4>2 DEF TokenDayRows
      <4>5. volume \in Int
        BY <3>1
      <4>6. AllGain(tokenDayData'[t], old, "volume", volume)
        BY <4>1, <4>3, <4>4, <4>5, RowsGain
      <4>7. QED BY <4>6 DEF old
    <3>3. QED BY <2>3, <2>4, <2>6, <3>1, <3>2 DEF AllGain
  <2>7. QED BY <2>5, <2>6
<1>5. QED BY <1>1, <1>2, <1>3, <1>4, StepKinds

\* The volumes and fees of the factory, of pools, tokens and days add up, after every handler.
THEOREM VolumesAlwaysAgree == Spec => []VolumesAgree
<1>1. Init => Basics /\ VolumesInv
  <2>1. SUFFICES ASSUME Init PROVE VolumesInv
    BY Starts
  <2>2. Created = {} /\ Kept(token) = {} /\ factory = Null
    BY <2>1, Starts DEF Init
  <2>3. HourSums("volumeToken0")
    <3>1. SUFFICES ASSUME NEW p \in Pools, NEW d \in Days
                   PROVE  SumOf(poolHourData[p], HoursOf(poolHourData[p], d), "volumeToken0") = 0
      BY <2>1 DEF Init, HourSums, Count
    <3>2. HoursOf(poolHourData[p], d) = {}
      BY <2>1 DEF Init, HoursOf, Kept
    <3>3. QED BY <3>2, SumOfNone
  <2>4. QED
    BY <2>2, <2>3 DEF VolumesInv, FactoryVolumes, PoolVolumes, TokenVolumes, HourVolumes
<1>2. Basics /\ VolumesInv /\ [Next]_vars => Basics' /\ VolumesInv'
  <2>1. SUFFICES ASSUME Basics, VolumesInv, [Next]_vars
                 PROVE  Basics' /\ VolumesInv'
    OBVIOUS
  <2>2. CASE Next
    <3>1. Step /\ Basics'
      BY <2>1, <2>2, Steps
    <3>2. FactoryVolumes' /\ PoolVolumes' /\ TokenVolumes'
      BY <2>1, <3>1, FactoryVolumesKept, PoolVolumesKept, TokenVolumesKept DEF VolumesInv
    <3>3. HourVolumes'
      BY <2>1, <3>1, HourSumsKept DEF VolumesInv, HourVolumes
    <3>4. QED BY <3>1, <3>2, <3>3 DEF VolumesInv
  <2>3. CASE UNCHANGED vars
    <3>1. UNCHANGED <<factory, pool, token, uniswapDayData, poolDayData, poolHourData, tokenDayData>>
      BY <2>3 DEF vars, intervalVars
    <3>2. Created' = Created /\ Kept(token)' = Kept(token)
          /\ \A t : CreatedWith(t)' = CreatedWith(t)
      BY <3>1 DEF Created, Kept, CreatedWith, TokensOf
    <3>3. FactoryVolumes' /\ PoolVolumes' /\ TokenVolumes'
      BY <2>1, <3>1, <3>2 DEF VolumesInv, FactoryVolumes, PoolVolumes, TokenVolumes, Kept
    <3>4. HourVolumes'
      BY <2>1, <3>1 DEF VolumesInv, HourVolumes, HourSums, HoursOf, Kept, Days, Hours, DayOf
    <3>5. QED BY <2>1, <2>3, <3>3, <3>4, Unchanged DEF VolumesInv
  <2>4. QED BY <2>1, <2>2, <2>3
<1>3. Basics /\ VolumesInv => VolumesAgree
  BY VolumesFollow
<1>4. QED BY <1>1, <1>2, <1>3, PTL DEF Spec

-----------------------------------------------------------------------------
(* Days go with hours. *)

LEMMA DivMonotone ==
  ASSUME NEW n \in Nat \ {0}, NEW a \in Nat, NEW b \in Nat, a <= b
  PROVE  /\ a \div n \in Nat /\ a \div n <= b \div n
<1>1. a \div n \in Int /\ b \div n \in Int
  OBVIOUS
<1>2. PICK q \in Int, s \in Int : q = a \div n /\ s = b \div n
  BY <1>1
<1>3. /\ n * q <= a /\ a < n * q + n /\ n * s <= b /\ b < n * s + n
  BY <1>2
<1>4. ASSUME s < q PROVE FALSE
  <2>1. s + 1 <= q
    BY <1>4
  <2>2. n * (s + 1) <= n * q
    BY <2>1
  <2>3. n * (s + 1) = n * s + n
    OBVIOUS
  <2>4. QED BY <1>3, <2>2, <2>3
<1>5. ASSUME q < 0 PROVE FALSE
  <2>1. q + 1 <= 0
    BY <1>5
  <2>2. n * (q + 1) <= n * 0
    BY <2>1
  <2>3. n * (q + 1) = n * q + n /\ n * 0 = 0
    OBVIOUS
  <2>4. QED BY <1>3, <2>2, <2>3
<1>6. QED BY <1>2, <1>4, <1>5

LEMMA DaysOfHours ==
  /\ Hours \subseteq Nat /\ Days \subseteq Nat
  /\ \A g, h \in Hours : g <= h => DayOf(g) <= DayOf(h)
<1>1. Hours \subseteq Nat
  BY Constants DEF Hours
<1>2. \A g, h \in Hours : DayOf(g) \in Nat /\ (g <= h => DayOf(g) <= DayOf(h))
  <2>1. SUFFICES ASSUME NEW g \in Hours, NEW h \in Hours
                 PROVE  DayOf(g) \in Nat /\ (g <= h => DayOf(g) <= DayOf(h))
    OBVIOUS
  <2>2. g \in Nat /\ h \in Nat /\ HoursPerDay \in Nat \ {0}
    BY <1>1, Constants
  <2>3. DayOf(g) \in Nat
    BY <2>2, DivMonotone DEF DayOf
  <2>4. QED BY <2>2, <2>3, DivMonotone DEF DayOf
<1>3. QED BY <1>1, <1>2 DEF Days

\* The largest and the smallest of some numbers.
LEMMA ItsMax ==
  ASSUME NEW S \in SUBSET Int, NEW m \in S, \A x \in S : x <= m
  PROVE  Max(S) = m
<1>1. \E x \in S : \A y \in S : x >= y
  OBVIOUS
<1>2. Max(S) \in S /\ \A y \in S : Max(S) >= y
  BY <1>1 DEF Max
<1>3. PICK n \in S : n = Max(S) /\ n >= m
  BY <1>2
<1>4. n \in Int /\ m \in Int /\ n <= m
  BY <1>3
<1>5. QED BY <1>3, <1>4

LEMMA ItsMin ==
  ASSUME NEW S \in SUBSET Int, NEW m \in S, \A x \in S : m <= x
  PROVE  Min(S) = m
<1>1. \E x \in S : \A y \in S : x <= y
  OBVIOUS
<1>2. Min(S) \in S /\ \A y \in S : Min(S) <= y
  BY <1>1 DEF Min
<1>3. PICK n \in S : n = Min(S) /\ n <= m
  BY <1>2
<1>4. n \in Int /\ m \in Int /\ m <= n
  BY <1>3
<1>5. QED BY <1>3, <1>4

-----------------------------------------------------------------------------
(* The days of the ticks. *)

\* There are no rows of days to come, and the last row of a tick is the tick.
Last(rows, d) == d \in Kept(rows) /\ \A e \in Kept(rows) : e <= d

TickDays ==
  \A p \in Pools : \A i \in TicksOf(p) :
    LET days == tickDayData[p][i] IN
    /\ \A d \in Kept(days) : d <= today
    /\ tick[p][i] # Null => \E d \in Days : Last(days, d) /\ days[d] = TickDayRow(tick[p][i])

LEMMA TickDaysFollow ==
  ASSUME Basics, TickDays
  PROVE  TickDayDataCurrent
<1>1. SUFFICES ASSUME NEW p \in Created, NEW i \in Kept(tick[p])
               PROVE  LET days == Kept(tickDayData[p][i]) IN
                      days # {} /\ tickDayData[p][i][Max(days)] = TickDayRow(tick[p][i])
  BY DEF TickDayDataCurrent
<1>2. /\ p \in Pools /\ i \in TicksOf(p) /\ tick[p][i] # Null
      /\ tickDayData[p][i] \in [Days -> TickRows \cup {Null}]
  BY DEF Created, Kept, Basics, TypeInv
<1> DEFINE rows == tickDayData[p][i]
<1>3. PICK d \in Days : Last(rows, d) /\ rows[d] = TickDayRow(tick[p][i])
  BY <1>2 DEF TickDays
<1>4. Kept(rows) \in SUBSET Int
  <2>1. DOMAIN rows = Days
    BY <1>2
  <2> HIDE DEF rows
  <2>2. \A k \in Kept(rows) : k \in Days
    BY <2>1 DEF Kept
  <2>3. \A k \in Days : k \in Int
    BY DaysOfHours
  <2>4. QED BY <2>2, <2>3
<1> HIDE DEF rows
<1>5. d \in Kept(rows) /\ Max(Kept(rows)) = d
  <2>1. d \in Kept(rows) /\ \A e \in Kept(rows) : e <= d
    BY <1>3 DEF Last
  <2>2. QED BY <1>4, <2>1, ItsMax
<1>6. QED BY <1>3, <1>5 DEF rows

\* Rows of today, of ticks that are there, are the last ones.
LEMMA TickDaysAt ==
  ASSUME Basics, TickDays, NEW p \in Pools, NEW indexes, TickDaysMoved(p, indexes),
         today' = today, DOMAIN tick' = Pools,
         \A q \in Pools \ {p} : tick'[q] = tick[q],
         tick'[p] \in [TicksOf(p) -> TickRows \cup {Null}],
         \A i \in TicksOf(p) : IF i \in indexes THEN tick'[p][i] # Null
                               ELSE tick'[p][i] = tick[p][i]
  PROVE  TickDays'
<1>1. SUFFICES ASSUME NEW q \in Pools, NEW i \in TicksOf(q)
               PROVE  /\ \A d \in Kept(tickDayData'[q][i]) : d <= today
                      /\ tick'[q][i] # Null =>
                           \E d \in Days : /\ Last(tickDayData'[q][i], d)
                                           /\ tickDayData'[q][i][d] = TickDayRow(tick'[q][i])
  <2>1. TickDays' = \A q \in Pools : \A i \in TicksOf(q) :
                      /\ \A d \in Kept(tickDayData'[q][i]) : d <= today
                      /\ tick'[q][i] # Null =>
                           \E d \in Days : /\ Last(tickDayData'[q][i], d)
                                           /\ tickDayData'[q][i][d] = TickDayRow(tick'[q][i])
    BY DEF TickDays
  <2>2. QED BY <2>1
<1>2. /\ \A d \in Kept(tickDayData[q][i]) : d <= today
      /\ tick[q][i] # Null =>
           \E d \in Days : /\ Last(tickDayData[q][i], d)
                           /\ tickDayData[q][i][d] = TickDayRow(tick[q][i])
  BY DEF TickDays
<1>3. CASE q # p
  <2>1. tickDayData'[q] = tickDayData[q] /\ tick'[q] = tick[q]
    BY <1>3 DEF TickDaysMoved, OnlyAt, Basics, TypeInv
  <2>2. QED BY <1>2, <2>1
<1>4. CASE q = p
  <2> DEFINE new == tickDayData'[p][i]
             old == tickDayData[p][i]
  <2>1. /\ DOMAIN old = Days /\ DOMAIN new = Days /\ today \in Days
        /\ \A d \in Days : new[d] = IF d = today /\ i \in indexes THEN TickDayRow(tick'[p][i])
                                    ELSE old[d]
    <3>1. tickDayData[p][i] \in [Days -> TickRows \cup {Null}]
      BY <1>4 DEF Basics, TypeInv
    <3>2. tickDayData'[p][i] \in [Days -> TickRows \cup {Null}]
      BY <1>4 DEF TickDaysMoved
    <3>3. today \in Days
      BY DEF Basics, TypeInv, today, Days
    <3>4. \A d \in Days : new[d] = IF d = today /\ i \in indexes THEN TickDayRow(tick'[p][i])
                                   ELSE old[d]
      BY <1>4 DEF TickDaysMoved
    <3>5. QED BY <3>1, <3>2, <3>3, <3>4
  <2>2. CASE i \in indexes
    <3>1. tick'[p][i] \in TickRows
      BY <1>4, <2>2
    <3>2. TickDayRow(tick'[p][i]) # Null
      <4>1. TickDayRow(tick'[p][i]) \in TickRows
        BY <3>1 DEF TickDayRow, TickRows
      <4>2. QED BY <4>1, NullAssumption
    <3>3. Kept(new) = Kept(old) \cup {today} /\ new[today] = TickDayRow(tick'[p][i])
      <4> HIDE DEF new, old
      <4>1. QED BY <2>1, <2>2, <3>2 DEF Kept
    <3>4. \A d \in Kept(old) : d <= today
      BY <1>2, <1>4
    <3>5. today <= today
      BY <2>1, DaysOfHours
    <3> HIDE DEF new, old
    <3>6. \A d \in Kept(new) : d <= today
      BY <3>3, <3>4, <3>5
    <3>7. Last(new, today)
      BY <3>3, <3>6 DEF Last
    <3>8. QED BY <1>4, <2>1, <3>3, <3>6, <3>7 DEF new
  <2>3. CASE i \notin indexes
    <3>1. tick'[p][i] = tick[p][i]
      BY <1>4, <2>3
    <3>2. \A d \in Days : new[d] = old[d]
      BY <2>1, <2>3
    <3> HIDE DEF new, old
    <3>3. Kept(new) = Kept(old)
      BY <2>1, <3>2 DEF Kept
    <3>4. \A d : Last(old, d) => Last(new, d)
      BY <3>3 DEF Last
    <3>5. /\ \A d \in Kept(old) : d <= today
          /\ tick[p][i] # Null =>
               \E d \in Days : Last(old, d) /\ old[d] = TickDayRow(tick[p][i])
      BY <1>2, <1>4 DEF old
    <3>6. /\ \A d \in Kept(new) : d <= today
          /\ tick'[p][i] # Null =>
               \E d \in Days : Last(new, d) /\ new[d] = TickDayRow(tick'[p][i])
      BY <3>1, <3>2, <3>3, <3>4, <3>5
    <3>7. QED BY <1>4, <3>6 DEF new
  <2>4. QED BY <2>2, <2>3
<1>5. QED BY <1>3, <1>4

LEMMA TickDaysKept ==
  ASSUME Basics, TickDays, Step
  PROVE  TickDays'
<1>1. CASE NextTransaction
  <2>1. /\ tick' = tick /\ tickDayData' = tickDayData
        /\ hour \in Hours /\ hour' \in Hours /\ hour <= hour'
    BY <1>1, Constants DEF NextTransaction, intervalVars, Basics, TypeInv, Hours
  <2>2. today \in Nat /\ today' \in Nat /\ today <= today'
    <3>1. today \in Days /\ today' \in Days
      BY <2>1 DEF today, Days
    <3>2. QED BY <2>1, <3>1, DaysOfHours DEF today
  <2>3. SUFFICES ASSUME NEW p \in Pools, NEW i \in TicksOf(p)
                 PROVE  \A d \in Kept(tickDayData[p][i]) : d <= today'
    BY <2>1 DEF TickDays, TicksOf, Days, Hours, DayOf, Kept, Last, TickDayRow
  <2>4. \A d \in Kept(tickDayData[p][i]) : d \in Nat /\ d <= today
    BY DaysOfHours DEF TickDays, Kept, Basics, TypeInv
  <2>5. QED BY <2>2, <2>4
<1>2. ASSUME UNCHANGED <<tick, tickDayData, hour>>
      PROVE  TickDays'
  BY <1>2 DEF TickDays, TicksOf, Days, Hours, DayOf, Kept, Last, TickDayRow, today
<1>3. ASSUME NEW p \in Pools, PoolAdded(p)
      PROVE  TickDays'
  BY <1>2, <1>3 DEF PoolAdded, intervalVars, environmentVars
<1>4. ASSUME NEW p \in Pools, NEW t \in PoolTicks[p], PoolPriced(p, t)
      PROVE  TickDays'
  BY <1>2, <1>4 DEF PoolPriced, environmentVars
<1>5. ASSUME NEW p \in Pools, NEW r \in Ranges[p], NEW l \in Int,
             NEW amount0 \in Int, NEW amount1 \in Int, LiquidityMoved(p, r, l, amount0, amount1)
      PROVE  TickDays'
  <2>1. /\ TicksMoved(p, r, l) /\ TickDaysMoved(p, {r[1], r[2]}) /\ today' = today
    BY <1>5 DEF LiquidityMoved, Event, environmentVars, today
  <2>2. /\ DOMAIN tick' = Pools /\ \A q \in Pools \ {p} : tick'[q] = tick[q]
        /\ tick'[p] \in [TicksOf(p) -> TickRows \cup {Null}]
        /\ \A i \in TicksOf(p) \ {r[1], r[2]} : tick'[p][i] = tick[p][i]
    BY <2>1 DEF TicksMoved, OnlyAt, Basics, TypeInv
  <2>3. \A i \in {r[1], r[2]} : tick'[p][i] # Null
    <3>1. \A i \in {r[1], r[2]} : i \in TicksOf(p)
                                  /\ tick[p][i] \in TickRows \cup {Null}
      <4>1. {r[1], r[2]} \subseteq TicksOf(p)
        BY DEF TicksOf
      <4>2. tick[p] \in [TicksOf(p) -> TickRows \cup {Null}]
        BY DEF Basics, TypeInv
      <4>3. QED BY <4>1, <4>2
    <3>2. \A i \in {r[1], r[2]} : /\ Count(tick[p][i], "liquidityGross") \in Int
                                  /\ Count(tick[p][i], "liquidityNet") \in Int
      BY <3>1 DEF Count, TickRows
    <3>3. \A i \in {r[1], r[2]} : tick'[p][i] \in TickRows
      <4>1. \E g, n \in Int : tick'[p][r[1]] = [liquidityGross |-> g, liquidityNet |-> n]
        <5>1. /\ Count(tick[p][r[1]], "liquidityGross") + l \in Int
              /\ Count(tick[p][r[1]], "liquidityNet") + l \in Int
          BY <3>2
        <5>2. QED BY <2>1, <5>1 DEF TicksMoved, TickAt
      <4>2. \E g, n \in Int : tick'[p][r[2]] = [liquidityGross |-> g, liquidityNet |-> n]
        <5>1. /\ Count(tick[p][r[2]], "liquidityGross") + l \in Int
              /\ Count(tick[p][r[2]], "liquidityNet") - l \in Int
          BY <3>2
        <5>2. QED BY <2>1, <5>1 DEF TicksMoved, TickAt
      <4>3. QED BY <4>1, <4>2 DEF TickRows
    <3>4. QED BY <3>3, NullAssumption
  <2>4. QED BY <2>1, <2>2, <2>3, TickDaysAt
<1>6. ASSUME NEW p \in Pools, NEW t \in PoolTicks[p], NEW amount0 \in Int, NEW amount1 \in Int,
             SwapMoved(p, t, amount0, amount1)
      PROVE  TickDays'
  <2>1. PICK indexes \in SUBSET Kept(tick[p]) : TickDaysMoved(p, indexes)
    BY <1>6 DEF SwapMoved
  <2>2. tick' = tick /\ today' = today
    BY <1>6 DEF SwapMoved, Event, environmentVars, today
  <2>3. /\ DOMAIN tick' = Pools /\ \A q \in Pools \ {p} : tick'[q] = tick[q]
        /\ tick'[p] \in [TicksOf(p) -> TickRows \cup {Null}]
        /\ \A i \in indexes : tick'[p][i] # Null
    BY <2>1, <2>2 DEF Basics, TypeInv, Kept
  <2>4. QED BY <2>1, <2>2, <2>3, TickDaysAt
<1>7. QED BY <1>1, <1>3, <1>4, <1>5, <1>6 DEF Step

\* The last row of a tick's days is the tick as it is, after every handler.
THEOREM TickDaysAlwaysCurrent == Spec => []TickDayDataCurrent
<1>1. Init => Basics /\ TickDays
  BY Starts DEF Init, TickDays, Kept
<1>2. Basics /\ TickDays /\ [Next]_vars => Basics' /\ TickDays'
  <2>1. SUFFICES ASSUME Basics, TickDays, [Next]_vars
                 PROVE  Basics' /\ TickDays'
    OBVIOUS
  <2>2. CASE Next
    BY <2>1, <2>2, Steps, TickDaysKept
  <2>3. CASE UNCHANGED vars
    <3>1. UNCHANGED <<tick, tickDayData, hour>>
      BY <2>3 DEF vars, environmentVars, intervalVars
    <3>2. TickDays'
      BY <2>1, <3>1 DEF TickDays, TicksOf, Days, Hours, DayOf, Kept, Last, TickDayRow, today
    <3>3. QED BY <2>1, <2>3, <3>2, Unchanged
  <2>4. QED BY <2>1, <2>2, <2>3
<1>3. Basics /\ TickDays => TickDayDataCurrent
  BY TickDaysFollow
<1>4. QED BY <1>1, <1>2, <1>3, PTL DEF Spec

-----------------------------------------------------------------------------
(* The liquidity of ticks and pools. *)

TickLiquidity ==
  \A p \in Pools : \A i \in TicksOf(p) :
    LET lower == LiquidityOf(p, {r \in Ranges[p] : r[1] = i})
        upper == LiquidityOf(p, {r \in Ranges[p] : r[2] = i})
    IN /\ Count(tick[p][i], "liquidityGross") = lower + upper
       /\ Count(tick[p][i], "liquidityNet") = lower - upper

\* At every price the ticks below it add up to the positions around it.
TicksUpTo(t) == {i \in Int : i <= t}
NetLiquidity ==
  \A p \in Pools : \A t \in Int :
    ActiveLiquidity(p, t) = SumOf(tick[p], Kept(tick[p]) \cap TicksUpTo(t), "liquidityNet")

\* A pool that has had no swap has no liquidity, the others have that of the contract.
PoolLiquidity(p) ==
  /\ pool[p].tick = Null => pool[p].liquidity = 0
  /\ pool[p].tick # Null => /\ pool[p].tick = chain[p].tick
                            /\ pool[p].liquidity = ActiveLiquidity(p, pool[p].tick)

LiquidityInv ==
  TickLiquidity /\ NetLiquidity /\ \A p \in Created : PoolLiquidity(p)

LEMMA TicksAre ==
  ASSUME NEW p \in Pools
  PROVE  IsFiniteSet(TicksOf(p)) /\ TicksOf(p) \subseteq Int
<1>1. IsFiniteSet({r[1] : r \in Ranges[p]})
  <2> DEFINE S == {r[1] : r \in Ranges[p]}
             f == [r \in Ranges[p] |-> r[1]]
  <2>1. f \in Surjection(Ranges[p], S)
    BY DEF Surjection
  <2> HIDE DEF f, S
  <2>2. IsFiniteSet(S)
    BY <2>1, Constants, FS_Surjection
  <2>3. QED BY <2>2 DEF S
<1>2. IsFiniteSet({r[2] : r \in Ranges[p]})
  <2> DEFINE S == {r[2] : r \in Ranges[p]}
             f == [r \in Ranges[p] |-> r[2]]
  <2>1. f \in Surjection(Ranges[p], S)
    BY DEF Surjection
  <2> HIDE DEF f, S
  <2>2. IsFiniteSet(S)
    BY <2>1, Constants, FS_Surjection
  <2>3. QED BY <2>2 DEF S
<1>3. IsFiniteSet(TicksOf(p))
  BY <1>1, <1>2, FS_Union DEF TicksOf
<1>4. TicksOf(p) \subseteq Int
  BY Constants DEF TicksOf
<1>5. QED BY <1>3, <1>4

LEMMA PositionMoved ==
  ASSUME Basics, NEW p \in Pools, NEW r \in Ranges[p], NEW l \in Int,
         chain'[p] \in Contract(p),
         chain'[p].liquidity = [chain[p].liquidity EXCEPT ![r] = @ + l],
         NEW S \in SUBSET Ranges[p]
  PROVE  /\ LiquidityOf(p, S) \in Int
         /\ LiquidityOf(p, S)' = LiquidityOf(p, S) + (IF r \in S THEN l ELSE 0)
<1> DEFINE f == [q \in S |-> chain[p].liquidity[q]]
           h == [q \in S |-> chain'[p].liquidity[q]]
<1>1. chain[p].liquidity \in [Ranges[p] -> Nat] /\ chain'[p].liquidity \in [Ranges[p] -> Nat]
  BY DEF Basics, TypeInv, Contract
<1>2. IsFiniteSet(S)
  BY Constants, FS_Subset
<1>3. f \in [S -> Int] /\ h \in [S -> Int]
  BY <1>1
<1>4. \A q \in S \ {r} : h[q] = f[q]
  BY <1>1
<1>5. r \in S => f[r] \in Int /\ h[r] = f[r] + l
  BY <1>1
<1>6. SumFunction(f) = LiquidityOf(p, S) /\ SumFunction(h) = LiquidityOf(p, S)'
  BY DEF LiquidityOf
<1> HIDE DEF f, h
<1>7. SumFunction(f) \in Int
  BY <1>2, <1>3, SumInt
<1>8. CASE r \in S
  <2>1. SumFunction(h) = SumFunction(f) - f[r] + h[r]
    BY <1>2, <1>3, <1>4, <1>8, SumWithOneChanged
  <2>2. QED BY <1>5, <1>6, <1>7, <1>8, <2>1
<1>9. CASE r \notin S
  <2>1. h = f
    BY <1>3, <1>4, <1>9
  <2>2. QED BY <1>6, <1>7, <1>9, <2>1
<1>10. QED BY <1>8, <1>9

LEMMA TickLiquidityMoved ==
  ASSUME Basics, TickLiquidity, NEW p \in Pools, NEW r \in Ranges[p], NEW l \in Int,
         TicksMoved(p, r, l), OnlyAt(chain', chain, p), chain'[p] \in Contract(p),
         chain'[p].liquidity = [chain[p].liquidity EXCEPT ![r] = @ + l]
  PROVE  TickLiquidity'
<1>1. SUFFICES ASSUME NEW q \in Pools, NEW i \in TicksOf(q)
               PROVE  /\ Count(tick'[q][i], "liquidityGross")
                           = LiquidityOf(q, {s \in Ranges[q] : s[1] = i})'
                             + LiquidityOf(q, {s \in Ranges[q] : s[2] = i})'
                      /\ Count(tick'[q][i], "liquidityNet")
                           = LiquidityOf(q, {s \in Ranges[q] : s[1] = i})'
                             - LiquidityOf(q, {s \in Ranges[q] : s[2] = i})'
  BY DEF TickLiquidity, Count
<1> DEFINE lower == {s \in Ranges[q] : s[1] = i}
           upper == {s \in Ranges[q] : s[2] = i}
<1>2. /\ Count(tick[q][i], "liquidityGross") = LiquidityOf(q, lower) + LiquidityOf(q, upper)
      /\ Count(tick[q][i], "liquidityNet") = LiquidityOf(q, lower) - LiquidityOf(q, upper)
  BY DEF TickLiquidity
<1>3. CASE q # p
  <2>1. tick'[q] = tick[q] /\ chain'[q] = chain[q]
    BY <1>3 DEF TicksMoved, OnlyAt, Basics, TypeInv
  <2>2. QED BY <1>2, <2>1 DEF LiquidityOf
<1>4. CASE q = p
  <2>1. lower \in SUBSET Ranges[p] /\ upper \in SUBSET Ranges[p]
    BY <1>4
  <2>2. r[1] # r[2] /\ (r \in lower <=> r[1] = i) /\ (r \in upper <=> r[2] = i)
    BY <1>4, Constants
  <2> HIDE DEF lower, upper
  <2>3. /\ LiquidityOf(p, lower) \in Int /\ LiquidityOf(p, upper) \in Int
        /\ LiquidityOf(p, lower)' = LiquidityOf(p, lower) + (IF r \in lower THEN l ELSE 0)
        /\ LiquidityOf(p, upper)' = LiquidityOf(p, upper) + (IF r \in upper THEN l ELSE 0)
    BY <2>1, PositionMoved
  <2>4. CASE i = r[1]
    <3>1. /\ Count(tick[p][i], "liquidityGross") + l \in Int
          /\ Count(tick[p][i], "liquidityNet") + l \in Int
      BY <1>2, <1>4, <2>3
    <3>2. /\ Count(tick'[p][i], "liquidityGross") = Count(tick[p][i], "liquidityGross") + l
          /\ Count(tick'[p][i], "liquidityNet") = Count(tick[p][i], "liquidityNet") + l
      <4>1. tick'[p][i] \in TickRows
        BY <2>4, <3>1 DEF TicksMoved, TickAt, TickRows
      <4>2. tick'[p][i] # Null
        BY <4>1, NullAssumption
      <4>3. QED BY <2>4, <4>2 DEF TicksMoved, TickAt, Count
    <3>3. r \in lower /\ r \notin upper
      BY <2>2, <2>4
    <3>4. QED BY <1>2, <1>4, <2>3, <3>2, <3>3 DEF lower, upper
  <2>5. CASE i = r[2]
    <3>1. /\ Count(tick[p][i], "liquidityGross") + l \in Int
          /\ Count(tick[p][i], "liquidityNet") - l \in Int
      BY <1>2, <1>4, <2>3
    <3>2. /\ Count(tick'[p][i], "liquidityGross") = Count(tick[p][i], "liquidityGross") + l
          /\ Count(tick'[p][i], "liquidityNet") = Count(tick[p][i], "liquidityNet") - l
      <4>1. tick'[p][i] \in TickRows
        BY <2>5, <3>1 DEF TicksMoved, TickAt, TickRows
      <4>2. tick'[p][i] # Null
        BY <4>1, NullAssumption
      <4>3. QED BY <2>5, <4>2 DEF TicksMoved, TickAt, Count
    <3>3. r \notin lower /\ r \in upper
      BY <2>2, <2>5
    <3>4. QED BY <1>2, <1>4, <2>3, <3>2, <3>3 DEF lower, upper
  <2>6. CASE i \notin {r[1], r[2]}
    <3>1. tick'[p][i] = tick[p][i]
      BY <1>4, <2>6 DEF TicksMoved
    <3>2. r \notin lower /\ r \notin upper
      BY <2>2, <2>6
    <3>3. QED BY <1>2, <1>4, <2>3, <3>1, <3>2 DEF lower, upper
  <2>7. QED BY <2>4, <2>5, <2>6
<1>5. QED BY <1>3, <1>4

LEMMA NetLiquidityMoved ==
  ASSUME Basics, NetLiquidity, NEW p \in Pools, NEW r \in Ranges[p], NEW l \in Int,
         TicksMoved(p, r, l), OnlyAt(chain', chain, p), chain'[p] \in Contract(p),
         chain'[p].liquidity = [chain[p].liquidity EXCEPT ![r] = @ + l]
  PROVE  NetLiquidity'
<1>1. SUFFICES ASSUME NEW q \in Pools, NEW t \in Int
               PROVE  ActiveLiquidity(q, t)'
                        = SumOf(tick'[q], Kept(tick'[q]) \cap TicksUpTo(t), "liquidityNet")
  BY DEF NetLiquidity, Kept, TicksUpTo
<1>2. ActiveLiquidity(q, t) = SumOf(tick[q], Kept(tick[q]) \cap TicksUpTo(t), "liquidityNet")
  BY DEF NetLiquidity
<1>3. CASE q # p
  <2>1. tick'[q] = tick[q] /\ chain'[q] = chain[q]
    BY <1>3 DEF TicksMoved, OnlyAt, Basics, TypeInv
  <2>2. QED BY <1>2, <2>1 DEF ActiveLiquidity, LiquidityOf
<1>4. CASE q = p
  <2> DEFINE S == {s \in Ranges[p] : s[1] <= t /\ t < s[2]}
             old == tick[p]
             new == tick'[p]
             mid == [old EXCEPT ![r[1]] = new[r[1]]]
             U == TicksUpTo(t)
             c == "liquidityNet"
  <2>1. /\ LiquidityOf(p, S) \in Int
        /\ LiquidityOf(p, S)' = LiquidityOf(p, S) + (IF r \in S THEN l ELSE 0)
    <3>1. S \in SUBSET Ranges[p]
      OBVIOUS
    <3> HIDE DEF S
    <3>2. QED BY <3>1, PositionMoved
  <2>2. /\ ActiveLiquidity(p, t) = LiquidityOf(p, S)
        /\ ActiveLiquidity(p, t)' = LiquidityOf(p, S)'
    BY DEF ActiveLiquidity
  <2>3. r[1] \in Int /\ r[2] \in Int /\ r[1] < r[2] /\ r[1] # r[2]
    BY Constants
  <2>4. (r \in S <=> r[1] <= t /\ t < r[2]) /\ (r[1] \in U <=> r[1] <= t) /\ (r[2] \in U <=> r[2] <= t)
    BY <2>3 DEF TicksUpTo
  <2>5. r[1] \in TicksOf(p) /\ r[2] \in TicksOf(p)
    BY DEF TicksOf
  <2>6. /\ old \in [TicksOf(p) -> TickRows \cup {Null}] /\ new \in [TicksOf(p) -> TickRows \cup {Null}]
        /\ mid \in [TicksOf(p) -> TickRows \cup {Null}]
    BY <2>5 DEF Basics, TypeInv, TicksMoved
  <2>7. \A row \in TickRows \cup {Null} : Count(row, c) \in Int
    BY DEF Count, TickRows
  <2>8. /\ Count(old[r[1]], c) + l \in Int /\ Count(old[r[2]], c) - l \in Int
        /\ Count(old[r[1]], "liquidityGross") + l \in Int
        /\ Count(old[r[2]], "liquidityGross") + l \in Int
    <3>1. \A row \in TickRows \cup {Null} : Count(row, "liquidityGross") \in Int
      BY DEF Count, TickRows
    <3>2. old[r[1]] \in TickRows \cup {Null} /\ old[r[2]] \in TickRows \cup {Null}
      BY <2>5, <2>6
    <3> HIDE DEF old
    <3>3. /\ Count(old[r[1]], c) \in Int /\ Count(old[r[2]], c) \in Int
          /\ Count(old[r[1]], "liquidityGross") \in Int
          /\ Count(old[r[2]], "liquidityGross") \in Int
      BY <2>7, <3>1, <3>2
    <3>4. QED BY <3>3
  <2>9. /\ new[r[1]] \in TickRows /\ new[r[2]] \in TickRows
        /\ new[r[1]][c] = Count(old[r[1]], c) + l
        /\ new[r[2]][c] = Count(old[r[2]], c) + (-l)
    <3>1. /\ new[r[1]] = [liquidityGross |-> Count(old[r[1]], "liquidityGross") + l,
                          liquidityNet |-> Count(old[r[1]], c) + l]
          /\ new[r[2]] = [liquidityGross |-> Count(old[r[2]], "liquidityGross") + l,
                          liquidityNet |-> Count(old[r[2]], c) - l]
      BY DEF TicksMoved, TickAt
    <3> HIDE DEF new, old
    <3>2. /\ new[r[1]] \in TickRows /\ new[r[2]] \in TickRows
          /\ new[r[1]].liquidityNet = Count(old[r[1]], c) + l
          /\ new[r[2]].liquidityNet = Count(old[r[2]], c) - l
      BY <2>8, <3>1 DEF TickRows
    <3>3. PICK n \in Int : n = Count(old[r[2]], c)
      <4>1. old[r[2]] \in TickRows \cup {Null}
        BY <2>5, <2>6
      <4>2. QED BY <2>7, <4>1
    <3>4. n - l = n + (-l)
      OBVIOUS
    <3>5. QED BY <3>2, <3>3, <3>4
  <2>10. new[r[1]] # Null /\ new[r[2]] # Null
    BY <2>9, NullAssumption
  <2>11. mid[r[1]] = new[r[1]] /\ mid[r[2]] = old[r[2]] /\ OnlyAt(mid, old, r[1])
    <3> HIDE DEF old, new
    <3>1. QED BY <2>3, <2>5, <2>6 DEF OnlyAt
  <2>12. OnlyAt(new, mid, r[2])
    <3>1. \A j \in TicksOf(p) \ {r[1], r[2]} : new[j] = old[j]
      BY DEF TicksMoved
    <3> HIDE DEF new, old
    <3>2. \A j \in TicksOf(p) \ {r[1], r[2]} : new[j] = mid[j]
      BY <2>6, <3>1
    <3> HIDE DEF mid
    <3>3. \A j \in TicksOf(p) \ {r[2]} : new[j] = mid[j]
      BY <2>11, <3>2
    <3>4. QED BY <2>6, <3>3 DEF OnlyAt
  <2>13. IsFiniteSet(TicksOf(p))
    BY TicksAre
  <2> HIDE DEF old, new, mid, U
  <2>14. /\ DOMAIN old = TicksOf(p) /\ DOMAIN mid = TicksOf(p)
         /\ \A y \in Kept(old) : old[y][c] \in Int
         /\ \A y \in Kept(mid) : mid[y][c] \in Int
    <3>1. \A row \in TickRows : row[c] \in Int
      BY DEF TickRows
    <3>2. QED BY <2>6, <3>1 DEF Kept
  <2>15. SumGains(mid, old, U, r[1], c, l)
    <3>1. /\ mid[r[1]] # Null /\ mid[r[1]][c] = Count(old[r[1]], c) + l /\ r[1] \in DOMAIN old
          /\ IsFiniteSet(DOMAIN old)
      BY <2>5, <2>9, <2>10, <2>11, <2>13, <2>14
    <3>2. l \in Int
      OBVIOUS
    <3> HIDE DEF c
    <3>3. QED BY ONLY <2>11, <2>14, <3>1, <3>2, RowGains
  <2>16. SumGains(new, mid, U, r[2], c, -l)
    <3>1. /\ new[r[2]] # Null /\ new[r[2]][c] = Count(mid[r[2]], c) + (-l) /\ r[2] \in DOMAIN mid
          /\ IsFiniteSet(DOMAIN mid)
      BY <2>5, <2>9, <2>10, <2>11, <2>13, <2>14
    <3>2. -l \in Int
      OBVIOUS
    <3> HIDE DEF c
    <3>3. QED BY ONLY <2>12, <2>14, <3>1, <3>2, RowGains
  <2>17. ActiveLiquidity(p, t) = SumOf(old, Kept(old) \cap U, c)
    BY <1>2, <1>4 DEF old, U
  <2>18. SumOf(new, Kept(new) \cap U, c)
           = SumOf(old, Kept(old) \cap U, c) + (IF r[1] \in U THEN l ELSE 0)
                                             + (IF r[2] \in U THEN -l ELSE 0)
    BY <2>15, <2>16 DEF SumGains
  <2>19. ActiveLiquidity(p, t)' = SumOf(new, Kept(new) \cap U, c)
    BY <2>1, <2>2, <2>3, <2>4, <2>17, <2>18
  <2>20. QED BY <1>4, <2>19 DEF new, U
<1>5. QED BY <1>3, <1>4

LEMMA LiquidityKept ==
  ASSUME Basics, LiquidityInv, Step
  PROVE  LiquidityInv'
<1>0. TickLiquidity /\ NetLiquidity /\ \A q \in Created : PoolLiquidity(q)
  BY DEF LiquidityInv
<1>1. ASSUME tick' = tick, \A q \in Pools : chain'[q].liquidity = chain[q].liquidity
      PROVE  TickLiquidity' /\ NetLiquidity'
  <2>1. \A q \in Pools : \A S : LiquidityOf(q, S)' = LiquidityOf(q, S)
    BY <1>1 DEF LiquidityOf
  <2>2. TickLiquidity'
    BY <1>0, <1>1, <2>1 DEF TickLiquidity, Count
  <2>3. NetLiquidity'
    BY <1>0, <1>1, <2>1 DEF NetLiquidity, ActiveLiquidity, Kept, TicksUpTo
  <2>4. QED BY <2>2, <2>3
<1>2. ASSUME NEW q \in Created, pool'[q] = pool[q], chain'[q].liquidity = chain[q].liquidity,
             chain[q].tick # Null => chain'[q].tick = chain[q].tick, chain[q].tick = Null \/ q \in Pools
      PROVE  PoolLiquidity(q)'
  <2>1. pool[q].tick # Null => pool[q].tick \in Int
    BY DEF Basics, TypeInv, Created, PoolRows
  <2>2. \A t : ActiveLiquidity(q, t)' = ActiveLiquidity(q, t)
    BY <1>2 DEF ActiveLiquidity, LiquidityOf
  <2>3. PoolLiquidity(q)
    BY <1>0
  <2>4. CASE pool[q].tick = Null
    BY <1>2, <2>3, <2>4 DEF PoolLiquidity
  <2>5. CASE pool[q].tick # Null
    <3>1. pool'[q].tick = chain'[q].tick /\ pool'[q].tick = pool[q].tick
      BY <1>2, <2>3, <2>5 DEF PoolLiquidity
    <3>2. ActiveLiquidity(q, pool[q].tick)' = ActiveLiquidity(q, pool[q].tick)
      BY <1>2 DEF ActiveLiquidity, LiquidityOf
    <3>3. QED BY <1>2, <2>3, <2>5, <3>1, <3>2 DEF PoolLiquidity
  <2>6. QED BY <2>4, <2>5
<1>3. CASE NextTransaction
  <2>1. UNCHANGED <<chain, pool, tick>> /\ Created' = Created
    BY <1>3 DEF NextTransaction, Created
  <2>2. TickLiquidity' /\ NetLiquidity'
    BY <1>1, <2>1
  <2>3. \A q \in Created' : PoolLiquidity(q)'
    BY <1>2, <2>1 DEF Created
  <2>4. QED BY <2>2, <2>3 DEF LiquidityInv
<1>4. ASSUME NEW p \in Pools, PoolAdded(p)
      PROVE  LiquidityInv'
  <2>1. /\ UNCHANGED <<chain, tick>> /\ Created' = Created \cup {p} /\ p \notin Created
        /\ pool'[p] = NewPool /\ \A q \in Created : pool'[q] = pool[q]
    BY <1>4 DEF PoolAdded, OnlyAt, Created, Basics, TypeInv
  <2>2. TickLiquidity' /\ NetLiquidity'
    BY <1>1, <2>1
  <2>3. PoolLiquidity(p)'
    BY <2>1 DEF PoolLiquidity, NewPool
  <2>4. \A q \in Created : PoolLiquidity(q)'
    BY <1>2, <2>1 DEF Created
  <2>5. QED BY <2>1, <2>2, <2>3, <2>4 DEF LiquidityInv
<1>5. ASSUME NEW p \in Pools, NEW t \in PoolTicks[p], PoolPriced(p, t)
      PROVE  LiquidityInv'
  <2>1. /\ UNCHANGED <<pool, tick>> /\ chain[p].tick = Null
        /\ \A q \in Pools : chain'[q].liquidity = chain[q].liquidity
        /\ \A q \in Pools \ {p} : chain'[q] = chain[q]
    BY <1>5 DEF PoolPriced, OnlyAt, Basics, TypeInv
  <2>2. TickLiquidity' /\ NetLiquidity'
    BY <1>1, <2>1
  <2>3. Created' = Created
    BY <2>1 DEF Created
  <2>4. \A q \in Created : PoolLiquidity(q)'
    <3>1. \A q \in Created : q \in Pools /\ (chain[q].tick # Null => chain'[q].tick = chain[q].tick)
      BY <2>1 DEF Created
    <3>2. QED BY <1>2, <2>1, <3>1
  <2>5. QED BY <2>2, <2>3, <2>4 DEF LiquidityInv
<1>6. ASSUME NEW p \in Pools, NEW r \in Ranges[p], NEW l \in Int,
             NEW amount0 \in Int, NEW amount1 \in Int, LiquidityMoved(p, r, l, amount0, amount1)
      PROVE  LiquidityInv'
  <2>1. /\ p \in Created /\ TicksMoved(p, r, l) /\ OnlyAt(chain', chain, p) /\ chain'[p] \in Contract(p)
        /\ chain'[p].liquidity = [chain[p].liquidity EXCEPT ![r] = @ + l]
        /\ chain'[p].tick = chain[p].tick /\ pool'[p].tick = pool[p].tick
        /\ pool'[p].liquidity = IF IncludesCurrentTick(p, r) THEN pool[p].liquidity + l
                                ELSE pool[p].liquidity
        /\ Event(p, amount0, amount1, 0, 0, 0, 0, 0)
    BY <1>6 DEF LiquidityMoved, Event, ContractMoved
  <2>2. TickLiquidity'
    BY <1>0, <2>1, TickLiquidityMoved
  <2>3. NetLiquidity'
    BY <1>0, <2>1, NetLiquidityMoved
  <2>4. Created' = Created
    BY <2>1, EventKeeps
  <2>5. \A q \in Created \ {p} : pool'[q] = pool[q] /\ chain'[q] = chain[q] /\ q \in Pools
    BY <2>1 DEF Event, PoolMoved, OnlyAt, Created, Basics, TypeInv
  <2>6. \A q \in Created \ {p} : PoolLiquidity(q)'
    BY <1>2, <2>5
  <2>7. PoolLiquidity(p)'
    <3>0. PoolLiquidity(p) /\ pool[p] \in PoolRows
      BY <1>0, <2>1, RowsRead
    <3>1. CASE pool[p].tick = Null
      BY <2>1, <3>0, <3>1 DEF PoolLiquidity, IncludesCurrentTick
    <3>2. CASE pool[p].tick # Null
      <4> DEFINE t == pool[p].tick
                 S == {q \in Ranges[p] : q[1] <= t /\ t < q[2]}
      <4>1. t = chain[p].tick /\ pool[p].liquidity = LiquidityOf(p, S) /\ t \in Int
        BY <3>0, <3>2 DEF PoolLiquidity, ActiveLiquidity, PoolRows
      <4>2. PICK n \in Int : n = t
        BY <4>1
      <4>3. PICK U \in SUBSET Ranges[p] : U = S
        OBVIOUS
      <4>4. LiquidityOf(p, U) \in Int /\ LiquidityOf(p, U)' = LiquidityOf(p, U) + (IF r \in U THEN l ELSE 0)
        BY <2>1, PositionMoved
      <4>5. r \in U <=> IncludesCurrentTick(p, r)
        BY <3>2, <4>1, <4>3, Constants DEF IncludesCurrentTick
      <4>6. U = {q \in Ranges[p] : q[1] <= n /\ n < q[2]}
        BY <4>2, <4>3
      <4>7. ActiveLiquidity(p, pool[p].tick)' = LiquidityOf(p, U)'
        <5>1. pool'[p].tick = n
          BY <2>1, <4>2
        <5>2. QED BY <4>6, <5>1 DEF ActiveLiquidity, LiquidityOf
      <4>8. pool[p].liquidity = LiquidityOf(p, U)
        BY <4>1, <4>3
      <4>9. QED BY <2>1, <3>2, <4>1, <4>4, <4>5, <4>7, <4>8 DEF PoolLiquidity
    <3>3. QED BY <3>1, <3>2
  <2>8. QED BY <2>2, <2>3, <2>4, <2>6, <2>7 DEF LiquidityInv
<1>7. ASSUME NEW p \in Pools, NEW t \in PoolTicks[p], NEW amount0 \in Int, NEW amount1 \in Int,
             SwapMoved(p, t, amount0, amount1)
      PROVE  LiquidityInv'
  <2>1. /\ p \in Created /\ tick' = tick /\ chain'[p].tick = t
        /\ chain'[p].liquidity = chain[p].liquidity
        /\ pool'[p].tick = t /\ pool'[p].liquidity = ActiveLiquidity(p, t)
    BY <1>7 DEF SwapMoved
  <2>2. PICK usd, eth, fees \in Nat :
          Event(p, amount0, amount1, Abs(amount0), Abs(amount1), usd, eth, fees)
    BY <1>7 DEF SwapMoved
  <2>3. Created' = Created
    BY <2>1, <2>2, EventKeeps
  <2>4. /\ OnlyAt(pool', pool, p) /\ OnlyAt(chain', chain, p)
    BY <2>2 DEF Event, PoolMoved, ContractMoved
  <2>5. \A q \in Created \ {p} : pool'[q] = pool[q] /\ chain'[q] = chain[q] /\ q \in Pools
    BY <2>4 DEF OnlyAt, Created, Basics, TypeInv
  <2>6. \A q \in Created \ {p} : PoolLiquidity(q)'
    BY <1>2, <2>5
  <2>7. PoolLiquidity(p)'
    <3>1. ActiveLiquidity(p, t)' = ActiveLiquidity(p, t)
      BY <2>1 DEF ActiveLiquidity, LiquidityOf
    <3>2. ActiveLiquidity(p, pool[p].tick)' = ActiveLiquidity(p, t)'
      BY <2>1 DEF ActiveLiquidity, LiquidityOf
    <3>3. t # Null
      BY Constants, NullAssumption
    <3>4. QED BY <2>1, <3>1, <3>2, <3>3 DEF PoolLiquidity
  <2>8. \A q \in Pools : chain'[q].liquidity = chain[q].liquidity
    BY <2>1, <2>4 DEF OnlyAt, Basics, TypeInv
  <2>9. TickLiquidity' /\ NetLiquidity'
    BY <1>1, <2>1, <2>8
  <2>10. QED BY <2>3, <2>6, <2>7, <2>9 DEF LiquidityInv
<1>8. QED BY <1>3, <1>4, <1>5, <1>6, <1>7 DEF Step

LEMMA LiquidityStarts ==
  ASSUME Init, Basics
  PROVE  LiquidityInv
<1>1. \A p \in Pools : \A S \in SUBSET Ranges[p] : LiquidityOf(p, S) = 0
  <2>1. SUFFICES ASSUME NEW p \in Pools, NEW S \in SUBSET Ranges[p]
                 PROVE  LiquidityOf(p, S) = 0
    OBVIOUS
  <2>2. IsFiniteSet(S)
    BY Constants, FS_Subset
  <2>3. \A r \in S : chain[p].liquidity[r] = 0
    BY DEF Init, NewContract
  <2>4. PICK f : f = [r \in S |-> chain[p].liquidity[r]]
    OBVIOUS
  <2>5. f = [r \in S |-> 0]
    BY <2>3, <2>4
  <2>6. SumFunction(f) = 0
    BY <2>2, <2>5, SumZero
  <2>7. QED BY <2>4, <2>6 DEF LiquidityOf
<1>2. TickLiquidity
  <2>1. SUFFICES ASSUME NEW p \in Pools, NEW i \in TicksOf(p)
                 PROVE  /\ Count(tick[p][i], "liquidityGross")
                             = LiquidityOf(p, {r \in Ranges[p] : r[1] = i})
                               + LiquidityOf(p, {r \in Ranges[p] : r[2] = i})
                        /\ Count(tick[p][i], "liquidityNet")
                             = LiquidityOf(p, {r \in Ranges[p] : r[1] = i})
                               - LiquidityOf(p, {r \in Ranges[p] : r[2] = i})
    BY DEF TickLiquidity
  <2>2. /\ LiquidityOf(p, {r \in Ranges[p] : r[1] = i}) = 0
        /\ LiquidityOf(p, {r \in Ranges[p] : r[2] = i}) = 0
    BY <1>1
  <2>3. tick[p][i] = Null
    BY DEF Init
  <2>4. QED BY <2>2, <2>3 DEF Count
<1>3. NetLiquidity
  <2>1. SUFFICES ASSUME NEW p \in Pools, NEW t \in Int
                 PROVE  ActiveLiquidity(p, t)
                          = SumOf(tick[p], Kept(tick[p]) \cap TicksUpTo(t), "liquidityNet")
    BY DEF NetLiquidity
  <2>2. ActiveLiquidity(p, t) = 0
    BY <1>1 DEF ActiveLiquidity
  <2>3. Kept(tick[p]) \cap TicksUpTo(t) = {}
    BY DEF Kept, Init
  <2>4. SumOf(tick[p], Kept(tick[p]) \cap TicksUpTo(t), "liquidityNet") = SumOf(tick[p], {}, "liquidityNet")
    BY <2>3, Zenon
  <2>5. QED BY <2>2, <2>4, SumOfNone
<1>4. Created = {}
  BY DEF Init, Created
<1>5. QED BY <1>2, <1>3, <1>4 DEF LiquidityInv

LEMMA LiquidityFollows ==
  ASSUME Basics, LiquidityInv
  PROVE  LiquidityAgrees
<1>1. SUFFICES ASSUME NEW p \in Created
      PROVE  /\ \A i \in Kept(tick[p]) :
                  LET lower == LiquidityOf(p, {r \in Ranges[p] : r[1] = i})
                      upper == LiquidityOf(p, {r \in Ranges[p] : r[2] = i})
                  IN tick[p][i] = [liquidityGross |-> lower + upper, liquidityNet |-> lower - upper]
             /\ pool[p].tick = Null => pool[p].liquidity = 0
             /\ pool[p].tick # Null =>
                  /\ pool[p].tick = chain[p].tick
                  /\ pool[p].liquidity = ActiveLiquidity(p, pool[p].tick)
                  /\ pool[p].liquidity
                       = SumOf(tick[p], {i \in Kept(tick[p]) : i <= pool[p].tick}, "liquidityNet")
  BY DEF LiquidityAgrees
<1>2. /\ p \in Pools /\ tick[p] \in [TicksOf(p) -> TickRows \cup {Null}] /\ pool[p] \in PoolRows
      /\ PoolLiquidity(p)
  BY RowsRead DEF Basics, TypeInv, LiquidityInv
<1>3. ASSUME NEW i \in Kept(tick[p])
      PROVE  LET lower == LiquidityOf(p, {r \in Ranges[p] : r[1] = i})
                 upper == LiquidityOf(p, {r \in Ranges[p] : r[2] = i})
             IN tick[p][i] = [liquidityGross |-> lower + upper, liquidityNet |-> lower - upper]
  <2> DEFINE lower == LiquidityOf(p, {r \in Ranges[p] : r[1] = i})
             upper == LiquidityOf(p, {r \in Ranges[p] : r[2] = i})
  <2>1. i \in TicksOf(p) /\ tick[p][i] \in TickRows /\ tick[p][i] # Null
    BY <1>2 DEF Kept
  <2>2. /\ Count(tick[p][i], "liquidityGross") = lower + upper
        /\ Count(tick[p][i], "liquidityNet") = lower - upper
    BY <1>2, <2>1 DEF LiquidityInv, TickLiquidity
  <2> HIDE DEF lower, upper
  <2>3. tick[p][i].liquidityGross = lower + upper /\ tick[p][i].liquidityNet = lower - upper
    BY <2>1, <2>2 DEF Count
  <2>4. tick[p][i] = [liquidityGross |-> lower + upper, liquidityNet |-> lower - upper]
    BY <2>1, <2>3 DEF TickRows
  <2>5. QED BY <2>4 DEF lower, upper
<1>4. ASSUME pool[p].tick # Null
      PROVE  pool[p].liquidity
               = SumOf(tick[p], {i \in Kept(tick[p]) : i <= pool[p].tick}, "liquidityNet")
  <2>1. PICK t \in Int : t = pool[p].tick
    BY <1>2, <1>4 DEF PoolRows
  <2>2. ActiveLiquidity(p, t) = SumOf(tick[p], Kept(tick[p]) \cap TicksUpTo(t), "liquidityNet")
    BY <1>2 DEF LiquidityInv, NetLiquidity
  <2>3. Kept(tick[p]) \subseteq Int
    BY <1>2, TicksAre DEF Kept
  <2>4. Kept(tick[p]) \cap TicksUpTo(t) = {i \in Kept(tick[p]) : i <= t}
    BY <2>3 DEF TicksUpTo
  <2>5. SumOf(tick[p], Kept(tick[p]) \cap TicksUpTo(t), "liquidityNet")
          = SumOf(tick[p], {i \in Kept(tick[p]) : i <= t}, "liquidityNet")
    BY <2>4, Zenon
  <2>6. pool[p].liquidity = ActiveLiquidity(p, t)
    BY <1>2, <1>4, <2>1 DEF PoolLiquidity
  <2>7. pool[p].liquidity = SumOf(tick[p], {i \in Kept(tick[p]) : i <= t}, "liquidityNet")
    BY <2>2, <2>5, <2>6, Zenon
  <2>8. QED BY <2>1, <2>7, Zenon
<1>5. QED BY <1>2, <1>3, <1>4 DEF PoolLiquidity

LEMMA LiquidityInvHolds == Spec => []LiquidityInv
<1>1. Init => Basics /\ LiquidityInv
  BY Starts, LiquidityStarts
<1>2. Basics /\ LiquidityInv /\ [Next]_vars => Basics' /\ LiquidityInv'
  <2>1. SUFFICES ASSUME Basics, LiquidityInv, [Next]_vars
                 PROVE  Basics' /\ LiquidityInv'
    OBVIOUS
  <2>2. CASE Next
    BY <2>1, <2>2, Steps, LiquidityKept
  <2>3. CASE UNCHANGED vars
    <3>1. UNCHANGED <<chain, pool, tick>>
      BY <2>3 DEF vars
    <3>2. \A q \in Pools : \A S : LiquidityOf(q, S)' = LiquidityOf(q, S)
      BY <3>1 DEF LiquidityOf
    <3>3. TickLiquidity'
      BY <2>1, <3>1, <3>2 DEF LiquidityInv, TickLiquidity, Count
    <3>4. NetLiquidity'
      BY <2>1, <3>1, <3>2 DEF LiquidityInv, NetLiquidity, ActiveLiquidity, Kept, TicksUpTo
    <3>5. \A q \in Created' : PoolLiquidity(q)'
      BY <2>1, <3>1 DEF LiquidityInv, PoolLiquidity, ActiveLiquidity, LiquidityOf, Created
    <3>6. LiquidityInv'
      BY <3>3, <3>4, <3>5 DEF LiquidityInv
    <3>7. QED BY <2>1, <2>3, <3>6, Unchanged
  <2>4. QED BY <2>1, <2>2, <2>3
<1>3. QED BY <1>1, <1>2, PTL DEF Spec

\* Ticks add up to the positions of the pool contract, and the liquidity of a pool that has
\* had a swap to the ticks up to its price, after every handler.
THEOREM LiquidityAlwaysAgrees == Spec => []LiquidityAgrees
<1>1. Basics /\ LiquidityInv => LiquidityAgrees
  BY LiquidityFollows
<1>2. QED BY <1>1, BasicsHold, LiquidityInvHolds, PTL

-----------------------------------------------------------------------------
(* Types, with the signs that follow from the totals. *)

LEMMA TypesFollow ==
  ASSUME Basics, TotalsAgree, LiquidityInv
  PROVE  TypeOK
<1>1. ASSUME NEW p \in Created
      PROVE  /\ p \in Pools /\ pool[p].tick \in PoolTicks[p] \cup {Null} /\ pool[p].liquidity \in Nat
             /\ pool[p].totalValueLockedToken0 \in Nat /\ pool[p].totalValueLockedToken1 \in Nat
  <2>1. p \in Pools /\ chain[p] \in Contract(p) /\ pool[p].tick \in PoolTicks[p] \cup {Null}
    BY DEF Created, Basics, TypeInv
  <2>2. factory # Null
    BY DEF Basics, Registered
  <2>3. /\ pool[p].totalValueLockedToken0 = chain[p].reserve0
        /\ pool[p].totalValueLockedToken1 = chain[p].reserve1
    BY <2>2 DEF TotalsAgree
  <2>4. pool[p].liquidity \in Nat
    <3>1. PoolLiquidity(p)
      BY DEF LiquidityInv
    <3>2. \A t : ActiveLiquidity(p, t) \in Nat
      BY <2>1, LiquidityInt DEF ActiveLiquidity, Basics
    <3>3. QED BY <3>1, <3>2 DEF PoolLiquidity
  <2>5. QED BY <2>1, <2>3, <2>4 DEF Contract
<1>2. ASSUME NEW t \in Kept(token)
      PROVE  token[t].totalValueLocked \in Nat
  <2>1. factory # Null
    BY DEF Basics, Registered
  <2>2. IsFiniteSet(CreatedWith0(t)) /\ IsFiniteSet(CreatedWith1(t))
    <3>1. CreatedWith0(t) \subseteq Created /\ CreatedWith1(t) \subseteq Created
      BY DEF CreatedWith0, CreatedWith1
    <3>2. QED BY <3>1, CreatedFinite
  <2>3. /\ \A p \in CreatedWith0(t) : pool[p]["totalValueLockedToken0"] \in Nat
        /\ \A p \in CreatedWith1(t) : pool[p]["totalValueLockedToken1"] \in Nat
    BY <1>1 DEF CreatedWith0, CreatedWith1
  <2>4. /\ SumOf(pool, CreatedWith0(t), "totalValueLockedToken0") \in Nat
        /\ SumOf(pool, CreatedWith1(t), "totalValueLockedToken1") \in Nat
    BY <2>2, <2>3, SumOfNat
  <2>5. QED BY <2>1, <2>4 DEF TotalsAgree
<1>3. ASSUME NEW p \in Pools, NEW i \in Kept(tick[p])
      PROVE  tick[p][i].liquidityGross \in Nat
  <2>1. i \in TicksOf(p) /\ tick[p][i] # Null
    BY DEF Kept, Basics, TypeInv
  <2>2. PICK lower \in SUBSET Ranges[p], upper \in SUBSET Ranges[p] :
          Count(tick[p][i], "liquidityGross") = LiquidityOf(p, lower) + LiquidityOf(p, upper)
    <3>1. /\ {r \in Ranges[p] : r[1] = i} \in SUBSET Ranges[p]
          /\ {r \in Ranges[p] : r[2] = i} \in SUBSET Ranges[p]
      OBVIOUS
    <3>2. QED BY <2>1, <3>1 DEF LiquidityInv, TickLiquidity
  <2>3. LiquidityOf(p, lower) \in Nat /\ LiquidityOf(p, upper) \in Nat
    BY LiquidityInt DEF Basics
  <2>4. QED BY <2>1, <2>2, <2>3 DEF Count
<1>4. factory # Null => factory.poolCount = Cardinality(Created)
  BY DEF Basics, Registered
<1>5. QED BY <1>1, <1>2, <1>3, <1>4 DEF TypeOK, Basics, TypeInv

\* Rows have the types of their columns, after every handler, and what a pool or a token has
\* locked and the liquidity of pools and ticks are never negative.
THEOREM TypesHold == Spec => []TypeOK
<1>1. Basics /\ TotalsAgree /\ LiquidityInv => TypeOK
  BY TypesFollow
<1>2. QED BY <1>1, BasicsHold, TotalsAlwaysAgree, LiquidityInvHolds, PTL

-----------------------------------------------------------------------------
(* Days and hours: open, high, low, close. *)

\* The row of a day, from the rows of its hours.
Spanned(day, rows, hours) ==
  /\ day = Null => hours = {}
  /\ day # Null =>
       /\ \E h \in hours : (\A g \in hours : h <= g) /\ rows[h].open = day.open
       /\ \E h \in hours : rows[h].high = day.high
       /\ \E h \in hours : rows[h].low = day.low
       /\ \A h \in hours : rows[h].high <= day.high /\ day.low <= rows[h].low

Closed(day, rows, hours) ==
  day # Null => \E h \in hours : (\A g \in hours : g <= h) /\ rows[h].close = day.close

\* There are no hours to come.
Spans(days, rows, now) ==
  /\ \A h \in Kept(rows) : h <= now
  /\ \A d \in Days : Spanned(days[d], rows, HoursOf(rows, d))

Closes(days, rows) == \A d \in Days : Closed(days[d], rows, HoursOf(rows, d))

Priced(rows) ==
  \A k \in Kept(rows) : rows[k].high \in Int /\ rows[k].low \in Int

\* One price is added to the hour and to its day.
BothExtended(days, newDays, rows, newRows, h, price) ==
  /\ OnlyAt(newDays, days, DayOf(h)) /\ OnlyAt(newRows, rows, h)
  /\ Extended(newDays[DayOf(h)], days[DayOf(h)], price)
  /\ Extended(newRows[h], rows[h], price)
  /\ newDays[DayOf(h)] # Null /\ newRows[h] # Null

LEMMA HoursOfExtended ==
  ASSUME NEW h \in Hours, NEW rows, DOMAIN rows = Hours, NEW newRows,
         OnlyAt(newRows, rows, h), newRows[h] # Null
  PROVE  /\ Kept(newRows) = Kept(rows) \cup {h}
         /\ HoursOf(newRows, DayOf(h)) = HoursOf(rows, DayOf(h)) \cup {h}
         /\ \A d : d # DayOf(h) => HoursOf(newRows, d) = HoursOf(rows, d)
         /\ \A g \in Kept(rows) \ {h} : newRows[g] = rows[g]
<1>1. DOMAIN newRows = Hours /\ \A g \in Hours \ {h} : newRows[g] = rows[g]
  BY DEF OnlyAt
<1>2. Kept(newRows) = Kept(rows) \cup {h}
  BY <1>1 DEF Kept
<1>3. \A g \in Kept(rows) \ {h} : newRows[g] = rows[g]
  BY <1>1 DEF Kept
<1>4. \A d : HoursOf(newRows, d) = {g \in Kept(rows) \cup {h} : DayOf(g) = d}
  BY <1>2 DEF HoursOf
<1>5. \A d : HoursOf(rows, d) = {g \in Kept(rows) : DayOf(g) = d}
  BY DEF HoursOf
<1>6. QED BY <1>2, <1>3, <1>4, <1>5

LEMMA SpannedExtended ==
  ASSUME NEW h \in Int, NEW hours \in SUBSET Int, NEW more, more = hours \cup {h},
         \A g \in hours : g <= h,
         NEW rows, NEW newRows, \A g \in hours \ {h} : newRows[g] = rows[g],
         rows[h] # Null <=> h \in hours,
         \A g \in hours : rows[g].high \in Int /\ rows[g].low \in Int,
         NEW day, day # Null => day.high \in Int /\ day.low \in Int,
         NEW newDay, newDay # Null, NEW price \in Int,
         Extended(newDay, day, price), Extended(newRows[h], rows[h], price),
         Spanned(day, rows, hours)
  PROVE  Spanned(newDay, newRows, more)
<1> DEFINE row == rows[h]
           newRow == newRows[h]
<1>0. /\ newRow.open = IF row = Null THEN price ELSE row.open
      /\ newRow.high = IF row = Null THEN price ELSE IF row.high >= price THEN row.high ELSE price
      /\ newRow.low = IF row = Null THEN price ELSE IF row.low <= price THEN row.low ELSE price
      /\ newDay.open = IF day = Null THEN price ELSE day.open
      /\ newDay.high = IF day = Null THEN price ELSE IF day.high >= price THEN day.high ELSE price
      /\ newDay.low = IF day = Null THEN price ELSE IF day.low <= price THEN day.low ELSE price
  BY DEF Extended
<1>1. CASE day = Null
  <2>1. hours = {} /\ row = Null /\ more = {h}
    BY <1>1 DEF Spanned
  <2> HIDE DEF row, newRow
  <2>2. newRow.open = newDay.open /\ newRow.high = newDay.high /\ newRow.low = newDay.low
        /\ newRow.high = price /\ newRow.low = price
    BY <1>0, <1>1, <2>1
  <2>3. h <= h /\ price <= price
    OBVIOUS
  <2>4. QED BY <2>1, <2>2, <2>3 DEF Spanned, newRow
<1>2. CASE day # Null
  <2>1. /\ day.high \in Int /\ day.low \in Int
        /\ \A g \in hours : /\ g \in Int /\ rows[g].high \in Int /\ rows[g].low \in Int
                            /\ rows[g].high <= day.high /\ day.low <= rows[g].low
    BY <1>2 DEF Spanned
  <2>2. row # Null => h \in hours /\ row.high \in Int /\ row.low \in Int
                      /\ row.high <= day.high /\ day.low <= row.low
    BY <2>1
  <2>3. \A g \in hours : g # h => newRows[g] = rows[g]
    OBVIOUS
  <2>4. \E f \in more : (\A g \in more : f <= g) /\ newRows[f].open = newDay.open
    <3>1. PICK f \in hours : (\A g \in hours : f <= g) /\ rows[f].open = day.open
      BY <1>2 DEF Spanned
    <3>2. f <= h /\ \A g \in more : f <= g
      BY <3>1
    <3>3. CASE f = h
      <4>1. row # Null
        BY <3>3
      <4>2. newRow.open = row.open /\ row.open = day.open /\ newDay.open = day.open
        BY <1>0, <1>2, <3>1, <3>3, <4>1
      <4>3. QED BY <3>2, <3>3, <4>2
    <3>4. CASE f # h
      BY <1>0, <1>2, <2>3, <3>1, <3>2, <3>4
    <3>5. QED BY <3>3, <3>4
  <2>5. \E f \in more : newRows[f].high = newDay.high
    <3>1. PICK f \in hours : rows[f].high = day.high
      BY <1>2 DEF Spanned
    <3>2. CASE day.high >= price /\ f # h
      BY <1>0, <1>2, <2>3, <3>1, <3>2
    <3>3. CASE day.high >= price /\ f = h
      <4>1. row # Null /\ row.high = day.high
        BY <3>1, <3>3
      <4>2. newRow.high = newDay.high
        BY <1>0, <1>2, <3>3, <4>1
      <4>3. QED BY <4>2
    <3>4. CASE ~(day.high >= price)
      <4>1. newDay.high = price
        BY <1>0, <1>2, <3>4
      <4>2. newRow.high = price
        <5> HIDE DEF row, newRow
        <5>1. QED BY <1>0, <2>1, <2>2, <3>4
      <4>3. QED BY <4>1, <4>2
    <3>5. QED BY <3>2, <3>3, <3>4
  <2>6. \E f \in more : newRows[f].low = newDay.low
    <3>1. PICK f \in hours : rows[f].low = day.low
      BY <1>2 DEF Spanned
    <3>2. CASE day.low <= price /\ f # h
      BY <1>0, <1>2, <2>3, <3>1, <3>2
    <3>3. CASE day.low <= price /\ f = h
      <4>1. row # Null /\ row.low = day.low
        BY <3>1, <3>3
      <4>2. newRow.low = newDay.low
        BY <1>0, <1>2, <3>3, <4>1
      <4>3. QED BY <4>2
    <3>4. CASE ~(day.low <= price)
      <4>1. newDay.low = price
        BY <1>0, <1>2, <3>4
      <4>2. newRow.low = price
        <5> HIDE DEF row, newRow
        <5>1. QED BY <1>0, <2>1, <2>2, <3>4
      <4>3. QED BY <4>1, <4>2
    <3>5. QED BY <3>2, <3>3, <3>4
  <2>7. \A g \in more : newRows[g].high <= newDay.high /\ newDay.low <= newRows[g].low
    <3>1. newRow.high <= newDay.high /\ newDay.low <= newRow.low
      <4> HIDE DEF row, newRow
      <4>1. QED BY <1>0, <1>2, <2>1, <2>2
    <3>2. \A g \in hours : g # h => newRows[g].high <= newDay.high /\ newDay.low <= newRows[g].low
      <4>1. SUFFICES ASSUME NEW g \in hours, g # h
                     PROVE  newRows[g].high <= newDay.high /\ newDay.low <= newRows[g].low
        OBVIOUS
      <4>2. newRows[g] = rows[g]
        BY <2>3, <4>1
      <4>3. /\ rows[g].high <= newDay.high /\ newDay.low <= rows[g].low
        <5>1. PICK x \in Int, y \in Int : x = rows[g].high /\ y = rows[g].low
          BY <2>1
        <5>2. x <= day.high /\ day.low <= y
          BY <2>1, <5>1
        <5>3. QED BY <1>0, <1>2, <2>1, <5>1, <5>2
      <4>4. QED BY <4>2, <4>3
    <3>3. QED BY <3>1, <3>2
  <2>8. QED BY <2>4, <2>5, <2>6, <2>7 DEF Spanned
<1>3. QED BY <1>1, <1>2

LEMMA SpansExtended ==
  ASSUME NEW h \in Hours, NEW days, DOMAIN days = Days, NEW rows, DOMAIN rows = Hours,
         Priced(days), Priced(rows), NEW newDays, NEW newRows, NEW price \in Int,
         BothExtended(days, newDays, rows, newRows, h, price), Spans(days, rows, h)
  PROVE  Spans(newDays, newRows, h)
<1>1. /\ OnlyAt(newRows, rows, h) /\ newRows[h] # Null /\ newDays[DayOf(h)] # Null
      /\ OnlyAt(newDays, days, DayOf(h)) /\ DayOf(h) \in Days
      /\ Extended(newDays[DayOf(h)], days[DayOf(h)], price)
      /\ Extended(newRows[h], rows[h], price)
  BY DEF BothExtended, Days
<1>2. /\ Kept(newRows) = Kept(rows) \cup {h}
      /\ HoursOf(newRows, DayOf(h)) = HoursOf(rows, DayOf(h)) \cup {h}
      /\ \A d : d # DayOf(h) => HoursOf(newRows, d) = HoursOf(rows, d)
      /\ \A g \in Kept(rows) \ {h} : newRows[g] = rows[g]
  BY <1>1, HoursOfExtended
<1>3. h \in Int /\ Hours \subseteq Int
  BY DaysOfHours
<1>4. \A g \in Kept(newRows) : g <= h
  BY <1>2, <1>3 DEF Spans
<1>5. ASSUME NEW d \in Days, d # DayOf(h)
      PROVE  Spanned(newDays[d], newRows, HoursOf(newRows, d))
  <2>1. newDays[d] = days[d] /\ HoursOf(newRows, d) = HoursOf(rows, d)
    BY <1>1, <1>2, <1>5 DEF OnlyAt
  <2>2. \A g \in HoursOf(rows, d) : newRows[g] = rows[g]
    BY <1>2, <1>5 DEF HoursOf
  <2>3. Spanned(days[d], rows, HoursOf(rows, d))
    BY DEF Spans
  <2>4. PICK hours : hours = HoursOf(rows, d)
    OBVIOUS
  <2>5. Spanned(newDays[d], newRows, hours)
    BY <2>1, <2>2, <2>3, <2>4 DEF Spanned
  <2>6. QED BY <2>1, <2>4, <2>5
<1>6. Spanned(newDays[DayOf(h)], newRows, HoursOf(newRows, DayOf(h)))
  <2>1. PICK hours, more : hours = HoursOf(rows, DayOf(h)) /\ more = HoursOf(newRows, DayOf(h))
    OBVIOUS
  <2>2. /\ hours \in SUBSET Int /\ more = hours \cup {h} /\ \A g \in hours : g <= h
        /\ \A g \in hours \ {h} : newRows[g] = rows[g]
        /\ \A g \in hours : rows[g].high \in Int /\ rows[g].low \in Int
        /\ rows[h] # Null <=> h \in hours
    BY <1>2, <1>3, <2>1 DEF HoursOf, Kept, Priced, Spans
  <2>3. /\ Spanned(days[DayOf(h)], rows, hours)
        /\ days[DayOf(h)] # Null => days[DayOf(h)].high \in Int /\ days[DayOf(h)].low \in Int
    BY <1>1, <2>1 DEF Spans, Priced, Kept
  <2>4. PICK day, newDay : day = days[DayOf(h)] /\ newDay = newDays[DayOf(h)]
    OBVIOUS
  <2>5. /\ newDay # Null /\ Extended(newDay, day, price) /\ Spanned(day, rows, hours)
        /\ day # Null => day.high \in Int /\ day.low \in Int
        /\ Extended(newRows[h], rows[h], price) /\ price \in Int
    BY <1>1, <2>3, <2>4
  <2>6. Spanned(newDay, newRows, more)
    BY ONLY <1>3, <2>2, <2>5, SpannedExtended
  <2>7. QED BY <2>1, <2>4, <2>6
<1>7. QED BY <1>4, <1>5, <1>6 DEF Spans

\* The last hour and its day close with the price.
LEMMA ClosesExtended ==
  ASSUME NEW h \in Hours, NEW days, DOMAIN days = Days, NEW rows, DOMAIN rows = Hours,
         NEW newDays, NEW newRows, NEW price,
         BothExtended(days, newDays, rows, newRows, h, price), Spans(days, rows, h),
         newDays[DayOf(h)].close = price, newRows[h].close = price, Closes(days, rows)
  PROVE  Closes(newDays, newRows)
<1>1. /\ OnlyAt(newRows, rows, h) /\ newRows[h] # Null /\ OnlyAt(newDays, days, DayOf(h))
  BY DEF BothExtended
<1>2. /\ HoursOf(newRows, DayOf(h)) = HoursOf(rows, DayOf(h)) \cup {h}
      /\ \A d : d # DayOf(h) => HoursOf(newRows, d) = HoursOf(rows, d)
      /\ \A g \in Kept(rows) \ {h} : newRows[g] = rows[g]
  BY <1>1, HoursOfExtended
<1>3. ASSUME NEW d \in Days, d # DayOf(h)
      PROVE  Closed(newDays[d], newRows, HoursOf(newRows, d))
  <2>1. newDays[d] = days[d] /\ HoursOf(newRows, d) = HoursOf(rows, d)
    BY <1>1, <1>2, <1>3 DEF OnlyAt
  <2>2. \A g \in HoursOf(rows, d) : newRows[g] = rows[g]
    BY <1>2, <1>3 DEF HoursOf
  <2>3. Closed(days[d], rows, HoursOf(rows, d))
    BY DEF Closes
  <2>4. PICK hours : hours = HoursOf(rows, d)
    OBVIOUS
  <2>5. Closed(newDays[d], newRows, hours)
    BY <2>1, <2>2, <2>3, <2>4 DEF Closed
  <2>6. QED BY <2>1, <2>4, <2>5
<1>4. Closed(newDays[DayOf(h)], newRows, HoursOf(newRows, DayOf(h)))
  <2>1. h \in HoursOf(newRows, DayOf(h)) /\ h <= h
    BY <1>2, DaysOfHours
  <2>2. \A g \in HoursOf(newRows, DayOf(h)) : g <= h
    BY <1>2, <2>1 DEF HoursOf, Spans
  <2>3. QED BY <2>1, <2>2 DEF Closed
<1>5. QED BY <1>3, <1>4 DEF Closes

PoolDays == \A p \in Pools : Spans(poolDayData[p], poolHourData[p], hour)

TokenDays == \A t \in Tokens : /\ Spans(tokenDayData[t], tokenHourData[t], hour)
                               /\ Closes(tokenDayData[t], tokenHourData[t])

Within(row, price) == row # Null => row.low <= price /\ price <= row.high
PriceToday == \A p \in Created : Within(poolDayData[p][today], pool[p].token0Price)

DaysInv == PoolDays /\ TokenDays /\ PriceToday /\ HourSums("txCount")

LEMMA IntervalsPriced ==
  ASSUME Basics
  PROVE  /\ today \in Days /\ hour \in Hours /\ today = DayOf(hour)
         /\ \A p \in Pools : /\ DOMAIN poolDayData[p] = Days /\ DOMAIN poolHourData[p] = Hours
                             /\ Priced(poolDayData[p]) /\ Priced(poolHourData[p])
         /\ \A t \in Tokens : /\ DOMAIN tokenDayData[t] = Days /\ DOMAIN tokenHourData[t] = Hours
                              /\ Priced(tokenDayData[t]) /\ Priced(tokenHourData[t])
         /\ DOMAIN poolDayData = Pools /\ DOMAIN poolHourData = Pools
<1>1. \A row \in PoolIntervalRows \cup TokenDayRows \cup TokenHourRows : row.high \in Int /\ row.low \in Int
  BY DEF PoolIntervalRows, TokenDayRows, TokenHourRows
<1>2. ASSUME NEW p \in Pools
      PROVE  /\ DOMAIN poolDayData[p] = Days /\ DOMAIN poolHourData[p] = Hours
             /\ Priced(poolDayData[p]) /\ Priced(poolHourData[p])
  <2>1. /\ poolDayData[p] \in [Days -> PoolIntervalRows \cup {Null}]
        /\ poolHourData[p] \in [Hours -> PoolIntervalRows \cup {Null}]
    BY DEF Basics, TypeInv
  <2>2. QED BY <1>1, <2>1 DEF Priced, Kept
<1>3. ASSUME NEW t \in Tokens
      PROVE  /\ DOMAIN tokenDayData[t] = Days /\ DOMAIN tokenHourData[t] = Hours
             /\ Priced(tokenDayData[t]) /\ Priced(tokenHourData[t])
  <2>1. /\ tokenDayData[t] \in [Days -> TokenDayRows \cup {Null}]
        /\ tokenHourData[t] \in [Hours -> TokenHourRows \cup {Null}]
    BY DEF Basics, TypeInv
  <2>2. QED BY <1>1, <2>1 DEF Priced, Kept
<1>4. /\ today \in Days /\ hour \in Hours /\ today = DayOf(hour)
      /\ DOMAIN poolDayData = Pools /\ DOMAIN poolHourData = Pools
  BY DEF Basics, TypeInv, today, Days
<1>5. QED BY <1>2, <1>3, <1>4

MadeOf(day, hours, rows) ==
  /\ hours # {}
  /\ day.open = rows[Min(hours)].open
  /\ day.high = Max({rows[h].high : h \in hours})
  /\ day.low = Min({rows[h].low : h \in hours})

LEMMA SpannedMade ==
  ASSUME NEW day, day # Null, NEW rows, NEW hours \in SUBSET Int,
         \A h \in hours : rows[h].high \in Int /\ rows[h].low \in Int,
         Spanned(day, rows, hours)
  PROVE  MadeOf(day, hours, rows)
<1>1. PICK f \in hours : (\A g \in hours : f <= g) /\ rows[f].open = day.open
  BY DEF Spanned
<1>2. Min(hours) = f
  BY <1>1, ItsMin
<1>3. day.high = Max({rows[h].high : h \in hours})
  <2>1. PICK S : S = {rows[h].high : h \in hours}
    OBVIOUS
  <2>2. S \in SUBSET Int /\ day.high \in S /\ \A x \in S : x <= day.high
    BY <2>1 DEF Spanned
  <2>3. PICK m : m = day.high
    OBVIOUS
  <2>4. Max(S) = m
    BY <2>2, <2>3, ItsMax
  <2>5. QED BY <2>1, <2>3, <2>4
<1>4. day.low = Min({rows[h].low : h \in hours})
  <2>1. PICK S : S = {rows[h].low : h \in hours}
    OBVIOUS
  <2>2. S \in SUBSET Int /\ day.low \in S /\ \A x \in S : day.low <= x
    BY <2>1 DEF Spanned
  <2>3. PICK m : m = day.low
    OBVIOUS
  <2>4. Min(S) = m
    BY <2>2, <2>3, ItsMin
  <2>5. QED BY <2>1, <2>3, <2>4
<1>5. day.open = rows[Min(hours)].open /\ hours # {}
  BY <1>1, <1>2
<1>6. QED BY ONLY <1>3, <1>4, <1>5, Zenon DEF MadeOf

LEMMA DaysFollow ==
  ASSUME Basics, DaysInv
  PROVE  DaysMadeOfHours
<1>0. ASSUME NEW days, NEW rows, DOMAIN days = Days, DOMAIN rows = Hours, Priced(rows),
             Spans(days, rows, hour), NEW d \in Kept(days)
      PROVE  MadeOf(days[d], HoursOf(rows, d), rows) /\ HoursOf(rows, d) \in SUBSET Int
  <2>1. d \in Days /\ days[d] # Null
    BY <1>0 DEF Kept
  <2>2. Spanned(days[d], rows, HoursOf(rows, d))
    BY <1>0, <2>1 DEF Spans
  <2>3. \A h \in HoursOf(rows, d) : h \in Int /\ rows[h].high \in Int /\ rows[h].low \in Int
    <3>1. \A h \in HoursOf(rows, d) : h \in Kept(rows) /\ h \in Hours
      BY <1>0 DEF HoursOf, Kept
    <3>2. \A h \in Hours : h \in Int
      BY DaysOfHours
    <3>3. \A h \in Kept(rows) : rows[h].high \in Int /\ rows[h].low \in Int
      BY <1>0 DEF Priced
    <3>4. QED BY <3>1, <3>2, <3>3
  <2>4. PICK hours : hours = HoursOf(rows, d)
    OBVIOUS
  <2>5. PICK day : day = days[d]
    OBVIOUS
  <2>6. /\ hours \in SUBSET Int /\ \A h \in hours : rows[h].high \in Int /\ rows[h].low \in Int
        /\ day # Null /\ Spanned(day, rows, hours)
    BY <2>1, <2>2, <2>3, <2>4, <2>5
  <2>7. MadeOf(day, hours, rows)
    BY ONLY <2>6, SpannedMade
  <2>8. QED BY <2>4, <2>5, <2>6, <2>7
<1>1. ASSUME NEW p \in Created, NEW d \in Kept(poolDayData[p])
      PROVE  /\ MadeOf(poolDayData[p][d], HoursOf(poolHourData[p], d), poolHourData[p])
             /\ poolDayData[p][d].txCount
                  = SumOf(poolHourData[p], HoursOf(poolHourData[p], d), "txCount")
             /\ d = today => /\ poolDayData[p][d].low <= pool[p].token0Price
                             /\ pool[p].token0Price <= poolDayData[p][d].high
  <2>1. p \in Pools /\ d \in Days /\ poolDayData[p][d] # Null
    BY IntervalsPriced DEF Created, Kept
  <2>2. Spans(poolDayData[p], poolHourData[p], hour)
    BY <2>1 DEF DaysInv, PoolDays
  <2>3. MadeOf(poolDayData[p][d], HoursOf(poolHourData[p], d), poolHourData[p])
    BY <1>0, <2>1, <2>2, IntervalsPriced
  <2>4. poolDayData[p][d].txCount = SumOf(poolHourData[p], HoursOf(poolHourData[p], d), "txCount")
    BY <2>1 DEF DaysInv, HourSums, Count
  <2>5. d = today => /\ poolDayData[p][d].low <= pool[p].token0Price
                     /\ pool[p].token0Price <= poolDayData[p][d].high
    BY <2>1 DEF DaysInv, PriceToday, Within
  <2>6. QED BY <2>3, <2>4, <2>5
<1>2. ASSUME NEW t \in Tokens, NEW d \in Kept(tokenDayData[t])
      PROVE  /\ MadeOf(tokenDayData[t][d], HoursOf(tokenHourData[t], d), tokenHourData[t])
             /\ tokenDayData[t][d].close
                  = tokenHourData[t][Max(HoursOf(tokenHourData[t], d))].close
  <2>1. d \in Days /\ tokenDayData[t][d] # Null
    BY IntervalsPriced DEF Kept
  <2>2. Spans(tokenDayData[t], tokenHourData[t], hour) /\ Closes(tokenDayData[t], tokenHourData[t])
    BY DEF DaysInv, TokenDays
  <2>3. /\ MadeOf(tokenDayData[t][d], HoursOf(tokenHourData[t], d), tokenHourData[t])
        /\ HoursOf(tokenHourData[t], d) \in SUBSET Int
    BY <1>0, <2>2, IntervalsPriced
  <2>4. PICK h \in HoursOf(tokenHourData[t], d) :
          /\ \A g \in HoursOf(tokenHourData[t], d) : g <= h
          /\ tokenHourData[t][h].close = tokenDayData[t][d].close
    BY <2>1, <2>2 DEF Closes, Closed
  <2>5. Max(HoursOf(tokenHourData[t], d)) = h
    BY <2>3, <2>4, ItsMax
  <2>6. QED BY <2>3, <2>4, <2>5
<1>3. QED BY <1>1, <1>2, Zenon DEF DaysMadeOfHours, MadeOf

LEMMA TouchedWithin ==
  ASSUME NEW new, NEW old, old # Null => old.high \in Int /\ old.low \in Int, NEW price \in Int,
         Extended(new, old, price)
  PROVE  Within(new, price)
<1>1. CASE old = Null
  BY <1>1 DEF Extended, Within
<1>2. CASE old # Null
  BY <1>2 DEF Extended, Within
<1>3. QED BY <1>1, <1>2

\* A handler that prices one pool.
LEMMA PoolDaysTouched ==
  ASSUME Basics, PoolDays, PriceToday, NEW p \in Created, NEW price \in Int,
         OnlyAt(poolDayData', poolDayData, p), OnlyAt(poolHourData', poolHourData, p),
         OnlyAt(poolDayData'[p], poolDayData[p], today),
         OnlyAt(poolHourData'[p], poolHourData[p], hour),
         PoolTouched(poolDayData'[p][today], poolDayData[p][today], price),
         PoolTouched(poolHourData'[p][hour], poolHourData[p][hour], price),
         UNCHANGED hour, Created' = Created, pool'[p].token0Price = price,
         \A q \in Created \ {p} : pool'[q] = pool[q]
  PROVE  PoolDays' /\ PriceToday'
<1>0. /\ p \in Pools /\ today \in Days /\ hour \in Hours /\ today = DayOf(hour) /\ today' = today
      /\ DOMAIN poolDayData = Pools /\ DOMAIN poolHourData = Pools
      /\ DOMAIN poolDayData[p] = Days /\ DOMAIN poolHourData[p] = Hours
      /\ Priced(poolDayData[p]) /\ Priced(poolHourData[p])
  BY IntervalsPriced DEF Created, today
<1>1. \A q \in Pools \ {p} : poolDayData'[q] = poolDayData[q] /\ poolHourData'[q] = poolHourData[q]
  BY <1>0 DEF OnlyAt
<1>2. BothExtended(poolDayData[p], poolDayData'[p], poolHourData[p], poolHourData'[p], hour, price)
  BY <1>0, NullAssumption DEF BothExtended, PoolTouched
<1>3. Spans(poolDayData[p], poolHourData[p], hour)
  BY <1>0 DEF PoolDays
<1>4. Spans(poolDayData'[p], poolHourData'[p], hour)
  BY <1>0, <1>2, <1>3, SpansExtended
<1>5. ASSUME NEW q \in Pools
      PROVE  Spans(poolDayData'[q], poolHourData'[q], hour')
  <2>1. CASE q = p
    BY <1>4, <2>1
  <2>2. CASE q # p
    <3>1. Spans(poolDayData[q], poolHourData[q], hour)
      BY DEF PoolDays
    <3>2. QED BY <1>1, <2>2, <3>1
  <2>3. QED BY <2>1, <2>2
<1>6. PoolDays'
  BY <1>5 DEF PoolDays, Spans, Days, Hours, DayOf, Spanned, HoursOf, Kept
<1>7. Within(poolDayData'[p][today], price)
  <2>1. poolDayData[p][today] # Null => poolDayData[p][today].high \in Int /\ poolDayData[p][today].low \in Int
    BY <1>0 DEF Priced, Kept
  <2>2. QED BY <2>1, TouchedWithin DEF PoolTouched
<1>8. \A q \in Created \ {p} : q \in Pools /\ Within(poolDayData[q][today], pool[q].token0Price)
  BY DEF PriceToday, Created
<1>9. \A q \in Created : Within(poolDayData'[q][today], pool'[q].token0Price)
  BY <1>1, <1>7, <1>8
<1>10. PriceToday'
  BY <1>0, <1>9 DEF PriceToday, Within
<1>11. QED BY <1>6, <1>10

\* What an event does to the intervals of one of its tokens.
LEMMA TokenDaysTouched ==
  ASSUME Basics, TokenDays, NEW t \in Tokens, NEW volume, TokenIntervalsMoved(t, volume)
  PROVE  /\ Spans(tokenDayData'[t], tokenHourData'[t], hour)
         /\ Closes(tokenDayData'[t], tokenHourData'[t])
<1>1. PICK price \in Nat :
        /\ Extended(tokenDayData'[t][today], tokenDayData[t][today], price)
        /\ Extended(tokenHourData'[t][hour], tokenHourData[t][hour], price)
        /\ tokenDayData'[t][today].close = price /\ tokenHourData'[t][hour].close = price
  BY DEF TokenIntervalsMoved
<1>2. /\ OnlyAt(tokenDayData'[t], tokenDayData[t], today)
      /\ OnlyAt(tokenHourData'[t], tokenHourData[t], hour)
      /\ tokenDayData'[t][today] # Null /\ tokenHourData'[t][hour] # Null
  BY NullAssumption DEF TokenIntervalsMoved
<1>3. /\ today = DayOf(hour) /\ hour \in Hours /\ price \in Int
      /\ DOMAIN tokenDayData[t] = Days /\ DOMAIN tokenHourData[t] = Hours
      /\ Priced(tokenDayData[t]) /\ Priced(tokenHourData[t])
  BY IntervalsPriced
<1>4. BothExtended(tokenDayData[t], tokenDayData'[t], tokenHourData[t], tokenHourData'[t], hour, price)
  BY <1>1, <1>2, <1>3 DEF BothExtended
<1>5. Spans(tokenDayData[t], tokenHourData[t], hour) /\ Closes(tokenDayData[t], tokenHourData[t])
  BY DEF TokenDays
<1>6. Spans(tokenDayData'[t], tokenHourData'[t], hour)
  BY <1>3, <1>4, <1>5, SpansExtended
<1>7. tokenDayData'[t][DayOf(hour)].close = price /\ tokenHourData'[t][hour].close = price
  BY <1>1, <1>3
<1>8. Closes(tokenDayData'[t], tokenHourData'[t])
  BY <1>3, <1>4, <1>5, <1>7, ClosesExtended
<1>9. QED BY <1>6, <1>8

LEMMA DaysKept ==
  ASSUME Basics, DaysInv, Step
  PROVE  DaysInv'
<1>0. HourSums("txCount")'
  BY HourSumsKept DEF DaysInv
<1>1. PoolDays /\ TokenDays /\ PriceToday
  BY DEF DaysInv
<1>2. ASSUME UNCHANGED <<hour, tokenDayData, tokenHourData>>
      PROVE  TokenDays'
  BY <1>1, <1>2 DEF TokenDays, Spans, Closes, Spanned, Closed, HoursOf, Kept, Days, Hours, DayOf
<1>3. ASSUME UNCHANGED <<hour, poolDayData, poolHourData>>
      PROVE  PoolDays'
  BY <1>1, <1>3 DEF PoolDays, Spans, Spanned, HoursOf, Kept, Days, Hours, DayOf
<1>4. CASE NextTransaction
  <2>1. /\ UNCHANGED <<pool, poolDayData, poolHourData, tokenDayData, tokenHourData>>
        /\ hour \in Hours /\ hour' \in Hours /\ hour <= hour' /\ hour \in Int /\ hour' \in Int
    BY <1>4, Constants DEF NextTransaction, intervalVars, Basics, TypeInv, Hours
  <2>2. ASSUME NEW days, NEW rows, DOMAIN rows = Hours, Spans(days, rows, hour)
        PROVE  Spans(days, rows, hour')
    <3>0. \A h \in Kept(rows) : h \in Hours
      BY <2>2 DEF Kept
    <3>4. \A h \in Hours : h \in Int
      BY DaysOfHours
    <3>5. \A h \in Kept(rows) : h <= hour
      BY <2>2 DEF Spans
    <3>1. \A h \in Kept(rows) : h \in Int /\ h <= hour
      BY <3>0, <3>4, <3>5
    <3>2. \A h \in Kept(rows) : h <= hour'
      BY <2>1, <3>1
    <3>3. QED BY <2>2, <3>2 DEF Spans
  <2>3. PoolDays'
    <3>1. \A p \in Pools : Spans(poolDayData[p], poolHourData[p], hour')
      BY <1>1, <2>2, IntervalsPriced DEF PoolDays
    <3>2. QED BY <2>1, <3>1 DEF PoolDays, Spans, Spanned, HoursOf, Kept, Days, Hours, DayOf
  <2>4. TokenDays'
    <3>1. \A t \in Tokens : /\ Spans(tokenDayData[t], tokenHourData[t], hour')
                            /\ Closes(tokenDayData[t], tokenHourData[t])
      BY <1>1, <2>2, IntervalsPriced DEF TokenDays
    <3>2. QED BY <2>1, <3>1 DEF TokenDays, Spans, Closes, Spanned, Closed, HoursOf, Kept,
                                Days, Hours, DayOf
  <2>5. PriceToday'
    <3>1. SUFFICES ASSUME NEW p \in Created, poolDayData[p][today'] # Null
                   PROVE  Within(poolDayData[p][today'], pool[p].token0Price)
      <4>1. Created' = Created
        BY <2>1 DEF Created
      <4>2. QED BY <2>1, <4>1 DEF PriceToday, Within
    <3>2. /\ today' = DayOf(hour') /\ today = DayOf(hour) /\ today' \in Days /\ today \in Days
          /\ p \in Pools
      BY <2>1 DEF today, Days, Created
    <3>3. Spanned(poolDayData[p][today'], poolHourData[p], HoursOf(poolHourData[p], today'))
      BY <1>1, <3>2 DEF PoolDays, Spans
    <3>4. PICK h \in HoursOf(poolHourData[p], today') : TRUE
      BY <3>1, <3>3 DEF Spanned
    <3>5. h \in Hours /\ h <= hour /\ DayOf(h) = today'
      BY <1>1, <3>2, <3>4, IntervalsPriced DEF HoursOf, Kept, PoolDays, Spans
    <3>6. DayOf(h) <= DayOf(hour) /\ DayOf(hour) <= DayOf(hour')
      BY <2>1, <3>5, DaysOfHours
    <3>7. today' = today
      <4>1. today \in Int /\ today' \in Int
        BY <3>2, DaysOfHours
      <4>2. QED BY <3>2, <3>5, <3>6, <4>1
    <3>8. QED BY <1>1, <3>7 DEF PriceToday
  <2>6. QED BY <1>0, <2>3, <2>4, <2>5 DEF DaysInv
<1>5. ASSUME NEW p \in Pools, PoolAdded(p)
      PROVE  DaysInv'
  <2>1. /\ UNCHANGED <<hour, poolDayData, poolHourData, tokenDayData, tokenHourData>>
        /\ Created' = Created \cup {p} /\ \A q \in Created : pool'[q] = pool[q]
        /\ \A d \in Days : poolDayData[p][d] = Null
    BY <1>5 DEF PoolAdded, OnlyAt, environmentVars, intervalVars, Basics, TypeInv, NothingBefore, Created
  <2>2. today' = today /\ today \in Days
    BY <2>1, IntervalsPriced DEF today
  <2>3. \A q \in Created' : Within(poolDayData[q][today], pool'[q].token0Price)
    BY <1>1, <2>1, <2>2 DEF PriceToday, Within
  <2>4. PriceToday'
    BY <2>1, <2>2, <2>3 DEF PriceToday, Within
  <2>5. QED BY <1>0, <1>2, <1>3, <2>1, <2>4 DEF DaysInv
<1>6. ASSUME NEW p \in Pools, NEW t \in PoolTicks[p], PoolPriced(p, t)
      PROVE  DaysInv'
  <2>1. /\ UNCHANGED <<hour, pool, tokenDayData, tokenHourData>> /\ Created' = Created
        /\ p \in Created /\ pool[p].token0Price \in Int
    BY <1>6, RowsRead DEF PoolPriced, environmentVars, Created, PoolRows
  <2>2. PICK price \in Int : price = pool[p].token0Price
    BY <2>1
  <2>3. PoolDays' /\ PriceToday'
    BY <1>1, <1>6, <2>1, <2>2, PoolDaysTouched DEF PoolPriced
  <2>4. QED BY <1>0, <1>2, <2>1, <2>3 DEF DaysInv
<1>7. ASSUME NEW p \in Created, NEW amount0 \in Int, NEW amount1 \in Int,
             NEW volume0 \in Nat, NEW volume1 \in Nat, NEW usd \in Nat, NEW eth \in Nat,
             NEW fees \in Nat, AnyEvent(p, amount0, amount1, volume0, volume1, usd, eth, fees)
      PROVE  DaysInv'
  <2>1. /\ Event(p, amount0, amount1, volume0, volume1, usd, eth, fees)
        /\ Created' = Created
    BY <1>7, EventKeeps DEF AnyEvent
  <2>2. /\ PoolMoved(p, amount0, amount1, usd) /\ PoolIntervalsMoved(p, volume0, usd)
        /\ TokensIntervalsMoved(p, volume0, volume1) /\ UNCHANGED hour
    BY <2>1 DEF Event, environmentVars
  <2>3. pool'[p].token0Price \in Int /\ \A q \in Created \ {p} : pool'[q] = pool[q]
    BY <2>2 DEF PoolMoved, PoolRows, OnlyAt, Created, Basics, TypeInv
  <2>4. PICK price \in Int : price = pool'[p].token0Price
    BY <2>3
  <2>5. PoolDays' /\ PriceToday'
    BY <1>1, <2>1, <2>2, <2>3, <2>4, PoolDaysTouched DEF PoolIntervalsMoved
  <2>6. ASSUME NEW t \in Tokens
        PROVE  /\ Spans(tokenDayData'[t], tokenHourData'[t], hour')
               /\ Closes(tokenDayData'[t], tokenHourData'[t])
    <3>1. CASE t \in TokensOf(p)
      <4>1. \E volume : TokenIntervalsMoved(t, volume)
        BY <2>2, <3>1 DEF TokensIntervalsMoved, TokensOf
      <4>2. QED BY <1>1, <2>2, <4>1, TokenDaysTouched
    <3>2. CASE t \notin TokensOf(p)
      <4>1. tokenDayData'[t] = tokenDayData[t] /\ tokenHourData'[t] = tokenHourData[t]
        BY <2>2, <3>2 DEF TokensIntervalsMoved
      <4>2. Spans(tokenDayData[t], tokenHourData[t], hour) /\ Closes(tokenDayData[t], tokenHourData[t])
        BY <1>1 DEF TokenDays
      <4>3. QED BY <2>2, <4>1, <4>2
    <3>3. QED BY <3>1, <3>2
  <2>7. TokenDays'
    BY <2>6 DEF TokenDays, Spans, Closes, Spanned, Closed, HoursOf, Kept, Days, Hours, DayOf
  <2>8. QED BY <1>0, <2>5, <2>7 DEF DaysInv
<1>8. QED BY <1>4, <1>5, <1>6, <1>7, StepKinds

LEMMA DaysStart ==
  ASSUME Init, Basics
  PROVE  DaysInv
<1>1. Created = {}
  BY DEF Init, Created
<1>2. /\ \A p \in Pools : Kept(poolDayData[p]) = {} /\ Kept(poolHourData[p]) = {}
      /\ \A t \in Tokens : Kept(tokenDayData[t]) = {} /\ Kept(tokenHourData[t]) = {}
  BY DEF Init, Kept
<1>3. /\ \A p \in Pools : \A d \in Days : poolDayData[p][d] = Null
      /\ \A t \in Tokens : \A d \in Days : tokenDayData[t][d] = Null
  BY DEF Init
<1>4. PoolDays
  BY <1>2, <1>3 DEF PoolDays, Spans, Spanned, HoursOf
<1>5. TokenDays
  BY <1>2, <1>3 DEF TokenDays, Spans, Closes, Spanned, Closed, HoursOf
<1>6. PriceToday
  BY <1>1 DEF PriceToday
<1>7. HourSums("txCount")
  <2>1. SUFFICES ASSUME NEW p \in Pools, NEW d \in Days
                 PROVE  Count(poolDayData[p][d], "txCount")
                          = SumOf(poolHourData[p], HoursOf(poolHourData[p], d), "txCount")
    BY DEF HourSums
  <2>2. HoursOf(poolHourData[p], d) = {}
    BY <1>2 DEF HoursOf
  <2>3. SumOf(poolHourData[p], HoursOf(poolHourData[p], d), "txCount")
          = SumOf(poolHourData[p], {}, "txCount")
    BY <2>2, Zenon
  <2>4. Count(poolDayData[p][d], "txCount") = 0
    BY <1>3 DEF Count
  <2>5. QED BY <2>3, <2>4, SumOfNone
<1>8. QED BY <1>4, <1>5, <1>6, <1>7 DEF DaysInv

\* A day of a pool or a token opens with its first hour, spans its hours and counts their
\* transactions, a token's day closes with its last hour, and the price of a pool is between
\* the day's low and high, after every handler.
THEOREM DaysAlwaysMadeOfHours == Spec => []DaysMadeOfHours
<1>1. Init => Basics /\ DaysInv
  BY Starts, DaysStart
<1>2. Basics /\ DaysInv /\ [Next]_vars => Basics' /\ DaysInv'
  <2>1. SUFFICES ASSUME Basics, DaysInv, [Next]_vars
                 PROVE  Basics' /\ DaysInv'
    OBVIOUS
  <2>2. CASE Next
    BY <2>1, <2>2, Steps, DaysKept
  <2>3. CASE UNCHANGED vars
    <3>1. UNCHANGED <<pool, hour, poolDayData, poolHourData, tokenDayData, tokenHourData>>
      BY <2>3 DEF vars, environmentVars, intervalVars
    <3>2. PoolDays'
      BY <2>1, <3>1 DEF DaysInv, PoolDays, Spans, Spanned, HoursOf, Kept, Days, Hours, DayOf
    <3>3. TokenDays'
      BY <2>1, <3>1 DEF DaysInv, TokenDays, Spans, Closes, Spanned, Closed, HoursOf, Kept, Days,
                        Hours, DayOf
    <3>4. PriceToday'
      BY <2>1, <3>1 DEF DaysInv, PriceToday, Within, Created, today
    <3>5. HourSums("txCount")'
      BY <2>1, <3>1 DEF DaysInv, HourSums, HoursOf, Kept, DayOf, Days, Hours
    <3>6. QED BY <2>1, <2>3, <3>2, <3>3, <3>4, <3>5, Unchanged DEF DaysInv
  <2>4. QED BY <2>1, <2>2, <2>3
<1>3. Basics /\ DaysInv => DaysMadeOfHours
  BY DaysFollow
<1>4. QED BY <1>1, <1>2, <1>3, PTL DEF Spec

-----------------------------------------------------------------------------
(* The entities of a pool. *)

EntitiesOf(p) == {e \in entities : e.pool = p}
Of(p, kind) == {e \in entities : e.pool = p /\ e.kind = kind}
SwapsOf(p, d) == {e \in Of(p, "swap") : DayOf(transactions[e.transaction].timestamp) = d}
Total(S, c) == SumFunction([e \in S |-> e[c]])

\* Entities are of pools that exist, and their transactions are saved, the last one in this hour.
EntityBasics ==
  /\ IsFiniteSet(entities)
  /\ \A e \in entities :
       /\ e.pool \in Created /\ e.kind \in {"mint", "burn", "swap"}
       /\ e.amount0 \in Int /\ e.amount1 \in Int
       /\ e.kind = "swap" => e.amountUSD \in Int
       /\ e.transaction \in 0..transaction /\ transactions[e.transaction] # Null
  /\ \A n \in 0..MaxTransactions : n > transaction => transactions[n] = Null
  /\ transactions[transaction] # Null => transactions[transaction].timestamp = hour

Balanced(p) ==
  /\ Total(Of(p, "mint"), "amount0") - Total(Of(p, "burn"), "amount0") + Total(Of(p, "swap"), "amount0")
       = pool[p].totalValueLockedToken0
  /\ Total(Of(p, "mint"), "amount1") - Total(Of(p, "burn"), "amount1") + Total(Of(p, "swap"), "amount1")
       = pool[p].totalValueLockedToken1
  /\ \A d \in Days : Count(poolDayData[p][d], "volumeUSD") = Total(SwapsOf(p, d), "amountUSD")

\* A pool never has more entities than events, and its totals are theirs unless it has less.
Accounted(p) ==
  /\ Cardinality(EntitiesOf(p)) <= pool[p].txCount
  /\ Cardinality(EntitiesOf(p)) = pool[p].txCount => Balanced(p)

EntitiesInv == EntityBasics /\ \A p \in Created : Accounted(p)

LEMMA EntitiesFollow ==
  ASSUME Basics, EntitiesInv
  PROVE  EntitiesAccountForPool
<1>1. ASSUME NEW p \in Created
      PROVE  UNION {Of(p, kind) : kind \in {"mint", "burn", "swap"}} = EntitiesOf(p)
  BY DEF EntitiesInv, EntityBasics, Of, EntitiesOf
<1>2. ASSUME NEW p \in Created,
             Cardinality(UNION {Of(p, kind) : kind \in {"mint", "burn", "swap"}}) = pool[p].txCount
      PROVE  Balanced(p)
  <2>1. Cardinality(EntitiesOf(p)) = pool[p].txCount
    BY <1>1, <1>2, Zenon
  <2>2. QED BY <2>1 DEF EntitiesInv, Accounted
<1>3. ASSUME NEW p \in Created, Balanced(p), NEW d \in Kept(poolDayData[p])
      PROVE  poolDayData[p][d].volumeUSD = Total(SwapsOf(p, d), "amountUSD")
  <2>1. d \in Days /\ poolDayData[p][d] # Null
    BY IntervalsPriced DEF Kept, Created
  <2>2. QED BY <1>3, <2>1 DEF Balanced, Count
<1>4. SUFFICES ASSUME NEW p \in Created
      PROVE  LET of(kind) == {e \in entities : e.pool = p /\ e.kind = kind}
                 total0(kind) == SumFunction([e \in of(kind) |-> e.amount0])
                 total1(kind) == SumFunction([e \in of(kind) |-> e.amount1])
                 swapsOf(d) == {e \in of("swap") : DayOf(transactions[e.transaction].timestamp) = d}
             IN Cardinality(UNION {of(kind) : kind \in {"mint", "burn", "swap"}}) = pool[p].txCount =>
                  /\ total0("mint") - total0("burn") + total0("swap") = pool[p].totalValueLockedToken0
                  /\ total1("mint") - total1("burn") + total1("swap") = pool[p].totalValueLockedToken1
                  /\ \A d \in Kept(poolDayData[p]) :
                       poolDayData[p][d].volumeUSD = SumFunction([e \in swapsOf(d) |-> e.amountUSD])
  BY Zenon DEF EntitiesAccountForPool
<1>5. Cardinality(UNION {Of(p, kind) : kind \in {"mint", "burn", "swap"}}) = pool[p].txCount =>
        /\ Total(Of(p, "mint"), "amount0") - Total(Of(p, "burn"), "amount0")
             + Total(Of(p, "swap"), "amount0") = pool[p].totalValueLockedToken0
        /\ Total(Of(p, "mint"), "amount1") - Total(Of(p, "burn"), "amount1")
             + Total(Of(p, "swap"), "amount1") = pool[p].totalValueLockedToken1
        /\ \A d \in Kept(poolDayData[p]) :
             poolDayData[p][d].volumeUSD = Total(SwapsOf(p, d), "amountUSD")
  <2>1. SUFFICES ASSUME Cardinality(UNION {Of(p, kind) : kind \in {"mint", "burn", "swap"}})
                          = pool[p].txCount
                 PROVE  Balanced(p)
    <3>1. Balanced(p) => \A d \in Kept(poolDayData[p]) :
            poolDayData[p][d].volumeUSD = Total(SwapsOf(p, d), "amountUSD")
      BY <1>3
    <3>2. QED BY <3>1, Zenon DEF Balanced
  <2>2. QED BY <1>2, <2>1
<1>6. QED BY <1>5 DEF Total, Of, SwapsOf

LEMMA TotalInt ==
  ASSUME EntityBasics, NEW S \in SUBSET entities,
         NEW c \in {"amount0", "amount1", "amountUSD"},
         c = "amountUSD" => \A e \in S : e.kind = "swap"
  PROVE  IsFiniteSet(S) /\ (\A e \in S : e[c] \in Int) /\ Total(S, c) \in Int
<1>1. IsFiniteSet(S)
  BY FS_Subset DEF EntityBasics
<1>2. \A e \in S : e[c] \in Int
  BY DEF EntityBasics
<1>3. PICK f : f = [e \in S |-> e[c]]
  OBVIOUS
<1>4. f \in [S -> Int]
  BY <1>2, <1>3
<1>5. SumFunction(f) \in Int
  BY <1>1, <1>4, SumInt
<1>6. QED BY <1>1, <1>2, <1>3, <1>5 DEF Total

LEMMA TotalWith ==
  ASSUME NEW S, IsFiniteSet(S), NEW c, \A e \in S : e[c] \in Int,
         NEW e0, e0 \notin S, e0[c] \in Int
  PROVE  Total(S \cup {e0}, c) = Total(S, c) + e0[c]
<1>1. PICK f, h : f = [e \in S |-> e[c]] /\ h = [e \in S \cup {e0} |-> e[c]]
  OBVIOUS
<1>2. /\ IsFiniteSet(S) /\ e0 \notin S
      /\ f \in [S -> Int] /\ h \in [S \cup {e0} -> Int] /\ \A e \in S : h[e] = f[e]
  BY <1>1
<1>3. SumFunction(h) = SumFunction(f) + h[e0]
  BY ONLY <1>2, SumWithOneMore
<1>4. h[e0] = e0[c]
  BY <1>1
<1>5. QED BY <1>1, <1>3, <1>4 DEF Total

\* One row is saved and others may be replaced.
LEMMA OneSaved ==
  ASSUME NEW S, IsFiniteSet(S), NEW X, NEW e0, NEW n \in Nat, Cardinality(S) <= n
  PROVE  /\ Cardinality((S \ X) \cup {e0}) <= n + 1
         /\ Cardinality((S \ X) \cup {e0}) = n + 1 =>
              Cardinality(S) = n /\ S \ X = S /\ e0 \notin S
<1>1. PICK R : R = S \ X
  OBVIOUS
<1>2. /\ IsFiniteSet(R) /\ Cardinality(R) <= Cardinality(S)
      /\ Cardinality(S) = Cardinality(R) => S = R
  BY <1>1, FS_Subset
<1>3. Cardinality(R) \in Nat /\ Cardinality(S) \in Nat
  BY <1>2, FS_CardinalityType
<1>4. Cardinality(R \cup {e0}) = IF e0 \in R THEN Cardinality(R) ELSE Cardinality(R) + 1
  BY <1>2, FS_AddElement
<1>5. Cardinality(R \cup {e0}) <= n + 1
  BY <1>2, <1>3, <1>4
<1>6. ASSUME Cardinality(R \cup {e0}) = n + 1
      PROVE  Cardinality(S) = n /\ R = S /\ e0 \notin R
  BY <1>2, <1>3, <1>4, <1>6
<1>7. QED BY <1>1, <1>5, <1>6

LEMMA OthersReplaced ==
  ASSUME NEW S, IsFiniteSet(S), NEW X, NEW n \in Nat, Cardinality(S) <= n
  PROVE  /\ Cardinality(S \ X) <= n
         /\ Cardinality(S \ X) = n => Cardinality(S) = n /\ S \ X = S
<1>1. PICK R : R = S \ X
  OBVIOUS
<1>2. /\ IsFiniteSet(R) /\ Cardinality(R) <= Cardinality(S)
      /\ Cardinality(S) = Cardinality(R) => S = R
  BY <1>1, FS_Subset
<1>3. Cardinality(R) \in Nat /\ Cardinality(S) \in Nat
  BY <1>2, FS_CardinalityType
<1>4. Cardinality(R) <= n
  BY <1>2, <1>3
<1>5. ASSUME Cardinality(R) = n PROVE Cardinality(S) = n /\ R = S
  BY <1>2, <1>3, <1>5
<1>6. QED BY <1>1, <1>4, <1>5

\* What saving an entity does.
EntitySaved(kind, p, amount0, amount1, usd) ==
  /\ \E e, X : /\ e.kind = kind /\ e.pool = p /\ e.transaction = transaction
               /\ e.amount0 = amount0 /\ e.amount1 = amount1 /\ e.amountUSD = usd
               /\ entities' = (entities \ X) \cup {e}
  /\ transactions'[transaction].timestamp = hour
  /\ transactions'[transaction] # Null
  /\ DOMAIN transactions' = 0..MaxTransactions
  /\ \A n \in 0..MaxTransactions : n # transaction => transactions'[n] = transactions[n]

LEMMA SaveSaves ==
  ASSUME Basics, NEW kind, NEW p, NEW amount0, NEW amount1, NEW usd,
         Saved(kind, p, amount0, amount1, usd)
  PROVE  EntitySaved(kind, p, amount0, amount1, usd)
<1>1. PICK e : e = NewEntity(kind, p, pool[p].txCount + 1, amount0, amount1, usd)
  OBVIOUS
<1>2. /\ e.kind = kind /\ e.pool = p /\ e.transaction = transaction
      /\ e.amount0 = amount0 /\ e.amount1 = amount1 /\ e.amountUSD = usd
  BY <1>1 DEF NewEntity
<1>3. SaveEntity(e)
  BY <1>1 DEF Saved
<1>4. PICK X : X = {f \in entities : /\ f.kind = e.kind /\ f.transaction = e.transaction
                                     /\ f.txCount = e.txCount}
  OBVIOUS
<1>5. entities' = (entities \ X) \cup {e}
  BY <1>3, <1>4 DEF SaveEntity
<1>6. LoadTransaction \in TransactionRows /\ LoadTransaction.timestamp = hour
  BY Constants DEF LoadTransaction, TransactionRows, Basics, TypeInv, Hours
<1>7. LoadTransaction # Null
  BY <1>6, NullAssumption
<1>8. DOMAIN transactions = 0..MaxTransactions /\ transaction \in 0..MaxTransactions
  BY DEF Basics, TypeInv
<1>9. transactions' = [transactions EXCEPT ![transaction] = LoadTransaction]
  BY <1>3 DEF SaveEntity
<1>10. QED BY <1>2, <1>5, <1>6, <1>7, <1>8, <1>9 DEF EntitySaved

\* The days of the swaps there were stay what they are.
LEMMA SwapsKeepDays ==
  ASSUME Basics, EntityBasics, NEW kind, NEW p, NEW amount0, NEW amount1, NEW usd,
         EntitySaved(kind, p, amount0, amount1, usd)
  PROVE  \A e \in entities : transactions'[e.transaction].timestamp = transactions[e.transaction].timestamp
<1>1. SUFFICES ASSUME NEW e \in entities
               PROVE  transactions'[e.transaction].timestamp = transactions[e.transaction].timestamp
  OBVIOUS
<1>2. e.transaction \in 0..MaxTransactions /\ transactions[e.transaction] # Null
  <2>1. e.transaction \in 0..transaction /\ transactions[e.transaction] # Null
    BY DEF EntityBasics
  <2>2. transaction \in 0..MaxTransactions /\ MaxTransactions \in Nat
    BY Constants DEF Basics, TypeInv
  <2>3. QED BY <2>1, <2>2
<1>3. CASE e.transaction = transaction
  BY <1>2, <1>3 DEF EntityBasics, EntitySaved
<1>4. CASE e.transaction # transaction
  BY <1>2, <1>4 DEF EntitySaved
<1>5. QED BY <1>3, <1>4

LEMMA EntityBasicsSaved ==
  ASSUME Basics, EntityBasics, NEW kind \in {"mint", "burn", "swap"}, NEW p \in Created,
         NEW amount0 \in Int, NEW amount1 \in Int, NEW usd, kind = "swap" => usd \in Int,
         EntitySaved(kind, p, amount0, amount1, usd), UNCHANGED environmentVars, Created' = Created
  PROVE  EntityBasics'
<1>1. PICK e, X : /\ e.kind = kind /\ e.pool = p /\ e.transaction = transaction
                  /\ e.amount0 = amount0 /\ e.amount1 = amount1 /\ e.amountUSD = usd
                  /\ entities' = (entities \ X) \cup {e}
  BY DEF EntitySaved
<1>2. transaction' = transaction /\ hour' = hour /\ transaction \in 0..MaxTransactions
  BY DEF environmentVars, Basics, TypeInv
<1>3. IsFiniteSet(entities')
  <2>1. IsFiniteSet(entities \ X)
    BY FS_Difference DEF EntityBasics
  <2>2. QED BY <1>1, <2>1, FS_AddElement
<1>4. /\ transactions'[transaction].timestamp = hour /\ transactions'[transaction] # Null
      /\ \A n \in 0..MaxTransactions : n # transaction => transactions'[n] = transactions[n]
  BY DEF EntitySaved
<1>5. ASSUME NEW f \in entities'
      PROVE  /\ f.pool \in Created /\ f.kind \in {"mint", "burn", "swap"}
             /\ f.amount0 \in Int /\ f.amount1 \in Int
             /\ f.kind = "swap" => f.amountUSD \in Int
             /\ f.transaction \in 0..transaction /\ transactions'[f.transaction] # Null
  <2>1. CASE f = e
    BY <1>1, <1>2, <1>4, <2>1
  <2>2. CASE f \in entities
    <3>1. f.transaction \in 0..transaction /\ transactions[f.transaction] # Null
          /\ f.transaction \in 0..MaxTransactions
      <4>1. f.transaction \in 0..transaction /\ transactions[f.transaction] # Null
        BY <2>2 DEF EntityBasics
      <4>2. QED BY <1>2, <4>1, Constants
    <3>2. transactions'[f.transaction] # Null
      BY <1>4, <3>1
    <3>3. QED BY <2>2, <3>1, <3>2 DEF EntityBasics
  <2>3. QED BY <1>1, <2>1, <2>2
<1>6. \A n \in 0..MaxTransactions : n > transaction => transactions'[n] = Null
  <2>1. \A n \in 0..MaxTransactions : n > transaction => n # transaction
    BY <1>2
  <2>2. QED BY <1>4, <2>1 DEF EntityBasics
<1>7. QED BY <1>2, <1>3, <1>4, <1>5, <1>6 DEF EntityBasics

\* Entities of other pools may be replaced.
LEMMA OthersAccounted ==
  ASSUME Basics, EntityBasics, NEW kind, NEW p, NEW amount0, NEW amount1, NEW usd,
         EntitySaved(kind, p, amount0, amount1, usd), NEW q \in Created, q # p,
         Accounted(q), pool'[q] = pool[q], poolDayData'[q] = poolDayData[q]
  PROVE  Accounted(q)'
<1>1. PICK e, X : e.pool = p /\ entities' = (entities \ X) \cup {e}
  BY DEF EntitySaved
<1>2. EntitiesOf(q)' = EntitiesOf(q) \ X
  BY <1>1 DEF EntitiesOf
<1>3. /\ IsFiniteSet(EntitiesOf(q)) /\ pool[q].txCount \in Nat
      /\ Cardinality(EntitiesOf(q)) <= pool[q].txCount
  <2>1. EntitiesOf(q) \subseteq entities
    BY DEF EntitiesOf
  <2>2. QED BY <2>1, FS_Subset, RowsRead DEF EntityBasics, Accounted, PoolRows
<1>4. PICK S, n : S = EntitiesOf(q) /\ n = pool[q].txCount
  OBVIOUS
<1>5. IsFiniteSet(S) /\ n \in Nat /\ Cardinality(S) <= n
  BY <1>3, <1>4
<1>6. /\ Cardinality(S \ X) <= n
      /\ Cardinality(S \ X) = n => Cardinality(S) = n /\ S \ X = S
  BY ONLY <1>5, OthersReplaced
<1>7. Cardinality(EntitiesOf(q)') = Cardinality(S \ X)
  BY <1>2, <1>4, Zenon
<1>8. ASSUME Cardinality(EntitiesOf(q)') = n
      PROVE  Balanced(q)'
  <2>1. EntitiesOf(q)' = EntitiesOf(q) /\ Balanced(q)
    BY <1>2, <1>4, <1>6, <1>7, <1>8 DEF Accounted
  <2>2. \A k : Of(q, k)' = Of(q, k)
    BY <2>1 DEF EntitiesOf, Of
  <2>3. \A d : SwapsOf(q, d)' = SwapsOf(q, d)
    <3>1. \A f \in Of(q, "swap") : transactions'[f.transaction].timestamp = transactions[f.transaction].timestamp
      BY SwapsKeepDays DEF Of
    <3>2. QED BY <2>2, <3>1 DEF SwapsOf, DayOf
  <2>4. \A k : \A c : Total(Of(q, k), c)' = Total(Of(q, k), c)
    BY <2>2, Zenon DEF Total
  <2>5. \A d : Total(SwapsOf(q, d), "amountUSD")' = Total(SwapsOf(q, d), "amountUSD")
    BY <2>3, Zenon DEF Total
  <2>6. QED BY <2>1, <2>4, <2>5 DEF Balanced, Days, Hours, DayOf, Count
<1>9. QED BY <1>3, <1>4, <1>6, <1>7, <1>8 DEF Accounted

\* The pool of an event has one entity more, or fewer entities than events.
LEMMA EventAccounted ==
  ASSUME Basics, EntityBasics, NEW kind \in {"mint", "burn", "swap"}, NEW p \in Created,
         NEW amount0 \in Int, NEW amount1 \in Int, NEW usd, kind = "swap" => usd \in Int,
         EntitySaved(kind, p, amount0, amount1, usd), Accounted(p),
         pool'[p].txCount = pool[p].txCount + 1,
         pool'[p].totalValueLockedToken0
           = pool[p].totalValueLockedToken0 + (IF kind = "burn" THEN -amount0 ELSE amount0),
         pool'[p].totalValueLockedToken1
           = pool[p].totalValueLockedToken1 + (IF kind = "burn" THEN -amount1 ELSE amount1),
         \A d \in Days : Count(poolDayData'[p][d], "volumeUSD")
                           = Count(poolDayData[p][d], "volumeUSD")
                             + (IF d = today /\ kind = "swap" THEN usd ELSE 0)
  PROVE  Accounted(p)'
<1>1. PICK e, X : /\ e.kind = kind /\ e.pool = p /\ e.transaction = transaction
                  /\ e.amount0 = amount0 /\ e.amount1 = amount1 /\ e.amountUSD = usd
                  /\ entities' = (entities \ X) \cup {e}
  BY DEF EntitySaved
<1>2. EntitiesOf(p)' = (EntitiesOf(p) \ X) \cup {e}
  BY <1>1 DEF EntitiesOf
<1>3. /\ IsFiniteSet(EntitiesOf(p)) /\ pool[p].txCount \in Nat
      /\ Cardinality(EntitiesOf(p)) <= pool[p].txCount
  <2>1. EntitiesOf(p) \subseteq entities
    BY DEF EntitiesOf
  <2>2. QED BY <2>1, FS_Subset, RowsRead DEF EntityBasics, Accounted, PoolRows
<1>4. PICK S, n : S = EntitiesOf(p) /\ n = pool[p].txCount
  OBVIOUS
<1>5. IsFiniteSet(S) /\ n \in Nat /\ Cardinality(S) <= n
  BY <1>3, <1>4
<1>6. /\ Cardinality((S \ X) \cup {e}) <= n + 1
      /\ Cardinality((S \ X) \cup {e}) = n + 1 => Cardinality(S) = n /\ S \ X = S /\ e \notin S
  BY ONLY <1>5, OneSaved
<1>7. Cardinality(EntitiesOf(p)') = Cardinality((S \ X) \cup {e})
  BY <1>2, <1>4, Zenon
<1>8. ASSUME Cardinality(EntitiesOf(p)') = n + 1
      PROVE  Balanced(p)'
  <2>1. EntitiesOf(p)' = EntitiesOf(p) \cup {e} /\ e \notin EntitiesOf(p) /\ Balanced(p)
    BY <1>2, <1>4, <1>6, <1>7, <1>8 DEF Accounted
  <2>2. /\ e \notin Of(p, kind) /\ Of(p, kind)' = Of(p, kind) \cup {e}
        /\ \A k : k # kind => Of(p, k)' = Of(p, k)
    BY <1>1, <2>1 DEF EntitiesOf, Of
  <2>3. /\ transactions'[transaction].timestamp = hour /\ today = DayOf(hour)
        /\ \A f \in entities : transactions'[f.transaction].timestamp = transactions[f.transaction].timestamp
    <3>1. transactions'[transaction].timestamp = hour
      BY DEF EntitySaved
    <3>2. today = DayOf(hour)
      BY DEF today
    <3>3. \A f \in entities : transactions'[f.transaction].timestamp = transactions[f.transaction].timestamp
      BY SwapsKeepDays
    <3>4. QED BY <3>1, <3>2, <3>3
  <2>4. ASSUME NEW c \in {"amount0", "amount1"}
        PROVE  /\ \A k : Total(Of(p, k), c) \in Int
               /\ Total(Of(p, kind), c)' = Total(Of(p, kind), c) + e[c]
               /\ \A k : k # kind => Total(Of(p, k), c)' = Total(Of(p, k), c)
    <3>1. \A k : Of(p, k) \in SUBSET entities
      BY DEF Of
    <3>2. \A k : Total(Of(p, k), c) \in Int
      BY <3>1, TotalInt
    <3>3. IsFiniteSet(Of(p, kind)) /\ \A f \in Of(p, kind) : f[c] \in Int
      BY <3>1, TotalInt
    <3>4. e[c] \in Int
      BY <1>1
    <3>5. PICK T, U : T = Of(p, kind) /\ U = Of(p, kind)'
      OBVIOUS
    <3>6. /\ IsFiniteSet(T) /\ (\A f \in T : f[c] \in Int) /\ e \notin T /\ e[c] \in Int
      BY <2>2, <3>3, <3>4, <3>5
    <3>7. Total(T \cup {e}, c) = Total(T, c) + e[c]
      BY ONLY <3>6, TotalWith
    <3>8. U = T \cup {e}
      BY <2>2, <3>5
    <3>9. Total(Of(p, kind), c)' = Total(Of(p, kind), c) + e[c]
      <4>1. Total(Of(p, kind), c)' = Total(U, c) /\ Total(Of(p, kind), c) = Total(T, c)
        BY <3>5, Zenon DEF Total
      <4>2. Total(U, c) = Total(T \cup {e}, c)
        BY <3>8, Zenon
      <4>3. QED BY <3>7, <4>1, <4>2
    <3>10. \A k : k # kind => Total(Of(p, k), c)' = Total(Of(p, k), c)
      BY <2>2, Zenon DEF Total
    <3>11. QED BY <3>2, <3>9, <3>10
  <2>5. /\ pool[p].totalValueLockedToken0 \in Int /\ pool[p].totalValueLockedToken1 \in Int
    BY RowsRead DEF PoolRows
  <2>6. /\ Total(Of(p, "mint"), "amount0")' - Total(Of(p, "burn"), "amount0")'
             + Total(Of(p, "swap"), "amount0")' = pool'[p].totalValueLockedToken0
        /\ Total(Of(p, "mint"), "amount1")' - Total(Of(p, "burn"), "amount1")'
             + Total(Of(p, "swap"), "amount1")' = pool'[p].totalValueLockedToken1
    <3>1. e["amount0"] = amount0 /\ e["amount1"] = amount1
      BY <1>1
    <3>2. CASE kind = "mint"
      BY <2>1, <2>4, <2>5, <3>1, <3>2 DEF Balanced
    <3>3. CASE kind = "burn"
      BY <2>1, <2>4, <2>5, <3>1, <3>3 DEF Balanced
    <3>4. CASE kind = "swap"
      BY <2>1, <2>4, <2>5, <3>1, <3>4 DEF Balanced
    <3>5. QED BY <3>2, <3>3, <3>4
  <2>7. ASSUME NEW d \in Days
        PROVE  Count(poolDayData'[p][d], "volumeUSD") = Total(SwapsOf(p, d), "amountUSD")'
    <3>0. /\ SwapsOf(p, d) \in SUBSET entities /\ \A f \in SwapsOf(p, d) : f.kind = "swap"
      BY DEF SwapsOf, Of
    <3>1. /\ Count(poolDayData[p][d], "volumeUSD") = Total(SwapsOf(p, d), "amountUSD")
          /\ Total(SwapsOf(p, d), "amountUSD") \in Int
          /\ IsFiniteSet(SwapsOf(p, d)) /\ \A f \in SwapsOf(p, d) : f["amountUSD"] \in Int
      BY <2>1, <3>0, TotalInt DEF Balanced
    <3>2. CASE kind = "swap" /\ d = today
      <4>1. SwapsOf(p, d)' = SwapsOf(p, d) \cup {e} /\ e \notin SwapsOf(p, d)
        <5>1. Of(p, "swap")' = Of(p, "swap") \cup {e} /\ e \notin Of(p, "swap")
          BY <2>2, <3>2
        <5>2. \A f \in Of(p, "swap") : f \in entities
          BY DEF Of
        <5>3. SwapsOf(p, d)' = {f \in Of(p, "swap") \cup {e} : DayOf(transactions'[f.transaction].timestamp) = d}
          BY <5>1 DEF SwapsOf, DayOf
        <5>4. DayOf(transactions'[e.transaction].timestamp) = d
          BY <1>1, <2>3, <3>2
        <5>5. QED BY <2>3, <5>1, <5>2, <5>3, <5>4 DEF SwapsOf
      <4>2. PICK T, U : T = SwapsOf(p, d) /\ U = SwapsOf(p, d)'
        OBVIOUS
      <4>3. PICK c : c = "amountUSD"
        OBVIOUS
      <4>4. /\ IsFiniteSet(T) /\ (\A f \in T : f[c] \in Int) /\ e \notin T /\ e[c] \in Int
        BY <1>1, <3>1, <3>2, <4>1, <4>2, <4>3
      <4>5. Total(T \cup {e}, c) = Total(T, c) + e[c]
        BY ONLY <4>4, TotalWith
      <4>6. Total(SwapsOf(p, d), "amountUSD")' = Total(U, c)
        BY <4>2, <4>3, Zenon DEF Total
      <4>7. Total(U, c) = Total(T \cup {e}, c)
        <5>1. U = T \cup {e}
          BY <4>1, <4>2
        <5>2. QED BY <5>1, Zenon
      <4>8. Total(SwapsOf(p, d), "amountUSD") = Total(T, c)
        BY <4>2, <4>3, Zenon
      <4>9. e[c] = usd
        BY <1>1, <4>3
      <4>10. QED BY <3>1, <3>2, <4>5, <4>6, <4>7, <4>8, <4>9
    <3>3. CASE ~(kind = "swap" /\ d = today)
      <4>1. SwapsOf(p, d)' = SwapsOf(p, d)
        <5>1. \A f \in Of(p, "swap") : f \in entities
          BY DEF Of
        <5>2. CASE kind # "swap"
          <6>1. Of(p, "swap")' = Of(p, "swap")
            BY <2>2, <5>2
          <6>2. SwapsOf(p, d)' = {f \in Of(p, "swap") : DayOf(transactions'[f.transaction].timestamp) = d}
            BY <6>1 DEF SwapsOf, DayOf
          <6>3. QED BY <2>3, <5>1, <6>2 DEF SwapsOf
        <5>3. CASE kind = "swap"
          <6>1. Of(p, "swap")' = Of(p, "swap") \cup {e}
            BY <2>2, <5>3
          <6>2. SwapsOf(p, d)' = {f \in Of(p, "swap") \cup {e} : DayOf(transactions'[f.transaction].timestamp) = d}
            BY <6>1 DEF SwapsOf, DayOf
          <6>3. DayOf(transactions'[e.transaction].timestamp) # d
            BY <1>1, <2>3, <3>3, <5>3
          <6>4. QED BY <2>3, <5>1, <6>2, <6>3 DEF SwapsOf
        <5>4. QED BY <5>2, <5>3
      <4>2. Total(SwapsOf(p, d), "amountUSD")' = Total(SwapsOf(p, d), "amountUSD")
        BY <4>1, Zenon DEF Total
      <4>3. Count(poolDayData'[p][d], "volumeUSD") = Count(poolDayData[p][d], "volumeUSD") + 0
        BY <3>3
      <4>4. QED BY <3>1, <4>2, <4>3
    <3>4. QED BY <3>2, <3>3
  <2>8. QED BY <2>6, <2>7 DEF Balanced, Days, Hours, DayOf, Count
<1>9. QED BY <1>3, <1>4, <1>6, <1>7, <1>8 DEF Accounted

\* Whatever leaves entities, the totals of the pool and its volumes alone.
LEMMA SameAccounted ==
  ASSUME NEW q, Accounted(q), UNCHANGED <<entities, transactions>>,
         pool'[q].txCount = pool[q].txCount,
         pool'[q].totalValueLockedToken0 = pool[q].totalValueLockedToken0,
         pool'[q].totalValueLockedToken1 = pool[q].totalValueLockedToken1,
         \A d \in Days : Count(poolDayData'[q][d], "volumeUSD") = Count(poolDayData[q][d], "volumeUSD")
  PROVE  Accounted(q)'
<1>1. EntitiesOf(q)' = EntitiesOf(q)
  BY DEF EntitiesOf
<1>2. \A k : \A c : Total(Of(q, k), c)' = Total(Of(q, k), c)
  <2>1. \A k : Of(q, k)' = Of(q, k)
    BY DEF Of
  <2>2. QED BY <2>1, Zenon DEF Total
<1>3. \A d : Total(SwapsOf(q, d), "amountUSD")' = Total(SwapsOf(q, d), "amountUSD")
  <2>1. \A d : SwapsOf(q, d)' = SwapsOf(q, d)
    BY DEF SwapsOf, Of, DayOf
  <2>2. QED BY <2>1, Zenon DEF Total
<1>4. Balanced(q) => Balanced(q)'
  BY <1>2, <1>3 DEF Balanced, Days, Hours, DayOf, Count
<1>5. Cardinality(EntitiesOf(q)') = Cardinality(EntitiesOf(q))
  BY <1>1, Zenon
<1>6. QED BY <1>4, <1>5 DEF Accounted

\* A pool that is created has no entities.
LEMMA NewAccounted ==
  ASSUME Basics, EntityBasics, NEW p \in Pools, PoolAdded(p)
  PROVE  Accounted(p)'
<1>1. /\ UNCHANGED <<entities, transactions, poolDayData>> /\ pool'[p] = NewPool /\ p \notin Created
  BY DEF PoolAdded, intervalVars
<1>2. \A e \in entities : e.pool # p
  BY <1>1 DEF EntityBasics
<1>3. EntitiesOf(p)' = {} /\ (\A k : Of(p, k)' = {}) /\ \A d : SwapsOf(p, d)' = {}
  BY <1>1, <1>2 DEF EntitiesOf, Of, SwapsOf
<1>4. \A c : Total({}, c) = 0
  <2>1. SUFFICES ASSUME NEW c PROVE Total({}, c) = 0
    OBVIOUS
  <2>2. [e \in {} |-> e[c]] \in [{} -> Int]
    OBVIOUS
  <2>3. QED BY <2>2, SumEmpty DEF Total
<1>5. /\ \A k : \A c : Total(Of(p, k), c)' = 0
      /\ \A d : Total(SwapsOf(p, d), "amountUSD")' = 0
  <2>1. /\ \A k : \A c : Total(Of(p, k), c)' = Total({}, c)
        /\ \A d : Total(SwapsOf(p, d), "amountUSD")' = Total({}, "amountUSD")
    BY <1>3, Zenon DEF Total
  <2>2. QED BY <1>4, <2>1
<1>6. /\ pool'[p].totalValueLockedToken0 = 0 /\ pool'[p].totalValueLockedToken1 = 0
      /\ pool'[p].txCount = 0
  BY <1>1 DEF NewPool
<1>7. \A d \in Days : Count(poolDayData'[p][d], "volumeUSD") = 0
  BY <1>1 DEF Basics, NothingBefore, Count
<1>8. Balanced(p)'
  BY <1>5, <1>6, <1>7 DEF Balanced, Days, Hours, DayOf, Count
<1>9. Cardinality(EntitiesOf(p)') = 0
  <2>1. Cardinality(EntitiesOf(p)') = Cardinality({})
    BY <1>3, Zenon
  <2>2. QED BY <2>1, FS_EmptySet
<1>10. QED BY <1>6, <1>8, <1>9 DEF Accounted

\* An event and the entity it saves.
LEMMA EventEntities ==
  ASSUME Basics, EntitiesInv, NEW kind \in {"mint", "burn", "swap"}, NEW p \in Created,
         NEW amount0 \in Int, NEW amount1 \in Int, NEW volume0, NEW volume1, NEW usd, NEW saved,
         NEW eth, NEW fees, Saved(kind, p, amount0, amount1, saved),
         kind = "swap" => saved = usd, kind # "swap" => usd = 0, usd \in Nat,
         NEW moved0, NEW moved1,
         moved0 = (IF kind = "burn" THEN -amount0 ELSE amount0),
         moved1 = (IF kind = "burn" THEN -amount1 ELSE amount1),
         Event(p, moved0, moved1, volume0, volume1, usd, eth, fees)
  PROVE  EntitiesInv'
<1>1. EntitySaved(kind, p, amount0, amount1, saved)
  BY SaveSaves
<1>2. Created' = Created /\ UNCHANGED environmentVars
  BY EventKeeps DEF Event
<1>3. EntityBasics /\ \A q \in Created : Accounted(q)
  BY DEF EntitiesInv
<1>4. EntityBasics'
  <2>1. kind = "swap" => saved \in Int
    OBVIOUS
  <2>2. QED BY <1>1, <1>2, <1>3, <2>1, EntityBasicsSaved
<1>5. /\ PoolMoved(p, moved0, moved1, usd) /\ PoolIntervalsMoved(p, volume0, usd)
  BY DEF Event
<1>6. ASSUME NEW q \in Created, q # p
      PROVE  Accounted(q)'
  <2>1. pool'[q] = pool[q] /\ poolDayData'[q] = poolDayData[q]
    BY <1>5, <1>6 DEF PoolMoved, PoolIntervalsMoved, OnlyAt, Created, Basics, TypeInv
  <2>2. QED BY <1>1, <1>3, <1>6, <2>1, OthersAccounted
<1>7. Accounted(p)'
  <2>1. /\ pool'[p].txCount = pool[p].txCount + 1
        /\ pool'[p].totalValueLockedToken0
             = pool[p].totalValueLockedToken0 + (IF kind = "burn" THEN -amount0 ELSE amount0)
        /\ pool'[p].totalValueLockedToken1
             = pool[p].totalValueLockedToken1 + (IF kind = "burn" THEN -amount1 ELSE amount1)
    BY <1>5 DEF PoolMoved
  <2>2. ASSUME NEW d \in Days
        PROVE  Count(poolDayData'[p][d], "volumeUSD")
                 = Count(poolDayData[p][d], "volumeUSD")
                   + (IF d = today /\ kind = "swap" THEN saved ELSE 0)
    <3>1. DOMAIN poolDayData[p] = Days /\ p \in Pools
      BY IntervalsPriced DEF Created
    <3>2. Count(poolDayData[p][d], "volumeUSD") \in Int
      BY <3>1, IntervalsPriced DEF Count, PoolIntervalRows, Basics, TypeInv
    <3>3. CASE d = today
      <4>1. /\ poolDayData'[p][today] \in PoolIntervalRows
            /\ poolDayData'[p][today].volumeUSD = Count(poolDayData[p][today], "volumeUSD") + usd
        BY <1>5 DEF PoolIntervalsMoved, PoolTouched
      <4>2. Count(poolDayData'[p][today], "volumeUSD") = Count(poolDayData[p][today], "volumeUSD") + usd
        BY <4>1, NullAssumption DEF Count
      <4>3. usd = IF kind = "swap" THEN saved ELSE 0
        OBVIOUS
      <4>4. QED BY <3>3, <4>2, <4>3
    <3>4. CASE d # today
      <4>1. poolDayData'[p][d] = poolDayData[p][d]
        BY <1>5, <3>1, <3>4 DEF PoolIntervalsMoved, OnlyAt
      <4>2. QED BY <3>2, <3>4, <4>1
    <3>5. QED BY <3>3, <3>4
  <2>3. kind = "swap" => saved \in Int
    OBVIOUS
  <2>4. QED BY <1>1, <1>3, <2>1, <2>2, <2>3, EventAccounted
<1>8. QED BY <1>2, <1>4, <1>6, <1>7 DEF EntitiesInv

LEMMA EntitiesKept ==
  ASSUME Basics, EntitiesInv, Step
  PROVE  EntitiesInv'
<1>0. EntityBasics /\ \A q \in Created : Accounted(q)
  BY DEF EntitiesInv
<1>1. CASE NextTransaction
  <2>1. /\ UNCHANGED <<entities, transactions, pool, poolDayData>> /\ transaction' = transaction + 1
        /\ Created' = Created /\ transaction \in Nat /\ transaction + 1 \in 0..MaxTransactions
    BY <1>1, Constants DEF NextTransaction, intervalVars, Created, Basics, TypeInv
  <2>2. \A q \in Created : Accounted(q)'
    BY <1>0, <2>1, SameAccounted
  <2>3. \A n : n \in 0..transaction => n \in 0..transaction'
    BY <2>1
  <2>4. transactions'[transaction'] = Null
    BY <1>0, <2>1 DEF EntityBasics
  <2>5. \A n \in 0..MaxTransactions : n > transaction' => transactions'[n] = Null
    <3>1. \A n \in 0..MaxTransactions : n > transaction' => n > transaction
      BY <2>1
    <3>2. QED BY <1>0, <2>1, <3>1 DEF EntityBasics
  <2>6. EntityBasics'
    BY <1>0, <2>1, <2>3, <2>4, <2>5 DEF EntityBasics
  <2>7. QED BY <2>1, <2>2, <2>6 DEF EntitiesInv
<1>2. ASSUME NEW p \in Pools, PoolAdded(p)
      PROVE  EntitiesInv'
  <2>1. /\ UNCHANGED <<entities, transactions, transaction, hour, poolDayData>>
        /\ Created' = Created \cup {p} /\ \A q \in Created : pool'[q] = pool[q]
    BY <1>2 DEF PoolAdded, OnlyAt, environmentVars, intervalVars, Basics, TypeInv, Created
  <2>2. \A q \in Created : Accounted(q)'
    BY <1>0, <2>1, SameAccounted
  <2>3. Accounted(p)'
    BY <1>0, <1>2, NewAccounted
  <2>4. EntityBasics'
    BY <1>0, <2>1 DEF EntityBasics
  <2>5. QED BY <2>1, <2>2, <2>3, <2>4 DEF EntitiesInv
<1>3. ASSUME NEW p \in Pools, NEW t \in PoolTicks[p], PoolPriced(p, t)
      PROVE  EntitiesInv'
  <2>1. /\ UNCHANGED <<entities, transactions, transaction, hour, pool>>
        /\ Created' = Created /\ p \in Created
    BY <1>3 DEF PoolPriced, environmentVars, Created
  <2>2. ASSUME NEW q \in Created, NEW d \in Days
        PROVE  Count(poolDayData'[q][d], "volumeUSD") = Count(poolDayData[q][d], "volumeUSD")
    <3>1. CASE q = p /\ d = today
      <4>1. /\ poolDayData'[p][today] \in PoolIntervalRows
            /\ poolDayData'[p][today].volumeUSD = Count(poolDayData[p][today], "volumeUSD")
        BY <1>3 DEF PoolPriced, PoolTouched, SameVolume
      <4>2. QED BY <3>1, <4>1, NullAssumption DEF Count
    <3>2. CASE ~(q = p /\ d = today)
      <4>1. q \in Pools /\ p \in Pools /\ DOMAIN poolDayData[p] = Days /\ DOMAIN poolDayData = Pools
        BY <2>1, IntervalsPriced DEF Created, Basics, TypeInv
      <4>2. poolDayData'[q][d] = poolDayData[q][d]
        BY <1>3, <3>2, <4>1 DEF PoolPriced, OnlyAt
      <4>3. QED BY <4>2
    <3>3. QED BY <3>1, <3>2
  <2>3. \A q \in Created : Accounted(q)'
    BY <1>0, <2>1, <2>2, SameAccounted
  <2>4. EntityBasics'
    BY <1>0, <2>1 DEF EntityBasics
  <2>5. QED BY <2>1, <2>3, <2>4 DEF EntitiesInv
<1>4. ASSUME NEW p \in Pools, NEW r \in Ranges[p], NEW l \in Int, NEW amount0 \in Int,
             NEW amount1 \in Int, LiquidityMoved(p, r, l, amount0, amount1)
      PROVE  EntitiesInv'
  <2>1. p \in Created /\ Event(p, amount0, amount1, 0, 0, 0, 0, 0)
    BY <1>4 DEF LiquidityMoved
  <2>2. PICK usd : \/ Saved("mint", p, amount0, amount1, usd)
                   \/ Saved("burn", p, -amount0, -amount1, usd)
    BY <1>4 DEF LiquidityMoved
  <2>3. CASE Saved("mint", p, amount0, amount1, usd)
    <3>1. PICK kind \in {"mint", "burn", "swap"} : kind = "mint"
      OBVIOUS
    <3>2. /\ Saved(kind, p, amount0, amount1, usd) /\ kind # "swap"
          /\ amount0 = (IF kind = "burn" THEN -amount0 ELSE amount0)
          /\ amount1 = (IF kind = "burn" THEN -amount1 ELSE amount1) /\ 0 \in Nat
      BY <2>3, <3>1
    <3>3. QED BY <2>1, <3>2, EventEntities
  <2>4. CASE Saved("burn", p, -amount0, -amount1, usd)
    <3>1. PICK kind \in {"mint", "burn", "swap"}, out0 \in Int, out1 \in Int :
            kind = "burn" /\ out0 = -amount0 /\ out1 = -amount1
      OBVIOUS
    <3>2. /\ Saved(kind, p, out0, out1, usd) /\ kind # "swap"
          /\ amount0 = (IF kind = "burn" THEN -out0 ELSE out0)
          /\ amount1 = (IF kind = "burn" THEN -out1 ELSE out1) /\ 0 \in Nat
      BY <2>4, <3>1
    <3>3. QED BY <2>1, <3>2, EventEntities
  <2>5. QED BY <2>2, <2>3, <2>4
<1>5. ASSUME NEW p \in Pools, NEW t \in PoolTicks[p], NEW amount0 \in Int, NEW amount1 \in Int,
             SwapMoved(p, t, amount0, amount1)
      PROVE  EntitiesInv'
  <2>1. PICK usd \in Nat, eth \in Nat, fees \in Nat :
          /\ Event(p, amount0, amount1, Abs(amount0), Abs(amount1), usd, eth, fees)
          /\ Saved("swap", p, amount0, amount1, usd)
    BY <1>5 DEF SwapMoved
  <2>2. PICK kind \in {"mint", "burn", "swap"} : kind = "swap"
    OBVIOUS
  <2>3. /\ Saved(kind, p, amount0, amount1, usd) /\ p \in Created
        /\ amount0 = (IF kind = "burn" THEN -amount0 ELSE amount0)
        /\ amount1 = (IF kind = "burn" THEN -amount1 ELSE amount1)
    BY <1>5, <2>1, <2>2 DEF SwapMoved
  <2>4. QED BY <2>1, <2>2, <2>3, EventEntities
<1>6. QED BY <1>1, <1>2, <1>3, <1>4, <1>5 DEF Step

LEMMA EntitiesStart ==
  ASSUME Init
  PROVE  EntitiesInv
<1>1. Created = {}
  BY DEF Init, Created
<1>2. /\ entities = {} /\ transaction = 0
      /\ \A n \in 0..MaxTransactions : transactions[n] = Null
  BY DEF Init
<1>3. 0 \in 0..MaxTransactions
  BY Constants
<1>4. QED BY <1>1, <1>2, <1>3, FS_EmptySet DEF EntitiesInv, EntityBasics

\* A pool whose every mint, burn and swap has its own entity has locked what they brought and
\* took, and the volume of each of its days is that of the day's swaps, after every handler: an
\* entity that replaces another is the only way for them to part.
THEOREM EntitiesAlwaysAccount == Spec => []EntitiesAccountForPool
<1>1. Init => Basics /\ EntitiesInv
  BY Starts, EntitiesStart
<1>2. Basics /\ EntitiesInv /\ [Next]_vars => Basics' /\ EntitiesInv'
  <2>1. SUFFICES ASSUME Basics, EntitiesInv, [Next]_vars
                 PROVE  Basics' /\ EntitiesInv'
    OBVIOUS
  <2>2. CASE Next
    BY <2>1, <2>2, Steps, EntitiesKept
  <2>3. CASE UNCHANGED vars
    <3>1. UNCHANGED <<hour, transaction, pool, poolDayData, transactions, entities>>
      BY <2>3 DEF vars, environmentVars, intervalVars
    <3>2. Created' = Created
      BY <3>1 DEF Created
    <3>3. \A q \in Created : Accounted(q)'
      BY <2>1, <3>1, SameAccounted DEF EntitiesInv
    <3>4. EntityBasics'
      BY <2>1, <3>1, <3>2 DEF EntitiesInv, EntityBasics
    <3>5. QED BY <2>1, <2>3, <3>2, <3>3, <3>4, Unchanged DEF EntitiesInv
  <2>4. QED BY <2>1, <2>2, <2>3
<1>3. Basics /\ EntitiesInv => EntitiesAccountForPool
  BY EntitiesFollow
<1>4. QED BY <1>1, <1>2, <1>3, PTL DEF Spec
=============================================================================
