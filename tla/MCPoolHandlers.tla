--------------------------- MODULE MCPoolHandlers ---------------------------
(***************************************************************************)
(* Pools for PoolHandlers: usdcWeth gives the price of ETH in USD; altWeth *)
(* is white-listed for alt, a token that is on no list itself, and gives   *)
(* it its price in ETH.                                                    *)
(***************************************************************************)
EXTENDS PoolHandlers

CONSTANTS usdcWeth, altWeth, usdc, weth, alt

PoolToken0 == [p \in Pools |-> IF p = usdcWeth THEN usdc ELSE alt]
PoolToken1 == [p \in Pools |-> weth]
PoolFeeTier == [p \in Pools |-> IF p = usdcWeth THEN 3000 ELSE 500]

\* Ranges meet in a tick, and one reaches below zero.
PoolRanges == [p \in Pools |-> IF p = usdcWeth THEN {<<-120, 60>>, <<0, 60>>} ELSE {<<-10, 0>>}]

\* The price of usdcWeth moves onto an initialized tick and off it, by more ticks
\* than are looked up; that of altWeth moves across an initialized tick.
PriceTicks == [p \in Pools |-> IF p = usdcWeth THEN {-120, 5} ELSE {-5, 5}]
PricesOfTick == [t \in {-120, -5, 5} |-> IF t < 0 THEN <<1, 3>> ELSE <<2, 1>>]
==============================================================================
