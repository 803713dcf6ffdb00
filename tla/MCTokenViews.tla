---------------------------- MODULE MCTokenViews ----------------------------
(***************************************************************************)
(* A token that returns its name as a string, one that returns a null      *)
(* bytes32 and has a static definition, and one that returns nothing; two  *)
(* clients that may ask for the same view as the job.                      *)
(***************************************************************************)
EXTENDS TokenViews

CONSTANTS h, dai, mkr, dgd, bad, alice, bob

BlockNumber == [x \in {h} |-> 1]

TokenReturns ==
  [t \in {dai, mkr, dgd, bad} |->
     CASE t = dai -> "string" [] t = mkr -> "bytes32" [] t = dgd -> "null" [] t = bad -> "nothing"]

Asks(view, token, party) == [view |-> view, hash |-> h, token |-> token, party |-> party]

AskedFor ==
  {Asks("balanceOf", dai, alice), Asks("balanceOf", dai, bob),
   Asks("allowance", dai, <<alice, bob>>),
   Asks("name", dai, "none"), Asks("symbol", mkr, "none"), Asks("name", dgd, "none"),
   Asks("symbol", bad, "none"), Asks("decimals", bad, "none"),
   Asks("totalSupply", dai, "none")}

SomeEvents ==
  {[name |-> "Transfer", hash |-> h, token |-> dai, from |-> alice, to |-> bob],
   [name |-> "Transfer", hash |-> h, token |-> dai, from |-> alice, to |-> alice],
   [name |-> "Approval", hash |-> h, token |-> dai, owner |-> alice, spender |-> bob]}
=============================================================================
