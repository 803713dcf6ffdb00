----------------------------- MODULE MCChainSync -----------------------------
(***************************************************************************)
(* Small block trees for ChainSync, all parts of one tree:                 *)
(*                                                                         *)
(*    g - a1 - a2 - a3 - a4                                                *)
(*          \- b2                                                          *)
(***************************************************************************)
EXTENDS ChainSync

CONSTANTS g, a1, a2, a3, a4, b2

TreeNumber ==
  [b \in Blocks |-> CASE b = g -> 0
                      [] b = a1 -> 1
                      [] b \in {a2, b2} -> 2
                      [] b = a3 -> 3
                      [] b = a4 -> 4]

TreeParent ==
  [b \in Blocks |-> CASE b = g -> NoBlock
                      [] b = a1 -> g
                      [] b \in {a2, b2} -> a1
                      [] b = a3 -> a2
                      [] b = a4 -> a3]

TreeAncestor ==
  LET up[k \in 0..MaxReorgDepth] ==
        [b \in Blocks |-> IF k = 0 THEN b
                          ELSE IF TreeParent[b] = NoBlock THEN NoBlock
                          ELSE up[k - 1][TreeParent[b]]]
  IN up
==============================================================================
