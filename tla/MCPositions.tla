---------------------------- MODULE MCPositions ----------------------------
(***************************************************************************)
(* A fork of one block on a chain of three, with a token minted on both    *)
(* branches into different pools, a token of the pool that is skipped, and *)
(* a token minted and burned within a block.                               *)
(***************************************************************************)
EXTENDS Positions

CONSTANTS
  g, a1, a2, a3, b1,
  x, hot, gone,
  alice, bob,
  poolA, poolB

AllBlocks == {g, a1, a2, a3, b1}
Heights ==
  [b \in AllBlocks |-> CASE b = g -> 0 [] b \in {a1, b1} -> 1 [] b = a2 -> 2 [] b = a3 -> 3]
ParentHash ==
  [b \in AllBlocks |-> CASE b = g -> NoBlock [] b \in {a1, b1} -> g [] b = a2 -> a1 [] b = a3 -> a2]

AllTokens == {x, hot, gone}
AllIds ==
  AllTokens \cup {SnapshotId(x, 1), SnapshotId(x, 2), SnapshotId(gone, 1), SnapshotId(hot, 1),
                  SnapshotId(hot, 3)}

Ev(name, token, amount, to) == [name |-> name, token |-> token, amount |-> amount, to |-> to]
Logs ==
  [b \in AllBlocks |->
     CASE b = g -> <<>>
       [] b = a1 -> <<Ev("IncreaseLiquidity", x, 2, alice), Ev("Collect", x, 1, alice)>>
       [] b = b1 -> <<Ev("IncreaseLiquidity", x, 1, bob), Ev("IncreaseLiquidity", gone, 1, bob),
                      Ev("Transfer", hot, 0, bob)>>
       [] b = a2 -> <<Ev("Collect", x, 1, alice), Ev("DecreaseLiquidity", x, 1, alice)>>
       [] b = a3 -> <<Ev("Transfer", hot, 0, bob), Ev("IncreaseLiquidity", hot, 1, bob)>>]

Pools ==
  [b \in AllBlocks |-> [t \in AllTokens |->
     CASE b = b1 /\ t = x -> poolB
       [] b # g /\ t = x -> poolA
       [] t = hot -> HotFixPool
       [] OTHER -> NoPool]]
=============================================================================
