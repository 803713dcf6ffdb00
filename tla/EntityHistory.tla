---------------------------- MODULE EntityHistory ----------------------------
(***************************************************************************)
(* What the versions of uni-info-watcher's entities promise a reader: the  *)
(* entities at a block are those of its parent until its own events change *)
(* them; once its events are done they never change.                       *)
(***************************************************************************)
CONSTANTS Blocks, Parent, StartBlock, Ids, NoEntity

VARIABLES
  view,   \* the entities at each block that can be read
  open    \* the blocks whose events are not done

vars == <<view, open>>

Init ==
  /\ view = [b \in {StartBlock} |-> [id \in Ids |-> NoEntity]]
  /\ open = {}

\* A block is added below one whose events are done.
AddBlock(b) ==
  /\ b \notin DOMAIN view /\ Parent[b] \in DOMAIN view \ open
  /\ view' = [c \in DOMAIN view \cup {b} |-> IF c = b THEN view[Parent[b]] ELSE view[c]]
  /\ open' \in {open, open \cup {b}}

\* An event of a block changes some of the entities there.
Change(b) ==
  /\ b \in open
  /\ DOMAIN view' = DOMAIN view
  /\ \A c \in DOMAIN view \ {b} : view'[c] = view[c]
  /\ UNCHANGED open

Complete(b) ==
  /\ b \in open
  /\ open' = open \ {b}
  /\ UNCHANGED view

\* Blocks off the canonical chain and blocks to be indexed again are forgotten.
Forget ==
  /\ DOMAIN view' \subseteq DOMAIN view
  /\ \A b \in DOMAIN view' : view'[b] = view[b]
  /\ open' = open \cap DOMAIN view'

Next ==
  \/ \E b \in Blocks : AddBlock(b) \/ Change(b) \/ Complete(b)
  \/ Forget

Spec == Init /\ [][Next]_vars
=============================================================================
