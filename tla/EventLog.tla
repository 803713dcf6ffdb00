------------------------------ MODULE EventLog ------------------------------
(***************************************************************************)
(* What the event queue promises for one block when its events are         *)
(* processed in log order: the events that are due reach the entity tables *)
(* one after the other, and the block is complete only when all of them    *)
(* have.  A reset of the watcher discards the block's entities with its    *)
(* row; fetching its events again reopens it.                              *)
(***************************************************************************)
EXTENDS Integers

VARIABLES
  due,      \* the indexes of the events to be applied
  done,     \* those that have been
  complete  \* the block is marked complete

vars == <<due, done, complete>>

Init == due \subseteq Nat /\ done = {} /\ complete = FALSE

Apply ==
  /\ \E i \in due \ done :
       /\ \A j \in due : j < i => j \in done
       /\ done' = done \cup {i}
  /\ UNCHANGED <<due, complete>>

Finish ==
  /\ due \subseteq done
  /\ complete' = TRUE
  /\ UNCHANGED <<due, done>>

Reopen == complete' = FALSE /\ UNCHANGED <<due, done>>

Discard == done' = {} /\ complete' = FALSE /\ UNCHANGED due

Next == Apply \/ Finish \/ Reopen \/ Discard

Spec == Init /\ [][Next]_vars
=============================================================================
