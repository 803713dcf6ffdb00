-------------------------- MODULE MCEventProcessing --------------------------
(***************************************************************************)
(* Contracts for EventProcessing: a factory that is watched from the       *)
(* start, a pool it may create, and a contract nobody watches unless the   *)
(* server does; and the watchers, with the failures each is put through.   *)
(***************************************************************************)
EXTENDS EventProcessing

CONSTANTS factory, pool, other

\* uni-watcher: its handlers watch the pool they create before they commit.
UniWatcher ==
  [subgraphEventsOrder |-> FALSE, lazyUpdateBlockProgress |-> TRUE,
   parsesUnwatched |-> FALSE, watchesInHandler |-> TRUE,
   faults |-> {"handler", "commit"}]

\* The same with the row in the database kept up to date, and other failures.
EagerWatcher ==
  [subgraphEventsOrder |-> FALSE, lazyUpdateBlockProgress |-> FALSE,
   parsesUnwatched |-> FALSE, watchesInHandler |-> FALSE,
   faults |-> {"watch", "update"}]

\* uni-info-watcher: its events are named by uni-watcher, and its handler watches the
\* pool after its commit.
UniInfoWatcher ==
  [subgraphEventsOrder |-> TRUE, lazyUpdateBlockProgress |-> FALSE,
   parsesUnwatched |-> TRUE, watchesInHandler |-> FALSE,
   faults |-> {"handler", "watch"}]

AllWatchers == {UniWatcher, EagerWatcher, UniInfoWatcher}
OneWatcher == {UniInfoWatcher}
==============================================================================
