--------------------------- MODULE EventProcessing ---------------------------
(***************************************************************************)
(* _processEvents of packages/util/src/job-runner.ts: the event-queue job  *)
(* of one block, with its retries, the transactions of the event handlers, *)
(* and the contracts that events create and that are watched from then on. *)
(*                                                                         *)
(* The block's events are chosen in Init.  An event names the contract     *)
(* that emits it and the contract it creates, if any.  Each list the code  *)
(* loops over is in index order, so that a set of indexes stands for it.   *)
(***************************************************************************)
EXTENDS Integers, FiniteSets

CONSTANTS
  NumEvents,
  Contracts,
  None,
  Factories,         \* contracts that create others
  InitiallyWatched,  \* the contract table before the block
  ServerWatches,     \* contracts the server starts to watch meanwhile
  Watchers,          \* the watchers whose job runner this may be
  MaxFaults,         \* bound: how many failures happen
  MaxRestarts,       \* bound: crashes and shutdowns of the process
  MaxRequeues        \* bound: events jobs pushed for the block once it is done

ASSUME EventsAssumption ==
  /\ NumEvents \in Nat \ {0}
  /\ None \notin Contracts
  /\ Factories \subseteq InitiallyWatched /\ InitiallyWatched \subseteq Contracts
  /\ ServerWatches \subseteq Contracts
  /\ Watchers \subseteq
       [subgraphEventsOrder : BOOLEAN, lazyUpdateBlockProgress : BOOLEAN,
        parsesUnwatched : BOOLEAN, watchesInHandler : BOOLEAN,
        faults : SUBSET {"handler", "watch", "update", "commit"}]
  /\ {MaxFaults, MaxRestarts, MaxRequeues} \subseteq Nat

\* The watcher that puts the events of created contracts last gets all its events
\* with their names.
ASSUME NamesAssumption ==
  \A w \in Watchers : w.subgraphEventsOrder => w.parsesUnwatched

VARIABLES
  watcher,     \* the configuration and the event handlers of the watcher
  log,         \* the block's events
  \* the database
  row,         \* the block_progress row
  contracts,   \* the contract table
  applied,     \* how often the effects of an event have been committed
  eventTable,  \* the indexes of the saved events
  job,         \* the block's job in QUEUE_EVENT_PROCESSING
  \* the memory of the process
  running, shutDown,
  watched,     \* the contracts isWatchedContract knows
  inMap,       \* _blockAndEventsMap has the block
  named,       \* events in it whose eventName is not UNKNOWN_EVENT_NAME
  worker,      \* the job being handled
  \* the counters of the named bounds
  spent

dbVars == <<row, contracts, applied, eventTable>>
memoryVars == <<running, shutDown, watched, inMap, named, worker>>
given == <<watcher, log>>
vars == <<given, dbVars, job, memoryVars, spent>>

subgraphEventsOrder == watcher.subgraphEventsOrder
lazyUpdateBlockProgress == watcher.lazyUpdateBlockProgress
\* Fetched events are named even if nobody watches them.
ParsesUnwatched == watcher.parsesUnwatched
\* A created contract is watched before the handler commits, not after.
WatchesInHandler == watcher.watchesInHandler

Indexes == 0..(NumEvents - 1)
First(indexes) == CHOOSE i \in indexes : \A j \in indexes : i <= j

FreshRow == [lastProcessedEventIndex |-> -1, isComplete |-> FALSE]
Idle == [step |-> "idle", block |-> FreshRow, events |-> {}, unwatched |-> {}]

CreatedBefore(i) == {log[j].creates : j \in {k \in Indexes : k < i}} \ {None}

\* Logs of a chain: only factories create, nothing is created twice, and a
\* contract emits events when it exists.
Logs ==
  {l \in [Indexes -> [contract : Contracts, creates : Contracts \cup {None}]] :
     \A i \in Indexes :
       LET before == {l[j].creates : j \in {k \in Indexes : k < i}} IN
       /\ l[i].creates # None => /\ l[i].contract \in Factories
                                 /\ l[i].creates \notin before \cup InitiallyWatched
                                 /\ l[i].creates \notin ServerWatches
       /\ l[i].contract \in before \cup InitiallyWatched \cup ServerWatches}

\* The events somebody watches for when they happen on the chain.
Due == {i \in Indexes : log[i].contract \in InitiallyWatched \cup CreatedBefore(i)}

\* The names parseEventNameAndArgs gives the events of the fetched logs.
NamedWhenFetched(contractSet) ==
  {i \in Indexes : ParsesUnwatched \/ log[i].contract \in contractSet}

\* A step fails; what it leaves watched is known by then.
Fault(kind) ==
  /\ kind \in watcher.faults /\ spent.faults < MaxFaults
  /\ spent' = [spent EXCEPT
       !.faults = @ + 1,
       !.afterHandler = IF kind = "handler" THEN @ ELSE @ + 1,
       !.onceWatched = IF CreatedBefore(NumEvents) \cap watched' = {} THEN @ ELSE @ + 1]

\* Mutant: the failed job is never taken again.
LoseJob == job' = "active" /\ worker' = Idle

\* The handler throws and the job is retried.
Retry == job' = "queued" /\ worker' = Idle

-----------------------------------------------------------------------------
(* The start of a job. *)

\* Mutant: the split is by the order of the log only.
SplitInLogOrder(block) ==
  [step |-> "events", block |-> block, events |-> Indexes, unwatched |-> {}]

\* "Divide the events into watched | unwatched contract events."
Split(block) ==
  LET seen == {i \in Indexes : log[i].contract \in watched} IN
  [step |-> "events", block |-> block,
   events |-> IF subgraphEventsOrder THEN seen ELSE Indexes,
   unwatched |-> IF subgraphEventsOrder THEN Indexes \ seen ELSE {}]

TakeJob ==
  /\ running /\ worker.step = "idle" /\ job = "queued"
  /\ job' = "active"
  /\ worker' = IF inMap THEN Split(row) ELSE [Idle EXCEPT !.step = "refetch", !.block = row]
  /\ UNCHANGED <<given, dbVars, running, shutDown, watched, inMap, named, spent>>

\* saveBlockAndFetchEvents writes the row's isComplete anew; the block in hand
\* is the one read before.
Refetch ==
  /\ worker.step = "refetch"
  /\ row' = [row EXCEPT !.isComplete = FALSE]
  /\ inMap' = TRUE
  /\ named' = NamedWhenFetched(watched)
  /\ worker' = Split(worker.block)
  /\ UNCHANGED <<given, contracts, applied, eventTable, job, running, shutDown,
                 watched, spent>>

-----------------------------------------------------------------------------
(* The two loops. *)

InFirstLoop == worker.events # {}
Current == First(IF InFirstLoop THEN worker.events ELSE worker.unwatched)
Looping == worker.step = "events" /\ (InFirstLoop \/ worker.unwatched # {})

DropCurrent(w) == [w EXCEPT !.events = @ \ {Current}, !.unwatched = @ \ {Current}]

\* Mutant: the last processed event itself is processed again.
BeforeLastProcessed(i) == i < worker.block.lastProcessedEventIndex

AlreadyProcessed(i) == i <= worker.block.lastProcessedEventIndex

\* Mutant: the event itself is compared.
OutOfOrderByOne ==
  /\ ~subgraphEventsOrder /\ Current > 0
  /\ Current # worker.block.lastProcessedEventIndex

\* "Check if previous event in block has been processed exactly before this."
OutOfOrder ==
  /\ ~subgraphEventsOrder /\ Current > 0
  /\ Current - 1 # worker.block.lastProcessedEventIndex

SkipEvent ==
  /\ Looping /\ InFirstLoop /\ AlreadyProcessed(Current)
  /\ worker' = DropCurrent(worker)
  /\ UNCHANGED <<given, dbVars, job, running, shutDown, watched, inMap, named, spent>>

Processing == Looping /\ (InFirstLoop => ~AlreadyProcessed(Current))

\* Mutant: the contract is watched from the next block on.
WatchLater == UNCHANGED <<contracts, watched>>

\* watchContract for the contract the event creates.
Watch ==
  /\ contracts' = contracts \cup ({log[Current].creates} \ {None})
  /\ watched' = watched \cup ({log[Current].creates} \ {None})

\* Mutant: an event fetched without a name keeps it that way.
LeaveUnknown == named' = named

\* The event of a contract that was not watched when the events were fetched.
ParseUnknown == named' = IF InFirstLoop THEN named \cup {Current} ELSE named

\* Mutant: always lazily.
AfterEventInMemory ==
  DropCurrent([worker EXCEPT !.block.lastProcessedEventIndex = Current])

\* Lazily, the row in memory is brought up to date; otherwise the row in the
\* database is, in a step of its own.
AfterEvent ==
  IF InFirstLoop /\ lazyUpdateBlockProgress
  THEN DropCurrent([worker EXCEPT !.block.lastProcessedEventIndex = Current])
  ELSE [worker EXCEPT !.step = "update"]

ProcessEvent ==
  /\ Processing
  /\ IF InFirstLoop /\ OutOfOrder
     THEN /\ Retry
          /\ UNCHANGED <<applied, contracts, watched, named>>
     ELSE /\ worker' = AfterEvent
          /\ IF log[Current].contract \in watched
             THEN /\ applied' = [applied EXCEPT ![Current] = @ + 1]
                  /\ Watch
                  /\ ParseUnknown
             ELSE UNCHANGED <<applied, contracts, watched, named>>
          /\ UNCHANGED job
  /\ UNCHANGED <<given, row, eventTable, running, shutDown, inMap, spent>>

\* Mutant: the error is swallowed and the loop goes on.
FailHandlerAndGoOn ==
  /\ Processing /\ ~(InFirstLoop /\ OutOfOrder)
  /\ log[Current].contract \in watched
  /\ worker' = AfterEvent
  /\ UNCHANGED <<given, dbVars, job, running, shutDown, watched, inMap, named>>
  /\ Fault("handler")

\* The handler fails: its transaction rolls back, and a contract it watched
\* before committing stays watched.
FailHandler ==
  /\ Processing /\ ~(InFirstLoop /\ OutOfOrder)
  /\ log[Current].contract \in watched
  /\ \/ UNCHANGED <<contracts, watched>>
     \/ WatchesInHandler /\ Watch
  /\ ParseUnknown
  /\ Retry
  /\ UNCHANGED <<given, row, applied, eventTable, running, shutDown, inMap>>
  /\ Fault("handler")

\* The handler has committed and watchContract fails.
FailWatch ==
  /\ Processing /\ ~(InFirstLoop /\ OutOfOrder)
  /\ log[Current].contract \in watched /\ log[Current].creates # None
  /\ ~WatchesInHandler
  /\ applied' = [applied EXCEPT ![Current] = @ + 1]
  /\ ParseUnknown
  /\ Retry
  /\ UNCHANGED <<given, row, contracts, eventTable, running, shutDown, watched, inMap>>
  /\ Fault("watch")

\* updateBlockProgress, which only ever raises the index.
UpdateProgress ==
  LET last == worker.block.lastProcessedEventIndex
      index == IF InFirstLoop \/ Current > last THEN Current ELSE last + 1
      block == [worker.block EXCEPT !.lastProcessedEventIndex = index]
  IN
  /\ worker.step = "update"
  /\ IF ~worker.block.isComplete /\ index <= last
     THEN Retry /\ UNCHANGED row
     ELSE /\ row' = IF worker.block.isComplete THEN worker.block ELSE block
          /\ worker' = DropCurrent([worker EXCEPT !.step = "events", !.block = row'])
          /\ UNCHANGED job
  /\ UNCHANGED <<given, contracts, applied, eventTable, running, shutDown, watched,
                 inMap, named, spent>>

FailUpdate ==
  /\ worker.step = "update"
  /\ Retry
  /\ UNCHANGED <<given, dbVars, running, shutDown, watched, inMap, named>>
  /\ Fault("update")

-----------------------------------------------------------------------------
(* "Save events and update block after block processing complete." *)

AtEnd == worker.step = "events" /\ worker.events = {} /\ worker.unwatched = {}

CompleteRow == [worker.block EXCEPT !.isComplete = TRUE]

\* Two transactions.  saveEvents fails on events that are saved already.  A
\* process told to shut down exits before it marks the job complete.
FinishBlock ==
  /\ AtEnd
  /\ row' = CompleteRow
  /\ IF named \cap eventTable # {}
     THEN /\ Retry
          /\ UNCHANGED <<eventTable, running, inMap>>
     ELSE /\ eventTable' = eventTable \cup named
          /\ inMap' = FALSE
          /\ worker' = Idle
          /\ job' = IF shutDown THEN "active" ELSE "done"
          /\ running' = ~shutDown
  /\ UNCHANGED <<given, contracts, applied, shutDown, watched, named, spent>>

\* One of the two fails.
FinishPartly ==
  /\ AtEnd
  /\ \/ row' = CompleteRow /\ UNCHANGED eventTable
     \/ /\ named \cap eventTable = {}
        /\ eventTable' = eventTable \cup named
        /\ UNCHANGED row
  /\ Retry
  /\ UNCHANGED <<given, contracts, applied, running, shutDown, watched, inMap, named>>
  /\ Fault("commit")

-----------------------------------------------------------------------------
(* What happens around the job. *)

\* JOB_KIND_CONTRACT: the server has started to watch a contract.
UpdateWatchedContracts(c) ==
  /\ running /\ worker.step = "idle" /\ c \notin watched
  /\ contracts' = contracts \cup {c}
  /\ watched' = watched \cup {c}
  /\ UNCHANGED <<given, row, applied, eventTable, job, running, shutDown, inMap, named,
                 worker, spent>>

\* The block is indexed again after its job is done.
Requeue ==
  /\ job = "done" /\ spent.requeues < MaxRequeues
  /\ job' = "queued"
  /\ spent' = [spent EXCEPT !.requeues = @ + 1]
  /\ UNCHANGED <<given, dbVars, memoryVars>>

\* SIGINT or SIGTERM
Signal ==
  /\ running /\ ~shutDown /\ spent.restarts < MaxRestarts
  /\ shutDown' = TRUE
  /\ spent' = [spent EXCEPT !.restarts = @ + 1]
  /\ UNCHANGED <<given, dbVars, job, running, watched, inMap, named, worker>>

Crash ==
  /\ running /\ spent.restarts < MaxRestarts
  /\ running' = FALSE /\ worker' = Idle
  /\ spent' = [spent EXCEPT !.restarts = @ + 1]
  /\ UNCHANGED <<given, dbVars, job, shutDown, watched, inMap, named>>

\* Mutant: the contracts of the configuration go as well.
ContractsOrNone == {contracts, {}}

\* The contracts first seen above the reset height may stay or go.
ContractsAfterReset == {contracts, InitiallyWatched}

\* start resets the watcher to a block below, and this block is indexed anew.
Restart ==
  /\ ~running
  /\ running' = TRUE /\ shutDown' = FALSE
  /\ contracts' \in ContractsAfterReset
  /\ watched' = contracts'
  /\ row' = FreshRow
  /\ applied' = [i \in Indexes |-> 0]
  /\ eventTable' = {}
  /\ job' = "queued"
  /\ inMap' = TRUE
  /\ named' = NamedWhenFetched(contracts')
  /\ worker' = Idle
  /\ UNCHANGED <<given, spent>>

Init ==
  /\ watcher \in Watchers
  /\ log \in Logs
  /\ row = FreshRow
  /\ contracts = InitiallyWatched /\ watched = InitiallyWatched
  /\ applied = [i \in Indexes |-> 0]
  /\ eventTable = {}
  /\ job = "queued"
  /\ running = TRUE /\ shutDown = FALSE
  /\ inMap = TRUE /\ named = NamedWhenFetched(InitiallyWatched)
  /\ worker = Idle
  /\ spent = [faults |-> 0, afterHandler |-> 0, onceWatched |-> 0, restarts |-> 0, requeues |-> 0]

Handle ==
  \/ TakeJob \/ Refetch \/ SkipEvent \/ ProcessEvent \/ UpdateProgress \/ FinishBlock

Next ==
  \/ Handle
  \/ FailHandler \/ FailWatch \/ FailUpdate \/ FinishPartly
  \/ \E c \in ServerWatches : UpdateWatchedContracts(c)
  \/ Requeue \/ Signal \/ Crash \/ Restart

Spec == Init /\ [][Next]_vars
FairSpec == Spec /\ WF_vars(Handle) /\ WF_vars(Restart)
-----------------------------------------------------------------------------
(* Properties. *)

Blocks ==
  [lastProcessedEventIndex : IF subgraphEventsOrder THEN Nat \cup {-1} ELSE -1..(NumEvents - 1),
   isComplete : BOOLEAN]

\* Rows, queues and process memory hold what their code puts there; only the
\* fallback index of the second loop can run past the events of the block.
TypeOK ==
  /\ row \in Blocks
  /\ InitiallyWatched \subseteq contracts /\ contracts \subseteq Contracts
  /\ InitiallyWatched \subseteq watched /\ watched \subseteq Contracts
  /\ applied \in [Indexes -> Nat]
  /\ eventTable \subseteq Indexes /\ named \subseteq Indexes
  /\ job \in {"queued", "active", "done"}
  /\ {running, shutDown, inMap} \subseteq BOOLEAN
  /\ worker \in [step : {"idle", "refetch", "events", "update"}, block : Blocks,
                 events : SUBSET Indexes, unwatched : SUBSET Indexes]

Applied == {i \in Indexes : applied[i] > 0}

\* The events whose order is promised: with subgraphEventsOrder, none.
DueInOrder == IF subgraphEventsOrder THEN {} ELSE Due

Abstract == INSTANCE EventLog
  WITH due <- DueInOrder, done <- DueInOrder \cap Applied, complete <- row.isComplete

\* Without subgraphEventsOrder the loop implements EventLog: through failures,
\* retries, repeated jobs, shutdowns and crashes the due events are applied one
\* after the other in log order, those of a contract created earlier in the same
\* block included, and the row says complete only after the last one.
AppliesInLogOrder == Abstract!Spec

\* The same promise without the order: a complete row has every due event applied.
\* With subgraphEventsOrder this allows for failures as long as no contract created in
\* the block is watched, such as a pool that is created but not watched; once one is, a
\* failure may have events skipped: see CreatedEventsProcessed.
CompleteAfterAll ==
  row.isComplete /\ (subgraphEventsOrder => spent.onceWatched = 0) => Due \subseteq Applied

\* With subgraphEventsOrder the contracts created in the block have their events applied
\* after those of the contracts watched before it, and in log order: also when events are
\* retried, unless the process restarts or fails when one of them is watched already.
CreatedContractsLast ==
  subgraphEventsOrder /\ spent.onceWatched = 0 /\ spent.restarts = 0 =>
    \A i \in Due \cap Applied, j \in Due :
      /\ log[i].contract \notin InitiallyWatched
      /\ log[j].contract \in InitiallyWatched \/ j < i
      => j \in Applied

\* When the row is kept up to date event by event, a failing handler, a repeated job
\* or a restart never applies the effects of an event twice; only a failure of what
\* follows the handler's commit does, once per failure.
AppliedOnce ==
  ~lazyUpdateBlockProgress => \A i \in Indexes : applied[i] <= 1 + spent.afterHandler

\* When the job is done the event table has every due event, also one that was
\* fetched before its contract was watched and had no name then.
DueEventsStored == job = "done" => Due \subseteq eventTable

\* The job gets done, the first, each repeated one and the one after each restart,
\* through retries, unless its events are saved already, by an attempt whose row was
\* not or by the job it repeats: every attempt then fails on the saved events.
JobGetsDone == []<>(job = "done" \/ named \cap eventTable # {})

\* The row ends up complete, even when the job can never be done again because
\* its events are saved already.
RowStaysComplete == <>[]row.isComplete

\* _processEvents: "Events of contract added in same block might be processed
\* multiple times.  This is because there is no check for lastProcessedEventIndex
\* against these events": processed at least once, then, before the block is complete.
CreatedEventsProcessed ==
  row.isComplete =>
    \A i \in Due : log[i].contract \notin InitiallyWatched => i \in Applied
=============================================================================
