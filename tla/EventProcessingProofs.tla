------------------------ MODULE EventProcessingProofs ------------------------
(***************************************************************************)
(* What EventProcessing promises, for every log, watcher and bound: the    *)
(* events of a block are applied in order, once, and all of them before    *)
(* the block is complete; and the loop implements EventLog.                *)
(***************************************************************************)
EXTENDS EventProcessing, InductionLemmas

-----------------------------------------------------------------------------
(* The inductive invariant. *)

Counters ==
  [faults : Nat, afterHandler : Nat, onceWatched : Nat, restarts : Nat, requeues : Nat]

TypeInv == TypeOK /\ watcher \in Watchers /\ log \in Logs /\ spent \in Counters

last == worker.block.lastProcessedEventIndex
Looped == worker.step \in {"events", "update"}
Unhandled == worker.events \cup worker.unwatched
\* The event at hand has been handled once its progress is to be recorded.
Pending == IF worker.step = "update" THEN Unhandled \ {Current} ELSE Unhandled
CreatedInBlock(i) == log[i].contract \notin InitiallyWatched

\* A job in hand is that of a running process; its loops have events that can be told
\* apart, and the event whose progress is recorded was not processed before.
WorkerShape ==
  /\ worker.step = "idle" => worker = Idle
  /\ worker.step = "refetch" => ~inMap /\ Unhandled = {}
  /\ ~running => worker.step = "idle"
  /\ worker.step # "idle" => job = "active"
  /\ ~running \/ shutDown => spent.restarts > 0
  /\ worker.step = "update" => Unhandled # {} /\ (InFirstLoop => Current > last)
  /\ worker.events \cap worker.unwatched = {}
  /\ ~subgraphEventsOrder => worker.unwatched = {}
  /\ subgraphEventsOrder =>
       /\ \A i \in worker.events : log[i].contract \in watched
       /\ \A i \in worker.unwatched : CreatedInBlock(i)

\* The index of a row is that of the last event handled; a row that is complete has
\* them all behind it.
RowShape ==
  /\ worker.step = "refetch" => worker.block = row
  /\ worker.step # "idle" => last >= row.lastProcessedEventIndex
  /\ worker.step # "idle" /\ ~lazyUpdateBlockProgress => last = row.lastProcessedEventIndex
  /\ row.isComplete => row.lastProcessedEventIndex >= NumEvents - 1
  /\ worker.block.isComplete => last >= NumEvents - 1
  /\ Looped => \A i \in Indexes \ Unhandled : i <= last

\* An event is behind us: it is applied and will be stored if it is due, and the contract
\* it creates is watched.
Processed(i) ==
  /\ log[i].creates \in watched \cup {None}
  /\ i \in Due => applied[i] > 0 /\ i \in named

\* In log order, every event up to the last one is behind us.
InOrder ==
  ~subgraphEventsOrder =>
    /\ \A i \in Indexes :
         \/ i <= row.lastProcessedEventIndex
         \/ i <= last
         \/ worker.step = "update" /\ i <= Current
         => Processed(i)
    /\ worker.step = "update" => Current = 0 \/ Current - 1 = last

\* An event that may be skipped: it has been applied if it is due, and what it creates is
\* watched.
Settled(i) == log[i].creates \in watched \cup {None} /\ (i \in Due => i \in Applied)

\* An attempt that skips no event it should apply and misses no created contract.
GoodAttempt ==
  /\ Due \subseteq Applied \cup Pending
  /\ \A k \in Indexes : log[k].creates # None => k \in Pending \/ log[k].creates \in watched
  /\ \A i \in worker.events : i > last \/ Settled(i)

\* As long as nothing fails once a created contract is watched, an attempt starts with a
\* row whose events are settled or when all is done.
OutOfLogOrder ==
  subgraphEventsOrder /\ spent.onceWatched = 0 =>
    /\ row.isComplete \/ worker.block.isComplete \/ ~inMap => Due \subseteq Applied
    /\ running /\ worker.step = "idle" =>
         \/ \A i \in Indexes : i <= row.lastProcessedEventIndex => Settled(i)
         \/ Due \subseteq Applied
    /\ Looped => GoodAttempt \/ Due \subseteq Applied

NoneCreatedWatched ==
  \A k \in Indexes : log[k].creates # None => log[k].creates \notin watched

\* Then, and without restarts, the events of created contracts are left to the second
\* loop, which is in log order.
SecondLoopLast ==
  subgraphEventsOrder /\ spent.onceWatched = 0 /\ spent.restarts = 0 /\ ~(Due \subseteq Applied) =>
    /\ ~Looped => NoneCreatedWatched /\ \A i \in Due \cap Applied : ~CreatedInBlock(i)
    /\ Looped =>
         /\ \A i \in worker.events \cap Due : ~CreatedInBlock(i)
         /\ \A i \in Due \cap Applied : CreatedInBlock(i) =>
              worker.events = {} /\ \A k \in Pending : k > i

\* Every fetched event has its name from the start if unwatched events are parsed.
AllNamed == ParsesUnwatched => named = Indexes

\* An event that is not recorded yet was applied at most once per failure, and not at all
\* when it is in the second loop.
Budget ==
  /\ \A i \in Indexes : applied[i] > 0 => log[i].contract \in watched
  /\ \A i \in worker.unwatched \cap Pending : applied[i] = 0
  /\ ~lazyUpdateBlockProgress /\ running =>
       \A i \in Indexes :
         /\ i > row.lastProcessedEventIndex
         /\ worker.step = "update" => i # Current
         => applied[i] <= spent.afterHandler

EventsInv ==
  /\ TypeInv /\ WorkerShape /\ RowShape /\ InOrder /\ OutOfLogOrder /\ SecondLoopLast
  /\ AllNamed /\ Budget /\ AppliedOnce /\ DueEventsStored

-----------------------------------------------------------------------------
(* Facts about indexes, logs and the event at hand. *)

LEMMA FirstIsLeast ==
  ASSUME NEW S, S \subseteq Indexes, S # {}
  PROVE  First(S) \in S /\ \A j \in S : First(S) <= j
<1>1. S \subseteq Nat
  BY EventsAssumption DEF Indexes
<1>2. \E i \in S : \A j \in S : i <= j
  BY <1>1, LeastNumber
<1>3. QED BY <1>2 DEF First

LEMMA LogFacts ==
  ASSUME log \in Logs, NEW i \in Indexes
  PROVE  /\ log[i].contract \in Contracts
         /\ log[i].creates \in Contracts \cup {None}
         /\ log[i].creates # None =>
              /\ log[i].contract \in InitiallyWatched
              /\ log[i].creates \notin InitiallyWatched \cup ServerWatches
  BY EventsAssumption DEF Logs

LEMMA DueFacts ==
  /\ Due \subseteq Indexes
  /\ \A i \in Due : CreatedInBlock(i) =>
       \E k \in Indexes : k < i /\ log[k].creates = log[i].contract /\ log[k].creates # None
  BY DEF Due, CreatedBefore, CreatedInBlock

LEMMA CurrentIs ==
  ASSUME TypeInv, Unhandled # {}
  PROVE  /\ Current \in Indexes /\ Current \in Int /\ Current >= 0 /\ Current < NumEvents
         /\ InFirstLoop => Current \in worker.events /\ \A j \in worker.events : Current <= j
         /\ ~InFirstLoop => /\ Current \in worker.unwatched
                            /\ \A j \in worker.unwatched : Current <= j
<1>1. worker.events \subseteq Indexes /\ worker.unwatched \subseteq Indexes
  BY DEF TypeInv, TypeOK
<1>2. CASE InFirstLoop
  BY <1>1, <1>2, FirstIsLeast, EventsAssumption DEF Current, InFirstLoop, Indexes
<1>3. CASE ~InFirstLoop
  BY <1>1, <1>3, FirstIsLeast, EventsAssumption DEF Current, InFirstLoop, Unhandled, Indexes
<1>4. QED BY <1>2, <1>3

\* The fields of rows and workers.
LEMMA Fields ==
  ASSUME TypeInv
  PROVE  /\ row.lastProcessedEventIndex \in Int /\ row.lastProcessedEventIndex >= -1
         /\ last \in Int /\ last >= -1
         /\ row.isComplete \in BOOLEAN /\ worker.block.isComplete \in BOOLEAN
         /\ NumEvents \in Nat /\ NumEvents > 0 /\ Indexes \subseteq Int
         /\ Due \subseteq Indexes /\ Applied \subseteq Indexes
  BY EventsAssumption DEF TypeInv, TypeOK, Blocks, last, Due, Applied, Indexes

\* Nothing is due but what is watched once the events before it are behind us.
LEMMA DueIsWatched ==
  ASSUME TypeInv, NEW i \in Due,
         \A k \in Indexes : k < i => log[k].creates \in watched \cup {None}
  PROVE  log[i].contract \in watched
<1>1. CASE CreatedInBlock(i)
  BY <1>1, DueFacts
<1>2. CASE ~CreatedInBlock(i)
  BY <1>2 DEF CreatedInBlock, TypeInv, TypeOK
<1>3. QED BY <1>1, <1>2

-----------------------------------------------------------------------------
(* What happens around the job. *)

LEMMA SameLog ==
  ASSUME UNCHANGED given
  PROVE  /\ Due' = Due /\ \A i : CreatedInBlock(i)' = CreatedInBlock(i)
         /\ subgraphEventsOrder' = subgraphEventsOrder
         /\ lazyUpdateBlockProgress' = lazyUpdateBlockProgress
         /\ ParsesUnwatched' = ParsesUnwatched /\ Blocks' = Blocks
         /\ log \in Logs => log' \in Logs
  BY DEF given, Due, CreatedBefore, CreatedInBlock, subgraphEventsOrder, lazyUpdateBlockProgress,
         ParsesUnwatched, Blocks

LEMMA SplitIs ==
  ASSUME TypeInv, NEW block \in Blocks, worker' = Split(block), UNCHANGED <<given, watched>>
  PROVE  /\ worker'.step = "events" /\ worker'.block = block /\ last' = block.lastProcessedEventIndex
         /\ Looped' /\ Unhandled' = Indexes /\ Pending' = Indexes
         /\ worker'.events \cap worker'.unwatched = {}
         /\ worker'.events = IF subgraphEventsOrder
                             THEN {i \in Indexes : log[i].contract \in watched} ELSE Indexes
         /\ ~subgraphEventsOrder => worker'.unwatched = {}
         /\ subgraphEventsOrder => \A i \in worker'.unwatched : log[i].contract \notin watched
         /\ worker' \in [step : {"idle", "refetch", "events", "update"}, block : Blocks,
                         events : SUBSET Indexes, unwatched : SUBSET Indexes]
<1>1. /\ worker'.step = "events" /\ worker'.block = block
      /\ worker'.events = IF subgraphEventsOrder
                          THEN {i \in Indexes : log[i].contract \in watched} ELSE Indexes
      /\ worker'.unwatched = IF subgraphEventsOrder
                             THEN Indexes \ {i \in Indexes : log[i].contract \in watched} ELSE {}
      /\ worker' \in [step : {"idle", "refetch", "events", "update"}, block : Blocks,
                      events : SUBSET Indexes, unwatched : SUBSET Indexes]
  BY DEF Split
<1>2. Looped' /\ Unhandled' = Indexes /\ Pending' = Indexes
  BY <1>1 DEF Looped, Unhandled, Pending
<1>3. QED BY <1>1, <1>2 DEF last

\* An attempt begins, with a block in hand whose index is that of the row.
LEMMA AttemptBegins ==
  ASSUME EventsInv, NEW block \in Blocks, worker' = Split(block),
         UNCHANGED <<given, contracts, applied, eventTable, running, shutDown, watched, spent>>,
         row' \in Blocks, job' = "active", inMap' \in BOOLEAN,
         row'.lastProcessedEventIndex = row.lastProcessedEventIndex,
         block.lastProcessedEventIndex = row.lastProcessedEventIndex,
         row'.isComplete => row.isComplete, block.isComplete => row.isComplete,
         running, worker.step \in {"idle", "refetch"},
         \/ worker.step = "idle" /\ inMap /\ inMap' /\ row' = row /\ UNCHANGED named
         \/ worker.step = "refetch" /\ ~inMap /\ inMap' /\ named' = NamedWhenFetched(watched)
  PROVE  EventsInv'
<1> USE DEF EventsInv
<1> USE SameLog, Fields
<1>a. /\ worker'.step = "events" /\ worker'.block = block
      /\ last' = row.lastProcessedEventIndex
      /\ Looped' /\ Unhandled' = Indexes /\ Pending' = Indexes
  BY SplitIs
<1>b. /\ worker'.events \cap worker'.unwatched = {}
      /\ worker'.events = IF subgraphEventsOrder
                          THEN {i \in Indexes : log[i].contract \in watched} ELSE Indexes
      /\ ~subgraphEventsOrder => worker'.unwatched = {}
      /\ subgraphEventsOrder => \A i \in worker'.unwatched : log[i].contract \notin watched
      /\ worker' \in [step : {"idle", "refetch", "events", "update"}, block : Blocks,
                      events : SUBSET Indexes, unwatched : SUBSET Indexes]
  BY SplitIs
<1> USE <1>a, <1>b
<1>1. TypeInv'
  <2>1. named' \subseteq Indexes
    BY DEF NamedWhenFetched, TypeInv, TypeOK
  <2>2. QED BY <2>1 DEF TypeInv, TypeOK, given
<1>2. WorkerShape'
  BY DEF WorkerShape, TypeInv, TypeOK, given, CreatedInBlock
<1>3. RowShape'
  BY DEF RowShape
<1>4. InOrder'
  <2>1. SUFFICES ASSUME ~subgraphEventsOrder, NEW i \in Indexes,
                        i <= row.lastProcessedEventIndex
                 PROVE  Processed(i)'
    BY DEF InOrder
  <2>2. \A k \in Indexes : k <= row.lastProcessedEventIndex => Processed(k)
    BY <2>1 DEF InOrder
  <2>3. i \in Due => i \in named'
    <3>1. CASE UNCHANGED named
      BY <2>1, <2>2, <3>1 DEF Processed
    <3>2. CASE i \in Due /\ named' = NamedWhenFetched(watched)
      <4>1. \A k \in Indexes : k < i => log[k].creates \in watched \cup {None}
        BY <2>1, <2>2 DEF Processed
      <4>2. log[i].contract \in watched
        BY <3>2, <4>1, DueIsWatched
      <4>3. QED BY <3>2, <4>2 DEF NamedWhenFetched
    <3>3. QED BY <3>1, <3>2
  <2>4. QED BY <2>1, <2>2, <2>3 DEF Processed, given
<1>5. OutOfLogOrder'
  <2>1. Applied' = Applied
    BY DEF Applied
  <2>2. SUFFICES ASSUME subgraphEventsOrder, spent.onceWatched = 0
                 PROVE  /\ row'.isComplete \/ block.isComplete => Due \subseteq Applied
                        /\ GoodAttempt' \/ Due \subseteq Applied
    BY <2>1 DEF OutOfLogOrder
  <2>3. \A i \in Indexes : Settled(i)' = Settled(i)
    BY <2>1 DEF Settled, given
  <2>4. ASSUME \A i \in Indexes : i <= row.lastProcessedEventIndex => Settled(i)
        PROVE  GoodAttempt'
    BY <2>3, <2>4 DEF GoodAttempt
  <2>5. QED BY <2>1, <2>2, <2>4 DEF OutOfLogOrder
<1>6. SecondLoopLast'
  <2>1. Applied' = Applied
    BY DEF Applied
  <2>2. SUFFICES ASSUME subgraphEventsOrder, spent.onceWatched = 0, spent.restarts = 0,
                        ~(Due \subseteq Applied)
                 PROVE  /\ \A i \in worker'.events \cap Due : ~CreatedInBlock(i)
                        /\ \A i \in Due \cap Applied : ~CreatedInBlock(i)
    BY <2>1 DEF SecondLoopLast
  <2>3. NoneCreatedWatched /\ \A i \in Due \cap Applied : ~CreatedInBlock(i)
    BY <2>2 DEF SecondLoopLast, Looped
  <2>4. QED BY <2>2, <2>3, DueFacts DEF NoneCreatedWatched
<1>7. AllNamed'
  BY DEF AllNamed, NamedWhenFetched
<1>8. Budget'
  <2>1. applied \in [Indexes -> Nat]
    BY DEF TypeInv, TypeOK
  <2>2. \A i \in worker'.unwatched : applied[i] = 0
    BY <2>1 DEF Budget
  <2>3. QED BY <2>2 DEF Budget, given
<1>9. AppliedOnce' /\ DueEventsStored'
  BY DEF AppliedOnce, DueEventsStored
<1>10. QED BY <1>1, <1>2, <1>3, <1>4, <1>5, <1>6, <1>7, <1>8, <1>9

LEMMA TakeJobKeeps ==
  ASSUME EventsInv, TakeJob
  PROVE  EventsInv'
<1>1. CASE inMap
  <2>1. worker' = Split(row)
    BY <1>1 DEF TakeJob
  <2>2. QED BY <1>1, <2>1, AttemptBegins DEF TakeJob, dbVars, EventsInv, TypeInv, TypeOK
<1>2. CASE ~inMap
  <2> USE SameLog, Fields DEF EventsInv
  <2>1. UNCHANGED <<given, dbVars, running, shutDown, watched, inMap, named, spent>>
    BY DEF TakeJob
  <2>2. worker' = [Idle EXCEPT !.step = "refetch", !.block = row]
    BY <1>2 DEF TakeJob
  <2>3. /\ worker'.step = "refetch" /\ worker'.block = row
        /\ worker'.events = {} /\ worker'.unwatched = {}
        /\ last' = row.lastProcessedEventIndex
        /\ ~Looped' /\ Unhandled' = {} /\ Pending' = {}
        /\ worker' \in [step : {"idle", "refetch", "events", "update"}, block : Blocks,
                        events : SUBSET Indexes, unwatched : SUBSET Indexes]
    BY <2>2 DEF Idle, last, Looped, Unhandled, Pending, TypeInv, TypeOK
  <2>4. job' = "active" /\ running
    BY DEF TakeJob
  <2> USE <2>1, <2>3, <2>4 DEF given, dbVars
  <2>5. TypeInv'
    BY DEF TypeInv, TypeOK
  <2>6. WorkerShape' /\ RowShape'
    BY <1>2 DEF WorkerShape, RowShape
  <2>7. InOrder'
    BY DEF InOrder, Processed
  <2>8. Applied' = Applied
    BY DEF Applied
  <2>9. OutOfLogOrder' /\ SecondLoopLast'
    BY <2>8, <1>2 DEF OutOfLogOrder, SecondLoopLast, NoneCreatedWatched
  <2>10. AllNamed' /\ AppliedOnce' /\ DueEventsStored'
    BY DEF AllNamed, AppliedOnce, DueEventsStored
  <2>11. Budget'
    BY DEF Budget, TakeJob
  <2>12. QED BY <2>5, <2>6, <2>7, <2>9, <2>10, <2>11
<1>3. QED BY <1>1, <1>2 DEF EventsInv, TypeInv, TypeOK

LEMMA RefetchKeeps ==
  ASSUME EventsInv, Refetch
  PROVE  EventsInv'
<1>1. worker.block \in Blocks /\ row' \in Blocks /\ running /\ ~inMap
  BY Fields DEF EventsInv, TypeInv, TypeOK, WorkerShape, Refetch, Blocks
<1>2. worker.block = row /\ job = "active"
  BY DEF Refetch, EventsInv, WorkerShape, RowShape
<1>3. row'.lastProcessedEventIndex = row.lastProcessedEventIndex /\ ~row'.isComplete
  BY DEF Refetch, EventsInv, TypeInv, TypeOK, Blocks
<1>4. QED
  BY <1>1, <1>2, <1>3, AttemptBegins DEF Refetch

\* At the end of both loops every event is behind the block in hand.
LEMMA AtEndIsLast ==
  ASSUME EventsInv, AtEnd
  PROVE  /\ last >= NumEvents - 1 /\ \A i \in Indexes : i <= last
         /\ ~subgraphEventsOrder => \A i \in Indexes : Processed(i)
         /\ subgraphEventsOrder /\ spent.onceWatched = 0 => Due \subseteq Applied
<1> USE Fields DEF EventsInv
<1>1. Looped /\ Unhandled = {} /\ Pending = {}
  BY DEF AtEnd, Looped, Unhandled, Pending
<1>2. \A i \in Indexes : i <= last
  BY <1>1 DEF RowShape
<1>3. NumEvents - 1 \in Indexes
  BY DEF Indexes
<1>4. ~subgraphEventsOrder => \A i \in Indexes : Processed(i)
  BY <1>2 DEF InOrder
<1>5. subgraphEventsOrder /\ spent.onceWatched = 0 => Due \subseteq Applied
  BY <1>1 DEF OutOfLogOrder, GoodAttempt
<1>6. QED BY <1>2, <1>3, <1>4, <1>5

\* Where no created contract is watched, an attempt has settled all events up to the index
\* of the row: what it leaves to the second loop comes after the event that creates its
\* contract.
LEMMA SettledSoFar ==
  ASSUME EventsInv, Looped, subgraphEventsOrder, spent.onceWatched = 0, ~(Due \subseteq Applied),
         \A k \in Indexes : log[k].creates # None => log[k].creates \notin watched
  PROVE  \A i \in Indexes : i <= row.lastProcessedEventIndex => Settled(i)
<1> USE Fields DEF EventsInv
<1>1. /\ Due \subseteq Applied \cup Pending
      /\ \A k \in Indexes : log[k].creates # None => k \in Pending
      /\ \A i \in worker.events : i > last \/ Settled(i)
  BY DEF OutOfLogOrder, GoodAttempt
<1>2. row.lastProcessedEventIndex <= last
  BY DEF RowShape, Looped
<1>3. Pending \subseteq worker.events \cup worker.unwatched
  BY DEF Pending, Unhandled
<1>4. ASSUME NEW k \in Indexes, log[k].creates # None PROVE k > last
  <2>1. k \in worker.events
    BY <1>1, <1>3, <1>4, LogFacts DEF WorkerShape, CreatedInBlock, TypeInv
  <2>2. ~Settled(k)
    BY <1>4 DEF Settled
  <2>3. QED BY <1>1, <2>1, <2>2
<1>5. ASSUME NEW i \in Due, i <= last PROVE i \in Applied
  <2>1. CASE i \in worker.events
    BY <1>1, <1>5, <2>1 DEF Settled
  <2>2. CASE i \in worker.unwatched
    <3>1. PICK k \in Indexes : k < i /\ log[k].creates # None
      BY <2>2, DueFacts DEF WorkerShape
    <3>2. QED BY <1>4, <1>5, <3>1
  <2>3. QED BY <1>1, <1>3, <2>1, <2>2
<1>6. ASSUME NEW i \in Indexes, i <= row.lastProcessedEventIndex PROVE Settled(i)
  <2>1. i <= last
    BY <1>2, <1>6
  <2>2. log[i].creates = None
    BY <1>4, <2>1
  <2>3. QED BY <1>5, <2>1, <2>2 DEF Settled
<1>7. QED BY <1>6

\* The worker drops its job, after a failure, out of order, or because the process dies.
LEMMA DropJob ==
  ASSUME EventsInv, worker' = Idle, UNCHANGED given,
         job' \in {"queued", "active", "done"},
         job' = "done" => UNCHANGED <<job, eventTable>> \/ Due \subseteq eventTable',
         row' = row \/ (AtEnd /\ row' = CompleteRow),
         contracts \subseteq contracts', contracts' \subseteq Contracts,
         watched \subseteq watched', watched' \subseteq Contracts,
         applied' \in [Indexes -> Nat], \A i \in Indexes : applied[i] <= applied'[i],
         eventTable' \subseteq Indexes, named \subseteq named', named' \subseteq Indexes,
         running' \in BOOLEAN, shutDown' \in BOOLEAN, inMap' \in BOOLEAN, spent' \in Counters,
         ~running' \/ shutDown' => spent'.restarts > 0,
         \/ ~subgraphEventsOrder
         \/ spent'.onceWatched > 0
         \/ /\ Looped /\ NoneCreatedWatched' /\ UNCHANGED <<row, inMap>>
            /\ spent.onceWatched = 0 /\ spent'.restarts = spent.restarts
         \/ Due \subseteq Applied
         \/ ~running' /\ spent'.onceWatched = spent.onceWatched /\ spent'.restarts > 0
              /\ UNCHANGED <<row, inMap, applied>>,
         \A i \in Indexes : applied'[i] > 0 => log[i].contract \in watched',
         ~lazyUpdateBlockProgress =>
           \A i \in Indexes :
             /\ applied'[i] <= 1 + spent'.afterHandler
             /\ running' /\ i > row'.lastProcessedEventIndex => applied'[i] <= spent'.afterHandler
  PROVE  EventsInv'
<1> USE SameLog, Fields DEF EventsInv
<1>1. /\ worker'.step = "idle" /\ last' = -1 /\ worker'.events = {} /\ worker'.unwatched = {}
      /\ worker'.block = FreshRow /\ ~worker'.block.isComplete
      /\ ~Looped' /\ Unhandled' = {} /\ Pending' = {}
  BY DEF Idle, FreshRow, last, Looped, Unhandled, Pending
<1>2. /\ row' \in Blocks /\ FreshRow \in Blocks
      /\ row'.lastProcessedEventIndex \in {row.lastProcessedEventIndex, last}
      /\ row'.isComplete => row'.lastProcessedEventIndex >= NumEvents - 1
  <2>1. worker.block \in Blocks /\ row \in Blocks
    BY DEF TypeInv, TypeOK
  <2>2. FreshRow \in Blocks
    BY DEF Blocks, FreshRow
  <2>3. CASE row' = row
    BY <2>1, <2>2, <2>3 DEF RowShape
  <2>4. CASE AtEnd /\ row' = CompleteRow
    <3>1. /\ row' \in Blocks /\ row'.isComplete = TRUE /\ row'.lastProcessedEventIndex = last
      BY <2>1, <2>4 DEF CompleteRow, Blocks, last
    <3>2. last >= NumEvents - 1
      BY <2>4, AtEndIsLast
    <3>3. QED BY <2>2, <3>1, <3>2
  <2>5. QED BY <2>3, <2>4
<1>3. TypeInv'
  <2>1. Idle \in [step : {"idle", "refetch", "events", "update"}, block : Blocks,
                  events : SUBSET Indexes, unwatched : SUBSET Indexes]
    BY <1>2 DEF Idle
  <2>2. /\ InitiallyWatched \subseteq contracts' /\ contracts' \subseteq Contracts
        /\ InitiallyWatched \subseteq watched' /\ watched' \subseteq Contracts
    BY DEF TypeInv, TypeOK
  <2>3. TypeOK'
    BY <1>2, <2>1, <2>2 DEF TypeOK
  <2>4. QED BY <2>3 DEF TypeInv, given
<1>4. WorkerShape' /\ RowShape'
  BY <1>1, <1>2 DEF WorkerShape, RowShape
<1>5. InOrder'
  <2>1. \A i \in Indexes : ~subgraphEventsOrder /\ i <= row'.lastProcessedEventIndex => Processed(i)
    BY <1>2 DEF InOrder
  <2>2. \A i \in Indexes : Processed(i) => Processed(i)'
    BY DEF Processed, TypeInv, TypeOK, given
  <2>3. QED BY <1>1, <2>1, <2>2 DEF InOrder, Indexes
<1>6. OutOfLogOrder' /\ SecondLoopLast'
  <2>1. Applied \subseteq Applied'
    BY DEF Applied, TypeInv, TypeOK
  <2>2. CASE Due \subseteq Applied
    BY <1>1, <2>1, <2>2 DEF OutOfLogOrder, SecondLoopLast
  <2>3. CASE ~subgraphEventsOrder \/ spent'.onceWatched > 0
    BY <1>1, <2>3 DEF OutOfLogOrder, SecondLoopLast, Counters
  <2>a. CASE /\ subgraphEventsOrder /\ ~(Due \subseteq Applied)
             /\ Looped /\ NoneCreatedWatched' /\ UNCHANGED <<row, inMap>>
             /\ spent.onceWatched = 0 /\ spent'.restarts = spent.restarts
    <3>1. \A i \in Indexes : i <= row.lastProcessedEventIndex => Settled(i)
      BY <2>a, SettledSoFar DEF NoneCreatedWatched, given
    <3>2. \A i \in Indexes : Settled(i) => Settled(i)'
      BY <2>1 DEF Settled, given
    <3>3. \A i \in Due \cap Applied' : ~CreatedInBlock(i)
      BY <2>a, DueFacts DEF NoneCreatedWatched, given, Applied
    <3>4. ~row.isComplete /\ inMap
      BY <2>a DEF OutOfLogOrder
    <3>5. OutOfLogOrder'
      BY <1>1, <2>a, <3>1, <3>2, <3>4 DEF OutOfLogOrder
    <3>6. SecondLoopLast'
      BY <1>1, <2>a, <3>3 DEF SecondLoopLast
    <3>7. QED BY <3>5, <3>6
  <2>4. CASE /\ ~running' /\ spent'.onceWatched = spent.onceWatched /\ spent'.restarts > 0
             /\ UNCHANGED <<row, inMap, applied>>
    BY <1>1, <2>4 DEF OutOfLogOrder, SecondLoopLast, Applied, Counters
  <2>5. QED BY <2>2, <2>3, <2>a, <2>4
<1>7. AllNamed' /\ DueEventsStored'
  <2>1. job' = "done" =>
          \/ job = "done" /\ eventTable' = eventTable
          \/ Due \subseteq eventTable'
    OBVIOUS
  <2>2. ParsesUnwatched => named' = Indexes
    BY DEF AllNamed
  <2>3. QED BY <2>1, <2>2 DEF AllNamed, DueEventsStored
<1>8. Budget' /\ AppliedOnce'
  BY <1>1 DEF Budget, AppliedOnce, given
<1>9. QED BY <1>3, <1>4, <1>5, <1>6, <1>7, <1>8

LEMMA CrashKeeps ==
  ASSUME EventsInv, Crash
  PROVE  EventsInv'
<1> USE Fields DEF EventsInv
<1>1. /\ worker' = Idle /\ ~running'
      /\ UNCHANGED <<given, row, contracts, applied, eventTable, job, shutDown, watched, inMap,
                     named>>
  BY DEF Crash, dbVars
<1>2. spent' = [spent EXCEPT !.restarts = @ + 1]
  BY DEF Crash
<1>3. /\ spent' \in Counters /\ spent'.onceWatched = spent.onceWatched /\ spent'.restarts > 0
      /\ spent'.afterHandler = spent.afterHandler
  BY <1>2 DEF TypeInv, Counters
<1>4. applied \in [Indexes -> Nat] /\ \A i \in Indexes : applied[i] > 0 => log[i].contract \in watched
  BY DEF TypeInv, TypeOK, Budget
<1>5. ~lazyUpdateBlockProgress => \A i \in Indexes : applied[i] <= 1 + spent.afterHandler
  BY DEF AppliedOnce
<1>6. UNCHANGED <<job, eventTable>> /\ job' \in {"queued", "active", "done"}
  BY <1>1 DEF TypeInv, TypeOK
<1>7. /\ contracts' \subseteq Contracts /\ watched' \subseteq Contracts
      /\ eventTable' \subseteq Indexes /\ named' \subseteq Indexes
      /\ running' \in BOOLEAN /\ shutDown' \in BOOLEAN /\ inMap' \in BOOLEAN
  BY <1>1 DEF TypeInv, TypeOK, Crash
<1>8. \A i \in Indexes : applied[i] <= applied'[i]
  BY <1>1, <1>4
<1>9. QED
  BY <1>1, <1>3, <1>4, <1>5, <1>6, <1>7, <1>8, DropJob

\* A failure is counted, and whether a created contract is watched by then.
LEMMA FaultCounted ==
  ASSUME TypeInv, NEW kind, Fault(kind), UNCHANGED given
  PROVE  /\ spent' \in Counters /\ spent'.restarts = spent.restarts
         /\ kind = "handler" => spent'.afterHandler = spent.afterHandler
         /\ kind # "handler" => spent'.afterHandler = spent.afterHandler + 1
         /\ spent.afterHandler \in Nat
         /\ spent'.onceWatched > 0 \/ (NoneCreatedWatched' /\ spent.onceWatched = 0)
<1> DEFINE failures == IF kind = "handler" THEN spent.afterHandler ELSE spent.afterHandler + 1
           noneWatched == CreatedBefore(NumEvents) \cap watched' = {}
           watchedFailures == IF noneWatched THEN spent.onceWatched ELSE spent.onceWatched + 1
           counted == [spent EXCEPT !.faults = spent.faults + 1]
           counted2 == [counted EXCEPT !.afterHandler = failures]
<1>1. spent' = [counted2 EXCEPT !.onceWatched = watchedFailures]
  BY DEF Fault
<1>2. spent \in Counters
  BY DEF TypeInv
<1>3. counted \in Counters /\ counted.restarts = spent.restarts
  BY <1>2 DEF Counters
<1>4. failures \in Nat /\ watchedFailures \in Nat /\ spent.onceWatched \in Nat
  BY <1>2 DEF Counters
<1> HIDE DEF counted, failures, watchedFailures
<1>5. counted2 \in Counters /\ counted2.restarts = spent.restarts /\ counted2.afterHandler = failures
  BY <1>3, <1>4 DEF Counters
<1> HIDE DEF counted2
<1>6. /\ spent' \in Counters /\ spent'.restarts = spent.restarts
      /\ spent'.afterHandler = failures /\ spent'.onceWatched = watchedFailures
  BY <1>1, <1>4, <1>5 DEF Counters
<1>7. noneWatched => NoneCreatedWatched'
  <2>1. \A k \in Indexes : k < NumEvents
    BY EventsAssumption DEF Indexes
  <2>2. QED BY <2>1 DEF NoneCreatedWatched, CreatedBefore, given
<1>8. ~noneWatched => watchedFailures > 0
  BY <1>4 DEF watchedFailures
<1>9. noneWatched => watchedFailures = spent.onceWatched
  BY DEF watchedFailures
<1> HIDE DEF noneWatched
<1>10. spent'.onceWatched > 0 \/ (NoneCreatedWatched' /\ spent.onceWatched = 0)
  <2>1. CASE noneWatched
    <3>1. spent'.onceWatched = spent.onceWatched /\ NoneCreatedWatched'
      BY <1>6, <1>7, <1>9, <2>1
    <3>2. spent.onceWatched > 0 \/ spent.onceWatched = 0
      BY <1>4
    <3>3. QED BY <3>1, <3>2
  <2>2. CASE ~noneWatched
    BY <1>6, <1>8, <2>2
  <2>3. QED BY <2>1, <2>2
<1>11. QED BY <1>2, <1>6, <1>10 DEF Counters, failures

LEMMA ProcessingIs ==
  ASSUME TypeInv, Processing
  PROVE  /\ Unhandled # {} /\ worker.step = "events" /\ Looped /\ Pending = Unhandled
         /\ InFirstLoop => Current > last
  BY CurrentIs, Fields
  DEF Processing, Looping, Unhandled, InFirstLoop, Looped, Pending, AlreadyProcessed, last

\* What the handler of the event at hand does to contracts and names keeps their types.
LEMMA WatchKeepsTypes ==
  ASSUME TypeInv, Unhandled # {}
  PROVE  /\ Watch => /\ contracts \subseteq contracts' /\ contracts' \subseteq Contracts
                     /\ watched \subseteq watched' /\ watched' \subseteq Contracts
                     /\ log[Current].creates \in watched' \cup {None}
         /\ ParseUnknown => named \subseteq named' /\ named' \subseteq Indexes
  BY CurrentIs, LogFacts DEF TypeInv, TypeOK, Watch, ParseUnknown

LEMMA FailHandlerKeeps ==
  ASSUME EventsInv, FailHandler
  PROVE  EventsInv'
<1> USE Fields DEF EventsInv
<1>1. Unhandled # {} /\ worker.step = "events"
  BY ProcessingIs DEF FailHandler
<1>2. /\ contracts \subseteq contracts' /\ contracts' \subseteq Contracts
      /\ watched \subseteq watched' /\ watched' \subseteq Contracts
      /\ named \subseteq named' /\ named' \subseteq Indexes
  BY <1>1, WatchKeepsTypes DEF FailHandler, TypeInv, TypeOK
<1>3. /\ spent' \in Counters /\ spent'.afterHandler = spent.afterHandler
      /\ ~running' \/ shutDown' => spent'.restarts > 0
      /\ spent'.restarts = spent.restarts /\ Looped
      /\ spent'.onceWatched > 0 \/ (NoneCreatedWatched' /\ spent.onceWatched = 0)
  BY <1>1, FaultCounted DEF FailHandler, WorkerShape, Looped
<1>4. /\ worker' = Idle /\ job' = "queued"
      /\ UNCHANGED <<given, row, applied, eventTable, running, shutDown, inMap>>
  BY DEF FailHandler, Retry
<1>5. QED
  BY <1>1, <1>2, <1>3, <1>4, DropJob DEF TypeInv, TypeOK, Budget, AppliedOnce

\* Without laziness the block in hand is as far as the row.
LEMMA ApplyWithinBudget ==
  ASSUME EventsInv, Processing, ~lazyUpdateBlockProgress
  PROVE  applied[Current] <= spent.afterHandler
<1> USE Fields, CurrentIs, ProcessingIs DEF EventsInv
<1>1. worker.step = "events" /\ running
  BY DEF WorkerShape
<1>2. CASE InFirstLoop
  BY <1>1, <1>2 DEF Budget, RowShape
<1>3. CASE ~InFirstLoop
  <2>1. applied[Current] = 0
    BY <1>1, <1>3 DEF Budget, Unhandled
  <2>2. spent.afterHandler \in Nat
    BY DEF TypeInv, Counters
  <2>3. QED BY <2>1, <2>2
<1>4. QED BY <1>2, <1>3

LEMMA FailWatchKeeps ==
  ASSUME EventsInv, FailWatch
  PROVE  EventsInv'
<1> USE Fields DEF EventsInv
<1>1. Unhandled # {} /\ worker.step = "events" /\ Current \in Indexes /\ Processing /\ running
  BY ProcessingIs, CurrentIs DEF FailWatch, WorkerShape
<1>2. named \subseteq named' /\ named' \subseteq Indexes
  BY <1>1, WatchKeepsTypes DEF FailWatch
<1>3. /\ spent' \in Counters /\ spent'.afterHandler = spent.afterHandler + 1
      /\ spent.afterHandler \in Nat
      /\ ~running' \/ shutDown' => spent'.restarts > 0
      /\ spent'.restarts = spent.restarts /\ Looped
      /\ spent'.onceWatched > 0 \/ (NoneCreatedWatched' /\ spent.onceWatched = 0)
  BY <1>1, FaultCounted DEF FailWatch, WorkerShape, Looped
<1>4. /\ worker' = Idle /\ job' = "queued"
      /\ applied' = [applied EXCEPT ![Current] = @ + 1] /\ log[Current].contract \in watched
      /\ UNCHANGED <<given, row, contracts, eventTable, running, shutDown, watched, inMap>>
  BY DEF FailWatch, Retry
<1>5. applied \in [Indexes -> Nat] /\ applied' \in [Indexes -> Nat]
  BY <1>1, <1>4 DEF TypeInv, TypeOK
<1>6. \A i \in Indexes : /\ applied[i] <= applied'[i]
                         /\ applied'[i] > 0 => log[i].contract \in watched'
  BY <1>1, <1>4, <1>5 DEF Budget
<1>7. ASSUME ~lazyUpdateBlockProgress, NEW i \in Indexes
      PROVE  /\ applied'[i] <= 1 + spent'.afterHandler
             /\ i > row'.lastProcessedEventIndex => applied'[i] <= spent'.afterHandler
  <2>1. CASE i = Current
    BY <1>1, <1>3, <1>4, <1>5, <1>7, <2>1, ApplyWithinBudget
  <2>2. CASE i # Current
    BY <1>1, <1>3, <1>4, <1>5, <1>7, <2>2 DEF Budget, AppliedOnce
  <2>3. QED BY <2>1, <2>2
<1>8. QED
  BY <1>1, <1>2, <1>3, <1>4, <1>5, <1>6, <1>7, DropJob DEF TypeInv, TypeOK

LEMMA FailUpdateKeeps ==
  ASSUME EventsInv, FailUpdate
  PROVE  EventsInv'
<1> USE Fields DEF EventsInv
<1>1. Unhandled # {} /\ worker.step = "update" /\ Current \in Indexes /\ running
  BY CurrentIs DEF FailUpdate, WorkerShape
<1>2. /\ spent' \in Counters /\ spent'.afterHandler = spent.afterHandler + 1
      /\ spent.afterHandler \in Nat
      /\ ~running' \/ shutDown' => spent'.restarts > 0
      /\ spent'.restarts = spent.restarts /\ Looped
      /\ spent'.onceWatched > 0 \/ (NoneCreatedWatched' /\ spent.onceWatched = 0)
  BY <1>1, FaultCounted DEF FailUpdate, WorkerShape, dbVars, Looped
<1>3. /\ worker' = Idle /\ job' = "queued"
      /\ UNCHANGED <<given, row, contracts, applied, eventTable, running, shutDown, watched, inMap,
                     named>>
  BY DEF FailUpdate, Retry, dbVars
<1>4. applied \in [Indexes -> Nat]
  BY DEF TypeInv, TypeOK
<1>5. ASSUME ~lazyUpdateBlockProgress, NEW i \in Indexes
      PROVE  applied[i] <= spent'.afterHandler
  BY <1>2, <1>4, <1>5 DEF AppliedOnce
<1>6. QED
  BY <1>1, <1>2, <1>3, <1>4, <1>5, DropJob DEF TypeInv, TypeOK, Budget

LEMMA FinishPartlyKeeps ==
  ASSUME EventsInv, FinishPartly
  PROVE  EventsInv'
<1> USE Fields DEF EventsInv
<1>1. /\ spent' \in Counters /\ spent'.afterHandler = spent.afterHandler + 1
      /\ spent.afterHandler \in Nat
      /\ ~running' \/ shutDown' => spent'.restarts > 0
      /\ spent'.onceWatched > 0 \/ spent.onceWatched = 0
  BY FaultCounted DEF FinishPartly, WorkerShape
<1>2. /\ worker' = Idle /\ job' = "queued" /\ AtEnd
      /\ row' = row \/ (AtEnd /\ row' = CompleteRow)
      /\ eventTable' \subseteq eventTable \cup named
      /\ UNCHANGED <<given, contracts, applied, running, shutDown, watched, inMap, named>>
  BY DEF FinishPartly, Retry
<1>3. applied \in [Indexes -> Nat] /\ eventTable' \subseteq Indexes
  BY <1>2 DEF TypeInv, TypeOK
<1>4. ASSUME ~lazyUpdateBlockProgress, NEW i \in Indexes
      PROVE  applied[i] <= spent'.afterHandler
  BY <1>1, <1>3, <1>4 DEF AppliedOnce
<1>5. ~subgraphEventsOrder \/ spent'.onceWatched > 0 \/ Due \subseteq Applied
  BY <1>1, <1>2, AtEndIsLast
<1>6. QED
  BY <1>1, <1>2, <1>3, <1>4, <1>5, DropJob DEF TypeInv, TypeOK, Budget

LEMMA FinishBlockKeeps ==
  ASSUME EventsInv, FinishBlock
  PROVE  EventsInv'
<1> USE Fields, AtEndIsLast DEF EventsInv
<1>1. /\ worker' = Idle /\ AtEnd /\ row' = CompleteRow
      /\ UNCHANGED <<given, contracts, applied, shutDown, watched, named, spent>>
  BY DEF FinishBlock, Retry
<1>2. /\ eventTable' \subseteq eventTable \cup named
      /\ running' \in BOOLEAN /\ inMap' \in BOOLEAN
      /\ ~running' \/ shutDown' => spent.restarts > 0
  BY DEF FinishBlock, TypeInv, TypeOK, WorkerShape
<1>3. applied \in [Indexes -> Nat] /\ eventTable' \subseteq Indexes /\ spent \in Counters
  BY <1>2 DEF TypeInv, TypeOK
<1>4. Due \subseteq named
  <2>1. CASE subgraphEventsOrder
    <3>1. ParsesUnwatched
      BY <2>1, NamesAssumption DEF TypeInv, subgraphEventsOrder, ParsesUnwatched
    <3>2. QED BY <3>1 DEF AllNamed
  <2>2. CASE ~subgraphEventsOrder
    BY <1>1, <2>2 DEF Processed
  <2>3. QED BY <2>1, <2>2
<1>5. /\ job' \in {"queued", "active", "done"}
      /\ job' = "done" => UNCHANGED <<job, eventTable>> \/ Due \subseteq eventTable'
  BY <1>4 DEF FinishBlock, Retry
<1>6. row'.lastProcessedEventIndex = last
  BY <1>1 DEF CompleteRow, last, TypeInv, TypeOK, Blocks
<1>7. ASSUME NEW i \in Indexes PROVE i <= row'.lastProcessedEventIndex /\ i \in Int
  BY <1>1, <1>6
<1>8. ASSUME ~lazyUpdateBlockProgress, NEW i \in Indexes
      PROVE  /\ applied[i] <= 1 + spent.afterHandler
             /\ ~(i > row'.lastProcessedEventIndex)
  BY <1>1, <1>6, <1>7, <1>8 DEF AppliedOnce
<1>9. ~subgraphEventsOrder \/ spent.onceWatched > 0 \/ Due \subseteq Applied
  <2>1. spent.onceWatched \in Nat
    BY DEF TypeInv, Counters
  <2>2. QED BY <1>1, <2>1
<1>10. \A i \in Indexes : applied[i] <= applied'[i] /\ (applied[i] > 0 => log[i].contract \in watched)
  BY <1>1, <1>3 DEF Budget
<1>11. QED
  BY <1>1, <1>2, <1>3, <1>5, <1>8, <1>9, <1>10, DropJob DEF TypeInv, TypeOK

LEMMA UpdateWatchedContractsKeeps ==
  ASSUME EventsInv, NEW c \in ServerWatches, UpdateWatchedContracts(c)
  PROVE  EventsInv'
<1> USE SameLog, Fields DEF EventsInv
<1>1. /\ running /\ worker.step = "idle" /\ contracts' = contracts \cup {c}
      /\ watched' = watched \cup {c} /\ c \in Contracts
      /\ UNCHANGED <<given, row, applied, eventTable, job, running, shutDown, inMap, named, worker,
                     spent>>
  BY EventsAssumption DEF UpdateWatchedContracts
<1>2. /\ ~Looped /\ ~Looped' /\ worker = Idle /\ last' = last /\ Applied' = Applied
      /\ worker.events = {} /\ worker.unwatched = {}
  BY <1>1 DEF WorkerShape, Looped, last, Applied, Idle
<1>3. TypeInv'
  BY <1>1 DEF TypeInv, TypeOK, given
<1>4. WorkerShape' /\ RowShape'
  BY <1>1, <1>2 DEF WorkerShape, RowShape, Unhandled, Idle
<1>5. InOrder'
  BY <1>1, <1>2 DEF InOrder, Processed, given
<1>6. OutOfLogOrder' /\ SecondLoopLast'
  <2>1. \A i \in Indexes : Settled(i) => Settled(i)'
    BY <1>1, <1>2 DEF Settled, given
  <2>2. NoneCreatedWatched => NoneCreatedWatched'
    BY <1>1, LogFacts DEF NoneCreatedWatched, given, TypeInv
  <2>3. QED BY <1>1, <1>2, <2>1, <2>2 DEF OutOfLogOrder, SecondLoopLast
<1>7. AllNamed' /\ AppliedOnce' /\ DueEventsStored'
  BY <1>1 DEF AllNamed, AppliedOnce, DueEventsStored
<1>8. Budget'
  BY <1>1, <1>2 DEF Budget, given
<1>9. QED BY <1>3, <1>4, <1>5, <1>6, <1>7, <1>8

LEMMA RequeueKeeps ==
  ASSUME EventsInv, Requeue
  PROVE  EventsInv'
<1> USE SameLog, Fields DEF EventsInv
<1>1. /\ job = "done" /\ job' = "queued" /\ UNCHANGED <<given, dbVars, memoryVars>>
      /\ spent' = [spent EXCEPT !.requeues = @ + 1]
  BY DEF Requeue
<1>2. /\ spent' \in Counters /\ spent'.onceWatched = spent.onceWatched
      /\ spent'.restarts = spent.restarts /\ spent'.afterHandler = spent.afterHandler
  BY <1>1 DEF TypeInv, Counters
<1>3. /\ ~Looped /\ ~Looped' /\ last' = last /\ Applied' = Applied /\ worker.step = "idle"
      /\ Unhandled' = Unhandled /\ Pending' = Pending
  BY <1>1 DEF WorkerShape, Looped, last, Applied, memoryVars, dbVars, Unhandled, Pending
<1> USE <1>1, <1>2, <1>3 DEF memoryVars, dbVars
<1>4. TypeInv'
  BY DEF TypeInv, TypeOK, given
<1>5. WorkerShape' /\ RowShape'
  BY DEF WorkerShape, RowShape, Unhandled, InFirstLoop, given
<1>6. InOrder'
  BY DEF InOrder, Processed, given
<1>7. OutOfLogOrder' /\ SecondLoopLast'
  BY DEF OutOfLogOrder, SecondLoopLast, Settled, NoneCreatedWatched, given
<1>8. AllNamed' /\ AppliedOnce' /\ DueEventsStored'
  BY DEF AllNamed, AppliedOnce, DueEventsStored
<1>9. Budget'
  BY DEF Budget, given
<1>10. QED BY <1>4, <1>5, <1>6, <1>7, <1>8, <1>9

LEMMA SignalKeeps ==
  ASSUME EventsInv, Signal
  PROVE  EventsInv'
<1> USE SameLog, Fields DEF EventsInv
<1>1. /\ running /\ shutDown' = TRUE
      /\ UNCHANGED <<given, dbVars, job, running, watched, inMap, named, worker>>
      /\ spent' = [spent EXCEPT !.restarts = @ + 1]
  BY DEF Signal
<1>2. /\ spent' \in Counters /\ spent'.onceWatched = spent.onceWatched
      /\ spent'.restarts > 0 /\ spent'.restarts # 0 /\ spent'.afterHandler = spent.afterHandler
  BY <1>1 DEF TypeInv, Counters
<1>3. /\ Looped' = Looped /\ last' = last /\ Applied' = Applied /\ Unhandled' = Unhandled
      /\ Pending' = Pending /\ InFirstLoop' = InFirstLoop /\ Current' = Current
  BY <1>1 DEF Looped, last, Applied, dbVars, Unhandled, Pending, InFirstLoop, Current
<1> USE <1>1, <1>2, <1>3 DEF dbVars
<1>4. TypeInv'
  BY DEF TypeInv, TypeOK, given
<1>5. WorkerShape' /\ RowShape'
  BY DEF WorkerShape, RowShape, given
<1>6. InOrder'
  BY DEF InOrder, Processed, given
<1>7. OutOfLogOrder' /\ SecondLoopLast'
  BY DEF OutOfLogOrder, SecondLoopLast, GoodAttempt, Settled, NoneCreatedWatched, given
<1>8. AllNamed' /\ AppliedOnce' /\ DueEventsStored'
  BY DEF AllNamed, AppliedOnce, DueEventsStored
<1>9. Budget'
  BY DEF Budget, given
<1>10. QED BY <1>4, <1>5, <1>6, <1>7, <1>8, <1>9

LEMMA RestartKeeps ==
  ASSUME EventsInv, Restart
  PROVE  EventsInv'
<1> USE SameLog, Fields DEF EventsInv
<1>1. /\ ~running /\ running' /\ ~shutDown' /\ contracts' \in {contracts, InitiallyWatched}
      /\ watched' = contracts' /\ row' = FreshRow /\ applied' = [i \in Indexes |-> 0]
      /\ eventTable' = {} /\ job' = "queued" /\ inMap' /\ named' = NamedWhenFetched(contracts')
      /\ worker' = Idle /\ UNCHANGED <<given, spent>>
  BY DEF Restart, ContractsAfterReset
<1>2. spent.restarts > 0 /\ spent.restarts # 0
  BY <1>1 DEF WorkerShape
<1>3. /\ worker'.step = "idle" /\ last' = -1 /\ worker'.events = {} /\ worker'.unwatched = {}
      /\ ~Looped' /\ Unhandled' = {} /\ Pending' = {} /\ worker'.block = FreshRow
      /\ FreshRow \in Blocks /\ ~FreshRow.isComplete /\ FreshRow.lastProcessedEventIndex = -1
  BY <1>1 DEF Idle, FreshRow, last, Looped, Unhandled, Pending, Blocks
<1>4. Applied' = {} /\ applied' \in [Indexes -> Nat] /\ named' \subseteq Indexes
  BY <1>1 DEF Applied, NamedWhenFetched
<1>5. TypeInv'
  <2>1. Idle \in [step : {"idle", "refetch", "events", "update"}, block : Blocks,
                  events : SUBSET Indexes, unwatched : SUBSET Indexes]
    BY <1>3 DEF Idle
  <2>2. TypeOK'
    BY <1>1, <1>3, <1>4, <2>1 DEF TypeInv, TypeOK, Restart
  <2>3. QED BY <1>1, <2>2 DEF TypeInv, given
<1>6. WorkerShape' /\ RowShape'
  BY <1>1, <1>2, <1>3 DEF WorkerShape, RowShape
<1>7. InOrder'
  BY <1>1, <1>3 DEF InOrder, Indexes
<1>8. OutOfLogOrder' /\ SecondLoopLast'
  <2>1. \A i \in Indexes : ~(i <= -1)
    BY EventsAssumption DEF Indexes
  <2>2. OutOfLogOrder'
    BY <1>1, <1>3, <2>1 DEF OutOfLogOrder
  <2>3. QED BY <1>1, <1>2, <2>2 DEF SecondLoopLast
<1>9. AllNamed' /\ DueEventsStored'
  BY <1>1 DEF AllNamed, DueEventsStored, NamedWhenFetched
<1>10. AppliedOnce' /\ Budget'
  <2>1. spent.afterHandler \in Nat
    BY DEF TypeInv, Counters
  <2>2. QED BY <1>1, <1>3, <2>1 DEF AppliedOnce, Budget
<1>11. QED BY <1>5, <1>6, <1>7, <1>8, <1>9, <1>10

LEMMA SkipEventKeeps ==
  ASSUME EventsInv, SkipEvent
  PROVE  EventsInv'
<1> USE SameLog, Fields, CurrentIs DEF EventsInv
<1>1. /\ worker.step = "events" /\ InFirstLoop /\ Current <= last
      /\ worker' = DropCurrent(worker)
      /\ UNCHANGED <<given, dbVars, job, running, shutDown, watched, inMap, named, spent>>
  BY DEF SkipEvent, Looping, AlreadyProcessed, last
<1>2. Unhandled # {} /\ Current \in worker.events /\ Current \in Indexes
  BY <1>1 DEF Unhandled, InFirstLoop
<1>3. /\ worker'.step = "events" /\ worker'.block = worker.block
      /\ worker'.events = worker.events \ {Current}
      /\ worker'.unwatched = worker.unwatched \ {Current}
      /\ worker' \in [step : {"idle", "refetch", "events", "update"}, block : Blocks,
                      events : SUBSET Indexes, unwatched : SUBSET Indexes]
  BY <1>1 DEF DropCurrent, TypeInv, TypeOK
<1>4. /\ Looped /\ Looped' /\ last' = last /\ Pending = Unhandled
      /\ Unhandled' = Unhandled \ {Current} /\ Pending' = Unhandled \ {Current}
      /\ Applied' = Applied
  BY <1>1, <1>3 DEF Looped, last, Unhandled, Pending, Applied, dbVars
<1> USE <1>1, <1>2, <1>3, <1>4 DEF dbVars
<1>5. TypeInv'
  BY DEF TypeInv, TypeOK, given
<1>6. WorkerShape'
  BY DEF WorkerShape, given, CreatedInBlock
<1>7. RowShape'
  BY DEF RowShape
<1>8. InOrder'
  BY DEF InOrder, Processed, given
<1>9. GoodAttempt => GoodAttempt'
  <2>1. \A i \in Indexes : Settled(i)' = Settled(i)
    BY DEF Settled, given
  <2>2. GoodAttempt => Settled(Current)
    BY DEF GoodAttempt
  <2>3. QED BY <2>1, <2>2 DEF GoodAttempt, Settled, given
<1>10. OutOfLogOrder' /\ SecondLoopLast'
  BY <1>9 DEF OutOfLogOrder, SecondLoopLast
<1>11. AllNamed' /\ AppliedOnce' /\ DueEventsStored'
  BY DEF AllNamed, AppliedOnce, DueEventsStored
<1>12. Budget'
  BY DEF Budget, given
<1>13. QED BY <1>5, <1>6, <1>7, <1>8, <1>10, <1>11, <1>12

-----------------------------------------------------------------------------
(* The event at hand. *)

\* The event at hand is handled if its contract is watched.
Handled ==
  /\ IF log[Current].contract \in watched
     THEN applied' = [applied EXCEPT ![Current] = @ + 1] /\ Watch /\ ParseUnknown
     ELSE UNCHANGED <<applied, contracts, watched, named>>
  /\ UNCHANGED <<given, row, eventTable, job, running, shutDown, inMap, spent>>

\* What is handled is recorded; the rest is as it was.
LEMMA HandledIs ==
  ASSUME EventsInv, Processing, Handled
  PROVE  /\ contracts \subseteq contracts' /\ contracts' \subseteq Contracts
         /\ watched \subseteq watched' /\ watched' \subseteq Contracts
         /\ named \subseteq named' /\ named' \subseteq Indexes
         /\ applied \in [Indexes -> Nat] /\ applied' \in [Indexes -> Nat]
         /\ \A i \in Indexes : i # Current => applied'[i] = applied[i]
         /\ applied'[Current] \in {applied[Current], applied[Current] + 1}
         /\ Applied \subseteq Applied' /\ Applied' \subseteq Applied \cup {Current}
         /\ log[Current].contract \in watched =>
              /\ Current \in Applied' /\ log[Current].creates \in watched' \cup {None}
              /\ InFirstLoop => Current \in named'
<1> USE Fields, CurrentIs, ProcessingIs DEF EventsInv
<1>1. applied \in [Indexes -> Nat] /\ Current \in Indexes
  BY DEF TypeInv, TypeOK
<1>2. CASE log[Current].contract \in watched
  <2>1. applied' = [applied EXCEPT ![Current] = @ + 1] /\ Watch /\ ParseUnknown
    BY <1>2 DEF Handled
  <2>2. /\ contracts \subseteq contracts' /\ contracts' \subseteq Contracts
        /\ watched \subseteq watched' /\ watched' \subseteq Contracts
        /\ named \subseteq named' /\ named' \subseteq Indexes
        /\ log[Current].creates \in watched' \cup {None}
    BY <2>1, WatchKeepsTypes
  <2>3. /\ applied' \in [Indexes -> Nat] /\ applied'[Current] = applied[Current] + 1
        /\ \A i \in Indexes : i # Current => applied'[i] = applied[i]
    BY <1>1, <2>1
  <2>4. InFirstLoop => Current \in named'
    BY <2>1 DEF ParseUnknown
  <2>5. /\ Applied \subseteq Applied' /\ Applied' \subseteq Applied \cup {Current}
        /\ Current \in Applied'
    BY <1>1, <2>3 DEF Applied
  <2>6. QED BY <1>1, <2>2, <2>3, <2>4, <2>5
<1>3. CASE log[Current].contract \notin watched
  <2>1. UNCHANGED <<applied, contracts, watched, named>>
    BY <1>3 DEF Handled
  <2>2. Applied' = Applied
    BY <2>1 DEF Applied
  <2>3. QED BY <1>1, <1>3, <2>1, <2>2 DEF TypeInv, TypeOK
<1>4. QED BY <1>2, <1>3

\* In log order, everything up to the event at hand is behind us once it is handled.
LEMMA HandledInOrder ==
  ASSUME EventsInv, Processing, Handled, ~subgraphEventsOrder,
         Current = 0 \/ Current - 1 = last
  PROVE  \A i \in Indexes : i <= Current \/ i <= last => Processed(i)'
<1> USE SameLog, Fields, CurrentIs, ProcessingIs, HandledIs DEF EventsInv
<1>1. InFirstLoop /\ UNCHANGED given
  BY DEF WorkerShape, Unhandled, InFirstLoop, Handled
<1>2. \A i \in Indexes : Processed(i) => Processed(i)'
  BY <1>1 DEF Processed, given
<1>3. \A i \in Indexes : i <= last => Processed(i)
  BY DEF InOrder
<1>4. \A i \in Indexes : i < Current => i <= last
  <2>1. \A i \in Indexes : i \in Int /\ 0 <= i
    BY DEF Indexes
  <2>2. QED BY <2>1
<1>5. PICK c \in Indexes : c = Current
  OBVIOUS
<1>6. Processed(c)'
  <2>1. ASSUME c \in Due PROVE log[Current].contract \in watched
    BY <1>3, <1>4, <1>5, <2>1, DueIsWatched DEF Processed
  <2>2. ASSUME log[Current].creates # None PROVE log[Current].contract \in watched
    BY <2>2, LogFacts DEF TypeInv, TypeOK
  <2>3. log[Current].creates \in watched' \cup {None}
    BY <2>2
  <2>4. c \in Due => applied'[c] > 0 /\ c \in named'
    BY <1>1, <1>5, <2>1 DEF Applied
  <2>5. QED BY <1>1, <1>5, <2>3, <2>4 DEF Processed, given
<1>7. QED
  <2>1. ASSUME NEW i \in Indexes, i <= Current \/ i <= last PROVE Processed(i)'
    <3>1. CASE i <= last
      BY <1>2, <1>3, <3>1
    <3>2. CASE i <= Current
      <4>1. i = c \/ i < Current
        BY <1>5, <3>2
      <4>2. QED BY <1>2, <1>3, <1>4, <1>6, <4>1
    <3>3. QED BY <2>1, <3>1, <3>2
  <2>2. QED BY <2>1

\* On a good attempt, the event at hand is watched if it is due, also in the second loop:
\* the event that created its contract was in the first.
LEMMA HandledOnGoodAttempt ==
  ASSUME EventsInv, Processing, Handled, subgraphEventsOrder, GoodAttempt
  PROVE  /\ Due \subseteq Applied' \cup (Unhandled \ {Current})
         /\ \A k \in Indexes : log[k].creates # None =>
              k \in Unhandled \ {Current} \/ log[k].creates \in watched'
<1> USE Fields, CurrentIs, ProcessingIs, HandledIs DEF EventsInv
<1>1. ASSUME Current \in Due PROVE log[Current].contract \in watched
  <2>1. CASE InFirstLoop \/ ~CreatedInBlock(Current)
    BY <2>1 DEF WorkerShape, CreatedInBlock, TypeInv, TypeOK
  <2>2. CASE ~InFirstLoop /\ CreatedInBlock(Current)
    <3>1. PICK k \in Indexes : /\ log[k].creates = log[Current].contract
                               /\ log[k].creates # None
      BY <1>1, <2>2, DueFacts
    <3>2. ~CreatedInBlock(k)
      BY <3>1, LogFacts DEF CreatedInBlock, TypeInv
    <3>3. k \notin Unhandled
      BY <2>2, <3>2 DEF WorkerShape, Unhandled, InFirstLoop
    <3>4. QED BY <3>1, <3>3 DEF GoodAttempt
  <2>3. QED BY <2>1, <2>2
<1>2. ASSUME log[Current].creates # None PROVE log[Current].contract \in watched
  BY <1>2, LogFacts DEF TypeInv, TypeOK
<1>3. Due \subseteq Applied' \cup (Unhandled \ {Current})
  BY <1>1 DEF GoodAttempt
<1>4. QED
  <2>1. ASSUME NEW k \in Indexes, log[k].creates # None
        PROVE  k \in Unhandled \ {Current} \/ log[k].creates \in watched'
    <3>1. CASE k = Current
      BY <1>2, <2>1, <3>1
    <3>2. CASE k # Current
      BY <2>1, <3>2 DEF GoodAttempt
    <3>3. QED BY <3>1, <3>2
  <2>2. QED BY <1>3, <2>1

\* The events of created contracts are applied in the second loop only, in log order.
LEMMA HandledInSecondLoop ==
  ASSUME EventsInv, Processing, Handled, subgraphEventsOrder,
         spent.onceWatched = 0, spent.restarts = 0, ~(Due \subseteq Applied)
  PROVE  /\ \A i \in worker.events \cap Due : ~CreatedInBlock(i)
         /\ \A i \in Due \cap Applied' : CreatedInBlock(i) =>
              worker.events = {} /\ \A k \in Unhandled \ {Current} : k > i
<1> USE Fields, CurrentIs, ProcessingIs, HandledIs DEF EventsInv
<1>1. /\ \A i \in worker.events \cap Due : ~CreatedInBlock(i)
      /\ \A i \in Due \cap Applied : CreatedInBlock(i) =>
              worker.events = {} /\ \A k \in Unhandled : k > i
  BY DEF SecondLoopLast
<1>2. ASSUME Current \in Due, CreatedInBlock(Current)
      PROVE  worker.events = {} /\ \A k \in Unhandled \ {Current} : k > Current
  <2>1. ~InFirstLoop
    BY <1>1, <1>2
  <2>2. worker.events = {} /\ Unhandled = worker.unwatched
    BY <2>1 DEF InFirstLoop, Unhandled
  <2>3. worker.unwatched \subseteq Indexes
    BY DEF TypeInv, TypeOK
  <2>4. \A k \in worker.unwatched : k \in Int /\ Current <= k
    BY <2>1, <2>3
  <2>5. QED BY <2>2, <2>4
<1>3. QED BY <1>1, <1>2

\* What is applied belongs to a watched contract, once more per failure than recorded.
LEMMA HandledWithinBudget ==
  ASSUME EventsInv, Processing, Handled
  PROVE  /\ \A i \in Indexes : applied'[i] > 0 => log[i].contract \in watched'
         /\ \A i \in worker.unwatched \cap (Unhandled \ {Current}) : applied'[i] = 0
         /\ ~lazyUpdateBlockProgress => \A i \in Indexes :
              /\ applied'[i] <= 1 + spent.afterHandler
              /\ i > row.lastProcessedEventIndex /\ i # Current => applied'[i] <= spent.afterHandler
<1> USE Fields, CurrentIs, ProcessingIs, HandledIs DEF EventsInv
<1>1. ASSUME NEW i \in Indexes, applied'[i] > 0 PROVE log[i].contract \in watched'
  <2>1. CASE i = Current
    <3>1. CASE log[Current].contract \in watched
      BY <2>1, <3>1
    <3>2. CASE log[Current].contract \notin watched
      BY <1>1, <2>1, <3>2 DEF Handled, Budget
    <3>3. QED BY <3>1, <3>2
  <2>2. CASE i # Current
    BY <1>1, <2>2 DEF Budget
  <2>3. QED BY <2>1, <2>2
<1>2. \A i \in worker.unwatched \cap (Unhandled \ {Current}) : applied'[i] = 0
  BY DEF Budget, TypeInv, TypeOK
<1>3. running /\ worker.step = "events"
  BY DEF WorkerShape
<1>4. ASSUME ~lazyUpdateBlockProgress, NEW i \in Indexes
      PROVE  /\ applied'[i] <= 1 + spent.afterHandler
             /\ i > row.lastProcessedEventIndex /\ i # Current => applied'[i] <= spent.afterHandler
  <2>1. spent.afterHandler \in Nat /\ applied[i] \in Nat
    BY DEF TypeInv, Counters
  <2>2. CASE i = Current
    BY <1>4, <2>1, <2>2, ApplyWithinBudget
  <2>3. CASE i # Current
    <3>1. applied'[i] = applied[i]
      BY <2>3
    <3>2. applied[i] <= 1 + spent.afterHandler
      BY <1>4 DEF AppliedOnce
    <3>3. i > row.lastProcessedEventIndex => applied[i] <= spent.afterHandler
      BY <1>3, <1>4 DEF Budget
    <3>4. QED BY <3>1, <3>2, <3>3
  <2>4. QED BY <2>2, <2>3
<1>5. QED BY <1>1, <1>2, <1>4

\* What does not depend on how the event is recorded.
LEMMA HandledKeeps ==
  ASSUME EventsInv, Processing, Handled
  PROVE  /\ running /\ job' = "active" /\ AllNamed' /\ DueEventsStored' /\ AppliedOnce'
         /\ row' = row /\ row' \in Blocks /\ inMap' = inMap
<1> USE SameLog, Fields, HandledIs, HandledWithinBudget, ProcessingIs DEF EventsInv
<1>1. running /\ job' = "active" /\ row' = row /\ inMap' = inMap
  BY DEF Handled, WorkerShape
<1>2. row' \in Blocks
  BY <1>1 DEF TypeInv, TypeOK
<1>3. AllNamed' /\ DueEventsStored'
  BY <1>1 DEF AllNamed, DueEventsStored, Handled
<1>4. AppliedOnce'
  BY DEF AppliedOnce, Handled, given
<1>5. QED BY <1>1, <1>2, <1>3, <1>4

LEMMA DropCurrentIs ==
  ASSUME NEW w \in [step : {"idle", "refetch", "events", "update"}, block : Blocks,
                    events : SUBSET Indexes, unwatched : SUBSET Indexes]
  PROVE  /\ DropCurrent(w) \in [step : {"idle", "refetch", "events", "update"}, block : Blocks,
                                events : SUBSET Indexes, unwatched : SUBSET Indexes]
         /\ DropCurrent(w).step = w.step /\ DropCurrent(w).block = w.block
         /\ DropCurrent(w).events = w.events \ {Current}
         /\ DropCurrent(w).unwatched = w.unwatched \ {Current}
  BY DEF DropCurrent

\* Lazily, the event is recorded in memory at once.
LEMMA AfterEventLazily ==
  ASSUME EventsInv, Processing, Handled, InFirstLoop, lazyUpdateBlockProgress,
         ~OutOfOrder, worker' = AfterEvent
  PROVE  EventsInv'
<1> USE SameLog, Fields, CurrentIs, ProcessingIs, HandledIs, HandledKeeps DEF EventsInv
<1>1. /\ worker' = DropCurrent([worker EXCEPT !.block.lastProcessedEventIndex = Current])
      /\ UNCHANGED <<given, row, eventTable, job, running, shutDown, inMap, spent>>
  BY DEF AfterEvent, Handled
<1>2. worker.block \in Blocks /\ Current \in Indexes /\ Current > last /\ worker.step = "events"
  BY DEF TypeInv, TypeOK
<1>3. [worker.block EXCEPT !.lastProcessedEventIndex = Current] \in Blocks
  BY <1>2, EventsAssumption DEF Blocks, Indexes
<1> DEFINE recorded == [worker EXCEPT !.block.lastProcessedEventIndex = Current]
<1>a. /\ recorded \in [step : {"idle", "refetch", "events", "update"}, block : Blocks,
                       events : SUBSET Indexes, unwatched : SUBSET Indexes]
      /\ recorded.step = "events" /\ recorded.events = worker.events
      /\ recorded.unwatched = worker.unwatched
      /\ recorded.block.lastProcessedEventIndex = Current
      /\ recorded.block.isComplete = worker.block.isComplete
  BY <1>2, <1>3 DEF TypeInv, TypeOK, Blocks
<1> HIDE DEF recorded
<1>b. worker' = DropCurrent(recorded)
  BY <1>1 DEF recorded
<1>4. /\ worker'.step = "events" /\ last' = Current
      /\ worker'.block.isComplete = worker.block.isComplete
      /\ worker'.events = worker.events \ {Current}
      /\ worker'.unwatched = worker.unwatched \ {Current}
      /\ worker' \in [step : {"idle", "refetch", "events", "update"}, block : Blocks,
                      events : SUBSET Indexes, unwatched : SUBSET Indexes]
  <2>1. /\ worker'.step = "events" /\ worker'.block = recorded.block
        /\ worker'.events = worker.events \ {Current}
        /\ worker'.unwatched = worker.unwatched \ {Current}
    BY <1>a, <1>b DEF DropCurrent
  <2>2. worker' \in [step : {"idle", "refetch", "events", "update"}, block : Blocks,
                     events : SUBSET Indexes, unwatched : SUBSET Indexes]
    BY <1>a, <1>b, DropCurrentIs
  <2>3. QED BY <1>a, <2>1, <2>2 DEF last
<1>5. /\ Looped /\ Looped' /\ Pending = Unhandled
      /\ Unhandled' = Unhandled \ {Current} /\ Pending' = Unhandled \ {Current}
  BY <1>4 DEF Looped, Unhandled, Pending
<1> USE <1>1, <1>2, <1>4, <1>5
<1>6. TypeInv'
  <2>1. TypeOK'
    BY DEF TypeInv, TypeOK
  <2>2. QED BY <2>1 DEF TypeInv, given
<1>7. WorkerShape'
  BY DEF WorkerShape, given, CreatedInBlock
<1>8. RowShape'
  BY DEF RowShape
<1>9. InOrder'
  <2>1. SUFFICES ASSUME ~subgraphEventsOrder
                 PROVE  \A i \in Indexes : i <= row.lastProcessedEventIndex \/ i <= Current
                          => Processed(i)'
    BY DEF InOrder
  <2>2. Current = 0 \/ Current - 1 = last
    BY <2>1 DEF OutOfOrder, last
  <2>3. row.lastProcessedEventIndex <= last
    BY DEF RowShape
  <2>4. \A i \in Indexes : i <= Current \/ i <= last => Processed(i)'
    BY <2>1, <2>2, HandledInOrder
  <2>5. QED BY <2>3, <2>4
<1>10. OutOfLogOrder'
  <2>1. SUFFICES ASSUME subgraphEventsOrder, spent.onceWatched = 0, ~(Due \subseteq Applied)
                 PROVE  ~row.isComplete /\ ~worker.block.isComplete /\ inMap /\ GoodAttempt'
    BY DEF OutOfLogOrder
  <2>2. ~row.isComplete /\ ~worker.block.isComplete /\ inMap /\ GoodAttempt
    BY <2>1 DEF OutOfLogOrder
  <2>3. \A i \in worker'.events : i > Current
    <3>1. worker.events \subseteq Int /\ \A i \in worker.events : Current <= i
      BY DEF TypeInv, TypeOK
    <3>2. QED BY <3>1
  <2>4. QED BY <2>1, <2>2, <2>3, HandledOnGoodAttempt DEF GoodAttempt, given
<1>11. SecondLoopLast'
  BY HandledInSecondLoop DEF SecondLoopLast
<1>12. Budget'
  BY HandledWithinBudget DEF Budget, given
<1>13. QED BY <1>6, <1>7, <1>8, <1>9, <1>10, <1>11, <1>12

\* Otherwise, its progress is still to be recorded.
LEMMA AfterEventInTwoSteps ==
  ASSUME EventsInv, Processing, Handled, InFirstLoop => ~OutOfOrder,
         worker' = [worker EXCEPT !.step = "update"]
  PROVE  EventsInv'
<1> USE SameLog, Fields, CurrentIs, ProcessingIs, HandledIs, HandledKeeps DEF EventsInv
<1>1. UNCHANGED <<given, row, eventTable, job, running, shutDown, inMap, spent>>
  BY DEF Handled
<1>2. /\ worker'.step = "update" /\ worker'.block = worker.block /\ last' = last
      /\ worker'.events = worker.events /\ worker'.unwatched = worker.unwatched
      /\ worker' \in [step : {"idle", "refetch", "events", "update"}, block : Blocks,
                      events : SUBSET Indexes, unwatched : SUBSET Indexes]
  BY DEF TypeInv, TypeOK, last
<1>3. InFirstLoop' = InFirstLoop /\ Current' = Current
  BY <1>2 DEF InFirstLoop, Current
<1>4. /\ Looped /\ Looped' /\ Pending = Unhandled /\ worker.step = "events"
      /\ Unhandled' = Unhandled /\ Pending' = Unhandled \ {Current}
  BY <1>2, <1>3 DEF Looped, Unhandled, Pending
<1> USE <1>1, <1>2, <1>3, <1>4
<1>5. TypeInv'
  <2>1. TypeOK'
    BY DEF TypeInv, TypeOK
  <2>2. QED BY <2>1 DEF TypeInv, given
<1>6. WorkerShape'
  BY DEF WorkerShape, given, CreatedInBlock
<1>7. RowShape'
  BY DEF RowShape
<1>8. InOrder'
  <2>1. SUFFICES ASSUME ~subgraphEventsOrder
                 PROVE  /\ \A i \in Indexes : \/ i <= row.lastProcessedEventIndex
                                              \/ i <= last
                                              \/ i <= Current
                                              => Processed(i)'
                        /\ Current = 0 \/ Current - 1 = last
    BY DEF InOrder
  <2>2. Current = 0 \/ Current - 1 = last
    BY <2>1 DEF WorkerShape, OutOfOrder, last, Unhandled, InFirstLoop
  <2>3. row.lastProcessedEventIndex <= last
    BY DEF RowShape
  <2>4. \A i \in Indexes : i <= Current \/ i <= last => Processed(i)'
    BY <2>1, <2>2, HandledInOrder
  <2>5. QED BY <2>2, <2>3, <2>4
<1>9. OutOfLogOrder'
  <2>1. SUFFICES ASSUME subgraphEventsOrder, spent.onceWatched = 0, ~(Due \subseteq Applied)
                 PROVE  ~row.isComplete /\ ~worker.block.isComplete /\ inMap /\ GoodAttempt'
    BY DEF OutOfLogOrder
  <2>2. ~row.isComplete /\ ~worker.block.isComplete /\ inMap /\ GoodAttempt
    BY <2>1 DEF OutOfLogOrder
  <2>3. \A i \in Indexes : Settled(i) => Settled(i)'
    BY DEF Settled, given
  <2>4. worker.events \subseteq Indexes
    BY DEF TypeInv, TypeOK
  <2>5. QED BY <2>1, <2>2, <2>3, <2>4, HandledOnGoodAttempt DEF GoodAttempt, given
<1>10. SecondLoopLast'
  BY HandledInSecondLoop DEF SecondLoopLast
<1>11. Budget'
  BY HandledWithinBudget DEF Budget, given
<1>12. QED BY <1>5, <1>6, <1>7, <1>8, <1>9, <1>10, <1>11

LEMMA ProcessEventKeeps ==
  ASSUME EventsInv, ProcessEvent
  PROVE  EventsInv'
<1> USE Fields, ProcessingIs DEF EventsInv
<1>1. CASE InFirstLoop /\ OutOfOrder
  <2>1. /\ worker' = Idle /\ job' = "queued" /\ ~subgraphEventsOrder
        /\ UNCHANGED <<given, row, contracts, applied, eventTable, running, shutDown, watched,
                       inMap, named, spent>>
    BY <1>1 DEF ProcessEvent, Retry, OutOfOrder
  <2>2. /\ applied \in [Indexes -> Nat] /\ spent \in Counters
        /\ \A i \in Indexes : applied[i] > 0 => log[i].contract \in watched
        /\ ~running \/ shutDown => spent.restarts > 0
    BY DEF TypeInv, TypeOK, Budget, WorkerShape
  <2>3. running /\ worker.step = "events"
    BY DEF ProcessEvent, WorkerShape
  <2>4. ASSUME ~lazyUpdateBlockProgress, NEW i \in Indexes
        PROVE  /\ applied[i] <= 1 + spent.afterHandler
               /\ i > row.lastProcessedEventIndex => applied[i] <= spent.afterHandler
    BY <2>3, <2>4 DEF AppliedOnce, Budget
  <2>5. /\ contracts' \subseteq Contracts /\ watched' \subseteq Contracts
        /\ eventTable' \subseteq Indexes /\ named' \subseteq Indexes
        /\ running' \in BOOLEAN /\ shutDown' \in BOOLEAN /\ inMap' \in BOOLEAN
    BY <2>1 DEF TypeInv, TypeOK
  <2>6. \A i \in Indexes : applied[i] <= applied'[i]
    BY <2>1, <2>2
  <2>7. QED BY <2>1, <2>2, <2>4, <2>5, <2>6, DropJob
<1>2. CASE ~(InFirstLoop /\ OutOfOrder)
  <2>1. Processing /\ Handled /\ worker' = AfterEvent
    BY <1>2 DEF ProcessEvent, Handled
  <2>2. CASE InFirstLoop /\ lazyUpdateBlockProgress
    BY <1>2, <2>1, <2>2, AfterEventLazily
  <2>3. CASE ~(InFirstLoop /\ lazyUpdateBlockProgress)
    <3>1. worker' = [worker EXCEPT !.step = "update"]
      BY <2>1, <2>3 DEF AfterEvent
    <3>2. QED BY <1>2, <2>1, <3>1, AfterEventInTwoSteps
  <2>4. QED BY <2>2, <2>3
<1>3. QED BY <1>1, <1>2

\* The index of the row moves past the event at hand, never back.
LEMMA UpdateProgressKeeps ==
  ASSUME EventsInv, UpdateProgress
  PROVE  EventsInv'
<1> USE SameLog, Fields, CurrentIs DEF EventsInv
<1> DEFINE index == IF InFirstLoop \/ Current > last THEN Current ELSE last + 1
           block == [worker.block EXCEPT !.lastProcessedEventIndex = index]
<1>1. /\ worker.step = "update" /\ Unhandled # {} /\ Current \in Indexes
      /\ InFirstLoop => Current > last
      /\ job = "active" /\ running
  BY DEF UpdateProgress, WorkerShape
<1>2. index \in Int /\ index > last /\ index >= Current /\ index >= -1
  BY <1>1
<1>3. /\ row' = IF worker.block.isComplete THEN worker.block ELSE block
      /\ worker' = DropCurrent([worker EXCEPT !.step = "events", !.block = row'])
      /\ UNCHANGED <<given, contracts, applied, eventTable, job, running, shutDown, watched, inMap,
                     named, spent>>
  BY <1>2 DEF UpdateProgress, last
<1>4. worker.block \in Blocks /\ block \in Blocks
  <2>1. ~subgraphEventsOrder => index \in Indexes
    BY <1>1 DEF WorkerShape, Unhandled, InFirstLoop
  <2>2. worker.block \in Blocks
    BY DEF TypeInv, TypeOK
  <2>3. QED BY <1>2, <2>1, <2>2, EventsAssumption DEF Blocks, Indexes
<1>5. /\ row' \in Blocks /\ row'.isComplete = worker.block.isComplete
      /\ row'.lastProcessedEventIndex = IF worker.block.isComplete THEN last ELSE index
  BY <1>3, <1>4 DEF Blocks, last
<1> HIDE DEF index, block
<1>6. /\ worker'.step = "events" /\ worker'.block = row'
      /\ worker'.events = worker.events \ {Current}
      /\ worker'.unwatched = worker.unwatched \ {Current}
      /\ worker' \in [step : {"idle", "refetch", "events", "update"}, block : Blocks,
                      events : SUBSET Indexes, unwatched : SUBSET Indexes]
  BY <1>3, <1>5 DEF DropCurrent, TypeInv, TypeOK
<1>7. /\ Looped /\ Looped' /\ Pending = Unhandled \ {Current}
      /\ Unhandled' = Pending /\ Pending' = Pending /\ Applied' = Applied
  BY <1>1, <1>3, <1>6 DEF Looped, Unhandled, Pending, Applied
<1>8. /\ last' = row'.lastProcessedEventIndex /\ last' \in Int /\ last' >= last /\ last' >= Current
      /\ last' = last \/ last' = index
  <2>1. worker.block.isComplete => last >= Current
    BY <1>1 DEF RowShape
  <2>2. last' = row'.lastProcessedEventIndex
    BY <1>6 DEF last
  <2>3. QED BY <1>2, <1>5, <2>1, <2>2
<1>9. TypeInv'
  <2>1. TypeOK'
    BY <1>3, <1>5, <1>6 DEF TypeInv, TypeOK
  <2>2. QED BY <1>3, <2>1 DEF TypeInv, given
<1>10. WorkerShape'
  BY <1>1, <1>3, <1>6, <1>7 DEF WorkerShape, given, CreatedInBlock
<1>11. RowShape'
  <2>1. row'.isComplete => last' >= NumEvents - 1
    BY <1>5, <1>8 DEF RowShape
  <2>2. ASSUME NEW i \in Indexes \ Pending PROVE i <= last'
    <3>1. i <= last \/ i = Current
      BY <1>7, <2>2 DEF RowShape
    <3>2. QED BY <1>8, <3>1
  <2>3. QED BY <1>3, <1>6, <1>7, <1>8, <2>1, <2>2 DEF RowShape
<1>12. InOrder'
  <2>1. SUFFICES ASSUME ~subgraphEventsOrder, NEW i \in Indexes, i <= last'
                 PROVE  Processed(i)'
    BY <1>3, <1>6, <1>8 DEF InOrder
  <2>2. InFirstLoop
    BY <1>1, <2>1 DEF WorkerShape, Unhandled, InFirstLoop
  <2>3. i <= last \/ i <= Current
    BY <1>8, <2>1, <2>2 DEF index
  <2>4. Processed(i)
    BY <1>1, <2>1, <2>3 DEF InOrder
  <2>5. QED BY <1>3, <2>4 DEF Processed, given
<1>13. OutOfLogOrder'
  <2>1. SUFFICES ASSUME subgraphEventsOrder, spent.onceWatched = 0, ~(Due \subseteq Applied)
                 PROVE  ~row'.isComplete /\ inMap /\ GoodAttempt'
    BY <1>3, <1>6, <1>7 DEF OutOfLogOrder
  <2>2. ~worker.block.isComplete /\ inMap /\ GoodAttempt
    BY <1>7, <2>1 DEF OutOfLogOrder
  <2>3. ASSUME NEW i \in worker'.events PROVE i > last'
    <3>1. InFirstLoop /\ i \in worker.events /\ i # Current /\ i \in Int /\ Current <= i
      BY <1>6, <2>3 DEF InFirstLoop, Unhandled, TypeInv, TypeOK
    <3>2. last' = Current
      BY <1>5, <1>8, <2>2, <3>1 DEF index
    <3>3. QED BY <1>1, <3>1, <3>2
  <2>4. QED BY <1>3, <1>5, <1>7, <2>2, <2>3 DEF GoodAttempt, given
<1>14. SecondLoopLast'
  BY <1>3, <1>6, <1>7 DEF SecondLoopLast
<1>15. AllNamed' /\ AppliedOnce' /\ DueEventsStored'
  BY <1>3 DEF AllNamed, AppliedOnce, DueEventsStored
<1>16. Budget'
  <2>1. ASSUME ~lazyUpdateBlockProgress, NEW i \in Indexes, i > row'.lastProcessedEventIndex
        PROVE  applied[i] <= spent.afterHandler
    <3>1. i > row.lastProcessedEventIndex /\ i # Current
      BY <1>1, <1>8, <2>1 DEF RowShape
    <3>2. QED BY <1>1, <2>1, <3>1 DEF Budget
  <2>2. QED BY <1>3, <1>6, <1>7, <2>1 DEF Budget, given
<1>17. QED BY <1>9, <1>10, <1>11, <1>12, <1>13, <1>14, <1>15, <1>16

-----------------------------------------------------------------------------
(* The invariant of every behaviour. *)

LEMMA EventsInit == Init => EventsInv
<1> SUFFICES ASSUME Init PROVE EventsInv
  OBVIOUS
<1>1. /\ worker = Idle /\ row = FreshRow /\ running /\ ~shutDown /\ inMap /\ job = "queued"
      /\ contracts = InitiallyWatched /\ watched = InitiallyWatched /\ eventTable = {}
      /\ applied = [i \in Indexes |-> 0] /\ named = NamedWhenFetched(InitiallyWatched)
      /\ watcher \in Watchers /\ log \in Logs
  BY DEF Init
<1>2. /\ worker.step = "idle" /\ last = -1 /\ worker.events = {} /\ worker.unwatched = {}
      /\ ~Looped /\ worker.block = FreshRow
      /\ FreshRow \in Blocks /\ ~FreshRow.isComplete /\ FreshRow.lastProcessedEventIndex = -1
  BY <1>1, EventsAssumption DEF Idle, FreshRow, last, Looped, Blocks
<1>3. /\ spent \in Counters /\ spent.afterHandler = 0
  BY DEF Init, Counters
<1>4. Applied = {} /\ applied \in [Indexes -> Nat] /\ named \subseteq Indexes
  BY <1>1 DEF Applied, NamedWhenFetched
<1>5. TypeInv
  <2>1. Idle \in [step : {"idle", "refetch", "events", "update"}, block : Blocks,
                  events : SUBSET Indexes, unwatched : SUBSET Indexes]
    BY <1>2 DEF Idle
  <2>2. InitiallyWatched \subseteq Contracts /\ {running, shutDown, inMap} \subseteq BOOLEAN
    BY EventsAssumption DEF Init
  <2>3. TypeOK
    BY <1>1, <1>2, <1>4, <2>1, <2>2 DEF TypeOK
  <2>4. QED BY <1>1, <1>3, <2>3 DEF TypeInv
<1>6. WorkerShape /\ RowShape
  BY <1>1, <1>2, EventsAssumption DEF WorkerShape, RowShape
<1>7. InOrder
  BY <1>1, <1>2 DEF InOrder, Indexes
<1>8. OutOfLogOrder /\ SecondLoopLast
  <2>1. \A i \in Indexes : ~(i <= -1)
    BY EventsAssumption DEF Indexes
  <2>2. NoneCreatedWatched
    BY <1>1, LogFacts DEF NoneCreatedWatched
  <2>3. OutOfLogOrder
    BY <1>1, <1>2, <2>1 DEF OutOfLogOrder
  <2>4. QED BY <1>2, <1>4, <2>2, <2>3 DEF SecondLoopLast
<1>9. AllNamed /\ DueEventsStored
  BY <1>1 DEF AllNamed, DueEventsStored, NamedWhenFetched
<1>10. AppliedOnce /\ Budget
  BY <1>1, <1>2, <1>3 DEF AppliedOnce, Budget
<1>11. QED BY <1>5, <1>6, <1>7, <1>8, <1>9, <1>10 DEF EventsInv

LEMMA EventsStutter ==
  ASSUME EventsInv, UNCHANGED vars
  PROVE  EventsInv'
<1> USE SameLog DEF EventsInv, vars, dbVars, memoryVars
<1>1. /\ last' = last /\ Looped' = Looped /\ Unhandled' = Unhandled /\ Current' = Current
      /\ Pending' = Pending /\ InFirstLoop' = InFirstLoop /\ Applied' = Applied
  BY DEF last, Looped, Unhandled, Current, Pending, InFirstLoop, Applied
<1>2. TypeInv'
  BY DEF TypeInv, TypeOK, given
<1>3. WorkerShape' /\ RowShape'
  BY <1>1 DEF WorkerShape, RowShape, given
<1>4. InOrder'
  BY <1>1 DEF InOrder, Processed, given
<1>5. OutOfLogOrder' /\ SecondLoopLast'
  BY <1>1 DEF OutOfLogOrder, SecondLoopLast, GoodAttempt, Settled, NoneCreatedWatched, given
<1>6. AllNamed' /\ AppliedOnce' /\ DueEventsStored' /\ Budget'
  BY <1>1 DEF AllNamed, AppliedOnce, DueEventsStored, Budget, given
<1>7. QED BY <1>2, <1>3, <1>4, <1>5, <1>6

LEMMA EventsStep == EventsInv /\ [Next]_vars => EventsInv'
<1> SUFFICES ASSUME EventsInv, [Next]_vars PROVE EventsInv'
  OBVIOUS
<1>1. CASE TakeJob
  BY <1>1, TakeJobKeeps
<1>2. CASE Refetch
  BY <1>2, RefetchKeeps
<1>3. CASE SkipEvent
  BY <1>3, SkipEventKeeps
<1>4. CASE ProcessEvent
  BY <1>4, ProcessEventKeeps
<1>5. CASE UpdateProgress
  BY <1>5, UpdateProgressKeeps
<1>6. CASE FinishBlock
  BY <1>6, FinishBlockKeeps
<1>7. CASE FailHandler
  BY <1>7, FailHandlerKeeps
<1>8. CASE FailWatch
  BY <1>8, FailWatchKeeps
<1>9. CASE FailUpdate
  BY <1>9, FailUpdateKeeps
<1>10. CASE FinishPartly
  BY <1>10, FinishPartlyKeeps
<1>11. CASE \E c \in ServerWatches : UpdateWatchedContracts(c)
  BY <1>11, UpdateWatchedContractsKeeps
<1>12. CASE Requeue
  BY <1>12, RequeueKeeps
<1>13. CASE Signal
  BY <1>13, SignalKeeps
<1>14. CASE Crash
  BY <1>14, CrashKeeps
<1>15. CASE Restart
  BY <1>15, RestartKeeps
<1>16. CASE UNCHANGED vars
  BY <1>16, EventsStutter
<1>17. QED
  BY <1>1, <1>2, <1>3, <1>4, <1>5, <1>6, <1>7, <1>8, <1>9, <1>10, <1>11, <1>12, <1>13, <1>14,
     <1>15, <1>16 DEF Next, Handle

LEMMA EventsAlways == Spec => []EventsInv
  BY EventsInit, EventsStep, PTL DEF Spec

-----------------------------------------------------------------------------
(* The theorems. *)

\* Rows, queues and process memory hold what their code puts there: without
\* subgraphEventsOrder the index of a row never passes the last event of its block.
THEOREM EventsTyped == Spec => []TypeOK
<1>1. EventsInv => TypeOK
  BY DEF EventsInv, TypeInv
<1>2. QED BY <1>1, EventsAlways, PTL

\* A block_progress row is complete only when every due event has been applied, whatever
\* failed or crashed before (with subgraphEventsOrder, if nothing failed once a created
\* contract was watched).
THEOREM CompleteMeansAll == Spec => []CompleteAfterAll
<1>1. EventsInv => CompleteAfterAll
  <2>1. SUFFICES ASSUME EventsInv, row.isComplete, subgraphEventsOrder => spent.onceWatched = 0
                 PROVE  Due \subseteq Applied
    BY DEF CompleteAfterAll
  <2> USE Fields DEF EventsInv
  <2>2. CASE subgraphEventsOrder
    BY <2>1, <2>2 DEF OutOfLogOrder
  <2>3. CASE ~subgraphEventsOrder
    <3>1. \A i \in Indexes : i <= row.lastProcessedEventIndex
      BY <2>1 DEF RowShape, Indexes
    <3>2. QED BY <2>1, <2>3, <3>1 DEF InOrder, Processed, Applied
  <2>4. QED BY <2>2, <2>3
<1>2. QED BY <1>1, EventsAlways, PTL

\* When the job is done, the event table has every due event.
THEOREM DueStored == Spec => []DueEventsStored
<1>1. EventsInv => DueEventsStored
  BY DEF EventsInv
<1>2. QED BY <1>1, EventsAlways, PTL

\* Effects are applied once, and once more per failure after a handler's commit.
THEOREM OnceUnlessItFails == Spec => []AppliedOnce
<1>1. EventsInv => AppliedOnce
  BY DEF EventsInv
<1>2. QED BY <1>1, EventsAlways, PTL

\* With subgraphEventsOrder, and unless something fails once a created contract is watched,
\* the events of the contracts created in the block are applied after all the others, in log
\* order.
THEOREM CreatedLast == Spec => []CreatedContractsLast
<1>1. EventsInv => CreatedContractsLast
  <2>1. SUFFICES ASSUME EventsInv, subgraphEventsOrder, spent.onceWatched = 0, spent.restarts = 0,
                        NEW i \in Due \cap Applied, NEW j \in Due,
                        CreatedInBlock(i), ~CreatedInBlock(j) \/ j < i, j \notin Applied
                 PROVE  FALSE
    BY DEF CreatedContractsLast, CreatedInBlock
  <2> USE <2>1, Fields DEF EventsInv
  <2>2. Looped
    BY DEF SecondLoopLast
  <2>3. worker.events = {} /\ \A k \in Pending : k > i
    BY <2>2 DEF SecondLoopLast
  <2>4. GoodAttempt
    BY <2>2 DEF OutOfLogOrder
  <2>5. j \in Pending /\ i \in Int /\ j \in Int
    BY <2>4 DEF GoodAttempt
  <2>6. j \in worker.unwatched
    BY <2>3, <2>5 DEF Pending, Unhandled
  <2>7. CreatedInBlock(j)
    BY <2>6 DEF WorkerShape
  <2>8. QED BY <2>3, <2>5, <2>7
<1>2. QED BY <1>1, EventsAlways, PTL

\* A handler that commits applies the next due event of the log.
LEMMA ApplyNext ==
  ASSUME EventsInv, Processing, ~(InFirstLoop /\ OutOfOrder), UNCHANGED <<given, row>>,
         log[Current].contract \in watched => applied' = [applied EXCEPT ![Current] = @ + 1],
         log[Current].contract \notin watched => UNCHANGED applied
  PROVE  [Abstract!Next]_(Abstract!vars)
<1> USE SameLog, Fields, CurrentIs, ProcessingIs DEF EventsInv
<1>1. DueInOrder' = DueInOrder /\ row'.isComplete = row.isComplete
  BY DEF DueInOrder
<1>2. applied \in [Indexes -> Nat]
  BY DEF TypeInv, TypeOK
<1>3. Applied' = Applied \/ (Applied' = Applied \cup {Current} /\ Current \notin Applied)
  BY <1>2 DEF Applied
<1>4. CASE Applied' = Applied \/ Current \notin DueInOrder
  <2>1. DueInOrder \cap Applied' = DueInOrder \cap Applied
    BY <1>3, <1>4
  <2>2. QED BY <1>1, <2>1 DEF Abstract!vars
<1>5. CASE Applied' = Applied \cup {Current} /\ Current \notin Applied /\ Current \in DueInOrder
  <2>1. ~subgraphEventsOrder /\ DueInOrder = Due
    BY <1>5 DEF DueInOrder
  <2>2. Current = 0 \/ Current - 1 = last
    BY <2>1 DEF WorkerShape, Unhandled, InFirstLoop, OutOfOrder, last
  <2>3. \A j \in Indexes : j < Current => j <= last
    <3>1. \A j \in Indexes : j \in Int /\ 0 <= j
      BY DEF Indexes
    <3>2. QED BY <2>2, <3>1
  <2>4. \A j \in DueInOrder : j < Current => j \in DueInOrder \cap Applied
    BY <2>1, <2>3 DEF InOrder, Processed, Applied
  <2>5. (DueInOrder \cap Applied)' = (DueInOrder \cap Applied) \cup {Current}
    BY <1>1, <1>5
  <2>6. Current \in DueInOrder \ (DueInOrder \cap Applied)
    BY <1>5
  <2>7. Abstract!Apply
    BY <1>1, <2>4, <2>5, <2>6 DEF Abstract!Apply
  <2>8. QED BY <2>7 DEF Abstract!Next
<1>6. QED BY <1>3, <1>4, <1>5

LEMMA EventsImplement == EventsInv /\ [Next]_vars => [Abstract!Next]_(Abstract!vars)
<1> SUFFICES ASSUME EventsInv, [Next]_vars PROVE [Abstract!Next]_(Abstract!vars)
  OBVIOUS
<1> USE SameLog, Fields DEF EventsInv
<1>1. UNCHANGED given /\ DueInOrder' = DueInOrder
  BY DEF DueInOrder, Next, Handle, vars, TakeJob, Refetch, SkipEvent, ProcessEvent, UpdateProgress,
         FinishBlock, FailHandler, FailWatch, FailUpdate, FinishPartly, UpdateWatchedContracts,
         Requeue, Signal, Crash, Restart
<1>2. DueInOrder \subseteq Due
  BY DEF DueInOrder
<1>3. ASSUME UNCHANGED <<row, applied>> PROVE UNCHANGED Abstract!vars
  BY <1>1, <1>3 DEF Abstract!vars, Applied
<1>4. ASSUME row'.isComplete = FALSE, UNCHANGED applied PROVE Abstract!Next
  BY <1>1, <1>4 DEF Abstract!Next, Abstract!Reopen, Applied
<1>5. ASSUME row'.isComplete = TRUE, UNCHANGED applied, DueInOrder \subseteq Applied
      PROVE  Abstract!Next
  BY <1>1, <1>5 DEF Abstract!Next, Abstract!Finish, Applied
<1>6. ASSUME AtEnd PROVE DueInOrder \subseteq Applied
  BY <1>2, <1>6, AtEndIsLast DEF DueInOrder, Processed, Applied
<1>7. ASSUME worker.block \in Blocks PROVE CompleteRow.isComplete = TRUE
  BY <1>7 DEF CompleteRow, Blocks
<1>8. worker.block \in Blocks /\ row \in Blocks
  BY DEF TypeInv, TypeOK
<1>9. CASE TakeJob \/ SkipEvent \/ FailHandler \/ FailUpdate \/ Requeue \/ Signal \/ Crash
  BY <1>3, <1>9 DEF TakeJob, SkipEvent, FailHandler, FailUpdate, Requeue, Signal, Crash, dbVars
<1>10. CASE Refetch
  <2>1. row'.isComplete = FALSE /\ UNCHANGED applied
    BY <1>8, <1>10 DEF Refetch, Blocks
  <2>2. QED BY <1>4, <2>1
<1>11. CASE ProcessEvent
  <2>1. CASE InFirstLoop /\ OutOfOrder
    BY <1>3, <1>11, <2>1 DEF ProcessEvent
  <2>2. CASE ~(InFirstLoop /\ OutOfOrder)
    BY <1>11, <2>2, ApplyNext DEF ProcessEvent
  <2>3. QED BY <2>1, <2>2
<1>12. CASE FailWatch
  BY <1>12, ApplyNext DEF FailWatch
<1>13. CASE UpdateProgress
  <2>1. UNCHANGED applied
    BY <1>13 DEF UpdateProgress
  <2>2. CASE row' = row
    BY <1>3, <2>1, <2>2
  <2>3. CASE row' # row /\ worker.block.isComplete
    <3>1. row' = worker.block
      BY <1>13, <2>3 DEF UpdateProgress
    <3>2. \A i \in Indexes : i <= last
      BY <2>3 DEF RowShape, Indexes
    <3>3. DueInOrder \subseteq Applied
      BY <1>2, <3>2 DEF DueInOrder, InOrder, Processed, Applied
    <3>4. QED BY <1>5, <2>1, <2>3, <3>1, <3>3
  <2>4. CASE row' # row /\ ~worker.block.isComplete
    <3>1. row'.isComplete = FALSE
      BY <1>8, <1>13, <2>4 DEF UpdateProgress, Blocks
    <3>2. QED BY <1>4, <2>1, <3>1
  <2>5. QED BY <2>2, <2>3, <2>4
<1>14. CASE FinishBlock
  BY <1>5, <1>6, <1>7, <1>8, <1>14 DEF FinishBlock
<1>15. CASE FinishPartly
  BY <1>3, <1>5, <1>6, <1>7, <1>8, <1>15 DEF FinishPartly
<1>16. CASE \E c \in ServerWatches : UpdateWatchedContracts(c)
  BY <1>3, <1>16 DEF UpdateWatchedContracts
<1>17. CASE Restart
  <2>1. row' = FreshRow /\ applied' = [i \in Indexes |-> 0]
    BY <1>17 DEF Restart
  <2>2. row'.isComplete = FALSE /\ Applied' = {}
    BY <2>1 DEF FreshRow, Applied
  <2>3. QED BY <1>1, <2>2 DEF Abstract!Next, Abstract!Discard
<1>18. CASE UNCHANGED vars
  BY <1>3, <1>18 DEF vars, dbVars
<1>19. QED
  BY <1>9, <1>10, <1>11, <1>12, <1>13, <1>14, <1>15, <1>16, <1>17, <1>18 DEF Next, Handle

LEMMA EventsInitImplements == Init => Abstract!Init
<1> SUFFICES ASSUME Init PROVE Abstract!Init
  OBVIOUS
<1>1. DueInOrder \subseteq Nat
  BY EventsAssumption DEF DueInOrder, Due, Indexes
<1>2. Applied = {} /\ row.isComplete = FALSE
  BY DEF Init, Applied, FreshRow
<1>3. QED BY <1>1, <1>2 DEF Abstract!Init

\* Without subgraphEventsOrder the loop implements EventLog, through failures, retries,
\* repeated jobs, shutdowns and crashes.
THEOREM EventsImplementLog == Spec => AppliesInLogOrder
  BY EventsAlways, EventsInitImplements, EventsImplement, PTL
  DEF Spec, AppliesInLogOrder, Abstract!Spec
=============================================================================
