-------------------------- MODULE TokenViewsProofs --------------------------
(***************************************************************************)
(* What the token views answer, for every set of clients, tokens, queries  *)
(* and bounds.                                                             *)
(***************************************************************************)
EXTENDS TokenViews, TLAPS

Kept == {"name", "symbol", "decimals"}
Reset == {"balanceOf", "allowance"}

\* Whether a value that is not the contract's may stand for it.
MayBeMadeUp(q) == NoValue(q) \/ spent.faults > 0

TypeInv ==
  /\ TypeOK
  /\ event \in ChainEvents
  /\ spent \in [faults : Nat, asked : Nat, restarts : Nat]

\* What a call knows at each of its awaits.
KnownTo(call) ==
  /\ call.step # "idle" => call.query \in Queries
  /\ call.step \in {"lookup", "block", "bytes", "save"} => call.query.view \in StoredViews
  /\ call.step = "bytes" =>
       /\ call.query.view \in {"name", "symbol"}
       /\ Returns[call.query.token] # "string" \/ spent.faults > 0
  /\ call.step = "save" =>
       /\ call.value \in Values
       /\ call.query.view \in Reset => call.value = "chain"
       /\ call.value # "chain" => MayBeMadeUp(call.query)

CallsAtAwaits == \A c \in Callers : KnownTo(request[c])

RowsAreUnique == \A r, s \in rows : r.query = s.query => r = s

RowsHoldFetched ==
  \A r \in rows : /\ r.query.view \in Reset => r.value = "chain"
                  /\ r.value # "chain" => MayBeMadeUp(r.query)

\* The rows of the kept tables stay, so that they hold every answer given.
AnswersFromRows ==
  \A q \in Queries :
    /\ q.view \in Kept => \A v \in answers[q] : \E r \in rows : r.query = q /\ r.value = v
    /\ q.view \in Reset => answers[q] \subseteq {"chain"}
    /\ \A v \in answers[q] : v # "chain" => MayBeMadeUp(q)

\* The job's views before the next are stored, and its call is for the next.
JobInOrder ==
  /\ job \in {"active", "done"} =>
       \A i \in DOMAIN EventQueries(event) :
         i <= indexed => \E r \in rows : r.query = EventQueries(event)[i]
  /\ request[Job].step # "idle" =>
       /\ job = "active" /\ indexed + 1 \in DOMAIN EventQueries(event)
       /\ request[Job].query = EventQueries(event)[indexed + 1]
  /\ indexed <= Len(EventQueries(event))
  /\ job = "done" => indexed >= Len(EventQueries(event))

ViewInv == CallsAtAwaits /\ RowsAreUnique /\ RowsHoldFetched /\ AnswersFromRows /\ JobInOrder

-----------------------------------------------------------------------------
(* The facts used throughout. *)

LEMMA EventViews ==
  ASSUME NEW e \in ChainEvents
  PROVE  /\ Len(EventQueries(e)) \in 1..2
         /\ DOMAIN EventQueries(e) = 1..Len(EventQueries(e))
         /\ \A i \in DOMAIN EventQueries(e) :
              EventQueries(e)[i] \in Queries /\ EventQueries(e)[i].view \in Reset
<1>1. \A i \in DOMAIN EventQueries(e) : EventQueries(e)[i] \in Queries
  BY EventAssumption
<1>2. CASE e.name = "Transfer"
  <2>1. EventQueries(e) = <<BalanceOf(e, e.from), BalanceOf(e, e.to)>>
    BY <1>2 DEF EventQueries
  <2>2. BalanceOf(e, e.from).view = "balanceOf" /\ BalanceOf(e, e.to).view = "balanceOf"
    BY DEF BalanceOf
  <2>3. QED
    BY <1>1, <2>1, <2>2 DEF Reset
<1>3. CASE e.name # "Transfer"
  <2>1. EventQueries(e) = <<AllowanceOf(e)>>
    BY <1>3 DEF EventQueries
  <2>2. AllowanceOf(e).view = "allowance"
    BY DEF AllowanceOf
  <2>3. QED
    BY <1>1, <2>1, <2>2 DEF Reset
<1>4. QED
  BY <1>2, <1>3

LEMMA Setting ==
  /\ \A q \in Queries : q.view \in StoredViews \cup {"totalSupply"}
  /\ \A q \in Queries : Returns[q.token] \in Contracts
  /\ NoQuery \notin Queries /\ Job \notin Clients /\ Job \in Callers
  /\ StoredViews = Kept \cup Reset
  BY TokenAssumption DEF StoredViews, Kept, Reset, Callers, Job

ViewsInv == TypeInv /\ ViewInv

-----------------------------------------------------------------------------
(* How a call goes on or ends. *)

\* Failures are only ever counted up.
Counted ==
  /\ spent' \in [faults : Nat, asked : Nat, restarts : Nat]
  /\ spent'.faults >= spent.faults

\* The same after the step.
MadeUpAfter(q) == NoValue(q) \/ spent'.faults > 0

LEMMA FaultCounted ==
  ASSUME TypeInv
  PROVE  /\ Fault => Counted /\ spent'.faults > 0
         /\ UNCHANGED spent => Counted
  BY DEF TypeInv, Fault, Counted

LEMMA MadeUpKept ==
  ASSUME TypeInv, Counted, NEW q, MayBeMadeUp(q)
  PROVE  MayBeMadeUp(q)'
  BY DEF TypeInv, Counted, MayBeMadeUp, NoValue

LEMMA OtherCallsKept ==
  ASSUME ViewsInv, Counted, NEW d \in Callers, request'[d] = request[d]
  PROVE  KnownTo(request[d])'
<1>1. KnownTo(request[d])
  BY DEF ViewsInv, ViewInv, CallsAtAwaits
<1>2. TypeInv
  BY DEF ViewsInv
<1>3. spent.faults > 0 => spent'.faults > 0
  BY <1>2 DEF TypeInv, Counted
<1>4. \A q : MayBeMadeUp(q) => MayBeMadeUp(q)'
  BY <1>3 DEF MayBeMadeUp, NoValue
<1>5. QED
  BY <1>1, <1>3, <1>4 DEF KnownTo

LEMMA RowsKept ==
  ASSUME ViewsInv, Counted, UNCHANGED rows
  PROVE  RowsAreUnique' /\ RowsHoldFetched'
<1>1. RowsAreUnique'
  BY DEF ViewsInv, ViewInv, RowsAreUnique
<1>2. RowsHoldFetched'
  BY MadeUpKept DEF ViewsInv, ViewInv, RowsHoldFetched
<1>3. QED
  BY <1>1, <1>2

LEMMA AnswersKept ==
  ASSUME ViewsInv, Counted, UNCHANGED answers, rows \subseteq rows'
  PROVE  AnswersFromRows'
  BY MadeUpKept DEF ViewsInv, ViewInv, AnswersFromRows

LEMMA ContinueKeeps ==
  ASSUME ViewsInv, Counted, NEW c \in Callers, NEW step \in {"block", "fetch", "bytes", "save"},
         NEW value \in Values \cup {"none"},
         Continue(c, step, value), UNCHANGED <<event, rows>>,
         request[c].step # "idle",
         step # "fetch" => request[c].query.view \in StoredViews,
         step = "bytes" =>
           /\ request[c].query.view \in {"name", "symbol"}
           /\ Returns[request[c].query.token] # "string" \/ spent'.faults > 0,
         step = "save" =>
           /\ value \in Values
           /\ request[c].query.view \in Reset => value = "chain"
           /\ value # "chain" => MadeUpAfter(request[c].query)
  PROVE  ViewsInv'
<1>1. TypeInv'
  <2>1. request' \in [Callers -> [step : {"idle", "lookup", "block", "fetch", "bytes", "save"},
                                 query : Queries \cup {NoQuery}, value : Values \cup {"none"}]]
    <3>1. request \in [Callers -> [step : {"idle", "lookup", "block", "fetch", "bytes", "save"},
                                  query : Queries \cup {NoQuery}, value : Values \cup {"none"}]]
      BY DEF ViewsInv, TypeInv, TypeOK
    <3>2. QED
      BY <3>1 DEF Continue
  <2>2. QED
    BY <2>1 DEF ViewsInv, TypeInv, TypeOK, Continue, Counted
<1>2. request'[c] = [request[c] EXCEPT !.step = step, !.value = value]
  BY DEF ViewsInv, TypeInv, TypeOK, Continue
<1>3. /\ request'[c].step = step /\ request'[c].value = value
      /\ request'[c].query = request[c].query
  BY <1>2 DEF ViewsInv, TypeInv, TypeOK
<1>4. \A d \in Callers : d # c => request'[d] = request[d]
  BY DEF ViewsInv, TypeInv, TypeOK, Continue
<1>5. CallsAtAwaits'
  <2>1. request[c].query \in Queries
    BY DEF ViewsInv, ViewInv, CallsAtAwaits, KnownTo
  <2>2. QED
    <3>1. KnownTo(request[c])'
      BY <1>3, <2>1 DEF KnownTo, MayBeMadeUp, MadeUpAfter, NoValue
    <3>2. QED
      BY <1>4, <3>1, OtherCallsKept DEF CallsAtAwaits
<1>6. RowsAreUnique' /\ RowsHoldFetched' /\ AnswersFromRows'
  BY RowsKept, AnswersKept DEF Continue
<1>7. JobInOrder'
  BY <1>3, <1>4, Setting DEF ViewsInv, ViewInv, JobInOrder, Continue
<1>8. QED
  BY <1>1, <1>5, <1>6, <1>7 DEF ViewsInv, ViewInv

LEMMA FailKeeps ==
  ASSUME ViewsInv, Counted, NEW c \in Callers, Fail(c), UNCHANGED <<event, rows>>
  PROVE  ViewsInv'
<1>1. TypeInv'
  BY DEF ViewsInv, TypeInv, TypeOK, Fail, Counted, Idle
<1>2. request'[c].step = "idle" /\ \A d \in Callers : d # c => request'[d] = request[d]
  BY DEF ViewsInv, TypeInv, TypeOK, Fail, Idle
<1>3. CallsAtAwaits'
  <2>1. KnownTo(request[c])'
    BY <1>2 DEF KnownTo
  <2>2. QED
    BY <1>2, <2>1, OtherCallsKept DEF CallsAtAwaits
<1>4. RowsAreUnique' /\ RowsHoldFetched' /\ AnswersFromRows'
  BY RowsKept, AnswersKept DEF Fail
<1>5. JobInOrder'
  BY <1>2, Setting DEF ViewsInv, ViewInv, JobInOrder, Fail
<1>6. QED
  BY <1>1, <1>3, <1>4, <1>5 DEF ViewsInv, ViewInv

LEMMA AnswerKeeps ==
  ASSUME ViewsInv, Counted, NEW c \in Callers, NEW value \in Values,
         Answer(c, value), UNCHANGED event, rows \subseteq rows',
         rows' \subseteq [query : Queries, value : Values],
         RowsAreUnique', RowsHoldFetched',
         request[c].step # "idle",
         value # "chain" => MadeUpAfter(request[c].query),
         request[c].query.view \in Reset => value = "chain",
         request[c].query.view \in StoredViews =>
           \E r \in rows' : r.query = request[c].query /\ r.value = value
  PROVE  ViewsInv'
<1>1. request[c].query \in Queries
  BY DEF ViewsInv, ViewInv, CallsAtAwaits, KnownTo
<1>2. request'[c].step = "idle" /\ \A d \in Callers : d # c => request'[d] = request[d]
  BY DEF ViewsInv, TypeInv, TypeOK, Answer, Idle
<1>3. JobInOrder' /\ indexed' \in 0..2
  <2>1. CASE c # Job
    BY <2>1, <1>2, Setting DEF ViewsInv, ViewInv, TypeInv, TypeOK, JobInOrder, Answer
  <2>2. CASE c = Job
    <3>1. /\ job = "active" /\ indexed + 1 \in DOMAIN EventQueries(event)
          /\ request[Job].query = EventQueries(event)[indexed + 1]
          /\ event \in ChainEvents /\ indexed \in 0..2
      BY <2>2 DEF ViewsInv, ViewInv, TypeInv, TypeOK, JobInOrder
    <3>2. request[Job].query.view \in StoredViews
      BY <3>1, EventViews, Setting
    <3>3. \E r \in rows' : r.query = EventQueries(event)[indexed + 1]
      BY <2>2, <3>1, <3>2
    <3>4. indexed' = indexed + 1 /\ job' = job
      BY <2>2 DEF Answer
    <3>5. \A i \in DOMAIN EventQueries(event) :
            i <= indexed + 1 => \E r \in rows' : r.query = EventQueries(event)[i]
      <4>1. SUFFICES ASSUME NEW i \in DOMAIN EventQueries(event), i <= indexed + 1
                     PROVE  \E r \in rows' : r.query = EventQueries(event)[i]
        OBVIOUS
      <4>2. i \in Nat
        BY <3>1, EventViews
      <4>3. CASE i <= indexed
        BY <4>3, <3>1 DEF ViewsInv, ViewInv, JobInOrder
      <4>4. CASE i = indexed + 1
        BY <4>4, <3>3
      <4>5. QED
        BY <3>1, <4>1, <4>2, <4>3, <4>4
    <3>6. indexed + 1 <= Len(EventQueries(event)) /\ Len(EventQueries(event)) \in 1..2
      BY <3>1, EventViews
    <3>7. QED
      BY <1>2, <2>2, <3>1, <3>4, <3>5, <3>6 DEF JobInOrder
  <2>3. QED
    BY <2>1, <2>2
<1>4. TypeInv'
  BY <1>3 DEF ViewsInv, TypeInv, TypeOK, Answer, Counted, Idle
<1>5. CallsAtAwaits'
  <2>1. KnownTo(request[c])'
    BY <1>2 DEF KnownTo
  <2>2. QED
    BY <1>2, <2>1, OtherCallsKept DEF CallsAtAwaits
<1>6. AnswersFromRows'
  <2>1. SUFFICES ASSUME NEW q \in Queries
                 PROVE
        /\ q.view \in Kept => \A v \in answers'[q] : \E r \in rows' : r.query = q /\ r.value = v
        /\ q.view \in Reset => answers'[q] \subseteq {"chain"}
        /\ \A v \in answers'[q] : v # "chain" => MayBeMadeUp(q)'
    BY DEF AnswersFromRows
  <2>2. /\ q.view \in Kept => \A v \in answers[q] : \E r \in rows' : r.query = q /\ r.value = v
        /\ q.view \in Reset => answers[q] \subseteq {"chain"}
        /\ \A v \in answers[q] : v # "chain" => MayBeMadeUp(q)'
    <3>1. TypeInv
      BY DEF ViewsInv
    <3>2. MayBeMadeUp(q) => MayBeMadeUp(q)'
      BY <3>1, MadeUpKept
    <3>3. QED
      BY <3>2 DEF ViewsInv, ViewInv, AnswersFromRows
  <2>3. CASE q # request[c].query
    <3>1. answers'[q] = answers[q]
      BY <2>3 DEF ViewsInv, TypeInv, TypeOK, Answer
    <3>2. QED
      BY <2>2, <3>1
  <2>4. CASE q = request[c].query
    <3>1. answers'[q] = answers[q] \cup {value}
      BY <2>4 DEF ViewsInv, TypeInv, TypeOK, Answer
    <3>2. q.view \in Kept => \A v \in answers'[q] : \E r \in rows' : r.query = q /\ r.value = v
      <4>1. q.view \in Kept => \E r \in rows' : r.query = q /\ r.value = value
        BY <2>4, Setting
      <4>2. QED
        BY <2>2, <3>1, <4>1
    <3>3. q.view \in Reset => answers'[q] \subseteq {"chain"}
      BY <2>2, <2>4, <3>1
    <3>4. \A v \in answers'[q] : v # "chain" => MayBeMadeUp(q)'
      <4>1. value # "chain" => MayBeMadeUp(q)'
        BY <2>4 DEF MayBeMadeUp, MadeUpAfter, NoValue
      <4>2. QED
        BY <2>2, <3>1, <4>1
    <3>5. QED
      BY <3>2, <3>3, <3>4
  <2>5. QED
    BY <2>3, <2>4
<1>7. QED
  BY <1>3, <1>4, <1>5, <1>6 DEF ViewsInv, ViewInv

-----------------------------------------------------------------------------
(* The steps of a view. *)

LEMMA LookupKeeps ==
  ASSUME ViewsInv, NEW c \in Callers, Lookup(c)
  PROVE  ViewsInv'
<1>1. Counted /\ UNCHANGED <<event, rows>>
  BY FaultCounted DEF ViewsInv, Lookup
<1>2. KnownTo(request[c]) /\ request[c].step = "lookup"
  BY DEF ViewsInv, ViewInv, CallsAtAwaits, Lookup
<1>3. ASSUME NEW r \in RowOf(request[c].query), Answer(c, r.value)
      PROVE  ViewsInv'
  <2>1. r \in rows /\ r.query = request[c].query
    BY DEF RowOf
  <2>2. rows \subseteq [query : Queries, value : Values] /\ r.value \in Values
    BY <2>1 DEF ViewsInv, TypeInv, TypeOK
  <2>3. /\ r.query.view \in Reset => r.value = "chain"
        /\ r.value # "chain" => MayBeMadeUp(r.query)
    BY <2>1 DEF ViewsInv, ViewInv, RowsHoldFetched
  <2>4. r.value # "chain" => MadeUpAfter(request[c].query)
    BY <2>1, <2>3 DEF Lookup, MayBeMadeUp, MadeUpAfter
  <2>5. QED
    BY <1>1, <1>2, <1>3, <2>1, <2>2, <2>3, <2>4, RowsKept, AnswerKeeps
<1>4. ASSUME Continue(c, "block", "none")
      PROVE  ViewsInv'
  BY <1>1, <1>2, <1>4, ContinueKeeps DEF KnownTo
<1>5. QED
  BY <1>3, <1>4 DEF Lookup

LEMMA GetBlockKeeps ==
  ASSUME ViewsInv, NEW c \in Callers, GetBlockByHash(c)
  PROVE  ViewsInv'
<1>1. Counted /\ UNCHANGED <<event, rows>>
  BY FaultCounted DEF ViewsInv, GetBlockByHash
<1>2. KnownTo(request[c]) /\ request[c].step = "block"
  BY DEF ViewsInv, ViewInv, CallsAtAwaits, GetBlockByHash
<1>3. CASE Continue(c, "fetch", "none")
  BY <1>1, <1>2, <1>3, ContinueKeeps DEF KnownTo
<1>4. CASE Fail(c)
  BY <1>1, <1>4, FailKeeps
<1>5. QED
  BY <1>3, <1>4 DEF GetBlockByHash

LEMMA FetchValueKeeps ==
  ASSUME ViewsInv, NEW c \in Callers, FetchValue(c)
  PROVE  ViewsInv'
<1>1. Counted /\ UNCHANGED <<event, rows>>
  BY FaultCounted DEF ViewsInv, FetchValue
<1>2. request[c].step = "fetch" /\ request[c].query.view \in StoredViews
  BY DEF FetchValue, StoredViews
<1>3. CASE Continue(c, "save", "chain")
  BY <1>1, <1>2, <1>3, ContinueKeeps DEF Values
<1>4. CASE Fail(c)
  BY <1>1, <1>4, FailKeeps
<1>5. QED
  BY <1>3, <1>4 DEF FetchValue

LEMMA FetchStringKeeps ==
  ASSUME ViewsInv, NEW c \in Callers, FetchString(c)
  PROVE  ViewsInv'
<1>1. Counted /\ UNCHANGED <<event, rows>>
  BY FaultCounted DEF ViewsInv, FetchString
<1>2. /\ request[c].step = "fetch" /\ request[c].query.view \in {"name", "symbol"}
      /\ request[c].query.view \in StoredViews
  BY DEF FetchString, StoredViews
<1>3. CASE Continue(c, "save", "chain")
  BY <1>1, <1>2, <1>3, ContinueKeeps DEF Values
<1>4. CASE Continue(c, "bytes", "none") /\ Returns[request[c].query.token] # "string"
  BY <1>1, <1>2, <1>4, ContinueKeeps
<1>5. CASE Continue(c, "bytes", "none") /\ Fault
  BY <1>1, <1>2, <1>5, FaultCounted, ContinueKeeps DEF ViewsInv
<1>6. QED
  BY <1>3, <1>4, <1>5 DEF FetchString

LEMMA FetchBytesKeeps ==
  ASSUME ViewsInv, NEW c \in Callers, FetchBytes(c)
  PROVE  ViewsInv'
<1>1. Counted /\ UNCHANGED <<event, rows>>
  BY FaultCounted DEF ViewsInv, FetchBytes
<1>2. /\ request[c].step = "bytes" /\ request[c].query \in Queries
      /\ request[c].query.view \in {"name", "symbol"} /\ request[c].query.view \in StoredViews
      /\ Returns[request[c].query.token] # "string" \/ spent.faults > 0
      /\ Returns[request[c].query.token] \in Contracts
  BY Setting DEF ViewsInv, ViewInv, CallsAtAwaits, KnownTo, FetchBytes, StoredViews
<1>3. ASSUME NEW value \in Values, Continue(c, "save", value),
             value # "chain" => MadeUpAfter(request[c].query)
      PROVE  ViewsInv'
  BY <1>1, <1>2, <1>3, ContinueKeeps DEF Reset
<1>4. CASE Continue(c, "save", BytesValue(request[c].query.token)) /\ UNCHANGED spent
  <2>1. BytesValue(request[c].query.token) \in Values
    BY DEF BytesValue, StaticDefinition, Values
  <2>2. BytesValue(request[c].query.token) # "chain" =>
          NoValue(request[c].query) \/ spent.faults > 0
    BY <1>2 DEF BytesValue, NoValue, Contracts
  <2>3. BytesValue(request[c].query.token) # "chain" => MadeUpAfter(request[c].query)
    BY <1>4, <2>2 DEF MadeUpAfter
  <2>4. QED
    BY <1>3, <1>4, <2>1, <2>3
<1>5. CASE Continue(c, "save", "unknown") /\ Fault
  BY <1>3, <1>5, FaultCounted DEF ViewsInv, Values, MadeUpAfter
<1>6. QED
  BY <1>4, <1>5 DEF FetchBytes

LEMMA FetchDecimalsKeeps ==
  ASSUME ViewsInv, NEW c \in Callers, FetchDecimals(c)
  PROVE  ViewsInv'
<1> DEFINE token == request[c].query.token
<1>1. Counted /\ UNCHANGED <<event, rows>>
  BY FaultCounted DEF ViewsInv, FetchDecimals
<1>2. /\ request[c].step = "fetch" /\ request[c].query.view = "decimals"
      /\ request[c].query.view \in StoredViews
  BY DEF FetchDecimals, StoredViews
<1>3. ASSUME NEW value \in Values, Continue(c, "save", value),
             value # "chain" => MadeUpAfter(request[c].query)
      PROVE  ViewsInv'
  BY <1>1, <1>2, <1>3, ContinueKeeps DEF Reset
<1>4. StaticDefinition(token, "0") \in Values
  BY DEF StaticDefinition, Values
<1>5. CASE Fail(c)
  BY <1>1, <1>5, FailKeeps
<1>6. CASE Continue(c, "save", IF Returns[token] = "nothing"
                                THEN StaticDefinition(token, "0") ELSE "chain")
  <2>1. CASE Returns[token] = "nothing"
    <3>1. MadeUpAfter(request[c].query)
      BY <1>2, <2>1 DEF MadeUpAfter, NoValue
    <3>2. QED
      BY <1>3, <1>4, <1>6, <2>1, <3>1
  <2>2. CASE Returns[token] # "nothing"
    BY <1>3, <1>6, <2>2 DEF Values
  <2>3. QED
    BY <2>1, <2>2
<1>7. CASE Fault /\ Continue(c, "save", StaticDefinition(token, "0"))
  BY <1>3, <1>4, <1>7, FaultCounted DEF ViewsInv, MadeUpAfter
<1>8. QED
  BY <1>5, <1>6, <1>7 DEF FetchDecimals

LEMMA FetchTotalSupplyKeeps ==
  ASSUME ViewsInv, NEW c \in Callers, FetchTotalSupply(c)
  PROVE  ViewsInv'
<1>1. Counted /\ UNCHANGED <<event, rows>>
  BY FaultCounted DEF ViewsInv, FetchTotalSupply
<1>2. /\ request[c].step = "fetch" /\ request[c].query.view \notin Reset
      /\ request[c].query.view \notin StoredViews
  BY DEF FetchTotalSupply, StoredViews, Reset
<1>3. rows' \subseteq [query : Queries, value : Values] /\ rows \subseteq rows'
  BY <1>1 DEF ViewsInv, TypeInv, TypeOK
<1>4. ASSUME NEW value \in Values, Answer(c, value),
             value # "chain" => MadeUpAfter(request[c].query)
      PROVE  ViewsInv'
  BY <1>1, <1>2, <1>3, <1>4, RowsKept, AnswerKeeps
<1>5. CASE Answer(c, "chain")
  BY <1>4, <1>5 DEF Values
<1>6. CASE Fault /\ Answer(c, "0")
  BY <1>4, <1>6, FaultCounted DEF ViewsInv, Values, MadeUpAfter
<1>7. CASE Fail(c)
  BY <1>1, <1>7, FailKeeps
<1>8. QED
  BY <1>5, <1>6, <1>7 DEF FetchTotalSupply

\* The unique index lets in the first row of a query only.
LEMMA SaveKeeps ==
  ASSUME ViewsInv, NEW c \in Callers, Save(c)
  PROVE  ViewsInv'
<1>1. Counted /\ UNCHANGED <<event>> /\ UNCHANGED spent
  BY FaultCounted DEF ViewsInv, Save
<1>2. KnownTo(request[c]) /\ request[c].step = "save"
  BY DEF ViewsInv, ViewInv, CallsAtAwaits, Save
<1>3. CASE UniqueIndex(request[c].query)
  <2> DEFINE row == [query |-> request[c].query, value |-> request[c].value]
  <2>1. rows' = rows \cup {row} /\ Answer(c, request[c].value)
    BY <1>3 DEF Save
  <2>2. request[c].query \in Queries /\ request[c].value \in Values
    BY <1>2 DEF KnownTo
  <2>3. rows' \subseteq [query : Queries, value : Values]
    BY <2>1, <2>2 DEF ViewsInv, TypeInv, TypeOK
  <2>4. RowsAreUnique'
    BY <1>3, <2>1 DEF ViewsInv, ViewInv, RowsAreUnique, UniqueIndex, RowOf
  <2>5. /\ request[c].query.view \in Reset => request[c].value = "chain"
        /\ request[c].value # "chain" => MadeUpAfter(request[c].query)
    BY <1>1, <1>2 DEF KnownTo, MayBeMadeUp, MadeUpAfter
  <2>6. RowsHoldFetched'
    BY <1>1, <2>1, <2>5 DEF ViewsInv, ViewInv, RowsHoldFetched, MayBeMadeUp, MadeUpAfter, NoValue
  <2>7. QED
    BY <1>1, <1>2, <2>1, <2>2, <2>3, <2>4, <2>5, <2>6, AnswerKeeps
<1>4. CASE ~UniqueIndex(request[c].query)
  BY <1>1, <1>4, FailKeeps DEF Save
<1>5. QED
  BY <1>3, <1>4

-----------------------------------------------------------------------------
(* The steps around the views. *)

LEMMA AskKeeps ==
  ASSUME ViewsInv, NEW c \in Clients, NEW q \in Queries, Ask(c, q)
  PROVE  ViewsInv'
<1>1. c \in Callers /\ c # Job
  BY Setting DEF Callers
<1>2. Counted /\ spent'.faults = spent.faults /\ UNCHANGED <<event, rows, answers, job, indexed>>
  BY DEF ViewsInv, TypeInv, Counted, Ask
<1>3. TypeInv'
  BY <1>1, <1>2 DEF ViewsInv, TypeInv, TypeOK, Counted, Ask, Idle
<1>4. /\ request'[c].query = q /\ request'[c].step \in {"lookup", "fetch"}
      /\ request'[c].step = "lookup" => q.view # "totalSupply"
      /\ \A d \in Callers : d # c => request'[d] = request[d]
  BY <1>1 DEF ViewsInv, TypeInv, TypeOK, Ask, Idle
<1>5. CallsAtAwaits'
  <2>1. KnownTo(request[c])'
    BY <1>4, TokenAssumption DEF KnownTo
  <2>2. QED
    BY <1>2, <1>4, <2>1, OtherCallsKept DEF CallsAtAwaits
<1>6. RowsAreUnique' /\ RowsHoldFetched' /\ AnswersFromRows'
  BY <1>2, RowsKept, AnswersKept
<1>7. JobInOrder'
  BY <1>1, <1>2, <1>4, Setting DEF ViewsInv, ViewInv, JobInOrder
<1>8. QED
  BY <1>3, <1>5, <1>6, <1>7 DEF ViewsInv, ViewInv

LEMMA JobStepsKeep ==
  ASSUME ViewsInv, TakeJob \/ NextView \/ CompleteJob
  PROVE  ViewsInv'
<1>1. Counted /\ UNCHANGED <<event, rows, answers>>
  BY FaultCounted DEF ViewsInv, TakeJob, NextView, CompleteJob
<1>2. RowsAreUnique' /\ RowsHoldFetched' /\ AnswersFromRows'
  BY <1>1, RowsKept, AnswersKept
<1>3. /\ event \in ChainEvents /\ Len(EventQueries(event)) \in 1..2
      /\ DOMAIN EventQueries(event) = 1..Len(EventQueries(event))
      /\ indexed \in 0..2 /\ Job \in Callers
  BY EventViews, Setting DEF ViewsInv, TypeInv, TypeOK
<1>4. CASE TakeJob
  <2>1. TypeInv'
    BY <1>4 DEF ViewsInv, TypeInv, TypeOK, TakeJob
  <2>2. CallsAtAwaits'
    BY <1>1, <1>4, OtherCallsKept DEF CallsAtAwaits, TakeJob
  <2>3. JobInOrder'
    BY <1>1, <1>3, <1>4 DEF ViewsInv, ViewInv, JobInOrder, TakeJob
  <2>4. QED
    BY <1>2, <2>1, <2>2, <2>3 DEF ViewsInv, ViewInv
<1>5. CASE NextView
  <2>1. indexed + 1 \in DOMAIN EventQueries(event)
    BY <1>3, <1>5 DEF NextView
  <2>2. /\ EventQueries(event)[indexed + 1] \in Queries
        /\ EventQueries(event)[indexed + 1].view \in StoredViews
    BY <1>3, <2>1, EventViews, Setting
  <2>3. TypeInv'
    BY <1>5, <2>2 DEF ViewsInv, TypeInv, TypeOK, NextView, Idle
  <2>4. /\ request'[Job].query = EventQueries(event)[indexed + 1]
        /\ request'[Job].step = "lookup"
        /\ \A d \in Callers : d # Job => request'[d] = request[d]
    BY <1>3, <1>5 DEF ViewsInv, TypeInv, TypeOK, NextView, Idle
  <2>5. CallsAtAwaits'
    <3>1. KnownTo(request[Job])'
      BY <2>2, <2>4 DEF KnownTo
    <3>2. QED
      BY <1>1, <2>4, <3>1, OtherCallsKept DEF CallsAtAwaits
  <2>6. JobInOrder'
    BY <1>1, <1>5, <2>1, <2>4 DEF ViewsInv, ViewInv, JobInOrder, NextView
  <2>7. QED
    BY <1>2, <2>3, <2>5, <2>6 DEF ViewsInv, ViewInv
<1>6. CASE CompleteJob
  <2>1. TypeInv'
    BY <1>6 DEF ViewsInv, TypeInv, TypeOK, CompleteJob
  <2>2. CallsAtAwaits'
    BY <1>1, <1>6, OtherCallsKept DEF CallsAtAwaits, CompleteJob
  <2>3. request[Job].step = "idle"
    BY <1>3, <1>6 DEF ViewsInv, ViewInv, JobInOrder, CompleteJob
  <2>4. JobInOrder'
    BY <1>1, <1>6, <2>3 DEF ViewsInv, ViewInv, JobInOrder, CompleteJob
  <2>5. QED
    BY <1>2, <2>1, <2>2, <2>4 DEF ViewsInv, ViewInv
<1>7. QED
  BY <1>4, <1>5, <1>6

\* The reset removes rows of the reset tables only, and has the event processed anew.
LEMMA RestartKeeps ==
  ASSUME ViewsInv, Restart
  PROVE  ViewsInv'
<1>1. Counted /\ spent'.faults = spent.faults /\ UNCHANGED <<event, answers>> /\ Job \in Callers
  BY Setting DEF ViewsInv, TypeInv, Counted, Restart
<1>2. rows' \subseteq rows /\ \A r \in rows : r.query.view \in Kept => r \in rows'
  BY DEF Restart, ResetViews, Kept
<1>3. TypeInv'
  BY <1>1, <1>2 DEF ViewsInv, TypeInv, TypeOK, Counted, Restart, Idle
<1>4. request'[Job].step = "idle" /\ \A d \in Callers : d # Job => request'[d] = request[d]
  BY <1>1 DEF ViewsInv, TypeInv, TypeOK, Restart, Idle
<1>5. CallsAtAwaits'
  <2>1. KnownTo(request[Job])'
    BY <1>4 DEF KnownTo
  <2>2. QED
    BY <1>1, <1>4, <2>1, OtherCallsKept DEF CallsAtAwaits
<1>6. RowsAreUnique' /\ RowsHoldFetched'
  BY <1>1, <1>2 DEF ViewsInv, ViewInv, RowsAreUnique, RowsHoldFetched, MayBeMadeUp, NoValue
<1>7. AnswersFromRows'
  BY <1>1, <1>2 DEF ViewsInv, ViewInv, AnswersFromRows, MayBeMadeUp, NoValue
<1>8. JobInOrder'
  <2>1. job' = "queued" /\ indexed' = 0 /\ event \in ChainEvents
    BY DEF Restart, ViewsInv, TypeInv
  <2>2. QED
    BY <1>1, <1>4, <2>1, EventViews DEF JobInOrder
<1>9. QED
  BY <1>3, <1>5, <1>6, <1>7, <1>8 DEF ViewsInv, ViewInv

-----------------------------------------------------------------------------
(* The invariant and what it says. *)

LEMMA ViewsInit == Init => ViewsInv
<1>1. SUFFICES ASSUME Init PROVE ViewsInv
  OBVIOUS
<1>2. event \in ChainEvents
  BY <1>1 DEF Init
<1>3. TypeInv
  BY <1>1, <1>2, Setting DEF Init, TypeInv, TypeOK, Values, Idle
<1>4. CallsAtAwaits
  BY <1>1 DEF Init, CallsAtAwaits, KnownTo, Idle
<1>5. RowsAreUnique /\ RowsHoldFetched /\ AnswersFromRows
  BY <1>1 DEF Init, RowsAreUnique, RowsHoldFetched, AnswersFromRows
<1>6. JobInOrder
  BY <1>1, <1>2, Setting, EventViews DEF Init, JobInOrder, Idle
<1>7. QED
  BY <1>3, <1>4, <1>5, <1>6 DEF ViewsInv, ViewInv

LEMMA ViewsStutter ==
  ASSUME ViewsInv, UNCHANGED vars
  PROVE  ViewsInv'
<1>1. Counted /\ UNCHANGED <<event, rows, request, answers, job, indexed, spent>>
  BY FaultCounted DEF ViewsInv, vars
<1>2. TypeInv'
  BY <1>1 DEF ViewsInv, TypeInv, TypeOK
<1>3. CallsAtAwaits'
  BY <1>1, OtherCallsKept DEF CallsAtAwaits
<1>4. RowsAreUnique' /\ RowsHoldFetched' /\ AnswersFromRows'
  BY <1>1, RowsKept, AnswersKept
<1>5. JobInOrder'
  BY <1>1 DEF ViewsInv, ViewInv, JobInOrder
<1>6. QED
  BY <1>2, <1>3, <1>4, <1>5 DEF ViewsInv, ViewInv

LEMMA ViewsStep == ViewsInv /\ [Next]_vars => ViewsInv'
<1>1. SUFFICES ASSUME ViewsInv, [Next]_vars PROVE ViewsInv'
  OBVIOUS
<1>2. ASSUME NEW c \in Clients, NEW q \in Queries, Ask(c, q) PROVE ViewsInv'
  BY <1>1, <1>2, AskKeeps
<1>3. CASE TakeJob \/ NextView \/ CompleteJob
  BY <1>1, <1>3, JobStepsKeep
<1>4. ASSUME NEW c \in Callers, View(c) PROVE ViewsInv'
  BY <1>1, <1>4, LookupKeeps, GetBlockKeeps, FetchValueKeeps, FetchStringKeeps, FetchBytesKeeps,
     FetchDecimalsKeeps, FetchTotalSupplyKeeps, SaveKeeps DEF View
<1>5. CASE Restart
  BY <1>1, <1>5, RestartKeeps
<1>6. CASE UNCHANGED vars
  BY <1>1, <1>6, ViewsStutter
<1>7. QED
  BY <1>1, <1>2, <1>3, <1>4, <1>5, <1>6 DEF Next

LEMMA ViewsAlways == Spec => []ViewsInv
  BY ViewsInit, ViewsStep, PTL DEF Spec

\* Whatever the clients ask and the job does at the same time (indexer.ts 157-316), through
\* failures and resets, every table and every call is well typed.
THEOREM Typing == Spec => []TypeOK
<1>1. ViewsInv => TypeOK
  BY DEF ViewsInv, TypeInv
<1>2. QED
  BY <1>1, ViewsAlways, PTL

\* Two answers to one stored view at one block hash never differ: the unique index of the
\* table makes the second of two concurrent calls throw, and tables whose values may be
\* made up are not reset.
THEOREM AnswersNeverDiffer == Spec => []AnswersAgree
<1>1. ViewsInv => AnswersAgree
  <2>1. SUFFICES ASSUME ViewsInv, NEW q \in Queries, q.view \in StoredViews,
                        NEW v \in answers[q], NEW w \in answers[q]
                 PROVE  v = w
    BY DEF AnswersAgree
  <2>2. CASE q.view \in Reset
    BY <2>1, <2>2 DEF ViewsInv, ViewInv, AnswersFromRows
  <2>3. CASE q.view \in Kept
    <3>1. PICK r \in rows : r.query = q /\ r.value = v
      BY <2>1, <2>3 DEF ViewsInv, ViewInv, AnswersFromRows
    <3>2. PICK s \in rows : s.query = q /\ s.value = w
      BY <2>1, <2>3 DEF ViewsInv, ViewInv, AnswersFromRows
    <3>3. r = s
      BY <2>1, <3>1, <3>2 DEF ViewsInv, ViewInv, RowsAreUnique
    <3>4. QED
      BY <3>1, <3>2, <3>3
  <2>4. QED
    BY <2>1, <2>2, <2>3, Setting
<1>2. QED
  BY <1>1, ViewsAlways, PTL

\* No balance or allowance is ever made up: a failing call throws in both server modes.
THEOREM BalancesAreRead == Spec => []BalancesAreTheChains
<1>1. ViewsInv => BalancesAreTheChains
  BY DEF ViewsInv, ViewInv, AnswersFromRows, RowsHoldFetched, BalancesAreTheChains, Reset, RowOf
<1>2. QED
  BY <1>1, ViewsAlways, PTL

\* A made-up name, symbol, number of decimals or supply is answered only for a contract
\* without one or after an upstream call has failed.
THEOREM MadeUpForAReason == Spec => []MadeUpOnlyAfterFailure
<1>1. ViewsInv => MadeUpOnlyAfterFailure
  BY DEF ViewsInv, ViewInv, AnswersFromRows, MadeUpOnlyAfterFailure, MayBeMadeUp
<1>2. QED
  BY <1>1, ViewsAlways, PTL

\* The job of a Transfer or Approval event is done only with the views of all its parties
\* stored, by itself or by a client that was faster.
THEOREM EventsAreIndexed == Spec => []EventViewsStored
<1>1. ViewsInv => EventViewsStored
  <2>1. SUFFICES ASSUME ViewsInv, job = "done" PROVE EventViewsStored
    BY DEF EventViewsStored
  <2>2. /\ event \in ChainEvents /\ indexed >= Len(EventQueries(event))
        /\ indexed \in 0..2
        /\ \A i \in DOMAIN EventQueries(event) :
             i <= indexed => \E r \in rows : r.query = EventQueries(event)[i]
    BY <2>1 DEF ViewsInv, ViewInv, TypeInv, TypeOK, JobInOrder
  <2>3. \A i \in DOMAIN EventQueries(event) : RowOf(EventQueries(event)[i]) # {}
    BY <2>2, EventViews DEF RowOf
  <2>4. CASE event.name = "Transfer"
    <3>1. EventQueries(event) = <<BalanceOf(event, event.from), BalanceOf(event, event.to)>>
      BY <2>4 DEF EventQueries
    <3>2. QED
      BY <2>3, <2>4, <3>1 DEF EventViewsStored
  <2>5. CASE event.name # "Transfer"
    <3>1. EventQueries(event) = <<AllowanceOf(event)>>
      BY <2>5 DEF EventQueries
    <3>2. QED
      BY <2>3, <2>5, <3>1 DEF EventViewsStored
  <2>6. QED
    BY <2>4, <2>5
<1>2. QED
  BY <1>1, ViewsAlways, PTL
=============================================================================
