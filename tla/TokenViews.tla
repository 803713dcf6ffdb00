----------------------------- MODULE TokenViews -----------------------------
(***************************************************************************)
(* The token views of packages/erc20-watcher: balanceOf, allowance, name,  *)
(* symbol and decimals read through a table of their own, totalSupply does *)
(* not.  GraphQL clients ask for them, and the job runner does for every   *)
(* Transfer and Approval event; the two are processes of their own on one  *)
(* database, and each await of a view lets the others run.                 *)
(*                                                                         *)
(* A view at a block hash has one value on the chain, so that it is enough *)
(* to tell it from the values the code makes up.                           *)
(***************************************************************************)
EXTENDS Integers, Sequences

CONSTANTS
  Clients,
  Hashes,          \* block hashes
  Number,          \* their block numbers
  Queries,         \* what is asked: [view, hash, token, party]
  Returns,         \* how a token returns its name and symbol, see Contracts
  StaticTokens,    \* the tokens with a StaticTokenDefinition
  NoQuery,         \* no query
  serverModes,     \* the configurations of the server
  ChainEvents,     \* the Transfer and Approval events the job may be about
  MaxFaults,       \* bound: failures of an upstream call
  MaxAsked,        \* bound: requests of clients
  MaxRestarts      \* bound: restarts of the job runner

StoredViews == {"balanceOf", "allowance", "name", "symbol", "decimals"}
Contracts == {"string", "bytes32", "null", "nothing"}

ASSUME TokenAssumption ==
  /\ \A q \in Queries : q.view \in StoredViews \cup {"totalSupply"} /\ q.hash \in Hashes
  /\ \A q \in Queries : Returns[q.token] \in Contracts
  /\ Number \in [Hashes -> Nat \ {0}]
  /\ NoQuery \notin Queries /\ "job" \notin Clients
  /\ serverModes \subseteq {"eth_call", "storage"}
  /\ {MaxFaults, MaxAsked, MaxRestarts} \subseteq Nat

VARIABLES
  serverMode,
  event,       \* the event of the job
  rows,        \* the view tables: [query, value]
  request,     \* the call of each client and of the job
  answers,     \* history: the values each query has been answered with
  job, indexed,\* the events job, and how many of its views are done
  spent        \* the counters of the named bounds

vars == <<serverMode, event, rows, request, answers, job, indexed, spent>>

Job == "job"
Callers == Clients \cup {Job}
Idle == [step |-> "idle", query |-> NoQuery, value |-> "none"]

BalanceOf(e, owner) ==
  [view |-> "balanceOf", hash |-> e.hash, token |-> e.token, party |-> owner]
AllowanceOf(e) ==
  [view |-> "allowance", hash |-> e.hash, token |-> e.token, party |-> <<e.owner, e.spender>>]

\* Mutant: only the sender's balance is indexed.
SenderOnly(e) ==
  IF e.name = "Transfer" THEN <<BalanceOf(e, e.from)>> ELSE <<AllowanceOf(e)>>

\* triggerIndexingOnEvent: "On a transfer, balances for both parties change."
EventQueries(e) ==
  IF e.name = "Transfer" THEN <<BalanceOf(e, e.from), BalanceOf(e, e.to)>>
  ELSE <<AllowanceOf(e)>>

ASSUME EventAssumption ==
  \A e \in ChainEvents : \A i \in DOMAIN EventQueries(e) : EventQueries(e)[i] \in Queries

Fault ==
  /\ spent.faults < MaxFaults
  /\ spent' = [spent EXCEPT !.faults = @ + 1]

RowOf(q) == {r \in rows : r.query = q}

-----------------------------------------------------------------------------
(* How a call begins and ends. *)

Ask(c, q) ==
  /\ request[c].step = "idle" /\ spent.asked < MaxAsked
  /\ spent' = [spent EXCEPT !.asked = @ + 1]
  /\ request' = [request EXCEPT ![c] =
       [Idle EXCEPT !.query = q, !.step = IF q.view = "totalSupply" THEN "fetch" ELSE "lookup"]]
  /\ UNCHANGED <<serverMode, event, rows, answers, job, indexed>>

TakeJob ==
  /\ job = "queued"
  /\ job' = "active" /\ indexed' = 0
  /\ UNCHANGED <<serverMode, event, rows, request, answers, spent>>

\* The next view of triggerIndexingOnEvent, one after the other.
NextView ==
  /\ job = "active" /\ request[Job].step = "idle" /\ indexed < Len(EventQueries(event))
  /\ request' = [request EXCEPT ![Job] =
                   [Idle EXCEPT !.query = EventQueries(event)[indexed + 1], !.step = "lookup"]]
  /\ UNCHANGED <<serverMode, event, rows, answers, job, indexed, spent>>

CompleteJob ==
  /\ job = "active" /\ indexed >= Len(EventQueries(event))
  /\ job' = "done"
  /\ UNCHANGED <<serverMode, event, rows, request, answers, indexed, spent>>

\* Mutant: the answers to clients count for the job.
AnswerAndCount(c, value) ==
  /\ answers' = [answers EXCEPT ![request[c].query] = @ \cup {value}]
  /\ request' = [request EXCEPT ![c] = Idle]
  /\ indexed' = indexed + 1
  /\ UNCHANGED job

Answer(c, value) ==
  /\ answers' = [answers EXCEPT ![request[c].query] = @ \cup {value}]
  /\ request' = [request EXCEPT ![c] = Idle]
  /\ indexed' = IF c = Job THEN indexed + 1 ELSE indexed
  /\ UNCHANGED job

\* The view throws: the client gets an error, the job is retried.
Fail(c) ==
  /\ request' = [request EXCEPT ![c] = Idle]
  /\ job' = IF c = Job THEN "queued" ELSE job
  /\ UNCHANGED <<answers, indexed>>

Continue(c, step, value) ==
  /\ request' = [request EXCEPT ![c].step = step, ![c].value = value]
  /\ UNCHANGED <<answers, job, indexed>>

-----------------------------------------------------------------------------
(* The steps of a view. *)

\* Mutant: the table is not looked up.
NoLookup(c) ==
  /\ request[c].step = "lookup"
  /\ Continue(c, "block", "none")
  /\ UNCHANGED <<serverMode, event, rows, spent>>

\* "db hit", or "db miss, fetching from upstream server"
Lookup(c) ==
  /\ request[c].step = "lookup"
  /\ \/ \E r \in RowOf(request[c].query) : Answer(c, r.value)
     \/ RowOf(request[c].query) = {} /\ Continue(c, "block", "none")
  /\ UNCHANGED <<serverMode, event, rows, spent>>

GetBlockByHash(c) ==
  /\ request[c].step = "block"
  /\ \/ Continue(c, "fetch", "none") /\ UNCHANGED spent
     \/ Fault /\ Fail(c)
  /\ UNCHANGED <<serverMode, event, rows>>

\* Mutant: a failing call is taken for an empty balance.
FetchOrZero(c) ==
  /\ request[c].step = "fetch" /\ request[c].query.view \in {"balanceOf", "allowance"}
  /\ \/ Continue(c, "save", "chain") /\ UNCHANGED spent
     \/ Fault /\ Continue(c, "save", "0")
  /\ UNCHANGED <<serverMode, event, rows>>

\* balanceOf and allowance in both modes, name and symbol from storage.
FetchValue(c) ==
  /\ request[c].step = "fetch"
  /\ \/ request[c].query.view \in {"balanceOf", "allowance"}
     \/ serverMode = "storage" /\ request[c].query.view \in {"name", "symbol"}
  /\ \/ Continue(c, "save", "chain") /\ UNCHANGED spent
     \/ Fault /\ Fail(c)
  /\ UNCHANGED <<serverMode, event, rows>>

\* fetchTokenName and fetchTokenSymbol: any failure is taken for a revert.
FetchString(c) ==
  LET returns == Returns[request[c].query.token] IN
  /\ request[c].step = "fetch" /\ request[c].query.view \in {"name", "symbol"}
  /\ serverMode = "eth_call"
  /\ \/ Continue(c, IF returns = "string" THEN "save" ELSE "bytes",
                    IF returns = "string" THEN "chain" ELSE "none") /\ UNCHANGED spent
     \/ Fault /\ Continue(c, "bytes", "none")
  /\ UNCHANGED <<serverMode, event, rows>>

\* StaticTokenDefinition.fromAddress, with what is taken when there is none.
StaticDefinition(token, otherwise) == IF token \in StaticTokens THEN "static" ELSE otherwise

\* Mutant: the bytes32 call is left out.
NoBytes(token) == IF Returns[token] = "null" THEN StaticDefinition(token, "unknown") ELSE "unknown"

\* What the call for a bytes32 gives.  That of a string is no bytes32 string.
BytesValue(token) ==
  CASE Returns[token] = "bytes32" -> "chain"
    [] Returns[token] = "null" -> StaticDefinition(token, "unknown")
    [] OTHER -> "unknown"

FetchBytes(c) ==
  /\ request[c].step = "bytes"
  /\ \/ Continue(c, "save", BytesValue(request[c].query.token)) /\ UNCHANGED spent
     \/ Fault /\ Continue(c, "save", "unknown")
  /\ UNCHANGED <<serverMode, event, rows>>

\* fetchTokenDecimals; "Not a state variable", so never from storage.
FetchDecimals(c) ==
  LET token == request[c].query.token IN
  /\ request[c].step = "fetch" /\ request[c].query.view = "decimals"
  /\ \/ /\ serverMode = "storage" /\ Fail(c) /\ UNCHANGED spent
     \/ /\ serverMode = "eth_call" /\ UNCHANGED spent
        /\ Continue(c, "save", IF Returns[token] = "nothing" THEN StaticDefinition(token, "0") ELSE "chain")
     \/ /\ serverMode = "eth_call"
        /\ Fault /\ Continue(c, "save", StaticDefinition(token, "0"))
  /\ UNCHANGED <<serverMode, event, rows>>

\* fetchTokenTotalSupply, which is not stored.
FetchTotalSupply(c) ==
  /\ request[c].step = "fetch" /\ request[c].query.view = "totalSupply"
  /\ \/ Answer(c, "chain") /\ UNCHANGED spent
     \/ Fault /\ IF serverMode = "eth_call" THEN Answer(c, "0") ELSE Fail(c)
  /\ UNCHANGED <<serverMode, event, rows>>

\* Mutant: the index on the columns of the query is not unique.
MayInsert(q) == TRUE

\* The unique index of each table.
UniqueIndex(q) == RowOf(q) = {}

\* saveBalance and its like insert a row; the view throws when one is there.
Save(c) ==
  LET r == request[c] IN
  /\ r.step = "save"
  /\ IF UniqueIndex(r.query)
     THEN rows' = rows \cup {[query |-> r.query, value |-> r.value]} /\ Answer(c, r.value)
     ELSE Fail(c) /\ UNCHANGED rows
  /\ UNCHANGED <<serverMode, event, spent>>

-----------------------------------------------------------------------------
(* Around the views. *)

\* The tables resetWatcherToBlock empties: [Allowance, Balance].
ResetViews == {"allowance", "balanceOf"}

\* The job runner dies and starts: it resets the watcher to the block before
\* the event's, and the event is processed anew.  The server goes on.
Restart ==
  /\ spent.restarts < MaxRestarts
  /\ spent' = [spent EXCEPT !.restarts = @ + 1]
  /\ rows' = {r \in rows : \/ r.query.view \notin ResetViews
                           \/ Number[r.query.hash] <= Number[event.hash] - 1}
  /\ request' = [request EXCEPT ![Job] = Idle]
  /\ job' = "queued" /\ indexed' = 0
  /\ UNCHANGED <<serverMode, event, answers>>

Init ==
  /\ serverMode \in serverModes
  /\ event \in ChainEvents
  /\ rows = {}
  /\ request = [c \in Callers |-> Idle]
  /\ answers = [q \in Queries |-> {}]
  /\ job = "queued" /\ indexed = 0
  /\ spent = [faults |-> 0, asked |-> 0, restarts |-> 0]

View(c) ==
  \/ Lookup(c) \/ GetBlockByHash(c) \/ FetchValue(c) \/ FetchString(c) \/ FetchBytes(c)
  \/ FetchDecimals(c) \/ FetchTotalSupply(c) \/ Save(c)

Next ==
  \/ \E c \in Clients, q \in Queries : Ask(c, q)
  \/ TakeJob \/ NextView \/ CompleteJob
  \/ \E c \in Callers : View(c)
  \/ Restart

Spec == Init /\ [][Next]_vars
FairSpec == Spec /\ WF_vars(TakeJob) /\ WF_vars(NextView \/ CompleteJob) /\ WF_vars(View(Job))
-----------------------------------------------------------------------------
(* Properties. *)

Values == {"chain", "static", "unknown", "0"}

\* The tables hold fetched values, calls are at one of their awaits, and the job
\* is within its event's views.
TypeOK ==
  /\ rows \subseteq [query : Queries, value : Values]
  /\ request \in [Callers -> [step : {"idle", "lookup", "block", "fetch", "bytes", "save"},
                              query : Queries \cup {NoQuery}, value : Values \cup {"none"}]]
  /\ answers \in [Queries -> SUBSET Values]
  /\ job \in {"queued", "active", "done"}
  /\ indexed \in 0..2

\* However requests race, upstream calls fail and the watcher is reset, two answers
\* to the same stored view at one block hash never differ.
AnswersAgree ==
  \A q \in Queries : q.view \in StoredViews => \A v, w \in answers[q] : v = w

\* Through failures and resets a balance or allowance is the chain's, or the view
\* throws: none is ever made up.
BalancesAreTheChains ==
  \A q \in Queries : q.view \in {"balanceOf", "allowance"} =>
    /\ answers[q] \subseteq {"chain"}
    /\ \A r \in RowOf(q) : r.value = "chain"

\* The contract gives no value of its own for the view.
NoValue(q) ==
  \/ q.view \in {"name", "symbol"} /\ Returns[q.token] \in {"null", "nothing"}
  \/ q.view = "decimals" /\ Returns[q.token] = "nothing"

\* A made-up name, symbol, number of decimals or supply is answered only for a contract
\* that gives none, or after an upstream call has failed.
MadeUpOnlyAfterFailure ==
  \A q \in Queries : answers[q] \ {"chain"} # {} => NoValue(q) \/ spent.faults > 0

\* An event's job is done only when the views of both its parties are stored, whoever
\* stored them, and a reset that removes them has the event processed again.
EventViewsStored ==
  job = "done" =>
    IF event.name = "Transfer"
    THEN \A owner \in {event.from, event.to} : RowOf(BalanceOf(event, owner)) # {}
    ELSE RowOf(AllowanceOf(event)) # {}

\* A job that loses the race for a row to a client gets done by a retry.
JobGetsDone == <>[](job = "done")
=============================================================================
