# A TLA+ model of datafusion-opensearch

`datafusion-opensearch` lets Apache DataFusion query OpenSearch indices as
tables. This directory holds TLA+ modules that model the crate, TLC
configurations that check them on small instances, and TLAPS proofs of the
properties that matter most, for instances of any size. `PROJECT.json` lists the
runs, the lines of code every definition stands for, the hazards the properties
are aimed at, the findings and the theorems.

    tlc -workers 2 -config MCScrollScan_paging.cfg MCScrollScan
    tlapm ScrollScanProofs.tla

## The system

| part | source | state | operations |
|---|---|---|---|
| table provider | `table.rs` | page size, max_rows, partitions, base filter, sort, search_after | builders, `search_body`, `supports_filters_pushdown`, `scan` |
| physical operator | `exec.rs` | `Inner` (an immutable plan) | `from_inner`, `with_*`, `with_fetch`, `execute` |
| a partition's stream | `exec.rs` | `PageState`: cursor, rows still wanted, started, done | `next_page`, polled by DataFusion, one await at a time |
| HTTP client | `client.rs` | none (a connection pool) | `search_page`, `scroll`, `clear_scroll`, `mapping`, `indices` |
| catalog | `catalog.rs` | `names` and `tables`, each under its own lock | `connect`, `refresh`, `table`, `table_exist` |
| table factory | `table.rs`, `schema.rs` | none | `provider` (one `_mapping` request), `schema_from_mapping`, `arrow_type_for` |
| batch building | `schema.rs` | none | `build_batch` |
| filter pushdown | `pushdown.rs` | none | `expr_to_query`, `like_to_query`, `scalar_to_json` |
| UDFs | `udf.rs` | none | `os_match`, `os_geo_*` |
| external tables | `table.rs` | credentials | `create`: `split_location`, `client_for`, `parse_sort`, `parse_usize` |

How they interact. DataFusion asks the provider which filters it takes
(`supports_filters_pushdown`), calls `scan` with a projection, those filters and
perhaps a LIMIT, may call `with_fetch` on the plan `scan` returned, then calls
`execute` once for every partition the plan reports and polls the streams. A
stream talks to the cluster through the client: a `_search` that opens a scroll
cursor (on one slice of the index when there are several partitions), a scroll
request per further page, a delete of the cursor at the end. Nothing is shared
between streams but the immutable plan, and the index, which changes while they
run. The catalog hands out cached tables by name and asks the cluster for
listings and mappings; several tasks call it at once.

What is hard here: the pages of one answer are handed out over several requests
between which cursors expire, indices are deleted and connections break; slices
are opened at different moments over a changing index; every limit (LIMIT,
max_rows, page size, a limit pushed later, search_after, partitions) interacts
with every other; the end of a scan is inferred from a short page; and the
catalog's two locks are released around awaits.

What makes each part correct:

* planning: the fetch of a plan is the least of all limits asked for, and a plan
  with a fetch or a single page has one partition;
* a stream: it emits a prefix of one answer, ends only when that answer or the
  limits are exhausted, holds and releases its cursor, and ends at all;
* the scan: slices together return each document once and no limit is exceeded;
* the catalog: after `refresh()` the listing and the cache are those of the
  cluster `refresh()` saw;
* pushdown: a pushed filter selects the rows the SQL filter does, however a WHERE
  is divided, and never escapes the base filter;
* external tables: every request goes where LOCATION says, with the factory's
  credentials, and every option given is in force in every scan, or the statement
  fails;
* literals, patterns and cells: what a pushed clause asks, what the index holds
  and what a column shows are one value.

## Modules

| module | models |
|---|---|
| `ScanPlan` | `scan`, the clamping builders, `from_inner`, `with_*`, `with_fetch` as pure operators |
| `ScrollScan` | `execute`, `next_page` and the client calls of every partition's stream, with the cluster around them |
| `ScanContract` | what a scan promises its consumer, without pages, cursors or messages |
| `ScrollScanImplements` | the refinement mapping from `ScrollScan` to `ScanContract` |
| `ScrollScanInvariant` | the inductive invariant of `ScrollScan` |
| `Catalog` | the schema provider, its callers and the cluster's indices |
| `Pushdown` | `expr_to_query`, `supports_filters_pushdown`, the clauses of `search_body`, and what becomes of the rows |
| `LikePattern` | `like_to_query` as a recursive function over a pattern, and what patterns mean |
| `Coercion` | JSON values to cells (`build_batch`), mapping types to Arrow types, literals to JSON |
| `ExternalTable` | `CREATE EXTERNAL TABLE`: LOCATION, credentials, columns, options, the provider made |
| `TableQuery` | from that statement to a row: the clause pushed, the request, the hit, the cell read |
| `ScanPlanProofs`, `PushdownProofs`, `CatalogProofs`, `LikePatternProofs` | proofs about the modules of those names |
| `TableQueryProofs` | proofs about `TableQuery` and the statement in `ExternalTable` |
| `ScrollScanProofs` | proofs: the invariant of `ScrollScan`, and what each stream emits |
| `ScrollScanOutcomeProofs` | proofs: what the streams of a scan return together, and what a scan does when nothing goes wrong around it |
| `ScrollScanRefinementProofs` | proof: `ScrollScan` implements `ScanContract` |
| `MCScrollScan`, `MCCatalog`, `MCPushdown`, `MCTableQuery` | instances for TLC |

`ScrollScan` extends `ScanPlan`; `TableQuery` extends `ExternalTable` (which extends
`Coercion` and instantiates `ScanPlan`) and `LikePattern`.

### ScanPlan

A `Query` is what the user configured on the provider and what DataFusion hands to
`scan`; an `Exec` is an `OpenSearchExec`, with the partition count in `inner` (by
which streams slice) and the one in the plan properties (by which DataFusion
executes) as two fields, since the code stores both. Columns are abstracted to the
kinds `build_batch` tells apart.

### ScrollScan

`st[p]` is the `PageState` of partition `p`; `status[p]` says whether it is between
polls or at which await; `wire[p]` is the one request or reply in flight. A call
of `next_page` is split where the code awaits: `PollEnd`, `PollSearch` and
`PollScroll` are the code up to the request, `ReceiveFailure`,
`ReceiveEmptyPage`, `ReceiveHits` and `ReceiveCleared` what follows the reply.
`PushLimit` is `with_fetch`, before any stream is executed; `Cancel` is the
consumer dropping a stream.

The cluster is external. It keeps a search context per stream: the hits a search
found, in the order it will return them, how many were returned, the page size,
and whether the cursor lives. A search of a missing index is a 404 (the client
reads it as an empty page, the context then holds no hits); one that asks for
more than `Window` hits is refused; a reply to a scroll request may leave out the
cursor's id. Faults, each switched on by a constant: a request or reply is lost,
a cursor expires, the index is deleted with the cursors over it, shards fail, the
consumer stops.

Documents are those that match the pushed-down query. `HashCode` is the hash by
which OpenSearch slices; `Sparse` documents lack the value of a non-nullable
column.

### Catalog

One caller's call of `table()` or `refresh()` is a sequence of steps, one per lock
access, request and reply, as the locks are never held across an await nor both
at once. A task may make either call. A cached table is known by the mapping it
was built from, which records the epoch it was made at. `since`, `promised` and
`gone` are history variables that say what the cluster was and what completed
refreshes have promised; `raced` (of a call) and `overtaken` (of a cached table) say
whether the cache was written to for that index between a call's miss and its
insert, by a `refresh()` that dropped the index or by another `table()`.

### Pushdown

A clause is the set of documents it matches and a predicate is where it is TRUE
and where it is FALSE (elsewhere it is NULL), so AND, OR and NOT are set
operations. `expr_to_query` is structural: a `Predicate` carries the clause made of
it (`query`, None when it has none), and each arm is an operator that makes the
predicate and its clause (`Compare`, `InList`, `Between`, ...) from operands, or from
predicates and their clauses (`Conjunction`, `Disjunction`, `Negation`). The client
writes a WHERE from the leaves up (`Write...`), DataFusion asks which conjuncts the
provider takes (`SupportsFiltersPushdown`), the request gets their clauses beside
the base filter (`PlanScan`), and DataFusion filters what comes back with the rest
(`Collect`). The documents of `ScrollScan` are those the clauses match.

A field holds one value or none, and the index holds that value as its one term,
as for keyword, numeric, boolean and date fields; analysed text and arrays are not
modelled here. What a LIKE pattern or `os_match` query accepts is a set of values (how
a pattern is translated is in `LikePattern`, what a literal becomes in `Coercion`). A UDF
call that DataFusion evaluates itself is a stand-in (a token comparison, or FALSE
for a geo predicate), and the properties speak of filters that are pushed or have
no UDF in them (`Faithful`): under an OR or NOT that is not pushed a geo predicate
may lose or add rows, which `udf.rs:109-111` takes never to happen.

### ExternalTable and TableQuery

`TableQuery` follows one table and one query, in the order the code does:
`CreateTable` (LOCATION is split, the client is made, the columns are declared or the
mapping is asked for), `ReceiveMapping` or `LoseMapping`, `ReadOptions` (each option in
the order the code reads it; the first that is wrong is the error), then the
client's question (`AskAll`, `AskCompare`, `AskLike`), `Search` (`search_body` and
`scan`, for any projection) and `Read` (the index finds a document or not, and
`build_batch` reads the hit). `sent` collects every request with its base URL, index
and credentials.

A LOCATION is a sequence of tokens: a word, a colon, a slash. An option's value is
the number or list it parses to, or -1 and the like for what does not parse. Values
are scaled (below), and `Indexed`, `QueryCell` and `Accepts` say, external to the
crate, what a field of each mapping type accepts, holds and is searched for.

## Runs

Twelve runs; the longest takes about a minute and a half.

| run | question | instance |
|---|---|---|
| `paging` | page, limit and cursor arithmetic without faults | 1 stream, 4 documents, page sizes 0..2, LIMIT none/0/1/3, max_rows none/2, pushed limits 0/1/3, search_after on and off, with and without an index |
| `sliced` | two slices over a changing index | 2 streams, 4 documents, 2 changes, a pushed limit of 3 |
| `faults` | everything that goes wrong, the refinement, liveness, the invariant of the proofs | 2 streams, 3 documents, 1 change, all faults, a window of 2 |
| `catalog` | `table()` and `refresh()` against each other and a changing cluster, and the invariant of the proofs | 2 tasks that make both calls, an index and a system index, 2 changes, failing requests |
| `pushdown` | every WHERE, pushed or not, over documents with and without their fields | 2 columns of 2 values, up to 3 predicates and connectives, 2 conjuncts, every form of predicate and operand, a base filter or none |
| `table` | from `CREATE EXTERNAL TABLE` to a row | every LOCATION of up to 8 tokens; every combination of options, given, absent and wrong, under three key prefixes; every inferred column over every mapping type and every declared type over nine of them; 45 literals around the boundaries under 5 comparisons; every LIKE pattern of up to 4 characters over 6; JSON values of every kind |
| `max_rows`, `count`, `partial`, `catalog_race`, `widening`, `saturation` | findings, below | small |

Why the bounds are enough. Page arithmetic has its cases at "page smaller than,
equal to, larger than what remains", "fewer, as many, more documents than the
fetch" and "first, middle, last page": a page of 2, a LIMIT of 3 and 4 documents
give every one of them, the overshooting last page included. Two slices are the
least that can overlap or leave a gap, and two changes of the index are the least
that delete and create it between them. A stream keeps nothing but its page
state, so streams beyond the second add no new interaction. In the catalog a
call that is overtaken needs a second task, and a stale table a deletion and a
creation, which two changes allow; `CatalogProofs` covers more tasks, indices and
changes.

In `table`, widths are scaled to 2, 3, 4 and 6 bits for 8, 16, 32 and 64, floats are
counted in halves and instants in ticks (2 to a microsecond, 4 to a millisecond,
and so on), which leaves every comparison of ranges, every truncation and every
rounding its cases: below, at and above each bound, before and after 1970, whole
and not. Four characters hold an escape, what it escapes, and a wildcard before or
after it; eight tokens hold a scheme, a host, a path and slashes after it.

A WHERE of three (`p AND q`, `NOT NOT p`, `p` beside `NOT q`) puts every form of
predicate under every connective over every document; deeper ones are beyond
TLC and are what the proofs are for.

What bounds the models: `MaxSize` and `MaxFilters` cap a WHERE, `MaxWrites` and `MaxEpoch` cap the changes of the
environment, `Limits` the limits that may be pushed (each at most once, since
pushing one again changes nothing). None bounds the code's own steps.
Symmetry is not used: documents are numbers for the hash.

What the passing runs show:

* `PrefixDelivered`, `CompleteWhenEnded`: whatever fails, a stream's rows are the
  first of its answer, and an end that is reported is never an expired cursor, a
  deleted index or a broken connection in disguise;
* `LimitNeverExceeded`: over all streams no limit is exceeded, even when it is
  pushed into a plan that was already partitioned;
* `NoRowTwice`, `NothingMissed`: slices opened at different moments neither
  repeat a document nor lose one that was there throughout;
* `CursorHeld`, `CursorReleased`, `BoundedPages`, `ScanSucceeds`: cursors are held
  while needed and released after, pages stay within the page size, and a scan
  nothing goes wrong around does not fail;
* `ImplementsContract`: all of paging is invisible to the consumer, who sees the
  abstract scan of `ScanContract`;
* `NoRowLost`, `WidenedOnlyByNull`, `ExactWithoutNegation`, `BaseFilterHolds`: what
  pushdown does to the rows of a query. Rows are added only where a negated filter
  is NULL; `Translation` is the reason, clause by clause;
* `EveryStreamEnds`, `EveryCallReturns`: liveness, below;
* `ListingIsCurrent`: the listing is that of the `refresh()` that wrote it; of two at
  once the later writer counts, which may have begun first;
* `DeletedIsForgottenUnlessOvertaken`, `CachedOnce`: only a `table()` that was
  overtaken between its miss and its insert puts a deleted index's table back, or
  replaces a cached table by another;
* `RequestsAsTold`: every request, the mapping request too, goes to the base URL and
  index of LOCATION with the factory's credentials, and a LOCATION is refused only
  if it names no index;
* `OptionsInForce`: every option given is in every scan's plan or body, at its clamped
  value and in its order, or there is no table;
* `LikeMeansPattern`, `PrefixWhenSole`: a LIKE's clause accepts exactly what the
  pattern does, and is a prefix query exactly when its only wildcard is a % at the
  end;
* `ReadAsIndexed`, `NoOtherNumber`: a cell shows what the index was searched for, if
  its column can hold it, and a number column never a number the document has not;
* `PushedAsFiltered`: a pushed comparison finds a document just when the comparison
  is TRUE of the cell DataFusion would have read. Excepted are NaN, literals finer
  than the column's milliseconds where rounding matters (`Exact`), and fields whose
  index holds something else than the value (analysed text, `date_nanos`, fractions
  in an integer field).

Fairness. `WF_vars(Execute(p))` and `WF_vars(Poll(p) \/ Receive(p))`: DataFusion
executes every partition and polls its stream until it ends, and a reply wakes
the task that awaits it. `WF_vars(Serve(p))`: the cluster answers what it is asked,
if only with an error (a connection that breaks is an answer, too). No strong
fairness and nothing about faults or the index is assumed. In `Catalog` the steps
of a call already begun are fair; nobody has to call.

### Findings

* `max_rows` (`MaxRowsOnlyWithoutLimit`): `table.rs:34`, `:105` and the README say
  that max_rows caps queries without a LIMIT; `table.rs:204-207` takes the smaller
  of the two, so it also shortens a query with a larger LIMIT.
* `count` (`ScanSucceeds`): a projection without columns has no batch
  (`schema.rs:131` gives Arrow no row count), so `SELECT count(*)`, which the
  README shows, fails on the first page with hits.
* `partial` (`NothingMissed`): `page_from` ignores `_shards`, so a search some of
  whose shards failed is a complete result to the crate (`exec.rs:6-7`).
* `catalog_race` (`DeletedIsForgotten`): a `table()` in flight across a `refresh()`
  puts the table of a deleted index back into the cache (`catalog.rs:81`), where
  it is served when the index is created again.
* `saturation` (`OutOfRangeIsNull`): an `unsigned_long` beyond `i64::MAX` is read as
  `i64::MAX` (`schema.rs:157`, `f as i64` saturates), where `schema.rs:83`,
  `schema.rs:143-144` and README.md:282-283 say that it becomes null.
* `widening` (`NeverWidened`): NOT, `<>`, NOT IN, NOT BETWEEN and NOT LIKE push as
  `must_not`, which matches documents without the field, where SQL's predicate is
  NULL; `pushdown.rs:3-7` and the README promise that pushdown never widens.

## Proofs

Assumptions: `NoneAssumption`, `ScanAssumption`, `PushdownAssumption`,
`CatalogAssumption`, `CoercionAssumption`, `ExternalTableAssumption` and
`TableQueryAssumption`, the types of the constants (TLC evaluates them in the
runs); part of them is that `None` is a value apart: no number, no sequence of
documents, no context, no cell, no error and no split LOCATION. Nothing bounds
documents, streams, sizes, limits, writes, statements, patterns, literals or the
widths of integers, and any set of faults is allowed but where a theorem says
otherwise.

`ScanPlanProofs`: every `Exec` a builder makes is well formed (`FromInnerOK` and one
lemma per builder); `ScanOK` and `WithFetchOK` say that the fetch is the least of
the limits, and `ScanOK` also which page size and how many partitions the plan has.

`ScrollScanProofs`: `PrefixDelivered` and `CompleteWhenEnded` are not inductive:
nothing in them says that the page on the wire continues what was emitted, nor
that a full page leaves a cursor to go on with. `IInv` says it, following a
stream through its states: between pages (`ReadyInv`) the cluster's position is
the number of rows emitted and the cursor is held, or nothing was sent, or the
stream is exhausted and complete; with a request out (`SearchingInv`,
`ScrollingInv`) the reply, once there, is exactly the next page of the answer;
`remaining` is the plan's fetch less the rows emitted (`Counted`); and the fetch is
the least of the limits (`PlanInv`). `InitInv` and `NextInv`, with one lemma per
action, show it inductive; `StreamFrame` and `OneStream` reduce a step to the one
stream it changes, and `PageArithmetic` holds the arithmetic of a page. From it:

| theorem | says |
|---|---|
| `Invariant` | `Spec => []IInv` |
| `TypeCorrect` | `Spec => []TypeOK` |
| `DeliversPrefix` | `Spec => []PrefixDelivered` |
| `EndsComplete` | `Spec => []CompleteWhenEnded` |
| `HoldsCursor` | `Spec => []CursorHeld` |
| `PagesBounded` | `Spec => []BoundedPages` |

`ScrollScanOutcomeProofs` goes from one stream to the scan, for any number of streams
and any changes of the index between their searches:

* `ReturnsNoRowTwice`. `SlicesInv`: a stream that runs is one of the plan's, and the
  hits of its search are distinct and lie in its slice. Two streams' hashes differ
  modulo the partition count, so their rows do.
* `RespectsLimits`. `StreamsWithin`: no stream emits more than any one limit; and a
  plan with a fetch, or of a single page, has one stream. The total over the
  streams is a fold, of which two facts are needed: it is zero when every stream's
  part is, and one stream's part when the others emit nothing. Both follow from a
  minimal counterexample (`WFMin` over `Nat`) without an induction theorem.
* `MissesNothing`. `StableInv`: what was in the index when the scan began and still
  is was found by every search of its slice, and every document has a slice. With
  failed shards this is false, so the theorem assumes none (`"partial" \notin Faults`),
  and the finding `partial` is the rest.

It also has what depends on the absence of a fault. `ReleasesCursor`: an open cursor belongs to a stream that still holds its id, or to a request or
reply in flight, or to one that failed or was dropped (`CursorInv`); without lost
messages a stream that ends has released it. A release that is lost leaves the
cursor to its keep-alive, as the code means it to. `Succeeds`: no stream fails under
`Undisturbed`, which names everything that must not happen (a lost message or
cursor, a deleted index, a page above the cluster's window, a column that cannot be
built); streams may be dropped, shards may fail, documents come and go.

`ScrollScanRefinementProofs` shows `Implements == Spec => ImplementsContract`. The
mapping takes a stream's answer to be the wanted part of its search's hits
(`AnswerOf`), which the search fixes (`Fix`); a page that arrives delivers
(`Deliver`), the end of a stream completes (`Complete`), a failure or a drop aborts
(`Abort`), `with_fetch` and the index's changes are `Limit` and `Change`; every other
step stutters: polls, requests, the cluster's later pages, releases, expiries.
`AnswersInv`, from `SlicesInv` and `StreamsWithin`, is what the contract asks of the
answers: disjoint, and together within every limit.

`PushdownProofs`: `Translation` says of every predicate that its clause matches where
it is TRUE and not where it is FALSE (`Agrees`). One lemma per form of predicate
proves it of what an arm makes (`CompareRight`, `InListRight`, ..., `NegationRight`,
`ConjunctionRight`), so it holds of a WHERE of any depth, over any columns and
integer values; `Invariant` adds what each stage was computed from, and
`FilterApplied` and `RowFound` draw the conclusions: `TypeCorrect`, `Translates`,
`LosesNoRow`, `WidensOnlyByNull`, `KeepsBaseFilter`, `ExactUnlessNegated`. Why
`Agrees` must not ask for equality under a negation is the finding `widening`; why
it asks for two inclusions and not one is NOT, which swaps them.

`CatalogProofs`: neither `ListingIsCurrent` nor `DeletedIsForgottenUnlessOvertaken` is
inductive: a listing is written long after it was asked for, and a mapping cached
long after it was read. `IInv` says what a call may hold in between: a listing is
right about every index that has not been created or deleted since it was made
(`Refreshing`), and a call that was not overtaken has a mapping no refresh has ruled
out and nothing cached to replace (`Tabling`). `Fresh` is what makes that inductive:
it also counts the refreshes that have dropped their tables and have not yet
written their listing, which `gone` does not. One lemma per action; `CallStep`
reduces the steps that write nothing to the call they change, `AfterOK` says what a
write does to the other calls. From it `TypeCorrect`, `ListsCurrent`,
`ForgetsDeleted` and `CachesOnce` (an action property), for any number of tasks,
indices and changes: the race of `catalog.rs:81` is the only way `refresh()`'s promise
about the cache is broken.

`TableQueryProofs`: `QueryInv` ties every stage of a query to the table it is asked
of: the columns are the statement's or, with none, the mapping's, a literal is of
its column's kind, the body asks for what the plan projects, a hit is a document
the body may match, and a row is what `build_batch` reads of it. The rest is
conversions, one lemma for each kind of value:

* `ShowsNoOtherNumber` (`IntCellKeeps`): `primitive_integer` makes the number that is
  there or null, for every width, of every number within `i64`.
* `ReadsWhatIsIndexed`: what an index holds of a value it accepted, by the class of
  its mapping (`IndexedText` to `IndexedInstant`), is what the readers make of the same
  JSON (`ReadsIndexed`), if the column can hold it.
* `PushesAsFiltered`: `search_body`'s only clause is the filter's, with no base filter
  beside it (`OnlyClause`); its JSON means the literal to the index, or, of an instant
  finer than a millisecond, the millisecond it is in (`QueryMeansLiteral`); and for a
  column of whole milliseconds `>` and `<=` do not tell the two apart, before 1970
  too (`RoundedComparison`), which is why the code must round down.

The same module follows the statement. `TypeOK`, `RequestsAsTold` and
`OptionsInForce` speak of a plan and of requests that are made long after LOCATION
and the options were read, so none is inductive. `StatementInv` says what the table is
at every stage: before its options are read it is `Provider(schema)`, the table with
the defaults that the LOCATION and the factory's credentials make; from then on it is
`Settled(schema)`, that table with the statement's options, none of them wrong
(`TableInv`); and every plan, body, row and request is made of it (`PlanInv`, `RowInv`,
`SentInv`), while a LOCATION is refused only where the split has no answer
(`ErrorInv`). A request made before the options and one made after them go to the same
place because no option touches client or index (`SameRequest`). From it:

* `Types`: `Spec => []TypeOK`. An option that parses is a number from 0 on and the
  builders clamp it (`OptionTypes`, `TableSizes`), so `ScanOK` applies to every table.
* `OptionsAreInForce`. `SortOf` is a recursive function over the items; `KeysOf` says of
  a prefix of them which keys were kept, in which order, and `KeepKeys` that one more
  item keeps it so (`SortIsBy`). The base filter's clauses come first in every body
  (`BaseFirst`), the plan's sizes are those of the table (`ScanOfTable`).
* `RequestsGoAsTold`. `Splits(l, i, k)` describes a LOCATION by positions: where the base
  ends, where the name ends, slashes after it. A LOCATION that is not refused has such
  positions (`SplitSomewhere`), is split there (`SplitsThere`), and the parts put
  together again are the LOCATION (`SplitsWellFormed`), with nothing left for
  `base_url` to trim; conversely any well-formed reading gives such positions
  (`WellFormedSplits`), so a LOCATION that has one is not refused.
* `LikesMeanPatterns` and `PrefixesWhenSole`: the clause at the end of the body is the
  LIKE's whatever the base filter (`LastClause`), and `LikePatternProofs` says what it
  means.

`LikePatternProofs`: the loop of `like_to_query` and the tokens by which a
pattern is understood are both recursive functions over positions. `TokensSteps` and
`LoopSteps` prove their defining equations. The wildcard query is followed backwards:
from each position on, the tokens of what the loop still adds to the clause are those
of the pattern that is left, an escape pending or not (`WildcardMeansPattern`). The
prefix query is followed forwards: as long as there is no wildcard, the pattern is the
text noted so far and then what is left of it; from the first wildcard on, the text
noted is all that precedes that one, and the prefix stays pure only if it is a % at the
end (`PrefixNoted`).
`ClauseMeansPattern` and `PrefixIsSoleRun` are the result for every pattern over every
alphabet, but those that end in an escape of nothing.

Recursive functions: the induction theorems of the library take an operator, which
the provers do not instantiate. `SetInduction` states induction over `Nat` for a set
instead (the set of the positions up to which a statement holds); it follows from the
least element that `WFMin` gives, and serves all the functions above.

Only model-checked: `EveryStreamEnds` and `EveryCallReturns`, since TLAPS proves neither
liveness under fairness nor `ENABLED`. Every other property of a passing run is a
theorem. The properties of the findings are refuted.

## Not modelled

The syntax of JSON, numbers, URLs and headers: a text parses or it does not. Floats
beyond 2^53, whose rounding the scaled floats do not have. How `find_properties`
walks the shapes of a mapping reply: that an alias of several indices has the
schema of the first, and that an index named `properties` or `mappings` is taken for
a part of the reply. Option keys that collide once their `format.` prefix is
stripped, where a hash map's order decides, and misspelt keys, which are ignored.
The values of `search_after`. What DataFusion's SQL makes of a column's type: its
`TIMESTAMP` is a nanosecond timestamp, which `build_batch` refuses. The terms of
analysed text, arrays, NaN, and a LIKE pattern that ends in an escape of nothing (the
code drops that backslash, SQL matches it): the properties name them as
exceptions. The tokeniser of `os_match` and the geometry, which are stand-ins in
memory. Metrics and EXPLAIN output; Arrow, DataFusion, TLS and reqwest themselves. A
poisoned lock is left out: no code panics under one.

## Plan

Done: `ScanPlan`, `ScrollScan` with its contract, invariant and proofs, `Catalog` and
`Pushdown` with theirs, `LikePattern`, `Coercion`, `ExternalTable` and `TableQuery` with
the proofs of what a statement makes and a query reads.

Next, in this order:

1. Analysed (`text`) and many-valued fields in `Pushdown`: an index that holds terms
   other than the value, where `=` may lose rows; UDFs in filters that stay in memory.
2. The shapes of a mapping reply, and option keys that collide without their prefix.
3. An abstract catalog (a listing and a cache, each current as of some refresh) that
   `Catalog` implements while no call is overtaken.
