----------------------------- MODULE ScrollScan -----------------------------
(***************************************************************************)
(* Running the plan of a scan: one stream per DataFusion partition, each   *)
(* paging through an OpenSearch scroll (exec.rs execute, next_page;        *)
(* client.rs search_page, scroll, clear_scroll) while the index changes,   *)
(* cursors expire, connections break and the consumer may stop reading.    *)
(*                                                                         *)
(* A poll of a stream runs next_page up to the await it stops at, so a     *)
(* call of next_page is a Poll* step that sends one request and a Receive* *)
(* step that acts on its reply; between the two anything may happen.  The  *)
(* cluster (Serve*, Expire and the index steps) is external: it is         *)
(* modelled by what the code relies on and by what OpenSearch may do to it.*)
(***************************************************************************)
EXTENDS ScanPlan, Integers, Sequences, FiniteSets, SequencesExt

CONSTANTS
  Doc,             \* the documents that match the pushed-down query
  HashCode,        \* the hash OpenSearch slices a scroll by
  Sparse,          \* documents with no value for the non-nullable column
  Queries,         \* the configurations and queries to scan with
  Limits,          \* what limit pushdown may hand to with_fetch
  InitialIndexes,  \* the contents the index may start with (None: no index)
  MaxPartitions,   \* streams are numbered 0..MaxPartitions-1
  Window,          \* index.max_result_window: the largest page a search may ask for
  MaxWrites,       \* how often the index changes while the scan runs
  Faults           \* what may go wrong around the scan, a subset of FaultKinds

FaultKinds == {"lose", "expire", "cancel", "partial", "drop_index"}

\* A slice { id, max } of a sliced scroll.
Slices == [id : Nat, max : Nat \ {0}]

\* What the cluster keeps for a search: its snapshot of the hits in the order
\* it returns them, how many it has returned, and, for a scroll, that it lives.
Context == [hits : Seq(Doc), pos : Nat, size : Nat, open : BOOLEAN]

ASSUME ScanAssumption ==
  /\ IsFiniteSet(Doc)
  /\ HashCode \in [Doc -> Nat]
  /\ MaxPartitions \in Nat \ {0}
  /\ Queries \subseteq Query
  /\ \A q \in Queries : q.partitions <= MaxPartitions
  /\ Limits \subseteq Opt
  /\ None \notin Slices /\ None \notin Context /\ None \notin Seq(Doc)
  /\ \A contents \in SUBSET Doc : contents # None
  /\ \A contents \in InitialIndexes : contents = None \/ contents \subseteq Doc
  /\ MaxWrites \in Nat
  /\ Window \in Nat
  /\ Faults \subseteq FaultKinds

Stream == 0 .. MaxPartitions - 1

VARIABLES
  query,     \* the provider's settings and the query
  exec,      \* the plan: one OpenSearchExec
  limits,    \* every row limit asked for so far
  status,    \* status[p]: where stream p is, between polls or at which await
  st,        \* st[p]: its PageState
  wire,      \* wire[p]: its request or reply in flight
  out,       \* out[p]: the documents it has emitted as rows
  context,   \* context[p]: the cluster's search context for stream p
  index,     \* the documents now in the index, or None when there is no index
  stable,    \* documents present ever since the scan was planned
  writes     \* changes made to the index so far

planVars    == <<query, exec, limits>>
streamVars  == <<status, st, wire, out>>
indexVars   == <<index, stable, writes>>
vars        == <<query, exec, limits, status, st, wire, out, context,
                 index, stable, writes>>

Final  == {"ended", "failed", "dropped", "refused"}
Status == {"new", "ready", "searching", "scrolling", "clearing"} \cup Final

\* struct PageState (the shared inner and the partition number are exec and p).
PageState == [scroll_id : Stream \cup {None}, remaining : Opt,
              started : BOOLEAN, done : BOOLEAN]

Request == [type : {"search"}, size : Nat, slice : Slices \cup {None}, scroll : BOOLEAN]
             \cup [type : {"scroll"}, id : Stream]
             \cup [type : {"clear"}, id : Stream]
Page    == [type : {"page"}, hits : Seq(Doc), scroll_id : Stream \cup {None}]
Reply   == Page \cup [type : {"not_found", "error", "broken", "cleared"}]
Idle    == [type |-> "idle"]
Message == Request \cup Reply \cup {Idle}
-----------------------------------------------------------------------------
(* Plausible mistakes in the operators of next_page; the runs refute them. *)

RequestSizeUnpaged(inner, remaining) ==
  IF remaining = None THEN inner.page_size ELSE remaining

EndsAfterFullPage(inner, size, kept, remaining) ==
  inner.single_page \/ kept <= size \/ remaining = 0

TruncateToFetchFromFront(hits, remaining) ==
  SubSeq(hits, Len(hits) - AtMost(Len(hits), remaining) + 1, Len(hits))

AfterSearchNotStarted(s) == s

KeepCursorAlways(old, new) == new

SliceOfWhole(p, inner) == [id |-> 0, max |-> inner.partitions]

PageOfAny(await, reply) ==
  IF reply.type = "not_found"
    THEN [type |-> "page", hits |-> <<>>, scroll_id |-> None] ELSE reply

FailsCallMissing(await, reply) ==
  await # "clearing" /\ reply.type \in {"error", "broken", "not_found"}
-----------------------------------------------------------------------------
(* The decisions next_page makes, and the client's reading of a reply.     *)

Exhausted(s) == s.done \/ s.remaining = 0

AfterSearch(s) == [s EXCEPT !.started = TRUE]

RequestSize(inner, remaining) == AtMost(inner.page_size, remaining)

SliceOf(p, inner) ==
  IF inner.partitions > 1 THEN [id |-> p, max |-> inner.partitions] ELSE None

KeepCursor(old, new) == IF new # None THEN new ELSE old

TruncateToFetch(hits, remaining) == SubSeq(hits, 1, AtMost(Len(hits), remaining))

RemainingAfter(remaining, kept) ==
  IF remaining = None THEN None ELSE IF kept <= remaining THEN remaining - kept ELSE 0

EndsAfter(inner, size, kept, remaining) ==
  inner.single_page \/ kept < size \/ remaining = 0

\* build_batch: an empty projection has no batch, a type may have no reader,
\* and a non-nullable column admits no null.
BuildsBatch(columns, hits) ==
  /\ columns # {}
  /\ "unsupported" \notin columns
  /\ "required" \in columns => ToSet(hits) \cap Sparse = {}

\* search_page reads a 404 as an empty page; scroll does not.
PageOf(await, reply) ==
  IF await = "searching" /\ reply.type = "not_found"
    THEN [type |-> "page", hits |-> <<>>, scroll_id |-> None] ELSE reply

\* The replies that end next_page with an error; clear_scroll ignores its reply.
FailsCall(await, reply) ==
  \/ await \in {"searching", "scrolling"} /\ reply.type \in {"error", "broken"}
  \/ await = "scrolling" /\ reply.type = "not_found"
-----------------------------------------------------------------------------
Init ==
  /\ query \in Queries
  /\ exec = Scan(query)
  /\ limits = {query.limit, query.max_rows}
  /\ status = [p \in Stream |-> "new"]
  /\ st = [p \in Stream |-> [scroll_id |-> None, remaining |-> None,
                             started |-> FALSE, done |-> FALSE]]
  /\ wire = [p \in Stream |-> Idle]
  /\ out = [p \in Stream |-> <<>>]
  /\ context = [p \in Stream |-> None]
  /\ index \in InitialIndexes
  /\ stable = IF index = None THEN {} ELSE index
  /\ writes = 0
-----------------------------------------------------------------------------
(* Planning: DataFusion's limit pushdown may call with_fetch on the plan.  *)

PushLimit(l) ==
  /\ \A p \in Stream : status[p] = "new"
  /\ l \notin limits
  /\ exec' = WithFetch(exec, l)
  /\ limits' = limits \cup {l}
  /\ UNCHANGED <<query, streamVars, context, indexVars>>

\* ExecutionPlan::execute: out of range is refused, otherwise a fresh PageState.
Execute(p) ==
  /\ status[p] = "new"
  /\ IF p >= exec.inner.partitions
       THEN status' = [status EXCEPT ![p] = "refused"] /\ UNCHANGED st
       ELSE /\ status' = [status EXCEPT ![p] = "ready"]
            /\ st' = [st EXCEPT ![p] = [scroll_id |-> None,
                                        remaining |-> exec.inner.fetch,
                                        started |-> FALSE, done |-> FALSE]]
  /\ UNCHANGED <<planVars, wire, out, context, indexVars>>
-----------------------------------------------------------------------------
(* The three ways a poll of next_page starts.                              *)

\* A plausible mistake: the cursor is forgotten instead of released.
FinishForgetting(p, s) ==
  /\ st' = [st EXCEPT ![p] = [s EXCEPT !.scroll_id = None]]
  /\ wire' = [wire EXCEPT ![p] = Idle]
  /\ status' = [status EXCEPT ![p] = "ended"]

\* Release the cursor if one is held, then report the end of the stream.
Finish(p, s) ==
  /\ st' = [st EXCEPT ![p] = [s EXCEPT !.scroll_id = None]]
  /\ IF s.scroll_id # None
       THEN /\ wire' = [wire EXCEPT ![p] = [type |-> "clear", id |-> s.scroll_id]]
            /\ status' = [status EXCEPT ![p] = "clearing"]
       ELSE /\ wire' = [wire EXCEPT ![p] = Idle]
            /\ status' = [status EXCEPT ![p] = "ended"]

PollEnd(p) ==
  /\ status[p] = "ready" /\ Exhausted(st[p])
  /\ Finish(p, st[p])
  /\ UNCHANGED <<planVars, out, context, indexVars>>

\* Send the first request, a _search.
PollSearch(p) ==
  /\ status[p] = "ready" /\ ~Exhausted(st[p]) /\ ~st[p].started
  /\ st' = [st EXCEPT ![p] = AfterSearch(@)]
  /\ wire' = [wire EXCEPT ![p] =
                [type   |-> "search",
                 size   |-> RequestSize(exec.inner, st[p].remaining),
                 slice  |-> SliceOf(p, exec.inner),
                 scroll |-> ~exec.inner.single_page]]
  /\ status' = [status EXCEPT ![p] = "searching"]
  /\ UNCHANGED <<planVars, out, context, indexVars>>

\* Ask the cursor for the next page; with no cursor the stream just ends.
PollScroll(p) ==
  /\ status[p] = "ready" /\ ~Exhausted(st[p]) /\ st[p].started
  /\ IF st[p].scroll_id # None
       THEN /\ wire' = [wire EXCEPT ![p] = [type |-> "scroll", id |-> st[p].scroll_id]]
            /\ status' = [status EXCEPT ![p] = "scrolling"]
       ELSE status' = [status EXCEPT ![p] = "ended"] /\ UNCHANGED wire
  /\ UNCHANGED <<planVars, st, out, context, indexVars>>
-----------------------------------------------------------------------------
(* How next_page goes on when the reply arrives.                           *)

Awaiting(p)  == status[p] \in {"searching", "scrolling", "clearing"}
Arrived(p)   == PageOf(status[p], wire[p])

ReceiveFailure(p) ==
  /\ Awaiting(p) /\ FailsCall(status[p], wire[p])
  /\ status' = [status EXCEPT ![p] = "failed"]
  /\ wire' = [wire EXCEPT ![p] = Idle]
  /\ UNCHANGED <<planVars, st, out, context, indexVars>>

\* A plausible mistake: an empty page is asked for again.
ReceiveEmptyPageRetrying(p) ==
  /\ status[p] \in {"searching", "scrolling"}
  /\ Arrived(p).type = "page" /\ Arrived(p).hits = <<>>
  /\ st' = [st EXCEPT ![p].scroll_id = KeepCursor(@, Arrived(p).scroll_id)]
  /\ status' = [status EXCEPT ![p] = "ready"]
  /\ wire' = [wire EXCEPT ![p] = Idle]
  /\ UNCHANGED <<planVars, out, context, indexVars>>

ReceiveEmptyPage(p) ==
  /\ status[p] \in {"searching", "scrolling"}
  /\ Arrived(p).type = "page" /\ Arrived(p).hits = <<>>
  /\ Finish(p, [st[p] EXCEPT !.done = TRUE,
                             !.scroll_id = KeepCursor(@, Arrived(p).scroll_id)])
  /\ UNCHANGED <<planVars, out, context, indexVars>>

ReceiveHits(p) ==
  /\ status[p] \in {"searching", "scrolling"}
  /\ Arrived(p).type = "page" /\ Arrived(p).hits # <<>>
  /\ LET size == RequestSize(exec.inner, st[p].remaining)
         kept == TruncateToFetch(Arrived(p).hits, st[p].remaining)
         left == RemainingAfter(st[p].remaining, Len(kept))
     IN  /\ st' = [st EXCEPT ![p] =
                     [scroll_id |-> KeepCursor(@.scroll_id, Arrived(p).scroll_id),
                      remaining |-> left,
                      started   |-> @.started,
                      done      |-> EndsAfter(exec.inner, size, Len(kept), left)]]
         /\ IF BuildsBatch(exec.inner.columns, kept)
              THEN /\ out' = [out EXCEPT ![p] = @ \o kept]
                   /\ status' = [status EXCEPT ![p] = "ready"]
              ELSE status' = [status EXCEPT ![p] = "failed"] /\ UNCHANGED out
  /\ wire' = [wire EXCEPT ![p] = Idle]
  /\ UNCHANGED <<planVars, context, indexVars>>

\* clear_scroll is best effort: whatever came back, the stream has ended.
ReceiveCleared(p) ==
  /\ status[p] = "clearing" /\ wire[p].type \in {"cleared", "broken"}
  /\ status' = [status EXCEPT ![p] = "ended"]
  /\ wire' = [wire EXCEPT ![p] = Idle]
  /\ UNCHANGED <<planVars, st, out, context, indexVars>>

\* The consumer drops the stream (a satisfied LIMIT above, an error elsewhere,
\* a cancelled query).  Nothing is sent: a cursor it holds is left to expire.
Cancel(p) ==
  /\ "cancel" \in Faults
  /\ status[p] \in {"ready", "searching", "scrolling", "clearing"}
  /\ status' = [status EXCEPT ![p] = "dropped"]
  /\ wire' = [wire EXCEPT ![p] = Idle]
  /\ UNCHANGED <<planVars, st, out, context, indexVars>>
-----------------------------------------------------------------------------
(* The cluster (external).                                                 *)

InSlice(slice) ==
  IF slice = None THEN index ELSE {d \in index : HashCode[d] % slice.max = slice.id}

\* The documents a search finds: all in its slice, unless a shard failed, which
\* OpenSearch reports next to the hits of the others (status 200).
Found(slice) == IF "partial" \in Faults THEN SUBSET InSlice(slice) ELSE {InSlice(slice)}

ServeSearch(p) ==
  /\ wire[p].type = "search"
  /\ IF index = None
       THEN /\ wire' = [wire EXCEPT ![p] = [type |-> "not_found"]]
            /\ context' = [context EXCEPT ![p] = [hits |-> <<>>, pos |-> 0,
                                                  size |-> wire[p].size, open |-> FALSE]]
       ELSE IF wire[p].size > Window
       THEN wire' = [wire EXCEPT ![p] = [type |-> "error"]] /\ UNCHANGED context
       ELSE \E found \in Found(wire[p].slice) : \E hits \in SetToSeqs(found) :
              LET end == AtMost(Len(hits), wire[p].size)
              IN  /\ context' = [context EXCEPT ![p] =
                                   [hits |-> hits, pos |-> end, size |-> wire[p].size,
                                    open |-> wire[p].scroll]]
                  /\ wire' = [wire EXCEPT ![p] =
                                [type |-> "page", hits |-> SubSeq(hits, 1, end),
                                 scroll_id |-> IF wire[p].scroll THEN p ELSE None]]
  /\ UNCHANGED <<planVars, status, st, out, indexVars>>

\* A scroll goes on in pages of its first request's size; the reply may leave
\* the cursor's id out when it has not changed.
ServeScroll(p) ==
  /\ wire[p].type = "scroll"
  /\ LET id == wire[p].id
         c  == context[id]
         end == AtMost(Len(c.hits), c.pos + c.size)
     IN  IF c.open
           THEN /\ context' = [context EXCEPT ![id].pos = end]
                /\ \E echoed \in {id, None} :
                     wire' = [wire EXCEPT ![p] =
                                [type |-> "page", hits |-> SubSeq(c.hits, c.pos + 1, end),
                                 scroll_id |-> echoed]]
           ELSE wire' = [wire EXCEPT ![p] = [type |-> "not_found"]] /\ UNCHANGED context
  /\ UNCHANGED <<planVars, status, st, out, indexVars>>

ServeClear(p) ==
  /\ wire[p].type = "clear"
  /\ context' = [context EXCEPT ![wire[p].id].open = FALSE]
  /\ wire' = [wire EXCEPT ![p] = [type |-> "cleared"]]
  /\ UNCHANGED <<planVars, status, st, out, indexVars>>

\* A connection breaks: the request or its reply is lost.
Lose(p) ==
  /\ "lose" \in Faults
  /\ Awaiting(p) /\ wire[p].type # "broken"
  /\ wire' = [wire EXCEPT ![p] = [type |-> "broken"]]
  /\ UNCHANGED <<planVars, status, st, out, context, indexVars>>

\* A cursor outlives its keep-alive, as when the consumer is slow.
Expire(p) ==
  /\ "expire" \in Faults
  /\ context[p] # None /\ context[p].open
  /\ context' = [context EXCEPT ![p].open = FALSE]
  /\ UNCHANGED <<planVars, streamVars, indexVars>>

Write(contents) ==
  /\ writes < MaxWrites
  /\ writes' = writes + 1
  /\ index' = contents
  /\ stable' = IF contents = None THEN {} ELSE stable \cap contents
  /\ UNCHANGED <<planVars, streamVars>>

AddDoc(d) ==
  /\ index # None /\ d \notin index
  /\ Write(index \cup {d})
  /\ UNCHANGED context

RemoveDoc(d) ==
  /\ index # None /\ d \in index
  /\ Write(index \ {d})
  /\ UNCHANGED context

\* Deleting an index frees the search contexts over it.
DropIndex ==
  /\ "drop_index" \in Faults
  /\ index # None
  /\ Write(None)
  /\ context' = [p \in Stream |->
                   IF context[p] = None THEN None ELSE [context[p] EXCEPT !.open = FALSE]]

CreateIndex ==
  /\ index = None
  /\ Write({})
  /\ UNCHANGED context
-----------------------------------------------------------------------------
Running == {p \in Stream : p < exec.partitioning}

Finished ==
  /\ \A p \in Running : status[p] \in Final
  /\ UNCHANGED vars

Poll(p)    == PollEnd(p) \/ PollSearch(p) \/ PollScroll(p)
Receive(p) == ReceiveFailure(p) \/ ReceiveEmptyPage(p) \/ ReceiveHits(p) \/ ReceiveCleared(p)
Serve(p)   == ServeSearch(p) \/ ServeScroll(p) \/ ServeClear(p)

Next ==
  \/ \E l \in Limits : PushLimit(l)
  \/ \E p \in Stream : \/ Execute(p) \/ Poll(p) \/ Receive(p) \/ Serve(p)
                       \/ Cancel(p) \/ Lose(p) \/ Expire(p)
  \/ \E d \in Doc : AddDoc(d) \/ RemoveDoc(d)
  \/ DropIndex \/ CreateIndex
  \/ Finished

\* DataFusion executes every partition of the plan and polls each stream until
\* it ends; the cluster answers what it is asked.
Fairness ==
  \A p \in Stream : WF_vars(Execute(p)) /\ WF_vars(Poll(p) \/ Receive(p)) /\ WF_vars(Serve(p))

Spec     == Init /\ [][Next]_vars
FairSpec == Spec /\ Fairness
-----------------------------------------------------------------------------
(* Properties.                                                             *)

\* Every variable stays in its type, messages and page states included.
TypeOK ==
  /\ query \in Query
  /\ exec \in Exec
  /\ limits \subseteq Opt
  /\ status \in [Stream -> Status]
  /\ st \in [Stream -> PageState]
  /\ wire \in [Stream -> Message]
  /\ out \in [Stream -> Seq(Doc)]
  /\ context \in [Stream -> Context \cup {None}]
  /\ index = None \/ index \subseteq Doc
  /\ stable \subseteq Doc
  /\ writes \in Nat

\* The caps on the rows of the whole scan: LIMITs, max_rows and, for a
\* search_after read, one page.
RowLimits ==
  (limits \cup (IF query.search_after THEN {AtLeastOne(query.page_size)} ELSE {})) \ {None}

\* n of the `available` rows are as many as the row limits allow.
AllThatIsWanted(n, available) ==
  /\ \A l \in RowLimits : n <= l
  /\ n <= available
  /\ n = available \/ n \in RowLimits

\* Whatever becomes of a stream, the rows it has emitted are the first rows of
\* the cluster's answer, in the answer's order: no page is skipped, repeated or
\* cut at the wrong end by next_page, even when a later page fails.
PrefixDelivered ==
  \A p \in Stream : IF context[p] = None THEN out[p] = <<>>
                                         ELSE IsPrefix(out[p], context[p].hits)

\* A stream that reports its end has emitted all of its answer that the limits
\* allow.  Above all an expired cursor, a deleted index or a broken connection
\* in mid-scan is an error, never a shorter result (exec.rs:6-7 "the result is
\* complete").
CompleteWhenEnded ==
  \A p \in Stream :
    status[p] \in {"clearing", "ended"} =>
      AllThatIsWanted(Len(out[p]), IF context[p] = None THEN Len(out[p])
                                                       ELSE Len(context[p].hits))

Rows == UNION {ToSet(out[p]) : p \in Stream}
Total == FoldSet(LAMBDA p, n : n + Len(out[p]), 0, Stream)

\* Sliced streams open their cursors at different moments, over different
\* contents; no document is still emitted twice, by one stream or by two.
NoRowTwice ==
  \A p, q \in Stream : \A i \in DOMAIN out[p], j \in DOMAIN out[q] :
    out[p][i] = out[q][j] => p = q /\ i = j

\* When every stream of the plan has ended, a document that was in the index
\* throughout the scan has been emitted, unless a row limit was met exactly.
NothingMissed ==
  (\A p \in Running : status[p] = "ended") => stable \subseteq Rows \/ Total \in RowLimits

\* All streams together never emit more rows than any limit the plan was given,
\* whatever the provider's partitions are (exec.rs:9-10 "so a limit is exact").
LimitNeverExceeded == \A l \in RowLimits : Total <= l

\* While a stream wants more it holds the cursor to get it with, so the silent
\* end of next_page's scroll_id None arm is never taken.
CursorHeld ==
  \A p \in Stream :
    status[p] = "ready" /\ st[p].started /\ ~Exhausted(st[p]) => st[p].scroll_id # None

\* A stream that ended on its own left no cursor open on the cluster.
CursorReleased ==
  \A p \in Stream :
    status[p] = "ended" /\ context[p] # None => ~context[p].open

\* No page is larger than the provider's page size, so neither is the memory a
\* stream needs (exec.rs:6).
BoundedPages ==
  \A p \in Stream :
    wire[p].type = "page" => Len(wire[p].hits) <= AtLeastOne(query.page_size)

\* A scan nothing goes wrong around does not fail: a missing index reads as
\* empty and no request is larger than the cluster serves.
ScanSucceeds == \A p \in Stream : status[p] # "failed"

\* What the documentation says of max_rows, "cap on rows a scan returns when the
\* query has no LIMIT" (table.rs:34): under a LIMIT of its own, and no other, a
\* scan returns as many of its hits as the LIMIT asks for.
MaxRowsOnlyWithoutLimit ==
  \A p \in Stream :
    /\ status[p] = "ended" /\ context[p] # None
    /\ query.limit # None /\ ~query.search_after
    /\ limits \subseteq {query.limit, query.max_rows}
    => Len(out[p]) = AtMost(Len(context[p].hits), query.limit)

\* Every partition DataFusion starts comes to an end of one kind or another.
EveryStreamEnds ==
  \A p \in Stream : status[p] = "new" ~> status[p] \in Final
=============================================================================
