------------------------------ MODULE ScanPlan ------------------------------
(***************************************************************************)
(* The plan of a scan: how the settings of an OpenSearchTableProvider and  *)
(* the LIMIT of a query become the plan of one OpenSearchExec (table.rs    *)
(* scan, exec.rs from_inner and the with_* builders).  Pure operators; the *)
(* streams that run the plan are in ScrollScan.                            *)
(***************************************************************************)
EXTENDS Naturals

CONSTANT None          \* the value None of an Option<usize>

ASSUME NoneAssumption == None \notin Nat

Opt == Nat \cup {None}                                   \* Option<usize>

\* Column types and nullability as far as build_batch tells them apart: a
\* nullable column of a supported type, a non-nullable one, and a column of a
\* type with no reader.  A projection is a set of these; {} is what
\* SELECT count(*) projects.
ColumnKinds == {"nullable", "required", "unsupported"}

\* What a user configures on the provider, and the LIMIT and columns DataFusion
\* hands to the scan.
Query == [page_size    : Nat,
          max_rows     : Opt,
          partitions   : Nat,
          search_after : BOOLEAN,
          limit        : Opt,
          columns      : SUBSET ColumnKinds]

\* struct Inner, less the client, index and body.
Inner == [page_size   : Nat \ {0},
          fetch       : Opt,
          single_page : BOOLEAN,
          partitions  : Nat \ {0},
          columns     : SUBSET ColumnKinds]

\* struct OpenSearchExec: `partitioning` is the count DataFusion reads from the
\* plan's properties, inner.partitions the one the streams slice by.
Exec == [inner : Inner, partitioning : Nat \ {0}]
-----------------------------------------------------------------------------
(* Helpers.                                                                *)

\* A plausible mistake: the builders do not clamp.
AtLeastOneUnclamped(n) == n

AtLeastOne(n) == IF n = 0 THEN 1 ELSE n                  \* n.max(1)

\* The smaller of two row caps, either of which may be absent.
MinOpt(a, b) ==
  CASE a = None -> b
    [] b = None -> a
    [] OTHER    -> IF a <= b THEN a ELSE b

\* n cut down to an optional cap.
AtMost(n, cap) == IF cap = None THEN n ELSE IF n <= cap THEN n ELSE cap
-----------------------------------------------------------------------------
(* Plausible mistakes, one per definition below; the runs refute them.     *)

FromInnerIgnoringFetch(inner) ==
  LET n == IF inner.single_page THEN 1 ELSE AtLeastOne(inner.partitions)
  IN  [inner |-> [inner EXCEPT !.partitions = n], partitioning |-> n]

FromInnerKeepingSlices(inner) ==
  [inner |-> inner,
   partitioning |-> IF inner.fetch # None \/ inner.single_page
                      THEN 1 ELSE AtLeastOne(inner.partitions)]

CombinedFetchLatest(old, limit) == IF limit = None THEN old ELSE limit

ScanFetchLimitWins(limit, max_rows) == IF limit = None THEN max_rows ELSE limit
-----------------------------------------------------------------------------
(* OpenSearchExec: from_inner and the builders.                            *)

FromInner(inner) ==
  LET n == IF inner.fetch # None \/ inner.single_page
             THEN 1 ELSE AtLeastOne(inner.partitions)
  IN  [inner |-> [inner EXCEPT !.partitions = n], partitioning |-> n]

NewExec(columns, defaultPageSize) ==
  FromInner([page_size |-> defaultPageSize, fetch |-> None, single_page |-> FALSE,
             partitions |-> 1, columns |-> columns])

WithPageSize(exec, n)     == FromInner([exec.inner EXCEPT !.page_size = AtLeastOne(n)])
WithFetchLimit(exec, l)   == FromInner([exec.inner EXCEPT !.fetch = l])
WithSinglePage(exec, b)   == FromInner([exec.inner EXCEPT !.single_page = b])
WithPartitions(exec, n)   == FromInner([exec.inner EXCEPT !.partitions = AtLeastOne(n)])

\* with_fetch, the hook DataFusion's limit pushdown calls on a finished plan.
CombinedFetch(old, limit) == MinOpt(old, limit)
WithFetch(exec, limit)    == WithFetchLimit(exec, CombinedFetch(exec.inner.fetch, limit))
-----------------------------------------------------------------------------
(* OpenSearchTableProvider: the builders that clamp, and scan.             *)

DefaultPageSize == 5000

Provider(query) == [query EXCEPT !.page_size = AtLeastOne(@), !.partitions = AtLeastOne(@)]

ScanFetch(limit, max_rows) == MinOpt(limit, max_rows)

Scan(query) ==
  LET table == Provider(query)
      fetch == ScanFetch(table.limit, table.max_rows)
      sized == WithPageSize(NewExec(table.columns, DefaultPageSize), table.page_size)
  IN  WithPartitions(WithSinglePage(WithFetchLimit(sized, fetch), table.search_after),
                     table.partitions)
-----------------------------------------------------------------------------
(* What a plan is to satisfy.                                              *)

\* A plan keeps its two partition counts equal, keeps a capped or single-page
\* read on one stream, and never asks for a page of no hits.
PlanOK(exec) ==
  /\ exec \in Exec
  /\ exec.partitioning = exec.inner.partitions
  /\ exec.inner.fetch # None \/ exec.inner.single_page => exec.inner.partitions = 1

\* The row cap `fetch` is the least of the caps in `limits`.
FetchIsLeast(fetch, limits) ==
  IF fetch = None THEN limits \subseteq {None}
                  ELSE fetch \in limits /\ \A l \in limits : l = None \/ fetch <= l
=============================================================================
