--------------------------- MODULE ScanPlanProofs ---------------------------
(***************************************************************************)
(* What the planning of a scan guarantees, for every query.                *)
(***************************************************************************)
EXTENDS ScanPlan, Integers, TLAPS

\* AtLeastOne computes a positive number.
LEMMA AtLeastOneType ==
  ASSUME NEW n \in Nat
  PROVE  AtLeastOne(n) \in Nat \ {0} /\ AtLeastOne(n) >= n /\ (n > 0 => AtLeastOne(n) = n)
BY DEF AtLeastOne

\* AtMost computes a number within its cap.
LEMMA AtMostType ==
  ASSUME NEW n \in Nat, NEW cap \in Opt
  PROVE  /\ AtMost(n, cap) \in Nat
         /\ AtMost(n, cap) <= n
         /\ cap # None => cap \in Nat /\ AtMost(n, cap) <= cap
         /\ AtMost(n, cap) = n \/ (cap # None /\ AtMost(n, cap) = cap)
BY NoneAssumption DEF AtMost, Opt

\* Every exec the builders make is well formed (exec.rs from_inner).
LEMMA FromInnerOK ==
  ASSUME NEW inner,
         inner \in [page_size : Nat \ {0}, fetch : Opt, single_page : BOOLEAN,
                    partitions : Nat, columns : SUBSET ColumnKinds]
  PROVE  /\ PlanOK(FromInner(inner))
         /\ FromInner(inner).inner.page_size = inner.page_size
         /\ FromInner(inner).inner.fetch = inner.fetch
         /\ FromInner(inner).inner.single_page = inner.single_page
         /\ FromInner(inner).inner.columns = inner.columns
         /\ FromInner(inner).inner.partitions
              = IF inner.fetch # None \/ inner.single_page THEN 1 ELSE AtLeastOne(inner.partitions)
<1> DEFINE n == IF inner.fetch # None \/ inner.single_page
                  THEN 1 ELSE AtLeastOne(inner.partitions)
           i == [inner EXCEPT !.partitions = n]
<1>1. n \in Nat \ {0}
  BY AtLeastOneType
<1>2. i = [page_size |-> inner.page_size, fetch |-> inner.fetch,
           single_page |-> inner.single_page, partitions |-> n, columns |-> inner.columns]
  OBVIOUS
<1> HIDE DEF i
<1>3. FromInner(inner) = [inner |-> i, partitioning |-> n]
  BY DEF FromInner, i
<1>4. i \in Inner
  BY <1>1, <1>2 DEF Inner
<1>5. [inner |-> i, partitioning |-> n] \in Exec
  BY <1>1, <1>4 DEF Exec
<1> QED BY <1>1, <1>2, <1>3, <1>5 DEF PlanOK
-----------------------------------------------------------------------------
(* The builders, each a FromInner of one changed field.                    *)

\* with_page_size changes the page size and nothing else.
LEMMA WithPageSizeOK ==
  ASSUME NEW exec, PlanOK(exec), NEW n \in Nat
  PROVE  /\ PlanOK(WithPageSize(exec, n))
         /\ WithPageSize(exec, n).inner.page_size = AtLeastOne(n)
         /\ WithPageSize(exec, n).inner.fetch = exec.inner.fetch
         /\ WithPageSize(exec, n).inner.single_page = exec.inner.single_page
         /\ WithPageSize(exec, n).inner.columns = exec.inner.columns
<1>1. exec.inner \in Inner /\ AtLeastOne(exec.inner.partitions) = exec.inner.partitions
  BY DEF PlanOK, Exec, Inner, AtLeastOne
<1>2. [exec.inner EXCEPT !.page_size = AtLeastOne(n)]
        \in [page_size : Nat \ {0}, fetch : Opt, single_page : BOOLEAN,
             partitions : Nat, columns : SUBSET ColumnKinds]
  BY <1>1, AtLeastOneType DEF Inner
<1> QED BY <1>1, <1>2, FromInnerOK DEF WithPageSize, Inner

\* with_fetch_limit changes the fetch, and may bring the plan down to one stream.
LEMMA WithFetchLimitOK ==
  ASSUME NEW exec, PlanOK(exec), NEW cap \in Opt
  PROVE  /\ PlanOK(WithFetchLimit(exec, cap))
         /\ WithFetchLimit(exec, cap).inner.page_size = exec.inner.page_size
         /\ WithFetchLimit(exec, cap).inner.fetch = cap
         /\ WithFetchLimit(exec, cap).inner.single_page = exec.inner.single_page
         /\ WithFetchLimit(exec, cap).inner.columns = exec.inner.columns
         /\ WithFetchLimit(exec, cap).inner.partitions <= exec.inner.partitions
<1>1. exec.inner \in Inner /\ AtLeastOne(exec.inner.partitions) = exec.inner.partitions
  BY DEF PlanOK, Exec, Inner, AtLeastOne
<1>2. [exec.inner EXCEPT !.fetch = cap]
        \in [page_size : Nat \ {0}, fetch : Opt, single_page : BOOLEAN,
             partitions : Nat, columns : SUBSET ColumnKinds]
  BY <1>1 DEF Inner
<1> QED BY <1>1, <1>2, FromInnerOK DEF WithFetchLimit, Inner

\* with_single_page likewise.
LEMMA WithSinglePageOK ==
  ASSUME NEW exec, PlanOK(exec), NEW single \in BOOLEAN
  PROVE  /\ PlanOK(WithSinglePage(exec, single))
         /\ WithSinglePage(exec, single).inner.page_size = exec.inner.page_size
         /\ WithSinglePage(exec, single).inner.fetch = exec.inner.fetch
         /\ WithSinglePage(exec, single).inner.single_page = single
         /\ WithSinglePage(exec, single).inner.columns = exec.inner.columns
<1>1. exec.inner \in Inner /\ AtLeastOne(exec.inner.partitions) = exec.inner.partitions
  BY DEF PlanOK, Exec, Inner, AtLeastOne
<1>2. [exec.inner EXCEPT !.single_page = single]
        \in [page_size : Nat \ {0}, fetch : Opt, single_page : BOOLEAN,
             partitions : Nat, columns : SUBSET ColumnKinds]
  BY <1>1 DEF Inner
<1> QED BY <1>1, <1>2, FromInnerOK DEF WithSinglePage, Inner

\* with_partitions keeps a capped or single-page plan on one stream.
LEMMA WithPartitionsOK ==
  ASSUME NEW exec, PlanOK(exec), NEW n \in Nat
  PROVE  /\ PlanOK(WithPartitions(exec, n))
         /\ WithPartitions(exec, n).inner.page_size = exec.inner.page_size
         /\ WithPartitions(exec, n).inner.fetch = exec.inner.fetch
         /\ WithPartitions(exec, n).inner.single_page = exec.inner.single_page
         /\ WithPartitions(exec, n).inner.columns = exec.inner.columns
         /\ WithPartitions(exec, n).inner.partitions
              = IF exec.inner.fetch # None \/ exec.inner.single_page THEN 1 ELSE AtLeastOne(n)
<1>1. exec.inner \in Inner /\ AtLeastOne(exec.inner.partitions) = exec.inner.partitions
  BY DEF PlanOK, Exec, Inner, AtLeastOne
<1>2. [exec.inner EXCEPT !.partitions = AtLeastOne(n)]
        \in [page_size : Nat \ {0}, fetch : Opt, single_page : BOOLEAN,
             partitions : Nat, columns : SUBSET ColumnKinds]
  BY <1>1, AtLeastOneType DEF Inner
<1> QED BY <1>1, <1>2, FromInnerOK, AtLeastOneType DEF WithPartitions, Inner, AtLeastOne

\* The smaller of two optional caps is the least of what either stands for.
LEMMA MinOptLeast ==
  ASSUME NEW a \in Opt, NEW b \in Opt, NEW limits, limits \subseteq Opt,
         FetchIsLeast(a, limits)
  PROVE  MinOpt(a, b) \in Opt /\ FetchIsLeast(MinOpt(a, b), limits \cup {b})
BY NoneAssumption DEF Opt, MinOpt, FetchIsLeast

\* scan() turns the provider's settings into a well-formed plan whose fetch is
\* the least of LIMIT and max_rows (table.rs scan).
THEOREM ScanOK ==
  ASSUME NEW query \in Query
  PROVE  /\ PlanOK(Scan(query))
         /\ FetchIsLeast(Scan(query).inner.fetch, {query.limit, query.max_rows})
         /\ Scan(query).inner.page_size = AtLeastOne(query.page_size)
         /\ Scan(query).inner.single_page = query.search_after
         /\ Scan(query).inner.columns = query.columns
         /\ Scan(query).inner.partitions
              = IF Scan(query).inner.fetch # None \/ query.search_after
                  THEN 1 ELSE AtLeastOne(query.partitions)
<1> DEFINE table == Provider(query)
           fetch == ScanFetch(table.limit, table.max_rows)
           new   == NewExec(table.columns, DefaultPageSize)
           sized == WithPageSize(new, table.page_size)
           capped == WithFetchLimit(sized, fetch)
           single == WithSinglePage(capped, table.search_after)
<1>1. /\ table.limit = query.limit /\ table.max_rows = query.max_rows
      /\ table.columns = query.columns /\ table.search_after = query.search_after
      /\ table.page_size = AtLeastOne(query.page_size)
      /\ table.partitions = AtLeastOne(query.partitions)
  BY DEF Provider, Query
<1>2. /\ query.limit \in Opt /\ query.max_rows \in Opt /\ query.search_after \in BOOLEAN
      /\ table.page_size \in Nat \ {0} /\ table.partitions \in Nat \ {0}
      /\ AtLeastOne(table.page_size) = table.page_size
      /\ AtLeastOne(table.partitions) = table.partitions
  BY <1>1, AtLeastOneType DEF Query, AtLeastOne
<1>3. fetch \in Opt /\ FetchIsLeast(fetch, {query.limit, query.max_rows})
  <2>1. FetchIsLeast(query.limit, {query.limit})
    BY <1>2, NoneAssumption DEF FetchIsLeast, Opt
  <2>2. {query.limit} \subseteq Opt /\ {query.limit} \cup {query.max_rows} = {query.limit, query.max_rows}
    BY <1>2
  <2> QED BY <1>1, <1>2, <2>1, <2>2, MinOptLeast DEF ScanFetch
<1>4. PlanOK(new) /\ new.inner.columns = query.columns
  <2>1. /\ query.columns \subseteq ColumnKinds
        /\ DefaultPageSize \in Nat \ {0}
        /\ None \in Opt
    BY DEF Query, DefaultPageSize, Opt
  <2> QED BY <1>1, <2>1, FromInnerOK DEF NewExec
<1> HIDE DEF table, fetch, new
<1>5. PlanOK(sized) /\ sized.inner.page_size = table.page_size
      /\ sized.inner.columns = query.columns
  BY <1>2, <1>4, WithPageSizeOK
<1> HIDE DEF sized
<1>6. PlanOK(capped) /\ capped.inner.page_size = table.page_size
      /\ capped.inner.fetch = fetch /\ capped.inner.columns = query.columns
  BY <1>3, <1>5, WithFetchLimitOK
<1> HIDE DEF capped
<1>7. PlanOK(single) /\ single.inner.page_size = table.page_size
      /\ single.inner.fetch = fetch /\ single.inner.columns = query.columns
      /\ single.inner.single_page = query.search_after
  BY <1>1, <1>2, <1>6, WithSinglePageOK
<1> HIDE DEF single
<1>8. Scan(query) = WithPartitions(single, table.partitions)
  BY DEF Scan, single, capped, sized, new, fetch, table
<1> DEFINE plan == WithPartitions(single, table.partitions)
<1>9. /\ PlanOK(plan) /\ plan.inner.page_size = table.page_size
      /\ plan.inner.fetch = fetch /\ plan.inner.columns = query.columns
      /\ plan.inner.single_page = query.search_after
  BY <1>2, <1>7, WithPartitionsOK
<1>10. plan.inner.partitions = IF fetch # None \/ query.search_after
                                 THEN 1 ELSE table.partitions
  BY <1>2, <1>7, WithPartitionsOK
<1> HIDE DEF plan
<1>11. Scan(query) = plan
  BY <1>8 DEF plan
<1> QED BY <1>1, <1>3, <1>9, <1>10, <1>11, Zenon

\* A limit pushed into a finished plan narrows it to the least of all caps and
\* keeps everything else (exec.rs with_fetch).
THEOREM WithFetchOK ==
  ASSUME NEW exec, PlanOK(exec), NEW limits, limits \subseteq Opt,
         FetchIsLeast(exec.inner.fetch, limits), NEW l \in Opt
  PROVE  /\ PlanOK(WithFetch(exec, l))
         /\ FetchIsLeast(WithFetch(exec, l).inner.fetch, limits \cup {l})
         /\ WithFetch(exec, l).inner.page_size = exec.inner.page_size
         /\ WithFetch(exec, l).inner.single_page = exec.inner.single_page
         /\ WithFetch(exec, l).inner.columns = exec.inner.columns
         /\ WithFetch(exec, l).inner.partitions <= exec.inner.partitions
<1>1. exec.inner.fetch \in Opt
  BY DEF PlanOK, Exec, Inner
<1>2. CombinedFetch(exec.inner.fetch, l) \in Opt
      /\ FetchIsLeast(CombinedFetch(exec.inner.fetch, l), limits \cup {l})
  BY <1>1, MinOptLeast DEF CombinedFetch
<1> QED BY <1>2, WithFetchLimitOK DEF WithFetch
=============================================================================
