---------------------------- MODULE CatalogProofs ----------------------------
(***************************************************************************)
(* Proofs about Catalog, for any indices, callers and changes of the       *)
(* cluster.  A step of a call that touches neither the cluster nor the     *)
(* cache is the lemma CallStep; the steps that write, and the cluster's,   *)
(* have a lemma each.                                                      *)
(***************************************************************************)
EXTENDS Catalog, TLAPS

USE CatalogAssumption DEF Caller

\* A cached table is known by the mapping it was made of.
LEMMA TableIsMapping == Table \subseteq Mapping
BY DEF Table, Mapping

\* A task that makes no call holds nothing.
LEMMA QuietOK ==
  /\ Quiet \in Call
  /\ Refreshing(Quiet) /\ Tabling(Quiet)
BY DEF Quiet, Call, Steps, Refreshing, Tabling

\* What was fresh still is, unless a refresh() that misses the index comes to the
\* point of writing its listing.
LEMMA FreshKept ==
  ASSUME NEW i \in Index, NEW mapping \in Mapping, Fresh(i, mapping), UNCHANGED gone,
         \A d \in Caller : call'[d].at = "names" /\ i \notin call'[d].list =>
           call[d].at = "names" /\ i \notin call[d].list /\ call'[d].made = call[d].made
  PROVE  Fresh(i, mapping)'
BY DEF Fresh

\* The calls after a step of c that writes to the tables of is.
LEMMA AfterOK ==
  ASSUME call \in [Caller -> Call], NEW c \in Caller, NEW at \in Steps, NEW is,
         call' = After(c, at, is)
  PROVE  /\ call' \in [Caller -> Call]
         /\ call'[c] = IF at = "idle" THEN Quiet ELSE [call[c] EXCEPT !.at = at]
         /\ \A d \in Caller : d # c =>
              /\ call'[d].at = call[d].at /\ call'[d].name = call[d].name
              /\ call'[d].began = call[d].began /\ call'[d].table = call[d].table
              /\ call'[d].list = call[d].list /\ call'[d].made = call[d].made
              /\ ~call'[d].raced =>
                   ~call[d].raced /\ ~(call[d].at \in {"mapping", "insert"} /\ call[d].name \in is)
<1> DEFINE r(d) == IF d = c THEN (IF at = "idle" THEN Quiet ELSE [call[c] EXCEPT !.at = at])
                   ELSE IF Filling(d) /\ call[d].name \in is
                          THEN [call[d] EXCEPT !.raced = TRUE] ELSE call[d]
<1>1. call' = [d \in Caller |-> r(d)]
  BY DEF After
<1>2. \A d \in Caller : r(d) \in Call
  BY QuietOK DEF Call
<1>3. call' \in [Caller -> Call]
  BY <1>1, <1>2
<1>4. ASSUME NEW d \in Caller, d # c
      PROVE  /\ call'[d].at = call[d].at /\ call'[d].name = call[d].name
             /\ call'[d].began = call[d].began /\ call'[d].table = call[d].table
             /\ call'[d].list = call[d].list /\ call'[d].made = call[d].made
             /\ ~call'[d].raced =>
                  ~call[d].raced /\ ~(call[d].at \in {"mapping", "insert"} /\ call[d].name \in is)
  <2>1. call'[d] = IF Filling(d) /\ call[d].name \in is
                     THEN [call[d] EXCEPT !.raced = TRUE] ELSE call[d]
    BY <1>1, <1>4
  <2>2. call[d] \in Call
    OBVIOUS
  <2> QED
    BY <2>1, <2>2 DEF Call, Filling
<1> QED
  BY <1>1, <1>3, <1>4

\* A step that writes neither the cache nor the listing, and keeps its own call in
\* order, keeps the invariant.
LEMMA CallStep ==
  ASSUME IInv, NEW c \in Caller, NEW new \in Call, new.at # "names",
         Refreshing(new), Tabling(new),
         call' = [call EXCEPT ![c] = new],
         UNCHANGED <<clusterVars, cacheVars, refreshVars>>
  PROVE  IInv'
<1> USE DEF clusterVars, cacheVars, refreshVars
<1>1. TypeOK /\ TypeOK'
  BY DEF IInv, TypeOK
<1>2. \A d \in Caller : call'[d] = IF d = c THEN new ELSE call[d]
  BY <1>1 DEF TypeOK
<1>3. ClusterInv' /\ (names \cap System = {})' /\ (promised <= epoch)' /\ ListingIsCurrent'
  BY DEF IInv, ClusterInv, ListingIsCurrent, Existing
<1>4. ASSUME NEW d \in Caller
      PROVE  (Refreshing(call[d]) /\ Tabling(call[d]))'
  <2>1. PICK r \in Call : Refreshing(r) /\ Tabling(r) /\ call'[d] = r
    BY <1>1, <1>2 DEF IInv, TypeOK
  <2>2. Refreshing(r)'
    BY <2>1 DEF Refreshing
  <2>3. /\ r.at \in {"mapping", "insert"} => r.name \in Index
        /\ r.table # None => r.table \in Mapping
    BY <2>1 DEF Call, Tabling
  <2>4. Tabling(r)'
    BY <1>2, <2>1, <2>3, FreshKept DEF Tabling
  <2> QED
    BY <2>1, <2>2, <2>4 DEF Refreshing, Tabling, Fresh
<1>5. CacheInv'
  <2> SUFFICES ASSUME NEW i \in Index, tables[i] # None
               PROVE  i \notin System /\ (i \notin overtaken => Fresh(i, tables[i])')
    BY DEF CacheInv
  <2>1. tables[i] \in Mapping
    BY <1>1 DEF TypeOK, Table, Mapping
  <2> QED
    BY <1>2, <2>1, FreshKept DEF IInv, CacheInv
<1> QED
  BY <1>1, <1>3, <1>4, <1>5 DEF IInv
-----------------------------------------------------------------------------
(* The steps of a call that write nothing.                                 *)

\* The start of a table() of a listed index.
LEMMA TableExistKeeps ==
  ASSUME IInv, NEW c \in Caller, NEW i \in Index, TableExist(c, i)
  PROVE  IInv'
<1> DEFINE new == [Quiet EXCEPT !.at = "cache", !.name = i]
<1>1. new \in Call /\ new.at = "cache" /\ new.name = i /\ new.table = None
  BY DEF Quiet, Call, Steps
<1>2. i \notin System
  BY DEF IInv, TableExist
<1>3. Refreshing(new) /\ Tabling(new)
  BY <1>1, <1>2 DEF Refreshing, Tabling
<1> HIDE DEF new
<1>4. call' = [call EXCEPT ![c] = new]
  BY DEF TableExist, new
<1> QED
  BY <1>1, <1>3, <1>4, CallStep DEF TableExist

\* table() looks into the cache.
LEMMA LookUpKeeps ==
  ASSUME IInv, NEW c \in Caller, LookUp(c)
  PROVE  IInv'
<1> DEFINE new == IF Cached(call[c].name) # None
                    THEN Quiet
                    ELSE [call[c] EXCEPT !.at = "mapping", !.asked = TRUE]
<1>1. call[c] \in Call /\ call[c].at = "cache" /\ Tabling(call[c])
  BY DEF IInv, TypeOK, LookUp
<1>2. call' = [call EXCEPT ![c] = new]
  BY DEF LookUp
<1>3. CASE Cached(call[c].name) # None
  BY <1>2, <1>3, QuietOK, CallStep DEF LookUp, Quiet
<1>4. CASE Cached(call[c].name) = None
  <2>1. /\ new \in Call /\ new.at = "mapping"
        /\ new.name = call[c].name /\ new.table = call[c].table
    BY <1>1, <1>4 DEF Call, Steps
  <2> HIDE DEF new
  <2>2. Refreshing(new)
    BY <2>1 DEF Refreshing
  <2>3. Tabling(new)
    BY <1>1, <1>4, <2>1 DEF Tabling, Cached
  <2> QED
    BY <1>2, <2>1, <2>2, <2>3, CallStep DEF LookUp
<1> QED
  BY <1>3, <1>4

\* The cluster's reply to _mapping.
LEMMA ServeMappingKeeps ==
  ASSUME IInv, NEW c \in Caller, ServeMapping(c)
  PROVE  IInv'
<1> DEFINE new == [call[c] EXCEPT !.asked = FALSE, !.table = cluster[call[c].name]]
<1>1. /\ call[c] \in Call /\ call[c].at = "mapping" /\ Tabling(call[c])
      /\ call[c].name \in Index \ System
  BY DEF IInv, TypeOK, ServeMapping, Tabling
<1>2. cluster[call[c].name] \in Mapping \cup {None}
  BY <1>1 DEF IInv, TypeOK
<1>3. /\ new \in Call /\ new.at = "mapping" /\ new.name = call[c].name
      /\ new.table = cluster[new.name] /\ new.raced = call[c].raced
  BY <1>1, <1>2 DEF Call
<1>4. call' = [call EXCEPT ![c] = new]
  BY DEF ServeMapping
<1> HIDE DEF new
<1>5. new.table # None => Fresh(new.name, new.table)
  <2> SUFFICES ASSUME new.table # None PROVE Fresh(new.name, new.table)
    OBVIOUS
  <2>1. new.table \in Mapping /\ cluster[new.name] # None
    BY <1>2, <1>3
  <2>2. /\ gone[new.name] <= cluster[new.name].made
        /\ since[new.name] <= cluster[new.name].made
    BY <1>1, <1>3, <2>1 DEF IInv, ClusterInv
  <2>3. ASSUME NEW d \in Caller, call[d].at = "names", new.name \notin call[d].list
        PROVE  new.table.made > call[d].made
    <3>1. ~(since[new.name] <= call[d].made)
      BY <1>1, <1>3, <2>1, <2>3 DEF IInv, Refreshing
    <3>2. call[d].made \in Nat /\ since[new.name] \in Nat /\ cluster[new.name].made \in Nat
      BY <1>1, <1>3, <2>1 DEF IInv, TypeOK, Call, Mapping
    <3> QED
      BY <1>3, <2>2, <3>1, <3>2
  <2>4. gone[new.name] \in Nat /\ cluster[new.name].made \in Nat
    BY <1>1, <1>3, <2>1 DEF IInv, TypeOK, Mapping
  <2> QED
    BY <1>3, <2>2, <2>3, <2>4 DEF Fresh
<1>6. Refreshing(new) /\ Tabling(new)
  BY <1>1, <1>3, <1>5 DEF Refreshing, Tabling
<1> QED
  BY <1>3, <1>4, <1>6, CallStep DEF ServeMapping

\* table() makes a table of the mapping it received.
LEMMA BuildTableKeeps ==
  ASSUME IInv, NEW c \in Caller, BuildTable(c)
  PROVE  IInv'
<1> DEFINE new == [call[c] EXCEPT !.at = "insert"]
<1>1. call[c] \in Call /\ call[c].at = "mapping" /\ Tabling(call[c])
  BY DEF IInv, TypeOK, BuildTable
<1>2. CASE call[c].table # None /\ call[c].table.fields
  <2>1. call' = [call EXCEPT ![c] = new]
    BY <1>2 DEF BuildTable
  <2>2. call[c].table \in Table
    BY <1>1, <1>2 DEF Call, Mapping, Table
  <2>3. /\ new \in Call /\ new.at = "insert" /\ new.name = call[c].name
        /\ new.table = call[c].table /\ new.raced = call[c].raced
    BY <1>1 DEF Call, Steps
  <2> HIDE DEF new
  <2>4. Refreshing(new) /\ Tabling(new)
    BY <1>1, <2>2, <2>3 DEF Refreshing, Tabling
  <2> QED
    BY <2>1, <2>3, <2>4, CallStep DEF BuildTable
<1>3. CASE ~(call[c].table # None /\ call[c].table.fields)
  <2>1. call' = [call EXCEPT ![c] = Quiet]
    BY <1>3 DEF BuildTable
  <2> QED
    BY <2>1, QuietOK, CallStep DEF BuildTable, Quiet
<1> QED
  BY <1>2, <1>3

\* The start of a refresh().
LEMMA RefreshKeeps ==
  ASSUME IInv, NEW c \in Caller, Refresh(c)
  PROVE  IInv'
<1> DEFINE new == [Quiet EXCEPT !.at = "listing", !.asked = TRUE, !.began = epoch]
<1>1. new \in Call /\ new.at = "listing" /\ new.began = epoch
  BY DEF Quiet, Call, Steps, IInv, TypeOK
<1>2. call' = [call EXCEPT ![c] = new]
  BY DEF Refresh
<1> HIDE DEF new
<1>3. Refreshing(new) /\ Tabling(new)
  BY <1>1 DEF Refreshing, Tabling, IInv, TypeOK
<1> QED
  BY <1>1, <1>2, <1>3, CallStep DEF Refresh

\* The cluster's reply to _cat/indices.
LEMMA ServeListingKeeps ==
  ASSUME IInv, NEW c \in Caller, ServeListing(c)
  PROVE  IInv'
<1> DEFINE new == [call[c] EXCEPT !.at = "tables", !.asked = FALSE,
                                  !.list = Visible(Existing), !.made = epoch]
<1>1. call[c] \in Call /\ call[c].at = "listing" /\ Refreshing(call[c]) /\ epoch \in Nat
  BY DEF IInv, TypeOK, ServeListing
<1>2. Visible(Existing) = {i \in Index : cluster[i] # None} \ System
  BY DEF Visible, Existing
<1>3. /\ new \in Call /\ new.at = "tables" /\ new.list = Visible(Existing)
      /\ new.made = epoch /\ new.began = call[c].began
  BY <1>1, <1>2 DEF Call, Steps
<1>4. call' = [call EXCEPT ![c] = new]
  BY DEF ServeListing
<1> HIDE DEF new
<1>5. Refreshing(new) /\ Tabling(new)
  BY <1>1, <1>2, <1>3 DEF Refreshing, Tabling
<1> QED
  BY <1>3, <1>4, <1>5, CallStep DEF ServeListing

\* A request that fails ends its call.
LEMMA LoseKeeps ==
  ASSUME IInv, NEW c \in Caller, Lose(c)
  PROVE  IInv'
BY QuietOK, CallStep DEF Lose, Quiet
-----------------------------------------------------------------------------
(* The steps of a call that write.                                         *)

\* table()'s insert, under the cache's lock.
LEMMA InsertKeeps ==
  ASSUME IInv, NEW c \in Caller, Insert(c)
  PROVE  IInv'
<1> DEFINE i == call[c].name
           m == call[c].table
<1>1. /\ call[c] \in Call /\ call[c].at = "insert" /\ Tabling(call[c])
      /\ i \in Index \ System /\ m \in Table /\ m \in Mapping
  BY DEF IInv, TypeOK, Insert, Tabling, Table, Mapping
<1>2. PICK j \in Index \ System, t \in Table :
        /\ j = i /\ t = m /\ t \in Mapping
        /\ ~call[c].raced => Fresh(j, t)
  <2>1. ~call[c].raced => Fresh(i, m)
    BY <1>1 DEF Tabling
  <2> QED
    BY <1>1, <2>1
<1>3. /\ tables' = [tables EXCEPT ![j] = t]
      /\ overtaken' = IF call[c].raced THEN overtaken \cup {j} ELSE overtaken \ {j}
      /\ call' = After(c, "idle", {j})
      /\ UNCHANGED <<cluster, epoch, since, names, promised, gone>>
  BY <1>2 DEF Insert, Inserted, clusterVars, refreshVars
<1> HIDE DEF i, m
<1>4. /\ call' \in [Caller -> Call]
      /\ call'[c] = Quiet
      /\ \A d \in Caller : d # c =>
           /\ call'[d].at = call[d].at /\ call'[d].name = call[d].name
           /\ call'[d].began = call[d].began /\ call'[d].table = call[d].table
           /\ call'[d].list = call[d].list /\ call'[d].made = call[d].made
           /\ ~call'[d].raced =>
                ~call[d].raced /\ ~(call[d].at \in {"mapping", "insert"} /\ call[d].name \in {j})
  <2>1. call \in [Caller -> Call] /\ "idle" \in Steps
    BY DEF IInv, TypeOK, Steps
  <2> QED
    BY <1>3, <2>1, AfterOK
<1>5. TypeOK'
  BY <1>3, <1>4 DEF IInv, TypeOK
<1>6. ClusterInv' /\ (names \cap System = {})' /\ (promised <= epoch)' /\ ListingIsCurrent'
  BY <1>3 DEF IInv, ClusterInv, ListingIsCurrent, Existing
<1>7. \A d \in Caller : call[d] \in Call
  BY DEF IInv, TypeOK
<1>8. ASSUME NEW k \in Index, NEW mapping \in Mapping, Fresh(k, mapping)
      PROVE  Fresh(k, mapping)'
  <2>1. ASSUME NEW d \in Caller, call'[d].at = "names"
        PROVE  call[d].at = "names" /\ call'[d].list = call[d].list /\ call'[d].made = call[d].made
    <3>1. d # c
      BY <1>4, <2>1 DEF Quiet
    <3> QED
      BY <1>4, <2>1, <3>1
  <2> QED
    BY <1>3, <1>8, <2>1, FreshKept
<1>9. ASSUME NEW d \in Caller
      PROVE  (Refreshing(call[d]) /\ Tabling(call[d]))'
  <2>1. CASE d = c
    BY <1>4, <2>1 DEF Refreshing, Tabling, Quiet
  <2>2. CASE d # c
    <3>1. PICK r \in Call : r = call[d] /\ Refreshing(r) /\ Tabling(r)
      BY <1>7 DEF IInv
    <3>2. /\ call'[d].at = r.at /\ call'[d].name = r.name /\ call'[d].began = r.began
          /\ call'[d].table = r.table /\ call'[d].list = r.list /\ call'[d].made = r.made
          /\ ~call'[d].raced => ~r.raced /\ ~(r.at \in {"mapping", "insert"} /\ r.name = j)
      BY <1>4, <2>2, <3>1
    <3>3. Refreshing(call[d])'
      BY <1>3, <3>1, <3>2 DEF Refreshing
    <3>4. ASSUME r.at \in {"mapping", "insert"}, ~call'[d].raced
          PROVE  /\ tables'[r.name] = None
                 /\ r.table # None => Fresh(r.name, r.table)'
      <4>1. r.name \in Index /\ r.name # j /\ tables[r.name] = None
        BY <3>1, <3>2, <3>4 DEF Tabling
      <4>2. r.table # None => r.table \in Mapping /\ Fresh(r.name, r.table)
        BY <3>1, <3>2, <3>4 DEF Tabling, Call
      <4> QED
        BY <1>3, <1>8, <4>1, <4>2 DEF IInv, TypeOK
    <3>5. Tabling(call[d])'
      BY <3>1, <3>2, <3>4 DEF Tabling, Fresh
    <3> QED
      BY <3>3, <3>5
  <2> QED
    BY <2>1, <2>2
<1>10. CacheInv'
  <2> SUFFICES ASSUME NEW k \in Index, tables'[k] # None
               PROVE  k \notin System /\ (k \notin overtaken' => Fresh(k, tables[k])')
    BY DEF CacheInv
  <2>1. CASE k = j
    <3>1. tables'[k] = t /\ (k \notin overtaken' => Fresh(j, t)')
      BY <1>2, <1>3, <1>8, <2>1 DEF IInv, TypeOK
    <3> QED
      BY <2>1, <3>1 DEF Fresh
  <2>2. CASE k # j
    <3>1. PICK u \in Mapping : u = tables[k] /\ u = tables'[k]
      BY <1>3, <2>2 DEF IInv, TypeOK, Table, Mapping
    <3>2. k \notin System /\ (k \notin overtaken' => Fresh(k, u))
      BY <1>3, <2>2, <3>1 DEF IInv, CacheInv
    <3> QED
      BY <1>8, <3>1, <3>2 DEF Fresh
  <2> QED
    BY <2>1, <2>2
<1> QED
  BY <1>5, <1>6, <1>9, <1>10 DEF IInv

\* refresh() drops the tables that its listing has not.
LEMMA RetainTablesKeeps ==
  ASSUME IInv, NEW c \in Caller, RetainTables(c)
  PROVE  IInv'
<1>1. PICK l \in SUBSET Index : l = call[c].list
  BY DEF IInv, TypeOK, Call
<1>2. /\ tables' = [i \in Index |-> IF i \in l THEN tables[i] ELSE None]
      /\ overtaken' = {i \in overtaken : tables'[i] # None}
      /\ call' = After(c, "names", Index \ l)
      /\ UNCHANGED <<cluster, epoch, since, names, promised, gone>>
      /\ call[c].at = "tables"
  BY <1>1 DEF RetainTables, Retained, clusterVars, refreshVars
<1>3. /\ call' \in [Caller -> Call]
      /\ call'[c] = [call[c] EXCEPT !.at = "names"]
      /\ \A d \in Caller : d # c =>
           /\ call'[d].at = call[d].at /\ call'[d].name = call[d].name
           /\ call'[d].began = call[d].began /\ call'[d].table = call[d].table
           /\ call'[d].list = call[d].list /\ call'[d].made = call[d].made
           /\ ~call'[d].raced =>
                ~call[d].raced /\ ~(call[d].at \in {"mapping", "insert"} /\ call[d].name \in Index \ l)
  <2>1. call \in [Caller -> Call] /\ "names" \in Steps /\ "names" # "idle"
    BY DEF IInv, TypeOK, Steps
  <2>2. PICK is : is = Index \ l
    OBVIOUS
  <2>3. call' = After(c, "names", is)
    BY <1>2, <2>2
  <2>4. /\ call' \in [Caller -> Call]
        /\ call'[c] = IF "names" = "idle" THEN Quiet ELSE [call[c] EXCEPT !.at = "names"]
    BY <2>1, <2>3, AfterOK
  <2>5. ASSUME NEW d \in Caller, d # c
        PROVE  /\ call'[d].at = call[d].at /\ call'[d].name = call[d].name
               /\ call'[d].began = call[d].began /\ call'[d].table = call[d].table
               /\ call'[d].list = call[d].list /\ call'[d].made = call[d].made
               /\ ~call'[d].raced =>
                    ~call[d].raced /\ ~(call[d].at \in {"mapping", "insert"} /\ call[d].name \in is)
    BY <2>1, <2>3, <2>5, AfterOK
  <2> QED
    BY <2>2, <2>4, <2>5
<1>4. TypeOK'
  BY <1>2, <1>3 DEF IInv, TypeOK
<1>5. ClusterInv' /\ (names \cap System = {})' /\ (promised <= epoch)' /\ ListingIsCurrent'
  BY <1>2 DEF IInv, ClusterInv, ListingIsCurrent, Existing
<1>6. \A d \in Caller : call[d] \in Call
  BY DEF IInv, TypeOK
<1>7. ASSUME NEW k \in Index, k \in l, NEW mapping \in Mapping, Fresh(k, mapping)
      PROVE  Fresh(k, mapping)'
  <2>1. ASSUME NEW d \in Caller, call'[d].at = "names", k \notin call'[d].list
        PROVE  call[d].at = "names" /\ k \notin call[d].list /\ call'[d].made = call[d].made
    <3>1. d # c
      BY <1>1, <1>3, <1>6, <1>7, <2>1 DEF Call
    <3> QED
      BY <1>3, <2>1, <3>1
  <2> QED
    BY <1>2, <1>7, <2>1, FreshKept
<1>8. ASSUME NEW d \in Caller
      PROVE  (Refreshing(call[d]) /\ Tabling(call[d]))'
  <2>1. PICK r \in Call : r = call[d] /\ Refreshing(r) /\ Tabling(r)
    BY <1>6 DEF IInv
  <2>2. CASE d = c
    <3>1. /\ call'[d].at = "names" /\ call'[d].began = r.began
          /\ call'[d].list = r.list /\ call'[d].made = r.made /\ r.at = "tables"
      BY <1>2, <1>3, <2>1, <2>2 DEF Call
    <3> QED
      BY <1>2, <2>1, <3>1 DEF Refreshing, Tabling
  <2>3. CASE d # c
    <3>1. /\ call'[d].at = r.at /\ call'[d].name = r.name /\ call'[d].began = r.began
          /\ call'[d].table = r.table /\ call'[d].list = r.list /\ call'[d].made = r.made
          /\ ~call'[d].raced => ~r.raced /\ ~(r.at \in {"mapping", "insert"} /\ r.name \in Index \ l)
      BY <1>3, <2>1, <2>3
    <3>2. Refreshing(call[d])'
      BY <1>2, <2>1, <3>1 DEF Refreshing
    <3>3. ASSUME r.at \in {"mapping", "insert"}, ~call'[d].raced
          PROVE  /\ tables'[r.name] = None
                 /\ r.table # None => Fresh(r.name, r.table)'
      <4>1. r.name \in Index /\ r.name \in l /\ tables[r.name] = None
        BY <2>1, <3>1, <3>3 DEF Tabling
      <4>2. r.table # None => r.table \in Mapping /\ Fresh(r.name, r.table)
        BY <2>1, <3>1, <3>3 DEF Tabling, Call
      <4> QED
        BY <1>2, <1>7, <4>1, <4>2 DEF IInv, TypeOK
    <3>4. Tabling(call[d])'
      BY <2>1, <3>1, <3>3 DEF Tabling, Fresh
    <3> QED
      BY <3>2, <3>4
  <2> QED
    BY <2>2, <2>3
<1>9. CacheInv'
  <2> SUFFICES ASSUME NEW k \in Index, tables'[k] # None
               PROVE  k \notin System /\ (k \notin overtaken' => Fresh(k, tables[k])')
    BY DEF CacheInv
  <2>1. k \in l /\ tables'[k] = tables[k] /\ tables[k] \in Table \cup {None}
    BY <1>2 DEF IInv, TypeOK
  <2>2. PICK u \in Mapping : u = tables[k] /\ u = tables'[k] /\ k \in l
    BY <2>1, TableIsMapping
  <2>3. k \notin System /\ (k \notin overtaken' => Fresh(k, u))
    BY <1>2, <2>2 DEF IInv, CacheInv
  <2> QED
    BY <1>7, <2>2, <2>3 DEF Fresh
<1> QED
  BY <1>4, <1>5, <1>8, <1>9 DEF IInv

\* refresh() writes its listing, which makes its promise.
LEMMA ReplaceNamesKeeps ==
  ASSUME IInv, NEW c \in Caller, ReplaceNames(c)
  PROVE  IInv'
<1>1. PICK q \in Call : q = call[c] /\ q.at = "names" /\ Refreshing(q)
  BY DEF IInv, TypeOK, ReplaceNames
<1>2. /\ q.list \in SUBSET Index /\ q.list \cap System = {}
      /\ q.began \in Nat /\ q.made \in Nat /\ q.began <= q.made /\ q.made <= epoch
      /\ \A i \in Index \ System : since[i] <= q.made => (i \in q.list <=> cluster[i] # None)
  BY <1>1 DEF Call, Refreshing
<1>3. /\ names' = q.list /\ promised' = q.began
      /\ gone' = [i \in Index |-> IF i \in q.list \/ gone[i] > q.made THEN gone[i] ELSE q.made + 1]
      /\ call' = [call EXCEPT ![c] = Quiet]
      /\ UNCHANGED <<cluster, epoch, since, tables, overtaken>>
  BY <1>1 DEF ReplaceNames, Relisted, clusterVars
<1>4. TypeOK /\ TypeOK'
  BY <1>2, <1>3, QuietOK DEF IInv, TypeOK
<1>5. \A d \in Caller : call'[d] = IF d = c THEN Quiet ELSE call[d]
  BY <1>3, <1>4 DEF TypeOK
<1>6. ClusterInv'
  <2> SUFFICES ASSUME NEW i \in Index
               PROVE  /\ since[i] <= epoch
                      /\ (cluster[i] # None => since[i] <= cluster[i].made)
                      /\ i \notin System => /\ gone'[i] <= epoch + 1
                                            /\ (cluster[i] # None => gone'[i] <= cluster[i].made)
    BY <1>3 DEF ClusterInv
  <2>1. /\ since[i] \in Nat /\ gone[i] \in Nat /\ epoch \in Nat
        /\ cluster[i] # None => cluster[i].made \in Nat
    BY <1>4 DEF TypeOK, Mapping
  <2> QED
    BY <1>2, <1>3, <2>1 DEF IInv, ClusterInv
<1>7. (names \cap System = {})' /\ (promised <= epoch)'
  BY <1>2, <1>3, <1>4 DEF TypeOK
<1>8. ListingIsCurrent'
  <2> SUFFICES ASSUME NEW i \in Index, since[i] <= q.began
               PROVE  i \in q.list <=> cluster[i] # None /\ i \notin System
    BY <1>3 DEF ListingIsCurrent, Existing
  <2>1. since[i] <= q.made
    BY <1>2, <1>4 DEF TypeOK
  <2> QED
    BY <1>2, <2>1
<1>9. ASSUME NEW k \in Index, NEW mapping \in Mapping, Fresh(k, mapping)
      PROVE  Fresh(k, mapping)'
  <2>1. mapping.made \in Nat /\ gone[k] \in Nat
    BY <1>4 DEF Mapping, TypeOK
  <2>2. mapping.made >= gone[k] /\ (k \notin q.list => mapping.made > q.made)
    BY <1>1, <1>9 DEF Fresh
  <2>3. mapping.made >= gone'[k]
    BY <1>2, <1>3, <2>1, <2>2
  <2> QED
    BY <1>5, <1>9, <2>3 DEF Fresh, Quiet
<1>10. ASSUME NEW d \in Caller
       PROVE  (Refreshing(call[d]) /\ Tabling(call[d]))'
  <2>1. PICK r \in Call : Refreshing(r) /\ Tabling(r) /\ call'[d] = r
    BY <1>4, <1>5, QuietOK DEF IInv, TypeOK
  <2>2. Refreshing(r)'
    BY <1>3, <2>1 DEF Refreshing
  <2>3. /\ r.at \in {"mapping", "insert"} => r.name \in Index
        /\ r.table # None => r.table \in Mapping
    BY <2>1 DEF Call, Tabling
  <2>4. Tabling(r)'
    BY <1>3, <1>9, <2>1, <2>3 DEF Tabling
  <2> QED
    BY <2>1, <2>2, <2>4 DEF Refreshing, Tabling, Fresh
<1>11. CacheInv'
  <2> SUFFICES ASSUME NEW i \in Index, tables[i] # None
               PROVE  i \notin System /\ (i \notin overtaken => Fresh(i, tables[i])')
    BY <1>3 DEF CacheInv
  <2>1. tables[i] \in Mapping
    BY <1>4 DEF TypeOK, Table, Mapping
  <2> QED
    BY <1>3, <1>9, <2>1 DEF IInv, CacheInv
<1> QED
  BY <1>4, <1>6, <1>7, <1>8, <1>10, <1>11 DEF IInv
-----------------------------------------------------------------------------
(* The cluster's steps.                                                    *)

\* A change of one index at a new epoch keeps what the calls hold.
LEMMA ClusterStep ==
  ASSUME IInv, NEW i \in Index, NEW mapping \in Mapping \cup {None},
         mapping # None => mapping.made = epoch + 1,
         Change(i, mapping),
         \/ since' = [since EXCEPT ![i] = epoch + 1]
         \/ since' = since /\ cluster[i] # None /\ mapping # None
  PROVE  IInv'
<1>1. /\ epoch' = epoch + 1
      /\ cluster' = [cluster EXCEPT ![i] = mapping]
      /\ UNCHANGED <<names, tables, overtaken, call, promised, gone>>
  BY DEF Change, cacheVars, refreshVars
<1>2. TypeOK /\ TypeOK'
  BY <1>1 DEF IInv, TypeOK
<1>3. /\ epoch \in Nat /\ promised \in Nat
      /\ \A j \in Index : /\ since[j] \in Nat /\ since'[j] \in Nat /\ gone[j] \in Nat
                          /\ cluster[j] # None => cluster[j].made \in Nat
  BY <1>2 DEF TypeOK, Mapping
<1>4. \A j \in Index : IF j = i THEN cluster'[j] = mapping
                                  ELSE cluster'[j] = cluster[j] /\ since'[j] = since[j]
  BY <1>1, <1>2 DEF TypeOK
<1>5. \/ since'[i] = epoch + 1
      \/ since'[i] = since[i] /\ cluster[i] # None /\ mapping # None
  BY <1>2 DEF TypeOK
<1>6. ClusterInv'
  <2> SUFFICES ASSUME NEW j \in Index
               PROVE  /\ since'[j] <= epoch'
                      /\ (cluster'[j] # None => since'[j] <= cluster'[j].made)
                      /\ j \notin System => /\ gone[j] <= epoch' + 1
                                            /\ (cluster'[j] # None => gone[j] <= cluster'[j].made)
    BY <1>1 DEF ClusterInv
  <2> QED
    BY <1>1, <1>3, <1>4, <1>5 DEF IInv, ClusterInv
<1>7. ASSUME NEW d \in Caller
      PROVE  (Refreshing(call[d]) /\ Tabling(call[d]))'
  <2>1. PICK r \in Call : r = call[d] /\ r = call'[d] /\ Refreshing(r) /\ Tabling(r)
    BY <1>1, <1>2 DEF IInv, TypeOK
  <2>2. r.began \in Nat /\ r.made \in Nat
    BY <2>1 DEF Call
  <2>3. r.at = "listing" => r.began <= epoch'
    BY <1>1, <1>3, <2>1, <2>2 DEF Refreshing
  <2>4. ASSUME r.at \in {"tables", "names"}
        PROVE  /\ r.list \cap System = {}
               /\ r.began <= r.made /\ r.made <= epoch'
               /\ \A j \in Index \ System : since'[j] <= r.made => (j \in r.list <=> cluster'[j] # None)
    BY <1>1, <1>3, <1>4, <1>5, <2>1, <2>2, <2>4 DEF Refreshing
  <2> QED
    BY <1>1, <2>1, <2>3, <2>4 DEF Refreshing, Tabling, Fresh
<1>8. CacheInv'
  BY <1>1 DEF IInv, CacheInv, Fresh
<1>9. (names \cap System = {})' /\ (promised <= epoch)'
  BY <1>1, <1>3 DEF IInv
<1>10. ListingIsCurrent'
  <2> SUFFICES ASSUME NEW j \in Index, since'[j] <= promised
               PROVE  j \in names <=> cluster'[j] # None /\ j \notin System
    BY <1>1 DEF ListingIsCurrent, Existing
  <2>1. since[j] <= promised /\ (cluster'[j] # None <=> cluster[j] # None)
    BY <1>3, <1>4, <1>5 DEF IInv
  <2> QED
    BY <2>1 DEF IInv, ListingIsCurrent, Existing
<1> QED
  BY <1>2, <1>6, <1>7, <1>8, <1>9, <1>10 DEF IInv

\* An index is created, deleted or mapped anew.
LEMMA ClusterKeeps ==
  ASSUME IInv, NEW i \in Index, Create(i) \/ Remap(i) \/ Delete(i)
  PROVE  IInv'
<1>1. epoch \in Nat
  BY DEF IInv, TypeOK
<1>2. CASE Create(i)
  <2>1. PICK fields \in BOOLEAN : Change(i, [made |-> epoch + 1, fields |-> fields])
    BY <1>2 DEF Create
  <2>2. [made |-> epoch + 1, fields |-> fields] \in Mapping
    BY <1>1 DEF Mapping
  <2> QED
    BY <1>2, <2>1, <2>2, ClusterStep DEF Create
<1>3. CASE Remap(i)
  <2>1. [made |-> epoch + 1, fields |-> TRUE] \in Mapping
    BY <1>1 DEF Mapping
  <2> QED
    BY <1>3, <2>1, ClusterStep DEF Remap
<1>4. CASE Delete(i)
  BY <1>4, ClusterStep DEF Delete
<1> QED
  BY <1>2, <1>3, <1>4
-----------------------------------------------------------------------------
(* The theorems.                                                           *)

\* The invariant holds at first.
LEMMA InitInv == Init => IInv
<1> SUFFICES ASSUME Init PROVE IInv
  OBVIOUS
<1>1. \A i \in Index : cluster[i] \in Mapping \cup {None} /\ (cluster[i] # None => cluster[i].made = 0)
  <2>1. [made |-> 0, fields |-> TRUE] \in Mapping
    BY DEF Mapping
  <2>2. [made |-> 0, fields |-> TRUE].made = 0
    OBVIOUS
  <2>3. ASSUME NEW i \in Index
        PROVE  cluster[i] = None \/ cluster[i] = [made |-> 0, fields |-> TRUE]
    BY DEF Init
  <2> QED
    BY <2>1, <2>2, <2>3
<1>2. names = {i \in Index : cluster[i] # None} \ System
  BY DEF Init, Visible, Existing
<1>3. TypeOK
  BY <1>1, <1>2, QuietOK DEF Init, TypeOK
<1>4. ClusterInv /\ CacheInv /\ promised <= epoch /\ names \cap System = {}
  BY <1>1, <1>2 DEF Init, ClusterInv, CacheInv
<1>5. \A c \in Caller : Refreshing(call[c]) /\ Tabling(call[c])
  BY QuietOK DEF Init
<1>6. ListingIsCurrent
  BY <1>2 DEF ListingIsCurrent, Existing
<1> QED
  BY <1>3, <1>4, <1>5, <1>6 DEF IInv

\* Every step keeps the invariant.
LEMMA NextInv == IInv /\ [Next]_vars => IInv'
<1> SUFFICES ASSUME IInv, [Next]_vars PROVE IInv'
  OBVIOUS
<1>1. CASE \E c \in TableCallers, i \in Index : TableExist(c, i)
  BY <1>1, TableExistKeeps
<1>2. CASE \E c \in Caller : Refresh(c) \/ Go(c) \/ Serve(c) \/ Lose(c)
  <2>1. PICK c \in Caller : Refresh(c) \/ Go(c) \/ Serve(c) \/ Lose(c)
    BY <1>2
  <2> QED
    BY <2>1, RefreshKeeps, LookUpKeeps, BuildTableKeeps, InsertKeeps, RetainTablesKeeps,
       ReplaceNamesKeeps, ServeMappingKeeps, ServeListingKeeps, LoseKeeps DEF Go, Serve
<1>3. CASE \E i \in Index : Create(i) \/ Remap(i) \/ Delete(i)
  BY <1>3, ClusterKeeps
<1>4. CASE UNCHANGED vars
  BY <1>4 DEF vars, IInv, TypeOK, ClusterInv, Refreshing, Tabling, CacheInv, Fresh,
              ListingIsCurrent, Existing
<1> QED
  BY <1>1, <1>2, <1>3, <1>4 DEF Next

\* The inductive invariant: whatever two or more tasks do with listing and cache,
\* and the cluster with its indices, what the calls hold agrees with both.
THEOREM Invariant == Spec => []IInv
BY InitInv, NextInv, PTL DEF Spec

\* Type correctness; above all, a cached table has a schema.
THEOREM TypeCorrect == Spec => []TypeOK
<1>1. IInv => TypeOK
  BY DEF IInv
<1> QED
  BY <1>1, Invariant, PTL

\* The listing is as current as the refresh() that wrote it, or connect().
THEOREM ListsCurrent == Spec => []ListingIsCurrent
<1>1. IInv => ListingIsCurrent
  BY DEF IInv
<1> QED
  BY <1>1, Invariant, PTL

\* The table of an index a completed refresh() found gone is only cached if the
\* call that put it there had been overtaken: the race of catalog.rs:81 is the
\* only way.
THEOREM ForgetsDeleted == Spec => []DeletedIsForgottenUnlessOvertaken
<1>1. IInv => DeletedIsForgottenUnlessOvertaken
  BY DEF IInv, CacheInv, Fresh, DeletedIsForgottenUnlessOvertaken
<1> QED
  BY <1>1, Invariant, PTL

\* A cached table is replaced by another one only by a call that was overtaken.
THEOREM CachesOnce == Spec => CachedOnce
<1>1. IInv /\ [Next]_vars =>
        [\A i \in Index : tables[i] # None =>
           \/ tables'[i] \in {tables[i], None}
           \/ \E c \in Caller : call[c].at = "insert" /\ call[c].name = i /\ call[c].raced]_vars
  <2> SUFFICES ASSUME IInv, Next, NEW i \in Index, tables[i] # None, tables'[i] # tables[i]
               PROVE  \/ tables'[i] = None
                      \/ \E c \in Caller : call[c].at = "insert" /\ call[c].name = i /\ call[c].raced
    OBVIOUS
  <2>1. CASE \E c \in Caller : Insert(c)
    <3>1. PICK c \in Caller : Insert(c)
      BY <2>1
    <3>2. Tabling(call[c]) /\ call[c].at = "insert" /\ call[c].raced \in BOOLEAN
      BY <3>1 DEF IInv, TypeOK, Call, Insert
    <3>3. call[c].name = i
      BY <3>1 DEF Insert, Inserted, IInv, TypeOK
    <3>4. call[c].raced
      BY <3>2, <3>3 DEF Tabling
    <3> QED
      BY <3>2, <3>3, <3>4
  <2>2. CASE \E c \in Caller : RetainTables(c)
    BY <2>2 DEF RetainTables, Retained
  <2>3. CASE ~(\E c \in Caller : Insert(c) \/ RetainTables(c))
    <3>1. UNCHANGED tables
      BY <2>3 DEF Next, Go, Serve, TableExist, Refresh, LookUp, BuildTable, ReplaceNames,
                  ServeMapping, ServeListing, Lose, Create, Remap, Delete, Change, cacheVars
    <3> QED
      BY <3>1
  <2> QED
    BY <2>1, <2>2, <2>3
<1> QED
  BY <1>1, Invariant, PTL DEF Spec, CachedOnce
=============================================================================
