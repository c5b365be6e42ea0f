------------------------------- MODULE Catalog -------------------------------
(***************************************************************************)
(* OpenSearchSchemaProvider: one cluster as a DataFusion schema.  It lists *)
(* the indices when it connects and again on refresh(), and caches the     *)
(* table of an index from its first reference on (catalog.rs; client.rs    *)
(* indices and mapping; table.rs provider).                                *)
(*                                                                         *)
(* table() and refresh() run concurrently on the executor's threads.  The  *)
(* two locks are held for one access each, never across an await and never *)
(* together, so a step below is one lock access, one request or one reply. *)
(* The cluster (Create, Remap, Delete, Serve*, Lose) is external.          *)
(***************************************************************************)
EXTENDS Integers, FiniteSets

CONSTANTS
  Index,        \* index names
  System,       \* the ones starting with '.'
  TableCallers, \* tasks that call table()
  Refreshers,   \* tasks that call refresh(); a task may do both, in turn
  MaxEpoch,     \* how often the cluster's indices change
  Lossy,        \* whether a request may fail
  None

\* A mapping: when it was made and whether it has any field.  A new index may
\* have none, and schema_from_mapping then finds no schema.
Mapping == [made : Nat, fields : BOOLEAN]

\* A table is known by the mapping it was built from, which has fields.
Table == [made : Nat, fields : {TRUE}]

ASSUME CatalogAssumption ==
  /\ System \subseteq Index
  /\ MaxEpoch \in Nat
  /\ Lossy \in BOOLEAN
  /\ None \notin Index /\ None \notin Mapping

Caller == TableCallers \cup Refreshers

VARIABLES
  cluster,   \* cluster[i]: the mapping of index i, or None
  epoch,     \* changes made to the cluster so far
  names,     \* the provider's listing
  tables,    \* tables[i]: the mapping the cached table of i was built from, or None
  call,      \* call[c]: what caller c is at
  since,     \* since[i]: the epoch index i was last created or deleted at
  promised,  \* the epoch at which the refresh() that wrote the listing began
  gone,      \* gone[i]: no mapping made before this epoch can exist, as the
             \* listing of a completed refresh() showed
  overtaken  \* the cached tables a call put there that others had overtaken

clusterVars == <<cluster, epoch, since>>
cacheVars   == <<names, tables, overtaken>>
refreshVars == <<promised, gone>>
vars        == <<cluster, epoch, names, tables, call, since, promised, gone, overtaken>>

Steps == {"idle", "cache", "mapping", "insert",          \* table()
          "listing", "tables", "names"}                  \* refresh()

\* name: the argument of table(); began: the epoch the call began at; asked: its
\* request is unanswered; table, list: the reply's content; made: the epoch a
\* listing was made at; raced: the cache was written since it missed in it.
Call == [at : Steps, name : Index \cup {None}, began : Nat, asked : BOOLEAN,
         table : Mapping \cup {None}, list : SUBSET Index, made : Nat, raced : BOOLEAN]

Quiet == [at |-> "idle", name |-> None, began |-> 0, asked |-> FALSE,
          table |-> None, list |-> {}, made |-> 0, raced |-> FALSE]

Existing == {i \in Index : cluster[i] # None}

\* The calls of table() that have missed in the cache and not yet written to it.
Filling(c) == call[c].at \in {"mapping", "insert"}

\* What becomes of the other calls when c writes to the tables of is, and ends or
\* goes on at `at`.
After(c, at, is) ==
  [d \in Caller |->
     CASE d = c -> IF at = "idle" THEN Quiet ELSE [call[c] EXCEPT !.at = at]
       [] d # c /\ Filling(d) /\ call[d].name \in is -> [call[d] EXCEPT !.raced = TRUE]
       [] OTHER -> call[d]]
-----------------------------------------------------------------------------
(* Plausible mistakes; the runs refute them.                               *)

VisibleAll(list) == list

CachedNever(i) == None

RetainedAll(cached, list) == cached

MergedNames(old, list) == old \cup list
-----------------------------------------------------------------------------
\* OpenSearchClient::indices leaves the system indices out.
Visible(list) == list \ System

\* HashMap::get, retain and insert on the cache, and the assignment to names.
Cached(i) == tables[i]
Retained(cached, list) == [i \in Index |-> IF i \in list THEN cached[i] ELSE None]
Inserted(cached, i, table) == [cached EXCEPT ![i] = table]
Relisted(old, list) == list

\* connect(): the listing is made when the provider is.
Init ==
  /\ cluster \in [Index -> {None, [made |-> 0, fields |-> TRUE]}]
  /\ epoch = 0
  /\ names = Visible(Existing)
  /\ tables = [i \in Index |-> None]
  /\ call = [c \in Caller |-> Quiet]
  /\ since = [i \in Index |-> 0]
  /\ promised = 0
  /\ gone = [i \in Index |-> 0]
  /\ overtaken = {}
-----------------------------------------------------------------------------
(* table(name).                                                            *)

\* table_exist, the first lock access: an unlisted name is no table.
TableExist(c, i) ==
  /\ c \in TableCallers /\ call[c].at = "idle"
  /\ i \in names
  /\ call' = [call EXCEPT ![c] = [Quiet EXCEPT !.at = "cache", !.name = i]]
  /\ UNCHANGED <<clusterVars, cacheVars, refreshVars>>

\* The cached table is returned, or else the mapping is asked for.
LookUp(c) ==
  /\ call[c].at = "cache"
  /\ call' = [call EXCEPT ![c] = IF Cached(@.name) # None
                                   THEN Quiet
                                   ELSE [@ EXCEPT !.at = "mapping", !.asked = TRUE]]
  /\ UNCHANGED <<clusterVars, cacheVars, refreshVars>>

ServeMapping(c) ==
  /\ call[c].at = "mapping" /\ call[c].asked
  /\ call' = [call EXCEPT ![c].asked = FALSE, ![c].table = cluster[call[c].name]]
  /\ UNCHANGED <<clusterVars, cacheVars, refreshVars>>

\* A plausible mistake: wait for an index to get a mapping with fields.
BuildTableRetrying(c) ==
  /\ call[c].at = "mapping" /\ ~call[c].asked
  /\ call' = [call EXCEPT ![c] = IF @.table # None /\ @.table.fields
                                   THEN [@ EXCEPT !.at = "insert"]
                                   ELSE [@ EXCEPT !.asked = TRUE]]
  /\ UNCHANGED <<clusterVars, cacheVars, refreshVars>>

\* A plausible mistake: a mapping without fields makes a table too.
BuildTableUnchecked(c) ==
  /\ call[c].at = "mapping" /\ ~call[c].asked
  /\ call' = [call EXCEPT ![c] = IF @.table # None
                                   THEN [@ EXCEPT !.at = "insert"]
                                   ELSE Quiet]
  /\ UNCHANGED <<clusterVars, cacheVars, refreshVars>>

\* IndexNotFound (no mapping) and MalformedMapping (no fields) are returned and
\* leave the cache as it is.
BuildTable(c) ==
  /\ call[c].at = "mapping" /\ ~call[c].asked
  /\ call' = [call EXCEPT ![c] = IF @.table # None /\ @.table.fields
                                   THEN [@ EXCEPT !.at = "insert"]
                                   ELSE Quiet]
  /\ UNCHANGED <<clusterVars, cacheVars, refreshVars>>

\* The write lock: the table goes in without another look at names or cache.
Insert(c) ==
  /\ call[c].at = "insert"
  /\ tables' = Inserted(tables, call[c].name, call[c].table)
  /\ overtaken' = IF call[c].raced THEN overtaken \cup {call[c].name}
                                  ELSE overtaken \ {call[c].name}
  /\ call' = After(c, "idle", {call[c].name})
  /\ UNCHANGED <<clusterVars, names, refreshVars>>
-----------------------------------------------------------------------------
(* refresh().                                                              *)

Refresh(c) ==
  /\ c \in Refreshers /\ call[c].at = "idle"
  /\ call' = [call EXCEPT ![c] = [Quiet EXCEPT !.at = "listing", !.asked = TRUE,
                                               !.began = epoch]]
  /\ UNCHANGED <<clusterVars, cacheVars, refreshVars>>

ServeListing(c) ==
  /\ call[c].at = "listing" /\ call[c].asked
  /\ call' = [call EXCEPT ![c].at = "tables", ![c].asked = FALSE,
                          ![c].list = Visible(Existing), ![c].made = epoch]
  /\ UNCHANGED <<clusterVars, cacheVars, refreshVars>>

RetainTables(c) ==
  /\ call[c].at = "tables"
  /\ tables' = Retained(tables, call[c].list)
  /\ overtaken' = {i \in overtaken : tables'[i] # None}
  /\ call' = After(c, "names", Index \ call[c].list)
  /\ UNCHANGED <<clusterVars, names, refreshVars>>

ReplaceNames(c) ==
  /\ call[c].at = "names"
  /\ names' = Relisted(names, call[c].list)
  /\ promised' = call[c].began
  /\ gone' = [i \in Index |-> IF i \in call[c].list \/ gone[i] > call[c].made
                                THEN gone[i] ELSE call[c].made + 1]
  /\ call' = [call EXCEPT ![c] = Quiet]
  /\ UNCHANGED <<clusterVars, tables, overtaken>>

\* A request fails: table() or refresh() returns the error and changes nothing.
Lose(c) ==
  /\ Lossy /\ call[c].asked
  /\ call' = [call EXCEPT ![c] = Quiet]
  /\ UNCHANGED <<clusterVars, cacheVars, refreshVars>>
-----------------------------------------------------------------------------
(* The cluster (external).                                                 *)

Change(i, mapping) ==
  /\ epoch < MaxEpoch
  /\ epoch' = epoch + 1
  /\ cluster' = [cluster EXCEPT ![i] = mapping]
  /\ UNCHANGED <<cacheVars, call, refreshVars>>

Create(i) ==
  /\ cluster[i] = None
  /\ \E fields \in BOOLEAN : Change(i, [made |-> epoch + 1, fields |-> fields])
  /\ since' = [since EXCEPT ![i] = epoch + 1]

\* A field is added to the mapping.
Remap(i) ==
  /\ cluster[i] # None
  /\ Change(i, [made |-> epoch + 1, fields |-> TRUE])
  /\ UNCHANGED since

Delete(i) ==
  /\ cluster[i] # None
  /\ Change(i, None)
  /\ since' = [since EXCEPT ![i] = epoch + 1]
-----------------------------------------------------------------------------
Go(c)    == LookUp(c) \/ BuildTable(c) \/ Insert(c) \/ RetainTables(c) \/ ReplaceNames(c)
Serve(c) == ServeMapping(c) \/ ServeListing(c)

Next ==
  \/ \E c \in TableCallers, i \in Index : TableExist(c, i)
  \/ \E c \in Caller : Refresh(c) \/ Go(c) \/ Serve(c) \/ Lose(c)
  \/ \E i \in Index : Create(i) \/ Remap(i) \/ Delete(i)

\* A call once begun is polled on and the cluster answers; nobody has to call.
Fairness == \A c \in Caller : WF_vars(Go(c)) /\ WF_vars(Serve(c))

Spec     == Init /\ [][Next]_vars
FairSpec == Spec /\ Fairness
-----------------------------------------------------------------------------
(* Properties.                                                             *)

\* Every variable stays in its type; above all a cached table has a schema.
TypeOK ==
  /\ cluster \in [Index -> Mapping \cup {None}]
  /\ epoch \in Nat
  /\ names \subseteq Index
  /\ tables \in [Index -> Table \cup {None}]
  /\ call \in [Caller -> Call]
  /\ since \in [Index -> Nat]
  /\ promised \in Nat
  /\ gone \in [Index -> Nat]
  /\ overtaken \subseteq Index

\* What refresh() promises of the listing: an index created before the refresh
\* that wrote it began, and not deleted since, is listed unless it is a system
\* index; one deleted before it began, and not created since, is not.  Of two
\* refreshes at once the last to write counts, which may have begun first.
ListingIsCurrent ==
  \A i \in Index :
    since[i] <= promised => (i \in names <=> i \in Existing \ System)

\* What refresh() promises of the cache ("drop cached tables for indices that no
\* longer exist"): once a refresh that found an index gone has completed, no
\* table built from the mapping of the deleted index is cached, so none is
\* served when an index of the same name is created again.  The run
\* `catalog_race` refutes it.
DeletedIsForgotten ==
  \A i \in Index : tables[i] # None => tables[i].made >= gone[i]

\* It breaks only by a table() that missed in the cache, had the mapping, and was
\* overtaken by the refresh before it wrote (catalog.rs:73-81): every table that
\* was put there otherwise is forgotten, however the calls interleave.
DeletedIsForgottenUnlessOvertaken ==
  \A i \in Index \ overtaken : tables[i] # None => tables[i].made >= gone[i]

\* "Derived from its _mapping the first time it is referenced (and cached)": a
\* cached table is replaced by another one only by a call that missed in the cache
\* before the cached one was there; apart from that only a refresh drops it.
CachedOnce ==
  [][\A i \in Index : tables[i] # None =>
       \/ tables'[i] \in {tables[i], None}
       \/ \E c \in Caller : call[c].at = "insert" /\ call[c].name = i /\ call[c].raced]_vars

\* A call of table() or refresh() returns, whatever the cluster does meanwhile.
EveryCallReturns ==
  \A c \in Caller : call[c].at # "idle" ~> call[c].at = "idle"
-----------------------------------------------------------------------------
(* The inductive invariant of the proofs (CatalogProofs).                  *)

\* No mapping of i made before this one is ruled out by a refresh() that has
\* completed, or that has dropped its tables and will complete.
Fresh(i, mapping) ==
  /\ mapping.made >= gone[i]
  /\ \A c \in Caller : (call[c].at = "names" /\ i \notin call[c].list) => mapping.made > call[c].made

\* An index is as old as its mapping at least, and has not been found missing since.
ClusterInv ==
  \A i \in Index :
    /\ since[i] <= epoch
    /\ (cluster[i] # None => since[i] <= cluster[i].made)
    /\ i \notin System => /\ gone[i] <= epoch + 1
                          /\ (cluster[i] # None => gone[i] <= cluster[i].made)

\* A refresh() holds the listing of the epoch it was made at.
Refreshing(r) ==
  /\ (r.at = "listing" => r.began <= epoch)
  /\ r.at \in {"tables", "names"} =>
       /\ r.list \cap System = {}
       /\ r.began <= r.made /\ r.made <= epoch
       /\ \A i \in Index \ System : since[i] <= r.made => (i \in r.list <=> cluster[i] # None)

\* A table() asks for a listed index; unless it was overtaken, that index is not
\* cached and the mapping it holds is fresh.
Tabling(r) ==
  /\ (r.at \in {"cache", "mapping", "insert"} => r.name \in Index \ System)
  /\ (r.at = "cache" => r.table = None)
  /\ (r.at = "insert" => r.table \in Table)
  /\ (r.at \in {"mapping", "insert"} /\ ~r.raced) =>
       /\ tables[r.name] = None
       /\ (r.table # None => Fresh(r.name, r.table))

\* What is cached is fresh, unless the call that put it there was overtaken.
CacheInv ==
  \A i \in Index : tables[i] # None => /\ i \notin System
                                      /\ (i \notin overtaken => Fresh(i, tables[i]))

\* The inductive invariant, whole.
IInv ==
  /\ TypeOK
  /\ ClusterInv
  /\ \A c \in Caller : Refreshing(call[c]) /\ Tabling(call[c])
  /\ CacheInv
  /\ names \cap System = {}
  /\ promised <= epoch
  /\ ListingIsCurrent
=============================================================================
