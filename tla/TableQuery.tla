----------------------------- MODULE TableQuery -----------------------------
(***************************************************************************)
(* A table from its CREATE EXTERNAL TABLE to the row a query reads: the    *)
(* filter a client asks is pushed (pushdown.rs), the request is built      *)
(* (table.rs search_body and scan), the index finds a document or not, and *)
(* build_batch reads what the hit's _source has (schema.rs).  One column f *)
(* of interest, a column g beside it, one document.  How a WHERE of many   *)
(* predicates is divided is in Pushdown, how pages arrive in ScrollScan.   *)
(***************************************************************************)
EXTENDS ExternalTable, LikePattern

CONSTANTS
  Literal,   \* the literals of comparisons
  LikeArgs,  \* LikeArgs[type]: the patterns LIKE is asked of a column of that type
  Source     \* the JSON values documents have for f

ASSUME TableQueryAssumption ==
  /\ Literal \subseteq [scalar : ScalarTypes, v : Int \cup {None}]
  /\ LikeArgs \in [StringTypes -> SUBSET Pattern]
  /\ Source \subseteq [json : JsonKinds, v : Int]

VARIABLES
  filter,    \* the WHERE: a comparison of f with a literal, a LIKE, or nothing
  body,      \* the body of the _search request
  plan,      \* the OpenSearchExec and the columns it returns
  document,  \* the JSON value a document of the index has for f
  hit,       \* whether the request finds it
  row        \* its row: a cell for each projected column

queryVars == <<filter, body, plan, document, hit, row>>
vars == <<createVars, queryVars>>

Comparison == {"=", "<", "<=", ">", ">="}

NoFilter         == [op |-> "none", lit |-> Scalar("other", None), pattern |-> <<>>]
Compare(op, lit) == [op |-> op, lit |-> lit, pattern |-> <<>>]
Like(op, p)      == [op |-> op, lit |-> Scalar("other", None), pattern |-> p]

NoBody == [filter |-> <<>>, source |-> {}, sort |-> <<>>, search_after |-> FALSE]
-----------------------------------------------------------------------------
(* The request.                                                            *)

\* expr_to_query of the filter, as a list of no clause or one.
Pushed(f) ==
  CASE f.op \in {"like", "ilike"} ->
         <<[op |-> f.op, like |-> LikeToQuery(f.pattern, f.op = "ilike"), lit |-> None]>>
    [] f.op \in Comparison /\ ScalarToJson(f.lit) # None ->
         <<[op |-> f.op, like |-> None, lit |-> ScalarToJson(f.lit)]>>
    [] OTHER -> <<>>

\* The base filter's clauses, opaque, beside the pushed one.
Base(clause) == [op |-> "base", like |-> None, lit |-> clause]

SearchBodyUnsorted(t, projected, f) ==   \* a plausible mistake
  [filter |-> IF Pushed(f) = <<>> THEN [i \in DOMAIN t.base_filter |-> Base(t.base_filter[i])]
                                  ELSE Pushed(f),
   source |-> projected, sort |-> <<>>, search_after |-> t.search_after]

\* A plausible mistake: a column that is filtered on is not asked for.
SearchBodyUnfiltered(t, projected, f) ==
  [filter |-> [i \in DOMAIN t.base_filter |-> Base(t.base_filter[i])] \o Pushed(f),
   source |-> IF Pushed(f) = <<>> THEN projected ELSE projected \ {"f"},
   sort |-> t.sort, search_after |-> t.search_after]

SearchBody(t, projected, f) ==
  [filter |-> [i \in DOMAIN t.base_filter |-> Base(t.base_filter[i])] \o Pushed(f),
   source |-> projected,
   sort |-> t.sort,
   search_after |-> t.search_after]

\* scan's settings of the exec, for a query without a LIMIT.
ScanOf(t) == Plan!Scan([page_size |-> t.page_size, max_rows |-> t.max_rows,
                        partitions |-> t.partitions, search_after |-> t.search_after,
                        limit |-> None, columns |-> {"nullable"}])
-----------------------------------------------------------------------------
(* The index (external).  A comparison clause matches a value of its kind; *)
(* a null bound is no bound, and a null term is refused.                   *)

MatchesClause(c, mapping, json) ==
  LET i == Indexed(mapping, json)
      q == QueryCell(mapping, c.lit)
  IN  /\ i # None
      /\ \/ c.lit.json = "null"
         \/ q # None /\ q.cell = i.cell /\ Compares(c.op, i.v, q.v)

\* The clauses whose meaning is not followed here, a LIKE or the base filter, may
\* match or not.
MayMatch(mapping, json) ==
  LET followed == {i \in DOMAIN body.filter : body.filter[i].op \in Comparison}
      all      == \A i \in followed : MatchesClause(body.filter[i], mapping, json)
  IN  IF all /\ followed # DOMAIN body.filter THEN BOOLEAN ELSE {all}

\* A hit has what _source filtering leaves of a document; g is a word.
InHit(c, json) == CASE c \notin body.source            -> Json("null", 0)
                    [] c \in body.source /\ c = "f"    -> json
                    [] OTHER                           -> Json("word", 0)
-----------------------------------------------------------------------------
Init ==
  /\ CreateInit
  /\ filter = NoFilter
  /\ body = NoBody
  /\ plan = None
  /\ document = Json("null", 0)
  /\ hit = FALSE
  /\ row = [c \in {} |-> None]

Create == CreateNext /\ UNCHANGED queryVars

\* The kind of cell a column of a type holds.
KindOf(type) ==
  CASE type \in StringTypes                            -> "text"
    [] type \in IntTypes \cup {"Float32", "Float64"}   -> "number"
    [] type = "Boolean"                                -> "bool"
    [] type = "Timestamp(ms)"                          -> "instant"
    [] OTHER                                           -> "none"

\* DataFusion compares like with like, or with NULL or a decimal.
Typed(type, lit) ==
  \/ lit.v = None \/ lit.scalar = "other"
  \/ ScalarCell(lit).cell = KindOf(type)

\* The client asks one of the questions the column allows.
Ask(f) ==
  /\ stage = "created"
  /\ filter' = f
  /\ stage' = "asked"
  /\ UNCHANGED <<cmd, factory, index, sent, table, error, body, plan, document, hit, row>>

AskAll     == Ask(NoFilter)
AskCompare == /\ stage = "created"
              /\ \E op \in Comparison, lit \in {l \in Literal : Typed(table.schema["f"], l)} :
                   Ask(Compare(op, lit))
AskLike    == /\ stage = "created" /\ table.schema["f"] \in StringTypes
              /\ \E op \in {"like", "ilike"}, p \in LikeArgs[table.schema["f"]] : Ask(Like(op, p))

\* scan() for some of the columns, and the exec's first request.
Search ==
  /\ stage = "asked"
  /\ \E projected \in (SUBSET DOMAIN table.schema) \ {{}} :
       /\ body' = SearchBody(table, projected, filter)
       /\ plan' = [exec |-> ScanOf(table), projected |-> projected]
  /\ sent' = sent \cup {Request("search", table)}
  /\ stage' = "searching"
  /\ UNCHANGED <<cmd, factory, index, table, error, filter, document, hit, row>>

\* A document that the index may hold is found or not; a hit is read, and a column
\* without a reader fails the query.  A missing index reads as empty.
Read ==
  /\ stage = "searching" /\ index \in Mappings
  /\ \E json \in {j \in Source : Accepts(index, j)} :
       /\ document' = json
       /\ hit' \in MayMatch(index, json)
       /\ \/ /\ hit'
             /\ \A c \in plan.projected : Readable(table.schema[c])
             /\ row' = [c \in plan.projected |-> ReadCell(table.schema[c], InHit(c, json))]
             /\ stage' = "read"
             /\ UNCHANGED error
          \/ /\ hit'
             /\ \E c \in plan.projected : ~Readable(table.schema[c])
             /\ Fail("NotImplemented")
             /\ UNCHANGED row
          \/ /\ ~hit'
             /\ stage' = "read"
             /\ UNCHANGED <<row, error>>
  /\ UNCHANGED <<cmd, factory, index, sent, table, filter, body, plan>>

ReadNothing ==
  /\ stage = "searching" /\ index \notin Mappings
  /\ stage' = "read"
  /\ UNCHANGED <<cmd, factory, index, sent, table, error, queryVars>>

Next == Create \/ AskAll \/ AskCompare \/ AskLike \/ Search \/ Read \/ ReadNothing

Spec == Init /\ [][Next]_vars
-----------------------------------------------------------------------------
(* Properties.                                                             *)

Stages == {"statement", "mapping", "options", "created", "asked", "searching", "read", "failed"}

\* The type invariant; a table is only made with a page size and a partition count
\* of at least 1.
TypeOK ==
  /\ [cmd |-> cmd, factory |-> factory, index |-> index] \in Scenario
  /\ stage \in Stages
  /\ stage = "failed" <=> error # None
  /\ table # None => /\ table.schema \in Columns
                     /\ {table.page_size, table.partitions} \subseteq Nat \ {0}
                     /\ table.max_rows \in Plan!Opt
  /\ plan # None => Plan!PlanOK(plan.exec) /\ plan.projected \subseteq DOMAIN table.schema
  /\ \A c \in DOMAIN row : row[c] # None => row[c].cell = KindOf(table.schema[c])

\* <base url>/<index>, slashes after it allowed: the base has a scheme and then
\* something that is not a slash, so the host is not taken for the index.
WellFormed(location, base, name) ==
  /\ \E n \in 0..Len(location) :
       location = base \o <<"/">> \o name \o [i \in 1..n |-> "/"]
  /\ name # <<>> /\ \A i \in 1..Len(name) : name[i] # "/"
  /\ base # <<>> /\ base[Len(base)] = "w"
  /\ \E i \in 1..(Len(base) - 3) : SubSeq(base, i, i + 2) = <<":", "/", "/">>

\* The credentials of the factory, the bearer token before the password.
Credentials == IF factory.bearer THEN "bearer" ELSE IF factory.basic THEN "basic" ELSE "none"

\* Every request of a table, that for its columns and those of its queries, goes
\* to the cluster and index LOCATION names and carries the factory's credentials,
\* "applied to every table it creates"; a LOCATION is refused only if it names
\* none (table.rs:272-276, split_location).
RequestsAsTold ==
  /\ \A r \in sent : WellFormed(cmd.location, r.base, r.index) /\ r.auth = Credentials
  /\ error = "location" =>
       \A i, j \in 1..Len(cmd.location) :
         ~WellFormed(cmd.location, SubSeq(cmd.location, 1, i), SubSeq(cmd.location, i + 2, j))

\* Ascending is the default.
Ascending(item) == item.dir \in {"asc", ""}

\* A sort in the body sorts by the items that were given, in their order.
SortedBy(sort, items) ==
  \E item \in [DOMAIN sort -> DOMAIN items] :
    /\ \A i, j \in DOMAIN sort : i < j => item[i] < item[j]
    /\ \A i \in DOMAIN sort : /\ sort[i].field = items[item[i]].field
                              /\ sort[i].asc <=> Ascending(items[item[i]])
    /\ \A j \in DOMAIN items : Empty(items[j]) \/ \E i \in DOMAIN sort : item[i] = j

\* Every recognised option given is in force in every scan of the table, beside
\* the clauses of the WHERE, and what was not given has its default; or the
\* statement fails and there is no table (create(), search_body, scan).
OptionsInForce ==
  plan # None =>
    LET o == IF cmd.prefix \in {"", "format."} THEN cmd.options ELSE NoOptions
        inner == plan.exec.inner
    IN  /\ inner.page_size = IF o.page_size = None THEN 5000
                             ELSE IF o.page_size = 0 THEN 1 ELSE o.page_size
        /\ inner.fetch = o.max_rows
        /\ inner.partitions = IF o.partitions \in {None, 0} \/ o.max_rows # None
                                THEN 1 ELSE o.partitions
        /\ o.sort # None => SortedBy(body.sort, o.sort)
        /\ o.base_filter # None => \A i \in DOMAIN o.base_filter.clauses :
                                     \E j \in DOMAIN body.filter :
                                       body.filter[j] = Base(o.base_filter.clauses[i])

\* The clause made of a LIKE accepts what the pattern does, whether it is a prefix
\* or a wildcard query: the same characters and wildcards in the same order, none
\* of OpenSearch's own specials among them (pushdown.rs:224-227).  A pattern that
\* ends in an escape of nothing is excepted: the code drops that backslash.
LikeMeansPattern ==
  stage = "searching" /\ filter.op \in {"like", "ilike"} /\ ~Dangling(filter.pattern) =>
    LET clause == body.filter[Len(body.filter)].like
    IN  /\ ClauseMeaning(clause) = Meaning(filter.pattern, "%", "_")
        /\ clause.case_insensitive = (filter.op = "ilike")

\* The index-backed prefix query is used for the patterns whose only wildcard is a
\* % at the end, and for all of them (pushdown.rs:142-144).
PrefixWhenSole ==
  stage = "searching" /\ filter.op \in {"like", "ilike"} /\ ~Dangling(filter.pattern) =>
    (body.filter[Len(body.filter)].like.query = "prefix"
       <=> EndsInOnlyRun(Meaning(filter.pattern, "%", "_")))

\* Whether a column of the type has a cell for what the index holds.
CanHold(type, cell) ==
  CASE type \in IntTypes       -> cell.v % 2 = 0 /\ cell.v \div 2 \in IntRange(type) \cap I64
    [] type = "Float32"        -> ToF32(cell.v) = cell.v
    [] type = "Timestamp(ms)"  -> cell.v % Milli = 0
    [] OTHER                   -> TRUE

\* The cell of a hit is the value the index searched, when the column can hold it
\* and the index kept it as it was written: every projected column is asked for
\* in _source, no reader of build_batch loses a value (schema.rs:77-84), and a
\* column whose type was inferred holds what its mapping has.
ReadAsIndexed ==
  stage = "read" /\ hit /\ "f" \in plan.projected =>
    LET i == Indexed(index, document)
        type == table.schema["f"]
    IN  /\ i # None /\ (cmd.columns = NoColumns \/ i.cell = KindOf(type))
        /\ CanHold(type, i)
        /\ index # "text" /\ ~(index \in IntegerMappings /\ document.json = "float")
        => row["f"] = i

\* A number column shows no number but the document's: fractions, values out of the
\* declared range and other shapes are null, not wrapped or cut (schema.rs:143-144).
\* Numbers beyond i64 are excepted, see OutOfRangeIsNull.
NoOtherNumber ==
  stage = "read" /\ hit /\ "f" \in plan.projected /\ table.schema["f"] \in IntTypes =>
    \/ row["f"] \in {None, FloatCell(document)}
    \/ Truncated(FloatCell(document).v) \notin I64

\* "Out-of-range values become null" (schema.rs:83).  The run `saturation` refutes
\* it: a value beyond i64 reads as the largest i64.
OutOfRangeIsNull ==
  stage = "read" /\ hit /\ "f" \in plan.projected /\ table.schema["f"] \in IntTypes =>
    row["f"] \in {None, FloatCell(document)}

\* The literals whose JSON is exact for a comparison: not NaN, and finer than the
\* milliseconds of the column only where rounding down changes nothing.
Exact(op, lit) ==
  /\ lit # Scalar("Float64", NaN)
  /\ ScalarCell(lit).cell = "instant" =>
       ScalarCell(lit).v % Milli = 0 \/ op \in {">", "<="}

\* "The OpenSearch query matches the same rows the Expr would" (pushdown.rs:3-5):
\* a pushed comparison finds a document just when the comparison is TRUE of the
\* cell DataFusion would have read from it, if that cell is what the index holds.
PushedAsFiltered ==
  /\ stage = "read" /\ index \in Mappings
  /\ Len(body.filter) = 1 /\ body.filter[1].op \in Comparison
  /\ Readable(table.schema["f"])
  => LET cell == ReadCell(table.schema["f"], document)
     IN  Exact(filter.op, filter.lit) /\ cell = Indexed(index, document) =>
           (hit <=> cell # None /\ Compares(filter.op, cell.v, ScalarCell(filter.lit).v))
=============================================================================
