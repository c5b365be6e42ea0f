------------------------------ MODULE Pushdown ------------------------------
(***************************************************************************)
(* Filter pushdown: how the WHERE of a query is divided between OpenSearch *)
(* and DataFusion (pushdown.rs expr_to_query, table.rs search_body,        *)
(* supports_filters_pushdown and scan, udf.rs invoke_with_args).           *)
(*                                                                         *)
(* A predicate is what it says of every document.  It is kept with the     *)
(* query clause expr_to_query makes of it, a clause being the documents it *)
(* matches.  expr_to_query is structural: the clause of a predicate is     *)
(* made from the clauses of its parts, so it is carried along while the    *)
(* WHERE is put together, and a WHERE of any depth needs no recursion.     *)
(***************************************************************************)
EXTENDS Integers, FiniteSets

CONSTANTS None,        \* a field a document lacks, SQL's NULL, and Option's None
          Field,       \* columns of the table
          Value,       \* values of fields and literals
          Operand,     \* the operands a client writes, see AnyOperand
          List,        \* the lists of IN a client writes
          BaseFilter,  \* the always-on base filters that may be configured
          MaxSize,     \* bound: predicates and connectives in one WHERE
          MaxFilters   \* bound: conjuncts of one WHERE

\* Documents, by the fields they have.
Doc == [Field -> Value \cup {None}]

\* A column, a function or cast of a column, a literal (NULL included) of a type
\* JSON carries, a literal of a type scalar_to_json has no arm for.
AnyOperand ==
  [type : {"column", "cast"}, of : Field] \cup
  [type : {"literal", "decimal"}, of : Value \cup {None}]

ASSUME PushdownAssumption ==
  /\ Value \subseteq Int
  /\ None \notin Int \cup Field
  /\ \A ds \in SUBSET Doc : ds # None
  /\ Operand \subseteq AnyOperand
  /\ List \subseteq SUBSET AnyOperand
  /\ BaseFilter \subseteq SUBSET SUBSET Doc

VARIABLES filters,     \* the conjuncts of the WHERE, which DataFusion hands over one by one
          size,        \* predicates and connectives written so far
          stage,       \* "where", "planned", "scanned", "done"
          support,     \* what supports_filters_pushdown answered for each filter
          base_filter, \* OpenSearchTableProvider.base_filter
          body,        \* the clauses under bool.filter of the request sent
          rows         \* documents that reach the consumer

vars == <<filters, size, stage, support, base_filter, body, rows>>
-----------------------------------------------------------------------------
(* What a predicate says of documents.                                     *)

\* Where it is TRUE and where it is FALSE; anywhere else it is NULL.
Truth == [holds : SUBSET Doc, fails : SUBSET Doc]

BothOf(p, q)   == [holds |-> p.holds \cap q.holds, fails |-> p.fails \cup q.fails]
EitherOf(p, q) == [holds |-> p.holds \cup q.holds, fails |-> p.fails \cap q.fails]
Opposite(p)    == [holds |-> p.fails, fails |-> p.holds]

\* TRUE on hold, FALSE on the other documents of known.
Within(known, hold) == [holds |-> known \cap hold, fails |-> known \ hold]

\* A predicate and its translation.
Predicate ==
  [sql      : Truth,                  \* what it means
   memory   : Truth,                  \* what DataFusion makes of it, row by row
   query    : {None} \cup SUBSET Doc, \* what expr_to_query makes of it
   positive : BOOLEAN,                \* nothing in it is negated
   stub     : BOOLEAN]                \* calls a UDF, whose in-memory form is a stand-in

\* A predicate whose in-memory form is its meaning.
Plain(truth, query, positive) ==
  [sql |-> truth, memory |-> truth, query |-> query, positive |-> positive, stub |-> FALSE]

Comparison == {"=", "<>", "<", "<=", ">", ">="}

Compares(op, x, y) ==
  CASE op = "="  -> x = y
    [] op = "<>" -> x # y
    [] op = "<"  -> x < y
    [] op = "<=" -> x <= y
    [] op = ">"  -> x > y
    [] op = ">=" -> x >= y

Plus1(x) == IF x = None THEN None ELSE x + 1

\* The value of an operand in document d.
Eval(e, d) ==
  CASE e.type = "column" -> d[e.of]
    [] e.type = "cast"   -> Plus1(d[e.of])
    [] OTHER             -> e.of

Known(e) == {d \in Doc : Eval(e, d) # None}

CompareTruth(op, l, r) ==
  LET known == Known(l) \cap Known(r)
  IN  Within(known, {d \in known : Compares(op, Eval(l, d), Eval(r, d))})

InTruth(e, list) ==
  [holds |-> {d \in Known(e) : \E i \in list : Eval(i, d) = Eval(e, d)},
   fails |-> {d \in Known(e) : \A i \in list : d \in Known(i) /\ Eval(i, d) # Eval(e, d)}]

\* e satisfies a predicate that accepts the values in accepted.
AcceptTruth(e, accepted) == Within(Known(e), {d \in Doc : Eval(e, d) \in accepted})
-----------------------------------------------------------------------------
(* Query clauses, as the documents they match.                             *)

Exists(col)       == {d \in Doc : d[col] # None}
Term(col, v)      == {d \in Exists(col) : d[col] = v}
Terms(col, vs)    == {d \in Exists(col) : d[col] \in vs}
Bound(col, op, v) == {d \in Exists(col) : Compares(op, d[col], v)}

\* must_not, bool.filter and bool.should of clauses that may be missing (`?`).
MustNot(q)         == IF q = None THEN None ELSE Doc \ q
FilterClauseHalf(q, r) ==   \* a plausible mistake: one side is enough
  CASE q = None -> r [] r = None -> q [] OTHER -> q \cap r
FilterClause(q, r) == IF q = None \/ r = None THEN None ELSE q \cap r
ShouldClause(q, r) == IF q = None \/ r = None THEN None ELSE q \cup r
-----------------------------------------------------------------------------
(* expr_to_query, arm by arm, each with the predicate it translates.       *)

ColumnName(e)  == IF e.type = "column" THEN e.of ELSE None
LiteralJson(e) == IF e.type = "literal" THEN e.of ELSE None

\* (col, lit): the order in which an operator's two sides can be pushed.
IsColLit(l, r) == ColumnName(l) # None /\ LiteralJson(r) # None

FlippedNot(op) == op   \* a plausible mistake

\* lit OP col is col FLIPPED-OP lit.
Flipped(op) ==
  CASE op = ">"  -> "<"
    [] op = ">=" -> "<="
    [] op = "<"  -> ">"
    [] op = "<=" -> ">="
    [] OTHER     -> op

CompareClause(op, col, v) ==
  CASE op = "="  -> Term(col, v)
    [] op = "<>" -> MustNot(Term(col, v))
    [] OTHER     -> Bound(col, op, v)

CompareQuery(op, l, r) ==
  CASE IsColLit(l, r) -> CompareClause(op, l.of, r.of)
    [] ~IsColLit(l, r) /\ IsColLit(r, l) -> CompareClause(Flipped(op), r.of, l.of)
    [] OTHER -> None

Compare(op, l, r) == Plain(CompareTruth(op, l, r), CompareQuery(op, l, r), op # "<>")

\* NOT p, and the negated forms of IN, BETWEEN and LIKE.
Negation(p) ==
  [sql |-> Opposite(p.sql), memory |-> Opposite(p.memory), query |-> MustNot(p.query),
   positive |-> FALSE, stub |-> p.stub]

NegatedIf(negated, p) == IF negated THEN Negation(p) ELSE p

InQuery(e, list) ==
  IF ColumnName(e) # None /\ \A i \in list : LiteralJson(i) # None
    THEN Terms(e.of, {i.of : i \in list}) ELSE None

InListNegationDropped(e, list, negated) ==   \* a plausible mistake
  Plain(IF negated THEN Opposite(InTruth(e, list)) ELSE InTruth(e, list),
        InQuery(e, list), ~negated)
InList(e, list, negated) == NegatedIf(negated, Plain(InTruth(e, list), InQuery(e, list), TRUE))

BetweenQueryHalfOpen(e, low, high) ==   \* a plausible mistake
  IF ColumnName(e) # None /\ LiteralJson(low) # None /\ LiteralJson(high) # None
    THEN Bound(e.of, ">=", low.of) \cap Bound(e.of, "<", high.of) ELSE None

BetweenQuery(e, low, high) ==
  IF ColumnName(e) # None /\ LiteralJson(low) # None /\ LiteralJson(high) # None
    THEN Bound(e.of, ">=", low.of) \cap Bound(e.of, "<=", high.of) ELSE None

Between(e, low, high, negated) ==
  NegatedIf(negated,
            Plain(BothOf(CompareTruth(">=", e, low), CompareTruth("<=", e, high)),
                  BetweenQuery(e, low, high), TRUE))

IsNotNullQuery(e) == IF ColumnName(e) # None THEN Exists(e.of) ELSE None
IsNullQuery(e)    == MustNot(IsNotNullQuery(e))

IsNotNull(e) == Plain(Within(Doc, Known(e)), IsNotNullQuery(e), TRUE)
IsNull(e)    == Plain(Opposite(Within(Doc, Known(e))), IsNullQuery(e), TRUE)

\* LIKE with a pattern that accepts these values; `readable` when its escape is
\* the default one and the pattern a string literal.
LikeQuery(e, accepted, readable) ==
  IF readable /\ ColumnName(e) # None THEN Terms(e.of, accepted) ELSE None

Like(e, accepted, readable, negated) ==
  NegatedIf(negated, Plain(AcceptTruth(e, accepted), LikeQuery(e, accepted, readable), TRUE))

\* os_match and the geo predicates, true of the documents whose field the index
\* accepts; `readable` when the arguments are of the form the arm asks for.  In
\* memory os_match compares tokens, which may accept other values, and a geo
\* predicate is FALSE.
UdfQuery(e, accepted, readable) ==
  IF readable /\ ColumnName(e) # None THEN Terms(e.of, accepted) ELSE None

Invoked(e, tokens) == Within(Doc, {d \in Known(e) : Eval(e, d) \in tokens})

Udf(e, accepted, tokens, readable) ==
  [sql |-> Invoked(e, accepted), memory |-> Invoked(e, tokens),
   query |-> UdfQuery(e, accepted, readable), positive |-> TRUE, stub |-> TRUE]

Match(e, accepted, tokens, readable) == Udf(e, accepted, IF readable THEN tokens ELSE {}, readable)
Geo(e, accepted, readable)           == Udf(e, accepted, {}, readable)

\* Any expression without an arm.
Opaque(e, accepted) == Plain(AcceptTruth(e, accepted), None, TRUE)

Conjunction(p, q) ==
  [sql |-> BothOf(p.sql, q.sql), memory |-> BothOf(p.memory, q.memory),
   query |-> FilterClause(p.query, q.query),
   positive |-> p.positive /\ q.positive, stub |-> p.stub \/ q.stub]

Disjunction(p, q) ==
  [sql |-> EitherOf(p.sql, q.sql), memory |-> EitherOf(p.memory, q.memory),
   query |-> ShouldClause(p.query, q.query),
   positive |-> p.positive /\ q.positive, stub |-> p.stub \/ q.stub]
-----------------------------------------------------------------------------
(* The provider.                                                           *)

Translated(p) == p.query # None

SupportsTranslated(ps) ==   \* a plausible mistake: no answer for the others
  [p \in {q \in ps : Translated(q)} |-> "Exact"]

Supports(ps) == [p \in ps |-> IF Translated(p) THEN "Exact" ELSE "Unsupported"]

\* The clauses ANDed in the request: the base filter, then every filter that
\* translates (filter_map).  None at all is match_all.
SearchBodyReplacing(base, ps) ==   \* a plausible mistake: filters replace the base filter
  IF \E p \in ps : Translated(p) THEN {p.query : p \in {q \in ps : Translated(q)}} ELSE base

SearchBody(base, ps) == base \cup {p.query : p \in {q \in ps : Translated(q)}}

Pushed   == {p \in filters : support[p] = "Exact"}
Residual == {p \in filters : support[p] = "Unsupported"}

\* External: the documents a request matches.
Matching(clauses) == {d \in Doc : \A c \in clauses : d \in c}

\* External: DataFusion's FilterExec keeps the rows every remaining filter is TRUE of.
Kept(ds, ps) == {d \in ds : \A p \in ps : d \in p.memory.holds}
-----------------------------------------------------------------------------
Init ==
  /\ filters = {}
  /\ size = 0
  /\ stage = "where"
  /\ support = Supports({})
  /\ base_filter \in BaseFilter
  /\ body = {}
  /\ rows = {}

\* The client writes one more conjunct, or combines conjuncts it has written.
Write(used, p) ==
  /\ stage = "where"
  /\ size < MaxSize
  /\ filters' = (filters \ used) \cup {p}
  /\ Cardinality(filters') <= MaxFilters
  /\ size' = size + 1
  /\ UNCHANGED <<stage, support, base_filter, body, rows>>

WriteCompare  == \E op \in Comparison, l, r \in Operand : Write({}, Compare(op, l, r))
WriteInList   == \E e \in Operand, list \in List, negated \in BOOLEAN :
                   Write({}, InList(e, list, negated))
WriteBetween  == \E e, low, high \in Operand, negated \in BOOLEAN :
                   Write({}, Between(e, low, high, negated))
WriteNullTest == \E e \in Operand : Write({}, IsNull(e)) \/ Write({}, IsNotNull(e))
WriteLike     == \E e \in Operand, accepted \in SUBSET Value, readable, negated \in BOOLEAN :
                   Write({}, Like(e, accepted, readable, negated))
WriteMatch    == \E e \in Operand, accepted, tokens \in SUBSET Value, readable \in BOOLEAN :
                   Write({}, Match(e, accepted, tokens, readable))
WriteGeo      == \E e \in Operand, accepted \in SUBSET Value, readable \in BOOLEAN :
                   Write({}, Geo(e, accepted, readable))
WriteOpaque   == \E e \in Operand, accepted \in SUBSET Value : Write({}, Opaque(e, accepted))
WriteAnd      == \E p, q \in filters : Write({p, q}, Conjunction(p, q))
WriteOr       == \E p, q \in filters : Write({p, q}, Disjunction(p, q))
WriteNot      == \E p \in filters : Write({p}, Negation(p))

\* The planner asks which filters the provider applies exactly.
SupportsFiltersPushdown ==
  /\ stage = "where"
  /\ support' = Supports(filters)
  /\ stage' = "planned"
  /\ UNCHANGED <<filters, size, base_filter, body, rows>>

\* It plans the scan with those and keeps the others above it.
PlanScan ==
  /\ stage = "planned"
  /\ body' = SearchBody(base_filter, Pushed)
  /\ stage' = "scanned"
  /\ UNCHANGED <<filters, size, support, base_filter, rows>>

\* The query runs: the index is searched, and what is left is filtered in memory.
Collect ==
  /\ stage = "scanned"
  /\ rows' = Kept(Matching(body), Residual)
  /\ stage' = "done"
  /\ UNCHANGED <<filters, size, support, base_filter, body>>

Next ==
  \/ WriteCompare \/ WriteInList \/ WriteBetween \/ WriteNullTest \/ WriteLike
  \/ WriteMatch \/ WriteGeo \/ WriteOpaque \/ WriteAnd \/ WriteOr \/ WriteNot
  \/ SupportsFiltersPushdown \/ PlanScan \/ Collect

Spec == Init /\ [][Next]_vars
-----------------------------------------------------------------------------
(* Properties.                                                             *)

\* The type invariant: in particular every filter gets an answer of the provider.
TypeOK ==
  /\ filters \subseteq Predicate
  /\ size \in Nat
  /\ stage \in {"where", "planned", "scanned", "done"}
  /\ stage # "where" => support \in [filters -> {"Exact", "Unsupported"}]
  /\ base_filter \subseteq SUBSET Doc
  /\ body \subseteq SUBSET Doc
  /\ rows \subseteq Doc

\* A filter that is applied as it is meant: pushed, or free of UDFs, which in
\* memory are stand-ins (udf.rs).
Faithful(p) == ~p.stub \/ support[p] = "Exact"

Base == Matching(base_filter)

\* No row is lost: a document that satisfies the base filter and every conjunct
\* of the WHERE is returned, however the conjuncts are divided between
\* OpenSearch and DataFusion (pushdown.rs:3-7).
NoRowLost ==
  stage = "done" /\ (\A p \in filters : Faithful(p)) =>
    \A d \in Base : (\A p \in filters : d \in p.sql.holds) => d \in rows

\* No row is returned that a conjunct is FALSE of.  Rows of which it is NULL
\* may be: must_not matches documents without the field.
WidenedOnlyByNull ==
  stage = "done" => \A p \in filters : Faithful(p) => rows \cap p.sql.fails = {}

\* The base filter is in force whatever the WHERE (table.rs with_base_filter).
BaseFilterHolds == stage = "done" => rows \subseteq Base

\* A WHERE in which nothing is negated returns exactly its rows, those of
\* documents with absent fields included.
ExactWithoutNegation ==
  stage = "done" /\ (\A p \in filters : Faithful(p) /\ p.positive) =>
    rows = {d \in Base : \A p \in filters : d \in p.sql.holds}

\* The contract of expr_to_query (pushdown.rs:3-7): pushdown is "never a silent
\* widening"; every row returned satisfies the WHERE.  The run `widening`
\* refutes it: the row of a document without the field satisfies col <> v.
NeverWidened ==
  stage = "done" => \A p \in filters : Faithful(p) => rows \subseteq p.sql.holds

\* What makes them true, and is inductive: each predicate is TRUE and FALSE of
\* different documents and, unless it calls a UDF, is in memory what it means;
\* its clause matches where it is TRUE, does not where it is FALSE, and when
\* nothing is negated matches nowhere else.
Agrees(p) ==
  /\ p.sql.holds \cap p.sql.fails = {}
  /\ ~p.stub => p.memory = p.sql
  /\ Translated(p) => /\ p.sql.holds \subseteq p.query
                      /\ p.query \cap p.sql.fails = {}
                      /\ p.positive => p.query = p.sql.holds

Translation == \A p \in filters : Agrees(p)
=============================================================================
