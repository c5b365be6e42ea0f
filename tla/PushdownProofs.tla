--------------------------- MODULE PushdownProofs ---------------------------
(***************************************************************************)
(* Proofs about Pushdown: the translation of a WHERE of any depth, over    *)
(* any columns and values, agrees with what the WHERE means wherever that  *)
(* is TRUE or FALSE, and the rows returned are therefore the right ones.   *)
(***************************************************************************)
EXTENDS Pushdown, TLAPS

\* What is inductive: the predicates agree with their clauses, and the later
\* stages hold what they were computed from.
StageInv ==
  /\ stage # "where" => support = Supports(filters)
  /\ stage \in {"scanned", "done"} => body = SearchBody(base_filter, Pushed)
  /\ stage = "done" => rows = Kept(Matching(body), Residual)

IInv == TypeOK /\ Translation /\ StageInv

\* A predicate that may be written: well typed, and translated rightly.
Right(p) == p \in Predicate /\ Agrees(p)
-----------------------------------------------------------------------------
(* The clause of each form of predicate.                                   *)

\* A predicate whose in-memory form is its meaning is right when its clause is.
LEMMA PlainRight ==
  ASSUME NEW holds \in SUBSET Doc, NEW fails \in SUBSET Doc, holds \cap fails = {},
         NEW query \in {None} \cup SUBSET Doc, NEW positive \in BOOLEAN,
         query # None => /\ holds \subseteq query /\ query \cap fails = {}
                         /\ positive => query = holds
  PROVE  Right(Plain([holds |-> holds, fails |-> fails], query, positive))
BY DEF Right, Plain, Agrees, Translated, Predicate, Truth

\* A translated literal is a value, and so a number.
LEMMA Literals ==
  ASSUME NEW e \in AnyOperand
  PROVE  /\ ColumnName(e) # None => /\ e.of \in Field /\ \A d \in Doc : Eval(e, d) = d[e.of]
                                    /\ Known(e) = Exists(e.of)
         /\ LiteralJson(e) # None => /\ e.of \in Int /\ e.of # None
                                     /\ \A d \in Doc : Eval(e, d) = e.of
                                     /\ Known(e) = Doc
BY PushdownAssumption DEF AnyOperand, ColumnName, LiteralJson, Eval, Known, Exists

\* A field that a document has is a number.
LEMMA Fields ==
  ASSUME NEW col \in Field, NEW d \in Exists(col)
  PROVE  d \in Doc /\ d[col] \in Int
BY PushdownAssumption DEF Exists, Doc

\* The sides of a comparison swap with its direction.
LEMMA Flip ==
  ASSUME NEW op \in Comparison, NEW x \in Int, NEW y \in Int
  PROVE  Compares(Flipped(op), x, y) <=> Compares(op, y, x)
BY DEF Comparison, Flipped, Compares

\* The clause of `col op v` matches where the comparison is TRUE, and <> also
\* where the field is absent.
LEMMA ClauseOfComparison ==
  ASSUME NEW op \in Comparison, NEW col \in Field, NEW v \in Int,
         NEW hold, hold = {d \in Exists(col) : Compares(op, d[col], v)}
  PROVE  /\ CompareClause(op, col, v) \in SUBSET Doc
         /\ hold \subseteq CompareClause(op, col, v)
         /\ CompareClause(op, col, v) \cap (Exists(col) \ hold) = {}
         /\ op # "<>" => CompareClause(op, col, v) = hold
<1>1. Exists(col) \subseteq Doc
  BY DEF Exists
<1>2. CASE op = "="
  BY <1>1, <1>2 DEF CompareClause, Term, Compares
<1>3. CASE op = "<>"
  <2>1. Term(col, v) \subseteq Doc
    BY <1>1 DEF Term
  <2>2. Term(col, v) # None
    BY <2>1, PushdownAssumption
  <2>3. CompareClause(op, col, v) = Doc \ Term(col, v)
    BY <1>3, <2>2 DEF CompareClause, MustNot
  <2>4. \A d \in Exists(col) : d \in Term(col, v) <=> ~Compares(op, d[col], v)
    BY <1>3 DEF Term, Compares
  <2> QED BY <1>1, <1>3, <2>3, <2>4
<1>4. CASE op \notin {"=", "<>"}
  <2>1. CompareClause(op, col, v) = Bound(col, op, v)
    BY <1>4 DEF CompareClause
  <2> QED BY <1>1, <1>4, <2>1 DEF Bound
<1> QED BY <1>2, <1>3, <1>4

\* A comparison of a column and a literal, in either order, and any other.
LEMMA CompareRight ==
  ASSUME NEW op \in Comparison, NEW l \in AnyOperand, NEW r \in AnyOperand
  PROVE  Right(Compare(op, l, r))
<1> DEFINE known == Known(l) \cap Known(r)
           hold  == {d \in known : Compares(op, Eval(l, d), Eval(r, d))}
           q     == CompareQuery(op, l, r)
<1>1. known \subseteq Doc /\ CompareTruth(op, l, r) = [holds |-> hold, fails |-> known \ hold]
  BY DEF CompareTruth, Within, Known
<1>2. Flipped(op) \in Comparison /\ (op # "<>" => Flipped(op) # "<>")
  BY DEF Flipped, Comparison
<1>3. CASE IsColLit(l, r)
  <2>1. q = CompareClause(op, l.of, r.of)
    BY <1>3 DEF CompareQuery
  <2>2. l.of \in Field /\ r.of \in Int /\ known = Exists(l.of)
    BY <1>3, Literals DEF IsColLit, Known, Exists
  <2>3. hold = {d \in Exists(l.of) : Compares(op, d[l.of], r.of)}
    BY <1>1, <1>3, <2>2, Literals DEF IsColLit
  <2> HIDE DEF q, hold, known
  <2>4. q \in SUBSET Doc /\ hold \subseteq q /\ q \cap (known \ hold) = {} /\ (op # "<>" => q = hold)
    BY <2>1, <2>2, <2>3, ClauseOfComparison
  <2>5. hold \subseteq Doc /\ known \ hold \subseteq Doc
    BY <1>1 DEF hold
  <2> QED BY <1>1, <2>4, <2>5, PlainRight DEF Compare, q
<1>4. CASE ~IsColLit(l, r) /\ IsColLit(r, l)
  <2>1. q = CompareClause(Flipped(op), r.of, l.of)
    BY <1>4 DEF CompareQuery
  <2>2. r.of \in Field /\ l.of \in Int /\ known = Exists(r.of)
    BY <1>4, Literals DEF IsColLit, Known, Exists
  <2>3. hold = {d \in Exists(r.of) : Compares(op, l.of, d[r.of])}
    BY <1>1, <1>4, <2>2, Literals DEF IsColLit
  <2>4. hold = {d \in Exists(r.of) : Compares(Flipped(op), d[r.of], l.of)}
    BY <2>2, <2>3, Fields, Flip
  <2> HIDE DEF q, hold, known
  <2>5. q \in SUBSET Doc /\ hold \subseteq q /\ q \cap (known \ hold) = {} /\ (op # "<>" => q = hold)
    BY <1>2, <2>1, <2>2, <2>4, ClauseOfComparison
  <2>6. hold \subseteq Doc /\ known \ hold \subseteq Doc
    BY <1>1 DEF hold
  <2> QED BY <1>1, <2>5, <2>6, PlainRight DEF Compare, q
<1>5. CASE ~IsColLit(l, r) /\ ~IsColLit(r, l)
  <2>1. q = None
    BY <1>5 DEF CompareQuery
  <2> HIDE DEF q, hold, known
  <2>2. hold \subseteq Doc /\ known \ hold \subseteq Doc
    BY <1>1 DEF hold
  <2> QED BY <1>1, <2>1, <2>2, PlainRight DEF Compare, q
<1> QED BY <1>3, <1>4, <1>5

\* NOT keeps a predicate right: its clause matches what the clause of the
\* operand does not, which leaves out what the operand is TRUE of and takes in
\* what it is FALSE of.
LEMMA NegationRight ==
  ASSUME NEW p, Right(p)
  PROVE  Right(Negation(p))
<1>1. /\ p.sql.holds \subseteq Doc /\ p.sql.fails \subseteq Doc
      /\ p.memory.holds \subseteq Doc /\ p.memory.fails \subseteq Doc
      /\ p.stub \in BOOLEAN /\ p.query \in {None} \cup SUBSET Doc
      /\ p.sql.holds \cap p.sql.fails = {} /\ (~p.stub => p.memory = p.sql)
      /\ p.query # None => p.sql.holds \subseteq p.query /\ p.query \cap p.sql.fails = {}
  BY DEF Right, Predicate, Truth, Agrees, Translated
<1> DEFINE q == MustNot(p.query)
<1>2. CASE p.query = None
  BY <1>1, <1>2 DEF Negation, Opposite, MustNot, Right, Predicate, Truth, Agrees, Translated
<1>3. CASE p.query # None
  <2>1. q = Doc \ p.query /\ q \subseteq Doc
    BY <1>3 DEF MustNot
  <2>2. p.sql.fails \subseteq q /\ q \cap p.sql.holds = {}
    BY <1>1, <1>3, <2>1
  <2> HIDE DEF q
  <2> QED BY <1>1, <2>1, <2>2
          DEF Negation, Opposite, q, Right, Predicate, Truth, Agrees, Translated
<1> QED BY <1>2, <1>3

\* The negated forms of IN, BETWEEN and LIKE are NOT of the plain ones.
LEMMA NegatedIfRight ==
  ASSUME NEW p, Right(p), NEW negated \in BOOLEAN
  PROVE  Right(NegatedIf(negated, p))
BY NegationRight DEF NegatedIf

\* AND: both clauses under bool.filter, or none.
LEMMA ConjunctionRight ==
  ASSUME NEW p, Right(p), NEW r, Right(r)
  PROVE  Right(Conjunction(p, r))
<1> DEFINE q == FilterClause(p.query, r.query)
           truth == BothOf(p.sql, r.sql)
<1>1. CASE p.query = None \/ r.query = None
  BY <1>1 DEF Conjunction, BothOf, FilterClause, Right, Predicate, Truth, Agrees, Translated
<1>2. CASE p.query # None /\ r.query # None
  <2>1. q = p.query \cap r.query /\ p.query \subseteq Doc /\ r.query \subseteq Doc
    BY <1>2 DEF FilterClause, Right, Predicate
  <2>2. truth.holds \subseteq q /\ q \cap truth.fails = {} /\ truth.holds \cap truth.fails = {}
    BY <1>2, <2>1 DEF BothOf, Right, Agrees, Translated
  <2>3. p.positive /\ r.positive => q = truth.holds
    BY <1>2, <2>1 DEF BothOf, Right, Agrees, Translated
  <2>4. truth \in Truth /\ BothOf(p.memory, r.memory) \in Truth
    BY DEF BothOf, Right, Predicate, Truth
  <2>5. /\ Conjunction(p, r).sql = truth /\ Conjunction(p, r).query = q
        /\ Conjunction(p, r).memory = BothOf(p.memory, r.memory)
        /\ Conjunction(p, r).positive = (p.positive /\ r.positive)
        /\ Conjunction(p, r).stub = (p.stub \/ r.stub)
        /\ Conjunction(p, r) = [sql |-> truth, memory |-> BothOf(p.memory, r.memory), query |-> q,
                                positive |-> p.positive /\ r.positive, stub |-> p.stub \/ r.stub]
    BY DEF Conjunction
  <2>6. ~p.stub /\ ~r.stub => BothOf(p.memory, r.memory) = truth
    BY DEF Right, Agrees
  <2>7. p.stub \in BOOLEAN /\ r.stub \in BOOLEAN /\ p.positive \in BOOLEAN /\ r.positive \in BOOLEAN
    BY DEF Right, Predicate
  <2> HIDE DEF q, truth
  <2>8. Conjunction(p, r) \in Predicate
    BY <2>1, <2>4, <2>5, <2>7 DEF Predicate
  <2>9. Agrees(Conjunction(p, r))
    BY <2>2, <2>3, <2>5, <2>6, <2>7 DEF Agrees, Translated
  <2> QED BY <2>8, <2>9 DEF Right
<1> QED BY <1>1, <1>2

\* OR: both clauses under bool.should, or none.
LEMMA DisjunctionRight ==
  ASSUME NEW p, Right(p), NEW r, Right(r)
  PROVE  Right(Disjunction(p, r))
<1> DEFINE q == ShouldClause(p.query, r.query)
           truth == EitherOf(p.sql, r.sql)
<1>1. CASE p.query = None \/ r.query = None
  BY <1>1 DEF Disjunction, EitherOf, ShouldClause, Right, Predicate, Truth, Agrees, Translated
<1>2. CASE p.query # None /\ r.query # None
  <2>1. q = p.query \cup r.query /\ p.query \subseteq Doc /\ r.query \subseteq Doc
    BY <1>2 DEF ShouldClause, Right, Predicate
  <2>2. truth.holds \subseteq q /\ q \cap truth.fails = {} /\ truth.holds \cap truth.fails = {}
    BY <1>2, <2>1 DEF EitherOf, Right, Agrees, Translated
  <2>3. p.positive /\ r.positive => q = truth.holds
    BY <1>2, <2>1 DEF EitherOf, Right, Agrees, Translated
  <2>4. truth \in Truth /\ EitherOf(p.memory, r.memory) \in Truth
    BY DEF EitherOf, Right, Predicate, Truth
  <2>5. /\ Disjunction(p, r).sql = truth /\ Disjunction(p, r).query = q
        /\ Disjunction(p, r).memory = EitherOf(p.memory, r.memory)
        /\ Disjunction(p, r).positive = (p.positive /\ r.positive)
        /\ Disjunction(p, r).stub = (p.stub \/ r.stub)
        /\ Disjunction(p, r) = [sql |-> truth, memory |-> EitherOf(p.memory, r.memory), query |-> q,
                                positive |-> p.positive /\ r.positive, stub |-> p.stub \/ r.stub]
    BY DEF Disjunction
  <2>6. ~p.stub /\ ~r.stub => EitherOf(p.memory, r.memory) = truth
    BY DEF Right, Agrees
  <2>7. p.stub \in BOOLEAN /\ r.stub \in BOOLEAN /\ p.positive \in BOOLEAN /\ r.positive \in BOOLEAN
    BY DEF Right, Predicate
  <2> HIDE DEF q, truth
  <2>8. Disjunction(p, r) \in Predicate
    BY <2>1, <2>4, <2>5, <2>7 DEF Predicate
  <2>9. Agrees(Disjunction(p, r))
    BY <2>2, <2>3, <2>5, <2>6, <2>7 DEF Agrees, Translated
  <2> QED BY <2>8, <2>9 DEF Right
<1> QED BY <1>1, <1>2

\* IN over literals; one member that is no literal, NULL among them, and the
\* list is not translated.
LEMMA InListRight ==
  ASSUME NEW e \in AnyOperand, NEW list \in SUBSET AnyOperand, NEW negated \in BOOLEAN
  PROVE  Right(InList(e, list, negated))
<1> DEFINE q     == InQuery(e, list)
           holds == {d \in Known(e) : \E i \in list : Eval(i, d) = Eval(e, d)}
           fails == {d \in Known(e) : \A i \in list : d \in Known(i) /\ Eval(i, d) # Eval(e, d)}
<1>1. holds \in SUBSET Doc /\ fails \in SUBSET Doc /\ holds \cap fails = {}
  BY DEF Known
<1>2. q \in {None} \cup SUBSET Doc /\ (q # None => q = holds)
  <2>1. CASE ColumnName(e) # None /\ \A i \in list : LiteralJson(i) # None
    <3>1. q = Terms(e.of, {i.of : i \in list})
      BY <2>1 DEF InQuery
    <3>2. Known(e) = Exists(e.of) /\ Exists(e.of) \subseteq Doc
      BY <2>1, Literals DEF Exists
    <3>3. \A d \in Known(e) : Eval(e, d) = d[e.of] /\ \A i \in list : Eval(i, d) = i.of
      BY <2>1, <3>2, Literals
    <3> QED BY <3>1, <3>2, <3>3 DEF Terms
  <2>2. CASE ~(ColumnName(e) # None /\ \A i \in list : LiteralJson(i) # None)
    BY <2>2 DEF InQuery
  <2> QED BY <2>1, <2>2
<1>3. InTruth(e, list) = [holds |-> holds, fails |-> fails]
  BY DEF InTruth
<1> HIDE DEF q, holds, fails
<1>4. Right(Plain([holds |-> holds, fails |-> fails], q, TRUE))
  BY <1>1, <1>2, PlainRight
<1> QED BY <1>3, <1>4, NegatedIfRight DEF InList, q

\* What a comparison is TRUE and FALSE of are different documents.
LEMMA ComparisonTruth ==
  ASSUME NEW op \in Comparison, NEW l \in AnyOperand, NEW r \in AnyOperand
  PROVE  LET p == CompareTruth(op, l, r)
         IN  p \in Truth /\ p.holds \cap p.fails = {}
BY DEF CompareTruth, Within, Known, Truth

\* col op lit is TRUE where the range clause matches.
LEMMA RangeOfComparison ==
  ASSUME NEW op \in Comparison, NEW e \in AnyOperand, NEW l \in AnyOperand, IsColLit(e, l)
  PROVE  CompareTruth(op, e, l).holds = Bound(e.of, op, l.of)
<1>1. Known(e) = Exists(e.of) /\ Known(l) = Doc /\ Exists(e.of) \subseteq Doc
  BY Literals DEF IsColLit, Exists
<1>2. \A d \in Exists(e.of) : Eval(e, d) = d[e.of] /\ Eval(l, d) = l.of
  BY <1>1, Literals DEF IsColLit
<1> QED BY <1>1, <1>2 DEF CompareTruth, Within, Bound

\* BETWEEN is a range closed on both sides.
LEMMA BetweenRight ==
  ASSUME NEW e \in AnyOperand, NEW low \in AnyOperand, NEW high \in AnyOperand,
         NEW negated \in BOOLEAN
  PROVE  Right(Between(e, low, high, negated))
<1> DEFINE q  == BetweenQuery(e, low, high)
           lo == CompareTruth(">=", e, low)
           hi == CompareTruth("<=", e, high)
<1>1. /\ lo \in Truth /\ lo.holds \cap lo.fails = {}
      /\ hi \in Truth /\ hi.holds \cap hi.fails = {}
  BY ComparisonTruth DEF Comparison
<1>2. q \in {None} \cup SUBSET Doc /\ (q # None => q = lo.holds \cap hi.holds)
  <2>1. CASE IsColLit(e, low) /\ IsColLit(e, high)
    <3>1. q = Bound(e.of, ">=", low.of) \cap Bound(e.of, "<=", high.of)
      BY <2>1 DEF BetweenQuery, IsColLit
    <3>2. q = lo.holds \cap hi.holds
      BY <2>1, <3>1, RangeOfComparison DEF Comparison
    <3> QED BY <1>1, <3>2 DEF Truth
  <2>2. CASE ~(IsColLit(e, low) /\ IsColLit(e, high))
    BY <2>2 DEF BetweenQuery, IsColLit
  <2> QED BY <2>1, <2>2
<1> HIDE DEF q, lo, hi
<1> DEFINE holds == lo.holds \cap hi.holds
           fails == lo.fails \cup hi.fails
<1>3. holds \in SUBSET Doc /\ fails \in SUBSET Doc /\ holds \cap fails = {}
  BY <1>1 DEF Truth
<1>4. BothOf(lo, hi) = [holds |-> holds, fails |-> fails]
  BY DEF BothOf
<1>5. q # None => q = holds
  BY <1>2
<1> HIDE DEF holds, fails
<1>6. Right(Plain([holds |-> holds, fails |-> fails], q, TRUE))
  BY <1>2, <1>3, <1>5, PlainRight
<1> QED BY <1>4, <1>6, NegatedIfRight DEF Between, q, lo, hi

\* IS NULL and IS NOT NULL, never NULL themselves.
LEMMA NullTestRight ==
  ASSUME NEW e \in AnyOperand
  PROVE  Right(IsNull(e)) /\ Right(IsNotNull(e))
<1> DEFINE holds == Known(e)
           fails == Doc \ Known(e)
           q     == IsNotNullQuery(e)
           n     == IsNullQuery(e)
<1>1. holds \in SUBSET Doc /\ fails \in SUBSET Doc /\ holds \cap fails = {} /\ fails \cap holds = {}
  BY DEF Known
<1>2. Within(Doc, Known(e)) = [holds |-> holds, fails |-> fails]
  BY <1>1 DEF Within
<1>3. Opposite(Within(Doc, Known(e))) = [holds |-> fails, fails |-> holds]
  BY <1>2 DEF Opposite
<1>4. /\ q \in {None} \cup SUBSET Doc /\ (q # None => q = holds)
      /\ n \in {None} \cup SUBSET Doc /\ (n # None => n = fails)
  <2>1. CASE ColumnName(e) # None
    <3>1. q = holds
      BY <2>1, Literals DEF IsNotNullQuery
    <3>2. q # None
      BY <1>1, <3>1, PushdownAssumption
    <3> QED BY <1>1, <3>1, <3>2 DEF IsNullQuery, MustNot
  <2>2. CASE ColumnName(e) = None
    BY <2>2 DEF IsNotNullQuery, IsNullQuery, MustNot
  <2> QED BY <2>1, <2>2
<1> HIDE DEF holds, fails, q, n
<1>5. Right(Plain([holds |-> holds, fails |-> fails], q, TRUE))
  BY <1>1, <1>4, PlainRight
<1>6. Right(Plain([holds |-> fails, fails |-> holds], n, TRUE))
  BY <1>1, <1>4, PlainRight
<1> QED BY <1>2, <1>3, <1>5, <1>6 DEF IsNull, IsNotNull, q, n

\* The clause that matches the accepted values of a column.
LEMMA TermsAccept ==
  ASSUME NEW e \in AnyOperand, NEW accepted \in SUBSET Value, ColumnName(e) # None
  PROVE  Terms(e.of, accepted) = {d \in Known(e) : Eval(e, d) \in accepted}
<1>1. Known(e) = Exists(e.of) /\ Exists(e.of) \subseteq Doc
  BY Literals DEF Exists
<1>2. \A d \in Known(e) : Eval(e, d) = d[e.of]
  BY <1>1, Literals
<1> QED BY <1>1, <1>2 DEF Terms

\* LIKE, and any expression without an arm.
LEMMA AcceptRight ==
  ASSUME NEW e \in AnyOperand, NEW accepted \in SUBSET Value,
         NEW readable \in BOOLEAN, NEW negated \in BOOLEAN
  PROVE  Right(Like(e, accepted, readable, negated)) /\ Right(Opaque(e, accepted))
<1> DEFINE holds == {d \in Known(e) : Eval(e, d) \in accepted}
           fails == Known(e) \ holds
           q     == LikeQuery(e, accepted, readable)
<1>1. holds \in SUBSET Doc /\ fails \in SUBSET Doc /\ holds \cap fails = {}
  BY DEF Known
<1>2. AcceptTruth(e, accepted) = [holds |-> holds, fails |-> fails]
  <2>1. Known(e) \cap {d \in Doc : Eval(e, d) \in accepted} = holds
    BY DEF Known
  <2>2. Known(e) \ {d \in Doc : Eval(e, d) \in accepted} = fails
    BY DEF Known
  <2> HIDE DEF holds, fails
  <2> QED BY <2>1, <2>2 DEF AcceptTruth, Within
<1>3. q \in {None} \cup SUBSET Doc /\ (q # None => q = holds)
  <2>1. CASE readable /\ ColumnName(e) # None
    BY <1>1, <2>1, TermsAccept DEF LikeQuery
  <2>2. CASE ~(readable /\ ColumnName(e) # None)
    BY <2>2 DEF LikeQuery
  <2> QED BY <2>1, <2>2
<1> HIDE DEF holds, fails, q
<1>4. Right(Plain([holds |-> holds, fails |-> fails], q, TRUE))
  BY <1>1, <1>3, PlainRight
<1>5. Right(Plain([holds |-> holds, fails |-> fails], None, TRUE))
  BY <1>1, PlainRight
<1> QED BY <1>2, <1>4, <1>5, NegatedIfRight DEF Like, Opaque, q

\* os_match and the geo predicates.
LEMMA UdfRight ==
  ASSUME NEW e \in AnyOperand, NEW accepted \in SUBSET Value, NEW tokens \in SUBSET Value,
         NEW readable \in BOOLEAN
  PROVE  Right(Udf(e, accepted, tokens, readable))
<1> DEFINE p     == Udf(e, accepted, tokens, readable)
           holds == {d \in Known(e) : Eval(e, d) \in accepted}
           q     == UdfQuery(e, accepted, readable)
<1>1. holds \subseteq Doc /\ Invoked(e, accepted) = [holds |-> holds, fails |-> Doc \ holds]
  BY DEF Invoked, Within, Known
<1>2. Invoked(e, tokens) \in Truth
  BY DEF Invoked, Within, Known, Truth
<1>3. q \in {None} \cup SUBSET Doc /\ (q # None => q = holds)
  <2>1. CASE readable /\ ColumnName(e) # None
    BY <1>1, <2>1, TermsAccept DEF UdfQuery
  <2>2. CASE ~(readable /\ ColumnName(e) # None)
    BY <2>2 DEF UdfQuery
  <2> QED BY <2>1, <2>2
<1>4. p = [sql |-> [holds |-> holds, fails |-> Doc \ holds], memory |-> Invoked(e, tokens),
           query |-> q, positive |-> TRUE, stub |-> TRUE]
  BY <1>1 DEF Udf
<1> HIDE DEF p, holds, q
<1>5. p \in Predicate
  BY <1>1, <1>2, <1>3, <1>4 DEF Predicate, Truth
<1>6. Agrees(p)
  BY <1>1, <1>3, <1>4 DEF Agrees, Translated
<1> QED BY <1>5, <1>6 DEF Right, p
-----------------------------------------------------------------------------
(* The invariant.                                                          *)

\* Nothing written, nothing asked, nothing sent.
LEMMA InitInv == Init => IInv
BY PushdownAssumption DEF Init, IInv, TypeOK, Translation, StageInv

\* One more predicate that is right, in place of some that were used in it.
LEMMA WriteInv ==
  ASSUME IInv, NEW used, NEW p, Right(p), Write(used, p)
  PROVE  IInv'
<1>1. /\ stage = "where" /\ stage' = "where" /\ size' = size + 1
      /\ filters' = (filters \ used) \cup {p}
      /\ UNCHANGED <<support, base_filter, body, rows>>
  BY DEF Write
<1>2. TypeOK'
  BY <1>1 DEF IInv, TypeOK, Right
<1>3. Translation'
  BY <1>1 DEF IInv, Translation, Right, Agrees, Translated
<1>4. StageInv'
  BY <1>1 DEF StageInv
<1> QED BY <1>2, <1>3, <1>4 DEF IInv

\* Every filter gets its answer.
LEMMA SupportsInv ==
  ASSUME IInv, SupportsFiltersPushdown
  PROVE  IInv'
<1>1. /\ support' = Supports(filters) /\ stage' = "planned"
      /\ UNCHANGED <<filters, size, base_filter, body, rows>>
  BY DEF SupportsFiltersPushdown
<1>2. TypeOK'
  <2>1. Supports(filters) \in [filters -> {"Exact", "Unsupported"}]
    BY DEF Supports
  <2> QED BY <1>1, <2>1 DEF IInv, TypeOK
<1>3. Translation'
  BY <1>1 DEF IInv, Translation, Agrees, Translated
<1>4. StageInv'
  BY <1>1 DEF StageInv, Supports, Translated
<1> QED BY <1>2, <1>3, <1>4 DEF IInv

\* The clauses of a request are clauses.
LEMMA BodyType ==
  ASSUME IInv
  PROVE  SearchBody(base_filter, Pushed) \subseteq SUBSET Doc
<1>1. \A p \in Pushed : Translated(p) => p.query \in SUBSET Doc
  BY DEF IInv, TypeOK, Pushed, Predicate, Translated
<1> QED BY <1>1 DEF SearchBody, IInv, TypeOK

\* The request is planned with the clauses of the filters answered Exact.
LEMMA PlanScanInv ==
  ASSUME IInv, PlanScan
  PROVE  IInv'
<1>1. /\ stage = "planned" /\ stage' = "scanned"
      /\ body' = SearchBody(base_filter, Pushed)
      /\ UNCHANGED <<filters, size, support, base_filter, rows>>
  BY DEF PlanScan
<1>2. TypeOK'
  BY <1>1, BodyType DEF IInv, TypeOK
<1>3. Translation'
  BY <1>1 DEF IInv, Translation, Agrees, Translated
<1>4. StageInv'
  <2>1. (SearchBody(base_filter, Pushed))' = SearchBody(base_filter, Pushed)
    BY <1>1 DEF SearchBody, Pushed, Translated
  <2>2. (Supports(filters))' = Supports(filters)
    BY <1>1 DEF Supports, Translated
  <2> QED BY <1>1, <2>1, <2>2 DEF IInv, StageInv
<1> QED BY <1>2, <1>3, <1>4 DEF IInv

\* The rows are the documents the request matches, filtered.
LEMMA CollectInv ==
  ASSUME IInv, Collect
  PROVE  IInv'
<1>1. /\ stage = "scanned" /\ stage' = "done"
      /\ rows' = Kept(Matching(body), Residual)
      /\ UNCHANGED <<filters, size, support, base_filter, body>>
  BY DEF Collect
<1>2. TypeOK'
  <2>1. Kept(Matching(body), Residual) \subseteq Doc
    BY DEF Kept, Matching
  <2> QED BY <1>1, <2>1 DEF IInv, TypeOK
<1>3. Translation'
  BY <1>1 DEF IInv, Translation, Agrees, Translated
<1>4. StageInv'
  <2>1. (SearchBody(base_filter, Pushed))' = SearchBody(base_filter, Pushed)
    BY <1>1 DEF SearchBody, Pushed, Translated
  <2>2. (Supports(filters))' = Supports(filters)
    BY <1>1 DEF Supports, Translated
  <2>3. (Kept(Matching(body), Residual))' = Kept(Matching(body), Residual)
    BY <1>1 DEF Kept, Matching, Residual
  <2> QED BY <1>1, <2>1, <2>2, <2>3 DEF IInv, StageInv
<1> QED BY <1>2, <1>3, <1>4 DEF IInv

\* Every step of the specification keeps the invariant.
LEMMA NextInv == IInv /\ [Next]_vars => IInv'
<1> SUFFICES ASSUME IInv, [Next]_vars PROVE IInv'
  OBVIOUS
<1> USE PushdownAssumption
<1>1. CASE WriteCompare
  BY <1>1, CompareRight, WriteInv DEF WriteCompare
<1>2. CASE WriteInList
  BY <1>2, InListRight, WriteInv DEF WriteInList
<1>3. CASE WriteBetween
  BY <1>3, BetweenRight, WriteInv DEF WriteBetween
<1>4. CASE WriteNullTest
  BY <1>4, NullTestRight, WriteInv DEF WriteNullTest
<1>5. CASE WriteLike
  BY <1>5, AcceptRight, WriteInv DEF WriteLike
<1>6. CASE WriteMatch
  BY <1>6, UdfRight, WriteInv DEF WriteMatch, Match
<1>7. CASE WriteGeo
  BY <1>7, UdfRight, WriteInv DEF WriteGeo, Geo
<1>8. CASE WriteOpaque
  <2>1. \A e \in AnyOperand, accepted \in SUBSET Value : Right(Opaque(e, accepted))
    BY AcceptRight, TRUE \in BOOLEAN
  <2> QED BY <1>8, <2>1, WriteInv DEF WriteOpaque
<1> DEFINE AllRight == \A p \in filters : Right(p)
<1>9. AllRight
  BY DEF IInv, TypeOK, Translation, Right
<1> HIDE DEF AllRight
<1>10. CASE WriteAnd
  BY <1>9, <1>10, ConjunctionRight, WriteInv DEF WriteAnd, AllRight
<1>11. CASE WriteOr
  BY <1>9, <1>11, DisjunctionRight, WriteInv DEF WriteOr, AllRight
<1>12. CASE WriteNot
  BY <1>9, <1>12, NegationRight, WriteInv DEF WriteNot, AllRight
<1>13. CASE UNCHANGED vars
  BY <1>13 DEF vars, IInv, TypeOK, Translation, StageInv, Agrees, Translated,
               SearchBody, Supports, Pushed, Residual, Kept, Matching
<1> QED BY <1>1, <1>2, <1>3, <1>4, <1>5, <1>6, <1>7, <1>8, <1>10, <1>11, <1>12, <1>13,
           SupportsInv, PlanScanInv, CollectInv DEF Next
-----------------------------------------------------------------------------
(* What the invariant implies.                                             *)

\* When the query is done, a faithful filter has been applied to every row: by
\* its clause if it was pushed, in memory if it was not.
LEMMA FilterApplied ==
  ASSUME IInv, stage = "done", NEW p \in filters, Faithful(p), NEW d \in rows
  PROVE  (Translated(p) /\ d \in p.query) \/ d \in p.sql.holds
<1>1. /\ support = Supports(filters) /\ body = SearchBody(base_filter, Pushed)
      /\ rows = Kept(Matching(body), Residual) /\ Agrees(p)
  BY DEF IInv, StageInv, Translation
<1>2. CASE Translated(p)
  <2>1. p \in Pushed
    BY <1>1, <1>2 DEF Pushed, Supports
  <2>2. p.query \in body
    BY <1>1, <1>2, <2>1 DEF SearchBody
  <2> QED BY <1>1, <1>2, <2>2 DEF Kept, Matching
<1>3. CASE ~Translated(p)
  <2>1. p \in Residual /\ p.memory = p.sql
    BY <1>1, <1>3 DEF Residual, Supports, Faithful, Agrees
  <2> QED BY <1>1, <2>1 DEF Kept
<1> QED BY <1>2, <1>3

\* A document in the base filter that every conjunct is TRUE of is a row.
LEMMA RowFound ==
  ASSUME IInv, stage = "done", \A p \in filters : Faithful(p),
         NEW d \in Base, \A p \in filters : d \in p.sql.holds
  PROVE  d \in rows
<1>1. /\ support = Supports(filters) /\ body = SearchBody(base_filter, Pushed)
      /\ rows = Kept(Matching(body), Residual) /\ \A p \in filters : Agrees(p)
  BY DEF IInv, StageInv, Translation
<1>2. d \in Doc /\ \A c \in base_filter : d \in c
  BY DEF Base, Matching
<1>3. \A p \in filters : Translated(p) => d \in p.query
  BY <1>1 DEF Agrees
<1>4. \A c \in SearchBody(base_filter, Pushed) : d \in c
  BY <1>2, <1>3 DEF SearchBody, Pushed
<1>5. \A p \in Residual : d \in p.memory.holds
  BY <1>1 DEF Residual, Supports, Faithful, Agrees
<1> QED BY <1>1, <1>2, <1>4, <1>5 DEF Kept, Matching

\* Every row satisfies the base filter.
LEMMA RowsInBase ==
  ASSUME IInv, stage = "done"
  PROVE  rows \subseteq Base
BY DEF IInv, StageInv, Kept, Matching, SearchBody, Base

\* The invariant holds in every reachable state: the translation of every
\* filter agrees with what it means (pushdown.rs expr_to_query).
THEOREM Invariant == Spec => []IInv
<1> QED BY InitInv, NextInv, PTL DEF Spec

\* The variables have their types.
THEOREM TypeCorrect == Spec => []TypeOK
<1>1. IInv => TypeOK
  BY DEF IInv
<1> QED BY <1>1, Invariant, PTL

\* Each clause matches where its filter is TRUE and not where it is FALSE, and
\* exactly where it is TRUE when nothing in it is negated.
THEOREM Translates == Spec => []Translation
<1>1. IInv => Translation
  BY DEF IInv
<1> QED BY <1>1, Invariant, PTL

\* No row of the answer is lost to pushdown.
THEOREM LosesNoRow == Spec => []NoRowLost
<1>1. IInv => NoRowLost
  BY RowFound DEF NoRowLost
<1> QED BY <1>1, Invariant, PTL

\* No row is returned that a filter is FALSE of.
THEOREM WidensOnlyByNull == Spec => []WidenedOnlyByNull
<1>1. IInv => WidenedOnlyByNull
  <2> SUFFICES ASSUME IInv, stage = "done", NEW p \in filters, Faithful(p), NEW d \in rows
               PROVE  d \notin p.sql.fails
    BY DEF WidenedOnlyByNull
  <2>1. Agrees(p)
    BY DEF IInv, Translation
  <2> QED BY <2>1, FilterApplied DEF Agrees
<1> QED BY <1>1, Invariant, PTL

\* The base filter is in force whatever the WHERE.
THEOREM KeepsBaseFilter == Spec => []BaseFilterHolds
<1>1. IInv => BaseFilterHolds
  BY RowsInBase DEF BaseFilterHolds
<1> QED BY <1>1, Invariant, PTL

\* A WHERE without negation returns exactly its rows.
THEOREM ExactUnlessNegated == Spec => []ExactWithoutNegation
<1>1. IInv => ExactWithoutNegation
  <2> SUFFICES ASSUME IInv, stage = "done", \A p \in filters : Faithful(p) /\ p.positive
               PROVE  rows = {d \in Base : \A p \in filters : d \in p.sql.holds}
    BY DEF ExactWithoutNegation
  <2>1. \A d \in rows : d \in Base
    BY RowsInBase
  <2>2. \A d \in rows : \A p \in filters : d \in p.sql.holds
    <3> SUFFICES ASSUME NEW d \in rows, NEW p \in filters PROVE d \in p.sql.holds
      OBVIOUS
    <3>1. Agrees(p)
      BY DEF IInv, Translation
    <3> QED BY <3>1, FilterApplied DEF Agrees
  <2> QED BY <2>1, <2>2, RowFound
<1> QED BY <1>1, Invariant, PTL
=============================================================================
