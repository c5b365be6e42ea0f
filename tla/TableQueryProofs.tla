-------------------------- MODULE TableQueryProofs --------------------------
(***************************************************************************)
(* What a query reads through a table is what the index holds and the      *)
(* filter admits, for every width of the integers, every JSON value and    *)
(* every literal; and the table is the one its statement describes, for    *)
(* every LOCATION, every option and every LIKE.  QueryInv ties each stage  *)
(* of a query to the table it is asked of, StatementInv the table and its  *)
(* requests to the statement; the rest is the arithmetic of conversions    *)
(* and facts about positions in a sequence.                                *)
(***************************************************************************)
EXTENDS TableQuery, LikePatternProofs, SequenceTheorems

\* The stages from the one on which the table has its columns, is asked, and is
\* searched.
Defined   == {"options", "created", "asked", "searching", "read"}
Asked     == {"asked", "searching", "read"}
Searching == {"searching", "read"}

\* The columns are those of the statement or, with none, of the mapping; the base
\* filter is a list.
SchemaInv ==
  /\ {"client", "index", "schema", "base_filter"} \subseteq DOMAIN table
  /\ table.base_filter \in Seq(STRING)
  /\ table.schema \in Columns /\ "f" \in DOMAIN table.schema
  /\ cmd.columns = NoColumns => index \in Mappings /\ table.schema["f"] = ArrowTypeFor(index)

\* The WHERE is nothing, a comparison with a literal of the column's kind, or a LIKE
\* of a pattern.
FilterInv ==
  /\ filter.op \in Comparison => filter.lit \in Literal /\ Typed(table.schema["f"], filter.lit)
  /\ filter.op \in {"like", "ilike"} => filter.pattern \in Pattern

\* The request asks for what the plan projects.
BodyInv ==
  /\ plan.projected \subseteq DOMAIN table.schema
  /\ body = SearchBody(table, plan.projected, filter)

\* What was read of the document, if it was found.
ReadInv ==
  /\ hit => index \in Mappings
  /\ index \in Mappings => /\ document \in Source /\ Accepts(index, document)
                           /\ hit \in MayMatch(index, document)
  /\ hit => row = [c \in plan.projected |-> ReadCell(table.schema[c], InHit(c, document))]

QueryInv ==
  /\ [cmd |-> cmd, factory |-> factory, index |-> index] \in Scenario
  /\ stage \in Stages
  /\ stage = "mapping" => /\ {"client", "index", "schema", "base_filter"} \subseteq DOMAIN table
                          /\ table.base_filter = <<>>
                          /\ cmd.columns = NoColumns
  /\ stage \in Defined => SchemaInv
  /\ stage \in Asked => FilterInv
  /\ stage \in Searching => BodyInv
  /\ stage = "read" => ReadInv
  /\ stage \notin {"read", "failed"} => ~hit
-----------------------------------------------------------------------------
(* The invariant.                                                          *)

\* A statement with a column list has the column f.
LEMMA StatedColumns ==
  ASSUME [cmd |-> cmd, factory |-> factory, index |-> index] \in Scenario
  PROVE  /\ cmd.columns \in Columns /\ index \in IndexState
         /\ cmd.columns # NoColumns => "f" \in DOMAIN cmd.columns
<1>1. cmd \in Statement /\ index \in IndexState
  BY ExternalTableAssumption
<1>2. cmd.columns \in Columns
  BY <1>1 DEF Statement
<1>3. ASSUME "f" \notin DOMAIN cmd.columns PROVE cmd.columns = NoColumns
  <2>1. PICK fs \in {{}, {"f"}, {"f", "g"}} : cmd.columns \in [fs -> ArrowTypes]
    BY <1>2 DEF Columns
  <2>2. fs = {}
    BY <1>3, <2>1
  <2> QED BY <2>1, <2>2 DEF NoColumns
<1> QED BY <1>1, <1>2, <1>3

\* Before the statement is executed.
LEMMA InitQuery == Init => QueryInv
<1> SUFFICES ASSUME Init PROVE QueryInv
  OBVIOUS
<1>1. PICK s \in Scenario : cmd = s.cmd /\ factory = s.factory /\ index = s.index
  BY DEF Init, CreateInit
<1>2. s \in [cmd : Statement, factory : Factory, index : IndexState]
  BY ExternalTableAssumption
<1>3. [cmd |-> cmd, factory |-> factory, index |-> index] = s
  BY <1>1, <1>2
<1> QED BY <1>3 DEF Init, CreateInit, QueryInv, Stages, Defined, Asked, Searching

\* create(), step by step.
LEMMA CreateQuery ==
  ASSUME QueryInv, Create
  PROVE  QueryInv'
<1>1. /\ UNCHANGED <<cmd, factory, index, queryVars>> /\ ~hit
      /\ stage \in {"statement", "mapping", "options"}
  BY DEF QueryInv, Create, CreateNext, CreateTable, ReceiveMapping, LoseMapping, ReadOptions
<1>2. CASE stage' = "failed"
  BY <1>1, <1>2 DEF QueryInv, Stages, Defined, Asked, Searching, queryVars
<1>3. CASE CreateTable /\ stage' # "failed"
  <2>1. /\ table' = NewTable(ClientFor(factory, SplitLocation(cmd.location).base),
                             SplitLocation(cmd.location).index, cmd.columns)
        /\ stage' = IF cmd.columns = NoColumns THEN "mapping" ELSE "options"
    BY <1>3 DEF CreateTable, Fail
  <2>2. /\ {"client", "index", "schema", "base_filter"} \subseteq DOMAIN table'
        /\ table'.schema = cmd.columns /\ table'.base_filter = <<>>
    BY <2>1 DEF NewTable
  <2>3. <<>> \in Seq(STRING)
    OBVIOUS
  <2> QED BY <1>1, <2>1, <2>2, <2>3, StatedColumns
          DEF QueryInv, SchemaInv, Stages, Defined, Asked, Searching, queryVars
<1>4. CASE ReceiveMapping /\ stage' # "failed"
  <2>1. /\ index \in Mappings /\ stage' = "options" /\ stage = "mapping"
        /\ table' = [table EXCEPT !.schema = SchemaFromMapping(index)]
    BY <1>4 DEF ReceiveMapping, Fail
  <2>2. /\ {"client", "index", "schema", "base_filter"} \subseteq DOMAIN table'
        /\ table'.schema = SchemaFromMapping(index) /\ table'.base_filter = <<>>
    BY <2>1 DEF QueryInv
  <2>3. /\ SchemaFromMapping(index) \in Columns /\ "f" \in DOMAIN SchemaFromMapping(index)
        /\ SchemaFromMapping(index)["f"] = ArrowTypeFor(index)
    <3>1. \A m : ArrowTypeFor(m) \in ArrowTypes
      BY DEF ArrowTypeFor, ArrowTypes, StringTypes, IntTypes
    <3>2. SchemaFromMapping(index) \in [{"f", "g"} -> ArrowTypes]
      BY <3>1 DEF SchemaFromMapping
    <3> QED BY <3>2 DEF SchemaFromMapping, Columns
  <2>4. <<>> \in Seq(STRING)
    OBVIOUS
  <2> QED BY <1>1, <2>1, <2>2, <2>3, <2>4
          DEF QueryInv, SchemaInv, Stages, Defined, Asked, Searching, queryVars
<1>5. CASE ReadOptions /\ stage' # "failed"
  <2>1. stage' = "created" /\ stage = "options" /\ table' = Configured(table, Found(cmd))
    BY <1>5 DEF ReadOptions, Fail
  <2>2. Found(cmd).base_filter # None => Found(cmd).base_filter.clauses \in Seq(STRING)
    <3>1. cmd \in Statement
      BY ExternalTableAssumption DEF QueryInv
    <3>2. cmd.options \in Options
      BY <3>1 DEF Statement
    <3> QED BY <3>2 DEF Found, NoOptions, Options, BaseFilter
  <2>3. /\ {"client", "index", "schema", "base_filter"} \subseteq DOMAIN table'
        /\ table'.schema = table.schema /\ table'.base_filter \in Seq(STRING)
    BY <2>1, <2>2 DEF QueryInv, SchemaInv, Defined, Configured
  <2> QED BY <1>1, <2>1, <2>3
          DEF QueryInv, SchemaInv, Stages, Defined, Asked, Searching, queryVars
<1> QED BY <1>2, <1>3, <1>4, <1>5 DEF Create, CreateNext, LoseMapping, Fail

\* A question.
LEMMA AskQuery ==
  ASSUME QueryInv, AskAll \/ AskCompare \/ AskLike
  PROVE  QueryInv'
<1>1. /\ stage = "created" /\ stage' = "asked" /\ UNCHANGED <<cmd, factory, index, table, hit>>
  BY DEF AskAll, AskCompare, AskLike, Ask
<1>2. /\ filter'.op \in Comparison =>
           filter'.lit \in Literal /\ Typed(table.schema["f"], filter'.lit)
      /\ filter'.op \in {"like", "ilike"} => filter'.pattern \in Pattern
  <2>1. CASE AskAll
    BY <2>1 DEF AskAll, Ask, NoFilter, Comparison
  <2>2. CASE AskCompare
    BY <2>2 DEF AskCompare, Ask, Compare, Comparison
  <2>3. CASE AskLike
    BY <2>3, TableQueryAssumption DEF AskLike, Ask, Like, Comparison
  <2> QED BY <2>1, <2>2, <2>3
<1> QED BY <1>1, <1>2
        DEF QueryInv, SchemaInv, FilterInv, Typed, Stages, Defined, Asked, Searching

\* The request.
LEMMA SearchQuery ==
  ASSUME QueryInv, Search
  PROVE  QueryInv'
<1>1. PICK projected \in (SUBSET DOMAIN table.schema) \ {{}} :
        /\ body' = SearchBody(table, projected, filter)
        /\ plan' = [exec |-> ScanOf(table), projected |-> projected]
  BY DEF Search
<1>2. /\ stage = "asked" /\ stage' = "searching"
      /\ UNCHANGED <<cmd, factory, index, table, filter, hit>>
  BY DEF Search
<1>3. BodyInv'
  BY <1>1, <1>2 DEF BodyInv
<1> QED BY <1>2, <1>3
        DEF QueryInv, SchemaInv, FilterInv, Typed, Stages, Defined, Asked, Searching

\* The reply.
LEMMA ReadQuery ==
  ASSUME QueryInv, Read \/ ReadNothing
  PROVE  QueryInv'
<1>1. /\ stage = "searching" /\ stage' \in {"read", "failed"} /\ ~hit
      /\ UNCHANGED <<cmd, factory, index, table, filter, body, plan>>
  BY DEF QueryInv, Read, ReadNothing, Fail, queryVars
<1>2. /\ [cmd |-> cmd', factory |-> factory', index |-> index'] \in Scenario
      /\ stage' \in Stages
  BY <1>1 DEF QueryInv, Stages
<1>3. SchemaInv' /\ FilterInv' /\ BodyInv'
  BY <1>1 DEF QueryInv, SchemaInv, FilterInv, Typed, BodyInv, Defined, Asked, Searching
<1>4. ASSUME stage' = "read" PROVE ReadInv'
  <2>1. CASE Read
    <3>1. PICK json \in {j \in Source : Accepts(index, j)} :
            /\ document' = json /\ hit' \in MayMatch(index, json)
            /\ hit' => row' = [c \in plan.projected |-> ReadCell(table.schema[c], InHit(c, json))]
      BY <1>4, <2>1 DEF Read, Fail
    <3>2. index \in Mappings
      BY <2>1 DEF Read
    <3>3. MayMatch(index, document)' = MayMatch(index, json)
      BY <1>1, <3>1 DEF MayMatch
    <3>4. row' = [c \in plan.projected |-> ReadCell(table.schema[c], InHit(c, json))] =>
            row' = [c \in plan'.projected |-> ReadCell(table'.schema[c], InHit(c, document)')]
      BY <1>1, <3>1 DEF InHit
    <3> QED BY <1>1, <3>1, <3>2, <3>3, <3>4 DEF ReadInv
  <2>2. CASE ReadNothing
    BY <1>1, <2>2 DEF ReadNothing, ReadInv, queryVars
  <2> QED BY <2>1, <2>2
<1> QED BY <1>1, <1>2, <1>3, <1>4 DEF QueryInv

\* The invariant holds at every stage of every statement and query.
THEOREM QueryInvariant == Spec => []QueryInv
<1>1. QueryInv /\ [Next]_vars => QueryInv'
  <2> SUFFICES ASSUME QueryInv, [Next]_vars PROVE QueryInv'
    OBVIOUS
  <2>1. CASE UNCHANGED vars
    BY <2>1 DEF vars, createVars, queryVars, QueryInv, SchemaInv, FilterInv, Typed, BodyInv,
                ReadInv, MayMatch, InHit
  <2> QED BY <2>1, CreateQuery, AskQuery, SearchQuery, ReadQuery DEF Next
<1> QED BY <1>1, InitQuery, PTL DEF Spec
-----------------------------------------------------------------------------
(* Conversions.                                                            *)

\* serde_json's values, over all integers.
JsonValue == [json : JsonKinds, v : Int]

\* A cell is there, and knows its kind and value.
LEMMA CellFacts ==
  \A v \in Int : \A kind \in {"text", "number", "bool", "instant"} :
    Cell(kind, v) # None /\ Cell(kind, v).cell = kind /\ Cell(kind, v).v = v
<1> SUFFICES ASSUME NEW v \in Int, NEW kind \in {"text", "number", "bool", "instant"}
             PROVE  Cell(kind, v) # None /\ Cell(kind, v).cell = kind /\ Cell(kind, v).v = v
  OBVIOUS
<1>1. Cell(kind, v) \in [cell : {"text", "number", "bool", "instant"}, v : Int]
  BY DEF Cell
<1>2. Cell(kind, v) # None
  <2> DEFINE cell == Cell(kind, v)
  <2>1. cell \in [cell : {"text", "number", "bool", "instant"}, v : Int]
    BY <1>1
  <2> HIDE DEF cell
  <2>2. cell # None
    BY <2>1, CoercionAssumption, Zenon
  <2> QED BY <2>2 DEF cell
<1>3. Cell(kind, v).cell = kind /\ Cell(kind, v).v = v
  BY DEF Cell
<1> QED BY <1>2, <1>3

\* Halving and doubling, rounding to milliseconds.
LEMMA Halves == \A v \in Int : /\ v % 2 = 0 => v \div 2 \in Int /\ 2 * (v \div 2) = v
                               /\ (2 * v) % 2 = 0 /\ (2 * v) \div 2 = v
OBVIOUS

\* Of four ticks to the millisecond.
LEMMA Quarters ==
  \A v \in Int : /\ v \div 4 \in Int
                 /\ 4 * (v \div 4) <= v /\ v < 4 * (v \div 4) + 4
                 /\ v % 4 = 0 => 4 * (v \div 4) = v
                 /\ (4 * v) % 4 = 0
OBVIOUS

\* Truncating a whole number of halves is halving it.
LEMMA TruncatedWhole == \A v \in Int : Truncated(2 * v) = v
<1> SUFFICES ASSUME NEW v \in Int PROVE Truncated(2 * v) = v
  OBVIOUS
<1>1. CASE v >= 0
  BY <1>1, Halves DEF Truncated
<1>2. CASE v < 0
  <2>1. -(2 * v) = 2 * (-v) /\ -v \in Int
    OBVIOUS
  <2>2. (2 * (-v)) \div 2 = -v
    BY <2>1, Halves
  <2> QED BY <1>2, <2>1, <2>2 DEF Truncated
<1> QED BY <1>1, <1>2

\* primitive_integer makes the number that is there, or null, of all that fits 64 bits.
LEMMA IntCellKeeps ==
  ASSUME NEW type \in IntTypes, NEW json \in JsonValue
  PROVE  IntCell(type, json) \in {None, FloatCell(json)} \/ Truncated(FloatCell(json).v) \notin I64
<1>1. json.v \in Int
  BY DEF JsonValue
<1>2. CASE json.json = "int"
  <2>1. FloatCell(json) = Cell("number", 2 * json.v) /\ FloatCell(json).v = 2 * json.v
    BY <1>2 DEF FloatCell, Cell
  <2>2. CASE json.v \in I64
    BY <1>2, <2>1, <2>2 DEF IntCell, AsInteger
  <2>3. CASE json.v \notin I64
    BY <1>1, <2>1, <2>3, TruncatedWhole
  <2> QED BY <2>2, <2>3
<1>3. CASE json.json = "float"
  <2>1. FloatCell(json) = Cell("number", json.v) /\ FloatCell(json).v = json.v
    BY <1>3 DEF FloatCell, Cell
  <2>2. CASE json.v % 2 # 0
    BY <1>3, <2>2 DEF IntCell, AsInteger
  <2>3. CASE json.v % 2 = 0
    <3>1. json.v \div 2 \in Int /\ 2 * (json.v \div 2) = json.v
      BY <1>1, <2>3, Halves
    <3>2. Truncated(json.v) = json.v \div 2
      BY <3>1, TruncatedWhole
    <3>3. AsInteger(json) = Saturating(json.v \div 2)
      BY <1>3, <2>3 DEF AsInteger
    <3>4. ASSUME json.v \div 2 \in I64 PROVE IntCell(type, json) \in {None, FloatCell(json)}
      <4>1. AsInteger(json) = json.v \div 2
        BY <3>3, <3>4 DEF Saturating
      <4> QED BY <2>1, <3>1, <4>1 DEF IntCell
    <3> QED BY <2>1, <3>2, <3>4
  <2> QED BY <2>2, <2>3
<1>4. CASE json.json \notin {"int", "float"}
  BY <1>4 DEF IntCell, AsInteger
<1> QED BY <1>2, <1>3, <1>4

\* primitive_integer keeps a whole number its type has room for.
LEMMA IntCellHolds ==
  ASSUME NEW type \in IntTypes, NEW json \in JsonValue, json.json \in {"int", "float"},
         FloatCell(json).v % 2 = 0, FloatCell(json).v \div 2 \in IntRange(type),
         FloatCell(json).v \div 2 \in I64
  PROVE  IntCell(type, json) = FloatCell(json)
<1>1. json.v \in Int
  BY DEF JsonValue
<1>2. CASE json.json = "int"
  <2>1. FloatCell(json) = Cell("number", 2 * json.v) /\ FloatCell(json).v = 2 * json.v
    BY <1>2 DEF FloatCell, Cell
  <2>2. (2 * json.v) \div 2 = json.v
    BY <1>1, Halves
  <2>3. json.v \in I64 /\ json.v \in IntRange(type)
    BY <2>1, <2>2
  <2>4. AsInteger(json) = json.v
    BY <1>2, <2>3 DEF AsInteger
  <2>5. json.v # None
    BY <1>1, CoercionAssumption
  <2> QED BY <2>1, <2>3, <2>4, <2>5 DEF IntCell, Fits
<1>3. CASE json.json = "float"
  <2>1. FloatCell(json) = Cell("number", json.v) /\ FloatCell(json).v = json.v
    BY <1>3 DEF FloatCell, Cell
  <2>2. 2 * (json.v \div 2) = json.v /\ json.v \div 2 \in Int
    BY <1>1, <2>1, Halves
  <2>3. Saturating(json.v \div 2) = json.v \div 2
    BY <2>1 DEF Saturating
  <2>4. AsInteger(json) = json.v \div 2
    BY <1>3, <2>1, <2>3 DEF AsInteger
  <2>5. json.v \div 2 # None
    BY <2>2, CoercionAssumption
  <2>6. json.v \div 2 \in IntRange(type)
    BY <2>1
  <2> QED BY <2>1, <2>2, <2>4, <2>5, <2>6 DEF IntCell, Fits
<1> QED BY <1>2, <1>3

\* A number column shows no number but the document's.
THEOREM ShowsNoOtherNumber == Spec => []NoOtherNumber
<1>1. QueryInv => NoOtherNumber
  <2> SUFFICES ASSUME QueryInv, stage = "read", hit, "f" \in plan.projected,
                      table.schema["f"] \in IntTypes
               PROVE  \/ row["f"] \in {None, FloatCell(document)}
                      \/ Truncated(FloatCell(document).v) \notin I64
    BY DEF NoOtherNumber
  <2>1. ReadInv /\ BodyInv /\ document \in JsonValue
    BY TableQueryAssumption DEF QueryInv, ReadInv, Searching, JsonValue
  <2>2. row["f"] = ReadCell(table.schema["f"], InHit("f", document))
    BY <2>1 DEF ReadInv
  <2>3. InHit("f", document) = document
    BY <2>1 DEF BodyInv, SearchBody, InHit
  <2>4. row["f"] = IntCell(table.schema["f"], document)
    BY <2>2, <2>3 DEF ReadCell, IntTypes, StringTypes
  <2> QED BY <2>1, <2>4, IntCellKeeps
<1> QED BY <1>1, QueryInvariant, PTL
-----------------------------------------------------------------------------
(* What the index holds of a value it accepted, by the class of the        *)
(* mapping type.                                                           *)

\* Texts.
LEMMA IndexedText ==
  ASSUME NEW mapping \in TextMappings, NEW json \in JsonValue, Indexed(mapping, json) # None
  PROVE  /\ json.json # "null" /\ Indexed(mapping, json).cell = "text"
         /\ mapping # "text" \/ json.json # "word" => Indexed(mapping, json) = Place(json)
<1>1. \A j : Place(j).cell = "text"
  BY DEF Place, Cell
<1>2. json.json # "null" /\ mapping \notin OpaqueMappings
  BY DEF Indexed
<1>3. Indexed(mapping, json) = IF mapping = "text" /\ json.json = "word"
                                 THEN Place(Json("word", 2 * (json.v \div 2))) ELSE Place(json)
  BY <1>2 DEF Indexed, TextMappings, IntegerMappings, FloatMappings
<1> QED BY <1>1, <1>2, <1>3

\* Numbers.
LEMMA IndexedNumber ==
  ASSUME NEW mapping \in IntegerMappings \cup FloatMappings, NEW json \in JsonValue,
         Accepts(mapping, json), Indexed(mapping, json) # None
  PROVE  /\ json.json \in {"int", "float"} /\ Indexed(mapping, json).cell = "number"
         /\ ~(mapping \in IntegerMappings /\ json.json = "float") =>
              Indexed(mapping, json) = FloatCell(json)
<1>1. json.json \in {"int", "float"} /\ mapping \notin TextMappings
  BY DEF Indexed, Accepts, IntegerMappings, TextMappings, FloatMappings, DateMappings
<1>2. Indexed(mapping, json) = IF mapping \in IntegerMappings /\ json.json = "float"
                                 THEN Cell("number", 2 * Truncated(json.v)) ELSE FloatCell(json)
  BY <1>1 DEF Indexed, IntegerMappings, FloatMappings
<1>3. FloatCell(json).cell = "number"
  BY <1>1 DEF FloatCell, Cell
<1> QED BY <1>1, <1>2, <1>3 DEF Cell

\* Booleans.
LEMMA IndexedBoolean ==
  ASSUME NEW json \in JsonValue, Accepts("boolean", json), Indexed("boolean", json) # None
  PROVE  /\ json.json = "bool" /\ Indexed("boolean", json).cell = "bool"
         /\ Indexed("boolean", json) = Cell("bool", json.v)
<1>1. json.json = "bool"
  BY DEF Indexed, Accepts, IntegerMappings, TextMappings, FloatMappings, DateMappings
<1>2. Indexed("boolean", json) = BooleanCell(json)
  BY <1>1 DEF Indexed, IntegerMappings, TextMappings, FloatMappings, OpaqueMappings
<1> QED BY <1>1, <1>2 DEF BooleanCell, Cell

\* Instants.
LEMMA IndexedInstant ==
  ASSUME NEW mapping \in DateMappings, NEW json \in JsonValue,
         Accepts(mapping, json), Indexed(mapping, json) # None
  PROVE  /\ json.json = "iso" \/ (json.json = "int" /\ json.v \in I64)
         /\ Indexed(mapping, json) =
              Cell("instant", IF json.json = "int" THEN 4 * json.v
                              ELSE IF mapping = "date" THEN 4 * (json.v \div 4) ELSE json.v)
         /\ Indexed(mapping, json).cell = "instant"
<1>1. json.json = "iso" \/ (json.json = "int" /\ json.v \in I64)
  BY DEF Indexed, Accepts, IntegerMappings, TextMappings, FloatMappings, DateMappings
<1>2. CASE mapping = "date"
  <2>1. Indexed(mapping, json) =
          Cell("instant", Milli * IF json.json = "iso" THEN Millis(json.v) ELSE json.v)
    BY <1>1, <1>2 DEF Indexed, IntegerMappings, TextMappings, FloatMappings, OpaqueMappings
  <2> QED BY <1>1, <1>2, <2>1 DEF Cell, Milli, Millis
<1>3. CASE mapping = "date_nanos"
  <2>1. Indexed(mapping, json) =
          Cell("instant", IF json.json = "iso" THEN json.v ELSE Milli * json.v)
    BY <1>1, <1>3 DEF Indexed, IntegerMappings, TextMappings, FloatMappings, OpaqueMappings
  <2> QED BY <1>1, <1>3, <2>1 DEF Cell, Milli
<1> QED BY <1>2, <1>3 DEF DateMappings

\* The kind of what is held is the kind of its mapping, so an inferred column is of it.
LEMMA IndexedKind ==
  ASSUME NEW mapping \in Mappings, NEW json \in JsonValue, Accepts(mapping, json),
         NEW i, i = Indexed(mapping, json), i # None
  PROVE  /\ \/ i.cell = "text" /\ mapping \in TextMappings
            \/ i.cell = "number" /\ mapping \in IntegerMappings \cup FloatMappings
            \/ i.cell = "bool" /\ mapping = "boolean"
            \/ i.cell = "instant" /\ mapping \in DateMappings
         /\ i.cell = KindOf(ArrowTypeFor(mapping))
<1>1. /\ mapping \in TextMappings    => KindOf(ArrowTypeFor(mapping)) = "text"
      /\ mapping \in IntegerMappings \cup FloatMappings => KindOf(ArrowTypeFor(mapping)) = "number"
      /\ mapping = "boolean"         => KindOf(ArrowTypeFor(mapping)) = "bool"
      /\ mapping \in DateMappings    => KindOf(ArrowTypeFor(mapping)) = "instant"
  BY DEF KindOf, ArrowTypeFor, TextMappings, IntegerMappings, FloatMappings, DateMappings,
         StringTypes, IntTypes
<1>2. mapping \notin OpaqueMappings
  BY DEF Indexed
<1>3. /\ mapping \in TextMappings => i.cell = "text"
      /\ mapping \in IntegerMappings \cup FloatMappings => i.cell = "number"
      /\ mapping = "boolean" => i.cell = "bool"
      /\ mapping \in DateMappings => i.cell = "instant"
  BY IndexedText, IndexedNumber, IndexedBoolean, IndexedInstant
<1>4. \/ mapping \in TextMappings \/ mapping \in IntegerMappings \cup FloatMappings
      \/ mapping = "boolean" \/ mapping \in DateMappings
  BY <1>2 DEF Mappings
<1> QED BY <1>1, <1>3, <1>4

\* build_batch reads from the document what the index holds of it, when the column
\* has room for it and the index kept what was written.
LEMMA ReadsIndexed ==
  ASSUME NEW mapping \in Mappings, NEW json \in JsonValue, Accepts(mapping, json),
         NEW type \in ArrowTypes, NEW i, i = Indexed(mapping, json), i # None,
         i.cell = KindOf(type), CanHold(type, i),
         mapping # "text", ~(mapping \in IntegerMappings /\ json.json = "float")
  PROVE  ReadCell(type, json) = i
<1>0. json.v \in Int
  BY DEF JsonValue
<1>1. CASE type \in StringTypes
  <2>1. i.cell = "text"
    BY <1>1 DEF KindOf, StringTypes, IntTypes
  <2>2. mapping \in TextMappings
    BY <2>1, IndexedKind
  <2>3. i = Place(json) /\ json.json # "null"
    BY <2>2, IndexedText
  <2> QED BY <1>1, <2>3 DEF ReadCell, JsonText, StringTypes, IntTypes
<1>2. CASE type \in IntTypes \cup {"Float32", "Float64"}
  <2>1. i.cell = "number"
    BY <1>2 DEF KindOf, IntTypes, StringTypes
  <2>2. mapping \in IntegerMappings \cup FloatMappings
    BY <2>1, IndexedKind
  <2>3. json.json \in {"int", "float"} /\ i = FloatCell(json)
    BY <2>2, IndexedNumber
  <2>4. CASE type \in IntTypes
    <3>1. ReadCell(type, json) = IntCell(type, json)
      BY <2>4 DEF ReadCell, IntTypes, StringTypes
    <3>2. i.v % 2 = 0 /\ i.v \div 2 \in IntRange(type) /\ i.v \div 2 \in I64
      BY <2>4 DEF CanHold, IntTypes
    <3> QED BY <2>3, <2>4, <3>1, <3>2, IntCellHolds
  <2>5. CASE type = "Float32"
    <3>1. ToF32(i.v) = i.v
      BY <2>5 DEF CanHold, IntTypes
    <3>2. i = Cell("number", i.v)
      BY <2>3 DEF FloatCell, Cell
    <3> QED BY <2>3, <2>5, <3>1, <3>2 DEF ReadCell, Float32Cell, IntTypes, StringTypes
  <2>6. CASE type = "Float64"
    BY <2>3, <2>6 DEF ReadCell, IntTypes, StringTypes
  <2> QED BY <1>2, <2>4, <2>5, <2>6
<1>3. CASE type = "Boolean"
  <2>1. i.cell = "bool"
    BY <1>3 DEF KindOf, IntTypes, StringTypes
  <2>2. mapping = "boolean"
    BY <2>1, IndexedKind
  <2>3. json.json = "bool" /\ i = Cell("bool", json.v)
    BY <2>2, IndexedBoolean
  <2> QED BY <1>3, <2>3 DEF ReadCell, BooleanCell, IntTypes, StringTypes
<1>4. CASE type = "Timestamp(ms)"
  <2>1. i.cell = "instant"
    BY <1>4 DEF KindOf, IntTypes, StringTypes
  <2>2. mapping \in DateMappings
    BY <2>1, IndexedKind
  <2>3. /\ json.json = "iso" \/ (json.json = "int" /\ json.v \in I64)
        /\ i = Cell("instant", IF json.json = "int" THEN 4 * json.v
                               ELSE IF mapping = "date" THEN 4 * (json.v \div 4) ELSE json.v)
    BY <2>2, IndexedInstant
  <2>4. ReadCell(type, json) = TimestampCell(json)
    BY <1>4 DEF ReadCell, IntTypes, StringTypes
  <2>5. i.v % 4 = 0
    BY <1>4 DEF CanHold, IntTypes, Milli
  <2>6. CASE json.json = "int"
    BY <2>3, <2>4, <2>6 DEF TimestampCell, Saturating, Milli
  <2>7. CASE json.json = "iso"
    <3>1. i = Cell("instant", 4 * (json.v \div 4)) \/ (i = Cell("instant", json.v) /\ i.v = json.v)
      BY <2>3, <2>7 DEF Cell
    <3>2. i = Cell("instant", 4 * (json.v \div 4))
      BY <1>0, <2>5, <3>1, Quarters
    <3> QED BY <2>4, <2>7, <3>2 DEF TimestampCell, Millis, Milli
  <2> QED BY <2>3, <2>6, <2>7
<1>5. CASE type = "other"
  <2>1. i.cell = "none"
    BY <1>5 DEF KindOf, IntTypes, StringTypes
  <2> QED BY <2>1, IndexedKind
<1> QED BY <1>1, <1>2, <1>3, <1>4, <1>5 DEF ArrowTypes

\* The cell of a hit is the value the index searched.
THEOREM ReadsWhatIsIndexed == Spec => []ReadAsIndexed
<1>1. QueryInv => ReadAsIndexed
  <2> DEFINE i == Indexed(index, document)
             type == table.schema["f"]
  <2> SUFFICES ASSUME QueryInv, stage = "read", hit, "f" \in plan.projected,
                      i # None, cmd.columns = NoColumns \/ i.cell = KindOf(type),
                      CanHold(type, i), index # "text",
                      ~(index \in IntegerMappings /\ document.json = "float")
               PROVE  row["f"] = i
    BY DEF ReadAsIndexed
  <2> HIDE DEF i, type
  <2>1. /\ ReadInv /\ BodyInv /\ SchemaInv
        /\ index \in Mappings /\ document \in JsonValue /\ Accepts(index, document)
    BY TableQueryAssumption DEF QueryInv, ReadInv, Searching, Defined, JsonValue
  <2>2. row["f"] = ReadCell(type, document)
    <3>1. row["f"] = ReadCell(type, InHit("f", document))
      BY <2>1 DEF ReadInv, type
    <3>2. InHit("f", document) = document
      BY <2>1 DEF BodyInv, SearchBody, InHit
    <3> QED BY <3>1, <3>2
  <2>3. type \in ArrowTypes
    BY <2>1 DEF SchemaInv, Columns, type
  <2>4. i.cell = KindOf(type)
    <3>1. ASSUME cmd.columns = NoColumns PROVE i.cell = KindOf(ArrowTypeFor(index))
      BY <2>1, IndexedKind DEF i
    <3> QED BY <2>1, <3>1 DEF SchemaInv, type
  <2>5. ReadCell(type, document) = i
    BY <2>1, <2>3, <2>4, ReadsIndexed DEF i
  <2> QED BY <2>2, <2>5
<1> QED BY <1>1, QueryInvariant, PTL
-----------------------------------------------------------------------------
(* What a pushed comparison finds.                                         *)

\* A body whose only clause is a comparison has that of the filter, and a document
\* is found just when it matches.
LEMMA OnlyClause ==
  ASSUME QueryInv, stage = "read", index \in Mappings,
         Len(body.filter) = 1, body.filter[1].op \in Comparison
  PROVE  /\ filter.op \in Comparison /\ ScalarToJson(filter.lit) # None
         /\ body.filter[1] = [op |-> filter.op, like |-> None, lit |-> ScalarToJson(filter.lit)]
         /\ hit <=> MatchesClause(body.filter[1], index, document)
<1>1. SchemaInv /\ BodyInv /\ ReadInv
  BY DEF QueryInv, Searching, Defined
<1> DEFINE base == [n \in DOMAIN table.base_filter |-> Base(table.base_filter[n])]
<1>2. body.filter = base \o Pushed(filter)
  BY <1>1 DEF BodyInv, SearchBody
<1>3. DOMAIN base = 1..Len(table.base_filter) /\ Len(table.base_filter) \in Nat
  BY <1>1 DEF SchemaInv
<1>4. Len(base) = Len(table.base_filter) /\ \A n \in DOMAIN base : base[n].op = "base"
  <2>1. base = [n \in 1..Len(table.base_filter) |-> Base(table.base_filter[n])]
    BY <1>3
  <2>2. Len(base) = Len(table.base_filter)
    BY <1>3, <2>1
  <2>3. ASSUME NEW n \in DOMAIN base PROVE base[n].op = "base"
    BY DEF Base
  <2> QED BY <2>2, <2>3
<1>5. Pushed(filter) = <<>> \/ \E c : Pushed(filter) = <<c>>
  BY DEF Pushed, Comparison
<1>6. Len(Pushed(filter)) \in {0, 1}
  BY <1>5
<1>7. Len(body.filter) = Len(base) + Len(Pushed(filter))
  BY <1>2, <1>3, <1>4, <1>5
<1>8. Len(base) = 0
  <2> SUFFICES ASSUME Len(base) # 0 PROVE FALSE
    OBVIOUS
  <2>1. Len(base) >= 1 /\ 1 \in DOMAIN base
    BY <1>3, <1>4
  <2>2. body.filter[1] = base[1]
    BY <1>2, <1>3, <1>4, <1>5, <2>1
  <2> QED BY <1>4, <2>1, <2>2 DEF Comparison
<1>9. body.filter[1] = Pushed(filter)[1] /\ Len(Pushed(filter)) = 1
  BY <1>2, <1>3, <1>4, <1>5, <1>6, <1>7, <1>8
<1>10. /\ filter.op \in Comparison /\ ScalarToJson(filter.lit) # None
       /\ body.filter[1] = [op |-> filter.op, like |-> None, lit |-> ScalarToJson(filter.lit)]
  <2>1. CASE filter.op \in {"like", "ilike"}
    <3>1. Pushed(filter)[1].op = filter.op
      BY <2>1 DEF Pushed
    <3> QED BY <1>9, <2>1, <3>1 DEF Comparison
  <2>2. CASE filter.op \notin {"like", "ilike"}
    BY <1>9, <2>2 DEF Pushed
  <2> QED BY <2>1, <2>2
<1>11. hit <=> MatchesClause(body.filter[1], index, document)
  <2>1. DOMAIN body.filter = {1}
    BY <1>2, <1>3, <1>4, <1>5, <1>7
  <2>2. {n \in DOMAIN body.filter : body.filter[n].op \in Comparison} = {1}
    BY <2>1
  <2> DEFINE followed == {n \in DOMAIN body.filter : body.filter[n].op \in Comparison}
             each     == \A n \in followed : MatchesClause(body.filter[n], index, document)
  <2>3. MayMatch(index, document) = {each}
    <3>1. followed = DOMAIN body.filter
      BY <2>1, <2>2
    <3>2. MayMatch(index, document) = IF each /\ followed # DOMAIN body.filter THEN BOOLEAN ELSE {each}
      BY DEF MayMatch
    <3> HIDE DEF each, followed
    <3> QED BY <3>1, <3>2
  <2>4. hit = each
    <3> HIDE DEF each
    <3> QED BY <1>1, <2>3 DEF ReadInv
  <2> QED BY <2>2, <2>4
<1> QED BY <1>10, <1>11

\* The milliseconds of an instant, rounded down.
LEMMA InstantLiteral ==
  ASSUME NEW lit, lit.v \in Int, NonNullToJson(lit) # None,
         lit.scalar \in {"TimestampSecond", "TimestampMillisecond", "TimestampMicrosecond",
                        "TimestampNanosecond", "Date32"}
  PROVE  \E ticks, n \in Int : /\ NonNullToJson(lit) = Json("int", n)
                               /\ ScalarCell(lit) = Cell("instant", ticks)
                               /\ 4 * n = ticks \/ n = ticks \div 4
<1>1. CASE lit.scalar = "TimestampSecond"
  <2>1. NonNullToJson(lit) = Json("int", lit.v * 2)
    BY <1>1 DEF NonNullToJson, Seconds, MillisOfSecond
  <2>2. ScalarCell(lit) = Cell("instant", lit.v * 2 * 4)
    BY <1>1 DEF ScalarCell, MillisOfSecond, Milli
  <2>3. lit.v * 2 \in Int /\ lit.v * 2 * 4 \in Int /\ 4 * (lit.v * 2) = lit.v * 2 * 4
    OBVIOUS
  <2> QED BY <2>1, <2>2, <2>3
<1>2. CASE lit.scalar = "TimestampMillisecond"
  <2>1. NonNullToJson(lit) = Json("int", lit.v) /\ ScalarCell(lit) = Cell("instant", lit.v * 4)
    BY <1>2 DEF NonNullToJson, ScalarCell, Milli
  <2>2. lit.v * 4 \in Int /\ 4 * lit.v = lit.v * 4
    OBVIOUS
  <2> QED BY <2>1, <2>2
<1>3. CASE lit.scalar = "TimestampMicrosecond"
  <2>1. /\ NonNullToJson(lit) = Json("int", (lit.v * 2) \div 4)
        /\ ScalarCell(lit) = Cell("instant", lit.v * 2)
    BY <1>3 DEF NonNullToJson, DivEuclid, ScalarCell, Micro, Milli
  <2>2. lit.v * 2 \in Int /\ (lit.v * 2) \div 4 \in Int
    OBVIOUS
  <2> QED BY <2>1, <2>2
<1>4. CASE lit.scalar = "TimestampNanosecond"
  <2>1. /\ NonNullToJson(lit) = Json("int", lit.v \div 4)
        /\ ScalarCell(lit) = Cell("instant", lit.v)
    BY <1>4 DEF NonNullToJson, DivEuclid, ScalarCell, Milli
  <2>2. lit.v \div 4 \in Int
    OBVIOUS
  <2> QED BY <2>1, <2>2
<1>5. CASE lit.scalar = "Date32"
  <2>1. /\ NonNullToJson(lit) = Json("int", lit.v * 4)
        /\ ScalarCell(lit) = Cell("instant", lit.v * 4 * 4)
    BY <1>5 DEF NonNullToJson, ScalarCell, MillisOfDay, Milli
  <2>2. lit.v * 4 \in Int /\ lit.v * 4 * 4 \in Int /\ 4 * (lit.v * 4) = lit.v * 4 * 4
    OBVIOUS
  <2> QED BY <2>1, <2>2
<1> QED BY <1>1, <1>2, <1>3, <1>4, <1>5

\* An index takes the JSON of a literal for the value the literal has, or, of an
\* instant finer than a millisecond, for the millisecond it is in.
LEMMA QueryMeansLiteral ==
  ASSUME NEW mapping \in Mappings, NEW lit \in [scalar : ScalarTypes, v : Int],
         lit # Scalar("Float64", NaN), ScalarToJson(lit) # None,
         NEW kind,
         kind = ScalarCell(lit).cell,
         \/ kind = "text" /\ mapping \in TextMappings
         \/ kind = "number" /\ mapping \in IntegerMappings \cup FloatMappings
         \/ kind = "bool" /\ mapping = "boolean"
         \/ kind = "instant" /\ mapping \in DateMappings,
         NEW q, q = QueryCell(mapping, ScalarToJson(lit))
  PROVE  /\ ScalarToJson(lit).json # "null" /\ q # None /\ q.cell = kind
         /\ ScalarCell(lit).v \in Int
         /\ \/ q.v = ScalarCell(lit).v
            \/ kind = "instant" /\ q.v = 4 * (ScalarCell(lit).v \div 4)
<1> DEFINE json == ScalarToJson(lit)
<1>1. lit.v \in Int /\ lit.v # None /\ lit.scalar \in ScalarTypes \ {"other"}
  BY CoercionAssumption DEF ScalarToJson, NonNullToJson, ScalarTypes
<1>2. json = NonNullToJson(lit)
  BY <1>1 DEF ScalarToJson
<1> HIDE DEF json
<1>3. CASE lit.scalar = "Utf8"
  <2>1. json = Json("word", lit.v) /\ ScalarCell(lit) = Place(Json("word", lit.v))
    BY <1>2, <1>3 DEF NonNullToJson, ScalarCell
  <2>2. /\ Place(Json("word", lit.v)) = Cell("text", 5000 + lit.v)
        /\ 5000 + lit.v \in Int /\ json.json = "word"
    BY <1>1, <2>1 DEF Place, Json
  <2>3. /\ Cell("text", 5000 + lit.v) # None /\ Cell("text", 5000 + lit.v).cell = "text"
        /\ Cell("text", 5000 + lit.v).v = 5000 + lit.v
    BY <2>2, CellFacts
  <2>4. q = Place(json)
    BY <2>1, <2>2, <2>3 DEF QueryCell, json, TextMappings, IntegerMappings
  <2> QED BY <2>1, <2>2, <2>3, <2>4 DEF json
<1>4. CASE lit.scalar = "Boolean"
  <2>1. json = Json("bool", lit.v) /\ ScalarCell(lit) = Cell("bool", lit.v)
    BY <1>2, <1>4 DEF NonNullToJson, ScalarCell
  <2>0. /\ Cell("bool", lit.v) # None /\ Cell("bool", lit.v).cell = "bool"
        /\ Cell("bool", lit.v).v = lit.v
    BY <1>1, CellFacts
  <2>2. kind = "bool" /\ mapping = "boolean"
    BY <2>0, <2>1
  <2>3. q = BooleanCell(json)
    BY <2>1, <2>2
       DEF QueryCell, Indexed, Json, json, TextMappings, IntegerMappings, FloatMappings, OpaqueMappings
  <2>4. q = Cell("bool", lit.v) /\ json.json = "bool"
    BY <2>1, <2>3 DEF BooleanCell, Json
  <2> QED BY <1>1, <2>0, <2>1, <2>2, <2>4 DEF json
<1>5. CASE lit.scalar \in {"Int64", "UInt64", "Float64"}
  <2>1. /\ json = Json(IF lit.scalar = "Float64" THEN "float" ELSE "int", lit.v)
        /\ ScalarCell(lit) = Cell("number", IF lit.scalar = "Float64" THEN lit.v ELSE 2 * lit.v)
    <3>1. lit.scalar = "Float64" => lit.v # NaN
      BY DEF Scalar
    <3> QED BY <1>2, <1>5, <3>1 DEF NonNullToJson, ScalarCell
  <2>2. FloatCell(json) = ScalarCell(lit) /\ json.json \in {"int", "float"}
    BY <1>5, <2>1 DEF FloatCell, Json
  <2>3. PICK halves \in Int : ScalarCell(lit) = Cell("number", halves)
    BY <1>1, <2>1
  <2>6. /\ Cell("number", halves) # None /\ Cell("number", halves).cell = "number"
        /\ Cell("number", halves).v = halves
    BY CellFacts
  <2>4. kind = "number" /\ mapping \in IntegerMappings \cup FloatMappings
    BY <2>3, <2>6
  <2>5. q = FloatCell(json)
    <3>1. CASE mapping \in IntegerMappings
      BY <3>1 DEF QueryCell, json, IntegerMappings, TextMappings
    <3>2. CASE mapping \in FloatMappings
      <4>1. q = Indexed(mapping, json)
        BY <3>2 DEF QueryCell, json, IntegerMappings, TextMappings, FloatMappings
      <4>2. json.json # "null" /\ mapping \notin OpaqueMappings
        BY <2>2, <3>2 DEF FloatMappings, OpaqueMappings
      <4> QED BY <3>2, <4>1, <4>2 DEF Indexed, IntegerMappings, TextMappings, FloatMappings
    <3> QED BY <2>4, <3>1, <3>2
  <2> QED BY <2>2, <2>3, <2>4, <2>5, <2>6 DEF json
<1>6. CASE lit.scalar \in {"TimestampSecond", "TimestampMillisecond", "TimestampMicrosecond",
                           "TimestampNanosecond", "Date32"}
  <2>1. PICK ticks \in Int, n \in Int :
          /\ json = Json("int", n) /\ ScalarCell(lit) = Cell("instant", ticks)
          /\ 4 * n = ticks \/ n = ticks \div 4
    BY <1>1, <1>2, <1>6, InstantLiteral DEF json
  <2>6. \A v \in Int : /\ Cell("instant", v) # None /\ Cell("instant", v).cell = "instant"
                      /\ Cell("instant", v).v = v
    BY CellFacts
  <2>2. kind = "instant" /\ mapping \in DateMappings /\ json.json = "int" /\ json.v = n
    BY <2>1, <2>6 DEF Json
  <2>3. q = Indexed(mapping, json)
    BY <2>2 DEF QueryCell, json, DateMappings, IntegerMappings, TextMappings
  <2>4. q = Cell("instant", 4 * n)
    <3>1. CASE mapping = "date"
      BY <2>2, <2>3, <3>1 DEF Indexed, IntegerMappings, TextMappings, FloatMappings, OpaqueMappings, Milli
    <3>2. CASE mapping = "date_nanos"
      BY <2>2, <2>3, <3>2 DEF Indexed, IntegerMappings, TextMappings, FloatMappings, OpaqueMappings, Milli
    <3> QED BY <2>2, <3>1, <3>2 DEF DateMappings
  <2>5. 4 * n \in Int
    OBVIOUS
  <2>7. Cell("instant", 4 * n).v = 4 * n /\ Cell("instant", 4 * n) # None
    BY <2>5, <2>6
  <2>8. ScalarCell(lit).v = ticks
    BY <2>1, <2>6
  <2> QED BY <2>1, <2>2, <2>4, <2>6, <2>7, <2>8 DEF json
<1> QED BY <1>1, <1>3, <1>4, <1>5, <1>6 DEF ScalarTypes

\* A reader makes a cell of the column's kind.
LEMMA ReadKind ==
  ASSUME NEW type \in ArrowTypes, Readable(type), NEW json \in JsonValue,
         ReadCell(type, json) # None
  PROVE  ReadCell(type, json).cell = KindOf(type)
<1>1. CASE type \in StringTypes
  <2>1. ReadCell(type, json) = Place(json)
    BY <1>1 DEF ReadCell, JsonText, StringTypes, IntTypes
  <2> QED BY <1>1, <2>1 DEF Place, Cell, KindOf, StringTypes, IntTypes
<1>2. CASE type \in IntTypes
  <2>1. ReadCell(type, json) = IntCell(type, json)
    BY <1>2 DEF ReadCell, StringTypes, IntTypes
  <2> QED BY <1>2, <2>1 DEF IntCell, Cell, KindOf, StringTypes, IntTypes
<1>3. CASE type \in {"Float32", "Float64"}
  <2>1. FloatCell(json) # None => FloatCell(json).cell = "number"
    BY DEF FloatCell, Cell
  <2>2. Float32Cell(json) # None => Float32Cell(json).cell = "number"
    BY DEF Float32Cell, Cell
  <2> QED BY <1>3, <2>1, <2>2 DEF ReadCell, KindOf, StringTypes, IntTypes
<1>4. CASE type = "Boolean"
  <2>1. ReadCell(type, json) = BooleanCell(json)
    BY <1>4 DEF ReadCell, StringTypes, IntTypes
  <2> QED BY <1>4, <2>1 DEF BooleanCell, Cell, KindOf, StringTypes, IntTypes
<1>5. CASE type = "Timestamp(ms)"
  <2>1. ReadCell(type, json) = TimestampCell(json)
    BY <1>5 DEF ReadCell, StringTypes, IntTypes
  <2>2. TimestampCell(json) # None => TimestampCell(json).cell = "instant"
    BY DEF TimestampCell, Cell
  <2> QED BY <1>5, <2>1, <2>2 DEF KindOf, StringTypes, IntTypes
<1> QED BY <1>1, <1>2, <1>3, <1>4, <1>5 DEF ArrowTypes, Readable

\* An instant that is read as it is indexed is a whole number of milliseconds.
LEMMA ReadInstantIsWhole ==
  ASSUME NEW mapping \in DateMappings, NEW json \in JsonValue, Accepts(mapping, json),
         NEW i, i = Indexed(mapping, json), i # None, i = TimestampCell(json)
  PROVE  \E m \in Int : i.v = 4 * m
<1>1. json.v \in Int
  BY DEF JsonValue
<1>2. json.json = "iso" \/ json.json = "int"
  BY IndexedInstant
<1>3. CASE json.json = "int"
  <2>1. i = Cell("instant", 4 * json.v)
    BY <1>3, IndexedInstant
  <2> QED BY <1>1, <2>1 DEF Cell
<1>4. CASE json.json = "iso"
  <2>1. i = Cell("instant", 4 * (json.v \div 4))
    BY <1>4 DEF TimestampCell, Millis, Milli
  <2>2. json.v \div 4 \in Int
    BY <1>1
  <2> QED BY <2>1, <2>2 DEF Cell
<1> QED BY <1>2, <1>3, <1>4

\* A whole number of milliseconds compares with the millisecond an instant is in as
\* with the instant itself, when the instant is whole, or for > and <=.
LEMMA RoundedComparison ==
  ASSUME NEW op \in Comparison, NEW m \in Int, NEW ticks \in Int,
         ticks % 4 = 0 \/ op \in {">", "<="}
  PROVE  Compares(op, 4 * m, 4 * (ticks \div 4)) <=> Compares(op, 4 * m, ticks)
<1>1. CASE ticks % 4 = 0
  <2>1. 4 * (ticks \div 4) = ticks
    BY <1>1, Quarters
  <2> QED BY <2>1
<1>2. CASE op \in {">", "<="}
  <2>1. PICK k \in Int : k = ticks \div 4 /\ 4 * k <= ticks /\ ticks < 4 * k + 4
    BY Quarters
  <2>2. 4 * m > 4 * k <=> 4 * m > ticks
    BY <2>1
  <2>3. 4 * m <= 4 * k <=> 4 * m <= ticks
    BY <2>1
  <2> QED BY <1>2, <2>1, <2>2, <2>3 DEF Compares
<1> QED BY <1>1, <1>2

\* A pushed comparison finds just the documents it is TRUE of.
THEOREM PushesAsFiltered == Spec => []PushedAsFiltered
<1>1. QueryInv => PushedAsFiltered
  <2> DEFINE i == Indexed(index, document)
             type == table.schema["f"]
             lit == filter.lit
             q == QueryCell(index, ScalarToJson(filter.lit))
  <2> SUFFICES ASSUME QueryInv, stage = "read", index \in Mappings,
                      Len(body.filter) = 1, body.filter[1].op \in Comparison,
                      Readable(type), Exact(filter.op, lit),
                      ReadCell(type, document) = i
               PROVE  hit <=> i # None /\ Compares(filter.op, i.v, ScalarCell(lit).v)
    BY Zenon DEF PushedAsFiltered
  <2> HIDE DEF i, type, lit, q
  <2>1. /\ filter.op \in Comparison /\ ScalarToJson(lit) # None
        /\ body.filter[1].op = filter.op /\ body.filter[1].lit = ScalarToJson(lit)
        /\ hit <=> MatchesClause(body.filter[1], index, document)
    BY OnlyClause DEF lit
  <2>2. CASE i = None
    BY <2>1, <2>2 DEF MatchesClause, i
  <2>3. CASE i # None
    <3>1. document \in JsonValue /\ Accepts(index, document) /\ type \in ArrowTypes
      BY TableQueryAssumption
         DEF QueryInv, ReadInv, SchemaInv, Columns, Searching, Defined, JsonValue, type
    <3>2. lit \in [scalar : ScalarTypes, v : Int] /\ ScalarCell(lit).cell = KindOf(type)
      <4>1. lit \in Literal /\ Typed(type, lit)
        BY <2>1 DEF QueryInv, FilterInv, Asked, lit, type
      <4>2. lit.v # None /\ lit.scalar # "other"
        BY <2>1 DEF ScalarToJson, NonNullToJson
      <4> QED BY <4>1, <4>2, TableQueryAssumption DEF Typed
    <3>3. i.cell = ScalarCell(lit).cell
      BY <2>3, <3>1, <3>2, ReadKind
    <3>4. \/ i.cell = "text" /\ index \in TextMappings
          \/ i.cell = "number" /\ index \in IntegerMappings \cup FloatMappings
          \/ i.cell = "bool" /\ index = "boolean"
          \/ i.cell = "instant" /\ index \in DateMappings
      BY <2>3, <3>1, IndexedKind DEF i
    <3>5. /\ ScalarToJson(lit).json # "null" /\ q # None /\ q.cell = i.cell
          /\ ScalarCell(lit).v \in Int
          /\ \/ q.v = ScalarCell(lit).v
             \/ i.cell = "instant" /\ q.v = 4 * (ScalarCell(lit).v \div 4)
      <4>1. lit # Scalar("Float64", NaN)
        BY DEF Exact
      <4>2. q = QueryCell(index, ScalarToJson(lit))
        BY DEF q, lit
      <4> QED BY <2>1, <3>2, <3>3, <3>4, <4>1, <4>2, QueryMeansLiteral
    <3>6. hit <=> Compares(filter.op, i.v, q.v)
      <4>1. MatchesClause(body.filter[1], index, document) <=>
              /\ i # None
              /\ \/ ScalarToJson(lit).json = "null"
                 \/ q # None /\ q.cell = i.cell /\ Compares(filter.op, i.v, q.v)
        BY <2>1 DEF MatchesClause, i, q, lit
      <4> QED BY <2>1, <2>3, <3>5, <4>1
    <3>7. Compares(filter.op, i.v, q.v) <=> Compares(filter.op, i.v, ScalarCell(lit).v)
      <4>1. CASE q.v = ScalarCell(lit).v
        BY <4>1
      <4>2. CASE i.cell = "instant" /\ q.v = 4 * (ScalarCell(lit).v \div 4)
        <5>1. index \in DateMappings
          BY <3>4, <4>2
        <5>2. type = "Timestamp(ms)"
          BY <3>1, <3>2, <3>3, <4>2 DEF KindOf, ArrowTypes, StringTypes, IntTypes
        <5>3. i = TimestampCell(document)
          BY <5>2 DEF ReadCell, StringTypes, IntTypes
        <5>4. PICK m \in Int : i.v = 4 * m
          BY <2>3, <3>1, <5>1, <5>3, ReadInstantIsWhole DEF i
        <5>5. ScalarCell(lit).v % 4 = 0 \/ filter.op \in {">", "<="}
          BY <3>3, <4>2 DEF Exact, Milli
        <5> QED BY <2>1, <3>5, <4>2, <5>4, <5>5, RoundedComparison
      <4> QED BY <3>5, <4>1, <4>2
    <3> QED BY <2>3, <3>6, <3>7
  <2> QED BY <2>2, <2>3
<1> QED BY <1>1, QueryInvariant, PTL
-----------------------------------------------------------------------------
(* LIKE.                                                                   *)

\* The last clause of the request is the one made of a LIKE.
LEMMA LastClause ==
  ASSUME QueryInv, stage = "searching", filter.op \in {"like", "ilike"}
  PROVE  /\ filter.pattern \in Pattern
         /\ body.filter[Len(body.filter)].like = LikeToQuery(filter.pattern, filter.op = "ilike")
<1> DEFINE clause == [op |-> filter.op, lit |-> None,
                      like |-> LikeToQuery(filter.pattern, filter.op = "ilike")]
           base == [i \in DOMAIN table.base_filter |-> Base(table.base_filter[i])]
           n == Len(table.base_filter)
           S == {Base(c) : c \in STRING} \cup {clause}
<1>1. SchemaInv /\ FilterInv /\ BodyInv
  BY DEF QueryInv, Defined, Asked, Searching
<1>2. filter.pattern \in Pattern
  BY <1>1 DEF FilterInv
<1>3. Pushed(filter) = <<clause>>
  BY DEF Pushed, Comparison
<1>4. body.filter = base \o <<clause>>
  BY <1>1, <1>3 DEF BodyInv, SearchBody
<1>5. n \in Nat /\ base \in Seq(S) /\ Len(base) = n
  <2>1. n \in Nat /\ DOMAIN table.base_filter = 1..n /\ \A i \in 1..n : table.base_filter[i] \in STRING
    BY <1>1 DEF SchemaInv
  <2>2. base \in [1..n -> S]
    BY <2>1
  <2> QED BY <2>1, <2>2
<1>6. clause.like = LikeToQuery(filter.pattern, filter.op = "ilike")
  OBVIOUS
<1>7. clause \in S
  OBVIOUS
<1> HIDE DEF clause, base, n, S
<1>8. Len(body.filter) = n + 1 /\ body.filter[n + 1] = clause
  BY <1>4, <1>5, <1>7
<1> QED BY <1>2, <1>6, <1>8

\* The clause made of a LIKE means what the pattern means, for every pattern over
\* every alphabet.
THEOREM LikesMeanPatterns == Spec => []LikeMeansPattern
<1>1. QueryInv => LikeMeansPattern
  <2> SUFFICES ASSUME QueryInv, stage = "searching", filter.op \in {"like", "ilike"},
                      ~Dangling(filter.pattern),
                      NEW clause, clause = body.filter[Len(body.filter)].like
               PROVE  /\ ClauseMeaning(clause) = Meaning(filter.pattern, "%", "_")
                      /\ clause.case_insensitive = (filter.op = "ilike")
    BY Zenon DEF LikeMeansPattern
  <2> DEFINE flag == filter.op = "ilike"
  <2>1. filter.pattern \in Pattern /\ clause = LikeToQuery(filter.pattern, flag)
    BY LastClause
  <2>2. clause.case_insensitive = flag
    <3> HIDE DEF flag
    <3> QED BY <2>1 DEF LikeToQuery
  <2>3. ClauseMeaning(clause) = Meaning(filter.pattern, "%", "_")
    <3> HIDE DEF flag
    <3>1. ClauseMeaning(LikeToQuery(filter.pattern, flag)) = Meaning(filter.pattern, "%", "_")
      BY <2>1, ClauseMeansPattern, Zenon
    <3> QED BY <2>1, <3>1, Zenon
  <2> QED BY <2>2, <2>3, Zenon
<1> QED BY <1>1, QueryInvariant, PTL

\* A prefix query is made of just the patterns whose only wildcard is a % at the end.
THEOREM PrefixesWhenSole == Spec => []PrefixWhenSole
<1>1. QueryInv => PrefixWhenSole
  <2> SUFFICES ASSUME QueryInv, stage = "searching", filter.op \in {"like", "ilike"},
                      ~Dangling(filter.pattern)
               PROVE  body.filter[Len(body.filter)].like.query = "prefix"
                        <=> EndsInOnlyRun(Meaning(filter.pattern, "%", "_"))
    BY Zenon DEF PrefixWhenSole
  <2> DEFINE flag == filter.op = "ilike"
  <2>1. /\ filter.pattern \in Pattern
        /\ body.filter[Len(body.filter)].like = LikeToQuery(filter.pattern, flag)
    BY LastClause
  <2> HIDE DEF flag
  <2> QED BY <2>1, PrefixIsSoleRun, Zenon
<1> QED BY <1>1, QueryInvariant, PTL
-----------------------------------------------------------------------------
(* The settings of the table.  The invariant says what the table is: the   *)
(* one LOCATION names under the factory's credentials, with the defaults   *)
(* until the options are read and with the options of the statement from   *)
(* then on; and that each request and plan is made of that table.          *)

\* The table of the statement, with the columns given: before its options are read,
\* and after.
Named            == SplitLocation(cmd.location)
Provider(schema) == NewTable(ClientFor(factory, Named.base), Named.index, schema)
Settled(schema)  == Configured(Provider(schema), Found(cmd))

\* A table that was made is the statement's; one that is asked has its options.
TableInv ==
  /\ stage = "statement" => table = None /\ sent = {}
  /\ stage \in {"mapping", "options"} => /\ table.schema \in Columns
                                         /\ table = Provider(table.schema)
  /\ stage \in Asked \cup {"created"} => /\ table.schema \in Columns
                                         /\ table = Settled(table.schema)
                                         /\ Wrong(Found(cmd)) = None
  /\ table # None => /\ table.schema \in Columns
                     /\ \/ table = Provider(table.schema)
                        \/ table = Settled(table.schema) /\ Wrong(Found(cmd)) = None

\* A plan is made of the table with its options.
PlanInv ==
  /\ stage \in {"statement", "mapping", "options", "created", "asked"} =>
       plan = None /\ DOMAIN row = {}
  /\ plan # None => /\ table = Settled(table.schema) /\ Wrong(Found(cmd)) = None
                    /\ table.schema \in Columns
                    /\ plan.projected \subseteq DOMAIN table.schema
                    /\ plan.exec = ScanOf(table)
                    /\ body = SearchBody(table, plan.projected, filter)

\* A row has cells of its columns' kinds.
RowInv == \A c \in DOMAIN row : row[c] # None => row[c].cell = KindOf(table.schema[c])

\* A statement that failed has its error, and was refused for its LOCATION only if
\* that names no index.
ErrorInv ==
  /\ stage = "failed" <=> error # None
  /\ error = "location" => Named = None

\* A request goes where the statement says.
SentInv ==
  /\ stage \notin {"statement", "failed"} => Named # None
  /\ \A r \in sent : /\ Named # None
                     /\ r = Request(r.what, Provider(cmd.columns))

StatementInv == TableInv /\ PlanInv /\ RowInv /\ ErrorInv /\ SentInv

\* What a statement is.
LEMMA StatementTypes ==
  ASSUME QueryInv
  PROVE  /\ cmd \in Statement /\ factory \in Factory /\ cmd.columns \in Columns
         /\ Found(cmd) \in Options /\ NoOptions \in Options /\ cmd.options \in Options
<1>1. cmd \in Statement /\ factory \in Factory
  BY ExternalTableAssumption DEF QueryInv
<1>2. NoOptions \in Options
  BY DEF NoOptions, Options
<1>3. cmd.options \in Options /\ cmd.columns \in Columns
  BY <1>1 DEF Statement
<1>4. Found(cmd) \in Options
  BY <1>2, <1>3 DEF Found
<1> QED BY <1>1, <1>2, <1>3, <1>4

\* Options with none wrong all parse, and a wrong one is named.
LEMMA WrongOption ==
  ASSUME NEW o
  PROVE  /\ Wrong(o) = None <=> /\ Parses(o.page_size) /\ Parses(o.max_rows)
                                /\ Parses(o.partitions) /\ SortParses(o.sort)
                                /\ FilterParses(o.base_filter)
         /\ Wrong(o) \in {None} \cup OptionNames
<1> DEFINE read == <<[option |-> "page_size", ok |-> Parses(o.page_size)],
                     [option |-> "max_rows", ok |-> Parses(o.max_rows)],
                     [option |-> "partitions", ok |-> Parses(o.partitions)],
                     [option |-> "sort", ok |-> SortParses(o.sort)],
                     [option |-> "base_filter", ok |-> FilterParses(o.base_filter)]>>
           bad == {i \in DOMAIN read : ~read[i].ok}
           first == CHOOSE i \in bad : \A j \in bad : i <= j
<1>1. /\ DOMAIN read = 1..5
      /\ \A i \in 1..5 : read[i].option \in OptionNames
  BY DEF OptionNames
<1>2. /\ read[1].ok <=> Parses(o.page_size)
      /\ read[2].ok <=> Parses(o.max_rows)
      /\ read[3].ok <=> Parses(o.partitions)
      /\ read[4].ok <=> SortParses(o.sort)
      /\ read[5].ok <=> FilterParses(o.base_filter)
  BY Zenon
<1>3. Wrong(o) = IF bad = {} THEN None ELSE read[first].option
  BY Zenon DEF Wrong
<1> HIDE DEF read
<1>4. bad = {} <=> \A i \in 1..5 : read[i].ok
  BY <1>1
<1>5. bad = {} <=> read[1].ok /\ read[2].ok /\ read[3].ok /\ read[4].ok /\ read[5].ok
  BY <1>4
<1>6. ASSUME bad # {} PROVE Wrong(o) \in OptionNames
  <2>1. \E i \in bad : \A j \in bad : i <= j
    <3>1. bad \subseteq {1, 2, 3, 4, 5}
      BY <1>1
    <3> HIDE DEF bad
    <3>2. CASE 1 \in bad
      BY <3>1, <3>2
    <3>3. CASE 1 \notin bad /\ 2 \in bad
      BY <3>1, <3>3
    <3>4. CASE bad \subseteq {3, 4, 5} /\ 3 \in bad
      BY <3>4
    <3>5. CASE bad \subseteq {4, 5} /\ 4 \in bad
      BY <3>5
    <3>6. CASE bad \subseteq {5}
      <4>1. 5 \in bad
        BY <1>6, <3>6 DEF bad
      <4> QED BY <3>6, <4>1
    <3> QED BY <3>1, <3>2, <3>3, <3>4, <3>5, <3>6
  <2>2. first \in bad
    BY <2>1, Zenon
  <2>3. first \in 1..5
    BY <1>1, <2>2
  <2> HIDE DEF first
  <2> QED BY <1>1, <1>3, <1>6, <2>3
<1> HIDE DEF bad, first
<1>7. ASSUME bad # {} PROVE Wrong(o) # None
  BY <1>6, <1>7, ExternalTableAssumption DEF Errors
<1>8. ASSUME bad = {} PROVE Wrong(o) = None
  BY <1>3, <1>8
<1> QED BY <1>2, <1>5, <1>6, <1>7, <1>8
-----------------------------------------------------------------------------
(* It is an invariant.                                                     *)

\* Before the statement is executed.
LEMMA InitStatement == Init => StatementInv
<1> SUFFICES ASSUME Init PROVE StatementInv
  OBVIOUS
<1>1. /\ stage = "statement" /\ table = None /\ sent = {} /\ error = None /\ plan = None
      /\ DOMAIN row = {}
  BY DEF Init, CreateInit
<1>2. error # "location"
  BY <1>1, ExternalTableAssumption DEF Errors
<1> QED BY <1>1, <1>2 DEF StatementInv, TableInv, PlanInv, RowInv, ErrorInv, SentInv, Asked

\* The table before its options.
LEMMA ProviderFields ==
  ASSUME NEW schema, NEW t, t = Provider(schema)
  PROVE  /\ t.client = ClientFor(factory, Named.base) /\ t.index = Named.index
         /\ t.schema = schema /\ t.page_size = 5000 /\ t.max_rows = None
         /\ t.partitions = 1 /\ t.search_after \in BOOLEAN /\ ~t.search_after
<1> DEFINE client == ClientFor(factory, Named.base)
           name   == Named.index
<1>1. \A s : Provider(s) = [client |-> client, index |-> name, schema |-> s, page_size |-> 5000,
                            max_rows |-> None, partitions |-> 1, sort |-> <<>>,
                            base_filter |-> <<>>, search_after |-> FALSE]
  BY DEF Provider, NewTable, Plan!DefaultPageSize
<1> HIDE DEF client, name
<1>2. /\ t.client = client /\ t.index = name /\ t.schema = schema /\ t.page_size = 5000
      /\ t.max_rows = None /\ t.partitions = 1 /\ t.search_after \in BOOLEAN /\ ~t.search_after
  BY <1>1
<1> QED BY <1>2 DEF client, name

\* With the columns of the mapping it is the one of those columns.
LEMMA ProviderInferred ==
  ASSUME NEW schema, NEW s, NEW t, t = Provider(schema)
  PROVE  [t EXCEPT !.schema = s] = Provider(s)
<1> DEFINE client == ClientFor(factory, Named.base)
           name   == Named.index
           no     == FALSE
           New(x) == [client |-> client, index |-> name, schema |-> x, page_size |-> 5000,
                      max_rows |-> None, partitions |-> 1, sort |-> <<>>,
                      base_filter |-> <<>>, search_after |-> no]
<1>1. Provider(schema) = New(schema) /\ Provider(s) = New(s)
  BY DEF Provider, NewTable, Plan!DefaultPageSize
<1> HIDE DEF client, name, no
<1>2. [t EXCEPT !.schema = s] = New(s)
  BY <1>1
<1> QED BY <1>1, <1>2

\* The table with its options.
LEMMA SettledFields ==
  ASSUME NEW schema, NEW t, t = Settled(schema), NEW o, o = Found(cmd)
  PROVE  /\ t.client = ClientFor(factory, Named.base) /\ t.index = Named.index
         /\ t.schema = schema /\ t.search_after \in BOOLEAN /\ ~t.search_after
         /\ t.page_size = IF o.page_size = None THEN 5000 ELSE Plan!AtLeastOne(o.page_size)
         /\ t.max_rows = IF o.max_rows = None THEN None ELSE o.max_rows
         /\ t.partitions = IF o.partitions = None THEN 1 ELSE Plan!AtLeastOne(o.partitions)
         /\ o.sort # None => t.sort = SortOf(o.sort)
         /\ o.base_filter # None => t.base_filter = o.base_filter.clauses
<1> DEFINE old == Provider(schema)
           client == ClientFor(factory, Named.base)
           name   == Named.index
<1>1. t = Configured(old, o)
  BY DEF Settled
<1>2. /\ old.client = client /\ old.index = name
      /\ old.schema = schema /\ old.page_size = 5000 /\ old.max_rows = None
      /\ old.partitions = 1 /\ old.search_after \in BOOLEAN /\ ~old.search_after
  BY ProviderFields
<1>3. /\ DOMAIN old = {"client", "index", "schema", "page_size", "max_rows", "partitions",
                       "sort", "base_filter", "search_after"}
  BY DEF Provider, NewTable
<1> HIDE DEF old, client, name
<1>4. /\ t.client = old.client /\ t.index = old.index /\ t.schema = old.schema
      /\ t.search_after = old.search_after
  BY <1>1, <1>3 DEF Configured
<1>5. t.page_size = IF o.page_size = None THEN 5000 ELSE Plan!AtLeastOne(o.page_size)
  BY <1>1, <1>2, <1>3 DEF Configured
<1>6. t.max_rows = IF o.max_rows = None THEN None ELSE o.max_rows
  BY <1>1, <1>2, <1>3 DEF Configured
<1>7. t.partitions = IF o.partitions = None THEN 1 ELSE Plan!AtLeastOne(o.partitions)
  BY <1>1, <1>2, <1>3 DEF Configured
<1>8. o.sort # None => t.sort = SortOf(o.sort)
  BY <1>1, <1>3 DEF Configured
<1>9. o.base_filter # None => t.base_filter = o.base_filter.clauses
  BY <1>1, <1>3 DEF Configured
<1> QED BY <1>2, <1>4, <1>5, <1>6, <1>7, <1>8, <1>9 DEF client, name

\* create(), step by step.
LEMMA CreateStatement ==
  ASSUME QueryInv, StatementInv, Create
  PROVE  StatementInv'
<1>1. /\ UNCHANGED <<cmd, factory, index, queryVars>>
      /\ stage \in {"statement", "mapping", "options"} /\ plan = None /\ DOMAIN row = {}
      /\ stage' \in {"mapping", "options", "created", "failed"}
  BY DEF StatementInv, PlanInv, Create, CreateNext, CreateTable, ReceiveMapping, LoseMapping,
         ReadOptions, Fail
<1>2. PlanInv' /\ RowInv'
  <2>1. plan' = None /\ DOMAIN row' = {}
    BY <1>1 DEF queryVars
  <2> QED BY <2>1 DEF PlanInv, RowInv
<1>3. /\ \A s : Provider(s)' = Provider(s) /\ Settled(s)' = Settled(s)
      /\ Named' = Named /\ Wrong(Found(cmd))' = Wrong(Found(cmd))
  BY <1>1 DEF Provider, Settled, Named, Found, Wrong
<1>4. cmd.columns \in Columns
  BY StatementTypes
<1>5. error = None
  BY <1>1 DEF StatementInv, ErrorInv
<1>6. CASE CreateTable
  <2>1. stage = "statement" /\ table = None /\ sent = {}
    BY <1>6 DEF CreateTable, StatementInv, TableInv
  <2>2. CASE Named = None
    <3>1. stage' = "failed" /\ error' = "location" /\ table' = None /\ sent' = {}
      BY <1>6, <2>1, <2>2 DEF CreateTable, Fail, Named
    <3>2. error' # None
      BY <3>1, ExternalTableAssumption DEF Errors
    <3> QED BY <1>2, <1>3, <2>2, <3>1, <3>2
            DEF StatementInv, TableInv, ErrorInv, SentInv, Asked
  <2>3. CASE Named # None
    <3>1. /\ table' = Provider(cmd.columns) /\ error' = error
          /\ stage' \in {"mapping", "options"}
          /\ sent' \subseteq {Request("mapping", Provider(cmd.columns))}
      BY <1>6, <2>1, <2>3 DEF CreateTable, Fail, Named, Provider
    <3>2. table'.schema = cmd.columns
      BY <3>1, ProviderFields
    <3>3. Request("mapping", Provider(cmd.columns)).what = "mapping"
      BY DEF Request
    <3>4. SentInv'
      BY <1>1, <1>3, <2>3, <3>1, <3>3 DEF SentInv
    <3>5. ErrorInv'
      BY <1>5, <3>1, ExternalTableAssumption DEF ErrorInv, Errors
    <3>6. TableInv'
      BY <1>3, <1>4, <3>1, <3>2 DEF TableInv, Asked
    <3> QED BY <1>2, <3>4, <3>5, <3>6 DEF StatementInv
  <2> QED BY <2>2, <2>3
<1>7. ASSUME stage \in {"mapping", "options"}, sent' = sent PROVE SentInv'
  <2>1. /\ Named # None
        /\ \A r \in sent : r = Request(r.what, Provider(cmd.columns))
    BY <1>7 DEF StatementInv, SentInv
  <2> QED BY <1>1, <1>3, <1>7, <2>1 DEF SentInv
<1>8. CASE ReceiveMapping
  <2>1. stage = "mapping" /\ sent' = sent /\ table.schema \in Columns /\ table = Provider(table.schema)
    BY <1>8 DEF ReceiveMapping, StatementInv, TableInv
  <2>2. CASE stage' = "failed"
    <3>1. table' = table /\ error' \in {"IndexNotFound", "MalformedMapping"}
      BY <1>8, <2>2 DEF ReceiveMapping, Fail
    <3>2. error' # None /\ error' # "location"
      BY <3>1, ExternalTableAssumption DEF Errors
    <3>3. TableInv'
      BY <1>3, <2>1, <2>2, <3>1 DEF TableInv, Asked
    <3> QED BY <1>2, <1>7, <2>1, <2>2, <3>2, <3>3 DEF StatementInv, ErrorInv
  <2>3. CASE stage' # "failed"
    <3>1. /\ table' = [table EXCEPT !.schema = SchemaFromMapping(index)]
          /\ stage' = "options" /\ error' = error /\ index \in Mappings
      BY <1>8, <2>3 DEF ReceiveMapping, Fail
    <3>2. table' = Provider(SchemaFromMapping(index))
      BY <2>1, <3>1, ProviderInferred, Zenon
    <3>3. table'.schema = SchemaFromMapping(index)
      BY <3>2, ProviderFields
    <3>4. SchemaFromMapping(index) \in Columns
      <4>1. \A m : ArrowTypeFor(m) \in ArrowTypes
        BY DEF ArrowTypeFor, ArrowTypes, StringTypes, IntTypes
      <4>2. SchemaFromMapping(index) \in [{"f", "g"} -> ArrowTypes]
        BY <4>1 DEF SchemaFromMapping
      <4> QED BY <4>2 DEF Columns
    <3>5. TableInv'
      BY <1>3, <3>1, <3>2, <3>3, <3>4 DEF TableInv, Asked
    <3>6. ErrorInv'
      BY <1>5, <3>1, ExternalTableAssumption DEF ErrorInv, Errors
    <3> QED BY <1>2, <1>7, <2>1, <3>5, <3>6 DEF StatementInv
  <2> QED BY <2>2, <2>3
<1>9. CASE LoseMapping
  <2>1. /\ stage = "mapping" /\ sent' = sent /\ table' = table /\ error' = "Http"
        /\ stage' = "failed" /\ table.schema \in Columns /\ table = Provider(table.schema)
    BY <1>9 DEF LoseMapping, Fail, StatementInv, TableInv
  <2>2. error' # None
    BY <2>1, ExternalTableAssumption DEF Errors
  <2>3. TableInv'
    BY <1>3, <2>1 DEF TableInv, Asked
  <2> QED BY <1>2, <1>7, <2>1, <2>2, <2>3 DEF StatementInv, ErrorInv
<1>10. CASE ReadOptions
  <2>1. stage = "options" /\ sent' = sent /\ table.schema \in Columns /\ table = Provider(table.schema)
    BY <1>10 DEF ReadOptions, StatementInv, TableInv
  <2>2. CASE Wrong(Found(cmd)) # None
    <3>1. table' = table /\ error' = Wrong(Found(cmd)) /\ stage' = "failed"
      BY <1>10, <2>2 DEF ReadOptions, Fail
    <3>2. error' \in OptionNames
      BY <2>2, <3>1, WrongOption
    <3>3. error' # None /\ error' # "location"
      BY <3>2, ExternalTableAssumption DEF Errors, OptionNames
    <3>4. TableInv'
      BY <1>3, <2>1, <3>1 DEF TableInv, Asked
    <3> QED BY <1>2, <1>7, <2>1, <3>1, <3>3, <3>4 DEF StatementInv, ErrorInv
  <2>3. CASE Wrong(Found(cmd)) = None
    <3>1. table' = Configured(table, Found(cmd)) /\ stage' = "created" /\ error' = error
      BY <1>10, <2>3 DEF ReadOptions, Fail
    <3>2. table' = Settled(table.schema)
      BY <2>1, <3>1 DEF Settled
    <3>3. table'.schema = table.schema
      BY <3>2, SettledFields
    <3>4. TableInv'
      BY <1>3, <2>1, <2>3, <3>1, <3>2, <3>3 DEF TableInv, Asked
    <3>5. ErrorInv'
      BY <1>5, <3>1, ExternalTableAssumption DEF ErrorInv, Errors
    <3> QED BY <1>2, <1>7, <2>1, <3>4, <3>5 DEF StatementInv
  <2> QED BY <2>2, <2>3
<1> QED BY <1>6, <1>8, <1>9, <1>10 DEF Create, CreateNext

\* A question.
LEMMA AskStatement ==
  ASSUME StatementInv, AskAll \/ AskCompare \/ AskLike
  PROVE  StatementInv'
<1>1. /\ stage = "created" /\ stage' = "asked"
      /\ UNCHANGED <<cmd, factory, index, sent, table, error, body, plan, row>>
  BY DEF AskAll, AskCompare, AskLike, Ask
<1>2. /\ \A s : Provider(s)' = Provider(s) /\ Settled(s)' = Settled(s)
      /\ Named' = Named /\ Wrong(Found(cmd))' = Wrong(Found(cmd))
  BY <1>1 DEF Provider, Settled, Named, Found, Wrong
<1>3. plan' = None /\ DOMAIN row' = {}
  BY <1>1 DEF StatementInv, PlanInv
<1>4. TableInv'
  BY <1>1, <1>2 DEF StatementInv, TableInv, Asked
<1>5. ErrorInv' /\ SentInv'
  BY <1>1, <1>2 DEF StatementInv, ErrorInv, SentInv
<1> QED BY <1>3, <1>4, <1>5 DEF StatementInv, PlanInv, RowInv

\* Requests of the table are alike before and after its options.
LEMMA SameRequest ==
  ASSUME NEW what, NEW schema, NEW other
  PROVE  Request(what, Settled(schema)) = Request(what, Provider(other))
<1>1. /\ Settled(schema).client = Provider(other).client
      /\ Settled(schema).index = Provider(other).index
  BY ProviderFields, SettledFields
<1> QED BY <1>1 DEF Request

\* The request.
LEMMA SearchStatement ==
  ASSUME StatementInv, Search
  PROVE  StatementInv'
<1>1. PICK projected \in (SUBSET DOMAIN table.schema) \ {{}} :
        /\ body' = SearchBody(table, projected, filter)
        /\ plan' = [exec |-> ScanOf(table), projected |-> projected]
  BY DEF Search
<1>2. /\ stage = "asked" /\ stage' = "searching" /\ sent' = sent \cup {Request("search", table)}
      /\ UNCHANGED <<cmd, factory, index, table, error, filter, row>>
  BY DEF Search
<1>3. /\ \A s : Provider(s)' = Provider(s) /\ Settled(s)' = Settled(s)
      /\ Named' = Named /\ Wrong(Found(cmd))' = Wrong(Found(cmd))
  BY <1>2 DEF Provider, Settled, Named, Found, Wrong
<1>4. /\ table.schema \in Columns /\ table = Settled(table.schema) /\ Wrong(Found(cmd)) = None
  BY <1>2 DEF StatementInv, TableInv, Asked
<1>5. TableInv'
  BY <1>2, <1>3, <1>4 DEF TableInv, Asked
<1>6. PlanInv'
  <2>1. plan'.exec = ScanOf(table) /\ plan'.projected = projected
    BY <1>1
  <2> QED BY <1>1, <1>2, <1>3, <1>4, <2>1 DEF PlanInv
<1>7. RowInv'
  <2>1. DOMAIN row' = {}
    BY <1>2 DEF StatementInv, PlanInv
  <2> QED BY <2>1 DEF RowInv
<1>8. ErrorInv'
  BY <1>2, <1>3 DEF StatementInv, ErrorInv
<1>9. SentInv'
  <2>1. Request("search", table) = Request("search", Provider(cmd.columns))
    BY <1>4, SameRequest
  <2>2. Request("search", table).what = "search"
    BY DEF Request
  <2>3. Named # None /\ \A r \in sent : r = Request(r.what, Provider(cmd.columns))
    BY <1>2 DEF StatementInv, SentInv
  <2> QED BY <1>2, <1>3, <2>1, <2>2, <2>3 DEF SentInv
<1> QED BY <1>5, <1>6, <1>7, <1>8, <1>9 DEF StatementInv

\* The reply.
LEMMA ReadStatement ==
  ASSUME QueryInv, StatementInv, Read \/ ReadNothing
  PROVE  StatementInv'
<1>1. /\ stage = "searching" /\ stage' \in {"read", "failed"}
      /\ UNCHANGED <<cmd, factory, index, sent, table, filter, body, plan>>
      /\ \/ stage' = "failed" /\ error' = "NotImplemented"
         \/ stage' = "read" /\ error' = error
  BY DEF Read, ReadNothing, Fail, queryVars
<1>2. /\ \A s : Provider(s)' = Provider(s) /\ Settled(s)' = Settled(s)
      /\ Named' = Named /\ Wrong(Found(cmd))' = Wrong(Found(cmd))
  BY <1>1 DEF Provider, Settled, Named, Found, Wrong
<1>3. /\ table.schema \in Columns /\ table = Settled(table.schema) /\ Wrong(Found(cmd)) = None
  BY <1>1 DEF StatementInv, TableInv, Asked
<1>4. TableInv'
  BY <1>1, <1>2, <1>3 DEF TableInv, Asked
<1>5. PlanInv'
  BY <1>1, <1>2 DEF StatementInv, PlanInv
<1>6. ErrorInv'
  BY <1>1, <1>2, ExternalTableAssumption DEF StatementInv, ErrorInv, Errors
<1>7. SentInv'
  BY <1>1, <1>2 DEF StatementInv, SentInv
<1>8. RowInv'
  <2>1. CASE row' = row
    BY <1>1, <2>1 DEF StatementInv, RowInv
  <2>2. CASE row' # row
    <3>1. PICK json \in {j \in Source : Accepts(index, j)} :
            /\ \A c \in plan.projected : Readable(table.schema[c])
            /\ row' = [c \in plan.projected |-> ReadCell(table.schema[c], InHit(c, json))]
      BY <2>2 DEF Read, ReadNothing, queryVars
    <3>2. plan.projected \subseteq DOMAIN table.schema
      BY <1>1 DEF QueryInv, BodyInv, Searching
    <3>3. \A c \in plan.projected : table.schema[c] \in ArrowTypes
      BY <1>3, <3>2 DEF Columns
    <3>4. \A c : InHit(c, json) \in JsonValue
      BY <3>1, TableQueryAssumption DEF InHit, Json, JsonKinds, JsonValue
    <3>5. \A c \in DOMAIN row' : row'[c] # None => row'[c].cell = KindOf(table.schema[c])
      BY <3>1, <3>3, <3>4, ReadKind
    <3> QED BY <1>1, <3>5 DEF RowInv
  <2> QED BY <2>1, <2>2
<1> QED BY <1>4, <1>5, <1>6, <1>7, <1>8 DEF StatementInv

\* The invariant holds at every stage of every statement and query.
THEOREM StatementInvariant == Spec => []StatementInv
<1>1. QueryInv /\ StatementInv /\ [Next]_vars => StatementInv'
  <2> SUFFICES ASSUME QueryInv, StatementInv, [Next]_vars PROVE StatementInv'
    OBVIOUS
  <2>1. CASE UNCHANGED vars
    <3>1. UNCHANGED <<cmd, factory, index, stage, sent, table, error, filter, body, plan, row>>
      BY <2>1 DEF vars, createVars, queryVars
    <3>2. /\ \A s : Provider(s)' = Provider(s) /\ Settled(s)' = Settled(s)
          /\ Named' = Named /\ Wrong(Found(cmd))' = Wrong(Found(cmd))
      BY <3>1 DEF Provider, Settled, Named, Found, Wrong
    <3> QED BY <3>1, <3>2 DEF StatementInv, TableInv, PlanInv, RowInv, ErrorInv, SentInv
  <2> QED BY <2>1, CreateStatement, AskStatement, SearchStatement, ReadStatement DEF Next
<1> QED BY <1>1, InitStatement, QueryInvariant, PTL DEF Spec
-----------------------------------------------------------------------------
(* What it implies.                                                        *)

\* Options that parse, as the types say.
LEMMA OptionTypes ==
  ASSUME NEW o \in Options, Wrong(o) = None
  PROVE  /\ o.page_size \in Nat \cup {None} /\ o.max_rows \in Nat \cup {None}
         /\ o.partitions \in Nat \cup {None}
         /\ o.sort # None => /\ o.sort \in Seq(SortItem)
                             /\ \A i \in DOMAIN o.sort : Directed(o.sort[i])
         /\ o.base_filter # None => o.base_filter.clauses \in Seq(STRING)
<1>1. /\ Parses(o.page_size) /\ Parses(o.max_rows) /\ Parses(o.partitions)
      /\ SortParses(o.sort)
  BY WrongOption
<1>2. /\ o.page_size \in Int \cup {None} /\ o.max_rows \in Int \cup {None}
      /\ o.partitions \in Int \cup {None}
      /\ o.sort \in Seq(SortItem) \cup {None} /\ o.base_filter \in BaseFilter \cup {None}
  BY DEF Options
<1>3. /\ o.page_size \in Nat \cup {None} /\ o.max_rows \in Nat \cup {None}
      /\ o.partitions \in Nat \cup {None}
  BY <1>1, <1>2 DEF Parses
<1>4. o.base_filter # None => o.base_filter.clauses \in Seq(STRING)
  BY <1>2 DEF BaseFilter
<1>5. o.sort # None => /\ o.sort \in Seq(SortItem)
                       /\ \A i \in DOMAIN o.sort : Directed(o.sort[i])
  BY <1>1, <1>2, Zenon DEF SortParses
<1> QED BY <1>3, <1>4, <1>5

\* The sizes of a table, before and after its options.
LEMMA TableSizes ==
  ASSUME QueryInv,
         \/ table = Provider(table.schema)
         \/ table = Settled(table.schema) /\ Wrong(Found(cmd)) = None
  PROVE  /\ table.page_size \in Nat \ {0} /\ table.partitions \in Nat \ {0}
         /\ table.max_rows \in Nat \cup {None}
         /\ table.search_after \in BOOLEAN /\ ~table.search_after
<1>1. CASE table = Provider(table.schema)
  BY <1>1, ProviderFields
<1>2. CASE table = Settled(table.schema) /\ Wrong(Found(cmd)) = None
  <2> DEFINE o == Found(cmd)
  <2>1. /\ o.page_size \in Nat \cup {None} /\ o.max_rows \in Nat \cup {None}
        /\ o.partitions \in Nat \cup {None}
    BY <1>2, StatementTypes, OptionTypes
  <2>2. /\ table.page_size = IF o.page_size = None THEN 5000 ELSE Plan!AtLeastOne(o.page_size)
        /\ table.max_rows = IF o.max_rows = None THEN None ELSE o.max_rows
        /\ table.partitions = IF o.partitions = None THEN 1 ELSE Plan!AtLeastOne(o.partitions)
        /\ table.search_after \in BOOLEAN /\ ~table.search_after
    BY <1>2, SettledFields
  <2> HIDE DEF o
  <2> QED BY <2>1, <2>2 DEF Plan!AtLeastOne
<1> QED BY <1>1, <1>2

\* The facts about planning.
PlanProofs == INSTANCE ScanPlanProofs

\* The plan of a table's scan has the table's sizes.
LEMMA ScanOfTable ==
  ASSUME NEW t, t.page_size \in Nat \ {0}, t.partitions \in Nat \ {0},
         t.max_rows \in Nat \cup {None}, t.search_after \in BOOLEAN, ~t.search_after
  PROVE  /\ Plan!PlanOK(ScanOf(t))
         /\ ScanOf(t).inner.page_size = t.page_size
         /\ ScanOf(t).inner.fetch = t.max_rows
         /\ ScanOf(t).inner.partitions = IF t.max_rows # None THEN 1 ELSE t.partitions
<1> DEFINE query == [page_size |-> t.page_size, max_rows |-> t.max_rows,
                     partitions |-> t.partitions, search_after |-> t.search_after,
                     limit |-> None, columns |-> {"nullable"}]
           exec  == Plan!Scan(query)
<1>1. ScanOf(t) = exec
  BY DEF ScanOf
<1>2. query \in PlanProofs!Query
  BY DEF PlanProofs!Query, PlanProofs!Opt, PlanProofs!ColumnKinds
<1>3. /\ query.page_size = t.page_size /\ query.max_rows = t.max_rows
      /\ query.partitions = t.partitions /\ query.limit = None
      /\ query.search_after \in BOOLEAN /\ ~query.search_after
  OBVIOUS
<1>4. exec = PlanProofs!Scan(query)
  <2>1. \A n : Plan!AtLeastOne(n) = PlanProofs!AtLeastOne(n)
    BY DEF Plan!AtLeastOne, PlanProofs!AtLeastOne
  <2>2. \A i : Plan!FromInner(i) = PlanProofs!FromInner(i)
    BY <2>1, Zenon DEF Plan!FromInner, PlanProofs!FromInner
  <2>3. /\ \A e, n : Plan!WithPageSize(e, n) = PlanProofs!WithPageSize(e, n)
        /\ \A e, n : Plan!WithFetchLimit(e, n) = PlanProofs!WithFetchLimit(e, n)
        /\ \A e, n : Plan!WithSinglePage(e, n) = PlanProofs!WithSinglePage(e, n)
        /\ \A e, n : Plan!WithPartitions(e, n) = PlanProofs!WithPartitions(e, n)
        /\ \A c, n : Plan!NewExec(c, n) = PlanProofs!NewExec(c, n)
    BY <2>1, <2>2, Zenon
       DEF Plan!WithPageSize, Plan!WithFetchLimit, Plan!WithSinglePage, Plan!WithPartitions,
           Plan!NewExec, PlanProofs!WithPageSize, PlanProofs!WithFetchLimit,
           PlanProofs!WithSinglePage, PlanProofs!WithPartitions, PlanProofs!NewExec
  <2>4. /\ Plan!Provider(query) = PlanProofs!Provider(query)
        /\ Plan!DefaultPageSize = PlanProofs!DefaultPageSize
    BY <2>1, Zenon DEF Plan!Provider, PlanProofs!Provider, Plan!DefaultPageSize,
                       PlanProofs!DefaultPageSize
  <2>5. \A m, n : Plan!ScanFetch(m, n) = PlanProofs!ScanFetch(m, n)
    BY DEF Plan!ScanFetch, PlanProofs!ScanFetch, Plan!MinOpt, PlanProofs!MinOpt
  <2> HIDE DEF query
  <2> QED BY <2>3, <2>4, <2>5, Zenon DEF Plan!Scan, PlanProofs!Scan
<1>5. Plan!PlanOK(exec) <=> PlanProofs!PlanOK(exec)
  BY Zenon DEF Plan!PlanOK, Plan!Exec, Plan!Inner, Plan!Opt, Plan!ColumnKinds,
         PlanProofs!PlanOK, PlanProofs!Exec, PlanProofs!Inner, PlanProofs!Opt,
         PlanProofs!ColumnKinds
<1> HIDE DEF query, exec
<1>6. /\ PlanProofs!PlanOK(exec)
      /\ PlanProofs!FetchIsLeast(exec.inner.fetch, {query.limit, query.max_rows})
      /\ exec.inner.page_size = PlanProofs!AtLeastOne(query.page_size)
      /\ exec.inner.partitions = IF exec.inner.fetch # None \/ query.search_after
                                   THEN 1 ELSE PlanProofs!AtLeastOne(query.partitions)
  BY <1>2, <1>4, CoercionAssumption, PlanProofs!ScanOK
<1>7. exec.inner.fetch = t.max_rows
  BY <1>3, <1>6, CoercionAssumption DEF PlanProofs!FetchIsLeast
<1> QED BY <1>1, <1>3, <1>5, <1>6, <1>7 DEF PlanProofs!AtLeastOne

\* The type invariant: in particular a table is only made with a page size and a
\* partition count of at least 1, and every plan is one ScrollScan can run.
THEOREM Types == Spec => []TypeOK
<1>1. QueryInv /\ StatementInv => TypeOK
  <2> SUFFICES ASSUME QueryInv, StatementInv PROVE TypeOK
    OBVIOUS
  <2>1. ASSUME table # None
        PROVE  /\ table.schema \in Columns
               /\ {table.page_size, table.partitions} \subseteq Nat \ {0}
               /\ table.max_rows \in Plan!Opt
    BY <2>1, TableSizes DEF StatementInv, TableInv, Plan!Opt
  <2>2. ASSUME plan # None
        PROVE  Plan!PlanOK(plan.exec) /\ plan.projected \subseteq DOMAIN table.schema
    BY <2>2, TableSizes, ScanOfTable DEF StatementInv, PlanInv
  <2> QED BY <2>1, <2>2 DEF TypeOK, QueryInv, StatementInv, RowInv, ErrorInv
<1> QED BY <1>1, QueryInvariant, StatementInvariant, PTL
-----------------------------------------------------------------------------
(* The options.                                                            *)

\* The function of SortOf.
Keys(sort) ==
  CHOOSE after : after = [i \in 0..Len(sort) |-> IF i = 0 THEN <<>> ELSE Keep(after[i - 1], sort[i])]

\* A sort keeps one item after the other.
LEMMA SortSteps ==
  ASSUME NEW sort \in Seq(SortItem), NEW keys, keys = Keys(sort)
  PROVE  /\ SortOf(sort) = keys[Len(sort)]
         /\ keys[0] = <<>>
         /\ \A i \in 1..Len(sort) : keys[i] = Keep(keys[i - 1], sort[i])
<1> DEFINE n == Len(sort)
           Value(f, i) == IF i = 0 THEN <<>> ELSE Keep(f[i - 1], sort[i])
           S == {m \in Nat : m <= n => \E f : f = [i \in 0..m |-> Value(f, i)]}
<1>0. n \in Nat
  OBVIOUS
<1> HIDE DEF n
<1>1. 0 \in S
  <2>1. [i \in 0..0 |-> <<>>] = [i \in 0..0 |-> Value([j \in 0..0 |-> <<>>], i)]
    OBVIOUS
  <2> QED BY <2>1
<1>2. ASSUME NEW m \in Nat, m \in S PROVE m + 1 \in S
  <2> SUFFICES ASSUME m + 1 <= n PROVE \E f : f = [i \in 0..(m + 1) |-> Value(f, i)]
    OBVIOUS
  <2>0. \E g : g = [i \in 0..m |-> Value(g, i)]
    <3>1. m <= n
      BY <1>0
    <3> HIDE DEF Value
    <3> QED BY <1>2, <3>1
  <2>1. PICK g : g = [i \in 0..m |-> Value(g, i)]
    BY <2>0, Zenon
  <2> DEFINE f == [i \in 0..(m + 1) |-> IF i = m + 1 THEN Keep(g[m], sort[i]) ELSE g[i]]
  <2>2. ASSUME NEW i \in 0..(m + 1) PROVE f[i] = Value(f, i)
    <3>1. CASE i = m + 1
      <4>1. f[i] = Keep(g[m], sort[i]) /\ f[m] = g[m] /\ i - 1 = m
        BY <3>1
      <4> HIDE DEF f
      <4> QED BY <3>1, <4>1
    <3>2. CASE i # m + 1 /\ i # 0
      <4>1. f[i] = g[i] /\ f[i - 1] = g[i - 1] /\ i \in 0..m
        BY <3>2
      <4>2. g[i] = Value(g, i)
        BY <2>1, <4>1
      <4> HIDE DEF f
      <4> QED BY <3>2, <4>1, <4>2
    <3>3. CASE i = 0
      <4>1. f[i] = g[i] /\ i \in 0..m
        BY <3>3
      <4>2. g[i] = Value(g, i)
        BY <2>1, <4>1
      <4> HIDE DEF f
      <4> QED BY <3>3, <4>1, <4>2
    <3> QED BY <3>1, <3>2, <3>3
  <2>3. f = [i \in 0..(m + 1) |-> Value(f, i)]
    BY <2>2, Zenon
  <2> QED BY <2>3
<1>3. \E f : f = [i \in 0..n |-> Value(f, i)]
  <2>1. n \in S
    BY <1>0, <1>1, <1>2, SetInduction
  <2> QED BY <1>0, <2>1
<1>4. keys = [i \in 0..n |-> Value(keys, i)]
  BY <1>3, Zenon DEF Keys, n
<1>5. SortOf(sort) = keys[n]
  BY Zenon DEF SortOf, Keys, n
<1> HIDE DEF Value
<1>6. \A i \in 0..n : keys[i] = Value(keys, i)
  BY <1>4
<1> USE DEF Value
<1> QED BY <1>0, <1>5, <1>6 DEF n

\* Keys are those of the first k items of a list, in their order.
KeysOf(keys, items, k) ==
  /\ keys \in Seq([field : STRING, asc : BOOLEAN])
  /\ \E item \in [1..Len(keys) -> 1..k] :
       /\ \A i, j \in 1..Len(keys) : i < j => item[i] < item[j]
       /\ \A i \in 1..Len(keys) : /\ keys[i].field = items[item[i]].field
                                  /\ keys[i].asc <=> Ascending(items[item[i]])
       /\ \A j \in 1..k : Empty(items[j]) \/ \E i \in 1..Len(keys) : item[i] = j

\* One more item.
LEMMA KeepKeys ==
  ASSUME NEW items \in Seq(SortItem), NEW k \in Nat, k + 1 \in 1..Len(items),
         Directed(items[k + 1]),
         NEW keys, KeysOf(keys, items, k)
  PROVE  KeysOf(Keep(keys, items[k + 1]), items, k + 1)
<1> DEFINE new == items[k + 1]
           key == [field |-> new.field, asc |-> new.dir # "desc"]
           n   == Len(keys)
<1>1. n \in Nat /\ keys \in Seq([field : STRING, asc : BOOLEAN])
  BY DEF KeysOf
<1>2. PICK item \in [1..n -> 1..k] :
        /\ \A i, j \in 1..n : i < j => item[i] < item[j]
        /\ \A i \in 1..n : /\ keys[i].field = items[item[i]].field
                           /\ keys[i].asc <=> Ascending(items[item[i]])
        /\ \A j \in 1..k : Empty(items[j]) \/ \E i \in 1..n : item[i] = j
  BY Zenon DEF KeysOf
<1>3. new \in SortItem
  OBVIOUS
<1>4. CASE Empty(new)
  <2>1. Keep(keys, new) = keys
    BY <1>4 DEF Keep
  <2>2. item \in [1..n -> 1..(k + 1)]
    OBVIOUS
  <2>3. \A j \in 1..(k + 1) : Empty(items[j]) \/ \E i \in 1..n : item[i] = j
    <3> SUFFICES ASSUME NEW j \in 1..(k + 1)
                 PROVE  Empty(items[j]) \/ \E i \in 1..n : item[i] = j
      OBVIOUS
    <3>1. j = k + 1 \/ j \in 1..k
      OBVIOUS
    <3> QED BY <1>2, <1>4, <3>1, Zenon
  <2>4. KeysOf(keys, items, k + 1)
    BY <1>1, <1>2, <2>2, <2>3, Zenon DEF KeysOf
  <2> HIDE DEF new
  <2>5. KeysOf(Keep(keys, new), items, k + 1)
    BY <2>1, <2>4, Zenon
  <2> QED BY <2>5, Zenon DEF new
<1>5. CASE ~Empty(new)
  <2>1. Keep(keys, new) = Append(keys, key)
    BY <1>5 DEF Keep
  <2>2. key \in [field : STRING, asc : BOOLEAN] /\ key.field = new.field
    BY <1>3 DEF SortItem
  <2>3. key.asc <=> Ascending(new)
    <3>1. key.asc <=> new.dir # "desc"
      BY Zenon
    <3> HIDE DEF key
    <3> QED BY <1>5, <3>1, Zenon DEF Directed, Ascending
  <2> DEFINE all == Append(keys, key)
             more == [i \in 1..(n + 1) |-> IF i = n + 1 THEN k + 1 ELSE item[i]]
  <2> HIDE DEF key, new, n
  <2>4. /\ all \in Seq([field : STRING, asc : BOOLEAN]) /\ Len(all) = n + 1
        /\ all[n + 1] = key /\ \A i \in 1..n : all[i] = keys[i]
    BY <1>1, <2>2 DEF n
  <2>5. /\ more \in [1..(n + 1) -> 1..(k + 1)]
        /\ more[n + 1] = k + 1 /\ \A i \in 1..n : more[i] = item[i]
    BY <1>1
  <2> HIDE DEF all, more
  <2>6. \A i, j \in 1..(n + 1) : i < j => more[i] < more[j]
    <3> SUFFICES ASSUME NEW i \in 1..(n + 1), NEW j \in 1..(n + 1), i < j PROVE more[i] < more[j]
      OBVIOUS
    <3>1. i \in 1..n /\ item[i] \in 1..k /\ more[i] = item[i]
      BY <1>1, <2>5
    <3>2. CASE j = n + 1
      BY <2>5, <3>1, <3>2
    <3>3. CASE j # n + 1
      <4>1. j \in 1..n
        BY <1>1, <3>3
      <4> QED BY <1>2, <2>5, <3>1, <4>1
    <3> QED BY <3>2, <3>3
  <2>7. ASSUME NEW i \in 1..(n + 1)
        PROVE  /\ all[i].field = items[more[i]].field
               /\ all[i].asc <=> Ascending(items[more[i]])
    <3>1. CASE i = n + 1
      BY <2>2, <2>3, <2>4, <2>5, <3>1, Zenon DEF new
    <3>2. CASE i # n + 1
      <4>1. i \in 1..n
        BY <1>1, <3>2
      <4> QED BY <1>2, <2>4, <2>5, <4>1, Zenon
    <3> QED BY <3>1, <3>2
  <2>8. ASSUME NEW j \in 1..(k + 1)
        PROVE  Empty(items[j]) \/ \E i \in 1..(n + 1) : more[i] = j
    <3>1. CASE j = k + 1
      <4>1. n + 1 \in 1..(n + 1)
        BY <1>1
      <4> QED BY <2>5, <3>1, <4>1
    <3>2. CASE j # k + 1
      <4>1. j \in 1..k
        BY <3>2
      <4>2. CASE Empty(items[j])
        BY <4>2
      <4>3. CASE ~Empty(items[j])
        <5>1. PICK i \in 1..n : item[i] = j
          BY <1>2, <4>1, <4>3, Zenon
        <5>2. i \in 1..(n + 1) /\ more[i] = j
          BY <1>1, <2>5, <5>1
        <5> QED BY <5>2
      <4> QED BY <4>2, <4>3
    <3> QED BY <3>1, <3>2
  <2>9. KeysOf(all, items, k + 1)
    <3>1. more \in [1..Len(all) -> 1..(k + 1)]
      BY <2>4, <2>5, Zenon
    <3>2. \A i, j \in 1..Len(all) : i < j => more[i] < more[j]
      BY <2>4, <2>6, Zenon
    <3>3. \A i \in 1..Len(all) : /\ all[i].field = items[more[i]].field
                                 /\ all[i].asc <=> Ascending(items[more[i]])
      BY <2>4, <2>7, Zenon
    <3>4. \A j \in 1..(k + 1) : Empty(items[j]) \/ \E i \in 1..Len(all) : more[i] = j
      BY <2>4, <2>8, Zenon
    <3> QED BY <2>4, <3>1, <3>2, <3>3, <3>4, Zenon DEF KeysOf
  <2> QED BY <2>1, <2>9, Zenon DEF all, new
<1> QED BY <1>4, <1>5

\* The sort made of a list of items sorts by them.
LEMMA SortIsBy ==
  ASSUME NEW items \in Seq(SortItem),
         \A i \in DOMAIN items : Directed(items[i])
  PROVE  SortedBy(SortOf(items), items)
<1> DEFINE n == Len(items)
           keys == Keys(items)
           S == {k \in Nat : k <= n => KeysOf(keys[k], items, k)}
<1>1. /\ n \in Nat /\ SortOf(items) = keys[n] /\ keys[0] = <<>> /\ DOMAIN items = 1..n
      /\ \A i \in 1..n : keys[i] = Keep(keys[i - 1], items[i])
  BY SortSteps
<1> HIDE DEF keys, n
<1>2. KeysOf(<<>>, items, 0)
  <2>1. <<>> \in Seq([field : STRING, asc : BOOLEAN]) /\ Len(<<>>) = 0
    OBVIOUS
  <2>2. 1..0 = {}
    OBVIOUS
  <2>3. [i \in {} |-> 0] \in [{} -> {}]
    OBVIOUS
  <2> QED BY <2>1, <2>2, <2>3, Zenon DEF KeysOf
<1>3. 0 \in S
  BY <1>1, <1>2
<1>4. ASSUME NEW k \in Nat, k \in S PROVE k + 1 \in S
  <2> SUFFICES ASSUME k + 1 <= n PROVE KeysOf(keys[k + 1], items, k + 1)
    OBVIOUS
  <2>1. k + 1 \in 1..n /\ k + 1 - 1 = k /\ KeysOf(keys[k], items, k)
    BY <1>1, <1>4
  <2>2. keys[k + 1] = Keep(keys[k], items[k + 1])
    BY <1>1, <2>1
  <2>3. Directed(items[k + 1])
    BY <1>1, <2>1, Zenon
  <2>4. KeysOf(Keep(keys[k], items[k + 1]), items, k + 1)
    BY <1>1, <2>1, <2>3, KeepKeys, Zenon DEF n
  <2> QED BY <2>2, <2>4, Zenon
<1>5. KeysOf(SortOf(items), items, n)
  <2>1. n \in S
    <3> HIDE DEF S
    <3> QED BY <1>1, <1>3, <1>4, SetInduction
  <2> QED BY <1>1, <2>1
<1>6. DOMAIN SortOf(items) = 1..Len(SortOf(items))
  BY <1>5 DEF KeysOf
<1> DEFINE sort == SortOf(items)
<1> HIDE DEF sort
<1>7. PICK item \in [1..Len(sort) -> 1..n] :
        /\ \A i, j \in 1..Len(sort) : i < j => item[i] < item[j]
        /\ \A i \in 1..Len(sort) : /\ sort[i].field = items[item[i]].field
                                   /\ sort[i].asc <=> Ascending(items[item[i]])
        /\ \A j \in 1..n : Empty(items[j]) \/ \E i \in 1..Len(sort) : item[i] = j
  BY <1>5, Zenon DEF KeysOf, sort
<1>8. DOMAIN sort = 1..Len(sort) /\ DOMAIN items = 1..n
  BY <1>1, <1>6, Zenon DEF sort
<1>9. SortedBy(sort, items)
  <2>1. /\ item \in [DOMAIN sort -> DOMAIN items]
        /\ \A i, j \in DOMAIN sort : i < j => item[i] < item[j]
        /\ \A i \in DOMAIN sort : /\ sort[i].field = items[item[i]].field
                                  /\ sort[i].asc <=> Ascending(items[item[i]])
    BY <1>7, <1>8, Zenon
  <2>2. \A j \in DOMAIN items : Empty(items[j]) \/ \E i \in DOMAIN sort : item[i] = j
    BY <1>7, <1>8, Zenon
  <2> QED BY <2>1, <2>2, Zenon DEF SortedBy
<1> QED BY <1>9, Zenon DEF sort
\* The clauses of the base filter come first in every request.
LEMMA BaseFirst ==
  ASSUME NEW t, t.base_filter \in Seq(STRING), NEW projected, NEW f,
         NEW i \in DOMAIN t.base_filter
  PROVE  /\ i \in DOMAIN SearchBody(t, projected, f).filter
         /\ SearchBody(t, projected, f).filter[i] = Base(t.base_filter[i])
<1> DEFINE like == [op |-> f.op, like |-> LikeToQuery(f.pattern, f.op = "ilike"), lit |-> None]
           compare == [op |-> f.op, like |-> None, lit |-> ScalarToJson(f.lit)]
           base == [j \in DOMAIN t.base_filter |-> Base(t.base_filter[j])]
           pushed == Pushed(f)
           n == Len(t.base_filter)
           S == {Base(c) : c \in STRING} \cup {like, compare}
<1>1. pushed \in {<<>>, <<like>>, <<compare>>}
  BY DEF Pushed, Comparison
<1>2. like \in S /\ compare \in S
  OBVIOUS
<1>3. SearchBody(t, projected, f).filter = base \o pushed
  BY DEF SearchBody
<1>4. n \in Nat /\ i \in 1..n /\ base \in Seq(S) /\ Len(base) = n
  <2>1. n \in Nat /\ DOMAIN t.base_filter = 1..n /\ \A j \in 1..n : t.base_filter[j] \in STRING
    OBVIOUS
  <2>2. base \in [1..n -> S]
    BY <2>1
  <2> QED BY <2>1, <2>2
<1>5. base[i] = Base(t.base_filter[i])
  OBVIOUS
<1> HIDE DEF like, compare, base, pushed, n, S
<1>6. pushed \in Seq(S)
  <2>1. <<>> \in Seq(S) /\ <<like>> \in Seq(S) /\ <<compare>> \in Seq(S)
    BY <1>2
  <2> QED BY <1>1, <2>1, Zenon
<1>7. i \in DOMAIN (base \o pushed) /\ (base \o pushed)[i] = base[i]
  BY <1>4, <1>6, ConcatProperties
<1> QED BY <1>3, <1>5, <1>7, Zenon

\* The options found are those of the statement unless their prefix is another's.
LEMMA FoundOptions ==
  Found(cmd) = IF cmd.prefix \in {"", "format."} THEN cmd.options ELSE NoOptions
BY Zenon DEF Found, Qualified

\* Every option given is in force in every plan and request, or there is no table.
THEOREM OptionsAreInForce == Spec => []OptionsInForce
<1>1. QueryInv /\ StatementInv => OptionsInForce
  <2> SUFFICES ASSUME QueryInv, StatementInv, plan # None PROVE OptionsInForce
    BY Zenon DEF OptionsInForce
  <2> DEFINE o == IF cmd.prefix \in {"", "format."} THEN cmd.options ELSE NoOptions
  <2>0. o = Found(cmd)
    BY FoundOptions, Zenon
  <2> HIDE DEF o
  <2> DEFINE inner == plan.exec.inner
  <2>1. /\ table = Settled(table.schema) /\ Wrong(o) = None
        /\ plan.exec = ScanOf(table) /\ body = SearchBody(table, plan.projected, filter)
    BY <2>0 DEF StatementInv, PlanInv
  <2>2. /\ o.page_size \in Nat \cup {None} /\ o.max_rows \in Nat \cup {None}
        /\ o.partitions \in Nat \cup {None}
        /\ o.sort # None => /\ o.sort \in Seq(SortItem)
                            /\ \A i \in DOMAIN o.sort : Directed(o.sort[i])
        /\ o.base_filter # None => o.base_filter.clauses \in Seq(STRING)
    BY <2>0, <2>1, StatementTypes, OptionTypes
  <2>3. /\ table.page_size = IF o.page_size = None THEN 5000 ELSE Plan!AtLeastOne(o.page_size)
        /\ table.max_rows = IF o.max_rows = None THEN None ELSE o.max_rows
        /\ table.partitions = IF o.partitions = None THEN 1 ELSE Plan!AtLeastOne(o.partitions)
        /\ o.sort # None => table.sort = SortOf(o.sort)
        /\ o.base_filter # None => table.base_filter = o.base_filter.clauses
    BY <2>0, <2>1, SettledFields
  <2>4. /\ inner.page_size = table.page_size
        /\ inner.fetch = table.max_rows
        /\ inner.partitions = IF table.max_rows # None THEN 1 ELSE table.partitions
    BY <2>0, <2>1, TableSizes, ScanOfTable
  <2> HIDE DEF inner
  <2>5. /\ inner.page_size = IF o.page_size = None THEN 5000
                             ELSE IF o.page_size = 0 THEN 1 ELSE o.page_size
        /\ inner.fetch = o.max_rows
        /\ inner.partitions = IF o.partitions \in {None, 0} \/ o.max_rows # None
                                THEN 1 ELSE o.partitions
    BY <2>2, <2>3, <2>4, CoercionAssumption DEF Plan!AtLeastOne
  <2>6. ASSUME o.sort # None PROVE SortedBy(body.sort, o.sort)
    <3>1. body.sort = SortOf(o.sort)
      BY <2>1, <2>3, <2>6 DEF SearchBody
    <3>2. SortedBy(SortOf(o.sort), o.sort)
      BY <2>2, <2>6, SortIsBy, Zenon
    <3> QED BY <3>1, <3>2, Zenon
  <2>7. ASSUME o.base_filter # None, NEW i \in DOMAIN o.base_filter.clauses
        PROVE  \E j \in DOMAIN body.filter : body.filter[j] = Base(o.base_filter.clauses[i])
    <3>1. table.base_filter \in Seq(STRING) /\ i \in DOMAIN table.base_filter
      BY <2>2, <2>3, <2>7, Zenon
    <3>2. i \in DOMAIN body.filter /\ body.filter[i] = Base(table.base_filter[i])
      BY <2>1, <3>1, BaseFirst, Zenon
    <3> QED BY <2>3, <2>7, <3>2, Zenon
  <2> QED BY <2>5, <2>6, <2>7, Zenon DEF OptionsInForce, o, inner
<1> QED BY <1>1, QueryInvariant, StatementInvariant, PTL
-----------------------------------------------------------------------------
(* LOCATION.                                                               *)

\* A set of positions that is not empty has a last one.
LEMMA LastPosition ==
  ASSUME NEW n \in Nat, NEW T \in SUBSET (1..n), T # {}
  PROVE  \E i \in T : \A j \in T : j <= i
<1> DEFINE S == {m \in Nat : \A U \in SUBSET (1..m) : U # {} => \E i \in U : \A j \in U : j <= i}
<1>1. 0 \in S
  <2>1. 1..0 = {} /\ \A U \in SUBSET {} : U = {}
    OBVIOUS
  <2> QED BY <2>1
<1>2. ASSUME NEW m \in Nat, m \in S PROVE m + 1 \in S
  <2> SUFFICES ASSUME NEW U \in SUBSET (1..(m + 1)), U # {}
               PROVE  \E i \in U : \A j \in U : j <= i
    OBVIOUS
  <2>1. CASE m + 1 \in U
    BY <2>1
  <2>2. CASE m + 1 \notin U
    <3>1. U \in SUBSET (1..m)
      BY <2>2
    <3> QED BY <1>2, <3>1
  <2> QED BY <2>1, <2>2
<1>3. n \in S
  <2> HIDE DEF S
  <2> QED BY <1>1, <1>2, SetInduction
<1> QED BY <1>3

\* The last of some positions is the one chosen.
LEMMA LastChosen ==
  ASSUME NEW n \in Nat, NEW T \in SUBSET (1..n), NEW k \in T, \A j \in T : j <= k
  PROVE  (CHOOSE i \in T : \A j \in T : j <= i) = k
<1> DEFINE c == CHOOSE i \in T : \A j \in T : j <= i
<1>1. c \in T /\ \A j \in T : j <= c
  OBVIOUS
<1> HIDE DEF c
<1>2. c = k
  BY <1>1
<1> QED BY <1>2 DEF c

Chars == {"w", ":", "/"}

\* The first k characters of s are what is left without its trailing slashes.
Trims(s, k) == /\ k \in 0..Len(s)
               /\ k # 0 => s[k] # "/"
               /\ \A i \in (k + 1)..Len(s) : s[i] = "/"

\* TrimEnd trims.
LEMMA TrimEndTrims ==
  ASSUME NEW s \in Seq(Chars), NEW k, Trims(s, k)
  PROVE  TrimEnd(s) = SubSeq(s, 1, k)
<1> DEFINE last == {i \in 1..Len(s) : s[i] # "/"}
           end == CHOOSE i \in last : \A j \in last : j <= i
<1>1. Len(s) \in Nat /\ k \in 0..Len(s) /\ (k # 0 => s[k] # "/")
      /\ \A i \in (k + 1)..Len(s) : s[i] = "/"
  BY DEF Trims
<1>2. TrimEnd(s) = IF last = {} THEN <<>> ELSE SubSeq(s, 1, end)
  BY DEF TrimEnd
<1>3. last \in SUBSET (1..Len(s)) /\ \A j \in last : j <= k
  BY <1>1
<1>4. CASE k = 0
  <2>1. last = {}
    BY <1>3, <1>4
  <2>2. SubSeq(s, 1, k) = <<>>
    BY <1>4
  <2> QED BY <1>2, <2>1, <2>2
<1>5. CASE k # 0
  <2>1. k \in last
    BY <1>1, <1>5
  <2> HIDE DEF last
  <2>2. end = k
    BY <1>1, <1>3, <2>1, LastChosen, Zenon
  <2> QED BY <1>2, <2>1, <2>2, Zenon
<1> QED BY <1>4, <1>5

\* Every sequence can be trimmed.
LEMMA TrimsSomewhere ==
  ASSUME NEW s \in Seq(Chars)
  PROVE  \E k : Trims(s, k)
<1> DEFINE last == {i \in 1..Len(s) : s[i] # "/"}
<1>1. Len(s) \in Nat /\ last \in SUBSET (1..Len(s))
  OBVIOUS
<1>2. CASE last = {}
  <2>1. Trims(s, 0)
    BY <1>1, <1>2 DEF Trims
  <2> QED BY <2>1
<1>3. CASE last # {}
  <2>1. PICK k \in last : \A j \in last : j <= k
    <3> HIDE DEF last
    <3> QED BY <1>1, <1>3, LastPosition, Zenon
  <2>2. Trims(s, k)
    BY <1>1, <2>1 DEF Trims
  <2> QED BY <2>2
<1> QED BY <1>2, <1>3

\* The base ends at i, before the slash, and the name at k, before the slashes.
Splits(l, i, k) ==
  /\ Trims(l, k)
  /\ i \in 3..(k - 2)
  /\ l[i] = "w" /\ l[i + 1] = "/"
  /\ \A j \in (i + 2)..k : l[j] # "/"
  /\ \E j \in 1..(i - 3) : SubSeq(l, j, j + 2) = <<":", "/", "/">>

\* Such a LOCATION is split there.
LEMMA SplitsThere ==
  ASSUME NEW l \in Location, NEW i, NEW k, Splits(l, i, k)
  PROVE  SplitLocation(l) = [base |-> SubSeq(l, 1, i), index |-> SubSeq(l, i + 2, k)]
<1> DEFINE s == TrimEnd(l)
           slash == {j \in 1..Len(s) : s[j] = "/"}
           at == CHOOSE j \in slash : \A m \in slash : m <= j
           base == SubSeq(s, 1, at - 1)
<1>1. l \in Seq(Chars) /\ Len(l) \in Nat /\ Trims(l, k) /\ k \in 0..Len(l) /\ i \in 3..(k - 2)
      /\ l[i] = "w" /\ l[i + 1] = "/" /\ \A j \in (i + 2)..k : l[j] # "/"
  BY DEF Splits, Trims, Location, Chars
<1>2. PICK j \in 1..(i - 3) : SubSeq(l, j, j + 2) = <<":", "/", "/">>
  BY DEF Splits
<1>3. s = SubSeq(l, 1, k)
  BY <1>1, TrimEndTrims
<1>4. s \in Seq(Chars) /\ Len(s) = k /\ \A m \in 1..k : s[m] = l[m]
  BY <1>1, <1>3
<1> HIDE DEF s
<1>5. at = i + 1
  <2>1. slash \in SUBSET (1..k) /\ i + 1 \in slash /\ k \in Nat /\ \A m \in slash : m <= i + 1
    BY <1>1, <1>4
  <2> HIDE DEF slash
  <2> QED BY <2>1, LastChosen
<1>6. slash # {}
  BY <1>1, <1>4
<1> HIDE DEF at, slash
<1>7. base = SubSeq(l, 1, i) /\ base \in Seq(Chars) /\ Len(base) = i
      /\ \A m \in 1..i : base[m] = l[m]
  BY <1>1, <1>3, <1>4, <1>5
<1>8. SubSeq(s, at + 1, Len(s)) = SubSeq(l, i + 2, k)
  BY <1>1, <1>3, <1>4, <1>5
<1> HIDE DEF base
<1>9. HasScheme(base)
  <2>1. j \in 1..(Len(base) - 2) /\ SubSeq(base, j, j + 2) = SubSeq(l, j, j + 2)
    BY <1>1, <1>7
  <2> QED BY <1>2, <2>1, Zenon DEF HasScheme
<1>10. at # Len(s) /\ base[at - 1] = "w"
  BY <1>1, <1>4, <1>5, <1>7
<1>11. base[at - 1] \notin {":", "/"}
  BY <1>10
<1> QED BY <1>6, <1>7, <1>8, <1>9, <1>10, <1>11, Zenon DEF SplitLocation, s, slash, at, base
\* A LOCATION that is not refused splits somewhere.
LEMMA SplitSomewhere ==
  ASSUME NEW l \in Location, SplitLocation(l) # None
  PROVE  \E i, k : Splits(l, i, k)
<1> DEFINE s == TrimEnd(l)
           slash == {j \in 1..Len(s) : s[j] = "/"}
           at == CHOOSE j \in slash : \A m \in slash : m <= j
           base == SubSeq(s, 1, at - 1)
<1>1. l \in Seq(Chars) /\ Len(l) \in Nat
  BY DEF Location, Chars
<1>2. PICK k : Trims(l, k)
  BY <1>1, TrimsSomewhere
<1>3. s = SubSeq(l, 1, k) /\ k \in 0..Len(l)
  BY <1>1, <1>2, TrimEndTrims DEF Trims
<1>4. s \in Seq(Chars) /\ Len(s) = k /\ \A m \in 1..k : s[m] = l[m]
  BY <1>1, <1>3
<1>5. /\ slash # {} /\ HasScheme(base) /\ at # Len(s) /\ base[at - 1] \notin {":", "/"}
  BY Zenon DEF SplitLocation
<1> HIDE DEF s
<1>6. at \in slash /\ \A m \in slash : m <= at
  <2>1. slash \in SUBSET (1..k) /\ k \in Nat
    BY <1>1, <1>3, <1>4
  <2> HIDE DEF slash
  <2>2. PICK m \in slash : \A j \in slash : j <= m
    BY <1>5, <2>1, LastPosition
  <2>3. at = m
    BY <2>1, <2>2, LastChosen
  <2> QED BY <2>2, <2>3
<1> HIDE DEF at
<1>7. at \in 1..(k - 1) /\ l[at] = "/" /\ \A j \in (at + 1)..k : l[j] # "/"
  BY <1>1, <1>3, <1>4, <1>5, <1>6
<1> DEFINE i == at - 1
<1>8. base \in Seq(Chars) /\ Len(base) = i /\ \A m \in 1..i : base[m] = l[m]
  BY <1>1, <1>3, <1>4, <1>7
<1>9. base = SubSeq(l, 1, i)
  BY <1>1, <1>3, <1>7
<1> HIDE DEF base, slash
<1>10. PICK j \in 1..(i - 2) : SubSeq(base, j, j + 2) = <<":", "/", "/">>
  BY <1>5, <1>8 DEF HasScheme
<1>11. i \in 3..(k - 2)
  BY <1>3, <1>7, <1>10
<1>12. l[i] = "w"
  <2>1. base[i] = l[i] /\ base[i] \in Chars /\ base[i] \notin {":", "/"}
    BY <1>5, <1>8, <1>11
  <2> QED BY <2>1 DEF Chars
<1>13. SubSeq(l, j, j + 2) = <<":", "/", "/">>
  <2>1. SubSeq(base, j, j + 2) = SubSeq(l, j, j + 2)
    BY <1>1, <1>3, <1>7, <1>9, <1>11
  <2> QED BY <1>10, <2>1
<1>14. j \in 1..(i - 3)
  <2>1. l[j + 2] = "/"
    <3>1. SubSeq(l, j, j + 2)[3] = l[j + 2]
      BY <1>1, <1>3, <1>7, <1>11
    <3>2. <<":", "/", "/">>[3] = "/"
      OBVIOUS
    <3> QED BY <1>13, <3>1, <3>2
  <2> QED BY <1>11, <1>12, <2>1
<1>15. l[i + 1] = "/" /\ \A m \in (i + 2)..k : l[m] # "/"
  BY <1>3, <1>7
<1>16. Splits(l, i, k)
  BY <1>2, <1>11, <1>12, <1>13, <1>14, <1>15 DEF Splits
<1> QED BY <1>16

\* What it is split into is well formed, and has no slash to trim.
LEMMA SplitsWellFormed ==
  ASSUME NEW l \in Location, NEW i, NEW k, Splits(l, i, k)
  PROVE  /\ WellFormed(l, SubSeq(l, 1, i), SubSeq(l, i + 2, k))
         /\ TrimEnd(SubSeq(l, 1, i)) = SubSeq(l, 1, i)
<1> DEFINE base == SubSeq(l, 1, i)
           name == SubSeq(l, i + 2, k)
           n == Len(l) - k
           rest == [m \in 1..n |-> "/"]
<1>1. l \in Seq(Chars) /\ Len(l) \in Nat /\ k \in 0..Len(l) /\ i \in 3..(k - 2)
      /\ l[i] = "w" /\ l[i + 1] = "/" /\ \A j \in (i + 2)..k : l[j] # "/"
      /\ \A m \in (k + 1)..Len(l) : l[m] = "/"
  BY DEF Splits, Trims, Location, Chars
<1>2. PICK j \in 1..(i - 3) : SubSeq(l, j, j + 2) = <<":", "/", "/">>
  BY DEF Splits
<1>3. /\ base \in Seq(Chars) /\ Len(base) = i /\ \A m \in 1..i : base[m] = l[m]
      /\ name \in Seq(Chars) /\ Len(name) = k - i - 1
      /\ \A m \in 1..Len(name) : name[m] = l[i + 1 + m]
      /\ n \in 0..Len(l)
  BY <1>1
<1> HIDE DEF n
<1>4. /\ <<"/">> = SubSeq(l, i + 1, i + 1)
      /\ rest = SubSeq(l, k + 1, Len(l))
  <2>1. \A m \in 1..n : l[k + m] = "/"
    BY <1>1 DEF n
  <2>2. SubSeq(l, i + 1, i + 1) = [m \in 1..1 |-> l[i + m]]
    BY <1>1
  <2>3. SubSeq(l, k + 1, Len(l)) = [m \in 1..n |-> l[k + m]]
    BY <1>1 DEF n
  <2>4. SubSeq(l, k + 1, Len(l)) = rest
    BY <2>1, <2>3
  <2>5. <<"/">> = [m \in 1..1 |-> l[i + m]]
    BY <1>1
  <2> QED BY <2>2, <2>4, <2>5
<1> HIDE DEF rest
<1>5. l = base \o <<"/">> \o name \o rest
  <2>1. SubSeq(l, 1, i) \o SubSeq(l, i + 1, i + 1) = SubSeq(l, 1, i + 1)
    BY <1>1, ConcatAdjacentSubSeq
  <2>2. SubSeq(l, 1, i + 1) \o SubSeq(l, i + 2, k) = SubSeq(l, 1, k)
    <3>1. /\ 1 \in 1..(Len(l) + 1) /\ i + 1 \in (1 - 1)..Len(l) /\ k \in (i + 1)..Len(l)
          /\ i + 1 + 1 = i + 2
      BY <1>1
    <3>2. SubSeq(l, 1, i + 1) \o SubSeq(l, i + 1 + 1, k) = SubSeq(l, 1, k)
      BY <1>1, <3>1, ConcatAdjacentSubSeq, Zenon
    <3> QED BY <3>1, <3>2, Zenon
  <2>3. SubSeq(l, 1, k) \o SubSeq(l, k + 1, Len(l)) = l
    <3>1. SubSeq(l, 1, k) \o SubSeq(l, k + 1, Len(l)) = SubSeq(l, 1, Len(l))
      <4>1. 1 \in 1..(Len(l) + 1) /\ k \in (1 - 1)..Len(l) /\ Len(l) \in k..Len(l)
        BY <1>1
      <4> QED BY <1>1, <4>1, ConcatAdjacentSubSeq, Zenon
    <3>2. SubSeq(l, 1, Len(l)) = l
      BY <1>1
    <3> QED BY <3>1, <3>2, Zenon
  <2> QED BY <1>4, <2>1, <2>2, <2>3, Zenon DEF base, name
<1> HIDE DEF base, name
<1>6. name # <<>> /\ \A m \in 1..Len(name) : name[m] # "/"
  <2>1. Len(name) # 0
    BY <1>1, <1>3
  <2>2. ASSUME NEW m \in 1..Len(name) PROVE name[m] # "/"
    <3>1. i + 1 + m \in (i + 2)..k
      BY <1>1, <1>3
    <3> QED BY <1>1, <1>3, <3>1
  <2> QED BY <2>1, <2>2
<1>7. base # <<>> /\ base[Len(base)] = "w"
  BY <1>1, <1>3
<1>8. \E m \in 1..(Len(base) - 3) : SubSeq(base, m, m + 2) = <<":", "/", "/">>
  <2>1. j \in 1..(Len(base) - 3)
    BY <1>3
  <2>2. SubSeq(base, j, j + 2) = SubSeq(l, j, j + 2)
    BY <1>1 DEF base
  <2> QED BY <1>2, <2>1, <2>2
<1>9. WellFormed(l, base, name)
  <2>1. n \in 0..Len(l)
    BY <1>3
  <2> QED BY <1>5, <1>6, <1>7, <1>8, <2>1, Zenon DEF WellFormed, rest
<1>10. TrimEnd(base) = base
  <2>1. Trims(base, i)
    BY <1>1, <1>3 DEF Trims
  <2>2. SubSeq(base, 1, i) = base
    BY <1>1, <1>3
  <2> QED BY <1>3, <2>1, <2>2, TrimEndTrims
<1> QED BY <1>9, <1>10, Zenon DEF base, name

\* Only there is it well formed.
LEMMA WellFormedSplits ==
  ASSUME NEW l \in Location, NEW i \in 1..Len(l), NEW k \in 1..Len(l),
         WellFormed(l, SubSeq(l, 1, i), SubSeq(l, i + 2, k))
  PROVE  Splits(l, i, k)
<1> DEFINE base == SubSeq(l, 1, i)
           name == SubSeq(l, i + 2, k)
<1>1. l \in Seq(Chars) /\ Len(l) \in Nat /\ base \in Seq(Chars) /\ name \in Seq(Chars)
      /\ Len(base) = i /\ \A m \in 1..i : base[m] = l[m]
  BY DEF Location, Chars
<1>2. /\ name # <<>> /\ \A m \in 1..Len(name) : name[m] # "/"
      /\ base[Len(base)] = "w"
  BY Zenon DEF WellFormed
<1>3. i + 2 <= k
  BY <1>1, <1>2
<1>4. Len(name) = k - i - 1 /\ \A m \in 1..Len(name) : name[m] = l[i + 1 + m]
  BY <1>1, <1>3
<1>5. PICK n \in 0..Len(l) : l = base \o <<"/">> \o name \o [m \in 1..n |-> "/"]
  BY Zenon DEF WellFormed
<1>6. PICK j \in 1..(Len(base) - 3) : SubSeq(base, j, j + 2) = <<":", "/", "/">>
  BY Zenon DEF WellFormed
<1>7. SubSeq(base, j, j + 2) = SubSeq(l, j, j + 2) /\ j \in 1..(i - 3)
  BY <1>1, <1>6
<1>8. i \in 3..(k - 2)
  BY <1>3, <1>7
<1> HIDE DEF base, name
<1> DEFINE rest == [m \in 1..n |-> "/"]
           head == base \o <<"/">>
           body0 == head \o name
<1>9. rest \in Seq(Chars) /\ Len(rest) = n /\ \A m \in 1..n : rest[m] = "/"
  <2>1. "/" \in Chars
    BY DEF Chars
  <2> QED BY <2>1
<1> HIDE DEF rest
<1>10. head \in Seq(Chars) /\ Len(head) = i + 1 /\ head[i + 1] = "/"
  <2>1. "/" \in Chars
    BY DEF Chars
  <2> QED BY <1>1, <2>1
<1> HIDE DEF head
<1>11. body0 \in Seq(Chars) /\ Len(body0) = k /\ body0[i + 1] = "/"
  <2>1. /\ body0 \in Seq(Chars) /\ Len(body0) = Len(head) + Len(name)
        /\ \A m \in 1..Len(head) + Len(name) :
             body0[m] = IF m <= Len(head) THEN head[m] ELSE name[m - Len(head)]
    BY <1>1, <1>10, ConcatProperties, Zenon
  <2> HIDE DEF body0
  <2> QED BY <1>4, <1>8, <1>10, <2>1
<1>12. l = body0 \o rest
  BY <1>5, Zenon DEF head, rest
<1> HIDE DEF body0
<1>13. l[i + 1] = "/" /\ Len(l) = k + n /\ \A m \in (k + 1)..Len(l) : l[m] = "/"
  <2>0. /\ Len(l) = Len(body0) + Len(rest)
        /\ \A m \in 1..Len(body0) + Len(rest) :
             l[m] = IF m <= Len(body0) THEN body0[m] ELSE rest[m - Len(body0)]
    BY <1>9, <1>11, <1>12, ConcatProperties, Zenon
  <2>1. Len(l) = k + n /\ l[i + 1] = body0[i + 1]
    BY <1>8, <1>9, <1>11, <2>0
  <2>2. ASSUME NEW m \in (k + 1)..Len(l) PROVE l[m] = "/"
    <3>1. l[m] = rest[m - k] /\ m - k \in 1..n
      BY <1>8, <1>9, <1>11, <2>0, <2>1
    <3> QED BY <1>9, <3>1
  <2> QED BY <1>11, <2>1, <2>2
<1>14. l[i] = "w"
  BY <1>1, <1>2
<1>15. \A m \in (i + 2)..k : l[m] # "/"
  <2> SUFFICES ASSUME NEW m \in (i + 2)..k PROVE l[m] # "/"
    OBVIOUS
  <2>1. m - i - 1 \in 1..Len(name) /\ i + 1 + (m - i - 1) = m
    BY <1>1, <1>4, <1>8
  <2> QED BY <1>2, <1>4, <2>1
<1>16. Trims(l, k)
  BY <1>8, <1>13, <1>15 DEF Trims
<1>17. \E m \in 1..(i - 3) : SubSeq(l, m, m + 2) = <<":", "/", "/">>
  BY <1>6, <1>7, Zenon
<1> QED BY <1>8, <1>13, <1>14, <1>15, <1>16, <1>17, Zenon DEF Splits

\* What a LOCATION splits into is no None.
LEMMA SplitIsSome ==
  ASSUME NEW l \in Location, NEW i, NEW k, Splits(l, i, k)
  PROVE  SplitLocation(l) # None
<1> DEFINE found == [base |-> SubSeq(l, 1, i), index |-> SubSeq(l, i + 2, k)]
<1>1. found \in [base : Location, index : Location]
  <2>1. k \in 0..Len(l) /\ i \in 3..(k - 2) /\ Len(l) \in Nat
    BY DEF Splits, Trims, Location
  <2>2. SubSeq(l, 1, i) \in Location /\ SubSeq(l, i + 2, k) \in Location
    BY <2>1 DEF Location
  <2> QED BY <2>2
<1>2. SplitLocation(l) = found
  BY SplitsThere
<1> HIDE DEF found
<1> QED BY <1>1, <1>2, ExternalTableAssumption

\* The credentials of a client.
LEMMA ClientHas ==
  ASSUME QueryInv, NEW base
  PROVE  /\ ClientFor(factory, base).base = base
         /\ ClientFor(factory, base).auth = Credentials
<1>1. factory \in Factory
  BY StatementTypes
<1> QED BY <1>1 DEF ClientFor, WithBearerToken, WithBasicAuth, NewClient, Credentials, Factory

\* Every request goes where LOCATION says, with the factory's credentials, and a
\* LOCATION is refused only if it says nowhere.
THEOREM RequestsGoAsTold == Spec => []RequestsAsTold
<1>1. QueryInv /\ StatementInv => RequestsAsTold
  <2> SUFFICES ASSUME QueryInv, StatementInv PROVE RequestsAsTold
    OBVIOUS
  <2> DEFINE l == cmd.location
  <2>1. l \in Location
    BY StatementTypes DEF Statement
  <2>2. ASSUME NEW r \in sent PROVE WellFormed(l, r.base, r.index) /\ r.auth = Credentials
    <3> DEFINE t == Provider(cmd.columns)
    <3>1. Named # None /\ r = Request(r.what, t)
      BY DEF StatementInv, SentInv
    <3>2. t.client = ClientFor(factory, Named.base) /\ t.index = Named.index
      BY ProviderFields
    <3>3. r.base = TrimEnd(t.client.base) /\ r.index = t.index /\ r.auth = t.client.auth
      <4> HIDE DEF t
      <4> QED BY <3>1 DEF Request, BaseUrl
    <3>4. t.client.base = Named.base /\ t.client.auth = Credentials
      BY <3>2, ClientHas
    <3>5. PICK i, k : Splits(l, i, k)
      BY <2>1, <3>1, SplitSomewhere DEF Named
    <3>6. Named.base = SubSeq(l, 1, i) /\ Named.index = SubSeq(l, i + 2, k)
      BY <2>1, <3>5, SplitsThere DEF Named
    <3>7. /\ WellFormed(l, SubSeq(l, 1, i), SubSeq(l, i + 2, k))
          /\ TrimEnd(SubSeq(l, 1, i)) = SubSeq(l, 1, i)
      BY <2>1, <3>5, SplitsWellFormed
    <3> HIDE DEF l, t
    <3> QED BY <3>2, <3>3, <3>4, <3>6, <3>7, Zenon
  <2>3. ASSUME error = "location", NEW i \in 1..Len(l), NEW k \in 1..Len(l)
        PROVE  ~WellFormed(l, SubSeq(l, 1, i), SubSeq(l, i + 2, k))
    <3>1. SplitLocation(l) = None
      BY <2>3 DEF StatementInv, ErrorInv, Named
    <3> QED BY <2>1, <3>1, WellFormedSplits, SplitIsSome
  <2> QED BY <2>2, <2>3, Zenon DEF RequestsAsTold
<1> QED BY <1>1, QueryInvariant, StatementInvariant, PTL
=============================================================================
