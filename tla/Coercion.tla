------------------------------ MODULE Coercion ------------------------------
(***************************************************************************)
(* Values between JSON, the index and Arrow: the Arrow type of a mapping   *)
(* type and the cell build_batch makes of a JSON value (schema.rs), the    *)
(* JSON value of a literal (pushdown.rs scalar_to_json), and, external,    *)
(* what the index holds of a JSON value.                                   *)
(*                                                                         *)
(* Scaled down: an integer of b bits has Width[b] bits, a float is counted *)
(* in halves, an instant in ticks, of which a nanosecond is one.           *)
(***************************************************************************)
EXTENDS Integers

CONSTANTS None,   \* Option's None, an absent field, a null cell
          Width   \* Width[b]: the bits that stand for b

ASSUME CoercionAssumption ==
  /\ Width \in [{8, 16, 32, 64} -> Nat \ {0}]
  /\ None \notin Int
  /\ None \notin [cell : {"text", "number", "bool", "instant"}, v : Int]

Signed(b)   == -(2 ^ (Width[b] - 1)) .. 2 ^ (Width[b] - 1) - 1
Unsigned(b) == 0 .. 2 ^ Width[b] - 1
I64 == Signed(64)
U64 == Unsigned(64)

Micro == 2             \* ticks of a microsecond
Milli == 4             \* ... of a millisecond
MillisOfSecond == 2
MillisOfDay == 4
-----------------------------------------------------------------------------
(* Types.                                                                  *)

\* serde_json's Value.  "word" and "iso" are strings: a text that is no date, and
\* the ISO text of instant v.  An int is any of i64 or u64.
JsonKinds == {"null", "bool", "int", "float", "word", "iso", "object"}
Json(kind, v) == [json |-> kind, v |-> v]

StringTypes == {"Utf8", "LargeUtf8", "Utf8View"}
IntTypes    == {"Int8", "Int16", "Int32", "Int64", "UInt8", "UInt16", "UInt32", "UInt64"}
ArrowTypes  == StringTypes \cup IntTypes
                 \cup {"Float32", "Float64", "Boolean", "Timestamp(ms)", "other"}

IntegerMappings == {"long", "integer", "short", "byte", "unsigned_long"}
FloatMappings   == {"double", "float", "half_float", "scaled_float"}
DateMappings    == {"date", "date_nanos"}
TextMappings    == {"keyword", "wildcard", "constant_keyword", "ip", "text"}
OpaqueMappings  == {"object", "nested", "geo_point", "geo_shape", "unknown"}
Mappings == IntegerMappings \cup FloatMappings \cup DateMappings \cup TextMappings
              \cup OpaqueMappings \cup {"boolean"}

\* A cell: a text (v is its place in byte order), a number (v in halves), a
\* Boolean (0 or 1), an instant (v in ticks).
Cell(kind, v) == [cell |-> kind, v |-> v]

\* A text's place in byte order; a number's text is not another number's.
Place(json) ==
  LET first == [bool |-> 1000, int |-> 2000, float |-> 3000, iso |-> 4000,
                word |-> 5000, object |-> 6000]
  IN  Cell("text", first[json.json] + json.v)

\* Rounded to a coarser step, as down as up, halves to even: f64 to f32, where a
\* half is too fine for f32.
ToF32(h) == CASE h % 4 = 1 -> h - 1
              [] h % 4 = 3 -> h + 1
              [] OTHER     -> h

\* `f as i64`: towards zero, and saturating.
Saturating(n) == CASE n \in I64 -> n
                   [] n > 0 /\ n \notin I64 -> 2 ^ (Width[64] - 1) - 1
                   [] OTHER -> -(2 ^ (Width[64] - 1))
Truncated(h)  == IF h >= 0 THEN h \div 2 ELSE -((-h) \div 2)
-----------------------------------------------------------------------------
(* Plausible mistakes; the runs refute them.                               *)

AsIntegerTruncating(json) ==
  CASE json.json = "int" /\ json.v \in I64    -> json.v
    [] json.json = "int" /\ json.v \notin I64 -> Saturating(json.v)
    [] json.json = "float"                    -> Saturating(Truncated(json.v))
    [] OTHER -> None

MillisTruncated(ticks) == IF ticks >= 0 THEN ticks \div Milli ELSE -((-ticks) \div Milli)

ArrowTypeForDatesAsText(mapping) ==
  CASE mapping \in IntegerMappings -> "Int64"
    [] mapping \in FloatMappings   -> "Float64"
    [] mapping = "boolean"         -> "Boolean"
    [] OTHER                       -> "Utf8"

SecondsWrapping(t) ==
  LET half == 2 ^ (Width[64] - 1) IN ((t * MillisOfSecond + half) % (2 * half)) - half
-----------------------------------------------------------------------------
(* schema.rs.                                                              *)

ArrowTypeFor(mapping) ==
  CASE mapping \in IntegerMappings -> "Int64"
    [] mapping \in FloatMappings   -> "Float64"
    [] mapping = "boolean"         -> "Boolean"
    [] mapping \in DateMappings    -> "Timestamp(ms)"
    [] OTHER                       -> "Utf8"

\* as_i64, or else the whole-valued f64 of a number (of an int beyond i64, too).
AsInteger(json) ==
  CASE json.json = "int" /\ json.v \in I64        -> json.v
    [] json.json = "int" /\ json.v \notin I64     -> Saturating(json.v)
    [] json.json = "float" /\ json.v % 2 = 0      -> Saturating(json.v \div 2)
    [] OTHER -> None

IntRange(type) ==
  CASE type = "Int8"   -> Signed(8)    [] type = "UInt8"  -> Unsigned(8)
    [] type = "Int16"  -> Signed(16)   [] type = "UInt16" -> Unsigned(16)
    [] type = "Int32"  -> Signed(32)   [] type = "UInt32" -> Unsigned(32)
    [] type = "Int64"  -> Signed(64)   [] type = "UInt64" -> Unsigned(64)

\* T::Native::try_from(n).
Fits(type, n) == n \in IntRange(type)

IntCell(type, json) ==
  LET n == AsInteger(json)
  IN  IF n # None /\ Fits(type, n) THEN Cell("number", 2 * n) ELSE None

\* Value::as_f64, of numbers only.
FloatCell(json) ==
  CASE json.json = "int"   -> Cell("number", 2 * json.v)
    [] json.json = "float" -> Cell("number", json.v)
    [] OTHER               -> None

Float32Cell(json) ==
  LET f == FloatCell(json) IN IF f = None THEN None ELSE Cell("number", ToF32(f.v))

BooleanCell(json) == IF json.json = "bool" THEN Cell("bool", json.v) ELSE None

\* chrono's timestamp_millis rounds down.
Millis(ticks) == ticks \div Milli

\* A number is epoch milliseconds; a string is parsed.
TimestampCell(json) ==
  CASE json.json = "int"   -> Cell("instant", Milli * Saturating(json.v))
    [] json.json = "float" -> Cell("instant", Milli * Saturating(Truncated(json.v)))
    [] json.json = "iso"   -> Cell("instant", Milli * Millis(json.v))
    [] OTHER               -> None

\* json_text: a string as it is, anything else but null as its JSON text.
JsonText(json) == IF json.json = "null" THEN None ELSE Place(json)

Readable(type) == type # "other"   \* build_batch's last arm fails the batch

ReadCell(type, json) ==
  CASE type \in StringTypes     -> JsonText(json)
    [] type \in IntTypes        -> IntCell(type, json)
    [] type = "Float32"         -> Float32Cell(json)
    [] type = "Float64"         -> FloatCell(json)
    [] type = "Boolean"         -> BooleanCell(json)
    [] type = "Timestamp(ms)"   -> TimestampCell(json)
-----------------------------------------------------------------------------
(* pushdown.rs scalar_to_json.  A literal has a value of its type, or None *)
(* (NULL); NaN is a float's value, "other" a type without an arm.          *)

NaN == 9999

ScalarTypes == {"Utf8", "Boolean", "Int64", "UInt64", "Float64", "TimestampSecond",
                "TimestampMillisecond", "TimestampMicrosecond", "TimestampNanosecond",
                "Date32", "other"}
Scalar(type, v) == [scalar |-> type, v |-> v]

\* t.checked_mul(1_000).
Seconds(t) == IF t * MillisOfSecond \in I64 THEN t * MillisOfSecond ELSE None

\* div_euclid.
DivEuclid(ticks) == ticks \div Milli

NonNullToJson(lit) ==
  LET t == lit.scalar
  IN  CASE t = "Utf8"                    -> Json("word", lit.v)
        [] t = "Boolean"                 -> Json("bool", lit.v)
        [] t \in {"Int64", "UInt64"}     -> Json("int", lit.v)
        [] t = "Float64"                 -> IF lit.v = NaN THEN Json("null", 0)
                                                           ELSE Json("float", lit.v)
        [] t = "TimestampSecond"         -> IF Seconds(lit.v) = None THEN None
                                            ELSE Json("int", Seconds(lit.v))
        [] t = "TimestampMillisecond"    -> Json("int", lit.v)
        [] t = "TimestampMicrosecond"    -> Json("int", DivEuclid(lit.v * Micro))
        [] t = "TimestampNanosecond"     -> Json("int", DivEuclid(lit.v))
        [] t = "Date32"                  -> Json("int", lit.v * MillisOfDay)
        [] OTHER                         -> None

ScalarToJson(lit) == IF lit.v = None THEN None ELSE NonNullToJson(lit)

\* What the literal says.
ScalarCell(lit) ==
  CASE lit.scalar = "Utf8"                 -> Place(Json("word", lit.v))
    [] lit.scalar = "Boolean"              -> Cell("bool", lit.v)
    [] lit.scalar \in {"Int64", "UInt64"}  -> Cell("number", 2 * lit.v)
    [] lit.scalar = "Float64"              -> Cell("number", lit.v)
    [] lit.scalar = "TimestampSecond"      -> Cell("instant", lit.v * MillisOfSecond * Milli)
    [] lit.scalar = "TimestampMillisecond" -> Cell("instant", lit.v * Milli)
    [] lit.scalar = "TimestampMicrosecond" -> Cell("instant", lit.v * Micro)
    [] lit.scalar = "TimestampNanosecond"  -> Cell("instant", lit.v)
    [] lit.scalar = "Date32"               -> Cell("instant", lit.v * MillisOfDay * Milli)
-----------------------------------------------------------------------------
(* External: the index.                                                    *)

\* What it searches of a value it accepted for a field of this type: numbers
\* coerced to the type, a date to its resolution, text as lower-case words (the
\* even ones), objects not at all.
Indexed(mapping, json) ==
  IF json.json = "null" \/ mapping \in OpaqueMappings THEN None
  ELSE CASE mapping \in TextMappings ->
              IF mapping = "text" /\ json.json = "word"
                THEN Place(Json("word", 2 * (json.v \div 2))) ELSE Place(json)
         [] mapping \in IntegerMappings ->
              IF json.json = "float" THEN Cell("number", 2 * Truncated(json.v)) ELSE FloatCell(json)
         [] mapping \in FloatMappings -> FloatCell(json)
         [] mapping = "boolean"       -> BooleanCell(json)
         [] mapping = "date"          ->
              Cell("instant", Milli * IF json.json = "iso" THEN Millis(json.v) ELSE json.v)
         [] mapping = "date_nanos"    ->
              Cell("instant", IF json.json = "iso" THEN json.v ELSE Milli * json.v)

\* What it takes the value of a term or range query for: a number is not coerced to
\* the type, a text not analysed.
QueryCell(mapping, json) ==
  CASE mapping \in IntegerMappings -> FloatCell(json)
    [] mapping \in TextMappings    -> Place(json)
    [] OTHER                       -> Indexed(mapping, json)

\* The values it accepts for a field of this type.
Accepts(mapping, json) ==
  \/ json.json = "null" \/ mapping \in OpaqueMappings
  \/ (mapping \in TextMappings /\ json.json # "object")
  \/ /\ mapping \in IntegerMappings /\ json.json \in {"int", "float"}
     /\ LET n == IF json.json = "int" THEN json.v ELSE Truncated(json.v)
        IN  n \in IF mapping = "unsigned_long" THEN U64 ELSE I64
  \/ (mapping \in FloatMappings /\ json.json \in {"int", "float"})
  \/ (mapping = "boolean" /\ json.json = "bool")
  \/ (mapping \in DateMappings /\ (json.json = "iso" \/ (json.json = "int" /\ json.v \in I64)))

Compares(op, x, y) ==
  CASE op = "="  -> x = y
    [] op = "<"  -> x < y
    [] op = "<=" -> x <= y
    [] op = ">"  -> x > y
    [] op = ">=" -> x >= y
=============================================================================
