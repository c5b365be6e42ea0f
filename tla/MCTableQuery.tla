----------------------------- MODULE MCTableQuery -----------------------------
(***************************************************************************)
(* Small instances of TableQuery for TLC: statements that vary their       *)
(* LOCATION, their options, or their columns and the index.                *)
(***************************************************************************)
EXTENDS TableQuery, TLC

\* 8, 16, 32 and 64 bits, scaled down.
Widths == (8 :> 2) @@ (16 :> 3) @@ (32 :> 4) @@ (64 :> 6)

On(location, columns, prefix, options) ==
  [location |-> location, columns |-> columns, prefix |-> prefix, options |-> options]

Good  == <<"w", ":", "/", "/", "w", "/", "w">>
NoKey == [basic |-> FALSE, bearer |-> FALSE]

F(type) == [c \in {"f"} |-> type]

\* Every LOCATION of up to 8 tokens, with every kind of credentials.
LocationScenarios ==
  [cmd : {On(l, F("Boolean"), "", NoOptions) : l \in UNION {[1..n -> {"w", ":", "/"}] : n \in 0..8}},
   factory : {NoKey}, index : {"boolean"}]
  \cup
  [cmd : {On(l, cs, "", NoOptions) : l \in {Good, Good \o <<"/">>, Good \o <<"/", "w">>},
                                     cs \in {F("Boolean"), NoColumns}},
   factory : [basic : BOOLEAN, bearer : BOOLEAN], index : {"boolean", "empty", None}]

Item(field, dir) == [field |-> field, dir |-> dir]

\* Every set of options, and keys that DataFusion qualifies, that are qualified
\* already, and that belong to something else.
OptionScenarios ==
  [cmd : {On(Good, F("Boolean"), prefix, o) :
            prefix \in {"", "format.", "other."},
            o \in [page_size : {None, -1, 0, 3}, max_rows : {None, -1, 0, 2},
                   partitions : {None, -1, 0, 2},
                   sort : {None, <<>>, <<Item("f", "desc"), Item("", ""), Item("g", ""), Item("", "asc")>>,
                           <<Item("f", "up")>>},
                   base_filter : {None, [array |-> FALSE, clauses |-> <<>>],
                                  [array |-> TRUE, clauses |-> <<"tenant", "live">>]}]},
   factory : {NoKey}, index : {"boolean"}]

\* Every inferred column, every declared one over indices of each kind, with a
\* column beside it or not.
ColumnScenarios ==
  [cmd : {On(Good, NoColumns, "", NoOptions)}, factory : {NoKey},
   index : Mappings \cup {"empty", None}]
  \cup
  [cmd : {On(Good, F(type), "", NoOptions) : type \in ArrowTypes \ {"LargeUtf8"}},
   factory : {NoKey},
   index : {"long", "unsigned_long", "double", "boolean", "keyword", "text", "date",
            "date_nanos", "object", None}]
  \cup
  [cmd : {On(Good, [f |-> type, g |-> "other"], "", NoOptions) : type \in {"LargeUtf8", "UInt8"}},
   factory : {NoKey}, index : {"keyword"}]

Scenarios == LocationScenarios \cup OptionScenarios \cup ColumnScenarios

Chars == {"a", "%", "_", "\\", "*", "?"}

\* One column of a declared type is asked every pattern.
Patterns ==
  [t \in StringTypes |->
     IF t = "LargeUtf8" THEN UNION {[1..n -> Char] : n \in 0..4} ELSE {<<"a", "%">>}]

Scalars(type, vs) == {Scalar(type, v) : v \in vs}

Literals ==
  Scalars("Utf8", {0, 1, None}) \cup Scalars("Boolean", {0, 1})
    \cup Scalars("Int64", {-32, -1, 0, 1, 31}) \cup Scalars("UInt64", {1, 32, 63})
    \cup Scalars("Float64", {-1, 1, 2, NaN})
    \cup Scalars("TimestampSecond", {-17, -16, -1, 0, 1, 16})
    \cup Scalars("TimestampMillisecond", {-32, -1, 0, 1, 31})
    \cup Scalars("TimestampMicrosecond", {-3, -1, 0, 1, 2})
    \cup Scalars("TimestampNanosecond", {-6, -5, -1, 0, 3, 4, 5})
    \cup Scalars("Date32", {-8, -1, 0, 1}) \cup Scalars("other", {None})

Jsons(kind, vs) == {Json(kind, v) : v \in vs}

Sources ==
  Jsons("null", {0}) \cup Jsons("object", {0}) \cup Jsons("bool", {0, 1}) \cup Jsons("word", {0, 1})
    \cup Jsons("int", {-32, -9, -3, -1, 0, 1, 2, 5, 31, 32, 63})
    \cup Jsons("float", {-66, -3, -1, 0, 1, 2, 5, 64, 128})
    \cup Jsons("iso", {-6, -4, -3, 0, 2, 4, 5})

\* Only what saturation takes.
LargeNumbers == [cmd : {On(Good, NoColumns, "", NoOptions)}, factory : {NoKey},
                 index : {"unsigned_long"}]
=============================================================================
