---------------------------- MODULE ExternalTable ----------------------------
(***************************************************************************)
(* CREATE EXTERNAL TABLE ... STORED AS OPENSEARCH: from LOCATION, columns  *)
(* and OPTIONS to a table (table.rs OpenSearchTableProviderFactory, the    *)
(* OpenSearchTableFactory below it, and client.rs mapping).  The only      *)
(* await is the mapping request, which a statement with columns does not   *)
(* make.  The cluster's reply is external.                                 *)
(***************************************************************************)
EXTENDS Coercion, Sequences

CONSTANT Scenario  \* the statements considered, each on a factory and an index

\* A LOCATION by its tokens; "w" is a run of any other characters.
Location == Seq({"w", ":", "/"})

\* The options by name, as written; a number that does not parse as usize is
\* negative, a sort is a list of items, a base filter is a list of clauses or not
\* a JSON array.
SortItem   == [field : STRING, dir : STRING]
BaseFilter == [array : BOOLEAN, clauses : Seq(STRING)]
Options    == [page_size : Int \cup {None}, max_rows : Int \cup {None},
               partitions : Int \cup {None}, sort : Seq(SortItem) \cup {None},
               base_filter : BaseFilter \cup {None}]

NoOptions == [page_size |-> None, max_rows |-> None, partitions |-> None,
              sort |-> None, base_filter |-> None]

\* The columns by name; {} is a statement without a column list.
Columns == UNION {[fs -> ArrowTypes] : fs \in {{}, {"f"}, {"f", "g"}}}
NoColumns == [c \in {} |-> "other"]

Statement == [location : Location, columns : Columns, prefix : STRING, options : Options]

\* The credentials that were set on the factory.
Factory == [basic : BOOLEAN, bearer : BOOLEAN]

\* An index is missing, has no field, or has a field f of some mapping type.
IndexState == {None, "empty"} \cup Mappings

\* Why a statement fails: its LOCATION, the mapping request, an option; then a query.
OptionNames == {"page_size", "max_rows", "partitions", "sort", "base_filter"}
Errors == {"location", "Http", "IndexNotFound", "MalformedMapping"} \cup OptionNames
            \cup {"NotImplemented"}

ASSUME ExternalTableAssumption ==
  /\ None \notin Errors
  /\ None \notin [base : Location, index : Location]
  /\ Scenario \subseteq [cmd : Statement, factory : Factory, index : IndexState]

Plan == INSTANCE ScanPlan

VARIABLES
  cmd,      \* the statement
  factory,  \* the factory's credentials
  index,    \* the state of the index
  stage,    \* "statement", "mapping", "options", "created", "failed", then TableQuery's
  sent,     \* the requests made: what for, and to which base, index, with which credentials
  table,    \* the OpenSearchTableProvider, or None
  error     \* why create() failed, or None

createVars == <<cmd, factory, index, stage, sent, table, error>>
-----------------------------------------------------------------------------
(* LOCATION.                                                               *)

\* The longest prefix that does not end in a slash.
TrimEnd(s) ==
  LET last == {i \in 1..Len(s) : s[i] # "/"}
  IN  IF last = {} THEN <<>>
      ELSE SubSeq(s, 1, CHOOSE i \in last : \A j \in last : j <= i)

HasScheme(s) == \E i \in 1..(Len(s) - 2) : SubSeq(s, i, i + 2) = <<":", "/", "/">>

\* A plausible mistake: anything before the last slash is a base.
SplitLocationAnyBase(location) ==
  LET s == TrimEnd(location)
      slash == {i \in 1..Len(s) : s[i] = "/"}
      at == CHOOSE i \in slash : \A j \in slash : j <= i
  IN  IF slash = {} THEN None
      ELSE [base |-> SubSeq(s, 1, at - 1), index |-> SubSeq(s, at + 1, Len(s))]

\* The base URL and the index, or None: rsplit_once at the last slash.
SplitLocation(location) ==
  LET s == TrimEnd(location)
      slash == {i \in 1..Len(s) : s[i] = "/"}
      at == CHOOSE i \in slash : \A j \in slash : j <= i
      base == SubSeq(s, 1, at - 1)
  IN  IF slash = {} \/ ~HasScheme(base) \/ at = Len(s) \/ base[at - 1] \in {":", "/"}
        THEN None
        ELSE [base |-> base, index |-> SubSeq(s, at + 1, Len(s))]
-----------------------------------------------------------------------------
(* OPTIONS.                                                                *)

\* External: DataFusion qualifies the keys that have no prefix of their own.
Qualified(prefix) == IF prefix = "" THEN "format." ELSE prefix

\* The options create() finds: by their names, once format. is stripped.
Found(c) == IF Qualified(c.prefix) = "format." THEN c.options ELSE NoOptions

\* parse_usize: absent, or a number that parses.
Parses(n) == n = None \/ n >= 0

\* parse_sort: an item that is nothing at all is skipped, a direction is asc, desc or
\* absent.
Empty(item)    == item.field = "" /\ item.dir = ""
Directed(item) == item.dir \in {"asc", "desc", ""}

SortParses(sort) == sort = None \/ \A i \in DOMAIN sort : Directed(sort[i])

\* The keys of a sort, item by item.
Keep(keys, item) ==
  IF Empty(item) THEN keys
  ELSE Append(keys, [field |-> item.field, asc |-> item.dir # "desc"])

SortOf(sort) ==
  LET after[i \in 0..Len(sort)] == IF i = 0 THEN <<>> ELSE Keep(after[i - 1], sort[i])
  IN  after[Len(sort)]

FilterParses(filter) == filter = None \/ filter.array

\* The first option that does not parse, in the order they are read.
Wrong(o) ==
  LET read == <<[option |-> "page_size", ok |-> Parses(o.page_size)],
                [option |-> "max_rows", ok |-> Parses(o.max_rows)],
                [option |-> "partitions", ok |-> Parses(o.partitions)],
                [option |-> "sort", ok |-> SortParses(o.sort)],
                [option |-> "base_filter", ok |-> FilterParses(o.base_filter)]>>
      bad == {i \in DOMAIN read : ~read[i].ok}
  IN  IF bad = {} THEN None ELSE read[CHOOSE i \in bad : \A j \in bad : i <= j].option
-----------------------------------------------------------------------------
(* Tables.                                                                 *)

\* OpenSearchClient: new and its builders, of which the last sets the credentials.
NewClient(base)    == [base |-> base, auth |-> "none"]
WithBasicAuth(c)   == [c EXCEPT !.auth = "basic"]
WithBearerToken(c) == [c EXCEPT !.auth = "bearer"]

\* A plausible mistake: the password is set last, and replaces the token.
ClientForBasicLast(f, base) ==
  LET token == IF f.bearer THEN WithBearerToken(NewClient(base)) ELSE NewClient(base)
  IN  IF f.basic THEN WithBasicAuth(token) ELSE token

ClientFor(f, base) ==
  LET basic == IF f.basic THEN WithBasicAuth(NewClient(base)) ELSE NewClient(base)
  IN  IF f.bearer THEN WithBearerToken(basic) ELSE basic

\* with_client_and_schema.
NewTable(client, name, schema) ==
  [client |-> client, index |-> name, schema |-> schema,
   page_size |-> Plan!DefaultPageSize, max_rows |-> None, partitions |-> 1,
   sort |-> <<>>, base_filter |-> <<>>, search_after |-> FALSE]

\* A plausible mistake: max_rows is taken for the page size.
ConfiguredCrossed(t, o) ==
  [t EXCEPT !.page_size  = IF o.max_rows = None THEN @ ELSE Plan!AtLeastOne(o.max_rows),
            !.max_rows   = IF o.page_size = None THEN @ ELSE o.page_size,
            !.partitions = IF o.partitions = None THEN @ ELSE Plan!AtLeastOne(o.partitions),
            !.sort       = IF o.sort = None THEN @ ELSE SortOf(o.sort),
            !.base_filter = IF o.base_filter = None THEN @ ELSE o.base_filter.clauses]

\* The with_* builders for the options given; sizes are clamped to 1.
Configured(t, o) ==
  [t EXCEPT !.page_size  = IF o.page_size = None THEN @ ELSE Plan!AtLeastOne(o.page_size),
            !.max_rows   = IF o.max_rows = None THEN @ ELSE o.max_rows,
            !.partitions = IF o.partitions = None THEN @ ELSE Plan!AtLeastOne(o.partitions),
            !.sort       = IF o.sort = None THEN @ ELSE SortOf(o.sort),
            !.base_filter = IF o.base_filter = None THEN @ ELSE o.base_filter.clauses]

\* schema_from_mapping of an index with fields f, of the type given, and g.
SchemaFromMapping(mapping) == [c \in {"f", "g"} |-> ArrowTypeFor(IF c = "f" THEN mapping ELSE "keyword")]

\* The URL and the headers of a request: base_url and authed.
BaseUrl(client)  == TrimEnd(client.base)
Request(what, t) == [what |-> what, base |-> BaseUrl(t.client), index |-> t.index,
                     auth |-> t.client.auth]
-----------------------------------------------------------------------------
CreateInit ==
  /\ \E s \in Scenario : cmd = s.cmd /\ factory = s.factory /\ index = s.index
  /\ stage = "statement"
  /\ sent = {}
  /\ table = None
  /\ error = None

Fail(why) == stage' = "failed" /\ error' = why

\* create() up to its await: with columns the table is made without a request.
CreateTable ==
  /\ stage = "statement"
  /\ LET at == SplitLocation(cmd.location)
         t == NewTable(ClientFor(factory, at.base), at.index, cmd.columns)
     IN  \/ /\ at = None
            /\ Fail("location")
            /\ UNCHANGED <<sent, table>>
         \/ /\ at # None
            /\ table' = t
            /\ stage' = IF cmd.columns = NoColumns THEN "mapping" ELSE "options"
            /\ sent' = IF cmd.columns = NoColumns THEN {Request("mapping", t)} ELSE {}
            /\ UNCHANGED error
  /\ UNCHANGED <<cmd, factory, index>>

\* OpenSearchClient::mapping and schema_from_mapping.
ReceiveMapping ==
  /\ stage = "mapping"
  /\ \/ index = None /\ Fail("IndexNotFound") /\ UNCHANGED table
     \/ index = "empty" /\ Fail("MalformedMapping") /\ UNCHANGED table
     \/ /\ index \in Mappings
        /\ table' = [table EXCEPT !.schema = SchemaFromMapping(index)]
        /\ stage' = "options"
        /\ UNCHANGED error
  /\ UNCHANGED <<cmd, factory, index, sent>>

\* The request fails, or its reply is an error or no JSON.
LoseMapping ==
  /\ stage = "mapping"
  /\ Fail("Http")
  /\ UNCHANGED <<cmd, factory, index, sent, table>>

ReadOptions ==
  /\ stage = "options"
  /\ LET o == Found(cmd)
     IN  \/ /\ Wrong(o) # None
            /\ Fail(Wrong(o))
            /\ UNCHANGED table
         \/ /\ Wrong(o) = None
            /\ table' = Configured(table, o)
            /\ stage' = "created"
            /\ UNCHANGED error
  /\ UNCHANGED <<cmd, factory, index, sent>>

CreateNext == CreateTable \/ ReceiveMapping \/ LoseMapping \/ ReadOptions
=============================================================================
