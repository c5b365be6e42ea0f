----------------------------- MODULE LikePattern -----------------------------
(***************************************************************************)
(* SQL LIKE patterns as OpenSearch clauses (pushdown.rs like_to_query and  *)
(* push_escaped).  A pattern is a sequence of characters, of which only    *)
(* the ones special in SQL or in OpenSearch are told apart.  The loop is a *)
(* recursive function over the positions of the pattern.                   *)
(***************************************************************************)
EXTENDS Naturals, Sequences

CONSTANT Char          \* one-character strings

Pattern == Seq(Char)

\* The locals of the loop; `escape`: the character read last was a backslash that
\* makes the next one literal.
LoopState == [prefix : Seq(Char), wildcard : Seq(Char \cup {"*", "?", "\\"}),
              seen_wild : BOOLEAN, pure_prefix : BOOLEAN, escape : BOOLEAN]

Start == [prefix |-> <<>>, wildcard |-> <<>>, seen_wild |-> FALSE,
          pure_prefix |-> TRUE, escape |-> FALSE]
-----------------------------------------------------------------------------
(* Plausible mistakes; the runs refute them.                               *)

EscapedNever(c) == <<c>>

PercentOnlyFirst(st, last) ==
  [st EXCEPT !.seen_wild = TRUE, !.wildcard = Append(@, "*"), !.pure_prefix = FALSE]
-----------------------------------------------------------------------------
\* push_escaped.
Escaped(c) == IF c \in {"*", "?", "\\"} THEN <<"\\", c>> ELSE <<c>>

Literally(st, c) ==
  [st EXCEPT !.prefix = IF st.seen_wild THEN @ ELSE Append(@, c),
             !.wildcard = @ \o Escaped(c),
             !.escape = FALSE]

\* `last`: nothing follows (chars.peek() is None).
Percent(st, last) ==
  [st EXCEPT !.seen_wild = TRUE, !.wildcard = Append(@, "*"),
             !.pure_prefix = @ /\ ~st.seen_wild /\ last]

Underscore(st) ==
  [st EXCEPT !.seen_wild = TRUE, !.wildcard = Append(@, "?"), !.pure_prefix = FALSE]

Consume(st, c, last) ==
  CASE st.escape                     -> Literally(st, c)
    [] ~st.escape /\ c = "\\"        -> [st EXCEPT !.escape = TRUE]
    [] ~st.escape /\ c = "%"         -> Percent(st, last)
    [] ~st.escape /\ c = "_"         -> Underscore(st)
    [] OTHER                         -> Literally(st, c)

Consumed(pattern) ==
  LET after[i \in 0..Len(pattern)] ==
        IF i = 0 THEN Start ELSE Consume(after[i - 1], pattern[i], i = Len(pattern))
  IN  after[Len(pattern)]

\* The clause: a prefix query or a wildcard query, for ILIKE with the flag set.
LikeToQuery(pattern, case_insensitive) ==
  LET st == Consumed(pattern)
      prefixed == st.seen_wild /\ st.pure_prefix
  IN  [query |-> IF prefixed THEN "prefix" ELSE "wildcard",
       value |-> IF prefixed THEN st.prefix ELSE st.wildcard,
       case_insensitive |-> case_insensitive]
-----------------------------------------------------------------------------
(* What patterns mean: a sequence of characters, any-run and any-one.      *)

Run     == [any |-> "run", char |-> ""]
One     == [any |-> "one", char |-> ""]
Only(c) == [any |-> "no", char |-> c]

\* Both languages: a character that stands for any run, one for any character, and
\* a backslash that takes the next character for itself, or, at the very end,
\* itself (external: DataFusion's LIKE kernels and Lucene's wildcard query).
Meaning(s, run, one) ==
  LET from[i \in 1..(Len(s) + 1)] ==
        CASE i > Len(s)                              -> <<>>
          [] i <= Len(s) /\ s[i] = run               -> <<Run>> \o from[i + 1]
          [] i <= Len(s) /\ s[i] = one               -> <<One>> \o from[i + 1]
          [] i < Len(s) /\ s[i] = "\\"               -> <<Only(s[i + 1])>> \o from[i + 2]
          [] OTHER                                   -> <<Only(s[i])>> \o from[i + 1]
  IN  from[1]

\* External: what OpenSearch makes of a clause.
ClauseMeaning(clause) ==
  IF clause.query = "prefix"
    THEN [i \in 1..Len(clause.value) |-> Only(clause.value[i])] \o <<Run>>
    ELSE Meaning(clause.value, "*", "?")

\* Nothing follows the last escape.
Dangling(pattern) ==
  \E k \in 0..Len(pattern) :
    /\ (Len(pattern) - k) % 2 = 1
    /\ k = 0 \/ pattern[k] # "\\"
    /\ \A i \in (k + 1)..Len(pattern) : pattern[i] = "\\"

\* One wildcard, a run, and it is the last thing in the pattern.
EndsInOnlyRun(tokens) ==
  /\ tokens # <<>>
  /\ \A i \in 1..Len(tokens) : tokens[i].any = IF i = Len(tokens) THEN "run" ELSE "no"
=============================================================================
