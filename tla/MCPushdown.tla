----------------------------- MODULE MCPushdown -----------------------------
(***************************************************************************)
(* A small instance of Pushdown for TLC: two columns, two values, so that  *)
(* a literal lies below, on and above a field; both orders of the sides;   *)
(* NULL, a cast and a literal that cannot be pushed.                       *)
(***************************************************************************)
EXTENDS Pushdown

CONSTANTS a, b

Column(f)  == [type |-> "column", of |-> f]
Literal(v) == [type |-> "literal", of |-> v]

Operands == {Column(a), Column(b), [type |-> "cast", of |-> a],
             Literal(1), Literal(None), [type |-> "decimal", of |-> 1]}

Lists == {{Literal(0), Literal(1)}, {Literal(1), Literal(None)}}

BaseFilters == {{}, {Term(a, 1)}}
=============================================================================
