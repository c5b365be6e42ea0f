---------------------------- MODULE ScanContract ----------------------------
(***************************************************************************)
(* What a scan promises its consumer, without pages, cursors, messages or  *)
(* partitions' arithmetic.  Each stream's rows are fixed once, out of what *)
(* the index holds at one moment; no two streams share a document and all  *)
(* of them together respect every row limit.  A stream hands its rows out  *)
(* in order and ends only when it has handed out all of them; otherwise it *)
(* aborts, which the consumer is told.  ScrollScan implements this         *)
(* (ScrollScanImplements).                                                 *)
(***************************************************************************)
EXTENDS Integers, Sequences, FiniteSets, SequencesExt

CONSTANTS Doc, Stream, None

VARIABLES
  present,   \* the documents in the index (none when there is no index)
  caps,      \* the row limits asked for
  answer,    \* answer[p]: the rows stream p is to return, None until fixed
  rows,      \* rows[p]: the rows it has returned
  outcome    \* outcome[p]: "open", "complete" or "aborted"

vars == <<present, caps, answer, rows, outcome>>

Fixed(a) == {p \in Stream : a[p] # None}

Init ==
  /\ present \subseteq Doc
  /\ caps \subseteq Nat
  /\ answer = [p \in Stream |-> None]
  /\ rows = [p \in Stream |-> <<>>]
  /\ outcome = [p \in Stream |-> "open"]

\* The index changes whenever it likes.
Change ==
  /\ present' \subseteq Doc
  /\ UNCHANGED <<caps, answer, rows, outcome>>

\* A limit may still be added while no answer is fixed.
Limit ==
  /\ Fixed(answer) = {}
  /\ caps' \subseteq Nat /\ caps \subseteq caps'
  /\ UNCHANGED <<present, answer, rows, outcome>>

Fix(p) ==
  /\ outcome[p] = "open" /\ answer[p] = None
  /\ \E share \in SUBSET present : \E a \in SetToSeqs(share) :
       answer' = [answer EXCEPT ![p] = a]
  /\ \A q \in Fixed(answer) : ToSet(answer'[p]) \cap ToSet(answer[q]) = {}
  /\ \A l \in caps :
       FoldSet(LAMBDA q, n : n + Len(answer'[q]), 0, Fixed(answer')) <= l
  /\ UNCHANGED <<present, caps, rows, outcome>>

Deliver(p) ==
  /\ outcome[p] = "open" /\ answer[p] # None
  /\ \E n \in Len(rows[p]) + 1 .. Len(answer[p]) :
       rows' = [rows EXCEPT ![p] = SubSeq(answer[p], 1, n)]
  /\ UNCHANGED <<present, caps, answer, outcome>>

Complete(p) ==
  /\ outcome[p] = "open" /\ rows[p] = answer[p]
  /\ outcome' = [outcome EXCEPT ![p] = "complete"]
  /\ UNCHANGED <<present, caps, answer, rows>>

Abort(p) ==
  /\ outcome[p] = "open"
  /\ outcome' = [outcome EXCEPT ![p] = "aborted"]
  /\ UNCHANGED <<present, caps, answer, rows>>

Next ==
  \/ Change \/ Limit
  \/ \E p \in Stream : Fix(p) \/ Deliver(p) \/ Complete(p) \/ Abort(p)

Spec == Init /\ [][Next]_vars
=============================================================================
