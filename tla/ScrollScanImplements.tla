------------------------ MODULE ScrollScanImplements ------------------------
(***************************************************************************)
(* ScrollScan implements ScanContract: a stream's answer is fixed by the   *)
(* search that opens its cursor (or, under a fetch of 0, by its execution, *)
(* since no search is sent), and paging hands out exactly that.            *)
(***************************************************************************)
EXTENDS ScrollScan

\* How many of the hits found by its search a stream is to return.
WantedHits(p) ==
  LET found == Len(context[p].hits)
      page  == IF exec.inner.single_page THEN AtMost(found, exec.inner.page_size) ELSE found
  IN  AtMost(page, exec.inner.fetch)

AnswerOf(p) ==
  IF context[p] # None THEN SubSeq(context[p].hits, 1, WantedHits(p))
  ELSE IF exec.inner.fetch = 0 /\ status[p] \notin {"new", "refused"} THEN <<>>
  ELSE None

OutcomeOf(p) ==
  CASE status[p] = "ended"                           -> "complete"
    [] status[p] \in {"failed", "dropped", "refused"} -> "aborted"
    [] OTHER                                         -> "open"

Contract == INSTANCE ScanContract WITH
  present <- IF index = None THEN {} ELSE index,
  caps    <- RowLimits,
  answer  <- [p \in Stream |-> AnswerOf(p)],
  rows    <- out,
  outcome <- [p \in Stream |-> OutcomeOf(p)]

\* Every behaviour of the streams and the cluster is one the contract allows:
\* paging, slicing, cursor expiry and lost messages are invisible to the
\* consumer except as an abort (exec.rs next_page, the whole of it).
ImplementsContract == Contract!Spec
=============================================================================
