------------------------- MODULE ScrollScanInvariant -------------------------
(***************************************************************************)
(* The inductive invariant of ScrollScan.  It follows a stream through its *)
(* states: what it holds, what is on the wire and what the cluster keeps   *)
(* for it agree on how far the answer has been handed out.                 *)
(***************************************************************************)
EXTENDS ScrollScan

\* The plan is the one the query and the pushed limits call for.
PlanInv ==
  /\ PlanOK(exec)
  /\ exec.inner.partitions <= MaxPartitions
  /\ exec.inner.page_size = AtLeastOne(query.page_size)
  /\ exec.inner.single_page = query.search_after
  /\ FetchIsLeast(exec.inner.fetch, limits)

Hits(p) == context[p].hits

\* The rows emitted are the first rows of the answer.
Prefix(p) ==
  /\ context[p] = None => out[p] = <<>>
  /\ context[p] # None => /\ Len(out[p]) <= Len(Hits(p))
                          /\ out[p] = SubSeq(Hits(p), 1, Len(out[p]))

\* `remaining` counts what the fetch still allows.
Counted(p) ==
  /\ exec.inner.fetch = None => st[p].remaining = None
  /\ exec.inner.fetch # None => /\ Len(out[p]) <= exec.inner.fetch
                                /\ st[p].remaining = exec.inner.fetch - Len(out[p])

\* Nothing more is to be emitted.
Complete(p) ==
  IF context[p] = None THEN exec.inner.fetch = 0
                       ELSE AllThatIsWanted(Len(out[p]), Len(Hits(p)))

\* The cluster's position is within its answer, and its page size is the size
\* of the first request.
Positioned(p) ==
  /\ context[p].pos <= Len(Hits(p))
  /\ context[p].size = RequestSize(exec.inner, exec.inner.fetch)

\* Not started: nothing has been sent or received.
Untouched(p) ==
  /\ context[p] = None /\ out[p] = <<>>
  /\ st[p].scroll_id = None /\ ~st[p].started /\ ~st[p].done

\* A full page has been received and another is wanted, from the cursor held.
Paging(p) ==
  /\ context[p] # None /\ Positioned(p)
  /\ ~exec.inner.single_page
  /\ st[p].started /\ ~Exhausted(st[p]) /\ st[p].scroll_id = p

NewInv(p) == Untouched(p) /\ wire[p] = Idle

ReadyInv(p) ==
  /\ wire[p] = Idle
  /\ Counted(p)
  /\ st[p].scroll_id \in {None, p} /\ (st[p].scroll_id # None => context[p] # None)
  /\ \/ Untouched(p)
     \/ st[p].started /\ Exhausted(st[p]) /\ context[p] # None /\ Complete(p)
     \/ Paging(p) /\ Len(out[p]) = context[p].pos

\* The first request is out, or answered by the first page of the answer.
SearchingInv(p) ==
  /\ out[p] = <<>> /\ Counted(p)
  /\ st[p].scroll_id = None /\ st[p].started /\ ~Exhausted(st[p])
  /\ \/ wire[p].type \in {"error", "broken"}
     \/ /\ context[p] = None
        /\ wire[p] = [type   |-> "search",
                      size   |-> RequestSize(exec.inner, exec.inner.fetch),
                      slice  |-> SliceOf(p, exec.inner),
                      scroll |-> ~exec.inner.single_page]
     \/ wire[p].type = "not_found" /\ context[p] # None /\ Hits(p) = <<>>
     \/ /\ wire[p].type = "page"
        /\ context[p] # None /\ Positioned(p)
        /\ context[p].pos = AtMost(Len(Hits(p)), context[p].size)
        /\ wire[p].hits = SubSeq(Hits(p), 1, context[p].pos)
        /\ wire[p].scroll_id = IF exec.inner.single_page THEN None ELSE p

\* A further page is asked for, or on its way.
ScrollingInv(p) ==
  /\ Paging(p) /\ Counted(p)
  /\ \/ wire[p].type \in {"not_found", "broken"}
     \/ wire[p] = [type |-> "scroll", id |-> p] /\ Len(out[p]) = context[p].pos
     \/ /\ wire[p].type = "page"
        /\ context[p].pos = AtMost(Len(Hits(p)), Len(out[p]) + context[p].size)
        /\ wire[p].hits = SubSeq(Hits(p), Len(out[p]) + 1, context[p].pos)
        /\ wire[p].scroll_id \in {p, None}

ClearingInv(p) ==
  /\ context[p] # None /\ Complete(p)
  /\ wire[p].type \in {"cleared", "broken"} \/ wire[p] = [type |-> "clear", id |-> p]

StreamInv(p) ==
  /\ Prefix(p)
  /\ status[p] \in {"new", "refused"} => NewInv(p)
  /\ status[p] = "ready"     => ReadyInv(p)
  /\ status[p] = "searching" => SearchingInv(p)
  /\ status[p] = "scrolling" => ScrollingInv(p)
  /\ status[p] = "clearing"  => ClearingInv(p)
  /\ status[p] = "ended"     => Complete(p) /\ wire[p] = Idle
  /\ status[p] \in {"failed", "dropped"} => wire[p] = Idle

\* The inductive invariant: at every moment of every scan a stream's state, the
\* message it waits for and the cluster's context tell the same story.
IInv == TypeOK /\ PlanInv /\ \A p \in Stream : StreamInv(p)
=============================================================================
