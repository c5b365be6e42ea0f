-------------------------- MODULE ScrollScanProofs --------------------------
(***************************************************************************)
(* Proofs about ScrollScan for every set of documents, number of streams,  *)
(* page size, limit and combination of faults: the invariant IInv of       *)
(* ScrollScanInvariant is inductive, and what follows from it.             *)
(***************************************************************************)
EXTENDS ScrollScanInvariant, ScanPlanProofs, SequenceTheorems, FiniteSetTheorems
-----------------------------------------------------------------------------
(* Cutting a sequence into pages.                                          *)

\* The first k elements of a page that follows the first m of s.
LEMMA PageSlice ==
  ASSUME NEW D, NEW s \in Seq(D), NEW m \in Nat, NEW n \in Nat, NEW k \in Nat,
         m + k <= n, n <= Len(s)
  PROVE  /\ SubSeq(s, m + 1, n) \in Seq(D)
         /\ Len(SubSeq(s, m + 1, n)) = n - m
         /\ SubSeq(SubSeq(s, m + 1, n), 1, k) = SubSeq(s, m + 1, m + k)
<1>1. m \in Int /\ n \in Int /\ m + 1 \in Int /\ m + k \in Int /\ 1 \in Int /\ k \in Int
  OBVIOUS
<1>2. \A i \in m + 1 .. n : s[i] \in D
  BY LenProperties
<1>3. /\ SubSeq(s, m + 1, n) \in Seq(D)
      /\ Len(SubSeq(s, m + 1, n)) = n - m
      /\ \A i \in 1 .. n - m : SubSeq(s, m + 1, n)[i] = s[m + i]
  BY <1>1, <1>2, SubSeqProperties
<1>4. /\ SubSeq(s, m + 1, m + k) \in Seq(D)
      /\ Len(SubSeq(s, m + 1, m + k)) = k
      /\ \A i \in 1 .. k : SubSeq(s, m + 1, m + k)[i] = s[m + i]
  <2>1. \A i \in m + 1 .. m + k : s[i] \in D
    BY <1>2
  <2> QED BY <1>1, <2>1, SubSeqProperties
<1> DEFINE page == SubSeq(s, m + 1, n)
           cut == SubSeq(page, 1, k)
<1>5. /\ cut \in Seq(D) /\ Len(cut) = k
      /\ \A i \in 1 .. k : cut[i] = page[i]
  <2> HIDE DEF page
  <2>1. \A i \in 1 .. k : page[i] \in D
    BY <1>3, LenProperties DEF page
  <2> QED BY <1>1, <2>1, SubSeqProperties
<1> HIDE DEF cut
<1>6. \A i \in 1 .. k : cut[i] = SubSeq(s, m + 1, m + k)[i]
  BY <1>3, <1>4, <1>5
<1>7. cut = SubSeq(s, m + 1, m + k)
  BY <1>4, <1>5, <1>6, SeqEqual
<1> QED BY <1>3, <1>7 DEF cut

\* Appending the next page's kept hits to the rows gives a longer prefix.
LEMMA PrefixGrows ==
  ASSUME NEW D, NEW s \in Seq(D), NEW m \in Nat, NEW n \in Nat, NEW k \in Nat,
         m + k <= n, n <= Len(s),
         NEW rows, rows = SubSeq(s, 1, m), Len(rows) = m,
         NEW page, page = SubSeq(s, m + 1, n)
  PROVE  /\ rows \o SubSeq(page, 1, k) = SubSeq(s, 1, m + k)
         /\ rows \o SubSeq(page, 1, k) \in Seq(D)
         /\ Len(rows \o SubSeq(page, 1, k)) = m + k
<1>1. SubSeq(page, 1, k) = SubSeq(s, m + 1, m + k)
  BY PageSlice
<1>2. SubSeq(s, 1, m) \o SubSeq(s, m + 1, m + k) = SubSeq(s, 1, m + k)
  <2>1. Len(s) \in Nat
    BY LenProperties
  <2>2. 1 \in 1 .. Len(s) + 1 /\ m \in 1 - 1 .. Len(s) /\ m + k \in m .. Len(s)
    BY <2>1
  <2> QED BY <2>2, ConcatAdjacentSubSeq
<1>3. SubSeq(s, 1, m + k) \in Seq(D) /\ Len(SubSeq(s, 1, m + k)) = m + k
  <2>1. \A i \in 1 .. m + k : s[i] \in D
    BY LenProperties
  <2> QED BY <2>1, SubSeqProperties
<1> QED BY <1>1, <1>2, <1>3

\* Every enumeration of a finite set of documents is a sequence of documents.
LEMMA EnumerationType ==
  ASSUME NEW S \in SUBSET Doc, NEW hits \in SetToSeqs(S)
  PROVE  hits \in Seq(Doc) /\ Len(hits) = Cardinality(S)
<1>1. Cardinality(S) \in Nat
  BY ScanAssumption, FS_Subset, FS_CardinalityType
<1>2. hits \in [1 .. Cardinality(S) -> S]
  BY DEF SetToSeqs
<1> QED BY <1>1, <1>2
-----------------------------------------------------------------------------
(* Facts that every step uses.                                             *)

\* Stream numbers are naturals, and None is none of them.
LEMMA StreamType == Stream \subseteq Nat /\ None \notin Stream /\ IsFiniteSet(Stream)
<1>1. Stream \subseteq Nat /\ IsFiniteSet(Stream)
  BY ScanAssumption, FS_Interval DEF Stream
<1> QED BY <1>1, NoneAssumption

\* What the invariant says of the plan, in the form the steps use it.
LEMMA PlanFacts ==
  ASSUME TypeOK, PlanInv
  PROVE  /\ exec.inner.page_size \in Nat \ {0}
         /\ exec.inner.fetch \in Opt
         /\ exec.inner.single_page \in BOOLEAN
         /\ exec.inner.partitions \in Nat \ {0}
BY DEF PlanInv, PlanOK, Exec, Inner

\* The size of a request: positive while rows are wanted, never over a page.
LEMMA RequestSizeType ==
  ASSUME TypeOK, PlanInv, NEW remaining \in Opt
  PROVE  /\ RequestSize(exec.inner, remaining) \in Nat
         /\ RequestSize(exec.inner, remaining) <= exec.inner.page_size
         /\ remaining # 0 => RequestSize(exec.inner, remaining) > 0
         /\ remaining # None => RequestSize(exec.inner, remaining) <= remaining
<1>1. exec.inner.page_size \in Nat \ {0}
  BY PlanFacts
<1>2. remaining # None => remaining \in Nat
  BY DEF Opt
<1> QED BY <1>1, <1>2, AtMostType DEF RequestSize

\* A stream whose own state does not change keeps its part of the invariant.
LEMMA StreamFrame ==
  ASSUME NEW p \in Stream, StreamInv(p), UNCHANGED planVars,
         status'[p] = status[p], st'[p] = st[p], wire'[p] = wire[p],
         out'[p] = out[p], context'[p] = context[p]
  PROVE  StreamInv(p)'
BY DEF StreamInv, Prefix, NewInv, ReadyInv, SearchingInv, ScrollingInv, ClearingInv,
       Untouched, Counted, Complete, Paging, Positioned, Hits, AllThatIsWanted, RowLimits,
       Exhausted, planVars

\* So a step of one stream preserves the invariant when it does for that stream.
LEMMA OneStream ==
  ASSUME IInv, NEW p \in Stream, UNCHANGED planVars, TypeOK', StreamInv(p)',
         \A q \in Stream \ {p} :
           /\ status'[q] = status[q] /\ st'[q] = st[q] /\ wire'[q] = wire[q]
           /\ out'[q] = out[q] /\ context'[q] = context[q]
  PROVE  IInv'
<1>1. PlanInv'
  BY DEF IInv, PlanInv, planVars
<1>2. ASSUME NEW q \in Stream PROVE StreamInv(q)'
  <2>1. CASE q = p
    BY <2>1
  <2>2. CASE q # p
    BY <2>2, StreamFrame DEF IInv
  <2> QED BY <2>1, <2>2
<1> QED BY <1>1, <1>2 DEF IInv
-----------------------------------------------------------------------------
(* The initial state.                                                      *)

\* The invariant holds of a freshly planned scan.
LEMMA InitInv == Init => IInv
<1> SUFFICES ASSUME Init PROVE IInv
  OBVIOUS
<1>1. query \in Query /\ query.partitions <= MaxPartitions
  BY ScanAssumption DEF Init
<1>2. /\ PlanOK(exec)
      /\ FetchIsLeast(exec.inner.fetch, {query.limit, query.max_rows})
      /\ exec.inner.page_size = AtLeastOne(query.page_size)
      /\ exec.inner.single_page = query.search_after
      /\ exec.inner.partitions <= AtLeastOne(query.partitions)
  <2>1. /\ PlanOK(exec)
        /\ FetchIsLeast(exec.inner.fetch, {query.limit, query.max_rows})
        /\ exec.inner.page_size = AtLeastOne(query.page_size)
        /\ exec.inner.single_page = query.search_after
        /\ exec.inner.partitions = IF exec.inner.fetch # None \/ query.search_after
                                     THEN 1 ELSE AtLeastOne(query.partitions)
    BY <1>1, ScanOK DEF Init
  <2>2. AtLeastOne(query.partitions) \in Nat \ {0}
    BY <1>1 DEF Query, AtLeastOne
  <2>3. exec.inner.partitions <= AtLeastOne(query.partitions)
    BY <2>1, <2>2
  <2> QED BY <2>1, <2>3
<1>3. AtLeastOne(query.partitions) <= MaxPartitions
  BY <1>1, ScanAssumption DEF Query, AtLeastOne
<1>4. PlanInv
  <2>1. exec.inner.partitions \in Nat
    BY <1>2 DEF PlanOK, Exec, Inner
  <2>2. AtLeastOne(query.partitions) \in Nat
    BY <1>1, AtLeastOneType DEF Query
  <2> QED BY <1>2, <1>3, <2>1, <2>2, ScanAssumption DEF PlanInv, Init
<1>5. TypeOK
  <2>1. /\ exec \in Exec
        /\ limits \subseteq Opt
    BY <1>1, <1>2 DEF PlanOK, Init, Query
  <2>2. /\ status \in [Stream -> Status]
        /\ st \in [Stream -> PageState]
        /\ wire \in [Stream -> Message]
        /\ out \in [Stream -> Seq(Doc)]
        /\ context \in [Stream -> Context \cup {None}]
    BY DEF Init, Status, PageState, Opt, Message
  <2>3. /\ index = None \/ index \subseteq Doc
        /\ stable \subseteq Doc /\ writes \in Nat
    BY ScanAssumption DEF Init
  <2> QED BY <1>1, <2>1, <2>2, <2>3 DEF TypeOK
<1>6. ASSUME NEW p \in Stream PROVE StreamInv(p)
  BY DEF Init, StreamInv, Prefix, NewInv, Untouched
<1> QED BY <1>4, <1>5, <1>6 DEF IInv
-----------------------------------------------------------------------------
(* Planning and execution.                                                 *)

\* A limit pushed into the plan before it runs keeps the plan what the limits call
\* for (with_fetch), and no stream has anything to lose yet.
LEMMA PushLimitInv ==
  ASSUME IInv, NEW l \in Limits, PushLimit(l)
  PROVE  IInv'
<1>1. l \in Opt /\ limits \subseteq Opt
  BY ScanAssumption DEF IInv, TypeOK
<1>2. PlanInv'
  <2>1. /\ PlanOK(exec)'
        /\ FetchIsLeast(exec'.inner.fetch, limits')
        /\ exec'.inner.page_size = exec.inner.page_size
        /\ exec'.inner.single_page = exec.inner.single_page
        /\ exec'.inner.partitions <= exec.inner.partitions
    BY <1>1, WithFetchOK DEF PushLimit, IInv, PlanInv
  <2>2. exec.inner.partitions \in Nat /\ exec'.inner.partitions \in Nat
    BY <2>1 DEF PlanOK, Exec, Inner, IInv, PlanInv
  <2> QED BY <2>1, <2>2, ScanAssumption DEF IInv, PlanInv, PushLimit
<1>3. TypeOK'
  BY <1>1, <1>2 DEF IInv, TypeOK, PushLimit, PlanInv, PlanOK, streamVars, indexVars
<1>4. ASSUME NEW p \in Stream PROVE StreamInv(p)'
  BY DEF IInv, PushLimit, StreamInv, Prefix, NewInv, Untouched, Hits, streamVars
<1> QED BY <1>2, <1>3, <1>4 DEF IInv

\* A stream starts with the plan's whole fetch remaining (execute).
LEMMA ExecuteInv ==
  ASSUME IInv, NEW p \in Stream, Execute(p)
  PROVE  IInv'
<1> DEFINE fresh == [scroll_id |-> None, remaining |-> exec.inner.fetch,
                     started |-> FALSE, done |-> FALSE]
<1>1. TypeOK /\ exec.inner.fetch \in Opt
  BY PlanFacts DEF IInv
<1>2. NewInv(p) /\ Prefix(p) /\ Prefix(p)'
  BY DEF IInv, StreamInv, Execute, Prefix, Hits
<1>3. fresh \in PageState
  BY <1>1 DEF PageState
<1> HIDE DEF fresh
<1>4. /\ UNCHANGED <<planVars, wire, out, context, indexVars>>
      /\ \/ status' = [status EXCEPT ![p] = "refused"] /\ st' = st
         \/ status' = [status EXCEPT ![p] = "ready"] /\ st' = [st EXCEPT ![p] = fresh]
  BY DEF Execute, fresh
<1>5. TypeOK'
  <2>1. status' \in [Stream -> Status]
    BY <1>1, <1>4 DEF TypeOK, Status, Final
  <2>2. st' \in [Stream -> PageState]
    BY <1>1, <1>3, <1>4 DEF TypeOK
  <2> QED BY <1>1, <1>4, <2>1, <2>2 DEF TypeOK, planVars, indexVars
<1>6. StreamInv(p)'
  <2>1. CASE status' = [status EXCEPT ![p] = "refused"] /\ st' = st
    <3>1. status'[p] = "refused"
      BY <1>1, <2>1 DEF TypeOK
    <3>2. NewInv(p)'
      BY <1>2, <1>4, <2>1 DEF NewInv, Untouched
    <3> QED BY <1>2, <3>1, <3>2 DEF StreamInv
  <2>2. CASE status' = [status EXCEPT ![p] = "ready"] /\ st' = [st EXCEPT ![p] = fresh]
    <3>1. status'[p] = "ready" /\ st'[p] = fresh
      BY <1>1, <2>2 DEF TypeOK
    <3>2. Untouched(p)' /\ wire'[p] = Idle /\ out'[p] = <<>> /\ exec' = exec
      BY <1>2, <1>4, <3>1 DEF NewInv, Untouched, fresh, planVars
    <3>3. Counted(p)'
      BY <1>1, <3>1, <3>2, NoneAssumption DEF Counted, Opt, fresh
    <3> QED BY <1>2, <3>1, <3>2, <3>3 DEF StreamInv, ReadyInv, Untouched
  <2> QED BY <1>4, <2>1, <2>2
<1>7. \A q \in Stream \ {p} :
        /\ status'[q] = status[q] /\ st'[q] = st[q] /\ wire'[q] = wire[q]
        /\ out'[q] = out[q] /\ context'[q] = context[q]
  BY <1>1, <1>4 DEF TypeOK
<1> QED BY <1>4, <1>5, <1>6, <1>7, OneStream
-----------------------------------------------------------------------------
(* Limits.                                                                 *)

\* A counted stream of a paged read is within every limit, and its fetch is one.
LEMMA WithinLimits ==
  ASSUME TypeOK, PlanInv
  PROVE  /\ exec.inner.fetch # None =>
              exec.inner.fetch \in RowLimits /\ \A l \in limits \ {None} : exec.inner.fetch <= l
         /\ exec.inner.fetch = None => limits \ {None} = {}
         /\ exec.inner.single_page => RowLimits = (limits \ {None}) \cup {exec.inner.page_size}
         /\ ~exec.inner.single_page => RowLimits = limits \ {None}
         /\ RowLimits \subseteq Nat
<1>1. /\ limits \subseteq Opt /\ query.search_after \in BOOLEAN /\ query.page_size \in Nat
      /\ FetchIsLeast(exec.inner.fetch, limits)
      /\ exec.inner.page_size = AtLeastOne(query.page_size)
      /\ exec.inner.single_page = query.search_after
  BY DEF TypeOK, PlanInv, Query
<1>2. AtLeastOne(query.page_size) \in Nat /\ AtLeastOne(query.page_size) # None
  BY <1>1, AtLeastOneType, NoneAssumption
<1>3. /\ exec.inner.single_page => RowLimits = (limits \ {None}) \cup {exec.inner.page_size}
      /\ ~exec.inner.single_page => RowLimits = limits \ {None}
  BY <1>1, <1>2 DEF RowLimits
<1>4. RowLimits \subseteq Nat
  BY <1>1, <1>2, <1>3 DEF Opt
<1>5. /\ exec.inner.fetch # None =>
           exec.inner.fetch \in RowLimits /\ \A l \in limits \ {None} : exec.inner.fetch <= l
      /\ exec.inner.fetch = None => limits \ {None} = {}
  BY <1>1, <1>3 DEF FetchIsLeast
<1> QED BY <1>3, <1>4, <1>5

\* The arithmetic of one page: m rows are out, the cluster has returned n of len
\* hits, and of the n - m on this page k are kept.
PageOfAnswer(len, m, pageSize, fetch, remaining, csize, n, size, k, left) ==
  /\ len \in Nat /\ m \in Nat /\ m <= len /\ pageSize \in Nat \ {0}
  /\ fetch \in Opt /\ remaining \in Opt
  /\ fetch = None => remaining = None
  /\ fetch # None => m <= fetch /\ remaining = fetch - m
  /\ remaining # 0
  /\ csize = AtMost(pageSize, fetch)
  /\ n = AtMost(len, m + csize)
  /\ size = AtMost(pageSize, remaining)
  /\ k = AtMost(n - m, remaining)
  /\ left = RemainingAfter(remaining, k)

\* What the rows to keep and the fetch that remains come to: nothing beyond the
\* answer or the fetch, and a short page is the last one.
LEMMA PageArithmetic ==
  ASSUME NEW len, NEW m, NEW pageSize, NEW fetch, NEW remaining, NEW csize, NEW n,
         NEW size, NEW k, NEW left,
         PageOfAnswer(len, m, pageSize, fetch, remaining, csize, n, size, k, left)
  PROVE  /\ n \in Nat /\ k \in Nat /\ m <= n /\ n <= len /\ m + k <= n
         /\ left \in Opt
         /\ fetch = None => left = None
         /\ fetch # None => m + k <= fetch /\ left = fetch - (m + k)
         /\ left = 0 => fetch # None /\ m + k = fetch
         /\ left # 0 => k = n - m
         /\ k < size => m + k = len
         /\ m = 0 => k = n /\ n <= pageSize /\ (n = len \/ n = pageSize \/ n = fetch)
<1> USE DEF PageOfAnswer
<1>1. CASE fetch = None
  <2>1. remaining = None
    BY <1>1
  <2>2. csize = pageSize /\ size = pageSize
    BY <1>1, <2>1 DEF AtMost
  <2>3. n = IF len <= m + pageSize THEN len ELSE m + pageSize
    <3>1. m + csize \in Nat /\ m + csize # None
      BY <2>2, NoneAssumption
    <3> QED BY <2>2, <3>1 DEF AtMost
  <2>4. k = n - m /\ left = None
    BY <2>1 DEF AtMost, RemainingAfter
  <2> QED BY <1>1, <2>2, <2>3, <2>4, NoneAssumption DEF Opt
<1>2. CASE fetch # None
  <2>1. fetch \in Nat /\ remaining = fetch - m /\ remaining \in Nat \ {0} /\ m <= fetch
        /\ remaining # None
    BY <1>2, NoneAssumption DEF Opt
  <2>2. /\ csize = IF pageSize <= fetch THEN pageSize ELSE fetch
        /\ size = IF pageSize <= remaining THEN pageSize ELSE remaining
    BY <1>2, <2>1 DEF AtMost
  <2>3. n = IF len <= m + csize THEN len ELSE m + csize
    <3>1. m + csize \in Nat /\ m + csize # None
      BY <2>1, <2>2, NoneAssumption
    <3> QED BY <3>1 DEF AtMost
  <2>4. n \in Nat /\ m <= n /\ n <= len
    BY <2>1, <2>2, <2>3
  <2>5. /\ k = IF n - m <= remaining THEN n - m ELSE remaining
        /\ left = remaining - k
    <3>1. k = IF n - m <= remaining THEN n - m ELSE remaining
      BY <2>1 DEF AtMost
    <3>2. k <= remaining
      BY <2>1, <2>4, <3>1
    <3> QED BY <2>1, <3>1, <3>2 DEF RemainingAfter
  <2>6. k \in Nat /\ m + k <= n /\ m + k <= fetch /\ left \in Nat /\ left = fetch - (m + k)
    BY <2>1, <2>4, <2>5
  <2>7. left # 0 => k = n - m
    BY <2>1, <2>4, <2>5
  <2>8. k < size => m + k = len
    BY <2>1, <2>2, <2>3, <2>4, <2>5
  <2>9. m = 0 => k = n /\ n <= pageSize /\ (n = len \/ n = pageSize \/ n = fetch)
    BY <2>1, <2>2, <2>3, <2>4, <2>5
  <2> QED BY <1>2, <2>1, <2>4, <2>6, <2>7, <2>8, <2>9 DEF Opt
<1> QED BY <1>1, <1>2
-----------------------------------------------------------------------------
(* The end of a stream.                                                    *)

\* Finishing a stream that has nothing more to emit.
LEMMA FinishInv ==
  ASSUME IInv, NEW p \in Stream, NEW s \in PageState, Finish(p, s), Complete(p),
         s.scroll_id \in {None, p}, s.scroll_id # None => context[p] # None,
         UNCHANGED <<planVars, out, context, indexVars>>
  PROVE  IInv'
<1> DEFINE closed == [s EXCEPT !.scroll_id = None]
           clear == [type |-> "clear", id |-> s.scroll_id]
<1>1. TypeOK /\ Prefix(p)
  BY DEF IInv, StreamInv
<1>2. closed \in PageState
  BY DEF PageState
<1>3. s.scroll_id # None => s.scroll_id = p /\ clear \in Message
  BY DEF Message, Request
<1>4. Idle \in Message
  BY DEF Message
<1>5. /\ st' = [st EXCEPT ![p] = closed]
      /\ IF s.scroll_id # None
           THEN wire' = [wire EXCEPT ![p] = clear] /\ status' = [status EXCEPT ![p] = "clearing"]
           ELSE wire' = [wire EXCEPT ![p] = Idle] /\ status' = [status EXCEPT ![p] = "ended"]
  BY DEF Finish
<1> HIDE DEF closed, clear
<1>6. TypeOK'
  <2>1. status' \in [Stream -> Status]
    BY <1>1, <1>5 DEF TypeOK, Status, Final
  <2>2. st' \in [Stream -> PageState]
    BY <1>1, <1>2, <1>5 DEF TypeOK
  <2>3. wire' \in [Stream -> Message]
    BY <1>1, <1>3, <1>4, <1>5 DEF TypeOK
  <2> QED BY <1>1, <2>1, <2>2, <2>3 DEF TypeOK, planVars, indexVars
<1>7. StreamInv(p)'
  <2>1. Prefix(p)' /\ Complete(p)' /\ context'[p] = context[p]
    BY <1>1 DEF Prefix, Complete, Hits, AllThatIsWanted, RowLimits, planVars
  <2>2. CASE s.scroll_id # None
    <3>1. status'[p] = "clearing" /\ wire'[p] = [type |-> "clear", id |-> p]
      BY <1>1, <1>3, <1>5, <2>2 DEF TypeOK, clear
    <3>2. ClearingInv(p)'
      BY <2>1, <2>2, <3>1 DEF ClearingInv
    <3> QED BY <2>1, <3>1, <3>2 DEF StreamInv
  <2>3. CASE s.scroll_id = None
    <3>1. status'[p] = "ended" /\ wire'[p] = Idle
      BY <1>1, <1>5, <2>3 DEF TypeOK
    <3> QED BY <2>1, <3>1 DEF StreamInv
  <2> QED BY <2>2, <2>3
<1>8. \A q \in Stream \ {p} :
        /\ status'[q] = status[q] /\ st'[q] = st[q] /\ wire'[q] = wire[q]
        /\ out'[q] = out[q] /\ context'[q] = context[q]
  BY <1>1, <1>5 DEF TypeOK
<1> QED BY <1>6, <1>7, <1>8, OneStream

\* next_page when the stream is exhausted: what it emitted is complete.
LEMMA PollEndInv ==
  ASSUME IInv, NEW p \in Stream, PollEnd(p)
  PROVE  IInv'
<1>1. /\ ReadyInv(p) /\ Exhausted(st[p]) /\ st[p] \in PageState /\ Finish(p, st[p])
      /\ UNCHANGED <<planVars, out, context, indexVars>>
  BY DEF PollEnd, IInv, TypeOK, StreamInv
<1>2. Complete(p)
  <2>1. CASE Untouched(p)
    <3>1. st[p].remaining = 0 /\ out[p] = <<>> /\ context[p] = None
      BY <1>1, <2>1 DEF Untouched, Exhausted
    <3>2. exec.inner.fetch = 0
      <4>1. exec.inner.fetch # None
        BY <1>1, <3>1, NoneAssumption DEF ReadyInv, Counted
      <4>2. exec.inner.fetch \in Nat
        BY <4>1, PlanFacts DEF IInv, Opt
      <4> QED BY <1>1, <3>1, <4>1, <4>2 DEF ReadyInv, Counted
    <3> QED BY <3>1, <3>2 DEF Complete
  <2> QED BY <1>1, <2>1 DEF ReadyInv, Paging
<1> QED BY <1>1, <1>2, FinishInv DEF ReadyInv
-----------------------------------------------------------------------------
(* Sending a request.                                                      *)

\* next_page before the first request: the search asks for a page of the right size.
LEMMA PollSearchInv ==
  ASSUME IInv, NEW p \in Stream, PollSearch(p)
  PROVE  IInv'
<1> DEFINE begun == AfterSearch(st[p])
           request == [type   |-> "search",
                       size   |-> RequestSize(exec.inner, exec.inner.fetch),
                       slice  |-> SliceOf(p, exec.inner),
                       scroll |-> ~exec.inner.single_page]
<1>1. TypeOK /\ PlanInv /\ ReadyInv(p) /\ st[p] \in PageState /\ ~st[p].started /\ ~Exhausted(st[p])
  BY DEF PollSearch, IInv, TypeOK, StreamInv
<1>2. Untouched(p) /\ Counted(p) /\ st[p].remaining = exec.inner.fetch
  <2>1. Untouched(p) /\ Counted(p)
    BY <1>1 DEF ReadyInv, Paging
  <2>2. exec.inner.fetch # None => exec.inner.fetch \in Nat
    BY <1>1, PlanFacts DEF Opt
  <2> QED BY <2>1, <2>2 DEF Untouched, Counted
<1>3. /\ begun \in PageState /\ begun.started /\ begun.scroll_id = None
      /\ begun.remaining = st[p].remaining /\ ~begun.done /\ ~Exhausted(begun)
  BY <1>1, <1>2 DEF PageState, AfterSearch, Exhausted, Untouched
<1>4. request \in Message
  <2>1. RequestSize(exec.inner, exec.inner.fetch) \in Nat /\ exec.inner.single_page \in BOOLEAN
    BY <1>1, PlanFacts, RequestSizeType
  <2>2. SliceOf(p, exec.inner) \in Slices \cup {None}
    BY <1>1, PlanFacts, StreamType DEF SliceOf, Slices
  <2> QED BY <2>1, <2>2 DEF Message, Request
<1>5. /\ st' = [st EXCEPT ![p] = begun]
      /\ wire' = [wire EXCEPT ![p] = request]
      /\ status' = [status EXCEPT ![p] = "searching"]
      /\ UNCHANGED <<planVars, out, context, indexVars>>
  BY <1>2 DEF PollSearch
<1> HIDE DEF begun, request
<1>6. TypeOK'
  <2>1. status' \in [Stream -> Status]
    BY <1>1, <1>5 DEF TypeOK, Status
  <2>2. st' \in [Stream -> PageState] /\ wire' \in [Stream -> Message]
    BY <1>1, <1>3, <1>4, <1>5 DEF TypeOK
  <2> QED BY <1>1, <1>5, <2>1, <2>2 DEF TypeOK, planVars, indexVars
<1>7. StreamInv(p)'
  <2>1. /\ status'[p] = "searching" /\ st'[p] = begun /\ wire'[p] = request
        /\ out'[p] = <<>> /\ context'[p] = None /\ exec' = exec
    BY <1>1, <1>2, <1>5 DEF TypeOK, Untouched, planVars
  <2>2. Counted(p)'
    BY <1>2, <1>3, <1>5, <2>1 DEF Counted
  <2>3. SearchingInv(p)'
    BY <1>3, <2>1, <2>2 DEF SearchingInv, request
  <2> QED BY <2>1, <2>3 DEF StreamInv, Prefix
<1>8. \A q \in Stream \ {p} :
        /\ status'[q] = status[q] /\ st'[q] = st[q] /\ wire'[q] = wire[q]
        /\ out'[q] = out[q] /\ context'[q] = context[q]
  BY <1>1, <1>5 DEF TypeOK
<1> QED BY <1>5, <1>6, <1>7, <1>8, OneStream

\* next_page between pages: a cursor is held, so a further page is asked for.
LEMMA PollScrollInv ==
  ASSUME IInv, NEW p \in Stream, PollScroll(p)
  PROVE  IInv'
<1> DEFINE request == [type |-> "scroll", id |-> p]
<1>1. TypeOK /\ PlanInv /\ ReadyInv(p) /\ st[p].started /\ ~Exhausted(st[p]) /\ Prefix(p)
  BY DEF PollScroll, IInv, StreamInv
<1>2. Paging(p) /\ Len(out[p]) = context[p].pos /\ Counted(p) /\ st[p].scroll_id = p /\ p # None
  BY <1>1, StreamType DEF ReadyInv, Paging, Untouched
<1>3. /\ wire' = [wire EXCEPT ![p] = request]
      /\ status' = [status EXCEPT ![p] = "scrolling"]
      /\ UNCHANGED <<planVars, st, out, context, indexVars>>
  BY <1>2 DEF PollScroll
<1>4. request \in Message
  BY DEF Message, Request
<1> HIDE DEF request
<1>5. TypeOK'
  <2>1. status' \in [Stream -> Status] /\ wire' \in [Stream -> Message]
    BY <1>1, <1>3, <1>4 DEF TypeOK, Status
  <2> QED BY <1>1, <1>3, <2>1 DEF TypeOK, planVars, indexVars
<1>6. StreamInv(p)'
  <2>1. status'[p] = "scrolling" /\ wire'[p] = request
    BY <1>1, <1>3 DEF TypeOK
  <2>2. Paging(p)' /\ Counted(p)' /\ (Len(out[p]) = context[p].pos)' /\ Prefix(p)'
    BY <1>1, <1>2, <1>3 DEF Paging, Positioned, Counted, Prefix, Hits, planVars
  <2>3. ScrollingInv(p)'
    BY <2>1, <2>2 DEF ScrollingInv, request
  <2> QED BY <2>1, <2>2, <2>3 DEF StreamInv
<1>7. \A q \in Stream \ {p} :
        /\ status'[q] = status[q] /\ st'[q] = st[q] /\ wire'[q] = wire[q]
        /\ out'[q] = out[q] /\ context'[q] = context[q]
  BY <1>1, <1>3 DEF TypeOK
<1> QED BY <1>3, <1>5, <1>6, <1>7, OneStream
-----------------------------------------------------------------------------
(* Receiving a reply.                                                      *)

\* A stream that stops where it is: nothing of it changes but its status, to one
\* that promises only the prefix, and its wire.
LEMMA StopInv ==
  ASSUME IInv, NEW p \in Stream, NEW final \in {"failed", "dropped"},
         status' = [status EXCEPT ![p] = final], wire' = [wire EXCEPT ![p] = Idle],
         UNCHANGED <<planVars, st, out, context, indexVars>>
  PROVE  IInv'
<1>1. TypeOK /\ Prefix(p)
  BY DEF IInv, StreamInv
<1>2. TypeOK'
  <2>1. status' \in [Stream -> Status] /\ wire' \in [Stream -> Message]
    BY <1>1 DEF TypeOK, Status, Final, Message
  <2> QED BY <1>1, <2>1 DEF TypeOK, planVars, indexVars
<1>3. status'[p] = final /\ wire'[p] = Idle
  BY <1>1 DEF TypeOK
<1>4. StreamInv(p)'
  BY <1>1, <1>3 DEF StreamInv, Prefix, Hits
<1>5. \A q \in Stream \ {p} :
        /\ status'[q] = status[q] /\ st'[q] = st[q] /\ wire'[q] = wire[q]
        /\ out'[q] = out[q] /\ context'[q] = context[q]
  BY <1>1 DEF TypeOK
<1> QED BY <1>2, <1>4, <1>5, OneStream

\* A failed request fails the stream.
LEMMA ReceiveFailureInv ==
  ASSUME IInv, NEW p \in Stream, ReceiveFailure(p)
  PROVE  IInv'
BY StopInv DEF ReceiveFailure

\* A stream may be dropped at any moment.
LEMMA CancelInv ==
  ASSUME IInv, NEW p \in Stream, Cancel(p)
  PROVE  IInv'
BY StopInv DEF Cancel

\* The reply to clear_scroll, whatever it is, ends a stream that is complete.
LEMMA ReceiveClearedInv ==
  ASSUME IInv, NEW p \in Stream, ReceiveCleared(p)
  PROVE  IInv'
<1>1. TypeOK /\ Prefix(p) /\ Complete(p)
  BY DEF IInv, StreamInv, ReceiveCleared, ClearingInv
<1>2. /\ status' = [status EXCEPT ![p] = "ended"] /\ wire' = [wire EXCEPT ![p] = Idle]
      /\ UNCHANGED <<planVars, st, out, context, indexVars>>
  BY DEF ReceiveCleared
<1>3. TypeOK'
  <2>1. status' \in [Stream -> Status] /\ wire' \in [Stream -> Message]
    BY <1>1, <1>2 DEF TypeOK, Status, Final, Message
  <2> QED BY <1>1, <1>2, <2>1 DEF TypeOK, planVars, indexVars
<1>4. status'[p] = "ended" /\ wire'[p] = Idle
  BY <1>1, <1>2 DEF TypeOK
<1>5. Prefix(p)' /\ Complete(p)'
  BY <1>1, <1>2 DEF Prefix, Complete, Hits, AllThatIsWanted, RowLimits, planVars
<1>6. StreamInv(p)'
  BY <1>4, <1>5 DEF StreamInv
<1>7. \A q \in Stream \ {p} :
        /\ status'[q] = status[q] /\ st'[q] = st[q] /\ wire'[q] = wire[q]
        /\ out'[q] = out[q] /\ context'[q] = context[q]
  BY <1>1, <1>2 DEF TypeOK
<1> QED BY <1>2, <1>3, <1>6, <1>7, OneStream

\* The next page of a stream's answer, as it reaches next_page.
NextPage(p) ==
  /\ context[p] # None /\ Positioned(p)
  /\ context[p].pos = AtMost(Len(Hits(p)), Len(out[p]) + context[p].size)
  /\ Arrived(p).hits = SubSeq(Hits(p), Len(out[p]) + 1, context[p].pos)
  /\ KeepCursor(st[p].scroll_id, Arrived(p).scroll_id) = IF exec.inner.single_page THEN None ELSE p
  /\ exec.inner.single_page => Len(out[p]) = 0

\* The empty page that stands for a missing index.
MissingPage(p) ==
  /\ context[p] # None /\ Hits(p) = <<>> /\ out[p] = <<>>
  /\ Arrived(p).hits = <<>>
  /\ KeepCursor(st[p].scroll_id, Arrived(p).scroll_id) = None

\* A page that arrives is one or the other.
LEMMA PageArrives ==
  ASSUME IInv, NEW p \in Stream, status[p] \in {"searching", "scrolling"},
         Arrived(p).type = "page"
  PROVE  /\ NextPage(p) \/ MissingPage(p)
         /\ Counted(p) /\ st[p].started /\ ~Exhausted(st[p])
<1>1. TypeOK /\ PlanInv /\ StreamInv(p)
  BY DEF IInv
<1>2. CASE status[p] = "searching"
  <2>1. SearchingInv(p)
    BY <1>1, <1>2 DEF StreamInv
  <2>2. CASE wire[p].type = "not_found"
    <3>1. Arrived(p) = [type |-> "page", hits |-> <<>>, scroll_id |-> None]
      BY <1>2, <2>2 DEF Arrived, PageOf
    <3>2. context[p] # None /\ Hits(p) = <<>>
      BY <2>1, <2>2 DEF SearchingInv
    <3> QED BY <2>1, <3>1, <3>2 DEF SearchingInv, MissingPage, KeepCursor
  <2>3. CASE wire[p].type # "not_found"
    <3>1. Arrived(p) = wire[p] /\ wire[p].type = "page"
      BY <2>3 DEF Arrived, PageOf
    <3>2. /\ context[p] # None /\ Positioned(p)
          /\ context[p].pos = AtMost(Len(Hits(p)), context[p].size)
          /\ wire[p].hits = SubSeq(Hits(p), 1, context[p].pos)
          /\ wire[p].scroll_id = IF exec.inner.single_page THEN None ELSE p
      BY <2>1, <3>1 DEF SearchingInv
    <3>3. Len(out[p]) = 0 /\ context[p].size \in Nat
      BY <1>1, <2>1, <3>2 DEF SearchingInv, TypeOK, Context
    <3>4. Len(out[p]) + context[p].size = context[p].size /\ Len(out[p]) + 1 = 1
      BY <3>3
    <3> QED BY <2>1, <3>1, <3>2, <3>3, <3>4, StreamType DEF SearchingInv, NextPage, KeepCursor
  <2> QED BY <2>2, <2>3
<1>3. CASE status[p] = "scrolling"
  <2>1. ScrollingInv(p)
    BY <1>1, <1>3 DEF StreamInv
  <2>2. Arrived(p) = wire[p] /\ wire[p].type = "page"
    BY <1>3 DEF Arrived, PageOf
  <2>3. /\ context[p].pos = AtMost(Len(Hits(p)), Len(out[p]) + context[p].size)
        /\ wire[p].hits = SubSeq(Hits(p), Len(out[p]) + 1, context[p].pos)
        /\ wire[p].scroll_id \in {p, None}
    <3>1. wire[p].type \notin {"not_found", "broken"} /\ wire[p] # [type |-> "scroll", id |-> p]
      BY <2>2
    <3> QED BY <2>1, <3>1 DEF ScrollingInv
  <2> QED BY <2>1, <2>2, <2>3, StreamType DEF ScrollingInv, Paging, NextPage, KeepCursor
<1> QED BY <1>2, <1>3

\* The numbers of an arriving page, from PageArithmetic.
LEMMA PageNumbers ==
  ASSUME IInv, NEW p \in Stream, NextPage(p), Counted(p), ~Exhausted(st[p]),
         NEW k, k = AtMost(context[p].pos - Len(out[p]), st[p].remaining),
         NEW left, left = RemainingAfter(st[p].remaining, k)
  PROVE  /\ k \in Nat /\ left \in Opt /\ context[p].pos \in Nat
         /\ Len(out[p]) \in Nat /\ Len(Hits(p)) \in Nat /\ Hits(p) \in Seq(Doc)
         /\ context[p].pos <= Len(Hits(p)) /\ Len(out[p]) + k <= context[p].pos
         /\ exec.inner.fetch = None => left = None
         /\ exec.inner.fetch # None => /\ Len(out[p]) + k <= exec.inner.fetch
                                       /\ left = exec.inner.fetch - (Len(out[p]) + k)
         /\ left = 0 => exec.inner.fetch # None /\ Len(out[p]) + k = exec.inner.fetch
         /\ left # 0 => k = context[p].pos - Len(out[p])
         /\ k < RequestSize(exec.inner, st[p].remaining) => Len(out[p]) + k = Len(Hits(p))
         /\ Len(out[p]) = 0 =>
              /\ k = context[p].pos /\ k <= exec.inner.page_size
              /\ k = Len(Hits(p)) \/ k = exec.inner.page_size \/ k = exec.inner.fetch
<1>1. /\ TypeOK /\ PlanInv /\ Prefix(p)
      /\ st[p].remaining \in Opt /\ context[p] \in Context /\ out[p] \in Seq(Doc)
  BY DEF IInv, TypeOK, StreamInv, NextPage, PageState
<1>2. /\ Hits(p) \in Seq(Doc) /\ Len(Hits(p)) \in Nat /\ Len(out[p]) \in Nat
      /\ context[p].pos \in Nat /\ Len(out[p]) <= Len(Hits(p))
      /\ st[p].remaining # 0
  BY <1>1 DEF Hits, Context, Prefix, NextPage, Exhausted
<1>3. /\ exec.inner.page_size \in Nat \ {0} /\ exec.inner.fetch \in Opt
      /\ context[p].size = AtMost(exec.inner.page_size, exec.inner.fetch)
      /\ context[p].pos = AtMost(Len(Hits(p)), Len(out[p]) + context[p].size)
  BY <1>1, PlanFacts DEF NextPage, Positioned, RequestSize
<1>4. /\ exec.inner.fetch = None => st[p].remaining = None
      /\ exec.inner.fetch # None => /\ Len(out[p]) <= exec.inner.fetch
                                    /\ st[p].remaining = exec.inner.fetch - Len(out[p])
  BY DEF Counted
<1> DEFINE len == Len(Hits(p))
           m == Len(out[p])
           n == context[p].pos
           pageSize == exec.inner.page_size
           fetch == exec.inner.fetch
           remaining == st[p].remaining
           csize == context[p].size
           size == RequestSize(exec.inner, st[p].remaining)
<1>5. PageOfAnswer(len, m, pageSize, fetch, remaining, csize, n, size, k, left)
  BY <1>1, <1>2, <1>3, <1>4 DEF RequestSize, PageOfAnswer
<1>6. /\ n \in Nat /\ k \in Nat /\ m <= n /\ n <= len /\ m + k <= n
      /\ left \in Opt
      /\ fetch = None => left = None
      /\ fetch # None => m + k <= fetch /\ left = fetch - (m + k)
      /\ left = 0 => fetch # None /\ m + k = fetch
      /\ left # 0 => k = n - m
      /\ k < size => m + k = len
      /\ m = 0 => k = n /\ n <= pageSize /\ (n = len \/ n = pageSize \/ n = fetch)
  <2> HIDE DEF len, m, n, pageSize, fetch, remaining, csize, size
  <2> QED BY <1>5, PageArithmetic
<1> QED BY <1>2, <1>6

\* With an empty page the answer is at its end.
LEMMA EmptyPageCompletes ==
  ASSUME IInv, NEW p \in Stream, status[p] \in {"searching", "scrolling"},
         Arrived(p).type = "page", Arrived(p).hits = <<>>
  PROVE  Complete(p)
<1>1. TypeOK /\ PlanInv /\ Counted(p) /\ ~Exhausted(st[p]) /\ RowLimits \subseteq Nat
  BY PageArrives, WithinLimits DEF IInv
<1>2. CASE MissingPage(p)
  <2>1. Len(out[p]) = 0 /\ Len(Hits(p)) = 0 /\ context[p] # None
    BY <1>2 DEF MissingPage
  <2>2. AllThatIsWanted(0, 0)
    BY <1>1 DEF AllThatIsWanted
  <2> QED BY <2>1, <2>2 DEF Complete
<1>3. CASE NextPage(p)
  <2> DEFINE k == AtMost(context[p].pos - Len(out[p]), st[p].remaining)
             left == RemainingAfter(st[p].remaining, k)
  <2>1. st[p].remaining \in Opt
    BY <1>1 DEF TypeOK, PageState
  <2>2. /\ k \in Nat /\ context[p].pos \in Nat /\ Len(out[p]) \in Nat /\ Hits(p) \in Seq(Doc)
        /\ Len(Hits(p)) \in Nat
        /\ context[p].pos <= Len(Hits(p)) /\ Len(out[p]) + k <= context[p].pos
        /\ k < RequestSize(exec.inner, st[p].remaining) => Len(out[p]) + k = Len(Hits(p))
        /\ exec.inner.fetch # None => Len(out[p]) + k <= exec.inner.fetch
    <3> HIDE DEF k, left
    <3> QED BY <1>1, <1>3, PageNumbers DEF k, left
  <2>3. context[p].pos = Len(out[p])
    <3>1. Len(SubSeq(Hits(p), Len(out[p]) + 1, context[p].pos)) = context[p].pos - Len(out[p])
      BY <2>2, PageSlice, 0 \in Nat
    <3>2. Len(<<>>) = 0
      OBVIOUS
    <3> QED BY <1>3, <2>2, <3>1, <3>2 DEF NextPage
  <2>4. k = 0
    BY <2>2, <2>3
  <2>5. RequestSize(exec.inner, st[p].remaining) \in Nat \ {0}
    BY <1>1, <2>1, RequestSizeType DEF Exhausted
  <2>6. Len(out[p]) = Len(Hits(p))
    BY <2>2, <2>4, <2>5
  <2>7. ASSUME NEW l \in RowLimits PROVE Len(out[p]) <= l
    <3>1. CASE exec.inner.single_page
      BY <1>1, <1>3, <2>2, <3>1 DEF NextPage
    <3>2. CASE ~exec.inner.single_page
      <4>1. l \in limits \ {None} /\ l \in Nat
        BY <1>1, <3>2, WithinLimits
      <4>2. exec.inner.fetch # None /\ exec.inner.fetch <= l /\ exec.inner.fetch \in Nat
        BY <1>1, <4>1, WithinLimits, PlanFacts DEF Opt
      <4> QED BY <2>2, <2>4, <4>1, <4>2
    <3> QED BY <3>1, <3>2
  <2> QED BY <1>3, <2>2, <2>6, <2>7 DEF Complete, AllThatIsWanted, NextPage
<1> QED BY <1>2, <1>3, PageArrives

\* next_page on a page without hits: there is nothing more in the answer.
LEMMA ReceiveEmptyPageInv ==
  ASSUME IInv, NEW p \in Stream, ReceiveEmptyPage(p)
  PROVE  IInv'
<1> DEFINE id == KeepCursor(st[p].scroll_id, Arrived(p).scroll_id)
           s == [st[p] EXCEPT !.done = TRUE, !.scroll_id = id]
<1>1. /\ status[p] \in {"searching", "scrolling"}
      /\ Arrived(p).type = "page" /\ Arrived(p).hits = <<>>
      /\ UNCHANGED <<planVars, out, context, indexVars>>
      /\ st[p] \in PageState
  BY DEF ReceiveEmptyPage, IInv, TypeOK
<1>2. Finish(p, s)
  BY DEF ReceiveEmptyPage
<1>3. id \in {None, p} /\ context[p] # None
  BY <1>1, PageArrives DEF NextPage, MissingPage
<1>4. s \in PageState /\ s.scroll_id = id
  BY <1>1, <1>3 DEF PageState
<1>5. Complete(p)
  BY <1>1, EmptyPageCompletes
<1> HIDE DEF s, id
<1> QED BY <1>1, <1>2, <1>3, <1>4, <1>5, FinishInv

\* A page with hits: what is kept extends the rows, and the stream is done
\* exactly when nothing more is wanted.
LEMMA ReceiveHitsInv ==
  ASSUME IInv, NEW p \in Stream, ReceiveHits(p)
  PROVE  IInv'
<1> DEFINE size == RequestSize(exec.inner, st[p].remaining)
           kept == TruncateToFetch(Arrived(p).hits, st[p].remaining)
           left == RemainingAfter(st[p].remaining, Len(kept))
           s == [scroll_id |-> KeepCursor(st[p].scroll_id, Arrived(p).scroll_id),
                 remaining |-> left,
                 started   |-> st[p].started,
                 done      |-> EndsAfter(exec.inner, size, Len(kept), left)]
           m == Len(out[p])
           k == AtMost(context[p].pos - m, st[p].remaining)
<1>1. /\ TypeOK /\ PlanInv /\ Prefix(p) /\ st[p] \in PageState /\ out[p] \in Seq(Doc)
      /\ status[p] \in {"searching", "scrolling"}
      /\ Arrived(p).type = "page" /\ Arrived(p).hits # <<>>
  BY DEF ReceiveHits, IInv, TypeOK, StreamInv
<1>2. NextPage(p) /\ Counted(p) /\ st[p].started /\ ~Exhausted(st[p])
  BY <1>1, PageArrives DEF MissingPage
<1>3. /\ k \in Nat /\ RemainingAfter(st[p].remaining, k) \in Opt /\ context[p].pos \in Nat
      /\ m \in Nat /\ Len(Hits(p)) \in Nat /\ Hits(p) \in Seq(Doc)
      /\ context[p].pos <= Len(Hits(p)) /\ m + k <= context[p].pos
      /\ exec.inner.fetch = None => RemainingAfter(st[p].remaining, k) = None
      /\ exec.inner.fetch # None => /\ m + k <= exec.inner.fetch
                                    /\ RemainingAfter(st[p].remaining, k) = exec.inner.fetch - (m + k)
      /\ RemainingAfter(st[p].remaining, k) = 0 => exec.inner.fetch # None /\ m + k = exec.inner.fetch
      /\ RemainingAfter(st[p].remaining, k) # 0 => k = context[p].pos - m
      /\ k < size => m + k = Len(Hits(p))
      /\ m = 0 => /\ k = context[p].pos /\ k <= exec.inner.page_size
                  /\ k = Len(Hits(p)) \/ k = exec.inner.page_size \/ k = exec.inner.fetch
  <2> HIDE DEF k
  <2>1. k = AtMost(context[p].pos - Len(out[p]), st[p].remaining)
    BY DEF k
  <2> QED BY <1>2, <2>1, PageNumbers
<1>4. /\ out[p] \o kept = SubSeq(Hits(p), 1, m + k)
      /\ out[p] \o kept \in Seq(Doc)
      /\ Len(out[p] \o kept) = m + k
      /\ Len(kept) = k
  <2>1. Arrived(p).hits = SubSeq(Hits(p), m + 1, context[p].pos)
    BY <1>2 DEF NextPage
  <2>2. Len(Arrived(p).hits) = context[p].pos - m
    BY <1>3, <2>1, PageSlice, 0 \in Nat
  <2>3. kept = SubSeq(Arrived(p).hits, 1, k)
    BY <2>2 DEF TruncateToFetch
  <2>4. out[p] = SubSeq(Hits(p), 1, m)
    BY <1>1, <1>2 DEF Prefix, NextPage
  <2> DEFINE n == context[p].pos
  <2>5. Len(out[p]) = m
    OBVIOUS
  <2>6. /\ m \in Nat /\ n \in Nat /\ k \in Nat /\ Hits(p) \in Seq(Doc)
        /\ m + k <= n /\ n <= Len(Hits(p)) /\ m + k \in Nat /\ m + k <= Len(Hits(p))
    BY <1>3
  <2> HIDE DEF k, kept, m, n
  <2>7. kept = SubSeq(SubSeq(Hits(p), m + 1, n), 1, k)
    BY <2>1, <2>3 DEF n
  <2>8. kept = SubSeq(Hits(p), m + 1, m + k)
    BY <2>6, <2>7, PageSlice
  <2>9. Len(kept) = k
    <3>1. \A i \in m + 1 .. m + k : Hits(p)[i] \in Doc
      BY <2>6, LenProperties
    <3>2. Len(SubSeq(Hits(p), m + 1, m + k)) = IF m + 1 <= m + k THEN (m + k) - (m + 1) + 1 ELSE 0
      BY <2>6, <3>1, SubSeqProperties
    <3> QED BY <2>6, <2>8, <3>2
  <2>10. Arrived(p).hits = SubSeq(Hits(p), m + 1, n)
    BY <2>1 DEF n
  <2> QED BY <2>3, <2>4, <2>5, <2>6, <2>9, <2>10, PrefixGrows
<1>5. left = RemainingAfter(st[p].remaining, k)
  BY <1>4
<1>6. s \in PageState
  <2>1. KeepCursor(st[p].scroll_id, Arrived(p).scroll_id) \in Stream \cup {None}
    BY <1>2 DEF NextPage
  <2>2. EndsAfter(exec.inner, size, Len(kept), left) \in BOOLEAN
    BY <1>1, PlanFacts DEF EndsAfter
  <2> HIDE DEF left, kept, size
  <2> QED BY <1>1, <1>3, <1>5, <2>1, <2>2 DEF PageState
<1>7. /\ s.remaining = left /\ s.started
      /\ s.scroll_id = IF exec.inner.single_page THEN None ELSE p
      /\ s.done <=> exec.inner.single_page \/ k < size \/ left = 0
  BY <1>2, <1>4 DEF NextPage, EndsAfter
<1>8. /\ st' = [st EXCEPT ![p] = s]
      /\ wire' = [wire EXCEPT ![p] = Idle]
      /\ \/ /\ out' = [out EXCEPT ![p] = out[p] \o kept]
            /\ status' = [status EXCEPT ![p] = "ready"]
         \/ out' = out /\ status' = [status EXCEPT ![p] = "failed"]
      /\ UNCHANGED <<planVars, context, indexVars>>
  BY DEF ReceiveHits
<1> HIDE DEF s, kept, left, k, m, size
<1>9. TypeOK'
  <2>1. status' \in [Stream -> Status] /\ wire' \in [Stream -> Message]
    BY <1>1, <1>8 DEF TypeOK, Status, Final, Message
  <2>2. st' \in [Stream -> PageState] /\ out' \in [Stream -> Seq(Doc)]
    BY <1>1, <1>4, <1>6, <1>8 DEF TypeOK
  <2> QED BY <1>1, <1>8, <2>1, <2>2 DEF TypeOK, planVars, indexVars
<1>10. StreamInv(p)'
  <2>1. /\ st'[p] = s /\ wire'[p] = Idle /\ context'[p] = context[p] /\ exec' = exec
        /\ \/ out'[p] = out[p] \o kept /\ status'[p] = "ready"
           \/ out'[p] = out[p] /\ status'[p] = "failed"
    BY <1>1, <1>8 DEF TypeOK, planVars
  <2>2. CASE status'[p] = "failed"
    <3>1. Prefix(p)'
      BY <1>1, <2>1, <2>2 DEF Prefix, Hits
    <3> QED BY <2>1, <2>2, <3>1 DEF StreamInv
  <2>3. CASE status'[p] = "ready"
    <3>1. out'[p] = SubSeq(Hits(p), 1, m + k) /\ Len(out'[p]) = m + k
      BY <1>4, <2>1, <2>3
    <3>2. Prefix(p)'
      <4>1. m + k <= Len(Hits(p)) /\ context[p] # None
        BY <1>2, <1>3 DEF NextPage
      <4> QED BY <2>1, <3>1, <4>1 DEF Prefix, Hits
    <3>3. Counted(p)'
      BY <1>3, <1>5, <1>7, <2>1, <3>1 DEF Counted
    <3>4. st'[p].scroll_id \in {None, p} /\ context'[p] # None
      BY <1>2, <1>7, <2>1 DEF NextPage
    <3>5. CASE Exhausted(s)
      <4>1. AllThatIsWanted(m + k, Len(Hits(p)))
        <5>1. exec.inner.single_page \/ k < size \/ left = 0
          BY <1>7, <3>5 DEF Exhausted
        <5>2. /\ exec.inner.fetch # None => exec.inner.fetch \in Nat
              /\ exec.inner.fetch # None => m + k <= exec.inner.fetch
              /\ exec.inner.page_size \in Nat
          BY <1>1, <1>3, PlanFacts DEF Opt
        <5>3. ASSUME NEW l \in limits \ {None} PROVE l \in Nat /\ m + k <= l
          <6>1. l \in Nat
            BY <1>1 DEF TypeOK, Opt
          <6>2. exec.inner.fetch # None /\ exec.inner.fetch <= l
            BY <1>1, WithinLimits
          <6> QED BY <1>3, <5>2, <6>1, <6>2
        <5>4. CASE exec.inner.single_page
          <6>1. m = 0
            BY <1>2, <5>4 DEF NextPage, m
          <6>2. RowLimits = (limits \ {None}) \cup {exec.inner.page_size}
            BY <1>1, <5>4, WithinLimits
          <6>3. \A l \in RowLimits : m + k <= l
            BY <1>3, <5>2, <5>3, <6>1, <6>2
          <6>4. m + k = Len(Hits(p)) \/ m + k \in RowLimits
            <7>1. k = exec.inner.fetch => exec.inner.fetch # None
              BY <1>3, NoneAssumption
            <7> QED BY <1>1, <1>3, <6>1, <6>2, <7>1, WithinLimits
          <6> QED BY <1>3, <6>3, <6>4 DEF AllThatIsWanted
        <5>5. CASE ~exec.inner.single_page
          <6>1. RowLimits = limits \ {None}
            BY <1>1, <5>5, WithinLimits
          <6>2. m + k = Len(Hits(p)) \/ m + k \in RowLimits
            BY <1>1, <1>3, <1>5, <5>1, <5>5, WithinLimits
          <6> QED BY <1>3, <5>3, <6>1, <6>2 DEF AllThatIsWanted
        <5> QED BY <5>4, <5>5
      <4>2. Complete(p)'
        <5>1. (AllThatIsWanted(Len(out[p]), Len(Hits(p))))'
          BY <1>8, <2>1, <3>1, <4>1 DEF AllThatIsWanted, RowLimits, Hits, planVars
        <5> QED BY <3>4, <5>1 DEF Complete
      <4> QED BY <1>7, <2>1, <2>3, <3>2, <3>3, <3>4, <3>5, <4>2 DEF StreamInv, ReadyInv
    <3>6. CASE ~Exhausted(s)
      <4>1. ~exec.inner.single_page /\ left # 0
        BY <1>7, <3>6 DEF Exhausted
      <4>2. m + k = context[p].pos
        BY <1>3, <1>5, <4>1
      <4>3. Paging(p)'
        BY <1>2, <1>7, <1>8, <2>1, <3>4, <3>6, <4>1 DEF Paging, NextPage, Positioned, Hits, planVars
      <4> QED BY <2>1, <2>3, <3>1, <3>2, <3>3, <3>4, <4>2, <4>3 DEF StreamInv, ReadyInv
    <3> QED BY <3>5, <3>6
  <2> QED BY <2>1, <2>2, <2>3
<1>11. \A q \in Stream \ {p} :
        /\ status'[q] = status[q] /\ st'[q] = st[q] /\ wire'[q] = wire[q]
        /\ out'[q] = out[q] /\ context'[q] = context[q]
  BY <1>1, <1>8 DEF TypeOK
<1> QED BY <1>8, <1>9, <1>10, <1>11, OneStream
-----------------------------------------------------------------------------
(* The cluster.                                                            *)

\* A step of the cluster that answers p: its wire and p's context change.
LEMMA ServeFrame ==
  ASSUME IInv, NEW p \in Stream, NEW message \in Message, NEW c \in Context \cup {None},
         wire' = [wire EXCEPT ![p] = message], context' = [context EXCEPT ![p] = c],
         UNCHANGED <<planVars, status, st, out, indexVars>>,
         StreamInv(p)'
  PROVE  IInv'
<1>1. TypeOK
  BY DEF IInv
<1>2. TypeOK'
  <2>1. wire' \in [Stream -> Message] /\ context' \in [Stream -> Context \cup {None}]
    BY <1>1 DEF TypeOK
  <2> QED BY <1>1, <2>1 DEF TypeOK, planVars, indexVars
<1>3. \A q \in Stream \ {p} :
        /\ status'[q] = status[q] /\ st'[q] = st[q] /\ wire'[q] = wire[q]
        /\ out'[q] = out[q] /\ context'[q] = context[q]
  BY <1>1 DEF TypeOK
<1> QED BY <1>2, <1>3, OneStream

\* A message on the wire belongs to the await the stream is at.
LEMMA WireStatus ==
  ASSUME IInv, NEW p \in Stream
  PROVE  /\ wire[p].type = "search" => status[p] = "searching"
         /\ wire[p].type = "scroll" => status[p] = "scrolling"
         /\ wire[p].type = "clear"  => status[p] = "clearing"
<1>1. StreamInv(p) /\ status[p] \in Status
  BY DEF IInv, TypeOK
<1>2. CASE status[p] \in {"new", "refused", "ready", "ended", "failed", "dropped"}
  BY <1>1, <1>2 DEF StreamInv, NewInv, ReadyInv, Idle
<1>3. CASE status[p] = "searching"
  BY <1>1, <1>3 DEF StreamInv, SearchingInv
<1>4. CASE status[p] = "scrolling"
  <2>1. \/ wire[p].type \in {"not_found", "broken", "page"}
        \/ wire[p] = [type |-> "scroll", id |-> p]
    BY <1>1, <1>4 DEF StreamInv, ScrollingInv
  <2> QED BY <1>4, <2>1
<1>5. CASE status[p] = "clearing"
  <2>1. wire[p].type \in {"cleared", "broken", "clear"}
    BY <1>1, <1>5 DEF StreamInv, ClearingInv
  <2> QED BY <1>5, <2>1
<1> QED BY <1>1, <1>2, <1>3, <1>4, <1>5 DEF Status, Final

\* The cluster answers the first request.
LEMMA ServeSearchInv ==
  ASSUME IInv, NEW p \in Stream, ServeSearch(p)
  PROVE  IInv'
<1>1. /\ TypeOK /\ PlanInv /\ status[p] = "searching" /\ SearchingInv(p)
      /\ wire[p].type = "search" /\ context[p] \in Context \cup {None}
  BY WireStatus DEF IInv, ServeSearch, StreamInv, TypeOK
<1>2. /\ context[p] = None
      /\ wire[p].size = RequestSize(exec.inner, exec.inner.fetch)
      /\ wire[p].scroll = ~exec.inner.single_page
      /\ wire[p].size \in Nat /\ exec.inner.single_page \in BOOLEAN
  <2>1. RequestSize(exec.inner, exec.inner.fetch) \in Nat
    BY <1>1, PlanFacts, RequestSizeType
  <2> QED BY <1>1, <2>1, PlanFacts DEF SearchingInv
<1>3. UNCHANGED <<planVars, status, st, out, indexVars>>
  BY DEF ServeSearch
<1>4. \A c \in Context : c # None
  BY ScanAssumption
<1>5. status'[p] = "searching" /\ out'[p] = <<>> /\ Counted(p)'
      /\ (st[p].scroll_id = None /\ st[p].started /\ ~Exhausted(st[p]))'
  BY <1>1, <1>3 DEF SearchingInv, Counted, planVars
<1>6. CASE index = None
  <2> DEFINE c == [hits |-> <<>>, pos |-> 0, size |-> wire[p].size, open |-> FALSE]
             message == [type |-> "not_found"]
  <2>1. wire' = [wire EXCEPT ![p] = message] /\ context' = [context EXCEPT ![p] = c]
    BY <1>6 DEF ServeSearch
  <2>2. c \in Context /\ message \in Message /\ c.hits = <<>>
    BY <1>2 DEF Context, Message, Reply
  <2>3. wire'[p].type = "not_found" /\ context'[p] = c /\ c # None
    BY <1>1, <1>4, <2>1, <2>2 DEF TypeOK
  <2> HIDE DEF c, message
  <2>4. Prefix(p)' /\ SearchingInv(p)'
    BY <1>5, <2>2, <2>3 DEF Prefix, Hits, SearchingInv
  <2>5. StreamInv(p)'
    BY <1>5, <2>4 DEF StreamInv
  <2> QED BY <1>3, <2>1, <2>2, <2>5, ServeFrame
<1>7. CASE index # None /\ wire[p].size > Window
  <2> DEFINE message == [type |-> "error"]
  <2>1. wire' = [wire EXCEPT ![p] = message] /\ context' = context
    BY <1>7 DEF ServeSearch
  <2>2. context' = [context EXCEPT ![p] = context[p]]
    BY <1>1, <2>1 DEF TypeOK
  <2>3. message \in Message
    BY DEF Message, Reply
  <2>4. wire'[p].type = "error" /\ context'[p] = None
    BY <1>1, <1>2, <2>1 DEF TypeOK
  <2>5. StreamInv(p)'
    BY <1>5, <2>4 DEF StreamInv, Prefix, SearchingInv
  <2> HIDE DEF message
  <2> QED BY <1>1, <1>3, <2>1, <2>2, <2>3, <2>5, ServeFrame
<1>8. CASE index # None /\ ~(wire[p].size > Window)
  <2>0. PICK found \in Found(wire[p].slice) : \E hits \in SetToSeqs(found) :
            LET end == AtMost(Len(hits), wire[p].size)
            IN  /\ context' = [context EXCEPT ![p] =
                                 [hits |-> hits, pos |-> end, size |-> wire[p].size,
                                  open |-> wire[p].scroll]]
                /\ wire' = [wire EXCEPT ![p] =
                              [type |-> "page", hits |-> SubSeq(hits, 1, end),
                               scroll_id |-> IF wire[p].scroll THEN p ELSE None]]
    BY <1>8 DEF ServeSearch
  <2>1. PICK hits \in SetToSeqs(found) :
          LET end == AtMost(Len(hits), wire[p].size)
          IN  /\ context' = [context EXCEPT ![p] =
                               [hits |-> hits, pos |-> end, size |-> wire[p].size,
                                open |-> wire[p].scroll]]
              /\ wire' = [wire EXCEPT ![p] =
                            [type |-> "page", hits |-> SubSeq(hits, 1, end),
                             scroll_id |-> IF wire[p].scroll THEN p ELSE None]]
    BY <2>0
  <2> DEFINE end == AtMost(Len(hits), wire[p].size)
             c == [hits |-> hits, pos |-> end, size |-> wire[p].size, open |-> wire[p].scroll]
             message == [type |-> "page", hits |-> SubSeq(hits, 1, end),
                         scroll_id |-> IF wire[p].scroll THEN p ELSE None]
  <2>2. found \in SUBSET Doc
    BY <1>1, <1>8 DEF Found, InSlice, TypeOK
  <2>3. hits \in Seq(Doc) /\ Len(hits) \in Nat
    BY <2>2, EnumerationType
  <2>4. end \in Nat /\ end <= Len(hits)
    BY <1>2, <2>3, AtMostType DEF Opt
  <2>5. SubSeq(hits, 1, end) \in Seq(Doc)
    <3>1. \A i \in 1 .. end : hits[i] \in Doc
      BY <2>3, <2>4, LenProperties
    <3> QED BY <2>4, <3>1, SubSeqProperties
  <2> HIDE DEF end
  <2>6. c \in Context /\ message \in Message
    BY <1>2, <2>3, <2>4, <2>5 DEF Context, Message, Reply, Page
  <2>7. wire' = [wire EXCEPT ![p] = message] /\ context' = [context EXCEPT ![p] = c]
    BY <2>1 DEF end
  <2>8. /\ wire'[p] = message /\ context'[p] = c /\ c # None
        /\ c.hits = hits /\ c.pos = end /\ c.size = RequestSize(exec.inner, exec.inner.fetch)
        /\ message.type = "page" /\ message.hits = SubSeq(hits, 1, end)
        /\ message.scroll_id = IF exec.inner.single_page THEN None ELSE p
        /\ end = AtMost(Len(hits), c.size)
    BY <1>1, <1>2, <1>4, <2>6, <2>7 DEF TypeOK, end
  <2> HIDE DEF c, message
  <2>9. Prefix(p)'
    <3>1. Len(<<>>) = 0 /\ SubSeq(hits, 1, 0) = <<>>
      BY SubSeqEmpty
    <3> QED BY <1>5, <2>3, <2>8, <3>1 DEF Prefix, Hits
  <2>10. SearchingInv(p)'
    <3>1. exec' = exec
      BY <1>3 DEF planVars
    <3>2. Positioned(p)'
      BY <2>4, <2>8, <3>1 DEF Positioned, Hits
    <3> QED BY <1>5, <2>8, <3>1, <3>2 DEF SearchingInv, Hits
  <2>11. StreamInv(p)'
    BY <1>5, <2>9, <2>10 DEF StreamInv
  <2> QED BY <1>3, <2>6, <2>7, <2>11, ServeFrame
<1> QED BY <1>6, <1>7, <1>8

\* The cluster answers with the next page, or knows the cursor no more.
LEMMA ServeScrollInv ==
  ASSUME IInv, NEW p \in Stream, ServeScroll(p)
  PROVE  IInv'
<1>1. /\ TypeOK /\ PlanInv /\ status[p] = "scrolling" /\ ScrollingInv(p) /\ Prefix(p)
      /\ wire[p].type = "scroll"
  BY WireStatus DEF IInv, ServeScroll, StreamInv
<1>2. /\ wire[p].id = p /\ Len(out[p]) = context[p].pos
      /\ context[p] # None /\ context[p] \in Context /\ Positioned(p)
  BY <1>1 DEF ScrollingInv, Paging, TypeOK
<1>3. UNCHANGED <<planVars, status, st, out, indexVars>>
  BY DEF ServeScroll
<1> DEFINE end == AtMost(Len(Hits(p)), context[p].pos + context[p].size)
<1>4. CASE ~context[p].open
  <2> DEFINE message == [type |-> "not_found"]
  <2>1. wire' = [wire EXCEPT ![p] = message] /\ context' = context
    BY <1>2, <1>4 DEF ServeScroll
  <2>2. context' = [context EXCEPT ![p] = context[p]]
    BY <1>1, <2>1 DEF TypeOK
  <2>3. message \in Message
    BY DEF Message, Reply
  <2>4. wire'[p].type = "not_found" /\ status'[p] = "scrolling"
    BY <1>1, <1>3, <2>1 DEF TypeOK
  <2>5. (Paging(p) /\ Counted(p) /\ Prefix(p))'
    BY <1>1, <1>3, <2>1 DEF ScrollingInv, Paging, Positioned, Counted, Prefix, Hits, planVars
  <2>6. StreamInv(p)'
    BY <2>4, <2>5 DEF StreamInv, ScrollingInv
  <2> HIDE DEF message
  <2> QED BY <1>2, <1>3, <2>1, <2>2, <2>3, <2>6, ServeFrame
<1>5. CASE context[p].open
  <2>1. PICK echoed \in {p, None} :
          wire' = [wire EXCEPT ![p] =
                     [type |-> "page", hits |-> SubSeq(Hits(p), context[p].pos + 1, end),
                      scroll_id |-> echoed]]
    BY <1>2, <1>5 DEF ServeScroll, Hits
  <2> DEFINE c == [context[p] EXCEPT !.pos = end]
             message == [type |-> "page", hits |-> SubSeq(Hits(p), context[p].pos + 1, end),
                         scroll_id |-> echoed]
  <2>2. context' = [context EXCEPT ![p] = c]
    BY <1>2, <1>5 DEF ServeScroll, Hits
  <2>3. /\ Hits(p) \in Seq(Doc) /\ Len(Hits(p)) \in Nat
        /\ context[p].pos \in Nat /\ context[p].size \in Nat
        /\ context[p].pos + context[p].size \in Nat
    BY <1>2 DEF Context, Hits
  <2>4. end \in Nat /\ end <= Len(Hits(p))
    BY <2>3, AtMostType DEF Opt
  <2>5. SubSeq(Hits(p), context[p].pos + 1, end) \in Seq(Doc)
    <3>1. \A i \in context[p].pos + 1 .. end : Hits(p)[i] \in Doc
      BY <2>3, <2>4, LenProperties
    <3> QED BY <2>3, <2>4, <3>1, SubSeqProperties
  <2>6. c \in Context /\ c.hits = Hits(p) /\ c.pos = end /\ c.size = context[p].size
    BY <1>2, <2>4 DEF Context, Hits
  <2>7. message \in Message
    BY <2>5 DEF Message, Reply, Page
  <2>8. c # None
    BY <2>6, ScanAssumption
  <2>9. wire' = [wire EXCEPT ![p] = message]
    BY <2>1
  <2>10. /\ wire'[p] = message /\ context'[p] = c /\ status'[p] = "scrolling"
         /\ message.type = "page" /\ message.scroll_id \in {p, None}
         /\ message.hits = SubSeq(Hits(p), Len(out[p]) + 1, end)
         /\ end = AtMost(Len(c.hits), Len(out[p]) + c.size)
         /\ Hits(p)' = Hits(p)
    BY <1>1, <1>2, <1>3, <2>2, <2>6, <2>9 DEF TypeOK, Hits
  <2> HIDE DEF c, message, end
  <2>11. Positioned(p)'
    BY <1>2, <1>3, <2>4, <2>6, <2>10 DEF Positioned, planVars
  <2>12. (Paging(p) /\ Counted(p) /\ Prefix(p))'
    BY <1>1, <1>2, <1>3, <2>8, <2>10, <2>11 DEF ScrollingInv, Paging, Counted, Prefix, planVars
  <2>13. ScrollingInv(p)'
    BY <1>3, <2>6, <2>10, <2>12 DEF ScrollingInv
  <2>14. StreamInv(p)'
    BY <2>10, <2>12, <2>13 DEF StreamInv
  <2> QED BY <1>3, <2>2, <2>6, <2>7, <2>9, <2>14, ServeFrame
<1> QED BY <1>4, <1>5

\* The cluster releases a cursor.
LEMMA ServeClearInv ==
  ASSUME IInv, NEW p \in Stream, ServeClear(p)
  PROVE  IInv'
<1>1. /\ TypeOK /\ PlanInv /\ status[p] = "clearing" /\ ClearingInv(p) /\ Prefix(p)
      /\ wire[p].type = "clear"
  BY WireStatus DEF IInv, ServeClear, StreamInv
<1>2. wire[p].id = p /\ context[p] # None /\ context[p] \in Context
  BY <1>1 DEF ClearingInv, TypeOK
<1> DEFINE c == [context[p] EXCEPT !.open = FALSE]
           message == [type |-> "cleared"]
<1>3. /\ wire' = [wire EXCEPT ![p] = message] /\ context' = [context EXCEPT ![p] = c]
      /\ UNCHANGED <<planVars, status, st, out, indexVars>>
  BY <1>2 DEF ServeClear
<1>4. c \in Context /\ c.hits = Hits(p) /\ message \in Message
  BY <1>2 DEF Context, Message, Reply, Hits
<1>5. c # None
  BY <1>4, ScanAssumption
<1>6. /\ wire'[p].type = "cleared" /\ status'[p] = "clearing" /\ context'[p] = c
      /\ Hits(p)' = Hits(p)
  BY <1>1, <1>3, <1>4 DEF TypeOK, Hits
<1> HIDE DEF c, message
<1>7. Prefix(p)' /\ Complete(p)'
  BY <1>1, <1>2, <1>3, <1>5, <1>6
     DEF ClearingInv, Prefix, Complete, AllThatIsWanted, RowLimits, planVars
<1>8. StreamInv(p)'
  BY <1>5, <1>6, <1>7 DEF StreamInv, ClearingInv
<1> QED BY <1>3, <1>4, <1>8, ServeFrame

\* A lost message leaves the stream waiting for an answer that is a failure.
LEMMA LoseInv ==
  ASSUME IInv, NEW p \in Stream, Lose(p)
  PROVE  IInv'
<1> DEFINE message == [type |-> "broken"]
<1>1. TypeOK /\ StreamInv(p) /\ Awaiting(p)
  BY DEF IInv, Lose
<1>2. wire' = [wire EXCEPT ![p] = message] /\ UNCHANGED <<planVars, status, st, out, context, indexVars>>
  BY DEF Lose
<1>3. message \in Message
  BY DEF Message, Reply
<1>4. wire'[p].type = "broken" /\ status'[p] = status[p]
  BY <1>1, <1>2 DEF TypeOK
<1>5. /\ context[p] \in Context \cup {None}
      /\ context' = [context EXCEPT ![p] = context[p]]
  BY <1>1, <1>2 DEF TypeOK
<1>6. Prefix(p)'
  BY <1>1, <1>2 DEF StreamInv, Prefix, Hits
<1>7. StreamInv(p)'
  <2>1. CASE status[p] = "searching"
    BY <1>1, <1>2, <1>4, <1>6, <2>1 DEF StreamInv, SearchingInv, Counted, planVars
  <2>2. CASE status[p] = "scrolling"
    BY <1>1, <1>2, <1>4, <1>6, <2>2
       DEF StreamInv, ScrollingInv, Counted, Paging, Positioned, Hits, planVars
  <2>3. CASE status[p] = "clearing"
    BY <1>1, <1>2, <1>4, <1>6, <2>3
       DEF StreamInv, ClearingInv, Complete, Hits, AllThatIsWanted, RowLimits, planVars
  <2> QED BY <1>1, <2>1, <2>2, <2>3 DEF Awaiting
<1> HIDE DEF message
<1> QED BY <1>2, <1>3, <1>5, <1>7, ServeFrame

\* What the invariant says of a context does not depend on its being open.
LEMMA ContextCloses ==
  ASSUME IInv, NEW p \in Stream, UNCHANGED <<planVars, streamVars>>,
         context'[p] = IF context[p] = None THEN None ELSE [context[p] EXCEPT !.open = FALSE]
  PROVE  StreamInv(p)' /\ context'[p] \in Context \cup {None}
<1>1. StreamInv(p) /\ context[p] \in Context \cup {None}
  BY DEF IInv, TypeOK
<1>2. CASE context[p] = None
  <2>1. context'[p] = context[p]
    BY <1>2
  <2>2. StreamInv(p)'
    BY <1>1, <2>1, StreamFrame DEF streamVars
  <2> QED BY <1>2, <2>1, <2>2
<1>3. CASE context[p] # None
  <2>1. context'[p] \in Context
    BY <1>1, <1>3 DEF Context
  <2>2. context'[p] # None
    BY <2>1, ScanAssumption
  <2>3. /\ context'[p].hits = context[p].hits /\ context'[p].pos = context[p].pos
        /\ context'[p].size = context[p].size
    BY <1>1, <1>3 DEF Context
  <2>4. StreamInv(p)'
    BY <1>1, <1>3, <2>2, <2>3
       DEF StreamInv, Prefix, NewInv, ReadyInv, SearchingInv, ScrollingInv, ClearingInv,
           Untouched, Counted, Complete, Paging, Positioned, Hits, AllThatIsWanted,
           RowLimits, Exhausted, planVars, streamVars
  <2> QED BY <2>1, <2>4
<1> QED BY <1>2, <1>3

\* A cursor that expires leaves the rest of its context as it was.
LEMMA ExpireInv ==
  ASSUME IInv, NEW p \in Stream, Expire(p)
  PROVE  IInv'
<1>1. /\ context' = [context EXCEPT ![p].open = FALSE] /\ context[p] # None
      /\ UNCHANGED <<planVars, streamVars, indexVars>> /\ TypeOK
  BY DEF Expire, IInv
<1>2. context'[p] = [context[p] EXCEPT !.open = FALSE]
  BY <1>1 DEF TypeOK
<1>3. StreamInv(p)' /\ context'[p] \in Context \cup {None}
  BY <1>1, <1>2, ContextCloses
<1>4. TypeOK'
  <2>1. context' \in [Stream -> Context \cup {None}]
    BY <1>1, <1>3 DEF TypeOK
  <2> QED BY <1>1, <2>1 DEF TypeOK, planVars, streamVars, indexVars
<1>5. \A q \in Stream \ {p} :
        /\ status'[q] = status[q] /\ st'[q] = st[q] /\ wire'[q] = wire[q]
        /\ out'[q] = out[q] /\ context'[q] = context[q]
  BY <1>1 DEF TypeOK, streamVars
<1> QED BY <1>1, <1>3, <1>4, <1>5, OneStream
-----------------------------------------------------------------------------
(* The index.                                                              *)

\* A write keeps the types of the index's variables.
LEMMA WriteType ==
  ASSUME TypeOK, NEW contents, contents = None \/ contents \subseteq Doc, Write(contents),
         context' \in [Stream -> Context \cup {None}]
  PROVE  TypeOK' /\ UNCHANGED <<planVars, streamVars>>
<1>1. /\ index' = contents /\ UNCHANGED <<planVars, streamVars>>
      /\ stable' \subseteq Doc /\ writes' \in Nat
  BY DEF Write, TypeOK
<1> QED BY <1>1 DEF TypeOK, planVars, streamVars

\* A write that closes no cursor preserves the invariant.
LEMMA WriteInv ==
  ASSUME IInv, NEW contents, contents = None \/ contents \subseteq Doc, Write(contents),
         UNCHANGED context
  PROVE  IInv'
<1>1. TypeOK' /\ UNCHANGED <<planVars, streamVars>>
  BY WriteType DEF IInv, TypeOK
<1>2. PlanInv'
  BY <1>1 DEF IInv, PlanInv, planVars
<1>3. \A p \in Stream : StreamInv(p)'
  BY <1>1, StreamFrame DEF IInv, streamVars
<1> QED BY <1>1, <1>2, <1>3 DEF IInv

\* Deleting the index closes every cursor over it and nothing else.
LEMMA DropIndexInv ==
  ASSUME IInv, DropIndex
  PROVE  IInv'
<1>1. /\ Write(None) /\ TypeOK
      /\ context' = [p \in Stream |->
                       IF context[p] = None THEN None ELSE [context[p] EXCEPT !.open = FALSE]]
  BY DEF DropIndex, IInv
<1>2. UNCHANGED <<planVars, streamVars>>
  BY <1>1 DEF Write
<1>3. \A p \in Stream : StreamInv(p)' /\ context'[p] \in Context \cup {None}
  BY <1>1, <1>2, ContextCloses
<1>4. TypeOK'
  <2>1. context' \in [Stream -> Context \cup {None}]
    BY <1>1, <1>3
  <2> QED BY <1>1, <2>1, WriteType
<1>5. PlanInv'
  BY <1>2 DEF IInv, PlanInv, planVars
<1> QED BY <1>3, <1>4, <1>5 DEF IInv
-----------------------------------------------------------------------------
(* The theorems.                                                           *)

\* Every step of the scan preserves the invariant.
LEMMA NextInv == IInv /\ [Next]_vars => IInv'
<1> SUFFICES ASSUME IInv, [Next]_vars PROVE IInv'
  OBVIOUS
<1>1. CASE UNCHANGED vars
  <2>1. UNCHANGED <<planVars, streamVars, context, indexVars>>
    BY <1>1 DEF vars, planVars, streamVars, indexVars
  <2>2. TypeOK' /\ PlanInv'
    BY <2>1 DEF IInv, TypeOK, PlanInv, planVars, streamVars, indexVars
  <2>3. \A p \in Stream : StreamInv(p)'
    BY <2>1, StreamFrame DEF IInv, streamVars
  <2> QED BY <2>2, <2>3 DEF IInv
<1>2. ASSUME NEW l \in Limits, PushLimit(l) PROVE IInv'
  BY <1>2, PushLimitInv
<1>3. ASSUME NEW p \in Stream, Execute(p) PROVE IInv'
  BY <1>3, ExecuteInv
<1>4. ASSUME NEW p \in Stream, Poll(p) PROVE IInv'
  BY <1>4, PollEndInv, PollSearchInv, PollScrollInv DEF Poll
<1>5. ASSUME NEW p \in Stream, Receive(p) PROVE IInv'
  BY <1>5, ReceiveFailureInv, ReceiveEmptyPageInv, ReceiveHitsInv, ReceiveClearedInv DEF Receive
<1>6. ASSUME NEW p \in Stream, Serve(p) PROVE IInv'
  BY <1>6, ServeSearchInv, ServeScrollInv, ServeClearInv DEF Serve
<1>7. ASSUME NEW p \in Stream, Cancel(p) \/ Lose(p) \/ Expire(p) PROVE IInv'
  BY <1>7, CancelInv, LoseInv, ExpireInv
<1>8. ASSUME NEW d \in Doc, AddDoc(d) \/ RemoveDoc(d) PROVE IInv'
  <2>1. index # None /\ index \subseteq Doc
    BY <1>8 DEF AddDoc, RemoveDoc, IInv, TypeOK
  <2>2. index \cup {d} \subseteq Doc /\ index \ {d} \subseteq Doc
    BY <2>1
  <2> QED BY <1>8, <2>2, WriteInv DEF AddDoc, RemoveDoc
<1>9. CASE DropIndex
  BY <1>9, DropIndexInv
<1>10. CASE CreateIndex
  BY <1>10, WriteInv DEF CreateIndex
<1>11. CASE Finished
  BY <1>1, <1>11 DEF Finished
<1> QED BY <1>1, <1>2, <1>3, <1>4, <1>5, <1>6, <1>7, <1>8, <1>9, <1>10, <1>11 DEF Next

\* The invariant holds throughout every scan, of any documents, partitions,
\* page sizes, limits and faults.
THEOREM Invariant == Spec => []IInv
<1> QED BY InitInv, NextInv, PTL DEF Spec

\* Type correctness of next_page's state and of every message it exchanges.
THEOREM TypeCorrect == Spec => []TypeOK
<1>1. IInv => TypeOK
  BY DEF IInv
<1> QED BY <1>1, Invariant, PTL

\* No page is skipped, repeated or cut at the wrong end: at every moment each
\* stream has emitted a prefix of the answer it pages through.
THEOREM DeliversPrefix == Spec => []PrefixDelivered
<1>1. IInv => PrefixDelivered
  <2> SUFFICES ASSUME IInv, NEW p \in Stream, context[p] # None
               PROVE  IsPrefix(out[p], context[p].hits)
    BY DEF IInv, StreamInv, Prefix, PrefixDelivered
  <2>1. /\ out[p] \in Seq(Doc) /\ Hits(p) \in Seq(Doc)
        /\ Len(out[p]) <= Len(Hits(p)) /\ out[p] = SubSeq(Hits(p), 1, Len(out[p]))
    BY DEF IInv, TypeOK, StreamInv, Prefix, Hits, Context
  <2> QED BY <2>1 DEF IsPrefix, Hits
<1> QED BY <1>1, Invariant, PTL

\* A stream that reports its end has emitted everything the limits allow.
THEOREM EndsComplete == Spec => []CompleteWhenEnded
<1>1. IInv => CompleteWhenEnded
  <2> SUFFICES ASSUME IInv, NEW p \in Stream, status[p] \in {"clearing", "ended"}
               PROVE  AllThatIsWanted(Len(out[p]), IF context[p] = None THEN Len(out[p])
                                                                     ELSE Len(context[p].hits))
    BY DEF CompleteWhenEnded
  <2>1. Complete(p) /\ Prefix(p)
    BY DEF IInv, StreamInv, ClearingInv
  <2>2. CASE context[p] # None
    BY <2>1, <2>2 DEF Complete, Hits
  <2>3. CASE context[p] = None
    <3>1. out[p] = <<>> /\ Len(out[p]) = 0
      BY <2>1, <2>3 DEF Prefix
    <3>2. \A l \in RowLimits : 0 <= l
      BY DEF IInv, TypeOK, RowLimits, Opt, Query, AtLeastOne
    <3> QED BY <2>3, <3>1, <3>2 DEF AllThatIsWanted
  <2> QED BY <2>2, <2>3
<1> QED BY <1>1, Invariant, PTL

\* While a stream wants more it holds the cursor to get it with.
THEOREM HoldsCursor == Spec => []CursorHeld
<1>1. IInv => CursorHeld
  <2> SUFFICES ASSUME IInv, NEW p \in Stream,
                      status[p] = "ready", st[p].started, ~Exhausted(st[p])
               PROVE  st[p].scroll_id # None
    BY DEF CursorHeld
  <2> QED BY StreamType DEF IInv, StreamInv, ReadyInv, Untouched, Paging
<1> QED BY <1>1, Invariant, PTL

\* No page is larger than the provider's page size.
THEOREM PagesBounded == Spec => []BoundedPages
<1>1. IInv => BoundedPages
  <2> SUFFICES ASSUME IInv, NEW p \in Stream, wire[p].type = "page"
               PROVE  Len(wire[p].hits) <= AtLeastOne(query.page_size)
    BY DEF BoundedPages
  <2>1. TypeOK /\ PlanInv /\ StreamInv(p) /\ status[p] \in Status
    BY DEF IInv, TypeOK
  <2>2. exec.inner.page_size = AtLeastOne(query.page_size) /\ exec.inner.page_size \in Nat
    BY <2>1, PlanFacts DEF PlanInv
  <2>3. /\ RequestSize(exec.inner, exec.inner.fetch) \in Nat
        /\ RequestSize(exec.inner, exec.inner.fetch) <= exec.inner.page_size
    BY <2>1, PlanFacts, RequestSizeType
  <2>4. status[p] \in {"searching", "scrolling"}
    BY <2>1 DEF StreamInv, NewInv, ReadyInv, ClearingInv, Idle, Status, Final
  <2>5. context[p] # None /\ Positioned(p) /\ context[p] \in Context
    BY <2>1, <2>4 DEF StreamInv, SearchingInv, ScrollingInv, Paging, TypeOK
  <2>6. /\ Hits(p) \in Seq(Doc) /\ Len(Hits(p)) \in Nat
        /\ context[p].pos \in Nat /\ context[p].pos <= Len(Hits(p))
        /\ context[p].size \in Nat /\ context[p].size <= exec.inner.page_size
    BY <2>3, <2>5 DEF Positioned, Hits, Context
  <2>7. PICK m \in Nat : /\ context[p].pos = AtMost(Len(Hits(p)), m + context[p].size)
                         /\ m <= context[p].pos
                         /\ wire[p].hits = SubSeq(Hits(p), m + 1, context[p].pos)
    <3>1. CASE status[p] = "searching"
      <4>1. /\ context[p].pos = AtMost(Len(Hits(p)), 0 + context[p].size)
            /\ wire[p].hits = SubSeq(Hits(p), 0 + 1, context[p].pos)
        BY <2>1, <2>6, <3>1 DEF StreamInv, SearchingInv
      <4> QED BY <2>6, <4>1
    <3>2. CASE status[p] = "scrolling"
      <4>1. /\ context[p].pos = AtMost(Len(Hits(p)), Len(out[p]) + context[p].size)
            /\ wire[p].hits = SubSeq(Hits(p), Len(out[p]) + 1, context[p].pos)
        <5>1. wire[p] # [type |-> "scroll", id |-> p] /\ ScrollingInv(p)
          BY <2>1, <3>2 DEF StreamInv
        <5> QED BY <5>1 DEF ScrollingInv
      <4>2. Len(out[p]) \in Nat /\ Len(out[p]) <= Len(Hits(p))
        BY <2>1, <2>5 DEF StreamInv, Prefix, TypeOK
      <4>3. Len(out[p]) <= context[p].pos
        BY <2>6, <4>1, <4>2, NoneAssumption DEF AtMost
      <4> QED BY <4>1, <4>2, <4>3
    <3> QED BY <2>4, <3>1, <3>2
  <2>8. context[p].pos - m <= context[p].size
    BY <2>6, <2>7, NoneAssumption DEF AtMost
  <2>9. Len(wire[p].hits) = context[p].pos - m
    <3>1. m + 0 <= context[p].pos /\ 0 \in Nat
      BY <2>7
    <3> QED BY <2>6, <2>7, <3>1, PageSlice
  <2> QED BY <2>2, <2>6, <2>7, <2>8, <2>9
<1> QED BY <1>1, Invariant, PTL
=============================================================================
