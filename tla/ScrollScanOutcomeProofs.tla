---------------------- MODULE ScrollScanOutcomeProofs ----------------------
(***************************************************************************)
(* What a whole scan comes to.  Its streams return no document twice,      *)
(* since their slices are disjoint whatever the index holds when each of   *)
(* them is opened; they exceed no limit, since a plan with a limit has one *)
(* stream; and they miss no document that was there all the time.  When    *)
(* nothing goes wrong around it, it leaves no cursor open and does not     *)
(* fail.  Rests on the invariant of ScrollScanProofs: a stream emits its   *)
(* search's hits.                                                          *)
(***************************************************************************)
EXTENDS ScrollScanProofs, WellFoundedInduction

\* No document is in a sequence twice.
Distinct(hits) == \A i, j \in DOMAIN hits : hits[i] = hits[j] => i = j

\* Every document of a sequence is in the slice of stream p.
Sliced(hits, p) ==
  exec.inner.partitions > 1 =>
    \A i \in DOMAIN hits : HashCode[hits[i]] % exec.inner.partitions = p

\* A stream that runs is one of the plan's, and its search's hits are distinct
\* documents of its slice.
SliceInv(p) ==
  /\ status[p] \notin {"new", "refused"} => p < exec.inner.partitions
  /\ context[p] # None => Distinct(Hits(p)) /\ Sliced(Hits(p), p)

SlicesInv == \A p \in Stream : SliceInv(p)
-----------------------------------------------------------------------------
\* A stream without a context has emitted nothing, and only a stream of the plan
\* has a context.
LEMMA Untried ==
  ASSUME IInv, NEW p \in Stream, status[p] \in {"new", "refused"}
  PROVE  context[p] = None
BY DEF IInv, StreamInv, NewInv, Untouched

\* A step that neither starts a stream nor finds hits keeps the slices.
LEMMA SliceFrame ==
  ASSUME NEW p \in Stream, SliceInv(p), exec' = exec,
         status'[p] \in {"new", "refused"} \/ status[p] \notin {"new", "refused"},
         context'[p] # None => context[p] # None /\ context'[p].hits = context[p].hits
  PROVE  SliceInv(p)'
BY DEF SliceInv, Hits, Distinct, Sliced

\* The hits of a search are distinct, whatever was found.
LEMMA EnumerationDistinct ==
  ASSUME NEW S \in SUBSET Doc, NEW hits \in SetToSeqs(S)
  PROVE  Distinct(hits) /\ \A i \in DOMAIN hits : hits[i] \in S
<1>1. /\ hits \in [1 .. Cardinality(S) -> S]
      /\ \A i, j \in 1 .. Cardinality(S) : i # j => hits[i] # hits[j]
  BY DEF SetToSeqs
<1> QED BY <1>1 DEF Distinct

\* The cluster answers the first request of p from the documents of p's slice.
LEMMA ServeSearchSlices ==
  ASSUME IInv, SlicesInv, NEW p \in Stream, ServeSearch(p)
  PROVE  SlicesInv'
<1>1. /\ TypeOK /\ PlanInv /\ status[p] = "searching" /\ SearchingInv(p)
      /\ wire[p].type = "search"
  BY WireStatus DEF IInv, ServeSearch, StreamInv
<1>2. wire[p].slice = SliceOf(p, exec.inner)
  BY <1>1 DEF SearchingInv
<1>3. exec' = exec /\ status' = status
  BY DEF ServeSearch, planVars
<1>4. \A q \in Stream \ {p} : context'[q] = context[q]
  BY <1>1 DEF ServeSearch, TypeOK
<1>5. ASSUME NEW q \in Stream \ {p} PROVE SliceInv(q)'
  BY <1>3, <1>4, <1>5, SliceFrame DEF SlicesInv
<1>6. SliceInv(p)'
  <2>1. p < exec.inner.partitions
    BY <1>1 DEF SlicesInv, SliceInv
  <2>2. CASE index = None
    <3>1. context'[p].hits = <<>>
      BY <1>1, <2>2 DEF ServeSearch, TypeOK
    <3> QED BY <1>3, <2>1, <3>1 DEF SliceInv, Hits, Distinct, Sliced
  <2>3. CASE index # None /\ wire[p].size > Window
    <3>1. context' = context
      BY <2>3 DEF ServeSearch
    <3> QED BY <1>1, <1>3, <3>1, SliceFrame DEF SlicesInv
  <2>4. CASE index # None /\ ~(wire[p].size > Window)
    <3>1. PICK found \in Found(wire[p].slice) : \E hits \in SetToSeqs(found) :
            \E pos, size, open :
              context' = [context EXCEPT ![p] =
                            [hits |-> hits, pos |-> pos, size |-> size, open |-> open]]
      BY <2>4 DEF ServeSearch
    <3>2. PICK hits \in SetToSeqs(found) : \E pos, size, open :
            context' = [context EXCEPT ![p] =
                          [hits |-> hits, pos |-> pos, size |-> size, open |-> open]]
      BY <3>1
    <3>3. context'[p].hits = hits
      BY <1>1, <3>2 DEF TypeOK
    <3>4. found \subseteq InSlice(wire[p].slice) /\ index \subseteq Doc
      BY <1>1, <2>4 DEF Found, TypeOK
    <3>5. found \in SUBSET Doc
      BY <3>4 DEF InSlice
    <3>6. exec.inner.partitions > 1 =>
            \A d \in found : HashCode[d] % exec.inner.partitions = p
      <4> SUFFICES ASSUME exec.inner.partitions > 1
                   PROVE  \A d \in found : HashCode[d] % exec.inner.partitions = p
        OBVIOUS
      <4>1. wire[p].slice = [id |-> p, max |-> exec.inner.partitions]
        BY <1>2 DEF SliceOf
      <4>2. wire[p].slice \in Slices
        <5>1. exec.inner.partitions \in Nat \ {0} /\ p \in Nat
          BY <1>1, PlanFacts, StreamType
        <5> QED BY <4>1, <5>1 DEF Slices
      <4>3. wire[p].slice # None
        BY <4>2, ScanAssumption
      <4> QED BY <3>4, <4>1, <4>3 DEF InSlice
    <3>7. Distinct(hits) /\ \A i \in DOMAIN hits : hits[i] \in found
      BY <3>5, EnumerationDistinct
    <3>8. Sliced(hits, p)
      BY <3>6, <3>7 DEF Sliced
    <3> QED BY <1>3, <2>1, <3>3, <3>7, <3>8 DEF SliceInv, Hits, Distinct, Sliced
  <2> QED BY <2>2, <2>3, <2>4
<1> QED BY <1>5, <1>6 DEF SlicesInv

\* The plan has as many streams as it slices by, and each starts once.
LEMMA ExecuteSlices ==
  ASSUME IInv, SlicesInv, NEW p \in Stream, Execute(p)
  PROVE  SlicesInv'
<1>1. /\ TypeOK /\ exec' = exec /\ context' = context /\ status[p] = "new"
      /\ exec.inner.partitions \in Nat \ {0} /\ p \in Nat
  BY PlanFacts, StreamType DEF IInv, Execute, planVars
<1>2. context[p] = None
  BY <1>1, Untried
<1>3. status'[p] = IF p >= exec.inner.partitions THEN "refused" ELSE "ready"
  BY <1>1 DEF Execute, TypeOK
<1>4. SliceInv(p)'
  BY <1>1, <1>2, <1>3 DEF SliceInv
<1>5. ASSUME NEW q \in Stream \ {p} PROVE SliceInv(q)'
  <2>1. status'[q] = status[q]
    BY <1>1 DEF Execute, TypeOK
  <2> QED BY <1>1, <2>1, SliceFrame DEF SlicesInv
<1> QED BY <1>4, <1>5 DEF SlicesInv

\* A limit is pushed before any stream has a context.
LEMMA PushLimitSlices ==
  ASSUME IInv, NEW l \in Limits, PushLimit(l)
  PROVE  SlicesInv'
<1>1. \A p \in Stream : status'[p] = "new" /\ context'[p] = None
  BY Untried DEF PushLimit, streamVars
<1> QED BY <1>1 DEF SlicesInv, SliceInv

\* The other requests and an expiry leave the hits as they are.
LEMMA ServeOtherHits ==
  ASSUME IInv, NEW p \in Stream, ServeScroll(p) \/ ServeClear(p) \/ Expire(p)
  PROVE  \A q \in Stream : context'[q] # None =>
           context[q] # None /\ context'[q].hits = context[q].hits
<1>1. TypeOK
  BY DEF IInv
<1>2. CASE ServeScroll(p)
  <2>1. wire[p].type = "scroll" /\ ScrollingInv(p) /\ context[p] \in Context \cup {None}
    BY <1>1, <1>2, WireStatus DEF IInv, ServeScroll, StreamInv, TypeOK
  <2>2. wire[p].id = p /\ context[p] # None /\ context[p] \in Context
    BY <2>1 DEF ScrollingInv, Paging
  <2>3. context' = context \/ \E end : context' = [context EXCEPT ![p].pos = end]
    BY <1>2, <2>2 DEF ServeScroll
  <2> QED BY <1>1, <2>2, <2>3 DEF TypeOK, Context
<1>3. CASE ServeClear(p)
  <2>1. wire[p].type = "clear" /\ ClearingInv(p) /\ context[p] \in Context \cup {None}
    BY <1>1, <1>3, WireStatus DEF IInv, ServeClear, StreamInv, TypeOK
  <2>2. wire[p].id = p /\ context[p] # None /\ context[p] \in Context
    BY <2>1 DEF ClearingInv
  <2>3. context' = [context EXCEPT ![p].open = FALSE]
    BY <1>3, <2>2 DEF ServeClear
  <2> QED BY <1>1, <2>2, <2>3 DEF TypeOK, Context
<1>4. CASE Expire(p)
  <2>1. context[p] # None /\ context[p] \in Context
    BY <1>1, <1>4 DEF Expire, TypeOK
  <2>2. context' = [context EXCEPT ![p].open = FALSE]
    BY <1>4 DEF Expire
  <2> QED BY <1>1, <2>1, <2>2 DEF TypeOK, Context
<1> QED BY <1>2, <1>3, <1>4

\* So does the deletion of the index.
LEMMA DropIndexHits ==
  ASSUME IInv, DropIndex
  PROVE  \A q \in Stream : context'[q] # None =>
           context[q] # None /\ context'[q].hits = context[q].hits
<1> SUFFICES ASSUME NEW q \in Stream, context'[q] # None
             PROVE  context[q] # None /\ context'[q].hits = context[q].hits
  OBVIOUS
<1>1. context'[q] = IF context[q] = None THEN None ELSE [context[q] EXCEPT !.open = FALSE]
  BY DEF DropIndex
<1>2. context[q] # None /\ context[q] \in Context
  BY <1>1 DEF IInv, TypeOK
<1> QED BY <1>1, <1>2 DEF Context

\* So they leave the slices as they are.
LEMMA ClosingSlices ==
  ASSUME IInv, SlicesInv,
         DropIndex \/ \E p \in Stream : ServeScroll(p) \/ ServeClear(p) \/ Expire(p)
  PROVE  SlicesInv'
<1>1. exec' = exec /\ status' = status
  BY DEF DropIndex, ServeScroll, ServeClear, Expire, Write, planVars, streamVars
<1>2. ASSUME NEW q \in Stream PROVE SliceInv(q)'
  BY <1>1, <1>2, ServeOtherHits, DropIndexHits, SliceFrame DEF SlicesInv
<1> QED BY <1>2 DEF SlicesInv

\* Every other step leaves the contexts alone and starts no stream.
LEMMA OtherSlices ==
  ASSUME IInv, SlicesInv, exec' = exec, context' = context,
         \/ status' = status
         \/ \E p \in Stream : /\ status[p] \notin {"new", "refused"}
                              /\ \E s : status' = [status EXCEPT ![p] = s]
  PROVE  SlicesInv'
<1>1. TypeOK
  BY DEF IInv
<1>2. ASSUME NEW q \in Stream PROVE SliceInv(q)'
  <2>1. status'[q] = status[q] \/ status[q] \notin {"new", "refused"}
    BY <1>1 DEF TypeOK
  <2> QED BY <2>1, SliceFrame DEF SlicesInv
<1> QED BY <1>2 DEF SlicesInv
-----------------------------------------------------------------------------
\* The slices hold of a freshly planned scan, and every step keeps them.
LEMMA InitSlices == Init => SlicesInv
BY DEF Init, SlicesInv, SliceInv

\* Every step keeps the slices.
LEMMA NextSlices == IInv /\ SlicesInv /\ [Next]_vars => SlicesInv'
<1> SUFFICES ASSUME IInv, SlicesInv, [Next]_vars PROVE SlicesInv'
  OBVIOUS
<1>1. CASE UNCHANGED vars
  BY <1>1, OtherSlices DEF vars
<1>2. ASSUME NEW l \in Limits, PushLimit(l) PROVE SlicesInv'
  BY <1>2, PushLimitSlices
<1>3. ASSUME NEW p \in Stream, Execute(p) PROVE SlicesInv'
  BY <1>3, ExecuteSlices
<1>4. ASSUME NEW p \in Stream, Poll(p) \/ Receive(p) \/ Cancel(p) PROVE SlicesInv'
  <2>1. exec' = exec /\ context' = context /\ status[p] \notin {"new", "refused"}
    BY <1>4 DEF Poll, PollEnd, PollSearch, PollScroll, Receive, ReceiveFailure, ReceiveEmptyPage,
                ReceiveHits, ReceiveCleared, Cancel, Awaiting, planVars
  <2>2. \E s : status' = [status EXCEPT ![p] = s]
    BY <1>4 DEF Poll, PollEnd, PollSearch, PollScroll, Receive, ReceiveFailure, ReceiveEmptyPage,
                ReceiveHits, ReceiveCleared, Cancel, Finish
  <2> QED BY <2>1, <2>2, OtherSlices
<1>5. ASSUME NEW p \in Stream, Serve(p) \/ Expire(p) PROVE SlicesInv'
  BY <1>5, ServeSearchSlices, ClosingSlices DEF Serve
<1>6. ASSUME NEW p \in Stream, Lose(p) PROVE SlicesInv'
  BY <1>6, OtherSlices DEF Lose, planVars
<1>7. ASSUME NEW d \in Doc, AddDoc(d) \/ RemoveDoc(d) PROVE SlicesInv'
  BY <1>7, OtherSlices DEF AddDoc, RemoveDoc, Write, planVars, streamVars
<1>8. CASE DropIndex
  BY <1>8, ClosingSlices
<1>9. CASE CreateIndex
  BY <1>9, OtherSlices DEF CreateIndex, Write, planVars, streamVars
<1>10. CASE Finished
  BY <1>1, <1>10 DEF Finished
<1> QED BY <1>1, <1>2, <1>3, <1>4, <1>5, <1>6, <1>7, <1>8, <1>9, <1>10 DEF Next

\* The slices are disjoint and their answers repeat nothing, in every reachable
\* state of every scan.
THEOREM SlicesDisjoint == Spec => []SlicesInv
<1> QED BY InitSlices, NextSlices, Invariant, PTL DEF Spec

\* A row that was emitted is a hit of the stream's search, at the same place.
LEMMA EmittedHit ==
  ASSUME IInv, NEW p \in Stream, NEW i \in DOMAIN out[p]
  PROVE  /\ context[p] # None /\ i \in DOMAIN Hits(p) /\ out[p][i] = Hits(p)[i]
         /\ status[p] \notin {"new", "refused"}
<1>1. Prefix(p) /\ out[p] \in Seq(Doc) /\ context[p] \in Context \cup {None}
  BY DEF IInv, StreamInv, TypeOK
<1>2. context[p] # None
  BY <1>1 DEF Prefix
<1>3. status[p] \notin {"new", "refused"}
  BY <1>2, Untried
<1>4. /\ Hits(p) \in Seq(Doc) /\ Len(out[p]) <= Len(Hits(p))
      /\ out[p] = SubSeq(Hits(p), 1, Len(out[p])) /\ i \in 1 .. Len(out[p])
  BY <1>1, <1>2 DEF Prefix, Hits, Context
<1>5. Len(out[p]) \in Nat /\ Len(Hits(p)) \in Nat
  BY <1>1, <1>4
<1>6. i \in 1 .. Len(Hits(p)) /\ out[p][i] = Hits(p)[i]
  BY <1>4, <1>5
<1> QED BY <1>2, <1>3, <1>4, <1>6

\* No document is emitted twice, by one stream or by two, over an index that
\* changes between the searches of the slices (exec.rs:161-176).
THEOREM ReturnsNoRowTwice == Spec => []NoRowTwice
<1>1. IInv /\ SlicesInv => NoRowTwice
  <2> SUFFICES ASSUME IInv, SlicesInv, NEW p \in Stream, NEW q \in Stream,
                      NEW i \in DOMAIN out[p], NEW j \in DOMAIN out[q], out[p][i] = out[q][j]
               PROVE  p = q /\ i = j
    BY DEF NoRowTwice
  <2>1. /\ i \in DOMAIN Hits(p) /\ out[p][i] = Hits(p)[i] /\ SliceInv(p)
        /\ context[p] # None /\ status[p] \notin {"new", "refused"}
    BY EmittedHit DEF SlicesInv
  <2>2. /\ j \in DOMAIN Hits(q) /\ out[q][j] = Hits(q)[j] /\ SliceInv(q)
        /\ context[q] # None /\ status[q] \notin {"new", "refused"}
    BY EmittedHit DEF SlicesInv
  <2>3. p = q
    <3>1. exec.inner.partitions \in Nat \ {0} /\ p \in Nat /\ q \in Nat
      BY PlanFacts, StreamType DEF IInv
    <3>2. p < exec.inner.partitions /\ q < exec.inner.partitions
      BY <2>1, <2>2 DEF SliceInv
    <3>3. CASE exec.inner.partitions > 1
      BY <2>1, <2>2, <3>3 DEF SliceInv, Sliced
    <3> QED BY <3>1, <3>2, <3>3
  <2>4. i = j
    BY <2>1, <2>2, <2>3 DEF SliceInv, Distinct
  <2> QED BY <2>3, <2>4
<1> QED BY <1>1, Invariant, SlicesDisjoint, PTL
-----------------------------------------------------------------------------
(* The number of rows.                                                     *)

\* Induction over the naturals, for a set.
LEMMA SetInduction ==
  ASSUME NEW S, 0 \in S, \A n \in Nat : n \in S => n + 1 \in S
  PROVE  Nat \subseteq S
<1> DEFINE R == OpToRel(<, Nat)
<1>1. \A x, y \in Nat : <<x, y>> \in R <=> x < y
  BY DEF OpToRel
<1>2. IsWellFoundedOn(R, Nat)
  BY NatLessThanWellFounded
<1> HIDE DEF R
<1> SUFFICES ASSUME Nat \ S # {} PROVE FALSE
  OBVIOUS
<1>3. PICK m \in Nat \ S : \A y \in Nat \ S : ~ (<<y, m>> \in R)
  BY <1>2, WFMin
<1>4. m \in Nat /\ m # 0
  BY <1>3
<1>5. m - 1 \in Nat /\ m - 1 < m /\ m - 1 + 1 = m
  BY <1>4
<1>6. m - 1 \in S
  BY <1>1, <1>3, <1>4, <1>5
<1> QED BY <1>3, <1>5, <1>6

\* A sum, as a fold makes it, over a finite set of which all but one count nothing.
LEMMA SumOfOne ==
  ASSUME NEW S, IsFiniteSet(S), NEW f \in [S -> Nat], NEW p \in S,
         \A x \in S \ {p} : f[x] = 0,
         NEW h, h = [s \in SUBSET S |-> IF s = {} THEN 0
                                        ELSE LET x == CHOOSE x \in s : TRUE
                                             IN  h[s \ {x}] + f[x]]
  PROVE  h[S] = f[p]
<1> DEFINE Sum(s) == IF p \in s THEN f[p] ELSE 0
           Right == {n \in Nat : \A s \in SUBSET S : Cardinality(s) = n => h[s] = Sum(s)}
<1>1. 0 \in Right
  <2>1. ASSUME NEW s \in SUBSET S, Cardinality(s) = 0 PROVE h[s] = Sum(s)
    <3>1. s = {}
      BY <2>1, FS_Subset, FS_EmptySet
    <3> QED BY <3>1
  <2> QED BY <2>1
<1>2. ASSUME NEW n \in Nat, n \in Right PROVE n + 1 \in Right
  <2>1. ASSUME NEW s \in SUBSET S, Cardinality(s) = n + 1 PROVE h[s] = Sum(s)
    <3>1. IsFiniteSet(s) /\ s # {}
      BY <2>1, FS_Subset, FS_EmptySet
    <3> DEFINE x == CHOOSE x \in s : TRUE
               rest == s \ {x}
    <3>2. x \in s
      BY <3>1
    <3> HIDE DEF x
    <3>a. Cardinality(s \ {x}) = Cardinality(s) - 1
      <4> HIDE DEF rest
      <4> QED BY <3>1, <3>2, FS_RemoveElement
    <3>3. Cardinality(rest) = n /\ rest \in SUBSET S
      BY <2>1, <3>a
    <3>4. h[rest] = Sum(rest)
      BY <1>2, <3>3
    <3>5. h[s] = h[rest] + f[x]
      BY <3>1 DEF x
    <3>6. f[x] \in Nat /\ f[p] \in Nat /\ (x # p => f[x] = 0)
      BY <3>2
    <3> QED BY <3>2, <3>4, <3>5, <3>6
  <2> QED BY <2>1
<1>3. Cardinality(S) \in Nat
  BY FS_CardinalityType
<1> HIDE DEF Right
<1>4. Cardinality(S) \in Right
  BY <1>1, <1>2, <1>3, SetInduction
<1> QED BY <1>4 DEF Right

\* Total, when only stream p has emitted anything.
LEMMA TotalOfOne ==
  ASSUME TypeOK, NEW p \in Stream, \A q \in Stream \ {p} : out[q] = <<>>
  PROVE  Total = Len(out[p])
<1> DEFINE f == [q \in Stream |-> Len(out[q])]
           Sums(g) == g = [s \in SUBSET Stream |->
                             IF s = {} THEN 0
                             ELSE LET x == CHOOSE x \in s : TRUE IN g[s \ {x}] + Len(out[x])]
           g0 == [s \in SUBSET Stream |-> IF p \in s THEN Len(out[p]) ELSE 0]
           h == CHOOSE g : Sums(g)
<1>1. \A q \in Stream : Len(out[q]) \in Nat /\ (q # p => Len(out[q]) = 0)
  BY DEF TypeOK
<1>2. Sums(g0)
  <2>1. ASSUME NEW s \in SUBSET Stream, NEW x \in s
        PROVE  g0[s] = g0[s \ {x}] + Len(out[x])
    <3>1. s \ {x} \in SUBSET Stream
      BY <2>1
    <3>2. g0[s \ {x}] = (IF p \in s \ {x} THEN Len(out[p]) ELSE 0)
      BY <3>1
    <3>3. g0[s] = (IF p \in s THEN Len(out[p]) ELSE 0)
      BY <2>1
    <3> HIDE DEF g0
    <3>4. CASE x = p
      BY <1>1, <3>2, <3>3, <3>4
    <3>5. CASE x # p
      <4>1. Len(out[x]) = 0
        BY <1>1, <2>1, <3>5
      <4>2. g0[s \ {x}] = g0[s] /\ g0[s] \in Nat
        BY <1>1, <3>2, <3>3, <3>5
      <4> QED BY <4>1, <4>2
    <3> QED BY <3>4, <3>5
  <2>2. ASSUME NEW s \in SUBSET Stream
        PROVE  g0[s] = IF s = {} THEN 0
                       ELSE LET x == CHOOSE x \in s : TRUE IN g0[s \ {x}] + Len(out[x])
    <3>1. CASE s = {}
      BY <3>1
    <3>2. CASE s # {}
      <4>1. (CHOOSE x \in s : TRUE) \in s
        BY <3>2
      <4> HIDE DEF g0
      <4> QED BY <2>1, <3>2, <4>1
    <3> QED BY <3>1, <3>2
  <2>3. g0 = [s \in SUBSET Stream |-> g0[s]]
    OBVIOUS
  <2> HIDE DEF g0
  <2> QED BY <2>2, <2>3
<1>3. Sums(h)
  <2> HIDE DEF Sums, g0
  <2> QED BY <1>2
<1>4. Total = h[Stream]
  BY DEF Total, FoldSet, MapThenFoldSet
<1> HIDE DEF h
<1>5. h = [s \in SUBSET Stream |-> IF s = {} THEN 0
                                   ELSE LET x == CHOOSE x \in s : TRUE IN h[s \ {x}] + f[x]]
  <2>1. ASSUME NEW s \in SUBSET Stream, s # {}
        PROVE  LET x == CHOOSE x \in s : TRUE IN Len(out[x]) = f[x]
    <3>1. (CHOOSE x \in s : TRUE) \in Stream
      BY <2>1
    <3> QED BY <3>1
  <2> QED BY <1>3, <2>1
<1>6. f \in [Stream -> Nat] /\ \A x \in Stream \ {p} : f[x] = 0
  BY <1>1
<1> HIDE DEF f
<1>7. h[Stream] = f[p]
  BY <1>5, <1>6, StreamType, SumOfOne
<1> QED BY <1>4, <1>7 DEF f
-----------------------------------------------------------------------------
(* No limit is exceeded.                                                   *)

\* What a stream has emitted is within every limit on the whole scan.
Within(p) == \A l \in RowLimits : Len(out[p]) <= l

StreamsWithin == \A p \in Stream : Within(p)

\* A limited plan has one stream, and only that stream has emitted anything.
LEMMA LimitedPlan ==
  ASSUME IInv, SlicesInv, RowLimits # {}
  PROVE  /\ exec.inner.partitions = 1 /\ 0 \in Stream
         /\ Total = Len(out[0])
<1>1. TypeOK /\ PlanInv /\ PlanOK(exec)
  BY DEF IInv, PlanInv
<1>2. exec.inner.partitions = 1
  <2>1. exec.inner.fetch # None \/ exec.inner.single_page
    BY <1>1, WithinLimits
  <2> QED BY <1>1, <2>1 DEF PlanOK
<1>3. 0 \in Stream
  BY ScanAssumption DEF Stream
<1>4. ASSUME NEW q \in Stream \ {0} PROVE out[q] = <<>>
  <2>1. q \in Nat /\ q # 0
    BY StreamType, <1>4
  <2>2. ~ (q < exec.inner.partitions)
    BY <1>2, <2>1
  <2>3. status[q] \in {"new", "refused"}
    BY <1>4, <2>2 DEF SlicesInv, SliceInv
  <2>4. NewInv(q)
    BY <1>4, <2>3 DEF IInv, StreamInv
  <2> QED BY <2>4 DEF NewInv, Untouched
<1> QED BY <1>1, <1>2, <1>3, <1>4, TotalOfOne

\* Between its polls, a stream is within the limits: it pages and counts what
\* its fetch allows, or it is complete.
LEMMA ReadyWithin == IInv => \A p \in Stream : status[p] = "ready" => Within(p)
<1> SUFFICES ASSUME IInv, NEW p \in Stream, status[p] = "ready", NEW l \in RowLimits
             PROVE  Len(out[p]) <= l
  BY DEF Within
<1>1. TypeOK /\ PlanInv /\ ReadyInv(p) /\ l \in Nat
  BY WithinLimits DEF IInv, StreamInv
<1>2. CASE Untouched(p)
  BY <1>1, <1>2 DEF Untouched
<1>3. CASE context[p] # None /\ Complete(p)
  BY <1>3 DEF Complete, AllThatIsWanted
<1>4. CASE Paging(p)
  <2>1. l \in limits \ {None} /\ exec.inner.fetch # None
    BY <1>1, <1>4, WithinLimits DEF Paging
  <2>2. exec.inner.fetch <= l /\ Len(out[p]) <= exec.inner.fetch
    BY <1>1, <2>1, WithinLimits DEF ReadyInv, Counted
  <2>3. exec.inner.fetch \in Nat /\ Len(out[p]) \in Nat
    BY <1>1, <2>1, PlanFacts DEF Opt, TypeOK
  <2> QED BY <1>1, <2>2, <2>3
<1> QED BY <1>1, <1>2, <1>3, <1>4 DEF ReadyInv

\* A step that changes neither the limits nor what is out changes nothing here.
LEMMA WithinFrame ==
  ASSUME StreamsWithin, UNCHANGED <<query, limits, out>>
  PROVE  StreamsWithin'
BY DEF StreamsWithin, Within, RowLimits

\* Every step keeps the streams within the limits.
LEMMA NextWithin ==
  IInv /\ StreamsWithin /\ (\A p \in Stream : status[p] = "ready" => Within(p))' /\ [Next]_vars
    => StreamsWithin'
<1> SUFFICES ASSUME IInv, StreamsWithin, [Next]_vars,
                    (\A p \in Stream : status[p] = "ready" => Within(p))'
             PROVE  StreamsWithin'
  OBVIOUS
<1>0. TypeOK
  BY DEF IInv
<1>1. CASE UNCHANGED vars \/ Finished
  BY <1>1, WithinFrame DEF vars, Finished
<1>2. ASSUME NEW l \in Limits, PushLimit(l) PROVE StreamsWithin'
  <2>1. \A p \in Stream : out'[p] = <<>>
    BY <1>2 DEF PushLimit, streamVars, IInv, StreamInv, NewInv, Untouched
  <2>2. RowLimits' \subseteq Nat
    <3>1. /\ limits' \subseteq Opt /\ query' = query
          /\ query.search_after \in BOOLEAN /\ query.page_size \in Nat
      BY <1>0, <1>2, ScanAssumption DEF PushLimit, TypeOK, Query
    <3>2. AtLeastOne(query.page_size) \in Nat
      BY <3>1, AtLeastOneType
    <3> QED BY <3>1, <3>2 DEF RowLimits, Opt
  <2> QED BY <2>1, <2>2 DEF StreamsWithin, Within
<1>3. ASSUME NEW p \in Stream, Execute(p) \/ Poll(p) \/ Serve(p) \/ Cancel(p) \/ Lose(p) \/ Expire(p)
      PROVE  StreamsWithin'
  BY <1>3, WithinFrame DEF Execute, Poll, PollEnd, PollSearch, PollScroll, Serve, ServeSearch,
                           ServeScroll, ServeClear, Cancel, Lose, Expire, planVars, streamVars
<1>4. ASSUME NEW p \in Stream, ReceiveFailure(p) \/ ReceiveEmptyPage(p) \/ ReceiveCleared(p)
      PROVE  StreamsWithin'
  BY <1>4, WithinFrame DEF ReceiveFailure, ReceiveEmptyPage, ReceiveCleared, planVars
<1>5. ASSUME NEW p \in Stream, ReceiveHits(p) PROVE StreamsWithin'
  <2>1. query' = query /\ limits' = limits /\ RowLimits' = RowLimits
    BY <1>5 DEF ReceiveHits, planVars, RowLimits
  <2>2. CASE out' = out
    BY <2>1, <2>2, WithinFrame
  <2>3. CASE out' # out
    <3>1. status' = [status EXCEPT ![p] = "ready"]
      BY <1>5, <2>3 DEF ReceiveHits
    <3>2. Within(p)'
      BY <1>0, <3>1 DEF TypeOK
    <3>3. \E kept : out' = [out EXCEPT ![p] = @ \o kept]
      BY <1>5, <2>3 DEF ReceiveHits
    <3>4. \A q \in Stream \ {p} : out'[q] = out[q]
      BY <1>0, <3>3 DEF TypeOK
    <3> QED BY <2>1, <3>2, <3>4 DEF StreamsWithin, Within
  <2> QED BY <2>2, <2>3
<1>6. ASSUME NEW d \in Doc, AddDoc(d) \/ RemoveDoc(d) PROVE StreamsWithin'
  BY <1>6, WithinFrame DEF AddDoc, RemoveDoc, Write, planVars, streamVars
<1>7. CASE DropIndex \/ CreateIndex
  BY <1>7, WithinFrame DEF DropIndex, CreateIndex, Write, planVars, streamVars
<1> QED BY <1>1, <1>2, <1>3, <1>4, <1>5, <1>6, <1>7 DEF Next, Receive

\* A freshly planned scan has emitted nothing.
LEMMA InitWithin == Init /\ IInv => StreamsWithin
<1> SUFFICES ASSUME Init, IInv, NEW p \in Stream, NEW l \in RowLimits
             PROVE  Len(out[p]) <= l
  BY DEF StreamsWithin, Within
<1>1. out[p] = <<>> /\ l \in Nat
  BY WithinLimits DEF Init, IInv
<1> QED BY <1>1

\* No stream emits more than any limit, be it that it fails or is dropped.
THEOREM StaysWithin == Spec => []StreamsWithin
<1> QED BY InitWithin, ReadyWithin, NextWithin, Invariant, PTL DEF Spec

\* The streams together exceed no LIMIT, no max_rows and no page of a
\* search_after read, however many partitions the provider asks for (exec.rs:9-10).
THEOREM RespectsLimits == Spec => []LimitNeverExceeded
<1>1. IInv /\ SlicesInv /\ StreamsWithin => LimitNeverExceeded
  <2> SUFFICES ASSUME IInv, SlicesInv, StreamsWithin, NEW l \in RowLimits
               PROVE  Total <= l
    BY DEF LimitNeverExceeded
  <2>1. Total = Len(out[0]) /\ 0 \in Stream
    BY LimitedPlan
  <2> QED BY <2>1 DEF StreamsWithin, Within
<1> QED BY <1>1, Invariant, SlicesDisjoint, StaysWithin, PTL
-----------------------------------------------------------------------------
(* No document is missed, when the shards do not fail.                     *)

\* The documents stream p is to read: all, or those of its slice.
OfStream(p) ==
  {d \in Doc : exec.inner.partitions > 1 => HashCode[d] % exec.inner.partitions = p}

\* What has been in the index since the scan was planned is still there, and a
\* search found what it held of the stream's documents.
FoundInv(p) == context[p] # None => stable \cap OfStream(p) \subseteq ToSet(Hits(p))

StableInv ==
  /\ stable \subseteq (IF index = None THEN {} ELSE index)
  /\ \A p \in Stream : FoundInv(p)

\* An enumeration of a set leaves none of it out.
LEMMA EnumerationWhole ==
  ASSUME NEW S \in SUBSET Doc, NEW hits \in SetToSeqs(S)
  PROVE  ToSet(hits) = S
<1>1. /\ IsFiniteSet(S) /\ Cardinality(S) \in Nat
  BY ScanAssumption, FS_Subset, FS_CardinalityType
<1>2. /\ hits \in [1 .. Cardinality(S) -> S]
      /\ \A i, j \in 1 .. Cardinality(S) : i # j => hits[i] # hits[j]
  BY DEF SetToSeqs
<1>3. hits \in Injection(1 .. Cardinality(S), S)
  BY <1>2 DEF Injection, IsInjective
<1>4. Cardinality(1 .. Cardinality(S)) = Cardinality(S) /\ IsFiniteSet(1 .. Cardinality(S))
  BY <1>1, FS_Interval
<1>5. hits \in Surjection(1 .. Cardinality(S), S)
  BY <1>1, <1>3, <1>4, FS_Injection
<1> QED BY <1>2, <1>5 DEF Surjection, ToSet

\* A step that leaves the plan and the answers alone, and adds nothing to what
\* is stable, keeps what was found.
LEMMA FoundFrame ==
  ASSUME NEW p \in Stream, FoundInv(p), exec' = exec, stable' \subseteq stable,
         context'[p] # None => context[p] # None /\ context'[p].hits = context[p].hits
  PROVE  FoundInv(p)'
BY DEF FoundInv, OfStream, Hits

\* The cluster finds all that the index holds for the stream.
LEMMA ServeSearchFinds ==
  ASSUME "partial" \notin Faults, IInv, StableInv, NEW p \in Stream, ServeSearch(p)
  PROVE  StableInv'
<1>1. /\ TypeOK /\ PlanInv /\ status[p] = "searching" /\ SearchingInv(p)
      /\ wire[p].type = "search"
  BY WireStatus DEF IInv, ServeSearch, StreamInv
<1>2. wire[p].slice = SliceOf(p, exec.inner)
  BY <1>1 DEF SearchingInv
<1>3. exec' = exec /\ index' = index /\ stable' = stable
  BY DEF ServeSearch, planVars, indexVars
<1>4. \A q \in Stream \ {p} : context'[q] = context[q]
  BY <1>1 DEF ServeSearch, TypeOK
<1>5. ASSUME NEW q \in Stream \ {p} PROVE FoundInv(q)'
  BY <1>3, <1>4, <1>5, FoundFrame DEF StableInv
<1>6. FoundInv(p)'
  <2>1. CASE index = None
    <3>1. stable = {}
      BY <2>1 DEF StableInv
    <3> QED BY <1>3, <3>1 DEF FoundInv
  <2>2. CASE index # None /\ wire[p].size > Window
    <3>1. context' = context
      BY <2>2 DEF ServeSearch
    <3> QED BY <1>3, <3>1, FoundFrame DEF StableInv
  <2>3. CASE index # None /\ ~(wire[p].size > Window)
    <3>1. PICK found \in Found(wire[p].slice) : \E hits \in SetToSeqs(found) :
            \E pos, size, open :
              context' = [context EXCEPT ![p] =
                            [hits |-> hits, pos |-> pos, size |-> size, open |-> open]]
      BY <2>3 DEF ServeSearch
    <3>2. PICK hits \in SetToSeqs(found) : \E pos, size, open :
            context' = [context EXCEPT ![p] =
                          [hits |-> hits, pos |-> pos, size |-> size, open |-> open]]
      BY <3>1
    <3>3. context'[p].hits = hits
      BY <1>1, <3>2 DEF TypeOK
    <3>4. found = InSlice(wire[p].slice) /\ index \subseteq Doc /\ stable \subseteq index
      BY <1>1, <2>3 DEF Found, TypeOK, StableInv
    <3>5. found \in SUBSET Doc
      BY <3>4 DEF InSlice
    <3>6. stable \cap OfStream(p) \subseteq found
      <4>1. CASE exec.inner.partitions > 1
        <5>1. wire[p].slice = [id |-> p, max |-> exec.inner.partitions]
          BY <1>2, <4>1 DEF SliceOf
        <5>2. exec.inner.partitions \in Nat \ {0} /\ p \in Nat
          BY <1>1, PlanFacts, StreamType
        <5>3. wire[p].slice # None
          BY <5>1, <5>2, ScanAssumption DEF Slices
        <5> QED BY <3>4, <4>1, <5>1, <5>3 DEF InSlice, OfStream
      <4>2. CASE ~(exec.inner.partitions > 1)
        BY <1>2, <3>4, <4>2 DEF SliceOf, InSlice
      <4> QED BY <4>1, <4>2
    <3>7. ToSet(hits) = found
      BY <3>5, EnumerationWhole
    <3> QED BY <1>3, <3>3, <3>6, <3>7 DEF FoundInv, OfStream, Hits
  <2> QED BY <2>1, <2>2, <2>3
<1>7. \A q \in Stream : FoundInv(q)'
  BY <1>5, <1>6
<1> QED BY <1>3, <1>7 DEF StableInv

\* Every other step of a running scan leaves the answers alone.
LEMMA OtherFinds ==
  ASSUME StableInv, exec' = exec, index' = index, stable' = stable,
         \A q \in Stream : context'[q] # None =>
           context[q] # None /\ context'[q].hits = context[q].hits
  PROVE  StableInv'
<1>1. ASSUME NEW q \in Stream PROVE FoundInv(q)'
  BY <1>1, FoundFrame DEF StableInv
<1> QED BY <1>1 DEF StableInv

\* A write keeps of what was stable what the index still holds.
LEMMA WriteFinds ==
  ASSUME TypeOK, StableInv, NEW contents, Write(contents),
         \A q \in Stream : context'[q] # None =>
           context[q] # None /\ context'[q].hits = context[q].hits
  PROVE  StableInv'
<1>1. exec' = exec /\ index' = contents /\ stable' \subseteq stable
      /\ stable' \subseteq (IF contents = None THEN {} ELSE contents)
  BY DEF Write, planVars
<1>2. ASSUME NEW q \in Stream PROVE FoundInv(q)'
  BY <1>1, <1>2, FoundFrame DEF StableInv
<1> QED BY <1>1, <1>2 DEF StableInv

\* A freshly planned scan has found nothing yet, and every step keeps what was.
LEMMA InitFinds == Init => StableInv
BY DEF Init, StableInv, FoundInv

\* Every step keeps the found, if no shard fails.
LEMMA NextFinds ==
  ASSUME "partial" \notin Faults
  PROVE  IInv /\ StableInv /\ [Next]_vars => StableInv'
<1> SUFFICES ASSUME IInv, StableInv, [Next]_vars PROVE StableInv'
  OBVIOUS
<1>0. TypeOK
  BY DEF IInv
<1>1. CASE UNCHANGED vars \/ Finished
  BY <1>1, OtherFinds DEF vars, Finished
<1>2. ASSUME NEW l \in Limits, PushLimit(l) PROVE StableInv'
  <2>1. \A p \in Stream : context'[p] = None
    BY <1>2, Untried DEF PushLimit
  <2> QED BY <1>2, <2>1 DEF PushLimit, StableInv, FoundInv, indexVars
<1>3. ASSUME NEW p \in Stream, Execute(p) \/ Poll(p) \/ Receive(p) \/ Cancel(p) \/ Lose(p)
      PROVE  StableInv'
  <2>1. exec' = exec /\ context' = context /\ index' = index /\ stable' = stable
    BY <1>3 DEF Execute, Poll, PollEnd, PollSearch, PollScroll, Receive, ReceiveFailure,
                ReceiveEmptyPage, ReceiveHits, ReceiveCleared, Cancel, Lose, planVars, indexVars
  <2> QED BY <2>1, OtherFinds
<1>4. ASSUME NEW p \in Stream, ServeSearch(p) PROVE StableInv'
  BY <1>4, ServeSearchFinds
<1>5. ASSUME NEW p \in Stream, ServeScroll(p) \/ ServeClear(p) \/ Expire(p) PROVE StableInv'
  <2>1. exec' = exec /\ index' = index /\ stable' = stable
    BY <1>5 DEF ServeScroll, ServeClear, Expire, planVars, indexVars
  <2> QED BY <1>5, <2>1, ServeOtherHits, OtherFinds
<1>6. ASSUME NEW d \in Doc, AddDoc(d) \/ RemoveDoc(d) PROVE StableInv'
  <2>1. context' = context
    BY <1>6 DEF AddDoc, RemoveDoc
  <2> QED BY <1>0, <1>6, <2>1, WriteFinds DEF AddDoc, RemoveDoc, TypeOK
<1>7. CASE DropIndex
  BY <1>0, <1>7, DropIndexHits, WriteFinds DEF DropIndex
<1>8. CASE CreateIndex
  BY <1>0, <1>8, WriteFinds DEF CreateIndex
<1> QED BY <1>1, <1>2, <1>3, <1>4, <1>5, <1>6, <1>7, <1>8 DEF Next, Serve

\* Every search of a scan found what has been in the index all along.
THEOREM FindsStable ==
  ASSUME "partial" \notin Faults
  PROVE  Spec => []StableInv
<1> QED BY InitFinds, NextFinds, Invariant, PTL DEF Spec

\* When no shard fails, a scan whose streams have all ended has emitted every
\* document that was in the index throughout, unless a limit was met exactly.
THEOREM MissesNothing ==
  ASSUME "partial" \notin Faults
  PROVE  Spec => []NothingMissed
<1>1. IInv /\ SlicesInv /\ StableInv => NothingMissed
  <2> SUFFICES ASSUME IInv, SlicesInv, StableInv,
                      \A p \in Running : status[p] = "ended", Total \notin RowLimits
               PROVE  stable \subseteq Rows
    BY DEF NothingMissed
  <2>1. TypeOK /\ PlanInv /\ PlanOK(exec)
    BY DEF IInv, PlanInv
  <2> DEFINE n == exec.inner.partitions
  <2>2. n \in Nat \ {0} /\ n <= MaxPartitions /\ exec.partitioning = n
    BY <2>1, PlanFacts DEF PlanInv, PlanOK
  <2>3. \A q \in 0 .. n - 1 : q \in Running /\ q \in Stream
    BY <2>2, ScanAssumption DEF Running, Stream
  <2> HIDE DEF n
  <2>4. ASSUME NEW q \in 0 .. n - 1 PROVE context[q] # None /\ out[q] = Hits(q)
    <3>1. q \in Stream /\ status[q] = "ended" /\ Complete(q) /\ Prefix(q)
      BY <2>3 DEF IInv, StreamInv
    <3>2. RowLimits # {} => q = 0 /\ Total = Len(out[q])
      BY <2>2, LimitedPlan DEF n
    <3>3. context[q] # None
      <4> SUFFICES ASSUME context[q] = None PROVE FALSE
        OBVIOUS
      <4>1. exec.inner.fetch = 0 /\ out[q] = <<>>
        BY <3>1 DEF Complete, Prefix
      <4>2. 0 \in RowLimits
        BY <2>1, <4>1, WithinLimits, NoneAssumption
      <4> QED BY <3>2, <4>1, <4>2
    <3>4. Len(out[q]) = Len(Hits(q))
      BY <3>1, <3>2, <3>3 DEF Complete, AllThatIsWanted
    <3>5. Hits(q) \in Seq(Doc)
      BY <2>1, <3>1, <3>3 DEF TypeOK, Context, Hits
    <3>6. out[q] = SubSeq(Hits(q), 1, Len(Hits(q)))
      BY <3>1, <3>3, <3>4 DEF Prefix
    <3> QED BY <3>3, <3>5, <3>6
  <2>5. ASSUME NEW d \in stable PROVE d \in Rows
    <3>1. d \in Doc /\ HashCode[d] \in Nat
      BY <2>1, ScanAssumption DEF TypeOK
    <3>2. PICK q \in 0 .. n - 1 : d \in OfStream(q)
      <4>1. CASE n > 1
        <5>1. HashCode[d] % n \in 0 .. n - 1
          BY <2>2, <3>1
        <5> QED BY <3>1, <5>1 DEF OfStream, n
      <4>2. CASE ~(n > 1)
        <5>1. 0 \in 0 .. n - 1
          BY <2>2
        <5> QED BY <3>1, <4>2, <5>1 DEF OfStream, n
      <4> QED BY <4>1, <4>2
    <3>3. q \in Stream /\ d \in ToSet(out[q])
      BY <2>3, <2>4, <3>2 DEF StableInv, FoundInv
    <3> QED BY <3>3 DEF Rows
  <2> QED BY <2>5
<1> QED BY <1>1, Invariant, SlicesDisjoint, FindsStable, PTL
-----------------------------------------------------------------------------
(* The cursors.  A scan leaves no cursor open if no message is lost, and   *)
(* it does not fail if no cursor is lost either and its pages and columns  *)
(* can be served.                                                          *)

\* An open cursor has a stream that will release it, or that was cut off.
CursorInv(p) ==
  context[p] # None /\ context[p].open =>
    /\ status[p] # "ended"
    /\ status[p] = "ready"     => st[p].scroll_id = p
    /\ status[p] = "searching" => wire[p].type = "page" /\ wire[p].scroll_id = p
    /\ status[p] = "clearing"  => wire[p].type = "clear"

CursorsInv == \A p \in Stream : CursorInv(p)
-----------------------------------------------------------------------------
\* A step that leaves a stream alone, or closes its context, keeps its cursor's part.
LEMMA CursorFrame ==
  ASSUME NEW p \in Stream, CursorInv(p),
         status'[p] = status[p], st'[p] = st[p], wire'[p] = wire[p],
         context'[p] = None \/ ~context'[p].open \/ context'[p] = context[p]
  PROVE  CursorInv(p)'
BY DEF CursorInv

\* So a step of one stream keeps the cursors when it does for that stream.
LEMMA OneCursor ==
  ASSUME CursorsInv, NEW p \in Stream, CursorInv(p)',
         \A q \in Stream \ {p} :
           /\ status'[q] = status[q] /\ st'[q] = st[q] /\ wire'[q] = wire[q]
           /\ context'[q] = context[q]
  PROVE  CursorsInv'
BY CursorFrame DEF CursorsInv

\* The end of a stream that holds the cursor it has open.
LEMMA FinishCursors ==
  ASSUME IInv, CursorsInv, NEW p \in Stream, NEW s \in PageState, Finish(p, s),
         context' = context,
         context[p] # None /\ context[p].open => s.scroll_id = p
  PROVE  CursorsInv'
<1>1. TypeOK /\ p # None
  BY StreamType DEF IInv
<1>2. CursorInv(p)'
  <2>1. CASE s.scroll_id # None
    <3>1. status'[p] = "clearing" /\ wire'[p].type = "clear"
      BY <1>1, <2>1 DEF Finish, TypeOK
    <3> QED BY <3>1 DEF CursorInv
  <2>2. CASE s.scroll_id = None
    <3>1. context[p] = None \/ ~context[p].open
      BY <1>1, <2>2
    <3> QED BY <3>1 DEF CursorInv
  <2> QED BY <2>1, <2>2
<1>3. \A q \in Stream \ {p} :
        /\ status'[q] = status[q] /\ st'[q] = st[q] /\ wire'[q] = wire[q]
        /\ context'[q] = context[q]
  BY <1>1 DEF Finish, TypeOK
<1> QED BY <1>2, <1>3, OneCursor

\* The cursor a stream keeps when a page arrives is the one that is open.
LEMMA KeptCursor ==
  ASSUME IInv, CursorsInv, NEW p \in Stream, status[p] \in {"searching", "scrolling"},
         Arrived(p).type = "page", context[p] # None, context[p].open
  PROVE  KeepCursor(st[p].scroll_id, Arrived(p).scroll_id) = p
<1>1. p # None /\ StreamInv(p) /\ CursorInv(p)
  BY StreamType DEF IInv, CursorsInv
<1>2. CASE status[p] = "searching"
  <2>1. wire[p].type = "page" /\ wire[p].scroll_id = p
    BY <1>1, <1>2 DEF CursorInv
  <2> QED BY <1>1, <1>2, <2>1 DEF Arrived, PageOf, KeepCursor
<1>3. CASE status[p] = "scrolling"
  <2>1. Arrived(p) = wire[p]
    BY <1>3 DEF Arrived, PageOf
  <2>2. ScrollingInv(p) /\ wire[p].type = "page"
    BY <1>1, <1>3, <2>1 DEF StreamInv
  <2>3. st[p].scroll_id = p /\ wire[p].scroll_id \in {p, None}
    <3>1. wire[p] # [type |-> "scroll", id |-> p]
      BY <2>2
    <3> QED BY <2>2, <3>1 DEF ScrollingInv, Paging
  <2> QED BY <1>1, <2>1, <2>3 DEF KeepCursor
<1> QED BY <1>2, <1>3

\* A poll: the end of a stream, its search, or the next page.
LEMMA PollCursors ==
  ASSUME IInv, CursorsInv, NEW p \in Stream, Poll(p)
  PROVE  CursorsInv'
<1>1. TypeOK /\ StreamInv(p) /\ CursorInv(p) /\ p # None /\ st[p] \in PageState
  BY StreamType DEF IInv, CursorsInv, TypeOK
<1>2. CASE PollEnd(p)
  <2>1. context[p] # None /\ context[p].open => st[p].scroll_id = p
    BY <1>1, <1>2 DEF PollEnd, CursorInv
  <2> QED BY <1>1, <1>2, <2>1, FinishCursors DEF PollEnd
<1>3. CASE PollSearch(p)
  <2>1. status[p] = "ready" /\ ReadyInv(p) /\ ~st[p].started
    BY <1>1, <1>3 DEF PollSearch, StreamInv
  <2>2. context[p] = None
    BY <2>1 DEF ReadyInv, Untouched, Paging
  <2>3. CursorInv(p)'
    BY <1>3, <2>2 DEF PollSearch, CursorInv
  <2> QED BY <1>1, <1>3, <2>3, OneCursor DEF PollSearch, TypeOK
<1>4. CASE PollScroll(p)
  <2>1. status[p] = "ready" /\ ReadyInv(p) /\ st[p].started /\ ~Exhausted(st[p])
    BY <1>1, <1>4 DEF PollScroll, StreamInv
  <2>2. st[p].scroll_id # None
    BY <1>1, <2>1 DEF ReadyInv, Untouched, Paging
  <2>3. status'[p] = "scrolling"
    BY <1>1, <1>4, <2>2 DEF PollScroll, TypeOK
  <2>4. CursorInv(p)'
    BY <2>3 DEF CursorInv
  <2> QED BY <1>1, <1>4, <2>2, <2>4, OneCursor DEF PollScroll, TypeOK
<1> QED BY <1>2, <1>3, <1>4 DEF Poll

\* A reply, or the end of a stream that is dropped.
LEMMA ReceiveCursors ==
  ASSUME IInv, CursorsInv, NEW p \in Stream, Receive(p) \/ Cancel(p)
  PROVE  CursorsInv'
<1>1. TypeOK /\ StreamInv(p) /\ CursorInv(p) /\ p # None /\ st[p] \in PageState
  BY StreamType DEF IInv, CursorsInv, TypeOK
<1>2. CASE ReceiveFailure(p) \/ Cancel(p)
  <2>1. status'[p] \in {"failed", "dropped"}
    BY <1>1, <1>2 DEF ReceiveFailure, Cancel, TypeOK
  <2>2. CursorInv(p)'
    BY <2>1 DEF CursorInv
  <2> QED BY <1>1, <1>2, <2>2, OneCursor DEF ReceiveFailure, Cancel, TypeOK
<1>3. CASE ReceiveEmptyPage(p)
  <2> DEFINE id == KeepCursor(st[p].scroll_id, Arrived(p).scroll_id)
             s == [st[p] EXCEPT !.done = TRUE, !.scroll_id = id]
  <2>1. Finish(p, s) /\ context' = context /\ status[p] \in {"searching", "scrolling"}
        /\ Arrived(p).type = "page"
    BY <1>3 DEF ReceiveEmptyPage
  <2>2. id \in {None, p}
    BY <2>1, PageArrives DEF NextPage, MissingPage
  <2>3. s \in PageState /\ s.scroll_id = id
    BY <1>1, <2>2 DEF PageState
  <2>4. context[p] # None /\ context[p].open => s.scroll_id = p
    BY <2>1, <2>3, KeptCursor
  <2> HIDE DEF s, id
  <2> QED BY <2>1, <2>3, <2>4, FinishCursors
<1>4. CASE ReceiveHits(p)
  <2>1. /\ status'[p] \in {"ready", "failed"} /\ context' = context
        /\ status[p] \in {"searching", "scrolling"} /\ Arrived(p).type = "page"
        /\ st'[p].scroll_id = KeepCursor(st[p].scroll_id, Arrived(p).scroll_id)
    BY <1>1, <1>4 DEF ReceiveHits, TypeOK
  <2>2. CursorInv(p)'
    BY <2>1, KeptCursor DEF CursorInv
  <2> QED BY <1>1, <1>4, <2>2, OneCursor DEF ReceiveHits, TypeOK
<1>5. CASE ReceiveCleared(p)
  <2>1. status[p] = "clearing" /\ wire[p].type # "clear" /\ context' = context
    BY <1>5 DEF ReceiveCleared
  <2>2. CursorInv(p)'
    BY <1>1, <2>1 DEF CursorInv
  <2> QED BY <1>1, <1>5, <2>2, OneCursor DEF ReceiveCleared, TypeOK
<1> QED BY <1>2, <1>3, <1>4, <1>5 DEF Receive

\* The cluster's answers.
LEMMA ServeCursors ==
  ASSUME IInv, CursorsInv, NEW p \in Stream, Serve(p)
  PROVE  CursorsInv'
<1>1. TypeOK /\ StreamInv(p) /\ CursorInv(p) /\ p # None
  BY StreamType DEF IInv, CursorsInv
<1>2. CASE ServeSearch(p)
  <2>1. status[p] = "searching" /\ status' = status /\ st' = st
    BY <1>2, WireStatus DEF ServeSearch
  <2>2. CursorInv(p)'
    <3>1. CASE index = None
      <4>1. ~context'[p].open
        BY <1>1, <1>2, <3>1 DEF ServeSearch, TypeOK
      <4> QED BY <4>1 DEF CursorInv
    <3>2. CASE index # None /\ wire[p].size > Window
      <4>1. context' = context /\ wire[p].type = "search"
        BY <1>2, <3>2 DEF ServeSearch
      <4> QED BY <1>1, <2>1, <4>1 DEF CursorInv
    <3>3. CASE index # None /\ ~(wire[p].size > Window)
      <4>1. \E hits, hs, pos, size :
                /\ context' = [context EXCEPT ![p] =
                                [hits |-> hits, pos |-> pos, size |-> size,
                                 open |-> wire[p].scroll]]
                /\ wire' = [wire EXCEPT ![p] =
                              [type |-> "page", hits |-> hs,
                               scroll_id |-> IF wire[p].scroll THEN p ELSE None]]
        BY <1>2, <3>3 DEF ServeSearch
      <4>2. /\ context'[p].open = wire[p].scroll /\ wire'[p].type = "page"
            /\ wire'[p].scroll_id = IF wire[p].scroll THEN p ELSE None
        BY <1>1, <4>1 DEF TypeOK
      <4> QED BY <2>1, <4>2 DEF CursorInv
    <3> QED BY <3>1, <3>2, <3>3
  <2> QED BY <1>1, <1>2, <2>2, OneCursor DEF ServeSearch, TypeOK
<1>3. CASE ServeScroll(p)
  <2>1. status[p] = "scrolling" /\ status' = status /\ wire[p].type = "scroll" /\ ScrollingInv(p)
    BY <1>1, <1>3, WireStatus DEF ServeScroll, StreamInv
  <2>2. wire[p].id = p
    BY <2>1 DEF ScrollingInv
  <2>3. CursorInv(p)'
    BY <2>1 DEF CursorInv
  <2>4. \A q \in Stream \ {p} : context'[q] = context[q]
    BY <1>1, <1>3, <2>2 DEF ServeScroll, TypeOK
  <2>5. \A q \in Stream \ {p} : wire'[q] = wire[q] /\ st'[q] = st[q]
    BY <1>1, <1>3 DEF ServeScroll, TypeOK
  <2> QED BY <2>1, <2>3, <2>4, <2>5, OneCursor
<1>4. CASE ServeClear(p)
  <2>1. status[p] = "clearing" /\ status' = status /\ wire[p].type = "clear" /\ ClearingInv(p)
    BY <1>1, <1>4, WireStatus DEF ServeClear, StreamInv
  <2>2. wire[p].id = p /\ context[p] # None /\ context[p] \in Context
    BY <1>1, <2>1 DEF ClearingInv, TypeOK
  <2>3. ~context'[p].open
    BY <1>1, <1>4, <2>2 DEF ServeClear, TypeOK, Context
  <2>4. CursorInv(p)'
    BY <2>3 DEF CursorInv
  <2>5. \A q \in Stream \ {p} :
          context'[q] = context[q] /\ wire'[q] = wire[q] /\ st'[q] = st[q]
    BY <1>1, <1>4, <2>2 DEF ServeClear, TypeOK
  <2> QED BY <2>1, <2>4, <2>5, OneCursor
<1> QED BY <1>2, <1>3, <1>4 DEF Serve

\* A stream that is started has no cursor.
LEMMA ExecuteCursors ==
  ASSUME IInv, CursorsInv, NEW p \in Stream, Execute(p)
  PROVE  CursorsInv'
<1>1. TypeOK /\ context[p] = None
  BY DEF IInv, StreamInv, NewInv, Untouched, Execute
<1>2. CursorInv(p)'
  BY <1>1 DEF Execute, CursorInv
<1> QED BY <1>1, <1>2, OneCursor DEF Execute, TypeOK

\* An expiry or a deletion only closes contexts; a write of the index or of the plan
\* leaves them alone.
LEMMA OtherCursors ==
  ASSUME IInv, CursorsInv, UNCHANGED <<status, st, wire>>,
         \A p \in Stream : context'[p] = None \/ ~context'[p].open \/ context'[p] = context[p]
  PROVE  CursorsInv'
BY CursorFrame DEF CursorsInv

\* A step that can only close cursors.
LEMMA ClosingCursors ==
  ASSUME IInv, CursorsInv, NEW p \in Stream, Expire(p) \/ DropIndex
  PROVE  CursorsInv'
<1>1. TypeOK /\ UNCHANGED <<status, st, wire>>
  BY DEF IInv, Expire, DropIndex, Write, streamVars
<1>2. ASSUME NEW q \in Stream
      PROVE  context'[q] = None \/ ~context'[q].open \/ context'[q] = context[q]
  <2>1. context[q] \in Context \cup {None}
    BY <1>1 DEF TypeOK
  <2>2. context'[q] \in {None, context[q], [context[q] EXCEPT !.open = FALSE]}
    BY <1>1 DEF Expire, DropIndex, TypeOK
  <2>3. context[q] # None => ~[context[q] EXCEPT !.open = FALSE].open
    BY <2>1 DEF Context
  <2>4. context[q] = None => context'[q] = None \/ context'[q] = context[q]
    BY <1>1 DEF Expire, DropIndex, TypeOK
  <2> QED BY <2>2, <2>3, <2>4
<1> QED BY <1>1, <1>2, OtherCursors

\* No cursor is open at first.
LEMMA InitCursors == Init => CursorsInv
BY DEF Init, CursorsInv, CursorInv

\* Every step keeps the cursors, if it loses no message.
LEMMA NextCursors ==
  ASSUME "lose" \notin Faults, IInv, CursorsInv, [Next]_vars
  PROVE  CursorsInv'
<1>1. CASE UNCHANGED vars
  BY <1>1, OtherCursors DEF vars
<1>2. ASSUME NEW l \in Limits, PushLimit(l) PROVE CursorsInv'
  BY <1>2, OtherCursors DEF PushLimit, streamVars
<1>3. ASSUME NEW p \in Stream, Execute(p) \/ Poll(p) \/ Receive(p) \/ Serve(p) \/ Cancel(p)
      PROVE  CursorsInv'
  BY <1>3, ExecuteCursors, PollCursors, ReceiveCursors, ServeCursors
<1>4. ASSUME NEW p \in Stream, Lose(p) PROVE CursorsInv'
  BY <1>4 DEF Lose
<1>5. ASSUME NEW p \in Stream, Expire(p) PROVE CursorsInv'
  BY <1>5, ClosingCursors
<1>6. ASSUME NEW d \in Doc, AddDoc(d) \/ RemoveDoc(d) PROVE CursorsInv'
  BY <1>6, OtherCursors DEF AddDoc, RemoveDoc, Write, streamVars
<1>7. CASE DropIndex
  <2>1. 0 \in Stream
    BY ScanAssumption DEF Stream
  <2> QED BY <1>7, <2>1, ClosingCursors
<1>8. CASE CreateIndex
  BY <1>8, OtherCursors DEF CreateIndex, Write, streamVars
<1>9. CASE Finished
  BY <1>1, <1>9 DEF Finished
<1> QED BY <1>1, <1>2, <1>3, <1>4, <1>5, <1>6, <1>7, <1>8, <1>9 DEF Next

\* If no message is lost, a stream that ends on its own has released its cursor,
\* whatever else goes wrong (exec.rs:163-169, clear_scroll).
THEOREM ReleasesCursor ==
  ASSUME "lose" \notin Faults
  PROVE  Spec => []CursorReleased
<1>1. IInv /\ CursorsInv /\ [Next]_vars => CursorsInv'
  BY NextCursors
<1>2. CursorsInv => CursorReleased
  BY DEF CursorsInv, CursorInv, CursorReleased
<1> QED BY <1>1, <1>2, InitCursors, Invariant, PTL DEF Spec
-----------------------------------------------------------------------------
(* That a scan does not fail.                                              *)

\* Nothing breaks a connection or closes a cursor, the cluster serves pages of the
\* size asked for, and every batch can be built.
Undisturbed ==
  /\ Faults \subseteq {"cancel", "partial"}
  /\ \A q \in Queries :
       /\ AtLeastOne(q.page_size) <= Window
       /\ q.columns # {} /\ "unsupported" \notin q.columns
       /\ "required" \in q.columns => Sparse = {}

\* A stream that wants another page has its cursor open, and no reply is a failure.
SoundStream(p) ==
  /\ status[p] # "failed"
  /\ wire[p].type \notin {"error", "broken"}
  /\ status[p] = "searching" /\ wire[p].type = "page" /\ ~exec.inner.single_page => context[p].open
  /\ status[p] \in {"ready", "scrolling"} /\ Paging(p) => context[p].open
  /\ status[p] = "scrolling" => wire[p].type # "not_found"

SoundInv ==
  /\ query \in Queries /\ exec.inner.columns = query.columns
  /\ \A p \in Stream : SoundStream(p)

\* No builder changes the columns.
LEMMA ColumnsKept ==
  /\ \A q \in Query : Scan(q).inner.columns = q.columns
  /\ \A e \in Exec, l \in Opt : WithFetch(e, l).inner.columns = e.inner.columns
<1>1. ASSUME NEW q \in Query PROVE Scan(q).inner.columns = q.columns
  <2> DEFINE e == NewExec(Provider(q).columns, DefaultPageSize)
             e1 == WithPageSize(e, Provider(q).page_size)
             e2 == WithFetchLimit(e1, ScanFetch(Provider(q).limit, Provider(q).max_rows))
             e3 == WithSinglePage(e2, Provider(q).search_after)
             e4 == WithPartitions(e3, Provider(q).partitions)
             With(x) == DOMAIN x.inner = {"page_size", "fetch", "single_page", "partitions", "columns"}
                        /\ x.inner.columns = q.columns
  <2>1. Provider(q).columns = q.columns
    BY DEF Provider, Query
  <2>2. With(e)
    BY <2>1 DEF NewExec, FromInner
  <2> HIDE DEF e
  <2>3. With(e1)
    BY <2>2 DEF WithPageSize, FromInner
  <2> HIDE DEF e1
  <2>4. With(e2)
    BY <2>3 DEF WithFetchLimit, FromInner
  <2> HIDE DEF e2
  <2>5. With(e3)
    BY <2>4 DEF WithSinglePage, FromInner
  <2> HIDE DEF e3
  <2>6. With(e4)
    BY <2>5 DEF WithPartitions, FromInner
  <2> QED BY <2>6 DEF e, e1, e2, e3, Scan
<1>2. ASSUME NEW e \in Exec, NEW l \in Opt
      PROVE  WithFetch(e, l).inner.columns = e.inner.columns
  BY DEF WithFetch, WithFetchLimit, FromInner, Exec, Inner
<1> QED BY <1>1, <1>2

\* A stream whose own state does not change stays sound.
LEMMA SoundFrame ==
  ASSUME NEW p \in Stream, SoundStream(p), exec' = exec,
         status'[p] = status[p], st'[p] = st[p], wire'[p] = wire[p], context'[p] = context[p]
  PROVE  SoundStream(p)'
BY DEF SoundStream, Paging, Positioned, Hits, Exhausted

\* A step of one stream that stays sound keeps the scan sound.
LEMMA OneSound ==
  ASSUME SoundInv, NEW p \in Stream, UNCHANGED planVars, SoundStream(p)',
         \A q \in Stream \ {p} :
           /\ status'[q] = status[q] /\ st'[q] = st[q] /\ wire'[q] = wire[q]
           /\ context'[q] = context[q]
  PROVE  SoundInv'
<1>1. ASSUME NEW q \in Stream PROVE SoundStream(q)'
  BY <1>1, SoundFrame DEF SoundInv, planVars
<1> QED BY <1>1 DEF SoundInv, planVars

\* A scan starts sound.
LEMMA InitSound == Init => SoundInv
<1> SUFFICES ASSUME Init PROVE SoundInv
  OBVIOUS
<1>1. query \in Query
  BY ScanAssumption DEF Init
<1>2. \A p \in Stream : status[p] = "new" /\ wire[p].type = "idle"
  BY DEF Init, Idle
<1> QED BY <1>1, <1>2, ColumnsKept DEF Init, SoundInv, SoundStream

\* A limit that is pushed.
LEMMA PushLimitSound ==
  ASSUME IInv, SoundInv, NEW l \in Limits, PushLimit(l)
  PROVE  SoundInv'
<1>1. exec \in Exec /\ l \in Opt
  BY ScanAssumption DEF IInv, TypeOK
<1>2. exec'.inner.columns = exec.inner.columns /\ query' = query
  BY <1>1, ColumnsKept DEF PushLimit
<1>3. ASSUME NEW p \in Stream PROVE SoundStream(p)'
  BY DEF PushLimit, SoundInv, SoundStream, streamVars
<1> QED BY <1>2, <1>3 DEF SoundInv

\* execute: columns it can build are not refused.
LEMMA ExecuteSound ==
  ASSUME IInv, SoundInv, NEW p \in Stream, Execute(p)
  PROVE  SoundInv'
<1>1. TypeOK /\ wire[p] = Idle /\ UNCHANGED planVars /\ wire' = wire
  BY DEF IInv, StreamInv, NewInv, Execute
<1>2. \/ status'[p] = "refused"
      \/ status'[p] = "ready" /\ ~st'[p].started
  BY <1>1 DEF Execute, TypeOK
<1>3. SoundStream(p)'
  BY <1>1, <1>2 DEF SoundStream, Paging, Idle
<1> QED BY <1>1, <1>3, OneSound DEF Execute, TypeOK

\* A stream at its end sends no more than the release of its cursor.
LEMMA FinishSound ==
  ASSUME IInv, SoundInv, NEW p \in Stream, NEW s, Finish(p, s),
         UNCHANGED <<planVars, context>>
  PROVE  SoundInv'
<1>1. TypeOK
  BY DEF IInv
<1>2. /\ status'[p] \in {"clearing", "ended"}
      /\ wire'[p].type \in {"clear", "idle"}
  BY <1>1 DEF Finish, TypeOK, Idle
<1>3. SoundStream(p)'
  BY <1>2 DEF SoundStream
<1> QED BY <1>1, <1>3, OneSound DEF Finish, TypeOK

\* A poll, which finds its cursor.
LEMMA PollSound ==
  ASSUME IInv, SoundInv, NEW p \in Stream, Poll(p)
  PROVE  SoundInv'
<1>1. TypeOK /\ StreamInv(p) /\ SoundStream(p) /\ p # None
  BY StreamType DEF IInv, SoundInv
<1>2. CASE PollEnd(p)
  BY <1>2, FinishSound DEF PollEnd
<1>3. CASE PollSearch(p)
  <2>1. status'[p] = "searching" /\ wire'[p].type = "search"
    BY <1>1, <1>3 DEF PollSearch, TypeOK
  <2>2. SoundStream(p)'
    BY <2>1 DEF SoundStream
  <2> QED BY <1>1, <1>3, <2>2, OneSound DEF PollSearch, TypeOK
<1>4. CASE PollScroll(p)
  <2>1. status[p] = "ready" /\ ReadyInv(p) /\ st[p].started /\ ~Exhausted(st[p])
    BY <1>1, <1>4 DEF PollScroll, StreamInv
  <2>2. Paging(p)
    BY <2>1 DEF ReadyInv, Untouched
  <2>3. context[p].open /\ st[p].scroll_id # None
    BY <1>1, <2>1, <2>2 DEF SoundStream, Paging
  <2>4. status'[p] = "scrolling" /\ wire'[p].type = "scroll" /\ context' = context
    BY <1>1, <1>4, <2>3 DEF PollScroll, TypeOK
  <2>5. SoundStream(p)'
    BY <2>3, <2>4 DEF SoundStream
  <2> QED BY <1>1, <1>4, <2>3, <2>5, OneSound DEF PollScroll, TypeOK
<1> QED BY <1>2, <1>3, <1>4 DEF Poll

\* Every batch is built.
LEMMA Builds ==
  ASSUME Undisturbed, SoundInv, NEW hits
  PROVE  BuildsBatch(exec.inner.columns, hits)
BY DEF Undisturbed, SoundInv, BuildsBatch

\* A reply, which is a page, and whose batch can be built.
LEMMA ReceiveSound ==
  ASSUME Undisturbed, IInv, SoundInv, NEW p \in Stream, Receive(p) \/ Cancel(p)
  PROVE  SoundInv'
<1>1. TypeOK /\ StreamInv(p) /\ SoundStream(p)
  BY DEF IInv, SoundInv
<1>2. CASE ReceiveFailure(p)
  BY <1>1, <1>2 DEF ReceiveFailure, FailsCall, SoundStream
<1>3. CASE Cancel(p) \/ ReceiveCleared(p)
  <2>1. status'[p] \in {"dropped", "ended"} /\ wire'[p].type = "idle"
    BY <1>1, <1>3 DEF Cancel, ReceiveCleared, TypeOK, Idle
  <2>2. SoundStream(p)'
    BY <2>1 DEF SoundStream
  <2> QED BY <1>1, <1>3, <2>2, OneSound DEF Cancel, ReceiveCleared, TypeOK
<1>4. CASE ReceiveEmptyPage(p)
  BY <1>4, FinishSound DEF ReceiveEmptyPage
<1>5. CASE ReceiveHits(p)
  <2>1. /\ status'[p] = "ready" /\ wire'[p].type = "idle"
        /\ context' = context /\ UNCHANGED planVars
    BY <1>1, <1>5, Builds DEF ReceiveHits, TypeOK, Idle
  <2>2. ASSUME Paging(p)' PROVE context[p].open
    <3>1. ~exec.inner.single_page
      BY <2>1, <2>2 DEF Paging, planVars
    <3>2. status[p] \in {"searching", "scrolling"} /\ Arrived(p).type = "page" /\ Arrived(p).hits # <<>>
      BY <1>5 DEF ReceiveHits
    <3>3. CASE status[p] = "searching"
      <4>1. wire[p].type = "page"
        BY <3>2, <3>3 DEF Arrived, PageOf
      <4> QED BY <1>1, <3>1, <3>3, <4>1 DEF SoundStream
    <3>4. CASE status[p] = "scrolling"
      BY <1>1, <3>4 DEF StreamInv, ScrollingInv, SoundStream
    <3> QED BY <3>2, <3>3, <3>4
  <2>3. SoundStream(p)'
    BY <2>1, <2>2 DEF SoundStream
  <2> QED BY <1>1, <1>5, <2>1, <2>3, OneSound DEF ReceiveHits, TypeOK
<1> QED BY <1>2, <1>3, <1>4, <1>5 DEF Receive

\* The cluster's answers, with a cursor that is open and a page it can serve.
LEMMA ServeSound ==
  ASSUME Undisturbed, IInv, SoundInv, NEW p \in Stream, Serve(p)
  PROVE  SoundInv'
<1>1. TypeOK /\ PlanInv /\ StreamInv(p) /\ SoundStream(p) /\ p # None
  BY StreamType DEF IInv, SoundInv
<1>2. CASE ServeSearch(p)
  <2>1. status[p] = "searching" /\ status' = status /\ UNCHANGED planVars /\ SearchingInv(p)
        /\ wire[p].type = "search"
    BY <1>1, <1>2, WireStatus DEF ServeSearch, StreamInv
  <2>2. ~(wire[p].size > Window) /\ wire[p].scroll = ~exec.inner.single_page
    <3>1. wire[p].size = RequestSize(exec.inner, exec.inner.fetch)
          /\ wire[p].scroll = ~exec.inner.single_page
      BY <2>1 DEF SearchingInv
    <3>2. /\ wire[p].size \in Nat /\ wire[p].size <= exec.inner.page_size
          /\ exec.inner.page_size \in Nat
      BY <1>1, <3>1, PlanFacts, RequestSizeType
    <3>3. exec.inner.page_size <= Window
      BY <1>1 DEF PlanInv, SoundInv, Undisturbed
    <3> QED BY <3>1, <3>2, <3>3, ScanAssumption
  <2>3. SoundStream(p)'
    <3>1. CASE index = None
      <4>1. wire'[p].type = "not_found"
        BY <1>1, <1>2, <3>1 DEF ServeSearch, TypeOK
      <4> QED BY <2>1, <4>1 DEF SoundStream
    <3>2. CASE index # None
      <4>1. \E hits, hs, pos, size, id :
              /\ context' = [context EXCEPT ![p] = [hits |-> hits, pos |-> pos, size |-> size,
                                                    open |-> wire[p].scroll]]
              /\ wire' = [wire EXCEPT ![p] = [type |-> "page", hits |-> hs, scroll_id |-> id]]
        BY <1>2, <2>2, <3>2 DEF ServeSearch
      <4>2. context'[p].open = ~exec.inner.single_page /\ wire'[p].type = "page"
        BY <1>1, <2>2, <4>1 DEF TypeOK
      <4> QED BY <2>1, <4>2 DEF SoundStream, planVars
    <3> QED BY <3>1, <3>2
  <2> QED BY <1>1, <1>2, <2>1, <2>3, OneSound DEF ServeSearch, TypeOK
<1>3. CASE ServeScroll(p)
  <2>1. status[p] = "scrolling" /\ status' = status /\ wire[p].type = "scroll" /\ ScrollingInv(p)
        /\ UNCHANGED planVars
    BY <1>1, <1>3, WireStatus DEF ServeScroll, StreamInv
  <2>2. wire[p].id = p /\ Paging(p) /\ context[p] # None /\ context[p] \in Context
    BY <1>1, <2>1 DEF ScrollingInv, Paging, TypeOK
  <2>3. context[p].open
    BY <1>1, <2>1, <2>2 DEF SoundStream
  <2>4. \E pos, hs, id :
          /\ context' = [context EXCEPT ![p].pos = pos]
          /\ wire' = [wire EXCEPT ![p] = [type |-> "page", hits |-> hs, scroll_id |-> id]]
    BY <1>3, <2>2, <2>3 DEF ServeScroll
  <2>5. context'[p].open /\ wire'[p].type = "page"
    BY <1>1, <2>2, <2>3, <2>4 DEF TypeOK, Context
  <2>6. SoundStream(p)'
    BY <2>1, <2>5 DEF SoundStream
  <2> QED BY <1>1, <1>3, <2>1, <2>4, <2>6, OneSound DEF ServeScroll, TypeOK
<1>4. CASE ServeClear(p)
  <2>1. status[p] = "clearing" /\ status' = status /\ wire[p].type = "clear" /\ ClearingInv(p)
        /\ UNCHANGED planVars
    BY <1>1, <1>4, WireStatus DEF ServeClear, StreamInv
  <2>2. wire[p].id = p
    BY <2>1 DEF ClearingInv
  <2>3. wire'[p].type = "cleared"
    BY <1>1, <1>4 DEF ServeClear, TypeOK
  <2>4. SoundStream(p)'
    BY <2>1, <2>3 DEF SoundStream
  <2> QED BY <1>1, <1>4, <2>1, <2>2, <2>4, OneSound DEF ServeClear, TypeOK
<1> QED BY <1>2, <1>3, <1>4 DEF Serve

\* The index changes around the streams.
LEMMA OtherSound ==
  ASSUME SoundInv, UNCHANGED <<planVars, streamVars, context>>
  PROVE  SoundInv'
<1>1. ASSUME NEW p \in Stream PROVE SoundStream(p)'
  BY SoundFrame DEF SoundInv, planVars, streamVars
<1> QED BY <1>1 DEF SoundInv, planVars

\* Every step keeps the scan sound.
LEMMA NextSound ==
  ASSUME Undisturbed, IInv, SoundInv, [Next]_vars
  PROVE  SoundInv'
<1>1. CASE UNCHANGED vars
  BY <1>1, OtherSound DEF vars, planVars, streamVars
<1>2. ASSUME NEW l \in Limits, PushLimit(l) PROVE SoundInv'
  BY <1>2, PushLimitSound
<1>3. ASSUME NEW p \in Stream, Execute(p) \/ Poll(p) \/ Receive(p) \/ Serve(p) \/ Cancel(p)
      PROVE  SoundInv'
  BY <1>3, ExecuteSound, PollSound, ReceiveSound, ServeSound
<1>4. ASSUME NEW p \in Stream, Lose(p) \/ Expire(p) PROVE SoundInv'
  BY <1>4 DEF Lose, Expire, Undisturbed
<1>5. ASSUME NEW d \in Doc, AddDoc(d) \/ RemoveDoc(d) PROVE SoundInv'
  BY <1>5, OtherSound DEF AddDoc, RemoveDoc, Write
<1>6. CASE DropIndex
  BY <1>6 DEF DropIndex, Undisturbed
<1>7. CASE CreateIndex
  BY <1>7, OtherSound DEF CreateIndex, Write
<1>8. CASE Finished
  BY <1>1, <1>8 DEF Finished
<1> QED BY <1>1, <1>2, <1>3, <1>4, <1>5, <1>6, <1>7, <1>8 DEF Next

\* A scan nothing goes wrong around does not fail, over an index that changes or
\* is missing, and with any part of its shards answering.
THEOREM Succeeds ==
  ASSUME Undisturbed
  PROVE  Spec => []ScanSucceeds
<1>1. IInv /\ SoundInv /\ [Next]_vars => SoundInv'
  BY NextSound
<1>2. SoundInv => ScanSucceeds
  BY DEF SoundInv, SoundStream, ScanSucceeds
<1> QED BY <1>1, <1>2, InitSound, Invariant, PTL DEF Spec
=============================================================================
