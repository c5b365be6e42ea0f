--------------------- MODULE ScrollScanRefinementProofs ---------------------
(***************************************************************************)
(* ScrollScan implements ScanContract: every step of the streams and the   *)
(* cluster is a step of the contract, or none.  The search that opens a    *)
(* cursor fixes the stream's answer, a page that arrives delivers, the end *)
(* of a stream completes, and what goes wrong aborts; the rest of          *)
(* next_page, every request and the other replies do not show.  Rests on   *)
(* the invariants of ScrollScanProofs and ScrollScanOutcomeProofs.            *)
(***************************************************************************)
EXTENDS ScrollScanOutcomeProofs, ScrollScanImplements

\* The contract's variables.
Present  == IF index = None THEN {} ELSE index
Answers  == [p \in Stream |-> AnswerOf(p)]
Outcomes == [p \in Stream |-> OutcomeOf(p)]
-----------------------------------------------------------------------------
(* Sequences and sums.                                                     *)

\* A sequence that repeats nothing enumerates its elements.
LEMMA DistinctEnumerates ==
  ASSUME NEW a \in Seq(Doc), Distinct(a)
  PROVE  a \in SetToSeqs(ToSet(a))
<1> DEFINE D == 1 .. Len(a)
<1>1. DOMAIN a = D /\ a \in [D -> Doc] /\ Len(a) \in Nat
  OBVIOUS
<1>2. a \in [D -> ToSet(a)]
  BY <1>1 DEF ToSet
<1>3. IsFiniteSet(D) /\ Cardinality(D) = Len(a)
  <2>1. ASSUME NEW n \in Nat PROVE IsFiniteSet(1 .. n) /\ Cardinality(1 .. n) = n
    BY FS_Interval
  <2> QED BY <1>1, <2>1
<1>4. a \in Surjection(D, ToSet(a))
  BY <1>1, <1>2 DEF Surjection, ToSet
<1>5. a \in Injection(D, ToSet(a))
  BY <1>1, <1>2 DEF Injection, IsInjective, Distinct
<1>6. Cardinality(ToSet(a)) = Len(a)
  BY <1>3, <1>4, <1>5, FS_Surjection
<1>7. \A i, j \in D : i # j => a[i] # a[j]
  BY <1>1 DEF Distinct
<1> QED BY <1>2, <1>6, <1>7 DEF SetToSeqs

\* The sum over one stream.
LEMMA SumOverOne ==
  ASSUME NEW a, NEW p, Len(a[p]) \in Nat
  PROVE  FoldSet(LAMBDA q, n : n + Len(a[q]), 0, {p}) = Len(a[p])
<1> DEFINE Sums(g) == g = [s \in SUBSET {p} |->
                             IF s = {} THEN 0
                             ELSE LET x == CHOOSE x \in s : TRUE IN g[s \ {x}] + Len(a[x])]
           g0 == [s \in SUBSET {p} |-> IF s = {} THEN 0 ELSE Len(a[p])]
           h  == CHOOSE g : Sums(g)
<1>1. \A s \in SUBSET {p} : s # {} => s = {p} /\ s \ {p} = {} /\ (CHOOSE x \in s : TRUE) = p
  OBVIOUS
<1>2. Sums(g0)
  <2>1. ASSUME NEW s \in SUBSET {p}
        PROVE  g0[s] = IF s = {} THEN 0
                       ELSE LET x == CHOOSE x \in s : TRUE IN g0[s \ {x}] + Len(a[x])
    <3>1. g0[{}] = 0 /\ g0[s] = (IF s = {} THEN 0 ELSE Len(a[p]))
      OBVIOUS
    <3> HIDE DEF g0
    <3> QED BY <1>1, <3>1
  <2>2. g0 = [s \in SUBSET {p} |-> g0[s]]
    OBVIOUS
  <2> HIDE DEF g0
  <2> QED BY <2>1, <2>2
<1>3. Sums(h)
  <2> HIDE DEF Sums, g0
  <2> QED BY <1>2
<1>4. FoldSet(LAMBDA q, n : n + Len(a[q]), 0, {p}) = h[{p}]
  BY DEF FoldSet, MapThenFoldSet
<1> HIDE DEF h
<1>5. h[{}] = 0
  BY <1>3
<1>6. h[{p}] = h[{}] + Len(a[p])
  BY <1>1, <1>3
<1>7. h[{p}] = Len(a[p])
  BY <1>5, <1>6
<1> QED BY <1>4, <1>7, Zenon
-----------------------------------------------------------------------------
(* What the invariants say of the answers.                                 *)

\* The rows a stream is to return: as many of its hits as no limit forbids.
LEMMA WantedHitsType ==
  ASSUME IInv, NEW p \in Stream, context[p] # None
  PROVE  /\ WantedHits(p) \in Nat /\ WantedHits(p) <= Len(Hits(p))
         /\ Hits(p) \in Seq(Doc)
         /\ \A l \in RowLimits : WantedHits(p) <= l
         /\ WantedHits(p) = Len(Hits(p)) \/ WantedHits(p) \in RowLimits
<1>1. TypeOK /\ PlanInv /\ Hits(p) \in Seq(Doc)
  BY DEF IInv, TypeOK, Hits, Context
<1> DEFINE found == Len(Hits(p))
           size  == exec.inner.page_size
           fetch == exec.inner.fetch
           page  == IF exec.inner.single_page THEN AtMost(found, size) ELSE found
<1>2. found \in Nat /\ size \in Nat /\ size # None /\ fetch \in Opt
  BY <1>1, PlanFacts, NoneAssumption
<1>3. WantedHits(p) = AtMost(page, fetch)
  BY DEF WantedHits, Hits
<1>4. /\ fetch # None => fetch \in RowLimits /\ \A l \in limits \ {None} : fetch <= l
      /\ fetch = None => limits \ {None} = {}
      /\ exec.inner.single_page => RowLimits = (limits \ {None}) \cup {size}
      /\ ~exec.inner.single_page => RowLimits = limits \ {None}
      /\ RowLimits \subseteq Nat
  BY <1>1, WithinLimits
<1>5. /\ page \in Nat /\ page <= found
      /\ exec.inner.single_page => page <= size
      /\ page = found \/ (exec.inner.single_page /\ page = size)
  BY <1>2 DEF AtMost
<1> HIDE DEF found, size, fetch, page
<1>6. /\ WantedHits(p) \in Nat /\ WantedHits(p) <= page
      /\ fetch # None => WantedHits(p) <= fetch
      /\ WantedHits(p) = page \/ (fetch # None /\ WantedHits(p) = fetch)
  BY <1>2, <1>3, <1>5 DEF AtMost, Opt
<1>7. ASSUME NEW l \in RowLimits PROVE WantedHits(p) <= l
  <2>1. l \in Nat
    BY <1>4
  <2>2. CASE l \in limits \ {None}
    <3>1. fetch # None /\ fetch <= l
      BY <1>4, <2>2
    <3> QED BY <1>2, <1>6, <2>1, <3>1 DEF Opt
  <2>3. CASE exec.inner.single_page /\ l = size
    BY <1>2, <1>5, <1>6, <2>1, <2>3
  <2> QED BY <1>4, <2>2, <2>3
<1>8. WantedHits(p) = found \/ WantedHits(p) \in RowLimits
  BY <1>4, <1>5, <1>6
<1>9. WantedHits(p) <= found
  BY <1>2, <1>5, <1>6
<1> QED BY <1>1, <1>6, <1>7, <1>8, <1>9 DEF found

\* An answer is a sequence of documents that repeats none, and None is none.
LEMMA AnswerType ==
  ASSUME IInv, SlicesInv, NEW p \in Stream, AnswerOf(p) # None
  PROVE  /\ AnswerOf(p) \in Seq(Doc) /\ Distinct(AnswerOf(p))
         /\ Len(AnswerOf(p)) \in Nat
         /\ \A l \in RowLimits : Len(AnswerOf(p)) <= l
         /\ status[p] \notin {"new", "refused"} /\ p < exec.inner.partitions
<1>1. CASE context[p] # None
  <2>1. /\ WantedHits(p) \in Nat /\ WantedHits(p) <= Len(Hits(p)) /\ Hits(p) \in Seq(Doc)
        /\ \A l \in RowLimits : WantedHits(p) <= l
    BY <1>1, WantedHitsType
  <2>2. AnswerOf(p) = SubSeq(Hits(p), 1, WantedHits(p))
    BY <1>1 DEF AnswerOf, Hits
  <2>3. Distinct(Hits(p))
    BY <1>1 DEF SlicesInv, SliceInv
  <2>4. /\ AnswerOf(p) \in Seq(Doc) /\ Len(AnswerOf(p)) = WantedHits(p)
        /\ \A i \in 1 .. WantedHits(p) : AnswerOf(p)[i] = Hits(p)[i] /\ i \in 1 .. Len(Hits(p))
    BY <2>1, <2>2
  <2>5. Distinct(AnswerOf(p))
    BY <2>1, <2>3, <2>4 DEF Distinct
  <2>6. status[p] \notin {"new", "refused"}
    BY <1>1, Untried
  <2> QED BY <2>1, <2>4, <2>5, <2>6 DEF SlicesInv, SliceInv
<1>2. CASE context[p] = None
  <2>1. AnswerOf(p) = <<>> /\ status[p] \notin {"new", "refused"}
    BY <1>2 DEF AnswerOf
  <2>2. \A l \in RowLimits : 0 <= l
    BY WithinLimits DEF IInv
  <2> QED BY <2>1, <2>2 DEF SlicesInv, SliceInv, Distinct
<1> QED BY <1>1, <1>2

\* Two streams' answers have no document in common.
LEMMA AnswersDisjoint ==
  ASSUME IInv, SlicesInv, NEW p \in Stream, NEW q \in Stream, p # q,
         AnswerOf(p) # None, AnswerOf(q) # None
  PROVE  ToSet(AnswerOf(p)) \cap ToSet(AnswerOf(q)) = {}
<1>1. exec.inner.partitions \in Nat \ {0} /\ p \in Nat /\ q \in Nat
  BY PlanFacts, StreamType DEF IInv
<1>2. exec.inner.partitions > 1
  <2>1. p < exec.inner.partitions /\ q < exec.inner.partitions
    BY AnswerType
  <2> QED BY <1>1, <2>1
<1>3. ASSUME NEW s \in Stream, AnswerOf(s) # None, NEW d \in ToSet(AnswerOf(s))
      PROVE  HashCode[d] % exec.inner.partitions = s
  <2>1. CASE context[s] # None
    <3>1. /\ WantedHits(s) \in Nat /\ WantedHits(s) <= Len(Hits(s)) /\ Hits(s) \in Seq(Doc)
      BY <2>1, WantedHitsType
    <3>2. AnswerOf(s) = SubSeq(Hits(s), 1, WantedHits(s))
      BY <2>1 DEF AnswerOf, Hits
    <3>3. PICK i \in DOMAIN AnswerOf(s) : d = AnswerOf(s)[i]
      BY <1>3 DEF ToSet
    <3>4. i \in DOMAIN Hits(s) /\ d = Hits(s)[i]
      BY <3>1, <3>2, <3>3
    <3> QED BY <1>2, <2>1, <3>4 DEF SlicesInv, SliceInv, Sliced
  <2>2. CASE context[s] = None
    <3>1. AnswerOf(s) = <<>>
      BY <1>3, <2>2 DEF AnswerOf
    <3> QED BY <1>3, <3>1 DEF ToSet
  <2> QED BY <2>1, <2>2
<1> QED BY <1>3

\* How many rows the answers that are fixed come to.
SumOf(a) == FoldSet(LAMBDA q, n : n + Len(a[q]), 0, {q \in Stream : a[q] # None})

\* Under a limit, one stream at most has an answer, and the sum is its length.
LEMMA AnswersWithin ==
  ASSUME IInv, SlicesInv, NEW p \in Stream, AnswerOf(p) # None
  PROVE  \A l \in RowLimits : SumOf(Answers) <= l
<1> SUFFICES ASSUME NEW l \in RowLimits PROVE SumOf(Answers) <= l
  OBVIOUS
<1>1. exec.inner.partitions = 1
  BY LimitedPlan
<1>2. ASSUME NEW q \in Stream, AnswerOf(q) # None PROVE q = 0
  <2>1. q < exec.inner.partitions /\ q \in Nat
    BY <1>2, AnswerType, StreamType
  <2> QED BY <1>1, <2>1
<1>3. {q \in Stream : Answers[q] # None} = {p}
  BY <1>2 DEF Answers
<1>4. Answers[p] = AnswerOf(p) /\ Len(Answers[p]) \in Nat /\ Len(Answers[p]) <= l
  BY AnswerType DEF Answers
<1>5. FoldSet(LAMBDA q, n : n + Len(Answers[q]), 0, {p}) = Len(Answers[p])
  BY <1>4, SumOverOne
<1> QED BY <1>3, <1>4, <1>5 DEF SumOf

\* What a stream has emitted is the beginning of its answer, and the whole of it
\* when it reports its end.
Emitted(p) ==
  /\ out[p] # <<>> => /\ AnswerOf(p) # None /\ Len(out[p]) <= Len(AnswerOf(p))
                      /\ out[p] = SubSeq(AnswerOf(p), 1, Len(out[p]))
  /\ status[p] = "ended" => AnswerOf(p) = out[p]

\* The invariants say so.
LEMMA EmitsAnswer ==
  IInv /\ SlicesInv /\ StreamsWithin => \A p \in Stream : Emitted(p)
<1> SUFFICES ASSUME IInv, SlicesInv, StreamsWithin, NEW p \in Stream PROVE Emitted(p)
  OBVIOUS
<1>1. TypeOK /\ PlanInv /\ Prefix(p) /\ out[p] \in Seq(Doc) /\ Len(out[p]) \in Nat
  BY DEF IInv, StreamInv, TypeOK
<1>2. CASE context[p] # None
  <2>1. /\ WantedHits(p) \in Nat /\ WantedHits(p) <= Len(Hits(p)) /\ Hits(p) \in Seq(Doc)
        /\ \A l \in RowLimits : WantedHits(p) <= l
        /\ WantedHits(p) = Len(Hits(p)) \/ WantedHits(p) \in RowLimits
    BY <1>2, WantedHitsType
  <2>2. AnswerOf(p) = SubSeq(Hits(p), 1, WantedHits(p))
    BY <1>2 DEF AnswerOf, Hits
  <2>3. AnswerOf(p) \in Seq(Doc) /\ AnswerOf(p) # None /\ Len(AnswerOf(p)) = WantedHits(p)
    <3>1. AnswerOf(p) \in Seq(Doc) /\ Len(AnswerOf(p)) = WantedHits(p)
      BY <2>1, <2>2
    <3> QED BY <3>1, ScanAssumption
  <2>4. Len(out[p]) <= Len(Hits(p)) /\ out[p] = SubSeq(Hits(p), 1, Len(out[p]))
    BY <1>1, <1>2 DEF Prefix
  <2>5. Len(out[p]) <= WantedHits(p)
    <3>1. WantedHits(p) \in RowLimits => Len(out[p]) <= WantedHits(p)
      BY DEF StreamsWithin, Within
    <3> QED BY <2>1, <2>4, <3>1
  <2>6. out[p] = SubSeq(AnswerOf(p), 1, Len(out[p]))
    BY <1>1, <2>1, <2>2, <2>4, <2>5
  <2>7. ASSUME status[p] = "ended" PROVE AnswerOf(p) = out[p]
    <3>1. Complete(p)
      BY <2>7 DEF IInv, StreamInv
    <3>2. Len(out[p]) = Len(Hits(p)) \/ Len(out[p]) \in RowLimits
      BY <1>2, <3>1 DEF Complete, AllThatIsWanted
    <3>3. WantedHits(p) <= Len(out[p])
      BY <2>1, <3>2
    <3>4. Len(out[p]) = WantedHits(p)
      BY <1>1, <2>1, <2>5, <3>3
    <3> QED BY <2>2, <2>4, <3>4
  <2> QED BY <2>3, <2>5, <2>6, <2>7 DEF Emitted
<1>3. CASE context[p] = None
  <2>1. out[p] = <<>>
    BY <1>1, <1>3 DEF Prefix
  <2>2. ASSUME status[p] = "ended" PROVE AnswerOf(p) = <<>>
    <3>1. Complete(p)
      BY <2>2 DEF IInv, StreamInv
    <3> QED BY <1>3, <2>2, <3>1 DEF Complete, AnswerOf
  <2> QED BY <2>1, <2>2 DEF Emitted
<1> QED BY <1>2, <1>3

\* A search that was served fixed an answer of its hits, and an answer repeats
\* no document.
Answered(p) ==
  /\ context[p] # None => AnswerOf(p) # None /\ ToSet(AnswerOf(p)) \subseteq ToSet(Hits(p))
  /\ AnswerOf(p) # None => AnswerOf(p) \in Seq(Doc) /\ Distinct(AnswerOf(p))

\* It holds in every state of the invariants.
LEMMA SearchAnswers ==
  ASSUME IInv, SlicesInv, NEW p \in Stream
  PROVE  Answered(p)
<1>1. ASSUME context[p] # None
      PROVE  AnswerOf(p) # None /\ ToSet(AnswerOf(p)) \subseteq ToSet(Hits(p))
  <2>1. /\ WantedHits(p) \in Nat /\ WantedHits(p) <= Len(Hits(p)) /\ Hits(p) \in Seq(Doc)
    BY <1>1, WantedHitsType
  <2>2. AnswerOf(p) = SubSeq(Hits(p), 1, WantedHits(p))
    BY <1>1 DEF AnswerOf, Hits
  <2>3. /\ AnswerOf(p) \in Seq(Doc) /\ Len(AnswerOf(p)) = WantedHits(p)
        /\ \A i \in DOMAIN AnswerOf(p) : AnswerOf(p)[i] = Hits(p)[i] /\ i \in DOMAIN Hits(p)
    BY <2>1, <2>2
  <2> QED BY <2>3, ScanAssumption DEF ToSet
<1> QED BY <1>1, AnswerType DEF Answered

\* What the contract asks of the answers, and of the rows emitted.
AnswersInv ==
  /\ \A p \in Stream : Emitted(p) /\ Answered(p)
  /\ \A p, q \in Stream :
       p # q /\ AnswerOf(p) # None /\ AnswerOf(q) # None
         => ToSet(AnswerOf(p)) \cap ToSet(AnswerOf(q)) = {}
  /\ \A p \in Stream : AnswerOf(p) # None => \A l \in RowLimits : SumOf(Answers) <= l

\* It holds throughout every scan.
LEMMA AnswersAgree == Spec => []AnswersInv
<1>1. IInv /\ SlicesInv /\ StreamsWithin => AnswersInv
  <2> SUFFICES ASSUME IInv, SlicesInv, StreamsWithin PROVE AnswersInv
    OBVIOUS
  <2>1. \A p \in Stream : Emitted(p) /\ Answered(p)
    BY EmitsAnswer, SearchAnswers
  <2>2. ASSUME NEW p \in Stream, NEW q \in Stream, p # q, AnswerOf(p) # None, AnswerOf(q) # None
        PROVE  ToSet(AnswerOf(p)) \cap ToSet(AnswerOf(q)) = {}
    BY <2>2, AnswersDisjoint
  <2>3. ASSUME NEW p \in Stream, AnswerOf(p) # None
        PROVE  \A l \in RowLimits : SumOf(Answers) <= l
    BY <2>3, AnswersWithin
  <2> QED BY <2>1, <2>2, <2>3, Zenon DEF AnswersInv
<1> QED BY <1>1, Invariant, SlicesDisjoint, StaysWithin, PTL
-----------------------------------------------------------------------------
(* Steps of the contract.                                                  *)

\* What is seen of a step that leaves the plan and the answers' hits alone.
LEMMA AnswerFrame ==
  ASSUME NEW p \in Stream, exec' = exec,
         context[p] # None => context'[p] # None /\ context'[p].hits = context[p].hits,
         context'[p] # None => context[p] # None,
         status'[p] \in {"new", "refused"} <=> status[p] \in {"new", "refused"}
  PROVE  AnswerOf(p)' = AnswerOf(p)
BY DEF AnswerOf, WantedHits

\* A step that changes none of the contract's variables.
LEMMA Unseen ==
  ASSUME UNCHANGED <<Present, RowLimits, Answers, out, Outcomes>>
  PROVE  UNCHANGED Contract!vars
BY DEF Contract!vars, Present, Answers, Outcomes

\* The index changes: the contract's Change. This and the next five say by what
\* each step of the contract shows in its variables.
LEMMA StepChange ==
  ASSUME Present' \subseteq Doc, UNCHANGED <<RowLimits, Answers, out, Outcomes>>
  PROVE  Contract!Change
BY DEF Contract!Change, Present, Answers, Outcomes

\* A limit is pushed: Limit.
LEMMA StepLimit ==
  ASSUME \A p \in Stream : AnswerOf(p) = None,
         RowLimits' \subseteq Nat, RowLimits \subseteq RowLimits',
         UNCHANGED <<Present, Answers, out, Outcomes>>
  PROVE  Contract!Limit
BY DEF Contract!Limit, Contract!Fixed, Present, Answers, Outcomes

\* Rows are delivered: Deliver.
LEMMA StepDeliver ==
  ASSUME NEW p \in Stream, OutcomeOf(p) = "open", AnswerOf(p) # None,
         NEW n \in Len(out[p]) + 1 .. Len(AnswerOf(p)),
         out' = [out EXCEPT ![p] = SubSeq(AnswerOf(p), 1, n)],
         UNCHANGED <<Present, RowLimits, Answers, Outcomes>>
  PROVE  Contract!Deliver(p)
BY DEF Contract!Deliver, Present, Answers, Outcomes

\* A stream completes: Complete.
LEMMA StepComplete ==
  ASSUME NEW p \in Stream, OutcomeOf(p) = "open", out[p] = AnswerOf(p),
         Outcomes' = [Outcomes EXCEPT ![p] = "complete"],
         UNCHANGED <<Present, RowLimits, Answers, out>>
  PROVE  Contract!Complete(p)
BY DEF Contract!Complete, Present, Answers, Outcomes

\* A stream is cut off: Abort.
LEMMA StepAbort ==
  ASSUME NEW p \in Stream, OutcomeOf(p) = "open",
         Outcomes' = [Outcomes EXCEPT ![p] = "aborted"],
         UNCHANGED <<Present, RowLimits, Answers, out>>
  PROVE  Contract!Abort(p)
BY DEF Contract!Abort, Present, Answers, Outcomes

\* A stream's answer is fixed: Fix.
LEMMA StepFix ==
  ASSUME NEW p \in Stream, OutcomeOf(p) = "open", AnswerOf(p) = None,
         NEW a \in Seq(Doc), Distinct(a), ToSet(a) \subseteq Present,
         Answers' = [Answers EXCEPT ![p] = a], AnswersInv',
         UNCHANGED <<Present, RowLimits, out, Outcomes>>
  PROVE  Contract!Fix(p)
<1>1. Answers'[p] = a /\ a # None /\ \A q \in Stream \ {p} : Answers'[q] = Answers[q]
  BY ScanAssumption DEF Answers
<1>2. \A q \in Stream : Answers'[q] = AnswerOf(q)' /\ Answers[q] = AnswerOf(q)
  BY DEF Answers
<1>3. Contract!SetToSeqs(ToSet(a)) = SetToSeqs(ToSet(a))
  BY DEF Contract!SetToSeqs, SetToSeqs, Contract!Cardinality, Cardinality
<1>4. a \in Contract!SetToSeqs(ToSet(a)) /\ ToSet(a) \in SUBSET Present
  BY <1>3, DistinctEnumerates
<1>5. ASSUME NEW q \in Stream, Answers[q] # None
      PROVE  Contract!ToSet(Answers'[p]) \cap Contract!ToSet(Answers[q]) = {}
  <2>1. q # p
    BY <1>2, <1>5
  <2>2. AnswerOf(p)' # None /\ AnswerOf(q)' # None /\ AnswerOf(q)' = AnswerOf(q)
    BY <1>1, <1>2, <1>5, <2>1
  <2>3. ToSet(AnswerOf(p)') \cap ToSet(AnswerOf(q)') = {}
    BY <2>1, <2>2 DEF AnswersInv
  <2> QED BY <1>1, <1>2, <2>1, <2>2, <2>3 DEF ToSet, Contract!ToSet
<1>6. ASSUME NEW l \in RowLimits
      PROVE  Contract!FoldSet(LAMBDA q, n : n + Len(Answers'[q]), 0,
                              {q \in Stream : Answers'[q] # None}) <= l
  <2>1. AnswerOf(p)' # None /\ l \in RowLimits'
    BY <1>1, <1>2
  <2>2. SumOf(Answers') <= l
    BY <2>1 DEF AnswersInv
  <2> QED BY <2>2 DEF SumOf, FoldSet, MapThenFoldSet, Contract!FoldSet, Contract!MapThenFoldSet
<1>7. Outcomes[p] = "open" /\ Answers[p] = None
  BY DEF Outcomes, Answers
<1> QED BY <1>1, <1>4, <1>5, <1>6, <1>7 DEF Contract!Fix, Contract!Fixed, Present, Answers, Outcomes
-----------------------------------------------------------------------------
(* Each action of the scan is a step of the contract, or none.             *)

\* The steps that a stream takes on its own, up to the rows it emits: its end
\* completes, a failure or a drop aborts, and the rest does not show.
LEMMA StatusRefines ==
  ASSUME IInv, AnswersInv', NEW p \in Stream, NEW s \in Status \ {"new", "refused"},
         status[p] \notin {"new", "refused"} \cup Final,
         status' = [status EXCEPT ![p] = s],
         UNCHANGED <<planVars, out, context, indexVars>>
  PROVE  Contract!Next \/ UNCHANGED Contract!vars
<1>1. TypeOK
  BY DEF IInv
<1>2. UNCHANGED <<Present, RowLimits, exec, context, out>>
  BY DEF Present, RowLimits, planVars, indexVars
<1>3. status'[p] = s /\ \A q \in Stream \ {p} : status'[q] = status[q]
  BY <1>1 DEF TypeOK
<1>4. \A q \in Stream : AnswerOf(q)' = AnswerOf(q)
  BY <1>2, <1>3, AnswerFrame
<1>5. UNCHANGED Answers
  BY <1>4 DEF Answers
<1>6. OutcomeOf(p) = "open" /\ \A q \in Stream \ {p} : OutcomeOf(q)' = OutcomeOf(q)
  BY <1>3 DEF OutcomeOf, Final
<1>7. CASE s = "ended"
  <2>1. OutcomeOf(p)' = "complete"
    BY <1>3, <1>7 DEF OutcomeOf
  <2>2. Outcomes' = [Outcomes EXCEPT ![p] = "complete"]
    BY <1>6, <2>1 DEF Outcomes
  <2>3. out[p] = AnswerOf(p)
    BY <1>2, <1>3, <1>4, <1>7 DEF AnswersInv, Emitted
  <2> QED BY <1>2, <1>5, <1>6, <2>2, <2>3, StepComplete DEF Contract!Next
<1>8. CASE s \in {"failed", "dropped"}
  <2>1. OutcomeOf(p)' = "aborted"
    BY <1>3, <1>8 DEF OutcomeOf
  <2>2. Outcomes' = [Outcomes EXCEPT ![p] = "aborted"]
    BY <1>6, <2>1 DEF Outcomes
  <2> QED BY <1>2, <1>5, <1>6, <2>2, StepAbort DEF Contract!Next
<1>9. CASE s \notin {"ended", "failed", "dropped"}
  <2>1. OutcomeOf(p)' = "open"
    BY <1>3, <1>9 DEF OutcomeOf
  <2>2. UNCHANGED Outcomes
    BY <1>6, <2>1 DEF Outcomes
  <2> QED BY <1>2, <1>5, <2>2, Unseen
<1> QED BY <1>7, <1>8, <1>9

\* A page that is emitted delivers the next rows of the answer.
LEMMA ReceiveHitsRefines ==
  ASSUME IInv, SlicesInv, AnswersInv', NEW p \in Stream, ReceiveHits(p)
  PROVE  Contract!Next \/ UNCHANGED Contract!vars
<1>1. /\ TypeOK /\ status[p] \in {"searching", "scrolling"}
      /\ Arrived(p).type = "page" /\ Arrived(p).hits # <<>>
      /\ UNCHANGED <<planVars, context, indexVars>>
  BY DEF IInv, ReceiveHits
<1> DEFINE kept == TruncateToFetch(Arrived(p).hits, st[p].remaining)
<1>2. CASE status' = [status EXCEPT ![p] = "failed"] /\ out' = out
  BY <1>1, <1>2, StatusRefines DEF Status, Final
<1>3. CASE status' = [status EXCEPT ![p] = "ready"] /\ out' = [out EXCEPT ![p] = @ \o kept]
  <2>1. Arrived(p) = wire[p] /\ wire[p].hits \in Seq(Doc) /\ wire[p].hits # <<>>
    <3>1. Arrived(p) = wire[p]
      BY <1>1 DEF Arrived, PageOf
    <3>2. wire[p] \in Message /\ wire[p].type = "page"
      BY <1>1, <3>1 DEF TypeOK
    <3>3. wire[p] \in Page
      BY <3>2 DEF Message, Request, Reply, Idle, Page
    <3> QED BY <1>1, <3>1, <3>3 DEF Page
  <2>2. st[p].remaining \in Opt /\ st[p].remaining # 0
    <3>1. ~Exhausted(st[p])
      BY <1>1, PageArrives
    <3> QED BY <1>1, <3>1 DEF Exhausted, TypeOK, PageState
  <2>3. kept \in Seq(Doc) /\ Len(kept) \in Nat /\ Len(kept) > 0
    <3> DEFINE n == AtMost(Len(wire[p].hits), st[p].remaining)
    <3>1. Len(wire[p].hits) \in Nat /\ Len(wire[p].hits) > 0
      BY <2>1
    <3>2. n \in 1 .. Len(wire[p].hits)
      BY <2>2, <3>1 DEF AtMost, Opt
    <3>3. kept = SubSeq(wire[p].hits, 1, n)
      BY <2>1 DEF TruncateToFetch
    <3> HIDE DEF n, kept
    <3> QED BY <2>1, <3>2, <3>3
  <2> HIDE DEF kept
  <2>4. out[p] \in Seq(Doc) /\ out'[p] = out[p] \o kept
    BY <1>1, <1>3 DEF TypeOK
  <2>5. /\ out'[p] # <<>> /\ Len(out'[p]) > Len(out[p])
        /\ Len(out[p]) \in Nat /\ Len(out'[p]) \in Nat
    BY <2>3, <2>4
  <2>6. status'[p] = "ready" /\ \A q \in Stream \ {p} : status'[q] = status[q]
    BY <1>1, <1>3 DEF TypeOK
  <2>7. \A q \in Stream : AnswerOf(q)' = AnswerOf(q) /\ OutcomeOf(q)' = OutcomeOf(q)
    BY <1>1, <2>6, AnswerFrame DEF OutcomeOf, planVars
  <2>8. OutcomeOf(p) = "open"
    BY <1>1 DEF OutcomeOf
  <2>9. /\ AnswerOf(p) # None /\ Len(out'[p]) <= Len(AnswerOf(p))
        /\ out'[p] = SubSeq(AnswerOf(p), 1, Len(out'[p]))
    BY <2>5, <2>7 DEF AnswersInv, Emitted
  <2>10. AnswerOf(p) \in Seq(Doc)
    BY <2>9, AnswerType
  <2>11. Len(out'[p]) \in Len(out[p]) + 1 .. Len(AnswerOf(p))
    BY <2>5, <2>9, <2>10
  <2>12. out' = [out EXCEPT ![p] = SubSeq(AnswerOf(p), 1, Len(out'[p]))]
    BY <1>1, <1>3, <2>4, <2>9 DEF TypeOK
  <2>13. UNCHANGED <<Present, RowLimits, Answers, Outcomes>>
    BY <1>1, <2>7 DEF Present, RowLimits, Answers, Outcomes, planVars, indexVars
  <2> QED BY <2>8, <2>9, <2>11, <2>12, <2>13, StepDeliver DEF Contract!Next
<1> QED BY <1>2, <1>3 DEF ReceiveHits

\* The first request fixes the stream's answer, unless it is refused.
LEMMA ServeSearchRefines ==
  ASSUME IInv, IInv', SlicesInv', AnswersInv', NEW p \in Stream, ServeSearch(p)
  PROVE  Contract!Next \/ UNCHANGED Contract!vars
<1>1. /\ TypeOK /\ PlanInv /\ status[p] = "searching" /\ SearchingInv(p)
      /\ wire[p].type = "search" /\ context[p] = None
      /\ UNCHANGED <<planVars, status, out, indexVars>>
  BY WireStatus DEF IInv, ServeSearch, StreamInv, SearchingInv
<1>2. exec.inner.fetch # 0
  <2>1. ~Exhausted(st[p]) /\ Counted(p) /\ out[p] = <<>>
    BY <1>1 DEF SearchingInv
  <2>2. ASSUME exec.inner.fetch = 0 PROVE FALSE
    <3>1. st[p].remaining = 0 - Len(out[p]) /\ Len(out[p]) = 0
      BY <2>1, <2>2, NoneAssumption DEF Counted
    <3>2. st[p].remaining = 0
      BY <3>1
    <3> QED BY <2>1, <3>2 DEF Exhausted
  <2> QED BY <2>2
<1>3. AnswerOf(p) = None /\ OutcomeOf(p) = "open"
  BY <1>1, <1>2 DEF AnswerOf, OutcomeOf
<1>4. UNCHANGED <<Present, RowLimits, out, Outcomes>>
  BY <1>1 DEF Present, RowLimits, Outcomes, OutcomeOf, planVars, indexVars
<1>5. CASE context' = context
  <2>1. \A q \in Stream : AnswerOf(q)' = AnswerOf(q)
    BY <1>1, <1>5, AnswerFrame DEF planVars
  <2> QED BY <1>4, <2>1, Unseen DEF Answers
<1>6. ASSUME NEW c \in Context, ToSet(c.hits) \subseteq Present,
             context' = [context EXCEPT ![p] = c]
      PROVE  Contract!Next
  <2>1. context'[p] = c /\ c # None /\ \A q \in Stream \ {p} : context'[q] = context[q]
    BY <1>1, <1>6, ScanAssumption DEF TypeOK
  <2>2. \A q \in Stream \ {p} : AnswerOf(q)' = AnswerOf(q)
    BY <1>1, <2>1, AnswerFrame DEF planVars
  <2>3. /\ AnswerOf(p)' \in Seq(Doc) /\ Distinct(AnswerOf(p)') /\ Hits(p)' = c.hits
        /\ ToSet(AnswerOf(p)') \subseteq ToSet(Hits(p)')
    BY <2>1 DEF AnswersInv, Answered, Hits
  <2>4. ToSet(AnswerOf(p)') \subseteq Present
    BY <1>6, <2>3
  <2>5. Answers' = [Answers EXCEPT ![p] = AnswerOf(p)']
    BY <2>2 DEF Answers
  <2>6. Contract!Fix(p)
    BY <1>3, <1>4, <2>3, <2>4, <2>5, StepFix
  <2> QED BY <2>6 DEF Contract!Next
<1>7. /\ wire[p].size \in Nat /\ wire[p].scroll \in BOOLEAN
  <2>1. /\ wire[p].size = RequestSize(exec.inner, exec.inner.fetch)
        /\ wire[p].scroll = ~exec.inner.single_page
    BY <1>1 DEF SearchingInv
  <2> QED BY <1>1, <2>1, RequestSizeType, PlanFacts
<1>8. CASE index = None
  <2> DEFINE c == [hits |-> <<>>, pos |-> 0, size |-> wire[p].size, open |-> FALSE]
  <2>1. c \in Context /\ ToSet(c.hits) \subseteq Present
    BY <1>7 DEF Context, ToSet
  <2>2. context' = [context EXCEPT ![p] = c]
    BY <1>8 DEF ServeSearch
  <2> QED BY <1>6, <2>1, <2>2
<1>9. CASE index # None /\ wire[p].size > Window
  BY <1>5, <1>9 DEF ServeSearch
<1>10. CASE index # None /\ ~(wire[p].size > Window)
  <2>1. PICK found \in Found(wire[p].slice) : \E hits \in SetToSeqs(found) :
          context' = [context EXCEPT ![p] =
                        [hits |-> hits, pos |-> AtMost(Len(hits), wire[p].size),
                         size |-> wire[p].size, open |-> wire[p].scroll]]
    BY <1>10 DEF ServeSearch
  <2>2. PICK hits \in SetToSeqs(found) :
          context' = [context EXCEPT ![p] =
                        [hits |-> hits, pos |-> AtMost(Len(hits), wire[p].size),
                         size |-> wire[p].size, open |-> wire[p].scroll]]
    BY <2>1
  <2> DEFINE c == [hits |-> hits, pos |-> AtMost(Len(hits), wire[p].size),
                   size |-> wire[p].size, open |-> wire[p].scroll]
  <2>3. found \subseteq index /\ found \in SUBSET Doc
    <3>1. found \subseteq InSlice(wire[p].slice) /\ index \subseteq Doc
      BY <1>1, <1>10 DEF Found, TypeOK
    <3> QED BY <3>1 DEF InSlice
  <2>4. hits \in Seq(Doc) /\ ToSet(hits) = found
    BY <2>3, EnumerationType, EnumerationWhole
  <2>5. AtMost(Len(hits), wire[p].size) \in Nat
    BY <1>7, <2>4 DEF AtMost
  <2>6. c \in Context
    BY <1>7, <2>4, <2>5 DEF Context
  <2>7. ToSet(c.hits) \subseteq Present
    BY <1>10, <2>3, <2>4 DEF Present
  <2> QED BY <1>6, <2>2, <2>6, <2>7
<1> QED BY <1>8, <1>9, <1>10

\* ExecutionPlan::execute refuses a stream the plan has not, which aborts, and
\* under a fetch of 0 fixes an empty answer, since no request will be sent.
LEMMA ExecuteRefines ==
  ASSUME IInv, SlicesInv', AnswersInv', NEW p \in Stream, Execute(p)
  PROVE  Contract!Next \/ UNCHANGED Contract!vars
<1>1. /\ TypeOK /\ status[p] = "new"
      /\ UNCHANGED <<planVars, out, context, indexVars>>
  BY DEF IInv, Execute
<1>2. context[p] = None /\ out[p] = <<>>
  BY <1>1, Untried DEF IInv, StreamInv, NewInv, Untouched
<1>3. PICK s \in {"refused", "ready"} : status' = [status EXCEPT ![p] = s]
  BY DEF Execute
<1>4. status'[p] = s /\ \A q \in Stream \ {p} : status'[q] = status[q]
  BY <1>1, <1>3 DEF TypeOK
<1>5. \A q \in Stream \ {p} : AnswerOf(q)' = AnswerOf(q) /\ OutcomeOf(q)' = OutcomeOf(q)
  BY <1>1, <1>4, AnswerFrame DEF OutcomeOf, planVars
<1>6. UNCHANGED <<Present, RowLimits>>
  BY <1>1 DEF Present, RowLimits, planVars, indexVars
<1>7. AnswerOf(p) = None /\ OutcomeOf(p) = "open"
  BY <1>1, <1>2 DEF AnswerOf, OutcomeOf
<1>8. CASE s = "refused"
  <2>1. AnswerOf(p)' = None /\ OutcomeOf(p)' = "aborted"
    BY <1>1, <1>2, <1>4, <1>8 DEF AnswerOf, OutcomeOf
  <2>2. UNCHANGED Answers /\ Outcomes' = [Outcomes EXCEPT ![p] = "aborted"]
    BY <1>5, <1>7, <2>1 DEF Answers, Outcomes
  <2> QED BY <1>1, <1>6, <1>7, <2>2, StepAbort DEF Contract!Next
<1>9. CASE s = "ready" /\ exec.inner.fetch = 0
  <2>1. AnswerOf(p)' = <<>> /\ OutcomeOf(p)' = "open"
    BY <1>1, <1>2, <1>4, <1>9 DEF AnswerOf, OutcomeOf, planVars
  <2>2. Answers' = [Answers EXCEPT ![p] = <<>>] /\ UNCHANGED Outcomes
    BY <1>5, <1>7, <2>1 DEF Answers, Outcomes
  <2>3. <<>> \in Seq(Doc) /\ Distinct(<<>>) /\ ToSet(<<>>) \subseteq Present
    BY DEF Distinct, ToSet
  <2> QED BY <1>1, <1>6, <1>7, <2>2, <2>3, StepFix DEF Contract!Next
<1>10. CASE s = "ready" /\ exec.inner.fetch # 0
  <2>1. AnswerOf(p)' = None /\ OutcomeOf(p)' = "open"
    BY <1>1, <1>2, <1>4, <1>10 DEF AnswerOf, OutcomeOf, planVars
  <2>2. UNCHANGED <<Answers, Outcomes>>
    BY <1>5, <1>7, <2>1 DEF Answers, Outcomes
  <2> QED BY <1>1, <1>6, <2>2, Unseen
<1> QED BY <1>8, <1>9, <1>10

\* A limit that is pushed down comes before every answer.
LEMMA PushLimitRefines ==
  ASSUME IInv, IInv', NEW l \in Limits, PushLimit(l)
  PROVE  Contract!Next \/ UNCHANGED Contract!vars
<1>1. \A p \in Stream : status[p] = "new" /\ status'[p] = "new" /\ context[p] = None
  BY Untried DEF PushLimit, streamVars
<1>2. context' = context /\ out' = out /\ UNCHANGED Present
  BY DEF PushLimit, streamVars, indexVars, Present
<1>3. \A p \in Stream : AnswerOf(p) = None /\ AnswerOf(p)' = None /\ OutcomeOf(p)' = OutcomeOf(p)
  BY <1>1, <1>2 DEF AnswerOf, OutcomeOf
<1>4. RowLimits \subseteq RowLimits'
  BY DEF PushLimit, RowLimits
<1>5. RowLimits' \subseteq Nat
  <2>1. /\ limits' \subseteq Opt /\ query.search_after' \in BOOLEAN /\ query.page_size' \in Nat
    BY DEF IInv, TypeOK, Query
  <2>2. AtLeastOne(query.page_size') \in Nat
    BY <2>1, AtLeastOneType
  <2> QED BY <2>1, <2>2 DEF RowLimits, Opt
<1> QED BY <1>2, <1>3, <1>4, <1>5, StepLimit DEF Contract!Next, Answers, Outcomes

\* A context that is served, that expires or whose index goes is still a context.
LEMMA ContextsStay ==
  ASSUME IInv, DropIndex \/ \E p \in Stream : ServeScroll(p) \/ ServeClear(p) \/ Expire(p)
  PROVE  \A q \in Stream : context[q] # None => context'[q] # None
<1>1. TypeOK /\ \A q \in Stream : context[q] \in Context \cup {None}
  BY DEF IInv, TypeOK
<1>2. \A c \in Context, b \in BOOLEAN : [c EXCEPT !.open = b] # None
  <2>1. \A c \in Context, b \in BOOLEAN : [c EXCEPT !.open = b] \in Context
    BY DEF Context
  <2> QED BY <2>1, ScanAssumption
<1>3. CASE DropIndex
  <2> SUFFICES ASSUME NEW q \in Stream, context[q] # None PROVE context'[q] # None
    OBVIOUS
  <2>1. context'[q] = [context[q] EXCEPT !.open = FALSE]
    BY <1>3 DEF DropIndex
  <2> QED BY <1>1, <1>2, <2>1
<1>4. ASSUME NEW p \in Stream, ServeScroll(p) PROVE \A q \in Stream : context[q] # None => context'[q] # None
  <2>1. wire[p].type = "scroll" /\ ScrollingInv(p)
    BY <1>4, WireStatus DEF IInv, ServeScroll, StreamInv
  <2>2. wire[p].id = p /\ context[p] \in Context
    BY <1>1, <2>1 DEF ScrollingInv, Paging
  <2> DEFINE end == AtMost(Len(context[p].hits), context[p].pos + context[p].size)
  <2>3. end \in Nat
    BY <2>2, NoneAssumption DEF Context, AtMost
  <2>4. context' = context \/ context' = [context EXCEPT ![p].pos = end]
    BY <1>4, <2>2 DEF ServeScroll
  <2> HIDE DEF end
  <2>5. [context[p] EXCEPT !.pos = end] \in Context
    BY <2>2, <2>3 DEF Context
  <2>6. [context[p] EXCEPT !.pos = end] # None
    BY <2>5, ScanAssumption
  <2> QED BY <1>1, <2>4, <2>6 DEF TypeOK
<1>5. ASSUME NEW p \in Stream, ServeClear(p) PROVE \A q \in Stream : context[q] # None => context'[q] # None
  <2>1. wire[p].type = "clear" /\ ClearingInv(p)
    BY <1>5, WireStatus DEF IInv, ServeClear, StreamInv
  <2>2. wire[p].id = p /\ context[p] \in Context
    BY <1>1, <2>1 DEF ClearingInv
  <2>3. context' = [context EXCEPT ![p].open = FALSE]
    BY <1>5, <2>2 DEF ServeClear
  <2> QED BY <1>1, <1>2, <2>2, <2>3 DEF TypeOK
<1>6. ASSUME NEW p \in Stream, Expire(p) PROVE \A q \in Stream : context[q] # None => context'[q] # None
  BY <1>1, <1>2, <1>6 DEF Expire, TypeOK
<1> QED BY <1>3, <1>4, <1>5, <1>6

\* The other requests, an expiry and a lost message do not show.
LEMMA UnseenRefines ==
  ASSUME IInv, NEW p \in Stream, ServeScroll(p) \/ ServeClear(p) \/ Expire(p) \/ Lose(p)
  PROVE  UNCHANGED Contract!vars
<1>1. UNCHANGED <<planVars, status, out, indexVars>>
  BY DEF ServeScroll, ServeClear, Expire, Lose, streamVars
<1>2. \A q \in Stream :
        /\ context'[q] # None => context[q] # None /\ context'[q].hits = context[q].hits
        /\ context[q] # None => context'[q] # None
  <2>1. CASE Lose(p)
    BY <2>1 DEF Lose
  <2> QED BY <2>1, ServeOtherHits, ContextsStay
<1>3. \A q \in Stream : AnswerOf(q)' = AnswerOf(q)
  BY <1>1, <1>2, AnswerFrame DEF planVars
<1> QED BY <1>1, <1>3, Unseen
        DEF Present, RowLimits, Answers, Outcomes, OutcomeOf, planVars, indexVars

\* A write to the index, its deletion and its creation change what is present.
LEMMA WriteRefines ==
  ASSUME IInv, IInv', (\E d \in Doc : AddDoc(d) \/ RemoveDoc(d)) \/ DropIndex \/ CreateIndex
  PROVE  Contract!Next
<1>1. UNCHANGED <<planVars, streamVars>>
  BY DEF AddDoc, RemoveDoc, DropIndex, CreateIndex, Write
<1>2. \A q \in Stream :
        /\ context'[q] # None => context[q] # None /\ context'[q].hits = context[q].hits
        /\ context[q] # None => context'[q] # None
  <2>1. CASE context' = context
    BY <2>1
  <2> QED BY <2>1, DropIndexHits, ContextsStay DEF AddDoc, RemoveDoc, CreateIndex
<1>3. \A q \in Stream : AnswerOf(q)' = AnswerOf(q)
  BY <1>1, <1>2, AnswerFrame DEF planVars, streamVars
<1>4. Present' \subseteq Doc
  BY DEF Present, IInv, TypeOK
<1> QED BY <1>1, <1>3, <1>4, StepChange
        DEF Contract!Next, RowLimits, Answers, Outcomes, OutcomeOf, planVars, streamVars
-----------------------------------------------------------------------------
(* The theorem.                                                            *)

\* A freshly planned scan is an initial state of the contract.
LEMMA InitRefines == Init /\ IInv => Contract!Init
<1> SUFFICES ASSUME Init, IInv PROVE Contract!Init
  OBVIOUS
<1>1. Present \subseteq Doc
  BY DEF Present, IInv, TypeOK
<1>2. RowLimits \subseteq Nat
  BY WithinLimits DEF IInv
<1>3. Answers = [p \in Stream |-> None] /\ Outcomes = [p \in Stream |-> "open"]
  BY DEF Init, Answers, AnswerOf, Outcomes, OutcomeOf
<1>4. out = [p \in Stream |-> <<>>]
  BY DEF Init
<1> QED BY <1>1, <1>2, <1>3, <1>4 DEF Contract!Init, Present, Answers, Outcomes

\* Every step of the scan is a step of the contract, or none.
LEMMA NextRefines ==
  IInv /\ IInv' /\ SlicesInv /\ SlicesInv' /\ AnswersInv' /\ [Next]_vars
    => [Contract!Next]_(Contract!vars)
<1> SUFFICES ASSUME IInv, IInv', SlicesInv, SlicesInv', AnswersInv', [Next]_vars
             PROVE  Contract!Next \/ UNCHANGED Contract!vars
  OBVIOUS
<1>1. CASE UNCHANGED vars \/ Finished
  BY <1>1, Unseen DEF vars, Finished, Present, RowLimits, Answers, AnswerOf, WantedHits,
                      Outcomes, OutcomeOf
<1>2. ASSUME NEW l \in Limits, PushLimit(l) PROVE Contract!Next \/ UNCHANGED Contract!vars
  BY <1>2, PushLimitRefines
<1>3. ASSUME NEW p \in Stream, Execute(p) PROVE Contract!Next \/ UNCHANGED Contract!vars
  BY <1>3, ExecuteRefines
<1>4. ASSUME NEW p \in Stream,
             Poll(p) \/ ReceiveFailure(p) \/ ReceiveEmptyPage(p) \/ ReceiveCleared(p) \/ Cancel(p)
      PROVE  Contract!Next \/ UNCHANGED Contract!vars
  <2>1. /\ UNCHANGED <<planVars, out, context, indexVars>>
        /\ status[p] \in {"ready", "searching", "scrolling", "clearing"}
    BY <1>4 DEF Poll, PollEnd, PollSearch, PollScroll, ReceiveFailure, ReceiveEmptyPage,
                ReceiveCleared, Cancel, Awaiting
  <2>2. \E s \in {"searching", "scrolling", "clearing", "ended", "failed", "dropped"} :
          status' = [status EXCEPT ![p] = s]
    BY <1>4 DEF Poll, PollEnd, PollSearch, PollScroll, ReceiveFailure, ReceiveEmptyPage,
                ReceiveCleared, Cancel, Finish
  <2> QED BY <2>1, <2>2, StatusRefines DEF Status, Final
<1>5. ASSUME NEW p \in Stream, ReceiveHits(p) PROVE Contract!Next \/ UNCHANGED Contract!vars
  BY <1>5, ReceiveHitsRefines
<1>6. ASSUME NEW p \in Stream, ServeSearch(p) PROVE Contract!Next \/ UNCHANGED Contract!vars
  BY <1>6, ServeSearchRefines
<1>7. ASSUME NEW p \in Stream, ServeScroll(p) \/ ServeClear(p) \/ Expire(p) \/ Lose(p)
      PROVE  UNCHANGED Contract!vars
  BY <1>7, UnseenRefines
<1>8. CASE (\E d \in Doc : AddDoc(d) \/ RemoveDoc(d)) \/ DropIndex \/ CreateIndex
  BY <1>8, WriteRefines
<1> QED BY <1>1, <1>2, <1>3, <1>4, <1>5, <1>6, <1>7, <1>8 DEF Next, Receive, Serve

\* What the streams do through every page, cursor, lost message and write is what
\* the contract promises: each returns, in order and without skipping, an answer
\* fixed at one moment, shares no document with another, stays within the limits
\* and completes only when the answer is out (exec.rs execute and next_page).
THEOREM Implements == Spec => ImplementsContract
<1> QED BY InitRefines, NextRefines, Invariant, SlicesDisjoint, AnswersAgree, PTL
        DEF Spec, ImplementsContract, Contract!Spec
=============================================================================
