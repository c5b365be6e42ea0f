-------------------------- MODULE LikePatternProofs --------------------------
(***************************************************************************)
(* The clause made of a LIKE pattern means what the pattern means, for     *)
(* every pattern over every alphabet.  Both the loop and the meaning of a  *)
(* pattern are recursive functions, so their equations come first; the     *)
(* rest is induction over the positions of the pattern, with sets of       *)
(* naturals: forwards for what the loop has noted of the characters read,  *)
(* backwards for what the characters to come will add to the clause.       *)
(***************************************************************************)
EXTENDS LikePattern, WellFoundedInduction, TLAPS

\* The characters of a clause's value, and the tokens of characters S.
WildChar == Char \cup {"*", "?", "\\"}
Token(S) == {Run, One} \cup {Only(c) : c \in S}

\* The function of the loop, and the one of a meaning, whose values are the tokens
\* of the rest of s from each position on.
Loop(pattern) ==
  CHOOSE after : after =
    [i \in 0..Len(pattern) |->
       IF i = 0 THEN Start ELSE Consume(after[i - 1], pattern[i], i = Len(pattern))]

TokensAt(s, run, one, from, i) ==
  CASE i > Len(s)                              -> <<>>
    [] i <= Len(s) /\ s[i] = run               -> <<Run>> \o from[i + 1]
    [] i <= Len(s) /\ s[i] = one               -> <<One>> \o from[i + 1]
    [] i < Len(s) /\ s[i] = "\\"               -> <<Only(s[i + 1])>> \o from[i + 2]
    [] OTHER                                   -> <<Only(s[i])>> \o from[i + 1]

Tokens(s, run, one) ==
  CHOOSE from : from = [i \in 1..(Len(s) + 1) |-> TokensAt(s, run, one, from, i)]
-----------------------------------------------------------------------------
(* The recursive functions.                                                *)

\* Induction over the naturals, for a set.
LEMMA SetInduction ==
  ASSUME NEW S, 0 \in S, \A n \in Nat : n \in S => n + 1 \in S
  PROVE  Nat \subseteq S
<1> DEFINE R == OpToRel(<, Nat)
<1>1. \A x, y \in Nat : <<x, y>> \in R <=> x < y
  BY DEF OpToRel
<1>2. IsWellFoundedOn(R, Nat)
  BY NatLessThanWellFounded
<1> HIDE DEF R
<1> SUFFICES ASSUME Nat \ S # {} PROVE FALSE
  OBVIOUS
<1>3. PICK m \in Nat \ S : \A y \in Nat \ S : ~ (<<y, m>> \in R)
  BY <1>2, WFMin
<1>4. m \in Nat /\ m # 0 /\ m - 1 \in Nat /\ m - 1 < m /\ m - 1 + 1 = m
  BY <1>3
<1>5. m - 1 \in S
  BY <1>1, <1>3, <1>4
<1> QED BY <1>3, <1>4, <1>5

\* The loop consumes one character after the other.
LEMMA LoopSteps ==
  ASSUME NEW pattern \in Pattern, NEW loop, loop = Loop(pattern)
  PROVE  /\ Consumed(pattern) = loop[Len(pattern)]
         /\ loop[0] = Start
         /\ \A i \in 1..Len(pattern) :
              loop[i] = Consume(loop[i - 1], pattern[i], i = Len(pattern))
<1> DEFINE n == Len(pattern)
           Value(f, i) == IF i = 0 THEN Start ELSE Consume(f[i - 1], pattern[i], i = n)
           S == {m \in Nat : m <= n => \E f : f = [i \in 0..m |-> Value(f, i)]}
<1>0. n \in Nat
  BY DEF Pattern
<1> HIDE DEF n
<1>1. 0 \in S
  <2>1. [i \in 0..0 |-> Start] = [i \in 0..0 |-> Value([j \in 0..0 |-> Start], i)]
    OBVIOUS
  <2> QED BY <2>1
<1>2. ASSUME NEW m \in Nat, m \in S PROVE m + 1 \in S
  <2> SUFFICES ASSUME m + 1 <= n PROVE \E f : f = [i \in 0..(m + 1) |-> Value(f, i)]
    OBVIOUS
  <2>1. PICK g : g = [i \in 0..m |-> Value(g, i)]
    BY <1>0, <1>2
  <2> DEFINE f == [i \in 0..(m + 1) |-> IF i = m + 1 THEN Consume(g[m], pattern[i], i = n) ELSE g[i]]
  <2>2. ASSUME NEW i \in 0..(m + 1) PROVE f[i] = Value(f, i)
    <3>1. CASE i = m + 1
      <4>1. f[i] = Consume(g[m], pattern[i], i = n) /\ f[m] = g[m] /\ i - 1 = m
        BY <3>1
      <4> HIDE DEF f
      <4> QED BY <3>1, <4>1
    <3>2. CASE i # m + 1 /\ i # 0
      <4>1. f[i] = g[i] /\ f[i - 1] = g[i - 1] /\ i \in 0..m
        BY <3>2
      <4>2. g[i] = Value(g, i)
        BY <2>1, <4>1
      <4> HIDE DEF f
      <4> QED BY <3>2, <4>1, <4>2
    <3>3. CASE i = 0
      <4>1. f[i] = g[i] /\ i \in 0..m
        BY <3>3
      <4>2. g[i] = Value(g, i)
        BY <2>1, <4>1
      <4> HIDE DEF f
      <4> QED BY <3>3, <4>1, <4>2
    <3> QED BY <3>1, <3>2, <3>3
  <2>3. f = [i \in 0..(m + 1) |-> Value(f, i)]
    BY <2>2, Zenon
  <2> QED BY <2>3
<1>3. \E f : f = [i \in 0..n |-> Value(f, i)]
  <2>1. n \in S
    BY <1>0, <1>1, <1>2, SetInduction
  <2> QED BY <1>0, <2>1
<1>4. loop = [i \in 0..n |-> Value(loop, i)]
  BY <1>3, Zenon DEF Loop, n
<1>5. Consumed(pattern) = loop[n]
  BY Zenon DEF Consumed, Loop, n
<1> HIDE DEF Value
<1>6. \A i \in 0..n : loop[i] = Value(loop, i)
  BY <1>4
<1> USE DEF Value
<1> QED BY <1>0, <1>5, <1>6 DEF n

\* The tokens of s from each position on.
LEMMA TokensSteps ==
  ASSUME NEW C, NEW s \in Seq(C), NEW run, NEW one, NEW from, from = Tokens(s, run, one)
  PROVE  /\ Meaning(s, run, one) = from[1]
         /\ \A i \in 1..(Len(s) + 1) : from[i] = TokensAt(s, run, one, from, i)
<1> DEFINE n == Len(s)
           At(f, i) == TokensAt(s, run, one, f, i)
           S == {m \in Nat : m <= n => \E f : f = [i \in (n + 1 - m)..(n + 1) |-> At(f, i)]}
<1>0. n \in Nat
  OBVIOUS
<1>a. ASSUME NEW f, NEW g, NEW i \in 1..(n + 1), i <= n => f[i + 1] = g[i + 1],
             i < n => f[i + 2] = g[i + 2]
      PROVE  At(f, i) = At(g, i)
  BY <1>0, <1>a DEF TokensAt
<1> HIDE DEF n, At
<1>1. 0 \in S
  <2> DEFINE f == [i \in (n + 1)..(n + 1) |-> At(<<>>, i)]
  <2>1. ASSUME NEW i \in (n + 1)..(n + 1) PROVE At(<<>>, i) = At(f, i)
    <3>1. i = n + 1 /\ i \in 1..(n + 1)
      BY <1>0
    <3> QED BY <1>0, <1>a, <3>1
  <2>2. f = [i \in (n + 1)..(n + 1) |-> At(f, i)]
    BY <2>1
  <2>3. n + 1 - 0 = n + 1
    BY <1>0
  <2> QED BY <2>2, <2>3
<1>2. ASSUME NEW m \in Nat, m \in S PROVE m + 1 \in S
  <2> SUFFICES ASSUME m + 1 <= n PROVE \E f : f = [i \in (n + 1 - (m + 1))..(n + 1) |-> At(f, i)]
    OBVIOUS
  <2>0. PICK k \in Nat : k = n - m /\ k >= 1 /\ n + 1 - (m + 1) = k /\ n + 1 - m = k + 1 /\ k <= n
    BY <1>0
  <2>1. PICK g : g = [i \in (k + 1)..(n + 1) |-> At(g, i)]
    BY <1>0, <1>2, <2>0
  <2> DEFINE f == [i \in k..(n + 1) |-> IF i = k THEN At(g, k) ELSE g[i]]
  <2>2. ASSUME NEW i \in k..(n + 1) PROVE f[i] = At(f, i)
    <3>1. f[i] = At(g, i)
      <4>1. CASE i = k
        BY <4>1
      <4>2. CASE i # k
        <5>1. i \in (k + 1)..(n + 1) /\ f[i] = g[i]
          BY <1>0, <2>0, <4>2
        <5> QED BY <2>1, <5>1
      <4> QED BY <4>1, <4>2
    <3>2. i <= n => f[i + 1] = g[i + 1]
      BY <1>0, <2>0
    <3>3. i < n => f[i + 2] = g[i + 2]
      BY <1>0, <2>0
    <3>4. i \in 1..(n + 1)
      BY <1>0, <2>0
    <3> HIDE DEF f
    <3> QED BY <1>a, <3>1, <3>2, <3>3, <3>4
  <2>3. f = [i \in k..(n + 1) |-> At(f, i)]
    BY <2>2, Zenon
  <2> QED BY <2>0, <2>3
<1>3. \E f : f = [i \in 1..(n + 1) |-> At(f, i)]
  <2>1. n \in S
    BY <1>0, <1>1, <1>2, SetInduction
  <2>2. n + 1 - n = 1
    BY <1>0
  <2> QED BY <1>0, <2>1, <2>2
<1>4. from = [i \in 1..(n + 1) |-> At(from, i)]
  BY <1>3, Zenon DEF Tokens, At, n
<1>5. Meaning(s, run, one) = from[1]
  BY Zenon DEF Meaning, Tokens, TokensAt
<1>6. \A i \in 1..(n + 1) : from[i] = At(from, i)
  BY <1>4
<1> QED BY <1>5, <1>6 DEF At, n

\* What a meaning's tokens are from each position on, by the character there.
TokensOf(C, s, run, one, from) ==
  /\ Meaning(s, run, one) = from[1]
  /\ from[Len(s) + 1] = <<>>
  /\ \A i \in 1..(Len(s) + 1) : from[i] \in Seq(Token(C))
  /\ \A i \in 1..Len(s) :
       /\ from[i] # <<>>
       /\ s[i] = run => from[i] = <<Run>> \o from[i + 1]
       /\ s[i] = one => from[i] = <<One>> \o from[i + 1]
       /\ s[i] = "\\" /\ s[i] \notin {run, one} /\ i < Len(s)
            => from[i] = <<Only(s[i + 1])>> \o from[i + 2]
       /\ s[i] \notin {run, one, "\\"} => from[i] = <<Only(s[i])>> \o from[i + 1]

\* So it is: in particular only empty behind the last character.
LEMMA TokensCases ==
  ASSUME NEW C, NEW s \in Seq(C), NEW run, NEW one, run # one, run # "\\", one # "\\",
         NEW from, from = Tokens(s, run, one)
  PROVE  TokensOf(C, s, run, one, from)
<1> DEFINE n == Len(s)
           S == {m \in Nat : m <= n => from[n + 1 - m] \in Seq(Token(C))
                                       /\ (m > 0 => from[n + 2 - m] \in Seq(Token(C)))}
<1>0. n \in Nat
  OBVIOUS
<1>1. \A i \in 1..(n + 1) : from[i] = TokensAt(s, run, one, from, i)
  BY TokensSteps
<1>2. from[n + 1] = <<>>
  <2>1. n + 1 > Len(s) /\ n + 1 \in 1..(n + 1) /\ ~(n + 1 <= Len(s)) /\ ~(n + 1 < Len(s))
    BY <1>0
  <2>2. TokensAt(s, run, one, from, n + 1) = <<>>
    BY <2>1, Zenon DEF TokensAt
  <2> QED BY <1>1, <2>1, <2>2
<1>3. ASSUME NEW i \in 1..n
      PROVE  /\ s[i] = run => from[i] = <<Run>> \o from[i + 1]
             /\ s[i] = one => from[i] = <<One>> \o from[i + 1]
             /\ s[i] = "\\" /\ s[i] \notin {run, one} /\ i < n
                  => from[i] = <<Only(s[i + 1])>> \o from[i + 2]
             /\ s[i] \notin {run, one} /\ (s[i] # "\\" \/ i = n)
                  => from[i] = <<Only(s[i])>> \o from[i + 1]
  <2>1. from[i] = TokensAt(s, run, one, from, i)
    BY <1>0, <1>1
  <2>2. i <= Len(s) /\ ~(i > Len(s)) /\ (i < Len(s) <=> i # n)
    BY <1>0
  <2>3. CASE s[i] = run
    <3>1. from[i] = <<Run>> \o from[i + 1]
      BY <2>1, <2>2, <2>3, Zenon DEF TokensAt
    <3> QED BY <2>3, <3>1
  <2>4. CASE s[i] = one
    <3>1. from[i] = <<One>> \o from[i + 1]
      BY <2>1, <2>2, <2>4, Zenon DEF TokensAt
    <3> QED BY <2>4, <3>1
  <2>5. CASE s[i] \notin {run, one} /\ s[i] = "\\" /\ i < n
    <3>1. s[i] # run /\ s[i] # one /\ s[i] = "\\" /\ i < Len(s)
      BY <2>5
    <3>2. from[i] = <<Only(s[i + 1])>> \o from[i + 2]
      BY <2>1, <2>2, <3>1, Zenon DEF TokensAt
    <3> QED BY <1>0, <2>5, <3>2
  <2>6. CASE s[i] \notin {run, one} /\ (s[i] # "\\" \/ i = n)
    <3>1. s[i] # run /\ s[i] # one /\ ~(i < Len(s) /\ s[i] = "\\")
      BY <2>2, <2>6
    <3>2. from[i] = <<Only(s[i])>> \o from[i + 1]
      BY <2>1, <2>2, <3>1, Zenon DEF TokensAt
    <3> QED BY <1>0, <2>6, <3>2
  <2>7. s[i] # "\\" \/ i = n \/ i < n
    BY <1>0
  <2> QED BY <2>3, <2>4, <2>5, <2>6, <2>7
<1>4. ASSUME NEW i \in 1..n
      PROVE  \/ \E t \in Token(C) : from[i] = <<t>> \o from[i + 1]
             \/ i < n /\ \E t \in Token(C) : from[i] = <<t>> \o from[i + 2]
  <2>1. s[i] \in C /\ (i < n => s[i + 1] \in C)
    BY <1>0
  <2>2. Run \in Token(C) /\ One \in Token(C) /\ \A c \in C : Only(c) \in Token(C)
    BY DEF Token
  <2>3. CASE s[i] \in {run, one}
    BY <1>3, <2>2, <2>3
  <2>4. CASE s[i] \notin {run, one} /\ s[i] = "\\" /\ i < n
    BY <1>3, <2>1, <2>2, <2>4
  <2>5. CASE s[i] \notin {run, one} /\ (s[i] # "\\" \/ i = n)
    BY <1>3, <2>1, <2>2, <2>5
  <2>6. s[i] # "\\" \/ i = n \/ i < n
    BY <1>0
  <2> QED BY <2>3, <2>4, <2>5, <2>6
<1> HIDE DEF n
<1>5. 0 \in S
  <2>1. <<>> \in Seq(Token(C))
    OBVIOUS
  <2>2. n + 1 - 0 = n + 1 /\ ~(0 > 0) /\ 0 \in Nat
    BY <1>0
  <2> QED BY <1>2, <2>1, <2>2
<1>6. ASSUME NEW m \in Nat, m \in S PROVE m + 1 \in S
  <2> SUFFICES ASSUME m + 1 <= n
               PROVE  /\ from[n + 1 - (m + 1)] \in Seq(Token(C))
                      /\ from[n + 2 - (m + 1)] \in Seq(Token(C))
    OBVIOUS
  <2>1. PICK k \in 1..n : k = n - m /\ n + 1 - (m + 1) = k /\ n + 1 - m = k + 1 /\ n + 2 - (m + 1) = k + 1
    BY <1>0
  <2>2. from[k + 1] \in Seq(Token(C))
    BY <1>0, <1>6, <2>1
  <2>3. k + 2 <= n + 1 => from[k + 2] \in Seq(Token(C))
    <3>1. k + 2 <= n + 1 => m > 0 /\ n + 2 - m = k + 2
      BY <1>0, <2>1
    <3> QED BY <1>0, <1>6, <3>1
  <2>4. PICK t \in Token(C), rest \in Seq(Token(C)) : from[k] = <<t>> \o rest
    <3>1. k < n => k + 2 <= n + 1
      BY <1>0
    <3> QED BY <1>4, <2>2, <2>3, <3>1
  <2>5. <<t>> \o rest \in Seq(Token(C))
    OBVIOUS
  <2> QED BY <2>1, <2>2, <2>4, <2>5
<1>7. \A i \in 1..(n + 1) : from[i] \in Seq(Token(C))
  <2> SUFFICES ASSUME NEW i \in 1..(n + 1) PROVE from[i] \in Seq(Token(C))
    OBVIOUS
  <2>1. n + 1 - i \in Nat /\ n + 1 - (n + 1 - i) = i
    BY <1>0
  <2>2. CASE i = n + 1
    <3>1. <<>> \in Seq(Token(C))
      OBVIOUS
    <3> QED BY <1>2, <2>2, <3>1
  <2>3. CASE i # n + 1
    <3>1. n + 1 - i <= n
      BY <1>0
    <3>2. n + 1 - i \in S
      <4> HIDE DEF S
      <4> QED BY <1>5, <1>6, <2>1, SetInduction
    <3> QED BY <2>1, <3>1, <3>2
  <2> QED BY <2>2, <2>3
<1>8. ASSUME NEW i \in 1..n PROVE from[i] # <<>>
  <2>1. PICK t \in Token(C), rest \in Seq(Token(C)) : from[i] = <<t>> \o rest
    <3>1. i + 1 \in 1..(n + 1) /\ (i < n => i + 2 \in 1..(n + 1))
      BY <1>0
    <3> QED BY <1>4, <1>7, <3>1
  <2>2. Len(<<t>> \o rest) = 1 + Len(rest) /\ Len(rest) \in Nat
    OBVIOUS
  <2> QED BY <2>1, <2>2
<1>9. Meaning(s, run, one) = from[1]
  BY TokensSteps
<1> QED BY <1>2, <1>3, <1>7, <1>8, <1>9 DEF n, TokensOf
-----------------------------------------------------------------------------
(* The loop.                                                               *)

\* What a character adds to the wildcard query.
Added(st, c) ==
  CASE st.escape                -> Escaped(c)
    [] ~st.escape /\ c = "\\"   -> <<>>
    [] ~st.escape /\ c = "%"    -> <<"*">>
    [] ~st.escape /\ c = "_"    -> <<"?">>
    [] OTHER                    -> Escaped(c)

\* An escaped character, as characters of a clause.
LEMMA EscapedType == \A c \in Char : Escaped(c) \in Seq(WildChar) /\ Len(Escaped(c)) \in {1, 2}
<1> SUFFICES ASSUME NEW c \in Char PROVE Escaped(c) \in Seq(WildChar) /\ Len(Escaped(c)) \in {1, 2}
  OBVIOUS
<1>1. c \in WildChar /\ "\\" \in WildChar
  BY DEF WildChar
<1>2. <<c>> \in Seq(WildChar) /\ <<"\\", c>> \in Seq(WildChar)
  BY <1>1
<1> QED BY <1>2 DEF Escaped

\* One round of the loop.
LEMMA ConsumeType ==
  ASSUME NEW st \in LoopState, NEW c \in Char, NEW last \in BOOLEAN
  PROVE  /\ Consume(st, c, last) \in LoopState
         /\ Added(st, c) \in Seq(WildChar)
         /\ Consume(st, c, last).wildcard = st.wildcard \o Added(st, c)
<1>1. /\ st.prefix \in Seq(Char) /\ st.wildcard \in Seq(WildChar)
      /\ st.seen_wild \in BOOLEAN /\ st.pure_prefix \in BOOLEAN /\ st.escape \in BOOLEAN
  BY DEF LoopState, WildChar
<1>2. /\ Escaped(c) \in Seq(WildChar) /\ <<>> \in Seq(WildChar)
      /\ <<"*">> \in Seq(WildChar) /\ <<"?">> \in Seq(WildChar)
  <2>1. "*" \in WildChar /\ "?" \in WildChar
    BY DEF WildChar
  <2>2. <<"*">> \in Seq(WildChar) /\ <<"?">> \in Seq(WildChar)
    BY <2>1
  <2>3. <<>> \in Seq(WildChar)
    OBVIOUS
  <2> QED BY <2>2, <2>3, EscapedType
<1>3. Append(st.prefix, c) \in Seq(Char)
  BY <1>1
<1>4. \A t \in Seq(WildChar) : st.wildcard \o t \in Seq(WildChar)
  BY <1>1
<1>5. /\ Append(st.wildcard, "*") = st.wildcard \o <<"*">>
      /\ Append(st.wildcard, "?") = st.wildcard \o <<"?">>
      /\ st.wildcard \o <<>> = st.wildcard
  BY <1>1
<1>6. /\ Literally(st, c).wildcard = st.wildcard \o Escaped(c)
      /\ Literally(st, c) \in LoopState
  BY <1>1, <1>2, <1>3, <1>4 DEF Literally, LoopState, WildChar
<1>7. CASE st.escape \/ c \notin {"\\", "%", "_"}
  <2>1. Consume(st, c, last) = Literally(st, c) /\ Added(st, c) = Escaped(c)
    BY <1>7 DEF Consume, Added
  <2> QED BY <1>2, <1>6, <2>1
<1>8. CASE ~st.escape /\ c = "\\"
  <2>1. Consume(st, c, last) = [st EXCEPT !.escape = TRUE] /\ Added(st, c) = <<>>
    BY <1>8 DEF Consume, Added
  <2>2. [st EXCEPT !.escape = TRUE] \in LoopState /\ [st EXCEPT !.escape = TRUE].wildcard = st.wildcard
    BY DEF LoopState
  <2> QED BY <1>2, <1>5, <2>1, <2>2
<1>9. CASE ~st.escape /\ c = "%"
  <2>1. Consume(st, c, last) = Percent(st, last) /\ Added(st, c) = <<"*">>
    BY <1>9 DEF Consume, Added
  <2>2. /\ Percent(st, last).wildcard = st.wildcard \o <<"*">>
        /\ Percent(st, last) \in LoopState
    BY <1>1, <1>2, <1>4, <1>5 DEF Percent, LoopState, WildChar
  <2> QED BY <1>2, <2>1, <2>2
<1>10. CASE ~st.escape /\ c = "_"
  <2>1. Consume(st, c, last) = Underscore(st) /\ Added(st, c) = <<"?">>
    BY <1>10 DEF Consume, Added
  <2>2. /\ Underscore(st).wildcard = st.wildcard \o <<"?">>
        /\ Underscore(st) \in LoopState
    BY <1>1, <1>2, <1>4, <1>5 DEF Underscore, LoopState, WildChar
  <2> QED BY <1>2, <2>1, <2>2
<1> QED BY <1>1, <1>7, <1>8, <1>9, <1>10

\* The loop's states.
LEMMA LoopType ==
  ASSUME NEW pattern \in Pattern, NEW loop, loop = Loop(pattern)
  PROVE  \A i \in 0..Len(pattern) : loop[i] \in LoopState
<1> DEFINE n == Len(pattern)
           S == {m \in Nat : m <= n => loop[m] \in LoopState}
<1>0. n \in Nat
  BY DEF Pattern
<1>1. 0 \in S
  <2>1. <<>> \in Seq(Char) /\ <<>> \in Seq(Char \cup {"*", "?", "\\"})
    OBVIOUS
  <2>2. Start \in LoopState
    BY <2>1 DEF Start, LoopState
  <2> QED BY <2>2, LoopSteps
<1>2. ASSUME NEW m \in Nat, m \in S PROVE m + 1 \in S
  <2> SUFFICES ASSUME m + 1 <= n PROVE loop[m + 1] \in LoopState
    OBVIOUS
  <2>1. loop[m + 1] = Consume(loop[m + 1 - 1], pattern[m + 1], m + 1 = n)
    BY <1>0, LoopSteps
  <2>2. loop[m] \in LoopState /\ pattern[m + 1] \in Char /\ m + 1 - 1 = m
    BY <1>0, <1>2 DEF Pattern
  <2>3. (m + 1 = n) \in BOOLEAN
    OBVIOUS
  <2>4. Consume(loop[m], pattern[m + 1], m + 1 = n) \in LoopState
    BY <2>2, <2>3, ConsumeType
  <2> QED BY <2>1, <2>2, <2>4
<1>3. Nat \subseteq S
  <2> HIDE DEF S
  <2> QED BY <1>1, <1>2, SetInduction
<1> QED BY <1>0, <1>3

\* Whether the backslashes at the end of the characters read are odd in number is
\* whether the next character is literal; a pattern that does not dangle ends in none.
LEMMA NoEscapeLeft ==
  ASSUME NEW pattern \in Pattern, NEW loop, loop = Loop(pattern), ~Dangling(pattern)
  PROVE  ~loop[Len(pattern)].escape
<1> DEFINE n == Len(pattern)
           Since(k, m) == /\ k = 0 \/ pattern[k] # "\\"
                          /\ \A i \in (k + 1)..m : pattern[i] = "\\"
                          /\ loop[m].escape <=> (m - k) % 2 = 1
           S == {m \in Nat : m <= n => \E k \in 0..m : Since(k, m)}
<1>0. n \in Nat /\ \A m \in 0..n : loop[m] \in LoopState
  BY LoopType DEF Pattern
<1>1. 0 \in S
  <2>1. ~loop[0].escape
    BY LoopSteps DEF Start
  <2> QED BY <2>1
<1>2. ASSUME NEW m \in Nat, m \in S PROVE m + 1 \in S
  <2> SUFFICES ASSUME m + 1 <= n PROVE \E k \in 0..(m + 1) : Since(k, m + 1)
    OBVIOUS
  <2>1. PICK k \in 0..m : Since(k, m)
    BY <1>0, <1>2
  <2>2. loop[m + 1] = Consume(loop[m], pattern[m + 1], m + 1 = n)
    <3>1. m + 1 - 1 = m /\ m + 1 \in 1..n
      BY <1>0
    <3> QED BY <3>1, LoopSteps
  <2>3. loop[m].escape \in BOOLEAN /\ loop[m] \in LoopState
    BY <1>0 DEF LoopState
  <2>4. CASE pattern[m + 1] # "\\"
    <3>1. ~loop[m + 1].escape
      BY <2>2, <2>3, <2>4 DEF Consume, Literally, Percent, Underscore, LoopState
    <3>2. (m + 1) - (m + 1) = 0 /\ ~(0 % 2 = 1)
      OBVIOUS
    <3>3. Since(m + 1, m + 1)
      BY <2>4, <3>1, <3>2
    <3> QED BY <3>3
  <2>5. CASE pattern[m + 1] = "\\"
    <3>1. loop[m + 1].escape <=> ~loop[m].escape
      BY <2>2, <2>3, <2>5 DEF Consume, Literally, LoopState
    <3>2. ((m + 1) - k) % 2 = 1 <=> ~((m - k) % 2 = 1)
      <4>1. PICK d \in Nat : d = m - k /\ (m + 1) - k = d + 1
        BY <2>1
      <4> QED BY <4>1
    <3>3. \A i \in (k + 1)..(m + 1) : pattern[i] = "\\"
      BY <2>1, <2>5
    <3>4. Since(k, m + 1)
      BY <2>1, <3>1, <3>2, <3>3
    <3> QED BY <3>4
  <2> QED BY <2>4, <2>5
<1>3. n \in S
  <2> HIDE DEF S
  <2> QED BY <1>0, <1>1, <1>2, SetInduction
<1>4. PICK k \in 0..n : Since(k, n)
  BY <1>0, <1>3
<1> QED BY <1>0, <1>4 DEF Dangling

\* The tokens of a pattern.
LEMMA PatternTokens ==
  ASSUME NEW pattern \in Seq(Char)
  PROVE  TokensOf(Char, pattern, "%", "_", Tokens(pattern, "%", "_"))
<1>1. "%" # "_" /\ "%" # "\\" /\ "_" # "\\"
  OBVIOUS
<1> QED BY <1>1, TokensCases, Zenon

\* The tokens of a clause's value.
LEMMA ClauseTokens ==
  ASSUME NEW value \in Seq(WildChar)
  PROVE  TokensOf(WildChar, value, "*", "?", Tokens(value, "*", "?"))
<1>1. "*" # "?" /\ "*" # "\\" /\ "?" # "\\"
  OBVIOUS
<1> QED BY <1>1, TokensCases, Zenon

\* The characters the loop adds to a clause are one token of it, none if the
\* character was a backslash: here of an escaped character.
LEMMA EscapedToken ==
  ASSUME NEW value \in Seq(WildChar), NEW a \in Nat, NEW c \in Char,
         a + Len(Escaped(c)) <= Len(value),
         \A i \in 1..Len(Escaped(c)) : value[a + i] = Escaped(c)[i]
  PROVE  Tokens(value, "*", "?")[a + 1] =
           <<Only(c)>> \o Tokens(value, "*", "?")[a + Len(Escaped(c)) + 1]
<1> DEFINE from == Tokens(value, "*", "?")
<1> SUFFICES from[a + 1] = <<Only(c)>> \o from[a + Len(Escaped(c)) + 1]
  OBVIOUS
<1> HIDE DEF from
<1>0. TokensOf(WildChar, value, "*", "?", from) /\ Len(value) \in Nat
  BY ClauseTokens DEF from
<1>1. CASE c \in {"*", "?", "\\"}
  <2>1. Escaped(c) = <<"\\", c>> /\ Len(Escaped(c)) = 2
    BY <1>1 DEF Escaped
  <2>2. value[a + 1] = "\\" /\ value[a + 2] = c /\ a + 2 <= Len(value)
    BY <2>1
  <2>3. a + 1 \in 1..Len(value) /\ a + 1 < Len(value) /\ a + 1 + 1 = a + 2 /\ a + 1 + 2 = a + 2 + 1
    BY <1>0, <2>2
  <2>4. from[a + 1] = <<Only(value[a + 2])>> \o from[a + 2 + 1]
    BY <1>0, <2>2, <2>3 DEF TokensOf
  <2> QED BY <2>1, <2>2, <2>4
<1>2. CASE c \notin {"*", "?", "\\"}
  <2>1. Escaped(c) = <<c>> /\ Len(Escaped(c)) = 1
    BY <1>2 DEF Escaped
  <2>2. value[a + 1] = c /\ a + 1 \in 1..Len(value)
    BY <1>0, <2>1
  <2>3. from[a + 1] = <<Only(value[a + 1])>> \o from[a + 1 + 1]
    BY <1>0, <1>2, <2>2 DEF TokensOf
  <2> QED BY <2>1, <2>2, <2>3
<1> QED BY <1>1, <1>2

\* The wildcard query for a whole pattern means what the pattern means.
LEMMA WildcardMeansPattern ==
  ASSUME NEW pattern \in Pattern, ~Dangling(pattern)
  PROVE  Meaning(Consumed(pattern).wildcard, "*", "?") = Meaning(pattern, "%", "_")
<1> DEFINE n == Len(pattern)
           loop == Loop(pattern)
           w(k) == loop[k].wildcard
           value == w(n)
           asked == Tokens(pattern, "%", "_")
           made == Tokens(value, "*", "?")
           Begins(k) == /\ Len(w(k)) <= Len(value)
                        /\ \A i \in 1..Len(w(k)) : value[i] = w(k)[i]
           Agrees(k) == Begins(k) /\ (~loop[k].escape => made[Len(w(k)) + 1] = asked[k + 1])
           Add(k) == Added(loop[k], pattern[k + 1])
           S == {j \in Nat : j <= n => Agrees(n - j) /\ (j > 0 => Agrees(n + 1 - j))}
<1>1. n \in Nat /\ pattern \in Seq(Char) /\ \A i \in 1..n : pattern[i] \in Char
  BY DEF Pattern
<1>2. \A k \in 0..n : loop[k] \in LoopState /\ w(k) \in Seq(WildChar) /\ Len(w(k)) \in Nat
  <2>1. \A k \in 0..n : loop[k] \in LoopState
    BY LoopType
  <2>2. \A st \in LoopState : st.wildcard \in Seq(WildChar) /\ Len(st.wildcard) \in Nat
    BY DEF LoopState, WildChar
  <2> HIDE DEF n, loop
  <2> QED BY <2>1, <2>2
<1>3. /\ Consumed(pattern) = loop[n] /\ loop[0] = Start
      /\ \A k \in 0..n - 1 : loop[k + 1] = Consume(loop[k], pattern[k + 1], k + 1 = n)
  <2>1. \A k \in 0..n - 1 : k + 1 \in 1..n /\ k + 1 - 1 = k
    BY <1>1
  <2> QED BY <2>1, LoopSteps
<1>4. ~loop[n].escape
  BY NoEscapeLeft
<1>5. value \in Seq(WildChar) /\ Len(value) \in Nat
  BY <1>1, <1>2
<1>6. TokensOf(Char, pattern, "%", "_", asked)
  BY <1>1, PatternTokens
<1>7. TokensOf(WildChar, value, "*", "?", made)
  BY <1>5, ClauseTokens
<1>8. 0 \in S
  <2>1. n - 0 = n /\ ~(0 > 0) /\ Begins(n)
    BY <1>1, <1>5
  <2>2. made[Len(w(n)) + 1] = asked[n + 1]
    BY <1>6, <1>7 DEF TokensOf
  <2> QED BY <2>1, <2>2
<1>9. ASSUME NEW k \in 0..n - 1, Begins(k + 1)
      PROVE  /\ Begins(k)
             /\ Len(w(k)) + Len(Add(k)) = Len(w(k + 1)) /\ Len(w(k + 1)) <= Len(value)
             /\ \A i \in 1..Len(Add(k)) : value[Len(w(k)) + i] = Add(k)[i]
  <2> DEFINE a == Len(w(k))
             add == Add(k)
  <2>1. /\ k \in 0..n /\ k + 1 \in 0..n /\ pattern[k + 1] \in Char
        /\ loop[k] \in LoopState /\ a \in Nat /\ w(k) \in Seq(WildChar)
    BY <1>1, <1>2
  <2>2. add \in Seq(WildChar) /\ w(k + 1) = w(k) \o add
    <3>1. loop[k + 1] = Consume(loop[k], pattern[k + 1], k + 1 = n) /\ (k + 1 = n) \in BOOLEAN
      BY <1>3
    <3> QED BY <2>1, <3>1, ConsumeType
  <2> HIDE DEF n, loop, value, w, Add
  <2>3. /\ Len(w(k + 1)) = a + Len(add) /\ Len(add) \in Nat
        /\ \A i \in 1..a : w(k + 1)[i] = w(k)[i]
        /\ \A i \in 1..Len(add) : w(k + 1)[a + i] = add[i]
    BY <2>1, <2>2
  <2>4. Len(w(k + 1)) <= Len(value) /\ \A i \in 1..Len(w(k + 1)) : value[i] = w(k + 1)[i]
    BY <1>9
  <2>5. \A i \in 1..a : i \in 1..(a + Len(add))
    BY <2>1, <2>3
  <2>6. \A i \in 1..Len(add) : a + i \in 1..(a + Len(add))
    BY <2>1, <2>3
  <2>7. Begins(k)
    BY <1>5, <2>1, <2>3, <2>4, <2>5
  <2> QED BY <2>3, <2>4, <2>6, <2>7
<1>10. ASSUME NEW k \in 0..n - 1, ~loop[k].escape
       PROVE  /\ loop[k + 1].escape <=> pattern[k + 1] = "\\"
              /\ Add(k) = CASE pattern[k + 1] = "\\" -> <<>>
                            [] pattern[k + 1] = "%"  -> <<"*">>
                            [] pattern[k + 1] = "_"  -> <<"?">>
                            [] OTHER                 -> Escaped(pattern[k + 1])
  <2>1. loop[k + 1] = Consume(loop[k], pattern[k + 1], k + 1 = n) /\ loop[k] \in LoopState
    BY <1>1, <1>2, <1>3
  <2> HIDE DEF n, loop
  <2>2. loop[k + 1].escape <=> pattern[k + 1] = "\\"
    BY <1>10, <2>1 DEF Consume, Literally, Percent, Underscore, LoopState
  <2> QED BY <1>10, <2>2 DEF Added
<1>11. ASSUME NEW k \in 0..n - 1, loop[k].escape
       PROVE  ~loop[k + 1].escape /\ Add(k) = Escaped(pattern[k + 1])
  <2>1. loop[k + 1] = Consume(loop[k], pattern[k + 1], k + 1 = n) /\ loop[k] \in LoopState
    BY <1>1, <1>2, <1>3
  <2> HIDE DEF n, loop
  <2> QED BY <1>11, <2>1 DEF Consume, Literally, LoopState, Added
<1>12. ASSUME NEW k \in 0..n - 1, Agrees(k + 1), k + 2 <= n => Agrees(k + 2) PROVE Agrees(k)
  <2> DEFINE a == Len(w(k))
             c == pattern[k + 1]
  <2>1. /\ k \in 0..n /\ k + 1 \in 1..n /\ k + 1 + 1 = k + 2 /\ k + 1 + 2 = k + 3
        /\ c \in Char /\ a \in Nat
    BY <1>1, <1>2
  <2>2. /\ Begins(k)
        /\ a + Len(Add(k)) = Len(w(k + 1)) /\ Len(w(k + 1)) <= Len(value)
        /\ \A i \in 1..Len(Add(k)) : value[a + i] = Add(k)[i]
    BY <1>9, <1>12
  <2> SUFFICES ASSUME ~loop[k].escape PROVE made[a + 1] = asked[k + 1]
    BY <2>2
  <2> HIDE DEF n, loop, value, w, asked, Add
  <2>3. loop[k + 1].escape <=> c = "\\"
    BY <1>10
  <2>4. CASE c = "\\"
    <3>1. Add(k) = <<>> /\ Len(w(k + 1)) = a
      <4>1. Add(k) = <<>>
        BY <1>10, <2>4
      <4> QED BY <2>1, <2>2, <4>1
    <3>2. k + 1 \in 0..n - 1 /\ k + 2 \in 1..n /\ k + 1 < n
      <4>1. k + 1 # n
        BY <1>4, <2>3, <2>4
      <4> QED BY <1>1, <2>1, <4>1
    <3> DEFINE d == pattern[k + 2]
    <3>3. ~loop[k + 2].escape /\ Add(k + 1) = Escaped(d) /\ d \in Char
      BY <1>1, <1>11, <2>1, <2>3, <2>4, <3>2
    <3>4. Agrees(k + 2) /\ Begins(k + 2)
      BY <1>12, <2>1, <3>2
    <3>5. /\ a + Len(Escaped(d)) = Len(w(k + 2)) /\ Len(w(k + 2)) <= Len(value)
          /\ \A i \in 1..Len(Escaped(d)) : value[a + i] = Escaped(d)[i]
      <4> HIDE DEF Begins, Agrees
      <4> QED BY <1>9, <2>1, <3>1, <3>2, <3>3, <3>4
    <3>6. made[a + 1] = <<Only(d)>> \o made[Len(w(k + 2)) + 1]
      <4> HIDE DEF d, a
      <4>1. made[a + 1] = <<Only(d)>> \o made[a + Len(Escaped(d)) + 1]
        BY <1>5, <2>1, <3>3, <3>5, EscapedToken
      <4> HIDE DEF made
      <4> QED BY <3>5, <4>1
    <3>7. made[Len(w(k + 2)) + 1] = asked[k + 3]
      BY <2>1, <3>3, <3>4
    <3>8. asked[k + 1] = <<Only(d)>> \o asked[k + 3]
      <4> HIDE DEF made
      <4>1. "\\" \notin {"%", "_"}
        OBVIOUS
      <4> QED BY <1>6, <2>1, <2>4, <3>2, <4>1 DEF TokensOf, n
    <3> QED BY <3>6, <3>7, <3>8
  <2>5. ASSUME c # "\\" PROVE made[Len(w(k + 1)) + 1] = asked[k + 2]
    BY <1>12, <2>1, <2>3, <2>5
  <2>6. CASE c \in {"%", "_"}
    <3> DEFINE token == IF c = "%" THEN Run ELSE One
    <3>1. Add(k) = IF c = "%" THEN <<"*">> ELSE <<"?">>
      BY <1>10, <2>6
    <3>2. Len(w(k + 1)) = a + 1 /\ value[a + 1] = (IF c = "%" THEN "*" ELSE "?")
      BY <2>1, <2>2, <3>1
    <3>3. a + 1 \in 1..Len(value) /\ a + 1 + 1 = Len(w(k + 1)) + 1
      BY <1>5, <2>1, <2>2, <3>2
    <3>4. made[a + 1] = <<token>> \o made[a + 1 + 1]
      <4> HIDE DEF made
      <4> QED BY <1>7, <2>6, <3>2, <3>3 DEF TokensOf
    <3>5. asked[k + 1] = <<token>> \o asked[k + 2]
      <4> HIDE DEF made
      <4> QED BY <1>6, <2>1, <2>6 DEF TokensOf, n
    <3>6. c # "\\"
      BY <2>6
    <3> HIDE DEF made, a, c, token
    <3>7. made[a + 1 + 1] = asked[k + 2]
      BY <2>5, <3>3, <3>6
    <3> QED BY <3>4, <3>5, <3>7
  <2>7. CASE c \notin {"\\", "%", "_"}
    <3>1. Add(k) = Escaped(c)
      BY <1>10, <2>7
    <3>2. made[a + 1] = <<Only(c)>> \o made[Len(w(k + 1)) + 1]
      <4> HIDE DEF c, a
      <4>1. /\ a + Len(Escaped(c)) = Len(w(k + 1)) /\ a + Len(Escaped(c)) <= Len(value)
            /\ \A i \in 1..Len(Escaped(c)) : value[a + i] = Escaped(c)[i]
        BY <2>2, <3>1
      <4>2. made[a + 1] = <<Only(c)>> \o made[a + Len(Escaped(c)) + 1]
        BY <1>5, <2>1, <4>1, EscapedToken
      <4> HIDE DEF made
      <4> QED BY <4>1, <4>2
    <3>3. asked[k + 1] = <<Only(c)>> \o asked[k + 2]
      <4> HIDE DEF made
      <4> QED BY <1>6, <2>1, <2>7 DEF TokensOf, n
    <3> QED BY <2>5, <2>7, <3>2, <3>3
  <2> QED BY <2>4, <2>6, <2>7
<1>13. ASSUME NEW m \in Nat, m \in S PROVE m + 1 \in S
  <2> DEFINE k == n - (m + 1)
  <2> HIDE DEF Agrees, n
  <2>1. ASSUME m + 1 <= n PROVE Agrees(n - (m + 1)) /\ Agrees(n + 1 - (m + 1))
    <3>1. /\ k \in 0..n - 1 /\ k + 1 = n - m /\ k + 1 = n + 1 - (m + 1) /\ k + 2 = n + 1 - m
          /\ (k + 2 <= n => m > 0) /\ m <= n
      BY <1>1, <2>1
    <3>2. Agrees(k + 1) /\ (k + 2 <= n => Agrees(k + 2))
      <4> HIDE DEF k
      <4> QED BY <1>13, <3>1
    <3>3. Agrees(k)
      <4> HIDE DEF k
      <4> QED BY <1>12, <3>1, <3>2
    <3> QED BY <3>1, <3>2, <3>3
  <2> QED BY <2>1
<1>14. made[1] = asked[1]
  <2>1. n \in S
    <3> HIDE DEF S
    <3> QED BY <1>1, <1>8, <1>13, SetInduction
  <2>2. n - n = 0
    BY <1>1
  <2> HIDE DEF Agrees
  <2>3. Agrees(0)
    BY <1>1, <2>1, <2>2
  <2>4. ~loop[0].escape /\ w(0) = <<>> /\ Len(w(0)) = 0
    BY <1>3 DEF Start
  <2> USE DEF Agrees
  <2> HIDE DEF loop, w, made, asked
  <2> QED BY <2>3, <2>4
<1>15. Meaning(Consumed(pattern).wildcard, "*", "?") = made[1]
  <2>1. Consumed(pattern).wildcard = value
    BY <1>3
  <2>2. Meaning(value, "*", "?") = made[1]
    BY <1>7, Zenon DEF TokensOf
  <2> HIDE DEF value, made
  <2> QED BY <2>1, <2>2
<1>16. Meaning(pattern, "%", "_") = asked[1]
  BY <1>6, Zenon DEF TokensOf
<1> HIDE DEF made, asked, value
<1> QED BY <1>14, <1>15, <1>16
-----------------------------------------------------------------------------
(* The prefix query.                                                       *)

\* The tokens of characters that stand for themselves.
Plain(prefix) == [i \in 1..Len(prefix) |-> Only(prefix[i])]

\* One more of them.
LEMMA PlainAppend ==
  ASSUME NEW prefix \in Seq(Char), NEW c \in Char, NEW T, NEW rest \in Seq(T)
  PROVE  Plain(prefix) \o (<<Only(c)>> \o rest) = Plain(Append(prefix, c)) \o rest
<1> DEFINE U == Token(Char) \cup T
           n == Len(prefix)
           p == Plain(prefix)
           q == Plain(Append(prefix, c))
           tail == <<Only(c)>> \o rest
<1>1. n \in Nat /\ Append(prefix, c) \in Seq(Char) /\ Len(Append(prefix, c)) = n + 1
  OBVIOUS
<1>2. Only(c) \in U /\ \A d \in Char : Only(d) \in U
  BY DEF Token
<1>3. p \in Seq(U) /\ Len(p) = n
  <2>1. p \in [1..n -> U]
    BY <1>2 DEF Plain
  <2> QED BY <1>1, <2>1
<1>4. q \in Seq(U) /\ Len(q) = n + 1
  <2>1. q \in [1..n + 1 -> U]
    BY <1>1, <1>2 DEF Plain
  <2> QED BY <1>1, <2>1
<1>5. (\A i \in 1..n : q[i] = p[i]) /\ q[n + 1] = Only(c)
  BY <1>1 DEF Plain
<1>6. rest \in Seq(U)
  OBVIOUS
<1> HIDE DEF U, n, p, q
<1>7. /\ tail \in Seq(U) /\ Len(tail) = 1 + Len(rest) /\ Len(rest) \in Nat
      /\ tail[1] = Only(c) /\ \A i \in 1..Len(rest) : tail[1 + i] = rest[i]
  BY <1>2, <1>6
<1> HIDE DEF tail
<1> DEFINE left == p \o tail
           right == q \o rest
<1>8. /\ left \in Seq(U) /\ right \in Seq(U)
      /\ Len(left) = n + 1 + Len(rest) /\ Len(right) = n + 1 + Len(rest)
  <2>1. left \in Seq(U) /\ Len(left) = Len(p) + Len(tail)
    <3>1. p \in Seq(U) /\ tail \in Seq(U)
      BY <1>3, <1>7
    <3> QED BY <3>1
  <2>2. right \in Seq(U) /\ Len(right) = Len(q) + Len(rest)
    BY <1>4, <1>6
  <2> HIDE DEF left, right
  <2> QED BY <1>1, <1>3, <1>4, <1>7, <2>1, <2>2
<1>9. ASSUME NEW i \in 1..(n + 1 + Len(rest)) PROVE left[i] = right[i]
  <2>1. CASE i <= n
    BY <1>1, <1>3, <1>4, <1>5, <1>6, <1>7, <2>1
  <2>2. CASE i = n + 1
    BY <1>1, <1>3, <1>4, <1>5, <1>6, <1>7, <2>2
  <2>3. CASE i > n + 1
    <3>1. PICK j \in 1..Len(rest) : i = n + 1 + j /\ i - n = 1 + j /\ i - (n + 1) = j
      <4>1. i - (n + 1) \in 1..Len(rest)
        BY <1>1, <1>7, <2>3
      <4> QED BY <1>1, <1>7, <4>1
    <3>2. left[i] = tail[1 + j]
      BY <1>1, <1>3, <1>7, <3>1
    <3>3. right[i] = rest[j]
      BY <1>1, <1>4, <1>6, <3>1
    <3> QED BY <1>7, <3>2, <3>3
  <2> HIDE DEF left, right
  <2> QED BY <1>1, <1>7, <2>1, <2>2, <2>3
<1> HIDE DEF left, right
<1>10. left = right
  BY <1>8, <1>9
<1> QED BY <1>10 DEF left, right, p, q, tail

\* What the loop has noted by the time it has read k characters.  Up to the first
\* wildcard the prefix has every character read; from then on it keeps those before
\* it, and is pure if that wildcard is a % at the end.
Noted(pattern, st, asked, k) ==
  IF ~st.seen_wild
    THEN /\ st.pure_prefix
         /\ st.escape => k >= 1 /\ pattern[k] = "\\"
         /\ asked[1] = Plain(st.prefix) \o asked[IF st.escape THEN k ELSE k + 1]
    ELSE \E m \in 1..k :
           /\ pattern[m] \in {"%", "_"}
           /\ asked[1] = Plain(st.prefix) \o asked[m]
           /\ st.pure_prefix <=> pattern[m] = "%" /\ m = Len(pattern)

\* So it has of every pattern.
LEMMA PrefixNoted ==
  ASSUME NEW pattern \in Pattern
  PROVE  \A k \in 0..Len(pattern) :
           Noted(pattern, Loop(pattern)[k], Tokens(pattern, "%", "_"), k)
<1> DEFINE n == Len(pattern)
           loop == Loop(pattern)
           asked == Tokens(pattern, "%", "_")
           S == {k \in Nat : k <= n => Noted(pattern, loop[k], asked, k)}
<1>1. n \in Nat /\ pattern \in Seq(Char)
  BY DEF Pattern
<1>2. TokensOf(Char, pattern, "%", "_", asked)
  BY <1>1, PatternTokens
<1>3. \A k \in 0..n : loop[k] \in LoopState
  BY LoopType
<1>4. loop[0] = Start /\ \A k \in 0..n - 1 : loop[k + 1] = Consume(loop[k], pattern[k + 1], k + 1 = n)
  <2>1. \A k \in 0..n - 1 : k + 1 \in 1..n /\ k + 1 - 1 = k
    BY <1>1
  <2> QED BY <2>1, LoopSteps
<1>5. \A i \in 1..(n + 1) : asked[i] \in Seq(Token(Char))
  BY <1>2 DEF TokensOf
<1>6. 0 \in S
  <2>1. Plain(<<>>) \o asked[1] = asked[1]
    <3>1. Plain(<<>>) = <<>>
      BY DEF Plain
    <3>2. asked[1] \in Seq(Token(Char))
      <4>1. 1 \in 1..(n + 1)
        BY <1>1
      <4> HIDE DEF asked, n
      <4> QED BY <1>5, <4>1
    <3> HIDE DEF asked
    <3> QED BY <3>1, <3>2
  <2>2. ~Start.seen_wild /\ ~Start.escape /\ Start.pure_prefix /\ Start.prefix = <<>>
    BY DEF Start
  <2> HIDE DEF asked, loop
  <2>3. Noted(pattern, Start, asked, 0)
    BY <2>1, <2>2 DEF Noted
  <2> QED BY <1>4, <2>3
<1> HIDE DEF loop, asked
<1>7. ASSUME NEW k \in Nat, k \in S PROVE k + 1 \in S
  <2> DEFINE st == loop[k]
             next == loop[k + 1]
             c == pattern[k + 1]
  <2> SUFFICES ASSUME k + 1 <= n PROVE Noted(pattern, next, asked, k + 1)
    OBVIOUS
  <2>1. Noted(pattern, st, asked, k) /\ k \in 0..n - 1 /\ k + 1 \in 1..n /\ c \in Char /\ k + 1 + 1 = k + 2
    BY <1>1, <1>7
  <2>2. /\ st \in LoopState /\ next = Consume(st, c, k + 1 = n)
        /\ st.prefix \in Seq(Char) /\ st.pure_prefix \in BOOLEAN
    <3>1. st \in LoopState /\ next = Consume(st, c, k + 1 = n)
      BY <1>1, <1>3, <1>4, <2>1
    <3> QED BY <3>1 DEF LoopState
  <2> HIDE DEF n
  <2>3. CASE st.seen_wild
    <3>1. PICK m \in 1..k : /\ pattern[m] \in {"%", "_"}
                            /\ asked[1] = Plain(st.prefix) \o asked[m]
                            /\ st.pure_prefix <=> pattern[m] = "%" /\ m = n
      BY <2>1, <2>3 DEF Noted, n
    <3>2. m # n /\ m \in 1..(k + 1)
      <4> HIDE DEF S
      <4> QED BY <1>1, <2>1
    <3>4. ~st.pure_prefix
      BY <3>1, <3>2
    <3>3. next.seen_wild /\ next.prefix = st.prefix /\ ~next.pure_prefix
      BY <2>2, <2>3, <3>4 DEF Consume, Literally, Percent, Underscore, LoopState
    <3> QED BY <3>1, <3>2, <3>3 DEF Noted, n
  <2>4. CASE ~st.seen_wild
    <3>1. /\ st.pure_prefix
          /\ st.escape => k >= 1 /\ pattern[k] = "\\"
          /\ asked[1] = Plain(st.prefix) \o asked[IF st.escape THEN k ELSE k + 1]
      BY <2>1, <2>4 DEF Noted
    <3>2. CASE st.escape \/ c \notin {"\\", "%", "_"}
      <4>1. next = Literally(st, c)
        BY <2>2, <3>2 DEF Consume
      <4>2. /\ ~next.seen_wild /\ next.pure_prefix /\ ~next.escape
            /\ next.prefix = Append(st.prefix, c)
        BY <2>2, <2>4, <3>1, <4>1 DEF Literally, LoopState
      <4>3. asked[IF st.escape THEN k ELSE k + 1] = <<Only(c)>> \o asked[k + 2]
        <5>1. CASE st.escape
          <6>1. k >= 1 /\ pattern[k] = "\\" /\ pattern[k] \notin {"%", "_"}
            BY <3>1, <5>1
          <6>2. k \in 1..n /\ k < n
            BY <1>1, <2>1, <6>1
          <6> QED BY <1>2, <5>1, <6>1, <6>2 DEF TokensOf, n
        <5>2. CASE ~st.escape
          BY <1>2, <2>1, <3>2, <5>2 DEF TokensOf, n
        <5> QED BY <5>1, <5>2
      <4>4. asked[1] = Plain(next.prefix) \o asked[k + 2]
        <5>1. asked[k + 2] \in Seq(Token(Char))
          BY <1>1, <1>5, <2>1
        <5>2. Plain(st.prefix) \o (<<Only(c)>> \o asked[k + 2]) = Plain(Append(st.prefix, c)) \o asked[k + 2]
          BY <2>1, <2>2, <5>1, PlainAppend
        <5> QED BY <3>1, <4>2, <4>3, <5>2
      <4> QED BY <2>1, <4>2, <4>4 DEF Noted
    <3>3. CASE ~st.escape /\ c = "\\"
      <4>1. next = [st EXCEPT !.escape = TRUE]
        BY <2>2, <3>3 DEF Consume
      <4>2. ~next.seen_wild /\ next.pure_prefix /\ next.escape /\ next.prefix = st.prefix
        BY <2>2, <2>4, <3>1, <4>1 DEF LoopState
      <4>3. /\ k + 1 >= 1 /\ pattern[k + 1] = "\\"
            /\ asked[1] = Plain(next.prefix) \o asked[k + 1]
        <5>1. asked[1] = Plain(st.prefix) \o asked[k + 1]
          BY <3>1, <3>3, Zenon
        <5>2. Plain(st.prefix) = Plain(next.prefix)
          BY <4>2, Zenon
        <5> HIDE DEF st, next
        <5> QED BY <3>3, <5>1, <5>2
      <4> HIDE DEF next
      <4> QED BY <4>2, <4>3 DEF Noted
    <3>4. CASE ~st.escape /\ c \in {"%", "_"}
      <4>1. next = IF c = "%" THEN Percent(st, k + 1 = n) ELSE Underscore(st)
        BY <2>2, <3>4 DEF Consume
      <4>2. /\ next.seen_wild /\ next.prefix = st.prefix
            /\ next.pure_prefix <=> c = "%" /\ k + 1 = n
        BY <2>2, <2>4, <3>1, <3>4, <4>1 DEF Percent, Underscore, LoopState
      <4>3. /\ k + 1 \in 1..(k + 1) /\ pattern[k + 1] \in {"%", "_"}
            /\ asked[1] = Plain(next.prefix) \o asked[k + 1]
        <5>1. asked[1] = Plain(st.prefix) \o asked[k + 1]
          BY <3>1, <3>4, Zenon
        <5>2. Plain(st.prefix) = Plain(next.prefix)
          BY <4>2, Zenon
        <5>3. k + 1 \in 1..(k + 1)
          BY <2>1
        <5>4. pattern[k + 1] \in {"%", "_"}
          BY <3>4
        <5> HIDE DEF st, next
        <5> QED BY <5>1, <5>2, <5>3, <5>4, Zenon
      <4> HIDE DEF next
      <4>4. next.pure_prefix <=> pattern[k + 1] = "%" /\ k + 1 = Len(pattern)
        BY <4>2 DEF n
      <4> QED BY <4>2, <4>3, <4>4 DEF Noted
    <3> QED BY <3>2, <3>3, <3>4
  <2> QED BY <2>3, <2>4
<1>8. Nat \subseteq S
  <2> HIDE DEF S
  <2> QED BY <1>6, <1>7, SetInduction
<1>9. \A k \in 0..n : Noted(pattern, loop[k], asked, k)
  BY <1>1, <1>8
<1> QED BY <1>9 DEF loop, asked
-----------------------------------------------------------------------------
(* The theorems.                                                           *)

\* The tokens of a pattern, in the whole and from each position on.
Stated(pattern)   == Meaning(pattern, "%", "_")
Expected(pattern) == Tokens(pattern, "%", "_")

\* What holds of them, by the character at a position.
LEMMA ExpectedTokens ==
  ASSUME NEW pattern \in Pattern
  PROVE  /\ Stated(pattern) = Expected(pattern)[1]
         /\ Expected(pattern)[Len(pattern) + 1] = <<>>
         /\ \A i \in 1..(Len(pattern) + 1) : Expected(pattern)[i] \in Seq(Token(Char))
         /\ \A i \in 1..Len(pattern) :
              /\ Expected(pattern)[i] # <<>>
              /\ pattern[i] = "%" => Expected(pattern)[i] = <<Run>> \o Expected(pattern)[i + 1]
              /\ pattern[i] = "_" => Expected(pattern)[i] = <<One>> \o Expected(pattern)[i + 1]
<1>1. pattern \in Seq(Char)
  BY DEF Pattern
<1>2. TokensOf(Char, pattern, "%", "_", Expected(pattern))
  BY <1>1, PatternTokens, Zenon DEF Expected
<1> QED BY <1>2, Zenon DEF TokensOf, Stated

\* What the loop has noted of the whole pattern.
LEMMA AllNoted ==
  ASSUME NEW pattern \in Pattern
  PROVE  Noted(pattern, Consumed(pattern), Expected(pattern), Len(pattern))
<1>1. Len(pattern) \in 0..Len(pattern)
  BY DEF Pattern
<1>2. Consumed(pattern) = Loop(pattern)[Len(pattern)]
  BY LoopSteps
<1>3. Noted(pattern, Loop(pattern)[Len(pattern)], Expected(pattern), Len(pattern))
  BY <1>1, PrefixNoted, Zenon DEF Expected
<1> QED BY <1>2, <1>3, Zenon

\* A sequence of plain tokens.
LEMMA PlainTokens ==
  ASSUME NEW prefix \in Seq(Char)
  PROVE  /\ Plain(prefix) \in Seq(Token(Char)) /\ Len(Plain(prefix)) = Len(prefix)
         /\ \A i \in 1..Len(prefix) : Plain(prefix)[i].any = "no"
<1>1. Plain(prefix) \in [1..Len(prefix) -> Token(Char)] /\ Len(prefix) \in Nat
  BY DEF Plain, Token
<1>2. \A i \in 1..Len(prefix) : Plain(prefix)[i].any = "no"
  BY DEF Plain, Only
<1> QED BY <1>1, <1>2

\* What the loop has noted of a whole pattern, as tokens: only characters; or
\* characters and then the first wildcard, which is a % at the end just when the
\* prefix is pure.
Whole(st, tokens) ==
  /\ st.prefix \in Seq(Char) /\ tokens \in Seq(Token(Char))
  /\ \/ ~st.seen_wild /\ tokens = Plain(st.prefix)
     \/ /\ st.seen_wild /\ st.pure_prefix
        /\ tokens = Plain(st.prefix) \o <<Run>>
     \/ /\ st.seen_wild /\ ~st.pure_prefix
        /\ \E rest \in Seq(Token(Char)) :
             \/ tokens = Plain(st.prefix) \o (<<One>> \o rest)
             \/ rest # <<>> /\ tokens = Plain(st.prefix) \o (<<Run>> \o rest)

\* It is what the loop has noted of a pattern that does not dangle.
LEMMA WholePattern ==
  ASSUME NEW pattern \in Pattern, ~Dangling(pattern)
  PROVE  Whole(Consumed(pattern), Stated(pattern))
<1> SUFFICES ASSUME NEW st, st = Consumed(pattern), NEW tokens, tokens = Stated(pattern)
             PROVE  Whole(st, tokens)
  OBVIOUS
<1> DEFINE n == Len(pattern)
           asked == Expected(pattern)
<1>1. n \in Nat /\ pattern \in Seq(Char)
  BY DEF Pattern
<1>3. st = Loop(pattern)[n] /\ ~st.escape /\ st \in LoopState
  <2>1. st = Loop(pattern)[n] /\ n \in 0..n
    BY <1>1, LoopSteps
  <2>2. ~Loop(pattern)[n].escape
    BY NoEscapeLeft
  <2>3. Loop(pattern)[n] \in LoopState
    BY <2>1, LoopType
  <2> QED BY <2>1, <2>2, <2>3
<1>4. Noted(pattern, st, asked, n)
  BY AllNoted
<1> HIDE DEF asked, n
<1>5. /\ tokens = asked[1] /\ asked[n + 1] = <<>>
      /\ \A i \in 1..(n + 1) : asked[i] \in Seq(Token(Char))
      /\ \A i \in 1..n : /\ asked[i] # <<>>
                         /\ pattern[i] = "%" => asked[i] = <<Run>> \o asked[i + 1]
                         /\ pattern[i] = "_" => asked[i] = <<One>> \o asked[i + 1]
  BY ExpectedTokens, Zenon DEF asked, n
<1>6. st.prefix \in Seq(Char) /\ tokens \in Seq(Token(Char))
  <2>1. 1 \in 1..(n + 1)
    BY <1>1
  <2> QED BY <1>3, <1>5, <2>1 DEF LoopState
<1>7. Plain(st.prefix) \in Seq(Token(Char))
  BY <1>6, PlainTokens
<1>8. CASE ~st.seen_wild
  <2>1. asked[1] = Plain(st.prefix) \o asked[n + 1]
    BY <1>3, <1>4, <1>8, Zenon DEF Noted
  <2>2. tokens = Plain(st.prefix) \o <<>>
    BY <1>5, <2>1, Zenon
  <2>3. tokens = Plain(st.prefix)
    BY <1>7, <2>2
  <2> QED BY <1>6, <1>8, <2>3 DEF Whole
<1>9. CASE st.seen_wild
  <2>1. PICK m \in 1..n : /\ pattern[m] \in {"%", "_"}
                          /\ tokens = Plain(st.prefix) \o asked[m]
                          /\ st.pure_prefix <=> pattern[m] = "%" /\ m = n
    BY <1>4, <1>5, <1>9, Zenon DEF Noted, n
  <2>2. m + 1 \in 1..(n + 1) /\ asked[m + 1] \in Seq(Token(Char))
    <3>1. m + 1 \in 1..(n + 1)
      BY <1>1
    <3> QED BY <1>5, <3>1, Zenon
  <2>3. CASE pattern[m] = "_"
    <3>1. tokens = Plain(st.prefix) \o (<<One>> \o asked[m + 1])
      BY <1>5, <2>1, <2>3, Zenon
    <3>2. ~st.pure_prefix
      BY <2>1, <2>3
    <3> QED BY <1>6, <1>9, <2>2, <3>1, <3>2 DEF Whole
  <2>4. CASE pattern[m] = "%" /\ m # n
    <3>1. tokens = Plain(st.prefix) \o (<<Run>> \o asked[m + 1])
      BY <1>5, <2>1, <2>4, Zenon
    <3>2. ~st.pure_prefix
      BY <2>1, <2>4
    <3>3. asked[m + 1] # <<>>
      <4>1. m + 1 \in 1..n
        BY <1>1, <2>4
      <4> QED BY <1>5, <4>1, Zenon
    <3> QED BY <1>6, <1>9, <2>2, <3>1, <3>2, <3>3 DEF Whole
  <2>5. CASE pattern[m] = "%" /\ m = n
    <3>1. tokens = Plain(st.prefix) \o (<<Run>> \o <<>>)
      BY <1>5, <2>1, <2>5, Zenon
    <3>2. <<Run>> \o <<>> = <<Run>>
      OBVIOUS
    <3>3. st.pure_prefix
      BY <2>1, <2>5
    <3> QED BY <1>6, <1>9, <3>1, <3>2, <3>3 DEF Whole
  <2> QED BY <2>1, <2>3, <2>4, <2>5
<1> QED BY <1>8, <1>9

\* The clause made of any pattern that does not end in an escape of nothing accepts
\* what the pattern does, be it a prefix or a wildcard query (like_to_query).
THEOREM ClauseMeansPattern ==
  ASSUME NEW pattern \in Pattern, ~Dangling(pattern), NEW flag
  PROVE  ClauseMeaning(LikeToQuery(pattern, flag)) = Meaning(pattern, "%", "_")
<1> DEFINE st == Consumed(pattern)
           clause == LikeToQuery(pattern, flag)
<1>1. CASE st.seen_wild /\ st.pure_prefix
  <2>1. clause.query = "prefix" /\ clause.value = st.prefix
    BY <1>1 DEF LikeToQuery
  <2>2. Stated(pattern) = Plain(st.prefix) \o <<Run>>
    BY <1>1, WholePattern DEF Whole
  <2> HIDE DEF clause, st
  <2>3. ClauseMeaning(clause) = Plain(st.prefix) \o <<Run>>
    BY <2>1, Zenon DEF ClauseMeaning, Plain
  <2> QED BY <2>2, <2>3, Zenon DEF clause, Stated
<1>2. CASE ~(st.seen_wild /\ st.pure_prefix)
  <2>1. clause.query = "wildcard" /\ clause.value = st.wildcard
    BY <1>2 DEF LikeToQuery
  <2>2. Meaning(st.wildcard, "*", "?") = Meaning(pattern, "%", "_")
    BY WildcardMeansPattern, Zenon
  <2> HIDE DEF clause, st
  <2>3. ClauseMeaning(clause) = Meaning(st.wildcard, "*", "?")
    BY <2>1 DEF ClauseMeaning
  <2> QED BY <2>2, <2>3, Zenon DEF clause
<1> QED BY <1>1, <1>2, Zenon

\* The prefix query is made of the patterns whose only wildcard is a % at the end,
\* and of all of them.
THEOREM PrefixIsSoleRun ==
  ASSUME NEW pattern \in Pattern, ~Dangling(pattern), NEW flag
  PROVE  LikeToQuery(pattern, flag).query = "prefix"
           <=> EndsInOnlyRun(Meaning(pattern, "%", "_"))
<1> SUFFICES LikeToQuery(pattern, flag).query = "prefix" <=> EndsInOnlyRun(Stated(pattern))
  BY Zenon DEF Stated
<1> DEFINE st == Consumed(pattern)
           tokens == Stated(pattern)
           n == Len(st.prefix)
<1>1. LikeToQuery(pattern, flag).query = "prefix" <=> st.seen_wild /\ st.pure_prefix
  BY DEF LikeToQuery
<1>2. Whole(st, tokens)
  BY WholePattern
<1> SUFFICES LikeToQuery(pattern, flag).query = "prefix" <=> EndsInOnlyRun(tokens)
  OBVIOUS
<1> HIDE DEF st, tokens
<1>3. /\ Plain(st.prefix) \in Seq(Token(Char)) /\ Len(Plain(st.prefix)) = n /\ n \in Nat
      /\ \A i \in 1..n : Plain(st.prefix)[i].any = "no"
  BY <1>2, PlainTokens DEF Whole
<1>4. Run \in Token(Char) /\ One \in Token(Char) /\ Run.any = "run" /\ One.any = "one"
  BY DEF Token, Run, One
<1> DEFINE plain == Plain(st.prefix)
<1> HIDE DEF n, plain
<1>5. CASE ~st.seen_wild /\ tokens = plain
  <2>1. Len(tokens) = n /\ (n # 0 => tokens[n].any = "no")
    BY <1>3, <1>5 DEF plain
  <2>2. ~EndsInOnlyRun(tokens)
    <3> SUFFICES ASSUME EndsInOnlyRun(tokens) PROVE FALSE
      OBVIOUS
    <3>1. tokens # <<>> /\ \A i \in 1..Len(tokens) : tokens[i].any = IF i = Len(tokens) THEN "run" ELSE "no"
      BY DEF EndsInOnlyRun
    <3>2. n # 0 /\ n \in 1..n
      BY <1>2, <1>3, <2>1, <3>1 DEF Whole
    <3> QED BY <2>1, <3>1, <3>2
  <2> QED BY <1>1, <1>5, <2>2
<1>6. CASE st.seen_wild /\ st.pure_prefix /\ tokens = plain \o <<Run>>
  <2>1. /\ Len(tokens) = n + 1 /\ tokens[n + 1] = Run
        /\ \A i \in 1..n : tokens[i] = plain[i]
    BY <1>3, <1>4, <1>6 DEF plain
  <2>2. \A i \in 1..(n + 1) : tokens[i].any = IF i = n + 1 THEN "run" ELSE "no"
    BY <1>3, <1>4, <2>1 DEF plain
  <2>3. tokens # <<>>
    BY <1>3, <2>1
  <2> QED BY <1>1, <1>6, <2>1, <2>2, <2>3 DEF EndsInOnlyRun
<1>7. ASSUME st.seen_wild, ~st.pure_prefix, NEW rest \in Seq(Token(Char)), NEW wild,
             tokens = plain \o (<<wild>> \o rest),
             wild = One \/ (wild = Run /\ rest # <<>>)
      PROVE  ~EndsInOnlyRun(tokens)
  <2>1. /\ <<wild>> \o rest \in Seq(Token(Char)) /\ Len(<<wild>> \o rest) = 1 + Len(rest)
        /\ Len(rest) \in Nat /\ (<<wild>> \o rest)[1] = wild
    BY <1>4, <1>7
  <2>2. /\ Len(tokens) = n + 1 + Len(rest) /\ tokens[n + 1] = wild
    <3> DEFINE tail == <<wild>> \o rest
    <3> HIDE DEF tail
    <3>1. tail \in Seq(Token(Char)) /\ Len(tail) = 1 + Len(rest) /\ tail[1] = wild
      BY <2>1 DEF tail
    <3>2. tokens = plain \o tail
      BY <1>7 DEF tail
    <3> QED BY <1>3, <2>1, <3>1, <3>2 DEF plain
  <2>3. n + 1 \in 1..Len(tokens)
    BY <1>3, <2>1, <2>2
  <2>4. CASE wild = One
    BY <1>4, <2>2, <2>3, <2>4 DEF EndsInOnlyRun
  <2>5. CASE wild = Run /\ rest # <<>>
    <3>1. n + 1 # Len(tokens)
      <4>1. Len(rest) # 0
        BY <2>5
      <4> QED BY <1>3, <2>1, <2>2, <4>1
    <3> QED BY <1>4, <2>2, <2>3, <2>5, <3>1 DEF EndsInOnlyRun
  <2> QED BY <1>7, <2>4, <2>5
<1>8. CASE st.seen_wild /\ ~st.pure_prefix
  <2>1. PICK rest \in Seq(Token(Char)) :
          \/ tokens = plain \o (<<One>> \o rest)
          \/ rest # <<>> /\ tokens = plain \o (<<Run>> \o rest)
    BY <1>2, <1>8 DEF Whole, plain
  <2>2. ~EndsInOnlyRun(tokens)
    BY <1>7, <1>8, <2>1
  <2> QED BY <1>1, <1>8, <2>2
<1>9. \/ ~st.seen_wild /\ tokens = plain
      \/ st.seen_wild /\ st.pure_prefix /\ tokens = plain \o <<Run>>
      \/ st.seen_wild /\ ~st.pure_prefix
  BY <1>2 DEF Whole, plain
<1> QED BY <1>5, <1>6, <1>8, <1>9
=============================================================================
