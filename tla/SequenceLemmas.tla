--------------------------- MODULE SequenceLemmas ----------------------------
(***************************************************************************)
(* Facts about finite sequences and sets of numbers that the proofs of     *)
(* several components need.  What holds for every sequence or number is    *)
(* shown by taking a least counterexample.                                 *)
(***************************************************************************)
EXTENDS Filters, FiniteSetsExt, SequencesExt, SequenceTheorems, WellFoundedInduction, TLAPS

\* What Append does to a sequence's elements.
LEMMA AppendFacts ==
    ASSUME NEW D, NEW s \in Seq(D), NEW e \in D
    PROVE  /\ Append(s, e) \in Seq(D)
           /\ Append(s, e) # <<>>
           /\ ToSet(Append(s, e)) = ToSet(s) \union {e}
           /\ IsInjective(s) /\ e \notin ToSet(s) => IsInjective(Append(s, e))
           /\ \A m : Once(s, m) /\ (m = e => m \notin ToSet(s)) => Once(Append(s, e), m)
PROOF
<1>1. /\ Append(s, e) \in Seq(D)
      /\ Len(Append(s, e)) = Len(s) + 1
      /\ \A i \in 1 .. Len(s) : Append(s, e)[i] = s[i]
      /\ Append(s, e)[Len(s) + 1] = e
  BY AppendProperties
<1>2. /\ Len(s) \in Nat /\ DOMAIN s = 1 .. Len(s)
      /\ DOMAIN Append(s, e) = 1 .. Len(s) + 1
  BY <1>1, LenProperties
<1>3. ToSet(Append(s, e)) = ToSet(s) \union {e}
  BY <1>1, <1>2 DEF ToSet
<1>4. ASSUME IsInjective(s), e \notin ToSet(s) PROVE IsInjective(Append(s, e))
  BY <1>1, <1>2, <1>4 DEF ToSet, IsInjective
<1>5. ASSUME NEW m, Once(s, m), m = e => m \notin ToSet(s) PROVE Once(Append(s, e), m)
  BY <1>1, <1>2, <1>5 DEF ToSet, Once
<1>6. Append(s, e) # <<>>  BY <1>1, <1>2, EmptySeq
<1> QED  BY <1>1, <1>3, <1>4, <1>5, <1>6

\* What taking the head off does.
LEMMA HeadFacts ==
    ASSUME NEW D, NEW s \in Seq(D), s # <<>>
    PROVE  /\ Head(s) \in D /\ Tail(s) \in Seq(D)
           /\ ToSet(s) = {Head(s)} \union ToSet(Tail(s))
           /\ IsInjective(s) => IsInjective(Tail(s)) /\ Head(s) \notin ToSet(Tail(s))
           /\ \A m : Once(s, m) => /\ Once(Tail(s), m)
                                   /\ m = Head(s) => m \notin ToSet(Tail(s))
PROOF
<1>1. /\ Head(s) \in D /\ Tail(s) \in Seq(D) /\ Len(Tail(s)) = Len(s) - 1
      /\ \A i \in 1 .. Len(Tail(s)) : Tail(s)[i] = s[i + 1]
  BY HeadTailProperties
<1>2. /\ Len(s) \in Nat \ {0} /\ DOMAIN s = 1 .. Len(s) /\ Head(s) = s[1]
      /\ DOMAIN Tail(s) = 1 .. Len(s) - 1
  BY <1>1, LenProperties, EmptySeq, HeadTailProperties
<1>3. ToSet(s) = {Head(s)} \union ToSet(Tail(s))
  <2>1. \A i \in DOMAIN s : i = 1 \/ (i - 1 \in DOMAIN Tail(s) /\ s[i] = Tail(s)[i - 1])
    BY <1>1, <1>2
  <2>2. ToSet(s) \subseteq {Head(s)} \union ToSet(Tail(s))
    BY <1>2, <2>1 DEF ToSet
  <2>3. ASSUME NEW i \in DOMAIN Tail(s) PROVE Tail(s)[i] \in ToSet(s)
    <3>1. i + 1 \in DOMAIN s /\ Tail(s)[i] = s[i + 1]  BY <1>1, <1>2, <2>3
    <3> QED  BY <3>1 DEF ToSet
  <2>4. Head(s) \in ToSet(s)  BY <1>2 DEF ToSet
  <2> QED  BY <2>2, <2>3, <2>4 DEF ToSet
<1>4. ASSUME IsInjective(s) PROVE IsInjective(Tail(s)) /\ Head(s) \notin ToSet(Tail(s))
  <2>1. IsInjective(Tail(s))  BY <1>1, <1>2, <1>4 DEF IsInjective
  <2>2. Head(s) \notin ToSet(Tail(s))  BY <1>1, <1>2, <1>4 DEF IsInjective, ToSet
  <2> QED  BY <2>1, <2>2
<1>5. ASSUME NEW m, Once(s, m)
      PROVE  Once(Tail(s), m) /\ (m = Head(s) => m \notin ToSet(Tail(s)))
  <2>1. Once(Tail(s), m)  BY <1>1, <1>2, <1>5 DEF Once
  <2>2. m = Head(s) => m \notin ToSet(Tail(s))  BY <1>1, <1>2, <1>5 DEF Once, ToSet
  <2> QED  BY <2>1, <2>2
<1> QED  BY <1>1, <1>3, <1>4, <1>5

\* Every set of naturals has a least element: the induction of the lemmas below
\* takes the least counterexample.
LEMMA LeastOf ==
    ASSUME NEW T, T \subseteq Nat, T # {}
    PROVE  \E n \in T : \A k \in T : n <= k
PROOF
<1>1. PICK n \in T : \A k \in T : ~(<<k, n>> \in OpToRel(<, Nat))
  BY NatLessThanWellFounded, WFMin
<1>2. ASSUME NEW k \in T PROVE n <= k
  <2>1. k \in Nat /\ n \in Nat  OBVIOUS
  <2>2. ~(k < n)  BY <1>1, <2>1 DEF OpToRel
  <2> QED  BY <2>1, <2>2
<1> QED  BY <1>2

\* A set of numbers below a bound has a largest element.
LEMMA MaxBelow ==
    ASSUME NEW n \in Nat, NEW S \in SUBSET (0 .. n), S # {}
    PROVE  Max(S) \in S /\ \A k \in S : k <= Max(S)
<1> DEFINE T == {n - k : k \in S}
<1>1. T \subseteq Nat /\ T # {}
  <2>1. \A k \in S : k \in 0 .. n /\ n - k \in Nat
    OBVIOUS
  <2>2. PICK k \in S : TRUE
    OBVIOUS
  <2>3. n - k \in T
    BY <2>2
  <2> QED  BY <2>1, <2>3
<1>2. PICK t \in T : \A u \in T : t <= u
  <2> HIDE DEF T
  <2> QED  BY <1>1, LeastOf
<1>3. PICK m \in S : t = n - m
  BY <1>2
<1>4. ASSUME NEW k \in S  PROVE m >= k
  <2>1. n - k \in T /\ n - k \in Nat /\ t \in Nat
    BY <1>1, <1>2
  <2> QED  BY <1>2, <1>3, <2>1
<1>5. \E x \in S : \A y \in S : x >= y
  BY <1>4
<1>6. Max(S) \in S /\ \A y \in S : Max(S) >= y
  BY <1>5 DEF Max
<1> QED  BY <1>6

\* What the function inside Without has to satisfy on a prefix of seq.
Keeps(g, seq, S, n) ==
    \A i \in 0 .. n :
        g[i] = IF i = 0 THEN <<>>
               ELSE IF seq[i] \in S THEN g[i - 1]
               ELSE Append(g[i - 1], seq[i])

\* There is such a function, by induction on the length of the prefix.
LEMMA KeepsExists ==
    ASSUME NEW seq, NEW S, NEW n \in Nat
    PROVE  \E g : g = [i \in 0 .. n |-> g[i]] /\ Keeps(g, seq, S, n)
PROOF
<1> DEFINE Bad == {k \in Nat : ~ \E g : g = [i \in 0 .. k |-> g[i]] /\ Keeps(g, seq, S, k)}
<1>1. SUFFICES ASSUME Bad # {} PROVE FALSE
  OBVIOUS
<1>2. PICK k \in Bad : \A j \in Bad : k <= j
  <2> HIDE DEF Bad
  <2>1. Bad \subseteq Nat  BY DEF Bad
  <2> QED  BY <1>1, <2>1, LeastOf
<1>3. k \in Nat  OBVIOUS
<1>4. CASE k = 0
  <2> DEFINE g == [i \in 0 .. 0 |-> <<>>]
  <2>1. g = [i \in 0 .. k |-> g[i]] /\ Keeps(g, seq, S, k)
    BY <1>4 DEF Keeps
  <2> QED  BY <2>1
<1>5. CASE k # 0
  <2>1. k - 1 \in Nat /\ k - 1 \notin Bad
    <3> HIDE DEF Bad
    <3> QED  BY <1>2, <1>3, <1>5
  <2>2. PICK h : h = [i \in 0 .. k - 1 |-> h[i]] /\ Keeps(h, seq, S, k - 1)
    BY <2>1
  <2> DEFINE g == [i \in 0 .. k |-> IF i < k THEN h[i]
                                   ELSE IF seq[k] \in S THEN h[k - 1]
                                   ELSE Append(h[k - 1], seq[k])]
  <2>3. g = [i \in 0 .. k |-> g[i]]  OBVIOUS
  <2>4. \A i \in 0 .. k - 1 : g[i] = h[i]  BY <1>3
  <2>5. g[k] = IF seq[k] \in S THEN h[k - 1] ELSE Append(h[k - 1], seq[k])
    BY <1>3
  <2>6. Keeps(g, seq, S, k)
    <3> HIDE DEF g
    <3> SUFFICES ASSUME NEW i \in 0 .. k
                 PROVE  g[i] = IF i = 0 THEN <<>>
                               ELSE IF seq[i] \in S THEN g[i - 1]
                               ELSE Append(g[i - 1], seq[i])
      BY DEF Keeps
    <3>1. CASE i = k
      <4>1. g[i - 1] = h[k - 1]  BY <1>3, <1>5, <2>4, <3>1
      <4> QED  BY <1>5, <2>5, <3>1, <4>1
    <3>2. CASE i # k
      <4>1. i \in 0 .. k - 1 /\ g[i] = h[i]  BY <1>3, <2>4, <3>2
      <4>2. i # 0 => g[i - 1] = h[i - 1]  BY <1>3, <2>4, <4>1
      <4> QED  BY <2>2, <4>1, <4>2 DEF Keeps
    <3> QED  BY <3>1, <3>2
  <2> HIDE DEF g
  <2>7. \E f : f = [i \in 0 .. k |-> f[i]] /\ Keeps(f, seq, S, k)
    BY <2>3, <2>6
  <2> QED  BY <2>7
<1> QED  BY <1>4, <1>5

\* Without is what its recursion says.
LEMMA WithoutDef ==
    ASSUME NEW D, NEW seq \in Seq(D), NEW S
    PROVE  \E g : Keeps(g, seq, S, Len(seq)) /\ Without(seq, S) = g[Len(seq)]
PROOF
<1> DEFINE n == Len(seq)
           Rec(g) == g = [i \in 0 .. n |->
                            IF i = 0 THEN <<>>
                            ELSE IF seq[i] \in S THEN g[i - 1]
                            ELSE Append(g[i - 1], seq[i])]
           kept == CHOOSE g : Rec(g)
<1>1. n \in Nat  BY LenProperties
<1>2. PICK g : g = [i \in 0 .. n |-> g[i]] /\ Keeps(g, seq, S, n)
  BY <1>1, KeepsExists
<1>3. Rec(g)  BY <1>2, Zenon DEF Keeps
<1>4. Rec(kept)
  <2> HIDE DEF Rec
  <2> QED  BY <1>3, Zenon
<1>5. Keeps(kept, seq, S, n)
  <2> HIDE DEF kept, n
  <2> QED BY <1>4 DEF Keeps
<1>6. Without(seq, S) = kept[n]  BY Zenon DEF Without
<1> HIDE DEF kept, n
<1>7. Keeps(kept, seq, S, Len(seq)) /\ Without(seq, S) = kept[Len(seq)]
  BY <1>5, <1>6 DEF n
<1> QED  BY <1>7

\* The elements of S are gone, the others are there, as often as before.
LEMMA WithoutFacts ==
    ASSUME NEW D, NEW seq \in Seq(D), NEW S
    PROVE  /\ Without(seq, S) \in Seq(D)
           /\ Len(Without(seq, S)) <= Len(seq)
           /\ ToSet(Without(seq, S)) = ToSet(seq) \ S
           /\ IsInjective(seq) => IsInjective(Without(seq, S))
PROOF
<1>1. PICK g : Keeps(g, seq, S, Len(seq)) /\ Without(seq, S) = g[Len(seq)]
  BY WithoutDef
<1> DEFINE Good(k) ==
             /\ g[k] \in Seq(D)
             /\ Len(g[k]) <= k
             /\ ToSet(g[k]) = {seq[i] : i \in 1 .. k} \ S
             /\ IsInjective(seq) => IsInjective(g[k])
           Bad == {k \in 0 .. Len(seq) : ~Good(k)}
<1>2. Len(seq) \in Nat /\ DOMAIN seq = 1 .. Len(seq)  BY LenProperties
<1>3. ASSUME Bad # {} PROVE FALSE
  <2>1. PICK k \in Bad : \A j \in Bad : k <= j
    <3>1. Bad \subseteq Nat  BY <1>2
    <3> HIDE DEF Bad
    <3> QED  BY <1>3, <3>1, LeastOf
  <2>2. k \in 0 .. Len(seq) /\ ~Good(k)  OBVIOUS
  <2>3. CASE k = 0
    <3>1. g[0] = <<>>  BY <1>1, <1>2 DEF Keeps
    <3>2. g[0] \in Seq(D) /\ Len(g[0]) = 0 /\ ToSet(g[0]) = {} /\ IsInjective(g[0])
      BY <3>1 DEF ToSet, IsInjective
    <3>3. {seq[i] : i \in 1 .. k} = {}  BY <2>3
    <3> QED  BY <2>2, <2>3, <3>2, <3>3
  <2>4. CASE k # 0
    <3>1. k - 1 \in 0 .. Len(seq) /\ k - 1 \notin Bad
      <4> HIDE DEF Bad
      <4> QED  BY <1>2, <2>1, <2>2, <2>4
    <3>2. Good(k - 1)  BY <3>1
    <3>3. {seq[i] : i \in 1 .. k} = {seq[i] : i \in 1 .. k - 1} \union {seq[k]}
      BY <1>2, <2>2, <2>4
    <3>4. g[k] = IF seq[k] \in S THEN g[k - 1] ELSE Append(g[k - 1], seq[k])
      BY <1>1, <2>2, <2>4 DEF Keeps
    <3>5. seq[k] \in D  BY <1>2, <2>2, <2>4, ElementOfSeq
    <3>6. CASE seq[k] \in S
      <4>1. Len(g[k - 1]) \in Nat  BY <3>2, LenProperties
      <4> QED  BY <2>2, <3>2, <3>3, <3>4, <3>6, <4>1
    <3>7. CASE seq[k] \notin S
      <4>1. /\ g[k] \in Seq(D)
            /\ ToSet(g[k]) = ToSet(g[k - 1]) \union {seq[k]}
            /\ IsInjective(g[k - 1]) /\ seq[k] \notin ToSet(g[k - 1]) => IsInjective(g[k])
        BY <3>2, <3>4, <3>5, <3>7, AppendFacts
      <4>2. IsInjective(seq) => seq[k] \notin {seq[i] : i \in 1 .. k - 1}
        BY <1>2, <2>2, <2>4 DEF IsInjective
      <4>3. Len(g[k]) = Len(g[k - 1]) + 1 /\ Len(g[k - 1]) \in Nat
        BY <3>2, <3>4, <3>5, <3>7, AppendProperties, LenProperties
      <4> QED  BY <2>2, <3>2, <3>3, <3>7, <4>1, <4>2, <4>3
    <3> QED  BY <3>6, <3>7
  <2> QED  BY <2>3, <2>4
<1>4. Good(Len(seq))
  <2>1. Len(seq) \in 0 .. Len(seq)  BY <1>2
  <2> HIDE DEF Good
  <2> QED  BY <1>3, <2>1
<1>5. ToSet(seq) = {seq[i] : i \in 1 .. Len(seq)}  BY <1>2 DEF ToSet
<1> QED  BY <1>1, <1>4, <1>5

\* Without goes through a sequence from its first to its last element.
LEMMA WithoutAppend ==
    ASSUME NEW D, NEW s \in Seq(D), NEW x \in D, NEW S
    PROVE  Without(Append(s, x), S) = IF x \in S THEN Without(s, S) ELSE Append(Without(s, S), x)
PROOF
<1> DEFINE sx == Append(s, x)
           n == Len(s)
<1>1. /\ sx \in Seq(D) /\ n \in Nat /\ Len(sx) = n + 1
      /\ \A i \in 1 .. n : sx[i] = s[i]
      /\ sx[n + 1] = x
  BY AppendProperties, LenProperties
<1>2. PICK g : Keeps(g, s, S, n) /\ Without(s, S) = g[n]
  BY WithoutDef
<1>3. PICK h : Keeps(h, sx, S, n + 1) /\ Without(sx, S) = h[n + 1]
  <2> HIDE DEF sx, n
  <2> QED  BY <1>1, WithoutDef
<1> HIDE DEF sx, n
<1> DEFINE Bad == {i \in 0 .. n : h[i] # g[i]}
<1>4. ASSUME Bad # {} PROVE FALSE
  <2>1. PICK k \in Bad : \A j \in Bad : k <= j
    <3>1. Bad \subseteq Nat  BY <1>1
    <3> HIDE DEF Bad
    <3> QED  BY <1>4, <3>1, LeastOf
  <2>2. k \in 0 .. n /\ h[k] # g[k]  OBVIOUS
  <2>3. k # 0
    BY <1>1, <1>2, <1>3, <2>2 DEF Keeps
  <2>4. k - 1 \in 0 .. n /\ k - 1 \notin Bad
    <3> HIDE DEF Bad
    <3> QED  BY <1>1, <2>1, <2>2, <2>3
  <2>5. h[k - 1] = g[k - 1] /\ sx[k] = s[k]
    BY <1>1, <2>2, <2>3, <2>4
  <2>6. h[k] = IF sx[k] \in S THEN h[k - 1] ELSE Append(h[k - 1], sx[k])
    <3>1. k \in 0 .. n + 1  BY <1>1, <2>2
    <3> QED  BY <1>3, <2>3, <3>1 DEF Keeps
  <2>7. g[k] = IF s[k] \in S THEN g[k - 1] ELSE Append(g[k - 1], s[k])
    BY <1>2, <2>2, <2>3 DEF Keeps
  <2> QED  BY <2>2, <2>5, <2>6, <2>7
<1>5. h[n] = g[n]
  BY <1>1, <1>4
<1>6. h[n + 1] = IF sx[n + 1] \in S THEN h[n] ELSE Append(h[n], sx[n + 1])
  <2>1. n + 1 \in 0 .. n + 1 /\ n + 1 # 0 /\ (n + 1) - 1 = n  BY <1>1
  <2> QED  BY <1>3, <2>1 DEF Keeps
<1> QED  BY <1>1, <1>2, <1>3, <1>5, <1>6 DEF sx

\* A sequence as a function, and back.
LEMMA SeqIsFunction ==
    ASSUME NEW D, NEW s \in Seq(D)
    PROVE  /\ Len(s) \in Nat /\ DOMAIN s = 1 .. Len(s)
           /\ s = [i \in 1 .. Len(s) |-> s[i]]
           /\ \A i \in 1 .. Len(s) : s[i] \in D
           /\ ToSet(s) \subseteq D
PROOF
<1>1. Len(s) \in Nat /\ DOMAIN s = 1 .. Len(s) /\ s \in [1 .. Len(s) -> D]
  BY LenProperties
<1> QED  BY <1>1 DEF ToSet

LEMMA FunctionIsSeq ==
    ASSUME NEW D, NEW n \in Nat, NEW f \in [1 .. n -> D]
    PROVE  f \in Seq(D) /\ Len(f) = n
OBVIOUS

LEMMA WithoutEmpty ==
    ASSUME NEW S
    PROVE  Without(<<>>, S) = <<>>
PROOF
<1>1. <<>> \in Seq({}) /\ Len(<<>>) = 0  OBVIOUS
<1>2. PICK g : Keeps(g, <<>>, S, Len(<<>>)) /\ Without(<<>>, S) = g[Len(<<>>)]
  BY <1>1, WithoutDef
<1> QED  BY <1>1, <1>2 DEF Keeps

\* A sequence without elements of S is left as it is.
LEMMA WithoutNone ==
    ASSUME NEW D, NEW S, NEW s \in Seq(D), D \intersect S = {}
    PROVE  Without(s, S) = s
PROOF
<1> DEFINE Bad == {n \in Nat : \E t \in Seq(D) : Len(t) = n /\ Without(t, S) # t}
<1>1. ASSUME Bad # {} PROVE FALSE
  <2>1. PICK k \in Bad : \A j \in Bad : k <= j
    <3> HIDE DEF Bad
    <3>1. Bad \subseteq Nat  BY DEF Bad
    <3> QED  BY <1>1, <3>1, LeastOf
  <2>2. PICK t \in Seq(D) : Len(t) = k /\ Without(t, S) # t
    OBVIOUS
  <2>3. t # <<>>
    BY <2>2, WithoutEmpty
  <2>4. PICK p \in Seq(D), x \in D : t = Append(p, x)
    BY <2>3, SequenceEmptyOrAppend
  <2>5. Len(p) \in Nat /\ k = Len(p) + 1
    BY <2>2, <2>4, AppendProperties, LenProperties
  <2>6. Len(p) \notin Bad
    <3> HIDE DEF Bad
    <3> QED  BY <2>1, <2>5
  <2>7. Without(p, S) = p
    BY <2>5, <2>6
  <2>8. Without(t, S) = Append(p, x)
    BY <2>4, <2>7, WithoutAppend
  <2> QED  BY <2>2, <2>4, <2>8
<1> QED  BY <1>1, LenProperties

\* A sequence whose elements are in E is a sequence of E.
LEMMA ElementsIn ==
    ASSUME NEW D, NEW s \in Seq(D), NEW E, ToSet(s) \subseteq E
    PROVE  s \in Seq(E)
PROOF
<1>1. Len(s) \in Nat /\ s = [i \in 1 .. Len(s) |-> s[i]] /\ DOMAIN s = 1 .. Len(s)
  BY LenProperties
<1>2. \A i \in 1 .. Len(s) : s[i] \in E
  BY <1>1 DEF ToSet
<1> QED  BY <1>1, <1>2

LEMMA EmptyFacts ==
    /\ \A D : <<>> \in Seq(D)
    /\ ToSet(<<>>) = {} /\ IsInjective(<<>>)
    /\ \A m : Once(<<>>, m)
BY DEF ToSet, IsInjective, Once
=============================================================================
