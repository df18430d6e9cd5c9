----------------------------- MODULE MarketProofs -----------------------------
(***************************************************************************)
(* The parts between the engine and the market: the backtest, the mock     *)
(* broker, the positions of the rules, the minute bars, the portfolio      *)
(* filter and the conditions that look back, for any numbers of bars,      *)
(* stocks, rules, engines, minutes, candidates and calls, any prices and   *)
(* any rates a request may name.                                           *)
(*                                                                         *)
(* The recursive functions of the backtest are unfolded by the least index *)
(* at which they would not be what is claimed of them, and the sums        *)
(* over sets by a smallest set of which it would not be true.  What        *)
(* the open orders of a rule can still buy changes by one order at a time, *)
(* because a rule has at most one on a side.  The bar of a longer sequence *)
(* of trades is the grown bar; the pass that aggregates bars has a loop    *)
(* invariant over the minutes.  The fold of the portfolio filter is the    *)
(* sequence of the states its pass goes through, along a permutation that  *)
(* sorts the candidates.  What a rule remembers of a call is the end of    *)
(* what the call has seen: the last pair without a gap, the last           *)
(* evaluations within its reach, or the unbroken run.                      *)
(***************************************************************************)
EXTENDS Backtest, MockBroker, Positions, MinuteBars, Selection,
        StatefulCalls, SequenceLemmas, FiniteSetTheorems

----------------------------------------------------------------------------
(* Products of integers.                                                   *)

LEMMA TimesMonotone ==
    ASSUME NEW a \in Int, NEW b \in Int, NEW k \in Nat, a <= b
    PROVE  a * k <= b * k
PROOF
<1>1. (b - a) \in Nat
  OBVIOUS
<1>2. \A m, n \in Nat : m * n \in Nat
  OBVIOUS
<1>3. (b - a) * k \in Nat
  BY <1>1, <1>2
<1>4. (b - a) * k = b * k - a * k /\ a * k \in Int /\ b * k \in Int
  OBVIOUS
<1> QED  BY <1>3, <1>4

LEMMA TimesCancels ==
    ASSUME NEW a \in Int, NEW b \in Int, NEW k \in Nat \ {0}, a * k <= b * k
    PROVE  a <= b
PROOF
<1>1. CASE a > b
  <2>1. a - b - 1 \in Nat
    BY <1>1
  <2>2. \A m, n \in Nat : m * n \in Nat
    OBVIOUS
  <2>3. (a - b - 1) * k \in Nat
    BY <2>1, <2>2
  <2>4. (a - b - 1) * k = a * k - b * k - k /\ a * k \in Int /\ b * k \in Int
    OBVIOUS
  <2> QED  BY <2>3, <2>4
<1> QED  BY <1>1

LEMMA QuotientBelow ==
    ASSUME NEW a \in Nat, NEW b \in Nat \ {0}
    PROVE  a \div b \in Nat /\ (a \div b) * b <= a
PROOF
<1>1. a = b * (a \div b) + (a % b) /\ a \div b \in Nat /\ a % b \in 0 .. b - 1
  OBVIOUS
<1>2. \A x, y \in Int : x * y = y * x /\ x * y \in Int
  OBVIOUS
<1>3. (a \div b) * b = b * (a \div b) /\ b * (a \div b) \in Int
  BY <1>1, <1>2
<1> DEFINE m == b * (a \div b)
<1>4. a = m + (a % b) /\ (a \div b) * b = m /\ m \in Int
  BY <1>1, <1>3
<1> HIDE DEF m
<1>5. (a \div b) * b <= a
  BY <1>1, <1>4
<1> QED  BY <1>1, <1>5

----------------------------------------------------------------------------
(* Backtest: totals.                                                       *)

\* What the function inside Total has to satisfy on a prefix of s.
SumsTo(g, s, n) == \A i \in 0 .. n : g[i] = IF i = 0 THEN 0 ELSE g[i - 1] + s[i]

LEMMA SumsExist ==
    ASSUME NEW s, NEW n \in Nat
    PROVE  \E g : g = [i \in 0 .. n |-> g[i]] /\ SumsTo(g, s, n)
PROOF
<1> DEFINE Fits(k) == \E g : g = [i \in 0 .. k |-> g[i]] /\ SumsTo(g, s, k)
           Wrong == {k \in Nat : ~Fits(k)}
<1>1. ASSUME Wrong # {} PROVE FALSE
  <2>1. PICK k \in Wrong : \A j \in Wrong : k <= j
    <3> HIDE DEF Wrong
    <3>1. Wrong \subseteq Nat  BY DEF Wrong
    <3> QED  BY <1>1, <3>1, LeastOf
  <2>2. k \in Nat /\ ~Fits(k)
    OBVIOUS
  <2>3. CASE k = 0
    <3> DEFINE g == [i \in 0 .. 0 |-> 0]
    <3>1. g = [i \in 0 .. k |-> g[i]] /\ SumsTo(g, s, k)
      BY <2>3 DEF SumsTo
    <3> QED  BY <2>2, <3>1
  <2>4. CASE k # 0
    <3>1. k - 1 \in Nat /\ k - 1 \notin Wrong
      <4> HIDE DEF Wrong
      <4> QED  BY <2>1, <2>2, <2>4
    <3>2. PICK h : h = [i \in 0 .. k - 1 |-> h[i]] /\ SumsTo(h, s, k - 1)
      BY <3>1
    <3> DEFINE g == [i \in 0 .. k |-> IF i < k THEN h[i] ELSE h[k - 1] + s[k]]
    <3>3. g = [i \in 0 .. k |-> g[i]]
      OBVIOUS
    <3>4. \A i \in 0 .. k - 1 : g[i] = h[i]
      BY <2>2
    <3>5. g[k] = h[k - 1] + s[k]
      BY <2>2
    <3> HIDE DEF g
    <3>6. ASSUME NEW i \in 0 .. k  PROVE g[i] = IF i = 0 THEN 0 ELSE g[i - 1] + s[i]
      <4>1. CASE i = k
        <5>1. g[k - 1] = h[k - 1]  BY <2>2, <2>4, <3>4
        <5> QED  BY <2>4, <3>5, <4>1, <5>1
      <4>2. CASE i # k
        <5>1. i \in 0 .. k - 1 /\ g[i] = h[i]  BY <2>2, <3>4, <4>2
        <5>2. i # 0 => g[i - 1] = h[i - 1]  BY <2>2, <3>4, <5>1
        <5> QED  BY <3>2, <5>1, <5>2 DEF SumsTo
      <4> QED  BY <4>1, <4>2
    <3>7. SumsTo(g, s, k)
      BY <3>6 DEF SumsTo
    <3> QED  BY <2>2, <3>3, <3>7
  <2> QED  BY <2>3, <2>4
<1>2. n \notin Wrong
  <2> HIDE DEF Wrong
  <2> QED  BY <1>1
<1> QED  BY <1>2

LEMMA TotalDef ==
    ASSUME NEW s \in Seq(Int)
    PROVE  \E g : SumsTo(g, s, Len(s)) /\ Total(s) = g[Len(s)] /\ \A i \in 0 .. Len(s) : g[i] \in Int
PROOF
<1> DEFINE n == Len(s)
           Rec(g) == g = [i \in 0 .. n |-> IF i = 0 THEN 0 ELSE g[i - 1] + s[i]]
           sum == CHOOSE g : Rec(g)
<1>1. n \in Nat /\ \A i \in 1 .. n : s[i] \in Int
  BY SeqIsFunction
<1>2. PICK g : g = [i \in 0 .. n |-> g[i]] /\ SumsTo(g, s, n)
  BY <1>1, SumsExist
<1>3. Rec(g)  BY <1>2, Zenon DEF SumsTo
<1>4. Rec(sum)
  <2> HIDE DEF Rec
  <2> QED  BY <1>3, Zenon
<1>5. SumsTo(sum, s, n)
  <2> HIDE DEF sum, n
  <2> QED  BY <1>4 DEF SumsTo
<1>6. Total(s) = sum[n]
  BY Zenon DEF Total
<1> HIDE DEF sum, n
<1> DEFINE Wrong == {i \in 0 .. n : sum[i] \notin Int}
<1>7. ASSUME Wrong # {} PROVE FALSE
  <2>1. PICK k \in Wrong : \A j \in Wrong : k <= j
    <3>1. Wrong \subseteq Nat  BY <1>1
    <3> HIDE DEF Wrong
    <3> QED  BY <1>7, <3>1, LeastOf
  <2>2. k \in 0 .. n /\ sum[k] \notin Int
    OBVIOUS
  <2>3. k # 0
    BY <1>1, <1>5, <2>2 DEF SumsTo
  <2>4. k - 1 \in 0 .. n /\ k - 1 \notin Wrong
    <3> HIDE DEF Wrong
    <3> QED  BY <1>1, <2>1, <2>2, <2>3
  <2>5. sum[k - 1] \in Int /\ s[k] \in Int /\ sum[k] = sum[k - 1] + s[k]
    BY <1>1, <1>5, <2>2, <2>3, <2>4 DEF SumsTo
  <2> QED  BY <2>2, <2>5
<1>8. \A i \in 0 .. n : sum[i] \in Int
  BY <1>7
<1> QED  BY <1>5, <1>6, <1>8 DEF n

LEMMA TotalFacts ==
    /\ Total(<<>>) = 0
    /\ \A s \in Seq(Int) : Total(s) \in Int
    /\ \A s \in Seq(Int), x \in Int : Total(Append(s, x)) = Total(s) + x
PROOF
<1>1. Total(<<>>) = 0
  <2>1. <<>> \in Seq(Int) /\ Len(<<>>) = 0
    OBVIOUS
  <2>2. PICK g : SumsTo(g, <<>>, Len(<<>>)) /\ Total(<<>>) = g[Len(<<>>)]
    BY <2>1, TotalDef
  <2> QED  BY <2>1, <2>2 DEF SumsTo
<1>2. ASSUME NEW s \in Seq(Int)  PROVE Total(s) \in Int
  <2>1. Len(s) \in 0 .. Len(s)
    BY LenProperties
  <2> QED  BY <2>1, TotalDef
<1>3. ASSUME NEW s \in Seq(Int), NEW x \in Int  PROVE Total(Append(s, x)) = Total(s) + x
  <2> DEFINE sx == Append(s, x)
             n == Len(s)
  <2>1. /\ sx \in Seq(Int) /\ n \in Nat /\ Len(sx) = n + 1
        /\ \A i \in 1 .. n : sx[i] = s[i]
        /\ sx[n + 1] = x
    BY AppendProperties, LenProperties
  <2>2. PICK g : SumsTo(g, s, n) /\ Total(s) = g[n]
    BY TotalDef
  <2>3. PICK h : SumsTo(h, sx, n + 1) /\ Total(sx) = h[n + 1]
    <3> HIDE DEF sx, n
    <3> QED  BY <2>1, TotalDef
  <2> HIDE DEF sx, n
  <2> DEFINE Wrong == {i \in 0 .. n : h[i] # g[i]}
  <2>4. ASSUME Wrong # {} PROVE FALSE
    <3>1. PICK k \in Wrong : \A j \in Wrong : k <= j
      <4>1. Wrong \subseteq Nat  BY <2>1
      <4> HIDE DEF Wrong
      <4> QED  BY <2>4, <4>1, LeastOf
    <3>2. k \in 0 .. n /\ h[k] # g[k]
      OBVIOUS
    <3>3. k # 0
      BY <2>1, <2>2, <2>3, <3>2 DEF SumsTo
    <3>4. k - 1 \in 0 .. n /\ k - 1 \notin Wrong
      <4> HIDE DEF Wrong
      <4> QED  BY <2>1, <3>1, <3>2, <3>3
    <3>5. h[k - 1] = g[k - 1] /\ sx[k] = s[k]
      BY <2>1, <3>2, <3>3, <3>4
    <3>6. k \in 0 .. n + 1
      BY <2>1, <3>2
    <3>7. h[k] = h[k - 1] + sx[k] /\ g[k] = g[k - 1] + s[k]
      BY <2>2, <2>3, <3>2, <3>3, <3>6 DEF SumsTo
    <3> QED  BY <3>2, <3>5, <3>7
  <2>5. h[n] = g[n]
    BY <2>1, <2>4
  <2>6. h[n + 1] = h[n] + x
    <3>1. n + 1 \in 0 .. n + 1 /\ n + 1 # 0 /\ (n + 1) - 1 = n  BY <2>1
    <3> QED  BY <2>1, <2>3, <3>1 DEF SumsTo
  <2> QED  BY <2>2, <2>3, <2>5, <2>6 DEF sx
<1> QED  BY <1>1, <1>2, <1>3

----------------------------------------------------------------------------
(* Backtest: the drawdown.                                                 *)

\* "Deeper than" is transitive: fractions are compared by multiplication.
LEMMA DropsCompare ==
    ASSUME NEW k \in Nat, NEW c \in Nat, NEW w1 \in Nat, NEW w2 \in Nat \ {0},
           NEW v1 \in Nat, NEW v2 \in Nat \ {0},
           (k - c) * w2 <= w1 * k, w1 * v2 <= v1 * w2
    PROVE  (k - c) * v2 <= v1 * k
PROOF
<1>1. \A x, y \in Int : x * y \in Int
  OBVIOUS
<1>2. k - c \in Int
  OBVIOUS
<1>3. ((k - c) * w2) * v2 <= (w1 * k) * v2
  BY <1>1, <1>2, TimesMonotone
<1>4. (w1 * v2) * k <= (v1 * w2) * k
  BY <1>1, TimesMonotone
<1>5. \A x, y, z \in Int : (x * y) * z = (x * z) * y
  OBVIOUS
<1>6. ((k - c) * w2) * v2 = ((k - c) * v2) * w2 /\ (w1 * k) * v2 = (w1 * v2) * k
      /\ (v1 * w2) * k = (v1 * k) * w2
  BY <1>2, <1>5
<1>7. /\ (k - c) * v2 \in Int /\ v1 * k \in Int
      /\ ((k - c) * v2) * w2 \in Int /\ (v1 * k) * w2 \in Int /\ (w1 * v2) * k \in Int
  BY <1>1, <1>2
<1>8. ((k - c) * v2) * w2 <= (v1 * k) * w2
  BY <1>3, <1>4, <1>6, <1>7
<1> QED  BY <1>7, <1>8, TimesCancels

\* From a higher peak the same fall is the deeper one.
LEMMA DropFromPeak ==
    ASSUME NEW k \in Nat, NEW c \in Nat, NEW p \in Nat, k <= p
    PROVE  (k - c) * p <= (p - c) * k
PROOF
<1>1. k * c <= p * c
  BY TimesMonotone
<1>2. \A x, y, z \in Int : (x - y) * z = x * z - z * y /\ x * z = z * x
  OBVIOUS
<1>3. \A x, y \in Int : x * y \in Int
  OBVIOUS
<1> DEFINE kp == k * p
           kc == k * c
           pc == p * c
<1>4. (k - c) * p = kp - pc /\ (p - c) * k = kp - kc
  BY <1>2
<1>5. kp \in Int /\ kc \in Int /\ pc \in Int /\ kc <= pc
  BY <1>1, <1>3
<1> HIDE DEF kp, kc, pc
<1> QED  BY <1>4, <1>5

\* What one entry of the function inside Drawdown says of a prefix of the curve.
WorstOf(d, s, n) ==
    /\ d.peak \in Nat \ {0} /\ d.worst \in Nat \X (Nat \ {0})
    /\ \E k \in 1 .. n : s[k] = d.peak
    /\ \A k \in 1 .. n : s[k] <= d.peak
    /\ \A j \in 1 .. n : \A k \in 1 .. j : (s[k] - s[j]) * d.worst[2] <= d.worst[1] * s[k]
    /\ \E j \in 1 .. n : \E k \in 1 .. j : (s[k] - s[j]) * d.worst[2] = d.worst[1] * s[k]

LEMMA DeeperStep ==
    ASSUME NEW s, NEW n \in Nat, n > 0, \A i \in 1 .. n + 1 : s[i] \in Nat,
           NEW d, WorstOf(d, s, n)
    PROVE  WorstOf(Deeper(d, s[n + 1]), s, n + 1)
PROOF
<1> DEFINE e == Deeper(d, s[n + 1])
           c == s[n + 1]
           p == d.peak
           w1 == d.worst[1]
           w2 == d.worst[2]
           peak == IF c > p THEN c ELSE p
           drop == <<peak - c, peak>>
<1>1. /\ p \in Nat \ {0} /\ w1 \in Nat /\ w2 \in Nat \ {0} /\ c \in Nat
      /\ d.worst = <<w1, w2>>
  BY DEF WorstOf
<1>2. e.peak = peak /\ e.worst = IF (peak - c) * w2 > w1 * peak THEN drop ELSE d.worst
  <2>1. peak > 0
    BY <1>1
  <2> QED  BY <2>1 DEF Deeper
<1>3. peak \in Nat \ {0} /\ c <= peak /\ p <= peak /\ peak - c \in Nat
  BY <1>1
<1>4. e.worst \in Nat \X (Nat \ {0})
  <2>1. drop \in Nat \X (Nat \ {0}) /\ d.worst \in Nat \X (Nat \ {0})
    BY <1>1, <1>3
  <2> HIDE DEF drop
  <2> QED  BY <1>2, <2>1
<1>5. \E k \in 1 .. n + 1 : s[k] = e.peak
  BY <1>1, <1>2 DEF WorstOf
<1>6. \A k \in 1 .. n + 1 : s[k] <= e.peak
  <2> SUFFICES ASSUME NEW k \in 1 .. n + 1  PROVE s[k] <= peak
    BY <1>2
  <2>1. CASE k = n + 1  BY <1>1, <1>3, <2>1
  <2>2. CASE k # n + 1
    <3>1. k \in 1 .. n  BY <2>2
    <3>2. s[k] <= p /\ s[k] \in Nat  BY <3>1 DEF WorstOf
    <3> QED  BY <1>1, <1>3, <3>2
  <2> QED  BY <2>1, <2>2
<1>7. /\ e.worst[1] \in Nat /\ e.worst[2] \in Nat \ {0}
  BY <1>4
<1>8. /\ w1 * e.worst[2] <= e.worst[1] * w2
      /\ (peak - c) * e.worst[2] <= e.worst[1] * peak
  <2>1. \A x, y \in Int : x * y \in Int /\ x * y = y * x
    OBVIOUS
  <2>2. CASE (peak - c) * w2 > w1 * peak
    <3>1. e.worst[1] = peak - c /\ e.worst[2] = peak
      BY <1>2, <2>2
    <3>2. w1 * peak \in Int /\ (peak - c) * w2 \in Int /\ (peak - c) * peak \in Int
      BY <1>1, <1>3, <2>1
    <3> HIDE DEF e, peak, c, w1, w2
    <3> QED  BY <2>2, <3>1, <3>2
  <2>3. CASE ~((peak - c) * w2 > w1 * peak)
    <3>1. e.worst[1] = w1 /\ e.worst[2] = w2
      BY <1>2, <2>3
    <3>2. w1 * peak \in Int /\ (peak - c) * w2 \in Int /\ w1 * w2 \in Int
      BY <1>1, <1>3, <2>1
    <3> HIDE DEF e, peak, c, w1, w2
    <3> QED  BY <2>3, <3>1, <3>2
  <2> QED  BY <2>2, <2>3
<1> DEFINE v1 == e.worst[1]
           v2 == e.worst[2]
<1>9. v1 \in Nat /\ v2 \in Nat \ {0}
  BY <1>7
<1>10. w1 * v2 <= v1 * w2
  BY <1>8
<1>11. (peak - c) * v2 <= v1 * peak
  BY <1>8
<1>12. ASSUME NEW j \in 1 .. n + 1, NEW k \in 1 .. j
       PROVE  (s[k] - s[j]) * e.worst[2] <= e.worst[1] * s[k]
  <2>1. s[k] \in Nat /\ s[j] \in Nat /\ k \in 1 .. n + 1
    OBVIOUS
  <2>2. CASE j = n + 1
    <3>1. s[k] <= peak  BY <1>2, <1>6, <2>1
    <3>2. (s[k] - c) * peak <= (peak - c) * s[k]
      <4> HIDE DEF peak, c
      <4> QED  BY <1>1, <1>3, <2>1, <3>1, DropFromPeak
    <3>3. (s[k] - c) * v2 <= v1 * s[k]
      <4> DEFINE x == s[k]
                 u == peak - c
      <4>1. x \in Nat /\ c \in Nat /\ u \in Nat /\ peak \in Nat \ {0}
        BY <1>1, <1>3, <2>1
      <4>2. (x - c) * peak <= u * x
        BY <3>2
      <4>3. u * v2 <= v1 * peak
        BY <1>11
      <4> HIDE DEF peak, c, e, v1, v2, x, u
      <4>4. (x - c) * v2 <= v1 * x
        BY <1>9, <4>1, <4>2, <4>3, DropsCompare
      <4> QED  BY <4>4 DEF x
    <3>4. s[j] = c  BY <2>2
    <3> HIDE DEF peak, c, e
    <3> QED  BY <3>3, <3>4
  <2>3. CASE j # n + 1
    <3>1. j \in 1 .. n  BY <2>3
    <3>2. (s[k] - s[j]) * w2 <= w1 * s[k]  BY <3>1 DEF WorstOf
    <3> DEFINE x == s[k]
               y == s[j]
    <3>3. x \in Nat /\ y \in Nat /\ (x - y) * w2 <= w1 * x
      BY <2>1, <3>2
    <3>4. w1 \in Nat /\ w2 \in Nat \ {0}
      BY <1>1
    <3> HIDE DEF w1, w2, v1, v2, e, x, y
    <3>5. (x - y) * v2 <= v1 * x
      BY <1>9, <1>10, <3>3, <3>4, DropsCompare
    <3> QED  BY <3>5 DEF x, y, v1, v2
  <2> QED  BY <2>2, <2>3
<1>13. \E j \in 1 .. n + 1 : \E k \in 1 .. j :
           (s[k] - s[j]) * e.worst[2] = e.worst[1] * s[k]
  <2>1. CASE e.worst = drop
    <3>1. PICK k \in 1 .. n + 1 : s[k] = peak
      BY <1>2, <1>5
    <3>2. n + 1 \in 1 .. n + 1 /\ e.worst[1] = peak - c /\ e.worst[2] = peak
      BY <2>1
    <3> HIDE DEF peak, e
    <3> QED  BY <3>1, <3>2
  <2>2. CASE e.worst = d.worst
    <3>1. PICK j \in 1 .. n : \E k \in 1 .. j : (s[k] - s[j]) * d.worst[2] = d.worst[1] * s[k]
      BY DEF WorstOf
    <3>2. j \in 1 .. n + 1
      OBVIOUS
    <3> HIDE DEF e
    <3> QED  BY <2>2, <3>1, <3>2
  <2> QED  BY <1>2, <2>1, <2>2
<1>14. e.peak \in Nat \ {0}
  BY <1>2, <1>3
<1> HIDE DEF e
<1>15. WorstOf(e, s, n + 1)
  BY <1>4, <1>5, <1>6, <1>12, <1>13, <1>14 DEF WorstOf
<1> QED  BY <1>15 DEF e

\* What the function inside Drawdown has to satisfy on a prefix of s.
DeepensTo(g, s, n) ==
    \A i \in 1 .. n : g[i] = IF i = 1 THEN [peak |-> s[1], worst |-> <<0, 1>>]
                             ELSE Deeper(g[i - 1], s[i])

LEMMA DeepensExist ==
    ASSUME NEW s, NEW n \in Nat
    PROVE  \E g : g = [i \in 1 .. n |-> g[i]] /\ DeepensTo(g, s, n)
PROOF
<1> DEFINE Fits(k) == \E g : g = [i \in 1 .. k |-> g[i]] /\ DeepensTo(g, s, k)
           Wrong == {k \in Nat : ~Fits(k)}
<1>1. ASSUME Wrong # {} PROVE FALSE
  <2>1. PICK k \in Wrong : \A j \in Wrong : k <= j
    <3> HIDE DEF Wrong
    <3>1. Wrong \subseteq Nat  BY DEF Wrong
    <3> QED  BY <1>1, <3>1, LeastOf
  <2>2. k \in Nat /\ ~Fits(k)
    OBVIOUS
  <2>3. CASE k = 0
    <3> DEFINE g == [i \in 1 .. 0 |-> 0]
    <3>1. g = [i \in 1 .. k |-> g[i]] /\ DeepensTo(g, s, k)
      BY <2>3 DEF DeepensTo
    <3> QED  BY <2>2, <3>1
  <2>4. CASE k # 0
    <3>1. k - 1 \in Nat /\ k - 1 \notin Wrong
      <4> HIDE DEF Wrong
      <4> QED  BY <2>1, <2>2, <2>4
    <3>2. PICK h : h = [i \in 1 .. k - 1 |-> h[i]] /\ DeepensTo(h, s, k - 1)
      BY <3>1
    <3> DEFINE new == IF k = 1 THEN [peak |-> s[1], worst |-> <<0, 1>>]
                      ELSE Deeper(h[k - 1], s[k])
               g == [i \in 1 .. k |-> IF i < k THEN h[i] ELSE new]
    <3>3. g = [i \in 1 .. k |-> g[i]]
      OBVIOUS
    <3> HIDE DEF new
    <3>4. \A i \in 1 .. k - 1 : g[i] = h[i]
      BY <2>2
    <3>5. g[k] = new
      BY <2>2, <2>4
    <3> HIDE DEF g
    <3>6. ASSUME NEW i \in 1 .. k
          PROVE  g[i] = IF i = 1 THEN [peak |-> s[1], worst |-> <<0, 1>>]
                        ELSE Deeper(g[i - 1], s[i])
      <4>1. CASE i = k
        <5>1. k # 1 => g[k - 1] = h[k - 1]
          <6>1. k # 1 => k - 1 \in 1 .. k - 1  BY <2>2, <2>4
          <6> QED  BY <3>4, <6>1
        <5> QED  BY <3>5, <4>1, <5>1, Zenon DEF new
      <4>2. CASE i # k
        <5>1. i \in 1 .. k - 1 /\ g[i] = h[i]  BY <2>2, <3>4, <4>2
        <5>2. i # 1 => g[i - 1] = h[i - 1]
          <6>1. i # 1 => i - 1 \in 1 .. k - 1  BY <2>2, <5>1
          <6> QED  BY <3>4, <6>1
        <5> QED  BY <3>2, <5>1, <5>2, Zenon DEF DeepensTo
      <4> QED  BY <4>1, <4>2
    <3>7. DeepensTo(g, s, k)
      BY <3>6 DEF DeepensTo
    <3> QED  BY <2>2, <3>3, <3>7
  <2> QED  BY <2>3, <2>4
<1>2. n \notin Wrong
  <2> HIDE DEF Wrong
  <2> QED  BY <1>1
<1> QED  BY <1>2

\* Whatever the curve, the drawdown is a pair of numbers.
LEMMA DrawdownTyped ==
    ASSUME NEW s \in Seq(Int), Len(s) > 0
    PROVE  Drawdown(s) \in Int \X Int
PROOF
<1> DEFINE n == Len(s)
           Rec(g) == g = [i \in DOMAIN s |-> IF i = 1 THEN [peak |-> s[1], worst |-> <<0, 1>>]
                                             ELSE Deeper(g[i - 1], s[i])]
           dd == CHOOSE g : Rec(g)
<1>1. n \in Nat \ {0} /\ DOMAIN s = 1 .. n /\ \A i \in 1 .. n : s[i] \in Int
  BY SeqIsFunction
<1>2. PICK g : g = [i \in 1 .. n |-> g[i]] /\ DeepensTo(g, s, n)
  BY <1>1, DeepensExist
<1>3. Rec(g)  BY <1>1, <1>2, Zenon DEF DeepensTo
<1>4. Rec(dd)
  <2> HIDE DEF Rec
  <2> QED  BY <1>3, Zenon
<1>5. DeepensTo(dd, s, n)
  <2> HIDE DEF dd, n
  <2> QED  BY <1>1, <1>4 DEF DeepensTo
<1>6. Drawdown(s) = dd[n].worst
  BY Zenon DEF Drawdown
<1> HIDE DEF dd, n
<1> DEFINE Typed(d) == d.peak \in Int /\ d.worst \in Int \X Int
           Wrong == {i \in 1 .. n : ~Typed(dd[i])}
<1>7. ASSUME Wrong # {} PROVE FALSE
  <2>1. PICK k \in Wrong : \A j \in Wrong : k <= j
    <3>1. Wrong \subseteq Nat  BY <1>1
    <3> HIDE DEF Wrong
    <3> QED  BY <1>7, <3>1, LeastOf
  <2>2. k \in 1 .. n /\ ~Typed(dd[k])
    OBVIOUS
  <2>3. CASE k = 1
    <3>1. dd[1].peak = s[1] /\ dd[1].worst = <<0, 1>> /\ s[1] \in Int
      BY <1>1, <1>5, <2>2, <2>3 DEF DeepensTo
    <3> QED  BY <2>2, <2>3, <3>1
  <2>4. CASE k # 1
    <3>1. k - 1 \in 1 .. n /\ k - 1 \notin Wrong
      <4> HIDE DEF Wrong
      <4> QED  BY <1>1, <2>1, <2>2, <2>4
    <3>2. Typed(dd[k - 1]) /\ s[k] \in Int
      BY <1>1, <2>2, <3>1
    <3>3. dd[k] = Deeper(dd[k - 1], s[k])
      BY <1>5, <2>2, <2>4 DEF DeepensTo
    <3> DEFINE d == dd[k - 1]
               c == s[k]
               peak == IF c > d.peak THEN c ELSE d.peak
    <3>4. peak \in Int /\ peak - c \in Int
      BY <3>2
    <3>5. Deeper(d, c).peak = peak
      BY DEF Deeper
    <3>6. Deeper(d, c).worst = <<peak - c, peak>> \/ Deeper(d, c).worst = d.worst
      BY DEF Deeper
    <3>7. <<peak - c, peak>> \in Int \X Int
      BY <3>4
    <3>8. Typed(Deeper(d, c))
      <4> HIDE DEF d, c, peak
      <4>1. Typed(d)  BY <3>2 DEF d
      <4> QED  BY <3>4, <3>5, <3>6, <3>7, <4>1
    <3> QED  BY <2>2, <3>3, <3>8
  <2> QED  BY <2>3, <2>4
<1>8. Typed(dd[n])
  BY <1>1, <1>7
<1> QED  BY <1>6, <1>8

\* Drawdown is the largest drop of all pairs of a point and a later one.
LEMMA DrawdownFacts ==
    ASSUME NEW s \in Seq(Nat), Len(s) > 0, s[1] > 0
    PROVE  LET d == Drawdown(s)
           IN  /\ d \in Nat \X (Nat \ {0})
               /\ \A j \in 1 .. Len(s) : \A k \in 1 .. j : (s[k] - s[j]) * d[2] <= d[1] * s[k]
               /\ \E j \in 1 .. Len(s) : \E k \in 1 .. j : (s[k] - s[j]) * d[2] = d[1] * s[k]
PROOF
<1> DEFINE n == Len(s)
           Rec(g) == g = [i \in DOMAIN s |-> IF i = 1 THEN [peak |-> s[1], worst |-> <<0, 1>>]
                                             ELSE Deeper(g[i - 1], s[i])]
           dd == CHOOSE g : Rec(g)
<1>1. n \in Nat \ {0} /\ DOMAIN s = 1 .. n /\ \A i \in 1 .. n : s[i] \in Nat
  BY SeqIsFunction
<1>2. PICK g : g = [i \in 1 .. n |-> g[i]] /\ DeepensTo(g, s, n)
  BY <1>1, DeepensExist
<1>3. Rec(g)  BY <1>1, <1>2, Zenon DEF DeepensTo
<1>4. Rec(dd)
  <2> HIDE DEF Rec
  <2> QED  BY <1>3, Zenon
<1>5. DeepensTo(dd, s, n)
  <2> HIDE DEF dd, n
  <2> QED  BY <1>1, <1>4 DEF DeepensTo
<1>6. Drawdown(s) = dd[n].worst
  BY Zenon DEF Drawdown
<1> HIDE DEF dd, n
<1> DEFINE Wrong == {i \in 1 .. n : ~WorstOf(dd[i], s, i)}
<1>7. ASSUME Wrong # {} PROVE FALSE
  <2>1. PICK k \in Wrong : \A j \in Wrong : k <= j
    <3>1. Wrong \subseteq Nat  BY <1>1
    <3> HIDE DEF Wrong
    <3> QED  BY <1>7, <3>1, LeastOf
  <2>2. k \in 1 .. n /\ ~WorstOf(dd[k], s, k)
    OBVIOUS
  <2>3. CASE k = 1
    <3>1. dd[1].peak = s[1] /\ dd[1].worst = <<0, 1>>
      BY <1>5, <2>2, <2>3 DEF DeepensTo
    <3>2. s[1] \in Nat \ {0} /\ 1 \in 1 .. 1 /\ \A i \in 1 .. 1 : i = 1
      BY <1>1
    <3>3. dd[1].worst[1] = 0 /\ dd[1].worst[2] = 1 /\ (s[1] - s[1]) * 1 = 0 * s[1]
      BY <3>1, <3>2
    <3>4. dd[1].worst \in Nat \X (Nat \ {0})
      BY <3>1
    <3>5. \A j \in 1 .. 1 : \A l \in 1 .. j :
              (s[l] - s[j]) * dd[1].worst[2] = dd[1].worst[1] * s[l]
      BY <3>2, <3>3
    <3>6. dd[1].worst[1] * s[1] \in Int
      BY <3>2, <3>3
    <3>7. WorstOf(dd[1], s, 1)
      BY <3>1, <3>2, <3>4, <3>5, <3>6 DEF WorstOf
    <3> QED  BY <2>2, <2>3, <3>7
  <2>4. CASE k # 1
    <3>1. k - 1 \in 1 .. n /\ k - 1 \notin Wrong
      <4> HIDE DEF Wrong
      <4> QED  BY <1>1, <2>1, <2>2, <2>4
    <3>2. WorstOf(dd[k - 1], s, k - 1)
      BY <3>1
    <3>3. dd[k] = Deeper(dd[k - 1], s[k])
      BY <1>5, <2>2, <2>4 DEF DeepensTo
    <3>4. k - 1 \in Nat /\ k - 1 > 0 /\ (k - 1) + 1 = k /\ \A i \in 1 .. k : s[i] \in Nat
      BY <1>1, <2>2, <2>4
    <3>5. WorstOf(Deeper(dd[k - 1], s[(k - 1) + 1]), s, (k - 1) + 1)
      <4> HIDE DEF Wrong
      <4> DEFINE m == k - 1
      <4>1. m \in Nat /\ m > 0 /\ \A i \in 1 .. m + 1 : s[i] \in Nat
        BY <3>4
      <4>2. WorstOf(dd[m], s, m)
        BY <3>2
      <4> HIDE DEF m
      <4>3. WorstOf(Deeper(dd[m], s[m + 1]), s, m + 1)
        BY <4>1, <4>2, DeeperStep
      <4> QED  BY <4>3 DEF m
    <3>6. WorstOf(Deeper(dd[k - 1], s[k]), s, k)
      BY <3>4, <3>5
    <3> QED  BY <2>2, <3>3, <3>6
  <2> QED  BY <2>3, <2>4
<1>8. WorstOf(dd[n], s, n)
  BY <1>1, <1>7
<1> QED  BY <1>6, <1>8 DEF WorstOf, n

----------------------------------------------------------------------------
(* Backtest: what a trade costs.                                           *)

\* With a share of the cash and a commission that fit, what is paid is not more than the cash.
LEMMA BuyAffordable ==
    ASSUME Ordinary, NEW c \in Nat, NEW amt \in Nat, NEW com \in Nat,
           amt * Scale <= c * Share, com * Scale <= amt * Commission
    PROVE  amt + com <= c
PROOF
<1>1. /\ Scale \in Nat \ {0} /\ Share \in Nat /\ Commission \in Nat
      /\ Share * (Scale + Commission) <= Scale * Scale
  BY BacktestAssumption DEF Ordinary
<1>2. \A x, y \in Nat : x * y \in Nat
  OBVIOUS
<1> DEFINE sc == Scale + Commission
           t == amt + com
<1>3. sc \in Nat /\ t \in Nat
  BY <1>1
<1>4. t * Scale <= amt * sc
  <2>1. \A x, y, z \in Int : (x + y) * z = x * z + y * z /\ z * (x + y) = z * x + z * y
    OBVIOUS
  <2>2. t * Scale = amt * Scale + com * Scale /\ amt * sc = amt * Scale + amt * Commission
    BY <1>1, <2>1
  <2> DEFINE as == amt * Scale
             cs == com * Scale
             ac == amt * Commission
             ts == t * Scale
             asc == amt * sc
  <2>3. as \in Int /\ cs \in Int /\ ac \in Int /\ cs <= ac /\ ts = as + cs /\ asc = as + ac
    BY <1>1, <1>2, <2>2
  <2> HIDE DEF as, cs, ac, ts, asc
  <2>4. ts <= asc
    BY <2>3
  <2> QED  BY <2>4 DEF ts, asc
<1>5. Share * sc <= Scale * Scale
  BY <1>1
<1> HIDE DEF t, sc
<1>6. (t * Scale) * Scale <= (amt * sc) * Scale
  <2>1. t * Scale \in Int /\ amt * sc \in Int  BY <1>1, <1>2, <1>3
  <2> QED  BY <1>1, <1>4, <2>1, TimesMonotone
<1>7. (amt * Scale) * sc <= (c * Share) * sc
  <2>1. amt * Scale \in Int /\ c * Share \in Int  BY <1>1, <1>2
  <2> QED  BY <1>3, <2>1, TimesMonotone
<1>8. (Share * sc) * c <= (Scale * Scale) * c
  <2>1. Share * sc \in Int /\ Scale * Scale \in Int
    BY <1>1, <1>2, <1>3
  <2> QED  BY <1>5, <2>1, TimesMonotone
<1>9. \A x, y, z \in Nat : (x * y) * z = (x * z) * y /\ (x * y) * z = x * (y * z)
                           /\ (x * y) * z = (y * z) * x
  OBVIOUS
<1>10. /\ (amt * sc) * Scale = (amt * Scale) * sc
       /\ (c * Share) * sc = (Share * sc) * c
       /\ (t * Scale) * Scale = (Scale * Scale) * t
  <2>1. (amt * sc) * Scale = (amt * Scale) * sc  BY <1>1, <1>3, <1>9
  <2>2. (c * Share) * sc = (Share * sc) * c  BY <1>1, <1>3, <1>9
  <2>3. (t * Scale) * Scale = (Scale * Scale) * t  BY <1>1, <1>3, <1>9
  <2> QED  BY <2>1, <2>2, <2>3
<1> DEFINE ss == Scale * Scale
<1>11. ss \in Nat \ {0}
  <2>1. \A x, y \in Nat \ {0} : x * y \in Nat \ {0}
    OBVIOUS
  <2> QED  BY <1>1, <2>1
<1> DEFINE l1 == (t * Scale) * Scale
           l2 == (amt * Scale) * sc
           l3 == (Share * sc) * c
           l4 == ss * c
<1>12. l1 \in Int /\ l2 \in Int /\ l3 \in Int /\ l4 \in Int
  BY <1>1, <1>2, <1>3
<1>13. l1 <= l2 /\ l2 <= l3 /\ l3 <= l4 /\ l1 = ss * t
  BY <1>6, <1>7, <1>8, <1>10
<1>14. t * ss <= c * ss
  <2>1. \A x, y \in Nat : x * y = y * x
    OBVIOUS
  <2>2. t * ss = ss * t /\ c * ss = l4
    <3>1. ss \in Nat  BY <1>11
    <3> HIDE DEF ss
    <3> QED  BY <1>3, <2>1, <3>1
  <2>3. l1 <= l4
    <3> HIDE DEF l1, l2, l3, l4
    <3> QED  BY <1>12, <1>13
  <2> HIDE DEF l1, l2, l3, l4, ss
  <2> QED  BY <1>13, <2>2, <2>3
<1> HIDE DEF ss
<1>15. t <= c
  BY <1>3, <1>11, <1>14, TimesCancels
<1> QED  BY <1>15 DEF t

\* What the fees leave of the proceeds.
LEMMA FeesWithinGross ==
    ASSUME Ordinary, NEW gross \in Nat
    PROVE  gross - CommissionOf(gross) - TaxOf(gross) \in 0 .. gross
PROOF
<1>1. /\ Scale \in Nat \ {0} /\ Commission \in Nat /\ Tax \in Nat
      /\ Commission + Tax <= Scale
  BY BacktestAssumption DEF Ordinary
<1>2. \A x, y \in Nat : x * y \in Nat
  OBVIOUS
<1> DEFINE com == CommissionOf(gross)
           tax == TaxOf(gross)
<1>3. com \in Nat /\ com * Scale <= gross * Commission
  <2>1. gross * Commission \in Nat  BY <1>1, <1>2
  <2> QED  BY <1>1, <2>1, QuotientBelow DEF CommissionOf
<1>4. tax \in Nat /\ tax * Scale <= gross * Tax
  <2>1. gross * Tax \in Nat  BY <1>1, <1>2
  <2> QED  BY <1>1, <2>1, QuotientBelow DEF TaxOf
<1>5. (Commission + Tax) * gross <= Scale * gross
  BY <1>1, TimesMonotone
<1> HIDE DEF com, tax
<1>6. \A x, y, z \in Int : (x + y) * z = x * z + y * z /\ z * x = x * z
  OBVIOUS
<1> DEFINE cs == com * Scale
           ts == tax * Scale
           gc == gross * Commission
           gt == gross * Tax
           gs == gross * Scale
<1>7. /\ (com + tax) * Scale = cs + ts
      /\ (Commission + Tax) * gross = gc + gt
      /\ Scale * gross = gs
  BY <1>1, <1>3, <1>4, <1>6
<1>8. cs \in Int /\ ts \in Int /\ gc \in Int /\ gt \in Int /\ gs \in Int
  BY <1>1, <1>2, <1>3, <1>4
<1>9. cs <= gc /\ ts <= gt /\ gc + gt <= gs
  BY <1>3, <1>4, <1>5, <1>7
<1>10. cs + ts <= gs
  <2> HIDE DEF cs, ts, gc, gt, gs
  <2> QED  BY <1>8, <1>9
<1>11. com + tax <= gross
  <2>1. com + tax \in Int  BY <1>3, <1>4
  <2>2. (com + tax) * Scale <= gross * Scale  BY <1>7, <1>10
  <2> QED  BY <1>1, <2>1, <2>2, TimesCancels
<1>12. gross - com - tax \in 0 .. gross
  BY <1>3, <1>4, <1>11
<1> QED  BY <1>12 DEF com, tax

\* With any rates, prices and fees are numbers.
LEMMA PricesTyped ==
    ASSUME config \in Requests, NEW price \in Closes
    PROVE  /\ price \in Nat /\ Money \in Nat \ {0} /\ Scale \in Nat \ {0} /\ Share \in Nat
           /\ InitialCash \in Int
           /\ BuyPrice(price) \in Int /\ SellPrice(price) \in Int
           /\ \A x \in Int : CommissionOf(x) \in Int /\ TaxOf(x) \in Int
PROOF
<1>1. /\ price \in Nat /\ Scale \in Nat \ {0} /\ Share \in Nat
      /\ InitialCash \in Int /\ Slippage \in Int /\ Commission \in Int /\ Tax \in Int
  <2>1. /\ InitialCash \in Cashes /\ Slippage \in Slippages
        /\ Commission \in Commissions /\ Tax \in Taxes
    BY DEF Requests, InitialCash, Slippage, Commission, Tax
  <2>2. price \in Nat /\ Scale \in Nat \ {0} /\ Share \in Nat
    BY BacktestAssumption
  <2>3. InitialCash \in Int /\ Slippage \in Int /\ Commission \in Int /\ Tax \in Int
    BY <2>1, BacktestAssumption
  <2> QED  BY <2>2, <2>3
<1>2. /\ \A x, y \in Nat \ {0} : x * y \in Nat \ {0}
      /\ \A x, y \in Int : x * y \in Int
      /\ \A x \in Int, y \in Nat \ {0} : x \div y \in Int
  OBVIOUS
<1>3. Money \in Nat \ {0}
  BY <1>1, <1>2 DEF Money
<1>4. BuyPrice(price) \in Int
  <2>1. Scale + Slippage \in Int  BY <1>1
  <2>2. price * (Scale + Slippage) \in Int  BY <1>1, <1>2, <2>1
  <2> QED  BY <1>1, <1>2, <2>2 DEF BuyPrice
<1>5. SellPrice(price) \in Int
  <2>1. Scale - Slippage \in Int  BY <1>1
  <2>2. price * (Scale - Slippage) \in Int  BY <1>1, <1>2, <2>1
  <2> QED  BY <1>1, <1>2, <2>2 DEF SellPrice
<1>6. ASSUME NEW x \in Int
      PROVE  CommissionOf(x) \in Int /\ TaxOf(x) \in Int
  <2>1. x * Commission \in Int /\ x * Tax \in Int  BY <1>1, <1>2
  <2> QED  BY <1>1, <1>2, <2>1 DEF CommissionOf, TaxOf
<1> QED  BY <1>1, <1>3, <1>4, <1>5, <1>6

LEMMA OrdinaryPrices ==
    ASSUME Ordinary, NEW price \in Closes
    PROVE  /\ price > 0 => BuyPrice(price) \in Nat \ {0}
           /\ SellPrice(price) \in Nat /\ SellPrice(price) <= price * Money
PROOF
<1>1. /\ price \in Nat /\ Scale \in Nat \ {0} /\ Slippage \in 0 .. Scale
  BY BacktestAssumption DEF Ordinary
<1>2. /\ \A x, y \in Nat \ {0} : x * y \in Nat \ {0}
      /\ \A x, y \in Nat : x * y \in Nat
  OBVIOUS
<1>3. Scale + Slippage \in Nat \ {0} /\ Scale - Slippage \in Nat /\ Scale - Slippage <= Scale
  BY <1>1
<1>5. ASSUME price > 0 PROVE BuyPrice(price) \in Nat \ {0}
  <2> DEFINE f == Scale + Slippage
  <2>1. price * f \in Nat \ {0}
    <3>1. f \in Nat \ {0} /\ price \in Nat \ {0}  BY <1>1, <1>3, <1>5
    <3> HIDE DEF f
    <3> QED  BY <1>2, <3>1
  <2>2. (price * f) * Scale \in Nat \ {0}
    <3> DEFINE pf == price * f
    <3>1. pf \in Nat \ {0}  BY <2>1
    <3> HIDE DEF pf
    <3>2. pf * Scale \in Nat \ {0}  BY <1>1, <1>2, <3>1
    <3> QED  BY <3>2 DEF pf
  <2> QED  BY <2>2 DEF BuyPrice
<1> DEFINE f == Scale - Slippage
<1>6. f \in Nat /\ f <= Scale
  BY <1>3
<1>7. SellPrice(price) = (price * f) * Scale
  BY DEF SellPrice
<1> HIDE DEF f
<1>8. price * f \in Nat /\ (price * f) * Scale \in Nat
  BY <1>1, <1>2, <1>6
<1>9. (price * f) * Scale <= (price * Scale) * Scale
  <2>1. f * price <= Scale * price
    BY <1>1, <1>6, TimesMonotone
  <2>2. price * f = f * price /\ price * Scale = Scale * price /\ price * Scale \in Int
    <3>1. \A x, y \in Int : x * y = y * x /\ x * y \in Int
      OBVIOUS
    <3> QED  BY <1>1, <1>6, <3>1
  <2>3. price * f <= price * Scale
    BY <2>1, <2>2
  <2> QED  BY <1>1, <1>8, <2>2, <2>3, TimesMonotone
<1>10. (price * Scale) * Scale = price * Money
  <2>1. \A x, y, z \in Int : (x * y) * z = x * (y * z)
    OBVIOUS
  <2> QED  BY <1>1, <2>1 DEF Money
<1> QED  BY <1>5, <1>7, <1>8, <1>9, <1>10

\* What a purchase costs.
LEMMA PurchaseFacts ==
    ASSUME config \in Requests, cash \in Int, NEW price \in Closes
    PROVE  LET q == Qty(price)
               amt == BuyPrice(price) * q
               com == CommissionOf(amt)
           IN  /\ q \in Nat /\ amt \in Int /\ com \in Int
               /\ Ordinary /\ cash \in Nat /\ price > 0 =>
                     amt \in Nat /\ com \in Nat /\ amt + com <= cash
PROOF
<1> DEFINE b == BuyPrice(price)
           q == Qty(price)
           amt == b * q
           com == CommissionOf(amt)
           a == cash * Share
           d == Scale * b
<1>1. /\ Scale \in Nat \ {0} /\ Share \in Nat /\ b \in Int
      /\ \A x \in Int : CommissionOf(x) \in Int
  BY PricesTyped
<1>2. /\ \A x, y \in Nat : x * y \in Nat
      /\ \A x, y \in Int : x * y \in Int
      /\ \A x, y \in Nat \ {0} : x * y \in Nat \ {0}
  OBVIOUS
<1>3. /\ (a > 0 /\ d > 0 /\ q = a \div d)
         \/ (a < 0 /\ d < 0 /\ q = (0 - a) \div (0 - d))
         \/ (~(a > 0 /\ d > 0) /\ q = 0)
      /\ a > 0 /\ d > 0 => q = a \div d
  BY DEF Qty
<1> HIDE DEF b, q
<1>4. a \in Int /\ d \in Int
  BY <1>1, <1>2
<1>5. q \in Nat
  <2> HIDE DEF a, d
  <2>1. CASE a > 0 /\ d > 0
    <3>1. a \in Nat /\ d \in Nat \ {0}  BY <1>4, <2>1
    <3> QED  BY <1>3, <2>1, <3>1, QuotientBelow
  <2>2. CASE a < 0 /\ d < 0 /\ q = (0 - a) \div (0 - d)
    <3> DEFINE na == 0 - a
               nd == 0 - d
    <3>1. na \in Nat /\ nd \in Nat \ {0} /\ q = na \div nd  BY <1>4, <2>2
    <3> HIDE DEF na, nd
    <3> QED  BY <3>1, QuotientBelow
  <2>3. CASE q = 0
    BY <2>3
  <2> QED  BY <1>3, <2>1, <2>2, <2>3
<1>6. amt \in Int
  BY <1>1, <1>2, <1>5
<1>7. com \in Int
  <2> HIDE DEF amt
  <2> QED  BY <1>1, <1>6
<1>8. ASSUME Ordinary, cash \in Nat, price > 0
      PROVE  amt \in Nat /\ com \in Nat /\ amt + com <= cash
  <2>1. b \in Nat \ {0} /\ Commission \in Nat
    BY <1>8, OrdinaryPrices DEF b, Ordinary
  <2>2. a \in Nat /\ d \in Nat \ {0}
    BY <1>1, <1>2, <1>8, <2>1
  <2>3. q * d <= a
    <3> HIDE DEF a, d
    <3>1. CASE a = 0
      <4>1. q = 0
        BY <1>3, <2>2, <3>1
      <4>2. q * d = 0
        BY <2>2, <4>1
      <4> QED  BY <3>1, <4>2
    <3>2. CASE a # 0
      <4>1. q = a \div d
        BY <1>3, <2>2, <3>2
      <4> QED  BY <2>2, <4>1, QuotientBelow
    <3> QED  BY <3>1, <3>2
  <2>4. amt \in Nat
    BY <1>2, <1>5, <2>1
  <2>5. amt * Scale <= cash * Share
    <3>1. \A x, y, z \in Nat : (x * y) * z = y * (z * x)
      OBVIOUS
    <3>2. (b * q) * Scale = q * (Scale * b)
      BY <1>1, <1>5, <2>1, <3>1
    <3> QED  BY <2>3, <3>2
  <2> HIDE DEF amt
  <2>6. com \in Nat /\ com * Scale <= amt * Commission
    <3>1. amt * Commission \in Nat  BY <1>2, <2>1, <2>4
    <3> QED  BY <1>1, <3>1, QuotientBelow DEF CommissionOf
  <2> HIDE DEF com
  <2>7. amt + com <= cash
    BY <1>8, <2>4, <2>5, <2>6, BuyAffordable
  <2> QED  BY <2>4, <2>6, <2>7
<1> QED  BY <1>5, <1>6, <1>7, <1>8 DEF b, q, amt, com

\* What a sale brings in.
LEMMA SaleFacts ==
    ASSUME config \in Requests, position.qty \in Nat, NEW price \in Closes
    PROVE  /\ Net(price) \in Int /\ position.qty * price * Money \in Nat
           /\ Ordinary => Net(price) \in Nat /\ Net(price) <= position.qty * price * Money
PROOF
<1> DEFINE q == position.qty
           gross == SellPrice(price) * q
           m == price * Money
<1>1. /\ price \in Nat /\ Money \in Nat /\ SellPrice(price) \in Int
      /\ \A x \in Int : CommissionOf(x) \in Int /\ TaxOf(x) \in Int
  BY PricesTyped
<1>2. q \in Nat
  OBVIOUS
<1>3. (\A x, y \in Nat : x * y \in Nat) /\ (\A x, y \in Int : x * y \in Int)
  OBVIOUS
<1>4. m \in Nat
  BY <1>1, <1>3
<1> HIDE DEF q, m
<1>5. gross \in Int
  BY <1>1, <1>2, <1>3
<1>6. m * q = q * price * Money
  <2>1. \A x, y, z \in Nat : (x * y) * z = (z * x) * y
    OBVIOUS
  <2> QED  BY <1>1, <1>2, <2>1 DEF m
<1>7. m * q \in Nat
  BY <1>2, <1>3, <1>4
<1>8. Net(price) = gross - CommissionOf(gross) - TaxOf(gross)
  BY DEF Net, q
<1>9. Net(price) \in Int
  <2> HIDE DEF gross
  <2> QED  BY <1>1, <1>5, <1>8
<1>10. ASSUME Ordinary
       PROVE  Net(price) \in Nat /\ Net(price) <= m * q
  <2>1. SellPrice(price) \in Nat /\ SellPrice(price) <= m
    BY <1>10, OrdinaryPrices DEF m
  <2>2. gross \in Nat /\ gross <= m * q
    BY <1>2, <1>3, <1>4, <2>1, TimesMonotone
  <2> HIDE DEF gross
  <2>3. Net(price) \in 0 .. gross
    BY <1>8, <1>10, <2>2, FeesWithinGross
  <2> QED  BY <1>7, <2>2, <2>3
<1> QED  BY <1>6, <1>7, <1>9, <1>10 DEF q

----------------------------------------------------------------------------
(* Backtest: the invariant.                                                *)

LEMMA BacktestInitially == ASSUME BacktestInit PROVE BacktestInv
PROOF
<1> USE DEF BacktestInit
<1>1. Scale \in Nat \ {0} /\ MaxBars \in Nat /\ Lookback \in Nat /\ Cashes \subseteq Int
  BY BacktestAssumption
<1>2. InitialCash \in Int
  BY <1>1 DEF Requests, InitialCash
<1> DEFINE start == InitialCash * Money
<1>3. start \in Int /\ (InitialCash > 0 => start \in Nat)
  <2>1. (\A x, y \in Nat : x * y \in Nat) /\ (\A x, y \in Int : x * y \in Int)
    OBVIOUS
  <2>2. Money \in Nat  BY <1>1, <2>1 DEF Money
  <2> QED  BY <1>2, <2>1, <2>2
<1>4. \A D : <<>> \in Seq(D) /\ Len(<<>>) = 0
  OBVIOUS
<1>5. position.entry_price = 0 /\ position.qty = 0 /\ position.commission_buy = 0
  BY DEF NoPosition
<1>6. BacktestTypeOK
  <2>1. cash \in Int  BY <1>3
  <2>2. bars \in Seq(Closes) /\ Len(bars) <= MaxBars /\ trades \in Seq(Int) /\ equity \in Seq(Int)
    BY <1>1, <1>4
  <2>3. missed \in BOOLEAN /\ config \in Requests
    OBVIOUS
  <2>4. report \in [final : Int, mdd : Int \X Int, gained : Int, wins : Nat, count : Nat]
    BY DEF NoReport
  <2>5. position \in [entry_price : Int, qty : Nat, commission_buy : Int]
    BY DEF NoPosition
  <2> QED  BY <2>1, <2>2, <2>3, <2>4, <2>5 DEF BacktestTypeOK
<1>7. NoDebt
  <2>1. equity = <<>> /\ \A i \in DOMAIN equity : equity[i] >= 0
    OBVIOUS
  <2>2. ASSUME Ordinary PROVE cash >= 0
    BY <1>3, <2>2 DEF Ordinary
  <2> QED  BY <1>5, <2>1, <2>2 DEF NoDebt
<1>8. CashExplained
  <2>1. Total(trades) = 0
    BY TotalFacts
  <2>2. start \in Int /\ cash = start  BY <1>3
  <2> HIDE DEF start
  <2>3. cash + position.entry_price * position.qty + position.commission_buy = start + Total(trades)
    <3>1. position.entry_price * position.qty = 0  BY <1>5
    <3> QED  BY <1>5, <2>1, <2>2, <3>1
  <2> QED  BY <2>3 DEF CashExplained, start
<1>9. CurveStartsFlat
  BY <1>1, <1>4 DEF CurveStartsFlat
<1>10. CurveEnds
  BY DEF CurveEnds, Holds
<1>11. DrawdownIsWorst /\ ReportAddsUp
  BY DEF DrawdownIsWorst, ReportAddsUp
<1> QED  BY <1>6, <1>7, <1>8, <1>9, <1>10, <1>11 DEF BacktestInv

\* What a bar does to the money: nothing, a purchase, or a sale.
LEMMA BarCases ==
    ASSUME NEW price \in Closes, NEW buy \in BOOLEAN, NEW sell \in BOOLEAN,
           Bar(price, buy, sell), bars \in Seq(Closes), Lookback \in Nat
    PROVE  \/ UNCHANGED <<cash, position, trades>>
           \/ /\ Len(bars) + 1 >= Lookback /\ ~Holds /\ price > 0
              /\ Buy(price) /\ UNCHANGED trades
           \/ Len(bars) + 1 >= Lookback /\ Holds /\ Sell(price)
PROOF
<1>1. Len(bars) \in Nat
  BY LenProperties
<1>2. CASE Silent
  BY <1>2 DEF Bar
<1>3. CASE ~Silent
  <2>1. Len(bars) + 1 >= Lookback
    BY <1>1, <1>3 DEF Silent
  <2>2. IF Buys(price, buy) THEN Buy(price) /\ UNCHANGED trades
        ELSE IF sell /\ Holds THEN Sell(price)
        ELSE UNCHANGED <<cash, position, trades>>
    BY <1>3, Zenon DEF Bar
  <2> QED  BY <2>1, <2>2, Zenon DEF Buys
<1> QED  BY <1>2, <1>3

LEMMA BarKeeps ==
    ASSUME BacktestInv, NEW price \in Closes, NEW buy \in BOOLEAN, NEW sell \in BOOLEAN,
           Bar(price, buy, sell)
    PROVE  BacktestInv'
PROOF
<1> DEFINE start == InitialCash * Money
           ep == position.entry_price
           q == position.qty
           cb == position.commission_buy
<1>1. /\ config \in Requests /\ config' = config
      /\ Lookback \in Nat \ {0} /\ MaxBars \in Nat
      /\ InitialCash \in Int /\ Money \in Nat \ {0} /\ price \in Nat
  <2>1. config \in Requests /\ config' = config
    BY DEF BacktestInv, BacktestTypeOK, Bar
  <2> QED  BY <2>1, BacktestAssumption, PricesTyped
<1>2. (\A x, y \in Nat : x * y \in Nat) /\ (\A x, y \in Int : x * y \in Int)
  OBVIOUS
<1>3. start \in Int /\ start' = start /\ (Ordinary' <=> Ordinary)
  BY <1>1, <1>2 DEF InitialCash, Money, Ordinary, Slippage, Commission, Tax
<1>4. /\ bars \in Seq(Closes) /\ trades \in Seq(Int) /\ equity \in Seq(Int)
      /\ cash \in Int /\ missed \in BOOLEAN
      /\ ep \in Int /\ q \in Nat /\ cb \in Int
      /\ position \in [entry_price : Int, qty : Nat, commission_buy : Int]
      /\ Len(bars) <= MaxBars
      /\ Ordinary => cash \in Nat /\ ep \in Nat /\ cb \in Nat
  BY DEF BacktestInv, BacktestTypeOK, NoDebt
<1>5. /\ bars' = Append(bars, price) /\ equity' = Append(equity, Worth(price))
      /\ outcome' \in {"running", "raised"} /\ report' = report /\ ast' = ast
      /\ Len(bars) < MaxBars
  BY DEF Bar
<1>6. /\ bars' \in Seq(Closes) /\ Len(bars) \in Nat /\ Len(bars') = Len(bars) + 1
      /\ bars' # <<>> /\ bars'[Len(bars')] = price
  <2>1. bars' # <<>>
    <3> DEFINE old == bars
               new == bars'
    <3>1. old \in Seq(Closes) /\ new = Append(old, price)
      BY <1>4, <1>5
    <3> HIDE DEF old, new
    <3>2. Len(new) = Len(old) + 1 /\ Len(old) \in Nat
      BY <3>1, AppendProperties, LenProperties
    <3>3. new # <<>>
      BY <3>2
    <3> QED  BY <3>3 DEF new
  <2> QED  BY <1>4, <1>5, <2>1, AppendProperties, LenProperties
<1>7. /\ q * price * Money \in Nat /\ Worth(price) \in Int
      /\ Worth(price) = cash + q * price * Money
      /\ Ordinary => Worth(price) \in Nat
  <2>1. q * price * Money \in Nat
    BY <1>1, <1>4, SaleFacts
  <2> DEFINE w == q * price * Money
  <2>2. w \in Nat /\ Worth(price) = cash + w
    BY <2>1 DEF Worth
  <2> HIDE DEF w
  <2>3. Worth(price) \in Int /\ (Ordinary => Worth(price) \in Nat)
    BY <1>4, <2>2
  <2> QED  BY <2>2, <2>3 DEF w
<1>8. ~Holds => position = NoPosition /\ ep = 0 /\ q = 0 /\ cb = 0 /\ Worth(price) = cash
  <2>1. ~Holds => position = NoPosition
    BY DEF Holds
  <2>2. NoPosition.entry_price = 0 /\ NoPosition.qty = 0 /\ NoPosition.commission_buy = 0
    BY DEF NoPosition
  <2>3. 0 * price * Money = 0
    BY <1>1
  <2> QED  BY <1>4, <1>7, <2>1, <2>2, <2>3
<1>9. /\ equity' \in Seq(Int) /\ Len(equity') = Len(equity) + 1 /\ Len(equity) = Len(bars)
      /\ \A i \in 1 .. Len(equity) : equity'[i] = equity[i]
      /\ equity'[Len(equity')] = Worth(price)
  <2>1. Len(equity) = Len(bars)
    BY DEF BacktestInv, CurveStartsFlat
  <2> QED  BY <1>4, <1>5, <1>7, <2>1, AppendProperties, LenProperties
<1>10. Len(bars) < Lookback => cash = start /\ ~Holds
  BY DEF BacktestInv, CurveEnds
<1>11. cash + ep * q + cb = start + Total(trades) /\ Total(trades) \in Int /\ ep * q \in Int
  BY <1>2, <1>4, TotalFacts DEF BacktestInv, CashExplained
\* The curve.
<1>12. CurveStartsFlat'
  <2>1. Len(equity') = Len(bars')
    BY <1>6, <1>9
  <2>2. ASSUME NEW i \in 1 .. Lookback, i <= Len(equity')
        PROVE  equity'[i] = start
    <3>1. CASE i = Len(equity')
      <4>1. Len(bars) < Lookback
        BY <1>1, <1>6, <1>9, <2>2, <3>1
      <4> QED  BY <1>8, <1>9, <1>10, <3>1, <4>1
    <3>2. CASE i # Len(equity')
      <4>1. i \in 1 .. Len(equity) /\ i <= Len(equity)
        BY <1>6, <1>9, <2>2, <3>2
      <4>2. equity[i] = start
        BY <4>1 DEF BacktestInv, CurveStartsFlat
      <4> QED  BY <1>9, <4>1, <4>2
    <3> QED  BY <3>1, <3>2
  <2>3. \A i \in 1 .. Lookback : i <= Len(equity') => equity'[i] = start'
    <3> HIDE DEF start
    <3> QED  BY <1>3, <2>2
  <2> QED  BY <2>1, <2>3 DEF CurveStartsFlat
\* The money.
<1> DEFINE Types == /\ cash' \in Int /\ trades' \in Seq(Int)
                    /\ position' \in [entry_price : Int, qty : Nat, commission_buy : Int]
           Paid == Ordinary => /\ cash' >= 0
                               /\ position'.entry_price >= 0 /\ position'.commission_buy >= 0
           Explained == cash' + position'.entry_price * position'.qty + position'.commission_buy
                            = start + Total(trades')
           Closing == /\ Len(bars') < Lookback => cash' = start /\ ~Holds'
                      /\ IF Holds' THEN \/ Worth(price) = cash' + position'.qty * price * Money
                                        \/ Worth(price) = cash' + position'.entry_price * position'.qty
                                                                + position'.commission_buy
                         ELSE Ordinary => Worth(price) >= cash'
<1>13. Types /\ Paid /\ Explained /\ Closing
  <2>1. CASE UNCHANGED <<cash, position, trades>>
    <3>1. cash' = cash /\ position' = position /\ trades' = trades /\ (Holds' <=> Holds)
      BY <2>1 DEF Holds
    <3>2. Types /\ Paid
      BY <1>4, <3>1
    <3>3. Explained
      BY <1>11, <3>1
    <3>4. Len(bars') < Lookback => cash' = start /\ ~Holds'
      <4>1. Len(bars') < Lookback => Len(bars) < Lookback
        BY <1>1, <1>6
      <4> QED  BY <1>10, <3>1, <4>1
    <3>5. IF Holds' THEN Worth(price) = cash' + position'.qty * price * Money
          ELSE Worth(price) >= cash'
      <4>1. CASE Holds
        BY <1>7, <3>1, <4>1
      <4>2. CASE ~Holds
        <5>1. Worth(price) = cash /\ cash \in Int
          BY <1>4, <1>8, <4>2
        <5>2. Worth(price) >= cash'
          BY <3>1, <5>1
        <5> QED  BY <3>1, <4>2, <5>2
      <4> QED  BY <4>1, <4>2
    <3> QED  BY <3>2, <3>3, <3>4, <3>5, Zenon
  <2>2. CASE /\ Len(bars) + 1 >= Lookback /\ ~Holds /\ price > 0
             /\ Buy(price) /\ UNCHANGED trades
             /\ ~UNCHANGED <<cash, position, trades>>
    <3> DEFINE n == Qty(price)
               b == BuyPrice(price)
               amt == b * n
               com == CommissionOf(amt)
    <3>1. /\ n \in Nat /\ amt \in Int /\ com \in Int /\ b \in Int
          /\ Ordinary => /\ amt \in Nat /\ com \in Nat /\ amt + com <= cash
                         /\ b \in Nat /\ cash \in Nat
      BY <1>1, <1>4, <2>2, PurchaseFacts, PricesTyped, OrdinaryPrices
    <3>2. /\ n # 0 /\ cash' = (cash - amt) - com /\ trades' = trades
          /\ position' = [entry_price |-> b, qty |-> n, commission_buy |-> com]
      <4>1. n = 0 => UNCHANGED <<cash, position>>
        BY <2>2 DEF Buy
      <4>2. n # 0
        BY <2>2, <4>1
      <4> QED  BY <2>2, <4>2 DEF Buy
    <3> HIDE DEF com
    <3>3. /\ position'.entry_price = b /\ position'.qty = n /\ position'.commission_buy = com
      BY <3>2
    <3>4. Types
      <4> HIDE DEF n, b, amt
      <4>1. cash' \in Int  BY <1>4, <3>1, <3>2
      <4>2. position' \in [entry_price : Int, qty : Nat, commission_buy : Int]
        BY <3>1, <3>2
      <4> QED  BY <1>4, <3>2, <4>1, <4>2
    <3>5. Paid
      <4> HIDE DEF n, b, amt
      <4> QED  BY <1>4, <3>1, <3>2, <3>3
    <3>6. cash' + position'.entry_price * position'.qty + position'.commission_buy = cash
      <4>1. position'.entry_price * position'.qty = amt
        BY <3>3
      <4> HIDE DEF n, b, amt
      <4> QED  BY <1>4, <3>1, <3>2, <3>3, <4>1
    <3>7. cash = start + Total(trades)
      <4>1. ep * q = 0 /\ cb = 0
        BY <1>8, <2>2
      <4> QED  BY <1>4, <1>11, <4>1
    <3>8. Explained
      BY <3>2, <3>6, <3>7
    <3>9. ~(Len(bars') < Lookback)
      BY <1>1, <1>6, <2>2
    <3>10. Worth(price) = cash
      BY <1>8, <2>2
    <3>11. Ordinary => Worth(price) >= cash'
      <4> HIDE DEF n, b, amt
      <4> QED  BY <1>4, <3>1, <3>2, <3>10
    <3> QED  BY <3>4, <3>5, <3>6, <3>8, <3>9, <3>10, <3>11, Zenon
  <2>3. CASE Len(bars) + 1 >= Lookback /\ Holds /\ Sell(price)
    <3> DEFINE net == Net(price)
               w == q * price * Money
    <3>1. net \in Int /\ w \in Nat /\ (Ordinary => net \in Nat /\ net <= w)
      BY <1>1, <1>4, SaleFacts
    <3>2. /\ cash' = cash + net /\ trades' = Append(trades, Pnl(net))
          /\ position' = NoPosition
      BY <2>3 DEF Sell
    <3>3. Worth(price) = cash + w
      BY <1>7
    <3> HIDE DEF net, w
    <3>4. Pnl(net) = net - ep * q - cb /\ Pnl(net) \in Int
      <4>1. Pnl(net) = net - ep * q - cb
        BY DEF Pnl
      <4> QED  BY <1>4, <1>11, <3>1, <4>1
    <3>5. trades' \in Seq(Int) /\ Total(trades') = Total(trades) + Pnl(net)
      BY <1>4, <3>2, <3>4, TotalFacts, AppendProperties
    <3>6. /\ position'.entry_price = 0 /\ position'.qty = 0 /\ position'.commission_buy = 0
          /\ ~Holds'
      BY <3>2 DEF NoPosition, Holds
    <3>7. Types
      <4>1. cash' \in Int  BY <1>4, <3>1, <3>2
      <4>2. position' \in [entry_price : Int, qty : Nat, commission_buy : Int]
        BY <3>2 DEF NoPosition
      <4> QED  BY <3>5, <4>1, <4>2
    <3>8. Paid
      BY <1>4, <3>1, <3>2, <3>6
    <3>9. Explained
      <4> DEFINE eq == ep * q
                 t == Total(trades)
      <4>1. eq \in Int /\ t \in Int /\ cash + eq + cb = start + t
        BY <1>11
      <4>2. Pnl(net) = net - eq - cb
        BY <3>4
      <4>3. position'.entry_price * position'.qty = 0
        BY <3>6
      <4>4. Total(trades') = t + (net - eq - cb)
        BY <3>5, <4>2
      <4>5. start \in Int /\ cash \in Int /\ net \in Int /\ cb \in Int
        BY <1>3, <1>4, <3>1
      <4> HIDE DEF eq, t, start, cb
      <4>6. cash + net + 0 + 0 = start + (t + (net - eq - cb))
        BY <4>1, <4>5
      <4> QED  BY <3>2, <3>6, <4>3, <4>4, <4>6
    <3>10. ~(Len(bars') < Lookback)
      BY <1>1, <1>6, <2>3
    <3>11. Ordinary => Worth(price) >= cash'
      BY <1>4, <3>1, <3>2, <3>3
    <3> QED  BY <3>6, <3>7, <3>8, <3>9, <3>10, <3>11, Zenon
  <2>4. \/ UNCHANGED <<cash, position, trades>>
        \/ /\ Len(bars) + 1 >= Lookback /\ ~Holds /\ price > 0
           /\ Buy(price) /\ UNCHANGED trades
        \/ Len(bars) + 1 >= Lookback /\ Holds /\ Sell(price)
    BY <1>1, <1>4, BarCases
  <2> QED  BY <2>1, <2>2, <2>3, <2>4, Zenon
<1>14. BacktestTypeOK'
  <2>1. ast' \in {"Script", "ScriptV2"} /\ config' \in Requests
        /\ outcome' \in {"running", "done", "raised"}
    BY <1>1, <1>5 DEF BacktestInv, BacktestTypeOK
  <2>2. missed' \in BOOLEAN
    <3>1. (missed \/ (/\ Buys(price, buy) /\ Qty(price) > 0
                      /\ Len(bars') >= Lookback /\ position' = NoPosition)) \in BOOLEAN
      OBVIOUS
    <3> QED  BY <3>1, Zenon DEF Bar
  <2>3. report' \in [final : Int, mdd : Int \X Int, gained : Int, wins : Nat, count : Nat]
    BY <1>5 DEF BacktestInv, BacktestTypeOK
  <2>4. Len(bars') <= MaxBars
    BY <1>1, <1>5, <1>6
  <2> QED  BY <1>6, <1>9, <1>13, <2>1, <2>2, <2>3, <2>4, Zenon DEF BacktestTypeOK
<1>15. NoDebt'
  <2> SUFFICES ASSUME Ordinary
               PROVE  /\ cash' >= 0
                      /\ position'.entry_price >= 0 /\ position'.commission_buy >= 0
                      /\ \A i \in DOMAIN equity' : equity'[i] >= 0
                      /\ outcome' # "raised"
    BY <1>3, Zenon DEF NoDebt
  <2>1. \A i \in DOMAIN equity' : equity'[i] >= 0
    <3> SUFFICES ASSUME NEW i \in DOMAIN equity'
                 PROVE  equity'[i] >= 0
      OBVIOUS
    <3>1. i \in 1 .. Len(equity) + 1 /\ DOMAIN equity = 1 .. Len(equity) /\ Len(equity) \in Nat
      BY <1>4, <1>9, LenProperties
    <3>2. CASE i = Len(equity')
      BY <1>7, <1>9, <3>2
    <3>3. CASE i # Len(equity')
      <4>1. i \in 1 .. Len(equity)
        BY <1>9, <3>1, <3>3
      <4>2. equity[i] >= 0
        BY <3>1, <4>1 DEF BacktestInv, NoDebt
      <4> QED  BY <1>9, <4>1, <4>2
    <3> QED  BY <3>2, <3>3
  <2>2. outcome' # "raised"
    <3>1. price > 0 => BuyPrice(price) # 0
      BY OrdinaryPrices
    <3>2. ~(~Silent /\ Buys(price, buy) /\ PriceVanishes(price))
      BY <3>1 DEF Buys, PriceVanishes
    <3> QED  BY <3>2 DEF Bar
  <2> QED  BY <1>13, <2>1, <2>2
<1>16. CashExplained'
  <2>1. Explained /\ start' = start
    BY <1>3, <1>13
  <2> QED  BY <2>1, Zenon DEF CashExplained
<1>17. CurveEnds'
  <2>1. (Len(bars) < Lookback => cash = start /\ ~Holds)'
    BY <1>3, <1>13, Zenon
  <2>2. Worth(price)' = cash' + position'.qty * price * Money
    BY DEF Worth, Money
  <2>3. (LET last == equity[Len(equity)]
             p == bars[Len(bars)]
         IN  IF Holds
               THEN \/ last = Worth(p)
                    \/ last = cash + position.entry_price * position.qty
                                   + position.commission_buy
               ELSE Ordinary => last >= cash)'
    <3>1. CASE Holds'
      BY <1>6, <1>9, <1>13, <3>1 DEF Worth, Money
    <3>2. CASE ~Holds'
      BY <1>3, <1>9, <1>13, <3>2
    <3> QED  BY <3>1, <3>2
  <2> QED  BY <2>1, <2>3 DEF CurveEnds
<1>18. DrawdownIsWorst' /\ ReportAddsUp'
  BY <1>5 DEF DrawdownIsWorst, ReportAddsUp
<1> QED  BY <1>12, <1>14, <1>15, <1>16, <1>17, <1>18 DEF BacktestInv

\* What is left alone keeps what is said of it.
LEMMA EndsKeeps ==
    ASSUME UNCHANGED <<config, bars, cash, position, trades, equity>>
    PROVE  /\ CashExplained => CashExplained'
           /\ CurveStartsFlat => CurveStartsFlat'
           /\ CurveEnds => CurveEnds'
           /\ NoDebt /\ (outcome' = outcome \/ outcome' = "done") => NoDebt'
PROOF
<1>1. /\ InitialCash' = InitialCash /\ (Ordinary' <=> Ordinary) /\ (Holds' <=> Holds)
      /\ Money' = Money
  BY DEF InitialCash, Ordinary, Slippage, Commission, Tax, Holds, Money
<1>2. CashExplained => CashExplained'
  BY <1>1 DEF CashExplained
<1>3. CurveStartsFlat => CurveStartsFlat'
  BY <1>1 DEF CurveStartsFlat
<1>4. CurveEnds => CurveEnds'
  BY <1>1 DEF CurveEnds, Worth
<1>5. NoDebt /\ (outcome' = outcome \/ outcome' = "done") => NoDebt'
  BY <1>1 DEF NoDebt
<1> QED  BY <1>2, <1>3, <1>4, <1>5

LEMMA ReportKeeps == ASSUME BacktestInv, Report PROVE BacktestInv'
PROOF
<1> DEFINE start == InitialCash * Money
           last == equity[Len(equity)]
           price == bars[Len(bars)]
           ep == position.entry_price
           q == position.qty
           cb == position.commission_buy
<1>1. /\ UNCHANGED <<ast, config, bars, cash, position, trades, equity, missed>>
      /\ Len(bars) >= Lookback /\ outcome' = "done"
  BY DEF Report, Ends
<1>2. /\ bars \in Seq(Closes) /\ trades \in Seq(Int) /\ equity \in Seq(Int)
      /\ cash \in Int /\ ep \in Int /\ q \in Nat /\ cb \in Int
      /\ Len(equity) = Len(bars) /\ config \in Requests
  BY DEF BacktestInv, BacktestTypeOK, CurveStartsFlat
<1>3. Lookback \in Nat \ {0} /\ Len(bars) \in Nat \ {0} /\ bars # <<>>
  <2>1. Lookback \in Nat \ {0}
    BY BacktestAssumption
  <2>2. Len(bars) \in Nat \ {0}
    BY <1>1, <1>2, <2>1, LenProperties
  <2>3. bars # <<>>
    BY <1>2, <2>2, EmptySeq
  <2> QED  BY <2>1, <2>2, <2>3
<1>4. price \in Closes /\ last \in Int
  BY <1>2, <1>3, ElementOfSeq
<1>5. /\ InitialCash \in Int /\ Money \in Nat \ {0} /\ price \in Nat
      /\ start \in Int /\ (InitialCash > 0 => start \in Nat \ {0})
  <2>1. InitialCash \in Int /\ Money \in Nat \ {0} /\ price \in Nat
    BY <1>2, <1>4, PricesTyped
  <2>2. (\A x, y \in Nat \ {0} : x * y \in Nat \ {0}) /\ (\A x, y \in Int : x * y \in Int)
    OBVIOUS
  <2> HIDE DEF price
  <2> QED  BY <2>1, <2>2
<1>6. equity[1] = start
  <2>1. 1 \in 1 .. Lookback /\ 1 <= Len(equity)
    BY <1>2, <1>3
  <2> QED  BY <2>1 DEF BacktestInv, CurveStartsFlat
<1> DEFINE d == Drawdown(equity)
<1>7. d \in Int \X Int
  <2>1. Len(equity) > 0
    BY <1>2, <1>3
  <2> QED  BY <1>2, <2>1, DrawdownTyped
<1>8. /\ report'.final = last /\ report'.mdd = d /\ report'.gained = Total(AllTrades)
      /\ report' = [final |-> last, mdd |-> d, gained |-> Total(AllTrades),
                    wins |-> Cardinality({i \in DOMAIN AllTrades : AllTrades[i] > 0}),
                    count |-> Len(AllTrades)]
  BY DEF Report
<1>18. ASSUME Solvent
       PROVE  /\ \A j \in 1 .. Len(equity) : \A i \in 1 .. j :
                     (equity[i] - equity[j]) * d[2] <= d[1] * equity[i]
              /\ \E j \in 1 .. Len(equity) : \E i \in 1 .. j :
                     (equity[i] - equity[j]) * d[2] = d[1] * equity[i]
  <2>1. Len(equity) > 0 /\ equity[1] > 0
    BY <1>2, <1>3, <1>5, <1>6, <1>18 DEF Solvent
  <2>2. equity \in Seq(Nat)
    <3>1. Len(equity) \in Nat /\ DOMAIN equity = 1 .. Len(equity)
          /\ equity \in [1 .. Len(equity) -> Int]
      BY <1>2, SeqIsFunction
    <3>2. \A i \in 1 .. Len(equity) : equity[i] \in Nat
      BY <1>18, <3>1 DEF Solvent
    <3>3. equity \in [1 .. Len(equity) -> Nat]
      BY <3>1, <3>2
    <3> QED  BY <3>1, <3>3, FunctionIsSeq
  <2> QED  BY <2>1, <2>2, DrawdownFacts
<1> HIDE DEF d
<1> DEFINE forced == price * Money * q - ep * q
<1>9. /\ price * Money * q \in Int /\ ep * q \in Int /\ forced \in Int
      /\ q * price * Money = price * Money * q
  <2>1. (\A x, y \in Nat : x * y \in Nat) /\ (\A x, y \in Int : x * y \in Int)
    OBVIOUS
  <2>2. ep * q \in Int
    BY <1>2, <2>1
  <2> DEFINE m == price * Money
  <2>3. m \in Nat
    BY <1>5, <2>1
  <2>4. m * q \in Int
    <3> HIDE DEF m
    <3> QED  BY <1>2, <2>1, <2>3
  <2>5. \A x, y, z \in Nat : x * y * z = y * z * x
    OBVIOUS
  <2>6. q * price * Money = price * Money * q
    <3> HIDE DEF price
    <3> QED  BY <1>2, <1>5, <2>5
  <2> DEFINE mq == m * q
             eq == ep * q
  <2>7. mq \in Int /\ eq \in Int /\ forced = mq - eq
    BY <2>2, <2>4
  <2>8. forced \in Int
    <3> HIDE DEF mq, eq, forced
    <3> QED  BY <2>7
  <2> QED  BY <2>2, <2>4, <2>6, <2>8
<1>10. /\ AllTrades \in Seq(Int)
       /\ Holds => Total(AllTrades) = Total(trades) + forced
       /\ ~Holds => Total(AllTrades) = Total(trades)
       /\ Total(trades) \in Int /\ Total(AllTrades) \in Int
  <2>1. CASE Holds
    <3>1. AllTrades = Append(trades, forced)
      BY <2>1 DEF AllTrades
    <3> HIDE DEF forced
    <3>2. AllTrades \in Seq(Int) /\ Total(AllTrades) = Total(trades) + forced
      BY <1>2, <1>9, <3>1, TotalFacts, AppendProperties
    <3>3. Total(trades) \in Int /\ Total(AllTrades) \in Int
      BY <1>2, <3>2, TotalFacts
    <3> QED  BY <2>1, <3>2, <3>3
  <2>2. CASE ~Holds
    <3>1. AllTrades = trades
      BY <2>2 DEF AllTrades
    <3>2. Total(trades) \in Int
      BY <1>2, TotalFacts
    <3> QED  BY <1>2, <2>2, <3>1, <3>2
  <2> QED  BY <2>1, <2>2
<1>11. BacktestTypeOK'
  <2>1. report' \in [final : Int, mdd : Int \X Int, gained : Int, wins : Nat, count : Nat]
    <3> DEFINE won == {i \in DOMAIN AllTrades : AllTrades[i] > 0}
    <3>1. Len(AllTrades) \in Nat /\ DOMAIN AllTrades = 1 .. Len(AllTrades)
      BY <1>10, LenProperties
    <3>2. IsFiniteSet(won)
      <4>1. IsFiniteSet(1 .. Len(AllTrades))
        BY <3>1, FS_Interval
      <4> QED  BY <3>1, <4>1, FS_Subset
    <3>3. Cardinality(won) \in Nat
      BY <3>2, FS_CardinalityType
    <3>4. d \in Int \X Int
      BY <1>7
    <3> HIDE DEF won, last
    <3> QED  BY <1>4, <1>8, <1>10, <3>1, <3>3, <3>4 DEF won, last
  <2> QED  BY <1>1, <2>1 DEF BacktestInv, BacktestTypeOK
<1>12. NoDebt' /\ CashExplained' /\ CurveStartsFlat' /\ CurveEnds'
  <2>1. NoDebt /\ CashExplained /\ CurveStartsFlat /\ CurveEnds
    BY DEF BacktestInv
  <2> QED  BY <1>1, <2>1, EndsKeeps
<1>13. DrawdownIsWorst'
  <2>1. equity' = equity /\ config' = config /\ DOMAIN equity = 1 .. Len(equity)
    BY <1>1, <1>2, LenProperties
  <2> QED  BY <1>8, <1>18, <2>1 DEF DrawdownIsWorst, Solvent, InitialCash
<1> DEFINE gain == last - start
           total == Total(trades)
           eq == ep * q
           pq == price * Money * q
<1>14. cash + eq + cb = start + total
  BY DEF BacktestInv, CashExplained
<1>15. /\ total \in Int /\ eq \in Int /\ pq \in Int /\ start \in Int
       /\ last \in Int /\ cash \in Int /\ cb \in Int
  <2>1. total \in Int /\ eq \in Int /\ pq \in Int
    BY <1>9, <1>10
  <2>2. cash \in Int /\ cb \in Int
    BY <1>2
  <2> HIDE DEF last, start, total, eq, pq, cb
  <2> QED  BY <1>4, <1>5, <2>1, <2>2
<1>16. IF Holds THEN gain = Total(AllTrades) - cb \/ gain = total
       ELSE Ordinary => gain >= Total(AllTrades)
  <2>1. CASE Holds
    <3>1. last = cash + pq \/ last = cash + eq + cb
      BY <1>3, <1>9, <2>1 DEF BacktestInv, CurveEnds, Worth
    <3>2. Total(AllTrades) = total + (pq - eq)
      BY <1>10, <2>1
    <3> HIDE DEF last, total, eq, pq, start, cb
    <3>3. gain = Total(AllTrades) - cb \/ gain = total
      BY <1>14, <1>15, <3>1, <3>2
    <3> QED  BY <2>1, <3>3
  <2>2. CASE ~Holds
    <3>1. Ordinary => last >= cash
      BY <1>3, <2>2 DEF BacktestInv, CurveEnds
    <3>2. eq = 0 /\ cb = 0
      BY <2>2 DEF Holds, NoPosition
    <3>3. Total(AllTrades) = total
      BY <1>10, <2>2
    <3> HIDE DEF last, total, eq, pq, start, cb
    <3>4. Ordinary => gain >= Total(AllTrades)
      BY <1>14, <1>15, <3>1, <3>2, <3>3
    <3> QED  BY <2>2, <3>4
  <2> QED  BY <2>1, <2>2
<1>17. ReportAddsUp'
  <2>1. /\ InitialCash' = InitialCash /\ (Ordinary' <=> Ordinary) /\ (Holds' <=> Holds)
        /\ trades' = trades /\ position' = position
    BY <1>1 DEF InitialCash, Ordinary, Slippage, Commission, Tax, Holds
  <2> QED  BY <1>8, <1>16, <2>1 DEF ReportAddsUp, Money
<1> QED  BY <1>11, <1>12, <1>13, <1>17 DEF BacktestInv

\* The run raises: not with ordinary rates, where the first point of the curve is more
\* than nothing and none is less.
LEMMA ReportFailsKeeps == ASSUME BacktestInv, ReportFails PROVE BacktestInv'
PROOF
<1>1. /\ UNCHANGED <<ast, config, bars, cash, position, trades, equity, missed, report>>
      /\ Len(bars) >= Lookback /\ outcome' = "raised" /\ (PeakVanishes \/ RootMayFail)
  BY DEF ReportFails, Ends
<1>2. BacktestTypeOK'
  BY <1>1 DEF BacktestInv, BacktestTypeOK
<1>3. ~Ordinary
  <2> SUFFICES ASSUME Ordinary PROVE FALSE
    OBVIOUS
  <2>1. /\ bars \in Seq(Closes) /\ equity \in Seq(Int) /\ Len(equity) = Len(bars)
        /\ config \in Requests /\ \A i \in DOMAIN equity : equity[i] >= 0
    BY DEF BacktestInv, BacktestTypeOK, CurveStartsFlat, NoDebt
  <2>2. Lookback \in Nat \ {0} /\ Scale \in Nat \ {0} /\ Cashes \subseteq Int
    BY BacktestAssumption
  <2>3. Len(equity) \in Nat \ {0} /\ DOMAIN equity = 1 .. Len(equity)
    BY <1>1, <2>1, <2>2, LenProperties
  <2>4. equity[1] = InitialCash * Money
    <3>1. 1 \in 1 .. Lookback /\ 1 <= Len(equity)
      BY <2>2, <2>3
    <3> QED  BY <3>1 DEF BacktestInv, CurveStartsFlat
  <2>5. InitialCash * Money \in Nat \ {0}
    <3>1. \A x, y \in Nat \ {0} : x * y \in Nat \ {0}
      OBVIOUS
    <3>2. InitialCash \in Cashes
      BY <2>1 DEF Requests, InitialCash
    <3>3. InitialCash \in Nat \ {0}
      BY <2>2, <3>2 DEF Ordinary
    <3>4. Money \in Nat \ {0}
      BY <2>2, <3>1 DEF Money
    <3> QED  BY <3>1, <3>3, <3>4
  <2>6. equity[1] > 0
    BY <2>4, <2>5
  <2>7. CASE PeakVanishes
    <3>1. PICK j \in DOMAIN equity : \A i \in 1 .. j : equity[i] <= 0
      BY <2>7 DEF PeakVanishes
    <3>2. 1 \in 1 .. j /\ 1 \in DOMAIN equity
      BY <2>3, <3>1
    <3>3. equity[1] <= 0 /\ equity[1] \in Int
      BY <2>4, <2>5, <3>1, <3>2
    <3> QED  BY <2>6, <3>3
  <2>8. CASE RootMayFail
    <3>1. Len(equity) \in DOMAIN equity /\ equity[Len(equity)] \in Int
      BY <2>1, <2>3, ElementOfSeq
    <3>2. equity[Len(equity)] >= 0
      BY <2>1, <3>1
    <3> QED  BY <2>8, <3>1, <3>2 DEF RootMayFail
  <2> QED  BY <1>1, <2>7, <2>8
<1>4. NoDebt'
  <2>1. Ordinary' <=> Ordinary
    BY <1>1 DEF Ordinary, InitialCash, Slippage, Commission, Tax
  <2> QED  BY <1>3, <2>1, Zenon DEF NoDebt
<1>5. CashExplained' /\ CurveStartsFlat' /\ CurveEnds'
  <2>1. CashExplained /\ CurveStartsFlat /\ CurveEnds
    BY DEF BacktestInv
  <2> QED  BY <1>1, <2>1, EndsKeeps
<1>6. DrawdownIsWorst' /\ ReportAddsUp'
  BY <1>1 DEF DrawdownIsWorst, ReportAddsUp
<1> QED  BY <1>2, <1>4, <1>5, <1>6 DEF BacktestInv

LEMMA BacktestStutters == ASSUME BacktestInv, UNCHANGED backtestVars PROVE BacktestInv'
PROOF
<1>1. UNCHANGED <<ast, config, bars, cash, position, trades, equity, missed, outcome, report>>
  BY DEF backtestVars
<1>2. BacktestTypeOK'
  BY <1>1 DEF BacktestInv, BacktestTypeOK
<1>3. CashExplained' /\ CurveStartsFlat' /\ CurveEnds' /\ NoDebt'
  <2>1. CashExplained /\ CurveStartsFlat /\ CurveEnds /\ NoDebt
    BY DEF BacktestInv
  <2> QED  BY <1>1, <2>1, EndsKeeps
<1>4. DrawdownIsWorst' /\ ReportAddsUp'
  <2>1. /\ InitialCash' = InitialCash /\ (Ordinary' <=> Ordinary) /\ (Holds' <=> Holds)
        /\ (Solvent' <=> Solvent)
    BY <1>1 DEF InitialCash, Ordinary, Slippage, Commission, Tax, Holds, Solvent
  <2> QED  BY <1>1, <2>1 DEF BacktestInv, DrawdownIsWorst, ReportAddsUp, Money
<1> QED  BY <1>2, <1>3, <1>4 DEF BacktestInv

\* For any cash and any rates: what a backtest holds and what it has closed explain its cash,
\* the curve starts flat, and a report tells the worst drawdown of a solvent account and the
\* return of the trades.  With ordinary rates it never owes money and never raises.
THEOREM BacktestInvariant == BacktestSpec => []BacktestInv
PROOF
<1>1. BacktestInit => BacktestInv
  BY BacktestInitially
<1>2. BacktestInv /\ [BacktestNext]_backtestVars => BacktestInv'
  <2> SUFFICES ASSUME BacktestInv, [BacktestNext]_backtestVars
               PROVE  BacktestInv'
    OBVIOUS
  <2>1. CASE UNCHANGED backtestVars
    BY <2>1, BacktestStutters
  <2>2. ASSUME NEW price \in Closes, NEW buy \in BOOLEAN, NEW sell \in BOOLEAN,
               Bar(price, buy, sell)
        PROVE  BacktestInv'
    BY <2>2, BarKeeps
  <2>3. CASE Report
    BY <2>3, ReportKeeps
  <2>4. CASE ReportFails
    BY <2>4, ReportFailsKeeps
  <2> QED  BY <2>1, <2>2, <2>3, <2>4 DEF BacktestNext
<1> QED  BY <1>1, <1>2, PTL DEF BacktestSpec

----------------------------------------------------------------------------
(* Sums over finite sets.                                                  *)

\* What the function inside SumOver has to satisfy on a subset of S.
StepOf(g, w, U) ==
    g[U] = IF U = {} THEN 0 ELSE w[CHOOSE x \in U : TRUE] + g[U \ {CHOOSE x \in U : TRUE}]

AddsUp(g, w, S) == \A U \in SUBSET S : StepOf(g, w, U)

LEMMA SmallerWithout ==
    ASSUME NEW U, IsFiniteSet(U), NEW x \in U
    PROVE  /\ IsFiniteSet(U \ {x}) /\ Cardinality(U \ {x}) = Cardinality(U) - 1
           /\ Cardinality(U) \in Nat \ {0} /\ Cardinality(U \ {x}) \in Nat
PROOF
<1>1. IsFiniteSet(U \ {x}) /\ Cardinality(U \ {x}) = Cardinality(U) - 1
  BY FS_RemoveElement
<1>2. Cardinality(U) \in Nat /\ Cardinality(U \ {x}) \in Nat
  BY <1>1, FS_CardinalityType
<1> QED  BY <1>1, <1>2

LEMMA AddsUpExists ==
    ASSUME NEW w, NEW S, IsFiniteSet(S)
    PROVE  \E g : g = [U \in SUBSET S |-> g[U]] /\ AddsUp(g, w, S)
PROOF
<1> DEFINE Fits(n) == \E g : /\ g = [U \in SUBSET S |-> g[U]]
                             /\ \A U \in SUBSET S : Cardinality(U) <= n => StepOf(g, w, U)
           Wrong == {n \in Nat : ~Fits(n)}
<1>1. \A U \in SUBSET S : IsFiniteSet(U) /\ Cardinality(U) \in Nat
  BY FS_Subset, FS_CardinalityType
<1>2. ASSUME Wrong # {} PROVE FALSE
  <2>1. PICK n \in Wrong : \A m \in Wrong : n <= m
    <3> HIDE DEF Wrong
    <3>1. Wrong \subseteq Nat  BY DEF Wrong
    <3> QED  BY <1>2, <3>1, LeastOf
  <2>2. n \in Nat /\ ~Fits(n)
    OBVIOUS
  <2>3. CASE n = 0
    <3> DEFINE g == [U \in SUBSET S |-> 0]
    <3>1. \A U \in SUBSET S : Cardinality(U) <= 0 => U = {}
      <4>1. \A U \in SUBSET S : Cardinality(U) <= 0 => Cardinality(U) = 0
        BY <1>1
      <4> QED  BY <1>1, <4>1, FS_EmptySet
    <3>2. g = [U \in SUBSET S |-> g[U]]
      OBVIOUS
    <3>3. g[{}] = 0
      OBVIOUS
    <3> HIDE DEF g
    <3>4. StepOf(g, w, {})
      BY <3>3 DEF StepOf
    <3> QED  BY <2>2, <2>3, <3>1, <3>2, <3>4
  <2>4. CASE n # 0
    <3>1. n - 1 \in Nat /\ n - 1 \notin Wrong
      <4> HIDE DEF Wrong
      <4> QED  BY <2>1, <2>2, <2>4
    <3>2. PICK h : /\ h = [U \in SUBSET S |-> h[U]]
                   /\ \A U \in SUBSET S : Cardinality(U) <= n - 1 => StepOf(h, w, U)
      BY <3>1
    <3> DEFINE new(U) == IF U = {} THEN 0
                         ELSE w[CHOOSE x \in U : TRUE] + h[U \ {CHOOSE x \in U : TRUE}]
               g == [U \in SUBSET S |-> IF Cardinality(U) < n THEN h[U] ELSE new(U)]
    <3> HIDE DEF new
    <3>3. g = [U \in SUBSET S |-> g[U]]
      OBVIOUS
    <3>4. \A U \in SUBSET S : Cardinality(U) < n => g[U] = h[U]
      OBVIOUS
    <3>5. \A U \in SUBSET S : ~(Cardinality(U) < n) => g[U] = new(U)
      OBVIOUS
    <3> HIDE DEF g
    <3>6. ASSUME NEW U \in SUBSET S, Cardinality(U) <= n  PROVE StepOf(g, w, U)
      <4> DEFINE x == CHOOSE x \in U : TRUE
      <4>1. U # {} => x \in U
        OBVIOUS
      <4> HIDE DEF x
      <4>2. U # {} => /\ U \ {x} \in SUBSET S
                      /\ Cardinality(U \ {x}) = Cardinality(U) - 1
        BY <1>1, <4>1, SmallerWithout
      <4>3. U # {} => g[U \ {x}] = h[U \ {x}]
        <5>1. U # {} => Cardinality(U \ {x}) < n
          BY <1>1, <2>2, <3>6, <4>2
        <5> QED  BY <3>4, <4>2, <5>1
      <4>4. g[U] = IF U = {} THEN 0 ELSE w[x] + h[U \ {x}]
        <5>1. CASE Cardinality(U) < n
          <6>1. Cardinality(U) <= n - 1
            BY <1>1, <2>2, <5>1
          <6>2. StepOf(h, w, U)
            BY <3>2, <6>1
          <6> QED  BY <3>4, <5>1, <6>2 DEF StepOf, x
        <5>2. CASE ~(Cardinality(U) < n)
          BY <3>5, <5>2 DEF new, x
        <5> QED  BY <5>1, <5>2
      <4>5. g[U] = IF U = {} THEN 0 ELSE w[x] + g[U \ {x}]
        BY <4>3, <4>4, Zenon
      <4> QED  BY <4>5 DEF StepOf, x
    <3> QED  BY <2>2, <3>3, <3>6
  <2> QED  BY <2>3, <2>4
<1>3. Cardinality(S) \notin Wrong
  <2> HIDE DEF Wrong
  <2> QED  BY <1>2
<1>4. PICK g : /\ g = [U \in SUBSET S |-> g[U]]
               /\ \A U \in SUBSET S : Cardinality(U) <= Cardinality(S) => StepOf(g, w, U)
  BY <1>1, <1>3
<1>5. \A U \in SUBSET S : Cardinality(U) <= Cardinality(S)
  BY FS_Subset
<1> QED  BY <1>4, <1>5 DEF AddsUp

LEMMA SumOverDef ==
    ASSUME NEW w, NEW S, IsFiniteSet(S)
    PROVE  \E g : AddsUp(g, w, S) /\ SumOver(w, S) = g[S]
PROOF
<1> DEFINE Rec(g) == g = [U \in SUBSET S |->
                            IF U = {} THEN 0
                            ELSE w[CHOOSE x \in U : TRUE] + g[U \ {CHOOSE x \in U : TRUE}]]
           iter == CHOOSE g : Rec(g)
<1>1. PICK g : g = [U \in SUBSET S |-> g[U]] /\ AddsUp(g, w, S)
  BY AddsUpExists
<1>2. Rec(g)
  BY <1>1, Zenon DEF AddsUp, StepOf
<1>3. Rec(iter)
  <2> HIDE DEF Rec
  <2> QED  BY <1>2, Zenon
<1>4. AddsUp(iter, w, S)
  <2> HIDE DEF iter
  <2> QED  BY <1>3 DEF AddsUp, StepOf
<1>5. SumOver(w, S) = iter[S]
  BY Zenon DEF SumOver, MapThenSumSet, MapThenFoldSet
<1> HIDE DEF iter
<1> QED  BY <1>4, <1>5

\* Sums of the same numbers over the same set are the same, whatever they are part of.
LEMMA AddsUpAgree ==
    ASSUME NEW g, NEW w, NEW S, IsFiniteSet(S), AddsUp(g, w, S),
           NEW h, NEW v, NEW T, AddsUp(h, v, T),
           NEW V, V \subseteq S, V \subseteq T, \A s \in V : w[s] = v[s]
    PROVE  g[V] = h[V]
PROOF
<1> DEFINE Odd(U) == U \in SUBSET V /\ g[U] # h[U]
           Wrong == {n \in Nat : \E U : Odd(U) /\ Cardinality(U) = n}
<1>1. \A U \in SUBSET V : IsFiniteSet(U) /\ Cardinality(U) \in Nat
  BY FS_Subset, FS_CardinalityType
<1>2. ASSUME Wrong # {} PROVE FALSE
  <2>1. PICK n \in Wrong : \A m \in Wrong : n <= m
    <3> HIDE DEF Wrong
    <3>1. Wrong \subseteq Nat  BY DEF Wrong
    <3> QED  BY <1>2, <3>1, LeastOf
  <2>2. PICK U : Odd(U) /\ Cardinality(U) = n
    OBVIOUS
  <2>3. StepOf(g, w, U) /\ StepOf(h, v, U)
    BY <2>2 DEF AddsUp
  <2> DEFINE x == CHOOSE x \in U : TRUE
  <2>4. U # {}
    BY <2>2, <2>3 DEF StepOf
  <2>5. x \in U
    BY <2>4
  <2>6. g[U] = w[x] + g[U \ {x}] /\ h[U] = v[x] + h[U \ {x}]
    BY <2>3, <2>4 DEF StepOf
  <2> HIDE DEF x
  <2>7. U \ {x} \in SUBSET V /\ Cardinality(U \ {x}) \in Nat /\ Cardinality(U \ {x}) < n
    BY <1>1, <2>2, <2>5, SmallerWithout
  <2>8. Cardinality(U \ {x}) \notin Wrong
    <3>1. n \in Nat
      OBVIOUS
    <3> HIDE DEF Wrong
    <3> QED  BY <2>1, <2>7, <3>1
  <2>9. g[U \ {x}] = h[U \ {x}]
    BY <2>7, <2>8
  <2> QED  BY <2>2, <2>5, <2>6, <2>9
<1>3. V \in SUBSET V /\ Cardinality(V) \in Nat
  BY <1>1
<1> QED  BY <1>2, <1>3

LEMMA SumSame ==
    ASSUME NEW w, NEW v, NEW S, IsFiniteSet(S), \A s \in S : w[s] = v[s]
    PROVE  SumOver(w, S) = SumOver(v, S)
PROOF
<1>1. PICK g : AddsUp(g, w, S) /\ SumOver(w, S) = g[S]
  BY SumOverDef
<1>2. PICK h : AddsUp(h, v, S) /\ SumOver(v, S) = h[S]
  BY SumOverDef
<1>3. g[S] = h[S]
  BY <1>1, <1>2, AddsUpAgree
<1> QED  BY <1>1, <1>2, <1>3

LEMMA SumEmpty == \A w : SumOver(w, {}) = 0
PROOF
<1> TAKE w
<1>1. IsFiniteSet({})
  BY FS_EmptySet
<1>2. PICK g : AddsUp(g, w, {}) /\ SumOver(w, {}) = g[{}]
  BY <1>1, SumOverDef
<1> QED  BY <1>2 DEF AddsUp, StepOf

LEMMA SumStep ==
    ASSUME NEW w, NEW S, IsFiniteSet(S), S # {}
    PROVE  \E x \in S : SumOver(w, S) = w[x] + SumOver(w, S \ {x})
PROOF
<1>1. PICK g : AddsUp(g, w, S) /\ SumOver(w, S) = g[S]
  BY SumOverDef
<1> DEFINE x == CHOOSE x \in S : TRUE
<1>2. x \in S
  OBVIOUS
<1>3. g[S] = w[x] + g[S \ {x}]
  BY <1>1 DEF AddsUp, StepOf
<1> HIDE DEF x
<1>4. IsFiniteSet(S \ {x})
  BY <1>2, SmallerWithout
<1>5. PICK h : AddsUp(h, w, S \ {x}) /\ SumOver(w, S \ {x}) = h[S \ {x}]
  BY <1>4, SumOverDef
<1> DEFINE R == S \ {x}
<1>6. R \subseteq S /\ R \subseteq R /\ AddsUp(h, w, R)
  BY <1>5
<1> HIDE DEF R
<1>7. g[R] = h[R]
  BY <1>1, <1>6, AddsUpAgree
<1> QED  BY <1>1, <1>2, <1>3, <1>5, <1>7 DEF R

LEMMA SumInt ==
    ASSUME NEW w, NEW S, IsFiniteSet(S), \A s \in S : w[s] \in Int
    PROVE  SumOver(w, S) \in Int
PROOF
<1> DEFINE Odd(U) == U \in SUBSET S /\ SumOver(w, U) \notin Int
           Wrong == {n \in Nat : \E U : Odd(U) /\ Cardinality(U) = n}
<1>1. \A U \in SUBSET S : IsFiniteSet(U) /\ Cardinality(U) \in Nat
  BY FS_Subset, FS_CardinalityType
<1>2. ASSUME Wrong # {} PROVE FALSE
  <2>1. PICK n \in Wrong : \A m \in Wrong : n <= m
    <3> HIDE DEF Wrong
    <3>1. Wrong \subseteq Nat  BY DEF Wrong
    <3> QED  BY <1>2, <3>1, LeastOf
  <2>2. PICK U : Odd(U) /\ Cardinality(U) = n
    OBVIOUS
  <2>3. U # {}
    <3>1. SumOver(w, {}) = 0
      BY SumEmpty
    <3>2. SumOver(w, U) \notin Int
      BY <2>2
    <3> HIDE DEF Wrong, Odd
    <3> QED  BY <3>1, <3>2
  <2>4. PICK x \in U : SumOver(w, U) = w[x] + SumOver(w, U \ {x})
    BY <1>1, <2>2, <2>3, SumStep
  <2>5. U \ {x} \in SUBSET S /\ Cardinality(U \ {x}) \in Nat /\ Cardinality(U \ {x}) < n
    BY <1>1, <2>2, <2>4, SmallerWithout
  <2>6. Cardinality(U \ {x}) \notin Wrong
    <3>1. n \in Nat
      OBVIOUS
    <3> HIDE DEF Wrong
    <3> QED  BY <2>1, <2>5, <3>1
  <2>7. SumOver(w, U \ {x}) \in Int
    BY <2>5, <2>6
  <2>8. w[x] \in Int
    BY <2>2
  <2> QED  BY <2>2, <2>4, <2>7, <2>8
<1>3. S \in SUBSET S /\ Cardinality(S) \in Nat
  BY <1>1
<1> QED  BY <1>2, <1>3

\* The order of the summands does not matter.
LEMMA SumRemove ==
    ASSUME NEW w, NEW S, IsFiniteSet(S), \A s \in S : w[s] \in Int, NEW a \in S
    PROVE  SumOver(w, S) = w[a] + SumOver(w, S \ {a})
PROOF
<1> DEFINE Odd(U) == U \in SUBSET S /\ \E b \in U : SumOver(w, U) # w[b] + SumOver(w, U \ {b})
           Wrong == {n \in Nat : \E U : Odd(U) /\ Cardinality(U) = n}
<1>1. \A U \in SUBSET S : IsFiniteSet(U) /\ Cardinality(U) \in Nat /\ SumOver(w, U) \in Int
  BY FS_Subset, FS_CardinalityType, SumInt
<1>2. ASSUME Wrong # {} PROVE FALSE
  <2>1. PICK n \in Wrong : \A m \in Wrong : n <= m
    <3> HIDE DEF Wrong
    <3>1. Wrong \subseteq Nat  BY DEF Wrong
    <3> QED  BY <1>2, <3>1, LeastOf
  <2>2. PICK U : Odd(U) /\ Cardinality(U) = n
    OBVIOUS
  <2>3. PICK b \in U : SumOver(w, U) # w[b] + SumOver(w, U \ {b})
    BY <2>2
  <2>4. PICK x \in U : SumOver(w, U) = w[x] + SumOver(w, U \ {x})
    BY <1>1, <2>2, <2>3, SumStep
  <2>5. x # b
    BY <2>3, <2>4
  <2> DEFINE P == U \ {x}
             Q == U \ {b}
             R == (U \ {x}) \ {b}
  <2>6. /\ P \in SUBSET S /\ Q \in SUBSET S /\ R \in SUBSET S /\ b \in P /\ x \in Q
        /\ P \ {b} = R /\ Q \ {x} = R
    BY <2>2, <2>4, <2>5
  <2>7. /\ Cardinality(P) \in Nat /\ Cardinality(P) < n
        /\ Cardinality(Q) \in Nat /\ Cardinality(Q) < n
    BY <1>1, <2>2, <2>4, SmallerWithout
  <2>8. Cardinality(P) \notin Wrong /\ Cardinality(Q) \notin Wrong
    <3>1. n \in Nat
      OBVIOUS
    <3> HIDE DEF Wrong, P, Q
    <3> QED  BY <2>1, <2>7, <3>1
  <2> HIDE DEF P, Q, R
  <2>9. SumOver(w, P) = w[b] + SumOver(w, R) /\ SumOver(w, Q) = w[x] + SumOver(w, R)
    <3>1. ~Odd(P) /\ ~Odd(Q)
      BY <2>7, <2>8
    <3> QED  BY <2>6, <3>1
  <2>10. w[b] \in Int /\ w[x] \in Int /\ SumOver(w, R) \in Int
    BY <1>1, <2>2, <2>4, <2>6
  <2>11. SumOver(w, U) = w[x] + SumOver(w, P) /\ SumOver(w, U) # w[b] + SumOver(w, Q)
    BY <2>3, <2>4 DEF P, Q
  <2> HIDE DEF Wrong
  <2> QED  BY <2>9, <2>10, <2>11
<1>3. S \in SUBSET S /\ Cardinality(S) \in Nat
  BY <1>1
<1> QED  BY <1>2, <1>3

LEMMA SumAdd ==
    ASSUME NEW w, NEW S, IsFiniteSet(S), \A s \in S : w[s] \in Int, NEW a, a \notin S, w[a] \in Int
    PROVE  SumOver(w, S \union {a}) = w[a] + SumOver(w, S)
PROOF
<1> DEFINE T == S \union {a}
<1>1. IsFiniteSet(T) /\ T \ {a} = S /\ a \in T /\ \A s \in T : w[s] \in Int
  BY FS_AddElement
<1> HIDE DEF T
<1>2. SumOver(w, T) = w[a] + SumOver(w, T \ {a})
  BY <1>1, SumRemove
<1> QED  BY <1>1, <1>2 DEF T

\* One summand changes.
LEMMA SumChange ==
    ASSUME NEW w, NEW v, NEW S, IsFiniteSet(S), \A s \in S : w[s] \in Int, NEW a \in S,
           \A s \in S \ {a} : v[s] = w[s], v[a] \in Int
    PROVE  SumOver(v, S) = SumOver(w, S) - w[a] + v[a]
PROOF
<1>1. \A s \in S : v[s] \in Int
  OBVIOUS
<1>2. SumOver(w, S) = w[a] + SumOver(w, S \ {a})
  BY SumRemove
<1>3. SumOver(v, S) = v[a] + SumOver(v, S \ {a})
  BY <1>1, SumRemove
<1>4. IsFiniteSet(S \ {a})
  BY SmallerWithout
<1>5. SumOver(v, S \ {a}) = SumOver(w, S \ {a}) /\ SumOver(w, S \ {a}) \in Int
  BY <1>4, SumSame, SumInt
<1>6. w[a] \in Int
  OBVIOUS
<1> QED  BY <1>2, <1>3, <1>5, <1>6

----------------------------------------------------------------------------
(* The mock broker: fractions.                                             *)

LEMMA TwoExtremes ==
    ASSUME NEW a \in Nat, NEW b \in Nat
    PROVE  /\ Min({a, b}) \in Nat /\ Min({a, b}) <= a /\ Min({a, b}) <= b
           /\ Max({a, b}) \in Nat /\ a <= Max({a, b}) /\ b <= Max({a, b})
PROOF
<1>1. \E x \in {a, b} : \A y \in {a, b} : x <= y
  OBVIOUS
<1>2. \E x \in {a, b} : \A y \in {a, b} : x >= y
  OBVIOUS
<1> QED  BY <1>1, <1>2 DEF Min, Max

Reduces(f, n, d) ==
    /\ f \in Nat \X (Nat \ {0})
    /\ \E g \in Nat \ {0} : f[1] * g = n /\ f[2] * g = d

\* A fraction is reduced by a common divisor.
LEMMA FractionFacts ==
    ASSUME NEW n \in Nat, NEW d \in Nat \ {0}
    PROVE  Reduces(Fraction(n, d), n, d)
PROOF
<1> DEFINE g == Max(Divisors(n, d))
           m == n \div g
           e == d \div g
<1>1. 1 \in Divisors(n, d)
  BY DEF Divisors
<1>2. Divisors(n, d) \in SUBSET (0 .. d)
  BY DEF Divisors
<1>3. g \in Divisors(n, d)
  BY <1>1, <1>2, MaxBelow
<1>4. g \in Nat \ {0} /\ n % g = 0 /\ d % g = 0
  BY <1>3 DEF Divisors
<1>5. Fraction(n, d) = <<m, e>>
  BY DEF Fraction
<1> HIDE DEF g
<1>6. m \in Nat /\ e \in Nat
  BY <1>4
<1>7. n = g * m + (n % g) /\ d = g * e + (d % g)
  BY <1>4
<1> HIDE DEF m, e
<1>8. \A x, y \in Nat : x * y = y * x /\ x * y \in Nat
  OBVIOUS
<1>9. m * g = n /\ e * g = d
  BY <1>4, <1>6, <1>7, <1>8
<1>10. e # 0
  <2>1. e = 0 => e * g = 0
    BY <1>4
  <2> QED  BY <1>9, <2>1
<1>11. Fraction(n, d)[1] = m /\ Fraction(n, d)[2] = e /\ Fraction(n, d) \in Nat \X (Nat \ {0})
  BY <1>5, <1>6, <1>10
<1> QED  BY <1>4, <1>9, <1>11, Zenon DEF Reduces

LEMMA SumsMonotone == \A x, y, z, t \in Nat : x <= z /\ y <= t => x + y <= z + t
OBVIOUS

\* The average of what was held and of what is bought is not below a bound of both.
LEMMA AverageAbove ==
    ASSUME NEW a1 \in Nat, NEW a2 \in Nat \ {0}, NEW sh \in Nat, NEW p \in Nat, NEW q \in Nat \ {0},
           NEW low \in Nat, sh = 0 \/ low * a2 <= a1, low <= p
    PROVE  low * (a2 * (sh + q)) <= a1 * sh + p * q * a2
PROOF
<1>1. \A x, y \in Nat : x * y \in Nat
  OBVIOUS
<1> DEFINE l == low * a2
           u == q * a2
<1>2. l \in Nat /\ u \in Nat
  BY <1>1
<1>3. l * sh <= a1 * sh
  <2>1. CASE sh = 0
    <3>1. l * sh = 0 /\ a1 * sh = 0
      BY <1>2, <2>1
    <3> QED  BY <3>1
  <2>2. CASE l <= a1
    <3> HIDE DEF l
    <3> QED  BY <1>2, <2>2, TimesMonotone
  <2> QED  BY <2>1, <2>2
<1>4. low * u <= p * u
  <2> HIDE DEF u
  <2> QED  BY <1>2, TimesMonotone
<1>5. \A x, y, z, t \in Nat : x * (y * (z + t)) = (x * y) * z + x * (t * y)
  OBVIOUS
<1>6. low * (a2 * (sh + q)) = l * sh + low * u
  BY <1>5
<1>7. p * q * a2 = p * u
  OBVIOUS
<1> DEFINE ls == l * sh
           lu == low * u
           as == a1 * sh
           pu == p * u
<1>8. ls \in Nat /\ lu \in Nat /\ as \in Nat /\ pu \in Nat
  BY <1>1, <1>2
<1>9. ls + lu <= as + pu
  <2>1. ls <= as /\ lu <= pu
    BY <1>3, <1>4
  <2> HIDE DEF ls, lu, as, pu
  <2> QED  BY <1>8, <2>1, SumsMonotone, Zenon
<1> QED  BY <1>6, <1>7, <1>9

LEMMA AverageBelow ==
    ASSUME NEW a1 \in Nat, NEW a2 \in Nat \ {0}, NEW sh \in Nat, NEW p \in Nat, NEW q \in Nat \ {0},
           NEW high \in Nat, sh = 0 \/ a1 <= high * a2, p <= high
    PROVE  a1 * sh + p * q * a2 <= high * (a2 * (sh + q))
PROOF
<1>1. \A x, y \in Nat : x * y \in Nat
  OBVIOUS
<1> DEFINE h == high * a2
           u == q * a2
<1>2. h \in Nat /\ u \in Nat
  BY <1>1
<1>3. a1 * sh <= h * sh
  <2>1. CASE sh = 0
    <3>1. h * sh = 0 /\ a1 * sh = 0
      BY <1>2, <2>1
    <3> QED  BY <3>1
  <2>2. CASE a1 <= h
    <3> HIDE DEF h
    <3> QED  BY <1>2, <2>2, TimesMonotone
  <2> QED  BY <2>1, <2>2
<1>4. p * u <= high * u
  <2> HIDE DEF u
  <2> QED  BY <1>2, TimesMonotone
<1>5. \A x, y, z, t \in Nat : x * (y * (z + t)) = (x * y) * z + x * (t * y)
  OBVIOUS
<1>6. high * (a2 * (sh + q)) = h * sh + high * u
  BY <1>5
<1>7. p * q * a2 = p * u
  OBVIOUS
<1> DEFINE hs == h * sh
           hu == high * u
           as == a1 * sh
           pu == p * u
<1>8. hs \in Nat /\ hu \in Nat /\ as \in Nat /\ pu \in Nat
  BY <1>1, <1>2
<1>9. as + pu <= hs + hu
  <2>1. as <= hs /\ pu <= hu
    BY <1>3, <1>4
  <2> HIDE DEF hs, hu, as, pu
  <2> QED  BY <1>8, <2>1, SumsMonotone, Zenon
<1> QED  BY <1>6, <1>7, <1>9

LEMMA NewAverageBetween ==
    ASSUME NEW a1 \in Nat, NEW a2 \in Nat \ {0}, NEW sh \in Nat, NEW p \in Nat, NEW q \in Nat \ {0},
           NEW low \in Nat, sh = 0 \/ low * a2 <= a1, low <= p,
           NEW high \in Nat, sh = 0 \/ a1 <= high * a2, p <= high
    PROVE  LET f == Fraction(a1 * sh + p * q * a2, a2 * (sh + q))
           IN  /\ f \in Nat \X (Nat \ {0})
               /\ low * f[2] <= f[1] /\ f[1] <= high * f[2]
PROOF
<1> DEFINE n == a1 * sh + p * q * a2
           d == a2 * (sh + q)
           f == Fraction(n, d)
<1>1. low * d <= n
  BY AverageAbove
<1>2. n <= high * d
  BY AverageBelow
<1>3. n \in Nat /\ d \in Nat \ {0}
  <2>1. /\ \A x, y \in Nat : x * y \in Nat /\ x + y \in Nat
        /\ \A x, y \in Nat \ {0} : x * y \in Nat \ {0}
    OBVIOUS
  <2>2. a1 * sh \in Nat /\ p * q \in Nat /\ sh + q \in Nat \ {0}
    BY <2>1
  <2> DEFINE pq == p * q
             t == sh + q
             as == a1 * sh
             pqa == pq * a2
  <2>3. pqa \in Nat /\ a2 * t \in Nat \ {0}
    <3>1. pq \in Nat /\ t \in Nat \ {0}  BY <2>2
    <3> HIDE DEF pq, t
    <3> QED  BY <2>1, <3>1
  <2>4. as + pqa \in Nat
    <3>1. as \in Nat  BY <2>2
    <3> HIDE DEF as, pqa
    <3> QED  BY <2>1, <2>3, <3>1, Zenon
  <2> QED  BY <2>3, <2>4
<1> HIDE DEF n, d
<1>4. Reduces(f, n, d)
  BY <1>3, FractionFacts, Zenon
<1> HIDE DEF f
<1> DEFINE m == f[1]
           e == f[2]
<1>5. m \in Nat /\ e \in Nat \ {0} /\ f \in Nat \X (Nat \ {0})
  BY <1>4 DEF Reduces
<1>6. PICK g \in Nat \ {0} : m * g = n /\ e * g = d
  BY <1>4, Zenon DEF Reduces
<1> HIDE DEF m, e
<1>7. \A x, y, z \in Nat : x * (y * z) = (x * y) * z /\ x * y \in Nat
  OBVIOUS
<1>8. (low * e) * g <= m * g /\ m * g <= (high * e) * g
  <2>1. low * (e * g) = (low * e) * g /\ high * (e * g) = (high * e) * g
    BY <1>5, <1>7
  <2> QED  BY <1>1, <1>2, <1>6, <2>1
<1>9. low * e \in Nat /\ high * e \in Nat
  BY <1>5, <1>7
<1>10. low * e <= m /\ m <= high * e
  BY <1>5, <1>8, <1>9, TimesCancels
<1> QED  BY <1>5, <1>10 DEF n, d, f, m, e

----------------------------------------------------------------------------
(* The mock broker: the invariant.                                         *)

\* What is held of each stock is worth.
Value == [s \in Stocks |-> prices[s] * shares[s]]

HeldAtAverage(s) ==
    /\ shares[s] >= 0
    /\ shares[s] = 0 <=> paid[s] = NoRange
    /\ shares[s] = 0 => average[s] = NoAverage
    /\ paid[s][1] * average[s][2] <= average[s][1]
    /\ average[s][1] <= paid[s][2] * average[s][2]

LEMMA MockParts ==
    MockInv <=> /\ MockTypeOK
                /\ mockCash + SumOver(Value, Stocks) = worth
                /\ mockCash >= 0
                /\ \A s \in Stocks : HeldAtAverage(s)
BY DEF MockInv, TotalEval, Value, HeldAtAverage

LEMMA ValueTyped ==
    ASSUME MockTypeOK
    PROVE  /\ \A s \in Stocks : /\ Value[s] \in Int /\ Value[s] = prices[s] * shares[s]
                                /\ prices[s] \in Nat \ {0} /\ shares[s] \in Int
           /\ SumOver(Value, Stocks) \in Int
PROOF
<1>1. \A s \in Stocks : prices[s] \in Nat \ {0} /\ shares[s] \in Int
  BY MockAssumption DEF MockTypeOK
<1>2. \A x, y \in Int : x * y \in Int
  OBVIOUS
<1>3. \A s \in Stocks : Value[s] = prices[s] * shares[s]
  BY DEF Value
<1>4. \A s \in Stocks : Value[s] \in Int
  BY <1>1, <1>2, <1>3
<1>5. SumOver(Value, Stocks) \in Int
  <2>1. IsFiniteSet(Stocks)  BY MockAssumption
  <2> DEFINE v == Value
  <2>2. \A s \in Stocks : v[s] \in Int  BY <1>4
  <2> HIDE DEF v
  <2>3. SumOver(v, Stocks) \in Int  BY <2>1, <2>2, SumInt
  <2> QED  BY <2>3 DEF v
<1> QED  BY <1>1, <1>3, <1>4, <1>5

LEMMA SumZero ==
    ASSUME NEW w, NEW S, IsFiniteSet(S), \A s \in S : w[s] = 0
    PROVE  SumOver(w, S) = 0
PROOF
<1> DEFINE Odd(U) == U \in SUBSET S /\ SumOver(w, U) # 0
           Wrong == {n \in Nat : \E U : Odd(U) /\ Cardinality(U) = n}
<1>1. \A U \in SUBSET S : IsFiniteSet(U) /\ Cardinality(U) \in Nat
  BY FS_Subset, FS_CardinalityType
<1>2. ASSUME Wrong # {} PROVE FALSE
  <2>1. PICK n \in Wrong : \A m \in Wrong : n <= m
    <3> HIDE DEF Wrong
    <3>1. Wrong \subseteq Nat  BY DEF Wrong
    <3> QED  BY <1>2, <3>1, LeastOf
  <2>2. PICK U : Odd(U) /\ Cardinality(U) = n
    OBVIOUS
  <2>3. U # {}
    <3>1. SumOver(w, {}) = 0
      BY SumEmpty
    <3>2. SumOver(w, U) # 0
      BY <2>2
    <3> HIDE DEF Wrong, Odd
    <3> QED  BY <3>1, <3>2
  <2>4. PICK x \in U : SumOver(w, U) = w[x] + SumOver(w, U \ {x})
    BY <1>1, <2>2, <2>3, SumStep
  <2>5. U \ {x} \in SUBSET S /\ Cardinality(U \ {x}) \in Nat /\ Cardinality(U \ {x}) < n
    BY <1>1, <2>2, <2>4, SmallerWithout
  <2>6. Cardinality(U \ {x}) \notin Wrong
    <3>1. n \in Nat
      OBVIOUS
    <3> HIDE DEF Wrong
    <3> QED  BY <2>1, <2>5, <3>1
  <2>7. SumOver(w, U \ {x}) = 0
    BY <2>5, <2>6
  <2>8. w[x] = 0
    BY <2>2
  <2> QED  BY <2>2, <2>4, <2>7, <2>8
<1>3. S \in SUBSET S /\ Cardinality(S) \in Nat
  BY <1>1
<1> QED  BY <1>2, <1>3

LEMMA MockInitially == ASSUME MockInit PROVE MockInv
PROOF
<1>1. MockTypeOK
  <2>1. NoAverage \in Nat \X (Nat \ {0}) /\ NoRange \in Nat \X Nat /\ StartCash \in Int
    BY MockAssumption DEF NoAverage, NoRange
  <2>2. placed \in 0 .. MaxPlaced /\ mockCash \in Int /\ worth \in Int
    <3>1. 0 \in 0 .. MaxPlaced  BY MockAssumption
    <3> QED  BY <2>1, <3>1 DEF MockInit
  <2>3. up \in BOOLEAN
    BY Zenon DEF MockInit
  <2>4. /\ shares \in [Stocks -> Int] /\ average \in [Stocks -> Nat \X (Nat \ {0})]
        /\ prices \in [Stocks -> MockPrices] /\ paid \in [Stocks -> Nat \X Nat]
    BY <2>1 DEF MockInit
  <2> QED  BY <2>2, <2>3, <2>4 DEF MockTypeOK
<1>2. mockCash + SumOver(Value, Stocks) = worth
  <2>1. \A s \in Stocks : Value[s] = 0
    <3>1. \A s \in Stocks : shares[s] = 0 /\ prices[s] \in Nat
      BY MockAssumption DEF MockInit
    <3> QED  BY <3>1 DEF Value
  <2>2. SumOver(Value, Stocks) = 0
    <3> DEFINE v == Value
    <3>1. \A s \in Stocks : v[s] = 0  BY <2>1
    <3> HIDE DEF v
    <3>2. SumOver(v, Stocks) = 0  BY <3>1, MockAssumption, SumZero
    <3> QED  BY <3>2 DEF v
  <2> QED  BY <2>2, MockAssumption DEF MockInit
<1>3. mockCash >= 0
  BY MockAssumption DEF MockInit
<1>4. ASSUME NEW s \in Stocks  PROVE HeldAtAverage(s)
  <2>1. shares[s] = 0 /\ average[s] = NoAverage /\ paid[s] = NoRange
    BY DEF MockInit
  <2>2. NoAverage[1] = 0 /\ NoAverage[2] = 1 /\ NoRange[1] = 0 /\ NoRange[2] = 0
    BY DEF NoAverage, NoRange
  <2> QED  BY <2>1, <2>2 DEF HeldAtAverage
<1> QED  BY <1>1, <1>2, <1>3, <1>4, MockParts

LEMMA SetPriceKeeps ==
    ASSUME MockInv, NEW s \in Stocks, NEW p \in MockPrices, SetPrice(s, p)
    PROVE  MockInv'
PROOF
<1>1. /\ prices' = [prices EXCEPT ![s] = p]
      /\ worth' = worth + (p - prices[s]) * shares[s]
      /\ UNCHANGED <<up, mockCash, shares, average, placed, paid>>
  BY DEF SetPrice
<1>2. /\ MockTypeOK /\ mockCash + SumOver(Value, Stocks) = worth /\ mockCash >= 0
      /\ \A t \in Stocks : HeldAtAverage(t)
  BY MockParts
<1>3. p \in Nat \ {0}
  BY MockAssumption
<1> DEFINE old == Value
           new == Value'
           change == (p - prices[s]) * shares[s]
<1>4. /\ \A t \in Stocks : old[t] \in Int
      /\ old[s] = prices[s] * shares[s] /\ prices[s] \in Nat /\ shares[s] \in Int
      /\ SumOver(old, Stocks) \in Int
  BY <1>2, ValueTyped
<1>5. \A t \in Stocks : new[t] = prices'[t] * shares[t]
  BY <1>1 DEF Value
<1>6. prices'[s] = p /\ \A t \in Stocks \ {s} : prices'[t] = prices[t]
  BY <1>1, <1>2 DEF MockTypeOK
<1>7. \A t \in Stocks \ {s} : new[t] = old[t]
  <2>1. \A t \in Stocks : old[t] = prices[t] * shares[t]
    BY <1>2, ValueTyped
  <2> HIDE DEF new, old
  <2> QED  BY <1>5, <1>6, <2>1
<1>8. new[s] = p * shares[s] /\ new[s] \in Int
  <2>1. new[s] = p * shares[s]
    BY <1>5, <1>6
  <2>2. \A x, y \in Int : x * y \in Int
    OBVIOUS
  <2> QED  BY <1>3, <1>4, <2>1, <2>2
<1>9. new[s] = old[s] + change /\ change \in Int
  <2>1. \A x, y, z \in Int : (x - y) * z = x * z - y * z /\ x * z \in Int /\ (x - y) * z \in Int
    OBVIOUS
  <2>2. change = p * shares[s] - prices[s] * shares[s] /\ change \in Int
    BY <1>3, <1>4, <2>1
  <2>3. old[s] \in Int
    BY <1>4
  <2> DEFINE ps_ == p * shares[s]
             qs_ == prices[s] * shares[s]
  <2>4. new[s] = ps_ /\ old[s] = qs_ /\ ps_ \in Int /\ qs_ \in Int /\ change = ps_ - qs_
    BY <1>4, <1>8, <2>2
  <2> HIDE DEF ps_, qs_, new, old, change
  <2> QED  BY <2>2, <2>4
<1>10. SumOver(new, Stocks) = SumOver(old, Stocks) - old[s] + new[s]
  <2>1. IsFiniteSet(Stocks)
    BY MockAssumption
  <2> HIDE DEF new, old
  <2> QED  BY <1>4, <1>7, <1>8, <2>1, SumChange
<1>11. mockCash' + SumOver(new, Stocks) = worth'
  <2>1. mockCash' = mockCash /\ mockCash \in Int /\ worth' = worth + change
    BY <1>1, <1>2 DEF MockTypeOK
  <2>2. mockCash + SumOver(old, Stocks) = worth
    BY <1>2
  <2>3. SumOver(old, Stocks) \in Int /\ old[s] \in Int
    BY <1>4
  <2> HIDE DEF new, old, change
  <2> QED  BY <1>9, <1>10, <2>1, <2>2, <2>3
<1>12. MockTypeOK'
  <2>1. prices' \in [Stocks -> MockPrices]
    BY <1>1, <1>2 DEF MockTypeOK
  <2>2. worth' \in Int
    <3>1. worth \in Int /\ worth' = worth + change
      BY <1>1, <1>2 DEF MockTypeOK
    <3> HIDE DEF change, old, new
    <3> QED  BY <1>9, <3>1
  <2>3. up' \in BOOLEAN
    BY <1>1, <1>2, Zenon DEF MockTypeOK
  <2> QED  BY <1>1, <1>2, <2>1, <2>2, <2>3 DEF MockTypeOK
<1>13. \A t \in Stocks : HeldAtAverage(t)'
  BY <1>1, <1>2 DEF HeldAtAverage
<1>14. mockCash' >= 0
  BY <1>1, <1>2
<1> QED  BY <1>11, <1>12, <1>13, <1>14 DEF MockInv, TotalEval, Value, HeldAtAverage

\* A trade moves money between cash and shares and makes none.
LEMMA TradeKeepsWorth ==
    ASSUME MockInv, NEW s \in Stocks, NEW q \in Int,
           shares' = [shares EXCEPT ![s] = @ + q], mockCash' = mockCash - prices[s] * q,
           UNCHANGED <<prices, worth>>
    PROVE  mockCash' + SumOver(Value', Stocks) = worth' /\ mockCash' \in Int /\ worth' \in Int
PROOF
<1>1. MockTypeOK /\ mockCash + SumOver(Value, Stocks) = worth
  BY MockParts
<1> DEFINE old == Value
           new == Value'
           paidOut == prices[s] * q
<1>2. /\ \A t \in Stocks : old[t] \in Int /\ old[t] = prices[t] * shares[t]
      /\ old[s] = prices[s] * shares[s] /\ prices[s] \in Int /\ shares[s] \in Int
      /\ SumOver(old, Stocks) \in Int
  BY <1>1, ValueTyped
<1>3. \A t \in Stocks : new[t] = prices[t] * shares'[t]
  BY DEF Value
<1>4. shares'[s] = shares[s] + q /\ \A t \in Stocks \ {s} : shares'[t] = shares[t]
  BY <1>1 DEF MockTypeOK
<1>5. \A t \in Stocks \ {s} : new[t] = old[t]
  <2> HIDE DEF new, old
  <2> QED  BY <1>2, <1>3, <1>4
<1>6. new[s] = old[s] + paidOut /\ paidOut \in Int /\ new[s] \in Int
  <2>1. \A x, y, z \in Int : x * (y + z) = x * y + x * z /\ x * y \in Int
    OBVIOUS
  <2>2. new[s] = prices[s] * (shares[s] + q)
    BY <1>3, <1>4
  <2> HIDE DEF new, old
  <2>3. paidOut \in Int /\ new[s] = old[s] + paidOut
    BY <1>2, <2>1, <2>2
  <2> HIDE DEF paidOut
  <2>4. old[s] \in Int
    BY <1>2
  <2> QED  BY <2>3, <2>4
<1>7. SumOver(new, Stocks) = SumOver(old, Stocks) - old[s] + new[s]
  <2>1. IsFiniteSet(Stocks)
    BY MockAssumption
  <2> HIDE DEF new, old
  <2> QED  BY <1>2, <1>5, <1>6, <2>1, SumChange
<1>8. /\ mockCash \in Int /\ worth \in Int /\ worth' = worth /\ mockCash' = mockCash - paidOut
      /\ mockCash + SumOver(old, Stocks) = worth
  BY <1>1 DEF MockTypeOK
<1>9. old[s] \in Int /\ SumOver(old, Stocks) \in Int
  BY <1>2
<1>10. mockCash' + SumOver(new, Stocks) = worth' /\ mockCash' \in Int /\ worth' \in Int
  <2> HIDE DEF new, old, paidOut
  <2> QED  BY <1>6, <1>7, <1>8, <1>9
<1> QED  BY <1>10

LEMMA MockBuyKeeps ==
    ASSUME MockInv, NEW s \in Stocks, NEW q \in Lots, MockBuy(s, q)
    PROVE  MockInv'
PROOF
<1>1. /\ placed < MaxPlaced /\ placed' = placed + 1
      /\ mockCash >= prices[s] * q /\ mockCash' = mockCash - prices[s] * q
      /\ shares' = [shares EXCEPT ![s] = @ + q]
      /\ average' = [average EXCEPT ![s] = NewAverage(s, q)]
      /\ paid' = [paid EXCEPT ![s] =
                     IF @ = NoRange THEN <<prices[s], prices[s]>>
                     ELSE <<Min({@[1], prices[s]}), Max({@[2], prices[s]})>>]
      /\ UNCHANGED <<up, prices, worth>>
  BY DEF MockBuy
<1>2. /\ MockTypeOK /\ mockCash + SumOver(Value, Stocks) = worth /\ mockCash >= 0
      /\ \A t \in Stocks : HeldAtAverage(t)
  BY MockParts
<1> DEFINE sh == shares[s]
           a1 == average[s][1]
           a2 == average[s][2]
           p == prices[s]
           low == IF paid[s] = NoRange THEN p ELSE Min({paid[s][1], p})
           high == IF paid[s] = NoRange THEN p ELSE Max({paid[s][2], p})
           f == NewAverage(s, q)
<1>3. /\ q \in Nat \ {0} /\ p \in Nat \ {0} /\ sh \in Int
      /\ a1 \in Nat /\ a2 \in Nat \ {0} /\ average[s] = <<a1, a2>>
      /\ paid[s] \in Nat \X Nat /\ paid[s][1] \in Nat /\ paid[s][2] \in Nat
  <2>1. /\ prices[s] \in MockPrices /\ shares[s] \in Int
        /\ average[s] \in Nat \X (Nat \ {0}) /\ paid[s] \in Nat \X Nat
    BY <1>2, Zenon DEF MockTypeOK
  <2>2. q \in Nat \ {0} /\ prices[s] \in Nat \ {0}
    BY <2>1, MockAssumption
  <2> QED  BY <2>1, <2>2
<1>4. /\ sh >= 0 /\ (sh = 0 <=> paid[s] = NoRange)
      /\ paid[s][1] * a2 <= a1 /\ a1 <= paid[s][2] * a2
  BY <1>2 DEF HeldAtAverage
<1>5. sh \in Nat
  BY <1>3, <1>4
<1>6. low \in Nat /\ low <= p /\ high \in Nat /\ p <= high
  <2>1. p \in Nat /\ p <= p
    BY <1>3
  <2>2. /\ Min({paid[s][1], p}) \in Nat /\ Min({paid[s][1], p}) <= p
        /\ Max({paid[s][2], p}) \in Nat /\ p <= Max({paid[s][2], p})
    BY <1>3, <2>1, TwoExtremes
  <2> HIDE DEF p
  <2> QED  BY <2>1, <2>2
<1>7. sh = 0 \/ low * a2 <= a1
  <2>1. CASE sh # 0
    <3>1. low = Min({paid[s][1], p}) /\ low <= paid[s][1]
      BY <1>3, <1>4, <2>1, TwoExtremes
    <3>2. low * a2 <= paid[s][1] * a2
      BY <1>3, <1>6, <3>1, TimesMonotone
    <3> DEFINE x == low * a2
               y == paid[s][1] * a2
    <3>3. x \in Int /\ y \in Int /\ x <= y /\ y <= a1
      <4>1. \A m, n \in Nat : m * n \in Int
        OBVIOUS
      <4> QED  BY <1>3, <1>4, <1>6, <3>2, <4>1
    <3> HIDE DEF x, y
    <3>4. x <= a1
      BY <1>3, <3>3
    <3> QED  BY <3>4 DEF x
  <2> QED  BY <2>1
<1>8. sh = 0 \/ a1 <= high * a2
  <2>1. CASE sh # 0
    <3>1. high = Max({paid[s][2], p}) /\ paid[s][2] <= high
      BY <1>3, <1>4, <2>1, TwoExtremes
    <3>2. paid[s][2] * a2 <= high * a2
      BY <1>3, <1>6, <3>1, TimesMonotone
    <3> DEFINE x == high * a2
               y == paid[s][2] * a2
    <3>3. x \in Int /\ y \in Int /\ y <= x /\ a1 <= y
      <4>1. \A m, n \in Nat : m * n \in Int
        OBVIOUS
      <4> QED  BY <1>3, <1>4, <1>6, <3>2, <4>1
    <3> HIDE DEF x, y
    <3>4. a1 <= x
      BY <1>3, <3>3
    <3> QED  BY <3>4 DEF x
  <2> QED  BY <2>1
<1>9. f \in Nat \X (Nat \ {0}) /\ low * f[2] <= f[1] /\ f[1] <= high * f[2]
  <2>1. f = Fraction(a1 * sh + p * q * a2, a2 * (sh + q))
    BY DEF NewAverage
  <2> HIDE DEF f, sh, a1, a2, p, low, high
  <2>2. p \in Nat
    BY <1>3
  <2> QED  BY <1>3, <1>5, <1>6, <1>7, <1>8, <2>1, <2>2, NewAverageBetween
<1>10. paid'[s] = <<low, high>> /\ average'[s] = f /\ shares'[s] = sh + q
  BY <1>1, <1>2 DEF MockTypeOK
<1>11. \A t \in Stocks \ {s} :
          paid'[t] = paid[t] /\ average'[t] = average[t] /\ shares'[t] = shares[t]
  BY <1>1, <1>2 DEF MockTypeOK
<1>12. HeldAtAverage(s)'
  <2>1. sh + q > 0
    BY <1>3, <1>5
  <2>2. <<low, high>> # NoRange
    BY <1>3, <1>6 DEF NoRange
  <2>3. <<low, high>>[1] = low /\ <<low, high>>[2] = high
    OBVIOUS
  <2> HIDE DEF f, sh, a1, a2, p, low, high
  <2>4. /\ shares'[s] >= 0 /\ shares'[s] # 0 /\ paid'[s] # NoRange
    BY <1>3, <1>5, <1>10, <2>1, <2>2
  <2>5. paid'[s][1] * average'[s][2] <= average'[s][1]
    BY <1>9, <1>10, <2>3, Zenon
  <2>6. average'[s][1] <= paid'[s][2] * average'[s][2]
    BY <1>9, <1>10, <2>3, Zenon
  <2> QED  BY <2>4, <2>5, <2>6, Zenon DEF HeldAtAverage
<1>13. \A t \in Stocks \ {s} : HeldAtAverage(t)'
  BY <1>2, <1>11, Zenon DEF HeldAtAverage
<1>14. mockCash' + SumOver(Value', Stocks) = worth' /\ mockCash' \in Int /\ worth' \in Int
  <2>1. q \in Int
    BY <1>3
  <2> QED  BY <1>1, <2>1, TradeKeepsWorth
<1>15. mockCash' >= 0
  <2>1. p * q \in Int
    <3>1. \A m, n \in Nat : m * n \in Int
      OBVIOUS
    <3> QED  BY <1>3, <3>1
  <2> DEFINE out == p * q
  <2>2. out \in Int /\ mockCash \in Int /\ mockCash >= out /\ mockCash' = mockCash - out
    BY <1>1, <1>2, <2>1 DEF MockTypeOK
  <2> HIDE DEF out, p
  <2> QED  BY <2>2
<1>16. MockTypeOK'
  <2>1. /\ shares' \in [Stocks -> Int] /\ average' \in [Stocks -> Nat \X (Nat \ {0})]
        /\ paid' \in [Stocks -> Nat \X Nat]
    <3>1. f \in Nat \X (Nat \ {0}) /\ <<low, high>> \in Nat \X Nat /\ sh + q \in Int
      BY <1>3, <1>6, <1>9
    <3>2. /\ shares' = [shares EXCEPT ![s] = sh + q] /\ average' = [average EXCEPT ![s] = f]
          /\ paid' = [paid EXCEPT ![s] = <<low, high>>]
      BY <1>1, <1>2 DEF MockTypeOK
    <3> HIDE DEF f, sh, a1, a2, p, low, high
    <3> QED  BY <1>2, <3>1, <3>2 DEF MockTypeOK
  <2>2. placed' \in 0 .. MaxPlaced
    BY <1>1, <1>2, MockAssumption DEF MockTypeOK
  <2>3. up' \in BOOLEAN
    BY <1>1, <1>2, Zenon DEF MockTypeOK
  <2>4. prices' \in [Stocks -> MockPrices]
    BY <1>1, <1>2, Zenon DEF MockTypeOK
  <2> QED  BY <1>14, <2>1, <2>2, <2>3, <2>4 DEF MockTypeOK
<1>17. \A t \in Stocks : HeldAtAverage(t)'
  BY <1>12, <1>13
<1> QED  BY <1>14, <1>15, <1>16, <1>17 DEF MockInv, TotalEval, Value, HeldAtAverage

LEMMA MockSellKeeps ==
    ASSUME MockInv, NEW s \in Stocks, NEW q \in Lots, MockSell(s, q)
    PROVE  MockInv'
PROOF
<1>1. /\ placed < MaxPlaced /\ placed' = placed + 1 /\ shares[s] >= q
      /\ mockCash' = mockCash + prices[s] * q
      /\ shares' = [shares EXCEPT ![s] = @ - q]
      /\ average' = [average EXCEPT ![s] = IF shares'[s] = 0 THEN NoAverage ELSE @]
      /\ paid' = [paid EXCEPT ![s] = IF shares'[s] = 0 THEN NoRange ELSE @]
      /\ UNCHANGED <<up, prices, worth>>
  BY DEF MockSell, CanSell
<1>2. /\ MockTypeOK /\ mockCash + SumOver(Value, Stocks) = worth /\ mockCash >= 0
      /\ \A t \in Stocks : HeldAtAverage(t)
  BY MockParts
<1>3. q \in Nat \ {0} /\ prices[s] \in Nat \ {0} /\ shares[s] \in Int /\ mockCash \in Int
  BY <1>2, MockAssumption DEF MockTypeOK
<1>4. prices[s] * q \in Nat /\ prices[s] * (-q) = -(prices[s] * q) /\ -q \in Int
  <2>1. \A m, n \in Nat : m * n \in Nat /\ m * (-n) = -(m * n)
    OBVIOUS
  <2> QED  BY <1>3, <2>1
<1> DEFINE out == prices[s] * q
           back == prices[s] * (-q)
<1>5. mockCash' = mockCash - back /\ mockCash' >= 0
  <2>1. out \in Nat /\ back = -out /\ mockCash' = mockCash + out
    BY <1>1, <1>4
  <2> HIDE DEF out, back
  <2> QED  BY <1>2, <1>3, <2>1
<1>6. shares' = [shares EXCEPT ![s] = @ + (-q)]
  <2>1. shares[s] - q = shares[s] + (-q)
    BY <1>3
  <2> QED  BY <1>1, <2>1
<1>7. mockCash' + SumOver(Value', Stocks) = worth' /\ mockCash' \in Int /\ worth' \in Int
  BY <1>1, <1>4, <1>5, <1>6, TradeKeepsWorth
<1>8. /\ shares'[s] = shares[s] - q /\ shares'[s] \in Int /\ shares'[s] >= 0 /\ shares[s] # 0
      /\ average'[s] = IF shares'[s] = 0 THEN NoAverage ELSE average[s]
      /\ paid'[s] = IF shares'[s] = 0 THEN NoRange ELSE paid[s]
      /\ \A t \in Stocks \ {s} :
            paid'[t] = paid[t] /\ average'[t] = average[t] /\ shares'[t] = shares[t]
  BY <1>1, <1>2, <1>3 DEF MockTypeOK
<1>9. HeldAtAverage(s)'
  <2>1. CASE shares'[s] = 0
    <3>1. NoAverage[1] = 0 /\ NoAverage[2] = 1 /\ NoRange[1] = 0 /\ NoRange[2] = 0
      BY DEF NoAverage, NoRange
    <3> QED  BY <1>8, <2>1, <3>1 DEF HeldAtAverage
  <2>2. CASE shares'[s] # 0
    <3>1. paid'[s] = paid[s] /\ average'[s] = average[s] /\ shares'[s] >= 0
      BY <1>8, <2>2
    <3>2. /\ paid[s] # NoRange /\ paid[s][1] * average[s][2] <= average[s][1]
          /\ average[s][1] <= paid[s][2] * average[s][2]
      BY <1>2, <1>8, Zenon DEF HeldAtAverage
    <3> QED  BY <2>2, <3>1, <3>2, Zenon DEF HeldAtAverage
  <2> QED  BY <2>1, <2>2
<1>10. \A t \in Stocks \ {s} : HeldAtAverage(t)'
  BY <1>2, <1>8, Zenon DEF HeldAtAverage
<1>11. MockTypeOK'
  <2>1. NoAverage \in Nat \X (Nat \ {0}) /\ NoRange \in Nat \X Nat
    BY DEF NoAverage, NoRange
  <2>2. /\ shares' \in [Stocks -> Int] /\ average' \in [Stocks -> Nat \X (Nat \ {0})]
        /\ paid' \in [Stocks -> Nat \X Nat]
    BY <1>1, <1>2, <1>3, <2>1 DEF MockTypeOK
  <2>3. placed' \in 0 .. MaxPlaced
    BY <1>1, <1>2, MockAssumption DEF MockTypeOK
  <2>4. up' \in BOOLEAN
    BY <1>1, <1>2, Zenon DEF MockTypeOK
  <2>5. prices' \in [Stocks -> MockPrices]
    BY <1>1, <1>2, Zenon DEF MockTypeOK
  <2> QED  BY <1>7, <2>2, <2>3, <2>4, <2>5 DEF MockTypeOK
<1>12. \A t \in Stocks : HeldAtAverage(t)'
  BY <1>9, <1>10
<1> QED  BY <1>5, <1>7, <1>11, <1>12 DEF MockInv, TotalEval, Value, HeldAtAverage

LEMMA MockUnchanged ==
    ASSUME MockInv, up' \in BOOLEAN, UNCHANGED <<mockCash, shares, average, prices, placed, paid, worth>>
    PROVE  MockInv'
PROOF
<1>1. MockTypeOK'
  BY DEF MockInv, MockTypeOK
<1>2. TotalEval' = TotalEval
  BY DEF TotalEval
<1> QED  BY <1>1, <1>2 DEF MockInv

\* Orders of the mock broker make no money: the evaluation of the account is the initial
\* cash plus what price changes have added; cash and quantities are never negative, and the
\* average price of a holding lies between the lowest and the highest price paid for it
\* since the stock was last sold out (MockAdapter.place_order, _apply_buy, _apply_sell).
THEOREM MockInvariant == MockSpec => []MockInv
PROOF
<1>1. MockInit => MockInv
  BY MockInitially
<1>2. MockInv /\ [MockNext]_mockVars => MockInv'
  <2> SUFFICES ASSUME MockInv, [MockNext]_mockVars  PROVE MockInv'
    OBVIOUS
  <2>1. up \in BOOLEAN
    BY DEF MockInv, MockTypeOK
  <2>2. CASE MockConnects
    BY <2>1, <2>2, MockUnchanged DEF MockConnects
  <2>3. ASSUME NEW s \in Stocks, NEW p \in MockPrices, SetPrice(s, p)  PROVE MockInv'
    BY <2>3, SetPriceKeeps
  <2>4. ASSUME NEW s \in Stocks, NEW q \in Lots, MockBuy(s, q)  PROVE MockInv'
    BY <2>4, MockBuyKeeps
  <2>5. ASSUME NEW s \in Stocks, NEW q \in Lots, MockSell(s, q)  PROVE MockInv'
    BY <2>5, MockSellKeeps
  <2>6. CASE UNCHANGED mockVars
    BY <2>1, <2>6, MockUnchanged DEF mockVars
  <2> QED  BY <2>2, <2>3, <2>4, <2>5, <2>6 DEF MockNext
<1> QED  BY <1>1, <1>2, PTL DEF MockSpec

----------------------------------------------------------------------------
(* The engine's positions: sequences of sequences.                         *)

\* What the function inside FlattenSeq has to satisfy on 1 .. n.
Chains(g, f, n) == \A i \in 1 .. n : g[i] = IF i = 1 THEN f[i] ELSE g[i - 1] \o f[i]

LEMMA ChainExists ==
    ASSUME NEW f, NEW n \in Nat
    PROVE  \E g : g = [i \in 1 .. n |-> g[i]] /\ Chains(g, f, n)
PROOF
<1> DEFINE Wrong == {k \in Nat : ~ \E g : g = [i \in 1 .. k |-> g[i]] /\ Chains(g, f, k)}
<1>1. ASSUME Wrong # {} PROVE FALSE
  <2>1. PICK k \in Wrong : \A j \in Wrong : k <= j
    <3> HIDE DEF Wrong
    <3>1. Wrong \subseteq Nat  BY DEF Wrong
    <3> QED  BY <1>1, <3>1, LeastOf
  <2>2. k \in Nat
    OBVIOUS
  <2>3. CASE k = 0
    <3> DEFINE g == [i \in 1 .. 0 |-> <<>>]
    <3>1. g = [i \in 1 .. k |-> g[i]] /\ Chains(g, f, k)
      BY <2>3 DEF Chains
    <3> QED  BY <3>1
  <2>4. CASE k # 0
    <3>1. k - 1 \in Nat /\ k - 1 \notin Wrong
      <4> HIDE DEF Wrong
      <4> QED  BY <2>1, <2>2, <2>4
    <3>2. PICK h : h = [i \in 1 .. k - 1 |-> h[i]] /\ Chains(h, f, k - 1)
      BY <3>1
    <3> DEFINE last == IF k = 1 THEN f[k] ELSE h[k - 1] \o f[k]
               g == [i \in 1 .. k |-> IF i < k THEN h[i] ELSE last]
    <3> HIDE DEF last
    <3>3. g = [i \in 1 .. k |-> g[i]] /\ g[k] = last
      BY <2>2, <2>4
    <3>4. \A i \in 1 .. k - 1 : g[i] = h[i]
      BY <2>2
    <3> HIDE DEF g
    <3>5. Chains(g, f, k)
      <4> SUFFICES ASSUME NEW i \in 1 .. k  PROVE g[i] = IF i = 1 THEN f[i] ELSE g[i - 1] \o f[i]
        BY DEF Chains
      <4>1. CASE i = k
        <5>1. k # 1 => g[k - 1] = h[k - 1]
          BY <2>2, <2>4, <3>4
        <5> QED  BY <3>3, <4>1, <5>1 DEF last
      <4>2. CASE i # k
        <5>1. i \in 1 .. k - 1 /\ g[i] = h[i]
          BY <2>2, <3>4, <4>2
        <5>2. i # 1 => g[i - 1] = h[i - 1]
          BY <2>2, <3>4, <5>1
        <5> QED  BY <3>2, <5>1, <5>2 DEF Chains
      <4> QED  BY <4>1, <4>2
    <3>6. \E u : u = [i \in 1 .. k |-> u[i]] /\ Chains(u, f, k)
      BY <3>3, <3>5
    <3> QED  BY <3>6
  <2> QED  BY <2>3, <2>4
<1> QED  BY <1>1

\* What FlattenSeq leaves of the sequences up to one of them.
LEMMA FlattenDef ==
    ASSUME NEW E, NEW n \in Nat \ {0}, NEW f \in [1 .. n -> E]
    PROVE  \E g : Chains(g, f, n) /\ FlattenSeq(f) = g[n]
PROOF
<1>1. Len(f) = n
  <2>1. n \in Nat
    OBVIOUS
  <2> QED  BY <2>1, FunctionIsSeq
<1> DEFINE Rec(g) == g = [i \in 1 .. n |-> IF i = 1 THEN f[i] ELSE g[i - 1] \o f[i]]
           flat == CHOOSE g : Rec(g)
<1>2. PICK g : g = [i \in 1 .. n |-> g[i]] /\ Chains(g, f, n)
  BY ChainExists
<1>3. Rec(g)
  BY <1>2, Zenon DEF Chains
<1>4. Rec(flat)
  <2> HIDE DEF Rec
  <2> QED  BY <1>3, Zenon
<1>5. Chains(flat, f, n)
  <2> HIDE DEF flat
  <2> QED  BY <1>4 DEF Chains
<1>6. n # 0
  OBVIOUS
<1>7. FlattenSeq(f) = flat[n]
  BY <1>1, <1>6, Zenon DEF FlattenSeq
<1> QED  BY <1>5, <1>7

LEMMA FlattenNone ==
    ASSUME NEW f \in [1 .. 0 -> {<<>>}]
    PROVE  FlattenSeq(f) = <<>>
PROOF
<1>1. 0 \in Nat
  OBVIOUS
<1>2. f \in Seq({<<>>}) /\ Len(f) = 0
  BY <1>1, FunctionIsSeq
<1>3. f = <<>>
  BY <1>2
<1> QED  BY <1>2, <1>3 DEF FlattenSeq

\* Candidates of every rule, one after the other.
LEMMA FlattenTyped ==
    ASSUME NEW D, NEW n \in Nat, NEW f \in [1 .. n -> Seq(D)]
    PROVE  FlattenSeq(f) \in Seq(D)
PROOF
<1>1. Len(f) = n
  BY FunctionIsSeq
<1>2. CASE n = 0
  <2>1. f \in [1 .. n -> D]
    BY <1>2
  <2>2. FlattenSeq(f) = f
    BY <1>1, <1>2 DEF FlattenSeq
  <2> QED  BY <2>1, <2>2, FunctionIsSeq
<1>3. CASE n # 0
  <2>1. PICK flat : Chains(flat, f, n) /\ FlattenSeq(f) = flat[n]
    BY <1>3, FlattenDef
  <2> DEFINE Wrong == {k \in Nat : k \in 1 .. n /\ flat[k] \notin Seq(D)}
  <2>2. ASSUME Wrong # {} PROVE FALSE
    <3>1. PICK k \in Wrong : \A j \in Wrong : k <= j
      <4> HIDE DEF Wrong
      <4>1. Wrong \subseteq Nat  BY DEF Wrong
      <4> QED  BY <2>2, <4>1, LeastOf
    <3>2. k \in 1 .. n /\ flat[k] \notin Seq(D) /\ f[k] \in Seq(D)
      OBVIOUS
    <3>3. flat[k] = IF k = 1 THEN f[k] ELSE flat[k - 1] \o f[k]
      BY <2>1, <3>2 DEF Chains
    <3>4. k # 1
      BY <3>2, <3>3
    <3>5. k - 1 \in 1 .. n /\ k - 1 \in Nat /\ k - 1 < k
      BY <3>2, <3>4
    <3>6. k - 1 \notin Wrong
      <4> HIDE DEF Wrong
      <4>1. k \in Nat
        BY <3>2
      <4> QED  BY <3>1, <3>5, <4>1
    <3>7. flat[k - 1] \in Seq(D)
      BY <3>5, <3>6
    <3>8. flat[k - 1] \o f[k] \in Seq(D)
      BY <3>2, <3>7
    <3> QED  BY <3>2, <3>3, <3>4, <3>8
  <2>3. n \in 1 .. n /\ n \in Nat
    BY <1>3
  <2> QED  BY <2>1, <2>2, <2>3
<1> QED  BY <1>2, <1>3

\* One sequence more.
LEMMA FlattenMore ==
    ASSUME NEW D, NEW n \in Nat, NEW f \in [1 .. n -> Seq(D)], NEW h \in [1 .. n + 1 -> Seq(D)],
           \A i \in 1 .. n : h[i] = f[i]
    PROVE  FlattenSeq(h) = FlattenSeq(f) \o h[n + 1]
PROOF
<1>1. n + 1 \in Nat \ {0} /\ n + 1 \in 1 .. n + 1
  OBVIOUS
<1>2. PICK b : Chains(b, h, n + 1) /\ FlattenSeq(h) = b[n + 1]
  BY <1>1, FlattenDef
<1>3. h[n + 1] \in Seq(D)
  BY <1>1
<1>4. CASE n = 0
  <2>1. b[n + 1] = h[n + 1]
    BY <1>1, <1>2, <1>4 DEF Chains
  <2>2. FlattenSeq(f) = <<>>
    <3>1. f \in [1 .. 0 -> {<<>>}]
      BY <1>4
    <3> QED  BY <3>1, FlattenNone
  <2>3. <<>> \o h[n + 1] = h[n + 1]
    BY <1>3
  <2> QED  BY <1>2, <2>1, <2>2, <2>3
<1>5. CASE n # 0
  <2>1. PICK a : Chains(a, f, n) /\ FlattenSeq(f) = a[n]
    BY <1>5, FlattenDef
  <2> DEFINE Wrong == {k \in Nat : k \in 1 .. n /\ a[k] # b[k]}
  <2>2. ASSUME Wrong # {} PROVE FALSE
    <3>1. PICK k \in Wrong : \A j \in Wrong : k <= j
      <4> HIDE DEF Wrong
      <4>1. Wrong \subseteq Nat  BY DEF Wrong
      <4> QED  BY <2>2, <4>1, LeastOf
    <3>2. k \in Nat /\ k \in 1 .. n /\ k \in 1 .. n + 1 /\ a[k] # b[k] /\ h[k] = f[k]
      OBVIOUS
    <3>3. a[k] = (IF k = 1 THEN f[k] ELSE a[k - 1] \o f[k]) /\ b[k] = (IF k = 1 THEN h[k] ELSE b[k - 1] \o h[k])
      BY <1>2, <2>1, <3>2 DEF Chains
    <3>4. k # 1
      BY <3>2, <3>3
    <3>5. k - 1 \in 1 .. n /\ k - 1 \in Nat /\ k - 1 < k
      BY <3>2, <3>4
    <3>6. k - 1 \notin Wrong
      <4> HIDE DEF Wrong
      <4> QED  BY <3>1, <3>2, <3>5
    <3>7. a[k - 1] = b[k - 1]
      BY <3>5, <3>6
    <3> QED  BY <3>2, <3>3, <3>4, <3>7
  <2>3. n \in 1 .. n
    BY <1>5
  <2>4. a[n] = b[n]
    BY <2>2, <2>3
  <2>5. b[n + 1] = b[n] \o h[n + 1]
    <3>1. n + 1 # 1 /\ (n + 1) - 1 = n
      BY <1>5
    <3> QED  BY <1>1, <1>2, <3>1 DEF Chains
  <2> QED  BY <1>2, <2>1, <2>4, <2>5
<1> QED  BY <1>4, <1>5

----------------------------------------------------------------------------
(* The engine's positions: open orders.                                    *)

\* Open, of any set of orders.
OpenIn(S, side) == LET sent == {o \in S : o.side = side} IN SumOver([o \in sent |-> o.qty], sent)

LEMMA OpenTyped ==
    ASSUME NEW S, IsFiniteSet(S), \A o \in S : o.qty \in Int, NEW side
    PROVE  OpenIn(S, side) \in Int
PROOF
<1> DEFINE sent == {o \in S : o.side = side}
           w == [o \in sent |-> o.qty]
<1>1. IsFiniteSet(sent)
  <2>1. sent \subseteq S  OBVIOUS
  <2> QED  BY <2>1, FS_Subset
<1>2. \A o \in sent : w[o] \in Int
  OBVIOUS
<1>3. OpenIn(S, side) = SumOver(w, sent)
  BY DEF OpenIn
<1> HIDE DEF w, sent
<1>4. SumOver(w, sent) \in Int
  BY <1>1, <1>2, SumInt
<1> QED  BY <1>3, <1>4

LEMMA OpenAdd ==
    ASSUME NEW S, IsFiniteSet(S), \A o \in S : o.qty \in Int, NEW c, c \notin S, c.qty \in Int,
           NEW side
    PROVE  OpenIn(S \union {c}, side) = OpenIn(S, side) + (IF c.side = side THEN c.qty ELSE 0)
PROOF
<1> DEFINE sent == {o \in S : o.side = side}
           all == {o \in S \union {c} : o.side = side}
           w == [o \in sent |-> o.qty]
           v == [o \in all |-> o.qty]
<1>1. IsFiniteSet(sent)
  <2>1. sent \subseteq S  OBVIOUS
  <2> QED  BY <2>1, FS_Subset
<1>2. OpenIn(S, side) = SumOver(w, sent) /\ OpenIn(S \union {c}, side) = SumOver(v, all)
  BY DEF OpenIn
<1>3. OpenIn(S, side) \in Int
  BY OpenTyped
<1>4. CASE c.side = side
  <2>1. all = sent \union {c} /\ c \notin sent
    BY <1>4
  <2>2. /\ \A o \in sent : v[o] = w[o] /\ v[o] \in Int
        /\ v[c] = c.qty
    BY <2>1
  <2> HIDE DEF v, w, all, sent
  <2>3. SumOver(v, all) = v[c] + SumOver(v, sent)
    BY <1>1, <2>1, <2>2, SumAdd
  <2>4. SumOver(v, sent) = SumOver(w, sent)
    BY <1>1, <2>2, SumSame
  <2> QED  BY <1>2, <1>3, <1>4, <2>2, <2>3, <2>4
<1>5. CASE c.side # side
  <2>1. all = sent
    BY <1>5
  <2>2. w = v
    BY <2>1
  <2> HIDE DEF v, w, all, sent
  <2> QED  BY <1>2, <1>3, <1>5, <2>1, <2>2
<1> QED  BY <1>4, <1>5

LEMMA OpenRemove ==
    ASSUME NEW S, IsFiniteSet(S), \A o \in S : o.qty \in Int, NEW c \in S, NEW side
    PROVE  OpenIn(S, side) = OpenIn(S \ {c}, side) + (IF c.side = side THEN c.qty ELSE 0)
PROOF
<1> DEFINE R == S \ {c}
<1>1. IsFiniteSet(R) /\ R \union {c} = S /\ c \notin R /\ \A o \in R : o.qty \in Int
  BY SmallerWithout
<1> HIDE DEF R
<1>2. OpenIn(R \union {c}, side) = OpenIn(R, side) + (IF c.side = side THEN c.qty ELSE 0)
  BY <1>1, OpenAdd
<1> QED  BY <1>1, <1>2 DEF R

LEMMA NothingOpen == \A side : OpenIn({}, side) = 0
PROOF
<1> TAKE side
<1> DEFINE w == [o \in {} |-> o.qty]
<1>1. {o \in {} : o.side = side} = {}
  OBVIOUS
<1>2. OpenIn({}, side) = SumOver(w, {})
  BY <1>1 DEF OpenIn
<1>3. SumOver(w, {}) = 0
  BY SumEmpty
<1> QED  BY <1>2, <1>3

----------------------------------------------------------------------------
(* The engine's positions: types.                                          *)

States == [known : BOOLEAN, qty : Nat, entry : {"zero", "float", "decimal"}]
Stages == {"idle", "syncing", "asking", "collecting", "executing", "accepted"}
Buyers(u) == {r \in Rules : <<r, "BUY">> \in u}

\* Candidates that buy no more than their rule says.
Sound == {c \in RuleOrders : c.side = "BUY" => c.qty <= RuleQty}

LEMMA RuleCount ==
    /\ IsFiniteSet(Rules) /\ Cardinality(Rules) \in Nat
    /\ \A u : /\ IsFiniteSet(Buyers(u)) /\ Cardinality(Buyers(u)) \in Nat
              /\ Cardinality(Buyers(u)) <= Cardinality(Rules)
PROOF
<1>1. IsFiniteSet(Rules)
  BY PositionsAssumption
<1>2. \A u : Buyers(u) \in SUBSET Rules
  BY DEF Buyers
<1> QED  BY <1>1, <1>2, FS_Subset, FS_CardinalityType

LEMMA BuyersGrow ==
    ASSUME NEW u, NEW r \in Rules, NEW side \in BuyOrSell, <<r, side>> \notin u
    PROVE  Cardinality(Buyers(u \union {<<r, side>>})) =
               Cardinality(Buyers(u)) + (IF side = "BUY" THEN 1 ELSE 0)
PROOF
<1> DEFINE B == Buyers(u)
           v == u \union {<<r, side>>}
<1>1. IsFiniteSet(B) /\ Cardinality(B) \in Nat
  BY RuleCount
<1>2. CASE side = "BUY"
  <2>1. Buyers(v) = B \union {r} /\ r \notin B
    BY <1>2 DEF Buyers
  <2> HIDE DEF B, v
  <2>2. Cardinality(B \union {r}) = Cardinality(B) + 1
    BY <1>1, <2>1, FS_AddElement
  <2> QED  BY <1>2, <2>1, <2>2 DEF B, v
<1>3. CASE side # "BUY"
  <2>1. Buyers(v) = B
    BY <1>3 DEF Buyers
  <2> QED  BY <1>1, <1>3, <2>1
<1> QED  BY <1>2, <1>3

LEMMA QuantityBounds ==
    /\ RuleQty \in Nat \ {0} /\ MaxHeld \in Nat \ {0}
    /\ \A u : RuleQty * Cardinality(Buyers(u)) \in Nat
PROOF
<1>1. RuleQty \in Nat \ {0} /\ MaxHeld \in Nat \ {0}
  BY PositionsAssumption
<1>2. \A x, y \in Nat : x * y \in Nat
  OBVIOUS
<1> QED  BY <1>1, <1>2, RuleCount

LEMMA BatchIff ==
    \A b : b \in Seq(Sound) <=>
              b \in Seq(RuleOrders) /\ \A c \in ToSet(b) : c.side = "BUY" => c.qty <= RuleQty
PROOF
<1> TAKE b
<1>1. ASSUME b \in Seq(Sound)
      PROVE  b \in Seq(RuleOrders) /\ \A c \in ToSet(b) : c.side = "BUY" => c.qty <= RuleQty
  <2>1. ToSet(b) \subseteq Sound
    BY <1>1, SeqIsFunction DEF ToSet
  <2>2. ToSet(b) \subseteq RuleOrders
    BY <2>1 DEF Sound
  <2>3. b \in Seq(RuleOrders)
    BY <1>1, <2>2, ElementsIn
  <2> QED  BY <2>1, <2>3 DEF Sound
<1>2. ASSUME b \in Seq(RuleOrders), \A c \in ToSet(b) : c.side = "BUY" => c.qty <= RuleQty
      PROVE  b \in Seq(Sound)
  <2>1. ToSet(b) \subseteq RuleOrders
    BY <1>2, SeqIsFunction DEF ToSet
  <2>2. ToSet(b) \subseteq Sound
    BY <1>2, <2>1 DEF Sound
  <2> QED  BY <1>2, <2>2, ElementsIn
<1> QED  BY <1>1, <1>2

LEMMA OrderFields ==
    /\ \A o \in RuleOrders : /\ o.rule \in Rules /\ o.side \in BuyOrSell
                             /\ o.qty \in Nat \ {0}
    /\ \A o \in SentOrders : /\ o.rule \in Rules /\ o.side \in BuyOrSell
                             /\ o.qty \in Nat \ {0} /\ o.epoch \in 1 .. MaxEpochs
BY DEF RuleOrders, OrdersTo, SentOrders

LEMMA PosFacts ==
    ASSUME PositionsInv
    PROVE  /\ ps \in States /\ ps.qty \in Nat
           /\ account \in Nat /\ account <= MaxHeld
           /\ orders \subseteq SentOrders /\ IsFiniteSet(orders) /\ \A o \in orders : o.qty \in Int
           /\ cycle \in Stages /\ batch \in Seq(Sound)
           /\ due \in BOOLEAN /\ held \in BOOLEAN /\ loose \in BOOLEAN
           /\ used \subseteq Rules \X BuyOrSell /\ epoch \in 1 .. MaxEpochs
           /\ opening \in Nat /\ opening >= MaxHeld
           /\ Open("BUY") = OpenIn(orders, "BUY") /\ OpenIn(orders, "BUY") \in Int
           /\ Open("SELL") = OpenIn(orders, "SELL") /\ OpenIn(orders, "SELL") \in Int
PROOF
<1>1. due \in BOOLEAN /\ held \in BOOLEAN /\ loose \in BOOLEAN
  BY Zenon DEF PositionsInv, PositionsTypeOK
<1>2. /\ ps \in States /\ cycle \in Stages /\ used \subseteq Rules \X BuyOrSell
      /\ epoch \in 1 .. MaxEpochs /\ opening \in Nat /\ opening >= MaxHeld
  BY Zenon DEF PositionsInv, PositionsTypeOK, States, Stages
<1>3. ps.qty \in Nat
  BY <1>2 DEF States
<1>4. account \in Nat /\ account <= MaxHeld
  <2>1. account \in 0 .. MaxHeld
    BY Zenon DEF PositionsInv, PositionsTypeOK
  <2> QED  BY <2>1, QuantityBounds
<1>5. orders \subseteq SentOrders /\ IsFiniteSet(orders) /\ \A o \in orders : o.qty \in Int
  <2>1. orders \subseteq SentOrders /\ IsFiniteSet(orders)
    BY Zenon DEF PositionsInv, PositionsTypeOK
  <2> QED  BY <2>1, OrderFields
<1>6. batch \in Seq(Sound)
  BY BatchIff, Zenon DEF PositionsInv, PositionsTypeOK, BatchSound
<1>7. \A side : Open(side) = OpenIn(orders, side) /\ OpenIn(orders, side) \in Int
  BY <1>5, OpenTyped DEF Open, OpenIn
<1> QED  BY <1>1, <1>2, <1>3, <1>4, <1>5, <1>6, <1>7

----------------------------------------------------------------------------
(* The engine's positions: the steps.                                      *)

LEMMA PosConclude ==
    ASSUME ps' \in States, account' \in Nat, account' <= MaxHeld,
           orders' \subseteq SentOrders, IsFiniteSet(orders'), cycle' \in Stages,
           batch' \in Seq(Sound), due' \in BOOLEAN, held' \in BOOLEAN, loose' \in BOOLEAN,
           used' \subseteq Rules \X BuyOrSell, epoch' \in 1 .. MaxEpochs,
           opening' \in Nat, opening' >= MaxHeld,
           cycle' \in {"executing", "accepted"} <=> batch' # <<>>,
           QuantityTracked', NothingLeftBehind', OncePerRule', BoughtOnce'
    PROVE  PositionsInv'
PROOF
<1>1. account' \in 0 .. MaxHeld
  BY QuantityBounds
<1>2. PositionsTypeOK'
  BY <1>1, BatchIff, Zenon DEF PositionsTypeOK, States, Stages
<1>3. BatchSound'
  BY BatchIff, Zenon DEF BatchSound
<1> QED  BY <1>2, <1>3, Zenon DEF PositionsInv

\* The record of a position.
LEMMA StateFields ==
    ASSUME NEW p \in States
    PROVE  /\ p.known \in BOOLEAN /\ p.qty \in Nat
           /\ p.entry \in {"zero", "float", "decimal"}
PROOF
BY DEF States

LEMMA NoneHeld ==
    /\ Empty \in States /\ Empty.qty = 0 /\ Empty.entry = "zero"
    /\ \A p \in States : Cleared(p) \in States /\ Cleared(p).qty = 0 /\ Cleared(p).entry = "zero"
PROOF
<1>1. Empty \in States /\ Empty.qty = 0 /\ Empty.entry = "zero"
  BY QuantityBounds DEF Empty, States
<1>2. \A p \in States : p.known \in BOOLEAN
  BY DEF States
<1>3. \A k \in BOOLEAN : [known |-> k, qty |-> 0, entry |-> "zero"] \in States
  BY QuantityBounds DEF States
<1>4. \A p \in States : Cleared(p) = [known |-> p.known, qty |-> 0, entry |-> "zero"]
  BY DEF Cleared, Empty
<1> QED  BY <1>1, <1>2, <1>3, <1>4

LEMMA PosNumbers ==
    ASSUME PositionsInv
    PROVE  /\ ~loose => ps.qty + Accepted("BUY") + OpenIn(orders, "SELL") =
                           account + OpenIn(orders, "BUY") + Accepted("SELL")
           /\ ps.entry = "zero" <=> ps.qty = 0
           /\ ps.qty + Accepted("BUY") <= opening + RuleQty * Cardinality(Buyers(used))
           /\ \A o \in orders : o.epoch <= epoch /\ (o.epoch = epoch => <<o.rule, o.side>> \in used)
           /\ \A o, p \in orders :
                 o.rule = p.rule /\ o.side = p.side /\ o.epoch = p.epoch => o = p
           /\ cycle \in {"executing", "accepted"} <=> batch # <<>>
PROOF
<1>1. Open("BUY") = OpenIn(orders, "BUY") /\ Open("SELL") = OpenIn(orders, "SELL")
  BY PosFacts
<1>2. QuantityTracked /\ NothingLeftBehind /\ OncePerRule /\ BoughtOnce /\ BatchSound
  BY Zenon DEF PositionsInv
<1>3. ~loose => ps.qty + Accepted("BUY") + OpenIn(orders, "SELL") =
                   account + OpenIn(orders, "BUY") + Accepted("SELL")
  BY <1>1, <1>2, Zenon DEF QuantityTracked
<1>4. ps.qty + Accepted("BUY") <= opening + RuleQty * Cardinality(Buyers(used))
  BY <1>2, Zenon DEF BoughtOnce, Buyers
<1> QED  BY <1>2, <1>3, <1>4, Zenon DEF NothingLeftBehind, OncePerRule, BatchSound

LEMMA TrackedNext ==
    ASSUME ~loose' => ps'.qty + Accepted("BUY")' + OpenIn(orders', "SELL") =
                         account' + OpenIn(orders', "BUY") + Accepted("SELL")'
    PROVE  QuantityTracked'
PROOF
<1>1. \A side : Open(side)' = OpenIn(orders', side)
  BY DEF Open, OpenIn
<1> QED  BY <1>1, Zenon DEF QuantityTracked

LEMMA NotAccepted == ASSUME cycle # "accepted" PROVE \A side : Accepted(side) = 0
BY DEF Accepted

LEMMA NotAcceptedNext == ASSUME cycle' # "accepted" PROVE \A side : Accepted(side)' = 0
BY DEF Accepted

\* Without a new order the old ones stay as they are.
LEMMA OnceKept ==
    ASSUME PositionsInv, orders' \subseteq orders, UNCHANGED <<used, epoch>>
    PROVE  OncePerRule'
PROOF
<1>1. /\ \A o \in orders : o.epoch <= epoch /\ (o.epoch = epoch => <<o.rule, o.side>> \in used)
      /\ \A o, p \in orders :
            o.rule = p.rule /\ o.side = p.side /\ o.epoch = p.epoch => o = p
  BY PosNumbers
<1>2. \A o \in orders' : o \in orders
  OBVIOUS
<1> QED  BY <1>1, <1>2, Zenon DEF OncePerRule

\* A step that orders nothing and changes no quantity.
LEMMA QuietStep ==
    ASSUME PositionsInv, UNCHANGED <<account, orders, used, epoch, opening>>,
           ps' \in States, ps'.qty = ps.qty, ps'.entry = ps.entry,
           cycle # "accepted", cycle' \in Stages \ {"accepted"},
           batch' \in Seq(Sound), cycle' = "executing" <=> batch' # <<>>,
           due' \in BOOLEAN, held' \in BOOLEAN, loose' \in BOOLEAN, loose => loose'
    PROVE  PositionsInv'
PROOF
<1>1. \A side : Accepted(side) = 0 /\ Accepted(side)' = 0
  BY NotAccepted, NotAcceptedNext
<1>2. QuantityTracked'
  <2>1. ~loose' => ps.qty + 0 + OpenIn(orders, "SELL") = account + OpenIn(orders, "BUY") + 0
    BY <1>1, PosNumbers, Zenon
  <2>2. ~loose' => ps'.qty + Accepted("BUY")' + OpenIn(orders', "SELL") =
                      account' + OpenIn(orders', "BUY") + Accepted("SELL")'
    BY <1>1, <2>1, Zenon
  <2> QED  BY <2>2, TrackedNext
<1>3. NothingLeftBehind'
  BY PosNumbers, Zenon DEF NothingLeftBehind
<1>4. OncePerRule'
  BY OnceKept
<1>5. BoughtOnce'
  <2>1. ps.qty + 0 <= opening + RuleQty * Cardinality(Buyers(used))
    BY <1>1, PosNumbers, Zenon
  <2>2. ps'.qty + Accepted("BUY")' <= opening' + RuleQty * Cardinality(Buyers(used'))
    BY <1>1, <2>1, Zenon
  <2> QED  BY <2>2, Zenon DEF BoughtOnce, Buyers
<1>6. cycle' \in {"executing", "accepted"} <=> batch' # <<>>
  OBVIOUS
<1>7. cycle' \in Stages
  OBVIOUS
<1> QED  BY <1>2, <1>3, <1>4, <1>5, <1>6, <1>7, PosFacts, PosConclude, Zenon

LEMMA StartCycleKeeps == ASSUME PositionsInv, StartCycle PROVE PositionsInv'
PROOF
<1>1. /\ cycle # "accepted" /\ cycle' \in Stages \ {"accepted"} /\ cycle' # "executing"
      /\ cycle \notin {"executing", "accepted"}
  BY DEF StartCycle, Stages
<1>2. batch' = batch /\ batch = <<>>
  BY <1>1, PosNumbers DEF StartCycle
<1>3. UNCHANGED <<ps, account, orders, due, held, used, epoch, opening, loose>>
  BY DEF StartCycle
<1> QED  BY <1>1, <1>2, <1>3, PosFacts, QuietStep, Zenon

LEMMA AskBalanceKeeps == ASSUME PositionsInv, AskBalance PROVE PositionsInv'
PROOF
<1>1. /\ cycle # "accepted" /\ cycle' \in Stages \ {"accepted"} /\ cycle' # "executing"
      /\ cycle \notin {"executing", "accepted"}
  BY DEF AskBalance, Stages
<1>2. batch' = batch /\ batch = <<>>
  BY <1>1, PosNumbers DEF AskBalance
<1>3. UNCHANGED <<ps, account, orders, due, used, epoch, opening, loose>> /\ held' \in BOOLEAN
  BY DEF AskBalance
<1> QED  BY <1>1, <1>2, <1>3, PosFacts, QuietStep, Zenon

LEMMA MinutePassesKeeps == ASSUME PositionsInv, MinutePasses PROVE PositionsInv'
PROOF
<1>1. UNCHANGED <<ps, account, orders, cycle, held, batch, used, epoch, opening, loose>> /\ due' \in BOOLEAN
  BY DEF MinutePasses
<1>2. \A side : Accepted(side)' = Accepted(side) /\ Open(side)' = Open(side)
  BY <1>1 DEF Accepted, Candidate, Open
<1>3. QuantityTracked'
  BY <1>1, <1>2, Zenon DEF PositionsInv, QuantityTracked
<1>4. NothingLeftBehind' /\ OncePerRule'
  BY <1>1, OnceKept, Zenon DEF PositionsInv, NothingLeftBehind
<1>5. BoughtOnce'
  BY <1>1, <1>2, Zenon DEF PositionsInv, BoughtOnce
<1> QED  BY <1>1, <1>3, <1>4, <1>5, PosFacts, PosNumbers, PosConclude, Zenon

\* What a synchronisation makes of the position.
LEMMA SyncedFacts ==
    ASSUME PositionsInv
    PROVE  /\ Synced(ps) \in States
           /\ Synced(ps).entry = "zero" <=> Synced(ps).qty = 0
           /\ Synced(ps).qty = IF ps.known THEN account ELSE ps.qty
PROOF
<1>1. ps \in States /\ account \in Nat /\ account <= MaxHeld /\ (ps.entry = "zero" <=> ps.qty = 0)
  BY PosFacts, PosNumbers
<1>2. account \in Nat
  BY <1>1
<1>3. CASE ~ps.known
  BY <1>1, <1>3, Zenon DEF Synced
<1>4. CASE ps.known /\ account = 0 /\ Holding(ps)
  <2>1. Synced(ps) = Cleared(ps)
    BY <1>4, Zenon DEF Synced
  <2>2. Synced(ps) \in States /\ Synced(ps).qty = 0 /\ Synced(ps).entry = "zero"
    BY <1>1, <2>1, NoneHeld
  <2> QED  BY <1>4, <2>2, Zenon
<1>5. CASE ps.known /\ account = 0 /\ ~Holding(ps)
  <2>1. Synced(ps) = ps
    BY <1>5, Zenon DEF Synced
  <2>2. ~(ps.qty > 0) /\ ps.qty \in Nat
    BY <1>5, PosFacts, Zenon DEF Holding
  <2>3. ps.qty = 0
    BY <2>2
  <2> QED  BY <1>1, <1>5, <2>1, <2>3, Zenon
<1>6. CASE ps.known /\ account # 0
  <2>1. Synced(ps) = [ps EXCEPT !.qty = account, !.entry = "decimal"]
    BY <1>6, Zenon DEF Synced
  <2> DEFINE new == [ps EXCEPT !.qty = account, !.entry = "decimal"]
  <2>2. Synced(ps) \in States /\ Synced(ps).qty = account /\ Synced(ps).entry = "decimal"
    <3>1. new \in States /\ new.qty = account /\ new.entry = "decimal"
      BY <1>1, <1>2 DEF States
    <3> QED  BY <2>1, <3>1, Zenon
  <2>3. Synced(ps).entry # "zero" /\ Synced(ps).qty # 0
    BY <1>6, <2>2
  <2> QED  BY <1>6, <2>2, <2>3, Zenon
<1> QED  BY <1>3, <1>4, <1>5, <1>6

LEMMA SyncKeeps == ASSUME PositionsInv, Sync PROVE PositionsInv'
PROOF
<1>1. /\ cycle = "syncing" /\ UNCHANGED <<account, orders, held, batch, used, epoch, opening>>
      /\ cycle' \in {"asking", "idle"} /\ due' \in {FALSE, due}
  BY DEF Sync
<1>2. /\ cycle # "accepted" /\ cycle' # "accepted" /\ cycle' \in Stages /\ cycle' # "executing"
      /\ cycle' \in Stages \ {"accepted"} /\ cycle' \notin {"executing", "accepted"}
      /\ batch' = batch /\ batch = <<>>
  BY <1>1, PosNumbers DEF Stages
<1>3. due' \in BOOLEAN
  BY <1>1, PosFacts, Zenon
<1>4. CASE UNCHANGED <<ps, loose>>
  BY <1>1, <1>2, <1>3, <1>4, PosFacts, QuietStep, Zenon
<1>5. CASE ps' = Synced(ps) /\ loose' = (IF ps.known THEN orders # {} ELSE loose)
  <2>1. /\ ps' \in States /\ (ps'.entry = "zero" <=> ps'.qty = 0)
        /\ ps'.qty = IF ps.known THEN account ELSE ps.qty
    BY <1>5, SyncedFacts
  <2>2. CASE ~ps.known
    <3>1. ps' = ps /\ loose' = loose
      BY <1>5, <2>2, Zenon DEF Synced
    <3> QED  BY <1>4, <3>1
  <2>3. CASE ps.known
    <3>1. loose' \in BOOLEAN /\ (loose' <=> orders # {}) /\ ps'.qty = account
      BY <1>5, <2>1, <2>3, Zenon
    <3>2. \A side : Accepted(side)' = 0
      BY <1>2, NotAcceptedNext
    <3>3. QuantityTracked'
      <4>1. \A side : OpenIn({}, side) = 0
        BY NothingOpen
      <4>2. ~loose' => orders' = {}
        BY <1>1, <3>1, Zenon
      <4>3. account + 0 + 0 = account + 0 + 0
        OBVIOUS
      <4>4. ~loose' => ps'.qty + Accepted("BUY")' + OpenIn(orders', "SELL") =
                          account' + OpenIn(orders', "BUY") + Accepted("SELL")'
        BY <1>1, <3>1, <3>2, <4>1, <4>2, <4>3, Zenon
      <4> QED  BY <4>4, TrackedNext
    <3>4. NothingLeftBehind'
      BY <2>1, Zenon DEF NothingLeftBehind
    <3>5. OncePerRule'
      BY <1>1, OnceKept
    <3>6. BoughtOnce'
      <4> DEFINE most == RuleQty * Cardinality(Buyers(used))
      <4>1. /\ most \in Nat /\ account \in Nat /\ account <= MaxHeld /\ MaxHeld \in Nat
            /\ opening \in Nat /\ opening >= MaxHeld
        BY PosFacts, QuantityBounds
      <4> HIDE DEF most
      <4>2. account + 0 <= opening + most
        BY <4>1
      <4>3. ps'.qty + Accepted("BUY")' <= opening' + RuleQty * Cardinality(Buyers(used'))
        BY <1>1, <3>1, <3>2, <4>2, Zenon DEF most
      <4> QED  BY <4>3, Zenon DEF BoughtOnce, Buyers
    <3>7. cycle' \in {"executing", "accepted"} <=> batch' # <<>>
      BY <1>2
    <3> QED  BY <1>1, <1>2, <1>3, <2>1, <3>1, <3>3, <3>4, <3>5, <3>6, <3>7,
                PosFacts, PosConclude, Zenon
  <2> QED  BY <2>2, <2>3
<1> QED  BY <1>4, <1>5 DEF Sync

\* What a rule may ask for is what may be executed.
LEMMA AskedSound ==
    ASSUME PositionsInv, NEW r \in Rules, NEW side \in BuyOrSell, NEW q \in Asked(side)
    PROVE  [rule |-> r, side |-> side, qty |-> q] \in Sound
PROOF
<1>1. ps \in States /\ ps.qty \in Nat
  BY PosFacts
<1>2. RuleQty \in Nat \ {0}
  BY QuantityBounds
<1>4. q # 0 /\ (q = RuleQty \/ q \in RuleAmounts(ps, side))
  BY DEF Asked
<1>5. CASE q = RuleQty
  BY <1>2, <1>5 DEF Sound, RuleOrders, OrdersTo
<1>6. CASE q \in RuleAmounts(ps, side) /\ side = "BUY"
  <2>1. q \in {1, RuleQty}
    BY <1>6 DEF RuleAmounts
  <2>2. q \in Nat \ {0} /\ q <= RuleQty
    BY <1>2, <2>1
  <2> QED  BY <2>2 DEF Sound, RuleOrders, OrdersTo
<1>7. CASE q \in RuleAmounts(ps, side) /\ side # "BUY"
  <2> DEFINE h == (ps.qty * 50) \div 100
  <2>1. q = ToSell(ps, 50) \/ q = ps.qty
    BY <1>7 DEF RuleAmounts
  <2>2. CASE q = ToSell(ps, 50)
    <3>1. ps.qty # 0 /\ q = Max({1, h})
      BY <1>4, <2>2 DEF ToSell
    <3>2. h \in Nat /\ h <= ps.qty
      BY <1>1
    <3>3. Max({1, h}) \in {1, h}
      <4> HIDE DEF h
      <4>1. \E x \in {1, h} : \A y \in {1, h} : x >= y
        BY <3>2
      <4> QED  BY <4>1 DEF Max
    <3> HIDE DEF h
    <3>4. q \in Nat /\ q <= ps.qty
      BY <1>1, <3>1, <3>2, <3>3
    <3> QED  BY <1>4, <1>7, <3>4 DEF Sound, RuleOrders, OrdersTo
  <2>3. CASE q = ps.qty
    BY <1>1, <1>4, <1>7, <2>3 DEF Sound, RuleOrders, OrdersTo
  <2> QED  BY <2>1, <2>2, <2>3
<1> QED  BY <1>4, <1>5, <1>6, <1>7

LEMMA SelectedSound ==
    ASSUME NEW cands \in Seq(Sound)
    PROVE  Selected(cands) \in Seq(Sound)
PROOF
<1> DEFINE sells == Without(cands, OrdersTo({"BUY"}))
           buys == Without(cands, OrdersTo({"SELL"}))
<1>1. sells \in Seq(Sound) /\ buys \in Seq(Sound)
  BY WithoutFacts
<1>2. Selected(cands) = IF held THEN sells ELSE IF buys = <<>> THEN <<>> ELSE <<Head(buys)>>
  BY Zenon DEF Selected
<1> HIDE DEF sells, buys
<1>3. buys # <<>> => <<Head(buys)>> \in Seq(Sound)
  <2>1. buys # <<>> => Head(buys) \in Sound
    BY <1>1, HeadFacts
  <2>2. \A x \in Sound : <<x>> \in Seq(Sound)
    OBVIOUS
  <2> QED  BY <2>1, <2>2
<1>4. <<>> \in Seq(Sound)
  BY EmptyFacts
<1> QED  BY <1>1, <1>2, <1>3, <1>4, Zenon

LEMMA CollectKeeps == ASSUME PositionsInv, Collect PROVE PositionsInv'
PROOF
<1>1. /\ cycle = "collecting"
      /\ ps' \in {ps, [ps EXCEPT !.known = TRUE]}
      /\ cycle' = IF batch' = <<>> THEN "idle" ELSE "executing"
      /\ UNCHANGED <<account, orders, due, held, used, epoch, opening, loose>>
  BY DEF Collect
<1>2. PICK signal : /\ signal \in [Rules -> UNION {Signals(r) : r \in Rules}]
                    /\ \A r \in Rules : signal[r] \in Signals(r)
                    /\ batch' = Selected(FlattenSeq([r \in Rules |-> signal[r]]))
  BY Zenon DEF Collect
<1> DEFINE f == [r \in Rules |-> signal[r]]
           n == Cardinality(Rules)
<1>3. \A r \in Rules : f[r] \in Seq(Sound)
  <2> SUFFICES ASSUME NEW r \in Rules  PROVE signal[r] \in Seq(Sound)
    OBVIOUS
  <2>1. signal[r] = <<>> \/ \E side \in BuyOrSell : \E q \in Asked(side) :
                               signal[r] = <<[rule |-> r, side |-> side, qty |-> q]>>
    BY <1>2 DEF Signals
  <2>2. CASE signal[r] = <<>>
    BY <2>2, EmptyFacts
  <2>3. ASSUME NEW side \in BuyOrSell, NEW q \in Asked(side),
               signal[r] = <<[rule |-> r, side |-> side, qty |-> q]>>
        PROVE  signal[r] \in Seq(Sound)
    <3>1. [rule |-> r, side |-> side, qty |-> q] \in Sound
      BY AskedSound
    <3>2. \A x \in Sound : <<x>> \in Seq(Sound)
      OBVIOUS
    <3> QED  BY <2>3, <3>1, <3>2
  <2> QED  BY <2>1, <2>2, <2>3
<1>4. Rules = 1 .. n /\ n \in Nat
  BY PositionsAssumption, RuleCount
<1>5. f \in [1 .. n -> Seq(Sound)]
  <2> HIDE DEF n
  <2> QED  BY <1>3, <1>4
<1>6. batch' \in Seq(Sound)
  <2>1. FlattenSeq(f) \in Seq(Sound)
    <3> HIDE DEF f, n
    <3> QED  BY <1>4, <1>5, FlattenTyped
  <2> QED  BY <1>2, <2>1, SelectedSound
<1>7. ps' \in States /\ ps'.qty = ps.qty /\ ps'.entry = ps.entry
  <2>1. ps \in States
    BY PosFacts
  <2>2. \A p \in States : LET k == [p EXCEPT !.known = TRUE]
                          IN  k \in States /\ k.qty = p.qty /\ k.entry = p.entry
    BY DEF States
  <2> QED  BY <1>1, <2>1, <2>2
<1>8. /\ cycle # "accepted" /\ cycle' \in Stages \ {"accepted"}
      /\ cycle' = "executing" <=> batch' # <<>>
  BY <1>1 DEF Stages
<1> QED  BY <1>1, <1>6, <1>7, <1>8, PosFacts, QuietStep, Zenon

LEMMA CandidateFacts ==
    ASSUME PositionsInv, cycle \in {"executing", "accepted"}
    PROVE  /\ Candidate \in Sound /\ Candidate \in RuleOrders
           /\ Candidate.rule \in Rules /\ Candidate.side \in BuyOrSell
           /\ Candidate.qty \in Nat \ {0}
           /\ Candidate.side = "BUY" => Candidate.qty <= RuleQty
           /\ Tail(batch) \in Seq(Sound) /\ batch # <<>>
PROOF
<1>1. batch \in Seq(Sound) /\ batch # <<>>
  BY PosFacts, PosNumbers
<1>2. Candidate \in Sound /\ Tail(batch) \in Seq(Sound)
  BY <1>1, HeadFacts DEF Candidate
<1>3. Candidate \in RuleOrders /\ (Candidate.side = "BUY" => Candidate.qty <= RuleQty)
  BY <1>2 DEF Sound
<1> QED  BY <1>1, <1>2, <1>3, OrderFields

LEMMA ContinueFacts ==
    ASSUME PositionsInv, cycle \in {"executing", "accepted"}, Continue
    PROVE  /\ batch' \in Seq(Sound) /\ cycle' \in Stages \ {"accepted"} /\ cycle' \in Stages
           /\ cycle' # "accepted"
           /\ cycle' = "executing" <=> batch' # <<>>
           /\ cycle' \in {"executing", "accepted"} <=> batch' # <<>>
PROOF
<1>1. Tail(batch) \in Seq(Sound)
  BY CandidateFacts
<1>2. batch' = Tail(batch) /\ cycle' = IF Tail(batch) = <<>> THEN "idle" ELSE "executing"
  BY Zenon DEF Continue
<1> QED  BY <1>1, <1>2 DEF Stages

LEMMA ExecuteFailsKeeps == ASSUME PositionsInv, ExecuteFails PROVE PositionsInv'
PROOF
<1>1. /\ cycle = "executing" /\ cycle # "accepted" /\ cycle \in {"executing", "accepted"} /\ Continue
      /\ UNCHANGED <<ps, account, orders, due, held, used, epoch, opening, loose>>
  BY DEF ExecuteFails
<1> QED  BY <1>1, ContinueFacts, PosFacts, QuietStep, Zenon

\* An order is sent: it is open and not yet recorded.
LEMMA ExecuteOrderKeeps == ASSUME PositionsInv, ExecuteOrder PROVE PositionsInv'
PROOF
<1> DEFINE c == Candidate
           q == Candidate.qty
           side == Candidate.side
           o == [rule |-> c.rule, side |-> side, qty |-> q, epoch |-> epoch]
<1>1. /\ cycle = "executing" /\ cycle # "accepted" /\ <<c.rule, side>> \notin used
      /\ used' = used \union {<<c.rule, side>>} /\ orders' = orders \union {o}
      /\ cycle' = "accepted" /\ UNCHANGED <<ps, account, due, held, batch, epoch, opening, loose>>
  BY DEF ExecuteOrder
<1>2. /\ c \in RuleOrders /\ c.rule \in Rules /\ side \in BuyOrSell /\ q \in Nat \ {0}
      /\ side = "BUY" => q <= RuleQty
      /\ batch # <<>>
  BY <1>1, CandidateFacts
<1>3. \A x \in orders : ~(x.rule = c.rule /\ x.side = side /\ x.epoch = epoch)
  BY <1>1, PosNumbers
<1>4. IsFiniteSet(orders) /\ orders \subseteq SentOrders /\ \A x \in orders : x.qty \in Int
  BY PosFacts
<1>14. /\ o \in SentOrders /\ o.rule = c.rule /\ o.side = side /\ o.qty = q /\ o.epoch = epoch
       /\ o \notin orders /\ epoch \in 1 .. MaxEpochs
  <2>1. epoch \in 1 .. MaxEpochs
    BY PosFacts
  <2>2. o.rule = c.rule /\ o.side = side /\ o.qty = q /\ o.epoch = epoch
    OBVIOUS
  <2>3. o \in SentOrders
    BY <1>2, <2>1 DEF SentOrders
  <2> HIDE DEF o
  <2> QED  BY <1>3, <2>1, <2>2, <2>3
<1> HIDE DEF o
<1>5. \A t : OpenIn(orders', t) = OpenIn(orders, t) + (IF side = t THEN q ELSE 0)
  <2>1. q \in Int
    BY <1>2
  <2>2. o.qty \in Int
    BY <1>14, <2>1
  <2>3. \A t : OpenIn(orders \union {o}, t) =
                  OpenIn(orders, t) + (IF o.side = t THEN o.qty ELSE 0)
    BY <1>4, <1>14, <2>2, OpenAdd
  <2> QED  BY <1>1, <1>14, <2>3, Zenon
<1>6. Candidate' = Candidate
  BY <1>1 DEF Candidate
<1>7. \A t : Accepted(t)' = (IF side = t THEN q ELSE 0) /\ Accepted(t) = 0
  BY <1>1, <1>6 DEF Accepted
<1>8. QuantityTracked'
  <2>1. /\ ps.qty \in Nat /\ account \in Nat
        /\ OpenIn(orders, "BUY") \in Int /\ OpenIn(orders, "SELL") \in Int
    BY PosFacts
  <2>2. ~loose => ps.qty + 0 + OpenIn(orders, "SELL") = account + OpenIn(orders, "BUY") + 0
    BY <1>7, PosNumbers, Zenon
  <2> DEFINE ob == OpenIn(orders, "BUY")
             os == OpenIn(orders, "SELL")
             kb == IF side = "BUY" THEN q ELSE 0
             ks == IF side = "SELL" THEN q ELSE 0
  <2>3. ob \in Int /\ os \in Int /\ kb \in Int /\ ks \in Int /\ ps.qty \in Int /\ account \in Int
    BY <1>2, <2>1
  <2>4. OpenIn(orders', "BUY") = ob + kb /\ OpenIn(orders', "SELL") = os + ks
    BY <1>5
  <2>5. Accepted("BUY")' = kb /\ Accepted("SELL")' = ks
    BY <1>7
  <2> HIDE DEF ob, os, kb, ks
  <2>6. ps.qty + 0 + os = account + ob + 0 => ps.qty + kb + (os + ks) = account + (ob + kb) + ks
    BY <2>3
  <2>7. ~loose' => ps'.qty + Accepted("BUY")' + OpenIn(orders', "SELL") =
                      account' + OpenIn(orders', "BUY") + Accepted("SELL")'
    BY <1>1, <2>2, <2>4, <2>5, <2>6, Zenon DEF ob, os
  <2> QED  BY <2>7, TrackedNext
<1>9. NothingLeftBehind'
  BY <1>1, PosNumbers, Zenon DEF NothingLeftBehind
<1>10. OncePerRule'
  <2>1. /\ \A x \in orders : x.epoch <= epoch /\ (x.epoch = epoch => <<x.rule, x.side>> \in used)
        /\ \A x, y \in orders :
              x.rule = y.rule /\ x.side = y.side /\ x.epoch = y.epoch => x = y
    BY PosNumbers
  <2>2. o.epoch <= epoch
    BY <1>14
  <2>3. \A x \in orders' :
           x.epoch <= epoch' /\ (x.epoch = epoch' => <<x.rule, x.side>> \in used')
    BY <1>1, <1>14, <2>1, <2>2
  <2>4. \A x, y \in orders' :
           x.rule = y.rule /\ x.side = y.side /\ x.epoch = y.epoch => x = y
    BY <1>1, <1>3, <1>14, <2>1
  <2> QED  BY <2>3, <2>4, Zenon DEF OncePerRule
<1>11. BoughtOnce'
  <2> DEFINE b == Cardinality(Buyers(used))
             d == Cardinality(Buyers(used'))
             kb == IF side = "BUY" THEN q ELSE 0
  <2>1. d = b + (IF side = "BUY" THEN 1 ELSE 0)
    BY <1>1, <1>2, BuyersGrow
  <2>2. b \in Nat /\ d \in Nat /\ RuleQty \in Nat /\ opening \in Nat /\ ps.qty \in Nat
        /\ opening' = opening
    BY <1>1, RuleCount, QuantityBounds, PosFacts
  <2>3. ps.qty + 0 <= opening + RuleQty * b
    BY <1>7, PosNumbers, Zenon
  <2>4. \A x, y \in Nat : x * (y + 1) = x * y + x /\ x * y \in Nat
    OBVIOUS
  <2>5. RuleQty * (b + 1) = RuleQty * b + RuleQty /\ RuleQty * b \in Nat
    BY <2>2, <2>4
  <2>6. Accepted("BUY")' = kb /\ ps'.qty = ps.qty
    BY <1>1, <1>7
  <2> DEFINE rb == RuleQty * b
             rd == RuleQty * d
  <2>7. side = "BUY" => rd = rb + RuleQty
    BY <2>1, <2>5
  <2>8. side # "BUY" => rd = rb
    BY <2>1, <2>2
  <2>9. rb \in Nat /\ ps.qty + 0 <= opening + rb
    BY <2>3, <2>5
  <2>10. (side = "BUY" => kb <= RuleQty /\ kb \in Nat) /\ (side # "BUY" => kb = 0)
    BY <1>2
  <2> HIDE DEF b, d, rb, rd, kb, side, q, c
  <2>11. ps.qty + kb <= opening + rd
    BY <2>2, <2>7, <2>8, <2>9, <2>10
  <2>12. ps'.qty + Accepted("BUY")' <= opening' + RuleQty * Cardinality(Buyers(used'))
    BY <2>2, <2>6, <2>11, Zenon DEF rd, d
  <2> QED  BY <2>12, Zenon DEF BoughtOnce, Buyers
<1>12. orders' \subseteq SentOrders /\ IsFiniteSet(orders') /\ used' \subseteq Rules \X BuyOrSell
  <2>1. used \subseteq Rules \X BuyOrSell
    BY PosFacts
  <2>2. IsFiniteSet(orders \union {o})
    BY <1>4, FS_AddElement
  <2> QED  BY <1>1, <1>2, <1>4, <1>14, <2>1, <2>2
<1>13. cycle' \in Stages /\ (cycle' \in {"executing", "accepted"} <=> batch' # <<>>)
  BY <1>1, <1>2 DEF Stages
<1> QED  BY <1>1, <1>8, <1>9, <1>10, <1>11, <1>12, <1>13, PosFacts, PosConclude, Zenon

LEMMA BoughtFacts ==
    ASSUME NEW p \in States, NEW q \in Nat \ {0}
    PROVE  /\ Bought(p, q) \in States /\ Bought(p, q).qty = p.qty + q
           /\ Bought(p, q).entry # "zero" /\ Bought(p, q).qty # 0
PROOF
<1> DEFINE n == p.qty + q
<1>1. p.qty \in Nat
  BY StateFields
<1>2. n \in Nat /\ n # 0
  BY <1>1
<1>3. Bought(p, q) = [p EXCEPT !.qty = n, !.entry = "float"]
  BY DEF Bought
<1> HIDE DEF n
<1>4. /\ Bought(p, q) \in States /\ Bought(p, q).qty = n /\ Bought(p, q).entry = "float"
  BY <1>2, <1>3 DEF States
<1> QED  BY <1>2, <1>4 DEF n

LEMMA SoldFacts ==
    ASSUME NEW p \in States, NEW q \in Nat \ {0}, p.entry = "zero" <=> p.qty = 0
    PROVE  /\ Sold(p, q) \in States /\ Sold(p, q).qty <= p.qty
           /\ Sold(p, q).entry = "zero" <=> Sold(p, q).qty = 0
           /\ q <= p.qty => Sold(p, q).qty = p.qty - q
PROOF
<1>1. p.qty \in Nat
  BY StateFields
<1>2. CASE q >= p.qty
  <2>1. Sold(p, q) = Cleared(p)
    BY <1>2, Zenon DEF Sold
  <2>2. Sold(p, q) \in States /\ Sold(p, q).qty = 0 /\ Sold(p, q).entry = "zero"
    BY <2>1, NoneHeld
  <2>3. q <= p.qty => p.qty - q = 0
    BY <1>1, <1>2
  <2>4. 0 <= p.qty
    BY <1>1
  <2> QED  BY <2>2, <2>3, <2>4, Zenon
<1>3. CASE ~(q >= p.qty)
  <2> DEFINE n == p.qty - q
  <2>1. n \in Nat /\ n <= p.qty /\ n # 0 /\ p.qty # 0
    BY <1>1, <1>3
  <2>3. Sold(p, q) = [p EXCEPT !.qty = n]
    BY <1>3 DEF Sold
  <2> HIDE DEF n
  <2>4. Sold(p, q) \in States /\ Sold(p, q).qty = n /\ Sold(p, q).entry = p.entry
    BY <2>1, <2>3 DEF States
  <2>5. Sold(p, q).qty = p.qty - q
    BY <2>4 DEF n
  <2> QED  BY <2>1, <2>4, <2>5, Zenon
<1> QED  BY <1>2, <1>3

\* The accepted order is recorded as if it had been filled.
LEMMA RecordFillKeeps == ASSUME PositionsInv, RecordFill PROVE PositionsInv'
PROOF
<1> DEFINE q == Candidate.qty
           side == Candidate.side
           most == RuleQty * Cardinality(Buyers(used))
<1>1. /\ cycle = "accepted" /\ cycle \in {"executing", "accepted"} /\ Continue
      /\ ps' = IF side = "BUY" THEN Bought(ps, q) ELSE Sold(ps, q)
      /\ loose' = (loose \/ (side = "SELL" /\ q > ps.qty))
      /\ UNCHANGED <<account, orders, due, held, used, epoch, opening>>
  BY DEF RecordFill
<1>2. side \in BuyOrSell /\ q \in Nat \ {0}
  BY <1>1, CandidateFacts
<1>3. /\ batch' \in Seq(Sound) /\ cycle' \in Stages /\ cycle' # "accepted"
      /\ cycle' \in {"executing", "accepted"} <=> batch' # <<>>
  BY <1>1, ContinueFacts
<1>4. /\ ps \in States /\ ps.qty \in Nat /\ account \in Nat
      /\ OpenIn(orders, "BUY") \in Int /\ OpenIn(orders, "SELL") \in Int
  BY PosFacts
<1>5. \A t : Accepted(t) = (IF side = t THEN q ELSE 0) /\ Accepted(t)' = 0
  BY <1>1, <1>3, NotAcceptedNext DEF Accepted
<1>6. most \in Nat /\ opening \in Nat
  BY QuantityBounds, PosFacts
<1>7. ps.qty + Accepted("BUY") <= opening + most
  BY PosNumbers
<1>8. /\ ps' \in States /\ (ps'.entry = "zero" <=> ps'.qty = 0) /\ ps'.qty <= opening + most
      /\ side = "BUY" => ps'.qty = ps.qty + q
      /\ side = "SELL" /\ q <= ps.qty => ps'.qty = ps.qty - q
  <2>1. CASE side = "BUY"
    <3>1. ps.qty + q <= opening + most
      BY <1>5, <1>7, <2>1
    <3>2. ps.qty + q \in Nat
      BY <1>2, <1>4
    <3>4. /\ Bought(ps, q) \in States /\ Bought(ps, q).qty = ps.qty + q
          /\ Bought(ps, q).entry # "zero" /\ Bought(ps, q).qty # 0
      BY <1>2, <1>4, BoughtFacts
    <3>5. ps' = Bought(ps, q)
      BY <1>1, <2>1, Zenon
    <3> QED  BY <2>1, <3>1, <3>4, <3>5
  <2>2. CASE side # "BUY"
    <3>1. ps' = Sold(ps, q)
      BY <1>1, <2>2, Zenon
    <3>2. ps.entry = "zero" <=> ps.qty = 0
      BY PosNumbers
    <3>3. /\ Sold(ps, q) \in States /\ Sold(ps, q).qty <= ps.qty
          /\ Sold(ps, q).entry = "zero" <=> Sold(ps, q).qty = 0
          /\ q <= ps.qty => Sold(ps, q).qty = ps.qty - q
      BY <1>2, <1>4, <3>2, SoldFacts, Zenon
    <3>4. Accepted("BUY") = 0
      BY <1>5, <2>2, Zenon
    <3>5. ps'.qty \in Nat
      BY <3>1, <3>3, StateFields
    <3>6. ps.qty + 0 <= opening + most
      BY <1>7, <3>4, Zenon
    <3>7. ps'.qty <= opening + most
      <4>1. ps'.qty <= ps.qty
        BY <3>1, <3>3, Zenon
      <4> HIDE DEF most
      <4> QED  BY <1>4, <1>6, <3>5, <3>6, <4>1
    <3> QED  BY <2>2, <3>1, <3>3, <3>7, Zenon
  <2> QED  BY <2>1, <2>2
<1>9. QuantityTracked'
  <2> DEFINE ob == OpenIn(orders, "BUY")
             os == OpenIn(orders, "SELL")
             kb == IF side = "BUY" THEN q ELSE 0
             ks == IF side = "SELL" THEN q ELSE 0
  <2> SUFFICES ASSUME ~loose'
               PROVE  ps'.qty + Accepted("BUY")' + OpenIn(orders', "SELL") =
                         account' + OpenIn(orders', "BUY") + Accepted("SELL")'
    BY TrackedNext
  <2>1. ~loose /\ (side = "SELL" => ~(q > ps.qty))
    BY <1>1, Zenon
  <2>2. ps.qty + kb + os = account + ob + ks
    BY <1>5, <2>1, PosNumbers, Zenon
  <2>3. ob \in Int /\ os \in Int /\ kb \in Int /\ ks \in Int /\ ps.qty \in Int /\ account \in Int
    BY <1>2, <1>4
  <2>4. ps'.qty = ps.qty + kb - ks
    BY <1>2, <1>4, <1>8, <2>1 DEF BuyOrSell
  <2> HIDE DEF ob, os, kb, ks
  <2>5. ps'.qty + 0 + os = account + ob + 0
    BY <2>2, <2>3, <2>4
  <2>6. OpenIn(orders', "BUY") = ob /\ OpenIn(orders', "SELL") = os /\ account' = account
    BY <1>1 DEF ob, os
  <2>7. Accepted("BUY")' = 0 /\ Accepted("SELL")' = 0
    BY <1>3, NotAcceptedNext
  <2> QED  BY <2>5, <2>6, <2>7, Zenon
<1>10. NothingLeftBehind'
  BY <1>8, Zenon DEF NothingLeftBehind
<1>11. OncePerRule'
  BY <1>1, OnceKept
<1>12. BoughtOnce'
  <2>1. ps'.qty \in Nat
    BY <1>8, StateFields
  <2>2. ps'.qty + 0 <= opening + most
    <3> HIDE DEF most
    <3> QED  BY <1>8, <2>1
  <2>3. ps'.qty + Accepted("BUY")' <= opening' + RuleQty * Cardinality(Buyers(used'))
    BY <1>1, <1>5, <2>2, Zenon
  <2> QED  BY <2>3, Zenon DEF BoughtOnce, Buyers
<1>13. loose' \in BOOLEAN
  BY <1>1, Zenon
<1> QED  BY <1>1, <1>3, <1>8, <1>9, <1>10, <1>11, <1>12, <1>13, PosFacts, PosConclude, Zenon

\* Orders, fills and trades of others while the engine is where it was.
LEMMA OutsideStep ==
    ASSUME PositionsInv, UNCHANGED <<ps, cycle, due, held, batch, used, epoch, opening>>,
           account' \in Nat, account' <= MaxHeld, orders' \subseteq orders, loose' \in BOOLEAN,
           ~loose' => ~loose /\ account' + OpenIn(orders', "BUY") - OpenIn(orders', "SELL") =
                                 account + OpenIn(orders, "BUY") - OpenIn(orders, "SELL")
    PROVE  PositionsInv'
PROOF
<1>1. /\ orders' \subseteq SentOrders /\ IsFiniteSet(orders') /\ \A o \in orders' : o.qty \in Int
  <2>1. orders \subseteq SentOrders /\ IsFiniteSet(orders) /\ \A o \in orders : o.qty \in Int
    BY PosFacts
  <2>2. IsFiniteSet(orders')
    BY <2>1, FS_Subset
  <2> QED  BY <2>1, <2>2
<1>2. /\ OpenIn(orders, "BUY") \in Int /\ OpenIn(orders, "SELL") \in Int
      /\ OpenIn(orders', "BUY") \in Int /\ OpenIn(orders', "SELL") \in Int
      /\ ps.qty \in Int /\ account \in Int /\ account' \in Int
  BY <1>1, OpenTyped, PosFacts
<1>3. \A t : Accepted(t)' = Accepted(t)
  BY DEF Accepted, Candidate
<1>4. Accepted("BUY") \in Int /\ Accepted("SELL") \in Int
  <2>1. cycle = "accepted" => Candidate.qty \in Int
    <3>1. cycle = "accepted" => Candidate.qty \in Nat \ {0}
      BY CandidateFacts
    <3> QED  BY <3>1
  <2> QED  BY <2>1 DEF Accepted
<1>5. QuantityTracked'
  <2> SUFFICES ASSUME ~loose'
               PROVE  ps'.qty + Accepted("BUY")' + OpenIn(orders', "SELL") =
                         account' + OpenIn(orders', "BUY") + Accepted("SELL")'
    BY TrackedNext
  <2>1. ps.qty + Accepted("BUY") + OpenIn(orders, "SELL") =
           account + OpenIn(orders, "BUY") + Accepted("SELL")
    BY PosNumbers, Zenon
  <2>2. account' + OpenIn(orders', "BUY") - OpenIn(orders', "SELL") =
           account + OpenIn(orders, "BUY") - OpenIn(orders, "SELL")
    BY Zenon
  <2>3. ps.qty + Accepted("BUY") + OpenIn(orders', "SELL") =
           account' + OpenIn(orders', "BUY") + Accepted("SELL")
    <3> DEFINE n == ps.qty
               kb == Accepted("BUY")
               ks == Accepted("SELL")
               ob == OpenIn(orders, "BUY")
               os == OpenIn(orders, "SELL")
               obn == OpenIn(orders', "BUY")
               osn == OpenIn(orders', "SELL")
               an == account'
    <3>1. /\ n + kb + os = account + ob + ks /\ an + obn - osn = account + ob - os
          /\ n \in Int /\ kb \in Int /\ ks \in Int /\ ob \in Int /\ os \in Int
          /\ obn \in Int /\ osn \in Int /\ an \in Int /\ account \in Int
      BY <1>2, <1>4, <2>1, <2>2, Zenon
    <3> HIDE DEF n, kb, ks, ob, os, obn, osn, an
    <3>2. n + kb + osn = an + obn + ks
      BY <3>1
    <3> QED  BY <3>2 DEF n, kb, ks, obn, osn, an
  <2> QED  BY <1>3, <2>3, Zenon
<1>6. NothingLeftBehind'
  BY PosNumbers, Zenon DEF NothingLeftBehind
<1>7. OncePerRule'
  BY OnceKept
<1>8. BoughtOnce'
  BY <1>3, Zenon DEF PositionsInv, BoughtOnce
<1>9. cycle' \in {"executing", "accepted"} <=> batch' # <<>>
  BY PosNumbers, Zenon
<1> QED  BY <1>1, <1>5, <1>6, <1>7, <1>8, <1>9, PosFacts, PosConclude, Zenon

LEMMA FillKeeps == ASSUME PositionsInv, NEW o \in orders, Fill(o) PROVE PositionsInv'
PROOF
<1>1. /\ orders' = orders \ {o} /\ UNCHANGED <<ps, cycle, due, held, batch, used, epoch, opening, loose>>
      /\ o.side = "BUY" => account + o.qty <= MaxHeld /\ account' = account + o.qty
      /\ o.side # "BUY" => account >= o.qty /\ account' = account - o.qty
  BY DEF Fill
<1>2. /\ account \in Nat /\ account <= MaxHeld /\ IsFiniteSet(orders) /\ MaxHeld \in Nat
      /\ o \in SentOrders /\ \A x \in orders : x.qty \in Int
  BY PosFacts, QuantityBounds
<1>3. o.side \in {"BUY", "SELL"} /\ o.qty \in Nat
  BY <1>2, OrderFields DEF BuyOrSell
<1>4. \A t : OpenIn(orders, t) = OpenIn(orders', t) + (IF o.side = t THEN o.qty ELSE 0)
  BY <1>1, <1>2, OpenRemove
<1>5. orders' \subseteq orders /\ IsFiniteSet(orders') /\ \A x \in orders' : x.qty \in Int
  <2>1. orders' \subseteq orders
    BY <1>1
  <2> QED  BY <1>2, <2>1, FS_Subset
<1>6. OpenIn(orders', "BUY") \in Int /\ OpenIn(orders', "SELL") \in Int
  BY <1>5, OpenTyped
<1>7. account' \in Nat /\ account' <= MaxHeld
  BY <1>1, <1>2, <1>3
<1>8. account' + OpenIn(orders', "BUY") - OpenIn(orders', "SELL") =
         account + OpenIn(orders, "BUY") - OpenIn(orders, "SELL")
  <2> DEFINE q == o.qty
             obn == OpenIn(orders', "BUY")
             osn == OpenIn(orders', "SELL")
             an == account'
  <2>1. q \in Int /\ obn \in Int /\ osn \in Int /\ account \in Int
    BY <1>2, <1>3, <1>6
  <2>2. CASE o.side = "BUY"
    <3>1. OpenIn(orders, "BUY") = obn + q /\ OpenIn(orders, "SELL") = osn + 0 /\ an = account + q
      BY <1>1, <1>4, <2>2
    <3> HIDE DEF q, obn, osn, an
    <3>2. an + obn - osn = account + (obn + q) - (osn + 0)
      BY <2>1, <3>1
    <3> QED  BY <3>1, <3>2 DEF obn, osn, an
  <2>3. CASE o.side = "SELL"
    <3>1. OpenIn(orders, "BUY") = obn + 0 /\ OpenIn(orders, "SELL") = osn + q /\ an = account - q
      BY <1>1, <1>4, <2>3
    <3> HIDE DEF q, obn, osn, an
    <3>2. an + obn - osn = account + (obn + 0) - (osn + q)
      BY <2>1, <3>1
    <3> QED  BY <3>1, <3>2 DEF obn, osn, an
  <2> QED  BY <1>3, <2>2, <2>3
<1> QED  BY <1>1, <1>5, <1>7, <1>8, PosFacts, OutsideStep, Zenon

LEMMA OrderEndsKeeps == ASSUME PositionsInv, NEW o \in orders, OrderEnds(o) PROVE PositionsInv'
PROOF
<1>1. /\ orders' = orders \ {o} /\ loose' = TRUE
      /\ UNCHANGED <<ps, account, cycle, due, held, batch, used, epoch, opening>>
  BY DEF OrderEnds
<1>2. orders' \subseteq orders
  BY <1>1
<1>3. account \in Nat /\ account <= MaxHeld
  BY PosFacts
<1> QED  BY <1>1, <1>2, <1>3, OutsideStep, Zenon

LEMMA OtherTradeKeeps == ASSUME PositionsInv, OtherTrade PROVE PositionsInv'
PROOF
<1>1. /\ account' \in 0 .. MaxHeld /\ loose' = TRUE
      /\ UNCHANGED <<ps, orders, cycle, due, held, batch, used, epoch, opening>>
  BY DEF OtherTrade
<1>2. account' \in Nat /\ account' <= MaxHeld /\ orders' \subseteq orders
  BY <1>1, QuantityBounds
<1> QED  BY <1>1, <1>2, OutsideStep, Zenon

\* A new memory of signals: all orders are of earlier ones.
LEMMA NewEpochFacts ==
    ASSUME PositionsInv, NewEpoch, orders' = orders
    PROVE  /\ epoch' \in 1 .. MaxEpochs /\ used' = {} /\ used' \subseteq Rules \X BuyOrSell
           /\ OncePerRule'
           /\ RuleQty * Cardinality(Buyers(used')) = 0
PROOF
<1>1. epoch < MaxEpochs /\ epoch' = epoch + 1 /\ used' = {}
  BY DEF NewEpoch
<1>2. epoch \in Nat /\ epoch' \in 1 .. MaxEpochs
  BY <1>1, PosFacts, PositionsAssumption
<1>3. OncePerRule'
  <2>1. /\ \A o \in orders : o.epoch <= epoch /\ o.epoch \in Nat
        /\ \A o, p \in orders :
              o.rule = p.rule /\ o.side = p.side /\ o.epoch = p.epoch => o = p
    <3>1. \A o \in orders : o.epoch \in 1 .. MaxEpochs
      BY PosFacts, OrderFields
    <3>2. \A o \in orders : o.epoch \in Nat
      BY <3>1, PositionsAssumption
    <3> QED  BY <3>2, PosNumbers
  <2>2. \A o \in orders : o.epoch <= epoch' /\ o.epoch # epoch'
    BY <1>1, <1>2, <2>1
  <2> QED  BY <2>1, <2>2, Zenon DEF OncePerRule
<1>4. RuleQty * Cardinality(Buyers(used')) = 0
  <2>1. Buyers(used') = {}
    BY <1>1 DEF Buyers
  <2>2. Cardinality(Buyers(used')) = 0
    BY <2>1, FS_EmptySet
  <2> QED  BY <2>2, QuantityBounds
<1> QED  BY <1>1, <1>2, <1>3, <1>4

LEMMA MidnightKeeps == ASSUME PositionsInv, Midnight PROVE PositionsInv'
PROOF
<1> DEFINE believed == ps.qty + Accepted("BUY")
<1>1. /\ NewEpoch /\ opening' = Max({MaxHeld, believed})
      /\ UNCHANGED <<ps, account, orders, cycle, due, held, batch, loose>>
  BY DEF Midnight
<1>2. \A side : Accepted(side)' = Accepted(side) /\ Open(side)' = Open(side)
  BY <1>1 DEF Accepted, Candidate, Open
<1>3. believed \in Nat
  <2>1. cycle = "accepted" => Candidate.qty \in Nat
    BY CandidateFacts
  <2>2. Accepted("BUY") \in Nat /\ ps.qty \in Nat
    BY <2>1, PosFacts DEF Accepted
  <2> QED  BY <2>2
<1>4. opening' \in Nat /\ opening' >= MaxHeld /\ believed <= opening'
  <2>1. MaxHeld \in Nat
    BY QuantityBounds
  <2> HIDE DEF believed
  <2>2. \E x \in {MaxHeld, believed} : \A y \in {MaxHeld, believed} : x >= y
    BY <1>3, <2>1
  <2>3. /\ Max({MaxHeld, believed}) \in {MaxHeld, believed}
        /\ \A y \in {MaxHeld, believed} : Max({MaxHeld, believed}) >= y
    BY <2>2, Zenon DEF Max
  <2> QED  BY <1>1, <1>3, <2>1, <2>3
<1>5. QuantityTracked'
  BY <1>1, <1>2, Zenon DEF PositionsInv, QuantityTracked
<1>6. NothingLeftBehind'
  BY <1>1, Zenon DEF PositionsInv, NothingLeftBehind
<1>7. BoughtOnce'
  <2> DEFINE most == RuleQty * Cardinality(Buyers(used'))
  <2>1. most = 0
    BY <1>1, NewEpochFacts
  <2>2. believed <= opening' + most
    <3> SUFFICES ASSUME NEW b, NEW p, NEW m, b \in Nat, p \in Nat, b <= p, m = 0
                 PROVE  b <= p + m
      BY <1>3, <1>4, <2>1, Zenon
    <3> QED  OBVIOUS
  <2> HIDE DEF most, believed
  <2>3. believed = ps'.qty + Accepted("BUY")'
    BY <1>1, <1>2 DEF believed
  <2> QED  BY <2>2, <2>3, Zenon DEF BoughtOnce, Buyers, most
<1> QED  BY <1>1, <1>4, <1>5, <1>6, <1>7, NewEpochFacts, PosFacts, PosNumbers, PosConclude, Zenon

LEMMA EngineRestartKeeps == ASSUME PositionsInv, EngineRestart PROVE PositionsInv'
PROOF
<1>1. /\ NewEpoch /\ opening' = MaxHeld /\ ps' = Empty /\ due' = TRUE
      /\ cycle' = "idle" /\ batch' = <<>> /\ held' = FALSE
      /\ loose' = (account > 0 \/ orders # {})
      /\ UNCHANGED <<account, orders>>
  BY DEF EngineRestart
<1>2. cycle' # "accepted" /\ cycle' \in Stages /\ cycle' \notin {"executing", "accepted"}
  BY <1>1 DEF Stages
<1>3. \A t : Accepted(t)' = 0
  BY <1>2, NotAcceptedNext
<1>4. Empty \in States /\ Empty.qty = 0 /\ Empty.entry = "zero"
  BY NoneHeld
<1>5. QuantityTracked'
  <2> SUFFICES ASSUME ~loose'
               PROVE  ps'.qty + Accepted("BUY")' + OpenIn(orders', "SELL") =
                         account' + OpenIn(orders', "BUY") + Accepted("SELL")'
    BY TrackedNext
  <2>1. ~(account > 0) /\ orders = {} /\ account \in Nat
    BY <1>1, PosFacts, Zenon
  <2>2. account = 0
    BY <2>1
  <2>3. OpenIn({}, "BUY") = 0 /\ OpenIn({}, "SELL") = 0
    BY NothingOpen
  <2> QED  BY <1>1, <1>3, <1>4, <2>1, <2>2, <2>3, Zenon
<1>6. NothingLeftBehind'
  BY <1>1, <1>4, Zenon DEF NothingLeftBehind
<1>7. opening' \in Nat /\ opening' >= MaxHeld
  BY <1>1, QuantityBounds
<1>8. BoughtOnce'
  <2> DEFINE most == RuleQty * Cardinality(Buyers(used'))
  <2>1. most = 0
    BY <1>1, NewEpochFacts
  <2>2. 0 + 0 <= opening' + most
    <3> SUFFICES ASSUME NEW p, NEW m, p \in Nat, m = 0
                 PROVE  0 + 0 <= p + m
      BY <1>7, <2>1, Zenon
    <3> QED  OBVIOUS
  <2> HIDE DEF most
  <2> QED  BY <1>1, <1>3, <1>4, <2>2, Zenon DEF BoughtOnce, Buyers, most
<1>9. loose' \in BOOLEAN /\ due' \in BOOLEAN /\ held' \in BOOLEAN
  BY <1>1, Zenon
<1>10. batch' \in Seq(Sound) /\ (cycle' \in {"executing", "accepted"} <=> batch' # <<>>)
  BY <1>1, <1>2, EmptyFacts
<1> QED  BY <1>1, <1>2, <1>4, <1>5, <1>6, <1>7, <1>8, <1>9, <1>10, NewEpochFacts, PosFacts,
            PosConclude, Zenon

LEMMA PositionsInitially == ASSUME PositionsInit PROVE PositionsInv
PROOF
<1>1. /\ ps = Empty /\ account \in {0, 1} /\ orders = {} /\ cycle = "idle" /\ due = TRUE
      /\ held = FALSE /\ batch = <<>> /\ used = {} /\ epoch = 1 /\ opening = MaxHeld /\ loose = (account > 0)
  BY DEF PositionsInit
<1>2. Empty \in States /\ Empty.qty = 0 /\ Empty.entry = "zero"
  BY NoneHeld
<1>3. \A t : Accepted(t) = 0
  BY <1>1 DEF Accepted
<1>4. PositionsTypeOK
  <2>1. account \in 0 .. MaxHeld
    BY <1>1, QuantityBounds
  <2>2. IsFiniteSet(orders) /\ orders \subseteq SentOrders /\ used \subseteq Rules \X BuyOrSell
    BY <1>1, FS_EmptySet
  <2>6. epoch \in 1 .. MaxEpochs /\ opening \in Nat /\ opening >= MaxHeld
    BY <1>1, PositionsAssumption
  <2>3. batch \in Seq(RuleOrders)
    BY <1>1, EmptyFacts
  <2>4. due \in BOOLEAN /\ held \in BOOLEAN /\ loose \in BOOLEAN
    <3>1. loose = TRUE \/ loose = FALSE
      BY <1>1
    <3>2. due = TRUE /\ held = FALSE
      BY <1>1
    <3> QED  BY <3>1, <3>2
  <2>5. cycle \in {"idle", "syncing", "asking", "collecting", "executing", "accepted"}
    BY <1>1
  <2> QED  BY <1>1, <1>2, <2>1, <2>2, <2>3, <2>4, <2>5, <2>6, Zenon DEF PositionsTypeOK, States
<1>5. QuantityTracked
  <2> SUFFICES ASSUME ~loose
               PROVE  ps.qty + Accepted("BUY") + Open("SELL") =
                         account + Open("BUY") + Accepted("SELL")
    BY DEF QuantityTracked
  <2>1. account = 0
    <3>1. ~(account > 0)
      BY <1>1, Zenon
    <3>2. account \in {0, 1}
      BY <1>1
    <3> QED  BY <3>1, <3>2
  <2>2. \A t : Open(t) = OpenIn(orders, t)
    BY DEF Open, OpenIn
  <2>3. OpenIn({}, "BUY") = 0 /\ OpenIn({}, "SELL") = 0
    BY NothingOpen
  <2> QED  BY <1>1, <1>2, <1>3, <2>1, <2>2, <2>3, Zenon
<1>6. NothingLeftBehind
  BY <1>1, <1>2, Zenon DEF NothingLeftBehind
<1>7. OncePerRule
  BY <1>1 DEF OncePerRule
<1>8. BoughtOnce
  <2> DEFINE most == RuleQty * Cardinality(Buyers(used))
  <2>1. most \in Nat /\ opening \in Nat
    BY <1>1, QuantityBounds
  <2> HIDE DEF most
  <2>2. 0 + 0 <= opening + most
    BY <2>1
  <2>3. ps.qty + Accepted("BUY") <= opening + RuleQty * Cardinality(Buyers(used))
    BY <1>1, <1>2, <1>3, <2>2, Zenon DEF most
  <2> QED  BY <2>3, Zenon DEF BoughtOnce, Buyers
<1>9. BatchSound
  BY <1>1, EmptyFacts DEF BatchSound
<1> QED  BY <1>4, <1>5, <1>6, <1>7, <1>8, <1>9, Zenon DEF PositionsInv

LEMMA PositionsStutter == ASSUME PositionsInv, UNCHANGED posVars PROVE PositionsInv'
PROOF
<1>1. UNCHANGED <<ps, cycle, due, held, batch, used, epoch, opening, account, orders, loose>>
  BY Zenon DEF posVars
<1>2. account' \in Nat /\ account' <= MaxHeld /\ orders' \subseteq orders /\ loose' \in BOOLEAN
  BY <1>1, PosFacts
<1> QED  BY <1>1, <1>2, OutsideStep, Zenon

\* Whatever interleaving of cycles, fills, synchronisations, days and restarts at any point
\* of a cycle: unless an order ended unfilled, somebody else traded, two rules sold the same
\* shares, the engine was restarted with shares or orders, or a synchronisation looked
\* between an order and its fill, the engine holds what the account holds and what its open
\* orders will make of it; nothing held means no entry price is left behind; from one memory
\* of its signals a rule has at most one order on a side, and no more is believed to be held
\* than when that memory began, or than the account can, and one purchase of each rule
\* (StrategyEngine.evaluate_all, _sync_positions, _update_position_state_on_fill).
THEOREM PositionsInvariant == PositionsSpec => []PositionsInv
PROOF
<1>1. PositionsInit => PositionsInv
  BY PositionsInitially
<1>2. PositionsInv /\ [PositionsNext]_posVars => PositionsInv'
  <2> SUFFICES ASSUME PositionsInv, [PositionsNext]_posVars  PROVE PositionsInv'
    OBVIOUS
  <2>1. CASE StartCycle  BY <2>1, StartCycleKeeps
  <2>2. CASE Sync  BY <2>2, SyncKeeps
  <2>3. CASE AskBalance  BY <2>3, AskBalanceKeeps
  <2>4. CASE Collect  BY <2>4, CollectKeeps
  <2>5. CASE ExecuteOrder  BY <2>5, ExecuteOrderKeeps
  <2>6. CASE ExecuteFails  BY <2>6, ExecuteFailsKeeps
  <2>7. CASE RecordFill  BY <2>7, RecordFillKeeps
  <2>8. ASSUME NEW o \in orders, Fill(o)  PROVE PositionsInv'
    BY <2>8, FillKeeps
  <2>9. ASSUME NEW o \in orders, OrderEnds(o)  PROVE PositionsInv'
    BY <2>9, OrderEndsKeeps
  <2>10. CASE OtherTrade  BY <2>10, OtherTradeKeeps
  <2>11. CASE MinutePasses  BY <2>11, MinutePassesKeeps
  <2>12. CASE EngineRestart  BY <2>12, EngineRestartKeeps
  <2>14. CASE Midnight  BY <2>14, MidnightKeeps
  <2>13. CASE UNCHANGED posVars  BY <2>13, PositionsStutter
  <2> QED  BY <2>1, <2>2, <2>3, <2>4, <2>5, <2>6, <2>7, <2>8, <2>9, <2>10, <2>11, <2>12, <2>13, <2>14
           DEF PositionsNext, EngineCycle
<1> QED  BY <1>1, <1>2, PTL DEF PositionsSpec

----------------------------------------------------------------------------
(* Minute bars: the bar of a sequence of trades.                           *)

LEMMA MaxIs ==
    ASSUME NEW S, S \subseteq Nat, NEW x \in S, \A y \in S : y <= x
    PROVE  Max(S) = x
PROOF
<1>1. \E z \in S : \A y \in S : z >= y
  OBVIOUS
<1>2. Max(S) \in S /\ \A y \in S : Max(S) >= y
  BY <1>1 DEF Max
<1>3. Max(S) \in Nat /\ x \in Nat /\ Max(S) >= x /\ Max(S) <= x
  BY <1>2
<1> QED  BY <1>3

LEMMA MinIs ==
    ASSUME NEW S, S \subseteq Nat, NEW x \in S, \A y \in S : x <= y
    PROVE  Min(S) = x
PROOF
<1>1. \E z \in S : \A y \in S : z <= y
  OBVIOUS
<1>2. Min(S) \in S /\ \A y \in S : Min(S) <= y
  BY <1>1 DEF Min
<1>3. Min(S) \in Nat /\ x \in Nat /\ Min(S) <= x /\ x <= Min(S)
  BY <1>2
<1> QED  BY <1>3

\* A sequence of numbers has a largest and a smallest one.
LEMMA SeqExtremes ==
    ASSUME NEW s \in Seq(Nat), s # <<>>
    PROVE  /\ ToSet(s) \subseteq Nat
           /\ Max(ToSet(s)) \in ToSet(s) /\ \A x \in ToSet(s) : x <= Max(ToSet(s))
           /\ Min(ToSet(s)) \in ToSet(s) /\ \A x \in ToSet(s) : Min(ToSet(s)) <= x
PROOF
<1>1. Len(s) \in Nat \ {0} /\ DOMAIN s = 1 .. Len(s) /\ \A i \in 1 .. Len(s) : s[i] \in Nat
  OBVIOUS
<1>2. ToSet(s) = {s[i] : i \in 1 .. Len(s)}
  BY <1>1 DEF ToSet
<1>3. ToSet(s) \subseteq Nat /\ ToSet(s) # {} /\ s[1] \in ToSet(s)
  BY <1>1, <1>2
<1> DEFINE Tops(k) == \E j \in 1 .. k : \A i \in 1 .. k : s[i] <= s[j]
           Wrong == {k \in Nat : k \in 1 .. Len(s) /\ ~Tops(k)}
<1>4. ASSUME Wrong # {} PROVE FALSE
  <2>1. PICK k \in Wrong : \A j \in Wrong : k <= j
    <3> HIDE DEF Wrong
    <3>1. Wrong \subseteq Nat  BY DEF Wrong
    <3> QED  BY <1>4, <3>1, LeastOf
  <2>2. k \in 1 .. Len(s) /\ ~Tops(k)
    OBVIOUS
  <2>3. k # 1
    <3>1. Tops(1)
      BY <1>1
    <3> QED  BY <2>2, <3>1
  <2>4. k - 1 \in Nat /\ k - 1 \in 1 .. Len(s) /\ k - 1 < k
    BY <1>1, <2>2, <2>3
  <2>5. k - 1 \notin Wrong
    <3>1. k \in Nat
      BY <2>2
    <3> HIDE DEF Wrong
    <3> QED  BY <2>1, <2>4, <3>1
  <2>6. PICK j \in 1 .. k - 1 : \A i \in 1 .. k - 1 : s[i] <= s[j]
    BY <2>4, <2>5
  <2>7. Tops(k)
    <3> DEFINE n == Len(s)
    <3>0. k \in 1 .. n
      BY <2>2
    <3> HIDE DEF Wrong, Tops, n
    <3>1. s[k] \in Nat /\ s[j] \in Nat /\ k \in 1 .. k /\ j \in 1 .. k
      BY <1>1, <2>4, <3>0 DEF n
    <3>2. \A i \in 1 .. k : i = k \/ i \in 1 .. k - 1
      BY <3>0
    <3>3. \A i \in 1 .. k : s[i] \in Nat
      BY <1>1, <3>0 DEF n
    <3>4. CASE s[k] <= s[j]
      <4>1. \A i \in 1 .. k : s[i] <= s[j]
        BY <2>6, <3>2, <3>4
      <4> QED  BY <3>1, <4>1 DEF Tops
    <3>5. CASE ~(s[k] <= s[j])
      <4>1. \A i \in 1 .. k : s[i] <= s[k]
        <5>1. \A i \in 1 .. k - 1 : s[i] \in Nat /\ s[i] <= s[k]
          BY <2>6, <3>1, <3>2, <3>3, <3>5
        <5> QED  BY <3>1, <3>2, <5>1
      <4> QED  BY <3>1, <4>1 DEF Tops
    <3> QED  BY <3>4, <3>5
  <2> QED  BY <2>2, <2>7
<1>5. Tops(Len(s))
  <2>1. Len(s) \in Nat /\ Len(s) \in 1 .. Len(s)
    BY <1>1
  <2> QED  BY <1>4, <2>1
<1>6. PICK x \in ToSet(s) : \A y \in ToSet(s) : y <= x
  BY <1>2, <1>5
<1>7. Max(ToSet(s)) = x
  BY <1>3, <1>6, MaxIs
<1>8. PICK z \in ToSet(s) : \A y \in ToSet(s) : z <= y
  BY <1>3, LeastOf
<1>9. Min(ToSet(s)) = z
  BY <1>3, <1>8, MinIs
<1> QED  BY <1>3, <1>6, <1>7, <1>8, <1>9

LEMMA BarOfOne ==
    ASSUME NEW m, NEW p \in Nat, NEW v
    PROVE  BarOf(m, <<p>>, v) = NewBar(m, p, v)
PROOF
<1>1. ToSet(<<p>>) = {p} /\ Last(<<p>>) = p /\ <<p>>[1] = p
  BY DEF ToSet, Last
<1>2. Max({p}) = p /\ Min({p}) = p
  BY MaxIs, MinIs
<1> QED  BY <1>1, <1>2 DEF BarOf, NewBar

LEMMA GrownFacts ==
    ASSUME NEW b \in Bars, NEW p \in Nat, NEW v \in Nat
    PROVE  Grown(b, p, v) =
             [minute |-> b.minute, open |-> b.open, high |-> Larger(b.high, p),
              low |-> Smaller(b.low, p), close |-> p, volume |-> b.volume + v]
PROOF
<1> DEFINE hi == Larger(b.high, p)
           lo == Smaller(b.low, p)
           vo == b.volume + v
           r1 == [minute |-> b.minute, open |-> b.open, high |-> hi, low |-> b.low,
                  close |-> b.close, volume |-> b.volume]
           r2 == [minute |-> b.minute, open |-> b.open, high |-> hi, low |-> lo,
                  close |-> b.close, volume |-> b.volume]
           r3 == [minute |-> b.minute, open |-> b.open, high |-> hi, low |-> lo,
                  close |-> p, volume |-> b.volume]
           r4 == [minute |-> b.minute, open |-> b.open, high |-> hi, low |-> lo,
                  close |-> p, volume |-> vo]
<1>1. Grown(b, p, v) = [b EXCEPT !.high = hi, !.low = lo, !.close = p, !.volume = vo]
  BY DEF Grown
<1> HIDE DEF hi, lo, vo
<1>2. [b EXCEPT !.high = hi] = r1
  <2>1. b = [minute |-> b.minute, open |-> b.open, high |-> b.high, low |-> b.low,
             close |-> b.close, volume |-> b.volume]
    BY DEF Bars
  <2> QED  BY <2>1
<1>3. [r1 EXCEPT !.low = lo] = r2
  OBVIOUS
<1>4. [r2 EXCEPT !.close = p] = r3
  OBVIOUS
<1>5. [r3 EXCEPT !.volume = vo] = r4
  OBVIOUS
<1>6. Grown(b, p, v) = r4
  <2> HIDE DEF r1, r2, r3, r4
  <2> QED  BY <1>1, <1>2, <1>3, <1>4, <1>5
<1> QED  BY <1>6 DEF hi, lo, vo

LEMMA LargerSmaller ==
    \A a, b \in Nat : /\ Larger(a, b) \in Nat /\ Smaller(a, b) \in Nat
                      /\ Larger(a, b) \in {a, b} /\ a <= Larger(a, b) /\ b <= Larger(a, b)
                      /\ Smaller(a, b) \in {a, b} /\ Smaller(a, b) <= a /\ Smaller(a, b) <= b
BY DEF Larger, Smaller

LEMMA BarOfTyped ==
    ASSUME NEW m \in Minutes, NEW s \in Seq(Nat), s # <<>>, NEW v \in Nat
    PROVE  BarOf(m, s, v) \in Bars
PROOF
<1>1. ToSet(s) \subseteq Nat /\ Max(ToSet(s)) \in ToSet(s) /\ Min(ToSet(s)) \in ToSet(s)
  BY SeqExtremes
<1>2. Max(ToSet(s)) \in Nat /\ Min(ToSet(s)) \in Nat
  BY <1>1
<1>3. s[1] \in Nat /\ Last(s) \in Nat
  BY DEF Last
<1> QED  BY <1>2, <1>3 DEF BarOf, Bars

LEMMA BarOfMore ==
    ASSUME NEW m \in Minutes, NEW s \in Seq(Nat), s # <<>>, NEW u \in Nat, NEW p \in Nat, NEW v \in Nat
    PROVE  BarOf(m, Append(s, p), u + v) = Grown(BarOf(m, s, u), p, v)
PROOF
<1> DEFINE t == Append(s, p)
           h == Max(ToSet(s))
           l == Min(ToSet(s))
<1>1. /\ ToSet(s) \subseteq Nat /\ h \in ToSet(s) /\ \A x \in ToSet(s) : x <= h
      /\ l \in ToSet(s) /\ \A x \in ToSet(s) : l <= x
  BY SeqExtremes
<1>2. ToSet(t) = ToSet(s) \union {p}
  BY AppendFacts
<1>3. t[1] = s[1] /\ Last(t) = p
  BY DEF Last
<1> HIDE DEF h, l, t
<1>4. h \in Nat /\ l \in Nat /\ ToSet(t) \subseteq Nat
  BY <1>1, <1>2
<1>5. Max(ToSet(t)) = Larger(h, p)
  <2>1. /\ Larger(h, p) \in Nat /\ Larger(h, p) \in {h, p}
        /\ h <= Larger(h, p) /\ p <= Larger(h, p)
    BY <1>4, LargerSmaller
  <2>2. Larger(h, p) \in ToSet(t) /\ \A y \in ToSet(t) : y <= Larger(h, p)
    BY <1>1, <1>2, <1>4, <2>1
  <2> QED  BY <1>4, <2>2, MaxIs
<1>6. Min(ToSet(t)) = Smaller(l, p)
  <2>1. /\ Smaller(l, p) \in Nat /\ Smaller(l, p) \in {l, p}
        /\ Smaller(l, p) <= l /\ Smaller(l, p) <= p
    BY <1>4, LargerSmaller
  <2>2. Smaller(l, p) \in ToSet(t) /\ \A y \in ToSet(t) : Smaller(l, p) <= y
    BY <1>1, <1>2, <1>4, <2>1
  <2> QED  BY <1>4, <2>2, MinIs
<1>7. BarOf(m, s, u) = [minute |-> m, open |-> s[1], high |-> h, low |-> l,
                        close |-> Last(s), volume |-> u]
  BY DEF BarOf, h, l
<1> DEFINE b == BarOf(m, s, u)
<1>8. b \in Bars /\ b.minute = m /\ b.open = s[1] /\ b.high = h /\ b.low = l /\ b.volume = u
  BY <1>7, BarOfTyped
<1> HIDE DEF b
<1>9. Grown(b, p, v) = [minute |-> b.minute, open |-> b.open, high |-> Larger(b.high, p),
                        low |-> Smaller(b.low, p), close |-> p, volume |-> b.volume + v]
  BY <1>8, GrownFacts
<1>10. BarOf(m, t, u + v) = [minute |-> m, open |-> s[1], high |-> Larger(h, p),
                             low |-> Smaller(l, p), close |-> p, volume |-> u + v]
  BY <1>3, <1>5, <1>6, Zenon DEF BarOf
<1>11. BarOf(m, t, u + v) = Grown(b, p, v)
  BY <1>8, <1>9, <1>10, Zenon
<1> QED  BY <1>11 DEF b, t

----------------------------------------------------------------------------
(* Minute bars: a quote.                                                   *)

LEMMA NoBarFacts == NoBar \in Bars /\ 0 \in Minutes /\ LastMinute \in Nat
PROOF
<1>1. 0 \in Minutes /\ LastMinute \in Nat
  BY BarsAssumption DEF Minutes
<1> QED  BY <1>1 DEF NoBar, Bars

LEMMA HeldFacts ==
    ASSUME minute \in Minutes, NEW b \in Bars, NEW p \in Nat \ {0}, NEW v \in Nat
    PROVE  /\ Held(b, p, v) \in Bars /\ Held(b, p, v).minute = minute /\ Held(b, p, v) # NoBar
           /\ b # NoBar /\ b.minute = minute => Held(b, p, v) = Grown(b, p, v)
           /\ ~(b # NoBar /\ b.minute = minute) => Held(b, p, v) = NewBar(minute, p, v)
PROOF
<1>1. /\ b.minute \in Minutes /\ b.open \in Nat /\ b.high \in Nat /\ b.low \in Nat
      /\ b.close \in Nat /\ b.volume \in Nat
  BY DEF Bars
<1>2. Larger(b.high, p) \in Nat /\ Smaller(b.low, p) \in Nat /\ b.volume + v \in Nat
  <2>1. /\ p \in Nat /\ \A x, y \in Nat : x + y \in Nat
        /\ \A x, y \in Nat : Larger(x, y) \in Nat /\ Smaller(x, y) \in Nat
    BY LargerSmaller
  <2> QED  BY <1>1, <2>1
<1>3. Grown(b, p, v) =
        [minute |-> b.minute, open |-> b.open, high |-> Larger(b.high, p),
         low |-> Smaller(b.low, p), close |-> p, volume |-> b.volume + v]
  BY GrownFacts
<1>4. Grown(b, p, v) \in Bars /\ Grown(b, p, v).minute = b.minute /\ Grown(b, p, v).close = p
  BY <1>1, <1>2, <1>3 DEF Bars
<1>5. /\ NewBar(minute, p, v) \in Bars /\ NewBar(minute, p, v).minute = minute
      /\ NewBar(minute, p, v).close = p
  BY DEF NewBar, Bars
<1>6. \A x : x.close = p => x # NoBar
  <2>1. NoBar.close = 0
    BY DEF NoBar
  <2> QED  BY <2>1
<1>7. CASE b # NoBar /\ b.minute = minute
  <2>1. Held(b, p, v) = Grown(b, p, v)
    BY <1>7, Zenon DEF Held
  <2> QED  BY <1>4, <1>6, <1>7, <2>1, Zenon
<1>8. CASE ~(b # NoBar /\ b.minute = minute)
  <2>1. Held(b, p, v) = NewBar(minute, p, v)
    BY <1>8, Zenon DEF Held
  <2> QED  BY <1>5, <1>6, <1>8, <2>1, Zenon
<1> QED  BY <1>7, <1>8

LEMMA SavedFacts ==
    ASSUME NEW S, NEW saves, builders \in Seq(Bars), NEW m \in Minutes
    PROVE  \/ Saved(S, saves)[m] = S[m]
           \/ \E i \in DOMAIN builders : /\ Completed(builders[i]) /\ builders[i].minute = m
                                         /\ Saved(S, saves)[m] = builders[i]
PROOF
<1> DEFINE done == {i \in DOMAIN builders :
                       Completed(builders[i]) /\ builders[i].minute = m /\ saves[i]}
<1>1. Saved(S, saves)[m] = IF done = {} THEN S[m] ELSE builders[Max(done)]
  BY DEF Saved
<1>2. Len(builders) \in Nat /\ DOMAIN builders = 1 .. Len(builders)
  OBVIOUS
<1>3. done \in SUBSET (0 .. Len(builders))
  BY <1>2
<1>4. done # {} => Max(done) \in done
  BY <1>2, <1>3, MaxBelow
<1>5. \A i \in done : i \in DOMAIN builders /\ Completed(builders[i]) /\ builders[i].minute = m
  OBVIOUS
<1> HIDE DEF done
<1> QED  BY <1>1, <1>4, <1>5, Zenon

\* What is known of the variables, for the leaves that need a single fact.
LEMMA BarsTypes ==
    ASSUME BarsTypeOK
    PROVE  /\ source \in Sources /\ minute \in Minutes /\ traded \in Nat /\ lastPrice \in Prices
           /\ wire \in Seq([price : Prices, volume : Nat])
           /\ builders \in Seq(Bars) /\ Len(builders) <= MaxEngines
           /\ store \in [Minutes -> Bars] /\ torn \subseteq Minutes
           /\ arrived \in [Minutes -> Seq(Prices)] /\ volumes \in [Minutes -> Nat]
           /\ unseen \in Nat /\ unheard \in Nat
           /\ DOMAIN builders = 1 .. Len(builders) /\ Len(builders) \in Nat
           /\ \A i \in DOMAIN builders : builders[i] \in Bars /\ builders[i].minute \in Minutes
           /\ minute \in Nat /\ Minutes \subseteq Nat /\ Prices \subseteq Nat \ {0}
           /\ \A m \in Minutes : arrived[m] \in Seq(Nat) /\ volumes[m] \in Nat
PROOF
<1>1. /\ source \in Sources /\ minute \in Minutes /\ traded \in Nat /\ lastPrice \in Prices
      /\ wire \in Seq([price : Prices, volume : Nat])
      /\ builders \in Seq(Bars) /\ Len(builders) <= MaxEngines
      /\ store \in [Minutes -> Bars] /\ torn \subseteq Minutes
      /\ arrived \in [Minutes -> Seq(Prices)] /\ volumes \in [Minutes -> Nat]
      /\ unseen \in Nat /\ unheard \in Nat
  BY Zenon DEF BarsTypeOK
<1>2. DOMAIN builders = 1 .. Len(builders) /\ Len(builders) \in Nat
  BY <1>1
<1>3. \A i \in DOMAIN builders : builders[i] \in Bars /\ builders[i].minute \in Minutes
  <2>1. \A b \in Bars : b.minute \in Minutes
    BY DEF Bars
  <2>2. \A i \in DOMAIN builders : builders[i] \in Bars
    BY <1>1, <1>2
  <2> QED  BY <2>1, <2>2, Zenon
<1>4. Minutes \subseteq Nat /\ Prices \subseteq Nat \ {0}
  BY BarsAssumption DEF Minutes
<1>5. \A m \in Minutes : arrived[m] \in Seq(Nat) /\ volumes[m] \in Nat
  <2>1. Prices \subseteq Nat
    BY <1>4
  <2>2. \A s \in Seq(Prices) : s \in Seq(Nat)
    <3> TAKE s \in Seq(Prices)
    <3>1. ToSet(s) \subseteq Prices
      BY SeqIsFunction DEF ToSet
    <3> QED  BY <2>1, <3>1, ElementsIn
  <2> QED  BY <1>1, <2>2
<1> QED  BY <1>1, <1>2, <1>3, <1>4, <1>5

LEMMA MinutesFinite == IsFiniteSet(Minutes)
PROOF
<1>1. LastMinute \in Int /\ 0 \in Int
  BY NoBarFacts
<1> QED  BY <1>1, FS_Interval DEF Minutes

\* What a quote does to builders and store.
LEMMA QuoteFacts ==
    ASSUME BarsTypeOK, NEW p \in Prices, NEW v \in Nat, Quote(p, v)
    PROVE  /\ builders' \in Seq(Bars) /\ Len(builders') = Len(builders)
           /\ DOMAIN builders' = DOMAIN builders
           /\ \A i \in DOMAIN builders : builders[i] \in Bars /\ builders'[i] = Held(builders[i], p, v)
           /\ store' \in [Minutes -> Bars]
           /\ \A m \in Minutes :
                 \/ store'[m] = store[m]
                 \/ \E i \in DOMAIN builders : /\ Completed(builders[i]) /\ builders[i].minute = m
                                               /\ store'[m] = builders[i]
PROOF
<1>1. builders \in Seq(Bars) /\ store \in [Minutes -> Bars] /\ minute \in Minutes
  BY Zenon DEF BarsTypeOK
<1>2. Len(builders) \in Nat /\ DOMAIN builders = 1 .. Len(builders)
      /\ \A i \in DOMAIN builders : builders[i] \in Bars
  BY <1>1
<1>3. builders' = [i \in DOMAIN builders |-> Held(builders[i], p, v)] /\ p \in Nat \ {0}
  BY BarsAssumption DEF Quote
<1>4. \A i \in DOMAIN builders : Held(builders[i], p, v) \in Bars
  BY <1>1, <1>2, <1>3, HeldFacts
<1> DEFINE n == Len(builders)
<1>5. builders' \in [1 .. n -> Bars] /\ n \in Nat
  BY <1>2, <1>3, <1>4
<1>6. builders' \in Seq(Bars) /\ Len(builders') = n /\ DOMAIN builders' = 1 .. n
  <2> HIDE DEF n
  <2> QED  BY <1>5, FunctionIsSeq
<1>7. PICK saves : store' = Saved(store, saves)
  BY Zenon DEF Quote
<1>8. \A m \in Minutes :
         \/ store'[m] = store[m]
         \/ \E i \in DOMAIN builders : /\ Completed(builders[i]) /\ builders[i].minute = m
                                       /\ store'[m] = builders[i]
  BY <1>1, <1>7, SavedFacts
<1>9. store' \in [Minutes -> Bars]
  <2>1. \A m \in Minutes : store'[m] \in Bars
    BY <1>1, <1>2, <1>8
  <2>2. store' = [m \in Minutes |-> store'[m]]
    BY <1>7 DEF Saved
  <2> QED  BY <2>1, <2>2
<1> QED  BY <1>2, <1>3, <1>6, <1>8, <1>9

\* What it adds to the present minute.
LEMMA QuoteAdds ==
    ASSUME BarsTypeOK, NEW p \in Prices, NEW v \in Nat, Quote(p, v)
    PROVE  /\ arrived' \in [Minutes -> Seq(Prices)] /\ volumes' \in [Minutes -> Nat]
           /\ arrived'[minute] = Append(arrived[minute], p) /\ arrived'[minute] # <<>>
           /\ volumes'[minute] = volumes[minute] + v
           /\ \A m \in Minutes \ {minute} : arrived'[m] = arrived[m] /\ volumes'[m] = volumes[m]
           /\ SumOver(volumes', Minutes) = SumOver(volumes, Minutes) + v
           /\ SumOver(volumes, Minutes) \in Int
PROOF
<1>1. /\ arrived' = [arrived EXCEPT ![minute] = Append(@, p)]
      /\ volumes' = [volumes EXCEPT ![minute] = @ + v]
  BY Zenon DEF Quote
<1>2. arrived \in [Minutes -> Seq(Prices)] /\ volumes \in [Minutes -> Nat] /\ minute \in Minutes
  BY BarsTypes
<1>3. /\ arrived' \in [Minutes -> Seq(Prices)] /\ arrived'[minute] = Append(arrived[minute], p)
      /\ \A m \in Minutes \ {minute} : arrived'[m] = arrived[m]
  <2>1. Append(arrived[minute], p) \in Seq(Prices)
    BY <1>2
  <2> QED  BY <1>1, <1>2, <2>1
<1>4. /\ volumes' \in [Minutes -> Nat] /\ volumes'[minute] = volumes[minute] + v
      /\ \A m \in Minutes \ {minute} : volumes'[m] = volumes[m]
  <2>1. volumes[minute] + v \in Nat
    BY <1>2
  <2> QED  BY <1>1, <1>2, <2>1
<1>5. arrived'[minute] # <<>>
  BY <1>2, <1>3, AppendFacts
<1>6. /\ \A m \in Minutes : volumes[m] \in Int
      /\ volumes'[minute] \in Int /\ volumes[minute] \in Int
  BY <1>2, <1>4
<1>7. SumOver(volumes', Minutes) = SumOver(volumes, Minutes) - volumes[minute] + volumes'[minute]
  <2> DEFINE v2 == volumes'
             w2 == volumes
             S == Minutes
  <2>1. /\ IsFiniteSet(S) /\ minute \in S /\ v2[minute] \in Int
        /\ \A s \in S : w2[s] \in Int
        /\ \A s \in S \ {minute} : v2[s] = w2[s]
    BY <1>2, <1>4, <1>6, MinutesFinite
  <2> HIDE DEF v2, w2, S
  <2>2. SumOver(v2, S) = SumOver(w2, S) - w2[minute] + v2[minute]
    BY <2>1, SumChange
  <2> QED  BY <2>2 DEF v2, w2, S
<1>8. SumOver(volumes, Minutes) \in Int
  BY <1>6, MinutesFinite, SumInt
<1>9. SumOver(volumes', Minutes) = SumOver(volumes, Minutes) + v
  BY <1>4, <1>6, <1>7, <1>8
<1> QED  BY <1>3, <1>4, <1>5, <1>8, <1>9

----------------------------------------------------------------------------
(* Minute bars: the steps.                                                 *)

\* What was handed on, built and stored, without its types.
Built == StoredIsTrue /\ BuildersAreTrue /\ BarsAreTimely

\* A quote of the present minute, from whichever source.
LEMMA QuoteKeeps ==
    ASSUME BarsTypeOK, Built, NEW p \in Prices, NEW v \in Nat, Quote(p, v),
           UNCHANGED <<minute, torn>>
    PROVE  Built'
PROOF
<1>1. BarsTypeOK /\ StoredIsTrue /\ BuildersAreTrue /\ BarsAreTimely
  BY Zenon DEF Built
<1>2. /\ minute \in Minutes /\ torn \subseteq Minutes /\ minute \in Nat /\ Minutes \subseteq Nat
      /\ \A i \in DOMAIN builders : builders[i].minute \in Minutes
      /\ \A m \in Minutes : arrived[m] \in Seq(Nat) /\ volumes[m] \in Nat
      /\ p \in Nat \ {0} /\ p \in Nat
  BY BarsTypes
<1>3. /\ DOMAIN builders' = DOMAIN builders
      /\ \A i \in DOMAIN builders : builders[i] \in Bars /\ builders'[i] = Held(builders[i], p, v)
  BY QuoteFacts
<1>4. \A m \in Minutes :
         \/ store'[m] = store[m]
         \/ \E i \in DOMAIN builders : /\ Completed(builders[i]) /\ builders[i].minute = m
                                       /\ store'[m] = builders[i]
  BY QuoteFacts
<1>5. \A i \in DOMAIN builders :
         LET bar == builders[i]
         IN  /\ builders'[i].minute = minute /\ builders'[i] # NoBar
             /\ bar # NoBar /\ bar.minute = minute => builders'[i] = Grown(bar, p, v)
             /\ ~(bar # NoBar /\ bar.minute = minute) => builders'[i] = NewBar(minute, p, v)
  <2> SUFFICES ASSUME NEW i \in DOMAIN builders
               PROVE  LET bar == builders[i]
                      IN  /\ builders'[i].minute = minute /\ builders'[i] # NoBar
                          /\ bar # NoBar /\ bar.minute = minute => builders'[i] = Grown(bar, p, v)
                          /\ ~(bar # NoBar /\ bar.minute = minute) => builders'[i] = NewBar(minute, p, v)
    BY Zenon
  <2>1. builders[i] \in Bars /\ builders'[i] = Held(builders[i], p, v)
    BY <1>3
  <2>2. minute \in Minutes /\ p \in Nat \ {0} /\ v \in Nat
    BY <1>2
  <2>3. /\ Held(builders[i], p, v).minute = minute /\ Held(builders[i], p, v) # NoBar
        /\ builders[i] # NoBar /\ builders[i].minute = minute =>
              Held(builders[i], p, v) = Grown(builders[i], p, v)
        /\ ~(builders[i] # NoBar /\ builders[i].minute = minute) =>
              Held(builders[i], p, v) = NewBar(minute, p, v)
    <3> DEFINE b == builders[i]
    <3>1. b \in Bars
      BY <2>1
    <3> HIDE DEF b
    <3>2. /\ Held(b, p, v).minute = minute /\ Held(b, p, v) # NoBar
          /\ b # NoBar /\ b.minute = minute => Held(b, p, v) = Grown(b, p, v)
          /\ ~(b # NoBar /\ b.minute = minute) => Held(b, p, v) = NewBar(minute, p, v)
      BY <2>2, <3>1, HeldFacts
    <3> QED  BY <3>2 DEF b
  <2> QED  BY <2>1, <2>3, Zenon
<1>6. /\ arrived'[minute] = Append(arrived[minute], p) /\ arrived'[minute] # <<>>
      /\ volumes'[minute] = volumes[minute] + v
      /\ \A m \in Minutes \ {minute} : arrived'[m] = arrived[m] /\ volumes'[m] = volumes[m]
  BY QuoteAdds
<1>7. BarsAreTimely'
  <2>1. \A m \in Minutes : m > minute' => arrived'[m] = <<>>
    <3>1. \A m \in Minutes : m > minute => m \in Minutes \ {minute}
      BY <1>2
    <3> QED  BY <1>1, <1>6, <3>1, Zenon DEF BarsAreTimely
  <2>2. \A m \in Minutes : arrived'[m] = <<>> => volumes'[m] = 0
    <3>1. \A m \in Minutes : arrived'[m] = <<>> => m \in Minutes \ {minute}
      BY <1>6
    <3> QED  BY <1>1, <1>6, <3>1, Zenon DEF BarsAreTimely
  <2>3. ASSUME NEW m \in Minutes, store'[m] # NoBar
        PROVE  m < minute' /\ store'[m].minute = m /\ arrived'[m] # <<>>
    <3>0. m < minute /\ arrived[m] # <<>> => m < minute' /\ arrived'[m] # <<>>
      BY <1>2, <1>6
    <3>1. CASE store'[m] = store[m]
      <4>1. m < minute /\ store[m].minute = m /\ arrived[m] # <<>>
        BY <1>1, <2>3, <3>1 DEF BarsAreTimely
      <4> QED  BY <3>0, <3>1, <4>1
    <3>2. ASSUME NEW i \in DOMAIN builders, Completed(builders[i]), builders[i].minute = m,
                 store'[m] = builders[i]
          PROVE  m < minute' /\ store'[m].minute = m /\ arrived'[m] # <<>>
      <4>1. m <= minute /\ m # minute /\ arrived[m] # <<>>
        BY <1>1, <3>2 DEF BarsAreTimely, Completed
      <4>2. m < minute
        BY <1>2, <4>1
      <4> QED  BY <3>0, <3>2, <4>1, <4>2
    <3> QED  BY <1>4, <3>1, <3>2
  <2>4. \A i \in DOMAIN builders' :
           builders'[i].minute <= minute' /\ arrived'[builders'[i].minute] # <<>>
    BY <1>2, <1>3, <1>5, <1>6
  <2> QED  BY <2>1, <2>2, <2>3, <2>4 DEF BarsAreTimely
<1>8. BuildersAreTrue'
  <2> DEFINE now == BarOf(minute, Append(arrived[minute], p), volumes[minute] + v)
  <2>1. ASSUME NEW i \in DOMAIN builders, minute \notin torn  PROVE builders'[i] = now
    <3>1. CASE builders[i] # NoBar /\ builders[i].minute = minute
      <4>1. builders[i] = BarOf(minute, arrived[minute], volumes[minute])
        BY <1>1, <2>1, <3>1, Zenon DEF BuildersAreTrue
      <4>2. arrived[minute] # <<>>
        BY <1>1, <3>1, Zenon DEF BarsAreTimely
      <4>3. now = Grown(BarOf(minute, arrived[minute], volumes[minute]), p, v)
        <5> DEFINE s == arrived[minute]
                   u == volumes[minute]
        <5>1. s \in Seq(Nat) /\ s # <<>> /\ u \in Nat /\ minute \in Minutes /\ p \in Nat /\ v \in Nat
          BY <1>2, <4>2
        <5> HIDE DEF s, u
        <5>2. BarOf(minute, Append(s, p), u + v) = Grown(BarOf(minute, s, u), p, v)
          BY <5>1, BarOfMore
        <5> QED  BY <5>2 DEF s, u
      <4> QED  BY <1>5, <3>1, <4>1, <4>3, Zenon
    <3>2. CASE ~(builders[i] # NoBar /\ builders[i].minute = minute)
      <4>1. arrived[minute] = <<>>
        BY <1>1, <2>1, <3>2, Zenon DEF BuildersAreTrue
      <4>2. volumes[minute] = 0
        BY <1>1, <1>2, <4>1, Zenon DEF BarsAreTimely
      <4>3. Append(arrived[minute], p) = <<p>> /\ volumes[minute] + v = v
        BY <4>1, <4>2
      <4>4. BarOf(minute, <<p>>, v) = NewBar(minute, p, v)
        BY <1>2, BarOfOne
      <4> QED  BY <1>5, <3>2, <4>3, <4>4, Zenon
    <3> QED  BY <3>1, <3>2
  <2>2. \A i \in DOMAIN builders' :
           /\ builders'[i] # NoBar /\ builders'[i].minute \notin torn' =>
                 builders'[i] = BarOf(builders'[i].minute, arrived'[builders'[i].minute],
                                      volumes'[builders'[i].minute])
           /\ minute' \notin torn' /\ arrived'[minute'] # <<>> =>
                 builders'[i] # NoBar /\ builders'[i].minute = minute'
    <3>1. now = BarOf(minute, arrived'[minute], volumes'[minute])
      BY <1>6, Zenon
    <3> HIDE DEF now
    <3> QED  BY <1>3, <1>5, <2>1, <3>1, Zenon
  <2> QED  BY <2>2, Zenon DEF BuildersAreTrue
<1>9. StoredIsTrue'
  <2>1. ASSUME NEW m \in Minutes \ torn, store'[m] # NoBar
        PROVE  store'[m] = BarOf(m, arrived'[m], volumes'[m])
    <3>1. m # minute
      <4>1. m < minute'
        BY <1>7, <2>1 DEF BarsAreTimely
      <4> QED  BY <1>2, <4>1
    <3>2. arrived'[m] = arrived[m] /\ volumes'[m] = volumes[m]
      BY <1>6, <3>1
    <3>3. CASE store'[m] = store[m]
      <4>1. store[m] = BarOf(m, arrived[m], volumes[m])
        BY <1>1, <2>1, <3>3, Zenon DEF StoredIsTrue, Whole
      <4> QED  BY <3>2, <3>3, <4>1
    <3>4. ASSUME NEW i \in DOMAIN builders, Completed(builders[i]), builders[i].minute = m,
                 store'[m] = builders[i]
          PROVE  store'[m] = BarOf(m, arrived'[m], volumes'[m])
      <4>1. builders[i] # NoBar /\ builders[i].minute \notin torn
        BY <2>1, <3>4 DEF Completed
      <4>2. builders[i] = BarOf(m, arrived[m], volumes[m])
        BY <1>1, <3>4, <4>1, Zenon DEF BuildersAreTrue
      <4> QED  BY <3>2, <3>4, <4>2
    <3> QED  BY <1>4, <3>3, <3>4
  <2> QED  BY <2>1, Zenon DEF StoredIsTrue, Whole
<1> QED  BY <1>7, <1>8, <1>9, Zenon DEF Built

\* A step of which no builder hears.
LEMMA QuietKeeps ==
    ASSUME Built, UNCHANGED <<minute, torn, builders, store, arrived, volumes>>
    PROVE  Built'
PROOF
<1>1. /\ minute' = minute /\ torn' = torn /\ builders' = builders /\ store' = store
      /\ arrived' = arrived /\ volumes' = volumes
  OBVIOUS
<1>2. StoredIsTrue /\ BuildersAreTrue /\ BarsAreTimely
  BY Zenon DEF Built
<1>3. StoredIsTrue'
  BY <1>1, <1>2, Zenon DEF StoredIsTrue, Whole
<1>4. BuildersAreTrue'
  BY <1>1, <1>2, Zenon DEF BuildersAreTrue
<1>5. BarsAreTimely'
  BY <1>1, <1>2, Zenon DEF BarsAreTimely
<1> QED  BY <1>3, <1>4, <1>5, Zenon DEF Built

LEMMA BarsParts == BarsInv <=> BarsTypeOK /\ Built /\ TradesAreCounted
BY Zenon DEF BarsInv, Built

\* What has been handed on is a number; the messages have lengths.
LEMMA Counts ==
    ASSUME BarsTypeOK
    PROVE  SumOver(volumes, Minutes) \in Int /\ Len(wire) \in Nat
PROOF
<1>1. \A m \in Minutes : volumes[m] \in Int
  BY BarsTypes
<1>2. SumOver(volumes, Minutes) \in Int
  BY <1>1, MinutesFinite, SumInt
<1>3. Len(wire) \in Nat
  BY BarsTypes, LenProperties
<1> QED  BY <1>2, <1>3

LEMMA TradeKeeps == ASSUME BarsInv, NEW p \in Prices, Trade(p) PROVE BarsInv'
PROOF
<1>1. BarsTypeOK /\ Built /\ TradesAreCounted
  BY BarsParts
<1>2. /\ traded' = traded + 1 /\ lastPrice' = p
      /\ UNCHANGED <<source, stream, minute, builders, store, arrived, volumes, torn, unheard>>
      /\ IF stream = "live"
           THEN wire' = Append(wire, [price |-> p, volume |-> 1]) /\ UNCHANGED unseen
           ELSE unseen' = unseen + 1 /\ UNCHANGED wire
  BY Zenon DEF Trade
<1>3. Built'
  BY <1>1, <1>2, QuietKeeps
<1>4. /\ traded \in Nat /\ unseen \in Nat /\ unheard \in Nat
      /\ wire \in Seq([price : Prices, volume : Nat])
  BY <1>1, BarsTypes
<1>5. SumOver(volumes, Minutes) \in Int /\ Len(wire) \in Nat
  BY <1>1, Counts
<1> DEFINE q == [price |-> p, volume |-> 1]
           n == SumOver(volumes, Minutes)
           n2 == SumOver(volumes', Minutes)
<1>6. n2 = n
  BY <1>2
<1>7. q \in [price : Prices, volume : Nat] /\ q.volume = 1
  OBVIOUS
<1> HIDE DEF q, n, n2
<1>8. /\ wire' \in Seq([price : Prices, volume : Nat]) /\ unseen' \in Nat /\ traded' \in Nat
      /\ unseen' + Len(wire') = unseen + Len(wire) + 1
      /\ (\A i \in DOMAIN wire : wire[i].volume = 1) => \A i \in DOMAIN wire' : wire'[i].volume = 1
  <2>1. CASE stream = "live"
    <3>1. wire' = Append(wire, q) /\ unseen' = unseen
      BY <1>2, <2>1 DEF q
    <3>2. /\ wire' \in Seq([price : Prices, volume : Nat]) /\ Len(wire') = Len(wire) + 1
          /\ \A i \in 1 .. Len(wire) : wire'[i] = wire[i]
          /\ wire'[Len(wire) + 1] = q
          /\ DOMAIN wire' = 1 .. Len(wire) + 1 /\ DOMAIN wire = 1 .. Len(wire)
      BY <1>4, <1>5, <1>7, <3>1, AppendProperties, LenProperties
    <3>3. \A i \in DOMAIN wire' : (i \in DOMAIN wire /\ wire'[i] = wire[i]) \/ wire'[i] = q
      BY <1>5, <3>2
    <3>4. unseen' + Len(wire') = unseen + Len(wire) + 1
      BY <1>4, <1>5, <3>1, <3>2
    <3>5. traded' \in Nat /\ unseen' \in Nat
      BY <1>2, <1>4, <3>1
    <3> QED  BY <1>7, <3>2, <3>3, <3>4, <3>5, Zenon
  <2>2. CASE stream # "live"
    <3>1. wire' = wire /\ unseen' = unseen + 1
      BY <1>2, <2>2
    <3> QED  BY <1>2, <1>4, <1>5, <3>1
  <2> QED  BY <2>1, <2>2
<1>9. BarsTypeOK'
  BY <1>1, <1>2, <1>8, Zenon DEF BarsTypeOK
<1>10. TradesAreCounted'
  <2>1. ASSUME source # "polling"
        PROVE  (\A i \in DOMAIN wire' : wire'[i].volume = 1) /\ traded' = unseen' + unheard' + Len(wire') + n2
    <3>1. (\A i \in DOMAIN wire : wire[i].volume = 1) /\ traded = unseen + unheard + Len(wire) + n
      BY <1>1, <2>1, Zenon DEF TradesAreCounted, n
    <3>2. Len(wire') \in Nat /\ n \in Int
      BY <1>5, <1>8, LenProperties DEF n
    <3>3. traded' = unseen' + unheard' + Len(wire') + n2
      <4>1. traded' = traded + 1 /\ unheard' = unheard /\ unseen' + Len(wire') = unseen + Len(wire) + 1
        BY <1>2, <1>8
      <4>2. unseen' \in Nat /\ unseen \in Nat /\ unheard \in Nat /\ Len(wire) \in Nat
        BY <1>4, <1>5, <1>8
      <4>3. traded = unseen + unheard + Len(wire) + n /\ n2 = n
        BY <1>6, <3>1
      <4> DEFINE b == unseen
                 c == unheard
                 d == Len(wire)
                 f == unseen'
                 g == Len(wire')
      <4>4. f + g = b + d + 1 /\ traded' = b + c + d + n + 1 /\ unheard' = c /\ n2 = n
        BY <4>1, <4>3
      <4>5. b \in Nat /\ c \in Nat /\ d \in Nat /\ f \in Nat /\ g \in Nat /\ n \in Int
        BY <3>2, <4>2
      <4> HIDE DEF b, c, d, f, g
      <4>6. traded' = f + c + g + n
        BY <4>4, <4>5
      <4> QED  BY <4>4, <4>6 DEF f, g
    <3> QED  BY <1>8, <3>1, <3>3
  <2> QED  BY <1>2, <2>1, Zenon DEF TradesAreCounted, n2
<1> QED  BY <1>3, <1>9, <1>10, Zenon DEF BarsInv, Built

\* The steps of the polling loop touch its request only.
LEMMA PollKeeps == ASSUME BarsInv, PollAnswered \/ PollFails PROVE BarsInv'
PROOF
<1>1. BarsTypeOK /\ Built
  BY BarsParts
<1>2. /\ source = "polling"
      /\ UNCHANGED <<source, stream, minute, traded, lastPrice, builders, store, arrived, volumes,
                     torn, unseen, unheard>>
      /\ wire' = <<[price |-> lastPrice, volume |-> traded]>> \/ wire' = <<>>
  BY Zenon DEF PollAnswered, PollFails
<1>3. traded \in Nat /\ lastPrice \in Prices
  BY <1>1, BarsTypes
<1>4. wire' \in Seq([price : Prices, volume : Nat])
  <2> DEFINE q == [price |-> lastPrice, volume |-> traded]
             R == [price : Prices, volume : Nat]
  <2>1. q \in R /\ (wire' = <<q>> \/ wire' = <<>>)
    BY <1>2, <1>3
  <2> HIDE DEF q, R
  <2>2. <<q>> \in Seq(R) /\ <<>> \in Seq(R)
    BY <2>1
  <2>3. wire' \in Seq(R)
    BY <2>1, <2>2
  <2> QED  BY <2>3 DEF R
<1>5. BarsTypeOK'
  BY <1>1, <1>2, <1>4, Zenon DEF BarsTypeOK
<1>6. Built'
  BY <1>1, <1>2, QuietKeeps
<1>7. TradesAreCounted'
  BY <1>2, Zenon DEF TradesAreCounted
<1> QED  BY <1>5, <1>6, <1>7, Zenon DEF BarsInv, Built

LEMMA ArriveKeeps == ASSUME BarsInv, Arrive PROVE BarsInv'
PROOF
<1>1. BarsTypeOK /\ Built /\ TradesAreCounted
  BY BarsParts
<1> DEFINE h == Head(wire)
           R == [price : Prices, volume : Nat]
<1>2. /\ wire # <<>> /\ wire' = Tail(wire)
      /\ UNCHANGED <<source, stream, minute, traded, lastPrice, torn, unseen>>
      /\ \/ Quote(h.price, h.volume) /\ UNCHANGED unheard
         \/ unheard' = unheard + 1 /\ UNCHANGED <<builders, store, arrived, volumes>>
  BY Zenon DEF Arrive
<1>3. /\ traded \in Nat /\ unseen \in Nat /\ unheard \in Nat
      /\ wire \in Seq(R) /\ Len(builders) <= MaxEngines
  BY <1>1, BarsTypes
<1>4. /\ h \in R /\ wire' \in Seq(R) /\ Len(wire') = Len(wire) - 1
      /\ Len(wire) \in Nat \ {0} /\ h = wire[1] /\ 1 \in DOMAIN wire
      /\ \A i \in DOMAIN wire' : i + 1 \in DOMAIN wire /\ wire'[i] = wire[i + 1]
  <2> HIDE DEF R
  <2>1. h = wire[1]
    BY DEF Head
  <2> HIDE DEF h
  <2> QED  BY <1>2, <1>3, <2>1
<1>5. h.price \in Prices /\ h.volume \in Nat
  BY <1>4
<1> DEFINE n == SumOver(volumes, Minutes)
           n2 == SumOver(volumes', Minutes)
           cameThrough == n2 = n + h.volume /\ unheard' = unheard
           wasNot == n2 = n /\ unheard' = unheard + 1
<1>6. n \in Int
  BY <1>1, Counts
<1> HIDE DEF h
<1>7. BarsTypeOK' /\ Built' /\ (cameThrough \/ wasNot)
  <2>1. CASE Quote(h.price, h.volume) /\ UNCHANGED unheard
    <3>1. Quote(h.price, h.volume)
      BY <2>1
    <3>2. Built'
      BY <1>1, <1>2, <1>5, <3>1, QuoteKeeps
    <3>3. builders' \in Seq(Bars) /\ Len(builders') = Len(builders) /\ store' \in [Minutes -> Bars]
      BY <1>1, <1>5, <3>1, QuoteFacts
    <3>4. /\ arrived' \in [Minutes -> Seq(Prices)] /\ volumes' \in [Minutes -> Nat]
          /\ n2 = n + h.volume
      BY <1>1, <1>5, <3>1, QuoteAdds
    <3>5. Len(builders') <= MaxEngines
      BY <1>3, <3>3
    <3> HIDE DEF n, n2
    <3>6. BarsTypeOK'
      BY <1>1, <1>2, <1>4, <2>1, <3>3, <3>4, <3>5, Zenon DEF BarsTypeOK
    <3> QED  BY <2>1, <3>2, <3>4, <3>6
  <2>2. CASE unheard' = unheard + 1 /\ UNCHANGED <<builders, store, arrived, volumes>>
    <3>1. Built'
      BY <1>1, <1>2, <2>2, QuietKeeps
    <3>2. unheard' \in Nat
      BY <1>3, <2>2
    <3>3. BarsTypeOK'
      BY <1>1, <1>2, <1>4, <2>2, <3>2, Zenon DEF BarsTypeOK
    <3>4. n2 = n
      BY <2>2
    <3> QED  BY <2>2, <3>1, <3>3, <3>4
  <2> QED  BY <1>2, <2>1, <2>2
<1>8. TradesAreCounted'
  <2>1. ASSUME source # "polling"
        PROVE  (\A i \in DOMAIN wire' : wire'[i].volume = 1) /\ traded' = unseen' + unheard' + Len(wire') + n2
    <3>1. (\A i \in DOMAIN wire : wire[i].volume = 1) /\ traded = unseen + unheard + Len(wire) + n
      BY <1>1, <2>1, Zenon DEF TradesAreCounted
    <3>2. \A i \in DOMAIN wire' : wire'[i].volume = 1
      <4> TAKE i \in DOMAIN wire'
      <4>1. i + 1 \in DOMAIN wire /\ wire'[i] = wire[i + 1]
        BY <1>4
      <4>2. wire[i + 1].volume = 1
        BY <3>1, <4>1
      <4> QED  BY <4>1, <4>2, Zenon
    <3>3. h.volume = 1
      BY <1>4, <3>1
    <3> HIDE DEF n, n2
    <3>4. n2 + unheard' = n + unheard + 1
      BY <1>3, <1>6, <1>7, <3>3
    <3>5. n2 \in Int /\ unheard' \in Int
      BY <1>3, <1>6, <1>7, <3>3
    <3>6. traded' = unseen' + unheard' + Len(wire') + n2
      <4>1. traded' = traded /\ unseen' = unseen /\ traded = unseen + unheard + Len(wire) + n
        BY <1>2, <3>1
      <4>2. Len(wire') = Len(wire) - 1 /\ Len(wire) \in Nat /\ unseen \in Nat /\ unheard \in Nat
        BY <1>3, <1>4
      <4> DEFINE b == unseen
                 c == unheard'
                 d == Len(wire)
                 g == Len(wire')
      <4>3. n2 + c = n + unheard + 1 /\ traded' = b + unheard + d + n /\ g = d - 1
        BY <3>4, <4>1, <4>2
      <4>4. b \in Nat /\ c \in Int /\ d \in Nat /\ unheard \in Nat /\ n \in Int /\ n2 \in Int
        BY <1>6, <3>5, <4>2
      <4> HIDE DEF b, c, d, g
      <4>5. traded' = b + c + g + n2
        BY <4>3, <4>4
      <4> QED  BY <4>1, <4>5 DEF b, c, g
    <3> QED  BY <3>2, <3>6
  <2> QED  BY <1>2, <2>1, Zenon DEF TradesAreCounted
<1> QED  BY <1>7, <1>8, Zenon DEF BarsInv, Built

LEMMA SocketDropsKeeps == ASSUME BarsInv, SocketDrops PROVE BarsInv'
PROOF
<1>1. BarsTypeOK /\ Built /\ TradesAreCounted
  BY BarsParts
<1> DEFINE R == [price : Prices, volume : Nat]
           n == SumOver(volumes, Minutes)
<1>2. /\ stream = "live" /\ stream' = "dead"
      /\ UNCHANGED <<source, minute, traded, lastPrice, builders, store, arrived, volumes, torn, unheard>>
  BY Zenon DEF SocketDrops
<1>3. PICK kept \in 0 .. Len(wire) : wire' = SubSeq(wire, 1, kept) /\ unseen' = unseen + (Len(wire) - kept)
  BY Zenon DEF SocketDrops
<1>4. unseen \in Nat /\ unheard \in Nat /\ traded \in Nat /\ wire \in Seq(R) /\ Len(wire) \in Nat /\ n \in Int
  BY <1>1, BarsTypes, Counts
<1>5. /\ wire' \in Seq(R) /\ Len(wire') = kept /\ kept \in Nat /\ unseen' \in Nat
      /\ \A i \in DOMAIN wire' : i \in DOMAIN wire /\ wire'[i] = wire[i]
  <2> HIDE DEF R, n
  <2>1. kept \in Nat /\ kept <= Len(wire) /\ DOMAIN wire = 1 .. Len(wire)
    BY <1>3, <1>4
  <2>2. SubSeq(wire, 1, kept) = [i \in 1 .. kept |-> wire[i]]
    BY <1>4, <2>1
  <2>3. \A i \in 1 .. kept : i \in DOMAIN wire /\ wire[i] \in R
    BY <1>4, <2>1
  <2>4. wire' \in [1 .. kept -> R] /\ \A i \in 1 .. kept : wire'[i] = wire[i]
    BY <1>3, <2>2, <2>3
  <2>5. wire' \in Seq(R) /\ Len(wire') = kept /\ DOMAIN wire' = 1 .. kept
    BY <2>1, <2>4, FunctionIsSeq
  <2>6. unseen' \in Nat
    BY <1>3, <1>4, <2>1
  <2> QED  BY <2>1, <2>3, <2>4, <2>5, <2>6
<1>6. BarsTypeOK'
  <2>1. source # "polling"
    BY <1>1, <1>2, Zenon DEF BarsTypeOK
  <2>2. stream' \in {"none", "live", "dead"}
    BY <1>2
  <2> QED  BY <1>1, <1>2, <1>5, <2>1, <2>2, Zenon DEF BarsTypeOK
<1>7. Built'
  BY <1>1, <1>2, QuietKeeps
<1>8. TradesAreCounted'
  <2>1. ASSUME source # "polling"
        PROVE  (\A i \in DOMAIN wire' : wire'[i].volume = 1) /\ traded' = unseen' + unheard' + Len(wire') + n
    <3>1. (\A i \in DOMAIN wire : wire[i].volume = 1) /\ traded = unseen + unheard + Len(wire) + n
      BY <1>1, <2>1, Zenon DEF TradesAreCounted
    <3> HIDE DEF n, R
    <3>2. traded' = unseen' + unheard' + Len(wire') + n
      BY <1>2, <1>3, <1>4, <1>5, <3>1
    <3> QED  BY <1>5, <3>1, <3>2
  <2>2. SumOver(volumes', Minutes) = n
    BY <1>2
  <2> HIDE DEF n
  <2> QED  BY <1>2, <2>1, <2>2, Zenon DEF TradesAreCounted
<1> QED  BY <1>6, <1>7, <1>8, Zenon DEF BarsInv, Built

LEMMA NextMinuteKeeps == ASSUME BarsInv, NextMinute PROVE BarsInv'
PROOF
<1>1. /\ minute < LastMinute /\ minute' = minute + 1
      /\ UNCHANGED <<source, stream, traded, lastPrice, wire, builders, store, arrived, volumes,
                     torn, unseen, unheard>>
  BY Zenon DEF NextMinute
<1>2. BarsTypeOK /\ StoredIsTrue /\ BuildersAreTrue /\ BarsAreTimely /\ TradesAreCounted
  BY Zenon DEF BarsInv
<1>3. /\ minute \in Nat /\ Minutes \subseteq Nat
      /\ \A i \in DOMAIN builders : builders[i].minute \in Minutes
  BY <1>2, BarsTypes
<1>4. minute' \in Minutes
  BY <1>1, <1>3, BarsAssumption DEF Minutes
<1>5. BarsTypeOK'
  BY <1>1, <1>2, <1>4, Zenon DEF BarsTypeOK
<1>6. arrived'[minute'] = <<>>
  <2>1. minute' > minute
    BY <1>1, <1>3
  <2> QED  BY <1>1, <1>2, <1>4, <2>1, Zenon DEF BarsAreTimely
<1>7. StoredIsTrue' /\ TradesAreCounted'
  BY <1>1, <1>2, Zenon DEF StoredIsTrue, Whole, TradesAreCounted
<1>8. BuildersAreTrue'
  BY <1>1, <1>2, <1>6, Zenon DEF BuildersAreTrue
<1>9. BarsAreTimely'
  <2>1. \A m \in Minutes : m > minute' => m > minute /\ m # minute'
    BY <1>1, <1>3
  <2>2. \A m \in Minutes : m > minute' => arrived'[m] = <<>>
    BY <1>1, <1>2, <2>1, Zenon DEF BarsAreTimely
  <2>3. \A m \in Minutes : m < minute => m < minute'
    BY <1>1, <1>3
  <2>4. \A m \in Minutes :
          store'[m] # NoBar => m < minute' /\ store'[m].minute = m /\ arrived'[m] # <<>>
    BY <1>1, <1>2, <2>3, Zenon DEF BarsAreTimely
  <2>5. \A m \in Minutes : m <= minute => m <= minute'
    BY <1>1, <1>3
  <2>6. \A i \in DOMAIN builders' :
          builders'[i] # NoBar => builders'[i].minute <= minute' /\ arrived'[builders'[i].minute] # <<>>
    BY <1>1, <1>2, <1>3, <2>5, Zenon DEF BarsAreTimely
  <2>7. \A m \in Minutes : arrived'[m] = <<>> => volumes'[m] = 0
    BY <1>1, <1>2, Zenon DEF BarsAreTimely
  <2> QED  BY <2>2, <2>4, <2>6, <2>7, Zenon DEF BarsAreTimely
<1> QED  BY <1>5, <1>7, <1>8, <1>9, Zenon DEF BarsInv

\* Builders come and go; a minute of which something came counts as seen in part.
LEMMA BuildersChange ==
    ASSUME BarsTypeOK, Built, UNCHANGED <<minute, store, arrived, volumes>>,
           \A i \in DOMAIN builders' :
              \/ builders'[i] = NoBar
              \/ /\ i \in DOMAIN builders
                 /\ builders'[i] = builders[i],
           torn' = TornNow
    PROVE  Built' /\ torn' \subseteq Minutes
PROOF
<1>1. StoredIsTrue /\ BuildersAreTrue /\ BarsAreTimely
  BY Zenon DEF Built
<1>2. minute \in Minutes /\ torn \subseteq Minutes
  BY BarsTypes
<1>3. /\ torn \subseteq torn' /\ torn' \subseteq Minutes
      /\ arrived[minute] # <<>> => minute \in torn'
  BY <1>2 DEF TornNow
<1>4. StoredIsTrue'
  <2>1. \A m \in Minutes \ torn' : m \in Minutes \ torn
    BY <1>3
  <2> QED  BY <1>1, <2>1, Zenon DEF StoredIsTrue, Whole
<1>5. BuildersAreTrue'
  <2>1. ASSUME NEW i \in DOMAIN builders', builders'[i] # NoBar, builders'[i].minute \notin torn'
        PROVE  builders'[i] = BarOf(builders'[i].minute, arrived[builders'[i].minute],
                                    volumes[builders'[i].minute])
    <3>1. i \in DOMAIN builders /\ builders'[i] = builders[i] /\ builders[i].minute \notin torn
      BY <1>3, <2>1
    <3>2. builders[i] # NoBar
      BY <2>1, <3>1
    <3> QED  BY <1>1, <3>1, <3>2, Zenon DEF BuildersAreTrue
  <2> QED  BY <1>3, <2>1, Zenon DEF BuildersAreTrue
<1>6. BarsAreTimely'
  BY <1>1 DEF BarsAreTimely
<1> QED  BY <1>3, <1>4, <1>5, <1>6, Zenon DEF Built

LEMMA StartEngineKeeps == ASSUME BarsInv, StartEngine PROVE BarsInv'
PROOF
<1>1. /\ Len(builders) < MaxEngines /\ builders' = Append(builders, NoBar) /\ torn' = TornNow
      /\ stream' \in IF stream = "none" /\ source # "polling" THEN {"none", "live"} ELSE {stream}
      /\ UNCHANGED <<source, minute, traded, lastPrice, wire, store, arrived, volumes, unseen, unheard>>
  BY Zenon DEF StartEngine
<1>2. BarsTypeOK /\ Built /\ TradesAreCounted
  BY BarsParts
<1>3. builders \in Seq(Bars) /\ NoBar \in Bars
  BY <1>2, BarsTypes, NoBarFacts
<1>4. /\ builders' \in Seq(Bars) /\ Len(builders') = Len(builders) + 1
      /\ DOMAIN builders' = 1 .. Len(builders) + 1 /\ builders'[Len(builders) + 1] = NoBar
      /\ \A i \in DOMAIN builders : builders'[i] = builders[i]
      /\ DOMAIN builders = 1 .. Len(builders) /\ Len(builders) \in Nat
  BY <1>1, <1>3
<1>5. Len(builders') <= MaxEngines
  BY <1>1, <1>4, BarsAssumption
<1>6. \A i \in DOMAIN builders' :
         \/ builders'[i] = NoBar
         \/ /\ i \in DOMAIN builders
            /\ builders'[i] = builders[i]
  <2>1. \A i \in DOMAIN builders' : i = Len(builders) + 1 \/ i \in DOMAIN builders
    <3> DEFINE n == Len(builders)
    <3>1. n \in Nat /\ DOMAIN builders' = 1 .. n + 1 /\ DOMAIN builders = 1 .. n
      BY <1>4
    <3> HIDE DEF n
    <3>2. \A i \in DOMAIN builders' : i = n + 1 \/ i \in DOMAIN builders
      BY <3>1
    <3> QED  BY <3>2 DEF n
  <2> QED  BY <1>4, <2>1, Zenon
<1>7. Built' /\ torn' \subseteq Minutes
  BY <1>1, <1>2, <1>6, BuildersChange, Zenon
<1>8. stream' \in {"none", "live", "dead"} /\ (source = "polling" => stream' = "none")
  <2>1. stream \in {"none", "live", "dead"} /\ (source = "polling" => stream = "none")
    BY <1>2, Zenon DEF BarsTypeOK
  <2> QED  BY <1>1, <2>1
<1>9. BarsTypeOK'
  BY <1>1, <1>2, <1>4, <1>5, <1>7, <1>8, Zenon DEF BarsTypeOK
<1>10. TradesAreCounted'
  BY <1>1, <1>2, Zenon DEF TradesAreCounted
<1> QED  BY <1>7, <1>9, <1>10, Zenon DEF BarsInv, Built

LEMMA ProcessRestartKeeps == ASSUME BarsInv, ProcessRestart PROVE BarsInv'
PROOF
<1>1. /\ builders' = <<>> /\ torn' = TornNow /\ stream' = "none" /\ wire' = <<>>
      /\ unseen' = IF source = "polling" THEN unseen ELSE unseen + Len(wire)
      /\ UNCHANGED <<source, minute, traded, lastPrice, store, arrived, volumes, unheard>>
  BY Zenon DEF ProcessRestart
<1>2. BarsTypeOK /\ Built /\ TradesAreCounted
  BY BarsParts
<1>3. /\ builders' \in Seq(Bars) /\ Len(builders') <= MaxEngines
      /\ \A i \in DOMAIN builders' : FALSE
  BY <1>1, BarsAssumption
<1>4. Built' /\ torn' \subseteq Minutes
  BY <1>1, <1>2, <1>3, BuildersChange, Zenon
<1> DEFINE n == SumOver(volumes, Minutes)
<1>5. unseen \in Nat /\ unheard \in Nat /\ Len(wire) \in Nat /\ n \in Int
  BY <1>2, BarsTypes, Counts
<1>6. unseen' \in Nat /\ wire' \in Seq([price : Prices, volume : Nat]) /\ Len(wire') = 0
      /\ \A i \in DOMAIN wire' : FALSE
  BY <1>1, <1>5
<1>7. stream' \in {"none", "live", "dead"} /\ (source' = "polling" => stream' = "none")
  BY <1>1
<1>8. BarsTypeOK'
  BY <1>1, <1>2, <1>3, <1>4, <1>6, <1>7, Zenon DEF BarsTypeOK
<1>9. TradesAreCounted'
  <2>1. ASSUME source # "polling"  PROVE traded = unseen' + unheard + Len(wire') + n
    <3>1. traded = unseen + unheard + Len(wire) + n
      BY <1>2, <2>1, Zenon DEF TradesAreCounted
    <3> HIDE DEF n
    <3> QED  BY <1>1, <1>5, <1>6, <2>1, <3>1
  <2>2. SumOver(volumes', Minutes) = n
    BY <1>1
  <2> HIDE DEF n
  <2> QED  BY <1>1, <1>6, <2>1, <2>2, Zenon DEF TradesAreCounted
<1> QED  BY <1>4, <1>8, <1>9, Zenon DEF BarsInv, Built

LEMMA BarsInitially == ASSUME BarsInit PROVE BarsInv
PROOF
<1>1. /\ source \in Sources /\ stream = "none" /\ minute = 0 /\ traded = 0
      /\ lastPrice = PreviousClose /\ wire = <<>>
      /\ arrived = [m \in Minutes |-> <<>>] /\ volumes = [m \in Minutes |-> 0]
      /\ builders = <<>> /\ store = [m \in Minutes |-> NoBar] /\ torn = {}
      /\ unseen = 0 /\ unheard = 0
  BY Zenon DEF BarsInit
<1>2. NoBar \in Bars /\ 0 \in Minutes /\ PreviousClose \in Prices
  BY NoBarFacts, BarsAssumption
<1>3. (\A i \in DOMAIN builders : FALSE) /\ (\A i \in DOMAIN wire : FALSE) /\ Len(wire) = 0
  BY <1>1
<1>4. \A m \in Minutes : arrived[m] = <<>> /\ volumes[m] = 0 /\ store[m] = NoBar
  BY <1>1
<1>5. BarsTypeOK
  <2>1. builders \in Seq(Bars) /\ Len(builders) <= MaxEngines
    BY <1>1, BarsAssumption
  <2>2. store \in [Minutes -> Bars]
    BY <1>1, <1>2
  <2>3. arrived \in [Minutes -> Seq(Prices)] /\ volumes \in [Minutes -> Nat]
    BY <1>1
  <2>4. minute \in Minutes /\ torn \subseteq Minutes /\ traded \in Nat /\ unseen \in Nat /\ unheard \in Nat
    BY <1>1, <1>2
  <2>5. wire \in Seq([price : Prices, volume : Nat])
    BY <1>1
  <2>6. stream \in {"none", "live", "dead"}
    BY <1>1
  <2> QED  BY <1>1, <1>2, <2>1, <2>2, <2>3, <2>4, <2>5, <2>6, Zenon DEF BarsTypeOK
<1>6. StoredIsTrue /\ BuildersAreTrue /\ BarsAreTimely
  BY <1>3, <1>4, Zenon DEF StoredIsTrue, BuildersAreTrue, BarsAreTimely
<1>7. TradesAreCounted
  <2>1. SumOver(volumes, Minutes) = 0
    BY <1>4, MinutesFinite, SumZero
  <2>2. traded = unseen + unheard + Len(wire) + SumOver(volumes, Minutes)
    BY <1>1, <1>3, <2>1
  <2> QED  BY <1>3, <2>2, Zenon DEF TradesAreCounted
<1> QED  BY <1>5, <1>6, <1>7, Zenon DEF BarsInv

\* However many engines were started and processes restarted, with any prices and any
\* number of minutes, from a socket or by polling, whatever was lost, late or not
\* understood: a stored bar is the bar of all that came in its minute, its volume included,
\* unless a builder saw the minute only in part, and every trade sent over a socket is
\* handed on at most once (BarBuilder.on_quote, MinuteBarStore.save_bars).
THEOREM BarsInvariant == BarsSpec => []BarsInv
PROOF
<1>1. BarsInit => BarsInv
  BY BarsInitially
<1>2. BarsInv /\ [BarsNext]_barVars => BarsInv'
  <2> SUFFICES ASSUME BarsInv, [BarsNext]_barVars  PROVE BarsInv'
    OBVIOUS
  <2>1. ASSUME NEW p \in Prices, Trade(p)  PROVE BarsInv'
    BY <2>1, TradeKeeps
  <2>2. CASE PollAnswered \/ PollFails  BY <2>2, PollKeeps
  <2>3. CASE Arrive  BY <2>3, ArriveKeeps
  <2>4. CASE SocketDrops  BY <2>4, SocketDropsKeeps
  <2>5. CASE NextMinute  BY <2>5, NextMinuteKeeps
  <2>6. CASE StartEngine  BY <2>6, StartEngineKeeps
  <2>7. CASE ProcessRestart  BY <2>7, ProcessRestartKeeps
  <2>8. CASE UNCHANGED barVars
    <3>1. UNCHANGED <<source, stream, minute, traded, lastPrice, wire, builders, store, arrived,
                      volumes, torn, unseen, unheard>>
      BY <2>8, Zenon DEF barVars
    <3>2. BarsTypeOK /\ Built /\ TradesAreCounted
      BY BarsParts
    <3>3. Built'
      BY <3>1, <3>2, QuietKeeps
    <3>4. BarsTypeOK' /\ TradesAreCounted'
      BY <3>1, <3>2, Zenon DEF BarsTypeOK, TradesAreCounted
    <3> QED  BY <3>3, <3>4, Zenon DEF BarsInv, Built
  <2> QED  BY <2>1, <2>2, <2>3, <2>4, <2>5, <2>6, <2>7, <2>8 DEF BarsNext
<1> QED  BY <1>1, <1>2, PTL DEF BarsSpec

----------------------------------------------------------------------------
(* Minute bars: rows and trades up to a minute.                            *)

\* What the function inside Scan has to satisfy on 0 .. n.
Scans(g, rows, width, n) ==
    \A i \in 0 .. n : g[i] = IF i = 0 THEN [result |-> <<>>, bucket |-> <<>>]
                             ELSE Bucketed(g[i - 1], rows[i], width)

LEMMA ScanExists ==
    ASSUME NEW rows, NEW width, NEW n \in Nat
    PROVE  \E g : g = [i \in 0 .. n |-> g[i]] /\ Scans(g, rows, width, n)
PROOF
<1> DEFINE Wrong == {k \in Nat : ~ \E g : g = [i \in 0 .. k |-> g[i]] /\ Scans(g, rows, width, k)}
<1>1. ASSUME Wrong # {} PROVE FALSE
  <2>1. PICK k \in Wrong : \A j \in Wrong : k <= j
    <3> HIDE DEF Wrong
    <3>1. Wrong \subseteq Nat  BY DEF Wrong
    <3> QED  BY <1>1, <3>1, LeastOf
  <2>2. k \in Nat
    OBVIOUS
  <2>3. CASE k = 0
    <3> DEFINE g == [i \in 0 .. 0 |-> [result |-> <<>>, bucket |-> <<>>]]
    <3>1. g = [i \in 0 .. k |-> g[i]] /\ Scans(g, rows, width, k)
      BY <2>3 DEF Scans
    <3> QED  BY <3>1
  <2>4. CASE k # 0
    <3>1. k - 1 \in Nat /\ k - 1 \notin Wrong
      <4> HIDE DEF Wrong
      <4> QED  BY <2>1, <2>2, <2>4
    <3>2. PICK h : h = [i \in 0 .. k - 1 |-> h[i]] /\ Scans(h, rows, width, k - 1)
      BY <3>1
    <3> DEFINE last == Bucketed(h[k - 1], rows[k], width)
               g == [i \in 0 .. k |-> IF i < k THEN h[i] ELSE last]
    <3> HIDE DEF last
    <3>3. g = [i \in 0 .. k |-> g[i]] /\ g[k] = last
      BY <2>2, <2>4
    <3>4. \A i \in 0 .. k - 1 : g[i] = h[i]
      BY <2>2
    <3> HIDE DEF g
    <3>5. Scans(g, rows, width, k)
      <4> SUFFICES ASSUME NEW i \in 0 .. k
                   PROVE  g[i] = IF i = 0 THEN [result |-> <<>>, bucket |-> <<>>]
                                 ELSE Bucketed(g[i - 1], rows[i], width)
        BY DEF Scans
      <4>1. CASE i = k
        <5>1. g[k - 1] = h[k - 1]
          BY <2>2, <2>4, <3>4
        <5> QED  BY <2>4, <3>3, <4>1, <5>1 DEF last
      <4>2. CASE i # k
        <5>1. i \in 0 .. k - 1 /\ g[i] = h[i]
          BY <2>2, <3>4, <4>2
        <5>2. i # 0 => g[i - 1] = h[i - 1]
          BY <2>2, <3>4, <5>1
        <5> QED  BY <3>2, <5>1, <5>2 DEF Scans
      <4> QED  BY <4>1, <4>2
    <3>6. \E u : u = [i \in 0 .. k |-> u[i]] /\ Scans(u, rows, width, k)
      BY <3>3, <3>5
    <3> QED  BY <3>6
  <2> QED  BY <2>3, <2>4
<1> QED  BY <1>1

LEMMA ScanDef ==
    ASSUME NEW D, NEW rows \in Seq(D), NEW width
    PROVE  \E g : Scans(g, rows, width, Len(rows)) /\ Scan(rows, width) = g[Len(rows)]
PROOF
<1> DEFINE n == Len(rows)
           Rec(g) == g = [i \in 0 .. n |->
                            IF i = 0 THEN [result |-> <<>>, bucket |-> <<>>]
                            ELSE Bucketed(g[i - 1], rows[i], width)]
           pass == CHOOSE g : Rec(g)
<1>1. n \in Nat  BY LenProperties
<1>2. PICK g : g = [i \in 0 .. n |-> g[i]] /\ Scans(g, rows, width, n)
  BY <1>1, ScanExists
<1>3. Rec(g)  BY <1>2, Zenon DEF Scans
<1>4. Rec(pass)
  <2> HIDE DEF Rec
  <2> QED  BY <1>3, Zenon
<1>5. Scans(pass, rows, width, n)
  <2> HIDE DEF pass, n
  <2> QED BY <1>4 DEF Scans
<1>6. Scan(rows, width) = pass[n]  BY Zenon DEF Scan
<1> HIDE DEF pass, n
<1>7. Scans(pass, rows, width, Len(rows)) /\ Scan(rows, width) = pass[Len(rows)]
  BY <1>5, <1>6 DEF n
<1> QED  BY <1>7

LEMMA ScanEmpty == ASSUME NEW width PROVE Scan(<<>>, width) = [result |-> <<>>, bucket |-> <<>>]
PROOF
<1>1. <<>> \in Seq({}) /\ Len(<<>>) = 0  OBVIOUS
<1>2. PICK g : Scans(g, <<>>, width, Len(<<>>)) /\ Scan(<<>>, width) = g[Len(<<>>)]
  BY <1>1, ScanDef
<1> QED  BY <1>1, <1>2 DEF Scans

\* One row more.
LEMMA ScanMore ==
    ASSUME NEW D, NEW s \in Seq(D), NEW x \in D, NEW width
    PROVE  Scan(Append(s, x), width) = Bucketed(Scan(s, width), x, width)
PROOF
<1> DEFINE sx == Append(s, x)
           n == Len(s)
<1>1. /\ sx \in Seq(D) /\ n \in Nat /\ Len(sx) = n + 1
      /\ \A i \in 1 .. n : sx[i] = s[i]
      /\ sx[n + 1] = x
  BY AppendProperties, LenProperties
<1>2. PICK g : Scans(g, s, width, n) /\ Scan(s, width) = g[n]
  BY ScanDef
<1>3. PICK h : Scans(h, sx, width, n + 1) /\ Scan(sx, width) = h[n + 1]
  <2> HIDE DEF sx, n
  <2> QED  BY <1>1, ScanDef
<1> HIDE DEF sx, n
<1> DEFINE Wrong == {i \in 0 .. n : h[i] # g[i]}
<1>4. ASSUME Wrong # {} PROVE FALSE
  <2>1. PICK k \in Wrong : \A j \in Wrong : k <= j
    <3>1. Wrong \subseteq Nat  BY <1>1
    <3> HIDE DEF Wrong
    <3> QED  BY <1>4, <3>1, LeastOf
  <2>2. k \in 0 .. n /\ h[k] # g[k]  OBVIOUS
  <2>3. k # 0
    BY <1>1, <1>2, <1>3, <2>2 DEF Scans
  <2>4. k - 1 \in 0 .. n /\ k - 1 \notin Wrong
    <3> HIDE DEF Wrong
    <3> QED  BY <1>1, <2>1, <2>2, <2>3
  <2>5. h[k - 1] = g[k - 1] /\ sx[k] = s[k]
    BY <1>1, <2>2, <2>3, <2>4
  <2>6. h[k] = Bucketed(h[k - 1], sx[k], width)
    <3>1. k \in 0 .. n + 1  BY <1>1, <2>2
    <3> QED  BY <1>3, <2>3, <3>1 DEF Scans
  <2>7. g[k] = Bucketed(g[k - 1], s[k], width)
    BY <1>2, <2>2, <2>3 DEF Scans
  <2> QED  BY <2>2, <2>5, <2>6, <2>7
<1>5. h[n] = g[n]
  BY <1>1, <1>4
<1>6. h[n + 1] = Bucketed(h[n], sx[n + 1], width)
  <2>1. n + 1 \in 0 .. n + 1 /\ n + 1 # 0 /\ (n + 1) - 1 = n  BY <1>1
  <2> QED  BY <1>3, <2>1 DEF Scans
<1> QED  BY <1>1, <1>2, <1>3, <1>5, <1>6 DEF sx

----------------------------------------------------------------------------
(* Minute bars: buckets.                                                   *)

\* A minute is in the bucket that starts at its Start, and in no other.
LEMMA StartFacts ==
    ASSUME NEW w \in Nat \ {0}, NEW m \in Nat
    PROVE  /\ Start(m, w) \in Nat /\ Start(m, w) <= m /\ m < Start(m, w) + w
           /\ Start(m, w) = w * (m \div w) /\ m \div w \in Nat
PROOF
<1> DEFINE q == m \div w
           r == m % w
           p == w * q
<1>1. m = w * q + r /\ q \in Nat /\ r \in 0 .. w - 1
  OBVIOUS
<1>2. \A x, y \in Nat : x * y = y * x /\ x * y \in Nat
  OBVIOUS
<1>3. q * w = p /\ p \in Nat
  BY <1>1, <1>2
<1>4. Start(m, w) = p
  BY <1>3 DEF Start
<1>5. m = p + r /\ r \in 0 .. w - 1 /\ p \in Nat
  BY <1>1, <1>3
<1> HIDE DEF p, q, r
<1>6. p <= m /\ m < p + w
  BY <1>5
<1> QED  BY <1>1, <1>4, <1>5, <1>6 DEF p, q

LEMMA SameBucket ==
    ASSUME NEW w \in Nat \ {0}, NEW m \in Nat, NEW k \in Nat
    PROVE  /\ InBucket(k, Start(m, w), w) <=> Start(k, w) = Start(m, w)
           /\ m <= k => Start(m, w) <= Start(k, w)
PROOF
<1> DEFINE a == Start(m, w)
           b == Start(k, w)
           x == m \div w
           y == k \div w
<1>1. a \in Nat /\ a <= m /\ m < a + w /\ a = w * x /\ x \in Nat
  BY StartFacts
<1>2. b \in Nat /\ b <= k /\ k < b + w /\ b = w * y /\ y \in Nat
  BY StartFacts
<1> HIDE DEF a, b, x, y
\* The starts of two buckets are at least the width apart.
<1>3. x < y => a + w <= b
  <2>1. ASSUME x < y  PROVE a + w <= b
    <3>1. x + 1 <= y /\ x + 1 \in Int /\ y \in Int /\ w \in Nat
      BY <1>1, <1>2, <2>1
    <3>2. (x + 1) * w <= y * w
      BY <3>1, TimesMonotone
    <3>3. (x + 1) * w = x * w + w /\ x * w = w * x /\ y * w = w * y
      BY <1>1, <1>2
    <3> QED  BY <1>1, <1>2, <3>2, <3>3
  <2> QED  BY <2>1
<1>4. y < x => b + w <= a
  <2>1. ASSUME y < x  PROVE b + w <= a
    <3>1. y + 1 <= x /\ y + 1 \in Int /\ x \in Int /\ w \in Nat
      BY <1>1, <1>2, <2>1
    <3>2. (y + 1) * w <= x * w
      BY <3>1, TimesMonotone
    <3>3. (y + 1) * w = y * w + w /\ x * w = w * x /\ y * w = w * y
      BY <1>1, <1>2
    <3> QED  BY <1>1, <1>2, <3>2, <3>3
  <2> QED  BY <2>1
<1>5. x = y => a = b
  BY <1>1, <1>2
<1>6. x < y \/ y < x \/ x = y
  BY <1>1, <1>2
<1>7. InBucket(k, a, w) <=> (a <= k /\ k < a + w)
  BY DEF InBucket
<1>8. a \in Nat /\ a <= m /\ m < a + w /\ b \in Nat /\ b <= k /\ k < b + w
  BY <1>1, <1>2
<1>9. a + w <= b \/ b + w <= a \/ a = b
  BY <1>3, <1>4, <1>5, <1>6
<1>10. (a <= k /\ k < a + w) <=> b = a
  BY <1>8, <1>9
<1>11. m <= k => a <= b
  BY <1>8, <1>9
<1> QED  BY <1>7, <1>10, <1>11 DEF a, b

\* The bar of trades that come after others.
LEMMA BarOfJoined ==
    ASSUME NEW m, NEW s \in Seq(Nat), s # <<>>, NEW t \in Seq(Nat), t # <<>>, NEW k,
           NEW x, NEW y
    PROVE  /\ s \o t \in Seq(Nat) /\ s \o t # <<>>
           /\ BarOf(m, s \o t, x + y) =
                [minute |-> m, open |-> BarOf(m, s, x).open,
                 high |-> Larger(BarOf(m, s, x).high, BarOf(k, t, y).high),
                 low |-> Smaller(BarOf(m, s, x).low, BarOf(k, t, y).low),
                 close |-> BarOf(k, t, y).close,
                 volume |-> BarOf(m, s, x).volume + BarOf(k, t, y).volume]
PROOF
<1> DEFINE u == s \o t
           hs == Max(ToSet(s))
           ht == Max(ToSet(t))
           ls == Min(ToSet(s))
           lt == Min(ToSet(t))
<1>1. /\ ToSet(s) \subseteq Nat /\ hs \in ToSet(s) /\ \A q \in ToSet(s) : q <= hs
      /\ ls \in ToSet(s) /\ \A q \in ToSet(s) : ls <= q
  BY SeqExtremes
<1>2. /\ ToSet(t) \subseteq Nat /\ ht \in ToSet(t) /\ \A q \in ToSet(t) : q <= ht
      /\ lt \in ToSet(t) /\ \A q \in ToSet(t) : lt <= q
  BY SeqExtremes
<1>3. /\ u \in Seq(Nat) /\ Len(u) = Len(s) + Len(t) /\ Len(s) \in Nat \ {0} /\ Len(t) \in Nat \ {0}
      /\ \A i \in 1 .. Len(s) : u[i] = s[i]
      /\ \A i \in 1 .. Len(t) : u[Len(s) + i] = t[i]
  OBVIOUS
<1>4. ToSet(u) = ToSet(s) \union ToSet(t)
  <2>1. DOMAIN s = 1 .. Len(s) /\ DOMAIN t = 1 .. Len(t) /\ DOMAIN u = 1 .. Len(u)
    BY <1>3
  <2> HIDE DEF u
  <2>2. ASSUME NEW i \in DOMAIN u  PROVE u[i] \in ToSet(s) \union ToSet(t)
    <3>1. CASE i <= Len(s)
      <4>1. i \in 1 .. Len(s) /\ u[i] = s[i]
        BY <1>3, <2>1, <3>1
      <4> QED  BY <2>1, <4>1 DEF ToSet
    <3>2. CASE ~(i <= Len(s))
      <4>3. \A a, c \in Nat : \A j \in 1 .. a + c : ~(j <= a) => j - a \in 1 .. c /\ a + (j - a) = j
        OBVIOUS
      <4>1. i - Len(s) \in 1 .. Len(t) /\ Len(s) + (i - Len(s)) = i
        <5>1. i \in 1 .. Len(s) + Len(t) /\ Len(s) \in Nat /\ Len(t) \in Nat
          BY <1>3, <2>1
        <5> QED  BY <3>2, <4>3, <5>1, Zenon
      <4>2. u[i] = t[i - Len(s)]
        BY <1>3, <4>1
      <4> QED  BY <2>1, <4>1, <4>2 DEF ToSet
    <3> QED  BY <3>1, <3>2
  <2>3. ASSUME NEW i \in DOMAIN s  PROVE s[i] \in ToSet(u)
    <3>1. i \in DOMAIN u /\ u[i] = s[i]
      BY <1>3, <2>1
    <3> QED  BY <3>1 DEF ToSet
  <2>4. ASSUME NEW i \in DOMAIN t  PROVE t[i] \in ToSet(u)
    <3>1. Len(s) + i \in DOMAIN u /\ u[Len(s) + i] = t[i]
      BY <1>3, <2>1
    <3> QED  BY <3>1 DEF ToSet
  <2> QED  BY <2>2, <2>3, <2>4 DEF ToSet
<1>5. u # <<>> /\ u[1] = s[1] /\ Last(u) = Last(t)
  <2> DEFINE a == Len(s)
             c == Len(t)
  <2>1. /\ Len(u) = a + c /\ a \in Nat \ {0} /\ c \in Nat \ {0}
        /\ \A i \in 1 .. a : u[i] = s[i]
        /\ \A i \in 1 .. c : u[a + i] = t[i]
    BY <1>3
  <2> HIDE DEF u, a, c
  <2>2. 1 \in 1 .. a /\ c \in 1 .. c /\ Len(u) # 0
    BY <2>1
  <2>3. u[1] = s[1] /\ u[a + c] = t[c]
    BY <2>1, <2>2
  <2>4. Last(u) = Last(t)
    BY <2>1, <2>3 DEF Last, c
  <2>5. u # <<>>
    BY <2>2
  <2> QED  BY <2>3, <2>4, <2>5
<1> HIDE DEF u, hs, ht, ls, lt
<1>6. hs \in Nat /\ ht \in Nat /\ ls \in Nat /\ lt \in Nat /\ ToSet(u) \subseteq Nat
  BY <1>1, <1>2, <1>4
<1>7. Max(ToSet(u)) = Larger(hs, ht)
  <2> DEFINE z == Larger(hs, ht)
  <2>1. z \in Nat /\ z \in {hs, ht} /\ hs <= z /\ ht <= z
    BY <1>6, LargerSmaller
  <2> HIDE DEF z
  <2>2. z \in ToSet(u)
    BY <1>1, <1>2, <1>4, <2>1
  <2>3. \A q \in ToSet(u) : q <= z
    BY <1>1, <1>2, <1>4, <1>6, <2>1
  <2>4. Max(ToSet(u)) = z
    BY <1>6, <2>2, <2>3, MaxIs
  <2> QED  BY <2>4 DEF z
<1>8. Min(ToSet(u)) = Smaller(ls, lt)
  <2> DEFINE z == Smaller(ls, lt)
  <2>1. z \in Nat /\ z \in {ls, lt} /\ z <= ls /\ z <= lt
    BY <1>6, LargerSmaller
  <2> HIDE DEF z
  <2>2. z \in ToSet(u)
    BY <1>1, <1>2, <1>4, <2>1
  <2>3. \A q \in ToSet(u) : z <= q
    BY <1>1, <1>2, <1>4, <1>6, <2>1
  <2>4. Min(ToSet(u)) = z
    BY <1>6, <2>2, <2>3, MinIs
  <2> QED  BY <2>4 DEF z
<1>9. /\ BarOf(m, s, x).open = s[1] /\ BarOf(m, s, x).high = hs /\ BarOf(m, s, x).low = ls
      /\ BarOf(m, s, x).volume = x
      /\ BarOf(k, t, y).high = ht /\ BarOf(k, t, y).low = lt
      /\ BarOf(k, t, y).close = Last(t) /\ BarOf(k, t, y).volume = y
  BY DEF BarOf, hs, ht, ls, lt
<1>10. BarOf(m, u, x + y) = [minute |-> m, open |-> s[1], high |-> Larger(hs, ht), low |-> Smaller(ls, lt),
                      close |-> Last(t), volume |-> x + y]
  BY <1>3, <1>5, <1>7, <1>8, Zenon DEF BarOf
<1>11. BarOf(m, u, x + y) =
         [minute |-> m, open |-> BarOf(m, s, x).open,
          high |-> Larger(BarOf(m, s, x).high, BarOf(k, t, y).high),
          low |-> Smaller(BarOf(m, s, x).low, BarOf(k, t, y).low),
          close |-> BarOf(k, t, y).close,
          volume |-> BarOf(m, s, x).volume + BarOf(k, t, y).volume]
  BY <1>9, <1>10, Zenon
<1> QED  BY <1>3, <1>5, <1>11 DEF u

\* The bars of a bucket with the highest and the lowest of their numbers.
LEMMA BucketExtremes ==
    ASSUME NEW s \in Seq(Bars), s # <<>>
    PROVE  LET hs == {s[i].high : i \in DOMAIN s}
               ls == {s[i].low : i \in DOMAIN s}
           IN  /\ hs \subseteq Nat /\ Max(hs) \in hs /\ \A x \in hs : x <= Max(hs)
               /\ ls \subseteq Nat /\ Min(ls) \in ls /\ \A x \in ls : Min(ls) <= x
PROOF
<1>1. Len(s) \in Nat /\ Len(s) # 0 /\ DOMAIN s = 1 .. Len(s) /\ \A i \in 1 .. Len(s) : s[i] \in Bars
  OBVIOUS
<1>2. \A b \in Bars : b.high \in Nat /\ b.low \in Nat
  BY DEF Bars
<1> DEFINE n == Len(s)
           h == [i \in 1 .. n |-> s[i].high]
           l == [i \in 1 .. n |-> s[i].low]
<1>3. h \in [1 .. n -> Nat] /\ l \in [1 .. n -> Nat]
  BY <1>1, <1>2
<1>4. ToSet(h) = {s[i].high : i \in DOMAIN s} /\ ToSet(l) = {s[i].low : i \in DOMAIN s}
  BY <1>1 DEF ToSet
<1> HIDE DEF n, h, l
<1>5. n \in Nat /\ n # 0
  BY <1>1 DEF n
<1>6. h \in Seq(Nat) /\ Len(h) = n /\ l \in Seq(Nat) /\ Len(l) = n
  BY <1>3, <1>5, FunctionIsSeq
<1>7. h # <<>> /\ l # <<>>
  BY <1>5, <1>6
<1>8. /\ ToSet(h) \subseteq Nat /\ Max(ToSet(h)) \in ToSet(h) /\ \A x \in ToSet(h) : x <= Max(ToSet(h))
      /\ ToSet(l) \subseteq Nat /\ Min(ToSet(l)) \in ToSet(l) /\ \A x \in ToSet(l) : Min(ToSet(l)) <= x
  BY <1>6, <1>7, SeqExtremes
<1> QED  BY <1>4, <1>8

LEMMA VolumeMore ==
    ASSUME NEW s \in Seq(Bars), NEW b \in Bars
    PROVE  /\ VolumeOf(Append(s, b)) = b.volume + VolumeOf(s)
           /\ VolumeOf(<<>>) = 0
PROOF
<1>1. /\ Append(s, b) \in Seq(Bars) /\ Len(s) \in Nat /\ Len(Append(s, b)) = Len(s) + 1
      /\ \A i \in 1 .. Len(s) : Append(s, b)[i] = s[i] /\ s[i] \in Bars
      /\ Append(s, b)[Len(s) + 1] = b
  BY AppendProperties, LenProperties
<1>2. \A x \in Bars : x.volume \in Int
  BY DEF Bars
<1> DEFINE u == Append(s, b)
           n == Len(s)
           v == [i \in DOMAIN s |-> s[i].volume]
           w == [i \in DOMAIN u |-> u[i].volume]
<1>3. DOMAIN s = 1 .. n /\ DOMAIN u = 1 .. n + 1 /\ n \in Nat
  BY <1>1
<1>4. \A i \in 1 .. n : v[i] = s[i].volume /\ w[i] = s[i].volume /\ v[i] \in Int
  BY <1>1, <1>2, <1>3
<1>5. w[n + 1] = b.volume /\ b.volume \in Int
  BY <1>1, <1>2, <1>3
<1>6. VolumeOf(s) = SumOver(v, 1 .. n) /\ VolumeOf(u) = SumOver(w, 1 .. n + 1)
  BY <1>3, Zenon DEF VolumeOf
<1> HIDE DEF v, w, n, u
<1>7. IsFiniteSet(1 .. n)
  BY <1>3, FS_Interval
<1>8. 1 .. n + 1 = (1 .. n) \union {n + 1} /\ n + 1 \notin 1 .. n
  BY <1>3
<1>9. SumOver(w, (1 .. n) \union {n + 1}) = w[n + 1] + SumOver(w, 1 .. n)
  BY <1>4, <1>5, <1>7, <1>8, SumAdd
<1>10. SumOver(w, 1 .. n) = SumOver(v, 1 .. n)
  <2>1. \A i \in 1 .. n : w[i] = v[i]
    BY <1>4
  <2> QED  BY <1>7, <2>1, SumSame
<1>11. VolumeOf(<<>>) = 0
  <2>1. DOMAIN <<>> = {}
    OBVIOUS
  <2> QED  BY <2>1, SumEmpty DEF VolumeOf
<1>12. VolumeOf(u) = b.volume + VolumeOf(s)
  BY <1>5, <1>6, <1>8, <1>9, <1>10, Zenon
<1> QED  BY <1>11, <1>12 DEF u

LEMMA MergeOne ==
    ASSUME NEW b \in Bars, NEW w
    PROVE  Merge(<<b>>, w) = [b EXCEPT !.minute = Start(b.minute, w)]
PROOF
<1>1. <<b>>[1] = b /\ Last(<<b>>) = b /\ DOMAIN <<b>> = {1}
  BY DEF Last
<1>2. {<<b>>[i].high : i \in DOMAIN <<b>>} = {b.high} /\ {<<b>>[i].low : i \in DOMAIN <<b>>} = {b.low}
  BY <1>1
<1>3. b.high \in Nat /\ b.low \in Nat /\ b.volume \in Nat
  BY DEF Bars
<1>4. Max({b.high}) = b.high /\ Min({b.low}) = b.low
  BY <1>3, MaxIs, MinIs
<1>5. VolumeOf(<<b>>) = b.volume
  <2>1. <<>> \in Seq(Bars) /\ Append(<<>>, b) = <<b>>
    OBVIOUS
  <2>2. VolumeOf(<<b>>) = b.volume + 0
    BY <2>1, VolumeMore
  <2> QED  BY <1>3, <2>2
<1>6. Merge(<<b>>, w) = [minute |-> Start(b.minute, w), open |-> b.open, high |-> b.high,
                         low |-> b.low, close |-> b.close, volume |-> b.volume]
  BY <1>1, <1>2, <1>4, <1>5, Zenon DEF Merge
<1> DEFINE f == Start(b.minute, w)
<1> HIDE DEF f
<1>7. [b EXCEPT !.minute = f] = [minute |-> f, open |-> b.open, high |-> b.high,
                                 low |-> b.low, close |-> b.close, volume |-> b.volume]
  <2>1. b = [minute |-> b.minute, open |-> b.open, high |-> b.high, low |-> b.low,
             close |-> b.close, volume |-> b.volume]
    BY DEF Bars
  <2> QED  BY <2>1
<1> QED  BY <1>6, <1>7 DEF f

\* One bar more in the bucket.
LEMMA MergeMore ==
    ASSUME NEW s \in Seq(Bars), s # <<>>, NEW b \in Bars, NEW w
    PROVE  Merge(Append(s, b), w) =
             [minute |-> Merge(s, w).minute, open |-> Merge(s, w).open,
              high |-> Larger(Merge(s, w).high, b.high),
              low |-> Smaller(Merge(s, w).low, b.low),
              close |-> b.close, volume |-> Merge(s, w).volume + b.volume]
PROOF
<1> DEFINE u == Append(s, b)
           n == Len(s)
           hs == {s[i].high : i \in DOMAIN s}
           hu == {u[i].high : i \in DOMAIN u}
           ls == {s[i].low : i \in DOMAIN s}
           lu == {u[i].low : i \in DOMAIN u}
<1>1. /\ hs \subseteq Nat /\ Max(hs) \in hs /\ \A x \in hs : x <= Max(hs)
      /\ ls \subseteq Nat /\ Min(ls) \in ls /\ \A x \in ls : Min(ls) <= x
  BY BucketExtremes
<1>2. /\ u \in Seq(Bars) /\ n \in Nat /\ Len(u) = n + 1 /\ DOMAIN s = 1 .. n /\ DOMAIN u = 1 .. n + 1
      /\ \A i \in 1 .. n : u[i] = s[i]
      /\ u[n + 1] = b
  BY AppendProperties, LenProperties
<1>3. n # 0
  BY EmptySeq
<1>4. hu = hs \union {b.high} /\ lu = ls \union {b.low}
  <2> HIDE DEF u, n
  <2>1. \A i : i \in DOMAIN u <=> (i \in DOMAIN s \/ i = n + 1)
    BY <1>2
  <2>2. \A i \in DOMAIN s : u[i] = s[i]
    BY <1>2
  <2> QED  BY <1>2, <2>1, <2>2
<1>5. b.high \in Nat /\ b.low \in Nat /\ b.volume \in Nat
  BY DEF Bars
<1>6. u[1] = s[1] /\ Last(u) = b
  <2> HIDE DEF u, n
  <2>1. 1 \in 1 .. n
    BY <1>2, <1>3
  <2> QED  BY <1>2, <2>1 DEF Last
<1>7. VolumeOf(u) = b.volume + VolumeOf(s)
  BY VolumeMore
<1> HIDE DEF u, n, hs, hu, ls, lu
<1>8. Max(hs) \in Nat /\ Min(ls) \in Nat /\ hu \subseteq Nat /\ lu \subseteq Nat
  BY <1>1, <1>4, <1>5
<1>9. Max(hu) = Larger(Max(hs), b.high)
  <2> DEFINE y == Max(hs)
             x == Larger(y, b.high)
  <2>0. y \in Nat /\ y \in hs /\ \A z \in hs : z <= y
    BY <1>1, <1>8
  <2>1. x \in Nat /\ x \in {y, b.high} /\ y <= x /\ b.high <= x
    BY <1>5, <1>8, LargerSmaller
  <2> HIDE DEF x, y
  <2>2. x \in hu
    BY <1>4, <2>0, <2>1
  <2>3. \A z \in hu : z <= x
    BY <1>1, <1>4, <1>5, <2>0, <2>1
  <2>4. Max(hu) = x
    BY <1>8, <2>2, <2>3, MaxIs
  <2> QED  BY <2>4 DEF x, y
<1>10. Min(lu) = Smaller(Min(ls), b.low)
  <2> DEFINE y == Min(ls)
             x == Smaller(y, b.low)
  <2>0. y \in Nat /\ y \in ls /\ \A z \in ls : y <= z
    BY <1>1, <1>8
  <2>1. x \in Nat /\ x \in {y, b.low} /\ x <= y /\ x <= b.low
    BY <1>5, <1>8, LargerSmaller
  <2> HIDE DEF x, y
  <2>2. x \in lu
    BY <1>4, <2>0, <2>1
  <2>3. \A z \in lu : x <= z
    BY <1>1, <1>4, <1>5, <2>0, <2>1
  <2>4. Min(lu) = x
    BY <1>8, <2>2, <2>3, MinIs
  <2> QED  BY <2>4 DEF x, y
<1>11. Merge(u, w) = [minute |-> Start(s[1].minute, w), open |-> s[1].open,
                      high |-> Larger(Max(hs), b.high), low |-> Smaller(Min(ls), b.low),
                      close |-> b.close, volume |-> b.volume + VolumeOf(s)]
  BY <1>6, <1>7, <1>9, <1>10, Zenon DEF Merge, hu, lu
<1>12. /\ Merge(s, w).minute = Start(s[1].minute, w) /\ Merge(s, w).open = s[1].open
       /\ Merge(s, w).high = Max(hs) /\ Merge(s, w).low = Min(ls) /\ Merge(s, w).volume = VolumeOf(s)
  BY DEF Merge, hs, ls
<1>13. VolumeOf(s) \in Int
  <2>1. \A x \in Bars : x.volume \in Int
    BY DEF Bars
  <2> DEFINE v == [i \in DOMAIN s |-> s[i].volume]
  <2>2. \A i \in DOMAIN s : v[i] \in Int
    BY <2>1
  <2>3. IsFiniteSet(DOMAIN s)
    BY <1>2, FS_Interval
  <2> HIDE DEF v
  <2>4. SumOver(v, DOMAIN s) \in Int
    BY <2>2, <2>3, SumInt
  <2> QED  BY <2>4 DEF VolumeOf, v
<1>14. b.volume + VolumeOf(s) = VolumeOf(s) + b.volume
  BY <1>5, <1>13
<1> QED  BY <1>11, <1>12, <1>14, Zenon DEF u

----------------------------------------------------------------------------
(* Minute bars: the pass over the rows.                                    *)

\* The rows, the prices and the volumes of the minutes before n, and the pass over those rows.
StoredBefore(n) == {m \in 0 .. n - 1 : store[m] # NoBar}
TradesBefore(first, width, n) ==
    FlattenSeq([i \in 1 .. n |-> IF InBucket(i - 1, first, width) THEN arrived[i - 1] ELSE <<>>])
VolumesBefore(first, width, n) ==
    SumOver(volumes, {m \in 0 .. n - 1 : InBucket(m, first, width)})
PassBefore(width, n) == Scan(Without([i \in 1 .. n |-> store[i - 1]], {NoBar}), width)

\* What the pass needs to know of the store.
RowsAreTrue ==
    /\ LastMinute \in Nat
    /\ \A m \in 0 .. LastMinute :
          /\ store[m] \in Bars /\ arrived[m] \in Seq(Nat) /\ volumes[m] \in Nat
          /\ arrived[m] = <<>> => volumes[m] = 0
          /\ store[m] # NoBar => store[m].minute = m /\ arrived[m] # <<>>

FirstOf(bucket, width) == Start(bucket[1].minute, width)
MergedBars(width) == {Merge(s, width) : s \in Seq(Bars) \ {<<>>}}

\* The bars closed so far and the bucket being filled: in the order of time, one for each
\* bucket with a stored bar, and exact if what is stored of their buckets is.
ScanTyped(result, bucket, width, n) ==
    /\ result \in Seq(MergedBars(width)) /\ bucket \in Seq(Bars)
    /\ bucket = <<>> => result = <<>> /\ StoredBefore(n) = {}
ScanInOrder(result, bucket, width) ==
    /\ \A i, j \in DOMAIN result : i < j => result[i].minute < result[j].minute
    /\ bucket # <<>> => \A i \in DOMAIN result : result[i].minute < FirstOf(bucket, width)
ScanComplete(result, bucket, width, n) ==
    bucket # <<>> =>
        {Start(m, width) : m \in StoredBefore(n)} =
            {result[i].minute : i \in DOMAIN result} \union {FirstOf(bucket, width)}
ExactBefore(bar, first, width, n) ==
    BucketIsWhole(first, width) =>
        /\ TradesBefore(first, width, n) # <<>>
        /\ bar = BarOf(first, TradesBefore(first, width, n), VolumesBefore(first, width, n))
ScanExact(result, bucket, width, n) ==
    /\ \A i \in DOMAIN result : ExactBefore(result[i], result[i].minute, width, n)
    /\ bucket # <<>> => ExactBefore(Merge(bucket, width), FirstOf(bucket, width), width, n)

ScanSound(result, bucket, width, n) ==
    /\ ScanTyped(result, bucket, width, n)
    /\ ScanInOrder(result, bucket, width)
    /\ ScanComplete(result, bucket, width, n)
    /\ ScanExact(result, bucket, width, n)

LEMMA TradesMore ==
    ASSUME RowsAreTrue, NEW n \in 0 .. LastMinute, NEW f, NEW w
    PROVE  /\ TradesBefore(f, w, n) \in Seq(Nat)
           /\ TradesBefore(f, w, n + 1) =
                TradesBefore(f, w, n) \o (IF InBucket(n, f, w) THEN arrived[n] ELSE <<>>)
PROOF
<1> DEFINE Of(i) == IF InBucket(i - 1, f, w) THEN arrived[i - 1] ELSE <<>>
           t == [i \in 1 .. n |-> Of(i)]
           u == [i \in 1 .. n + 1 |-> Of(i)]
<1>1. LastMinute \in Nat /\ n \in Nat /\ n <= LastMinute /\ \A m \in 0 .. LastMinute : arrived[m] \in Seq(Nat)
  BY DEF RowsAreTrue
<1>2. \A i \in 1 .. n + 1 : Of(i) \in Seq(Nat)
  <2> SUFFICES ASSUME NEW i \in 1 .. n + 1  PROVE Of(i) \in Seq(Nat)
    OBVIOUS
  <2>1. i - 1 \in 0 .. LastMinute
    BY <1>1
  <2>2. arrived[i - 1] \in Seq(Nat) /\ <<>> \in Seq(Nat)
    BY <1>1, <2>1
  <2> QED  BY <2>2
<1>3. Of(n + 1) = IF InBucket(n, f, w) THEN arrived[n] ELSE <<>>
  <2>1. (n + 1) - 1 = n
    BY <1>1
  <2> QED  BY <2>1
<1>4. TradesBefore(f, w, n) = FlattenSeq(t) /\ TradesBefore(f, w, n + 1) = FlattenSeq(u)
  BY DEF TradesBefore
<1> HIDE DEF Of
<1>5. /\ t \in [1 .. n -> Seq(Nat)] /\ u \in [1 .. n + 1 -> Seq(Nat)] /\ u[n + 1] = Of(n + 1)
      /\ \A i \in 1 .. n : u[i] = t[i]
  BY <1>1, <1>2
<1> HIDE DEF t, u
<1>6. FlattenSeq(u) = FlattenSeq(t) \o u[n + 1]
  BY <1>1, <1>5, FlattenMore
<1>7. FlattenSeq(t) \in Seq(Nat)
  BY <1>1, <1>5, FlattenTyped
<1> QED  BY <1>3, <1>4, <1>5, <1>6, <1>7, Zenon

LEMMA VolumesMore ==
    ASSUME RowsAreTrue, NEW n \in 0 .. LastMinute, NEW f, NEW w
    PROVE  /\ VolumesBefore(f, w, n) \in Int
           /\ InBucket(n, f, w) => VolumesBefore(f, w, n + 1) = VolumesBefore(f, w, n) + volumes[n]
           /\ ~InBucket(n, f, w) => VolumesBefore(f, w, n + 1) = VolumesBefore(f, w, n)
PROOF
<1> DEFINE S == {m \in 0 .. n - 1 : InBucket(m, f, w)}
           T == {m \in 0 .. (n + 1) - 1 : InBucket(m, f, w)}
<1>1. LastMinute \in Nat /\ n \in Nat /\ n <= LastMinute /\ \A m \in 0 .. LastMinute : volumes[m] \in Nat
  BY DEF RowsAreTrue
<1>2. IsFiniteSet(0 .. n - 1) /\ S \subseteq 0 .. n - 1
  BY <1>1, FS_Interval
<1>3. IsFiniteSet(S)
  BY <1>2, FS_Subset
<1>4. n \notin S /\ \A m : m \in 0 .. (n + 1) - 1 <=> m \in 0 .. n - 1 \/ m = n
  BY <1>1
<1>5. (InBucket(n, f, w) => T = S \union {n}) /\ (~InBucket(n, f, w) => T = S)
  BY <1>4
<1>6. (\A m \in S : volumes[m] \in Int) /\ volumes[n] \in Int
  BY <1>1
<1>7. VolumesBefore(f, w, n) = SumOver(volumes, S) /\ VolumesBefore(f, w, n + 1) = SumOver(volumes, T)
  BY Zenon DEF VolumesBefore
<1> HIDE DEF S, T
<1>8. SumOver(volumes, S) \in Int
  BY <1>3, <1>6, SumInt
<1>9. SumOver(volumes, S \union {n}) = volumes[n] + SumOver(volumes, S)
  BY <1>3, <1>4, <1>6, SumAdd
<1>10. volumes[n] + SumOver(volumes, S) = SumOver(volumes, S) + volumes[n]
  BY <1>6, <1>8
<1> QED  BY <1>5, <1>7, <1>8, <1>9, <1>10, Zenon

LEMMA NoTradesBefore == ASSUME NEW f, NEW w PROVE TradesBefore(f, w, 0) = <<>> /\ VolumesBefore(f, w, 0) = 0
PROOF
<1> DEFINE t == [i \in 1 .. 0 |-> IF InBucket(i - 1, f, w) THEN arrived[i - 1] ELSE <<>>]
<1>1. t \in [1 .. 0 -> {<<>>}]
  OBVIOUS
<1> HIDE DEF t
<1>2. FlattenSeq(t) = <<>>
  BY <1>1, FlattenNone
<1>3. {m \in 0 .. 0 - 1 : InBucket(m, f, w)} = {}
  OBVIOUS
<1>4. VolumesBefore(f, w, 0) = 0
  BY <1>3, SumEmpty DEF VolumesBefore
<1> QED  BY <1>2, <1>4 DEF TradesBefore, t

\* A minute with nothing for a bucket.
LEMMA QuietMinute ==
    ASSUME RowsAreTrue, NEW n \in 0 .. LastMinute, NEW f, NEW w,
           ~InBucket(n, f, w) \/ (BucketIsWhole(f, w) /\ store[n] = NoBar)
    PROVE  /\ TradesBefore(f, w, n + 1) = TradesBefore(f, w, n)
           /\ VolumesBefore(f, w, n + 1) = VolumesBefore(f, w, n)
PROOF
<1>1. InBucket(n, f, w) => arrived[n] = <<>>
  BY DEF BucketIsWhole, Minutes
<1> DEFINE more == IF InBucket(n, f, w) THEN arrived[n] ELSE <<>>
           t == TradesBefore(f, w, n)
<1>2. more = <<>>
  BY <1>1, Zenon
<1>3. t \in Seq(Nat) /\ TradesBefore(f, w, n + 1) = t \o more
  BY TradesMore
<1> HIDE DEF t, more
<1>4. t \o <<>> = t
  BY <1>3
<1>5. VolumesBefore(f, w, n + 1) = VolumesBefore(f, w, n)
  <2> DEFINE x == VolumesBefore(f, w, n)
             y == VolumesBefore(f, w, n + 1)
  <2>1. x \in Int /\ (InBucket(n, f, w) => y = x + volumes[n]) /\ (~InBucket(n, f, w) => y = x)
    BY VolumesMore
  <2>2. InBucket(n, f, w) => volumes[n] = 0
    BY <1>1 DEF RowsAreTrue
  <2> HIDE DEF x, y
  <2>3. y = x
    BY <2>1, <2>2
  <2> QED  BY <2>3 DEF x, y
<1> QED  BY <1>2, <1>3, <1>4, <1>5 DEF t

\* Nothing came in a whole bucket of which nothing is stored yet.
LEMMA NewBucket ==
    ASSUME RowsAreTrue, NEW n \in 0 .. LastMinute, NEW f, NEW w, BucketIsWhole(f, w),
           \A m \in StoredBefore(n) : ~InBucket(m, f, w)
    PROVE  TradesBefore(f, w, n) = <<>> /\ VolumesBefore(f, w, n) = 0
PROOF
<1>1. LastMinute \in Nat /\ n \in Nat /\ n <= LastMinute
  BY DEF RowsAreTrue
<1> DEFINE Silence(k) == TradesBefore(f, w, k) = <<>> /\ VolumesBefore(f, w, k) = 0
           Wrong == {k \in Nat : k \in 0 .. n /\ ~Silence(k)}
<1>2. ASSUME Wrong # {} PROVE FALSE
  <2>1. PICK k \in Wrong : \A j \in Wrong : k <= j
    <3> HIDE DEF Wrong
    <3>1. Wrong \subseteq Nat  BY DEF Wrong
    <3> QED  BY <1>2, <3>1, LeastOf
  <2>2. k \in Nat /\ k \in 0 .. n /\ ~Silence(k)
    OBVIOUS
  <2>3. k # 0
    BY <2>2, NoTradesBefore
  <2> DEFINE j == k - 1
  <2>4. j \in Nat /\ j \in 0 .. n /\ j < k /\ j \in 0 .. n - 1 /\ j \in 0 .. LastMinute /\ k = j + 1
    BY <1>1, <2>2, <2>3
  <2>5. j \notin Wrong
    <3> HIDE DEF Wrong, j
    <3> QED  BY <2>1, <2>2, <2>4
  <2> HIDE DEF j
  <2>6. Silence(j)
    BY <2>4, <2>5
  <2>7. ~InBucket(j, f, w) \/ store[j] = NoBar
    BY <2>4 DEF StoredBefore
  <2>8. /\ TradesBefore(f, w, j + 1) = TradesBefore(f, w, j)
        /\ VolumesBefore(f, w, j + 1) = VolumesBefore(f, w, j)
    BY <2>4, <2>7, QuietMinute
  <2> QED  BY <2>2, <2>4, <2>6, <2>8
<1>3. n \in 0 .. n
  BY <1>1
<1> QED  BY <1>1, <1>2, <1>3

\* The pass takes the rows minute by minute.
LEMMA PassMore ==
    ASSUME RowsAreTrue, NEW n \in 0 .. LastMinute, NEW w
    PROVE  PassBefore(w, n + 1) = IF store[n] = NoBar THEN PassBefore(w, n)
                                  ELSE Bucketed(PassBefore(w, n), store[n], w)
PROOF
<1> DEFINE s == [i \in 1 .. n |-> store[i - 1]]
           t == [i \in 1 .. n + 1 |-> store[i - 1]]
<1>1. LastMinute \in Nat /\ n \in Nat /\ n <= LastMinute /\ \A m \in 0 .. LastMinute : store[m] \in Bars
  BY DEF RowsAreTrue
<1>2. \A i \in 1 .. n + 1 : store[i - 1] \in Bars
  <2>1. \A i \in 1 .. n + 1 : i - 1 \in 0 .. LastMinute
    BY <1>1
  <2> QED  BY <1>1, <2>1
<1>3. s \in [1 .. n -> Bars] /\ t \in [1 .. n + 1 -> Bars] /\ t[n + 1] = store[n] /\ store[n] \in Bars
      /\ \A i \in 1 .. n : t[i] = s[i]
  BY <1>1, <1>2
<1>4. PassBefore(w, n) = Scan(Without(s, {NoBar}), w) /\ PassBefore(w, n + 1) = Scan(Without(t, {NoBar}), w)
  BY DEF PassBefore
<1> HIDE DEF s, t
<1>5. s \in Seq(Bars) /\ Len(s) = n /\ t \in Seq(Bars) /\ Len(t) = n + 1
  BY <1>1, <1>3, FunctionIsSeq
<1>6. t = Append(s, store[n])
  <2> DEFINE u == Append(s, store[n])
  <2>1. u \in Seq(Bars) /\ Len(u) = n + 1 /\ (\A i \in 1 .. n : u[i] = s[i]) /\ u[n + 1] = store[n]
    BY <1>3, <1>5, AppendProperties
  <2> HIDE DEF u
  <2>2. \A i \in 1 .. n + 1 : t[i] = u[i]
    BY <1>1, <1>3, <2>1
  <2>3. t = u
    BY <1>5, <2>1, <2>2, SeqEqual
  <2> QED  BY <2>3 DEF u
<1>7. Without(t, {NoBar}) = IF store[n] \in {NoBar} THEN Without(s, {NoBar})
                            ELSE Append(Without(s, {NoBar}), store[n])
  <2> DEFINE x == store[n]
             S == {NoBar}
  <2>1. s \in Seq(Bars) /\ x \in Bars /\ t = Append(s, x)
    BY <1>3, <1>5, <1>6
  <2> HIDE DEF x, S
  <2>2. Without(Append(s, x), S) = IF x \in S THEN Without(s, S) ELSE Append(Without(s, S), x)
    BY <2>1, WithoutAppend
  <2> QED  BY <2>1, <2>2, Zenon DEF x, S
<1>8. Without(s, {NoBar}) \in Seq(Bars)
  BY <1>5, WithoutFacts
<1>9. Scan(Append(Without(s, {NoBar}), store[n]), w) = Bucketed(Scan(Without(s, {NoBar}), w), store[n], w)
  BY <1>3, <1>8, ScanMore
<1>10. CASE store[n] = NoBar
  <2>1. Without(t, {NoBar}) = Without(s, {NoBar})
    BY <1>7, <1>10
  <2> QED  BY <1>4, <1>10, <2>1
<1>11. CASE store[n] # NoBar
  <2>1. Without(t, {NoBar}) = Append(Without(s, {NoBar}), store[n])
    BY <1>7, <1>11
  <2> QED  BY <1>4, <1>9, <1>11, <2>1
<1> QED  BY <1>10, <1>11

LEMMA ExactKept ==
    ASSUME RowsAreTrue, NEW n \in 0 .. LastMinute, NEW bar, NEW f, NEW w, ExactBefore(bar, f, w, n),
           ~InBucket(n, f, w) \/ store[n] = NoBar
    PROVE  ExactBefore(bar, f, w, n + 1)
PROOF
<1>1. SUFFICES ASSUME BucketIsWhole(f, w)
               PROVE  /\ TradesBefore(f, w, n + 1) # <<>>
                      /\ bar = BarOf(f, TradesBefore(f, w, n + 1), VolumesBefore(f, w, n + 1))
  BY Zenon DEF ExactBefore
<1>2. /\ TradesBefore(f, w, n + 1) = TradesBefore(f, w, n)
      /\ VolumesBefore(f, w, n + 1) = VolumesBefore(f, w, n)
  BY <1>1, QuietMinute
<1> QED  BY <1>1, <1>2, Zenon DEF ExactBefore

\* The first bar of a bucket.
LEMMA FirstExact ==
    ASSUME RowsAreTrue, NEW n \in 0 .. LastMinute, NEW w \in Nat \ {0}, store[n] # NoBar,
           \A m \in StoredBefore(n) : ~InBucket(m, Start(n, w), w)
    PROVE  ExactBefore(Merge(<<store[n]>>, w), Start(n, w), w, n + 1)
PROOF
<1> DEFINE f == Start(n, w)
           b == store[n]
           t == arrived[n]
           v == volumes[n]
<1>1. /\ n \in Nat /\ b \in Bars /\ t \in Seq(Nat) /\ b.minute = n /\ t # <<>> /\ v \in Nat
  BY DEF RowsAreTrue
<1>2. InBucket(n, f, w)
  BY <1>1, SameBucket
<1> HIDE DEF f
<1>3. SUFFICES ASSUME BucketIsWhole(f, w)
               PROVE  /\ TradesBefore(f, w, n + 1) # <<>>
                      /\ Merge(<<b>>, w) = BarOf(f, TradesBefore(f, w, n + 1), VolumesBefore(f, w, n + 1))
  BY Zenon DEF ExactBefore, f
<1>4. TradesBefore(f, w, n) = <<>> /\ VolumesBefore(f, w, n) = 0
  BY <1>3, NewBucket DEF f
<1>5. TradesBefore(f, w, n + 1) = t /\ VolumesBefore(f, w, n + 1) = v
  <2>1. TradesBefore(f, w, n + 1) = <<>> \o t
    BY <1>2, <1>4, TradesMore
  <2>2. VolumesBefore(f, w, n + 1) = 0 + v
    BY <1>2, <1>4, VolumesMore
  <2> QED  BY <1>1, <2>1, <2>2
<1>6. b = BarOf(n, t, v)
  BY <1>1, <1>2, <1>3 DEF BucketIsWhole, Whole, Minutes
<1>7. Merge(<<b>>, w) = [b EXCEPT !.minute = f]
  BY <1>1, MergeOne DEF f
<1> HIDE DEF b, t, v
<1>8. [BarOf(n, t, v) EXCEPT !.minute = f] = BarOf(f, t, v)
  BY DEF BarOf
<1> QED  BY <1>1, <1>5, <1>6, <1>7, <1>8, Zenon

\* One bar more of the same bucket.
LEMMA NextExact ==
    ASSUME RowsAreTrue, NEW n \in 0 .. LastMinute, NEW w \in Nat \ {0}, store[n] # NoBar,
           NEW B \in Seq(Bars), B # <<>>, ExactBefore(Merge(B, w), Start(n, w), w, n)
    PROVE  ExactBefore(Merge(Append(B, store[n]), w), Start(n, w), w, n + 1)
PROOF
<1> DEFINE f == Start(n, w)
           b == store[n]
           t == arrived[n]
           v == volumes[n]
           s == TradesBefore(f, w, n)
           u == TradesBefore(f, w, n + 1)
           vs == VolumesBefore(f, w, n)
           vu == VolumesBefore(f, w, n + 1)
<1>1. /\ n \in Nat /\ b \in Bars /\ t \in Seq(Nat) /\ b.minute = n /\ t # <<>>
  BY DEF RowsAreTrue
<1>2. InBucket(n, f, w)
  BY <1>1, SameBucket
<1>3. SUFFICES ASSUME BucketIsWhole(f, w)
               PROVE  u # <<>> /\ Merge(Append(B, b), w) = BarOf(f, u, vu)
  BY Zenon DEF ExactBefore
<1>4. s # <<>> /\ Merge(B, w) = BarOf(f, s, vs)
  BY <1>3, Zenon DEF ExactBefore
<1>5. s \in Seq(Nat) /\ u = s \o t /\ vu = vs + v
  BY <1>2, TradesMore, VolumesMore
<1>6. b = BarOf(n, t, v)
  BY <1>1, <1>2, <1>3 DEF BucketIsWhole, Whole, Minutes
<1>7. Merge(Append(B, b), w) =
        [minute |-> Merge(B, w).minute, open |-> Merge(B, w).open,
         high |-> Larger(Merge(B, w).high, b.high),
         low |-> Smaller(Merge(B, w).low, b.low),
         close |-> b.close, volume |-> Merge(B, w).volume + b.volume]
  BY <1>1, MergeMore
<1> HIDE DEF f, b, t, v, s, u, vs, vu
<1>8. /\ s \o t # <<>>
      /\ BarOf(f, s \o t, vs + v) =
           [minute |-> f, open |-> BarOf(f, s, vs).open,
            high |-> Larger(BarOf(f, s, vs).high, BarOf(n, t, v).high),
            low |-> Smaller(BarOf(f, s, vs).low, BarOf(n, t, v).low),
            close |-> BarOf(n, t, v).close,
            volume |-> BarOf(f, s, vs).volume + BarOf(n, t, v).volume]
  BY <1>1, <1>4, <1>5, BarOfJoined
<1>9. BarOf(f, s, vs).minute = f
  BY DEF BarOf
<1> QED  BY <1>4, <1>5, <1>6, <1>7, <1>8, <1>9, Zenon

\* Where the minutes of closed bars are, and the bucket of a later row.
LEMMA BucketsBefore ==
    ASSUME RowsAreTrue, NEW n \in 0 .. LastMinute, NEW w \in Nat \ {0}, NEW R, NEW B, B # <<>>,
           ScanSound(R, B, w, n)
    PROVE  LET f == FirstOf(B, w)
           IN  /\ f \in Nat /\ f <= Start(n, w)
               /\ \A i \in DOMAIN R : R[i].minute \in Nat /\ R[i].minute < f
               /\ \A m \in StoredBefore(n) : Start(m, w) \in Nat /\ Start(m, w) <= f
PROOF
<1> DEFINE f == FirstOf(B, w)
           T == {Start(m, w) : m \in StoredBefore(n)}
           M == {R[i].minute : i \in DOMAIN R}
<1>1. LastMinute \in Nat /\ n \in Nat
  BY DEF RowsAreTrue
<1>2. T = M \union {f} /\ \A i \in DOMAIN R : R[i].minute < f
  BY Zenon DEF ScanSound, ScanComplete, ScanInOrder
<1>3. \A m \in StoredBefore(n) : m \in Nat /\ m <= n
  BY <1>1 DEF StoredBefore
<1>4. \A m \in StoredBefore(n) : Start(m, w) \in Nat /\ Start(m, w) <= Start(n, w)
  BY <1>1, <1>3, StartFacts, SameBucket
<1>5. \A x \in T : x \in Nat /\ x <= Start(n, w)
  BY <1>4
<1>6. \A i \in DOMAIN R : R[i].minute \in M
  OBVIOUS
<1>7. \A m \in StoredBefore(n) : Start(m, w) \in T
  OBVIOUS
<1>8. \A x \in M : x < f
  BY <1>2
<1> HIDE DEF f, T, M
<1>9. f \in Nat /\ f <= Start(n, w)
  BY <1>2, <1>5
<1>10. \A i \in DOMAIN R : R[i].minute \in Nat /\ R[i].minute < f
  BY <1>2, <1>5, <1>6
<1>11. \A m \in StoredBefore(n) : Start(m, w) \in Nat /\ Start(m, w) <= f
  <2>1. \A x \in T : x \in Nat /\ x <= f
    BY <1>2, <1>5, <1>8, <1>9
  <2> QED  BY <1>7, <2>1
<1> QED  BY <1>9, <1>10, <1>11 DEF f

LEMMA OtherBuckets ==
    ASSUME RowsAreTrue, NEW n \in 0 .. LastMinute, NEW w \in Nat \ {0}, NEW R, NEW B, B # <<>>,
           ScanSound(R, B, w, n)
    PROVE  /\ InBucket(n, FirstOf(B, w), w) => Start(n, w) = FirstOf(B, w)
           /\ \A i \in DOMAIN R : InBucket(n, R[i].minute, w) => Start(n, w) = R[i].minute
PROOF
<1> DEFINE f == FirstOf(B, w)
           T == {Start(m, w) : m \in StoredBefore(n)}
           M == {R[i].minute : i \in DOMAIN R}
<1>1. LastMinute \in Nat /\ n \in Nat
  BY DEF RowsAreTrue
<1>2. T = M \union {f}
  BY Zenon DEF ScanSound, ScanComplete
<1>3. \A m \in StoredBefore(n) : m \in Nat
  BY <1>1 DEF StoredBefore
<1>4. \A x \in T : InBucket(n, x, w) => Start(n, w) = x
  BY <1>1, <1>3, SameBucket
<1>5. \A i \in DOMAIN R : R[i].minute \in M
  OBVIOUS
<1> HIDE DEF f, T, M
<1>6. InBucket(n, f, w) => Start(n, w) = f
  BY <1>2, <1>4
<1>7. \A i \in DOMAIN R : InBucket(n, R[i].minute, w) => Start(n, w) = R[i].minute
  BY <1>2, <1>4, <1>5
<1> QED  BY <1>6, <1>7 DEF f

LEMMA StoredMore ==
    ASSUME RowsAreTrue, NEW n \in 0 .. LastMinute
    PROVE  StoredBefore(n + 1) = StoredBefore(n) \union (IF store[n] = NoBar THEN {} ELSE {n})
PROOF
<1>1. n \in Nat /\ (n + 1) - 1 = n /\ 0 .. n = (0 .. n - 1) \union {n}
  BY DEF RowsAreTrue
<1> QED  BY <1>1 DEF StoredBefore

LEMMA ScanQuiet ==
    ASSUME RowsAreTrue, NEW n \in 0 .. LastMinute, NEW w, NEW R, NEW B, ScanSound(R, B, w, n), store[n] = NoBar
    PROVE  ScanSound(R, B, w, n + 1)
PROOF
<1>1. StoredBefore(n + 1) = StoredBefore(n)
  BY StoredMore
<1>2. \A bar, f : ExactBefore(bar, f, w, n) => ExactBefore(bar, f, w, n + 1)
  BY ExactKept
<1>3. ScanTyped(R, B, w, n) /\ ScanInOrder(R, B, w) /\ ScanComplete(R, B, w, n) /\ ScanExact(R, B, w, n)
  BY Zenon DEF ScanSound
<1>4. ScanTyped(R, B, w, n + 1)
  BY <1>1, <1>3, Zenon DEF ScanTyped
<1>5. ScanComplete(R, B, w, n + 1)
  BY <1>1, <1>3, Zenon DEF ScanComplete
<1>6. ScanExact(R, B, w, n + 1)
  BY <1>2, <1>3, Zenon DEF ScanExact
<1> QED  BY <1>3, <1>4, <1>5, <1>6, Zenon DEF ScanSound

\* The first row of all.
LEMMA ScanOpens ==
    ASSUME RowsAreTrue, NEW n \in 0 .. LastMinute, NEW w \in Nat \ {0}, NEW R, ScanSound(R, <<>>, w, n),
           store[n] # NoBar
    PROVE  ScanSound(R, <<store[n]>>, w, n + 1)
PROOF
<1> DEFINE b == store[n]
           f == Start(n, w)
           B == <<b>>
<1>1. R = <<>> /\ StoredBefore(n) = {} /\ R \in Seq(MergedBars(w))
  BY Zenon DEF ScanSound, ScanTyped
<1>2. b \in Bars /\ b.minute = n
  BY DEF RowsAreTrue
<1>3. ExactBefore(Merge(B, w), f, w, n + 1)
  BY <1>1, FirstExact
<1>4. StoredBefore(n + 1) = {n}
  BY <1>1, StoredMore
<1>5. B \in Seq(Bars) /\ B # <<>> /\ B[1] = b
  BY <1>2
<1>6. FirstOf(B, w) = f
  BY <1>2, <1>5 DEF FirstOf
<1>7. DOMAIN R = {}
  BY <1>1
<1> HIDE DEF b, f, B
<1>8. ScanTyped(R, B, w, n + 1)
  BY <1>1, <1>5, Zenon DEF ScanTyped
<1>9. ScanInOrder(R, B, w)
  BY <1>7 DEF ScanInOrder
<1>10. {Start(m, w) : m \in StoredBefore(n + 1)} = {R[i].minute : i \in DOMAIN R} \union {FirstOf(B, w)}
  BY <1>4, <1>6, <1>7 DEF f
<1>11. ScanComplete(R, B, w, n + 1)
  BY <1>10, Zenon DEF ScanComplete
<1>12. ScanExact(R, B, w, n + 1)
  BY <1>3, <1>6, <1>7 DEF ScanExact
<1> QED  BY <1>8, <1>9, <1>11, <1>12 DEF ScanSound, B, b

\* A row of the bucket that is being filled.
LEMMA ScanJoins ==
    ASSUME RowsAreTrue, NEW n \in 0 .. LastMinute, NEW w \in Nat \ {0}, NEW R, NEW B, B # <<>>,
           ScanSound(R, B, w, n), store[n] # NoBar, Start(n, w) = FirstOf(B, w)
    PROVE  ScanSound(R, Append(B, store[n]), w, n + 1)
PROOF
<1> DEFINE b == store[n]
           f == FirstOf(B, w)
           C == Append(B, b)
<1>1. R \in Seq(MergedBars(w)) /\ B \in Seq(Bars)
  BY Zenon DEF ScanSound, ScanTyped
<1>2. b \in Bars
  BY DEF RowsAreTrue
<1>3. C \in Seq(Bars) /\ C # <<>> /\ C[1] = B[1]
  <2>1. Len(B) \in Nat /\ Len(B) # 0
    BY <1>1, EmptySeq, LenProperties
  <2>2. 1 \in 1 .. Len(B)
    BY <2>1
  <2>3. C \in Seq(Bars) /\ Len(C) = Len(B) + 1 /\ \A i \in 1 .. Len(B) : C[i] = B[i]
    BY <1>1, <1>2, AppendProperties
  <2>4. C # <<>>
    BY <1>1, <1>2, AppendFacts
  <2> QED  BY <2>2, <2>3, <2>4
<1>4. FirstOf(C, w) = f
  BY <1>3 DEF FirstOf
<1>5. ScanInOrder(R, B, w) /\ ScanComplete(R, B, w, n) /\ ScanExact(R, B, w, n)
  BY Zenon DEF ScanSound
<1>6. ExactBefore(Merge(B, w), Start(n, w), w, n)
  BY <1>5, Zenon DEF ScanExact
<1>7. ExactBefore(Merge(C, w), f, w, n + 1)
  BY <1>1, <1>6, NextExact
<1>8. \A i \in DOMAIN R : R[i].minute \in Nat /\ R[i].minute < f /\ f \in Nat
  BY BucketsBefore
<1>9. \A i \in DOMAIN R : ~InBucket(n, R[i].minute, w)
  <2>1. \A i \in DOMAIN R : R[i].minute # f
    BY <1>8
  <2> QED  BY <2>1, OtherBuckets
<1>10. \A i \in DOMAIN R : ExactBefore(R[i], R[i].minute, w, n + 1)
  <2> TAKE i \in DOMAIN R
  <2>1. ExactBefore(R[i], R[i].minute, w, n)
    BY <1>5, Zenon DEF ScanExact
  <2> QED  BY <1>9, <2>1, ExactKept
<1>11. StoredBefore(n + 1) = StoredBefore(n) \union {n}
  BY StoredMore
<1> DEFINE T == {Start(m, w) : m \in StoredBefore(n)}
           U == {Start(m, w) : m \in StoredBefore(n + 1)}
           M == {R[i].minute : i \in DOMAIN R}
<1>12. T = M \union {f}
  BY <1>5, Zenon DEF ScanComplete
<1>13. U = T \union {f}
  BY <1>11
<1>14. U = M \union {f}
  <2> HIDE DEF T, U, M
  <2> QED  BY <1>12, <1>13
<1> HIDE DEF b, f, C
<1>15. ScanTyped(R, C, w, n + 1)
  BY <1>1, <1>3, Zenon DEF ScanTyped
<1>16. ScanInOrder(R, C, w)
  BY <1>4, <1>5, Zenon DEF ScanInOrder, f
<1>17. ScanComplete(R, C, w, n + 1)
  BY <1>4, <1>14, Zenon DEF ScanComplete
<1>18. ScanExact(R, C, w, n + 1)
  BY <1>4, <1>7, <1>10, Zenon DEF ScanExact
<1>19. ScanSound(R, C, w, n + 1)
  BY <1>15, <1>16, <1>17, <1>18, Zenon DEF ScanSound
<1> QED  BY <1>19 DEF C, b

\* A row of a later bucket.
LEMMA ScanCloses ==
    ASSUME RowsAreTrue, NEW n \in 0 .. LastMinute, NEW w \in Nat \ {0}, NEW R, NEW B, B # <<>>,
           ScanSound(R, B, w, n), store[n] # NoBar, Start(n, w) # FirstOf(B, w)
    PROVE  ScanSound(Append(R, Merge(B, w)), <<store[n]>>, w, n + 1)
PROOF
<1> DEFINE b == store[n]
           f == FirstOf(B, w)
           g == Start(n, w)
           bar == Merge(B, w)
           S == Append(R, bar)
           C == <<b>>
           k == Len(R)
<1>1. R \in Seq(MergedBars(w)) /\ B \in Seq(Bars)
  BY Zenon DEF ScanSound, ScanTyped
<1>2. n \in Nat /\ b \in Bars /\ b.minute = n
  BY DEF RowsAreTrue
<1>3. bar \in MergedBars(w) /\ bar.minute = f
  <2>1. bar \in MergedBars(w)
    BY <1>1 DEF MergedBars
  <2>2. bar.minute = f
    BY DEF Merge, FirstOf
  <2> QED  BY <2>1, <2>2
<1>4. /\ f \in Nat /\ f <= g
      /\ \A i \in DOMAIN R : R[i].minute \in Nat /\ R[i].minute < f
      /\ \A m \in StoredBefore(n) : Start(m, w) \in Nat /\ Start(m, w) <= f
  BY BucketsBefore
<1>5. g \in Nat /\ f # g
  BY <1>2, StartFacts
<1>6. /\ f < g
      /\ \A i \in DOMAIN R : R[i].minute < g /\ R[i].minute # g
      /\ \A m \in StoredBefore(n) : Start(m, w) # g
  <2> HIDE DEF f, g
  <2>1. f < g
    BY <1>4, <1>5
  <2>2. \A i \in DOMAIN R : R[i].minute < g /\ R[i].minute # g
    BY <1>4, <1>5, <2>1
  <2>3. \A m \in StoredBefore(n) : Start(m, w) # g
    BY <1>4, <1>5, <2>1
  <2> QED  BY <2>1, <2>2, <2>3
<1>7. \A m \in StoredBefore(n) : ~InBucket(m, g, w)
  <2>1. \A m \in StoredBefore(n) : m \in Nat
    BY <1>2 DEF StoredBefore
  <2> QED  BY <1>2, <1>6, <2>1, SameBucket
<1>8. ExactBefore(Merge(C, w), g, w, n + 1)
  BY <1>7, FirstExact
<1>9. /\ S \in Seq(MergedBars(w)) /\ k \in Nat /\ Len(S) = k + 1
      /\ \A i \in 1 .. k : S[i] = R[i]
      /\ S[k + 1] = bar
      /\ DOMAIN R = 1 .. k /\ DOMAIN S = 1 .. k + 1
  BY <1>1, <1>3, AppendProperties, LenProperties
<1>10. C \in Seq(Bars) /\ C # <<>> /\ C[1] = b
  BY <1>2
<1>11. FirstOf(C, w) = g
  BY <1>2, <1>10 DEF FirstOf
<1>12. ScanInOrder(R, B, w) /\ ScanComplete(R, B, w, n) /\ ScanExact(R, B, w, n)
  BY Zenon DEF ScanSound
<1>13. ~InBucket(n, f, w) /\ \A i \in DOMAIN R : ~InBucket(n, R[i].minute, w)
  BY <1>5, <1>6, OtherBuckets
<1>14. ExactBefore(bar, f, w, n + 1)
  <2>1. ExactBefore(bar, f, w, n)
    BY <1>12, Zenon DEF ScanExact
  <2> QED  BY <1>13, <2>1, ExactKept
<1>15. \A i \in DOMAIN R : ExactBefore(R[i], R[i].minute, w, n + 1)
  <2> TAKE i \in DOMAIN R
  <2>1. ExactBefore(R[i], R[i].minute, w, n)
    BY <1>12, Zenon DEF ScanExact
  <2> QED  BY <1>13, <2>1, ExactKept
<1>16. StoredBefore(n + 1) = StoredBefore(n) \union {n}
  BY StoredMore
<1> DEFINE T == {Start(m, w) : m \in StoredBefore(n)}
           U == {Start(m, w) : m \in StoredBefore(n + 1)}
           M == {R[i].minute : i \in DOMAIN R}
           N == {S[i].minute : i \in DOMAIN S}
<1>17. T = M \union {f}
  BY <1>12, Zenon DEF ScanComplete
<1>18. U = T \union {g}
  BY <1>16
<1> HIDE DEF b, f, g, bar, S, C, k
<1>19. \A i \in DOMAIN S : (i \in DOMAIN R /\ S[i] = R[i]) \/ (i = k + 1 /\ S[i] = bar)
  BY <1>9
<1>20. N = M \union {f}
  <2>1. \A i \in DOMAIN R : i \in DOMAIN S /\ S[i] = R[i]
    BY <1>9
  <2>2. k + 1 \in DOMAIN S /\ S[k + 1].minute = f
    BY <1>3, <1>9
  <2>3. N \subseteq M \union {f}
    BY <1>3, <1>19
  <2>4. M \subseteq N /\ f \in N
    BY <2>1, <2>2
  <2> HIDE DEF N, M
  <2> QED  BY <2>3, <2>4
<1>21. U = N \union {g}
  <2> HIDE DEF T, U, M, N
  <2> QED  BY <1>17, <1>18, <1>20
<1>22. ScanTyped(S, C, w, n + 1)
  BY <1>9, <1>10, Zenon DEF ScanTyped
<1>23. \A i, j \in DOMAIN S : i < j => S[i].minute < S[j].minute
  <2> SUFFICES ASSUME NEW i \in DOMAIN S, NEW j \in DOMAIN S, i < j
               PROVE  S[i].minute < S[j].minute
    OBVIOUS
  <2>1. i \in DOMAIN R /\ S[i] = R[i]
    BY <1>9
  <2>2. CASE j \in DOMAIN R
    <3>1. R[i].minute < R[j].minute
      BY <1>12, <2>1, <2>2 DEF ScanInOrder
    <3>2. S[j] = R[j]
      BY <1>9, <2>2
    <3> QED  BY <2>1, <3>1, <3>2
  <2>3. CASE j \notin DOMAIN R
    <3>1. S[j] = bar
      BY <1>19, <2>3
    <3> QED  BY <1>3, <1>4, <2>1, <3>1
  <2> QED  BY <2>2, <2>3
<1>24. \A i \in DOMAIN S : S[i].minute < g
  <2> TAKE i \in DOMAIN S
  <2> QED  BY <1>3, <1>6, <1>19
<1>25. ScanInOrder(S, C, w)
  BY <1>11, <1>23, <1>24, Zenon DEF ScanInOrder
<1>26. ScanComplete(S, C, w, n + 1)
  BY <1>11, <1>21, Zenon DEF ScanComplete
<1>27. \A i \in DOMAIN S : ExactBefore(S[i], S[i].minute, w, n + 1)
  <2> TAKE i \in DOMAIN S
  <2> QED  BY <1>3, <1>14, <1>15, <1>19, Zenon
<1>28. ScanExact(S, C, w, n + 1)
  BY <1>8, <1>11, <1>27, Zenon DEF ScanExact
<1>29. ScanSound(S, C, w, n + 1)
  BY <1>22, <1>25, <1>26, <1>28, Zenon DEF ScanSound
<1> QED  BY <1>29 DEF S, C, bar, b

\* The pass up to any minute, by the least minute up to which it would not be sound.
LEMMA PassIsSound ==
    ASSUME RowsAreTrue, NEW w \in Nat \ {0}, NEW n \in 0 .. LastMinute + 1
    PROVE  \E R, B : PassBefore(w, n) = [result |-> R, bucket |-> B] /\ ScanSound(R, B, w, n)
PROOF
<1>1. LastMinute \in Nat
  BY DEF RowsAreTrue
<1> DEFINE Good(k) == \E R, B : PassBefore(w, k) = [result |-> R, bucket |-> B] /\ ScanSound(R, B, w, k)
           Wrong == {k \in Nat : k \in 0 .. LastMinute + 1 /\ ~Good(k)}
<1>2. ASSUME Wrong # {} PROVE FALSE
  <2>1. PICK k \in Wrong : \A j \in Wrong : k <= j
    <3> HIDE DEF Wrong
    <3>1. Wrong \subseteq Nat  BY DEF Wrong
    <3> QED  BY <1>2, <3>1, LeastOf
  <2>2. k \in Nat /\ k \in 0 .. LastMinute + 1 /\ ~Good(k)
    OBVIOUS
  <2>3. Good(0)
    <3>1. PassBefore(w, 0) = [result |-> <<>>, bucket |-> <<>>]
      <4> DEFINE s == [i \in 1 .. 0 |-> store[i - 1]]
      <4>1. s = <<>>
        OBVIOUS
      <4> HIDE DEF s
      <4>2. Without(s, {NoBar}) = <<>>
        BY <4>1, WithoutEmpty
      <4> QED  BY <4>2, ScanEmpty DEF PassBefore, s
    <3>2. StoredBefore(0) = {}
      BY DEF StoredBefore
    <3>3. <<>> \in Seq(MergedBars(w)) /\ <<>> \in Seq(Bars) /\ DOMAIN <<>> = {}
      OBVIOUS
    <3>4. ScanSound(<<>>, <<>>, w, 0)
      BY <3>2, <3>3 DEF ScanSound, ScanTyped, ScanInOrder, ScanComplete, ScanExact
    <3> QED  BY <3>1, <3>4
  <2>4. k # 0
    BY <2>2, <2>3
  <2> DEFINE j == k - 1
  <2>5. j \in Nat /\ j \in 0 .. LastMinute + 1 /\ j < k /\ j \in 0 .. LastMinute /\ k = j + 1
    BY <1>1, <2>2, <2>4
  <2>6. j \notin Wrong
    <3> HIDE DEF Wrong, j
    <3> QED  BY <2>1, <2>2, <2>5
  <2> HIDE DEF j
  <2>7. Good(j)
    BY <2>5, <2>6
  <2>8. PICK R, B : PassBefore(w, j) = [result |-> R, bucket |-> B] /\ ScanSound(R, B, w, j)
    BY <2>7
  <2> DEFINE b == store[j]
             p == [result |-> R, bucket |-> B]
  <2>9. PassBefore(w, j + 1) = IF b = NoBar THEN p ELSE Bucketed(p, b, w)
    BY <2>5, <2>8, PassMore
  <2>10. p.result = R /\ p.bucket = B
    OBVIOUS
  <2>11. R \in Seq(MergedBars(w)) /\ B \in Seq(Bars) /\ b \in Bars /\ b.minute \in Nat /\ (b # NoBar => b.minute = j)
    <3>1. R \in Seq(MergedBars(w)) /\ B \in Seq(Bars)
      BY <2>8, Zenon DEF ScanSound, ScanTyped
    <3>2. b \in Bars /\ (b # NoBar => b.minute = j)
      BY <2>5 DEF RowsAreTrue
    <3>3. \A x \in Bars : x.minute \in Nat
      BY <1>1 DEF Bars, Minutes
    <3> QED  BY <3>1, <3>2, <3>3
  <2> HIDE DEF p, Good
  <2>12. CASE b = NoBar
    <3>1. ScanSound(R, B, w, j + 1)
      BY <2>5, <2>8, <2>12, ScanQuiet
    <3>2. PassBefore(w, j + 1) = p
      BY <2>9, <2>12
    <3>3. Good(j + 1)
      BY <3>1, <3>2 DEF Good, p
    <3> QED  BY <2>2, <2>5, <3>3
  <2>13. CASE b # NoBar /\ B = <<>>
    <3>1. ScanSound(R, <<b>>, w, j + 1)
      BY <2>5, <2>8, <2>13, ScanOpens
    <3>2. Bucketed(p, b, w) = [result |-> R, bucket |-> Append(B, b)]
      BY <2>10, <2>13, Zenon DEF Bucketed
    <3>3. Append(B, b) = <<b>>
      BY <2>13
    <3>4. PassBefore(w, j + 1) = [result |-> R, bucket |-> <<b>>]
      BY <2>9, <2>13, <3>2, <3>3
    <3>5. Good(j + 1)
      BY <3>1, <3>4 DEF Good
    <3> QED  BY <2>2, <2>5, <3>5
  <2>14. CASE b # NoBar /\ B # <<>> /\ Start(j, w) = FirstOf(B, w)
    <3>1. ScanSound(R, Append(B, b), w, j + 1)
      BY <2>5, <2>8, <2>14, ScanJoins
    <3>2. Bucketed(p, b, w) = [result |-> R, bucket |-> Append(B, b)]
      BY <2>10, <2>11, <2>14, Zenon DEF Bucketed, FirstOf
    <3>3. PassBefore(w, j + 1) = [result |-> R, bucket |-> Append(B, b)]
      BY <2>9, <2>14, <3>2
    <3>4. Good(j + 1)
      BY <3>1, <3>3 DEF Good
    <3> QED  BY <2>2, <2>5, <3>4
  <2>15. CASE b # NoBar /\ B # <<>> /\ Start(j, w) # FirstOf(B, w)
    <3>1. ScanSound(Append(R, Merge(B, w)), <<b>>, w, j + 1)
      BY <2>5, <2>8, <2>15, ScanCloses
    <3>2. Bucketed(p, b, w) = [result |-> Append(R, Merge(B, w)), bucket |-> <<b>>]
      BY <2>10, <2>11, <2>15, Zenon DEF Bucketed, FirstOf
    <3>3. PassBefore(w, j + 1) = [result |-> Append(R, Merge(B, w)), bucket |-> <<b>>]
      BY <2>9, <2>15, <3>2
    <3>4. Good(j + 1)
      BY <3>1, <3>3 DEF Good
    <3> QED  BY <2>2, <2>5, <3>4
  <2> QED  BY <2>12, <2>13, <2>14, <2>15
<1>3. Good(n)
  <2>1. n \in Nat
    BY <1>1
  <2> HIDE DEF Good
  <2> QED  BY <1>2, <2>1
<1> QED  BY <1>3

\* The last bucket is closed: the bars of the whole store.
LEMMA ClosedSound ==
    ASSUME RowsAreTrue, NEW w \in Nat \ {0}, NEW R, NEW B, ScanSound(R, B, w, LastMinute + 1)
    PROVE  LET made == Closed([result |-> R, bucket |-> B], w)
               N == LastMinute + 1
           IN  /\ \A i, j \in DOMAIN made : i < j => made[i].minute < made[j].minute
               /\ {made[i].minute : i \in DOMAIN made} = {Start(m, w) : m \in StoredBefore(N)}
               /\ \A i \in DOMAIN made : ExactBefore(made[i], made[i].minute, w, N)
PROOF
<1> DEFINE p == [result |-> R, bucket |-> B]
           N == LastMinute + 1
           T == {Start(m, w) : m \in StoredBefore(N)}
<1>1. p.result = R /\ p.bucket = B
  OBVIOUS
<1>2. R \in Seq(MergedBars(w)) /\ B \in Seq(Bars) /\ (B = <<>> => R = <<>> /\ StoredBefore(N) = {})
  BY Zenon DEF ScanSound, ScanTyped
<1>3. ScanInOrder(R, B, w) /\ ScanComplete(R, B, w, N) /\ ScanExact(R, B, w, N)
  BY Zenon DEF ScanSound
<1>4. CASE B = <<>>
  <2>1. Closed(p, w) = R
    BY <1>1, <1>4, Zenon DEF Closed
  <2>2. DOMAIN R = {} /\ T = {}
    BY <1>2, <1>4
  <2>3. {R[i].minute : i \in DOMAIN R} = {}
    BY <2>2
  <2> HIDE DEF T
  <2> QED  BY <2>1, <2>2, <2>3 DEF T
<1>5. CASE B # <<>>
  <2> DEFINE bar == Merge(B, w)
             f == FirstOf(B, w)
             S == Append(R, bar)
             k == Len(R)
             M == {R[i].minute : i \in DOMAIN R}
             M2 == {S[i].minute : i \in DOMAIN S}
  <2>1. Closed(p, w) = S
    BY <1>1, <1>5, Zenon DEF Closed
  <2>2. bar \in MergedBars(w) /\ bar.minute = f
    <3>1. bar \in MergedBars(w)
      BY <1>2, <1>5 DEF MergedBars
    <3>2. bar.minute = f
      BY DEF Merge, FirstOf
    <3> QED  BY <3>1, <3>2
  <2>3. /\ S \in Seq(MergedBars(w)) /\ k \in Nat /\ Len(S) = k + 1
        /\ \A i \in 1 .. k : S[i] = R[i]
        /\ S[k + 1] = bar
        /\ DOMAIN R = 1 .. k /\ DOMAIN S = 1 .. k + 1
    BY <1>2, <2>2, AppendProperties, LenProperties
  <2>4. T = M \union {f}
    BY <1>3, <1>5, Zenon DEF ScanComplete
  <2> HIDE DEF p, N, T, bar, f, S, k
  <2>5. \A i \in DOMAIN S : (i \in DOMAIN R /\ S[i] = R[i]) \/ (i = k + 1 /\ S[i] = bar)
    BY <2>3
  <2>6. M2 = M \union {f}
    <3>1. \A i \in DOMAIN R : i \in DOMAIN S /\ S[i] = R[i]
      BY <2>3
    <3>2. k + 1 \in DOMAIN S /\ S[k + 1].minute = f
      BY <2>2, <2>3
    <3>3. M2 \subseteq M \union {f}
      BY <2>2, <2>5
    <3>4. M \subseteq M2 /\ f \in M2
      BY <3>1, <3>2
    <3> HIDE DEF M2, M
    <3> QED  BY <3>3, <3>4
  <2>7. \A i, j \in DOMAIN S : i < j => S[i].minute < S[j].minute
    <3> SUFFICES ASSUME NEW i \in DOMAIN S, NEW j \in DOMAIN S, i < j
                 PROVE  S[i].minute < S[j].minute
      OBVIOUS
    <3>1. i \in DOMAIN R /\ S[i] = R[i]
      BY <2>3
    <3>2. CASE j \in DOMAIN R
      <4>1. R[i].minute < R[j].minute
        BY <1>3, <3>1, <3>2 DEF ScanInOrder
      <4>2. S[j] = R[j]
        BY <2>3, <3>2
      <4> QED  BY <3>1, <4>1, <4>2
    <3>3. CASE j \notin DOMAIN R
      <4>1. S[j] = bar
        BY <2>5, <3>3
      <4>2. R[i].minute < f
        BY <1>3, <1>5, <3>1, Zenon DEF ScanInOrder, f
      <4> QED  BY <2>2, <3>1, <4>1, <4>2
    <3> QED  BY <3>2, <3>3
  <2>8. ExactBefore(bar, f, w, N) /\ \A i \in DOMAIN R : ExactBefore(R[i], R[i].minute, w, N)
    BY <1>3, <1>5, Zenon DEF ScanExact, bar, f
  <2>9. \A i \in DOMAIN S : ExactBefore(S[i], S[i].minute, w, N)
    <3> TAKE i \in DOMAIN S
    <3> QED  BY <2>2, <2>5, <2>8, Zenon
  <2>10. M2 = T
    <3> HIDE DEF M, M2
    <3> QED  BY <2>4, <2>6
  <2> QED  BY <2>1, <2>7, <2>9, <2>10, Zenon DEF p, N, T
<1> QED  BY <1>4, <1>5

LEMMA AggregateInState == ASSUME BarsInv PROVE AggregateIsExact
PROOF
<1> DEFINE N == LastMinute + 1
<1>1. BarsTypeOK /\ BarsAreTimely
  BY Zenon DEF BarsInv
<1>2. LastMinute \in Nat /\ Minutes = 0 .. LastMinute
  BY BarsAssumption DEF Minutes
<1>3. RowsAreTrue
  <2>1. /\ store \in [Minutes -> Bars]
        /\ \A m \in Minutes : arrived[m] \in Seq(Nat) /\ volumes[m] \in Nat
    BY <1>1, BarsTypes
  <2>2. \A m \in Minutes : /\ store[m] # NoBar => store[m].minute = m /\ arrived[m] # <<>>
                           /\ arrived[m] = <<>> => volumes[m] = 0
    BY <1>1, Zenon DEF BarsAreTimely
  <2> QED  BY <1>2, <2>1, <2>2 DEF RowsAreTrue
<1>4. N - 1 = LastMinute /\ N \in 0 .. N
  BY <1>2
<1>5. StoredBefore(N) = {m \in Minutes : store[m] # NoBar}
  BY <1>2, <1>4 DEF StoredBefore
<1> SUFFICES ASSUME NEW w \in 1 .. LastMinute + 1
             PROVE  LET made == Aggregate(w)
                    IN  /\ \A i, j \in DOMAIN made : i < j => made[i].minute < made[j].minute
                        /\ {made[i].minute : i \in DOMAIN made} =
                              {Start(m, w) : m \in {n \in Minutes : store[n] # NoBar}}
                        /\ \A i \in DOMAIN made :
                              BucketIsWhole(made[i].minute, w) =>
                                  made[i] = BarOf(made[i].minute, PricesIn(made[i].minute, w),
                                                  VolumeIn(made[i].minute, w))
  BY Zenon DEF AggregateIsExact
<1>6. w \in Nat \ {0}
  BY <1>2
<1>7. PICK R, B : PassBefore(w, N) = [result |-> R, bucket |-> B] /\ ScanSound(R, B, w, N)
  BY <1>3, <1>4, <1>6, PassIsSound
<1> DEFINE made == Aggregate(w)
<1>8. made = Closed([result |-> R, bucket |-> B], w)
  <2>1. made = Closed(PassBefore(w, N), w)
    BY Zenon DEF Aggregate, Rows, PassBefore
  <2> QED  BY <1>7, <2>1
<1>9. /\ \A i, j \in DOMAIN made : i < j => made[i].minute < made[j].minute
      /\ {made[i].minute : i \in DOMAIN made} = {Start(m, w) : m \in StoredBefore(N)}
      /\ \A i \in DOMAIN made : ExactBefore(made[i], made[i].minute, w, N)
  BY <1>3, <1>6, <1>7, <1>8, ClosedSound
<1>10. \A f : TradesBefore(f, w, N) = PricesIn(f, w) /\ VolumesBefore(f, w, N) = VolumeIn(f, w)
  <2>1. \A f : TradesBefore(f, w, N) = PricesIn(f, w)
    BY Zenon DEF TradesBefore, PricesIn
  <2>2. \A f : VolumesBefore(f, w, N) = VolumeIn(f, w)
    BY <1>2, <1>4 DEF VolumesBefore, VolumeIn
  <2> QED  BY <2>1, <2>2
<1> HIDE DEF made
<1>11. \A i \in DOMAIN made :
          BucketIsWhole(made[i].minute, w) =>
              made[i] = BarOf(made[i].minute, PricesIn(made[i].minute, w), VolumeIn(made[i].minute, w))
  BY <1>9, <1>10, Zenon DEF ExactBefore
<1> QED  BY <1>5, <1>9, <1>11 DEF made

\* Bars of any width, over any number of minutes from any source: one for each bucket of
\* which something is stored, in the order of time, and the exact bar of all that came in
\* the bucket, its volume included, if what is stored of it is whole (aggregate_bars,
\* _merge_bucket).
THEOREM AggregateExact == BarsSpec => []AggregateIsExact
PROOF
<1>1. BarsInv => AggregateIsExact
  BY AggregateInState
<1> QED  BY <1>1, BarsInvariant, PTL

----------------------------------------------------------------------------
(* Selection: the sorted list of candidates, and the pass over it.         *)

Prioritised(cands) == \A i \in DOMAIN cands : cands[i].priority \in Int

\* The first m candidates in the order of their priorities.
Ordered(p, cands, m) ==
    /\ p \in [1 .. m -> 1 .. m]
    /\ \A i, j \in 1 .. m : i < j => Before(cands, p[i], p[j])

LEMMA BeforeFacts ==
    ASSUME NEW cands, Prioritised(cands)
    PROVE  /\ \A i \in DOMAIN cands : i \in Nat => ~Before(cands, i, i)
           /\ \A i, j \in DOMAIN cands : i \in Nat /\ j \in Nat => ~(Before(cands, i, j) /\ Before(cands, j, i))
           /\ \A i, j \in DOMAIN cands : i \in Nat /\ j \in Nat /\ i # j =>
                 Before(cands, i, j) \/ Before(cands, j, i)
           /\ \A i, j, k \in DOMAIN cands :
                 /\ i \in Nat /\ j \in Nat /\ k \in Nat
                 /\ Before(cands, i, j) /\ Before(cands, j, k)
                 => Before(cands, i, k)
PROOF
<1> DEFINE pr(i) == cands[i].priority
<1>1. \A i \in DOMAIN cands : pr(i) \in Int
  BY DEF Prioritised
<1>2. \A i, j : Before(cands, i, j) <=> \/ pr(i) > pr(j)
                                        \/ pr(i) = pr(j) /\ i < j
  BY DEF Before
<1> HIDE DEF pr
<1>3. \A i \in DOMAIN cands : i \in Nat => ~Before(cands, i, i)
  BY <1>1, <1>2
<1>4. \A i, j \in DOMAIN cands : i \in Nat /\ j \in Nat => ~(Before(cands, i, j) /\ Before(cands, j, i))
  BY <1>1, <1>2
<1>5. \A i, j \in DOMAIN cands : i \in Nat /\ j \in Nat /\ i # j =>
         Before(cands, i, j) \/ Before(cands, j, i)
  BY <1>1, <1>2
<1>6. \A i, j, k \in DOMAIN cands :
         /\ i \in Nat /\ j \in Nat /\ k \in Nat
         /\ Before(cands, i, j) /\ Before(cands, j, k)
         => Before(cands, i, k)
  BY <1>1, <1>2
<1> QED  BY <1>3, <1>4, <1>5, <1>6

\* A candidate more is inserted before the first that it precedes.
LEMMA InsertOrdered ==
    ASSUME NEW cands, Prioritised(cands), NEW m \in Nat \ {0}, 1 .. m \subseteq DOMAIN cands,
           NEW p, Ordered(p, cands, m - 1)
    PROVE  \E q : Ordered(q, cands, m)
PROOF
<1>1. /\ p \in [1 .. m - 1 -> 1 .. m - 1]
      /\ \A i, j \in 1 .. m - 1 : i < j => Before(cands, p[i], p[j])
  BY DEF Ordered
<1>2. m - 1 \in Nat /\ m \in DOMAIN cands /\ m \in 1 .. m
  OBVIOUS
<1>3. \A i \in 1 .. m - 1 : p[i] \in 1 .. m - 1 /\ p[i] \in DOMAIN cands /\ p[i] \in Nat /\ p[i] # m
  BY <1>1
<1> DEFINE After == {i \in 1 .. m - 1 : Before(cands, m, p[i])}
           Marks == After \union {m}
<1>4. PICK at \in Marks : \A i \in Marks : at <= i
  <2>1. Marks \subseteq Nat /\ Marks # {}
    OBVIOUS
  <2> HIDE DEF Marks
  <2> QED  BY <2>1, LeastOf
<1>5. at \in 1 .. m
  OBVIOUS
<1>6. \A i \in 1 .. m - 1 : i < at => Before(cands, p[i], m)
  <2> SUFFICES ASSUME NEW i \in 1 .. m - 1, i < at  PROVE Before(cands, p[i], m)
    OBVIOUS
  <2>1. i \notin Marks
    <3> HIDE DEF Marks
    <3> QED  BY <1>4, <1>5
  <2>2. ~Before(cands, m, p[i])
    BY <2>1
  <2> QED  BY <1>2, <1>3, <2>2, BeforeFacts
<1>7. \A i \in 1 .. m - 1 : at <= i => Before(cands, m, p[i])
  <2> SUFFICES ASSUME NEW i \in 1 .. m - 1, at <= i  PROVE Before(cands, m, p[i])
    OBVIOUS
  <2>1. at \in After
    BY <1>5
  <2>2. at \in 1 .. m - 1 /\ Before(cands, m, p[at])
    BY <2>1
  <2>3. CASE at = i
    BY <2>2, <2>3
  <2>4. CASE at # i
    <3>1. at < i
      BY <1>5, <2>4
    <3>2. Before(cands, p[at], p[i])
      BY <1>1, <2>2, <3>1
    <3> QED  BY <1>2, <1>3, <2>2, <3>2, BeforeFacts
  <2> QED  BY <2>3, <2>4
<1> HIDE DEF Marks, After
<1> DEFINE q == [i \in 1 .. m |-> IF i < at THEN p[i] ELSE IF i = at THEN m ELSE p[i - 1]]
<1>8. \A i \in 1 .. m : /\ i < at => i \in 1 .. m - 1 /\ q[i] = p[i]
                        /\ i = at => q[i] = m
                        /\ at < i => i - 1 \in 1 .. m - 1 /\ q[i] = p[i - 1] /\ at <= i - 1
  BY <1>5
<1>9. q \in [1 .. m -> 1 .. m]
  <2> SUFFICES ASSUME NEW i \in 1 .. m
               PROVE  (IF i < at THEN p[i] ELSE IF i = at THEN m ELSE p[i - 1]) \in 1 .. m
    OBVIOUS
  <2>1. CASE i < at
    <3>1. i \in 1 .. m - 1
      BY <1>5, <2>1
    <3> QED  BY <1>3, <2>1, <3>1
  <2>2. CASE i = at
    BY <1>5, <2>2
  <2>3. CASE at < i
    <3>1. i - 1 \in 1 .. m - 1
      BY <1>5, <2>3
    <3>2. p[i - 1] \in 1 .. m
      BY <1>3, <3>1
    <3> QED  BY <1>5, <2>3, <3>2
  <2> QED  BY <1>5, <2>1, <2>2, <2>3
<1> HIDE DEF q
<1>10. ASSUME NEW i \in 1 .. m, NEW j \in 1 .. m, i < j  PROVE Before(cands, q[i], q[j])
  <2>1. CASE j < at
    <3>1. i < at
      BY <1>5, <1>10, <2>1
    <3> QED  BY <1>1, <1>8, <1>10, <2>1, <3>1
  <2>2. CASE j = at
    BY <1>6, <1>8, <1>10, <2>2
  <2>3. CASE at < j /\ i < at
    <3>1. i < j - 1 /\ j - 1 \in 1 .. m - 1 /\ i \in 1 .. m - 1
      BY <1>5, <1>10, <2>3
    <3>2. Before(cands, p[i], p[j - 1])
      BY <1>1, <3>1
    <3> QED  BY <1>8, <2>3, <3>2
  <2>4. CASE at < j /\ i = at
    BY <1>7, <1>8, <2>4
  <2>5. CASE at < j /\ at < i
    <3>1. i - 1 < j - 1 /\ j - 1 \in 1 .. m - 1 /\ i - 1 \in 1 .. m - 1
      BY <1>5, <1>10, <2>5
    <3>2. Before(cands, p[i - 1], p[j - 1])
      BY <1>1, <3>1
    <3> QED  BY <1>8, <2>5, <3>2
  <2> QED  BY <1>5, <2>1, <2>2, <2>3, <2>4, <2>5
<1>11. Ordered(q, cands, m)
  BY <1>9, <1>10 DEF Ordered
<1> QED  BY <1>11

LEMMA OrderExists ==
    ASSUME NEW cands, Prioritised(cands), NEW n \in Nat, 1 .. n \subseteq DOMAIN cands
    PROVE  \E p : Ordered(p, cands, n)
PROOF
<1> DEFINE Wrong == {k \in Nat : k <= n /\ ~ \E p : Ordered(p, cands, k)}
<1>1. ASSUME Wrong # {} PROVE FALSE
  <2>1. PICK k \in Wrong : \A j \in Wrong : k <= j
    <3> HIDE DEF Wrong
    <3>1. Wrong \subseteq Nat  BY DEF Wrong
    <3> QED  BY <1>1, <3>1, LeastOf
  <2>2. k \in Nat /\ k <= n /\ ~ \E p : Ordered(p, cands, k)
    OBVIOUS
  <2>3. CASE k = 0
    <3> DEFINE e == [i \in 1 .. 0 |-> i]
    <3>1. Ordered(e, cands, 0)
      BY DEF Ordered
    <3> QED  BY <2>2, <2>3, <3>1
  <2>4. CASE k # 0
    <3>1. k - 1 \in Nat /\ k - 1 \notin Wrong
      <4> HIDE DEF Wrong
      <4> QED  BY <2>1, <2>2, <2>4
    <3>2. PICK p : Ordered(p, cands, k - 1)
      BY <2>2, <3>1
    <3>3. 1 .. k \subseteq DOMAIN cands /\ k \in Nat \ {0}
      BY <2>2, <2>4
    <3> QED  BY <2>2, <3>2, <3>3, InsertOrdered
  <2> QED  BY <2>3, <2>4
<1> QED  BY <1>1

\* ByPriority is a permutation of the candidates in which each comes before the later ones.
LEMMA SortedFacts ==
    ASSUME NEW cands, Prioritised(cands), NEW n \in Nat, DOMAIN cands = 1 .. n
    PROVE  \E p : /\ Ordered(p, cands, n)
                  /\ ByPriority(cands) = [i \in 1 .. n |-> cands[p[i]]]
                  /\ \A i, j \in 1 .. n : i # j => p[i] # p[j]
                  /\ \A i \in 1 .. n : \E k \in 1 .. n : p[k] = i
PROOF
<1> DEFINE Sorts(p) == \A i, j \in DOMAIN cands : i < j => Before(cands, p[i], p[j])
           order == CHOOSE p \in [DOMAIN cands -> DOMAIN cands] : Sorts(p)
<1>1. order \in [1 .. n -> 1 .. n] /\ \A i, j \in 1 .. n : i < j => Before(cands, order[i], order[j])
  <2>1. \E p \in [DOMAIN cands -> DOMAIN cands] : Sorts(p)
    BY OrderExists DEF Ordered
  <2>2. order \in [DOMAIN cands -> DOMAIN cands] /\ Sorts(order)
    <3> HIDE DEF Sorts
    <3> QED  BY <2>1
  <2> HIDE DEF order
  <2> QED  BY <2>2
<1>2. ByPriority(cands) = [i \in 1 .. n |-> cands[order[i]]]
  <2>1. ByPriority(cands) = [i \in DOMAIN cands |-> cands[order[i]]]
    BY Zenon DEF ByPriority
  <2> HIDE DEF order
  <2> QED  BY <2>1
<1> HIDE DEF order
<1>3. Ordered(order, cands, n)
  BY <1>1 DEF Ordered
<1>4. \A i, j \in 1 .. n : i # j => order[i] # order[j]
  <2> SUFFICES ASSUME NEW i \in 1 .. n, NEW j \in 1 .. n, i < j  PROVE order[i] # order[j]
    <3>1. \A i, j \in 1 .. n : i # j => i < j \/ j < i
      OBVIOUS
    <3> QED  BY <3>1
  <2>1. Before(cands, order[i], order[j])
    BY <1>1
  <2>2. order[i] \in Nat /\ order[i] \in DOMAIN cands
    BY <1>1
  <2> QED  BY <2>1, <2>2, BeforeFacts
<1>5. order \in Injection(1 .. n, 1 .. n)
  BY <1>1, <1>4 DEF Injection, IsInjective
<1>6. order \in Surjection(1 .. n, 1 .. n)
  <2>1. IsFiniteSet(1 .. n)
    BY FS_Interval
  <2> QED  BY <1>5, <2>1, FS_Injection
<1>7. \A i \in 1 .. n : \E k \in 1 .. n : order[k] = i
  BY <1>6 DEF Surjection
<1> QED  BY <1>2, <1>3, <1>4, <1>7

\* What the fold over a sequence of candidates returns for each set of places.
PassStep(g, U, seq, held0, limit, executed) ==
    g[U] = IF U = {} THEN PassBegins(executed)
           ELSE Considered(g[U \ {Max(U)}], seq[Max(U)], held0, limit)

LEMMA PassExists ==
    ASSUME NEW n \in Nat, NEW seq, NEW held0, NEW limit, NEW executed
    PROVE  \E g : /\ g = [U \in SUBSET (1 .. n) |-> g[U]]
                  /\ \A U \in SUBSET (1 .. n) : PassStep(g, U, seq, held0, limit, executed)
PROOF
<1> DEFINE S == 1 .. n
           Stepped(g, U) == PassStep(g, U, seq, held0, limit, executed)
           Fits(k) == \E g : /\ g = [U \in SUBSET S |-> g[U]]
                             /\ \A U \in SUBSET S : Cardinality(U) <= k => Stepped(g, U)
           Wrong == {k \in Nat : ~Fits(k)}
<1>0. IsFiniteSet(S) /\ S \subseteq 0 .. n
  BY FS_Interval
<1> HIDE DEF S
<1>1. \A U \in SUBSET S : /\ IsFiniteSet(U) /\ Cardinality(U) \in Nat
                           /\ Cardinality(U) <= Cardinality(S)
  BY <1>0, FS_Subset, FS_CardinalityType
<1>6. \A U \in SUBSET S : U # {} => Max(U) \in U
  BY <1>0, MaxBelow
<1>2. ASSUME Wrong # {} PROVE FALSE
  <2>1. PICK k \in Wrong : \A m \in Wrong : k <= m
    <3> HIDE DEF Wrong
    <3>1. Wrong \subseteq Nat  BY DEF Wrong
    <3> QED  BY <1>2, <3>1, LeastOf
  <2>2. k \in Nat /\ ~Fits(k)
    OBVIOUS
  <2>3. CASE k = 0
    <3> DEFINE g == [U \in SUBSET S |-> PassBegins(executed)]
    <3>1. \A U \in SUBSET S : Cardinality(U) <= 0 => U = {}
      <4>1. \A U \in SUBSET S : Cardinality(U) <= 0 => Cardinality(U) = 0
        BY <1>1
      <4> QED  BY <1>1, <4>1, FS_EmptySet
    <3>2. g = [U \in SUBSET S |-> g[U]]
      OBVIOUS
    <3>3. g[{}] = PassBegins(executed)
      OBVIOUS
    <3> HIDE DEF g
    <3>4. Stepped(g, {})
      BY <3>3 DEF PassStep
    <3> HIDE DEF Stepped
    <3> QED  BY <2>2, <2>3, <3>1, <3>2, <3>4
  <2>4. CASE k # 0
    <3>1. k - 1 \in Nat /\ k - 1 \notin Wrong
      <4> HIDE DEF Wrong
      <4> QED  BY <2>1, <2>2, <2>4
    <3>2. PICK h : /\ h = [U \in SUBSET S |-> h[U]]
                   /\ \A U \in SUBSET S : Cardinality(U) <= k - 1 => Stepped(h, U)
      BY <3>1
    <3> DEFINE next(U) == IF U = {} THEN PassBegins(executed)
                          ELSE Considered(h[U \ {Max(U)}], seq[Max(U)], held0, limit)
               g == [U \in SUBSET S |-> IF Cardinality(U) < k THEN h[U] ELSE next(U)]
    <3> HIDE DEF next
    <3>3. g = [U \in SUBSET S |-> g[U]]
      OBVIOUS
    <3>4. \A U \in SUBSET S : Cardinality(U) < k => g[U] = h[U]
      OBVIOUS
    <3>5. \A U \in SUBSET S : ~(Cardinality(U) < k) => g[U] = next(U)
      OBVIOUS
    <3> HIDE DEF g
    <3>6. ASSUME NEW U \in SUBSET S, Cardinality(U) <= k  PROVE Stepped(g, U)
      <4> DEFINE x == Max(U)
      <4>1. U # {} => x \in U
        BY <1>6
      <4> HIDE DEF x
      <4>2. U # {} => /\ U \ {x} \in SUBSET S
                      /\ Cardinality(U \ {x}) = Cardinality(U) - 1
        BY <1>1, <4>1, SmallerWithout
      <4>3. U # {} => g[U \ {x}] = h[U \ {x}]
        <5>1. U # {} => Cardinality(U \ {x}) < k
          BY <1>1, <2>2, <3>6, <4>2
        <5> QED  BY <3>4, <4>2, <5>1
      <4>4. g[U] = IF U = {} THEN PassBegins(executed)
                   ELSE Considered(h[U \ {x}], seq[x], held0, limit)
        <5>1. CASE Cardinality(U) < k
          <6>1. Cardinality(U) <= k - 1
            BY <1>1, <2>2, <5>1
          <6>2. Stepped(h, U)
            BY <3>2, <6>1
          <6>3. h[U] = IF U = {} THEN PassBegins(executed)
                       ELSE Considered(h[U \ {x}], seq[x], held0, limit)
            BY <6>2, Zenon DEF PassStep, x
          <6> QED  BY <3>4, <5>1, <6>3, Zenon
        <5>2. CASE ~(Cardinality(U) < k)
          BY <3>5, <5>2, Zenon DEF next, x
        <5> QED  BY <5>1, <5>2
      <4>5. g[U] = IF U = {} THEN PassBegins(executed)
                   ELSE Considered(g[U \ {x}], seq[x], held0, limit)
        BY <4>3, <4>4, Zenon
      <4> QED  BY <4>5, Zenon DEF PassStep, x
    <3> HIDE DEF Stepped
    <3> QED  BY <2>2, <3>3, <3>6
  <2> QED  BY <2>3, <2>4
<1>3. Cardinality(S) \notin Wrong /\ Cardinality(S) \in Nat
  <2>1. S \in SUBSET S
    OBVIOUS
  <2> HIDE DEF Wrong
  <2> QED  BY <1>1, <1>2, <2>1
<1>4. PICK g : /\ g = [U \in SUBSET S |-> g[U]]
               /\ \A U \in SUBSET S : Cardinality(U) <= Cardinality(S) => Stepped(g, U)
  BY <1>3
<1>5. \A U \in SUBSET S : Stepped(g, U)
  BY <1>1, <1>4
<1> QED  BY <1>4, <1>5 DEF S

\* process_cycle as a sequence of states of the pass, one for each candidate considered.
LEMMA PassStates ==
    ASSUME NEW cands, NEW n \in Nat, DOMAIN ByPriority(cands) = 1 .. n,
           NEW held0, NEW limit, NEW executed
    PROVE  \E a : /\ a[0] = PassBegins(executed)
                  /\ \A k \in 1 .. n : a[k] = Considered(a[k - 1], ByPriority(cands)[k], held0, limit)
                  /\ ProcessCycle(cands, held0, limit, executed) = a[n]
PROOF
<1> DEFINE seq == ByPriority(cands)
<1>0. DOMAIN seq = 1 .. n
  OBVIOUS
<1> HIDE DEF seq
<1> DEFINE Rec(g) == g = [U \in SUBSET DOMAIN seq |->
                            IF U = {} THEN PassBegins(executed)
                            ELSE Considered(g[U \ {Max(U)}], seq[Max(U)], held0, limit)]
           iter == CHOOSE g : Rec(g)
<1>1. PICK g : /\ g = [U \in SUBSET (1 .. n) |-> g[U]]
               /\ \A U \in SUBSET (1 .. n) : PassStep(g, U, seq, held0, limit, executed)
  BY PassExists
<1>2. Rec(g)
  <2>1. /\ g = [U \in SUBSET DOMAIN seq |-> g[U]]
        /\ \A U \in SUBSET DOMAIN seq : PassStep(g, U, seq, held0, limit, executed)
    BY <1>0, <1>1
  <2> QED  BY <2>1, Zenon DEF PassStep
<1>3. Rec(iter)
  <2> HIDE DEF Rec
  <2> QED  BY <1>2, Zenon
<1>4. ProcessCycle(cands, held0, limit, executed) = iter[DOMAIN seq]
  BY Zenon DEF ProcessCycle, FoldLeft, MapThenFoldSet, seq
<1>5. \A U \in SUBSET DOMAIN seq :
         iter[U] = IF U = {} THEN PassBegins(executed)
                   ELSE Considered(iter[U \ {Max(U)}], seq[Max(U)], held0, limit)
  <2> HIDE DEF iter
  <2> QED  BY <1>3
<1> HIDE DEF iter
<1> DEFINE a == [k \in 0 .. n |-> iter[1 .. k]]
<1>6. a[0] = PassBegins(executed)
  <2>1. iter[{}] = PassBegins(executed)
    BY <1>5
  <2>2. 1 .. 0 = {}
    OBVIOUS
  <2> QED  BY <2>1, <2>2
<1>7. \A k \in 1 .. n : a[k] = Considered(a[k - 1], seq[k], held0, limit)
  <2> SUFFICES ASSUME NEW k \in 1 .. n  PROVE a[k] = Considered(a[k - 1], seq[k], held0, limit)
    OBVIOUS
  <2> DEFINE U == 1 .. k
  <2>1. U \in SUBSET DOMAIN seq /\ U # {} /\ U \in SUBSET (0 .. n)
    <3>1. k \in Nat /\ k <= n /\ 1 <= k
      OBVIOUS
    <3>2. U \subseteq 1 .. n /\ 1 \in U /\ U \subseteq 0 .. n
      BY <3>1
    <3> HIDE DEF U
    <3> QED  BY <1>0, <3>2
  <2>2. Max(U) = k
    <3>1. Max(U) \in U /\ \A j \in U : j <= Max(U)
      BY <2>1, MaxBelow
    <3> QED  BY <3>1
  <2>3. U \ {k} = 1 .. k - 1
    OBVIOUS
  <2>4. a[k] = iter[U] /\ a[k - 1] = iter[1 .. k - 1]
    OBVIOUS
  <2> HIDE DEF a, U
  <2>5. iter[U] = Considered(iter[U \ {Max(U)}], seq[Max(U)], held0, limit)
    BY <1>5, <2>1
  <2> QED  BY <2>2, <2>3, <2>4, <2>5
<1>8. a[n] = iter[1 .. n]
  OBVIOUS
<1> HIDE DEF a
<1>9. ProcessCycle(cands, held0, limit, executed) = a[n]
  BY <1>0, <1>4, <1>8
<1>10. /\ a[0] = PassBegins(executed)
       /\ \A k \in 1 .. n : a[k] = Considered(a[k - 1], ByPriority(cands)[k], held0, limit)
       /\ ProcessCycle(cands, held0, limit, executed) = a[n]
  BY <1>6, <1>7, <1>9 DEF seq
<1> QED  BY <1>10

----------------------------------------------------------------------------
\* A call of the filter, and what it has returned.
Called ==
    /\ asked.cands \in Seq(Candidates)
    /\ asked.held \subseteq Symbols
    /\ asked.limit \in Nat
    /\ asked.executed \in Nat
    /\ decided = ProcessCycle(Numbered(asked.cands), asked.held, asked.limit, asked.executed)

Size == Len(asked.cands)
List == Numbered(asked.cands)

LEMMA ListFacts ==
    ASSUME Called
    PROVE  /\ Size \in Nat /\ DOMAIN asked.cands = 1 .. Size /\ DOMAIN List = 1 .. Size
           /\ \A i \in 1 .. Size :
                 /\ List[i].rule = i /\ List[i].symbol = asked.cands[i].symbol
                 /\ List[i].side = asked.cands[i].side /\ List[i].amount = asked.cands[i].amount
                 /\ List[i].priority = asked.cands[i].priority
                 /\ asked.cands[i].symbol \in Symbols /\ asked.cands[i].side \in {"BUY", "SELL"}
                 /\ asked.cands[i].amount \in Nat /\ asked.cands[i].priority \in Int
           /\ Prioritised(List) /\ Prioritised(asked.cands)
           /\ \A i, j \in 1 .. Size : Before(List, i, j) <=> Before(asked.cands, i, j)
           /\ IsFiniteSet(asked.held) /\ Cardinality(asked.held) \in Nat
           /\ asked.limit \in Nat /\ asked.executed \in Nat
PROOF
<1>1. Size \in Nat /\ DOMAIN asked.cands = 1 .. Size /\ \A i \in 1 .. Size : asked.cands[i] \in Candidates
  BY DEF Called, Size
<1>2. \A c \in Candidates : /\ c.symbol \in Symbols /\ c.side \in {"BUY", "SELL"}
                             /\ c.amount \in Nat /\ c.priority \in Int
  BY SelectionAssumption DEF Candidates, Sides
<1>3. \A c \in Candidates : \A i :
         /\ [c EXCEPT !.rule = i].rule = i /\ [c EXCEPT !.rule = i].symbol = c.symbol
         /\ [c EXCEPT !.rule = i].side = c.side /\ [c EXCEPT !.rule = i].amount = c.amount
         /\ [c EXCEPT !.rule = i].priority = c.priority
  BY DEF Candidates
<1>4. List = [i \in 1 .. Size |-> [asked.cands[i] EXCEPT !.rule = i]]
  BY <1>1 DEF List, Numbered
<1>5. DOMAIN List = 1 .. Size /\ \A i \in 1 .. Size : List[i] = [asked.cands[i] EXCEPT !.rule = i]
  BY <1>4
<1>6. \A i \in 1 .. Size :
         /\ List[i].rule = i /\ List[i].symbol = asked.cands[i].symbol
         /\ List[i].side = asked.cands[i].side /\ List[i].amount = asked.cands[i].amount
         /\ List[i].priority = asked.cands[i].priority
         /\ asked.cands[i].symbol \in Symbols /\ asked.cands[i].side \in {"BUY", "SELL"}
         /\ asked.cands[i].amount \in Nat /\ asked.cands[i].priority \in Int
  <2> SUFFICES ASSUME NEW i \in 1 .. Size
               PROVE /\ List[i].rule = i /\ List[i].symbol = asked.cands[i].symbol
                     /\ List[i].side = asked.cands[i].side /\ List[i].amount = asked.cands[i].amount
                     /\ List[i].priority = asked.cands[i].priority
                     /\ asked.cands[i].symbol \in Symbols /\ asked.cands[i].side \in {"BUY", "SELL"}
                     /\ asked.cands[i].amount \in Nat /\ asked.cands[i].priority \in Int
    BY Zenon
  <2> DEFINE c == asked.cands[i]
  <2>1. c \in Candidates /\ List[i] = [c EXCEPT !.rule = i]
    BY <1>1, <1>5
  <2> HIDE DEF c
  <2>2. /\ List[i].rule = i /\ List[i].symbol = c.symbol
        /\ List[i].side = c.side /\ List[i].amount = c.amount
        /\ List[i].priority = c.priority
        /\ c.symbol \in Symbols /\ c.side \in {"BUY", "SELL"}
        /\ c.amount \in Nat /\ c.priority \in Int
    <3> DEFINE e == [c EXCEPT !.rule = i]
    <3>1. /\ e.rule = i /\ e.symbol = c.symbol /\ e.side = c.side /\ e.amount = c.amount
          /\ e.priority = c.priority
      BY <1>3, <2>1
    <3>2. List[i] = e
      BY <2>1
    <3> HIDE DEF e
    <3> QED  BY <1>2, <2>1, <3>1, <3>2
  <2> QED  BY <2>2, Zenon DEF c
<1>7. Prioritised(List) /\ Prioritised(asked.cands)
  BY <1>1, <1>5, <1>6 DEF Prioritised
<1>8. \A i, j \in 1 .. Size : Before(List, i, j) <=> Before(asked.cands, i, j)
  BY <1>6, Zenon DEF Before
<1>9. /\ IsFiniteSet(asked.held) /\ Cardinality(asked.held) \in Nat
      /\ asked.limit \in Nat /\ asked.executed \in Nat
  BY SelectionAssumption, FS_Subset, FS_CardinalityType DEF Called
<1> QED  BY <1>1, <1>5, <1>6, <1>7, <1>8, <1>9

\* A state of the pass, field by field.
PassAt(s, d, b, a, g) == [selected |-> s, dropped |-> d, buySymbols |-> b, added |-> a, budget |-> g]

LEMMA PassUpdates ==
    ASSUME NEW s, NEW d, NEW b, NEW a, NEW g, NEW x
    PROVE  /\ [PassAt(s, d, b, a, g) EXCEPT !.selected = x] = PassAt(x, d, b, a, g)
           /\ [PassAt(s, d, b, a, g) EXCEPT !.dropped = x] = PassAt(s, x, b, a, g)
           /\ [PassAt(s, d, b, a, g) EXCEPT !.buySymbols = x] = PassAt(s, d, x, a, g)
           /\ [PassAt(s, d, b, a, g) EXCEPT !.added = x] = PassAt(s, d, b, x, g)
           /\ [PassAt(s, d, b, a, g) EXCEPT !.budget = x] = PassAt(s, d, b, a, x)
           /\ PassAt(s, d, b, a, g).selected = s /\ PassAt(s, d, b, a, g).dropped = d
           /\ PassAt(s, d, b, a, g).buySymbols = b /\ PassAt(s, d, b, a, g).added = a
           /\ PassAt(s, d, b, a, g).budget = g
BY DEF PassAt

\* What considering c makes of it, with the answer reason.
AfterPass(s, d, b, a, g, c, reason) ==
    IF reason # "NONE" THEN PassAt(s, Append(d, <<c, reason>>), b, a, g)
    ELSE IF c.side = "BUY"
    THEN PassAt(Append(s, c), d, b \union {c.symbol}, a + 1, g + c.amount)
    ELSE PassAt(Append(s, c), d, b, a, g)

LEMMA ConsideredIs ==
    ASSUME NEW s, NEW d, NEW b, NEW a, NEW g, NEW c, NEW held0, NEW limit
    PROVE  Considered(PassAt(s, d, b, a, g), c, held0, limit) =
              AfterPass(s, d, b, a, g, c, Objection(c, held0, PassAt(s, d, b, a, g), limit))
PROOF
<1> DEFINE acc == PassAt(s, d, b, a, g)
           reason == Objection(c, held0, acc, limit)
           xs == Append(acc.selected, c)
           xd == Append(acc.dropped, <<c, reason>>)
           xb == acc.buySymbols \union {c.symbol}
           xa == acc.added + 1
           xg == acc.budget + c.amount
<1>1. Considered(acc, c, held0, limit) =
         IF reason # "NONE" THEN [acc EXCEPT !.dropped = xd]
         ELSE IF c.side = "BUY"
         THEN [acc EXCEPT !.selected = xs, !.buySymbols = xb, !.added = xa, !.budget = xg]
         ELSE [acc EXCEPT !.selected = xs]
  BY Zenon DEF Considered
<1>2. /\ xs = Append(s, c) /\ xd = Append(d, <<c, reason>>) /\ xb = b \union {c.symbol}
      /\ xa = a + 1 /\ xg = g + c.amount
  BY PassUpdates
<1> HIDE DEF reason, xs, xd, xb, xa, xg
<1>3. /\ [acc EXCEPT !.dropped = xd] = PassAt(s, xd, b, a, g)
      /\ [acc EXCEPT !.selected = xs] = PassAt(xs, d, b, a, g)
  BY PassUpdates
<1>4. [acc EXCEPT !.selected = xs, !.buySymbols = xb, !.added = xa, !.budget = xg]
         = PassAt(xs, d, xb, xa, xg)
  <2> DEFINE r1 == PassAt(xs, d, b, a, g)
             r2 == PassAt(xs, d, xb, a, g)
             r3 == PassAt(xs, d, xb, xa, g)
             r4 == PassAt(xs, d, xb, xa, xg)
  <2>1. [acc EXCEPT !.selected = xs] = r1
    BY PassUpdates
  <2>2. [r1 EXCEPT !.buySymbols = xb] = r2
    BY PassUpdates
  <2>3. [r2 EXCEPT !.added = xa] = r3
    BY PassUpdates
  <2>4. [r3 EXCEPT !.budget = xg] = r4
    BY PassUpdates
  <2> HIDE DEF acc, r1, r2, r3, r4
  <2>5. [acc EXCEPT !.selected = xs, !.buySymbols = xb, !.added = xa, !.budget = xg] = r4
    BY <2>1, <2>2, <2>3, <2>4
  <2> QED  BY <2>5 DEF r4
<1>5. Considered(acc, c, held0, limit) =
         IF reason # "NONE" THEN PassAt(s, xd, b, a, g)
         ELSE IF c.side = "BUY" THEN PassAt(xs, d, xb, xa, xg) ELSE PassAt(xs, d, b, a, g)
  BY <1>1, <1>3, <1>4, Zenon
<1> QED  BY <1>2, <1>5, Zenon DEF reason, AfterPass

\* The candidates of a list of selected, and of a list of dropped ones.
Places(s) == [x \in DOMAIN s |-> s[x].rule]
DroppedPlaces(d) == [x \in DOMAIN d |-> d[x][1].rule]

LEMMA PlacesAppend ==
    ASSUME NEW D, NEW s \in Seq(D), NEW c \in D
    PROVE  Places(Append(s, c)) = Append(Places(s), c.rule)
PROOF
<1>1. /\ Len(s) \in Nat /\ DOMAIN s = 1 .. Len(s) /\ Append(s, c) \in Seq(D)
      /\ DOMAIN Append(s, c) = 1 .. Len(s) + 1
      /\ \A x \in 1 .. Len(s) : Append(s, c)[x] = s[x]
      /\ Append(s, c)[Len(s) + 1] = c
  OBVIOUS
<1> DEFINE R == {s[x].rule : x \in 1 .. Len(s)} \union {c.rule}
           t == Places(s)
           u == Places(Append(s, c))
<1>2. t \in Seq(R) /\ Len(t) = Len(s) /\ \A x \in 1 .. Len(s) : t[x] = s[x].rule
  <2>1. t = [x \in 1 .. Len(s) |-> s[x].rule]
    BY <1>1 DEF Places
  <2>2. t \in [1 .. Len(s) -> R]
    BY <2>1
  <2> QED  BY <1>1, <2>1, <2>2, FunctionIsSeq
<1>3. u \in Seq(R) /\ Len(u) = Len(s) + 1
      /\ \A x \in 1 .. Len(s) + 1 : u[x] = Append(s, c)[x].rule
  <2>1. u = [x \in 1 .. Len(s) + 1 |-> Append(s, c)[x].rule]
    BY <1>1 DEF Places
  <2>2. \A x \in 1 .. Len(s) + 1 : Append(s, c)[x].rule \in R
    <3> SUFFICES ASSUME NEW x \in 1 .. Len(s) + 1  PROVE Append(s, c)[x].rule \in R
      OBVIOUS
    <3>1. CASE x \in 1 .. Len(s)  BY <1>1, <3>1
    <3>2. CASE x = Len(s) + 1  BY <1>1, <3>2
    <3> QED  BY <1>1, <3>1, <3>2
  <2>3. u \in [1 .. Len(s) + 1 -> R]
    BY <2>1, <2>2
  <2>4. Len(s) + 1 \in Nat
    BY <1>1
  <2> HIDE DEF u, R
  <2>5. u \in Seq(R) /\ Len(u) = Len(s) + 1
    BY <2>3, <2>4, FunctionIsSeq
  <2> QED  BY <2>1, <2>5
<1> HIDE DEF t, u
<1>4. Append(t, c.rule) \in Seq(R) /\ Len(Append(t, c.rule)) = Len(s) + 1
      /\ \A x \in 1 .. Len(s) : Append(t, c.rule)[x] = t[x]
      /\ Append(t, c.rule)[Len(s) + 1] = c.rule
  <2>1. c.rule \in R
    OBVIOUS
  <2> HIDE DEF R
  <2> QED  BY <1>1, <1>2, <2>1
<1>5. \A x \in 1 .. Len(s) + 1 : u[x] = Append(t, c.rule)[x]
  <2> SUFFICES ASSUME NEW x \in 1 .. Len(s) + 1  PROVE u[x] = Append(t, c.rule)[x]
    OBVIOUS
  <2>1. CASE x \in 1 .. Len(s)
    BY <1>1, <1>2, <1>3, <1>4, <2>1
  <2>2. CASE x = Len(s) + 1
    BY <1>1, <1>3, <1>4, <2>2
  <2>3. x \in 1 .. Len(s) \/ x = Len(s) + 1
    <3> DEFINE n == Len(s)
    <3>1. n \in Nat /\ x \in 1 .. n + 1
      BY <1>1
    <3> HIDE DEF n
    <3>2. x \in 1 .. n \/ x = n + 1
      BY <3>1
    <3> QED  BY <3>2 DEF n
  <2> QED  BY <2>1, <2>2, <2>3
<1>6. u = Append(t, c.rule)
  <2> HIDE DEF R
  <2>1. u = [x \in 1 .. Len(s) + 1 |-> u[x]] /\ Append(t, c.rule) = [x \in 1 .. Len(s) + 1 |-> Append(t, c.rule)[x]]
    BY <1>3, <1>4
  <2> QED  BY <1>5, <2>1
<1> QED  BY <1>6 DEF t, u

LEMMA DroppedAppend ==
    ASSUME NEW D, NEW d \in Seq(D), NEW c, NEW reason, <<c, reason>> \in D
    PROVE  DroppedPlaces(Append(d, <<c, reason>>)) = Append(DroppedPlaces(d), c.rule)
PROOF
<1> DEFINE e == <<c, reason>>
<1>0. e \in D /\ e[1] = c
  OBVIOUS
<1> HIDE DEF e
<1>1. /\ Len(d) \in Nat /\ DOMAIN d = 1 .. Len(d) /\ Append(d, e) \in Seq(D)
      /\ DOMAIN Append(d, e) = 1 .. Len(d) + 1
      /\ \A x \in 1 .. Len(d) : Append(d, e)[x] = d[x]
      /\ Append(d, e)[Len(d) + 1] = e
  BY <1>0
<1> DEFINE R == {d[x][1].rule : x \in 1 .. Len(d)} \union {c.rule}
           t == DroppedPlaces(d)
           u == DroppedPlaces(Append(d, e))
           n == Len(d)
<1>2. t \in Seq(R) /\ Len(t) = n /\ \A x \in 1 .. n : t[x] = d[x][1].rule
  <2>1. t = [x \in 1 .. n |-> d[x][1].rule]
    BY <1>1 DEF DroppedPlaces
  <2>2. t \in [1 .. n -> R]
    BY <2>1
  <2> QED  BY <1>1, <2>1, <2>2, FunctionIsSeq
<1>3. u \in Seq(R) /\ Len(u) = n + 1 /\ \A x \in 1 .. n + 1 : u[x] = Append(d, e)[x][1].rule
  <2>1. u = [x \in 1 .. n + 1 |-> Append(d, e)[x][1].rule]
    BY <1>1 DEF DroppedPlaces
  <2>2. \A x \in 1 .. n + 1 : Append(d, e)[x][1].rule \in R
    <3> SUFFICES ASSUME NEW x \in 1 .. n + 1  PROVE Append(d, e)[x][1].rule \in R
      OBVIOUS
    <3>1. CASE x \in 1 .. n  BY <1>1, <3>1
    <3>2. CASE x = n + 1  BY <1>0, <1>1, <3>2
    <3> QED  BY <1>1, <3>1, <3>2
  <2>3. u \in [1 .. n + 1 -> R]
    BY <2>1, <2>2
  <2>4. n + 1 \in Nat
    BY <1>1
  <2> HIDE DEF u, R
  <2>5. u \in Seq(R) /\ Len(u) = n + 1
    BY <2>3, <2>4, FunctionIsSeq
  <2> QED  BY <2>1, <2>5
<1> HIDE DEF t, u
<1>4. Append(t, c.rule) \in Seq(R) /\ Len(Append(t, c.rule)) = n + 1
      /\ \A x \in 1 .. n : Append(t, c.rule)[x] = t[x]
      /\ Append(t, c.rule)[n + 1] = c.rule
  <2>1. c.rule \in R
    OBVIOUS
  <2> HIDE DEF R
  <2> QED  BY <1>1, <1>2, <2>1
<1>5. \A x \in 1 .. n + 1 : u[x] = Append(t, c.rule)[x]
  <2> SUFFICES ASSUME NEW x \in 1 .. n + 1  PROVE u[x] = Append(t, c.rule)[x]
    OBVIOUS
  <2>1. CASE x \in 1 .. n
    BY <1>1, <1>2, <1>3, <1>4, <2>1
  <2>2. CASE x = n + 1
    BY <1>0, <1>1, <1>3, <1>4, <2>2
  <2>3. x \in 1 .. n \/ x = n + 1
    <3>1. n \in Nat
      BY <1>1
    <3> HIDE DEF n
    <3> QED  BY <3>1
  <2> QED  BY <2>1, <2>2, <2>3
<1>6. u = Append(t, c.rule)
  <2> HIDE DEF R
  <2>1. /\ u = [x \in 1 .. n + 1 |-> u[x]]
        /\ Append(t, c.rule) = [x \in 1 .. n + 1 |-> Append(t, c.rule)[x]]
    BY <1>3, <1>4
  <2> QED  BY <1>5, <2>1
<1> QED  BY <1>6 DEF t, u, e

----------------------------------------------------------------------------
\* The candidates in D have been considered: those of ch were selected, those of rf not.
Parted(ch, rf, D) ==
    /\ ch \in Seq(1 .. Size) /\ rf \in Seq(1 .. Size)
    /\ IsInjective(ch) /\ IsInjective(rf)
    /\ ToSet(ch) \union ToSet(rf) = D /\ ToSet(ch) \intersect ToSet(rf) = {}
    /\ \A x, y \in DOMAIN ch : x < y => Before(asked.cands, ch[x], ch[y])

\* What the pass has counted agrees with what it has selected.
Tallied(C, b, a, g) ==
    /\ b = {asked.cands[i].symbol : i \in BuysOf(C)}
    /\ a = Cardinality(BuysOf(C))
    /\ g = asked.executed + AmountOfAll(BuysOf(C))

Greedily(C, D) ==
    \A i \in D : i \in C <=> Acceptable(i, {j \in C : Before(asked.cands, j, i)})

Fits(C) ==
    /\ BuysOf(C) # {} =>
          /\ Cardinality(asked.held) + Cardinality(BuysOf(C)) <= MaxPositions
          /\ asked.executed + AmountOfAll(BuysOf(C)) <= asked.limit
    /\ \A i \in BuysOf(C) : /\ asked.cands[i].symbol \notin asked.held
                             /\ \A j \in BuysOf(C) \ {i} :
                                   asked.cands[i].symbol # asked.cands[j].symbol
    /\ \A i \in C : asked.cands[i].side = "SELL" => asked.cands[i].symbol \in asked.held

LEMMA PartedStep ==
    ASSUME Called, NEW ch, NEW rf, NEW D, Parted(ch, rf, D),
           NEW i \in 1 .. Size, i \notin D, \A m \in D : Before(asked.cands, m, i)
    PROVE  /\ Parted(Append(ch, i), rf, D \union {i})
           /\ Parted(ch, Append(rf, i), D \union {i})
           /\ ToSet(Append(ch, i)) = ToSet(ch) \union {i}
PROOF
<1>1. /\ ch \in Seq(1 .. Size) /\ rf \in Seq(1 .. Size)
      /\ IsInjective(ch) /\ IsInjective(rf)
      /\ ToSet(ch) \union ToSet(rf) = D /\ ToSet(ch) \intersect ToSet(rf) = {}
      /\ \A x, y \in DOMAIN ch : x < y => Before(asked.cands, ch[x], ch[y])
  BY Zenon DEF Parted
<1>2. i \notin ToSet(ch) /\ i \notin ToSet(rf)
  BY <1>1
<1>3. /\ Append(ch, i) \in Seq(1 .. Size) /\ ToSet(Append(ch, i)) = ToSet(ch) \union {i}
      /\ IsInjective(Append(ch, i))
  BY <1>1, <1>2, AppendFacts
<1>4. /\ Append(rf, i) \in Seq(1 .. Size) /\ ToSet(Append(rf, i)) = ToSet(rf) \union {i}
      /\ IsInjective(Append(rf, i))
  BY <1>1, <1>2, AppendFacts
<1>5. \A x, y \in DOMAIN Append(ch, i) : x < y => Before(asked.cands, Append(ch, i)[x], Append(ch, i)[y])
  <2> DEFINE n == Len(ch)
             u == Append(ch, i)
  <2>1. /\ n \in Nat /\ DOMAIN ch = 1 .. n /\ DOMAIN u = 1 .. n + 1
        /\ \A x \in 1 .. n : u[x] = ch[x] /\ ch[x] \in ToSet(ch)
        /\ u[n + 1] = i
    BY <1>1 DEF ToSet
  <2> HIDE DEF n, u
  <2>2. ASSUME NEW x \in DOMAIN u, NEW y \in DOMAIN u, x < y  PROVE Before(asked.cands, u[x], u[y])
    <3>1. x \in 1 .. n
      BY <2>1, <2>2
    <3>2. CASE y = n + 1
      <4>1. u[x] \in D
        BY <1>1, <2>1, <3>1
      <4> QED  BY <2>1, <3>2, <4>1
    <3>3. CASE y # n + 1
      <4>1. y \in 1 .. n
        BY <2>1, <3>3
      <4> QED  BY <1>1, <2>1, <2>2, <3>1, <4>1
    <3> QED  BY <3>2, <3>3
  <2> QED  BY <2>2 DEF u
<1>6. /\ (ToSet(ch) \union {i}) \union ToSet(rf) = D \union {i}
      /\ (ToSet(ch) \union {i}) \intersect ToSet(rf) = {}
      /\ ToSet(ch) \union (ToSet(rf) \union {i}) = D \union {i}
      /\ ToSet(ch) \intersect (ToSet(rf) \union {i}) = {}
  BY <1>1, <1>2
<1>7. Parted(Append(ch, i), rf, D \union {i})
  BY <1>1, <1>3, <1>5, <1>6, Zenon DEF Parted
<1>8. Parted(ch, Append(rf, i), D \union {i})
  BY <1>1, <1>4, <1>6, Zenon DEF Parted
<1> QED  BY <1>3, <1>7, <1>8

\* The selected purchases: a finite set, with a sum.
LEMMA BuyFacts ==
    ASSUME Called, NEW C, C \subseteq 1 .. Size
    PROVE  /\ BuysOf(C) \subseteq C /\ IsFiniteSet(BuysOf(C)) /\ Cardinality(BuysOf(C)) \in Nat
           /\ AmountOfAll(BuysOf(C)) \in Int
           /\ \A i \in 1 .. Size : i \notin C =>
                 /\ asked.cands[i].side # "BUY" => BuysOf(C \union {i}) = BuysOf(C)
                 /\ asked.cands[i].side = "BUY" =>
                      /\ BuysOf(C \union {i}) = BuysOf(C) \union {i}
                      /\ Cardinality(BuysOf(C) \union {i}) = Cardinality(BuysOf(C)) + 1
                 /\ AmountOfAll(BuysOf(C) \union {i}) = asked.cands[i].amount + AmountOfAll(BuysOf(C))
PROOF
<1> DEFINE w == [i \in DOMAIN asked.cands |-> asked.cands[i].amount]
           B == BuysOf(C)
<1>1. /\ Size \in Nat /\ DOMAIN asked.cands = 1 .. Size
      /\ \A i \in 1 .. Size : asked.cands[i].amount \in Nat
  BY ListFacts
<1>2. B \subseteq C /\ \A i \in B : asked.cands[i].side = "BUY"
  BY DEF BuysOf
<1>3. IsFiniteSet(B) /\ Cardinality(B) \in Nat /\ B \subseteq 1 .. Size
  <2>1. IsFiniteSet(1 .. Size)
    BY <1>1, FS_Interval
  <2>2. B \subseteq 1 .. Size
    BY <1>2
  <2> HIDE DEF B
  <2> QED  BY <2>1, <2>2, FS_Subset, FS_CardinalityType
<1>4. \A i \in 1 .. Size : w[i] = asked.cands[i].amount /\ w[i] \in Int
  BY <1>1
<1>5. \A S : AmountOfAll(S) = SumOver(w, S)
  BY Zenon DEF AmountOfAll
<1> HIDE DEF w
<1>6. AmountOfAll(B) \in Int
  <2> HIDE DEF B
  <2>1. SumOver(w, B) \in Int
    BY <1>3, <1>4, SumInt
  <2> QED  BY <1>5, <2>1
<1>7. ASSUME NEW i \in 1 .. Size, i \notin C
      PROVE  /\ asked.cands[i].side # "BUY" => BuysOf(C \union {i}) = B
             /\ asked.cands[i].side = "BUY" =>
                  /\ BuysOf(C \union {i}) = B \union {i}
                  /\ Cardinality(B \union {i}) = Cardinality(B) + 1
             /\ AmountOfAll(B \union {i}) = asked.cands[i].amount + AmountOfAll(B)
  <2>1. asked.cands[i].side # "BUY" => BuysOf(C \union {i}) = B
    BY DEF BuysOf
  <2>2. asked.cands[i].side = "BUY" => BuysOf(C \union {i}) = B \union {i}
    BY DEF BuysOf
  <2>3. i \notin B
    BY <1>2, <1>7
  <2> HIDE DEF B
  <2>4. Cardinality(B \union {i}) = Cardinality(B) + 1
    BY <1>3, <2>3, FS_AddElement
  <2>5. SumOver(w, B \union {i}) = w[i] + SumOver(w, B)
    BY <1>3, <1>4, <2>3, SumAdd
  <2>6. AmountOfAll(B \union {i}) = asked.cands[i].amount + AmountOfAll(B)
    BY <1>4, <1>5, <2>5
  <2> QED  BY <2>1, <2>2, <2>4, <2>6
<1> QED  BY <1>2, <1>3, <1>6, <1>7

\* The filter objects to what is not acceptable.
LEMMA ObjectionIff ==
    ASSUME Called, NEW C, C \subseteq 1 .. Size, NEW i \in 1 .. Size, i \notin C,
           NEW s, NEW d, NEW b, NEW a, NEW g, Tallied(C, b, a, g)
    PROVE  /\ Objection(List[i], asked.held, PassAt(s, d, b, a, g), asked.limit) = "NONE"
                <=> Acceptable(i, C)
           /\ Objection(List[i], asked.held, PassAt(s, d, b, a, g), asked.limit) \in
                {"NONE", "DUPLICATE_SYMBOL", "MAX_POSITIONS", "DAILY_BUDGET_EXCEEDED", "SELL_NO_HOLDING"}
PROOF
<1> DEFINE c == List[i]
           acc == PassAt(s, d, b, a, g)
           o == Objection(c, asked.held, acc, asked.limit)
           m == asked.cands[i].amount
           sum == AmountOfAll(BuysOf(C))
           h == Cardinality(asked.held)
           q == Cardinality(BuysOf(C))
<1>1. /\ c.symbol = asked.cands[i].symbol /\ c.side = asked.cands[i].side /\ c.amount = m
      /\ c.side \in {"BUY", "SELL"} /\ m \in Nat /\ h \in Nat
      /\ asked.limit \in Nat /\ asked.executed \in Nat
  BY ListFacts
<1>2. acc.buySymbols = b /\ acc.added = a /\ acc.budget = g
  BY PassUpdates
<1>3. /\ b = {asked.cands[j].symbol : j \in BuysOf(C)}
      /\ a = q /\ g = asked.executed + sum
  BY Zenon DEF Tallied
<1>4. sum \in Int /\ q \in Nat /\ AmountOfAll(BuysOf(C) \union {i}) = m + sum
  BY BuyFacts
<1>5. o = IF c.side = "BUY"
          THEN (IF c.symbol \in asked.held \union acc.buySymbols THEN "DUPLICATE_SYMBOL"
                ELSE IF h + acc.added >= MaxPositions THEN "MAX_POSITIONS"
                ELSE IF acc.budget + c.amount > asked.limit THEN "DAILY_BUDGET_EXCEEDED"
                ELSE "NONE")
          ELSE IF c.symbol \in asked.held THEN "NONE" ELSE "SELL_NO_HOLDING"
  BY Zenon DEF Objection, CheckBuy, CheckSell, Duplicate, NoRoom, OverBudget
<1>6. Acceptable(i, C) <=>
         IF asked.cands[i].side = "SELL" THEN asked.cands[i].symbol \in asked.held
         ELSE /\ asked.cands[i].symbol \notin asked.held
              /\ \A j \in BuysOf(C) : asked.cands[j].symbol # asked.cands[i].symbol
              /\ h + q < MaxPositions
              /\ asked.executed + AmountOfAll(BuysOf(C) \union {i}) <= asked.limit
  BY Zenon DEF Acceptable
<1>7. h + a >= MaxPositions <=> ~(h + q < MaxPositions)
  BY <1>1, <1>3, <1>4, MaxPositionsAssumption
<1>8. g + m > asked.limit <=> ~(asked.executed + AmountOfAll(BuysOf(C) \union {i}) <= asked.limit)
  <2> HIDE DEF sum, m
  <2> QED  BY <1>1, <1>3, <1>4
<1>9. asked.cands[i].symbol \in asked.held \union b <=>
         ~(/\ asked.cands[i].symbol \notin asked.held
           /\ \A j \in BuysOf(C) : asked.cands[j].symbol # asked.cands[i].symbol)
  BY <1>3
<1> HIDE DEF c, acc, m, sum, h, q
<1>10. o = "NONE" <=> Acceptable(i, C)
  <2>1. CASE c.side = "BUY"
    <3>1. asked.cands[i].side # "SELL"
      BY <1>1, <2>1
    <3>2. o = IF asked.cands[i].symbol \in asked.held \union b THEN "DUPLICATE_SYMBOL"
              ELSE IF h + a >= MaxPositions THEN "MAX_POSITIONS"
              ELSE IF g + m > asked.limit THEN "DAILY_BUDGET_EXCEEDED"
              ELSE "NONE"
      BY <1>1, <1>2, <1>5, <2>1, Zenon
    <3>3. o = "NONE" <=> /\ ~(asked.cands[i].symbol \in asked.held \union b)
                         /\ ~(h + a >= MaxPositions) /\ ~(g + m > asked.limit)
      <4> HIDE DEF o
      <4> DEFINE P == asked.cands[i].symbol \in asked.held \union b
                 Q == h + a >= MaxPositions
                 R == g + m > asked.limit
      <4>1. o = IF P THEN "DUPLICATE_SYMBOL" ELSE IF Q THEN "MAX_POSITIONS"
                ELSE IF R THEN "DAILY_BUDGET_EXCEEDED" ELSE "NONE"
        BY <3>2, Zenon
      <4> HIDE DEF P, Q, R
      <4>2. o = "NONE" <=> ~P /\ ~Q /\ ~R
        BY <4>1
      <4> QED  BY <4>2 DEF P, Q, R
    <3> HIDE DEF o
    <3> QED  BY <1>6, <1>7, <1>8, <1>9, <3>1, <3>3, Zenon
  <2>2. CASE ~(c.side = "BUY")
    <3>1. asked.cands[i].side = "SELL"
      BY <1>1, <2>2
    <3>2. o = IF asked.cands[i].symbol \in asked.held THEN "NONE" ELSE "SELL_NO_HOLDING"
      BY <1>1, <1>5, <2>2, Zenon
    <3> HIDE DEF o
    <3>3. o = "NONE" <=> asked.cands[i].symbol \in asked.held
      BY <3>2
    <3> QED  BY <1>6, <3>1, <3>3, Zenon
  <2> QED  BY <2>1, <2>2
<1>11. o \in {"NONE", "DUPLICATE_SYMBOL", "MAX_POSITIONS", "DAILY_BUDGET_EXCEEDED", "SELL_NO_HOLDING"}
  <2> HIDE DEF o
  <2> QED  BY <1>5, Zenon
<1> QED  BY <1>10, <1>11 DEF o, c, acc

\* Where candidates of D come before i, the decision on i completes the greedy selection.
LEMMA GreedyStep ==
    ASSUME Called, NEW C, NEW D, C \subseteq D, D \subseteq 1 .. Size, Greedily(C, D),
           NEW i \in 1 .. Size, i \notin D, \A m \in D : Before(asked.cands, m, i)
    PROVE  /\ Acceptable(i, C) => Greedily(C \union {i}, D \union {i})
           /\ ~Acceptable(i, C) => Greedily(C, D \union {i})
PROOF
<1>1. ~Before(asked.cands, i, i) /\ \A m \in D : ~Before(asked.cands, i, m)
  <2>1. Prioritised(asked.cands) /\ DOMAIN asked.cands = 1 .. Size /\ 1 .. Size \subseteq Nat
    BY ListFacts
  <2> QED  BY <2>1, BeforeFacts
<1>2. {j \in C : Before(asked.cands, j, i)} = C /\ {j \in C \union {i} : Before(asked.cands, j, i)} = C
  BY <1>1
<1>3. \A m \in D : {j \in C \union {i} : Before(asked.cands, j, m)} = {j \in C : Before(asked.cands, j, m)}
  BY <1>1
<1>4. \A m \in D : m \in C <=> Acceptable(m, {j \in C : Before(asked.cands, j, m)})
  BY Zenon DEF Greedily
<1>5. ASSUME Acceptable(i, C) PROVE Greedily(C \union {i}, D \union {i})
  <2>1. ASSUME NEW m \in D \union {i}
        PROVE  m \in C \union {i} <=> Acceptable(m, {j \in C \union {i} : Before(asked.cands, j, m)})
    <3>1. CASE m = i
      <4>1. Acceptable(i, {j \in C \union {i} : Before(asked.cands, j, i)})
        BY <1>2, <1>5
      <4> QED  BY <3>1, <4>1
    <3>2. CASE m # i
      <4>1. m \in D
        BY <3>2
      <4>2. m \in C <=> Acceptable(m, {j \in C \union {i} : Before(asked.cands, j, m)})
        BY <1>3, <1>4, <4>1
      <4> QED  BY <3>2, <4>2
    <3> QED  BY <3>1, <3>2
  <2> QED  BY <2>1, Zenon DEF Greedily
<1>6. ASSUME ~Acceptable(i, C) PROVE Greedily(C, D \union {i})
  <2>1. ASSUME NEW m \in D \union {i}
        PROVE  m \in C <=> Acceptable(m, {j \in C : Before(asked.cands, j, m)})
    <3>1. CASE m = i
      <4>1. ~Acceptable(i, {j \in C : Before(asked.cands, j, i)})
        BY <1>2, <1>6
      <4> QED  BY <3>1, <4>1
    <3>2. CASE m # i
      BY <1>4, <3>2
    <3> QED  BY <3>1, <3>2
  <2> QED  BY <2>1, Zenon DEF Greedily
<1> QED  BY <1>5, <1>6

LEMMA TallyStep ==
    ASSUME Called, NEW C, C \subseteq 1 .. Size, NEW i \in 1 .. Size, i \notin C,
           NEW b, NEW a, NEW g, Tallied(C, b, a, g)
    PROVE  /\ asked.cands[i].side = "BUY" =>
                Tallied(C \union {i}, b \union {asked.cands[i].symbol}, a + 1,
                        g + asked.cands[i].amount)
           /\ asked.cands[i].side # "BUY" => Tallied(C \union {i}, b, a, g)
PROOF
<1> DEFINE B == BuysOf(C)
           sum == AmountOfAll(B)
           m == asked.cands[i].amount
<1>1. /\ asked.executed \in Nat /\ m \in Nat
  BY ListFacts
<1>2. /\ b = {asked.cands[j].symbol : j \in B} /\ a = Cardinality(B) /\ g = asked.executed + sum
  BY Zenon DEF Tallied
<1>3. /\ sum \in Int
      /\ asked.cands[i].side # "BUY" => BuysOf(C \union {i}) = B
      /\ asked.cands[i].side = "BUY" =>
           /\ BuysOf(C \union {i}) = B \union {i} /\ Cardinality(B \union {i}) = Cardinality(B) + 1
      /\ AmountOfAll(B \union {i}) = m + sum
  BY BuyFacts
<1> HIDE DEF B, sum
<1>4. asked.cands[i].side # "BUY" => Tallied(C \union {i}, b, a, g)
  <2>1. asked.cands[i].side # "BUY" => BuysOf(C \union {i}) = B
    BY <1>3
  <2> QED  BY <1>2, <2>1, Zenon DEF Tallied, sum
<1>5. ASSUME asked.cands[i].side = "BUY"
      PROVE  Tallied(C \union {i}, b \union {asked.cands[i].symbol}, a + 1, g + m)
  <2> DEFINE E == BuysOf(C \union {i})
  <2>1. E = B \union {i} /\ Cardinality(B \union {i}) = Cardinality(B) + 1
    BY <1>3, <1>5
  <2> HIDE DEF E
  <2>2. b \union {asked.cands[i].symbol} = {asked.cands[j].symbol : j \in E}
    BY <1>2, <2>1
  <2>3. a + 1 = Cardinality(E)
    BY <1>2, <2>1
  <2>4. g + m = asked.executed + AmountOfAll(E)
    <3>1. AmountOfAll(E) = m + sum
      BY <1>3, <2>1
    <3> HIDE DEF m
    <3> QED  BY <1>1, <1>2, <1>3, <3>1
  <2> QED  BY <2>2, <2>3, <2>4, Zenon DEF Tallied, E
<1> QED  BY <1>4, <1>5

LEMMA FitsStep ==
    ASSUME Called, NEW C, C \subseteq 1 .. Size, NEW i \in 1 .. Size, i \notin C,
           Fits(C), Acceptable(i, C)
    PROVE  Fits(C \union {i})
PROOF
<1> DEFINE B == BuysOf(C)
           E == BuysOf(C \union {i})
           c == asked.cands[i]
<1>1. /\ asked.executed \in Nat /\ c.amount \in Nat /\ c.side \in {"BUY", "SELL"}
      /\ Cardinality(asked.held) \in Nat
  BY ListFacts
<1>2. /\ B \subseteq C /\ Cardinality(B) \in Nat
      /\ c.side # "BUY" => E = B
      /\ c.side = "BUY" => E = B \union {i} /\ Cardinality(B \union {i}) = Cardinality(B) + 1
  BY BuyFacts
<1>3. /\ B # {} =>
            /\ Cardinality(asked.held) + Cardinality(B) <= MaxPositions
            /\ asked.executed + AmountOfAll(B) <= asked.limit
      /\ \A k \in B : /\ asked.cands[k].symbol \notin asked.held
                       /\ \A j \in B \ {k} : asked.cands[k].symbol # asked.cands[j].symbol
      /\ \A k \in C : asked.cands[k].side = "SELL" => asked.cands[k].symbol \in asked.held
  BY Zenon DEF Fits
<1>4. IF c.side = "SELL" THEN c.symbol \in asked.held
      ELSE /\ c.symbol \notin asked.held
           /\ \A j \in B : asked.cands[j].symbol # c.symbol
           /\ Cardinality(asked.held) + Cardinality(B) < MaxPositions
           /\ asked.executed + AmountOfAll(B \union {i}) <= asked.limit
  BY Zenon DEF Acceptable
<1>5. CASE c.side = "SELL"
  <2>1. E = B
    BY <1>2, <1>5
  <2>2. c.symbol \in asked.held
    BY <1>4, <1>5
  <2>3. \A k \in C \union {i} : asked.cands[k].side = "SELL" => asked.cands[k].symbol \in asked.held
    BY <1>3, <2>2
  <2> HIDE DEF B, E, c
  <2>4. /\ E # {} =>
            /\ Cardinality(asked.held) + Cardinality(E) <= MaxPositions
            /\ asked.executed + AmountOfAll(E) <= asked.limit
        /\ \A k \in E : /\ asked.cands[k].symbol \notin asked.held
                         /\ \A j \in E \ {k} : asked.cands[k].symbol # asked.cands[j].symbol
    BY <1>3, <2>1, Zenon
  <2> QED  BY <2>3, <2>4, Zenon DEF Fits, E
<1>6. CASE c.side = "BUY"
  <2>1. E = B \union {i} /\ Cardinality(B \union {i}) = Cardinality(B) + 1
    BY <1>2, <1>6
  <2>2. /\ c.symbol \notin asked.held
        /\ \A j \in B : asked.cands[j].symbol # c.symbol
        /\ Cardinality(asked.held) + Cardinality(B) < MaxPositions
        /\ asked.executed + AmountOfAll(B \union {i}) <= asked.limit
    <3>1. c.side # "SELL"
      BY <1>6
    <3> QED  BY <1>4, <3>1, Zenon
  <2>3. \A k \in C \union {i} : asked.cands[k].side = "SELL" => asked.cands[k].symbol \in asked.held
    BY <1>3, <1>6
  <2> HIDE DEF B, E
  <2>4. Cardinality(asked.held) + Cardinality(E) <= MaxPositions
    BY <1>1, <1>2, <2>1, <2>2, MaxPositionsAssumption
  <2>5. asked.executed + AmountOfAll(E) <= asked.limit
    BY <2>1, <2>2
  <2>6. \A k \in E : /\ asked.cands[k].symbol \notin asked.held
                     /\ \A j \in E \ {k} : asked.cands[k].symbol # asked.cands[j].symbol
    BY <1>3, <2>1, <2>2
  <2> QED  BY <2>3, <2>4, <2>5, <2>6, Zenon DEF Fits, E
<1> QED  BY <1>1, <1>5, <1>6

----------------------------------------------------------------------------
Reasons == {"NONE", "DUPLICATE_SYMBOL", "MAX_POSITIONS", "DAILY_BUDGET_EXCEEDED", "SELL_NO_HOLDING"}
Listed == {List[i] : i \in 1 .. Size}

\* A state of the pass in which the candidates of D have been considered.
PassSound(acc, D) ==
    \E s, d, b, a, g :
        /\ s \in Seq(Listed) /\ d \in Seq(Listed \X Reasons)
        /\ acc = PassAt(s, d, b, a, g)
        /\ Parted(Places(s), DroppedPlaces(d), D)
        /\ Tallied(ToSet(Places(s)), b, a, g)
        /\ Greedily(ToSet(Places(s)), D)
        /\ Fits(ToSet(Places(s)))

LEMMA PassKeeps ==
    ASSUME Called, NEW acc, NEW D, D \subseteq 1 .. Size, PassSound(acc, D),
           NEW i \in 1 .. Size, i \notin D, \A m \in D : Before(asked.cands, m, i)
    PROVE  PassSound(Considered(acc, List[i], asked.held, asked.limit), D \union {i})
PROOF
<1>1. PICK s, d, b, a, g :
         /\ s \in Seq(Listed) /\ d \in Seq(Listed \X Reasons)
         /\ acc = PassAt(s, d, b, a, g)
         /\ Parted(Places(s), DroppedPlaces(d), D)
         /\ Tallied(ToSet(Places(s)), b, a, g)
         /\ Greedily(ToSet(Places(s)), D)
         /\ Fits(ToSet(Places(s)))
  BY Zenon DEF PassSound
<1>0. s \in Seq(Listed) /\ d \in Seq(Listed \X Reasons)
  BY <1>1
<1> DEFINE ch == Places(s)
           rf == DroppedPlaces(d)
           C == ToSet(ch)
           c == List[i]
           now == PassAt(s, d, b, a, g)
           o == Objection(c, asked.held, now, asked.limit)
           next == Considered(now, c, asked.held, asked.limit)
<1>2. C \subseteq D
  BY <1>1 DEF Parted
<1>3. C \subseteq 1 .. Size /\ i \notin C
  BY <1>2
<1>4. /\ c \in Listed /\ c.rule = i /\ c.symbol = asked.cands[i].symbol
      /\ c.side = asked.cands[i].side /\ c.amount = asked.cands[i].amount
  BY ListFacts DEF Listed
<1>5. (o = "NONE" <=> Acceptable(i, C)) /\ o \in Reasons
  BY <1>1, <1>3, ObjectionIff, Zenon DEF Reasons
<1>6. next = AfterPass(s, d, b, a, g, c, o)
  BY ConsideredIs
<1>7. /\ Append(s, c) \in Seq(Listed) /\ Places(Append(s, c)) = Append(ch, i)
  <2> HIDE DEF c
  <2>1. Append(s, c) \in Seq(Listed)
    BY <1>0, <1>4
  <2>2. Places(Append(s, c)) = Append(Places(s), c.rule)
    BY <1>0, <1>4, PlacesAppend, Zenon
  <2> QED  BY <1>4, <2>1, <2>2, Zenon DEF ch
<1>8. <<c, o>> \in Listed \X Reasons
  BY <1>4, <1>5
<1>9. /\ Append(d, <<c, o>>) \in Seq(Listed \X Reasons)
      /\ DroppedPlaces(Append(d, <<c, o>>)) = Append(rf, i)
  <2>1. Append(d, <<c, o>>) \in Seq(Listed \X Reasons)
    BY <1>0, <1>8
  <2> HIDE DEF c, o
  <2>2. DroppedPlaces(Append(d, <<c, o>>)) = Append(rf, c.rule)
    <3> DEFINE D0 == Listed \X Reasons
    <3>1. d \in Seq(D0) /\ <<c, o>> \in D0
      BY <1>0, <1>8
    <3> HIDE DEF D0
    <3> QED  BY <3>1, DroppedAppend
  <2> QED  BY <1>4, <2>1, <2>2
<1>10. /\ Parted(Append(ch, i), rf, D \union {i}) /\ Parted(ch, Append(rf, i), D \union {i})
       /\ ToSet(Append(ch, i)) = C \union {i}
  BY <1>1, PartedStep
<1>11. /\ Acceptable(i, C) => Greedily(C \union {i}, D \union {i})
       /\ ~Acceptable(i, C) => Greedily(C, D \union {i})
  BY <1>1, <1>2, GreedyStep
<1>12. /\ c.side = "BUY" => Tallied(C \union {i}, b \union {c.symbol}, a + 1, g + c.amount)
       /\ c.side # "BUY" => Tallied(C \union {i}, b, a, g)
  <2>1. /\ asked.cands[i].side = "BUY" =>
                Tallied(C \union {i}, b \union {asked.cands[i].symbol}, a + 1,
                        g + asked.cands[i].amount)
        /\ asked.cands[i].side # "BUY" => Tallied(C \union {i}, b, a, g)
    BY <1>1, <1>3, TallyStep
  <2> QED  BY <1>4, <2>1, Zenon
<1>13. Acceptable(i, C) => Fits(C \union {i})
  BY <1>1, <1>3, FitsStep
<1> HIDE DEF ch, rf, C, c, o, now, next
<1>14. CASE o # "NONE"
  <2> DEFINE dd == Append(d, <<c, o>>)
  <2>1. next = PassAt(s, dd, b, a, g)
    BY <1>6, <1>14, Zenon DEF AfterPass
  <2>2. dd \in Seq(Listed \X Reasons) /\ DroppedPlaces(dd) = Append(rf, i)
    BY <1>9
  <2>3. Parted(Places(s), DroppedPlaces(dd), D \union {i})
    BY <1>10, <2>2 DEF ch
  <2>4. Greedily(ToSet(Places(s)), D \union {i})
    BY <1>5, <1>11, <1>14 DEF C, ch
  <2>5. Tallied(ToSet(Places(s)), b, a, g) /\ Fits(ToSet(Places(s)))
    BY <1>1
  <2> HIDE DEF dd
  <2>6. PassSound(next, D \union {i})
    BY <1>0, <2>1, <2>2, <2>3, <2>4, <2>5, Zenon DEF PassSound
  <2> QED  BY <1>1, <2>6, Zenon DEF next, now, c
<1>15. CASE o = "NONE"
  <2> DEFINE ss == Append(s, c)
             bb == IF c.side = "BUY" THEN b \union {c.symbol} ELSE b
             aa == IF c.side = "BUY" THEN a + 1 ELSE a
             gg == IF c.side = "BUY" THEN g + c.amount ELSE g
  <2>1. next = PassAt(ss, d, bb, aa, gg)
    BY <1>6, <1>15, Zenon DEF AfterPass
  <2>2. ss \in Seq(Listed) /\ ToSet(Places(ss)) = C \union {i} /\ Places(ss) = Append(ch, i)
    BY <1>7, <1>10
  <2>3. Tallied(C \union {i}, bb, aa, gg)
    BY <1>12, Zenon
  <2>4. Parted(Places(ss), DroppedPlaces(d), D \union {i})
    BY <1>10, <2>2 DEF rf
  <2>5. Greedily(C \union {i}, D \union {i}) /\ Fits(C \union {i})
    BY <1>5, <1>11, <1>13, <1>15
  <2>7. /\ Tallied(ToSet(Places(ss)), bb, aa, gg)
        /\ Greedily(ToSet(Places(ss)), D \union {i}) /\ Fits(ToSet(Places(ss)))
    BY <2>2, <2>3, <2>5, Zenon
  <2> HIDE DEF ss, bb, aa, gg
  <2>6. PassSound(next, D \union {i})
    BY <1>0, <2>1, <2>2, <2>4, <2>7, Zenon DEF PassSound
  <2> QED  BY <1>1, <2>6, Zenon DEF next, now, c
<1> QED  BY <1>14, <1>15

LEMMA PassStarts ==
    ASSUME Called
    PROVE  PassSound(PassBegins(asked.executed), {})
PROOF
<1> DEFINE e == asked.executed
           none == <<>>
           C == ToSet(Places(none))
<1>1. PassBegins(e) = PassAt(none, none, {}, 0, e)
  BY DEF PassBegins, PassAt
<1>2. none \in Seq(Listed) /\ none \in Seq(Listed \X Reasons) /\ DOMAIN none = {}
  OBVIOUS
<1>3. DOMAIN Places(none) = {} /\ DOMAIN DroppedPlaces(none) = {}
  BY <1>2 DEF Places, DroppedPlaces
<1>4. Places(none) = <<>> /\ DroppedPlaces(none) = <<>>
  BY <1>2 DEF Places, DroppedPlaces
<1>5. C = {} /\ ToSet(DroppedPlaces(none)) = {}
  BY <1>3 DEF ToSet
<1>6. BuysOf(C) = {}
  BY <1>5 DEF BuysOf
<1>7. Parted(Places(none), DroppedPlaces(none), {})
  <2>1. <<>> \in Seq(1 .. Size) /\ IsInjective(<<>>)
    BY DEF IsInjective
  <2> QED  BY <1>3, <1>4, <1>5, <2>1 DEF Parted
<1>8. Tallied(C, {}, 0, e)
  <2>1. AmountOfAll(BuysOf(C)) = 0 /\ Cardinality(BuysOf(C)) = 0
    BY <1>6, SumEmpty, FS_EmptySet DEF AmountOfAll
  <2>2. {} = {asked.cands[i].symbol : i \in BuysOf(C)}
    BY <1>6
  <2>3. e = e + 0
    BY ListFacts
  <2> QED  BY <2>1, <2>2, <2>3, Zenon DEF Tallied
<1>9. Greedily(C, {}) /\ Fits(C)
  BY <1>5, <1>6 DEF Greedily, Fits
<1> HIDE DEF none, e
<1>10. PassSound(PassBegins(e), {})
  BY <1>1, <1>2, <1>7, <1>8, <1>9, Zenon DEF PassSound
<1> QED  BY <1>10 DEF e

\* The batch that process_cycle returns.
LEMMA PassEnds ==
    ASSUME Called
    PROVE  PassSound(decided, 1 .. Size)
PROOF
<1>1. /\ Size \in Nat /\ DOMAIN List = 1 .. Size /\ Prioritised(List)
      /\ \A i, j \in 1 .. Size : Before(List, i, j) <=> Before(asked.cands, i, j)
  BY ListFacts
<1>2. PICK p : /\ Ordered(p, List, Size)
               /\ ByPriority(List) = [i \in 1 .. Size |-> List[p[i]]]
               /\ \A i, j \in 1 .. Size : i # j => p[i] # p[j]
               /\ \A i \in 1 .. Size : \E k \in 1 .. Size : p[k] = i
  BY <1>1, SortedFacts
<1>3. /\ \A k \in 1 .. Size : p[k] \in 1 .. Size
      /\ \A i, j \in 1 .. Size : i < j => Before(List, p[i], p[j])
  BY <1>2 DEF Ordered
<1>4. DOMAIN ByPriority(List) = 1 .. Size /\ \A k \in 1 .. Size : ByPriority(List)[k] = List[p[k]]
  BY <1>2
<1>5. PICK a : /\ a[0] = PassBegins(asked.executed)
               /\ \A k \in 1 .. Size :
                     a[k] = Considered(a[k - 1], ByPriority(List)[k], asked.held, asked.limit)
               /\ ProcessCycle(List, asked.held, asked.limit, asked.executed) = a[Size]
  BY <1>1, <1>4, PassStates
<1> DEFINE Seen(k) == {p[m] : m \in 1 .. k}
           Wrong == {k \in Nat : k <= Size /\ ~PassSound(a[k], Seen(k))}
<1>6. ASSUME Wrong # {} PROVE FALSE
  <2>1. PICK k \in Wrong : \A j \in Wrong : k <= j
    <3> HIDE DEF Wrong
    <3>1. Wrong \subseteq Nat  BY DEF Wrong
    <3> QED  BY <1>6, <3>1, LeastOf
  <2>2. k \in Nat /\ k <= Size /\ ~PassSound(a[k], Seen(k))
    OBVIOUS
  <2>3. CASE k = 0
    <3>1. Seen(k) = {}
      BY <2>3
    <3> QED  BY <1>5, <2>2, <2>3, <3>1, PassStarts
  <2>4. CASE k # 0
    <3>1. k - 1 \in Nat /\ k - 1 <= Size /\ k \in 1 .. Size /\ k - 1 \notin Wrong
      <4> HIDE DEF Wrong
      <4> QED  BY <1>1, <2>1, <2>2, <2>4
    <3> DEFINE D == Seen(k - 1)
               i == p[k]
    <3>2. PassSound(a[k - 1], D)
      BY <3>1
    <3>3. D \subseteq 1 .. Size /\ i \in 1 .. Size
      BY <1>1, <1>3, <3>1
    <3>4. i \notin D
      <4>1. \A j \in 1 .. k - 1 : j \in 1 .. Size /\ j # k
        BY <1>1, <3>1
      <4> HIDE DEF Wrong
      <4>2. \A j \in 1 .. k - 1 : p[j] # p[k]
        BY <1>2, <3>1, <4>1
      <4> QED  BY <4>2
    <3>5. \A m \in D : Before(asked.cands, m, i)
      <4> SUFFICES ASSUME NEW m \in D PROVE Before(asked.cands, m, i)
        OBVIOUS
      <4>1. PICK j \in 1 .. k - 1 : m = p[j]
        OBVIOUS
      <4>2. j \in 1 .. Size /\ j < k
        BY <1>1, <3>1
      <4>3. Before(List, p[j], p[k])
        BY <1>3, <3>1, <4>2
      <4> QED  BY <1>1, <1>3, <3>1, <4>1, <4>2, <4>3
    <3>6. Seen(k) = D \union {i}
      BY <3>1
    <3>7. a[k] = Considered(a[k - 1], List[i], asked.held, asked.limit)
      BY <1>4, <1>5, <3>1
    <3> HIDE DEF D, i, Seen
    <3>8. PassSound(Considered(a[k - 1], List[i], asked.held, asked.limit), D \union {i})
      BY <3>2, <3>3, <3>4, <3>5, PassKeeps
    <3> QED  BY <2>2, <3>6, <3>7, <3>8
  <2> QED  BY <2>3, <2>4
<1>7. PassSound(a[Size], Seen(Size))
  <2> HIDE DEF Seen
  <2> QED  BY <1>1, <1>6
<1>8. Seen(Size) = 1 .. Size
  <2> DEFINE n == Size
  <2>1. \A m \in 1 .. n : p[m] \in 1 .. n
    BY <1>3
  <2>2. \A i \in 1 .. n : \E m \in 1 .. n : p[m] = i
    BY <1>2
  <2> HIDE DEF Wrong, n
  <2>3. Seen(n) = 1 .. n
    BY <2>1, <2>2
  <2> QED  BY <2>3 DEF n
<1>9. decided = a[Size]
  BY <1>5 DEF Called, List
<1> QED  BY <1>7, <1>8, <1>9

----------------------------------------------------------------------------
LEMMA InjectiveConcat ==
    ASSUME NEW T, NEW r \in Seq(T), NEW q \in Seq(T), IsInjective(r), IsInjective(q),
           ToSet(r) \intersect ToSet(q) = {}
    PROVE  IsInjective(r \o q) /\ ToSet(r \o q) = ToSet(r) \union ToSet(q)
PROOF
<1> DEFINE n == Len(r)
           m == Len(q)
           rq == r \o q
<1>1. /\ n \in Nat /\ m \in Nat /\ DOMAIN r = 1 .. n /\ DOMAIN q = 1 .. m
      /\ DOMAIN rq = 1 .. n + m
      /\ \A x \in 1 .. n : rq[x] = r[x]
      /\ \A x \in 1 .. m : rq[n + x] = q[x]
  OBVIOUS
<1> HIDE DEF n, m, rq
<1>2. \A x \in DOMAIN rq : x \in 1 .. n \/ (x - n \in 1 .. m /\ rq[x] = q[x - n] /\ x \notin 1 .. n)
  <2> TAKE x \in DOMAIN rq
  <2>1. x \in 1 .. n \/ (x - n \in 1 .. m /\ x \notin 1 .. n /\ n + (x - n) = x)
    BY <1>1
  <2> QED  BY <1>1, <2>1
<1>3. ToSet(rq) = ToSet(r) \union ToSet(q)
  <2>1. \A x \in DOMAIN rq : rq[x] \in ToSet(r) \union ToSet(q)
    BY <1>1, <1>2 DEF ToSet
  <2>2. \A x \in 1 .. n : r[x] \in ToSet(rq)
    <3>1. \A x \in 1 .. n : x \in 1 .. n + m
      BY <1>1
    <3> QED  BY <1>1, <3>1 DEF ToSet
  <2>3. \A x \in 1 .. m : q[x] \in ToSet(rq)
    <3>1. \A x \in 1 .. m : n + x \in 1 .. n + m
      BY <1>1
    <3> QED  BY <1>1, <3>1 DEF ToSet
  <2>4. ToSet(rq) \subseteq ToSet(r) \union ToSet(q)
    BY <2>1 DEF ToSet
  <2>5. ToSet(r) \subseteq ToSet(rq) /\ ToSet(q) \subseteq ToSet(rq)
    <3> DEFINE all == ToSet(rq)
    <3>1. (\A x \in DOMAIN r : r[x] \in all) /\ (\A x \in DOMAIN q : q[x] \in all)
      BY <1>1, <2>2, <2>3
    <3> HIDE DEF all
    <3>2. ToSet(r) \subseteq all /\ ToSet(q) \subseteq all
      BY <3>1 DEF ToSet
    <3> QED  BY <3>2 DEF all
  <2> QED  BY <2>4, <2>5
<1>4. ASSUME NEW x \in DOMAIN rq, NEW y \in DOMAIN rq, rq[x] = rq[y]  PROVE x = y
  <2>1. CASE x \in 1 .. n /\ y \in 1 .. n
    BY <1>1, <1>4, <2>1 DEF IsInjective
  <2>2. CASE x \notin 1 .. n /\ y \notin 1 .. n
    <3>1. x - n = y - n
      BY <1>1, <1>2, <1>4, <2>2 DEF IsInjective
    <3> QED  BY <1>1, <3>1
  <2>3. CASE x \in 1 .. n /\ y \notin 1 .. n
    <3>1. rq[x] \in ToSet(r) /\ rq[y] \in ToSet(q)
      BY <1>1, <1>2, <2>3 DEF ToSet
    <3> QED  BY <1>4, <3>1
  <2>4. CASE x \notin 1 .. n /\ y \in 1 .. n
    <3>1. rq[x] \in ToSet(q) /\ rq[y] \in ToSet(r)
      BY <1>1, <1>2, <2>4 DEF ToSet
    <3> QED  BY <1>4, <3>1
  <2> QED  BY <2>1, <2>2, <2>3, <2>4
<1> QED  BY <1>3, <1>4 DEF IsInjective, rq

LEMMA SelectionHolds == Called => SelectionInv
PROOF
<1> SUFFICES ASSUME Called PROVE SelectionInv
  OBVIOUS
<1>1. /\ Size \in Nat /\ DOMAIN asked.cands = 1 .. Size
      /\ \A i \in 1 .. Size : asked.cands[i].side \in {"BUY", "SELL"}
      /\ IsFiniteSet(asked.held) /\ Cardinality(asked.held) \in Nat
  BY ListFacts
<1>2. PICK s, d, b, a, g :
         /\ s \in Seq(Listed) /\ d \in Seq(Listed \X Reasons)
         /\ decided = PassAt(s, d, b, a, g)
         /\ Parted(Places(s), DroppedPlaces(d), 1 .. Size)
         /\ Tallied(ToSet(Places(s)), b, a, g)
         /\ Greedily(ToSet(Places(s)), 1 .. Size)
         /\ Fits(ToSet(Places(s)))
  BY PassEnds, Zenon DEF PassSound
<1>3. Chosen = Places(s) /\ Refused = DroppedPlaces(d)
  <2>1. decided.selected = s /\ decided.dropped = d
    BY <1>2, PassUpdates
  <2> QED  BY <2>1 DEF Chosen, Refused, Places, DroppedPlaces
<1> DEFINE C == ToSet(Chosen)
           B == BuysOf(C)
<1>4. /\ Parted(Chosen, Refused, 1 .. Size) /\ Greedily(C, 1 .. Size) /\ Fits(C)
  BY <1>2, <1>3, Zenon
<1>5. /\ Chosen \in Seq(1 .. Size) /\ Refused \in Seq(1 .. Size)
      /\ IsInjective(Chosen) /\ IsInjective(Refused)
      /\ C \union ToSet(Refused) = 1 .. Size /\ C \intersect ToSet(Refused) = {}
      /\ \A x, y \in DOMAIN Chosen : x < y => Before(asked.cands, Chosen[x], Chosen[y])
  BY <1>4, Zenon DEF Parted
<1>6. SelectionIsGreedy
  <2>1. \A i \in 1 .. Size : i \in C <=> Acceptable(i, {j \in C : Before(asked.cands, j, i)})
    BY <1>4, Zenon DEF Greedily
  <2> QED  BY <1>1, <1>5, <2>1, Zenon DEF SelectionIsGreedy
<1>7. EachDecidedOnce
  <2>1. /\ IsInjective(Chosen \o Refused)
        /\ ToSet(Chosen \o Refused) = C \union ToSet(Refused)
    <3> DEFINE ch == Chosen
               rf == Refused
               T == 1 .. Size
    <3>1. /\ ch \in Seq(T) /\ rf \in Seq(T) /\ IsInjective(ch) /\ IsInjective(rf)
          /\ ToSet(ch) \intersect ToSet(rf) = {}
      BY <1>5
    <3> HIDE DEF ch, rf, T
    <3>2. IsInjective(ch \o rf) /\ ToSet(ch \o rf) = ToSet(ch) \union ToSet(rf)
      BY <3>1, InjectiveConcat
    <3> QED  BY <3>2, Zenon DEF ch, rf
  <2> QED  BY <1>1, <1>5, <2>1, Zenon DEF EachDecidedOnce
<1>8. SelectionFitsPortfolio
  <2>1. /\ B # {} =>
              /\ Cardinality(asked.held) + Cardinality(B) <= MaxPositions
              /\ asked.executed + AmountOfAll(B) <= asked.limit
        /\ \A i \in B : /\ asked.cands[i].symbol \notin asked.held
                          /\ \A j \in B \ {i} : asked.cands[i].symbol # asked.cands[j].symbol
        /\ \A i \in C : asked.cands[i].side = "SELL" => asked.cands[i].symbol \in asked.held
    BY <1>4, Zenon DEF Fits
  <2>2. C \subseteq 1 .. Size /\ B \subseteq C /\ B = {i \in C : asked.cands[i].side = "BUY"}
    BY <1>5 DEF BuysOf
  <2> HIDE DEF C, B
  <2>3. IsFiniteSet(B) /\ Cardinality(B) \in Nat
    <3>1. IsFiniteSet(1 .. Size)
      BY <1>1, FS_Interval
    <3>2. B \subseteq 1 .. Size
      BY <2>2
    <3> QED  BY <3>1, <3>2, FS_Subset, FS_CardinalityType
  <2> DEFINE X == {asked.cands[i].symbol : i \in B}
             H == asked.held
  <2>4. IsFiniteSet(X) /\ Cardinality(X) \in Nat /\ Cardinality(X) <= Cardinality(B)
    <3> DEFINE f == [i \in B |-> asked.cands[i].symbol]
    <3>1. f \in Surjection(B, X)
      BY DEF Surjection
    <3> HIDE DEF f, X
    <3> QED  BY <2>3, <3>1, FS_Surjection, FS_CardinalityType
  <2> HIDE DEF X
  <2>5. Cardinality(H \union X) <= Cardinality(H) + Cardinality(X)
    <3>1. Cardinality(H \union X) = Cardinality(H) + Cardinality(X) - Cardinality(H \intersect X)
      BY <1>1, <2>4, FS_Union
    <3>2. Cardinality(H \intersect X) \in Nat
      BY <1>1, FS_Intersection, FS_CardinalityType
    <3> DEFINE x == Cardinality(H \intersect X)
               h == Cardinality(H)
               y == Cardinality(X)
               u == Cardinality(H \union X)
    <3>3. u = h + y - x /\ x \in Nat /\ h \in Nat /\ y \in Nat
      BY <1>1, <2>4, <3>1, <3>2
    <3> HIDE DEF x, h, y, u
    <3>4. u <= h + y
      BY <3>3
    <3> QED  BY <3>4 DEF u, h, y
  <2>6. Cardinality(H \union X) \in Nat
    BY <1>1, <2>4, FS_Union, FS_CardinalityType
  <2>7. B # {} => Cardinality(H \union X) <= MaxPositions
    BY <1>1, <2>1, <2>3, <2>4, <2>5, <2>6, MaxPositionsAssumption
  <2>8. \A i \in B : \A j \in C \ {i} : asked.cands[i].symbol # asked.cands[j].symbol
    <3> SUFFICES ASSUME NEW i \in B, NEW j \in C \ {i}
                 PROVE  asked.cands[i].symbol # asked.cands[j].symbol
      OBVIOUS
    <3>1. asked.cands[j].side = "BUY" => j \in B
      BY <2>2
    <3>2. asked.cands[j].side \in {"BUY", "SELL"}
      BY <1>1, <2>2
    <3> QED  BY <2>1, <3>1, <3>2
  <2> QED  BY <2>1, <2>7, <2>8, Zenon DEF SelectionFitsPortfolio, X, B, C
<1> QED  BY <1>6, <1>7, <1>8 DEF SelectionInv

\* A call of the filter makes of the state what Called says.
LEMMA CallStep == Called /\ [SelectionNext]_selectionVars => Called'
PROOF
<1>1. ASSUME NEW ask \in Asks, Decide(ask) PROVE Called'
  <2>1. ask.cands \in Seq(Candidates)
    <3>1. PICK n \in 0 .. MaxCandidates : ask.cands \in [1 .. n -> Candidates]
      BY DEF Asks
    <3>2. n \in Nat
      BY SelectionAssumption
    <3> QED  BY <3>1, <3>2
  <2> DEFINE K == UNION {[1 .. n -> Candidates] : n \in 0 .. MaxCandidates}
  <2>2. ask.held \subseteq Symbols /\ ask.limit \in Nat /\ ask.executed \in Nat
    <3>1. ask \in [cands : K, held : SUBSET Symbols, limit : Limits, executed : 0 .. MaxExecuted]
      BY DEF Asks
    <3> HIDE DEF K
    <3>2. ask.held \in SUBSET Symbols /\ ask.limit \in Limits /\ ask.executed \in 0 .. MaxExecuted
      BY <3>1
    <3>3. Limits \subseteq Nat
      BY SelectionAssumption
    <3>4. \A x \in 0 .. MaxExecuted : x \in Nat
      OBVIOUS
    <3>5. ask.held \subseteq Symbols
      BY <3>2, Zenon
    <3>6. ask.limit \in Nat /\ ask.executed \in Nat
      BY <3>2, <3>3, <3>4, Zenon
    <3> QED  BY <3>5, <3>6, Zenon
  <2> QED  BY <1>1, <2>1, <2>2 DEF Decide, Called
<1>2. ASSUME Called, UNCHANGED selectionVars PROVE Called'
  BY <1>2 DEF Called, selectionVars
<1> QED  BY <1>1, <1>2 DEF SelectionNext

LEMMA CallInit == SelectionInit => Called
PROOF
<1> SUFFICES ASSUME SelectionInit PROVE Called
  OBVIOUS
<1>1. asked.cands = <<>> /\ asked.held = {} /\ asked.limit = 0 /\ asked.executed = 0
  BY DEF SelectionInit, Quiet
<1> DEFINE none == Numbered(<<>>)
<1>2. DOMAIN none = {} /\ 1 .. 0 = {}
  BY DEF Numbered
<1>3. DOMAIN ByPriority(none) = 1 .. 0
  <2>1. \A cands : DOMAIN ByPriority(cands) = DOMAIN cands
    BY DEF ByPriority
  <2> HIDE DEF none
  <2> QED  BY <1>2, <2>1
<1> HIDE DEF none
<1>4. PICK f : f[0] = PassBegins(0) /\ ProcessCycle(none, {}, 0, 0) = f[0]
  BY <1>3, PassStates
<1>5. decided = ProcessCycle(none, {}, 0, 0)
  BY <1>4 DEF SelectionInit
<1>6. decided = ProcessCycle(Numbered(asked.cands), asked.held, asked.limit, asked.executed)
  BY <1>1, <1>5 DEF none
<1>7. <<>> \in Seq(Candidates)
  OBVIOUS
<1>8. /\ asked.cands \in Seq(Candidates) /\ asked.held \subseteq Symbols
      /\ asked.limit \in Nat /\ asked.executed \in Nat
  BY <1>1, <1>7
<1> QED  BY <1>6, <1>8, Zenon DEF Called

\* The portfolio filter (SystemTrader.process_cycle), called with any list of candidates:
\* the batch it returns is the one selection in which every candidate is in exactly when
\* the more urgent selected ones leave room for it; it keeps the account within its
\* positions and its budget, with at most one BUY of a symbol and none of a held one; and
\* every candidate is either selected or dropped with a reason, once.
THEOREM SelectionInvariant == SelectionSpec => []SelectionInv
PROOF
<1>1. SelectionSpec => []Called
  BY CallInit, CallStep, PTL DEF SelectionSpec
<1> QED  BY <1>1, SelectionHolds, PTL

----------------------------------------------------------------------------
(* What a rule remembers of its calls that look back.                       *)

LEMMA GetPut ==
    ASSUME NEW f, NEW k, NEW x, NEW d
    PROVE  /\ Get(Put(f, k, x), k, d) = x
           /\ \A j : j # k => Get(Put(f, k, x), j, d) = Get(f, j, d)
PROOF
<1> DEFINE g == Put(f, k, x)
<1>1. /\ DOMAIN g = DOMAIN f \union {k}
      /\ \A j \in DOMAIN f \union {k} : g[j] = IF j = k THEN x ELSE f[j]
  BY DEF Put
<1>2. Get(g, k, d) = x
  BY <1>1 DEF Get
<1>3. ASSUME NEW j, j # k
      PROVE  Get(g, j, d) = Get(f, j, d)
  BY <1>1, <1>3 DEF Get
<1> QED  BY <1>2, <1>3

\* How many of n elements LastOf(s, r) keeps
Reach(r, n) == IF r < 0 THEN 0 ELSE IF r > 0 /\ n > r THEN r ELSE n

\* The last m elements of t
Recent(t, m) == [i \in 1 .. m |-> t[Len(t) - m + i]]

LEMMA ReachFacts ==
    ASSUME NEW r \in Int, NEW n \in Nat
    PROVE  /\ Reach(r, n) \in 0 .. n
           /\ Reach(r, n + 1) \in 0 .. (Reach(r, n) + 1)
           /\ r > 0 => Reach(r, n) <= r
BY DEF Reach

LEMMA RecentTyped ==
    ASSUME NEW D, NEW t \in Seq(D), NEW m \in 0 .. Len(t)
    PROVE  /\ Recent(t, m) \in Seq(D)
           /\ Len(Recent(t, m)) = m
           /\ \A i \in 1 .. m : Recent(t, m)[i] = t[Len(t) - m + i]
PROOF
<1>1. Len(t) \in Nat /\ \A i \in 1 .. Len(t) : t[i] \in D
  OBVIOUS
<1>2. \A i \in 1 .. m : (Len(t) - m + i) \in 1 .. Len(t)
  BY <1>1
<1>3. Recent(t, m) \in [1 .. m -> D]
  BY <1>1, <1>2 DEF Recent
<1>4. m \in Nat
  BY <1>1
<1> QED  BY <1>3, <1>4, FunctionIsSeq DEF Recent

LEMMA SameSequence ==
    ASSUME NEW D, NEW s \in Seq(D), NEW t \in Seq(D), Len(s) = Len(t),
           \A i \in 1 .. Len(s) : s[i] = t[i]
    PROVE  s = t
OBVIOUS

\* The index from which LastOf keeps a sequence of n elements
CutAt(r, n) == IF r <= 0 THEN 1 - r ELSE IF n > r THEN n - r + 1 ELSE 1

LEMMA CutFacts ==
    ASSUME NEW r \in Int, NEW n \in Nat
    PROVE  LET k == CutAt(r, Reach(r, n) + 1)
           IN  /\ k \in Int /\ k >= 1
               /\ Reach(r, n + 1) = IF k <= Reach(r, n) + 1 THEN Reach(r, n) + 1 - k + 1 ELSE 0
BY DEF CutAt, Reach

\* A history that is cut at every step is the history cut once.
LEMMA LastOfRecent ==
    ASSUME NEW D, NEW t \in Seq(D), NEW e \in D, NEW r \in Int
    PROVE  LastOf(Append(Recent(t, Reach(r, Len(t))), e), r)
              = Recent(Append(t, e), Reach(r, Len(t) + 1))
PROOF
<1> DEFINE n == Len(t)
           m == Reach(r, n)
           h == Append(Recent(t, m), e)
           k == CutAt(r, m + 1)
           p == Reach(r, n + 1)
           u == Append(t, e)
<1>0. n \in Nat
  OBVIOUS
<1>1. m \in 0 .. n /\ p \in 0 .. (m + 1)
  BY <1>0, ReachFacts
<1>2. /\ Recent(t, m) \in Seq(D) /\ Len(Recent(t, m)) = m
      /\ \A i \in 1 .. m : Recent(t, m)[i] = t[n - m + i]
  BY <1>1, RecentTyped
<1>3. /\ h \in Seq(D) /\ Len(h) = m + 1
      /\ \A i \in 1 .. (m + 1) : h[i] = IF i = m + 1 THEN e ELSE t[n - m + i]
  BY <1>1, <1>2
<1>4. /\ u \in Seq(D) /\ Len(u) = n + 1
      /\ \A i \in 1 .. (n + 1) : u[i] = IF i = n + 1 THEN e ELSE t[i]
  BY <1>1
<1>5. k \in Int /\ k >= 1 /\ p = IF k <= m + 1 THEN m + 1 - k + 1 ELSE 0
  BY <1>0, CutFacts
<1>6. LastOf(h, r) = SubSeq(h, k, m + 1)
  BY <1>3 DEF LastOf, CutAt
<1> HIDE DEF h, u, k, p, m, n
<1>7. \A i \in 1 .. (m + 1) : h[i] = u[n - m + i] /\ h[i] \in D
  <2> TAKE i \in 1 .. (m + 1)
  <2>1. h[i] \in D
    BY <1>3, <1>1, <1>0
  <2>2. (n - m + i) \in 1 .. (n + 1) /\ (n - m + i = n + 1 <=> i = m + 1)
    BY <1>0, <1>1
  <2> QED  BY <2>1, <2>2, <1>3, <1>4
<1>8. m \in Int /\ m + 1 \in Int
  BY <1>0, <1>1
<1>9. \A i \in k .. (m + 1) : h[i] \in D
  BY <1>7, <1>5, <1>8
<1>10. /\ LastOf(h, r) \in Seq(D)
       /\ Len(LastOf(h, r)) = IF k <= m + 1 THEN m + 1 - k + 1 ELSE 0
       /\ \A i \in 1 .. (m + 1 - k + 1) : LastOf(h, r)[i] = h[k + i - 1]
  BY <1>5, <1>8, <1>9, <1>6, SubSeqProperties
<1>11. p \in 0 .. Len(u)
  BY <1>0, <1>1, <1>4
<1>12. /\ Recent(u, p) \in Seq(D) /\ Len(Recent(u, p)) = p
       /\ \A i \in 1 .. p : Recent(u, p)[i] = u[n + 1 - p + i]
  <2>1. /\ Recent(u, p) \in Seq(D) /\ Len(Recent(u, p)) = p
        /\ \A i \in 1 .. p : Recent(u, p)[i] = u[Len(u) - p + i]
    BY <1>11, <1>4, RecentTyped
  <2>2. Len(u) = n + 1
    BY <1>4
  <2>3. \A i \in 1 .. p : Len(u) - p + i = n + 1 - p + i
    BY <2>2, <1>0, <1>1
  <2> QED  BY <2>1, <2>3
<1>13. ASSUME NEW i \in 1 .. p
       PROVE  LastOf(h, r)[i] = Recent(u, p)[i]
  <2>1. p = m + 1 - k + 1
    BY <1>5, <1>0, <1>1
  <2>2. (k + i - 1) \in 1 .. (m + 1) /\ n - m + (k + i - 1) = n + 1 - p + i
    BY <2>1, <1>5, <1>0, <1>1
  <2>3. LastOf(h, r)[i] = h[k + i - 1]
    BY <2>1, <1>10
  <2>4. h[k + i - 1] = u[n + 1 - p + i]
    BY <2>2, <1>7
  <2> QED  BY <2>3, <2>4, <1>12
<1>14. Len(LastOf(h, r)) = Len(Recent(u, p))
  BY <1>10, <1>12, <1>5
<1> QED  BY <1>10, <1>12, <1>13, <1>14, SameSequence DEF h, u, m, n, p

----------------------------------------------------------------------------
(* What a call should have said depends on what it saw up to then.         *)

LEMMA CrossingSame ==
    ASSUME NEW s, NEW t, NEW i \in Nat, i >= 1, \A j \in 1 .. i : s[j] = t[j], NEW name,
           CrossingIsRight(name, s, i)
    PROVE  CrossingIsRight(name, t, i)
PROOF
<1>1. \A j \in 1 .. i : Blank(s, j) <=> Blank(t, j)
  BY DEF Blank
<1>2. \A j \in 1 .. (i - 1) : j \in 1 .. i /\ \A m \in (j + 1) .. (i - 1) : m \in 1 .. i
  OBVIOUS
<1>3. i \in 1 .. i
  OBVIOUS
<1> DEFINE Side(u, j) == IF name = "crosses_above" THEN Below(u[j].saw) ELSE Above(u[j].saw)
           Was(u) == \E j \in 1 .. (i - 1) :
                        /\ ~Blank(u, j)
                        /\ Side(u, j)
                        /\ \A m \in (j + 1) .. (i - 1) : Blank(u, m)
           Now(u) == IF name = "crosses_above" THEN ~Below(u[i].saw) ELSE ~Above(u[i].saw)
<1>4. \A j \in 1 .. i : Side(s, j) <=> Side(t, j)
  OBVIOUS
<1>5. Was(s) <=> Was(t)
  <2> HIDE DEF Side
  <2> QED  BY <1>1, <1>2, <1>4
<1>6. Now(s) <=> Now(t)
  BY <1>3
<1>7. s[i].said = IF Blank(s, i) THEN Null ELSE Now(s) /\ Was(s)
  BY DEF CrossingIsRight
<1>8. s[i] = t[i] /\ (Blank(s, i) <=> Blank(t, i))
  BY <1>1, <1>3
<1>9. t[i].said = IF Blank(t, i) THEN Null ELSE Now(t) /\ Was(t)
  <2> HIDE DEF Now, Was
  <2>1. (Now(s) /\ Was(s)) = (Now(t) /\ Was(t))
    BY <1>5, <1>6
  <2> QED  BY <2>1, <1>7, <1>8
<1> QED  BY <1>9 DEF CrossingIsRight

LEMMA CountSame ==
    ASSUME NEW s, NEW t, NEW i \in Nat, i >= 1, \A j \in 1 .. i : s[j] = t[j], NEW period \in Int,
           CountIsRight(period, s, i)
    PROVE  CountIsRight(period, t, i)
PROOF
<1>1. {j \in 1 .. i : j > i - period /\ s[j].saw = TRUE}
         = {j \in 1 .. i : j > i - period /\ t[j].saw = TRUE}
  OBVIOUS
<1>2. s[i] = t[i]
  OBVIOUS
<1> QED  BY <1>1, <1>2 DEF CountIsRight

LEMMA StreakSame ==
    ASSUME NEW s, NEW t, NEW i \in Nat, i >= 1, \A j \in 1 .. i : s[j] = t[j],
           StreakIsRight(s, i)
    PROVE  StreakIsRight(t, i)
PROOF
<1>1. s[i] = t[i] /\ s[i].said \in 0 .. i
  BY DEF StreakIsRight
<1> DEFINE r == s[i].said
<1>2. t[i].said = r /\ r \in Int
  BY <1>1
<1>3. \A j \in 1 .. i : j > i - r => t[j].saw = TRUE
  BY DEF StreakIsRight
<1>4. ASSUME r < i
      PROVE  t[i - r].saw # TRUE
  <2>1. (i - r) \in 1 .. i
    BY <1>1, <1>4
  <2>2. s[i - r].saw # TRUE
    BY <1>4 DEF StreakIsRight
  <2> QED  BY <2>1, <2>2
<1> QED  BY <1>1, <1>2, <1>3, <1>4 DEF StreakIsRight

LEMMA DivergenceSame ==
    ASSUME NEW s, NEW t, NEW i \in Nat, i >= 1, \A j \in 1 .. i : s[j] = t[j], NEW name,
           NEW r \in Int, DivergenceIsRight(name, r, s, i)
    PROVE  DivergenceIsRight(name, r, t, i)
PROOF
<1> DEFINE first == IF r < 0 THEN i + 1
                    ELSE IF r > 0 /\ i > r THEN i - r + 1 ELSE 1
           inside == (first + 1) .. (i - 1)
           turn(u, j) == /\ Beyond(name = "bullish", u[j].saw[1], u[j - 1].saw[1])
                         /\ Beyond(name = "bullish", u[j].saw[1], u[j + 1].saw[1])
           last(u, l, m) == /\ turn(u, l) /\ turn(u, m)
                            /\ \A j \in inside : j > l /\ turn(u, j) => j = m
           apart(u, l, m) == /\ Beyond(name = "bullish", u[m].saw[1], u[l].saw[1])
                             /\ Beyond(name = "bullish", u[l].saw[2], u[m].saw[2])
           found(u) == \E l, m \in inside : l < m /\ last(u, l, m) /\ apart(u, l, m)
<1>1. first \in Int /\ first >= 1
  OBVIOUS
<1> HIDE DEF first
<1>2. \A j \in inside : j \in 1 .. i /\ j - 1 \in 1 .. i /\ j + 1 \in 1 .. i
  BY <1>1
<1>3. \A j \in inside : turn(s, j) <=> turn(t, j)
  BY <1>2
<1>4. \A l, m \in inside : apart(s, l, m) <=> apart(t, l, m)
  BY <1>2
<1> HIDE DEF turn, apart, inside
<1>5. \A l, m \in inside : last(s, l, m) <=> last(t, l, m)
  BY <1>3
<1> HIDE DEF last
<1>6. found(s) <=> found(t)
  BY <1>4, <1>5
<1>7. s[i].said <=> i - first >= 4 /\ found(s)
  BY DEF DivergenceIsRight, first, inside, turn, apart, last
<1>8. s[i] = t[i]
  OBVIOUS
<1>9. t[i].said <=> i - first >= 4 /\ found(t)
  BY <1>6, <1>7, <1>8
<1> QED  BY <1>9 DEF DivergenceIsRight, first, inside, turn, apart, last

LEMMA RightSame ==
    ASSUME NEW s, NEW t, NEW i \in Nat, i >= 1, \A j \in 1 .. i : s[j] = t[j],
           NEW f, f.reach \in Int, IsRight(f, s, i)
    PROVE  IsRight(f, t, i)
PROOF
<1>1. CrossingIsRight(f.name, s, i) => CrossingIsRight(f.name, t, i)
  BY CrossingSame
<1>2. CountIsRight(f.reach, s, i) => CountIsRight(f.reach, t, i)
  BY CountSame
<1>3. StreakIsRight(s, i) => StreakIsRight(t, i)
  BY StreakSame
<1>4. DivergenceIsRight(f.name, f.reach, s, i) => DivergenceIsRight(f.name, f.reach, t, i)
  BY DivergenceSame
<1> QED  BY <1>1, <1>2, <1>3, <1>4 DEF IsRight

----------------------------------------------------------------------------
(* What the memory has of the evaluations of a call.                       *)

\* The last pair of values that were both there
PairKept(prev, s) ==
    \/ prev = Null /\ \A j \in 1 .. Len(s) : Blank(s, j)
    \/ \E j \in 1 .. Len(s) : /\ prev = s[j].saw /\ ~Blank(s, j)
                              /\ \A m \in (j + 1) .. Len(s) : Blank(s, m)

\* What a crossing says of the pair saw when it remembers prev, and what it then remembers
CrossingSays(name, prev, saw) ==
    IF saw[1] = Null \/ saw[2] = Null THEN Null ELSE Crosses(name, prev, saw[1], saw[2])
PairAfter(prev, saw) == IF saw[1] = Null \/ saw[2] = Null THEN prev ELSE saw

LEMMA CrossingOf ==
    ASSUME NEW D, NEW s \in Seq(D), NEW e \in D, NEW prev, PairKept(prev, s),
           NEW name \in Crossings, NEW st,
           NEW L, L \subseteq Int, Null \notin L, \A x, y \in L : Null # <<x, y>>,
           \A d \in D : d.saw \in (L \union {Null}) \X (L \union {Null}),
           e.said = CrossingSays(name, prev, e.saw)
    PROVE  /\ CrossingIsRight(name, Append(s, e), Len(s) + 1)
           /\ PairKept(PairAfter(prev, e.saw), Append(s, e))
PROOF
<1> USE DEF CrossingSays, PairAfter
<1> DEFINE n == Len(s)
           t == Append(s, e)
           k == PairAfter(prev, e.saw)
           Was == \E j \in 1 .. ((n + 1) - 1) :
                     /\ ~Blank(t, j)
                     /\ IF name = "crosses_above" THEN Below(t[j].saw) ELSE Above(t[j].saw)
                     /\ \A m \in (j + 1) .. ((n + 1) - 1) : Blank(t, m)
<1>1. /\ n \in Nat /\ Len(t) = n + 1 /\ t[n + 1] = e
      /\ \A j \in 1 .. n : t[j] = s[j] /\ s[j] \in D
  OBVIOUS
<1> HIDE DEF t, n
<1>2. /\ \A j \in 1 .. n : Blank(t, j) <=> Blank(s, j)
      /\ Blank(t, n + 1) <=> e.saw[1] = Null \/ e.saw[2] = Null
  BY <1>1 DEF Blank
<1>3. PairKept(k, t)
  <2>1. CASE Blank(t, n + 1)
    <3>1. k = prev
      BY <2>1, <1>2
    <3>2. CASE prev = Null /\ \A j \in 1 .. n : Blank(s, j)
      <4>1. \A j \in 1 .. (n + 1) : Blank(t, j)
        BY <3>2, <2>1, <1>1, <1>2
      <4> QED  BY <4>1, <3>1, <3>2, <1>1 DEF PairKept
    <3>3. ASSUME NEW j \in 1 .. n, prev = s[j].saw, ~Blank(s, j),
                 \A m \in (j + 1) .. n : Blank(s, m)
          PROVE  PairKept(k, t)
      <4>1. \A m \in (j + 1) .. (n + 1) : Blank(t, m)
        BY <3>3, <2>1, <1>1, <1>2
      <4>2. j \in 1 .. (n + 1) /\ k = t[j].saw /\ ~Blank(t, j)
        BY <3>1, <3>3, <1>1, <1>2
      <4> QED  BY <4>1, <4>2, <1>1 DEF PairKept
    <3> QED  BY <3>2, <3>3 DEF PairKept, n
  <2>2. CASE ~Blank(t, n + 1)
    <3>1. k = t[n + 1].saw /\ n + 1 \in 1 .. (n + 1) /\ \A m \in (n + 2) .. (n + 1) : Blank(t, m)
      BY <2>2, <1>1, <1>2
    <3> QED  BY <3>1, <2>2, <1>1 DEF PairKept
  <2> QED  BY <2>1, <2>2
<1>4. CASE Blank(t, n + 1)
  <2>1. t[n + 1].said = Null
    BY <1>4, <1>1, <1>2
  <2> QED  BY <2>1, <1>3, <1>4 DEF CrossingIsRight, t, n
<1>5. CASE ~Blank(t, n + 1)
  <2> DEFINE a == e.saw[1]
             b == e.saw[2]
  <2>1. a \in L /\ b \in L /\ e.said = Crosses(name, prev, a, b)
    BY <1>5, <1>2
  <2>2. CASE prev = Null /\ \A j \in 1 .. n : Blank(s, j)
    <3>1. ~Was
      BY <2>2, <1>1, <1>2
    <3>2. e.said = FALSE
      BY <2>1, <2>2 DEF Crosses
    <3> HIDE DEF Was
    <3> QED  BY <3>1, <3>2, <1>1, <1>3, <1>5 DEF CrossingIsRight, Was, t, n
  <2>3. ASSUME NEW j \in 1 .. n, prev = s[j].saw, ~Blank(s, j),
               \A m \in (j + 1) .. n : Blank(s, m)
        PROVE  CrossingIsRight(name, t, n + 1)
    <3>1. prev = t[j].saw /\ prev \in L \X L /\ prev # Null
      <4>1. s[j].saw \in (L \union {Null}) \X (L \union {Null}) /\ t[j].saw = s[j].saw
        BY <2>3, <1>1
      <4>2. prev[1] # Null /\ prev[2] # Null
        BY <2>3 DEF Blank
      <4>3. prev \in (L \union {Null}) \X (L \union {Null})
        BY <4>1, <2>3
      <4>4. prev = <<prev[1], prev[2]>> /\ prev[1] \in L /\ prev[2] \in L
        BY <4>2, <4>3
      <4>5. prev # Null
        BY <4>4
      <4> QED  BY <4>1, <4>4, <4>5, <2>3
    <3> DEFINE Side(i) == IF name = "crosses_above" THEN Below(t[i].saw) ELSE Above(t[i].saw)
    <3>2. Was <=> Side(j)
      <4>1. \A i \in 1 .. n : ~Blank(t, i) /\ (\A m \in (i + 1) .. n : Blank(t, m)) => i = j
        BY <2>3, <1>1, <1>2
      <4>2. ~Blank(t, j) /\ \A m \in (j + 1) .. n : Blank(t, m)
        BY <2>3, <1>1, <1>2
      <4>3. (n + 1) - 1 = n
        BY <1>1
      <4> HIDE DEF Side
      <4>4. (\E i \in 1 .. n : ~Blank(t, i) /\ Side(i) /\ \A m \in (i + 1) .. n : Blank(t, m))
              <=> Side(j)
        BY <4>1, <4>2, <2>3
      <4>5. Was <=> \E i \in 1 .. n : ~Blank(t, i) /\ Side(i) /\ \A m \in (i + 1) .. n : Blank(t, m)
        <5> DEFINE Found(u) == \E i \in 1 .. u : /\ ~Blank(t, i) /\ Side(i)
                                                 /\ \A m \in (i + 1) .. u : Blank(t, m)
        <5>1. Was <=> Found((n + 1) - 1)
          BY DEF Side
        <5> HIDE DEF Found, Was
        <5>2. Was <=> Found(n)
          BY <5>1, <4>3
        <5> QED  BY <5>2 DEF Found
      <4> QED  BY <4>4, <4>5
    <3>3. prev[1] \in Int /\ prev[2] \in Int /\ a \in Int /\ b \in Int
      BY <3>1, <2>1
    <3>4. Crosses(name, prev, a, b) <=>
             /\ IF name = "crosses_above" THEN ~Below(e.saw) ELSE ~Above(e.saw)
             /\ Side(j)
      <4>1. name = "crosses_above" \/ name = "crosses_below"
        BY DEF Crossings
      <4> QED  BY <4>1, <3>1, <3>3 DEF Crosses, Below, Above
    <3> HIDE DEF Was, Side
    <3>5. e.said = (/\ IF name = "crosses_above" THEN ~Below(e.saw) ELSE ~Above(e.saw)
                    /\ Was)
      <4> DEFINE Now == IF name = "crosses_above" THEN ~Below(e.saw) ELSE ~Above(e.saw)
      <4>1. Crosses(name, prev, a, b) <=> Now /\ Side(j)
        BY <3>4
      <4> HIDE DEF Now
      <4>2. Crosses(name, prev, a, b) = (Now /\ Was)
        BY <4>1, <3>2 DEF Crosses
      <4> QED  BY <4>2, <2>1 DEF Now
    <3> QED  BY <3>5, <1>1, <1>5 DEF CrossingIsRight, Was
  <2> QED  BY <2>2, <2>3, <1>3 DEF PairKept, n, t
<1> QED  BY <1>4, <1>5

LEMMA AppendParts ==
    ASSUME NEW D, NEW s \in Seq(D), NEW e \in D
    PROVE  /\ Len(s) \in Nat /\ Append(s, e) \in Seq(D) /\ Len(Append(s, e)) = Len(s) + 1
           /\ Append(s, e)[Len(s) + 1] = e
           /\ \A j \in 1 .. Len(s) : Append(s, e)[j] = s[j] /\ s[j] \in D
OBVIOUS

\* The length of the unbroken run at the end
RunKept(r, s) ==
    /\ r \in 0 .. Len(s)
    /\ \A j \in 1 .. Len(s) : j > Len(s) - r => s[j].saw = TRUE
    /\ r < Len(s) => s[Len(s) - r].saw # TRUE

LEMMA StreakOf ==
    ASSUME NEW D, NEW s \in Seq(D), NEW e \in D, NEW r, RunKept(r, s),
           e.said = IF e.saw = TRUE THEN r + 1 ELSE 0
    PROVE  /\ StreakIsRight(Append(s, e), Len(s) + 1)
           /\ RunKept(e.said, Append(s, e))
           /\ e.said \in Nat
PROOF
<1> DEFINE n == Len(s)
           t == Append(s, e)
<1>1. /\ n \in Nat /\ Len(t) = n + 1 /\ t[n + 1] = e
      /\ \A j \in 1 .. n : t[j] = s[j]
  BY AppendParts
<1>2. /\ r \in 0 .. n
      /\ \A j \in 1 .. n : j > n - r => s[j].saw = TRUE
      /\ r < n => s[n - r].saw # TRUE
  BY DEF RunKept
<1> HIDE DEF n, t
<1>3. RunKept(e.said, t)
  <2>1. CASE e.saw = TRUE
    <3>1. e.said = r + 1 /\ r + 1 \in 0 .. (n + 1)
      <4>1. e.said = r + 1
        BY <2>1, Zenon
      <4>2. r + 1 \in 0 .. (n + 1)
        BY <1>1, <1>2
      <4> QED  BY <4>1, <4>2
    <3>2. ASSUME NEW j \in 1 .. (n + 1), j > (n + 1) - (r + 1)
          PROVE  t[j].saw = TRUE
      <4>1. CASE j = n + 1
        BY <4>1, <2>1, <1>1
      <4>2. CASE j # n + 1
        <5>1. j \in 1 .. n /\ j > n - r
          BY <4>2, <3>2, <1>1, <1>2
        <5> QED  BY <5>1, <1>1, <1>2
      <4> QED  BY <4>1, <4>2
    <3>3. ASSUME r + 1 < n + 1
          PROVE  t[(n + 1) - (r + 1)].saw # TRUE
      <4>1. r < n /\ (n + 1) - (r + 1) = n - r /\ n - r \in 1 .. n
        BY <3>3, <1>1, <1>2
      <4> QED  BY <4>1, <1>1, <1>2
    <3> QED  BY <3>1, <3>2, <3>3, <1>1 DEF RunKept
  <2>2. CASE e.saw # TRUE
    <3>1. e.said = 0 /\ (n + 1) - 0 = n + 1 /\ 0 \in 0 .. (n + 1)
      <4>1. e.said = 0
        BY <2>2, Zenon
      <4> QED  BY <4>1, <1>1
    <3>2. \A j \in 1 .. (n + 1) : ~(j > n + 1)
      BY <1>1
    <3> QED  BY <3>1, <3>2, <2>2, <1>1 DEF RunKept
  <2> QED  BY <2>1, <2>2
<1>4. StreakIsRight(t, n + 1)
  BY <1>1, <1>3 DEF StreakIsRight, RunKept
<1>5. e.said \in Nat
  BY <1>1, <1>2
<1> QED  BY <1>3, <1>4, <1>5 DEF n, t

\* Did the condition hold, evaluation for evaluation?
TrueIn(s) == [j \in 1 .. Len(s) |-> (s[j].saw = TRUE)]

LEMMA TrueInFacts ==
    ASSUME NEW D, NEW s \in Seq(D), NEW e \in D
    PROVE  /\ TrueIn(s) \in Seq(BOOLEAN) /\ Len(TrueIn(s)) = Len(s)
           /\ TrueIn(Append(s, e)) = Append(TrueIn(s), e.saw = TRUE)
PROOF
<1> DEFINE n == Len(s)
           t == Append(s, e)
           x == (e.saw = TRUE)
<1>1. /\ n \in Nat /\ Len(t) = n + 1 /\ t[n + 1] = e
      /\ \A j \in 1 .. n : t[j] = s[j]
  BY AppendParts
<1> HIDE DEF n, t
<1>2. TrueIn(s) \in [1 .. n -> BOOLEAN] /\ TrueIn(t) \in [1 .. (n + 1) -> BOOLEAN]
  BY <1>1 DEF TrueIn, n
<1>3. /\ TrueIn(s) \in Seq(BOOLEAN) /\ Len(TrueIn(s)) = n
      /\ TrueIn(t) \in Seq(BOOLEAN) /\ Len(TrueIn(t)) = n + 1
  BY <1>1, <1>2, FunctionIsSeq
<1>4. x \in BOOLEAN
  OBVIOUS
<1> HIDE DEF x
<1>5. /\ Append(TrueIn(s), x) \in Seq(BOOLEAN) /\ Len(Append(TrueIn(s), x)) = n + 1
      /\ Append(TrueIn(s), x)[n + 1] = x
      /\ \A j \in 1 .. n : Append(TrueIn(s), x)[j] = TrueIn(s)[j]
  BY <1>3, <1>4, AppendParts
<1>6. TrueIn(t)[n + 1] = x /\ \A j \in 1 .. n : TrueIn(t)[j] = TrueIn(s)[j]
  BY <1>1 DEF TrueIn, n, x
<1>7. \A j \in 1 .. (n + 1) : TrueIn(t)[j] = Append(TrueIn(s), x)[j]
  BY <1>1, <1>5, <1>6
<1>8. TrueIn(t) = Append(TrueIn(s), x)
  BY <1>3, <1>5, <1>7, SameSequence
<1> QED  BY <1>3, <1>8 DEF n, t, x

\* Among the last p as many hold as in the history that has only those.
LEMMA HoldingCounted ==
    ASSUME NEW u \in Seq(BOOLEAN), NEW p \in 0 .. Len(u)
    PROVE  /\ Cardinality({i \in DOMAIN Recent(u, p) : Recent(u, p)[i]})
                = Cardinality({j \in 1 .. Len(u) : j > Len(u) - p /\ u[j] = TRUE})
           /\ Cardinality({i \in DOMAIN Recent(u, p) : Recent(u, p)[i]}) \in Nat
PROOF
<1> DEFINE n == Len(u)
           A == {i \in DOMAIN Recent(u, p) : Recent(u, p)[i]}
           B == {j \in 1 .. n : j > n - p /\ u[j] = TRUE}
           f == [i \in A |-> n - p + i]
<1>1. n \in Nat /\ p \in Nat /\ p <= n
  OBVIOUS
<1>2. \A j \in 1 .. n : u[j] \in BOOLEAN
  OBVIOUS
<1> HIDE DEF n
<1>3. A = {i \in 1 .. p : u[n - p + i] = TRUE}
  <2>1. DOMAIN Recent(u, p) = 1 .. p /\ \A i \in 1 .. p : Recent(u, p)[i] = u[n - p + i]
    BY DEF Recent, n
  <2>2. \A i \in 1 .. p : (n - p + i) \in 1 .. n
    BY <1>1
  <2>3. \A i \in 1 .. p : Recent(u, p)[i] <=> u[n - p + i] = TRUE
    BY <2>1, <2>2, <1>2
  <2> QED  BY <2>1, <2>3
<1> HIDE DEF A
<1>4. IsFiniteSet(A) /\ Cardinality(A) \in Nat
  <2>1. IsFiniteSet(1 .. p)
    BY <1>1, FS_Interval
  <2>2. A \in SUBSET (1 .. p)
    BY <1>3
  <2> QED  BY <2>1, <2>2, FS_Subset, FS_CardinalityType
<1>5. f \in [A -> B]
  <2>1. \A i \in A : n - p + i \in B
    BY <1>1, <1>3
  <2> QED  BY <2>1
<1>6. \A a, b \in A : f[a] = f[b] => a = b
  BY <1>1, <1>3
<1>7. \A j \in B : \E i \in A : f[i] = j
  <2> TAKE j \in B
  <2>1. j - (n - p) \in A /\ n - p + (j - (n - p)) = j
    BY <1>1, <1>3
  <2> QED  BY <2>1
<1> HIDE DEF f, B
<1>8. f \in Surjection(A, B) /\ f \in Injection(A, B)
  BY <1>5, <1>6, <1>7 DEF Surjection, Injection, IsInjective
<1>9. Cardinality(B) = Cardinality(A)
  BY <1>4, <1>8, FS_Surjection
<1> QED  BY <1>4, <1>9 DEF A, B, n

\* The history that count keeps for a positive period
HistoryKept(h, period, s) == period > 0 => h = Recent(TrueIn(s), Reach(period, Len(s)))

\* What a count adds to its history h and keeps of it, and what it then says
Extended(h, saw, period) ==
    IF period > 0 THEN LastOf(Append(h, saw = TRUE), period) ELSE Append(h, saw = TRUE)
HoldingIn(g, period) == IF period > 0 THEN Cardinality({i \in DOMAIN g : g[i]}) ELSE 0

LEMMA CountOf ==
    ASSUME NEW D, NEW s \in Seq(D), NEW e \in D, NEW h, NEW period \in Int,
           HistoryKept(h, period, s), NEW g,
           g = Extended(h, e.saw, period),
           e.said = HoldingIn(g, period)
    PROVE  /\ CountIsRight(period, Append(s, e), Len(s) + 1)
           /\ HistoryKept(g, period, Append(s, e))
           /\ e.said \in Nat
PROOF
<1> USE DEF Extended, HoldingIn
<1> DEFINE n == Len(s)
           t == Append(s, e)
           u == TrueIn(t)
           B == {j \in 1 .. (n + 1) : j > (n + 1) - period /\ t[j].saw = TRUE}
<1>1. n \in Nat /\ Len(t) = n + 1 /\ t \in Seq(D) /\ t[n + 1] = e
  BY AppendParts
<1>2. /\ TrueIn(s) \in Seq(BOOLEAN) /\ Len(TrueIn(s)) = n
      /\ u = Append(TrueIn(s), e.saw = TRUE)
  BY TrueInFacts
<1>3. u \in Seq(BOOLEAN) /\ Len(u) = n + 1
  BY <1>1, TrueInFacts
<1>4. \A j \in 1 .. (n + 1) : u[j] = (t[j].saw = TRUE)
  BY <1>1 DEF TrueIn
<1> HIDE DEF n, t, u
<1>5. CASE period > 0
  <2> DEFINE p == Reach(period, n + 1)
             x == (e.saw = TRUE)
  <2>1. h = Recent(TrueIn(s), Reach(period, Len(TrueIn(s))))
    BY <1>5, <1>2 DEF HistoryKept, n
  <2>2. x \in BOOLEAN
    OBVIOUS
  <2>3. g = LastOf(Append(h, x), period)
    BY <1>5, Zenon
  <2> HIDE DEF x
  <2>4. g = Recent(Append(TrueIn(s), x), Reach(period, Len(TrueIn(s)) + 1))
    BY <2>1, <2>2, <2>3, <1>2, LastOfRecent
  <2>5. g = Recent(u, p)
    BY <2>4, <1>2, Zenon DEF x
  <2>6. p \in 0 .. Len(u) /\ p <= period
    BY <1>1, <1>3, <1>5, ReachFacts
  <2>7. e.said = Cardinality({i \in DOMAIN g : g[i]})
    BY <1>5, Zenon
  <2>8. /\ e.said = Cardinality({j \in 1 .. Len(u) : j > Len(u) - p /\ u[j] = TRUE})
        /\ e.said \in Nat
    BY <2>5, <2>6, <2>7, <1>3, HoldingCounted
  <2>9. \A j \in 1 .. (n + 1) : j > (n + 1) - p <=> j > (n + 1) - period
    BY <1>1, <1>5 DEF Reach
  <2> HIDE DEF p
  <2>10. {j \in 1 .. Len(u) : j > Len(u) - p /\ u[j] = TRUE} = B
    BY <2>9, <1>3, <1>4
  <2>11. CountIsRight(period, t, n + 1)
    BY <2>8, <2>10, <1>1 DEF CountIsRight
  <2>12. HistoryKept(g, period, t)
    BY <2>5, <1>1 DEF HistoryKept, p, u
  <2> QED  BY <2>8, <2>11, <2>12 DEF n, t
<1>6. CASE ~(period > 0)
  <2>1. e.said = 0
    BY <1>6, Zenon
  <2>2. B = {}
    BY <1>1, <1>6
  <2>3. CountIsRight(period, t, n + 1)
    BY <2>1, <2>2, <1>1, FS_EmptySet DEF CountIsRight
  <2>4. HistoryKept(g, period, t)
    BY <1>6 DEF HistoryKept
  <2> QED  BY <2>1, <2>3, <2>4 DEF n, t
<1> QED  BY <1>5, <1>6

----------------------------------------------------------------------------
(* The last two turns of the price.                                        *)

\* The greatest of a set, as the evaluator's model chooses it
LastIn(E) == CHOOSE i \in E : \A j \in E : j <= i

LEMMA LastInFacts ==
    ASSUME NEW n \in Nat, NEW E \in SUBSET (0 .. n), E # {}
    PROVE  /\ LastIn(E) \in E /\ \A j \in E : j <= LastIn(E)
           /\ \A i \in E : (\A j \in E : j <= i) => i = LastIn(E)
PROOF
<1>1. Max(E) \in E /\ \A j \in E : j <= Max(E)
  BY MaxBelow
<1>2. \E i \in E : \A j \in E : j <= i
  BY <1>1
<1>3. LastIn(E) \in E /\ \A j \in E : j <= LastIn(E)
  BY <1>2 DEF LastIn
<1> HIDE DEF LastIn
<1>4. \A j \in E : j \in Int
  OBVIOUS
<1>5. ASSUME NEW i \in E, \A j \in E : j <= i
      PROVE  i = LastIn(E)
  <2>1. i <= LastIn(E) /\ LastIn(E) <= i
    BY <1>3, <1>5
  <2>2. i \in Int /\ LastIn(E) \in Int
    BY <1>3, <1>4
  <2> HIDE DEF LastIn
  <2> QED  BY <2>1, <2>2
<1> QED  BY <1>3, <1>5

\* m is the last of E, and l the last but one
LastPair(E, l, m) == l \in E /\ m \in E /\ l < m /\ \A j \in E : j > l => j = m

LEMMA LastPairFacts ==
    ASSUME NEW n \in Nat, NEW E \in SUBSET (0 .. n)
    PROVE  /\ Cardinality(E) >= 2 => LastPair(E, LastIn(E \ {LastIn(E)}), LastIn(E))
           /\ \A l, m : LastPair(E, l, m) =>
                 Cardinality(E) >= 2 /\ m = LastIn(E) /\ l = LastIn(E \ {LastIn(E)})
PROOF
<1>1. IsFiniteSet(E) /\ Cardinality(E) \in Nat /\ \A j \in E : j \in Int
  <2>1. IsFiniteSet(0 .. n)
    BY FS_Interval
  <2>2. IsFiniteSet(E) /\ Cardinality(E) \in Nat
    BY <2>1, FS_Subset, FS_CardinalityType
  <2>3. \A j \in E : j \in Int
    OBVIOUS
  <2> QED  BY <2>2, <2>3
<1>2. ASSUME Cardinality(E) >= 2
      PROVE  LastPair(E, LastIn(E \ {LastIn(E)}), LastIn(E))
  <2> DEFINE m == LastIn(E)
             F == E \ {m}
             l == LastIn(F)
  <2>1. E # {}
    BY <1>2, FS_EmptySet
  <2>2. m \in E /\ \A j \in E : j <= m
    BY <2>1, LastInFacts
  <2>3. Cardinality(F) = Cardinality(E) - 1
    BY <1>1, <2>2, FS_RemoveElement
  <2>4. F # {}
    <3>1. Cardinality(F) # 0
      BY <2>3, <1>1, <1>2
    <3> QED  BY <3>1, FS_EmptySet
  <2>5. F \in SUBSET (0 .. n)
    OBVIOUS
  <2> HIDE DEF m
  <2> HIDE DEF F
  <2>6. l \in F /\ \A j \in F : j <= l
    BY <2>4, <2>5, LastInFacts
  <2> HIDE DEF l
  <2>7. l \in E /\ l # m
    BY <2>6 DEF F
  <2>8. l < m
    BY <2>7, <2>2, <1>1
  <2>9. ASSUME NEW j \in E, j > l
        PROVE  j = m
    <3>1. CASE j \in F
      BY <3>1, <2>6, <2>9, <1>1, <2>7
    <3>2. CASE j \notin F
      BY <3>2 DEF F
    <3> QED  BY <3>1, <3>2
  <2> QED  BY <2>2, <2>7, <2>8, <2>9 DEF LastPair, l, F, m
<1>3. ASSUME NEW l, NEW m, LastPair(E, l, m)
      PROVE  Cardinality(E) >= 2 /\ m = LastIn(E) /\ l = LastIn(E \ {LastIn(E)})
  <2>1. l \in E /\ m \in E /\ l < m /\ \A j \in E : j > l => j = m
    BY <1>3 DEF LastPair
  <2>2. Cardinality({l, m}) = 2
    <3>1. IsFiniteSet({l}) /\ Cardinality({l}) = 1
      BY FS_Singleton
    <3>2. m \notin {l} /\ {l, m} = {l} \union {m}
      BY <2>1, <1>1
    <3> QED  BY <3>1, <3>2, FS_AddElement
  <2>3. {l, m} \in SUBSET E
    BY <2>1
  <2>4. Cardinality({l, m}) <= Cardinality(E)
    BY <1>1, <2>3, FS_Subset
  <2>5. Cardinality(E) >= 2
    BY <2>2, <2>4, <1>1
  <2>6. \A j \in E : j <= m
    BY <2>1, <1>1
  <2>7. m = LastIn(E)
    BY <2>1, <2>6, LastInFacts
  <2> DEFINE F == E \ {m}
  <2>8. l \in F /\ \A j \in F : j <= l
    BY <2>1, <1>1
  <2>9. F \in SUBSET (0 .. n)
    OBVIOUS
  <2> HIDE DEF F
  <2>10. l = LastIn(F)
    BY <2>8, <2>9, LastInFacts
  <2> QED  BY <2>5, <2>7, <2>10 DEF F
<1> QED  BY <1>2, <1>3

\* A local extremum of the price in a history
Turn(b, h, j) == Beyond(b, h[j][1], h[j - 1][1]) /\ Beyond(b, h[j][1], h[j + 1][1])

\* The price went further, the indicator did not.
Apart(b, h, l, m) == Beyond(b, h[m][1], h[l][1]) /\ Beyond(b, h[l][2], h[m][2])

LEMMA DivergenceMeans ==
    ASSUME NEW h, Len(h) \in Nat, NEW b
    PROVE  LET E == {i \in 2 .. (Len(h) - 1) : Turn(b, h, i)}
           IN  Divergence(h, b) <=> \E l, m \in E : LastPair(E, l, m) /\ Apart(b, h, l, m)
PROOF
<1> DEFINE E == {i \in 2 .. (Len(h) - 1) : Turn(b, h, i)}
           m == LastIn(E)
           l == LastIn(E \ {m})
<1>1. Divergence(h, b) <=> Cardinality(E) >= 2 /\ Apart(b, h, l, m)
  BY DEF Divergence, LastIn, Turn, Apart
<1>2. E \in SUBSET (0 .. Len(h))
  OBVIOUS
<1> HIDE DEF E
<1>3. /\ Cardinality(E) >= 2 => LastPair(E, l, m)
      /\ \A i, j : LastPair(E, i, j) => Cardinality(E) >= 2 /\ j = m /\ i = l
  BY <1>2, LastPairFacts, Zenon
<1> HIDE DEF l, m
<1>4. LastPair(E, l, m) => l \in E /\ m \in E
  BY DEF LastPair
<1>5. Divergence(h, b) <=> \E i, j \in E : LastPair(E, i, j) /\ Apart(b, h, i, j)
  BY <1>1, <1>3, <1>4
<1> QED  BY <1>5 DEF E

\* What a call saw, evaluation for evaluation
Saws(s) == [j \in 1 .. Len(s) |-> s[j].saw]

LEMMA SawsFacts ==
    ASSUME NEW D, NEW V, NEW s \in Seq(D), NEW e \in D, \A d \in D : d.saw \in V
    PROVE  /\ Saws(s) \in Seq(V) /\ Len(Saws(s)) = Len(s)
           /\ Saws(Append(s, e)) = Append(Saws(s), e.saw)
PROOF
<1> DEFINE n == Len(s)
           t == Append(s, e)
<1>1. /\ n \in Nat /\ Len(t) = n + 1 /\ t[n + 1] = e
      /\ \A j \in 1 .. n : t[j] = s[j] /\ s[j] \in D
  BY AppendParts
<1> HIDE DEF n, t
<1>2. \A j \in 1 .. (n + 1) : t[j].saw \in V
  BY <1>1
<1>3. Saws(s) \in [1 .. n -> V] /\ Saws(t) \in [1 .. (n + 1) -> V]
  BY <1>1, <1>2 DEF Saws, n
<1>4. /\ Saws(s) \in Seq(V) /\ Len(Saws(s)) = n
      /\ Saws(t) \in Seq(V) /\ Len(Saws(t)) = n + 1
  BY <1>1, <1>3, FunctionIsSeq
<1>5. /\ Append(Saws(s), e.saw) \in Seq(V) /\ Len(Append(Saws(s), e.saw)) = n + 1
      /\ Append(Saws(s), e.saw)[n + 1] = e.saw
      /\ \A j \in 1 .. n : Append(Saws(s), e.saw)[j] = Saws(s)[j]
  BY <1>4, AppendParts
<1>6. Saws(t)[n + 1] = e.saw /\ \A j \in 1 .. n : Saws(t)[j] = Saws(s)[j]
  BY <1>1 DEF Saws, n
<1>7. \A j \in 1 .. (n + 1) : Saws(t)[j] = Append(Saws(s), e.saw)[j]
  BY <1>1, <1>5, <1>6
<1>8. Saws(t) = Append(Saws(s), e.saw)
  BY <1>4, <1>5, <1>7, SameSequence
<1> QED  BY <1>4, <1>8 DEF n, t

\* The bars that divergence keeps
BarsKept(h, r, s) == h = Recent(Saws(s), Reach(r, Len(s)))

LEMMA DivergenceOf ==
    ASSUME NEW D, NEW V, NEW s \in Seq(D), NEW e \in D, \A d \in D : d.saw \in V,
           NEW h, NEW r \in Int, BarsKept(h, r, s), NEW name,
           NEW g, g = LastOf(Append(h, e.saw), r),
           e.said = (Len(g) >= 5 /\ Divergence(g, name = "bullish"))
    PROVE  /\ DivergenceIsRight(name, r, Append(s, e), Len(s) + 1)
           /\ BarsKept(g, r, Append(s, e))
PROOF
<1> DEFINE n == Len(s)
           t == Append(s, e)
           i == n + 1
           p == Reach(r, i)
           b == (name = "bullish")
           first == IF r < 0 THEN i + 1
                    ELSE IF r > 0 /\ i > r THEN i - r + 1 ELSE 1
           d == i - p
           inside == (first + 1) .. (i - 1)
           turn(j) == Beyond(b, t[j].saw[1], t[j - 1].saw[1]) /\ Beyond(b, t[j].saw[1], t[j + 1].saw[1])
           apart(l, m) == Beyond(b, t[m].saw[1], t[l].saw[1]) /\ Beyond(b, t[l].saw[2], t[m].saw[2])
           found == \E l, m \in inside : /\ l < m /\ turn(l) /\ turn(m)
                                         /\ \A j \in inside : j > l /\ turn(j) => j = m
                                         /\ apart(l, m)
           E == {j \in 2 .. (p - 1) : Turn(b, g, j)}
<1>1. /\ n \in Nat /\ Len(t) = i /\ t \in Seq(D) /\ t[i] = e
  BY AppendParts
<1>2. /\ Saws(s) \in Seq(V) /\ Len(Saws(s)) = n
      /\ Saws(t) = Append(Saws(s), e.saw) /\ e.saw \in V
  <2>1. e.saw \in V
    OBVIOUS
  <2>2. /\ Saws(s) \in Seq(V) /\ Len(Saws(s)) = n
        /\ Saws(t) = Append(Saws(s), e.saw)
    BY SawsFacts
  <2> QED  BY <2>1, <2>2
<1>3. Saws(t) \in Seq(V) /\ Len(Saws(t)) = i
  BY <1>1, SawsFacts
<1>4. \A j \in 1 .. i : Saws(t)[j] = t[j].saw
  BY <1>1 DEF Saws
<1> HIDE DEF t
<1>5. h = Recent(Saws(s), Reach(r, Len(Saws(s))))
  BY <1>2 DEF BarsKept
<1>6. g = Recent(Saws(t), p)
  BY <1>5, <1>2, LastOfRecent
<1>7. BarsKept(g, r, t)
  BY <1>6, <1>1 DEF BarsKept
<1>8. i \in Nat /\ p \in 0 .. i /\ d \in Nat /\ first = d + 1 /\ first \in Int /\ i = d + p /\ p \in Nat
  BY <1>1 DEF Reach
<1> HIDE DEF n, i, p, d, first
<1>9. /\ g \in Seq(V) /\ Len(g) = p
      /\ \A j \in 1 .. p : g[j] = Saws(t)[i - p + j]
  <2>1. /\ Recent(Saws(t), p) \in Seq(V) /\ Len(Recent(Saws(t), p)) = p
        /\ \A j \in 1 .. p : Recent(Saws(t), p)[j] = Saws(t)[Len(Saws(t)) - p + j]
    <3>1. p \in 0 .. Len(Saws(t))
      BY <1>3, <1>8
    <3> QED  BY <3>1, <1>3, RecentTyped
  <2> QED  BY <2>1, <1>3, <1>6
<1>10. \A j \in 1 .. p : g[j] = t[d + j].saw
  <2> TAKE j \in 1 .. p
  <2>1. i - p + j = d + j /\ d + j \in 1 .. i
    BY <1>8
  <2> QED  BY <2>1, <1>4, <1>9
<1>11. \A j \in 2 .. (p - 1) : turn(d + j) <=> Turn(b, g, j)
  <2> TAKE j \in 2 .. (p - 1)
  <2>1. j \in 1 .. p /\ j - 1 \in 1 .. p /\ j + 1 \in 1 .. p
    BY <1>8
  <2>2. d + (j - 1) = (d + j) - 1 /\ d + (j + 1) = (d + j) + 1
    BY <1>8
  <2>3. g[j] = t[d + j].saw /\ g[j - 1] = t[(d + j) - 1].saw /\ g[j + 1] = t[(d + j) + 1].saw
    BY <2>1, <2>2, <1>10
  <2> QED  BY <2>3 DEF Turn
<1>12. \A l, m \in 2 .. (p - 1) : apart(d + l, d + m) <=> Apart(b, g, l, m)
  <2> TAKE l, m \in 2 .. (p - 1)
  <2>1. l \in 1 .. p /\ m \in 1 .. p
    BY <1>8
  <2> QED  BY <2>1, <1>10 DEF Apart
<1> HIDE DEF turn, apart
<1>13. \A j \in inside : j - d \in 2 .. (p - 1) /\ d + (j - d) = j
  BY <1>8
<1>14. \A j \in 2 .. (p - 1) : d + j \in inside
  BY <1>8
<1>15. ASSUME found
       PROVE  \E l, m \in E : LastPair(E, l, m) /\ Apart(b, g, l, m)
  <2>1. PICK l \in inside, m \in inside : /\ l < m /\ turn(l) /\ turn(m)
                                          /\ \A j \in inside : j > l /\ turn(j) => j = m
                                          /\ apart(l, m)
    BY <1>15
  <2> DEFINE x == l - d
             y == m - d
  <2>2. x \in 2 .. (p - 1) /\ y \in 2 .. (p - 1) /\ d + x = l /\ d + y = m
    BY <1>13
  <2> HIDE DEF inside
  <2>3. x \in E /\ y \in E /\ Apart(b, g, x, y)
    BY <2>1, <2>2, <1>11, <1>12
  <2>4. x < y
    BY <2>1, <2>2, <1>8
  <2>5. ASSUME NEW j \in E, j > x
        PROVE  j = y
    <3>1. d + j \in inside /\ turn(d + j) /\ j \in Int
      BY <1>11, <1>14
    <3>2. d + j > l
      BY <2>5, <2>2, <3>1, <1>8
    <3>3. d + j = m
      BY <3>1, <3>2, <2>1
    <3> QED  BY <3>1, <3>3, <2>2, <1>8
  <2> HIDE DEF x, y, E
  <2>6. LastPair(E, x, y)
    BY <2>3, <2>4, <2>5 DEF LastPair
  <2> QED  BY <2>3, <2>6
<1>16. ASSUME NEW l \in E, NEW m \in E, LastPair(E, l, m), Apart(b, g, l, m)
       PROVE  found
  <2> DEFINE x == d + l
             y == d + m
  <2>1. l < m /\ \A j \in E : j > l => j = m
    BY <1>16 DEF LastPair
  <2>2. l \in 2 .. (p - 1) /\ m \in 2 .. (p - 1) /\ Turn(b, g, l) /\ Turn(b, g, m)
    OBVIOUS
  <2>3. x \in inside /\ y \in inside /\ turn(x) /\ turn(y) /\ apart(x, y)
    BY <2>2, <1>11, <1>12, <1>14, <1>16
  <2>4. x < y
    BY <2>1, <2>2, <1>8
  <2>5. ASSUME NEW j \in inside, j > x, turn(j)
        PROVE  j = y
    <3>1. j - d \in 2 .. (p - 1) /\ d + (j - d) = j
      BY <1>13
    <3>2. j - d \in E
      BY <3>1, <2>5, <1>11
    <3>3. j - d > l
      BY <3>1, <2>2, <2>5, <1>8
    <3>4. j - d = m
      BY <3>2, <3>3, <2>1
    <3> QED  BY <3>1, <3>4
  <2> HIDE DEF x, y, E, inside
  <2> QED  BY <2>3, <2>4, <2>5
<1> HIDE DEF found
<1>17. Divergence(g, b) <=> found
  <2>1. Len(g) \in Nat
    BY <1>8, <1>9
  <2>2. E = {j \in 2 .. (Len(g) - 1) : Turn(b, g, j)}
    BY <1>9
  <2> HIDE DEF E
  <2>3. Divergence(g, b) <=> \E l, m \in E : LastPair(E, l, m) /\ Apart(b, g, l, m)
    BY <2>1, <2>2, DivergenceMeans
  <2> QED  BY <2>3, <1>15, <1>16
<1>18. Len(g) >= 5 <=> i - first >= 4
  BY <1>8, <1>9
<1>19. t[i].said <=> i - first >= 4 /\ found
  BY <1>1, <1>17, <1>18
<1>20. DivergenceIsRight(name, r, t, i)
  BY <1>19 DEF DivergenceIsRight, found, inside, turn, apart, first
<1> QED  BY <1>7, <1>20 DEF i, n, t

----------------------------------------------------------------------------
(* The script's calls.                                                     *)

\* What a call may see and say
EvaluationsOf(f) ==
    CASE f.name \in Crossings ->
            [saw : (Levels \union {Null}) \X (Levels \union {Null}), said : BOOLEAN \union {Null}]
      [] f.name \in {"count", "streak"} -> [saw : BOOLEAN \union {Null}, said : Nat]
      [] f.name \in Divergences -> [saw : Levels \X Readings, said : BOOLEAN]

MemoryShape(m) == m = [cross |-> m.cross, count |-> m.count, streak |-> m.streak, hist |-> m.hist]

\* What the memory has of the evaluations s of the call k
Kept(m, k, f, s) ==
    /\ f.name \in Crossings => PairKept(Get(m.cross, k, Null), s)
    /\ f.name = "count" => HistoryKept(Get(m.count, k, <<>>), f.reach, s)
    /\ f.name = "streak" => RunKept(Get(m.streak, k, 0), s)
    /\ f.name \in Divergences => BarsKept(Get(m.hist, k, <<>>), f.reach, s)

\* The memory keeps of every call what its next evaluation needs, and the evaluations
\* so far were right.
CallIs(m, k, f, s) ==
    /\ s \in Seq(EvaluationsOf(f))
    /\ Kept(m, k, f, s)
    /\ \A i \in DOMAIN s : IsRight(f, s, i)

MemoryIs(sc, m, ev) ==
    /\ sc \in [DOMAIN sc -> Kinds] /\ DOMAIN sc \subseteq Calls
    /\ ev = [k \in Calls |-> ev[k]]
    /\ MemoryShape(m)
    /\ \A k \in DOMAIN sc : CallIs(m, k, sc[k], ev[k])

LEMMA KindFacts ==
    ASSUME NEW f \in Kinds
    PROVE  /\ f.name \in Crossings \/ f.name = "count" \/ f.name = "streak" \/ f.name \in Divergences
           /\ f.reach \in Int
PROOF
<1>1. Periods \subseteq Int /\ Lookbacks \subseteq Int
  BY MemoryAssumption
<1>2. CASE f \in {[name |-> n, reach |-> 0] : n \in Crossings \union {"streak"}}
  BY <1>2
<1>3. CASE f \in {[name |-> "count", reach |-> p] : p \in Periods}
  BY <1>1, <1>3
<1>4. CASE f \in {[name |-> n, reach |-> l] : n \in Divergences, l \in Lookbacks}
  BY <1>1, <1>4
<1>5. \/ f \in {[name |-> n, reach |-> 0] : n \in Crossings \union {"streak"}}
      \/ f \in {[name |-> "count", reach |-> p] : p \in Periods}
      \/ f \in {[name |-> n, reach |-> l] : n \in Divergences, l \in Lookbacks}
  BY DEF Kinds
<1> QED  BY <1>2, <1>3, <1>4, <1>5

LEMMA KeptSame ==
    ASSUME NEW m, NEW m2, NEW k, NEW f, NEW s, Kept(m, k, f, s),
           Get(m2.cross, k, Null) = Get(m.cross, k, Null),
           Get(m2.count, k, <<>>) = Get(m.count, k, <<>>),
           Get(m2.streak, k, 0) = Get(m.streak, k, 0),
           Get(m2.hist, k, <<>>) = Get(m.hist, k, <<>>)
    PROVE  Kept(m2, k, f, s)
BY DEF Kept

\* An evaluation of one call, after which the memory of the others is what it was
LEMMA CallKeeps ==
    ASSUME NEW sc, NEW m, NEW ev, MemoryIs(sc, m, ev),
           NEW k \in DOMAIN sc, NEW e \in EvaluationsOf(sc[k]),
           NEW m2, MemoryShape(m2),
           NEW ev2, ev2 = [ev EXCEPT ![k] = Append(@, e)],
           \A j : j # k => /\ Get(m2.cross, j, Null) = Get(m.cross, j, Null)
                           /\ Get(m2.count, j, <<>>) = Get(m.count, j, <<>>)
                           /\ Get(m2.streak, j, 0) = Get(m.streak, j, 0)
                           /\ Get(m2.hist, j, <<>>) = Get(m.hist, j, <<>>),
           Kept(m2, k, sc[k], Append(ev[k], e)),
           IsRight(sc[k], Append(ev[k], e), Len(ev[k]) + 1)
    PROVE  MemoryIs(sc, m2, ev2)
PROOF
<1> DEFINE s == ev[k]
           t == Append(s, e)
           f == sc[k]
<1>1. /\ sc \in [DOMAIN sc -> Kinds] /\ DOMAIN sc \subseteq Calls
      /\ ev = [j \in Calls |-> ev[j]]
      /\ \A j \in DOMAIN sc : CallIs(m, j, sc[j], ev[j])
  BY DEF MemoryIs
<1>2. ev2[k] = t /\ (\A j \in Calls : j # k => ev2[j] = ev[j]) /\ ev2 = [j \in Calls |-> ev2[j]]
  BY <1>1
<1>3. f \in Kinds /\ s \in Seq(EvaluationsOf(f)) /\ \A i \in DOMAIN s : IsRight(f, s, i)
  BY <1>1 DEF CallIs
<1>4. /\ Len(s) \in Nat /\ t \in Seq(EvaluationsOf(f)) /\ Len(t) = Len(s) + 1
      /\ \A i \in 1 .. Len(s) : t[i] = s[i]
  BY <1>3, AppendParts
<1>5. DOMAIN s = 1 .. Len(s) /\ DOMAIN t = 1 .. (Len(s) + 1)
  BY <1>3, <1>4, SeqIsFunction
<1>6. f.reach \in Int
  BY <1>3, KindFacts
<1> HIDE DEF s, t, f
<1>7. ASSUME NEW i \in DOMAIN t
      PROVE  IsRight(f, t, i)
  <2>1. CASE i \in 1 .. Len(s)
    <3>1. IsRight(f, s, i) /\ i \in Nat /\ i >= 1 /\ \A j \in 1 .. i : s[j] = t[j]
      BY <2>1, <1>3, <1>4, <1>5
    <3> QED  BY <3>1, <1>6, RightSame
  <2>2. CASE i \notin 1 .. Len(s)
    <3>1. i = Len(s) + 1
      BY <2>2, <1>4, <1>5
    <3> QED  BY <3>1 DEF f, s, t
  <2> QED  BY <2>1, <2>2
<1>8. CallIs(m2, k, f, ev2[k])
  BY <1>2, <1>4, <1>7 DEF CallIs, f, t, s
<1>9. ASSUME NEW j \in DOMAIN sc, j # k
      PROVE  CallIs(m2, j, sc[j], ev2[j])
  <2>1. CallIs(m, j, sc[j], ev[j]) /\ ev2[j] = ev[j]
    BY <1>1, <1>2, <1>9
  <2>2. Kept(m2, j, sc[j], ev[j])
    <3>1. Kept(m, j, sc[j], ev[j])
      BY <2>1 DEF CallIs
    <3>2. /\ Get(m2.cross, j, Null) = Get(m.cross, j, Null)
          /\ Get(m2.count, j, <<>>) = Get(m.count, j, <<>>)
          /\ Get(m2.streak, j, 0) = Get(m.streak, j, 0)
          /\ Get(m2.hist, j, <<>>) = Get(m.hist, j, <<>>)
      BY <1>9
    <3> QED  BY <3>1, <3>2, KeptSame
  <2> QED  BY <2>1, <2>2 DEF CallIs
<1>10. \A j \in DOMAIN sc : CallIs(m2, j, sc[j], ev2[j])
  BY <1>8, <1>9 DEF f
<1> QED  BY <1>1, <1>2, <1>10 DEF MemoryIs

\* Of the four dictionaries one entry is written.
LEMMA CrossWritten ==
    ASSUME NEW m, MemoryShape(m), NEW p, NEW m2, m2 = [m EXCEPT !.cross = p]
    PROVE  /\ MemoryShape(m2) /\ m2.cross = p
           /\ m2.count = m.count /\ m2.streak = m.streak /\ m2.hist = m.hist
BY DEF MemoryShape

LEMMA CountWritten ==
    ASSUME NEW m, MemoryShape(m), NEW p, NEW m2, m2 = [m EXCEPT !.count = p]
    PROVE  /\ MemoryShape(m2) /\ m2.count = p
           /\ m2.cross = m.cross /\ m2.streak = m.streak /\ m2.hist = m.hist
BY DEF MemoryShape

LEMMA StreakWritten ==
    ASSUME NEW m, MemoryShape(m), NEW p, NEW m2, m2 = [m EXCEPT !.streak = p]
    PROVE  /\ MemoryShape(m2) /\ m2.streak = p
           /\ m2.cross = m.cross /\ m2.count = m.count /\ m2.hist = m.hist
BY DEF MemoryShape

LEMMA HistWritten ==
    ASSUME NEW m, MemoryShape(m), NEW p, NEW m2, m2 = [m EXCEPT !.hist = p]
    PROVE  /\ MemoryShape(m2) /\ m2.hist = p
           /\ m2.cross = m.cross /\ m2.count = m.count /\ m2.streak = m.streak
BY DEF MemoryShape

LEMMA EvaluationTyped ==
    ASSUME NEW f \in Kinds
    PROVE  /\ f.name \in Crossings =>
                 EvaluationsOf(f) = [saw : (Levels \union {Null}) \X (Levels \union {Null}),
                                     said : BOOLEAN \union {Null}]
           /\ f.name \in {"count", "streak"} => EvaluationsOf(f) = [saw : BOOLEAN \union {Null}, said : Nat]
           /\ f.name \in Divergences => EvaluationsOf(f) = [saw : Levels \X Readings, said : BOOLEAN]
BY DEF EvaluationsOf, Crossings, Divergences

MemoryInvariant == MemoryIs(script, memory, evaluations)

LEMMA CallFacts ==
    ASSUME MemoryInvariant, NEW k, NEW names, Calling(k, names)
    PROVE  /\ k \in DOMAIN script /\ script[k] \in Kinds /\ script[k].name \in names
           /\ script[k].reach \in Int
           /\ MemoryShape(memory)
           /\ evaluations[k] \in Seq(EvaluationsOf(script[k]))
           /\ Kept(memory, k, script[k], evaluations[k])
PROOF
<1>1. /\ script \in [DOMAIN script -> Kinds] /\ MemoryShape(memory)
      /\ \A j \in DOMAIN script : CallIs(memory, j, script[j], evaluations[j])
  BY DEF MemoryInvariant, MemoryIs
<1>2. k \in DOMAIN script /\ script[k].name \in names
  BY DEF Calling
<1>3. script[k] \in Kinds
  BY <1>1, <1>2
<1>4. script[k].reach \in Int
  BY <1>3, KindFacts
<1> QED  BY <1>1, <1>2, <1>3, <1>4 DEF CallIs

LEMMA EvalCrossKeeps ==
    ASSUME MemoryInvariant, NEW k \in Calls,
           NEW a \in Levels \union {Null}, NEW b \in Levels \union {Null}, EvalCross(k, a, b)
    PROVE  MemoryInvariant'
PROOF
<1> DEFINE f == script[k]
           s == evaluations[k]
           prev == Get(memory.cross, k, Null)
           res == Crossed(f.name, k, a, b, memory)
           e == [saw |-> <<a, b>>, said |-> res.v]
           blank == a = Null \/ b = Null
           D == EvaluationsOf(f)
<1>1. Calling(k, Crossings) /\ Evaluated(k, <<a, b>>, res)
  BY DEF EvalCross
<1>2. /\ k \in DOMAIN script /\ f \in Kinds /\ f.name \in Crossings /\ MemoryShape(memory)
      /\ s \in Seq(D) /\ Kept(memory, k, f, s)
  BY <1>1, CallFacts
<1>3. /\ memory' = res.st /\ script' = script
      /\ evaluations' = [evaluations EXCEPT ![k] = Append(@, e)]
  BY <1>1 DEF Evaluated
<1>4. /\ blank => res.v = Null /\ res.st = memory
      /\ ~blank => /\ res.v = Crosses(f.name, prev, a, b)
                   /\ res.st = [memory EXCEPT !.cross = Put(@, k, <<a, b>>)]
  BY DEF Crossed, Val
<1>5. D = [saw : (Levels \union {Null}) \X (Levels \union {Null}), said : BOOLEAN \union {Null}]
  BY <1>2, EvaluationTyped
<1> HIDE DEF f, s, D, res
<1>6. e \in D
  <2>1. res.v \in BOOLEAN \union {Null}
    BY <1>4 DEF Crosses
  <2> QED  BY <2>1, <1>5
<1>7. PairKept(prev, s)
  BY <1>2 DEF Kept
<1>8. e.saw = <<a, b>> /\ e.saw[1] = a /\ e.saw[2] = b /\ e.said = res.v
  OBVIOUS
<1>9. e.said = CrossingSays(f.name, prev, e.saw)
  BY <1>4, <1>8 DEF CrossingSays
<1> HIDE DEF e, prev, blank
<1>10. /\ CrossingIsRight(f.name, Append(s, e), Len(s) + 1)
       /\ PairKept(PairAfter(prev, e.saw), Append(s, e))
  <2>1. \A d \in D : d.saw \in (Levels \union {Null}) \X (Levels \union {Null})
    BY <1>5
  <2>2. Levels \subseteq Int /\ Null \notin Levels /\ \A x, y \in Levels : Null # <<x, y>>
    BY MemoryAssumption
  <2> DEFINE n == f.name
  <2>3. n \in Crossings /\ e.said = CrossingSays(n, prev, e.saw)
    BY <1>2, <1>9
  <2> HIDE DEF n
  <2>4. CrossingIsRight(n, Append(s, e), Len(s) + 1) /\ PairKept(PairAfter(prev, e.saw), Append(s, e))
    BY <2>1, <2>2, <2>3, <1>2, <1>6, <1>7, CrossingOf
  <2> QED  BY <2>4 DEF n
<1>11. f.name \notin {"count", "streak"} /\ f.name \notin Divergences
  BY <1>2 DEF Crossings, Divergences
<1>12. IsRight(f, Append(s, e), Len(s) + 1)
  BY <1>10, <1>11 DEF IsRight
<1>13. /\ MemoryShape(memory')
       /\ Get(memory'.cross, k, Null) = PairAfter(prev, e.saw)
       /\ \A j : j # k => Get(memory'.cross, j, Null) = Get(memory.cross, j, Null)
       /\ memory'.count = memory.count /\ memory'.streak = memory.streak /\ memory'.hist = memory.hist
  <2>1. /\ blank => PairAfter(prev, e.saw) = prev
        /\ ~blank => PairAfter(prev, e.saw) = <<a, b>>
    BY <1>8 DEF PairAfter, blank
  <2>2. CASE blank
    <3>1. memory' = memory
      BY <2>2, <1>3, <1>4
    <3> QED  BY <3>1, <2>2, <2>1, <1>2 DEF prev
  <2>3. CASE ~blank
    <3> DEFINE p == Put(memory.cross, k, <<a, b>>)
    <3>1. memory' = [memory EXCEPT !.cross = p]
      BY <2>3, <1>3, <1>4
    <3> HIDE DEF p
    <3>2. /\ MemoryShape(memory') /\ memory'.cross = p
          /\ memory'.count = memory.count /\ memory'.streak = memory.streak /\ memory'.hist = memory.hist
      BY <3>1, <1>2, CrossWritten
    <3>3. /\ Get(memory'.cross, k, Null) = <<a, b>>
          /\ \A j : j # k => Get(memory'.cross, j, Null) = Get(memory.cross, j, Null)
      BY <3>2, GetPut DEF p
    <3>4. PairAfter(prev, e.saw) = <<a, b>>
      BY <2>3, <2>1
    <3> QED  BY <3>2, <3>3, <3>4
  <2> QED  BY <2>2, <2>3
<1>14. Kept(memory', k, f, Append(s, e))
  BY <1>8, <1>10, <1>11, <1>13 DEF Kept
<1>15. MemoryIs(script, memory', evaluations')
  BY <1>2, <1>3, <1>6, <1>12, <1>13, <1>14, CallKeeps DEF MemoryInvariant, f, s, D, e
<1> QED  BY <1>3, <1>15 DEF MemoryInvariant

LEMMA EvalCountKeeps ==
    ASSUME MemoryInvariant, NEW k \in Calls, NEW holds \in BOOLEAN \union {Null}, EvalCount(k, holds)
    PROVE  MemoryInvariant'
PROOF
<1> DEFINE f == script[k]
           s == evaluations[k]
           h == Get(memory.count, k, <<>>)
           x == (holds = TRUE)
           g == Extended(h, holds, f.reach)
           res == Counted(k, f.reach, x, memory)
           e == [saw |-> holds, said |-> res.v]
           D == EvaluationsOf(f)
<1>1. Calling(k, {"count"}) /\ Evaluated(k, holds, res)
  BY DEF EvalCount
<1>2. /\ k \in DOMAIN script /\ f \in Kinds /\ f.name = "count" /\ MemoryShape(memory)
      /\ s \in Seq(D) /\ Kept(memory, k, f, s) /\ f.reach \in Int
  BY <1>1, CallFacts
<1>3. /\ memory' = res.st /\ script' = script
      /\ evaluations' = [evaluations EXCEPT ![k] = Append(@, e)]
  BY <1>1 DEF Evaluated
<1>4. /\ res.v = HoldingIn(g, f.reach)
      /\ res.st = [memory EXCEPT !.count = Put(@, k, g)]
  BY DEF Counted, Val, Extended, HoldingIn
<1>5. D = [saw : BOOLEAN \union {Null}, said : Nat]
  BY <1>2, EvaluationTyped
<1>6. HistoryKept(h, f.reach, s)
  BY <1>2 DEF Kept
<1> DEFINE D2 == [saw : BOOLEAN \union {Null}, said : {res.v} \union Nat]
<1>7. e.saw = holds /\ e.said = res.v /\ e \in D2
  OBVIOUS
<1>8. s \in Seq(D2)
  <2>1. D \subseteq D2
    BY <1>5
  <2> HIDE DEF D, D2
  <2> QED  BY <2>1, <1>2
<1> HIDE DEF f, s, D, D2, res, h, g
<1>9. g = Extended(h, e.saw, f.reach)
  BY <1>7, Zenon DEF g
<1>10. e.said = HoldingIn(g, f.reach)
  BY <1>4, <1>7, Zenon
<1> HIDE DEF e, x
<1>11. /\ CountIsRight(f.reach, Append(s, e), Len(s) + 1)
       /\ HistoryKept(g, f.reach, Append(s, e))
       /\ e.said \in Nat
  <2> DEFINE n == f.reach
  <2>1. n \in Int /\ HistoryKept(h, n, s) /\ e \in D2
    BY <1>2, <1>6, <1>7
  <2>2. g = Extended(h, e.saw, n) /\ e.said = HoldingIn(g, n)
    BY <1>9, <1>10
  <2> HIDE DEF n
  <2>3. /\ CountIsRight(n, Append(s, e), Len(s) + 1)
        /\ HistoryKept(g, n, Append(s, e))
        /\ e.said \in Nat
    BY <2>1, <2>2, <1>8, CountOf
  <2> QED  BY <2>3 DEF n
<1>12. e \in D
  BY <1>11, <1>7, <1>5 DEF e
<1>13. f.name \notin Crossings /\ f.name # "streak" /\ f.name \notin Divergences
  BY <1>2 DEF Crossings, Divergences
<1>14. IsRight(f, Append(s, e), Len(s) + 1)
  BY <1>11, <1>13 DEF IsRight
<1>15. /\ MemoryShape(memory') /\ memory'.count = Put(memory.count, k, g)
       /\ memory'.cross = memory.cross /\ memory'.streak = memory.streak /\ memory'.hist = memory.hist
  <2>1. memory' = [memory EXCEPT !.count = Put(@, k, g)]
    BY <1>3, <1>4
  <2> QED  BY <2>1, <1>2, CountWritten
<1>16. /\ Get(memory'.count, k, <<>>) = g
       /\ \A j : j # k => Get(memory'.count, j, <<>>) = Get(memory.count, j, <<>>)
  BY <1>15, GetPut
<1>17. Kept(memory', k, f, Append(s, e))
  BY <1>11, <1>13, <1>16 DEF Kept
<1>18. MemoryIs(script, memory', evaluations')
  BY <1>2, <1>3, <1>12, <1>14, <1>15, <1>16, <1>17, CallKeeps DEF MemoryInvariant, f, s, D, e
<1> QED  BY <1>3, <1>18 DEF MemoryInvariant

LEMMA EvalStreakKeeps ==
    ASSUME MemoryInvariant, NEW k \in Calls, NEW holds \in BOOLEAN \union {Null}, EvalStreak(k, holds)
    PROVE  MemoryInvariant'
PROOF
<1> DEFINE f == script[k]
           s == evaluations[k]
           r == Get(memory.streak, k, 0)
           run == IF holds = TRUE THEN r + 1 ELSE 0
           res == Ran(k, holds = TRUE, memory)
           e == [saw |-> holds, said |-> res.v]
           D == EvaluationsOf(f)
<1>1. Calling(k, {"streak"}) /\ Evaluated(k, holds, res)
  BY DEF EvalStreak
<1>2. /\ k \in DOMAIN script /\ f \in Kinds /\ f.name = "streak" /\ MemoryShape(memory)
      /\ s \in Seq(D) /\ Kept(memory, k, f, s)
  BY <1>1, CallFacts
<1>3. /\ memory' = res.st /\ script' = script
      /\ evaluations' = [evaluations EXCEPT ![k] = Append(@, e)]
  BY <1>1 DEF Evaluated
<1>4. res.v = run /\ res.st = [memory EXCEPT !.streak = Put(@, k, run)]
  BY DEF Ran, Val
<1>5. D = [saw : BOOLEAN \union {Null}, said : Nat]
  BY <1>2, EvaluationTyped
<1>6. RunKept(r, s)
  BY <1>2 DEF Kept
<1>7. e.saw = holds /\ e.said = res.v
  OBVIOUS
<1> HIDE DEF f, s, D, res, r
<1>8. run \in Nat
  BY <1>6, <1>2 DEF RunKept
<1>9. e \in D
  BY <1>4, <1>5, <1>8
<1>10. e.said = IF e.saw = TRUE THEN r + 1 ELSE 0
  BY <1>4, <1>7, Zenon
<1> HIDE DEF e
<1>11. StreakIsRight(Append(s, e), Len(s) + 1) /\ RunKept(e.said, Append(s, e))
  BY <1>2, <1>6, <1>9, <1>10, StreakOf
<1>12. e.said = run
  BY <1>4, <1>7
<1> HIDE DEF run
<1>13. f.name \notin Crossings /\ f.name # "count" /\ f.name \notin Divergences
  BY <1>2 DEF Crossings, Divergences
<1>14. IsRight(f, Append(s, e), Len(s) + 1)
  BY <1>11, <1>13 DEF IsRight
<1>15. /\ MemoryShape(memory') /\ memory'.streak = Put(memory.streak, k, run)
       /\ memory'.cross = memory.cross /\ memory'.count = memory.count /\ memory'.hist = memory.hist
  <2>1. memory' = [memory EXCEPT !.streak = Put(@, k, run)]
    BY <1>3, <1>4
  <2> QED  BY <2>1, <1>2, StreakWritten
<1>16. /\ Get(memory'.streak, k, 0) = run
       /\ \A j : j # k => Get(memory'.streak, j, 0) = Get(memory.streak, j, 0)
  BY <1>15, GetPut
<1>17. Kept(memory', k, f, Append(s, e))
  BY <1>11, <1>12, <1>13, <1>16 DEF Kept
<1>18. MemoryIs(script, memory', evaluations')
  BY <1>2, <1>3, <1>9, <1>14, <1>15, <1>16, <1>17, CallKeeps DEF MemoryInvariant, f, s, D, e
<1> QED  BY <1>3, <1>18 DEF MemoryInvariant

LEMMA EvalDivergenceKeeps ==
    ASSUME MemoryInvariant, NEW k \in Calls, NEW price \in Levels, NEW x \in Readings,
           EvalDivergence(k, price, x)
    PROVE  MemoryInvariant'
PROOF
<1> DEFINE f == script[k]
           s == evaluations[k]
           h == Get(memory.hist, k, <<>>)
           g == LastOf(Append(h, <<price, x>>), f.reach)
           b == (f.name = "bullish")
           res == Diverged(b, k, f.reach, price, x, memory)
           e == [saw |-> <<price, x>>, said |-> res.v]
           D == EvaluationsOf(f)
<1>1. Calling(k, Divergences) /\ Evaluated(k, <<price, x>>, res)
  BY DEF EvalDivergence
<1>2. /\ k \in DOMAIN script /\ f \in Kinds /\ f.name \in Divergences /\ MemoryShape(memory)
      /\ s \in Seq(D) /\ Kept(memory, k, f, s) /\ f.reach \in Int
  BY <1>1, CallFacts
<1>3. /\ memory' = res.st /\ script' = script
      /\ evaluations' = [evaluations EXCEPT ![k] = Append(@, e)]
  BY <1>1 DEF Evaluated
<1>4. /\ res.v = (Len(g) >= 5 /\ Divergence(g, b))
      /\ res.st = [memory EXCEPT !.hist = Put(@, k, g)]
  BY DEF Diverged, Val
<1>5. D = [saw : Levels \X Readings, said : BOOLEAN]
  BY <1>2, EvaluationTyped
<1>6. BarsKept(h, f.reach, s)
  BY <1>2 DEF Kept
<1>7. e.saw = <<price, x>> /\ e.said = res.v
  OBVIOUS
<1>8. res.v \in BOOLEAN
  BY <1>4
<1> HIDE DEF f, s, D, res, h
<1>9. e \in D
  BY <1>5, <1>8
<1> HIDE DEF e
<1>10. g = LastOf(Append(h, e.saw), f.reach)
  BY <1>7
<1>11. e.said = (Len(g) >= 5 /\ Divergence(g, f.name = "bullish"))
  BY <1>4, <1>7
<1> HIDE DEF g
<1>12. /\ DivergenceIsRight(f.name, f.reach, Append(s, e), Len(s) + 1)
       /\ BarsKept(g, f.reach, Append(s, e))
  <2>1. \A d \in D : d.saw \in Levels \X Readings
    BY <1>5
  <2> QED  BY <2>1, <1>2, <1>6, <1>9, <1>10, <1>11, DivergenceOf
<1>13. f.name \notin Crossings /\ f.name # "count" /\ f.name # "streak"
  BY <1>2 DEF Crossings, Divergences
<1>14. IsRight(f, Append(s, e), Len(s) + 1)
  BY <1>12, <1>13 DEF IsRight
<1>15. /\ MemoryShape(memory') /\ memory'.hist = Put(memory.hist, k, g)
       /\ memory'.cross = memory.cross /\ memory'.count = memory.count /\ memory'.streak = memory.streak
  <2>1. memory' = [memory EXCEPT !.hist = Put(@, k, g)]
    BY <1>3, <1>4
  <2> QED  BY <2>1, <1>2, HistWritten
<1>16. /\ Get(memory'.hist, k, <<>>) = g
       /\ \A j : j # k => Get(memory'.hist, j, <<>>) = Get(memory.hist, j, <<>>)
  BY <1>15, GetPut
<1>17. Kept(memory', k, f, Append(s, e))
  BY <1>12, <1>13, <1>16 DEF Kept
<1>18. MemoryIs(script, memory', evaluations')
  BY <1>2, <1>3, <1>9, <1>14, <1>15, <1>16, <1>17, CallKeeps DEF MemoryInvariant, f, s, D, e
<1> QED  BY <1>3, <1>18 DEF MemoryInvariant

LEMMA MemoryInitially ==
    ASSUME MemoryInit
    PROVE  MemoryInvariant
PROOF
<1>1. PICK C \in SUBSET Calls : script \in [C -> Kinds]
  BY DEF MemoryInit
<1>2. script \in [DOMAIN script -> Kinds] /\ DOMAIN script \subseteq Calls
  BY <1>1
<1>3. /\ evaluations = [k \in Calls |-> evaluations[k]]
      /\ \A k \in Calls : evaluations[k] = <<>>
  BY DEF MemoryInit
<1>4. /\ MemoryShape(memory)
      /\ memory.cross = <<>> /\ memory.count = <<>> /\ memory.streak = <<>> /\ memory.hist = <<>>
  BY DEF MemoryInit, NoState, MemoryShape
<1>5. ASSUME NEW k \in DOMAIN script
      PROVE  CallIs(memory, k, script[k], <<>>)
  <2> DEFINE f == script[k]
  <2>1. f \in Kinds /\ f.reach \in Int
    BY <1>2, KindFacts
  <2>2. <<>> \in Seq(EvaluationsOf(f)) /\ Len(<<>>) = 0 /\ DOMAIN <<>> = {}
    OBVIOUS
  <2>3. \A d : Get(<<>>, k, d) = d
    BY DEF Get
  <2> HIDE DEF f
  <2>4. PairKept(Null, <<>>)
    BY DEF PairKept
  <2>5. HistoryKept(<<>>, f.reach, <<>>) /\ BarsKept(<<>>, f.reach, <<>>)
    <3>1. Reach(f.reach, 0) = 0
      BY <2>1 DEF Reach
    <3>2. \A u : Recent(u, 0) = <<>>
      BY DEF Recent
    <3> QED  BY <3>1, <3>2, <2>2 DEF HistoryKept, BarsKept
  <2>6. RunKept(0, <<>>)
    BY DEF RunKept
  <2>7. Kept(memory, k, f, <<>>)
    BY <1>4, <2>3, <2>4, <2>5, <2>6 DEF Kept
  <2> QED  BY <2>2, <2>7 DEF CallIs, f
<1> QED  BY <1>2, <1>3, <1>4, <1>5 DEF MemoryInvariant, MemoryIs

\* What a call that looks back says is decided by all it has seen and by nothing else,
\* however long the engine runs: a crossing by the last pair that was not missing, count
\* by as many evaluations as its period, streak by the whole unbroken run, divergence by
\* the bars in reach.
THEOREM MemorySuffices == MemorySpec => []ConditionsInv
PROOF
<1>1. MemoryInit => MemoryInvariant
  BY MemoryInitially
<1>2. MemoryInvariant /\ [MemoryNext]_memoryVars => MemoryInvariant'
  <2> SUFFICES ASSUME MemoryInvariant, [MemoryNext]_memoryVars
               PROVE  MemoryInvariant'
    OBVIOUS
  <2>1. CASE UNCHANGED memoryVars
    BY <2>1 DEF memoryVars, MemoryInvariant
  <2>2. ASSUME NEW k \in Calls, NEW a \in Levels \union {Null}, NEW b \in Levels \union {Null},
               EvalCross(k, a, b)
        PROVE  MemoryInvariant'
    BY <2>2, EvalCrossKeeps
  <2>3. ASSUME NEW k \in Calls, NEW holds \in BOOLEAN \union {Null}, EvalCount(k, holds)
        PROVE  MemoryInvariant'
    BY <2>3, EvalCountKeeps
  <2>4. ASSUME NEW k \in Calls, NEW holds \in BOOLEAN \union {Null}, EvalStreak(k, holds)
        PROVE  MemoryInvariant'
    BY <2>4, EvalStreakKeeps
  <2>5. ASSUME NEW k \in Calls, NEW price \in Levels, NEW x \in Readings, EvalDivergence(k, price, x)
        PROVE  MemoryInvariant'
    BY <2>5, EvalDivergenceKeeps
  <2> QED  BY <2>1, <2>2, <2>3, <2>4, <2>5 DEF MemoryNext
<1>3. MemoryInvariant => ConditionsInv
  BY DEF MemoryInvariant, MemoryIs, CallIs, ConditionsInv
<1> QED  BY <1>1, <1>2, <1>3, PTL DEF MemorySpec
=============================================================================
