--------------------------- MODULE DecimalsProofs ---------------------------
(***************************************************************************)
(* Facts about the decimal texts: the operators on digits return digits,    *)
(* and what Natural says a text means is what arithmetic makes of it.       *)
(***************************************************************************)
EXTENDS Decimals, TLAPS, SequenceTheorems, WellFoundedInduction

(* Recursion and least elements.  A set of numbers that is closed under the  *)
(* step from n to n + 1 is proved to be Nat through its least exception.     *)

LEMMA LeastOf ==
  ASSUME NEW T \in SUBSET Nat, T # {}
  PROVE  \E k \in T : \A m \in T : k <= m
<1> DEFINE less == {p \in Nat \X Nat : p[1] < p[2]}
<1>1. less = OpToRel(<, Nat)
  BY DEF OpToRel
<1>2. IsWellFoundedOn(less, Nat)
  BY <1>1, NatLessThanWellFounded
<1>3. PICK k \in T : \A m \in T : <<m, k>> \notin less
  <2> HIDE DEF less
  <2> QED BY <1>2, WFMin
<1>4. ASSUME NEW m \in T PROVE k <= m
  <2>1. m < k => <<m, k>> \in less
    OBVIOUS
  <2> QED BY <1>3, <2>1
<1> QED BY <1>4

\* Induction on numbers, for a property given as the set of those that have it.
LEMMA InductionOn ==
  ASSUME NEW S, 0 \in S, \A n \in Nat : n \in S => n + 1 \in S
  PROVE  Nat \subseteq S
<1> SUFFICES ASSUME Nat \ S # {} PROVE FALSE
  OBVIOUS
<1>1. PICK k \in Nat \ S : \A m \in Nat \ S : k <= m
  BY LeastOf
<1>2. k # 0 /\ k - 1 \in Nat /\ k - 1 \in S /\ (k - 1) + 1 = k
  BY <1>1
<1> QED BY <1>1, <1>2

\* ... and on those up to a bound.
LEMMA InductionUpTo ==
  ASSUME NEW S, NEW last \in Nat, 0 \in S, \A n \in 0..last - 1 : n \in S => n + 1 \in S
  PROVE  0..last \subseteq S
<1> SUFFICES ASSUME (0..last) \ S # {} PROVE FALSE
  OBVIOUS
<1>1. PICK k \in (0..last) \ S : \A m \in (0..last) \ S : k <= m
  <2>1. (0..last) \ S \in SUBSET Nat
    OBVIOUS
  <2> QED BY <2>1, LeastOf
<1>2. k # 0 /\ k - 1 \in 0..last - 1 /\ k - 1 \in S /\ (k - 1) + 1 = k
  BY <1>1
<1> QED BY <1>1, <1>2

(* A recursive definition has a solution: each number's value is made, by    *)
(* rule.step, of the value of the number before it in rule.prev; the numbers *)
(* without one, the roots, have the values of rule.base.                      *)
Rules(V) ==
  {rule \in [roots : SUBSET Nat, base : [Nat -> V], prev : [Nat -> Nat], step : [Nat \X V -> V]] :
     \A n \in Nat \ rule.roots : rule.prev[n] < n}
Follows(g, rule, n) ==
  g[n] = IF n \in rule.roots THEN rule.base[n] ELSE rule.step[n, g[rule.prev[n]]]
Solves(g, rule, n) == \A k \in 0..n : Follows(g, rule, k)

LEMMA IsRule ==
  ASSUME NEW V, NEW roots \in SUBSET Nat, NEW base \in [Nat -> V], NEW prev \in [Nat -> Nat],
         \A n \in Nat \ roots : prev[n] < n, NEW step \in [Nat \X V -> V]
  PROVE  [roots |-> roots, base |-> base, prev |-> prev, step |-> step] \in Rules(V)
BY DEF Rules

LEMMA PreviousIsBefore ==
  ASSUME NEW V, NEW rule \in Rules(V), NEW n \in Nat, n \notin rule.roots
  PROVE  rule.prev[n] \in 0..n - 1
<1>1. rule.prev[n] \in Nat /\ rule.prev[n] < n
  BY DEF Rules
<1> QED BY <1>1

LEMMA SolvedAlike ==
  ASSUME NEW V, NEW rule \in Rules(V), NEW n \in Nat, NEW m \in Nat, n <= m, NEW g, NEW h,
         Solves(g, rule, n), Solves(h, rule, m)
  PROVE  \A k \in 0..n : g[k] = h[k]
<1> SUFFICES ASSUME {k \in 0..n : g[k] # h[k]} # {} PROVE FALSE
  OBVIOUS
<1>1. PICK k \in 0..n : g[k] # h[k] /\ \A i \in 0..n : g[i] # h[i] => k <= i
  <2> DEFINE T == {k \in 0..n : g[k] # h[k]}
  <2>1. PICK k \in T : \A i \in T : k <= i
    <3>1. T \in SUBSET Nat /\ T # {}
      OBVIOUS
    <3> QED BY <3>1, LeastOf
  <2> QED BY <2>1
<1>2. k \in 0..m /\ k \in Nat
  OBVIOUS
<1>3. Follows(g, rule, k) /\ Follows(h, rule, k)
  BY <1>2 DEF Solves
<1>4. ASSUME k \notin rule.roots PROVE g[rule.prev[k]] = h[rule.prev[k]]
  <2>1. rule.prev[k] \in 0..k - 1
    BY <1>2, <1>4, PreviousIsBefore
  <2>2. rule.prev[k] \in 0..n /\ ~ (k <= rule.prev[k])
    BY <2>1
  <2> QED BY <1>1, <2>2
<1> QED BY <1>1, <1>3, <1>4 DEF Follows

LEMMA SolvedUpTo ==
  ASSUME NEW V, NEW rule \in Rules(V), NEW n \in Nat
  PROVE  \E g \in [0..n -> V] : Solves(g, rule, n)
<1> DEFINE T == {k \in Nat : ~ \E g \in [0..k -> V] : Solves(g, rule, k)}
<1> SUFFICES ASSUME T # {} PROVE FALSE
  OBVIOUS
<1>1. PICK k \in T : \A m \in T : k <= m
  BY LeastOf
<1>2. PICK g : k # 0 => g \in [0..k - 1 -> V] /\ Solves(g, rule, k - 1)
  <2>1. k # 0 => k - 1 \in Nat /\ k - 1 \notin T
    BY <1>1
  <2> QED BY <2>1
<1>3. PICK made : made = IF k \in rule.roots THEN rule.base[k] ELSE rule.step[k, g[rule.prev[k]]]
  OBVIOUS
<1>4. k \notin rule.roots => k # 0 /\ rule.prev[k] \in 0..k - 1
  <2>1. k \notin rule.roots => rule.prev[k] \in 0..k - 1
    BY PreviousIsBefore
  <2> QED BY <2>1
<1>5. made \in V
  <2>1. CASE k \in rule.roots
    BY <1>3, <2>1 DEF Rules
  <2>2. CASE k \notin rule.roots
    <3>1. g[rule.prev[k]] \in V
      BY <1>2, <1>4, <2>2
    <3>2. rule.step \in [Nat \X V -> V]
      BY DEF Rules
    <3> QED BY <1>3, <2>2, <3>1, <3>2
  <2> QED BY <2>1, <2>2
<1>6. PICK h : h = [i \in 0..k |-> IF i = k THEN made ELSE g[i]]
  OBVIOUS
<1>7. \A i \in 0..k : i # k => i \in 0..k - 1 /\ k # 0 /\ i \in Nat
  OBVIOUS
<1>8. h \in [0..k -> V]
  BY <1>2, <1>5, <1>6, <1>7
<1>9. ASSUME NEW i \in 0..k PROVE Follows(h, rule, i)
  <2>1. CASE i = k
    <3>1. k \notin rule.roots => h[rule.prev[k]] = g[rule.prev[k]]
      BY <1>4, <1>6
    <3>2. h[k] = made
      BY <1>6
    <3> QED BY <1>3, <2>1, <3>1, <3>2 DEF Follows
  <2>2. CASE i # k
    <3>1. i \in 0..k - 1 /\ i \in Nat /\ k # 0 /\ h[i] = g[i]
      BY <1>6, <1>7, <2>2
    <3>2. Follows(g, rule, i)
      BY <1>2, <3>1 DEF Solves
    <3>3. ASSUME i \notin rule.roots PROVE h[rule.prev[i]] = g[rule.prev[i]]
      <4>1. rule.prev[i] \in 0..i - 1
        BY <3>1, <3>3, PreviousIsBefore
      <4>2. rule.prev[i] \in 0..k /\ rule.prev[i] # k
        BY <3>1, <4>1
      <4> QED BY <1>6, <4>2
    <3> QED BY <3>1, <3>2, <3>3 DEF Follows
  <2> QED BY <2>1, <2>2
<1> QED BY <1>1, <1>8, <1>9 DEF Solves

LEMMA RecursionSolved ==
  ASSUME NEW V, NEW rule \in Rules(V)
  PROVE  \E f \in [Nat -> V] : \A n \in Nat : Follows(f, rule, n)
<1> DEFINE G(m) == CHOOSE g \in [0..m -> V] : Solves(g, rule, m)
<1>1. \A m \in Nat : G(m) \in [0..m -> V] /\ Solves(G(m), rule, m)
  BY SolvedUpTo
<1> HIDE DEF G
<1>2. PICK f : f = [n \in Nat |-> G(n)[n]]
  OBVIOUS
<1>3. \A n \in Nat : n \in 0..n
  OBVIOUS
<1>4. f \in [Nat -> V]
  BY <1>1, <1>2, <1>3
<1>5. ASSUME NEW n \in Nat PROVE Follows(f, rule, n)
  <2>1. Follows(G(n), rule, n) /\ f[n] = G(n)[n]
    BY <1>1, <1>2, <1>3 DEF Solves
  <2>2. ASSUME n \notin rule.roots PROVE f[rule.prev[n]] = G(n)[rule.prev[n]]
    <3>1. rule.prev[n] \in 0..n - 1
      BY <2>2, PreviousIsBefore
    <3>2. PICK m \in Nat : m = rule.prev[n]
      BY <3>1
    <3>3. m <= n /\ m \in 0..m
      BY <3>1, <3>2
    <3>4. G(m)[m] = G(n)[m]
      BY <1>1, <3>3, SolvedAlike
    <3> QED BY <1>2, <3>2, <3>4
  <2> QED BY <2>1, <2>2 DEF Follows
<1> QED BY <1>4, <1>5

-----------------------------------------------------------------------------
(* The recursive definitions define what they say. *)

LEMMA TenToIs ==
  /\ TenTo \in [Nat -> Nat \ {0}]
  /\ TenTo[0] = 1
  /\ \A n \in Nat : TenTo[n + 1] = 10 * TenTo[n]
<1> DEFINE Body(f) == [n \in Nat |-> IF n = 0 THEN 1 ELSE 10 * f[n - 1]]
           V == Nat \ {0}
           rule == [roots |-> {0}, base |-> [n \in Nat |-> 1], prev |-> [n \in Nat |-> IF n = 0 THEN 0 ELSE n - 1],
                    step |-> [p \in Nat \X V |-> 10 * p[2]]]
<1>1. rule \in Rules(V)
  BY DEF Rules
<1>2. PICK f \in [Nat -> V] : \A n \in Nat : Follows(f, rule, n)
  <2> HIDE DEF rule, V
  <2> QED BY <1>1, RecursionSolved
<1>3. \A n \in Nat : f[n] = IF n = 0 THEN 1 ELSE 10 * f[n - 1]
  <2> SUFFICES ASSUME NEW n \in Nat PROVE f[n] = IF n = 0 THEN 1 ELSE 10 * f[n - 1]
    OBVIOUS
  <2>1. Follows(f, rule, n)
    BY <1>2
  <2>2. CASE n = 0
    BY <2>1, <2>2 DEF Follows
  <2>3. CASE n # 0
    <3>1. rule.prev[n] = n - 1 /\ n - 1 \in Nat /\ f[n - 1] \in V /\ n \notin rule.roots
      BY <1>2, <2>3
    <3>2. rule.step[n, f[n - 1]] = 10 * f[n - 1]
      <4>1. <<n, f[n - 1]>> \in Nat \X V
        BY <3>1
      <4> QED BY <4>1
    <3> HIDE DEF rule
    <3> QED BY <2>1, <2>3, <3>1, <3>2 DEF Follows
  <2> QED BY <2>2, <2>3
<1>4. f = Body(f)
  BY <1>3
<1>5. TenTo = Body(TenTo)
  <2>1. TenTo = CHOOSE g : g = Body(g)
    BY DEF TenTo
  <2> HIDE DEF Body
  <2> QED BY <1>4, <2>1
<1>6. TenTo[0] = 1 /\ \A n \in Nat : TenTo[n + 1] = 10 * TenTo[n]
  <2>1. \A n \in Nat : n + 1 \in Nat /\ n + 1 # 0 /\ (n + 1) - 1 = n
    OBVIOUS
  <2> QED BY <1>5, <2>1
<1>7. \A n \in Nat : TenTo[n] \in Nat \ {0}
  <2> DEFINE S == {n \in Nat : TenTo[n] \in Nat \ {0}}
  <2> SUFFICES Nat \subseteq S
    OBVIOUS
  <2>1. 0 \in S /\ \A n \in Nat : n \in S => n + 1 \in S
    BY <1>6
  <2> HIDE DEF S
  <2> QED BY <2>1, InductionOn
<1>8. TenTo = [n \in Nat |-> TenTo[n]]
  BY <1>5
<1> QED BY <1>6, <1>7, <1>8

LEMMA DigitsOfIs ==
  /\ DigitsOf \in [Nat -> Digits]
  /\ \A n \in Nat : DigitsOf[n] = IF n < 10 THEN <<n>> ELSE Append(DigitsOf[n \div 10], n % 10)
<1> DEFINE Body(f) == [n \in Nat |-> IF n < 10 THEN <<n>> ELSE Append(f[n \div 10], n % 10)]
           rule == [roots |-> 0..9, base |-> [n \in Nat |-> <<n % 10>>], prev |-> [n \in Nat |-> n \div 10],
                    step |-> [p \in Nat \X Digits |-> Append(p[2], p[1] % 10)]]
<1>1. \A n \in Nat : n \div 10 \in Nat /\ n % 10 \in 0..9 /\ (n < 10 => n % 10 = n)
                     /\ (n >= 10 => n \div 10 < n) /\ (n < 10 <=> n \in 0..9)
  OBVIOUS
<1>2. rule \in Rules(Digits)
  <2>1. [n \in Nat |-> <<n % 10>>] \in [Nat -> Digits]
    BY <1>1 DEF Digits
  <2>2. [p \in Nat \X Digits |-> Append(p[2], p[1] % 10)] \in [Nat \X Digits -> Digits]
    BY <1>1, AppendProperties DEF Digits
  <2>3. PICK prev : prev = [n \in Nat |-> n \div 10]
    OBVIOUS
  <2>4. prev \in [Nat -> Nat] /\ \A n \in Nat \ 0..9 : prev[n] < n
    BY <1>1, <2>3
  <2>5. 0..9 \in SUBSET Nat
    OBVIOUS
  <2> QED BY <2>1, <2>2, <2>3, <2>4, <2>5, IsRule
<1>3. PICK f \in [Nat -> Digits] : \A n \in Nat : Follows(f, rule, n)
  <2> HIDE DEF rule
  <2> QED BY <1>2, RecursionSolved
<1>4. ASSUME NEW n \in Nat
      PROVE  f[n] = IF n < 10 THEN <<n>> ELSE Append(f[n \div 10], n % 10)
  <2>1. Follows(f, rule, n)
    BY <1>3
  <2>2. CASE n < 10
    <3>1. n \in rule.roots /\ rule.base[n] = <<n>>
      BY <1>1, <2>2
    <3> HIDE DEF rule
    <3> QED BY <2>1, <2>2, <3>1 DEF Follows
  <2>3. CASE ~ (n < 10)
    <3>1. rule.prev[n] = n \div 10 /\ n \div 10 \in Nat /\ f[n \div 10] \in Digits /\ n \notin rule.roots
      BY <1>1, <1>3, <2>3
    <3>2. rule.step[n, f[n \div 10]] = Append(f[n \div 10], n % 10)
      <4>1. <<n, f[n \div 10]>> \in Nat \X Digits
        BY <3>1
      <4> QED BY <4>1
    <3> HIDE DEF rule
    <3> QED BY <2>1, <2>3, <3>1, <3>2 DEF Follows
  <2> QED BY <2>2, <2>3
<1>5. f = Body(f)
  BY <1>4
<1>6. DigitsOf = Body(DigitsOf)
  <2>1. DigitsOf = CHOOSE g : g = Body(g)
    BY DEF DigitsOf
  <2> HIDE DEF Body
  <2> QED BY <1>5, <2>1
<1>7. \A n \in Nat : DigitsOf[n] = IF n < 10 THEN <<n>> ELSE Append(DigitsOf[n \div 10], n % 10)
  BY <1>6
<1>8. \A n \in Nat : DigitsOf[n] \in Digits
  <2> DEFINE T == {n \in Nat : DigitsOf[n] \notin Digits}
  <2> SUFFICES ASSUME T # {} PROVE FALSE
    OBVIOUS
  <2>1. PICK k \in Nat : DigitsOf[k] \notin Digits /\ \A m \in Nat : DigitsOf[m] \notin Digits => k <= m
    <3>1. PICK k \in T : \A m \in T : k <= m
      BY LeastOf
    <3> QED BY <3>1
  <2> HIDE DEF T
  <2>2. CASE k < 10
    <3>1. PICK d \in 0..9 : d = k
      BY <2>2
    <3>2. <<d>> \in Seq(0..9)
      OBVIOUS
    <3>3. DigitsOf[k] = <<k>>
      BY <1>7, <2>2, Zenon
    <3> QED BY <2>1, <3>1, <3>2, <3>3 DEF Digits
  <2>3. CASE ~ (k < 10)
    <3>1. k \div 10 \in Nat /\ ~ (k <= k \div 10)
      BY <1>1, <2>3
    <3>2. DigitsOf[k \div 10] \in Seq(0..9)
      BY <2>1, <3>1 DEF Digits
    <3>3. PICK d \in 0..9 : d = k % 10
      BY <1>1
    <3>4. Append(DigitsOf[k \div 10], d) \in Seq(0..9)
      BY <3>2, AppendProperties
    <3> QED BY <1>7, <2>1, <2>3, <3>3, <3>4 DEF Digits
  <2> QED BY <2>2, <2>3
<1> QED BY <1>6, <1>7, <1>8

\* What Natural makes of the first n digits of ds.
IsValueOf(first, ds) ==
  /\ first \in [0..Len(ds) -> Nat]
  /\ first[0] = 0
  /\ \A n \in 1..Len(ds) : first[n] = 10 * first[n - 1] + ds[n]
  /\ Natural(ds) = first[Len(ds)]

LEMMA NaturalIs ==
  ASSUME NEW ds \in Digits
  PROVE  \E first : IsValueOf(first, ds)
<1> DEFINE Body(f) == [n \in 0..Len(ds) |-> IF n = 0 THEN 0 ELSE 10 * f[n - 1] + ds[n]]
           rule == [roots |-> {0}, base |-> [n \in Nat |-> 0], prev |-> [n \in Nat |-> IF n = 0 THEN 0 ELSE n - 1],
                    step |-> [p \in Nat \X Nat |-> 10 * p[2] + (IF p[1] \in 1..Len(ds) THEN ds[p[1]] ELSE 0)]]
<1>1. Len(ds) \in Nat /\ \A n \in 1..Len(ds) : ds[n] \in 0..9
  BY ElementOfSeq DEF Digits
<1>2. rule \in Rules(Nat)
  <2>1. \A m, n \in Nat : 10 * n + (IF m \in 1..Len(ds) THEN ds[m] ELSE 0) \in Nat
    BY <1>1
  <2>2. [p \in Nat \X Nat |-> 10 * p[2] + (IF p[1] \in 1..Len(ds) THEN ds[p[1]] ELSE 0)] \in [Nat \X Nat -> Nat]
    BY <2>1
  <2> QED BY <2>2 DEF Rules
<1>3. PICK g \in [Nat -> Nat] : \A n \in Nat : Follows(g, rule, n)
  <2> HIDE DEF rule
  <2> QED BY <1>2, RecursionSolved
<1>4. PICK f : f = [n \in 0..Len(ds) |-> g[n]]
  OBVIOUS
<1>5. ASSUME NEW n \in 0..Len(ds) PROVE f[n] = IF n = 0 THEN 0 ELSE 10 * f[n - 1] + ds[n]
  <2>0. n \in Nat
    BY <1>1
  <2>1. Follows(g, rule, n) /\ n \in Nat
    BY <1>3, <2>0
  <2>2. CASE n = 0
    BY <1>4, <2>1, <2>2 DEF Follows
  <2>3. CASE n # 0
    <3>1. rule.prev[n] = n - 1 /\ n - 1 \in Nat /\ g[n - 1] \in Nat /\ n \notin rule.roots /\ n \in 1..Len(ds)
          /\ n - 1 \in 0..Len(ds)
      BY <1>1, <1>3, <2>1, <2>3
    <3>2. rule.step[n, g[n - 1]] = 10 * g[n - 1] + ds[n]
      <4>1. <<n, g[n - 1]>> \in Nat \X Nat
        BY <2>1, <3>1
      <4> QED BY <3>1, <4>1
    <3> HIDE DEF rule
    <3> QED BY <1>4, <2>1, <2>3, <3>1, <3>2 DEF Follows
  <2> QED BY <2>2, <2>3
<1>6. f = Body(f)
  BY <1>4, <1>5
<1>7. PICK first : first = CHOOSE h : h = Body(h)
  OBVIOUS
<1>8. first = Body(first)
  <2> HIDE DEF Body
  <2> QED BY <1>6, <1>7
<1>9. Natural(ds) = first[Len(ds)]
  BY <1>7 DEF Natural
<1>10. first[0] = 0 /\ \A n \in 1..Len(ds) : first[n] = 10 * first[n - 1] + ds[n]
  <2>1. 0 \in 0..Len(ds) /\ \A n \in 1..Len(ds) : n \in 0..Len(ds) /\ n # 0
    BY <1>1
  <2>2. \A n \in 0..Len(ds) : first[n] = IF n = 0 THEN 0 ELSE 10 * first[n - 1] + ds[n]
    BY <1>8
  <2> QED BY <2>1, <2>2
<1>11. \A n \in 0..Len(ds) : first[n] \in Nat
  <2> DEFINE S == {n \in Nat : first[n] \in Nat}
  <2> SUFFICES 0..Len(ds) \subseteq S
    OBVIOUS
  <2>1. ASSUME NEW n \in 0..Len(ds) - 1, n \in S PROVE n + 1 \in S
    <3>1. n + 1 \in 1..Len(ds) /\ (n + 1) - 1 = n /\ n \in Nat /\ first[n] \in Nat
      BY <1>1, <2>1
    <3>2. PICK m \in Nat : m = first[n]
      BY <3>1
    <3>3. PICK d \in 0..9 : d = ds[n + 1]
      BY <1>1, <3>1, Zenon
    <3>4. first[n + 1] = 10 * m + d
      BY <1>10, <3>1, <3>2, <3>3
    <3>5. 10 * m + d \in Nat
      OBVIOUS
    <3>6. n + 1 \in Nat /\ first[n + 1] \in Nat
      BY <3>1, <3>4, <3>5
    <3> QED BY <3>6
  <2>2. 0 \in S
    BY <1>10
  <2> HIDE DEF S
  <2> QED BY <1>1, <2>1, <2>2, InductionUpTo
<1>12. first \in [0..Len(ds) -> Nat]
  BY <1>8, <1>11
<1> QED BY <1>9, <1>10, <1>12 DEF IsValueOf

-----------------------------------------------------------------------------
(* Digits, one appended after another. *)

LEMMA DigitsInduction ==
  ASSUME NEW S, << >> \in S, \A ds \in Digits, d \in 0..9 : ds \in S => Append(ds, d) \in S
  PROVE  Digits \subseteq S
<1> DEFINE N == {n \in Nat : \A ds \in Digits : Len(ds) = n => ds \in S}
<1>1. 0 \in N
  BY EmptySeq DEF Digits
<1>2. ASSUME NEW n \in Nat, n \in N PROVE n + 1 \in N
  <2> SUFFICES ASSUME NEW ds \in Digits, Len(ds) = n + 1 PROVE ds \in S
    OBVIOUS
  <2>1. ds # << >>
    BY EmptySeq
  <2>2. PICK front \in Seq(0..9), d \in 0..9 : ds = Append(front, d)
    BY <2>1, SequenceEmptyOrAppend DEF Digits
  <2>3. Len(front) = n
    BY <2>2, AppendProperties, LenProperties
  <2> QED BY <1>2, <2>2, <2>3 DEF Digits
<1>3. Nat \subseteq N
  <2> HIDE DEF N
  <2> QED BY <1>1, <1>2, InductionOn
<1>4. \A ds \in Digits : Len(ds) \in Nat
  BY LenProperties DEF Digits
<1> QED BY <1>3, <1>4

LEMMA ZerosTyped ==
  ASSUME NEW n \in Nat
  PROVE  Zeros(n) \in Seq(0..9) /\ Len(Zeros(n)) = n
BY DEF Zeros

LEMMA ZerosAppend ==
  ASSUME NEW n \in Nat
  PROVE  Zeros(n + 1) = Append(Zeros(n), 0)
<1> SUFFICES ASSUME NEW d \in 0..9, d = 0 PROVE Zeros(n + 1) = Append(Zeros(n), d)
  OBVIOUS
<1>1. PICK s \in Seq(0..9), t \in Seq(0..9) : s = Zeros(n + 1) /\ t = Append(Zeros(n), d)
  <2>1. Zeros(n) \in Seq(0..9) /\ Zeros(n + 1) \in Seq(0..9)
    BY ZerosTyped
  <2>2. Append(Zeros(n), d) \in Seq(0..9)
    BY <2>1, AppendProperties
  <2> QED BY <2>1, <2>2
<1>2. Len(s) = n + 1 
  BY <1>1, ZerosTyped
<1>3. Len(t) = n + 1 
  BY <1>1, ZerosTyped, AppendProperties
<1>4. \A i \in 1..Len(s) : s[i] = t[i]
  BY <1>1, <1>2, ZerosTyped, AppendProperties DEF Zeros
<1>5. s = t
  BY <1>2, <1>3, <1>4, SeqEqual
<1> QED BY <1>1, <1>5

LEMMA ZerosAre ==
  ASSUME NEW n \in Nat
  PROVE  /\ Zeros(n) \in Digits /\ Len(Zeros(n)) = n
         /\ \A i \in 1..n : Zeros(n)[i] = 0
         /\ Zeros(n + 1) = Append(Zeros(n), 0)
BY ZerosTyped, ZerosAppend DEF Zeros, Digits

LEMMA NoZeros == Zeros(0) = << >>
BY ZerosAre, EmptySeq DEF Digits

LEMMA NaturalIsNat ==
  ASSUME NEW ds \in Digits
  PROVE  Natural(ds) \in Nat
<1>1. Len(ds) \in 0..Len(ds)
  BY LenProperties DEF Digits
<1> QED BY <1>1, NaturalIs DEF IsValueOf

LEMMA NaturalEmpty == Natural(<< >>) = 0
<1>1. << >> \in Digits /\ Len(<< >>) = 0
  BY EmptySeq DEF Digits
<1> QED BY <1>1, NaturalIs DEF IsValueOf

LEMMA NaturalAppend ==
  ASSUME NEW ds \in Digits, NEW d \in 0..9
  PROVE  Natural(Append(ds, d)) = 10 * Natural(ds) + d
<1>1. PICK es \in Digits : es = Append(ds, d) /\ Len(es) = Len(ds) + 1 /\ es[Len(ds) + 1] = d
                           /\ \A i \in 1..Len(ds) : es[i] = ds[i]
  <2>1. /\ Append(ds, d) \in Digits
        /\ Len(Append(ds, d)) = Len(ds) + 1
        /\ Append(ds, d)[Len(ds) + 1] = d
        /\ \A i \in 1..Len(ds) : Append(ds, d)[i] = ds[i]
    BY AppendProperties DEF Digits
  <2> QED BY <2>1
<1>2. PICK f : IsValueOf(f, ds)
  BY NaturalIs
<1>3. PICK g : IsValueOf(g, es)
  BY NaturalIs
<1>4. PICK len \in Nat : len = Len(ds)
  BY LenProperties DEF Digits
<1>5. 0..len \subseteq {n \in Nat : f[n] = g[n]}
  <2> DEFINE S == {n \in Nat : f[n] = g[n]}
  <2>1. 0 \in S
    BY <1>2, <1>3 DEF IsValueOf
  <2>2. ASSUME NEW n \in 0..len - 1, n \in S PROVE n + 1 \in S
    <3>1. n + 1 \in 1..len /\ (n + 1) - 1 = n /\ n + 1 \in 1..len + 1 /\ n + 1 \in Nat
      OBVIOUS
    <3>2. f[n + 1] = 10 * f[n] + ds[n + 1]
      BY <1>2, <1>4, <3>1 DEF IsValueOf
    <3>3. g[n + 1] = 10 * g[n] + es[n + 1]
      BY <1>1, <1>3, <1>4, <3>1 DEF IsValueOf
    <3> QED BY <1>1, <1>4, <2>2, <3>1, <3>2, <3>3
  <2> HIDE DEF S
  <2> QED BY <2>1, <2>2, InductionUpTo DEF S
<1>6. len + 1 \in 1..len + 1 /\ (len + 1) - 1 = len /\ len \in 0..len
  OBVIOUS
<1>7. g[len + 1] = 10 * g[len] + d
  BY <1>1, <1>3, <1>4, <1>6 DEF IsValueOf
<1>8. f[len] = g[len]
  BY <1>5, <1>6
<1> QED BY <1>1, <1>2, <1>3, <1>4, <1>7, <1>8 DEF IsValueOf

LEMMA ConcatAppend ==
  ASSUME NEW ds \in Digits, NEW es \in Digits, NEW d \in 0..9
  PROVE  ds \o Append(es, d) = Append(ds \o es, d)
<1>1. Append(es, d) = es \o <<d>> /\ <<d>> \in Seq(0..9)
  BY AppendIsConcat DEF Digits
<1>2. ds \o (es \o <<d>>) = (ds \o es) \o <<d>>
  BY <1>1, ConcatAssociative DEF Digits
<1>3. ds \o es \in Seq(0..9)
  BY ConcatProperties DEF Digits
<1> QED BY <1>1, <1>2, <1>3, AppendIsConcat

LEMMA NaturalOfZeros ==
  ASSUME NEW k \in Nat
  PROVE  Natural(Zeros(k)) = 0
<1> DEFINE S == {n \in Nat : Natural(Zeros(n)) = 0}
<1>1. 0 \in S
  BY NoZeros, NaturalEmpty
<1>2. ASSUME NEW n \in Nat, n \in S PROVE n + 1 \in S
  <2>1. Natural(Zeros(n + 1)) = 10 * Natural(Zeros(n)) + 0
    <3>1. PICK d \in 0..9 : d = 0
      OBVIOUS
    <3>2. Zeros(n) \in Digits /\ Zeros(n + 1) = Append(Zeros(n), d)
      BY ZerosAre, <3>1
    <3> QED BY <3>1, <3>2, NaturalAppend
  <2> QED BY <1>2, <2>1
<1> HIDE DEF S
<1> QED BY <1>1, <1>2, InductionOn DEF S

\* Leading zeros mean nothing.
LEMMA NaturalLeading ==
  ASSUME NEW k \in Nat, NEW ds \in Digits
  PROVE  Natural(Zeros(k) \o ds) = Natural(ds)
<1> DEFINE S == {es \in Digits : Natural(Zeros(k) \o es) = Natural(es)}
<1>1. << >> \in S
  BY ZerosAre, ConcatEmptySeq, EmptySeq, NaturalOfZeros, NaturalEmpty DEF Digits
<1>2. ASSUME NEW es \in Digits, NEW d \in 0..9, es \in S PROVE Append(es, d) \in S
  <2>1. Zeros(k) \o es \in Digits /\ Append(es, d) \in Digits
    BY ZerosAre, ConcatProperties, AppendProperties DEF Digits
  <2>2. Zeros(k) \o Append(es, d) = Append(Zeros(k) \o es, d)
    BY ZerosAre, ConcatAppend
  <2>3. Natural(Append(Zeros(k) \o es, d)) = 10 * Natural(Zeros(k) \o es) + d
    BY <2>1, NaturalAppend
  <2>4. Natural(Append(es, d)) = 10 * Natural(es) + d
    BY NaturalAppend
  <2> QED BY <1>2, <2>1, <2>2, <2>3, <2>4
<1> HIDE DEF S
<1> QED BY <1>1, <1>2, DigitsInduction DEF S

-----------------------------------------------------------------------------
(* The text of a number and the number of a text. *)

LEMMA TensAndOnes ==
  ASSUME NEW n \in Nat
  PROVE  \E q \in Nat, r \in 0..9 : q = n \div 10 /\ r = n % 10 /\ n = 10 * q + r /\ (n >= 10 => q < n)
<1>1. PICK q \in Nat, r \in 0..9 : q = n \div 10 /\ r = n % 10
  OBVIOUS
<1>2. r = n - 10 * q
  BY <1>1
<1>3. n >= 10 => q < n
  BY <1>1
<1> QED BY <1>1, <1>2, <1>3

LEMMA NaturalOfDigits ==
  ASSUME NEW n \in Nat
  PROVE  Natural(DigitsOf[n]) = n
<1> DEFINE T == {m \in Nat : Natural(DigitsOf[m]) # m}
<1> SUFFICES ASSUME T # {} PROVE FALSE
  OBVIOUS
<1>1. PICK k \in Nat : Natural(DigitsOf[k]) # k /\ \A m \in Nat : Natural(DigitsOf[m]) # m => k <= m
  <2>1. PICK k \in T : \A m \in T : k <= m
    BY LeastOf
  <2> QED BY <2>1
<1> HIDE DEF T
<1>2. CASE k < 10
  <2>1. PICK d \in 0..9 : d = k
    BY <1>2
  <2>2. <<d>> = Append(<< >>, d) /\ << >> \in Digits
    BY EmptySeq DEF Digits
  <2>3. Natural(<<d>>) = 10 * 0 + d
    BY <2>2, NaturalAppend, NaturalEmpty
  <2>4. DigitsOf[k] = <<k>>
    BY <1>2, DigitsOfIs, Zenon
  <2> QED BY <1>1, <2>1, <2>3, <2>4
<1>3. CASE ~ (k < 10)
  <2>1. PICK q \in Nat, r \in 0..9 : q = k \div 10 /\ r = k % 10 /\ k = 10 * q + r /\ (k >= 10 => q < k)
    BY TensAndOnes
  <2>2. Natural(DigitsOf[q]) = q
    BY <1>1, <1>3, <2>1
  <2>3. DigitsOf[k] = Append(DigitsOf[q], r)
    BY <1>3, <2>1, DigitsOfIs, Zenon
  <2>4. DigitsOf[q] \in Digits
    BY DigitsOfIs
  <2>5. Natural(DigitsOf[k]) = 10 * q + r
    BY <2>2, <2>3, <2>4, NaturalAppend
  <2> QED BY <1>1, <2>1, <2>5
<1> QED BY <1>2, <1>3

LEMMA LeadingZerosIs ==
  ASSUME NEW ds \in Digits
  PROVE  /\ LeadingZeros(ds) \in 0..Len(ds)
         /\ \A i \in 1..LeadingZeros(ds) : ds[i] = 0
         /\ LeadingZeros(ds) = Len(ds) \/ ds[LeadingZeros(ds) + 1] # 0
<1> DEFINE Is(n) == (\A i \in 1..n : ds[i] = 0) /\ (n = Len(ds) \/ ds[n + 1] # 0)
           T == {n \in 0..Len(ds) : n = Len(ds) \/ ds[n + 1] # 0}
<1>1. Len(ds) \in Nat
  BY LenProperties DEF Digits
<1>2. PICK k \in T : \A m \in T : k <= m
  <2>1. T \in SUBSET Nat /\ T # {}
    BY <1>1
  <2> HIDE DEF T
  <2> QED BY <2>1, LeastOf
<1>3. ASSUME NEW i \in 1..k PROVE ds[i] = 0
  <2>1. i - 1 \in 0..Len(ds) /\ ~ (k <= i - 1) /\ (i - 1) + 1 = i
    BY <1>1, <1>2
  <2>2. i - 1 \notin T
    BY <1>2, <2>1
  <2> QED BY <2>1, <2>2
<1>4. k \in 0..Len(ds) /\ Is(k)
  BY <1>2, <1>3
<1>5. LeadingZeros(ds) = CHOOSE n \in 0..Len(ds) : Is(n)
  BY DEF LeadingZeros
<1> HIDE DEF T, Is
<1>6. LeadingZeros(ds) \in 0..Len(ds) /\ Is(LeadingZeros(ds))
  BY <1>4, <1>5
<1> QED BY <1>6 DEF Is

LEMMA LeadingZerosAre ==
  ASSUME NEW ds \in Digits, NEW n \in 0..Len(ds), \A i \in 1..n : ds[i] = 0, n = Len(ds) \/ ds[n + 1] # 0
  PROVE  LeadingZeros(ds) = n
<1>1. Len(ds) \in Nat /\ n \in Nat
  BY LenProperties DEF Digits
<1>2. PICK m \in Nat : m = LeadingZeros(ds) /\ m <= Len(ds)
  BY <1>1, LeadingZerosIs
<1>3. ~ (m < n)
  <2> SUFFICES ASSUME m < n PROVE FALSE
    OBVIOUS
  <2>1. m + 1 \in 1..n /\ m # Len(ds)
    BY <1>1, <1>2
  <2> QED BY <1>2, <2>1, LeadingZerosIs
<1>4. ~ (n < m)
  <2> SUFFICES ASSUME n < m PROVE FALSE
    OBVIOUS
  <2>1. n + 1 \in 1..m /\ n # Len(ds)
    BY <1>1, <1>2
  <2> QED BY <1>2, <2>1, LeadingZerosIs
<1> QED BY <1>1, <1>2, <1>3, <1>4

\* Slice s has the digits of ds after the first m, up to the n-th.
IsSlice(s, ds, m, n) == s \in Digits /\ Len(s) = n - m /\ \A i \in 1..n - m : s[i] = ds[m + i]

LEMMA SliceIs ==
  ASSUME NEW ds \in Digits, NEW m \in Nat, NEW n \in Nat, m <= n, n <= Len(ds)
  PROVE  IsSlice(SubSeq(ds, m + 1, n), ds, m, n)
<1>1. PICK first \in Int : first = m + 1
  OBVIOUS
<1>2. \A i \in first..n : ds[i] \in 0..9
  <2>1. Len(ds) \in Nat
    BY LenProperties DEF Digits
  <2>2. \A i \in first..n : i \in 1..Len(ds)
    BY <1>1, <2>1
  <2> QED BY <2>2, ElementOfSeq DEF Digits
<1>3. /\ SubSeq(ds, first, n) \in Seq(0..9)
      /\ Len(SubSeq(ds, first, n)) = IF first <= n THEN n - first + 1 ELSE 0
      /\ \A i \in 1..n - first + 1 : SubSeq(ds, first, n)[i] = ds[first + i - 1]
  BY <1>2, SubSeqProperties
<1>4. n - first + 1 = n - m /\ \A i \in 1..n - m : first + i - 1 = m + i
  BY <1>1
<1>5. Len(SubSeq(ds, first, n)) = n - m
  BY <1>1, <1>3
<1> QED BY <1>1, <1>3, <1>4, <1>5 DEF IsSlice, Digits

LEMMA PrefixIs ==
  ASSUME NEW ds \in Digits, NEW n \in Nat, n <= Len(ds)
  PROVE  IsSlice(SubSeq(ds, 1, n), ds, 0, n)
<1>1. PICK m \in Nat : m = 0
  OBVIOUS
<1>2. m <= n /\ m + 1 = 1
  BY <1>1
<1>3. IsSlice(SubSeq(ds, m + 1, n), ds, m, n)
  BY <1>2, SliceIs
<1> QED BY <1>1, <1>2, <1>3

\* What a digit appended makes of the leading zeros, and of the rest.
AllZeros(ds) == LeadingZeros(ds) = Len(ds)

LEMMA AllZerosAppend ==
  ASSUME NEW ds \in Digits, NEW d \in 0..9, AllZeros(ds)
  PROVE  /\ AllZeros(Append(ds, d)) <=> d = 0
         /\ Canonical(Append(ds, d)) = <<d>>
<1>1. PICK len \in Nat : len = Len(ds)
  BY LenProperties DEF Digits
<1>2. PICK es \in Digits : /\ es = Append(ds, d) /\ Len(es) = len + 1 /\ es[len + 1] = d
                           /\ \A i \in 1..len : es[i] = ds[i]
  <2>1. /\ Append(ds, d) \in Digits
        /\ Len(Append(ds, d)) = len + 1
        /\ Append(ds, d)[len + 1] = d
        /\ \A i \in 1..len : Append(ds, d)[i] = ds[i]
    BY <1>1, AppendProperties DEF Digits
  <2> QED BY <2>1
<1>3. \A i \in 1..len : es[i] = 0
  BY <1>1, <1>2, LeadingZerosIs DEF AllZeros
<1>4. CASE d = 0
  <2>1. \A i \in 1..len + 1 : es[i] = 0
    BY <1>2, <1>3, <1>4
  <2>2. LeadingZeros(es) = len + 1
    <3>1. len + 1 \in 0..Len(es)
      BY <1>2
    <3> QED BY <1>2, <2>1, <3>1, LeadingZerosAre
  <2> QED BY <1>2, <1>4, <2>2 DEF Canonical, AllZeros
<1>5. CASE d # 0
  <2>1. LeadingZeros(es) = len
    <3>1. len \in 0..Len(es)
      BY <1>2
    <3> QED BY <1>2, <1>3, <1>5, <3>1, LeadingZerosAre
  <2>2. Canonical(es) = SubSeq(es, len + 1, len + 1)
    BY <1>2, <2>1 DEF Canonical
  <2>3. SubSeq(es, len + 1, len + 1) = <<d>>
    <3>1. PICK end \in Nat : end = len + 1 /\ end - len = 1
      OBVIOUS
    <3>2. PICK s \in Seq(0..9) : s = SubSeq(es, len + 1, len + 1) /\ Len(s) = 1 /\ s[1] = es[len + 1]
      <4>0. len <= end /\ end <= Len(es)
        BY <1>2, <3>1
      <4>1. IsSlice(SubSeq(es, len + 1, end), es, len, end)
        BY <4>0, SliceIs
      <4>2. 1 \in 1..end - len
        BY <3>1
      <4> QED BY <3>1, <4>1, <4>2 DEF IsSlice, Digits
    <3>3. <<d>> \in Seq(0..9) /\ Len(<<d>>) = 1 /\ <<d>>[1] = d
      OBVIOUS
    <3>4. \A i \in 1..Len(s) : s[i] = <<d>>[i]
      BY <1>2, <3>2, <3>3
    <3>5. s = <<d>>
      BY <3>2, <3>3, <3>4, SeqEqual
    <3> QED BY <3>2, <3>5
  <2> QED BY <1>2, <1>5, <2>1, <2>2, <2>3 DEF AllZeros
<1> QED BY <1>4, <1>5

LEMMA CanonicalAppend ==
  ASSUME NEW ds \in Digits, NEW d \in 0..9, ~ AllZeros(ds)
  PROVE  /\ ~ AllZeros(Append(ds, d))
         /\ Canonical(Append(ds, d)) = Append(Canonical(ds), d)
<1>1. PICK len \in Nat : len = Len(ds)
  BY LenProperties DEF Digits
<1>2. PICK es \in Digits : /\ es = Append(ds, d) /\ Len(es) = len + 1 /\ es[len + 1] = d
                           /\ \A i \in 1..len : es[i] = ds[i]
  <2>1. /\ Append(ds, d) \in Digits
        /\ Len(Append(ds, d)) = len + 1
        /\ Append(ds, d)[len + 1] = d
        /\ \A i \in 1..len : Append(ds, d)[i] = ds[i]
    BY <1>1, AppendProperties DEF Digits
  <2> QED BY <2>1
<1>3. PICK n \in Nat : /\ n = LeadingZeros(ds) /\ n < len /\ ds[n + 1] # 0
                       /\ \A i \in 1..n : ds[i] = 0
  <2>1. LeadingZeros(ds) \in 0..len /\ LeadingZeros(ds) # len
    BY <1>1, LeadingZerosIs DEF AllZeros
  <2> QED BY <1>1, <2>1, LeadingZerosIs
<1>4. LeadingZeros(es) = n
  <2>1. n \in 0..Len(es) /\ (\A i \in 1..n : es[i] = 0) /\ es[n + 1] # 0
    BY <1>2, <1>3
  <2> QED BY <2>1, LeadingZerosAre
<1>5. Canonical(es) = SubSeq(es, n + 1, len + 1) /\ Canonical(ds) = SubSeq(ds, n + 1, len)
  <2>1. n # len + 1 /\ n # len
    BY <1>3
  <2> QED BY <1>1, <1>2, <1>3, <1>4, <2>1 DEF Canonical
<1>6. PICK s : s = SubSeq(es, n + 1, len + 1) /\ s \in Seq(0..9) /\ Len(s) = len + 1 - n
               /\ \A i \in 1..len + 1 - n : s[i] = es[n + i]
  <2>1. PICK end \in Nat : end = len + 1
    OBVIOUS
  <2>2. n <= end /\ end <= Len(es)
    BY <1>2, <1>3, <2>1
  <2>3. IsSlice(SubSeq(es, n + 1, end), es, n, end)
    BY <2>2, SliceIs
  <2>4. PICK s : s = SubSeq(es, n + 1, end) /\ IsSlice(s, es, n, end)
    BY <2>3
  <2>5. s \in Seq(0..9) /\ Len(s) = len + 1 - n /\ \A i \in 1..len + 1 - n : s[i] = es[n + i]
    BY <2>1, <2>4 DEF IsSlice, Digits
  <2> QED BY <2>1, <2>4, <2>5
<1>7. PICK t : t = SubSeq(ds, n + 1, len) /\ t \in Seq(0..9) /\ Len(t) = len - n
               /\ \A i \in 1..len - n : t[i] = ds[n + i]
  <2>1. n <= len /\ len <= Len(ds)
    BY <1>1, <1>3
  <2>2. IsSlice(SubSeq(ds, n + 1, len), ds, n, len)
    BY <2>1, SliceIs
  <2> QED BY <2>2 DEF IsSlice, Digits
<1>8. PICK u \in Seq(0..9) : u = Append(t, d) /\ Len(u) = len - n + 1 /\ u[len - n + 1] = d
                             /\ \A i \in 1..len - n : u[i] = t[i]
  <2>1. /\ Append(t, d) \in Seq(0..9)
        /\ Len(Append(t, d)) = len - n + 1 /\ Append(t, d)[len - n + 1] = d
        /\ \A i \in 1..len - n : Append(t, d)[i] = t[i]
    BY <1>7, AppendProperties
  <2> QED BY <2>1
<1>9. s = u
  <2>1. ASSUME NEW i \in 1..len + 1 - n PROVE s[i] = u[i]
    <3>1. CASE i \in 1..len - n
      <4>1. n + i \in 1..len
        BY <1>3, <3>1
      <4> QED BY <1>2, <1>6, <1>7, <1>8, <3>1, <4>1
    <3>2. CASE i = len - n + 1
      <4>1. n + i = len + 1
        BY <3>2, <1>3
      <4> QED BY <1>2, <1>6, <1>8, <2>1, <3>2, <4>1
    <3> QED BY <1>3, <3>1, <3>2
  <2>2. Len(s) = Len(u)
    BY <1>3, <1>6, <1>8
  <2>3. \A i \in 1..Len(s) : s[i] = u[i]
    BY <1>6, <2>1
  <2> QED BY <1>6, <1>8, <2>2, <2>3, SeqEqual
<1>10. ~ AllZeros(es)
  BY <1>2, <1>3, <1>4 DEF AllZeros
<1> QED BY <1>2, <1>5, <1>6, <1>7, <1>8, <1>9, <1>10

\* Digits and back: leading zeros are lost, and nothing else.
LEMMA DigitsOfNatural ==
  ASSUME NEW ds \in Digits
  PROVE  /\ DigitsOf[Natural(ds)] = Canonical(ds)
         /\ Natural(ds) = 0 <=> AllZeros(ds)
<1> DEFINE S == {es \in Digits : DigitsOf[Natural(es)] = Canonical(es) /\ (Natural(es) = 0 <=> AllZeros(es))}
<1>1. << >> \in S
  <2>1. << >> \in Digits /\ Len(<< >>) = 0
    BY EmptySeq DEF Digits
  <2>2. LeadingZeros(<< >>) = 0
    BY <2>1, LeadingZerosAre
  <2>3. Canonical(<< >>) = <<0>>
    BY <2>1, <2>2 DEF Canonical
  <2>4. DigitsOf[0] = <<0>>
    BY DigitsOfIs
  <2> QED BY <2>1, <2>2, <2>3, <2>4, NaturalEmpty DEF AllZeros
<1>2. ASSUME NEW es \in Digits, NEW d \in 0..9, es \in S PROVE Append(es, d) \in S
  <2>1. PICK n \in Nat : n = Natural(es)
    BY NaturalIsNat
  <2>2. PICK m \in Nat : m = Natural(Append(es, d)) /\ m = 10 * n + d
    BY <2>1, NaturalAppend
  <2>3. Append(es, d) \in Digits
    BY AppendProperties DEF Digits
  <2>4. CASE AllZeros(es)
    <3>1. n = 0 /\ m = d /\ d < 10
      BY <1>2, <2>1, <2>2, <2>4
    <3>2. DigitsOf[m] = <<m>>
      BY <3>1, DigitsOfIs, Zenon
    <3> QED BY <2>2, <2>3, <2>4, <3>1, <3>2, AllZerosAppend
  <2>5. CASE ~ AllZeros(es)
    <3>1. n # 0 /\ m # 0 /\ ~ (m < 10)
      BY <1>2, <2>1, <2>2, <2>5
    <3>2. m \div 10 = n /\ m % 10 = d
      BY <2>2
    <3>3. DigitsOf[m] = Append(DigitsOf[n], d)
      BY <3>1, <3>2, DigitsOfIs, Zenon
    <3>4. DigitsOf[n] = Canonical(es)
      BY <1>2, <2>1
    <3> QED BY <2>2, <2>3, <2>5, <3>1, <3>3, <3>4, CanonicalAppend
  <2> QED BY <2>4, <2>5
<1> HIDE DEF S
<1> QED BY <1>1, <1>2, DigitsInduction DEF S

LEMMA CanonicalIs ==
  ASSUME NEW ds \in Digits
  PROVE  /\ Canonical(ds) \in Digits
         /\ Natural(Canonical(ds)) = Natural(ds)
         /\ Canonical(Canonical(ds)) = Canonical(ds)
         /\ \A k \in Nat : Canonical(Zeros(k) \o ds) = Canonical(ds)
<1>1. Canonical(ds) \in Digits
  BY DigitsOfNatural, DigitsOfIs, NaturalIsNat
<1>2. Natural(Canonical(ds)) = Natural(ds)
  BY DigitsOfNatural, NaturalIsNat, NaturalOfDigits
<1>3. Canonical(Canonical(ds)) = Canonical(ds)
  BY <1>1, <1>2, DigitsOfNatural
<1>4. ASSUME NEW k \in Nat PROVE Canonical(Zeros(k) \o ds) = Canonical(ds)
  <2>1. Zeros(k) \o ds \in Digits
    BY ZerosAre, ConcatProperties DEF Digits
  <2>2. Natural(Zeros(k) \o ds) = Natural(ds)
    BY NaturalLeading
  <2> QED BY <2>1, <2>2, DigitsOfNatural
<1> QED BY <1>1, <1>2, <1>3, <1>4

-----------------------------------------------------------------------------
(* Trailing digits. *)

LEMMA TrailingIs ==
  ASSUME NEW ds \in Digits, NEW digit
  PROVE  /\ Trailing(digit, ds) \in 0..Len(ds)
         /\ \A i \in 1..Trailing(digit, ds) : ds[Len(ds) + 1 - i] = digit
         /\ Trailing(digit, ds) = Len(ds) \/ ds[Len(ds) - Trailing(digit, ds)] # digit
<1> DEFINE Is(n) == (\A i \in 1..n : ds[Len(ds) + 1 - i] = digit) /\ (n = Len(ds) \/ ds[Len(ds) - n] # digit)
           T == {n \in 0..Len(ds) : n = Len(ds) \/ ds[Len(ds) - n] # digit}
<1>1. Len(ds) \in Nat
  BY LenProperties DEF Digits
<1>2. PICK k \in T : \A m \in T : k <= m
  <2>1. T \in SUBSET Nat /\ T # {}
    BY <1>1
  <2> HIDE DEF T
  <2> QED BY <2>1, LeastOf
<1>3. ASSUME NEW i \in 1..k PROVE ds[Len(ds) + 1 - i] = digit
  <2>1. i - 1 \in 0..Len(ds) /\ ~ (k <= i - 1) /\ Len(ds) - (i - 1) = Len(ds) + 1 - i
    BY <1>1, <1>2
  <2>2. i - 1 \notin T
    BY <1>2, <2>1
  <2> QED BY <2>1, <2>2
<1>4. k \in 0..Len(ds) /\ Is(k)
  BY <1>2, <1>3
<1>5. Trailing(digit, ds) = CHOOSE n \in 0..Len(ds) : Is(n)
  BY DEF Trailing
<1> HIDE DEF T, Is
<1>6. Trailing(digit, ds) \in 0..Len(ds) /\ Is(Trailing(digit, ds))
  BY <1>4, <1>5
<1> QED BY <1>6 DEF Is

LEMMA NoneTrailing ==
  ASSUME NEW ds \in Digits, NEW digit, ds = << >> \/ ds[Len(ds)] # digit
  PROVE  Trailing(digit, ds) = 0
<1>1. PICK len \in Nat : len = Len(ds) /\ (len = 0 \/ ds[len] # digit)
  BY LenProperties, EmptySeq DEF Digits
<1>2. PICK n \in 0..len : n = Trailing(digit, ds) /\ \A i \in 1..n : ds[len + 1 - i] = digit
  BY <1>1, TrailingIs
<1>3. CASE n # 0
  <2>1. 1 \in 1..n /\ len + 1 - 1 = len /\ len # 0
    BY <1>2, <1>3
  <2> QED BY <1>1, <1>2, <2>1
<1> QED BY <1>2, <1>3

\* What is cut off at the end are zeros, and all of them.
LEMMA WithoutTrailingIs ==
  ASSUME NEW ds \in Digits
  PROVE  /\ WithoutTrailing(ds) \in Digits
         /\ Len(WithoutTrailing(ds)) <= Len(ds)
         /\ WithoutTrailing(ds) \o Zeros(Len(ds) - Len(WithoutTrailing(ds))) = ds
         /\ WithoutTrailing(WithoutTrailing(ds)) = WithoutTrailing(ds)
<1>1. PICK len \in Nat : len = Len(ds)
  BY LenProperties DEF Digits
<1>2. PICK n \in 0..len : /\ n = Trailing(0, ds)
                          /\ \A i \in 1..n : ds[len + 1 - i] = 0
                          /\ n = len \/ ds[len - n] # 0
  BY <1>1, TrailingIs
<1>3. PICK kept \in Nat : kept = len - n /\ kept <= len
  BY <1>2
<1>4. PICK s : s = WithoutTrailing(ds) /\ s \in Digits /\ Len(s) = kept /\ \A i \in 1..kept : s[i] = ds[i]
  <2>1. IsSlice(SubSeq(ds, 1, kept), ds, 0, kept)
    BY <1>1, <1>3, PrefixIs
  <2>2. WithoutTrailing(ds) = SubSeq(ds, 1, kept)
    BY <1>1, <1>2, <1>3 DEF WithoutTrailing
  <2>3. PICK s : s = SubSeq(ds, 1, kept) /\ IsSlice(s, ds, 0, kept)
    BY <2>1
  <2>4. s \in Digits /\ Len(s) = kept /\ \A i \in 1..kept : s[i] = ds[i]
    BY <2>3 DEF IsSlice
  <2> QED BY <2>2, <2>3, <2>4
<1>5. PICK z : z = Zeros(n) /\ z \in Digits /\ Len(z) = n /\ \A i \in 1..n : z[i] = 0
  BY <1>2, ZerosAre
<1>6. PICK t : t = s \o z /\ t \in Digits /\ Len(t) = len
               /\ \A i \in 1..len : t[i] = IF i <= kept THEN s[i] ELSE z[i - kept]
  <2>1. kept + n = len
    BY <1>2, <1>3
  <2>2. s \in Seq(0..9) /\ z \in Seq(0..9)
    BY <1>4, <1>5 DEF Digits
  <2>3. PICK t : t = s \o z
    OBVIOUS
  <2>4. t \in Seq(0..9) /\ Len(t) = Len(s) + Len(z)
        /\ \A i \in 1..Len(s) + Len(z) : t[i] = IF i <= Len(s) THEN s[i] ELSE z[i - Len(s)]
    BY <2>2, <2>3, ConcatProperties
  <2>5. t \in Digits /\ Len(t) = len /\ \A i \in 1..len : t[i] = IF i <= kept THEN s[i] ELSE z[i - kept]
    BY <1>4, <1>5, <2>1, <2>4 DEF Digits
  <2> QED BY <2>3, <2>5
<1>7. t = ds
  <2>1. ASSUME NEW i \in 1..len PROVE t[i] = ds[i]
    <3>1. CASE i <= kept
      <4>1. i \in 1..kept
        BY <1>3, <3>1
      <4> QED BY <1>4, <1>6, <3>1, <4>1
    <3>2. CASE ~ (i <= kept)
      <4>1. i - kept \in 1..n /\ len + 1 - i \in 1..n /\ len + 1 - (len + 1 - i) = i
        BY <1>2, <1>3, <3>2
      <4>2. ds[i] = 0
        BY <1>2, <4>1
      <4> QED BY <1>5, <1>6, <3>2, <4>1, <4>2
    <3> QED BY <3>1, <3>2
  <2>2. Len(t) = Len(ds) /\ \A i \in 1..Len(t) : t[i] = ds[i]
    BY <1>1, <1>6, <2>1
  <2> QED BY <1>6, <2>2, SeqEqual DEF Digits
<1>8. WithoutTrailing(s) = s
  <2>1. s = << >> \/ s[Len(s)] # 0
    <3>1. CASE kept = 0
      BY <1>4, <3>1, EmptySeq DEF Digits
    <3>2. CASE kept # 0
      <4>1. kept \in 1..kept /\ n # len
        BY <1>2, <1>3, <3>2
      <4> QED BY <1>2, <1>3, <1>4, <4>1
    <3> QED BY <3>1, <3>2
  <2>2. Trailing(0, s) = 0
    BY <1>4, <2>1, NoneTrailing
  <2>3. WithoutTrailing(s) = SubSeq(s, 1, Len(s))
    <3>1. Len(s) - 0 = Len(s)
      BY <1>4
    <3> QED BY <2>2, <3>1 DEF WithoutTrailing
  <2> QED BY <1>4, <2>3, SubSeqFull DEF Digits
<1>9. len - kept = n
  BY <1>2, <1>3
<1> QED BY <1>1, <1>3, <1>4, <1>5, <1>6, <1>7, <1>8, <1>9

-----------------------------------------------------------------------------
(* Rounding and padding make decimal texts of decimal texts. *)

LEMMA TextIs ==
  ASSUME NEW sign, NEW int \in Digits, NEW frac \in Digits
  PROVE  /\ IsDecimal(Text(sign, int, frac))
         /\ Text(sign, int, frac).sign = sign /\ Text(sign, int, frac).int = int /\ Text(sign, int, frac).frac = frac
BY DEF IsDecimal, Text

LEMMA DecimalParts ==
  ASSUME NEW d, IsDecimal(d)
  PROVE  /\ d.int \in Digits /\ d.frac \in Digits /\ Len(d.int) \in Nat /\ Len(d.frac) \in Nat
         /\ d.int \o d.frac \in Digits /\ Len(d.int \o d.frac) = Len(d.int) + Len(d.frac)
<1>1. d.int \in Seq(0..9) /\ d.frac \in Seq(0..9)
  BY DEF IsDecimal, Digits
<1>2. Len(d.int) \in Nat /\ Len(d.frac) \in Nat
  BY <1>1, LenProperties
<1>3. d.int \o d.frac \in Seq(0..9) /\ Len(d.int \o d.frac) = Len(d.int) + Len(d.frac)
  BY <1>1, ConcatProperties
<1> QED BY <1>1, <1>2, <1>3 DEF Digits

LEMMA WithFraction ==
  ASSUME NEW d, IsDecimal(d), NEW frac \in Digits
  PROVE  [d EXCEPT !.frac = frac] = Text(d.sign, d.int, frac)
<1>1. d = Text(d.sign, d.int, d.frac)
  BY DEF IsDecimal
<1> QED BY <1>1 DEF Text

LEMMA WithInteger ==
  ASSUME NEW d, IsDecimal(d), NEW int \in Digits
  PROVE  [d EXCEPT !.int = int] = Text(d.sign, int, d.frac)
<1>1. d = Text(d.sign, d.int, d.frac)
  BY DEF IsDecimal
<1> QED BY <1>1 DEF Text

LEMMA CarriedIs ==
  ASSUME NEW ds \in Digits
  PROVE  Carried(ds) \in Digits /\ CarriedInteger(ds) \in Digits
<1>1. PICK len \in Nat : len = Len(ds)
  BY LenProperties DEF Digits
<1>2. PICK n \in 0..len : n = Nines(ds) /\ (n = len \/ ds[len - n] # 9)
  BY <1>1, TrailingIs DEF Nines
<1>3. ASSUME NEW i \in 1..len
      PROVE  (IF i > len - n THEN 0 ELSE IF i = len - n THEN ds[i] + 1 ELSE ds[i]) \in 0..9
  <2>1. PICK d \in 0..9 : d = ds[i]
    BY <1>1, ElementOfSeq DEF Digits
  <2>2. i = len - n => d # 9
    BY <1>2, <2>1
  <2> QED BY <1>2, <2>1, <2>2
<1>4. Carried(ds) \in Seq(0..9)
  <2>1. Carried(ds) = [i \in 1..len |-> IF i > len - n THEN 0 ELSE IF i = len - n THEN ds[i] + 1 ELSE ds[i]]
    BY <1>1, <1>2 DEF Carried
  <2>2. Carried(ds) \in [1..len -> 0..9]
    BY <1>3, <2>1
  <2> QED BY <2>2, SeqDef
<1>5. <<1>> \o Carried(ds) \in Seq(0..9)
  <2>1. <<1>> \in Seq(0..9)
    OBVIOUS
  <2> QED BY <1>4, <2>1, ConcatProperties
<1> QED BY <1>4, <1>5 DEF CarriedInteger, Digits

LEMMA RoundTextIs ==
  ASSUME NEW d, IsDecimal(d), NEW max \in Nat
  PROVE  IsDecimal(RoundText(d, max))
<1>1. CASE Len(d.frac) <= max
  BY <1>1 DEF RoundText
<1>2. CASE ~ (Len(d.frac) <= max)
  <2>1. PICK kept \in Digits : kept = SubSeq(d.frac, 1, max)
    <3>1. max <= Len(d.frac)
      BY <1>2, DecimalParts
    <3> QED BY <3>1, DecimalParts, PrefixIs DEF IsSlice
  <2>2. Carried(kept) \in Digits /\ CarriedInteger(d.int) \in Digits /\ d.int \in Digits
    BY CarriedIs, DecimalParts
  <2> QED BY <1>2, <2>1, <2>2, TextIs DEF RoundText
<1> QED BY <1>1, <1>2

LEMMA AtLeastIs ==
  ASSUME NEW d, IsDecimal(d), NEW min \in Nat
  PROVE  IsDecimal(AtLeast(d, min))
<1>1. PICK k \in Nat : k = IF min > Len(d.frac) THEN min - Len(d.frac) ELSE 0
  <2>1. PICK len \in Nat : len = Len(d.frac)
    BY DecimalParts
  <2>2. (IF min > len THEN min - len ELSE 0) \in Nat
    OBVIOUS
  <2> QED BY <2>1, <2>2, Zenon
<1>2. PICK frac \in Digits : frac = d.frac \o Zeros(k)
  BY DecimalParts, ZerosAre, ConcatProperties DEF Digits
<1>3. AtLeast(d, min) = [d EXCEPT !.frac = frac]
  BY <1>1, <1>2 DEF AtLeast
<1> QED BY <1>3, WithFraction, TextIs, DecimalParts

LEMMA PadToIs ==
  ASSUME NEW d, IsDecimal(d), NEW position \in Int
  PROVE  IsDecimal(PadTo(d, position))
<1>1. position < 0 => -position \in Nat
  OBVIOUS
<1> QED BY <1>1, AtLeastIs DEF PadTo

LEMMA RoundAtIs ==
  ASSUME NEW d, IsDecimal(d), NEW position \in Int
  PROVE  IsDecimal(RoundAt(d, position))
<1>1. CASE position <= 0
  <2>1. -position \in Nat
    BY <1>1
  <2> QED BY <1>1, <2>1, RoundTextIs DEF RoundAt
<1>2. CASE ~ (position <= 0)
  <2>0. PICK len \in Nat : len = Len(d.int)
    BY DecimalParts
  <2>1. PICK k \in Nat : k = IF position > len THEN position - len ELSE 0
    <3>1. (IF position > len THEN position - len ELSE 0) \in Nat
      OBVIOUS
    <3> QED BY <3>1, Zenon
  <2>2. PICK padded \in Digits : padded = Zeros(k) \o d.int /\ Len(padded) = k + len
    <3>1. PICK s \in Seq(0..9), t \in Seq(0..9) : s = Zeros(k) /\ t = d.int /\ Len(s) = k
      BY ZerosAre, DecimalParts DEF Digits
    <3>2. s \o t \in Seq(0..9) /\ Len(s \o t) = Len(s) + Len(t)
      BY ConcatProperties
    <3> QED BY <2>0, <3>1, <3>2 DEF Digits
  <2>3. PICK cut \in Nat : cut = Len(padded) - position /\ cut <= Len(padded)
    <3>1. PICK size \in Nat : size = Len(padded) /\ size = k + len
      BY <2>2
    <3>2. size - position \in Nat /\ size - position <= size
      BY <1>2, <2>1, <3>1
    <3> QED BY <3>1, <3>2
  <2>4. PICK kept \in Digits : kept = <<0>> \o SubSeq(padded, 1, cut)
    <3>1. SubSeq(padded, 1, cut) \in Seq(0..9)
      BY <2>3, PrefixIs DEF IsSlice, Digits
    <3>2. <<0>> \in Seq(0..9)
      OBVIOUS
    <3> QED BY <3>1, <3>2, ConcatProperties DEF Digits
  <2>5. Zeros(position) \in Digits
    BY <1>2, ZerosAre
  <2>6. \A ds \in {kept, Carried(kept)} : Canonical(ds \o Zeros(position)) \in Digits
    BY <2>5, CarriedIs, CanonicalIs, ConcatProperties DEF Digits
  <2>7. << >> \in Digits
    BY EmptySeq DEF Digits
  <2>8. \E ds \in {kept, Carried(kept)} : RoundAt(d, position) = Text(d.sign, Canonical(ds \o Zeros(position)), << >>)
    BY <1>2, <2>0, <2>1, <2>2, <2>3, <2>4 DEF RoundAt
  <2> QED BY <2>6, <2>7, <2>8, TextIs
<1> QED BY <1>1, <1>2

LEMMA NonzeroStartIs ==
  ASSUME NEW d, IsDecimal(d)
  PROVE  NonzeroStart(d) \in Int
<1>1. LeadingZeros(d.int \o d.frac) \in Int
  BY DecimalParts, LeadingZerosIs
<1> QED BY <1>1, DecimalParts DEF NonzeroStart

LEMMA SignificantIs ==
  ASSUME NEW d, IsDecimal(d), NEW min \in Nat \cup {None}, NEW max \in Nat \cup {None}
  PROVE  IsDecimal(Significant(d, min, max))
<1>1. PICK rounded : rounded = IF max = None THEN d ELSE RoundAt(d, NonzeroStart(d) - (max - 1))
  OBVIOUS
<1>2. IsDecimal(rounded)
  <2>1. max # None => NonzeroStart(d) - (max - 1) \in Int
    BY NonzeroStartIs
  <2> QED BY <1>1, <2>1, RoundAtIs
<1>3. min # None => NonzeroStart(rounded) - (min - 1) \in Int
  BY <1>2, NonzeroStartIs
<1> QED BY <1>1, <1>2, <1>3, PadToIs DEF Significant

-----------------------------------------------------------------------------
(* What a text means. *)

\* The integer that d is after its separator has been moved behind its digits.
Whole(d) == IF d.sign = "-" THEN -Natural(d.int \o d.frac) ELSE Natural(d.int \o d.frac)

LEMMA UnitsIs ==
  ASSUME NEW d, IsDecimal(d)
  PROVE  /\ Units(d, Len(d.frac)) = Whole(d)
         /\ Whole(d) \in Int
         /\ \A places \in Nat : places >= Len(d.frac) => Units(d, places) \in Int
<1>1. PICK len \in Nat : len = Len(d.frac)
  BY DecimalParts
<1>2. d.int \o d.frac \o Zeros(len - len) = d.int \o d.frac
  <2>1. len - len = 0
    OBVIOUS
  <2> QED BY <2>1, NoZeros, DecimalParts, ConcatEmptySeq DEF Digits
<1>3. PICK n \in Nat : n = Natural(d.int \o d.frac)
  BY DecimalParts, NaturalIsNat
<1>4. Units(d, len) = Whole(d)
  <2>1. Units(d, len) = (IF d.sign = "-" THEN -1 ELSE 1) * n
    BY <1>1, <1>2, <1>3 DEF Units
  <2> QED BY <1>3, <2>1 DEF Whole
<1>5. Whole(d) \in Int
  BY <1>3 DEF Whole
<1>6. ASSUME NEW places \in Nat, places >= len PROVE Units(d, places) \in Int
  <2>1. PICK k \in Nat : k = places - len
    BY <1>6
  <2>2. d.int \o d.frac \o Zeros(k) \in Digits
    BY DecimalParts, ZerosAre, ConcatProperties DEF Digits
  <2>3. PICK m \in Nat : m = Natural(d.int \o d.frac \o Zeros(places - len))
    BY <2>1, <2>2, NaturalIsNat
  <2>4. Units(d, places) = (IF d.sign = "-" THEN -1 ELSE 1) * m
    BY <1>1, <2>3 DEF Units
  <2> QED BY <2>4
<1> QED BY <1>1, <1>4, <1>5, <1>6

\* The signs of the texts that str::parse and to_string agree on.
PlainSigns == {"", "-"}

LEMMA IntTextIs ==
  ASSUME NEW n \in Int
  PROVE  IsDecimal(IntText(n)) /\ IntText(n).frac = << >> /\ IntText(n).sign \in PlainSigns /\ Whole(IntText(n)) = n
<1>1. PICK m \in Nat : m = Magnitude(n) /\ n = IF n < 0 THEN -m ELSE m
  BY DEF Magnitude
<1>2. DigitsOf[m] \in Digits /\ << >> \in Digits
  BY DigitsOfIs, EmptySeq DEF Digits
<1>3. PICK t : t = IntText(n) /\ IsDecimal(t) /\ t.int = DigitsOf[m] /\ t.frac = << >>
               /\ t.sign = IF n < 0 THEN "-" ELSE ""
  <2>1. PICK sign : sign = IF n < 0 THEN "-" ELSE ""
    OBVIOUS
  <2>2. IntText(n) = Text(sign, DigitsOf[m], << >>)
    BY <1>1, <2>1 DEF IntText
  <2>3. IsDecimal(Text(sign, DigitsOf[m], << >>)) /\ Text(sign, DigitsOf[m], << >>).sign = sign
        /\ Text(sign, DigitsOf[m], << >>).int = DigitsOf[m] /\ Text(sign, DigitsOf[m], << >>).frac = << >>
    BY <1>2, TextIs
  <2> QED BY <2>1, <2>2, <2>3, Zenon
<1>4. Natural(t.int \o t.frac) = m
  <2>1. t.int \o t.frac = DigitsOf[m]
    BY <1>2, <1>3, ConcatEmptySeq DEF Digits
  <2> QED BY <2>1, NaturalOfDigits
<1>5. Whole(t) = n
  BY <1>1, <1>3, <1>4 DEF Whole
<1> QED BY <1>3, <1>5 DEF PlainSigns

\* The text of an integer is that of its number again, but for a zero with a sign.
LEMMA IntegersStay ==
  ASSUME NEW d, IsDecimal(d), d.frac = << >>, d.int = Canonical(d.int), d.sign \in PlainSigns,
         ~ (d.sign = "-" /\ IsZero(d))
  PROVE  Units(d, 0) \in Int /\ IntText(Units(d, 0)) = d
<1>1. Len(d.frac) = 0
  BY EmptySeq
<1>2. Units(d, 0) = Whole(d) /\ Whole(d) \in Int
  BY <1>1, UnitsIs
<1>3. d.int \o d.frac = d.int /\ d.int \in Digits
  BY DecimalParts, ConcatEmptySeq DEF Digits
<1>4. PICK n \in Nat : n = Natural(d.int)
  BY <1>3, NaturalIsNat
<1>5. DigitsOf[n] = d.int
  BY <1>3, <1>4, DigitsOfNatural
<1>6. ASSUME d.sign = "-" PROVE n # 0
  <2> SUFFICES ASSUME n = 0 PROVE IsZero(d)
    BY <1>6
  <2>1. AllZeros(d.int)
    BY <1>3, <1>4, DigitsOfNatural
  <2>2. \A i \in 1..Len(d.int) : d.int[i] = 0
    BY <1>3, <2>1, LeadingZerosIs DEF AllZeros
  <2> QED BY <1>3, <2>2 DEF IsZero
<1>7. PICK w \in Int : w = Whole(d) /\ w = IF d.sign = "-" THEN -n ELSE n
  BY <1>2, <1>3, <1>4 DEF Whole
<1>8. Magnitude(w) = n /\ (w < 0 <=> d.sign = "-")
  <2>1. CASE d.sign = "-"
    <3>1. w = -n /\ n # 0
      BY <1>6, <1>7, <2>1
    <3> QED BY <2>1, <3>1 DEF Magnitude
  <2>2. CASE d.sign # "-"
    <3>1. w = n
      BY <1>7, <2>2
    <3>2. Magnitude(n) = n /\ ~ (n < 0)
      BY DEF Magnitude
    <3> QED BY <2>2, <3>1, <3>2
  <2> QED BY <2>1, <2>2
<1>9. IntText(w) = Text(d.sign, d.int, << >>)
  <2>1. (IF w < 0 THEN "-" ELSE "") = d.sign
    BY <1>8 DEF PlainSigns
  <2> QED BY <1>5, <1>8, <2>1 DEF IntText
<1> QED BY <1>2, <1>7, <1>9 DEF IsDecimal

LEMMA TrimEndIs ==
  ASSUME NEW d, IsDecimal(d)
  PROVE  IsDecimal(TrimEnd(d)) /\ TrimEnd(d) = Text(d.sign, d.int, WithoutTrailing(d.frac))
<1>1. WithoutTrailing(d.frac) \in Digits
  BY DecimalParts, WithoutTrailingIs
<1>2. TrimEnd(d) = Text(d.sign, d.int, WithoutTrailing(d.frac))
  BY <1>1, WithFraction DEF TrimEnd
<1> QED BY <1>1, <1>2, DecimalParts, TextIs

\* Moving the separator leaves a text as str::parse wants it.
LEMMA TimesHundredIs ==
  ASSUME NEW d, IsDecimal(d)
  PROVE  /\ IsDecimal(TimesHundred(d))
         /\ TimesHundred(d).sign \in PlainSigns
         /\ TimesHundred(d).int = Canonical(TimesHundred(d).int)
         /\ WithoutTrailing(TimesHundred(d).frac) = TimesHundred(d).frac
         /\ d.frac = << >> => TimesHundred(d).frac = << >>
<1>1. PICK digits \in Digits : digits = d.int \o d.frac /\ Len(digits) = Len(d.int) + Len(d.frac)
  BY DecimalParts
<1>2. PICK size \in Nat, point \in Nat : size = Len(digits) /\ point = Len(d.int) + 2
  <2>1. Len(digits) \in Nat /\ Len(d.int) + 2 \in Nat
    BY DecimalParts, LenProperties DEF Digits
  <2> QED BY <2>1
<1>3. PICK whole \in Digits : whole = IF point >= size THEN digits \o Zeros(point - size) ELSE SubSeq(digits, 1, point)
  <2>1. CASE point >= size
    <3>1. PICK k \in Nat : k = point - size
      BY <2>1
    <3>2. digits \o Zeros(k) \in Digits
      BY ZerosAre, ConcatProperties DEF Digits
    <3> QED BY <2>1, <3>1, <3>2
  <2>2. CASE ~ (point >= size)
    <3>1. SubSeq(digits, 1, point) \in Digits
      BY <1>2, <2>2, PrefixIs DEF IsSlice
    <3> QED BY <2>2, <3>1
  <2> QED BY <2>1, <2>2
<1>4. PICK slice \in Digits : slice = SubSeq(digits, point + 1, size) /\ (point >= size => slice = << >>)
  <2>1. CASE point >= size
    <3>1. point + 1 \in Int /\ size < point + 1
      BY <2>1
    <3>2. SubSeq(digits, point + 1, size) = << >>
      BY <3>1, SubSeqEmpty
    <3> QED BY <3>2, EmptySeq DEF Digits
  <2>2. CASE ~ (point >= size)
    <3>1. point <= size /\ size <= Len(digits)
      BY <1>2, <2>2
    <3>2. SubSeq(digits, point + 1, size) \in Digits
      BY <3>1, SliceIs DEF IsSlice
    <3> QED BY <2>2, <3>2
  <2> QED BY <2>1, <2>2
<1>5. PICK rest \in Digits : /\ rest = WithoutTrailing(slice) /\ WithoutTrailing(rest) = rest
                             /\ slice = << >> => rest = << >>
  <2>1. WithoutTrailing(slice) \in Digits /\ Len(WithoutTrailing(slice)) <= Len(slice)
        /\ WithoutTrailing(WithoutTrailing(slice)) = WithoutTrailing(slice)
    BY WithoutTrailingIs
  <2>2. slice = << >> => WithoutTrailing(slice) = << >>
    BY <2>1, EmptySeq DEF Digits
  <2> QED BY <2>1, <2>2
<1>6. Canonical(whole) \in Digits /\ Canonical(Canonical(whole)) = Canonical(whole)
  BY CanonicalIs
<1>7. PICK sign \in PlainSigns : TimesHundred(d) = Text(sign, Canonical(whole), rest)
  <2>1. TimesHundred(d) = Text(IF d.sign = "-" /\ ~ IsZero(Text("", whole, rest)) THEN "-" ELSE "", Canonical(whole), rest)
    BY <1>1, <1>2, <1>3, <1>4, <1>5 DEF TimesHundred
  <2> QED BY <2>1 DEF PlainSigns
<1>8. d.frac = << >> => rest = << >>
  <2>1. d.frac = << >> => point >= size
    <3>1. PICK len \in Nat : len = Len(d.int)
      BY DecimalParts
    <3>2. d.frac = << >> => Len(d.frac) = 0
      BY EmptySeq
    <3>3. ASSUME d.frac = << >> PROVE size = len
      BY <1>1, <1>2, <3>1, <3>2, <3>3
    <3>4. point >= len
      BY <1>2, <3>1
    <3> QED BY <3>3, <3>4
  <2> QED BY <1>4, <1>5, <2>1
<1>9. PICK int \in Digits : int = Canonical(whole) /\ Canonical(int) = int
  BY <1>6
<1>10. TimesHundred(d) = Text(sign, int, rest) /\ IsDecimal(Text(sign, int, rest))
       /\ Text(sign, int, rest).sign = sign /\ Text(sign, int, rest).int = int /\ Text(sign, int, rest).frac = rest
  <2>1. IsDecimal(Text(sign, int, rest)) /\ Text(sign, int, rest).sign = sign
        /\ Text(sign, int, rest).int = int /\ Text(sign, int, rest).frac = rest
    BY TextIs
  <2> QED BY <1>7, <1>9, <2>1, Zenon
<1> QED BY <1>5, <1>8, <1>9, <1>10

LEMMA ScaledTextIs ==
  ASSUME NEW sum \in Int, NEW scale \in Nat
  PROVE  /\ IsDecimal(ScaledText(sum, scale))
         /\ Len(ScaledText(sum, scale).frac) <= scale
         /\ Units(ScaledText(sum, scale), scale) = sum
<1>1. PICK m \in Nat : m = Magnitude(sum) /\ sum = IF sum < 0 THEN -m ELSE m
  BY DEF Magnitude
<1>2. PICK digits \in Digits : digits = DigitsOf[m]
  BY DigitsOfIs
<1>3. PICK k \in Nat : k = (IF Len(digits) <= scale THEN scale + 1 - Len(digits) ELSE 0) /\ k + Len(digits) > scale
  <2>1. PICK len \in Nat : len = Len(digits)
    BY LenProperties DEF Digits
  <2>2. PICK k : k = IF len <= scale THEN scale + 1 - len ELSE 0
    OBVIOUS
  <2>3. k \in Nat /\ k + len > scale
    BY <2>2
  <2> QED BY <2>1, <2>2, <2>3, Zenon
<1>4. PICK wide \in Digits : wide = Zeros(k) \o digits /\ Len(wide) = k + Len(digits)
  <2>1. PICK s \in Seq(0..9), t \in Seq(0..9) : s = Zeros(k) /\ t = digits /\ Len(s) = k
    BY ZerosAre DEF Digits
  <2>2. s \o t \in Seq(0..9) /\ Len(s \o t) = Len(s) + Len(t)
    BY ConcatProperties
  <2> QED BY <2>1, <2>2 DEF Digits
<1>5. PICK size \in Nat, cut \in Nat : size = Len(wide) /\ cut = size - scale /\ cut <= size
  <2>1. PICK size \in Nat : size = Len(wide) /\ size > scale
    BY <1>3, <1>4, LenProperties DEF Digits
  <2>2. size - scale \in Nat /\ size - scale <= size
    BY <2>1
  <2> QED BY <2>1, <2>2
<1>6. PICK int \in Digits, frac \in Digits :
         int = SubSeq(wide, 1, cut) /\ frac = SubSeq(wide, cut + 1, size) /\ Len(frac) = scale /\ int \o frac = wide
  <2>1. cut <= Len(wide) /\ size <= Len(wide) /\ size - cut = scale
    BY <1>5
  <2>2. SubSeq(wide, 1, cut) \in Digits
    BY <2>1, PrefixIs DEF IsSlice
  <2>3. SubSeq(wide, cut + 1, size) \in Digits /\ Len(SubSeq(wide, cut + 1, size)) = scale
    BY <1>5, <2>1, SliceIs DEF IsSlice
  <2>4. SubSeq(wide, 1, cut) \o SubSeq(wide, cut + 1, size) = SubSeq(wide, 1, size)
    <3>1. PICK one \in Int : one = 1
      OBVIOUS
    <3>2. one \in 1..Len(wide) + 1 /\ cut \in one - 1..Len(wide) /\ size \in cut..Len(wide)
      BY <1>5, <3>1
    <3>3. SubSeq(wide, one, cut) \o SubSeq(wide, cut + 1, size) = SubSeq(wide, one, size)
      BY <3>2, ConcatAdjacentSubSeq DEF Digits
    <3> QED BY <3>1, <3>3
  <2>5. SubSeq(wide, 1, size) = wide
    BY <1>5, SubSeqFull DEF Digits
  <2> QED BY <2>2, <2>3, <2>4, <2>5
<1>7. PICK text : text = Text(IF sum < 0 THEN "-" ELSE "", int, frac) /\ IsDecimal(text)
                   /\ text.sign = (IF sum < 0 THEN "-" ELSE "") /\ text.int = int /\ text.frac = frac
  <2>1. PICK sign : sign = IF sum < 0 THEN "-" ELSE ""
    OBVIOUS
  <2>2. IsDecimal(Text(sign, int, frac)) /\ Text(sign, int, frac).sign = sign
        /\ Text(sign, int, frac).int = int /\ Text(sign, int, frac).frac = frac
    BY TextIs
  <2> QED BY <2>1, <2>2, Zenon
<1>8. PICK t : t = TrimEnd(text) /\ IsDecimal(t) /\ t.sign = text.sign /\ t.int = int /\ t.frac = WithoutTrailing(frac)
  <2>1. PICK kept \in Digits : kept = WithoutTrailing(frac)
    BY WithoutTrailingIs
  <2>2. TrimEnd(text) = Text(text.sign, int, kept) /\ IsDecimal(TrimEnd(text))
    BY <1>7, <2>1, TrimEndIs
  <2>3. Text(text.sign, int, kept).sign = text.sign /\ Text(text.sign, int, kept).int = int
        /\ Text(text.sign, int, kept).frac = kept
    BY TextIs
  <2> QED BY <2>1, <2>2, <2>3
<1>9. Len(t.frac) <= scale /\ Units(t, scale) = sum
  <2>1. Len(t.frac) <= scale /\ t.frac \o Zeros(scale - Len(t.frac)) = frac
    BY <1>6, <1>8, WithoutTrailingIs
  <2>2. PICK z \in Digits : z = Zeros(scale - Len(t.frac))
    <3>1. scale - Len(t.frac) \in Nat
      BY <1>8, <2>1, DecimalParts
    <3> QED BY <3>1, ZerosAre
  <2>3. t.int \o t.frac \o z = wide
    <3>1. (t.int \o t.frac) \o z = t.int \o (t.frac \o z)
      <4>1. t.int \in Seq(0..9) /\ t.frac \in Seq(0..9) /\ z \in Seq(0..9)
        BY <1>8, DecimalParts DEF Digits
      <4>2. PICK a \in Seq(0..9), b \in Seq(0..9), c \in Seq(0..9) : a = t.int /\ b = t.frac /\ c = z
        BY <4>1
      <4>3. (a \o b) \o c = a \o (b \o c)
        BY ConcatAssociative
      <4> QED BY <4>2, <4>3, Zenon
    <3> QED BY <1>6, <1>8, <2>1, <2>2, <3>1
  <2>4. Natural(wide) = m
    BY <1>2, <1>4, NaturalLeading, NaturalOfDigits
  <2>5. Units(t, scale) = (IF t.sign = "-" THEN -1 ELSE 1) * m
    BY <2>2, <2>3, <2>4 DEF Units
  <2>6. t.sign = "-" <=> sum < 0
    BY <1>7, <1>8
  <2> QED BY <1>1, <2>1, <2>5, <2>6
<1>10. t = ScaledText(sum, scale)
  <2>1. wide = Zeros(IF Len(digits) <= scale THEN scale + 1 - Len(digits) ELSE 0) \o digits
    BY <1>3, <1>4, Zenon
  <2>2. ScaledText(sum, scale)
          = TrimEnd(Text(IF sum < 0 THEN "-" ELSE "", SubSeq(wide, 1, Len(wide) - scale),
                         SubSeq(wide, Len(wide) - scale + 1, Len(wide))))
    BY <1>1, <1>2, <2>1, Zenon DEF ScaledText
  <2> QED BY <1>5, <1>6, <1>7, <1>8, <2>2, Zenon
<1> QED BY <1>8, <1>9, <1>10

\* checked_offset's sum, of a text or of an integer.
LEMMA OffsetIs ==
  ASSUME NEW d, IsDecimal(d), NEW adjustment \in Int, NEW subtract \in BOOLEAN,
         NEW sum, sum = Whole(d) + (IF subtract THEN -adjustment ELSE adjustment) * TenTo[Len(d.frac)]
  PROVE  \/ Offset(d, adjustment, subtract) = [failed |-> NumericMagnitude]
         \/ Len(d.frac) = 0 /\ Offset(d, adjustment, subtract) = [integer |-> sum] /\ sum \in Int
         \/ Offset(d, adjustment, subtract) = [decimal |-> ScaledText(sum, Len(d.frac))] /\ sum \in Int
<1>1. PICK scale \in Nat : scale = Len(d.frac)
  BY DecimalParts
<1>2. PICK power \in Nat : power = TenTo[scale]
  BY TenToIs
<1>3. PICK scaled \in Int : scaled = Scaled(adjustment, scale) /\ scaled = adjustment * power
  BY <1>2 DEF Scaled
<1>4. PICK signed \in Int : signed = Units(d, scale) /\ signed = Whole(d)
  BY <1>1, UnitsIs
<1>5. sum = (IF subtract THEN signed - scaled ELSE signed + scaled) /\ sum \in Int
  <2>1. (-adjustment) * power = -(adjustment * power)
    OBVIOUS
  <2>2. (IF subtract THEN -adjustment ELSE adjustment) * power = IF subtract THEN -scaled ELSE scaled
    BY <1>3, <2>1
  <2> QED BY <1>1, <1>2, <1>4, <2>2
<1>6. sum = IF subtract THEN Units(d, Len(d.frac)) - Scaled(adjustment, Len(d.frac))
            ELSE Units(d, Len(d.frac)) + Scaled(adjustment, Len(d.frac))
  BY <1>1, <1>3, <1>4, <1>5, Zenon
<1> QED BY <1>5, <1>6 DEF Offset

-----------------------------------------------------------------------------
(* Arithmetic with the numbers that texts mean. *)

LEMMA TenToSum ==
  ASSUME NEW m \in Nat, NEW n \in Nat
  PROVE  TenTo[m + n] = TenTo[m] * TenTo[n]
<1> DEFINE S == {k \in Nat : TenTo[m + k] = TenTo[m] * TenTo[k]}
<1>1. PICK a \in Nat : a = TenTo[m]
  BY TenToIs
<1>2. 0 \in S
  BY <1>1, TenToIs
<1>3. ASSUME NEW k \in Nat, k \in S PROVE k + 1 \in S
  <2>1. PICK b \in Nat : b = TenTo[k]
    BY TenToIs
  <2>2. TenTo[m + k] = a * b
    BY <1>1, <1>3, <2>1
  <2>3. m + k \in Nat /\ m + (k + 1) = (m + k) + 1 /\ k + 1 \in Nat
    OBVIOUS
  <2>4. TenTo[m + (k + 1)] = 10 * (a * b) /\ TenTo[k + 1] = 10 * b
    BY <2>1, <2>2, <2>3, TenToIs
  <2>5. 10 * (a * b) = a * (10 * b)
    OBVIOUS
  <2> QED BY <1>1, <2>3, <2>4, <2>5
<1> HIDE DEF S
<1> QED BY <1>2, <1>3, InductionOn DEF S

LEMMA ConcatDigits ==
  ASSUME NEW ds \in Digits, NEW es \in Digits
  PROVE  ds \o es \in Digits /\ Len(ds \o es) = Len(ds) + Len(es) /\ Len(ds) \in Nat /\ Len(es) \in Nat
BY ConcatProperties, LenProperties DEF Digits

\* Digits written after one another.
LEMMA NaturalConcat ==
  ASSUME NEW ds \in Digits, NEW es \in Digits
  PROVE  Natural(ds \o es) = Natural(ds) * TenTo[Len(es)] + Natural(es)
<1> DEFINE S == {fs \in Digits : Natural(ds \o fs) = Natural(ds) * TenTo[Len(fs)] + Natural(fs)}
<1>1. PICK n \in Nat : n = Natural(ds)
  BY NaturalIsNat
<1>2. << >> \in S
  <2>1. << >> \in Digits /\ Len(<< >>) = 0 /\ ds \o << >> = ds
    BY EmptySeq, ConcatEmptySeq DEF Digits
  <2>2. n = n * 1 + 0
    OBVIOUS
  <2> QED BY <1>1, <2>1, <2>2, NaturalEmpty, TenToIs
<1>3. ASSUME NEW fs \in Digits, NEW d \in 0..9, fs \in S PROVE Append(fs, d) \in S
  <2>1. PICK power \in Nat, f \in Nat, len \in Nat : power = TenTo[Len(fs)] /\ f = Natural(fs) /\ len = Len(fs)
    <3>1. Len(fs) \in Nat
      BY ConcatDigits
    <3> QED BY <3>1, TenToIs, NaturalIsNat
  <2>2. Append(fs, d) \in Digits /\ Len(Append(fs, d)) = len + 1 /\ ds \o fs \in Digits
    BY <2>1, ConcatDigits, AppendProperties DEF Digits
  <2>3. Natural(ds \o fs) = n * power + f
    BY <1>1, <1>3, <2>1
  <2>4. Natural(ds \o Append(fs, d)) = 10 * (n * power + f) + d
    BY <2>2, <2>3, ConcatAppend, NaturalAppend
  <2>5. Natural(Append(fs, d)) = 10 * f + d /\ TenTo[len + 1] = 10 * power
    BY <2>1, NaturalAppend, TenToIs
  <2>6. 10 * (n * power + f) + d = n * (10 * power) + (10 * f + d)
    OBVIOUS
  <2> QED BY <1>1, <2>2, <2>4, <2>5, <2>6
<1> HIDE DEF S
<1> QED BY <1>2, <1>3, DigitsInduction DEF S

\* The first digit says how large a number is.
LEMMA NaturalBetween ==
  ASSUME NEW ds \in Digits, ds # << >>
  PROVE  /\ Len(ds) - 1 \in Nat /\ ds[1] \in 0..9
         /\ ds[1] * TenTo[Len(ds) - 1] <= Natural(ds)
         /\ Natural(ds) < (ds[1] + 1) * TenTo[Len(ds) - 1]
<1> DEFINE Between(fs) == /\ Len(fs) - 1 \in Nat /\ fs[1] \in 0..9
                          /\ fs[1] * TenTo[Len(fs) - 1] <= Natural(fs)
                          /\ Natural(fs) < (fs[1] + 1) * TenTo[Len(fs) - 1]
           S == {fs \in Digits : fs # << >> => Between(fs)}
<1>1. << >> \in S
  BY EmptySeq DEF Digits
<1>2. ASSUME NEW fs \in Digits, NEW d \in 0..9, fs \in S PROVE Append(fs, d) \in S
  <2>1. PICK f \in Nat, len \in Nat : f = Natural(fs) /\ len = Len(fs)
    BY ConcatDigits, NaturalIsNat
  <2>2. PICK gs \in Digits : /\ gs = Append(fs, d) /\ Len(gs) = len + 1 /\ gs[len + 1] = d
                             /\ \A i \in 1..len : gs[i] = fs[i]
    <3>1. /\ Append(fs, d) \in Digits /\ Len(Append(fs, d)) = len + 1 /\ Append(fs, d)[len + 1] = d
          /\ \A i \in 1..len : Append(fs, d)[i] = fs[i]
      BY <2>1, AppendProperties DEF Digits
    <3> QED BY <3>1
  <2>3. Natural(gs) = 10 * f + d
    BY <2>1, <2>2, NaturalAppend
  <2>4. (len + 1) - 1 = len
    OBVIOUS
  <2>5. CASE fs = << >>
    <3>1. len = 0 /\ f = 0
      BY <2>1, <2>5, NaturalEmpty, EmptySeq
    <3>2. gs[1] = d /\ TenTo[0] = 1
      BY <2>2, <3>1, TenToIs
    <3>3. d * 1 <= 10 * 0 + d /\ 10 * 0 + d < (d + 1) * 1
      OBVIOUS
    <3> QED BY <2>2, <2>3, <2>4, <3>1, <3>2, <3>3
  <2>6. CASE fs # << >>
    <3>1. Between(fs)
      BY <1>2, <2>6
    <3>2. PICK before \in Nat : before = len - 1 /\ before + 1 = len
      BY <2>1, <3>1
    <3>3. PICK power \in Nat, h \in 0..9 : power = TenTo[before] /\ h = fs[1]
      BY <3>1, TenToIs
    <3>4. h * power <= f /\ f < (h + 1) * power
      BY <2>1, <3>1, <3>2, <3>3
    <3>5. PICK low \in Int, high \in Int : low = h * power /\ high = (h + 1) * power
      OBVIOUS
    <3>6. h * (10 * power) = 10 * low /\ (h + 1) * (10 * power) = 10 * high
      BY <3>5
    <3>7. 10 * low <= 10 * f + d /\ 10 * f + d < 10 * high
      BY <3>4, <3>5
    <3>8. TenTo[len] = 10 * power
      BY <3>2, <3>3, TenToIs
    <3>9. 1 \in 1..len
      BY <3>2
    <3>10. gs[1] = h
      BY <2>2, <3>3, <3>9
    <3>11. Len(gs) - 1 = len
      BY <2>2, <2>4
    <3> QED BY <2>2, <2>3, <3>6, <3>7, <3>8, <3>10, <3>11
  <2> QED BY <2>5, <2>6
<1>3. Digits \subseteq S
  <2> HIDE DEF S
  <2> QED BY <1>1, <1>2, DigitsInduction
<1> QED BY <1>3

LEMMA TrailingAre ==
  ASSUME NEW ds \in Digits, NEW digit, NEW n \in 0..Len(ds), \A i \in 1..n : ds[Len(ds) + 1 - i] = digit,
         n = Len(ds) \/ ds[Len(ds) - n] # digit
  PROVE  Trailing(digit, ds) = n
<1>1. PICK len \in Nat : len = Len(ds)
  BY LenProperties DEF Digits
<1>2. PICK m \in 0..len : m = Trailing(digit, ds) /\ (\A i \in 1..m : ds[len + 1 - i] = digit)
                          /\ (m = len \/ ds[len - m] # digit)
  BY <1>1, TrailingIs
<1>3. ~ (m < n)
  <2> SUFFICES ASSUME m < n PROVE FALSE
    OBVIOUS
  <2>1. m + 1 \in 1..n /\ m # len /\ len + 1 - (m + 1) = len - m
    BY <1>1, <1>2
  <2> QED BY <1>1, <1>2, <2>1
<1>4. ~ (n < m)
  <2> SUFFICES ASSUME n < m PROVE FALSE
    OBVIOUS
  <2>1. n + 1 \in 1..m /\ n # len /\ len + 1 - (n + 1) = len - n
    BY <1>1, <1>2
  <2> QED BY <1>1, <1>2, <2>1
<1> QED BY <1>1, <1>2, <1>3, <1>4

\* Carrying through the nines at the end adds one, and loses a power of ten
\* where there is no other digit.
LEMMA CarriedLast ==
  ASSUME NEW ds \in Digits, NEW d \in 0..9
  PROVE  /\ d = 9 => Carried(Append(ds, d)) = Append(Carried(ds), 0)
         /\ d # 9 => Carried(Append(ds, d)) = Append(ds, d + 1)
         /\ Overflows(Append(ds, d)) <=> (d = 9 /\ Overflows(ds))
<1>1. PICK len \in Nat : len = Len(ds)
  BY LenProperties DEF Digits
<1>2. PICK n \in 0..len : n = Nines(ds) /\ (\A i \in 1..n : ds[len + 1 - i] = 9) /\ (n = len \/ ds[len - n] # 9)
  <2>1. PICK n : n = Trailing(9, ds)
    OBVIOUS
  <2>2. n \in 0..len /\ (\A i \in 1..n : ds[len + 1 - i] = 9) /\ (n = len \/ ds[len - n] # 9)
    BY <1>1, <2>1, TrailingIs
  <2> QED BY <2>1, <2>2 DEF Nines
<1>3. PICK es \in Digits : /\ es = Append(ds, d) /\ Len(es) = len + 1 /\ es[len + 1] = d
                           /\ \A i \in 1..len : es[i] = ds[i]
  <2>1. /\ Append(ds, d) \in Digits /\ Len(Append(ds, d)) = len + 1 /\ Append(ds, d)[len + 1] = d
        /\ \A i \in 1..len : Append(ds, d)[i] = ds[i]
    BY <1>1, AppendProperties DEF Digits
  <2> QED BY <2>1
<1>4. Carried(ds) \in Seq(0..9) /\ Carried(es) \in Seq(0..9)
  BY CarriedIs DEF Digits
<1>5. /\ Carried(ds) = [i \in 1..len |-> IF i > len - n THEN 0 ELSE IF i = len - n THEN ds[i] + 1 ELSE ds[i]]
      /\ Len(Carried(ds)) = len
  <2>1. Carried(ds) = [i \in 1..len |-> IF i > len - n THEN 0 ELSE IF i = len - n THEN ds[i] + 1 ELSE ds[i]]
    BY <1>1, <1>2 DEF Carried
  <2>2. DOMAIN Carried(ds) = 1..len
    BY <2>1
  <2> QED BY <1>4, <2>1, <2>2, LenProperties
<1>6. CASE d = 9
  <2>1. Nines(es) = n + 1
    <3>1. n + 1 \in 0..Len(es)
      BY <1>3
    <3>2. ASSUME NEW i \in 1..n + 1 PROVE es[len + 1 + 1 - i] = 9
      <4>1. CASE i = 1
        BY <1>3, <1>6, <4>1
      <4>2. CASE i # 1
        <5>1. i - 1 \in 1..n /\ len + 1 - (i - 1) = len + 1 + 1 - i /\ len + 1 + 1 - i \in 1..len
          BY <1>2, <4>2
        <5> QED BY <1>2, <1>3, <5>1
      <4> QED BY <4>1, <4>2
    <3>3. n + 1 = Len(es) \/ es[Len(es) - (n + 1)] # 9
      <4>1. CASE n = len
        BY <1>3, <4>1
      <4>2. CASE n # len
        <5>1. len - n \in 1..len /\ (len + 1) - (n + 1) = len - n
          BY <1>2, <4>2
        <5> QED BY <1>2, <1>3, <4>2, <5>1
      <4> QED BY <4>1, <4>2
    <3>4. PICK m \in 0..Len(es) : m = n + 1 /\ (\A i \in 1..m : es[Len(es) + 1 - i] = 9)
                                  /\ (m = Len(es) \/ es[Len(es) - m] # 9)
      BY <1>3, <3>1, <3>2, <3>3
    <3>5. Trailing(9, es) = m
      BY <3>4, TrailingAre
    <3> QED BY <3>4, <3>5 DEF Nines
  <2>2. Overflows(es) <=> Overflows(ds)
    BY <1>1, <1>2, <1>3, <2>1 DEF Overflows
  <2>3. Carried(es) = [i \in 1..len + 1 |-> IF i > (len + 1) - (n + 1) THEN 0
                                            ELSE IF i = (len + 1) - (n + 1) THEN es[i] + 1 ELSE es[i]]
    BY <1>3, <2>1 DEF Carried
  <2>4. PICK s \in Seq(0..9) : s = Carried(es) /\ Len(s) = len + 1
    <3>1. DOMAIN Carried(es) = 1..len + 1
      BY <2>3
    <3> QED BY <1>4, <3>1, LenProperties
  <2>5. PICK t \in Seq(0..9) : /\ t = Append(Carried(ds), 0) /\ Len(t) = len + 1 /\ t[len + 1] = 0
                               /\ \A i \in 1..len : t[i] = Carried(ds)[i]
    <3>1. PICK z \in 0..9 : z = 0
      OBVIOUS
    <3>2. /\ Append(Carried(ds), z) \in Seq(0..9) /\ Len(Append(Carried(ds), z)) = len + 1
          /\ Append(Carried(ds), z)[len + 1] = z /\ \A i \in 1..len : Append(Carried(ds), z)[i] = Carried(ds)[i]
      BY <1>4, <1>5, AppendProperties
    <3> QED BY <3>1, <3>2
  <2>6. ASSUME NEW i \in 1..len + 1 PROVE s[i] = t[i]
    <3>1. (len + 1) - (n + 1) = len - n
      BY <1>2
    <3>2. CASE i = len + 1
      BY <1>2, <2>3, <2>4, <2>5, <3>1, <3>2
    <3>3. CASE i # len + 1
      <4>1. i \in 1..len
        BY <3>3
      <4> QED BY <1>3, <1>5, <2>3, <2>4, <2>5, <3>1, <4>1
    <3> QED BY <3>2, <3>3
  <2>7. s = t
    BY <2>4, <2>5, <2>6, SeqEqual
  <2> QED BY <1>3, <1>6, <2>2, <2>4, <2>5, <2>7
<1>7. CASE d # 9
  <2>1. Nines(es) = 0
    <3>1. es[Len(es)] # 9
      BY <1>3, <1>7
    <3> QED BY <3>1, NoneTrailing DEF Nines
  <2>2. ~ Overflows(es)
    BY <1>3, <2>1 DEF Overflows
  <2>3. Carried(es) = [i \in 1..len + 1 |-> IF i > (len + 1) - 0 THEN 0
                                            ELSE IF i = (len + 1) - 0 THEN es[i] + 1 ELSE es[i]]
    BY <1>3, <2>1 DEF Carried
  <2>4. PICK s \in Seq(0..9) : s = Carried(es) /\ Len(s) = len + 1
    <3>1. DOMAIN Carried(es) = 1..len + 1
      BY <2>3
    <3> QED BY <1>4, <3>1, LenProperties
  <2>5. PICK t \in Seq(0..9) : /\ t = Append(ds, d + 1) /\ Len(t) = len + 1 /\ t[len + 1] = d + 1
                               /\ \A i \in 1..len : t[i] = ds[i]
    <3>1. PICK z \in 0..9 : z = d + 1
      BY <1>7
    <3>2. /\ Append(ds, z) \in Seq(0..9) /\ Len(Append(ds, z)) = len + 1
          /\ Append(ds, z)[len + 1] = z /\ \A i \in 1..len : Append(ds, z)[i] = ds[i]
      BY <1>1, AppendProperties DEF Digits
    <3> QED BY <3>1, <3>2
  <2>6. ASSUME NEW i \in 1..len + 1 PROVE s[i] = t[i]
    <3>1. CASE i = len + 1
      BY <1>3, <2>3, <2>4, <2>5, <3>1
    <3>2. CASE i # len + 1
      <4>1. i \in 1..len
        BY <3>2
      <4> QED BY <1>3, <2>3, <2>4, <2>5, <4>1
    <3> QED BY <3>1, <3>2
  <2>7. s = t
    BY <2>4, <2>5, <2>6, SeqEqual
  <2> QED BY <1>3, <1>7, <2>2, <2>4, <2>5, <2>7
<1> QED BY <1>6, <1>7

LEMMA CarriedAddsOne ==
  ASSUME NEW ds \in Digits
  PROVE  /\ Natural(Carried(ds)) + (IF Overflows(ds) THEN TenTo[Len(ds)] ELSE 0) = Natural(ds) + 1
         /\ Natural(CarriedInteger(ds)) = Natural(ds) + 1
         /\ Len(Carried(ds)) = Len(ds)
<1> DEFINE Lost(es) == IF Overflows(es) THEN TenTo[Len(es)] ELSE 0
           S == {es \in Digits : Natural(Carried(es)) + Lost(es) = Natural(es) + 1}
<1>1. \A es \in Digits : Len(Carried(es)) = Len(es)
  <2> SUFFICES ASSUME NEW es \in Digits PROVE Len(Carried(es)) = Len(es)
    OBVIOUS
  <2>1. Carried(es) \in Seq(0..9) /\ Len(es) \in Nat
    BY CarriedIs, LenProperties DEF Digits
  <2>2. DOMAIN Carried(es) = 1..Len(es)
    BY DEF Carried
  <2> QED BY <2>1, <2>2, LenProperties
<1>2. << >> \in S
  <2>1. << >> \in Digits /\ Len(<< >>) = 0
    BY EmptySeq DEF Digits
  <2>2. Nines(<< >>) = 0 /\ Overflows(<< >>)
    BY <2>1, NoneTrailing DEF Nines, Overflows
  <2>3. Carried(<< >>) = << >>
    <3>1. Carried(<< >>) \in Seq(0..9) /\ Len(Carried(<< >>)) = 0
      BY <1>1, <2>1, CarriedIs DEF Digits
    <3> QED BY <3>1, EmptySeq
  <2>4. Lost(<< >>) = 1
    BY <2>1, <2>2, TenToIs
  <2> QED BY <2>1, <2>3, <2>4, NaturalEmpty
<1>3. ASSUME NEW es \in Digits, NEW d \in 0..9, es \in S PROVE Append(es, d) \in S
  <2>1. PICK n \in Nat, c \in Nat, len \in Nat, power \in Nat :
          n = Natural(es) /\ c = Natural(Carried(es)) /\ len = Len(es) /\ power = TenTo[len]
    BY NaturalIsNat, CarriedIs, ConcatDigits, TenToIs
  <2>2. Append(es, d) \in Digits /\ Len(Append(es, d)) = len + 1
    BY <2>1, AppendProperties DEF Digits
  <2>3. Natural(Append(es, d)) = 10 * n + d /\ TenTo[len + 1] = 10 * power
    BY <2>1, NaturalAppend, TenToIs
  <2>4. c + (IF Overflows(es) THEN power ELSE 0) = n + 1
    BY <1>3, <2>1
  <2>5. CASE d = 9
    <3>1. PICK z \in 0..9 : z = 0
      OBVIOUS
    <3>2. Natural(Append(Carried(es), z)) = 10 * c + z
      BY <2>1, CarriedIs, NaturalAppend
    <3>3. Carried(Append(es, d)) = Append(Carried(es), z)
      BY <2>5, <3>1, CarriedLast
    <3>4. Natural(Carried(Append(es, d))) = 10 * c
      BY <3>1, <3>2, <3>3
    <3>5. Overflows(Append(es, d)) <=> Overflows(es)
      BY <2>5, CarriedLast
    <3>6. CASE Overflows(es)
      <4>1. Lost(Append(es, d)) = 10 * power
        BY <2>2, <2>3, <3>5, <3>6
      <4>2. 10 * c + 10 * power = (10 * n + d) + 1
        BY <2>4, <2>5, <3>6
      <4> QED BY <2>2, <2>3, <3>4, <4>1, <4>2
    <3>7. CASE ~ Overflows(es)
      <4>1. Lost(Append(es, d)) = 0
        BY <3>5, <3>7
      <4>2. 10 * c + 0 = (10 * n + d) + 1
        BY <2>4, <2>5, <3>7
      <4> QED BY <2>2, <2>3, <3>4, <4>1, <4>2
    <3> QED BY <3>6, <3>7
  <2>6. CASE d # 9
    <3>1. PICK z \in 0..9 : z = d + 1
      BY <2>6
    <3>2. Carried(Append(es, d)) = Append(es, z)
      BY <2>6, <3>1, CarriedLast
    <3>3. Natural(Append(es, z)) = 10 * n + z
      BY <2>1, NaturalAppend
    <3>4. Lost(Append(es, d)) = 0
      BY <2>6, CarriedLast
    <3>5. Natural(Carried(Append(es, d))) = 10 * n + z
      BY <3>2, <3>3
    <3>6. (10 * n + z) + 0 = (10 * n + d) + 1
      BY <3>1
    <3> QED BY <2>2, <2>3, <3>4, <3>5, <3>6
  <2> QED BY <2>5, <2>6
<1>4. ds \in S
  <2> HIDE DEF S
  <2> QED BY <1>2, <1>3, DigitsInduction
<1>5. Natural(CarriedInteger(ds)) = Natural(ds) + 1
  <2>1. PICK n \in Nat, c \in Nat, power \in Nat :
          n = Natural(ds) /\ c = Natural(Carried(ds)) /\ power = TenTo[Len(ds)]
    <3>1. Len(ds) \in Nat
      BY ConcatDigits
    <3> QED BY <3>1, NaturalIsNat, CarriedIs, TenToIs
  <2>2. CASE Overflows(ds)
    <3>1. PICK one \in 0..9 : one = 1
      OBVIOUS
    <3>2. <<one>> \in Digits /\ Natural(<<one>>) = 1
      <4>1. << >> \in Digits /\ Append(<< >>, one) = <<one>>
        BY EmptySeq DEF Digits
      <4>2. Natural(<<one>>) = 10 * 0 + one
        BY <4>1, NaturalAppend, NaturalEmpty
      <4>3. <<one>> \in Seq(0..9)
        OBVIOUS
      <4> QED BY <3>1, <4>2, <4>3 DEF Digits
    <3>3. Natural(<<one>> \o Carried(ds)) = Natural(<<one>>) * TenTo[Len(Carried(ds))] + Natural(Carried(ds))
      BY <3>2, CarriedIs, NaturalConcat
    <3>4. Natural(<<one>> \o Carried(ds)) = 1 * power + c
      BY <1>1, <2>1, <3>2, <3>3
    <3>5. CarriedInteger(ds) = <<one>> \o Carried(ds)
      BY <2>2, <3>1 DEF CarriedInteger
    <3>6. c + power = n + 1
      BY <1>4, <2>1, <2>2
    <3> QED BY <2>1, <3>4, <3>5, <3>6
  <2>3. CASE ~ Overflows(ds)
    BY <1>4, <2>1, <2>3 DEF CarriedInteger
  <2> QED BY <2>2, <2>3
<1> QED BY <1>1, <1>4, <1>5

-----------------------------------------------------------------------------
(* What the operators on texts make of their numbers: padding and widening  *)
(* keep them, moving the separator scales them, cutting digits off rounds   *)
(* them, and a mantissa and its exponent are the number.                    *)

\* The number of a text without its sign, in units of the last of so many places.
Amount(d, places) == Natural(d.int \o d.frac \o Zeros(places - Len(d.frac)))

LEMMA AmountIs ==
  ASSUME NEW d, IsDecimal(d), NEW places \in Nat, Len(d.frac) <= places
  PROVE  /\ places - Len(d.frac) \in Nat
         /\ Amount(d, places) \in Nat
         /\ Amount(d, places) = Natural(d.int \o d.frac) * TenTo[places - Len(d.frac)]
<1>1. PICK k \in Nat : k = places - Len(d.frac)
  <2>1. PICK len \in Nat : len = Len(d.frac)
    BY DecimalParts
  <2>2. places - len \in Nat
    BY <2>1
  <2> QED BY <2>1, <2>2
<1>2. PICK ds \in Digits, z \in Digits : ds = d.int \o d.frac /\ z = Zeros(k) /\ Len(z) = k
  BY DecimalParts, ZerosAre
<1>3. PICK n \in Nat, power \in Nat : n = Natural(ds) /\ power = TenTo[k]
  BY NaturalIsNat, TenToIs
<1>4. Natural(ds \o z) = n * power + 0
  BY <1>2, <1>3, NaturalConcat, NaturalOfZeros
<1>5. Amount(d, places) = Natural(ds \o z)
  BY <1>1, <1>2 DEF Amount
<1>6. n * power \in Nat
  OBVIOUS
<1> QED BY <1>1, <1>2, <1>3, <1>4, <1>5, <1>6

\* More places, finer units.
LEMMA AmountScales ==
  ASSUME NEW d, IsDecimal(d), NEW places \in Nat, Len(d.frac) <= places, NEW more \in Nat
  PROVE  Amount(d, places + more) = Amount(d, places) * TenTo[more]
<1>1. PICK k \in Nat : k = places - Len(d.frac)
  BY AmountIs
<1>2. PICK n \in Nat, a \in Nat, b \in Nat : n = Natural(d.int \o d.frac) /\ a = TenTo[k] /\ b = TenTo[more]
  BY DecimalParts, NaturalIsNat, TenToIs
<1>3. Len(d.frac) <= places + more /\ (places + more) - Len(d.frac) = k + more
  BY <1>1, DecimalParts
<1>4. TenTo[k + more] = a * b
  BY <1>2, TenToSum
<1>5. Amount(d, places) = n * a
  BY <1>1, <1>2, AmountIs
<1>6. Amount(d, places + more) = n * (a * b)
  <2>1. PICK finer \in Nat : finer = places + more
    OBVIOUS
  <2>2. Len(d.frac) <= finer /\ finer - Len(d.frac) = k + more
    BY <1>3, <2>1
  <2>3. Amount(d, finer) = Natural(d.int \o d.frac) * TenTo[finer - Len(d.frac)]
    BY <2>2, AmountIs
  <2> QED BY <1>2, <1>4, <2>1, <2>2, <2>3
<1>7. n * (a * b) = (n * a) * b
  OBVIOUS
<1> QED BY <1>2, <1>5, <1>6, <1>7

LEMMA Padding ==
  ASSUME NEW d, IsDecimal(d), NEW min \in Nat
  PROVE  /\ AtLeast(d, min).int = d.int /\ AtLeast(d, min).sign = d.sign
         /\ Len(AtLeast(d, min).frac) = IF min > Len(d.frac) THEN min ELSE Len(d.frac)
         /\ \A places \in Nat : places >= Len(AtLeast(d, min).frac) => Amount(AtLeast(d, min), places) = Amount(d, places)
<1>1. PICK len \in Nat : len = Len(d.frac)
  BY DecimalParts
<1>2. PICK k \in Nat : k = (IF min > len THEN min - len ELSE 0)
  <2>1. (IF min > len THEN min - len ELSE 0) \in Nat
    OBVIOUS
  <2> QED BY <2>1, Zenon
<1>3. PICK z \in Digits : z = Zeros(k) /\ Len(z) = k
  BY ZerosAre
<1>4. PICK frac \in Digits : frac = d.frac \o z /\ Len(frac) = len + k
  <2>1. PICK ds \in Digits : ds = d.frac
    BY DecimalParts
  <2>2. ds \o z \in Digits /\ Len(ds \o z) = Len(ds) + Len(z)
    BY ConcatDigits
  <2> QED BY <1>1, <1>3, <2>1, <2>2
<1>5. PICK e : e = AtLeast(d, min) /\ IsDecimal(e) /\ e.sign = d.sign /\ e.int = d.int /\ e.frac = frac
  <2>1. AtLeast(d, min) = [d EXCEPT !.frac = frac]
    BY <1>1, <1>2, <1>3, <1>4 DEF AtLeast
  <2>2. AtLeast(d, min) = Text(d.sign, d.int, frac)
    BY <2>1, WithFraction
  <2> QED BY <2>2, DecimalParts, TextIs
<1>6. Len(frac) = IF min > len THEN min ELSE len
  BY <1>2, <1>4
<1>7. ASSUME NEW places \in Nat, places >= Len(frac) PROVE Amount(e, places) = Amount(d, places)
  <2>1. PICK rest \in Nat : rest = places - (len + k)
    BY <1>4, <1>7
  <2>2. len <= places /\ Len(e.frac) <= places /\ places - len = k + rest
    BY <1>4, <1>5, <1>7, <2>1
  <2>3. PICK n \in Nat, a \in Nat, b \in Nat : n = Natural(d.int \o d.frac) /\ a = TenTo[k] /\ b = TenTo[rest]
    BY DecimalParts, NaturalIsNat, TenToIs
  <2>4. Natural(e.int \o e.frac) = n * a
    <3>1. e.int \o e.frac = (d.int \o d.frac) \o z
      <4>1. PICK x \in Seq(0..9), y \in Seq(0..9), w \in Seq(0..9) : x = d.int /\ y = d.frac /\ w = z
        BY DecimalParts DEF Digits
      <4>2. (x \o y) \o w = x \o (y \o w)
        BY ConcatAssociative
      <4> QED BY <1>4, <1>5, <4>1, <4>2
    <3>2. Natural((d.int \o d.frac) \o z) = n * a + 0
      BY <1>3, <2>3, DecimalParts, NaturalConcat, NaturalOfZeros
    <3>3. n * a + 0 = n * a
      OBVIOUS
    <3> QED BY <3>1, <3>2, <3>3
  <2>5. Amount(e, places) = (n * a) * b
    <3>1. places - Len(e.frac) = rest
      BY <1>4, <1>5, <2>1
    <3>2. Amount(e, places) = Natural(e.int \o e.frac) * TenTo[places - Len(e.frac)]
      BY <1>5, <2>2, AmountIs
    <3> QED BY <2>3, <2>4, <3>1, <3>2
  <2>6. Amount(d, places) = n * (a * b)
    <3>1. Len(d.frac) <= places /\ places - Len(d.frac) = k + rest
      BY <1>1, <2>2
    <3>2. Amount(d, places) = Natural(d.int \o d.frac) * TenTo[places - Len(d.frac)]
      BY <3>1, AmountIs
    <3>3. TenTo[k + rest] = a * b
      BY <2>3, TenToSum
    <3> QED BY <2>3, <3>1, <3>2, <3>3
  <2>7. (n * a) * b = n * (a * b)
    OBVIOUS
  <2> QED BY <2>5, <2>6, <2>7
<1> QED BY <1>1, <1>5, <1>6, <1>7

\* What stands before the separator and after the first max digits behind it.
LEMMA CutApart ==
  ASSUME NEW d, IsDecimal(d), NEW max \in Nat, Len(d.frac) > max
  PROVE  \E kept \in Digits, tail \in Digits :
           /\ kept = SubSeq(d.frac, 1, max) /\ Len(kept) = max
           /\ Len(tail) = Len(d.frac) - max /\ tail[1] = d.frac[max + 1] /\ tail # << >>
           /\ d.frac = kept \o tail
<1>1. PICK len \in Nat : len = Len(d.frac) /\ max < len /\ max <= len /\ len <= len
  BY DecimalParts
<1>2. PICK kept \in Digits : kept = SubSeq(d.frac, 1, max) /\ Len(kept) = max
  <2>1. IsSlice(SubSeq(d.frac, 1, max), d.frac, 0, max)
    BY <1>1, DecimalParts, PrefixIs
  <2>2. max - 0 = max
    OBVIOUS
  <2> QED BY <2>1, <2>2 DEF IsSlice
<1>3. PICK tail \in Digits : tail = SubSeq(d.frac, max + 1, len) /\ Len(tail) = len - max
                             /\ \A i \in 1..len - max : tail[i] = d.frac[max + i]
  <2>1. IsSlice(SubSeq(d.frac, max + 1, len), d.frac, max, len)
    BY <1>1, DecimalParts, SliceIs
  <2> QED BY <2>1 DEF IsSlice
<1>4. kept \o tail = d.frac
  <2>1. PICK one \in Int : one = 1
    OBVIOUS
  <2>2. one \in 1..len + 1 /\ max \in one - 1..len /\ len \in max..len
    BY <1>1, <2>1
  <2>3. SubSeq(d.frac, one, max) \o SubSeq(d.frac, max + 1, len) = SubSeq(d.frac, one, len)
    BY <1>1, <2>2, DecimalParts, ConcatAdjacentSubSeq DEF Digits
  <2>4. SubSeq(d.frac, 1, len) = d.frac
    BY <1>1, DecimalParts, SubSeqFull DEF Digits
  <2> QED BY <1>2, <1>3, <2>1, <2>3, <2>4
<1>5. tail[1] = d.frac[max + 1] /\ tail # << >>
  <2>1. 1 \in 1..len - max /\ len - max # 0
    BY <1>1
  <2> QED BY <1>3, <2>1, EmptySeq
<1> QED BY <1>1, <1>2, <1>3, <1>4, <1>5

\* Half away from zero: rounding on the digits is rounding.
LEMMA RoundingIs ==
  ASSUME NEW d, IsDecimal(d), NEW max \in Nat, Len(d.frac) > max
  PROVE  LET r == RoundText(d, max)
             step == TenTo[Len(d.frac) - max]
             gain == 2 * (Amount(r, Len(d.frac)) - Amount(d, Len(d.frac)))
         IN  r.sign = d.sign /\ Len(r.frac) = max /\ -step < gain /\ gain <= step
<1>1. PICK len \in Nat : len = Len(d.frac) /\ max < len
  BY DecimalParts
<1>2. PICK kept \in Digits, tail \in Digits :
        /\ kept = SubSeq(d.frac, 1, max) /\ Len(kept) = max
        /\ Len(tail) = len - max /\ tail[1] = d.frac[max + 1] /\ tail # << >>
        /\ d.frac = kept \o tail
  BY <1>1, CutApart
<1>3. PICK cut \in Nat : cut = len - max /\ cut - 1 \in Nat /\ (cut - 1) + 1 = cut
  BY <1>1
<1>4. PICK power \in Nat \ {0}, tenth \in Nat : power = TenTo[cut] /\ tenth = TenTo[cut - 1] /\ power = 10 * tenth
  BY <1>3, TenToIs
<1>5. PICK i \in Nat, k \in Nat, t \in Nat, unit \in Nat :
        i = Natural(d.int) /\ k = Natural(kept) /\ t = Natural(tail) /\ unit = TenTo[max]
  BY DecimalParts, NaturalIsNat, TenToIs
<1>6. PICK h \in 0..9 : h = tail[1] /\ h * tenth <= t /\ t < (h + 1) * tenth
  BY <1>2, <1>3, <1>4, <1>5, NaturalBetween
<1>7. RoundsUp(d.frac, max) <=> h >= 5
  BY <1>2, <1>6 DEF RoundsUp
<1>8. PICK w \in Nat : w = i * unit + k /\ Amount(d, len) = w * power + t
  <2>1. i * unit + k \in Nat
    OBVIOUS
  <2>2. Natural(d.int \o kept) = i * unit + k
    BY <1>2, <1>5, DecimalParts, NaturalConcat
  <2>3. d.int \o d.frac = (d.int \o kept) \o tail
    <3>1. PICK x \in Seq(0..9), y \in Seq(0..9), z \in Seq(0..9) : x = d.int /\ y = kept /\ z = tail
      BY DecimalParts DEF Digits
    <3>2. (x \o y) \o z = x \o (y \o z)
      BY ConcatAssociative
    <3> QED BY <1>2, <3>1, <3>2
  <2>4. Natural((d.int \o kept) \o tail) = (i * unit + k) * power + t
    <3>1. d.int \o kept \in Digits
      BY DecimalParts, ConcatDigits
    <3> QED BY <1>2, <1>3, <1>4, <1>5, <2>2, <3>1, NaturalConcat
  <2>5. Amount(d, len) = Natural(d.int \o d.frac) * 1
    <3>1. Len(d.frac) <= len /\ len - Len(d.frac) = 0
      BY <1>1
    <3>2. Amount(d, len) = Natural(d.int \o d.frac) * TenTo[len - Len(d.frac)]
      BY <3>1, AmountIs
    <3> QED BY <3>1, <3>2, TenToIs
  <2>6. Natural(d.int \o d.frac) \in Nat
    BY DecimalParts, NaturalIsNat
  <2> QED BY <2>1, <2>3, <2>4, <2>5, <2>6
<1>9. PICK r : r = RoundText(d, max)
  OBVIOUS
<1>10. PICK int \in Digits, frac \in Digits :
         /\ r = Text(d.sign, int, frac) /\ Len(frac) = max
         /\ Natural(int) * unit + Natural(frac) = IF h >= 5 THEN w + 1 ELSE w
  <2>1. ~ (Len(d.frac) <= max)
    BY <1>1
  <2>2. CASE h >= 5
    <3>1. r = Text(d.sign, IF Overflows(kept) THEN CarriedInteger(d.int) ELSE d.int, Carried(kept))
      BY <1>2, <1>7, <1>9, <2>1, <2>2 DEF RoundText
    <3>2. PICK c \in Nat : c = Natural(Carried(kept)) /\ c + (IF Overflows(kept) THEN unit ELSE 0) = k + 1
      BY <1>2, <1>5, CarriedIs, CarriedAddsOne, NaturalIsNat
    <3>3. Carried(kept) \in Digits /\ Len(Carried(kept)) = max
      BY <1>2, CarriedIs, CarriedAddsOne
    <3>4. CASE Overflows(kept)
      <4>1. CarriedInteger(d.int) \in Digits /\ Natural(CarriedInteger(d.int)) = i + 1
        BY <1>5, DecimalParts, CarriedIs, CarriedAddsOne
      <4>2. (i + 1) * unit + c = (i * unit + k) + 1
        BY <3>2, <3>4
      <4>3. r = Text(d.sign, CarriedInteger(d.int), Carried(kept))
        BY <3>1, <3>4
      <4> QED BY <1>8, <2>2, <3>2, <3>3, <4>1, <4>2, <4>3
    <3>5. CASE ~ Overflows(kept)
      <4>1. i * unit + c = (i * unit + k) + 1
        BY <3>2, <3>5
      <4>2. r = Text(d.sign, d.int, Carried(kept)) /\ d.int \in Digits
        BY <3>1, <3>5, DecimalParts
      <4> QED BY <1>5, <1>8, <2>2, <3>2, <3>3, <4>1, <4>2
    <3> QED BY <3>4, <3>5
  <2>3. CASE ~ (h >= 5)
    <3>1. r = Text(d.sign, d.int, kept)
      BY <1>2, <1>7, <1>9, <2>1, <2>3 DEF RoundText
    <3> QED BY <1>2, <1>5, <1>8, <2>3, <3>1, DecimalParts
  <2> QED BY <2>2, <2>3
<1>11. IsDecimal(r) /\ r.sign = d.sign /\ r.int = int /\ r.frac = frac
  BY <1>10, TextIs
<1>12. Amount(r, len) = (IF h >= 5 THEN w + 1 ELSE w) * power
  <2>1. Natural(int \o frac) = Natural(int) * unit + Natural(frac)
    BY <1>5, <1>10, NaturalConcat
  <2>2. Len(r.frac) <= len /\ len - Len(r.frac) = cut
    BY <1>1, <1>3, <1>10, <1>11
  <2>3. Amount(r, len) = Natural(r.int \o r.frac) * TenTo[len - Len(r.frac)]
    BY <1>11, <2>2, AmountIs
  <2>4. Natural(r.int \o r.frac) = IF h >= 5 THEN w + 1 ELSE w
    BY <1>10, <1>11, <2>1
  <2> QED BY <1>4, <2>2, <2>3, <2>4
<1>13. PICK gain \in Int : gain = 2 * (Amount(r, len) - Amount(d, len)) /\ gain = IF h >= 5 THEN 2 * power - 2 * t ELSE -(2 * t)
  <2>1. CASE h >= 5
    <3>1. Amount(r, len) = (w + 1) * power
      BY <1>12, <2>1
    <3>2. 2 * ((w + 1) * power - (w * power + t)) = 2 * power - 2 * t
      OBVIOUS
    <3> QED BY <1>8, <2>1, <3>1, <3>2
  <2>2. CASE ~ (h >= 5)
    <3>1. Amount(r, len) = w * power
      BY <1>12, <2>2
    <3>2. 2 * (w * power - (w * power + t)) = -(2 * t)
      OBVIOUS
    <3> QED BY <1>8, <2>2, <3>1, <3>2
  <2> QED BY <2>1, <2>2
<1>14. -power < gain /\ gain <= power
  <2>1. tenth > 0
    BY <1>4
  <2>2. CASE h >= 5
    <3>1. 5 * tenth <= h * tenth
      BY <2>1, <2>2
    <3>2. (h + 1) * tenth <= 10 * tenth
      BY <2>1
    <3>3. 5 * tenth <= t /\ t < 10 * tenth
      <4>1. PICK low \in Int, high \in Int : low = h * tenth /\ high = (h + 1) * tenth
        OBVIOUS
      <4> QED BY <1>6, <3>1, <3>2, <4>1
    <3>4. power = 10 * tenth
      BY <1>4
    <3>5. gain = 2 * power - 2 * t
      BY <1>13, <2>2
    <3> QED BY <2>1, <3>3, <3>4, <3>5
  <2>3. CASE ~ (h >= 5)
    <3>1. (h + 1) * tenth <= 5 * tenth
      BY <2>1, <2>3
    <3>2. t < 5 * tenth
      <4>1. PICK high \in Int : high = (h + 1) * tenth
        OBVIOUS
      <4> QED BY <1>6, <3>1, <4>1
    <3>3. gain = -(2 * t)
      BY <1>13, <2>3
    <3> QED BY <1>4, <3>2, <3>3
  <2> QED BY <2>2, <2>3
<1> QED BY <1>1, <1>3, <1>4, <1>9, <1>10, <1>11, <1>13, <1>14

\* Digits split anywhere.
LEMMA AmountSplits ==
  ASSUME NEW sign, NEW int \in Digits, NEW frac \in Digits, NEW places \in Nat, Len(frac) <= places
  PROVE  Amount(Text(sign, int, frac), places) = Natural(int) * TenTo[places] + Natural(frac) * TenTo[places - Len(frac)]
<1>1. PICK d : d = Text(sign, int, frac) /\ IsDecimal(d) /\ d.int = int /\ d.frac = frac
  BY TextIs
<1>2. PICK len \in Nat, k \in Nat : len = Len(frac) /\ k = places - Len(frac) /\ places = len + k
  BY ConcatDigits
<1>3. PICK i \in Nat, f \in Nat, a \in Nat, b \in Nat :
        i = Natural(int) /\ f = Natural(frac) /\ a = TenTo[len] /\ b = TenTo[k]
  BY NaturalIsNat, TenToIs
<1>4. TenTo[places] = a * b
  BY <1>2, <1>3, TenToSum
<1>5. Natural(int \o frac) = i * a + f
  BY <1>2, <1>3, NaturalConcat
<1>6. Amount(d, places) = (i * a + f) * b
  <2>1. Len(d.frac) <= places /\ places - Len(d.frac) = k /\ d.int \o d.frac = int \o frac
    BY <1>1, <1>2
  <2>2. Amount(d, places) = Natural(d.int \o d.frac) * TenTo[places - Len(d.frac)]
    BY <1>1, <2>1, AmountIs
  <2> QED BY <1>3, <1>5, <2>1, <2>2
<1>7. (i * a + f) * b = i * (a * b) + f * b
  OBVIOUS
<1> QED BY <1>1, <1>2, <1>3, <1>4, <1>6, <1>7

\* Zeros at the end of a fraction count for nothing.
LEMMA TrimmedFraction ==
  ASSUME NEW frac \in Digits, NEW places \in Nat, Len(frac) <= places
  PROVE  /\ WithoutTrailing(frac) \in Digits /\ Len(WithoutTrailing(frac)) <= Len(frac)
         /\ Natural(WithoutTrailing(frac)) * TenTo[places - Len(WithoutTrailing(frac))]
              = Natural(frac) * TenTo[places - Len(frac)]
<1>1. PICK kept \in Digits : /\ kept = WithoutTrailing(frac) /\ Len(kept) <= Len(frac)
                             /\ kept \o Zeros(Len(frac) - Len(kept)) = frac
  BY WithoutTrailingIs
<1>2. PICK len \in Nat, size \in Nat, k \in Nat, rest \in Nat :
        /\ len = Len(frac) /\ size = Len(kept) /\ k = Len(frac) - Len(kept) /\ rest = places - Len(frac)
        /\ places - size = k + rest
  <2>1. PICK len \in Nat, size \in Nat : len = Len(frac) /\ size = Len(kept) /\ size <= len /\ len <= places
    BY <1>1, ConcatDigits
  <2>2. PICK k \in Nat, rest \in Nat : k = len - size /\ rest = places - len /\ places - size = k + rest
    BY <2>1
  <2> QED BY <2>1, <2>2
<1>3. PICK n \in Nat, a \in Nat, b \in Nat : n = Natural(kept) /\ a = TenTo[k] /\ b = TenTo[rest]
  BY NaturalIsNat, TenToIs
<1>4. PICK z \in Digits : z = Zeros(k) /\ Len(z) = k
  BY ZerosAre
<1>5. Natural(frac) = n * a + 0
  <2>1. Natural(kept \o z) = n * a + 0
    BY <1>3, <1>4, NaturalConcat, NaturalOfZeros
  <2> QED BY <1>1, <1>2, <1>4, <2>1
<1>6. TenTo[k + rest] = a * b
  BY <1>3, TenToSum
<1>7. n * (a * b) = (n * a + 0) * b
  OBVIOUS
<1> QED BY <1>1, <1>2, <1>3, <1>5, <1>6, <1>7

\* Zeros before a number count for nothing.
LEMMA Widening ==
  ASSUME NEW d, IsDecimal(d), NEW min \in Nat \cup {None}
  PROVE  /\ IsDecimal(Widened(d, min)) /\ Widened(d, min).frac = d.frac
         /\ min # None => Len(Widened(d, min).int) >= min
         /\ \A places \in Nat : places >= Len(d.frac) => Amount(Widened(d, min), places) = Amount(d, places)
<1>1. CASE min = None \/ Len(d.int) >= min
  BY <1>1 DEF Widened
<1>2. CASE ~ (min = None \/ Len(d.int) >= min)
  <2>1. PICK len \in Nat, k \in Nat : len = Len(d.int) /\ k = min - Len(d.int) /\ k + len = min
    <3>1. PICK len \in Nat, least \in Nat : len = Len(d.int) /\ least = min /\ ~ (len >= least)
      BY <1>2, DecimalParts
    <3>2. PICK k \in Nat : k = least - len /\ k + len = least
      BY <3>1
    <3> QED BY <3>1, <3>2
  <2>2. PICK z \in Digits : z = Zeros(k) /\ Len(z) = k
    BY ZerosAre
  <2>3. PICK ds \in Digits, frac \in Digits : ds = d.int /\ frac = d.frac
    BY DecimalParts
  <2>4. PICK int \in Digits : int = z \o ds /\ Len(int) = min /\ Natural(int) = Natural(ds)
    <3>1. Natural(Zeros(k) \o ds) = Natural(ds)
      BY NaturalLeading
    <3>2. z \o ds \in Digits /\ Len(z \o ds) = Len(z) + Len(ds)
      BY ConcatDigits
    <3> QED BY <2>1, <2>2, <2>3, <3>1, <3>2
  <2>5. Widened(d, min) = Text(d.sign, int, frac)
    <3>1. Widened(d, min) = [d EXCEPT !.int = int]
      BY <1>2, <2>1, <2>2, <2>3, <2>4 DEF Widened
    <3> QED BY <2>3, <3>1, WithInteger
  <2>6. d = Text(d.sign, ds, frac)
    BY <2>3 DEF IsDecimal
  <2>7. ASSUME NEW places \in Nat, places >= Len(d.frac) PROVE Amount(Widened(d, min), places) = Amount(d, places)
    <3>1. Len(frac) <= places
      BY <2>3, <2>7, DecimalParts
    <3>2. Amount(Text(d.sign, int, frac), places) = Natural(int) * TenTo[places] + Natural(frac) * TenTo[places - Len(frac)]
      BY <3>1, AmountSplits
    <3>3. Amount(Text(d.sign, ds, frac), places) = Natural(ds) * TenTo[places] + Natural(frac) * TenTo[places - Len(frac)]
      BY <3>1, AmountSplits
    <3> QED BY <2>4, <2>5, <2>6, <3>2, <3>3
  <2>8. IsDecimal(Widened(d, min)) /\ Widened(d, min).int = int /\ Widened(d, min).frac = frac
    BY <2>5, TextIs
  <2> QED BY <2>3, <2>4, <2>7, <2>8, DecimalParts
<1> QED BY <1>1, <1>2

\* What is before and after a place, as numbers.
LEMMA NaturalCut ==
  ASSUME NEW ds \in Digits, NEW cut \in Nat, cut <= Len(ds)
  PROVE  /\ SubSeq(ds, 1, cut) \in Digits /\ Len(SubSeq(ds, 1, cut)) = cut
         /\ SubSeq(ds, cut + 1, Len(ds)) \in Digits /\ Len(SubSeq(ds, cut + 1, Len(ds))) = Len(ds) - cut
         /\ Natural(ds) = Natural(SubSeq(ds, 1, cut)) * TenTo[Len(ds) - cut] + Natural(SubSeq(ds, cut + 1, Len(ds)))
<1>1. PICK size \in Nat : size = Len(ds) /\ cut <= size /\ size <= Len(ds)
  BY ConcatDigits
<1>2. PICK a \in Digits : a = SubSeq(ds, 1, cut) /\ Len(a) = cut
  <2>1. SubSeq(ds, 1, cut) \in Digits /\ Len(SubSeq(ds, 1, cut)) = cut - 0
    BY PrefixIs DEF IsSlice
  <2>2. cut - 0 = cut
    OBVIOUS
  <2> QED BY <2>1, <2>2
<1>3. PICK b \in Digits : b = SubSeq(ds, cut + 1, size) /\ Len(b) = size - cut
  BY <1>1, SliceIs DEF IsSlice
<1>4. a \o b = ds
  <2>1. PICK one \in Int : one = 1
    OBVIOUS
  <2>2. one \in 1..size + 1 /\ cut \in one - 1..size /\ size \in cut..size
    BY <1>1, <2>1
  <2>3. SubSeq(ds, one, cut) \o SubSeq(ds, cut + 1, size) = SubSeq(ds, one, size)
    BY <1>1, <2>2, ConcatAdjacentSubSeq DEF Digits
  <2>4. SubSeq(ds, 1, size) = ds
    BY <1>1, SubSeqFull DEF Digits
  <2> QED BY <1>2, <1>3, <2>1, <2>3, <2>4
<1>5. Natural(ds) = Natural(a) * TenTo[Len(b)] + Natural(b)
  BY <1>4, NaturalConcat
<1> QED BY <1>1, <1>2, <1>3, <1>5

\* Moving the separator two places to the right multiplies by a hundred.
LEMMA HundredTimes ==
  ASSUME NEW d, IsDecimal(d)
  PROVE  /\ Len(TimesHundred(d).frac) <= Len(d.frac)
         /\ \A places \in Nat : places >= Len(d.frac) => Amount(TimesHundred(d), places) = 100 * Amount(d, places)
<1>1. PICK digits \in Digits : digits = d.int \o d.frac /\ Len(digits) = Len(d.int) + Len(d.frac)
  BY DecimalParts
<1>2. PICK whole0 \in Nat, len \in Nat : whole0 = Len(d.int) /\ len = Len(d.frac)
  BY DecimalParts
<1>3. PICK size \in Nat, point \in Nat : size = Len(digits) /\ size = whole0 + len /\ point = Len(d.int) + 2 /\ point = whole0 + 2
  <2>1. whole0 + len \in Nat /\ whole0 + 2 \in Nat
    OBVIOUS
  <2> QED BY <1>1, <1>2, <2>1
<1>4. PICK k \in Nat, left \in Nat, whole \in Digits, slice \in Digits :
        /\ whole = (IF point >= size THEN digits \o Zeros(point - size) ELSE SubSeq(digits, 1, point))
        /\ slice = SubSeq(digits, point + 1, size)
        /\ Len(slice) = left /\ left + 2 = len + k /\ left <= len
        /\ Natural(whole) * TenTo[left] + Natural(slice) = Natural(digits) * TenTo[k]
  <2>1. CASE point >= size
    <3>1. PICK k \in Nat : k = point - size /\ len + k = 2
      BY <1>3, <2>1
    <3>2. PICK z \in Digits : z = Zeros(k) /\ Len(z) = k
      BY ZerosAre
    <3>3. PICK whole \in Digits : whole = digits \o z
      BY ConcatDigits
    <3>4. SubSeq(digits, point + 1, size) = << >>
      <4>1. point + 1 \in Int /\ size < point + 1
        BY <2>1
      <4> QED BY <4>1, SubSeqEmpty
    <3>5. PICK slice \in Digits : slice = << >> /\ Len(slice) = 0 /\ Natural(slice) = 0
      BY EmptySeq, NaturalEmpty DEF Digits
    <3>6. PICK n \in Nat, a \in Nat : n = Natural(digits) /\ a = TenTo[k]
      BY NaturalIsNat, TenToIs
    <3>7. Natural(whole) = n * a + 0
      BY <3>2, <3>3, <3>6, NaturalConcat, NaturalOfZeros
    <3>8. PICK left \in Nat : left = 0 /\ TenTo[left] = 1
      BY TenToIs
    <3>9. (n * a + 0) * 1 + 0 = n * a
      OBVIOUS
    <3>10. Natural(whole) * TenTo[left] + Natural(slice) = Natural(digits) * TenTo[k]
      BY <3>5, <3>6, <3>7, <3>8, <3>9
    <3>11. Len(slice) = left /\ left + 2 = len + k /\ left <= len
      BY <3>1, <3>5, <3>8
    <3>12. whole = IF point >= size THEN digits \o Zeros(point - size) ELSE SubSeq(digits, 1, point)
      BY <2>1, <3>1, <3>2, <3>3
    <3>13. slice = SubSeq(digits, point + 1, size)
      BY <3>4, <3>5
    <3> QED BY <3>10, <3>11, <3>12, <3>13
  <2>2. CASE ~ (point >= size)
    <3>1. PICK left \in Nat : left = size - point /\ left + 2 = len /\ point <= size /\ size <= Len(digits) /\ point <= Len(digits)
      <4>1. size - point \in Nat /\ point <= size
        BY <2>2
      <4>2. (size - point) + 2 = len
        BY <1>3
      <4>3. size <= Len(digits) /\ point <= Len(digits)
        BY <1>3, <4>1
      <4> QED BY <4>1, <4>2, <4>3, Zenon
    <3>2. /\ SubSeq(digits, 1, point) \in Digits
          /\ SubSeq(digits, point + 1, Len(digits)) \in Digits
          /\ Len(SubSeq(digits, point + 1, Len(digits))) = Len(digits) - point
          /\ Natural(digits) = Natural(SubSeq(digits, 1, point)) * TenTo[Len(digits) - point]
                               + Natural(SubSeq(digits, point + 1, Len(digits)))
      BY <3>1, NaturalCut
    <3>3. PICK whole \in Digits : whole = SubSeq(digits, 1, point)
      BY <3>2
    <3>4. PICK slice \in Digits : slice = SubSeq(digits, point + 1, size) /\ Len(slice) = left
      BY <1>3, <3>1, <3>2
    <3>5. Natural(digits) = Natural(whole) * TenTo[left] + Natural(slice)
      BY <1>3, <3>1, <3>2, <3>3, <3>4
    <3>6. PICK k \in Nat : k = 0 /\ TenTo[k] = 1
      BY TenToIs
    <3>7. Natural(digits) * 1 = Natural(digits)
      BY NaturalIsNat
    <3>8. left + 2 = len + k /\ left <= len
      BY <3>1, <3>6
    <3> QED BY <2>2, <3>3, <3>4, <3>5, <3>6, <3>7, <3>8
  <2> QED BY <2>1, <2>2
<1>5. PICK sign : sign = TimesHundred(d).sign
  OBVIOUS
<1>6. PICK int \in Digits, rest \in Digits :
        /\ int = Canonical(whole) /\ Natural(int) = Natural(whole)
        /\ rest = WithoutTrailing(slice) /\ Len(rest) <= left
        /\ TimesHundred(d) = Text(sign, int, rest)
  <2>1. PICK int \in Digits : int = Canonical(whole) /\ Natural(int) = Natural(whole)
    BY CanonicalIs
  <2>2. PICK rest \in Digits : rest = WithoutTrailing(slice) /\ Len(rest) <= left
    BY <1>4, WithoutTrailingIs
  <2>3. TimesHundred(d) = Text(IF d.sign = "-" /\ ~ IsZero(Text("", whole, rest)) THEN "-" ELSE "", Canonical(whole), rest)
    BY <1>1, <1>3, <1>4, <2>2 DEF TimesHundred
  <2>4. TimesHundred(d) = Text(sign, int, rest)
    <3>1. \A x : Text(x, int, rest).sign = x
      BY DEF Text
    <3> QED BY <1>5, <2>1, <2>2, <2>3, <3>1
  <2> QED BY <2>1, <2>2, <2>4
<1>7. Len(TimesHundred(d).frac) <= len
  <2>1. TimesHundred(d).frac = rest
    BY <1>6, TextIs
  <2>2. Len(rest) \in Nat
    BY ConcatDigits
  <2> QED BY <1>4, <1>6, <2>1, <2>2
<1>8. ASSUME NEW places \in Nat, places >= len PROVE Amount(TimesHundred(d), places) = 100 * Amount(d, places)
  <2>1. PICK q \in Nat, p \in Nat : q = places - len /\ p = places - left /\ k + p = q + 2 /\ left + p = places
    BY <1>4, <1>8
  <2>2. PICK n \in Nat, w \in Nat, s \in Nat, a \in Nat, b \in Nat, c \in Nat, e \in Nat :
          /\ n = Natural(digits) /\ w = Natural(whole) /\ s = Natural(slice)
          /\ a = TenTo[k] /\ b = TenTo[p] /\ c = TenTo[q] /\ e = TenTo[left]
    BY NaturalIsNat, TenToIs
  <2>3. a * b = 100 * c
    <3>1. TenTo[k + p] = a * b
      BY <2>2, TenToSum
    <3>2. TenTo[q + 1] = 10 * c /\ TenTo[(q + 1) + 1] = 10 * (10 * c)
      BY <2>2, TenToIs
    <3>3. (q + 1) + 1 = q + 2
      OBVIOUS
    <3> QED BY <2>1, <3>1, <3>2, <3>3
  <2>4. TenTo[places] = e * b
    BY <2>1, <2>2, TenToSum
  <2>5. Len(slice) <= places /\ Len(rest) <= places
    <3>1. Len(rest) \in Nat
      BY ConcatDigits
    <3> QED BY <1>4, <1>6, <1>8, <3>1
  <2>6. Natural(rest) * TenTo[places - Len(rest)] = s * b
    <3>1. places - Len(slice) = p
      BY <1>4, <2>1
    <3> QED BY <1>6, <2>2, <2>5, <3>1, TrimmedFraction
  <2>7. Amount(TimesHundred(d), places) = w * (e * b) + s * b
    <3>1. Amount(Text(sign, int, rest), places) = Natural(int) * TenTo[places] + Natural(rest) * TenTo[places - Len(rest)]
      BY <2>5, AmountSplits
    <3> QED BY <1>6, <2>2, <2>4, <2>6, <3>1
  <2>8. Amount(d, places) = n * c
    <3>1. Len(d.frac) <= places /\ places - Len(d.frac) = q
      BY <1>2, <1>8, <2>1
    <3>2. Amount(d, places) = Natural(d.int \o d.frac) * TenTo[places - Len(d.frac)]
      BY <3>1, AmountIs
    <3> QED BY <1>1, <2>2, <3>1, <3>2
  <2>9. w * e + s = n * a
    BY <1>4, <2>2
  <2>10. w * (e * b) + s * b = (w * e + s) * b
    OBVIOUS
  <2>11. (n * a) * b = n * (a * b) /\ n * (100 * c) = 100 * (n * c)
    OBVIOUS
  <2> QED BY <2>3, <2>7, <2>8, <2>9, <2>10, <2>11
<1> QED BY <1>2, <1>7, <1>8

LEMMA AtMostIs ==
  ASSUME NEW d, IsDecimal(d), NEW max \in Nat \cup {None}
  PROVE  IsDecimal(AtMost(d, max))
BY RoundTextIs DEF AtMost

\* The padding and the rounding that the options ask for.
FittedWithin(r, e, min, max, places) ==
  /\ IF max # None /\ max < places
     THEN LET gain == 2 * (Amount(r, places) - Amount(e, places))
          IN  -TenTo[places - max] < gain /\ gain <= TenTo[places - max]
     ELSE Amount(r, places) = Amount(e, places)
  /\ max # None => Len(r.frac) <= max
  /\ min # None => Len(r.frac) >= min

LEMMA FittedIs ==
  ASSUME NEW e, IsDecimal(e), NEW min \in Nat \cup {None}, NEW max \in Nat \cup {None},
         min # None /\ max # None => min <= max
  PROVE  LET r == AtMost(AtLeast(e, IF min = None THEN 0 ELSE min), max)
         IN  /\ IsDecimal(r)
             /\ \A places \in Nat : (places >= Len(e.frac) /\ places >= Len(r.frac))
                                    => FittedWithin(r, e, min, max, places)
<1>1. PICK least \in Nat : least = (IF min = None THEN 0 ELSE min) /\ (min # None => least = min)
  OBVIOUS
<1>2. PICK len \in Nat : len = Len(e.frac)
  BY DecimalParts
<1>3. PICK p : /\ p = AtLeast(e, least) /\ IsDecimal(p)
               /\ Len(p.frac) = (IF least > len THEN least ELSE len)
               /\ \A places \in Nat : places >= Len(p.frac) => Amount(p, places) = Amount(e, places)
  BY <1>2, AtLeastIs, Padding
<1>4. PICK r : r = AtMost(p, max) /\ IsDecimal(r)
  BY <1>3, AtMostIs
<1>5. PICK size \in Nat : size = Len(p.frac)
  BY <1>3, DecimalParts
<1>6. ASSUME NEW places \in Nat, places >= len, places >= Len(r.frac) PROVE FittedWithin(r, e, min, max, places)
  <2>1. CASE max = None \/ size <= max
    <3>1. r = p
      BY <1>4, <1>5, <2>1 DEF AtMost, RoundText
    <3>2. Amount(r, places) = Amount(e, places)
      BY <1>3, <1>6, <3>1
    <3>3. max # None => Len(r.frac) <= max
      BY <1>5, <2>1, <3>1
    <3>4. min # None => Len(r.frac) >= min
      BY <1>1, <1>3, <3>1
    <3>5. CASE max # None /\ max < places
      <4>1. PICK k \in Nat : k = places - max
        BY <3>5
      <4>2. PICK step \in Nat \ {0}, a \in Nat : step = TenTo[k] /\ a = Amount(e, places)
        BY <1>2, <1>6, TenToIs, AmountIs
      <4>3. -step < 2 * (a - a) /\ 2 * (a - a) <= step
        OBVIOUS
      <4> QED BY <3>2, <3>3, <3>4, <4>1, <4>2, <4>3 DEF FittedWithin
    <3> QED BY <3>2, <3>3, <3>4, <3>5 DEF FittedWithin
  <2>2. CASE ~ (max = None \/ size <= max)
    <3>1. PICK most \in Nat : most = max /\ max # None /\ size > most
      BY <1>5, <2>2
    <3>2. size = len /\ len > most /\ most < places
      <4>1. least > len => least <= most
        BY <1>1, <3>1
      <4> QED BY <1>3, <1>5, <1>6, <3>1, <4>1
    <3>3. r = RoundText(p, most)
      BY <1>4, <3>1 DEF AtMost
    <3>4. PICK k \in Nat, more \in Nat : k = len - most /\ more = places - len /\ places - most = k + more /\ len + more = places
      BY <1>6, <3>2
    <3>5. PICK step \in Nat, a \in Nat, f \in Nat : step = TenTo[k] /\ a = TenTo[more] /\ a > 0 /\ f = Amount(e, len)
      <4>1. Len(e.frac) <= len
        BY <1>2
      <4>2. Amount(e, len) \in Nat
        BY <4>1, AmountIs
      <4>3. TenTo[k] \in Nat /\ TenTo[more] \in Nat /\ TenTo[more] > 0
        BY TenToIs
      <4> QED BY <4>2, <4>3
    <3>6. Len(r.frac) = most
      BY <1>3, <1>5, <3>1, <3>3, RoundingIs
    <3>7. PICK b \in Nat : b = Amount(r, len)
      <4>1. Len(r.frac) <= len
        BY <3>2, <3>6
      <4> QED BY <1>4, <4>1, AmountIs
    <3>8. -step < 2 * (b - f) /\ 2 * (b - f) <= step
      <4>1. Amount(p, len) = f
        BY <1>3, <1>5, <3>2, <3>5
      <4>2. Len(p.frac) > most /\ Len(p.frac) = len
        BY <1>5, <3>1, <3>2
      <4>3. /\ -TenTo[len - most] < 2 * (Amount(r, len) - Amount(p, len))
            /\ 2 * (Amount(r, len) - Amount(p, len)) <= TenTo[len - most]
        BY <1>3, <3>3, <4>2, RoundingIs
      <4> QED BY <3>4, <3>5, <3>7, <4>1, <4>3
    <3>9. Amount(r, places) = b * a /\ Amount(e, places) = f * a
      <4>1. Len(r.frac) <= len /\ Len(e.frac) <= len
        BY <1>2, <3>2, <3>6
      <4>2. Amount(r, len + more) = Amount(r, len) * TenTo[more] /\ Amount(e, len + more) = Amount(e, len) * TenTo[more]
        BY <1>4, <4>1, AmountScales
      <4> QED BY <3>4, <3>5, <3>7, <4>2
    <3>10. TenTo[places - most] = step * a
      BY <3>4, <3>5, TenToSum
    <3>11. -(step * a) < 2 * (b * a - f * a) /\ 2 * (b * a - f * a) <= step * a
      <4>1. PICK gain \in Int : gain = 2 * (b - f) /\ -step < gain /\ gain <= step
        BY <3>8
      <4>2. 2 * (b * a - f * a) = gain * a
        BY <4>1
      <4>3. -(step * a) < gain * a /\ gain * a <= step * a
        BY <3>5, <4>1
      <4> QED BY <4>2, <4>3
    <3>12. min # None => Len(r.frac) >= min
      BY <3>1, <3>6
    <3> QED BY <3>1, <3>2, <3>6, <3>9, <3>10, <3>11, <3>12 DEF FittedWithin
  <2> QED BY <2>1, <2>2
<1> QED BY <1>1, <1>2, <1>3, <1>4, <1>6

\* A factor that is not zero cancels.
LEMMA Cancels ==
  ASSUME NEW a \in Nat, NEW b \in Nat, NEW c \in Nat, c > 0, a * c = b * c
  PROVE  a = b
<1>1. ASSUME a < b PROVE FALSE
  <2>1. PICK k \in Nat : b = a + k /\ k > 0
    BY <1>1
  <2>2. b * c = a * c + k * c /\ k * c > 0
    BY <2>1
  <2> QED BY <2>2
<1>2. ASSUME b < a PROVE FALSE
  <2>1. PICK k \in Nat : a = b + k /\ k > 0
    BY <1>2
  <2>2. a * c = b * c + k * c /\ k * c > 0
    BY <2>1
  <2> QED BY <2>2
<1> QED BY <1>1, <1>2

\* A mantissa and its exponent mean the number in units of any size, if they do
\* in units that are small enough.
IsPower(m, exp, d, places) == /\ exp >= 0 => Amount(m, places) * TenTo[exp] = Amount(d, places)
                              /\ exp < 0 => Amount(m, places) = Amount(d, places) * TenTo[-exp]
LEMMA PowerInUnits ==
  ASSUME NEW m, IsDecimal(m), NEW d, IsDecimal(d), NEW exp \in Int, NEW places \in Nat, NEW more \in Nat,
         Len(m.frac) <= places, Len(d.frac) <= places, IsPower(m, exp, d, places + more)
  PROVE  IsPower(m, exp, d, places)
<1>1. PICK a \in Nat, b \in Nat, c \in Nat : a = Amount(m, places) /\ b = Amount(d, places) /\ c = TenTo[more] /\ c > 0
  <2>1. Amount(m, places) \in Nat /\ Amount(d, places) \in Nat
    BY AmountIs
  <2>2. TenTo[more] \in Nat /\ TenTo[more] > 0
    <3>1. TenTo[more] \in Nat \ {0}
      BY TenToIs
    <3> QED BY <3>1
  <2> QED BY <2>1, <2>2
<1>2. Amount(m, places + more) = a * c /\ Amount(d, places + more) = b * c
  BY <1>1, AmountScales
<1>3. CASE exp >= 0
  <2>1. PICK e \in Nat : e = TenTo[exp]
    BY <1>3, TenToIs
  <2>2. PICK f \in Nat : f = a * e /\ f * c = (a * c) * e
    OBVIOUS
  <2>3. (a * c) * e = b * c
    BY <1>2, <1>3, <2>1 DEF IsPower
  <2>4. f * c = b * c
    BY <2>2, <2>3
  <2>5. f = b
    BY <1>1, <2>4, Cancels
  <2> QED BY <1>1, <1>3, <2>1, <2>2, <2>5 DEF IsPower
<1>4. CASE exp < 0
  <2>1. PICK n \in Nat, e \in Nat : n = -exp /\ e = TenTo[n]
    <3>1. -exp \in Nat
      BY <1>4
    <3> QED BY <3>1, TenToIs
  <2>2. PICK f \in Nat : f = b * e /\ f * c = (b * c) * e
    OBVIOUS
  <2>3. a * c = (b * c) * e
    BY <1>2, <1>4, <2>1 DEF IsPower
  <2>4. a * c = f * c
    BY <2>2, <2>3
  <2>5. a = f
    BY <1>1, <2>4, Cancels
  <2> QED BY <1>1, <1>4, <2>1, <2>2, <2>5 DEF IsPower
<1> QED BY <1>3, <1>4

\* format_scientific_text keeps the number.
LEMMA ScientificIs ==
  ASSUME NEW d, IsDecimal(d), NEW preserve \in BOOLEAN, NEW engineering \in BOOLEAN
  PROVE  LET s == Scientific(d, preserve, engineering)
         IN  /\ IsDecimal(s.mantissa) /\ s.exp \in Int
             /\ \A places \in Nat : (places >= Len(d.frac) /\ places >= Len(s.mantissa.frac))
                                    => IsPower(s.mantissa, s.exp, d, places)
<1>1. PICK s : s = Scientific(d, preserve, engineering)
  OBVIOUS
<1>2. PICK digits \in Digits : digits = d.int \o d.frac /\ Len(digits) = Len(d.int) + Len(d.frac)
  BY DecimalParts
<1>3. PICK whole \in Nat, len \in Nat : whole = Len(d.int) /\ len = Len(d.frac) /\ Len(digits) = whole + len
  BY <1>2, DecimalParts
<1>4. PICK lead \in 0..whole + len : lead = LeadingZeros(digits)
  BY <1>3, LeadingZerosIs
<1>5. CASE lead = whole + len
  <2>1. s = [mantissa |-> Text(d.sign, <<0>>, << >>), exp |-> 0]
    BY <1>1, <1>2, <1>3, <1>4, <1>5 DEF Scientific
  <2>2. PICK one \in Digits, none \in Digits : one = <<0>> /\ none = << >> /\ Natural(one) = 0
    <3>0. << >> \in Digits
      BY EmptySeq DEF Digits
    <3>1. PICK zero \in 0..9, zeros \in Digits : zero = 0 /\ zeros = << >>
      BY <3>0
    <3>2. Append(zeros, zero) = <<zero>> /\ <<zero>> \in Seq(0..9)
      BY <3>1
    <3>3. Natural(Append(zeros, zero)) = 10 * 0 + zero
      BY <3>1, NaturalAppend, NaturalEmpty
    <3>4. <<0>> \in Digits
      BY <3>1, <3>2 DEF Digits
    <3>5. Natural(<<0>>) = 0
      BY <3>1, <3>2, <3>3
    <3> QED BY <3>0, <3>4, <3>5
  <2>3. PICK m : m = Text(d.sign, one, none) /\ IsDecimal(m) /\ m.int = one /\ m.frac = none /\ Len(none) = 0
    BY <2>2, TextIs, EmptySeq
  <2>4. Natural(digits) = 0
    <3>1. AllZeros(digits)
      BY <1>3, <1>4, <1>5 DEF AllZeros
    <3> QED BY <3>1, DigitsOfNatural
  <2>5. ASSUME NEW places \in Nat, places >= len PROVE IsPower(m, 0, d, places)
    <3>1. Len(d.frac) <= places /\ Len(m.frac) <= places
      BY <1>3, <2>3, <2>5
    <3>2. PICK k \in Nat : k = places - Len(d.frac)
      BY <3>1, AmountIs
    <3>3. PICK a \in Nat, b \in Nat : a = TenTo[places] /\ b = TenTo[k]
      BY TenToIs
    <3>4. Amount(d, places) = 0 * b
      BY <1>2, <2>4, <3>1, <3>2, <3>3, AmountIs
    <3>5. Amount(Text(d.sign, one, none), places) = 0 * a + 0 * a
      <4>1. Len(none) <= places /\ places - Len(none) = places /\ Natural(none) = 0
        BY <2>2, <2>3, NaturalEmpty
      <4>2. Amount(Text(d.sign, one, none), places) = Natural(one) * TenTo[places] + Natural(none) * TenTo[places - Len(none)]
        BY <4>1, AmountSplits
      <4> QED BY <2>2, <3>3, <4>1, <4>2
    <3>6. 0 * b = 0 /\ 0 * a + 0 * a = 0 /\ TenTo[0] = 1 /\ 0 * 1 = 0
      BY TenToIs
    <3> QED BY <2>3, <3>4, <3>5, <3>6 DEF IsPower
  <2>6. s.mantissa = m /\ s.exp = 0
    BY <2>1, <2>2, <2>3
  <2> QED BY <1>1, <1>3, <2>3, <2>5, <2>6
<1>6. CASE lead # whole + len
  <2>1. PICK exact \in Int, exp \in Int, width \in Nat :
          /\ exact = Len(d.int) - lead - 1 /\ exp = (IF engineering THEN (exact \div 3) * 3 ELSE exact)
          /\ width = exact - exp + 1
    <3>1. PICK exact \in Int : exact = whole - lead - 1
      OBVIOUS
    <3>2. PICK third \in Int : third = exact \div 3 /\ third * 3 <= exact
      OBVIOUS
    <3>3. PICK exp \in Int : exp = (IF engineering THEN third * 3 ELSE exact) /\ exp <= exact
      <4>1. CASE engineering
        BY <3>2, <4>1
      <4>2. CASE ~ engineering
        BY <4>2
      <4> QED BY <4>1, <4>2
    <3>4. exact - exp + 1 \in Nat
      BY <3>3
    <3> QED BY <1>3, <3>1, <3>2, <3>3, <3>4
  <2>2. PICK signif \in Digits, size \in Nat :
          /\ signif = SubSeq(digits, lead + 1, Len(digits)) /\ size = Len(signif) /\ size + lead = whole + len
          /\ Natural(signif) = Natural(digits)
    <3>1. lead \in Nat /\ lead <= Len(digits)
      <4>1. lead \in Nat /\ lead <= whole + len
        OBVIOUS
      <4> QED BY <1>3, <4>1
    <3>2. SubSeq(digits, lead + 1, Len(digits)) \in Digits /\ Len(SubSeq(digits, lead + 1, Len(digits))) = Len(digits) - lead
      BY <3>1, NaturalCut
    <3>3. Canonical(digits) = SubSeq(digits, lead + 1, Len(digits))
      BY <1>3, <1>4, <1>6 DEF Canonical
    <3>4. (whole + len) - lead \in Nat /\ ((whole + len) - lead) + lead = whole + len
      OBVIOUS
    <3> QED BY <1>3, <3>2, <3>3, <3>4, CanonicalIs
  <2>3. PICK k \in Nat : k = (IF Len(signif) < width THEN width - Len(signif) ELSE 0) /\ width <= size + k
    <3>1. PICK k : k = IF size < width THEN width - size ELSE 0
      OBVIOUS
    <3>2. k \in Nat /\ width <= size + k
      BY <3>1
    <3> QED BY <2>2, <3>1, <3>2, Zenon
  <2>4. PICK padded \in Digits : /\ padded = signif \o Zeros(k) /\ Len(padded) = size + k
                                 /\ Natural(padded) = Natural(digits) * TenTo[k]
    <3>1. PICK z \in Digits : z = Zeros(k) /\ Len(z) = k
      BY ZerosAre
    <3>2. PICK n \in Nat, a \in Nat : n = Natural(digits) /\ a = TenTo[k] /\ n * a + 0 = n * a
      <4>1. PICK n \in Nat, a \in Nat : n = Natural(digits) /\ a = TenTo[k]
        BY NaturalIsNat, TenToIs
      <4>2. n * a + 0 = n * a
        OBVIOUS
      <4> QED BY <4>1, <4>2
    <3>3. Natural(signif \o z) = n * a + 0
      BY <2>2, <3>1, <3>2, NaturalConcat, NaturalOfZeros
    <3>4. signif \o z \in Digits /\ Len(signif \o z) = size + k
      BY <2>2, <3>1, ConcatDigits
    <3> QED BY <3>1, <3>2, <3>3, <3>4
  <2>5. PICK int \in Digits, rest \in Digits, left \in Nat :
          /\ int = SubSeq(padded, 1, width) /\ rest = SubSeq(padded, width + 1, Len(padded))
          /\ left = Len(rest) /\ left = (size + k) - width /\ left = len + k + exp
          /\ Natural(padded) = Natural(int) * TenTo[left] + Natural(rest)
    <3>1. width <= Len(padded)
      BY <2>3, <2>4
    <3>2. PICK int \in Digits, rest \in Digits :
            /\ int = SubSeq(padded, 1, width) /\ rest = SubSeq(padded, width + 1, Len(padded))
            /\ Len(rest) = (size + k) - width
            /\ Natural(padded) = Natural(int) * TenTo[(size + k) - width] + Natural(rest)
      <4>1. Len(padded) - width = (size + k) - width
        BY <2>4
      <4>2. /\ SubSeq(padded, 1, width) \in Digits /\ SubSeq(padded, width + 1, Len(padded)) \in Digits
            /\ Len(SubSeq(padded, width + 1, Len(padded))) = (size + k) - width
            /\ Natural(padded) = Natural(SubSeq(padded, 1, width)) * TenTo[(size + k) - width]
                                  + Natural(SubSeq(padded, width + 1, Len(padded)))
        BY <3>1, <4>1, NaturalCut
      <4> QED BY <4>2
    <3>3. PICK left \in Nat : left = (size + k) - width
      <4>1. width <= size + k
        BY <2>3
      <4> QED BY <4>1
    <3>4. left = len + k + exp
      <4>1. exact = whole - lead - 1
        BY <1>3, <2>1
      <4>2. width = exact - exp + 1 /\ size + lead = whole + len
        BY <2>1, <2>2
      <4> QED BY <3>3, <4>1, <4>2
    <3> QED BY <3>2, <3>3, <3>4
  <2>6. PICK frac \in Digits : /\ frac = (IF preserve THEN rest ELSE WithoutTrailing(rest)) /\ Len(frac) <= left
                               /\ \A places \in Nat : places >= left =>
                                    Natural(frac) * TenTo[places - Len(frac)] = Natural(rest) * TenTo[places - left]
    <3>1. CASE preserve
      <4>1. left <= left
        OBVIOUS
      <4> QED BY <2>5, <3>1, <4>1
    <3>2. CASE ~ preserve
      <4>1. PICK kept \in Digits : kept = WithoutTrailing(rest) /\ Len(kept) <= left
        BY <2>5, WithoutTrailingIs
      <4>2. ASSUME NEW places \in Nat, places >= left
            PROVE  Natural(kept) * TenTo[places - Len(kept)] = Natural(rest) * TenTo[places - left]
        <5>1. Len(rest) <= places /\ places - Len(rest) = places - left
          BY <2>5, <4>2
        <5>2. Natural(WithoutTrailing(rest)) * TenTo[places - Len(WithoutTrailing(rest))]
                = Natural(rest) * TenTo[places - Len(rest)]
          BY <5>1, TrimmedFraction
        <5> QED BY <4>1, <5>1, <5>2
      <4> QED BY <3>2, <4>1, <4>2
    <3> QED BY <3>1, <3>2
  <2>7. s = [mantissa |-> Text(d.sign, int, frac), exp |-> exp]
    <3>1. ~ (lead = Len(digits))
      BY <1>3, <1>6
    <3> DEFINE digits0 == d.int \o d.frac
               lead0   == LeadingZeros(digits0)
               signif0 == SubSeq(digits0, lead0 + 1, Len(digits0))
               exact0  == Len(d.int) - lead0 - 1
               exp0    == IF engineering THEN (exact0 \div 3) * 3 ELSE exact0
               width0  == exact0 - exp0 + 1
               padded0 == signif0 \o Zeros(IF Len(signif0) < width0 THEN width0 - Len(signif0) ELSE 0)
               rest0   == SubSeq(padded0, width0 + 1, Len(padded0))
               frac0   == IF preserve THEN rest0 ELSE WithoutTrailing(rest0)
    <3>2. s = IF lead0 = Len(digits0) THEN [mantissa |-> Text(d.sign, <<0>>, << >>), exp |-> 0]
              ELSE [mantissa |-> Text(d.sign, SubSeq(padded0, 1, width0), frac0), exp |-> exp0]
      BY <1>1 DEF Scientific
    <3>3. digits0 = digits
      BY <1>2
    <3> HIDE DEF digits0
    <3>4. lead0 = lead
      BY <1>4, <3>3
    <3> HIDE DEF lead0
    <3>5. signif0 = signif /\ exact0 = exact
      BY <2>1, <2>2, <3>3, <3>4
    <3> HIDE DEF signif0, exact0
    <3>6. exp0 = exp
      BY <2>1, <3>5
    <3> HIDE DEF exp0
    <3>7. width0 = width
      BY <2>1, <3>5, <3>6
    <3> HIDE DEF width0
    <3>8. padded0 = padded
      <4>1. padded = signif \o Zeros(IF Len(signif) < width THEN width - Len(signif) ELSE 0)
        BY <2>3, <2>4, Zenon
      <4> QED BY <3>5, <3>7, <4>1, Zenon
    <3> HIDE DEF padded0
    <3>9. rest0 = rest /\ SubSeq(padded0, 1, width0) = int
      BY <2>5, <3>7, <3>8, Zenon
    <3> HIDE DEF rest0
    <3>10. frac0 = frac
      BY <2>6, <3>9, Zenon
    <3> HIDE DEF frac0
    <3> QED BY <3>1, <3>2, <3>3, <3>4, <3>6, <3>9, <3>10, Zenon
  <2>8. PICK m : m = Text(d.sign, int, frac) /\ IsDecimal(m) /\ m.frac = frac
    BY TextIs
  <2>9. ASSUME NEW places \in Nat, places >= len, places >= left PROVE IsPower(m, exp, d, places)
    <3>1. PICK p \in Nat, q \in Nat : p = places - left /\ q = places - len /\ left + p = places /\ (k + p) + exp = q
      <4>1. left = len + k + exp
        BY <2>5
      <4>2. PICK p \in Nat, q \in Nat : p = places - left /\ q = places - len
        BY <2>9
      <4>3. left + p = places /\ (k + p) + exp = q
        BY <4>1, <4>2
      <4> QED BY <4>2, <4>3
    <3>2. PICK n \in Nat, i \in Nat, r \in Nat, a \in Nat, b \in Nat, c \in Nat, e \in Nat :
            /\ n = Natural(digits) /\ i = Natural(int) /\ r = Natural(rest)
            /\ a = TenTo[k] /\ b = TenTo[p] /\ c = TenTo[left] /\ e = TenTo[q]
      BY NaturalIsNat, TenToIs
    <3>3. Amount(m, places) = i * (c * b) + r * b
      <4>1. Len(frac) <= places
        <5>1. Len(frac) \in Nat
          BY ConcatDigits
        <5> QED BY <2>6, <2>9, <5>1
      <4>2. Amount(Text(d.sign, int, frac), places) = Natural(int) * TenTo[places] + Natural(frac) * TenTo[places - Len(frac)]
        BY <4>1, AmountSplits
      <4>3. TenTo[left + p] = c * b
        BY <3>2, TenToSum
      <4>4. Natural(frac) * TenTo[places - Len(frac)] = r * b
        BY <2>6, <2>9, <3>1, <3>2
      <4> QED BY <2>8, <3>1, <3>2, <4>2, <4>3, <4>4
    <3>4. i * c + r = n * a
      BY <2>4, <2>5, <3>2
    <3>5. i * (c * b) + r * b = (i * c + r) * b /\ (n * a) * b = n * (a * b)
      OBVIOUS
    <3>6. PICK j \in Nat, f \in Nat : j = k + p /\ f = TenTo[j] /\ f = a * b
      <4>1. k + p \in Nat /\ TenTo[k + p] = a * b
        BY <3>2, TenToSum
      <4> QED BY <4>1, TenToIs
    <3>7. Amount(m, places) = n * f
      BY <3>3, <3>4, <3>5, <3>6
    <3>8. Amount(d, places) = n * e
      <4>1. Len(d.frac) <= places /\ places - Len(d.frac) = q
        BY <1>3, <2>9, <3>1
      <4>2. Amount(d, places) = Natural(d.int \o d.frac) * TenTo[places - Len(d.frac)]
        BY <4>1, AmountIs
      <4> QED BY <1>2, <3>2, <4>1, <4>2
    <3>9. CASE exp >= 0
      <4>1. PICK up \in Nat, g \in Nat : up = exp /\ g = TenTo[up] /\ j + up = q
        <5>1. PICK up \in Nat : up = exp
          BY <3>9
        <5>2. j + up = q
          BY <3>1, <3>6, <5>1
        <5> QED BY <5>1, <5>2, TenToIs
      <4>2. e = f * g
        <5>1. TenTo[j + up] = TenTo[j] * TenTo[up]
          BY TenToSum
        <5> QED BY <3>2, <3>6, <4>1, <5>1
      <4>3. (n * f) * g = n * (f * g)
        OBVIOUS
      <4> QED BY <3>7, <3>8, <3>9, <4>1, <4>2, <4>3 DEF IsPower
    <3>10. CASE exp < 0
      <4>1. PICK down \in Nat, g \in Nat : down = -exp /\ g = TenTo[down] /\ q + down = j
        <5>1. PICK down \in Nat : down = -exp
          BY <3>10
        <5>2. q + down = j
          BY <3>1, <3>6, <5>1
        <5> QED BY <5>1, <5>2, TenToIs
      <4>2. f = e * g
        <5>1. TenTo[q + down] = TenTo[q] * TenTo[down]
          BY TenToSum
        <5> QED BY <3>2, <3>6, <4>1, <5>1
      <4>3. (n * e) * g = n * (e * g)
        OBVIOUS
      <4> QED BY <3>7, <3>8, <3>10, <4>1, <4>2, <4>3 DEF IsPower
    <3> QED BY <3>9, <3>10
  <2>10. ASSUME NEW places \in Nat, places >= len, places >= Len(frac) PROVE IsPower(m, exp, d, places)
    <3>1. IsPower(m, exp, d, places + left)
      <4>1. places + left \in Nat /\ places + left >= len /\ places + left >= left
        BY <2>10
      <4> QED BY <2>9, <4>1
    <3>2. Len(m.frac) <= places /\ Len(d.frac) <= places
      <4>1. Len(frac) \in Nat
        BY ConcatDigits
      <4> QED BY <1>3, <2>8, <2>10, <4>1
    <3> QED BY <2>8, <3>1, <3>2, PowerInUnits
  <2>11. s.mantissa = m /\ s.exp = exp
    BY <2>7, <2>8
  <2> QED BY <1>1, <1>3, <2>8, <2>10, <2>11
<1> QED BY <1>5, <1>6
=============================================================================
