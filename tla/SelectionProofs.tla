-------------------------- MODULE SelectionProofs ---------------------------
(***************************************************************************)
(* The selects built for a .match lead to its best variant, for every table *)
(* and whatever its selectors resolve to.                                    *)
(*                                                                         *)
(* A tree of parts leads to a set of ends if every walk of it that ends,     *)
(* ends there.  What Build makes of candidates leads to the best of them and *)
(* of the variants that the fallback covers: this is shown from the last     *)
(* level to the first.                                                       *)
(***************************************************************************)
EXTENDS Selection, TLAPS, SequenceTheorems, WellFoundedInduction

-----------------------------------------------------------------------------
(* Numbers up to a bound. *)

LEMMA LeastOf ==
  ASSUME NEW T \in SUBSET Nat, T # {}
  PROVE  \E k \in T : \A m \in T : k <= m
<1> DEFINE less == {p \in Nat \X Nat : p[1] < p[2]}
<1>1. less = OpToRel(<, Nat)
  BY DEF OpToRel
<1>2. IsWellFoundedOn(less, Nat)
  BY <1>1, NatLessThanWellFounded
<1>3. PICK k \in T : \A m \in T : <<m, k>> \notin less
  <2> HIDE DEF less
  <2> QED BY <1>2, WFMin
<1>4. ASSUME NEW m \in T PROVE k <= m
  <2>1. m < k => <<m, k>> \in less
    OBVIOUS
  <2> QED BY <1>3, <2>1
<1> QED BY <1>4

LEMMA UpTo ==
  ASSUME NEW S, NEW last \in Nat, 0 \in S, \A n \in 0..(last - 1) : n \in S => n + 1 \in S
  PROVE  0..last \subseteq S
<1> SUFFICES ASSUME (0..last) \ S # {} PROVE FALSE
  OBVIOUS
<1>1. PICK k \in (0..last) \ S : \A m \in (0..last) \ S : k <= m
  <2>1. (0..last) \ S \in SUBSET Nat
    OBVIOUS
  <2> QED BY <2>1, LeastOf
<1>2. k # 0 /\ k - 1 \in 0..(last - 1) /\ k - 1 \in S /\ (k - 1) + 1 = k
  BY <1>1
<1> QED BY <1>1, <1>2

-----------------------------------------------------------------------------
(* Walks. *)

Choosing(parts) == Len(parts) = 1 /\ parts[1].part = "Select"

\* What a select compares with its keys, by what the slots resolve to.
Compared(v, select) ==
  IF select.selector.on = "Projected" THEN v[select.selector.id].category
  ELSE v[select.selector.id].text

\* parts chooses to go on with next.
Follows(v, parts, next) ==
  \/ \E n \in 1..Len(parts[1].arms) :
       /\ parts[1].arms[n].key = Compared(v, parts[1])
       /\ next = parts[1].arms[n].parts
  \/ /\ \A n \in 1..Len(parts[1].arms) : parts[1].arms[n].key # Compared(v, parts[1])
     /\ next = parts[1].default

\* The walks stay in W, and end in E.
Walks(v, W, E) ==
  \A parts \in W : IF Choosing(parts) THEN \A next : Follows(v, parts, next) => next \in W
                   ELSE parts \in E

Leads(v, parts, E) == \E W : parts \in W /\ Walks(v, W, E)

LEMMA LeadsOn ==
  ASSUME NEW v, NEW parts, NEW E, NEW next, Leads(v, parts, E), Choosing(parts),
         Follows(v, parts, next)
  PROVE  Leads(v, next, E)
BY DEF Leads, Walks

LEMMA LeadsHere ==
  ASSUME NEW v, NEW parts, NEW E, ~Choosing(parts)
  PROVE  Leads(v, parts, E) <=> parts \in E
<1>1. Leads(v, parts, E) => parts \in E
  BY DEF Leads, Walks
<1>2. ASSUME parts \in E PROVE Leads(v, parts, E)
  <2>1. Walks(v, {parts}, E)
    BY <1>2 DEF Walks
  <2> QED BY <2>1 DEF Leads
<1> QED BY <1>1, <1>2

LEMMA LeadsByChoice ==
  ASSUME NEW v, NEW parts, NEW E, Choosing(parts),
         \A next : Follows(v, parts, next) => Leads(v, next, E)
  PROVE  Leads(v, parts, E)
<1> DEFINE Z == {next \in {parts[1].arms[n].parts : n \in 1..Len(parts[1].arms)}
                             \cup {parts[1].default} : Follows(v, parts, next)}
           From(next) == CHOOSE W : next \in W /\ Walks(v, W, E)
           W == {parts} \cup UNION {From(next) : next \in Z}
<1>1. ASSUME NEW next, Follows(v, parts, next) PROVE next \in Z
  BY <1>1 DEF Follows
<1>2. ASSUME NEW next \in Z PROVE next \in From(next) /\ Walks(v, From(next), E)
  <2>1. Leads(v, next, E)
    OBVIOUS
  <2> QED BY <2>1 DEF Leads
<1> HIDE DEF Z, From
<1>3. ASSUME NEW p \in W, Choosing(p), NEW next, Follows(v, p, next)
      PROVE  next \in W
  <2>1. CASE p = parts
    BY <2>1, <1>1, <1>2, <1>3
  <2>2. CASE \E z \in Z : p \in From(z)
    <3>1. PICK z \in Z : p \in From(z)
      BY <2>2
    <3>2. next \in From(z)
      BY <3>1, <1>2, <1>3 DEF Walks
    <3> QED BY <3>2
  <2> QED BY <2>1, <2>2
<1>4. ASSUME NEW p \in W, ~Choosing(p)
      PROVE  p \in E
  <2>1. PICK z \in Z : p \in From(z)
    BY <1>4
  <2> QED BY <2>1, <1>2, <1>4 DEF Walks
<1>5. Walks(v, W, E)
  BY <1>3, <1>4 DEF Walks
<1> QED BY <1>5 DEF Leads

-----------------------------------------------------------------------------
(* The keys of a select. *)

\* g collects the values at F in order.
Collects(g, last, F, values) ==
  g = [n \in 0..last |->
         IF n = 0 THEN <<>> ELSE IF n \in F THEN Append(g[n - 1], values[n]) ELSE g[n - 1]]

LEMMA CollectorExists ==
  ASSUME NEW last \in Nat, NEW F, NEW values
  PROVE  \E g : Collects(g, last, F, values)
<1> DEFINE Value(g, n) ==
             IF n = 0 THEN <<>> ELSE IF n \in F THEN Append(g[n - 1], values[n]) ELSE g[n - 1]
           S == {d \in 0..last : \E g : \A n \in 0..d : g[n] = Value(g, n)}
<1>1. 0 \in S
  <2> DEFINE e == [i \in {0} |-> <<>>]
  <2>1. e[0] = Value(e, 0)
    OBVIOUS
  <2>2. \A n \in 0..0 : e[n] = Value(e, n)
    <3> HIDE DEF e, Value
    <3> QED BY <2>1
  <2> HIDE DEF e, Value
  <2> QED BY <2>2
<1>2. ASSUME NEW d \in 0..(last - 1), d \in S PROVE d + 1 \in S
  <2>1. PICK g : \A n \in 0..d : g[n] = Value(g, n)
    BY <1>2
  <2> DEFINE h == [n \in 0..(d + 1) |-> IF n = d + 1 THEN Value(g, d + 1) ELSE g[n]]
  <2>2. ASSUME NEW n \in 0..(d + 1) PROVE h[n] = Value(h, n)
    <3>1. CASE n = 0
      BY <3>1, <2>1
    <3>2. CASE n # 0
      <4>1. n - 1 \in 0..d /\ n - 1 # d + 1 /\ h[n - 1] = g[n - 1]
        BY <3>2
      <4>2. Value(h, n) = Value(g, n)
        BY <4>1
      <4>3. n # d + 1 => g[n] = Value(g, n)
        BY <2>1
      <4>4. h[n] = Value(g, n)
        BY <4>3
      <4> QED BY <4>2, <4>4
    <3> QED BY <3>1, <3>2
  <2>3. d + 1 \in 0..last
    OBVIOUS
  <2> HIDE DEF h, Value
  <2> QED BY <2>2, <2>3
<1> HIDE DEF S
<1>3. 0..last \subseteq S
  BY <1>1, <1>2, UpTo
<1>4. PICK g : \A n \in 0..last : g[n] = Value(g, n)
  <2>1. last \in S
    BY <1>3
  <2> QED BY <2>1 DEF S
<1> DEFINE f == [n \in 0..last |-> g[n]]
<1>5. \A n \in 0..last : f[n] = Value(f, n)
  <2>1. \A n \in 0..last : n # 0 => f[n - 1] = g[n - 1]
    OBVIOUS
  <2> QED BY <1>4, <2>1
<1>6. f = [n \in 0..last |-> Value(f, n)]
  BY <1>5
<1>7. Collects(f, last, F, values)
  BY <1>6 DEF Collects
<1> QED BY <1>7

\* s consists of the values at F.
ConsistsOf(s, F, values) ==
  /\ Len(s) \in Nat
  /\ \A i \in 1..Len(s) : \E n \in F : s[i] = values[n]
  /\ \A n \in F : \E i \in 1..Len(s) : s[i] = values[n]

\* What is collected are the values at F, and no others.
LEMMA Collected ==
  ASSUME NEW last \in Nat, NEW F \in SUBSET (1..last), NEW values, NEW g,
         Collects(g, last, F, values)
  PROVE  ConsistsOf(g[last], F, values)
<1> DEFINE V == {values[n] : n \in F}
           Upto(n) == {m \in F : m <= n}
           S == {d \in 0..last : /\ g[d] \in Seq(V)
                                 /\ \A n \in Upto(d) : \E i \in 1..Len(g[d]) : g[d][i] = values[n]}
<1>1. 0 \in S
  <2>1. g[0] = <<>>
    BY DEF Collects
  <2>2. Upto(0) = {}
    <3>1. ASSUME NEW m \in F PROVE ~ (m <= 0)
      OBVIOUS
    <3> QED BY <3>1
  <2>3. g[0] \in Seq(V)
    <3> HIDE DEF V
    <3> QED BY <2>1
  <2> HIDE DEF V, Upto
  <2> QED BY <2>2, <2>3
<1>2. ASSUME NEW d \in 0..(last - 1), d \in S PROVE d + 1 \in S
  <2>1. g[d + 1] = IF d + 1 \in F THEN Append(g[d], values[d + 1]) ELSE g[d]
    <3>1. d + 1 \in 0..last /\ d + 1 # 0 /\ (d + 1) - 1 = d
      OBVIOUS
    <3> QED BY <3>1 DEF Collects
  <2>2. CASE d + 1 \notin F
    <3>1. ASSUME NEW m \in F PROVE m <= d + 1 <=> m <= d
      BY <2>2
    <3>2. Upto(d + 1) = Upto(d)
      BY <3>1
    <3> HIDE DEF V, Upto
    <3> QED BY <3>2, <2>1, <2>2, <1>2
  <2>3. CASE d + 1 \in F
    <3>1. values[d + 1] \in V /\ g[d] \in Seq(V)
      BY <2>3, <1>2
    <3>2. g[d + 1] = Append(g[d], values[d + 1])
      BY <2>1, <2>3
    <3>3. /\ g[d + 1] \in Seq(V) /\ Len(g[d + 1]) = Len(g[d]) + 1 /\ Len(g[d]) \in Nat
          /\ \A i \in 1..Len(g[d]) : g[d + 1][i] = g[d][i]
          /\ g[d + 1][Len(g[d]) + 1] = values[d + 1]
      <4> HIDE DEF V
      <4> QED BY <3>1, <3>2, AppendProperties
    <3>4. ASSUME NEW n \in Upto(d + 1) PROVE \E i \in 1..Len(g[d + 1]) : g[d + 1][i] = values[n]
      <4>1. CASE n = d + 1
        BY <4>1, <3>3
      <4>2. CASE n # d + 1
        <5>1. n \in Upto(d)
          BY <4>2
        <5>2. PICK i \in 1..Len(g[d]) : g[d][i] = values[n]
          BY <5>1, <1>2
        <5> QED BY <5>2, <3>3
      <4> QED BY <4>1, <4>2
    <3> QED BY <3>3, <3>4
  <2> QED BY <2>2, <2>3
<1> HIDE DEF S
<1>3. last \in S
  <2>1. 0..last \subseteq S
    BY <1>1, <1>2, UpTo
  <2> QED BY <2>1
<1>4. g[last] \in Seq(V) /\ \A n \in F : \E i \in 1..Len(g[last]) : g[last][i] = values[n]
  BY <1>3 DEF S
<1>5. Len(g[last]) \in Nat /\ \A i \in 1..Len(g[last]) : g[last][i] \in V
  <2> HIDE DEF V
  <2> QED BY <1>4
<1> QED BY <1>4, <1>5 DEF ConsistsOf

\* keys lists what is in wanted.
Lists(keys, wanted) ==
  /\ Len(keys) \in Nat
  /\ \A i \in 1..Len(keys) : keys[i] \in wanted
  /\ \A key \in wanted : \E i \in 1..Len(keys) : keys[i] = key

\* The keys of a select are the wanted ones.
LEMMA KeysInOrderAre ==
  ASSUME NEW arms, Len(arms) \in Nat, NEW candidates \in SUBSET (1..Len(arms)), NEW level,
         NEW wanted \in SUBSET KeysOf(arms, candidates, level)
  PROVE  Lists(KeysInOrder(arms, candidates, level, wanted), wanted)
<1>0. PICK last \in Nat : last = Len(arms)
  OBVIOUS
<1> candidates \in SUBSET (1..last)
  BY <1>0
<1> DEFINE KeyOf(n) == arms[n].keys[level]
           IsFirst(n) == /\ n \in candidates
                         /\ arms[n].keys[level] \in wanted
                         /\ \A m \in candidates : m < n => arms[m].keys[level] # arms[n].keys[level]
           F == {n \in 1..last : IsFirst(n)}
           values == [n \in 1..last |-> KeyOf(n)]
           g == CHOOSE g : g = [n \in 0..last |->
                  IF n = 0 THEN <<>>
                  ELSE IF IsFirst(n) THEN Append(g[n - 1], arms[n].keys[level]) ELSE g[n - 1]]
           keys == KeysInOrder(arms, candidates, level, wanted)
<1>1. keys = g[last]
  BY <1>0 DEF KeysInOrder
<1>2. PICK h : Collects(h, last, F, values)
  BY CollectorExists
<1>3. \A f : Collects(f, last, F, values) <=>
        f = [n \in 0..last |->
               IF n = 0 THEN <<>>
               ELSE IF IsFirst(n) THEN Append(f[n - 1], arms[n].keys[level]) ELSE f[n - 1]]
  <2> TAKE f
  <2>1. \A n \in 0..last :
          (IF n = 0 THEN <<>> ELSE IF n \in F THEN Append(f[n - 1], values[n]) ELSE f[n - 1])
            = (IF n = 0 THEN <<>>
               ELSE IF IsFirst(n) THEN Append(f[n - 1], arms[n].keys[level]) ELSE f[n - 1])
    <3> TAKE n \in 0..last
    <3>1. n # 0 => (n \in F <=> IsFirst(n)) /\ values[n] = arms[n].keys[level]
      OBVIOUS
    <3> HIDE DEF F, values, IsFirst
    <3> QED BY <3>1
  <2> HIDE DEF F, values, IsFirst
  <2> QED BY <2>1 DEF Collects
<1>4. Collects(g, last, F, values)
  <2> HIDE DEF F, values, IsFirst
  <2> QED BY <1>2, <1>3
<1>5. /\ Len(g[last]) \in Nat
      /\ \A i \in 1..Len(g[last]) : \E n \in F : g[last][i] = values[n]
      /\ \A n \in F : \E i \in 1..Len(g[last]) : g[last][i] = values[n]
  <2>1. F \in SUBSET (1..last)
    OBVIOUS
  <2> HIDE DEF F, values, g
  <2>2. ConsistsOf(g[last], F, values)
    BY <1>0, <2>1, <1>4, Collected
  <2> QED BY <2>2 DEF ConsistsOf
<1>6. \A n \in F : values[n] \in wanted
  OBVIOUS
<1>7. ASSUME NEW key \in wanted PROVE \E n \in F : values[n] = key
  <2> DEFINE T == {n \in candidates : arms[n].keys[level] = key}
  <2>1. T \in SUBSET Nat /\ T # {}
    <3>1. key \in KeysOf(arms, candidates, level)
      OBVIOUS
    <3>2. PICK n \in candidates : arms[n].keys[level] = key
      BY <3>1 DEF KeysOf
    <3>3. n \in T
      BY <3>2
    <3>4. \A m \in candidates : m \in Nat
      BY <1>0
    <3> HIDE DEF F, values, g
    <3> QED BY <3>3, <3>4
  <2>2. PICK n \in T : \A m \in T : n <= m
    <3> HIDE DEF T
    <3> QED BY <2>1, LeastOf
  <2>3. \A m \in candidates : m < n => arms[m].keys[level] # key
    <3> TAKE m \in candidates
    <3>1. m \in T => n <= m
      BY <2>2
    <3> QED BY <3>1, <2>1
  <2>4. n \in F /\ values[n] = key
    BY <2>2, <2>3
  <2> QED BY <2>4
<1>8. \A i \in 1..Len(g[last]) : g[last][i] \in wanted
  <2> HIDE DEF F, values, g
  <2> QED BY <1>5, <1>6
<1>9. \A key \in wanted : \E i \in 1..Len(g[last]) : g[last][i] = key
  <2> HIDE DEF F, values, g
  <2> QED BY <1>5, <1>7
<1> HIDE DEF F, values, g
<1> QED BY <1>1, <1>5, <1>8, <1>9 DEF Lists

-----------------------------------------------------------------------------
(* Fitness. *)

Levels(t) == 1..Len(t.selectors)
Variants(t) == 1..Len(t.arms)
KeyAt(t, n, k) == t.arms[n].keys[k]

\* How well the n-th variant's key fits the k-th selector.
FitAt(t, v, n, k) ==
  LET u == v[t.selectors[k].slot] IN
  Fit(t.selectors[k], LAMBDA key : key = u.text, LAMBDA key : key = u.category, KeyAt(t, n, k))

Fitness(t, v, n) == [k \in Levels(t) |-> FitAt(t, v, n, k)]

\* Those of the variants that fit, and the ends of a walk that picks the best.
Fitting(t, v, R) == {n \in R : \A k \in Levels(t) : FitAt(t, v, n, k) # 0}
Beats(t, v, m, n) == BetterFit(Fitness(t, v, m), Fitness(t, v, n))
Unbeaten(t, v, R) == {n \in Fitting(t, v, R) : \A m \in Fitting(t, v, R) : ~Beats(t, v, m, n)}
Ends(t, v, R) ==
  IF Fitting(t, v, R) = {} THEN {InvalidExpr} ELSE {t.arms[n].parts : n \in Unbeaten(t, v, R)}

LEMMA TableIs ==
  ASSUME NEW t \in Tables
  PROVE  /\ Len(t.selectors) \in Nat \ {0} /\ Len(t.arms) \in Nat
         /\ \A k \in Levels(t) :
              t.selectors[k].mode \in {"text", "plural", "exact", "dynamic", "projected"}
         /\ \E n \in Variants(t) : \A k \in Levels(t) : KeyAt(t, n, k) = Star
         /\ \A n \in Variants(t) : ~Choosing(t.arms[n].parts)
BY TablesAssumption DEF IsTable, Levels, Variants, KeyAt, Choosing

LEMMA FitIs ==
  ASSUME NEW t \in Tables, NEW v, NEW n, NEW k \in Levels(t)
  PROVE  LET key == KeyAt(t, n, k)
             u == v[t.selectors[k].slot]
             mode == t.selectors[k].mode
         IN FitAt(t, v, n, k) =
              IF key = Star THEN 3
              ELSE IF mode = "projected" \/ (mode = "plural" /\ key \notin NumberKeys)
                THEN IF key = u.category THEN 2 ELSE 0
              ELSE IF key = u.text THEN 1 ELSE 0
<1> DEFINE key == KeyAt(t, n, k)
           u == v[t.selectors[k].slot]
           mode == t.selectors[k].mode
<1>1. mode \in {"text", "plural", "exact", "dynamic", "projected"}
  BY TableIs
<1>2. FitAt(t, v, n, k) =
        CASE key = Star -> 3
          [] key # Star /\ (mode \in {"text", "exact", "dynamic"} \/ key \in NumberKeys)
                        /\ mode # "projected" -> IF key = u.text THEN 1 ELSE 0
          [] OTHER -> IF key = u.category THEN 2 ELSE 0
  BY DEF FitAt, Fit
<1> HIDE DEF key, mode, u
<1>3. FitAt(t, v, n, k) =
        IF key = Star THEN 3
        ELSE IF mode = "projected" \/ (mode = "plural" /\ key \notin NumberKeys)
          THEN IF key = u.category THEN 2 ELSE 0
        ELSE IF key = u.text THEN 1 ELSE 0
  BY <1>1, <1>2
<1> QED BY <1>3 DEF key, mode, u

LEMMA FitIsNumber ==
  ASSUME NEW t \in Tables, NEW v, NEW n, NEW k \in Levels(t)
  PROVE  FitAt(t, v, n, k) \in 0..3
BY FitIs

LEMMA BeatsIs ==
  ASSUME NEW t \in Tables, NEW v, NEW m, NEW n
  PROVE  Beats(t, v, m, n) <=>
           \E k \in Levels(t) : /\ FitAt(t, v, m, k) < FitAt(t, v, n, k)
                                /\ \A j \in 1..(k - 1) : FitAt(t, v, m, j) = FitAt(t, v, n, j)
<1>1. Len(t.selectors) \in Nat
  BY TableIs
<1>2. Len(Fitness(t, v, m)) = Len(t.selectors)
  BY <1>1 DEF Fitness, Levels
<1>3. \A k \in Levels(t) : /\ Fitness(t, v, m)[k] = FitAt(t, v, m, k)
                           /\ Fitness(t, v, n)[k] = FitAt(t, v, n, k)
  BY DEF Fitness
<1>4. \A k \in Levels(t) : \A j \in 1..(k - 1) : j \in Levels(t)
  BY <1>1 DEF Levels
<1> QED BY <1>2, <1>3, <1>4 DEF Beats, BetterFit, Levels

\* A variant is not beaten by one that fits alike before a level, and there less.
LEMMA Unbeatable ==
  ASSUME NEW t \in Tables, NEW v, NEW m, NEW n, NEW level \in Levels(t),
         \A j \in 1..(level - 1) : FitAt(t, v, m, j) = FitAt(t, v, n, j),
         FitAt(t, v, n, level) < FitAt(t, v, m, level)
  PROVE  ~Beats(t, v, m, n)
<1> SUFFICES ASSUME NEW k \in Levels(t), FitAt(t, v, m, k) < FitAt(t, v, n, k),
                    \A j \in 1..(k - 1) : FitAt(t, v, m, j) = FitAt(t, v, n, j)
             PROVE  FALSE
  BY BeatsIs
<1>1. Len(t.selectors) \in Nat /\ level \in Nat /\ k \in Nat
  BY TableIs DEF Levels
<1>2. /\ FitAt(t, v, m, k) \in 0..3 /\ FitAt(t, v, n, k) \in 0..3
      /\ FitAt(t, v, m, level) \in 0..3 /\ FitAt(t, v, n, level) \in 0..3
  BY FitIsNumber
<1>3. CASE k < level
  <2>1. k \in 1..(level - 1)
    BY <1>1, <1>3 DEF Levels
  <2> QED BY <2>1, <1>2
<1>4. CASE k = level
  BY <1>4, <1>2
<1>5. CASE k > level
  <2>1. level \in 1..(k - 1)
    BY <1>1, <1>5 DEF Levels
  <2> QED BY <2>1, <1>2
<1> QED BY <1>1, <1>3, <1>4, <1>5

LEMMA EndsOfFitting ==
  ASSUME NEW t, NEW v, NEW R, NEW S, Fitting(t, v, R) = Fitting(t, v, S)
  PROVE  Ends(t, v, R) = Ends(t, v, S)
BY DEF Ends, Unbeaten

-----------------------------------------------------------------------------
(* One select. *)

\* Some variants of S beat none of R: what fits best in R is best in both.
NoneBeats(t, v, S, R) == \A m \in Fitting(t, v, S), n \in Fitting(t, v, R) : ~Beats(t, v, m, n)

\* The candidates at a level: all fit before it, and alike; those that the
\* fallback covers beat none of them.
FitBefore(t, v, level, C) ==
  /\ \A n \in C, k \in 1..(level - 1) : FitAt(t, v, n, k) # 0
  /\ \A m, n \in C, k \in 1..(level - 1) : FitAt(t, v, m, k) = FitAt(t, v, n, k)

Ready(t, v, level, C, R) ==
  /\ C \in SUBSET Variants(t) /\ R \in SUBSET Variants(t)
  /\ FitBefore(t, v, level, C)
  /\ NoneBeats(t, v, R, C)

\* The candidates with a wanted key.
Among(t, C, level, wanted) == {n \in C : KeyAt(t, n, level) \in wanted}

\* What is built at a level leads to the best of the candidates and the variants
\* of the fallback.
Builds(t, v, level) ==
  \A C \in SUBSET Variants(t), R \in SUBSET Variants(t) : \A fallback :
    Ready(t, v, level, C, R) /\ Leads(v, fallback, Ends(t, v, R))
      => Leads(v, Build(t.selectors, t.arms, level, C, fallback), Ends(t, v, C \cup R))

\* At a level beyond the last, it is the first candidate.
LEMMA BuildsLast ==
  ASSUME Recurs, NEW t \in Tables, NEW v
  PROVE  Builds(t, v, Len(t.selectors) + 1)
<1>0. Len(t.selectors) \in Nat /\ Len(t.arms) \in Nat
  BY TableIs
<1> DEFINE last == Len(t.selectors) + 1
<1> SUFFICES ASSUME NEW C \in SUBSET Variants(t), NEW R \in SUBSET Variants(t), NEW fallback,
                    Ready(t, v, last, C, R), Leads(v, fallback, Ends(t, v, R))
             PROVE  Leads(v, Build(t.selectors, t.arms, last, C, fallback), Ends(t, v, C \cup R))
  BY DEF Builds
<1>1. Build(t.selectors, t.arms, last, C, fallback)
        = BuildNested(Build, t.selectors, t.arms, last, C, fallback)
  <2>1. last \in 1..(Len(t.selectors) + 1)
    BY <1>0
  <2> QED BY <2>1 DEF Recurs, Variants
<1>2. CASE C = {}
  <2>1. BuildNested(Build, t.selectors, t.arms, last, C, fallback) = fallback
    BY <1>2 DEF BuildNested
  <2>2. C \cup R = R
    BY <1>2
  <2> QED BY <1>1, <2>1, <2>2
<1>3. CASE C # {}
  <2> DEFINE n == CHOOSE n \in C : \A m \in C : n <= m
  <2>1. \E k \in C : \A m \in C : k <= m
    <3>1. C \in SUBSET Nat
      BY <1>0 DEF Variants
    <3> QED BY <3>1, <1>3, LeastOf
  <2>2. n \in C
    BY <2>1
  <2>3. BuildNested(Build, t.selectors, t.arms, last, C, fallback) = t.arms[n].parts
    BY <1>3, <1>0 DEF BuildNested
  <2> HIDE DEF n
  <2>4. \A m \in C, k \in Levels(t) : FitAt(t, v, m, k) # 0 /\ FitAt(t, v, m, k) = FitAt(t, v, n, k)
    <3>1. Levels(t) = 1..(last - 1)
      BY <1>0 DEF Levels
    <3> QED BY <2>2, <3>1 DEF Ready, FitBefore
  <2>5. n \in Fitting(t, v, C) /\ n \in Fitting(t, v, C \cup R)
    BY <2>2, <2>4 DEF Fitting
  <2>6. ASSUME NEW m \in Fitting(t, v, C \cup R) PROVE ~Beats(t, v, m, n)
    <3>1. CASE m \in C
      <4>1. \A k \in Levels(t) : FitAt(t, v, m, k) = FitAt(t, v, n, k) /\ FitAt(t, v, n, k) \in 0..3
        BY <2>4, <3>1, FitIsNumber
      <4>2. \A k \in Levels(t) : ~ (FitAt(t, v, m, k) < FitAt(t, v, n, k))
        BY <4>1
      <4> QED BY <4>2, BeatsIs
    <3>2. CASE m \in R
      <4>1. m \in Fitting(t, v, R)
        BY <3>2, <2>6 DEF Fitting
      <4> QED BY <4>1, <2>5 DEF Ready, NoneBeats
    <3> QED BY <3>1, <3>2, <2>6 DEF Fitting
  <2>7. t.arms[n].parts \in Ends(t, v, C \cup R)
    BY <2>5, <2>6 DEF Ends, Unbeaten
  <2>8. ~Choosing(t.arms[n].parts)
    BY <2>2, TableIs
  <2> QED BY <1>1, <2>3, <2>7, <2>8, LeadsHere
<1> QED BY <1>2, <1>3

\* The keys of a select are compared alike: all as numbers or all as categories
\* where the function is plural.
Alike(t, level, wanted) ==
  \/ t.selectors[level].mode # "plural"
  \/ wanted \subseteq NumberKeys
  \/ wanted \cap NumberKeys = {}

\* How a select goes on: with the variants of one key if that fits, and no other
\* does, and as missing if none fits.
GoesOn(t, v, level, C, wanted, missing, next) ==
  \/ \E key \in wanted :
       /\ \A n \in C : /\ KeyAt(t, n, level) = key => FitAt(t, v, n, level) # 0
                       /\ KeyAt(t, n, level) \in wanted \ {key} => FitAt(t, v, n, level) = 0
       /\ next = Build(t.selectors, t.arms, level + 1, Having(t.arms, C, level, key), missing)
  \/ /\ \A n \in C : KeyAt(t, n, level) \in wanted => FitAt(t, v, n, level) = 0
     /\ next = missing

\* What a select compares is what makes a key of it fit.
LEMMA SelectIs ==
  ASSUME NEW t \in Tables, NEW v, NEW level \in Levels(t), NEW C \in SUBSET Variants(t),
         NEW wanted \in SUBSET KeysOf(t.arms, C, level), Alike(t, level, wanted), NEW missing
  PROVE  LET parts == SelectAmong(Build, t.selectors, t.arms, level, C, wanted, missing) IN
         /\ Choosing(parts)
         /\ \A next : Follows(v, parts, next) => GoesOn(t, v, level, C, wanted, missing, next)
<1> DEFINE parts == SelectAmong(Build, t.selectors, t.arms, level, C, wanted, missing)
           After(key) == Build(t.selectors, t.arms, level + 1, Having(t.arms, C, level, key), missing)
           u == v[t.selectors[level].slot]
           mode == t.selectors[level].mode
           keys == KeysInOrder(t.arms, C, level, wanted)
<1>1. /\ Len(keys) \in Nat
      /\ \A i \in 1..Len(keys) : keys[i] \in wanted
      /\ \A key \in wanted : \E i \in 1..Len(keys) : keys[i] = key
  <2>1. Lists(keys, wanted)
    <3>1. Len(t.arms) \in Nat /\ C \in SUBSET (1..Len(t.arms))
      BY TableIs DEF Variants
    <3> QED BY <3>1, KeysInOrderAre
  <2> HIDE DEF keys
  <2> QED BY <2>1 DEF Lists
<1> DEFINE branches == [n \in 1..Len(keys) |-> Arm(keys[n], After(keys[n]))]
           selector == SelectorFor(t.selectors[level], branches)
<1>2. parts = <<SelectPart(selector, branches, missing)>>
  BY DEF SelectAmong
<1> HIDE DEF keys
<1>3. Len(branches) = Len(keys)
  BY <1>1
<1>4. \A n \in 1..Len(keys) : branches[n].key = keys[n] /\ branches[n].parts = After(keys[n])
  <2> HIDE DEF After
  <2> QED BY DEF Arm
<1>5. wanted # {} => (selector.on = "Projected"
                        <=> mode = "projected" \/ (mode = "plural" /\ wanted \cap NumberKeys = {}))
  <2> SUFFICES ASSUME wanted # {} PROVE selector.on = "Projected"
                        <=> mode = "projected" \/ (mode = "plural" /\ wanted \cap NumberKeys = {})
    OBVIOUS
  <2>1. branches # <<>>
    BY <1>1, <1>3
  <2>2. (\A n \in 1..Len(branches) : branches[n].key \notin NumberKeys) <=> wanted \cap NumberKeys = {}
    <3> HIDE DEF branches
    <3> QED BY <1>1, <1>3, <1>4
  <2> HIDE DEF branches
  <2> QED BY <2>1, <2>2 DEF SelectorFor, ProjectedSelector, CheckedSelector
<1>6. selector.id = t.selectors[level].slot
  <2> HIDE DEF branches
  <2> QED BY DEF SelectorFor, ProjectedSelector, CheckedSelector
<1> HIDE DEF branches, selector
<1>7. /\ Len(parts) = 1 /\ parts[1].part = "Select"
      /\ parts[1].selector = selector /\ parts[1].arms = branches /\ parts[1].default = missing
  BY <1>2 DEF SelectPart
<1> HIDE DEF parts
<1>8. Compared(v, parts[1]) = IF selector.on = "Projected" THEN u.category ELSE u.text
  BY <1>6, <1>7 DEF Compared
\* A wanted key fits if and only if it is what is compared.
<1>9. ASSUME NEW n \in C, KeyAt(t, n, level) \in wanted
      PROVE  FitAt(t, v, n, level) # 0 <=> KeyAt(t, n, level) = Compared(v, parts[1])
  <2> DEFINE key == KeyAt(t, n, level)
  <2>1. key # Star
    BY <1>9 DEF KeysOf
  <2>2. FitAt(t, v, n, level) # 0 <=>
          IF mode = "projected" \/ (mode = "plural" /\ key \notin NumberKeys)
            THEN key = u.category ELSE key = u.text
    BY <2>1, FitIs
  <2>3. mode = "plural" => (key \notin NumberKeys <=> wanted \cap NumberKeys = {})
    BY <1>9 DEF Alike
  <2>4. selector.on = "Projected" <=> mode = "projected" \/ (mode = "plural" /\ key \notin NumberKeys)
    BY <1>5, <1>9, <2>3
  <2> HIDE DEF key, mode, u
  <2> QED BY <1>8, <2>2, <2>4 DEF key
<1>10. ASSUME NEW next, Follows(v, parts, next)
       PROVE  GoesOn(t, v, level, C, wanted, missing, next)
  <2>1. CASE \E i \in 1..Len(keys) : keys[i] = Compared(v, parts[1]) /\ next = After(keys[i])
    <3>1. PICK i \in 1..Len(keys) : keys[i] = Compared(v, parts[1]) /\ next = After(keys[i])
      BY <2>1
    <3>2. keys[i] \in wanted
      BY <1>1
    <3>3. \A n \in C : /\ KeyAt(t, n, level) = keys[i] => FitAt(t, v, n, level) # 0
                       /\ KeyAt(t, n, level) \in wanted \ {keys[i]} => FitAt(t, v, n, level) = 0
      BY <3>1, <3>2, <1>9
    <3> QED BY <3>1, <3>2, <3>3 DEF GoesOn
  <2>2. CASE (\A i \in 1..Len(keys) : keys[i] # Compared(v, parts[1])) /\ next = missing
    <3>1. Compared(v, parts[1]) \notin wanted
      BY <1>1, <2>2
    <3> QED BY <3>1, <1>9, <2>2 DEF GoesOn
  <2>3. \/ \E i \in 1..Len(keys) : keys[i] = Compared(v, parts[1]) /\ next = After(keys[i])
        \/ (\A i \in 1..Len(keys) : keys[i] # Compared(v, parts[1])) /\ next = missing
    <3> HIDE DEF After
    <3> QED BY <1>3, <1>4, <1>7, <1>10 DEF Follows
  <2> QED BY <2>1, <2>2, <2>3
<1> QED BY <1>7, <1>10 DEF Choosing, parts

\* A select leads to the best of the candidates it looks for and those that
\* missing covers.
LEMMA SelectLeads ==
  ASSUME NEW t \in Tables, NEW v, NEW level \in Levels(t), Builds(t, v, level + 1),
         NEW C \in SUBSET Variants(t), NEW S \in SUBSET Variants(t),
         NEW wanted \in SUBSET KeysOf(t.arms, C, level), Alike(t, level, wanted), NEW missing,
         FitBefore(t, v, level, C), NoneBeats(t, v, S, Among(t, C, level, wanted)),
         Leads(v, missing, Ends(t, v, S))
  PROVE  Leads(v, SelectAmong(Build, t.selectors, t.arms, level, C, wanted, missing),
               Ends(t, v, Among(t, C, level, wanted) \cup S))
<1> DEFINE D == Among(t, C, level, wanted)
           parts == SelectAmong(Build, t.selectors, t.arms, level, C, wanted, missing)
<1>0. Len(t.selectors) \in Nat /\ level \in Nat /\ level \in Levels(t)
  BY TableIs DEF Levels
<1>1. ASSUME \A n \in C : KeyAt(t, n, level) \in wanted => FitAt(t, v, n, level) = 0
      PROVE  Leads(v, missing, Ends(t, v, D \cup S))
  <2>1. Fitting(t, v, D \cup S) = Fitting(t, v, S)
    BY <1>0, <1>1 DEF Fitting, Among
  <2>2. Ends(t, v, D \cup S) = Ends(t, v, S)
    BY <2>1, EndsOfFitting
  <2> QED BY <2>2
<1>2. ASSUME NEW key \in wanted,
             \A n \in C : /\ KeyAt(t, n, level) = key => FitAt(t, v, n, level) # 0
                          /\ KeyAt(t, n, level) \in wanted \ {key} => FitAt(t, v, n, level) = 0
      PROVE  Leads(v, Build(t.selectors, t.arms, level + 1, Having(t.arms, C, level, key), missing),
                   Ends(t, v, D \cup S))
  <2> DEFINE H == Having(t.arms, C, level, key)
  <2>1. H \in SUBSET Variants(t) /\ H \subseteq D /\ H \subseteq C
    BY DEF Having, KeyAt, Among
  <2>2. \A n \in H : KeyAt(t, n, level) = key
    BY DEF Having, KeyAt
  <2>3. ASSUME NEW k \in 1..((level + 1) - 1), NEW m \in H, NEW n \in H
        PROVE  FitAt(t, v, n, k) # 0 /\ FitAt(t, v, m, k) = FitAt(t, v, n, k)
    <3>1. CASE k = level
      <4>1. FitAt(t, v, m, level) = FitAt(t, v, n, level)
        BY <2>2, FitIs
      <4> QED BY <3>1, <4>1, <2>1, <2>2, <1>2
    <3>2. CASE k # level
      <4>1. k \in 1..(level - 1)
        BY <3>2, <1>0
      <4> QED BY <4>1, <2>1 DEF FitBefore
    <3> QED BY <3>1, <3>2
  <2>4. NoneBeats(t, v, S, H)
    <3>1. Fitting(t, v, H) \subseteq Fitting(t, v, D)
      BY <2>1 DEF Fitting
    <3> QED BY <3>1 DEF NoneBeats
  <2>5. Ready(t, v, level + 1, H, S)
    <3> HIDE DEF H
    <3> QED BY <2>1, <2>3, <2>4 DEF Ready, FitBefore
  <2>6. Leads(v, Build(t.selectors, t.arms, level + 1, H, missing), Ends(t, v, H \cup S))
    <3> HIDE DEF H
    <3> QED BY <2>1, <2>5 DEF Builds
  <2>7. Fitting(t, v, H \cup S) = Fitting(t, v, D \cup S)
    <3>1. \A n \in D \ H : n \in C /\ KeyAt(t, n, level) \in wanted \ {key}
      BY DEF Having, KeyAt, Among
    <3>2. \A n \in D \ H : FitAt(t, v, n, level) = 0
      BY <3>1, <1>2
    <3> HIDE DEF H, D
    <3> QED BY <3>2, <2>1, <1>0 DEF Fitting
  <2>8. Ends(t, v, H \cup S) = Ends(t, v, D \cup S)
    BY <2>7, EndsOfFitting
  <2> QED BY <2>6, <2>8
<1>3. Choosing(parts)
  BY SelectIs
<1>4. ASSUME NEW next, Follows(v, parts, next) PROVE Leads(v, next, Ends(t, v, D \cup S))
  <2>1. GoesOn(t, v, level, C, wanted, missing, next)
    BY <1>4, SelectIs
  <2> HIDE DEF D
  <2> QED BY <1>1, <1>2, <2>1 DEF GoesOn
<1> QED BY <1>3, <1>4, LeadsByChoice

-----------------------------------------------------------------------------
(* All levels. *)

LEMMA BuildsLevel ==
  ASSUME Recurs, NEW t \in Tables, NEW v, NEW level \in Levels(t), Builds(t, v, level + 1)
  PROVE  Builds(t, v, level)
<1>0. Len(t.selectors) \in Nat /\ Len(t.arms) \in Nat /\ level \in Nat
  BY TableIs DEF Levels
<1> SUFFICES ASSUME NEW C \in SUBSET Variants(t), NEW R \in SUBSET Variants(t), NEW fallback,
                    Ready(t, v, level, C, R), Leads(v, fallback, Ends(t, v, R))
             PROVE  Leads(v, Build(t.selectors, t.arms, level, C, fallback), Ends(t, v, C \cup R))
  BY DEF Builds
<1> DEFINE H == Having(t.arms, C, level, Star)
           default == Build(t.selectors, t.arms, level + 1, H, fallback)
           keys == KeysOf(t.arms, C, level)
           Select(wanted, missing) ==
             SelectAmong(Build, t.selectors, t.arms, level, C, wanted, missing)
           plural == t.selectors[level].mode = "plural"
<1>1. Build(t.selectors, t.arms, level, C, fallback)
        = BuildNested(Build, t.selectors, t.arms, level, C, fallback)
  <2>1. level \in 1..(Len(t.selectors) + 1)
    BY <1>0 DEF Levels
  <2> QED BY <2>1 DEF Recurs, Variants
<1>2. CASE C = {}
  <2>1. BuildNested(Build, t.selectors, t.arms, level, C, fallback) = fallback
    BY <1>2 DEF BuildNested
  <2>2. C \cup R = R
    BY <1>2
  <2> QED BY <1>1, <2>1, <2>2
<1>3. CASE C # {}
  <2>1. BuildNested(Build, t.selectors, t.arms, level, C, fallback)
          = BuildLevel(Build, t.selectors, t.arms, level, C, fallback)
    BY <1>0, <1>3 DEF BuildNested, Levels
  <2>2. BuildLevel(Build, t.selectors, t.arms, level, C, fallback) =
          IF ~plural \/ keys \subseteq NumberKeys THEN Select(keys, default)
          ELSE IF keys \cap NumberKeys = {} THEN Select(keys, default)
          ELSE Select(keys \cap NumberKeys, Select(keys \ NumberKeys, default))
    BY DEF BuildLevel
  <2>3. H \in SUBSET Variants(t) /\ H \subseteq C /\ \A n \in H : KeyAt(t, n, level) = Star
    BY DEF Having, KeyAt
  <2>4. \A n \in C, k \in 1..(level - 1) : FitAt(t, v, n, k) # 0
    BY DEF Ready, FitBefore
  <2>5. \A m, n \in C, k \in 1..(level - 1) : FitAt(t, v, m, k) = FitAt(t, v, n, k)
    BY DEF Ready, FitBefore
  <2>6. \A n \in H : FitAt(t, v, n, level) = 3
    BY <2>3, FitIs
\* The variants with * at this level.
  <2>7. Leads(v, default, Ends(t, v, H \cup R))
    <3>1. Fitting(t, v, H) \subseteq Fitting(t, v, C)
      BY <2>3 DEF Fitting
    <3>2. NoneBeats(t, v, R, H)
      BY <3>1 DEF Ready, NoneBeats
    <3>3. ASSUME NEW k \in 1..((level + 1) - 1), NEW m \in H, NEW n \in H
          PROVE  FitAt(t, v, n, k) # 0 /\ FitAt(t, v, m, k) = FitAt(t, v, n, k)
      <4>1. CASE k = level
        BY <4>1, <2>6
      <4>2. CASE k # level
        <5>1. k \in 1..(level - 1)
          BY <4>2, <1>0
        <5> QED BY <5>1, <2>3, <2>4, <2>5
      <4> QED BY <4>1, <4>2
    <3>4. Ready(t, v, level + 1, H, R)
      <4> HIDE DEF H
      <4> QED BY <2>3, <3>2, <3>3 DEF Ready, FitBefore
    <3> HIDE DEF H
    <3> QED BY <2>3, <3>4 DEF Builds
\* A variant that fits by its key at this level is beaten by none that fits less.
  <2>8. ASSUME NEW n \in C, NEW m \in C, FitAt(t, v, n, level) < FitAt(t, v, m, level)
        PROVE  ~Beats(t, v, m, n)
    BY <2>5, <2>8, Unbeatable
  <2>9. ASSUME NEW n \in C, KeyAt(t, n, level) # Star PROVE FitAt(t, v, n, level) \in 0..2
    BY <2>9, FitIs
  <2>10. ASSUME NEW wanted \in SUBSET keys
         PROVE  NoneBeats(t, v, H \cup R, Among(t, C, level, wanted))
    <3> SUFFICES ASSUME NEW m \in Fitting(t, v, H \cup R), NEW n \in Fitting(t, v, Among(t, C, level, wanted))
                 PROVE  ~Beats(t, v, m, n)
      BY DEF NoneBeats
    <3>1. n \in C /\ KeyAt(t, n, level) # Star /\ n \in Fitting(t, v, C)
      BY DEF Fitting, KeysOf, Among
    <3>2. CASE m \in H
      <4>1. FitAt(t, v, n, level) < FitAt(t, v, m, level)
        BY <3>1, <3>2, <2>6, <2>9
      <4> QED BY <4>1, <3>1, <3>2, <2>3, <2>8
    <3>3. CASE m \in R
      <4>1. m \in Fitting(t, v, R)
        BY <3>3 DEF Fitting
      <4> QED BY <3>1, <4>1 DEF Ready, NoneBeats
    <3> QED BY <3>2, <3>3 DEF Fitting
  <2>11. ASSUME NEW wanted \in SUBSET keys, Alike(t, level, wanted)
         PROVE  Leads(v, Select(wanted, default), Ends(t, v, Among(t, C, level, wanted) \cup (H \cup R)))
    <3>1. H \cup R \in SUBSET Variants(t)
      BY <2>3
    <3> HIDE DEF H, default
    <3> QED BY <2>7, <2>10, <2>11, <3>1, SelectLeads DEF Ready
  <2>12. Among(t, C, level, keys) \cup (H \cup R) = C \cup R
    <3>1. \A n \in C : n \in Among(t, C, level, keys) \/ n \in H
      BY DEF KeysOf, Having, KeyAt, Among
    <3> HIDE DEF H
    <3> QED BY <3>1, <2>3 DEF Among
  <2>13. CASE ~plural \/ keys \subseteq NumberKeys \/ keys \cap NumberKeys = {}
    <3>1. Alike(t, level, keys)
      BY <2>13 DEF Alike
    <3>2. Leads(v, Select(keys, default), Ends(t, v, C \cup R))
      <4> HIDE DEF Select, default, keys, H
      <4> QED BY <3>1, <2>11, <2>12
    <3> QED BY <1>1, <2>1, <2>2, <2>13, <3>2
\* Numbers are tried before categories.
  <2>14. CASE ~ (~plural \/ keys \subseteq NumberKeys \/ keys \cap NumberKeys = {})
    <3> DEFINE numbers == keys \cap NumberKeys
               categories == keys \ NumberKeys
               S == Among(t, C, level, categories) \cup (H \cup R)
    <3>1. Alike(t, level, numbers) /\ Alike(t, level, categories)
      BY DEF Alike
    <3>2. Leads(v, Select(categories, default), Ends(t, v, S))
      BY <3>1, <2>11
    <3>3. S \in SUBSET Variants(t)
      BY <2>3 DEF Among
    <3>4. ASSUME NEW m \in Fitting(t, v, S), NEW n \in Fitting(t, v, Among(t, C, level, numbers))
          PROVE  ~Beats(t, v, m, n)
      <4>1. n \in C /\ KeyAt(t, n, level) # Star /\ KeyAt(t, n, level) \in NumberKeys
        BY DEF Fitting, KeysOf, Among
      <4>2. CASE m \in Among(t, C, level, categories)
        <5>1. m \in C /\ KeyAt(t, m, level) # Star /\ KeyAt(t, m, level) \notin NumberKeys
          BY <4>2 DEF KeysOf, Among
        <5>2. FitAt(t, v, m, level) # 0 /\ FitAt(t, v, n, level) # 0
          BY DEF Fitting
        <5>3. FitAt(t, v, m, level) = 2 /\ FitAt(t, v, n, level) = 1
          BY <2>14, <4>1, <5>1, <5>2, FitIs
        <5> QED BY <4>1, <5>1, <5>3, <2>8
      <4>3. CASE m \in H \cup R
        <5>1. m \in Fitting(t, v, H \cup R)
          BY <4>3 DEF Fitting
        <5>2. NoneBeats(t, v, H \cup R, Among(t, C, level, numbers))
          <6> HIDE DEF H, keys
          <6> QED BY <2>10
        <5> QED BY <5>1, <5>2 DEF NoneBeats
      <4> QED BY <4>2, <4>3 DEF Fitting
    <3>5. NoneBeats(t, v, S, Among(t, C, level, numbers))
      BY <3>4 DEF NoneBeats
    <3>6. Leads(v, Select(numbers, Select(categories, default)), Ends(t, v, Among(t, C, level, numbers) \cup S))
      <4>1. numbers \in SUBSET keys
        OBVIOUS
      <4> DEFINE missing == Select(categories, default)
      <4> HIDE DEF S, missing, numbers, keys, categories
      <4>2. Leads(v, missing, Ends(t, v, S))
        BY <3>2 DEF missing
      <4>3. Leads(v, Select(numbers, missing), Ends(t, v, Among(t, C, level, numbers) \cup S))
        BY <4>1, <4>2, <3>1, <3>3, <3>5, SelectLeads DEF keys, Ready
      <4> QED BY <4>3 DEF missing
    <3>7. Among(t, C, level, numbers) \cup S = C \cup R
      <4>1. Among(t, C, level, numbers) \cup Among(t, C, level, categories) = Among(t, C, level, keys)
        BY DEF Among
      <4> HIDE DEF H, keys
      <4> QED BY <4>1, <2>12
    <3>8. BuildLevel(Build, t.selectors, t.arms, level, C, fallback)
            = Select(numbers, Select(categories, default))
      BY <2>2, <2>14
    <3> QED BY <1>1, <2>1, <3>6, <3>7, <3>8
  <2> QED BY <2>13, <2>14
<1> QED BY <1>2, <1>3

LEMMA BuildsAll ==
  ASSUME Recurs, NEW t \in Tables, NEW v
  PROVE  Builds(t, v, 1)
<1> DEFINE last == Len(t.selectors)
           S == {d \in 0..last : Builds(t, v, (last + 1) - d)}
<1>0. last \in Nat
  BY TableIs
<1>1. 0 \in S
  <2>1. (last + 1) - 0 = last + 1
    BY <1>0
  <2> QED BY <1>0, <2>1, BuildsLast
<1>2. ASSUME NEW d \in 0..(last - 1), d \in S PROVE d + 1 \in S
  <2>1. (last + 1) - (d + 1) \in Levels(t) /\ ((last + 1) - (d + 1)) + 1 = (last + 1) - d
    BY <1>0 DEF Levels
  <2>2. Builds(t, v, (last + 1) - (d + 1))
    <3>1. Builds(t, v, ((last + 1) - (d + 1)) + 1)
      BY <1>2, <2>1
    <3> QED BY <2>1, <3>1, BuildsLevel
  <2>3. d + 1 \in 0..last
    BY <1>0
  <2> QED BY <2>2, <2>3
<1>3. last \in S
  <2> HIDE DEF S
  <2>1. 0..last \subseteq S
    BY <1>0, <1>1, <1>2, UpTo
  <2> QED BY <1>0, <2>1
<1>4. (last + 1) - last = 1
  BY <1>0
<1> QED BY <1>3, <1>4

\* The selects of a table lead to its best variants, of which there are some.
LEMMA DispatchLeads ==
  ASSUME Recurs, NEW t \in Tables, NEW v
  PROVE  Leads(v, Dispatch(Build, t.selectors, t.arms), Ends(t, v, Variants(t)))
<1>1. Fitting(t, v, {}) = {}
  BY DEF Fitting
<1>2. InvalidExpr \in Ends(t, v, {}) /\ ~Choosing(InvalidExpr)
  BY <1>1 DEF Ends, InvalidExpr, Choosing
<1>3. Leads(v, InvalidExpr, Ends(t, v, {}))
  BY <1>2, LeadsHere
<1>4. Ready(t, v, 1, Variants(t), {})
  BY <1>1 DEF Ready, FitBefore, NoneBeats
<1>5. Variants(t) \cup {} = Variants(t)
  OBVIOUS
<1>6. Leads(v, Build(t.selectors, t.arms, 1, Variants(t), InvalidExpr), Ends(t, v, Variants(t)))
  BY <1>3, <1>4, <1>5, BuildsAll DEF Builds
<1> QED BY <1>6 DEF Dispatch, Variants

-----------------------------------------------------------------------------
(* The walk. *)

Inv == /\ table \in Tables
       /\ Leads(on, at, Ends(table, on, Variants(table)))

LEMMA InvHolds == ASSUME Recurs PROVE Spec => []Inv
<1>1. Init => Inv
  BY DispatchLeads DEF Init, Inv
<1>2. Inv /\ [Next]_vars => Inv'
  <2> SUFFICES ASSUME Inv, [Next]_vars PROVE Inv'
    OBVIOUS
  <2>1. CASE UNCHANGED vars
    BY <2>1 DEF Inv, vars
  <2>2. CASE Next
    <3>1. table' = table /\ on' = on /\ Choosing(at) /\ Follows(on, at, at')
      BY <2>2 DEF Next, TakeCase, TakeDefault, IsSelect, Fits, Choosing, Follows, Compared
    <3>2. Leads(on, at', Ends(table, on, Variants(table)))
      BY <3>1, LeadsOn DEF Inv
    <3> QED BY <3>1, <3>2 DEF Inv
  <2> QED BY <2>1, <2>2
<1> QED BY <1>1, <1>2, PTL DEF Spec

LEMMA BestIs ==
  ASSUME table \in Tables
  PROVE  BestArms = Unbeaten(table, on, Variants(table))
<1>0. Len(table.arms) \in Nat
  BY TableIs
<1> DEFINE fitness == [n \in 1..Len(table.arms) |-> FitOf(table.arms[n])]
<1>1. \A n \in Variants(table) : fitness[n] = Fitness(table, on, n)
  BY DEF FitOf, Fitness, FitAt, KeyAt, Levels, Variants
<1>2. Len(fitness) = Len(table.arms)
  BY <1>0
<1>3. \A n \in Variants(table) : /\ DOMAIN Fitness(table, on, n) = Levels(table)
                                 /\ \A k \in Levels(table) :
                                      Fitness(table, on, n)[k] = FitAt(table, on, n, k)
  BY DEF Fitness
<1> HIDE DEF fitness
<1>4. {n \in 1..Len(fitness) : \A k \in DOMAIN fitness[n] : fitness[n][k] # 0}
        = Fitting(table, on, Variants(table))
  BY <1>1, <1>2, <1>3 DEF Fitting, Variants
<1>5. Best(fitness) = Unbeaten(table, on, Variants(table))
  <2>1. Fitting(table, on, Variants(table)) \subseteq Variants(table)
    BY DEF Fitting
  <2> QED BY <1>1, <1>4, <2>1 DEF Best, Unbeaten, Beats
<1> QED BY <1>5 DEF BestArms, fitness

\* The walk of the selects ends in a best variant (BestVariantIsSelected): for
\* every table of variants with a catch-all, every function's way of comparing and
\* whatever the selectors resolve to.
THEOREM BestVariant == Recurs => (Spec => []BestVariantIsSelected)
<1> SUFFICES ASSUME Recurs PROVE Spec => []BestVariantIsSelected
  OBVIOUS
<1>1. Inv => BestVariantIsSelected
  <2> SUFFICES ASSUME Inv, ~IsSelect PROVE \E n \in BestArms : at = table.arms[n].parts
    BY DEF BestVariantIsSelected
  <2>1. at \in Ends(table, on, Variants(table))
    BY LeadsHere DEF Inv, IsSelect, Choosing
  <2>2. Fitting(table, on, Variants(table)) # {}
    <3>1. PICK n \in Variants(table) : \A k \in Levels(table) : KeyAt(table, n, k) = Star
      BY TableIs DEF Inv
    <3>2. \A k \in Levels(table) : FitAt(table, on, n, k) = 3
      BY <3>1, FitIs DEF Inv
    <3> QED BY <3>1, <3>2 DEF Fitting
  <2>3. BestArms = Unbeaten(table, on, Variants(table))
    BY BestIs DEF Inv
  <2> QED BY <2>1, <2>2, <2>3 DEF Ends
<1> QED BY <1>1, InvHolds, PTL
=============================================================================
