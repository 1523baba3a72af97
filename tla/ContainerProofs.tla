-------------------------- MODULE ContainerProofs ---------------------------
(***************************************************************************)
(* What the reader of a catalog file accepts, for every file: its search      *)
(* finds every message under its name and nothing else, and every message's    *)
(* code leads through sound instructions to a Halt.                            *)
(*                                                                         *)
(* The search is right because the names strictly ascend from entry to entry,  *)
(* hence along the table; the code because it was read from its first cell to  *)
(* its last, so that a message cannot pass the Halt after it.                   *)
(***************************************************************************)
EXTENDS Container, TLAPS, SequenceTheorems, WellFoundedInduction

-----------------------------------------------------------------------------
(* Numbers up to a bound. *)

LEMMA LeastOf ==
  ASSUME NEW T \in SUBSET Nat, T # {}
  PROVE  \E k \in T : \A m \in T : k <= m
<1> DEFINE less == {p \in Nat \X Nat : p[1] < p[2]}
<1>1. less = OpToRel(<, Nat)
  BY DEF OpToRel
<1>2. IsWellFoundedOn(less, Nat)
  BY <1>1, NatLessThanWellFounded
<1>3. PICK k \in T : \A m \in T : <<m, k>> \notin less
  <2> HIDE DEF less
  <2> QED BY <1>2, WFMin
<1>4. ASSUME NEW m \in T PROVE k <= m
  <2>1. m < k => <<m, k>> \in less
    OBVIOUS
  <2> QED BY <1>3, <2>1
<1> QED BY <1>4

LEMMA UpTo ==
  ASSUME NEW S, NEW last \in Nat, 0 \in S, \A n \in 0..(last - 1) : n \in S => n + 1 \in S
  PROVE  0..last \subseteq S
<1> SUFFICES ASSUME (0..last) \ S # {} PROVE FALSE
  OBVIOUS
<1>1. PICK k \in (0..last) \ S : \A m \in (0..last) \ S : k <= m
  <2>1. (0..last) \ S \in SUBSET Nat
    OBVIOUS
  <2> QED BY <2>1, LeastOf
<1>2. k # 0 /\ k - 1 \in 0..(last - 1) /\ k - 1 \in S /\ (k - 1) + 1 = k
  BY <1>1
<1> QED BY <1>1, <1>2

-----------------------------------------------------------------------------
(* The order of byte strings is a strict order, and total. *)

\* Byte strings.
Bytes == Seq(Nat)

LEMMA LessIrreflexive ==
  ASSUME NEW a \in Bytes
  PROVE  ~Less(a, a)
BY DEF Less, Bytes

LEMMA LessTransitive ==
  ASSUME NEW a \in Bytes, NEW b \in Bytes, NEW c \in Bytes, Less(a, b), Less(b, c)
  PROVE  Less(a, c)
<1>1. PICK k \in 1..Len(b) :
        (\A j \in 1..(k - 1) : j <= Len(a) /\ a[j] = b[j]) /\ (k <= Len(a) => a[k] < b[k])
  BY DEF Less
<1>2. PICK l \in 1..Len(c) :
        (\A j \in 1..(l - 1) : j <= Len(b) /\ b[j] = c[j]) /\ (l <= Len(b) => b[l] < c[l])
  BY DEF Less
<1>3. Len(a) \in Nat /\ Len(b) \in Nat /\ Len(c) \in Nat
  BY DEF Bytes
<1>4. /\ \A j \in 1..Len(a) : a[j] \in Nat
      /\ \A j \in 1..Len(b) : b[j] \in Nat
      /\ \A j \in 1..Len(c) : c[j] \in Nat
  BY DEF Bytes
<1>5. CASE l <= k
  <2>1. \A j \in 1..(l - 1) : j <= Len(a) /\ a[j] = c[j]
    BY <1>1, <1>2, <1>3, <1>5
  <2>2. l <= Len(a) => a[l] < c[l]
    BY <1>1, <1>2, <1>3, <1>4, <1>5
  <2> QED BY <2>1, <2>2 DEF Less
<1>6. CASE k < l
  <2>1. \A j \in 1..(k - 1) : j <= Len(a) /\ a[j] = c[j]
    BY <1>1, <1>2, <1>3, <1>6
  <2>2. k <= Len(a) => a[k] < c[k]
    BY <1>1, <1>2, <1>3, <1>4, <1>6
  <2>3. k \in 1..Len(c)
    BY <1>3, <1>6
  <2> QED BY <2>1, <2>2, <2>3 DEF Less
<1> QED BY <1>3, <1>5, <1>6

LEMMA LessTotal ==
  ASSUME NEW a \in Bytes, NEW b \in Bytes, a # b
  PROVE  Less(a, b) \/ Less(b, a)
<1>1. Len(a) \in Nat /\ Len(b) \in Nat
  BY DEF Bytes
<1> DEFINE T == {k \in Nat \ {0} : k > Len(a) \/ k > Len(b) \/ a[k] # b[k]}
<1>2. PICK k \in T : \A m \in T : k <= m
  <2>1. Len(a) + 1 \in T
    BY <1>1
  <2>2. T \in SUBSET Nat
    OBVIOUS
  <2> HIDE DEF T
  <2> QED BY <2>1, <2>2, LeastOf
<1>3. \A j \in 1..(k - 1) : j <= Len(a) /\ j <= Len(b) /\ a[j] = b[j]
  BY <1>1, <1>2
<1>4. CASE k > Len(a) /\ k > Len(b)
  <2>1. Len(a) = Len(b) /\ \A j \in 1..Len(a) : a[j] = b[j]
    <3>1. Len(a) < k /\ Len(b) < k /\ k - 1 <= Len(a) /\ k - 1 <= Len(b)
      BY <1>1, <1>3, <1>4
    <3> QED BY <1>1, <1>3, <3>1
  <2> QED BY <2>1, SeqEqual DEF Bytes
<1>5. CASE k > Len(a) /\ k <= Len(b)
  BY <1>1, <1>2, <1>3, <1>5 DEF Less
<1>6. CASE k <= Len(a) /\ k > Len(b)
  BY <1>1, <1>2, <1>3, <1>6 DEF Less
<1>7. CASE k <= Len(a) /\ k <= Len(b)
  <2>1. a[k] \in Nat /\ b[k] \in Nat /\ a[k] # b[k] /\ k \in 1..Len(a) /\ k \in 1..Len(b)
    BY <1>1, <1>2, <1>7 DEF Bytes
  <2>2. CASE a[k] < b[k]
    BY <1>3, <2>1, <2>2 DEF Less
  <2>3. CASE b[k] < a[k]
    BY <1>3, <2>1, <2>3 DEF Less
  <2> QED BY <2>1, <2>2, <2>3
<1> QED BY <1>1, <1>2, <1>4, <1>5, <1>6, <1>7

-----------------------------------------------------------------------------
(* The search. *)

SearchTables(catalog) ==
  /\ catalog.strings \in Seq(Bytes) /\ catalog.entries \in Seq(Nat \X Nat)
  /\ MessageTableIsSound(catalog.entries, catalog.strings)

LEMMA NamesTyped ==
  ASSUME NEW catalog, SearchTables(catalog), NEW n \in 1..Len(catalog.entries)
  PROVE  NameOf(catalog, n) \in Bytes
<1>1. n \in DOMAIN catalog.entries /\ catalog.entries[n][1] \in Nat
  BY DEF SearchTables
<1>2. catalog.entries[n][1] + 1 \in 1..Len(catalog.strings)
  BY <1>1 DEF SearchTables, MessageTableIsSound
<1>3. \A k \in 1..Len(catalog.strings) : catalog.strings[k] \in Bytes
  BY DEF SearchTables
<1> QED BY <1>2, <1>3 DEF NameOf

\* Ascending from one to the next, the names ascend along the whole table.
LEMMA NamesAscend ==
  ASSUME NEW catalog, SearchTables(catalog), NEW m \in 1..Len(catalog.entries),
         NEW n \in 1..Len(catalog.entries), m < n
  PROVE  Less(NameOf(catalog, m), NameOf(catalog, n))
<1> DEFINE count == Len(catalog.entries)
           N(k)  == NameOf(catalog, k)
           S     == {d \in Nat : m + 1 + d <= count => Less(N(m), N(m + 1 + d))}
<1>0. count \in Nat /\ m \in Nat
  BY DEF SearchTables
<1>1. ASSUME NEW k \in 1..(count - 1) PROVE Less(N(k), N(k + 1))
  <2>1. k + 1 \in 2..count /\ (k + 1) - 1 = k
    BY <1>0
  <2>2. Less(N((k + 1) - 1), N(k + 1))
    BY <2>1 DEF SearchTables, MessageTableIsSound, Ascends, NameOf
  <2> QED BY <2>1, <2>2
<1>2. ASSUME NEW k \in 1..count PROVE N(k) \in Bytes
  BY NamesTyped
<1> HIDE DEF count, N
<1>3. 0 \in S
  BY <1>0, <1>1
<1>4. ASSUME NEW d \in 0..(n - m - 2), d \in S PROVE d + 1 \in S
  <2>1. SUFFICES ASSUME m + 1 + (d + 1) <= count PROVE Less(N(m), N(m + 1 + (d + 1)))
    BY <1>0
  <2>2. /\ m + 1 + d \in 1..(count - 1) /\ m + 1 + d \in 1..count /\ (m + 1 + d) + 1 \in 1..count
        /\ (m + 1 + d) + 1 = m + 1 + (d + 1) /\ m \in 1..count
    BY <1>0, <2>1
  <2>3. Less(N(m), N(m + 1 + d)) /\ Less(N(m + 1 + d), N((m + 1 + d) + 1))
    BY <1>0, <1>1, <1>4, <2>2
  <2> QED BY <1>2, <2>2, <2>3, LessTransitive
<1>5. n - m - 1 \in Nat
  BY <1>0 DEF count
<1> HIDE DEF S
<1>6. n - m - 1 \in S
  BY <1>3, <1>4, <1>5, UpTo
<1>7. m + 1 + (n - m - 1) = n /\ n <= count
  BY <1>0 DEF count
<1> QED BY <1>6, <1>7 DEF S, N

\* left is what the probes leave of a table of count entries, one after the other.
Probing(left, catalog, id, count) ==
  left = [n \in 0..count |->
            IF n = 0 THEN [low |-> 1, high |-> count] ELSE Probed(catalog, id, left[n - 1])]

LEMMA ProbingExists ==
  ASSUME NEW catalog, NEW id, NEW count \in Nat
  PROVE  \E left : Probing(left, catalog, id, count)
<1> DEFINE Value(g, n) ==
             IF n = 0 THEN [low |-> 1, high |-> count] ELSE Probed(catalog, id, g[n - 1])
           S == {d \in 0..count : \E g : \A n \in 0..d : g[n] = Value(g, n)}
<1>1. 0 \in S
  <2> DEFINE e == [i \in {0} |-> [low |-> 1, high |-> count]]
  <2>1. e[0] = Value(e, 0)
    OBVIOUS
  <2>2. \A n \in 0..0 : e[n] = Value(e, n)
    <3> HIDE DEF e, Value
    <3> QED BY <2>1
  <2> HIDE DEF e, Value
  <2> QED BY <2>2
<1>2. ASSUME NEW d \in 0..(count - 1), d \in S PROVE d + 1 \in S
  <2>1. PICK g : \A n \in 0..d : g[n] = Value(g, n)
    BY <1>2
  <2> DEFINE h == [n \in 0..(d + 1) |-> IF n = d + 1 THEN Value(g, d + 1) ELSE g[n]]
  <2>2. ASSUME NEW n \in 0..(d + 1) PROVE h[n] = Value(h, n)
    <3>1. CASE n = 0
      BY <3>1, <2>1
    <3>2. CASE n # 0
      <4>1. n - 1 \in 0..d /\ n - 1 # d + 1 /\ h[n - 1] = g[n - 1]
        BY <3>2
      <4>2. Value(h, n) = Value(g, n)
        BY <4>1
      <4>3. n # d + 1 => g[n] = Value(g, n)
        BY <2>1
      <4>4. h[n] = Value(g, n)
        BY <4>3
      <4> QED BY <4>2, <4>4
    <3> QED BY <3>1, <3>2
  <2>3. d + 1 \in 0..count
    OBVIOUS
  <2> HIDE DEF h, Value
  <2> QED BY <2>2, <2>3
<1> HIDE DEF S
<1>3. 0..count \subseteq S
  BY <1>1, <1>2, UpTo
<1>4. PICK g : \A n \in 0..count : g[n] = Value(g, n)
  BY <1>3 DEF S
<1> DEFINE left == [n \in 0..count |-> g[n]]
<1>5. ASSUME NEW n \in 0..count PROVE left[n] = Value(left, n)
  <2>1. n # 0 => n - 1 \in 0..count /\ left[n - 1] = g[n - 1]
    OBVIOUS
  <2> QED BY <1>4, <2>1
<1>6. left = [n \in 0..count |-> Value(left, n)]
  <2>1. left = [n \in 0..count |-> left[n]]
    OBVIOUS
  <2> HIDE DEF left, Value
  <2> QED BY <1>5, <2>1
<1> QED BY <1>6 DEF Probing

\* After k probes what is outside the range is not the id, and the range is down by k
\* or its middle is the id.
Narrowed(catalog, id, range, k) ==
  LET count == Len(catalog.entries)
  IN /\ range.low \in 1..(count + 1) /\ range.high \in 0..count
     /\ range = [low |-> range.low, high |-> range.high]
     /\ \A n \in 1..count : n < range.low => Less(NameOf(catalog, n), id)
     /\ \A n \in 1..count : n > range.high => Less(id, NameOf(catalog, n))
     /\ range.low <= range.high =>
          \/ range.high - range.low + 1 <= count - k
          \/ NameOf(catalog, Middle(range)) = id

LEMMA MiddleWithin ==
  ASSUME NEW low \in Nat, NEW high \in Nat, low <= high
  PROVE  /\ (low + high) \div 2 \in Nat
         /\ low <= (low + high) \div 2 /\ (low + high) \div 2 <= high
OBVIOUS

LEMMA ProbeNarrows ==
  ASSUME NEW catalog, SearchTables(catalog), NEW id \in Bytes, NEW range, NEW k \in Nat,
         Narrowed(catalog, id, range, k)
  PROVE  Narrowed(catalog, id, Probed(catalog, id, range), k + 1)
<1> DEFINE count == Len(catalog.entries)
           middle == Middle(range)
           next == Probed(catalog, id, range)
<1> SUFFICES Narrowed(catalog, id, next, k + 1)
  OBVIOUS
<1>0. count \in Nat
  BY DEF SearchTables
<1>1. /\ range.low \in 1..(count + 1) /\ range.high \in 0..count
      /\ range = [low |-> range.low, high |-> range.high]
      /\ \A n \in 1..count : n < range.low => Less(NameOf(catalog, n), id)
      /\ \A n \in 1..count : n > range.high => Less(id, NameOf(catalog, n))
  BY DEF Narrowed
<1>2. CASE range.low > range.high
  <2>1. next = range
    BY <1>2 DEF Probed
  <2>2. ~(range.low <= range.high)
    BY <1>0, <1>1, <1>2
  <2> QED BY <1>1, <2>1, <2>2 DEF Narrowed
<1>3. CASE range.low <= range.high /\ NameOf(catalog, middle) = id
  <2>1. next = range
    BY <1>3 DEF Probed
  <2> QED BY <1>1, <1>3, <2>1 DEF Narrowed
<1>4. CASE range.low <= range.high /\ NameOf(catalog, middle) # id
  <2>1. middle \in Nat /\ range.low <= middle /\ middle <= range.high
    BY <1>0, <1>1, <1>4, MiddleWithin DEF Middle
  <2>2. middle \in 1..count
    BY <1>0, <1>1, <2>1
  <2>3. range.high - range.low + 1 <= count - k
    BY <1>4 DEF Narrowed
  <2>4. NameOf(catalog, middle) \in Bytes
    BY <2>2, NamesTyped
  <2>5. ~(range.low > range.high)
    BY <1>0, <1>1, <1>4
  <2>6. CASE Less(NameOf(catalog, middle), id)
    <3>1. next = [low |-> middle + 1, high |-> range.high]
      <4>1. next = [range EXCEPT !.low = middle + 1]
        BY <1>4, <2>5, <2>6 DEF Probed
      <4> HIDE DEF middle, next
      <4> QED BY <1>1, <4>1
    <3>2. next.low = middle + 1 /\ next.high = range.high
      <4> HIDE DEF next
      <4> QED BY <3>1
    <3>3. ASSUME NEW n \in 1..count, n < middle + 1 PROVE Less(NameOf(catalog, n), id)
      <4>1. CASE n = middle
        BY <4>1, <2>6
      <4>2. CASE n < middle
        <5>1. Less(NameOf(catalog, n), NameOf(catalog, middle))
          BY <4>2, <2>2, NamesAscend
        <5>2. NameOf(catalog, n) \in Bytes
          BY NamesTyped
        <5> QED BY <5>1, <5>2, <2>4, <2>6, LessTransitive
      <4> QED BY <1>0, <2>2, <3>3, <4>1, <4>2
    <3>4. range.high - (middle + 1) + 1 <= count - (k + 1)
      BY <1>0, <1>1, <2>1, <2>3
    <3>5. middle + 1 \in 1..(count + 1)
      BY <1>0, <2>2
    <3> HIDE DEF middle, next
    <3> QED BY <1>1, <3>1, <3>2, <3>3, <3>4, <3>5 DEF Narrowed, count
  <2>7. CASE ~Less(NameOf(catalog, middle), id)
    <3>1. next = [low |-> range.low, high |-> middle - 1]
      <4>1. next = [range EXCEPT !.high = middle - 1]
        BY <1>4, <2>5, <2>7 DEF Probed
      <4> HIDE DEF middle, next
      <4> QED BY <1>1, <4>1
    <3>2. next.low = range.low /\ next.high = middle - 1
      <4> HIDE DEF next
      <4> QED BY <3>1
    <3>3. Less(id, NameOf(catalog, middle))
      BY <1>4, <2>4, <2>7, LessTotal
    <3>4. ASSUME NEW n \in 1..count, n > middle - 1 PROVE Less(id, NameOf(catalog, n))
      <4>1. CASE n = middle
        BY <4>1, <3>3
      <4>2. CASE middle < n
        <5>1. Less(NameOf(catalog, middle), NameOf(catalog, n))
          BY <4>2, <2>2, NamesAscend
        <5>2. NameOf(catalog, n) \in Bytes
          BY NamesTyped
        <5> QED BY <5>1, <5>2, <2>4, <3>3, LessTransitive
      <4> QED BY <1>0, <2>2, <3>4, <4>1, <4>2
    <3>5. (middle - 1) - range.low + 1 <= count - (k + 1)
      BY <1>0, <1>1, <2>1, <2>3
    <3>6. middle - 1 \in 0..count
      BY <1>0, <2>2
    <3> HIDE DEF middle, next
    <3> QED BY <1>1, <3>1, <3>2, <3>4, <3>5, <3>6 DEF Narrowed, count
  <2> QED BY <2>6, <2>7
<1> QED BY <1>0, <1>1, <1>2, <1>3, <1>4

LEMMA SearchNarrows ==
  ASSUME NEW catalog, SearchTables(catalog), NEW id \in Bytes
  PROVE  Narrowed(catalog, id, Searched(catalog, id), Len(catalog.entries))
<1> DEFINE count == Len(catalog.entries)
<1>0. count \in Nat
  BY DEF SearchTables
<1>1. \E left : Probing(left, catalog, id, count)
  BY <1>0, ProbingExists
<1>2. PICK left : Probing(left, catalog, id, count) /\ Searched(catalog, id) = left[count]
  <2> DEFINE left == CHOOSE f : Probing(f, catalog, id, count)
  <2>1. Probing(left, catalog, id, count)
    BY <1>1
  <2>2. Searched(catalog, id) = left[count]
    BY DEF Searched, Probing
  <2> QED BY <2>1, <2>2
<1> DEFINE S == {k \in Nat : Narrowed(catalog, id, left[k], k)}
<1>3. left[0] = [low |-> 1, high |-> count] /\ 0 \in 0..count
  BY <1>0, <1>2 DEF Probing
<1>4. 0 \in S
  <2>1. Narrowed(catalog, id, left[0], 0)
    BY <1>0, <1>3 DEF Narrowed
  <2> QED BY <2>1
<1>5. ASSUME NEW k \in 0..(count - 1), k \in S PROVE k + 1 \in S
  <2>1. k + 1 \in 0..count /\ k + 1 # 0 /\ (k + 1) - 1 = k /\ k \in Nat
    BY <1>0
  <2>2. left[k + 1] = Probed(catalog, id, left[k])
    BY <1>2, <2>1 DEF Probing
  <2>3. Narrowed(catalog, id, left[k + 1], k + 1)
    BY <1>5, <2>1, <2>2, ProbeNarrows
  <2> QED BY <2>1, <2>3
<1> HIDE DEF S, count
<1>6. 0..count \subseteq S
  BY <1>0, <1>4, <1>5, UpTo
<1>7. count \in S
  BY <1>0, <1>6
<1> QED BY <1>2, <1>7 DEF S, count

LEMMA SearchIsRight ==
  ASSUME NEW catalog, SearchTables(catalog)
  PROVE  SearchFinds(catalog, Bytes)
<1> DEFINE count == Len(catalog.entries)
<1>0. count \in Nat /\ DOMAIN catalog.entries = 1..count
  BY DEF SearchTables
<1>1. ASSUME NEW id \in Bytes
      PROVE  LET range == Searched(catalog, id)
             IN IF range.low > range.high THEN \A n \in 1..count : NameOf(catalog, n) # id
                ELSE Middle(range) \in 1..count /\ NameOf(catalog, Middle(range)) = id
  <2> DEFINE range == Searched(catalog, id)
  <2>1. Narrowed(catalog, id, range, count)
    BY SearchNarrows
  <2> HIDE DEF range
  <2>2. range.low \in 1..(count + 1) /\ range.high \in 0..count
    BY <2>1 DEF Narrowed
  <2>3. CASE range.low > range.high
    <3>1. ASSUME NEW n \in 1..count PROVE NameOf(catalog, n) # id
      <4>1. n < range.low \/ n > range.high
        BY <1>0, <2>2, <2>3
      <4>2. Less(NameOf(catalog, n), id) \/ Less(id, NameOf(catalog, n))
        BY <2>1, <4>1 DEF Narrowed
      <4> QED BY <4>2, LessIrreflexive
    <3> QED BY <2>3, <3>1 DEF range
  <2>4. CASE range.low <= range.high
    <3>1. ~(range.low > range.high)
      BY <1>0, <2>2, <2>4
    <3>2. Middle(range) \in 1..count
      BY <1>0, <2>2, <2>4, MiddleWithin DEF Middle
    <3>3. ~(range.high - range.low + 1 <= count - count)
      BY <1>0, <2>2, <2>4
    <3>4. NameOf(catalog, Middle(range)) = id
      BY <2>1, <2>4, <3>3 DEF Narrowed
    <3> QED BY <3>1, <3>2, <3>4 DEF range
  <2> QED BY <1>0, <2>2, <2>3, <2>4
<1>2. ASSUME NEW n \in 1..count
      PROVE  MessagePc(catalog, NameOf(catalog, n)) = catalog.entries[n][2]
  <2> DEFINE id    == NameOf(catalog, n)
             range == Searched(catalog, id)
  <2>1. id \in Bytes
    BY NamesTyped
  <2>2. /\ ~(range.low > range.high)
        /\ Middle(range) \in 1..count /\ NameOf(catalog, Middle(range)) = id
    <3> HIDE DEF range
    <3> QED BY <1>1, <2>1 DEF range
  <2>3. Middle(range) = n
    <3> DEFINE m == Middle(range)
    <3>1. m < n => Less(id, id)
      BY <2>2, NamesAscend
    <3>2. n < m => Less(id, id)
      BY <2>2, NamesAscend
    <3>3. m \in 1..count
      BY <2>2
    <3> HIDE DEF m
    <3> QED BY <1>0, <2>1, <3>1, <3>2, <3>3, LessIrreflexive DEF m
  <2> QED BY <2>2, <2>3 DEF MessagePc
<1>3. ASSUME NEW id \in Bytes, \A n \in 1..count : NameOf(catalog, n) # id
      PROVE  MessagePc(catalog, id) = None
  BY <1>1, <1>3 DEF MessagePc
<1> QED BY <1>0, <1>2, <1>3 DEF SearchFinds

-----------------------------------------------------------------------------
(* What a file that is accepted is read as. *)

LEMMA AsSequence ==
  ASSUME NEW S, NEW count \in Nat, NEW g \in [1..count -> S]
  PROVE  <<>> \o g = g /\ g \in Seq(S) /\ Len(g) = count
<1>1. g \in Seq(S) /\ Len(g) = count
  OBVIOUS
<1> QED BY <1>1, ConcatEmptySeq

LEMMA PairsTyped ==
  ASSUME NEW body \in Bytes, HoldsPairs(body)
  PROVE  /\ Pairs(body, body[1]) \in Seq(Nat \X Nat)
         /\ Len(Pairs(body, body[1])) = body[1]
<1>1. body[1] \in Nat /\ \A n \in 1..body[1] : body[2 * n] \in Nat /\ body[2 * n + 1] \in Nat
  <2>1. body[1] \in Nat /\ 1 + 2 * body[1] <= Len(body) /\ Len(body) \in Nat
    BY DEF HoldsPairs, Bytes
  <2>2. \A n \in 1..body[1] : 2 * n \in 1..Len(body) /\ 2 * n + 1 \in 1..Len(body)
    BY <2>1
  <2>3. \A k \in 1..Len(body) : body[k] \in Nat
    BY DEF Bytes
  <2> QED BY <2>1, <2>2, <2>3
<1> DEFINE g == [n \in 1..body[1] |-> <<body[2 * n], body[2 * n + 1]>>]
<1>2. g \in [1..body[1] -> Nat \X Nat]
  BY <1>1
<1>3. Pairs(body, body[1]) = <<>> \o g
  BY DEF Pairs, Numbered
<1> HIDE DEF g
<1> QED BY <1>1, <1>2, <1>3, AsSequence

LEMMA StringsTyped ==
  ASSUME NEW body \in Bytes, StringsAreSound(body)
  PROVE  DecodedStrings(body) \in Seq(Bytes)
<1> DEFINE count   == body[1]
           pairs   == Pairs(body, count)
           letters == SubSeq(body, 2 + 2 * count, Len(body))
           Text(pair) == SubSeq(letters, pair[1] + 1, pair[1] + pair[2])
<1>1. HoldsPairs(body)
  BY DEF StringsAreSound
<1>2. /\ pairs \in Seq(Nat \X Nat) /\ Len(pairs) = count
      /\ count \in Nat /\ Len(body) \in Nat /\ 1 + 2 * count <= Len(body)
  BY <1>1, PairsTyped DEF HoldsPairs, Bytes
<1>3. letters \in Bytes /\ Len(letters) = Len(body) - (1 + 2 * count)
  <2>0. count \in Nat /\ Len(body) \in Nat /\ 1 + 2 * count <= Len(body)
    BY <1>2
  <2>1. \A i \in (2 + 2 * count)..Len(body) : body[i] \in Nat
    <3> HIDE DEF count
    <3>1. \A i \in (2 + 2 * count)..Len(body) : i \in 1..Len(body)
      BY <2>0
    <3> QED BY <3>1 DEF Bytes
  <2>2. /\ letters \in Seq(Nat)
        /\ Len(letters) = IF 2 + 2 * count <= Len(body) THEN Len(body) - (2 + 2 * count) + 1 ELSE 0
    <3>1. 2 + 2 * count \in Int /\ Len(body) \in Int
      BY <1>2
    <3> HIDE DEF count
    <3> QED BY <2>1, <3>1, SubSeqProperties
  <2>3. (IF 2 + 2 * count <= Len(body) THEN Len(body) - (2 + 2 * count) + 1 ELSE 0)
          = Len(body) - (1 + 2 * count)
    <3> HIDE DEF count
    <3>1. CASE 2 + 2 * count <= Len(body)
      BY <2>0, <3>1
    <3>2. CASE ~(2 + 2 * count <= Len(body))
      <4>1. Len(body) = 1 + 2 * count
        BY <2>0, <3>2
      <4> QED BY <2>0, <3>2, <4>1
    <3> QED BY <3>1, <3>2
  <2> HIDE DEF letters, count
  <2> QED BY <2>2, <2>3 DEF Bytes
<1>4. ASSUME NEW n \in 1..count PROVE Text(pairs[n]) \in Bytes
  <2>1. pairs[n] \in Nat \X Nat /\ pairs[n] \in ToSet(pairs)
    <3>1. DOMAIN pairs = 1..count
      BY <1>2
    <3> HIDE DEF pairs, count
    <3> QED BY <1>2, <3>1 DEF ToSet
  <2>2. pairs[n][1] + pairs[n][2] <= Len(letters)
    BY <1>3, <2>1 DEF StringsAreSound
  <2> HIDE DEF letters, pairs, count
  <2>3. \A i \in (pairs[n][1] + 1)..(pairs[n][1] + pairs[n][2]) : letters[i] \in Nat
    BY <1>3, <2>1, <2>2 DEF Bytes
  <2>4. pairs[n][1] + 1 \in Int /\ pairs[n][1] + pairs[n][2] \in Int
    BY <2>1
  <2> QED BY <2>3, <2>4, SubSeqProperties DEF Bytes
<1> DEFINE g == [n \in DOMAIN pairs |-> Text(pairs[n])]
<1>5. DecodedStrings(body) = <<>> \o g
  BY DEF DecodedStrings, Mapped
<1>6. DOMAIN pairs = 1..count
  BY <1>2
<1>7. g \in [1..count -> Bytes]
  <2> HIDE DEF pairs, count, Text
  <2> QED BY <1>4, <1>6
<1> HIDE DEF g, count
<1> QED BY <1>2, <1>5, <1>7, AsSequence

\* The cells of a chunk are cells of the file.
LEMMA BodyTyped ==
  ASSUME NEW file \in Bytes, HeaderIsSound(file), ChunksAreSound(file),
         NEW tag \in {STRS, MSGS, CODE}
  PROVE  Body(file, tag) \in Bytes
<1> DEFINE count   == file[5]
           At(n)   == file[6] + EntryLen * (n - 1)
           g       == [n \in 1..count |-> [tag   |-> file[At(n) + 1], start |-> file[At(n) + 2],
                                           end   |-> file[At(n) + 2] + file[At(n) + 3]]]
           entries == Entries(file)
           tagged  == {n \in DOMAIN entries : entries[n].tag = tag}
           n       == CHOOSE n \in tagged : TRUE
<1>1. /\ Len(file) \in Nat /\ 6 <= Len(file) /\ count \in Nat /\ file[6] \in Nat
      /\ \A k \in 1..Len(file) : file[k] \in Nat
  BY DEF HeaderIsSound, HeaderLen, Bytes
<1>2. file[6] + 4 * count <= Len(file)
  BY DEF HeaderIsSound, EntryLen
<1>3. ASSUME NEW k \in 1..count
      PROVE  file[At(k) + 2] \in Nat /\ file[At(k) + 3] \in Nat
  <2>1. At(k) + 2 \in 1..Len(file) /\ At(k) + 3 \in 1..Len(file)
    <3> HIDE DEF count
    <3> QED BY <1>1, <1>2 DEF EntryLen
  <2> HIDE DEF At
  <2> QED BY <1>1, <2>1
<1>4. entries = <<>> \o g
  BY DEF Entries, Numbered
<1>5. entries = g
  <2> DEFINE S == {g[k] : k \in 1..count}
  <2>1. g \in [1..count -> S]
    <3> HIDE DEF count, At
    <3> QED OBVIOUS
  <2> HIDE DEF g, S, count, entries
  <2> QED BY <1>1, <1>4, <2>1, AsSequence
<1>6. tagged # {} /\ \A k \in DOMAIN entries : entries[k].end <= Len(file)
  BY DEF ChunksAreSound
<1>7. n \in tagged
  <2> HIDE DEF tagged
  <2> QED BY <1>6
<1>8. n \in 1..count
  <2> HIDE DEF n
  <2> QED BY <1>5, <1>7
<1>9. entries[n].start \in Nat /\ entries[n].end \in Nat /\ entries[n].end <= Len(file)
  <2>1. g[n].start = file[At(n) + 2] /\ g[n].end = file[At(n) + 2] + file[At(n) + 3]
    <3> HIDE DEF n, At, count
    <3> QED BY <1>8
  <2>2. n \in DOMAIN entries
    BY <1>7
  <2> HIDE DEF n, g, At, count, entries, tagged
  <2> QED BY <1>3, <1>5, <1>6, <1>8, <2>1, <2>2
<1>10. Body(file, tag) = SubSeq(file, entries[n].start + 1, entries[n].end)
  BY <1>6 DEF Body, Slice
<1> HIDE DEF n, entries
<1>11. \A i \in (entries[n].start + 1)..entries[n].end : file[i] \in Nat
  BY <1>1, <1>9
<1>12. entries[n].start + 1 \in Int /\ entries[n].end \in Int
  BY <1>9
<1> QED BY <1>10, <1>11, <1>12, SubSeqProperties DEF Bytes

\* Files, damaged or not: any cells at all.
Files == Seq(Nat)

\* What is accepted is typed, and has passed all that is required of it.
LEMMA Accepted ==
  ASSUME NEW file \in Files, FromBytes(file) # None
  PROVE  LET catalog == FromBytes(file)
         IN /\ SearchTables(catalog)
            /\ catalog.code \in Seq(Nat)
            /\ CodeIsVerified(catalog, Boundaries(catalog))
<1> DEFINE strs     == Body(file, STRS)
           msgs     == Body(file, MSGS)
           coded    == Body(file, CODE)
           literals == Body(file, LITS)
           funcs    == FuncsOf(file)
           catalog  == Decoded(strs, msgs, coded, literals, funcs)
<1>1. HeaderIsSound(file) /\ ChunksAreSound(file)
  BY DEF FromBytes
<1>2. FromBytes(file) = FromBodies(strs, msgs, coded, literals, funcs)
  BY <1>1 DEF FromBytes
<1>3. strs \in Bytes /\ msgs \in Bytes /\ coded \in Bytes
  BY <1>1, BodyTyped DEF Bytes, Files
<1> HIDE DEF strs, msgs, coded, literals, funcs
<1>4. BodiesAreSound(strs, msgs, coded, funcs) /\ FromBytes(file) = Verified(catalog)
  BY <1>2 DEF FromBodies
<1>5. /\ catalog.strings = DecodedStrings(strs) /\ catalog.entries = Pairs(msgs, msgs[1])
      /\ catalog.code = SubSeq(coded, 2, 1 + coded[1])
  BY DEF Decoded
<1> HIDE DEF catalog
<1>6. /\ MessageTableIsSound(catalog.entries, catalog.strings)
      /\ CodeIsVerified(catalog, Boundaries(catalog))
      /\ FromBytes(file) = catalog
  BY <1>4 DEF Verified
<1>7. catalog.strings \in Seq(Bytes) /\ catalog.entries \in Seq(Nat \X Nat)
  BY <1>3, <1>4, <1>5, StringsTyped, PairsTyped DEF BodiesAreSound
<1>8. catalog.code \in Seq(Nat)
  <2>1. Len(coded) \in Nat /\ coded[1] \in Nat /\ 1 + coded[1] <= Len(coded)
    BY <1>3, <1>4 DEF BodiesAreSound, CodeIsSound, Bytes
  <2>2. \A i \in 2..(1 + coded[1]) : coded[i] \in Nat
    BY <1>3, <2>1 DEF Bytes
  <2>3. 1 + coded[1] \in Int
    BY <2>1
  <2> QED BY <1>5, <2>2, <2>3, SubSeqProperties
<1> QED BY <1>6, <1>7, <1>8 DEF SearchTables

\* For every file that Catalog::from_bytes accepts, message_pc finds every message
\* under its name and nothing under any other id: the binary search is right because
\* validate_message_table has seen the names ascend.
THEOREM AcceptedIsSearched ==
  \A file \in Files : FromBytes(file) # None => SearchFinds(FromBytes(file), Bytes)
BY Accepted, SearchIsRight

-----------------------------------------------------------------------------
(* The code. *)

LEMMA WidthTyped ==
  ASSUME NEW opcode
  PROVE  WidthOf(opcode) \in Nat /\ WidthOf(opcode) > 0
BY DEF WidthOf, Halt, OutSlice

\* The rest of the code, read from pc on, with rest read from the next instruction on.
Begun(catalog, pc, rest) ==
  IF pc = Len(catalog.code) THEN {}
  ELSE IF ~InstructionIsSound(catalog, pc) THEN None
  ELSE IF rest = None THEN None ELSE {pc} \union rest

\* from is where instructions begin, from every cell on, as verify_code reads them.
Reading(from, catalog) ==
  from = [pc \in 0..Len(catalog.code) |-> Begun(catalog, pc, from[NextPc(catalog, pc)])]

LEMMA BegunDepends ==
  ASSUME NEW catalog, NEW pc, NEW r, NEW s,
         pc # Len(catalog.code) /\ InstructionIsSound(catalog, pc) => r = s
  PROVE  Begun(catalog, pc, r) = Begun(catalog, pc, s)
BY DEF Begun

LEMMA NextAfter ==
  ASSUME NEW catalog, NEW pc \in Nat
  PROVE  NextPc(catalog, pc) \in Nat /\ NextPc(catalog, pc) > pc
BY WidthTyped DEF NextPc

LEMMA ReadingExists ==
  ASSUME NEW catalog, catalog.code \in Seq(Nat)
  PROVE  \E from : Reading(from, catalog)
<1> DEFINE last == Len(catalog.code)
           Value(g, pc) == Begun(catalog, pc, g[NextPc(catalog, pc)])
           S == {d \in 0..last : \E g : \A pc \in (last - d)..last : g[pc] = Value(g, pc)}
<1>0. last \in Nat
  OBVIOUS
<1> HIDE DEF last
<1>1. 0 \in S
  <2> DEFINE e == [pc \in {last} |-> {}]
  <2>1. e[last] = Value(e, last)
    BY DEF Begun, last
  <2>2. \A pc \in (last - 0)..last : pc = last
    BY <1>0
  <2> HIDE DEF e, Value
  <2> QED BY <1>0, <2>1, <2>2
<1>2. ASSUME NEW d \in 0..(last - 1), d \in S PROVE d + 1 \in S
  <2>1. PICK g : \A pc \in (last - d)..last : g[pc] = Value(g, pc)
    BY <1>2
  <2> DEFINE first == last - (d + 1)
             h == [pc \in first..last |-> IF pc = first THEN Value(g, first) ELSE g[pc]]
  <2>2. first \in Nat /\ first + 1 = last - d /\ first < last
    BY <1>0
  <2> HIDE DEF first
  <2>3. ASSUME NEW pc \in first..last PROVE h[pc] = Value(h, pc)
    <3>1. Value(h, pc) = Value(g, pc)
      <4> DEFINE next == NextPc(catalog, pc)
      <4>1. next \in Nat /\ next > pc
        BY <2>2, NextAfter
      <4>2. ASSUME InstructionIsSound(catalog, pc) PROVE h[next] = g[next]
        <5>1. next <= last
          BY <4>2 DEF InstructionIsSound, last
        <5>2. next \in first..last /\ next # first
          BY <1>0, <2>2, <4>1, <5>1
        <5> HIDE DEF next
        <5> QED BY <5>2
      <4> QED BY <4>2, BegunDepends
    <3>2. pc # first => pc \in (last - d)..last
      BY <1>0, <2>2
    <3>3. h[pc] = Value(g, pc)
      <4> HIDE DEF Value
      <4> QED BY <2>1, <3>2
    <3> QED BY <3>1, <3>3
  <2>4. d + 1 \in 0..last /\ first..last = (last - (d + 1))..last
    BY <1>0 DEF first
  <2> HIDE DEF h, Value
  <2> QED BY <2>3, <2>4
<1> HIDE DEF S
<1>3. 0..last \subseteq S
  BY <1>0, <1>1, <1>2, UpTo
<1>4. PICK g : \A pc \in 0..last : g[pc] = Value(g, pc)
  <2>1. last \in S /\ (last - last)..last = 0..last
    BY <1>0, <1>3
  <2> HIDE DEF Value
  <2> QED BY <2>1 DEF S
<1> DEFINE from == [pc \in 0..last |-> g[pc]]
<1>5. ASSUME NEW pc \in 0..last PROVE from[pc] = Value(from, pc)
  <2> DEFINE next == NextPc(catalog, pc)
  <2>1. ASSUME InstructionIsSound(catalog, pc) PROVE from[next] = g[next]
    <3>1. next \in Nat /\ next <= last
      BY <1>0, <2>1, NextAfter DEF InstructionIsSound, last
    <3>2. next \in 0..last
      BY <1>0, <3>1
    <3> HIDE DEF next
    <3> QED BY <3>2
  <2>2. Value(from, pc) = Value(g, pc)
    <3> HIDE DEF from
    <3> QED BY <2>1, BegunDepends
  <2>3. from[pc] = g[pc]
    OBVIOUS
  <2> HIDE DEF from, Value
  <2> QED BY <1>4, <2>2, <2>3
<1>6. from = [pc \in 0..last |-> Value(from, pc)]
  <2>1. from = [pc \in 0..last |-> from[pc]]
    OBVIOUS
  <2> HIDE DEF from, Value
  <2> QED BY <1>5, <2>1
<1>7. Reading(from, catalog)
  BY <1>6 DEF Reading, last
<1> QED BY <1>7

\* starts are where the instructions from first on begin: they are sound, each is
\* followed by the next, and none begins within another.
ReadFrom(catalog, starts, first) ==
  LET last == Len(catalog.code)
  IN /\ \A pc \in starts :
          /\ pc \in Nat /\ first <= pc /\ pc < last
          /\ InstructionIsSound(catalog, pc)
          /\ NextPc(catalog, pc) = last \/ NextPc(catalog, pc) \in starts
     /\ \A pc, later \in starts : pc < later => NextPc(catalog, pc) <= later
     /\ first = last \/ first \in starts

LEMMA ReadOn ==
  ASSUME NEW catalog, catalog.code \in Seq(Nat), NEW pc \in Nat, pc < Len(catalog.code),
         InstructionIsSound(catalog, pc), NEW rest,
         ReadFrom(catalog, rest, NextPc(catalog, pc))
  PROVE  ReadFrom(catalog, {pc} \union rest, pc)
<1> DEFINE last == Len(catalog.code)
           next == NextPc(catalog, pc)
           starts == {pc} \union rest
<1>0. last \in Nat /\ next \in Nat /\ next > pc
  BY NextAfter
<1>1. /\ \A p \in rest :
          /\ p \in Nat /\ next <= p /\ p < last
          /\ InstructionIsSound(catalog, p)
          /\ NextPc(catalog, p) = last \/ NextPc(catalog, p) \in rest
  BY DEF ReadFrom
<1>2. \A p, later \in rest : p < later => NextPc(catalog, p) <= later
  BY DEF ReadFrom
<1>3. next = last \/ next \in rest
  BY DEF ReadFrom
<1>4. ASSUME NEW p \in starts
      PROVE  /\ p \in Nat /\ pc <= p /\ p < last
             /\ InstructionIsSound(catalog, p)
             /\ NextPc(catalog, p) = last \/ NextPc(catalog, p) \in starts
  <2>1. CASE p = pc
    <3>1. pc \in Nat /\ pc <= pc /\ pc < last /\ InstructionIsSound(catalog, pc)
      BY <1>0
    <3>2. next = last \/ next \in starts
      <4> HIDE DEF next, last
      <4> QED BY <1>3
    <3> HIDE DEF starts, last
    <3> QED BY <2>1, <3>1, <3>2
  <2>2. CASE p \in rest
    <3> HIDE DEF next, last
    <3>1. p \in Nat /\ next <= p
      BY <1>1, <2>2
    <3>2. pc <= p
      BY <1>0, <3>1
    <3> QED BY <1>1, <2>2, <3>2
  <2> QED BY <2>1, <2>2
<1>5. ASSUME NEW p \in starts, NEW later \in starts, p < later
      PROVE  NextPc(catalog, p) <= later
  <2>1. p = pc => later # pc
    BY <1>5
  <2>2. CASE p = pc
    BY <1>1, <2>1, <2>2
  <2>3. CASE p \in rest
    <3>1. later # pc
      <4> HIDE DEF next, last
      <4>1. p \in Nat /\ next <= p
        BY <1>1, <2>3
      <4> QED BY <1>0, <1>5, <4>1
    <3>2. later \in rest
      BY <3>1
    <3> HIDE DEF next, last, starts
    <3> QED BY <1>2, <1>5, <2>3, <3>2
  <2> QED BY <2>2, <2>3
<1> HIDE DEF starts
<1>6. pc \in starts
  BY DEF starts
<1> QED BY <1>4, <1>5, <1>6 DEF ReadFrom, starts

LEMMA BoundariesAreRead ==
  ASSUME NEW catalog, catalog.code \in Seq(Nat), Boundaries(catalog) # None
  PROVE  ReadFrom(catalog, Boundaries(catalog), 0)
<1> DEFINE last == Len(catalog.code)
<1>0. last \in Nat
  OBVIOUS
<1>1. PICK from : Reading(from, catalog) /\ Boundaries(catalog) = from[0]
  <2> DEFINE from == CHOOSE f : Reading(f, catalog)
  <2>1. Reading(from, catalog)
    BY ReadingExists
  <2>2. Boundaries(catalog) = from[0]
    BY DEF Boundaries, Reading, Begun
  <2> QED BY <2>1, <2>2
<1> HIDE DEF last
<1> DEFINE S == {d \in 0..last : \A pc \in (last - d)..last :
                    from[pc] # None => ReadFrom(catalog, from[pc], pc)}
<1>2. ASSUME NEW pc \in 0..last PROVE from[pc] = Begun(catalog, pc, from[NextPc(catalog, pc)])
  BY <1>1 DEF Reading, last
<1>3. 0 \in S
  <2>1. from[last] = {}
    <3>1. from[last] = Begun(catalog, last, from[NextPc(catalog, last)])
      BY <1>0, <1>2
    <3> QED BY <3>1 DEF Begun, last
  <2>2. ReadFrom(catalog, from[last], last)
    BY <2>1 DEF ReadFrom, last
  <2>3. \A pc \in (last - 0)..last : pc = last
    BY <1>0
  <2> QED BY <1>0, <2>2, <2>3
<1>4. ASSUME NEW d \in 0..(last - 1), d \in S PROVE d + 1 \in S
  <2> DEFINE pc   == last - (d + 1)
             next == NextPc(catalog, pc)
  <2>1. pc \in Nat /\ pc < last /\ pc + 1 = last - d
    BY <1>0
  <2> HIDE DEF pc
  <2>2. ASSUME from[pc] # None PROVE ReadFrom(catalog, from[pc], pc)
    <3>1. /\ InstructionIsSound(catalog, pc) /\ from[next] # None
          /\ from[pc] = {pc} \union from[next]
      <4>1. pc \in 0..last /\ pc # last
        BY <1>0, <2>1
      <4> QED BY <1>2, <2>2, <4>1 DEF Begun, last
    <3>2. next \in (last - d)..last
      <4>1. next \in Nat /\ next > pc
        BY <2>1, NextAfter
      <4>2. next <= last
        BY <3>1 DEF InstructionIsSound, last
      <4> HIDE DEF next
      <4> QED BY <1>0, <2>1, <4>1, <4>2
    <3>3. ReadFrom(catalog, from[next], next)
      <4> HIDE DEF next
      <4> QED BY <1>4, <3>1, <3>2
    <3> QED BY <2>1, <3>1, <3>3, ReadOn DEF last
  <2>3. \A p \in (last - (d + 1))..last : p = pc \/ p \in (last - d)..last
    BY <1>0 DEF pc
  <2>4. d + 1 \in 0..last
    BY <1>0
  <2>5. \A p \in (last - d)..last : from[p] # None => ReadFrom(catalog, from[p], p)
    BY <1>4
  <2> QED BY <2>2, <2>3, <2>4, <2>5
<1> HIDE DEF S
<1>5. 0..last \subseteq S
  BY <1>0, <1>3, <1>4, UpTo
<1>6. last \in S /\ 0 \in (last - last)..last
  BY <1>0, <1>5
<1> QED BY <1>1, <1>6 DEF S

\* From start on instructions are sound and within the code, up to a Halt: as every
\* instruction ends after it begins, a path that stays within the code gets to one.
EndsInHalt(catalog, start) ==
  \E path \in SUBSET (0..(Len(catalog.code) - 1)) :
    /\ start \in path
    /\ \A pc \in path :
         /\ InstructionIsSound(catalog, pc)
         /\ catalog.code[pc + 1] = Halt \/ NextPc(catalog, pc) \in path

LEMMA VerifiedEnds ==
  ASSUME NEW catalog, catalog.code \in Seq(Nat), CodeIsVerified(catalog, Boundaries(catalog)),
         NEW entry \in ToSet(catalog.entries)
  PROVE  EndsInHalt(catalog, entry[2])
<1> DEFINE starts == Boundaries(catalog)
           last   == Len(catalog.code)
<1>1. starts # None /\ entry[2] \in starts
  BY DEF CodeIsVerified
<1>2. PICK end \in starts : end >= entry[2] /\ catalog.code[end + 1] = Halt
  BY DEF CodeIsVerified
<1>3. ReadFrom(catalog, starts, 0)
  BY <1>1, BoundariesAreRead
<1> HIDE DEF starts
<1> DEFINE path == {pc \in starts : pc <= end}
<1>4. last \in Nat /\ \A pc \in starts : pc \in Nat /\ pc < last
  BY <1>3 DEF ReadFrom
<1>5. path \in SUBSET (0..(last - 1))
  BY <1>4
<1>6. entry[2] \in path
  BY <1>1, <1>2, <1>4
<1>7. ASSUME NEW pc \in path
      PROVE  /\ InstructionIsSound(catalog, pc)
             /\ catalog.code[pc + 1] = Halt \/ NextPc(catalog, pc) \in path
  <2>1. InstructionIsSound(catalog, pc)
    BY <1>3 DEF ReadFrom
  <2>2. CASE pc = end
    BY <1>2, <2>1, <2>2
  <2>3. CASE pc < end
    <3>1. NextPc(catalog, pc) <= end
      BY <1>3, <2>3 DEF ReadFrom
    <3>2. NextPc(catalog, pc) # last
      BY <1>4, <3>1
    <3>3. NextPc(catalog, pc) \in starts
      BY <1>3, <3>2 DEF ReadFrom
    <3> QED BY <2>1, <3>1, <3>3
  <2> QED BY <1>4, <2>2, <2>3
<1> QED BY <1>5, <1>6, <1>7 DEF EndsInHalt

\* In every file that Catalog::from_bytes accepts, every message's code is sound
\* instructions, whose operands are in the tables they refer to, up to a Halt within
\* the code: what verify_code and validate_instruction_operands are there for.
THEOREM AcceptedIsShown ==
  \A file \in Files : FromBytes(file) # None =>
      \A entry \in ToSet(FromBytes(file).entries) : EndsInHalt(FromBytes(file), entry[2])
BY Accepted, VerifiedEnds

=============================================================================
