--------------------------- MODULE CountingLemmas ---------------------------
(***************************************************************************)
(* Facts the proofs of several modules need: bounded sets of integers have *)
(* a least and a greatest element, a step on counts leads to a bound,      *)
(* functions given by recursion exist, and how the counts of a fixed window *)
(* develop.                                                                *)
(***************************************************************************)
EXTENDS Integers, WellFoundedInduction, TLAPS

Below == {p \in Nat \X Nat : p[1] < p[2]}

LEMMA BelowWellFounded == IsWellFoundedOn(Below, Nat)
<1>1. Below = OpToRel(<, Nat)
  BY DEF Below, OpToRel
<1>2. QED
  BY <1>1, NatLessThanWellFounded

\* A set of numbers above a bound has a least one.
LEMMA LeastExists ==
    ASSUME NEW m \in Int, NEW S, S \subseteq Int, S # {}, \A x \in S : x >= m
    PROVE  \E x \in S : \A y \in S : x <= y
<1> DEFINE T == {x - m : x \in S}
<1>1. T \subseteq Nat /\ T # {}
  <2>1. ASSUME NEW x \in S PROVE x - m \in Nat
    BY x \in Int, x >= m
  <2>2. T \subseteq Nat
    BY <2>1
  <2>3. PICK x : x \in S
    OBVIOUS
  <2>4. x - m \in T
    BY <2>3
  <2>5. QED
    BY <2>2, <2>4
<1>2. PICK n \in T : \A k \in T : ~ (<<k, n>> \in Below)
  <2> HIDE DEF T
  <2>1. QED
    BY <1>1, BelowWellFounded, WFMin, Zenon
<1>3. PICK x \in S : n = x - m
  BY <1>2
<1>4. ASSUME NEW y \in S PROVE x <= y
  <2>1. y - m \in T
    OBVIOUS
  <2>2. ~ (y - m < x - m)
    BY <1>1, <1>2, <1>3, <2>1 DEF Below
  <2>3. x \in Int /\ y \in Int
    OBVIOUS
  <2>4. QED
    BY <2>2, <2>3
<1>5. QED
  BY <1>3, <1>4

\* A set of numbers below a bound has a greatest one.
LEMMA GreatestExists ==
    ASSUME NEW m \in Int, NEW S, S \subseteq Int, S # {}, \A x \in S : x <= m
    PROVE  \E x \in S : \A y \in S : y <= x
<1> DEFINE T == {-x : x \in S}
<1>1. T \subseteq Int /\ T # {} /\ \A z \in T : z >= -m
  <2>1. ASSUME NEW x \in S PROVE -x \in Int /\ -x >= -m
    BY x \in Int, x <= m
  <2>2. T \subseteq Int /\ \A z \in T : z >= -m
    BY <2>1
  <2>3. PICK x : x \in S
    OBVIOUS
  <2>4. -x \in T
    BY <2>3
  <2>5. QED
    BY <2>2, <2>4
<1>2. PICK z \in T : \A k \in T : z <= k
  <2> HIDE DEF T
  <2>1. -m \in Int
    OBVIOUS
  <2>2. QED
    BY <1>1, <2>1, LeastExists, Zenon
<1>3. PICK x \in S : z = -x
  BY <1>2
<1>4. ASSUME NEW y \in S PROVE y <= x
  <2>1. -y \in T /\ x \in Int /\ y \in Int
    OBVIOUS
  <2>2. -x <= -y
    BY <1>2, <1>3, <2>1
  <2>3. QED
    BY <2>1, <2>2
<1>5. QED
  BY <1>3, <1>4

\* A function given by its first value and a step exists.
Follows(f, n, first, next) ==
    \A i \in 0..n : f[i] = IF i = 0 THEN first ELSE next[<<f[i - 1], i>>]

LEMMA RecursionExists ==
    ASSUME NEW n \in Nat, NEW T, NEW first \in T, NEW next \in [T \X (1..n) -> T]
    PROVE  \E f \in [0..n -> T] : Follows(f, n, first, next)
<1> USE DEF Follows
<1> DEFINE Good(k) == \E f \in [0..k -> T] : Follows(f, k, first, next)
           Bad == {k \in 0..n : ~Good(k)}
<1>1. CASE Bad = {}
  <2>1. n \in 0..n
    OBVIOUS
  <2>2. Good(n)
    <3> HIDE DEF Good
    <3>1. QED
      BY <1>1, <2>1
  <2>3. QED
    BY <2>2
<1>2. CASE Bad # {}
  <2>1. PICK k \in Bad : \A j \in Bad : k <= j
    <3>1. Bad \subseteq Int /\ (\A j \in Bad : j >= 0) /\ 0 \in Int
      OBVIOUS
    <3> HIDE DEF Bad
    <3>2. QED
      BY <1>2, <3>1, LeastExists, Zenon
  <2>2. CASE k = 0
    <3> DEFINE f == [i \in 0..0 |-> first]
    <3>1. f \in [0..0 -> T] /\ \A i \in 0..0 : i = 0 /\ f[i] = first
      OBVIOUS
    <3> HIDE DEF f
    <3>2. Good(0)
      BY <3>1
    <3> HIDE DEF Good
    <3>3. QED
      BY <2>1, <2>2, <3>2
  <2>3. CASE k # 0
    <3>1. k \in 1..n /\ k - 1 \in 0..n /\ ~(k <= k - 1)
      BY <2>1, <2>3
    <3>2. Good(k - 1)
      <4> HIDE DEF Good
      <4>1. QED
        BY <2>1, <3>1
    <3>3. PICK f \in [0..(k - 1) -> T] :
             \A i \in 0..(k - 1) : f[i] = IF i = 0 THEN first ELSE next[<<f[i - 1], i>>]
      BY <3>2
    <3> DEFINE top == next[<<f[k - 1], k>>]
               g == [i \in 0..k |-> IF i = k THEN top ELSE f[i]]
    <3>4. top \in T
      <4>1. f[k - 1] \in T
        BY <3>1
      <4>2. QED
        BY <3>1, <4>1
    <3>5. g \in [0..k -> T] /\ g[k] = top /\ \A i \in 0..(k - 1) : g[i] = f[i]
      <4> HIDE DEF top
      <4>1. k \in 0..k /\ \A i \in 0..k : i = k \/ i \in 0..(k - 1)
        BY <3>1
      <4>2. \A i \in 0..(k - 1) : i \in 0..k /\ i # k
        BY <3>1
      <4>3. QED
        BY <3>4, <4>1, <4>2
    <3> HIDE DEF g
    <3>6. ASSUME NEW i \in 0..k
          PROVE  g[i] = IF i = 0 THEN first ELSE next[<<g[i - 1], i>>]
      <4>1. CASE i = k
        <5>1. i # 0 /\ i - 1 \in 0..(k - 1)
          BY <3>1, <4>1
        <5>2. QED
          BY <3>5, <4>1, <5>1
      <4>2. CASE i = 0
        <5>1. 0 \in 0..(k - 1)
          BY <3>1
        <5>2. QED
          BY <3>3, <3>5, <4>2, <5>1
      <4>3. CASE i # k /\ i # 0
        <5>1. i \in 0..(k - 1) /\ i - 1 \in 0..(k - 1)
          BY <3>1, <4>3
        <5>2. QED
          BY <3>3, <3>5, <4>3, <5>1
      <4>4. QED
        BY <4>1, <4>2, <4>3
    <3>7. Good(k)
      BY <3>5, <3>6
    <3> HIDE DEF Good
    <3>8. QED
      BY <2>1, <3>7
  <2>4. QED
    BY <2>2, <2>3
<1>3. QED
  BY <1>1, <1>2

\* A step on the counts from 0 to a bound that keeps what it is given, keeps it
\* to the end.
LEMMA CountingUp ==
    ASSUME NEW n \in Nat, NEW Kept, 0 \in Kept, \A i \in 0..(n - 1) : i \in Kept => i + 1 \in Kept
    PROVE  \A i \in 0..n : i \in Kept
<1> DEFINE Bad == {i \in 0..n : i \notin Kept}
<1>1. SUFFICES ASSUME Bad # {} PROVE FALSE
  OBVIOUS
<1>2. PICK k \in Bad : \A j \in Bad : k <= j
  <2>1. Bad \subseteq Int /\ (\A j \in Bad : j >= 0) /\ 0 \in Int
    OBVIOUS
  <2> HIDE DEF Bad
  <2>2. QED
    BY <1>1, <2>1, LeastExists, Zenon
<1>3. k - 1 \in 0..(n - 1) /\ ~(k <= k - 1) /\ k - 1 \in 0..n /\ (k - 1) + 1 = k
  <2>1. k \in 0..n /\ k # 0
    BY <1>2
  <2>2. QED
    BY <2>1
<1>4. k - 1 \in Kept
  BY <1>2, <1>3
<1>5. QED
  BY <1>2, <1>3, <1>4

-----------------------------------------------------------------------------

(***************************************************************************)
(* A fixed window: g[n] requests were allowed in the last n ticks, left is *)
(* what remains of the window of w ticks, 0 when it is over, and count is  *)
(* what its record holds, against a limit b.                               *)
(***************************************************************************)
InOrder(w, g) == \A m, n \in 1..w : m <= n => g[m] <= g[n]
Fits(w, b, left, count, g) ==
    /\ InOrder(w, g)
    /\ left = 0 => g[1] = 0 /\ g[w] <= b
    /\ left > 0 =>
          /\ g[w - left + 1] <= count /\ g[w - left + 1] <= b
          /\ g[w] - g[w - left + 1] <= b

OneMore(w, g) == [n \in 1..w |-> g[n] + 1]
Aged(w, g) == [n \in 1..w |-> IF n = 1 THEN 0 ELSE g[n - 1]]

LEMMA WindowBegins ==
    ASSUME NEW w \in Nat \ {0}, NEW b \in Nat
    PROVE  LET none == [n \in 1..w |-> 0] IN
           /\ none \in [1..w -> Nat]
           /\ \A left \in 0..w, count \in Nat : Fits(w, b, left, count, none)
BY DEF Fits, InOrder

LEMMA OneMoreInOrder ==
    ASSUME NEW w \in Nat \ {0}, NEW g \in [1..w -> Nat], InOrder(w, g)
    PROVE  /\ OneMore(w, g) \in [1..w -> Nat] /\ InOrder(w, OneMore(w, g))
           /\ \A n \in 1..w : OneMore(w, g)[n] = g[n] + 1
BY DEF OneMore, InOrder

\* The first request of a window.
LEMMA WindowOpens ==
    ASSUME NEW w \in Nat \ {0}, NEW b \in Nat, NEW count, NEW g \in [1..w -> Nat],
           Fits(w, b, 0, count, g)
    PROVE  Fits(w, b, w, 1, g) /\ (1 <= b => Fits(w, b, w, 1, OneMore(w, g)))
<1>1. 1 \in 1..w /\ w \in 1..w /\ w - w + 1 = 1 /\ w > 0 /\ w # 0
  OBVIOUS
<1>2. InOrder(w, g) /\ g[1] = 0 /\ g[w] <= b /\ g[w] \in Nat
  BY <1>1 DEF Fits
<1>3. Fits(w, b, w, 1, g)
  BY <1>1, <1>2 DEF Fits
<1>4. ASSUME 1 <= b PROVE Fits(w, b, w, 1, OneMore(w, g))
  <2> DEFINE h == OneMore(w, g)
  <2>1. InOrder(w, h) /\ h[1] = 1 /\ h[w] = g[w] + 1
    BY <1>1, <1>2, OneMoreInOrder
  <2> HIDE DEF h
  <2>2. Fits(w, b, w, 1, h)
    BY <1>1, <1>2, <1>4, <2>1 DEF Fits
  <2>3. QED
    BY <2>2 DEF h
<1>5. QED
  BY <1>3, <1>4

\* One more request of an open window.
LEMMA WindowCounts ==
    ASSUME NEW w \in Nat \ {0}, NEW b \in Nat, NEW left \in 1..w, NEW count \in Nat,
           NEW g \in [1..w -> Nat], Fits(w, b, left, count, g),
           NEW more \in Nat, count <= more
    PROVE  /\ Fits(w, b, left, more, g)
           /\ more = count + 1 /\ more <= b => Fits(w, b, left, more, OneMore(w, g))
<1> DEFINE k == w - left + 1
<1>1. k \in 1..w /\ w \in 1..w /\ left > 0 /\ left # 0
  OBVIOUS
<1>2. /\ InOrder(w, g) /\ g[k] <= count /\ g[k] <= b /\ g[w] - g[k] <= b
      /\ g[k] \in Nat /\ g[w] \in Nat
  BY <1>1 DEF Fits
<1> HIDE DEF k
<1>3. Fits(w, b, left, more, g)
  <2>1. g[k] <= more
    BY <1>2
  <2>2. QED
    BY <1>1, <1>2, <2>1 DEF Fits, k
<1>4. ASSUME more = count + 1, more <= b PROVE Fits(w, b, left, more, OneMore(w, g))
  <2> DEFINE h == OneMore(w, g)
  <2>1. InOrder(w, h) /\ h[k] = g[k] + 1 /\ h[w] = g[w] + 1
    BY <1>1, <1>2, OneMoreInOrder
  <2> HIDE DEF h
  <2>2. h[k] <= more /\ h[k] <= b /\ h[w] - h[k] <= b
    BY <1>2, <1>4, <2>1
  <2>3. Fits(w, b, left, more, h)
    BY <1>1, <2>1, <2>2 DEF Fits, k
  <2>4. QED
    BY <2>3 DEF h
<1>5. QED
  BY <1>3, <1>4

\* A tick.
LEMMA WindowAges ==
    ASSUME NEW w \in Nat \ {0}, NEW b \in Nat, NEW left \in 0..w, NEW count \in Nat,
           NEW g \in [1..w -> Nat], Fits(w, b, left, count, g)
    PROVE  /\ Aged(w, g) \in [1..w -> Nat]
           /\ Fits(w, b, IF left = 0 THEN 0 ELSE left - 1, count, Aged(w, g))
<1> DEFINE h == Aged(w, g)
           now == IF left = 0 THEN 0 ELSE left - 1
<1>1. w \in 1..w /\ 1 \in 1..w /\ now \in 0..w
  OBVIOUS
<1>2. /\ h \in [1..w -> Nat] /\ h[1] = 0
      /\ \A n \in 1..w : n # 1 => n - 1 \in 1..w /\ h[n] = g[n - 1]
      /\ \A n \in 1..w : h[n] <= g[n]
  BY <1>1 DEF Fits, InOrder, Aged
<1>3. InOrder(w, h)
  <2>1. SUFFICES ASSUME NEW m \in 1..w, NEW n \in 1..w, m <= n PROVE h[m] <= h[n]
    BY DEF InOrder
  <2>2. CASE m = 1
    BY <1>2, <2>2
  <2>3. CASE m # 1
    BY <1>2, <2>1, <2>3 DEF Fits, InOrder
  <2>4. QED
    BY <2>2, <2>3
<1> HIDE DEF h
<1>4. CASE left = 0
  <2>1. h[w] <= b
    BY <1>1, <1>2, <1>4 DEF Fits
  <2>2. QED
    BY <1>2, <1>3, <1>4, <2>1 DEF Fits, h
<1>5. CASE left = 1
  <2>1. h[w] <= b
    BY <1>1, <1>2, <1>5 DEF Fits
  <2>2. QED
    BY <1>2, <1>3, <1>5, <2>1 DEF Fits, h
<1>6. CASE left > 1
  <2> DEFINE k == w - left + 1
  <2>1. /\ k \in 1..w /\ k + 1 \in 1..w /\ k + 1 # 1 /\ w # 1
        /\ w - now + 1 = k + 1 /\ now > 0 /\ now # 0 /\ left > 0
    BY <1>6
  <2>2. /\ g[k] <= count /\ g[k] <= b /\ g[w] - g[k] <= b
        /\ g[k] \in Nat /\ g[w] \in Nat
    BY <1>1, <2>1 DEF Fits
  <2>3. h[k + 1] = g[k] /\ h[w] <= g[w] /\ h[w] \in Nat
    <3>1. (k + 1) - 1 = k
      BY <2>1
    <3> HIDE DEF k
    <3>2. QED
      BY <1>1, <1>2, <2>1, <3>1
  <2> HIDE DEF k, now
  <2>4. h[k + 1] <= count /\ h[k + 1] <= b /\ h[w] - h[k + 1] <= b
    BY <2>2, <2>3
  <2>5. Fits(w, b, now, count, h)
    BY <1>3, <2>1, <2>4 DEF Fits
  <2>6. QED
    BY <1>2, <2>5 DEF h, now
<1>7. QED
  BY <1>4, <1>5, <1>6

\* The window counts no more than the limit, and a stretch no more than two.
LEMMA WindowBudget ==
    ASSUME NEW w \in Nat \ {0}, NEW b \in Nat, NEW left \in 0..w, NEW count \in Nat,
           NEW g \in [1..w -> Nat], Fits(w, b, left, count, g)
    PROVE  g[w] <= 2 * b /\ (left > 0 => g[w - left + 1] <= b)
<1>1. CASE left = 0
  BY <1>1 DEF Fits
<1>2. CASE left > 0
  <2> DEFINE k == w - left + 1
  <2>1. k \in 1..w /\ w \in 1..w
    BY <1>2
  <2>2. g[k] \in Nat /\ g[w] \in Nat /\ g[k] <= b /\ g[w] - g[k] <= b
    BY <1>2, <2>1 DEF Fits
  <2> HIDE DEF k
  <2>3. g[w] <= 2 * b
    BY <2>2
  <2>4. QED
    BY <2>2, <2>3 DEF k
<1>3. QED
  BY <1>1, <1>2

=============================================================================
