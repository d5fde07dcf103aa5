----------------------------- MODULE Induction -----------------------------
(***************************************************************************)
(* Induction on the numbers, and what a fold of a sequence computes, for a *)
(* property P and a step Op of one's own: a module that needs them takes   *)
(* an instance of this one for each, and proves WellOrdered once, from     *)
(* WellFoundedInduction, which would otherwise come along with each.       *)
(***************************************************************************)
EXTENDS Naturals

CONSTANTS P(_), Op(_, _)

\* What the theorems here rest on: a set of numbers that is not empty has a least one.
WellOrdered == \A S \in SUBSET Nat : S # {} => \E n \in S : \A m \in S : n <= m

LEMMA Least ==
  ASSUME WellOrdered, NEW S \in SUBSET Nat, S # {}
  PROVE  \E n \in S : \A m \in S : n <= m
BY DEF WellOrdered

\* What holds of 0, and of n + 1 when it holds of n, holds of every number.
THEOREM Induct ==
  ASSUME WellOrdered, P(0), \A n \in Nat : P(n) => P(n + 1)
  PROVE  \A n \in Nat : P(n)
<1> DEFINE Bad == {n \in Nat : ~P(n)}
<1> SUFFICES ASSUME Bad # {} PROVE FALSE
  OBVIOUS
<1>1. PICK n \in Bad : \A m \in Bad : n <= m
  <2> HIDE DEF Bad
  <2>1. Bad \in SUBSET Nat
    BY DEF Bad
  <2> QED
    BY <2>1, Least
<1>2. n # 0 /\ n - 1 \in Nat /\ n - 1 \notin Bad
  BY <1>1
<1>3. P(n - 1) => P((n - 1) + 1)
  BY <1>2
<1>4. (n - 1) + 1 = n
  BY <1>2
<1> QED
  BY <1>1, <1>2, <1>3, <1>4

(***************************************************************************)
(* A fold over the sequence s takes the greatest of the places that are    *)
(* left: g has its result for every set of the first n places.             *)
(***************************************************************************)
Top(t) == CHOOSE x \in t : \A y \in t : x >= y

Iterates(base, s, n, g) ==
    g = [t \in SUBSET (1..n) |-> IF t = {} THEN base ELSE Op(g[t \ {Top(t)}], s[Top(t)])]

LEMMA TopIsGreatest ==
  ASSUME WellOrdered, NEW n \in Nat, NEW t \in SUBSET (1..n), t # {}
  PROVE  Top(t) \in t /\ \A y \in t : Top(t) >= y
<1> DEFINE D == {k \in Nat : n - k \in t}
<1>1. PICK x \in t : TRUE
  OBVIOUS
<1>2. n - x \in Nat /\ n - (n - x) = x
  BY <1>1
<1>3. n - x \in D
  BY <1>1, <1>2
<1>4. PICK k \in D : \A m \in D : k <= m
  <2> HIDE DEF D
  <2>1. D \in SUBSET Nat
    BY DEF D
  <2> QED
    BY <2>1, <1>3, Least
<1>5. \A y \in t : n - k >= y
  <2> TAKE y \in t
  <2>1. n - y \in Nat /\ n - (n - y) = y /\ y \in Nat
    OBVIOUS
  <2>2. n - y \in D
    BY <2>1
  <2>3. k <= n - y /\ k \in Nat
    <3> HIDE DEF D
    <3> QED
      BY <1>4, <2>2 DEF D
  <2> QED
    BY <2>1, <2>3
<1>6. \E z \in t : \A y \in t : z >= y
  BY <1>4, <1>5
<1> QED
  BY <1>6 DEF Top

\* There is a fold of every sequence.
THEOREM IteratesExist ==
  ASSUME WellOrdered
  PROVE  \A base, s : \A n \in Nat : \E g : Iterates(base, s, n, g)
<1> SUFFICES ASSUME NEW base, NEW s
             PROVE  \A n \in Nat : \E g : Iterates(base, s, n, g)
  OBVIOUS
<1> DEFINE Bad == {n \in Nat : ~ \E g : Iterates(base, s, n, g)}
<1> SUFFICES ASSUME Bad # {} PROVE FALSE
  OBVIOUS
<1>1. PICK n \in Bad : \A m \in Bad : n <= m
  <2> HIDE DEF Bad
  <2>1. Bad \in SUBSET Nat
    BY DEF Bad
  <2> QED
    BY <2>1, Least
<1>2. n \in Nat /\ ~ \E g : Iterates(base, s, n, g)
  BY <1>1
<1>3. CASE n = 0
  <2>1. \A t \in SUBSET (1..n) : t = {}
    BY <1>3
  <2> DEFINE g == [t \in SUBSET (1..n) |-> base]
  <2>2. g = [t \in SUBSET (1..n) |-> IF t = {} THEN base ELSE Op(g[t \ {Top(t)}], s[Top(t)])]
    BY <2>1
  <2> QED
    BY <2>2, <1>2 DEF Iterates
<1>4. CASE n # 0
  <2>1. n - 1 \in Nat /\ n - 1 \notin Bad
    BY <1>1, <1>4
  <2>2. PICK h : Iterates(base, s, n - 1, h)
    BY <2>1
  <2>3. h = [t \in SUBSET (1..(n - 1)) |-> IF t = {} THEN base ELSE Op(h[t \ {Top(t)}], s[Top(t)])]
    BY <2>2 DEF Iterates
  <2> DEFINE g == [t \in SUBSET (1..n) |-> IF t = {} THEN base ELSE Op(h[t \ {Top(t)}], s[Top(t)])]
  <2>4. \A t \in SUBSET (1..(n - 1)) : t \in SUBSET (1..n) /\ h[t] = g[t]
    <3> TAKE t \in SUBSET (1..(n - 1))
    <3>1. t \in SUBSET (1..n)
      BY <2>1
    <3>2. h[t] = IF t = {} THEN base ELSE Op(h[t \ {Top(t)}], s[Top(t)])
      BY <2>3
    <3> QED
      BY <3>1, <3>2
  <2>5. \A t \in SUBSET (1..n) : t # {} => t \ {Top(t)} \in SUBSET (1..(n - 1))
    <3> SUFFICES ASSUME NEW t \in SUBSET (1..n), t # {}, NEW y \in t \ {Top(t)}
                 PROVE  y \in 1..(n - 1)
      OBVIOUS
    <3>1. Top(t) \in t /\ Top(t) >= y
      BY <1>2, TopIsGreatest
    <3>2. Top(t) \in 1..n /\ y \in 1..n /\ y # Top(t)
      BY <3>1
    <3> QED
      BY <3>1, <3>2, <1>2
  <2>6. \A t \in SUBSET (1..n) :
           g[t] = IF t = {} THEN base ELSE Op(g[t \ {Top(t)}], s[Top(t)])
    <3> TAKE t \in SUBSET (1..n)
    <3>1. g[t] = IF t = {} THEN base ELSE Op(h[t \ {Top(t)}], s[Top(t)])
      OBVIOUS
    <3>2. t # {} => h[t \ {Top(t)}] = g[t \ {Top(t)}]
      BY <2>4, <2>5
    <3> HIDE DEF g
    <3> QED
      BY <3>1, <3>2
  <2>7. g = [t \in SUBSET (1..n) |-> IF t = {} THEN base ELSE Op(g[t \ {Top(t)}], s[Top(t)])]
    BY <2>6
  <2>8. Iterates(base, s, n, g)
    BY <2>7 DEF Iterates
  <2> QED
    BY <2>8, <1>2
<1> QED
  BY <1>3, <1>4

\* That of nothing is where it starts.
THEOREM IteratesEmpty ==
  \A base, s, g : Iterates(base, s, 0, g) => g[1..0] = base
<1> SUFFICES ASSUME NEW base, NEW s, NEW g, Iterates(base, s, 0, g)
             PROVE  g[1..0] = base
  OBVIOUS
<1>1. g = [t \in SUBSET (1..0) |-> IF t = {} THEN base ELSE Op(g[t \ {Top(t)}], s[Top(t)])]
  BY DEF Iterates
<1>2. 1..0 = {} /\ 1..0 \in SUBSET (1..0)
  OBVIOUS
<1> QED
  BY <1>1, <1>2

LEMMA IteratesOnce ==
  ASSUME WellOrdered, NEW base, NEW s, NEW n \in Nat, NEW g, Iterates(base, s, n, g),
         NEW k \in 1..n
  PROVE  g[1..k] = Op(g[1..(k - 1)], s[k])
<1>1. g = [t \in SUBSET (1..n) |-> IF t = {} THEN base ELSE Op(g[t \ {Top(t)}], s[Top(t)])]
  BY DEF Iterates
<1>2. 1..k \in SUBSET (1..n) /\ 1..k # {} /\ k \in 1..k
  OBVIOUS
<1>3. Top(1..k) \in 1..k /\ Top(1..k) >= k
  BY <1>2, TopIsGreatest
<1>4. Top(1..k) = k
  BY <1>3
<1>5. (1..k) \ {k} = 1..(k - 1)
  OBVIOUS
<1>6. g[1..k] = Op(g[(1..k) \ {Top(1..k)}], s[Top(1..k)])
  BY <1>1, <1>2
<1> QED
  BY <1>4, <1>5, <1>6

LEMMA IteratesLast ==
  ASSUME WellOrdered, NEW base, NEW s, NEW n \in Nat, NEW g, Iterates(base, s, n + 1, g)
  PROVE  g[1..(n + 1)] = Op(g[1..n], s[n + 1])
<1>1. PICK m \in Nat : m = n + 1
  OBVIOUS
<1>2. Iterates(base, s, m, g) /\ m \in 1..m /\ m - 1 = n
  BY <1>1
<1>3. g[1..m] = Op(g[1..(m - 1)], s[m])
  BY <1>2, IteratesOnce
<1> QED
  BY <1>1, <1>2, <1>3

\* A sequence that is longer by one is folded by one step more.
THEOREM IteratesStep ==
  ASSUME WellOrdered
  PROVE  \A base, s, r, g, h : \A n \in Nat :
            /\ Iterates(base, s, n, g) /\ Iterates(base, r, n + 1, h)
            /\ \A i \in 1..n : s[i] = r[i]
            => h[1..(n + 1)] = Op(g[1..n], r[n + 1])
<1> SUFFICES ASSUME NEW base, NEW s, NEW r, NEW g, NEW h, NEW n \in Nat,
                    Iterates(base, s, n, g), Iterates(base, r, n + 1, h),
                    \A i \in 1..n : s[i] = r[i]
             PROVE  h[1..(n + 1)] = Op(g[1..n], r[n + 1])
  OBVIOUS
<1> DEFINE Bad == {k \in 0..n : g[1..k] # h[1..k]}
<1>1. Bad = {}
  <2> SUFFICES ASSUME Bad # {} PROVE FALSE
    OBVIOUS
  <2>1. PICK k \in Bad : \A m \in Bad : k <= m
    <3> HIDE DEF Bad
    <3>1. Bad \in SUBSET Nat
      BY DEF Bad
    <3> QED
      BY <3>1, Least
  <2>2. k \in 0..n /\ g[1..k] # h[1..k]
    BY <2>1
  <2>3. CASE k = 0
    <3>1. g = [t \in SUBSET (1..n) |-> IF t = {} THEN base ELSE Op(g[t \ {Top(t)}], s[Top(t)])]
      BY DEF Iterates
    <3>2. h = [t \in SUBSET (1..(n + 1)) |-> IF t = {} THEN base ELSE Op(h[t \ {Top(t)}], r[Top(t)])]
      BY DEF Iterates
    <3>3. 1..k = {} /\ {} \in SUBSET (1..n) /\ {} \in SUBSET (1..(n + 1))
      BY <2>3
    <3>4. g[{}] = base
      BY <3>1, <3>3
    <3>5. h[{}] = base
      BY <3>2, <3>3
    <3> QED
      BY <2>2, <3>3, <3>4, <3>5
  <2>4. CASE k # 0
    <3>1. k - 1 \notin Bad /\ k - 1 \in 0..n /\ k \in 1..n /\ k \in 1..(n + 1) /\ n + 1 \in Nat
      BY <2>1, <2>2, <2>4
    <3>2. g[1..(k - 1)] = h[1..(k - 1)]
      BY <3>1
    <3>3. g[1..k] = Op(g[1..(k - 1)], s[k])
      BY <3>1, IteratesOnce
    <3>4. h[1..k] = Op(h[1..(k - 1)], r[k])
      BY <3>1, IteratesOnce
    <3>5. s[k] = r[k]
      BY <3>1
    <3> QED
      BY <2>2, <3>2, <3>3, <3>4, <3>5
  <2> QED
    BY <2>3, <2>4
<1>2. n \in 0..n
  OBVIOUS
<1>3. g[1..n] = h[1..n]
  BY <1>1, <1>2
<1>4. h[1..(n + 1)] = Op(h[1..n], r[n + 1])
  BY IteratesLast
<1> QED
  BY <1>3, <1>4
=============================================================================
