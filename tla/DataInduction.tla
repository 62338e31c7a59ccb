---------------------------- MODULE DataInduction ----------------------------
(***************************************************************************)
(* Induction over numbers and sequences, stated with sets: the library's   *)
(* theorems are about operators P(_), which the provers cannot be given.   *)
(* What is to be shown of every number is that a set holds all of them.    *)
(* From it, what the recursive operators of the model compute.             *)
(***************************************************************************)
EXTENDS SequencesExt, SequenceTheorems, WellFoundedInduction, TLAPS

(* Of some natural numbers one is the least.                               *)
LEMMA LeastExists ==
  ASSUME NEW S, S \subseteq Nat, S # {}
  PROVE  \E m \in S : \A n \in S : m <= n
<1> DEFINE R == {ss \in Nat \X Nat : ss[1] < ss[2]}
<1>1. IsWellFoundedOn(R, Nat)
  BY NatLessThanWellFounded DEF OpToRel
<1>2. \A n, m \in S : <<n, m>> \in R <=> n < m
  OBVIOUS
<1> HIDE DEF R
<1>3. PICK m \in S : \A n \in S : <<n, m>> \notin R
  BY <1>1, WFMin
<1>4. \A n \in S : ~(n < m)
  BY <1>2, <1>3
<1> QED
  BY <1>4

(* A set with 0 and the successor of each of its numbers has them all.     *)
LEMMA Induction ==
  ASSUME NEW S, 0 \in S, \A n \in Nat : n \in S => n + 1 \in S
  PROVE  Nat \subseteq S
<1> DEFINE T == Nat \ S
<1> SUFFICES ASSUME T # {} PROVE FALSE
  OBVIOUS
<1>1. PICK m \in T : \A n \in T : m <= n
  BY LeastExists
<1>2. m - 1 \in Nat /\ m - 1 \notin T
  BY <1>1
<1> QED
  BY <1>1, <1>2

(* Down from n: if what holds of all above a number holds of it.           *)
LEMMA InductionDown ==
  ASSUME NEW n \in Nat, NEW S,
         \A i \in 1..n : (\A j \in (i + 1)..n : j \in S) => i \in S
  PROVE  1..n \subseteq S
<1> DEFINE T == {k \in Nat : \A j \in 1..n : j > n - k => j \in S}
<1>1. 0 \in T
  OBVIOUS
<1>2. ASSUME NEW k \in Nat, k \in T PROVE k + 1 \in T
  <2> SUFFICES ASSUME NEW j \in 1..n, j > n - (k + 1) PROVE j \in S
    OBVIOUS
  <2>1. \A i \in (j + 1)..n : i \in S
    BY <1>2
  <2> QED
    BY <2>1
<1> HIDE DEF T
<1>3. n \in T
  BY <1>1, <1>2, Induction
<1> QED
  BY <1>3 DEF T

(* Of a bounded set of natural numbers one is the greatest.                *)
LEMMA MaxOfBounded ==
  ASSUME NEW S, S \subseteq Nat, S # {}, NEW b \in Nat, \A x \in S : x <= b
  PROVE  Max(S) \in S /\ \A x \in S : x <= Max(S)
<1> DEFINE T == {b - x : x \in S}
<1>1. T \subseteq Nat /\ T # {}
  OBVIOUS
<1>2. PICK m \in T : \A k \in T : m <= k
  BY <1>1, LeastExists
<1>3. PICK x \in S : m = b - x
  BY <1>2
<1>4. ASSUME NEW y \in S PROVE x >= y
  <2>1. m <= b - y
    BY <1>2
  <2> QED
    BY <1>3, <2>1
<1>5. \E z \in S : \A y \in S : z >= y
  BY <1>4
<1> QED
  BY <1>5 DEF Max

LEMMA MinOfNaturals ==
  ASSUME NEW S, S \subseteq Nat, S # {}
  PROVE  Min(S) \in S /\ \A x \in S : Min(S) <= x
BY LeastExists DEF Min
-----------------------------------------------------------------------------
(* f is computed from base, step by step: g makes of a value the next.     *)
Computes(f, n, A, base, g) ==
  /\ f \in [0..n -> A] /\ f[0] = base
  /\ \A i \in 1..n : f[i] = g[<<f[i - 1], i>>]

LEMMA Recursion ==
  ASSUME NEW n \in Nat, NEW A, NEW base \in A, NEW g \in [A \X (1..n) -> A]
  PROVE  \E f : Computes(f, n, A, base, g)
<1> DEFINE Known == {k \in Nat : k <= n => \E f : Computes(f, k, A, base, g)}
<1>1. 0 \in Known
  <2>1. Computes([i \in 0..0 |-> base], 0, A, base, g)
    BY DEF Computes
  <2> QED
    BY <2>1
<1>2. ASSUME NEW k \in Nat, k \in Known, k + 1 <= n
      PROVE  \E f : Computes(f, k + 1, A, base, g)
  <2>1. PICK f : Computes(f, k, A, base, g)
    BY <1>2
  <2> DEFINE h == [i \in 0..(k + 1) |-> IF i <= k THEN f[i]
                                        ELSE g[<<f[k], k + 1>>]]
  <2>2. h \in [0..(k + 1) -> A]
    <3>1. g[<<f[k], k + 1>>] \in A
      BY <1>2, <2>1 DEF Computes
    <3> QED
      BY <2>1, <3>1 DEF Computes
  <2>3. \A i \in 1..(k + 1) : h[i] = g[<<h[i - 1], i>>]
    <3>1. \A i \in 1..k : h[i] = f[i] /\ h[i - 1] = f[i - 1]
      OBVIOUS
    <3>2. h[k + 1] = g[<<f[k], k + 1>>] /\ h[k] = f[k]
      OBVIOUS
    <3>3. \A i \in 1..(k + 1) : i \in 1..k \/ i = k + 1
      OBVIOUS
    <3> HIDE DEF h
    <3>4. h[k + 1] = g[<<h[(k + 1) - 1], k + 1>>]
      BY <3>2
    <3> QED
      BY <2>1, <3>1, <3>3, <3>4 DEF Computes
  <2>4. h[0] = base
    BY <2>1 DEF Computes
  <2> HIDE DEF h
  <2>5. Computes(h, k + 1, A, base, g)
    BY <2>2, <2>3, <2>4 DEF Computes
  <2> QED
    BY <2>5
<1>3. n \in Known
  <2>1. \A k \in Nat : k \in Known => k + 1 \in Known
    BY <1>2
  <2> HIDE DEF Known
  <2> QED
    BY <1>1, <2>1, Induction
<1> QED
  BY <1>3

(* f has the concatenations of the first sequences of u, n of them.        *)
Concatenates(f, n, u) ==
  /\ DOMAIN f = 0..n /\ f[0] = <<>>
  /\ \A i \in 1..n : f[i] = f[i - 1] \o u[i]

LEMMA ConcatenationType ==
  ASSUME NEW S, NEW n \in Nat, NEW u, \A i \in 1..n : u[i] \in Seq(S),
         NEW f, Concatenates(f, n, u)
  PROVE  \A i \in 0..n : f[i] \in Seq(S)
<1> DEFINE K == {k \in Nat : k <= n => f[k] \in Seq(S)}
<1>1. 0 \in K
  BY DEF Concatenates
<1>2. ASSUME NEW k \in Nat, k \in K PROVE k + 1 \in K
  <2> SUFFICES ASSUME k + 1 <= n PROVE f[k + 1] \in Seq(S)
    OBVIOUS
  <2>1. k + 1 \in 1..n /\ f[k] \in Seq(S) /\ (k + 1) - 1 = k
    BY <1>2
  <2>2. f[k + 1] = f[k] \o u[k + 1]
    BY <2>1 DEF Concatenates
  <2> QED
    BY <2>1, <2>2
<1> HIDE DEF K
<1>3. Nat \subseteq K
  BY <1>1, <1>2, Induction
<1> QED
  BY <1>3 DEF K

LEMMA ConcatenationExists ==
  ASSUME NEW n \in Nat, NEW u
  PROVE  \E f : Concatenates(f, n, u)
<1> DEFINE K == {k \in Nat : \E f : Concatenates(f, k, u)}
<1>1. 0 \in K
  <2>1. Concatenates([i \in 0..0 |-> <<>>], 0, u)
    BY DEF Concatenates
  <2> QED
    BY <2>1
<1>2. ASSUME NEW k \in Nat, k \in K PROVE k + 1 \in K
  <2>1. PICK f : Concatenates(f, k, u)
    BY <1>2
  <2> DEFINE last == f[k] \o u[k + 1]
             h == [i \in 0..(k + 1) |-> IF i <= k THEN f[i] ELSE last]
  <2>2. DOMAIN h = 0..(k + 1) /\ h[0] = <<>>
    BY <2>1 DEF Concatenates
  <2>3. \A i \in 1..k : h[i] = f[i] /\ h[i - 1] = f[i - 1]
    OBVIOUS
  <2>4. h[k + 1] = last /\ h[k] = f[k]
    <3> HIDE DEF last
    <3> QED
      OBVIOUS
  <2>5. \A i \in 1..(k + 1) : i \in 1..k \/ (i = k + 1 /\ i - 1 = k)
    OBVIOUS
  <2> HIDE DEF h
  <2>6. \A i \in 1..(k + 1) : h[i] = h[i - 1] \o u[i]
    BY <2>1, <2>3, <2>4, <2>5 DEF Concatenates
  <2>7. Concatenates(h, k + 1, u)
    BY <2>2, <2>6 DEF Concatenates
  <2> QED
    BY <2>7
<1> HIDE DEF K
<1>3. n \in K
  BY <1>1, <1>2, Induction
<1> QED
  BY <1>3 DEF K

(* FlattenSeq: the concatenation, one sequence at a time.                  *)
LEMMA FlattenByPrefixes ==
  ASSUME NEW S, NEW u \in Seq(Seq(S)), NEW f, Concatenates(f, Len(u), u)
  PROVE  FlattenSeq(u) = f[Len(u)]
<1> DEFINE flat == CHOOSE g : g = [i \in 1..Len(u) |->
                          IF i = 1 THEN u[i] ELSE g[i - 1] \o u[i]]
<1>1. Len(u) \in Nat /\ \A i \in 1..Len(u) : u[i] \in Seq(S)
  OBVIOUS
<1>2. Len(u) # 0 => FlattenSeq(u) = flat[Len(u)]
  BY DEF FlattenSeq
<1>3. Len(u) = 0 => FlattenSeq(u) = <<>>
  BY DEF FlattenSeq
<1> HIDE DEF flat
<1> DEFINE h == [i \in 1..Len(u) |-> f[i]]
<1>4. h = [i \in 1..Len(u) |-> IF i = 1 THEN u[i] ELSE h[i - 1] \o u[i]]
  <2>0. f[0] = <<>> /\ \A i \in 1..Len(u) : f[i] = f[i - 1] \o u[i]
    BY Zenon DEF Concatenates
  <2>1. ASSUME NEW i \in 1..Len(u), i = 1 PROVE f[i] = u[i]
    <3>1. i - 1 = 0
      BY <2>1
    <3>2. f[i] = <<>> \o u[i]
      BY <2>0, <3>1, Zenon
    <3>3. <<>> \o u[i] = u[i]
      BY <1>1, ConcatEmptySeq
    <3> QED
      BY <3>2, <3>3
  <2>2. ASSUME NEW i \in 1..Len(u), i # 1
        PROVE  f[i] = f[i - 1] \o u[i] /\ i - 1 \in 1..Len(u)
    <3>1. i - 1 \in 1..Len(u)
      BY <1>1, <2>2
    <3> QED
      BY <2>0, <3>1, Zenon
  <2>3. \A i \in 1..Len(u) :
          f[i] = IF i = 1 THEN u[i] ELSE h[i - 1] \o u[i]
    BY <2>1, <2>2
  <2> QED
    BY <2>3
<1>5. flat = [i \in 1..Len(u) |-> IF i = 1 THEN u[i] ELSE flat[i - 1] \o u[i]]
  BY <1>4 DEF flat
<1>6. ASSUME NEW i \in 1..Len(u)
      PROVE  flat[i] = (IF i = 1 THEN u[i] ELSE flat[i - 1] \o u[i])
             /\ h[i] = (IF i = 1 THEN u[i] ELSE h[i - 1] \o u[i])
  BY <1>4, <1>5
<1> DEFINE K == {k \in Nat : k + 1 \in 1..Len(u) => flat[k + 1] = h[k + 1]}
<1>7. Nat \subseteq K
  <2> HIDE DEF h
  <2>1. 0 \in K
    BY <1>6
  <2>2. ASSUME NEW k \in Nat, k \in K PROVE k + 1 \in K
    <3> SUFFICES ASSUME k + 2 \in 1..Len(u) PROVE flat[k + 2] = h[k + 2]
      OBVIOUS
    <3>1. k + 2 # 1 /\ (k + 2) - 1 = k + 1 /\ k + 1 \in 1..Len(u)
      BY <1>1
    <3> QED
      BY <1>6, <2>2, <3>1
  <2> HIDE DEF K
  <2> QED
    BY <2>1, <2>2, Induction
<1>8. \A i \in 1..Len(u) : flat[i] = h[i] /\ h[i] = f[i]
  <2>1. \A i \in 1..Len(u) : i - 1 \in Nat /\ (i - 1) + 1 = i
    BY <1>1
  <2>2. \A i \in 1..Len(u) : i - 1 \in K
    BY <1>7, <2>1
  <2> QED
    BY <2>1, <2>2
<1>9. CASE Len(u) = 0
  BY <1>3, <1>9 DEF Concatenates
<1>10. CASE Len(u) # 0
  <2>1. Len(u) \in 1..Len(u)
    BY <1>1, <1>10
  <2> QED
    BY <1>2, <1>8, <1>10, <2>1
<1> QED
  BY <1>9, <1>10

LEMMA FlattenType ==
  ASSUME NEW S, NEW u \in Seq(Seq(S))
  PROVE  FlattenSeq(u) \in Seq(S)
<1>1. Len(u) \in Nat /\ \A i \in 1..Len(u) : u[i] \in Seq(S)
  OBVIOUS
<1>2. PICK f : Concatenates(f, Len(u), u)
  BY <1>1, ConcatenationExists
<1>3. f[Len(u)] \in Seq(S)
  BY <1>1, <1>2, ConcatenationType
<1> QED
  BY <1>2, <1>3, FlattenByPrefixes

(* One element each: the sequence itself.                                  *)
LEMMA FlattenSingletons ==
  ASSUME NEW S, NEW x \in Seq(S)
  PROVE  FlattenSeq([i \in DOMAIN x |-> <<x[i]>>]) = x
<1> DEFINE u == [i \in DOMAIN x |-> <<x[i]>>]
           f == [i \in 0..Len(x) |-> SubSeq(x, 1, i)]
<1>1. /\ Len(x) \in Nat /\ DOMAIN x = 1..Len(x)
      /\ \A i \in 1..Len(x) : x[i] \in S
  OBVIOUS
<1>2. u \in Seq(Seq(S)) /\ Len(u) = Len(x)
      /\ \A i \in 1..Len(x) : u[i] = <<x[i]>>
  <2>1. u = [i \in 1..Len(x) |-> <<x[i]>>]
    BY <1>1
  <2>2. \A i \in 1..Len(x) : <<x[i]>> \in Seq(S)
    BY <1>1
  <2> QED
    BY <1>1, <2>1, <2>2
<1>3. ASSUME NEW i \in 1..Len(x)
      PROVE  SubSeq(x, 1, i) = SubSeq(x, 1, i - 1) \o <<x[i]>>
  <2>1. /\ SubSeq(x, 1, i) \in Seq(S) /\ Len(SubSeq(x, 1, i)) = i
        /\ \A k \in 1..i : SubSeq(x, 1, i)[k] = x[k]
    OBVIOUS
  <2>2. /\ SubSeq(x, 1, i - 1) \in Seq(S) /\ Len(SubSeq(x, 1, i - 1)) = i - 1
        /\ \A k \in 1..(i - 1) : SubSeq(x, 1, i - 1)[k] = x[k]
    OBVIOUS
  <2>3. <<x[i]>> \in Seq(S)
    OBVIOUS
  <2> DEFINE a == SubSeq(x, 1, i)
             b == SubSeq(x, 1, i - 1)
             c == <<x[i]>>
  <2>4. Len(c) = 1 /\ c[1] = x[i]
    OBVIOUS
  <2> HIDE DEF a, b, c
  <2>5. b \o c \in Seq(S) /\ Len(b \o c) = i
        /\ \A k \in 1..i : (b \o c)[k] = IF k <= i - 1 THEN b[k] ELSE c[1]
    BY <2>2, <2>3, <2>4 DEF b, c
  <2>6. \A k \in 1..i : (b \o c)[k] = x[k]
    <3>1. \A k \in 1..i : k <= i - 1 \/ k = i
      OBVIOUS
    <3>2. \A k \in 1..(i - 1) : k \in 1..i /\ k <= i - 1 /\ b[k] = x[k]
      BY <2>2 DEF b
    <3>3. i \in 1..i /\ ~(i <= i - 1)
      OBVIOUS
    <3>4. (b \o c)[i] = x[i]
      BY <2>4, <2>5, <3>3
    <3>5. \A k \in 1..(i - 1) : (b \o c)[k] = x[k]
      BY <2>5, <3>2
    <3>6. \A k \in 1..i : k \in 1..(i - 1) \/ k = i
      OBVIOUS
    <3> QED
      BY <3>4, <3>5, <3>6
  <2>7. a = b \o c
    BY <2>1, <2>5, <2>6, SeqEqual DEF a
  <2> QED
    BY <2>7 DEF a, b, c
<1>4. f[0] = <<>> /\ DOMAIN f = 0..Len(x) /\ f[Len(x)] = x
  OBVIOUS
<1>5. \A i \in 1..Len(x) : f[i] = SubSeq(x, 1, i) /\ f[i - 1] = SubSeq(x, 1, i - 1)
  OBVIOUS
<1> HIDE DEF u, f
<1>6. Concatenates(f, Len(x), u)
  BY <1>2, <1>3, <1>4, <1>5 DEF Concatenates
<1>7. FlattenSeq(u) = f[Len(u)]
  BY <1>2, <1>6, FlattenByPrefixes
<1> QED
  BY <1>2, <1>4, <1>7 DEF u
-----------------------------------------------------------------------------
(* A walk over 1..n: from i it goes on at next[i], and what it has from i  *)
(* is h[i] and what it has from there.                                     *)
Walks(f, n, h, next) ==
  /\ DOMAIN f = 1..(n + 1) /\ f[n + 1] = <<>>
  /\ \A i \in 1..n : f[i] = h[i] \o f[next[i]]
Forward(n, next) == \A i \in 1..n : next[i] \in (i + 1)..(n + 1)

LEMMA ForwardSteps ==
  ASSUME NEW n \in Nat, NEW next, Forward(n, next)
  PROVE  \A i \in 1..n : next[i] \in (i + 1)..n \/ next[i] = n + 1
BY DEF Forward

WalksFrom(f, a, n, h, next) ==
  /\ DOMAIN f = a..(n + 1) /\ f[n + 1] = <<>>
  /\ \A i \in a..n : f[i] = h[i] \o f[next[i]]

(* From one place before.                                                  *)
LEMMA WalkStep ==
  ASSUME NEW n \in Nat, NEW h, NEW next, Forward(n, next), NEW a \in 1..n,
         NEW f, WalksFrom(f, a + 1, n, h, next)
  PROVE  \E g : WalksFrom(g, a, n, h, next)
<1> DEFINE here == h[a] \o f[next[a]]
           g == [i \in a..(n + 1) |-> IF i = a THEN here ELSE f[i]]
<1> HIDE DEF here
<1>1. DOMAIN g = a..(n + 1) /\ g[a] = here
      /\ \A i \in (a + 1)..(n + 1) : g[i] = f[i]
  OBVIOUS
<1> HIDE DEF g
<1>2. \A i \in a..n : i = a \/ i \in (a + 1)..n
  OBVIOUS
<1>3. \A i \in a..n : next[i] \in (a + 1)..(n + 1)
  BY DEF Forward
<1>4. g[a] = h[a] \o g[next[a]]
  <2>1. next[a] \in (a + 1)..(n + 1)
    BY <1>3
  <2> QED
    BY <1>1, <2>1 DEF here
<1>5. \A i \in (a + 1)..n : g[i] = h[i] \o g[next[i]]
  <2> TAKE i \in (a + 1)..n
  <2>1. i \in a..n /\ i \in (a + 1)..(n + 1)
    OBVIOUS
  <2>2. f[i] = h[i] \o f[next[i]]
    BY DEF WalksFrom
  <2> QED
    BY <1>1, <1>3, <2>1, <2>2
<1>6. g[n + 1] = <<>>
  <2>1. n + 1 \in (a + 1)..(n + 1)
    OBVIOUS
  <2> QED
    BY <1>1, <2>1 DEF WalksFrom
<1>7. WalksFrom(g, a, n, h, next)
  BY <1>1, <1>2, <1>4, <1>5, <1>6 DEF WalksFrom
<1> QED
  BY <1>7

LEMMA WalkExists ==
  ASSUME NEW n \in Nat, NEW h, NEW next, Forward(n, next)
  PROVE  \E f : Walks(f, n, h, next)
<1> DEFINE K == {k \in Nat :
                   k <= n => \E f : WalksFrom(f, (n + 1) - k, n, h, next)}
<1>1. 0 \in K
  <2>1. WalksFrom([i \in (n + 1)..(n + 1) |-> <<>>], n + 1, n, h, next)
    <3> DEFINE f == [i \in (n + 1)..(n + 1) |-> <<>>]
    <3>1. DOMAIN f = (n + 1)..(n + 1) /\ f[n + 1] = <<>>
      OBVIOUS
    <3>2. (n + 1)..n = {}
      OBVIOUS
    <3> HIDE DEF f
    <3>3. WalksFrom(f, n + 1, n, h, next)
      BY <3>1, <3>2 DEF WalksFrom
    <3> QED
      BY <3>3 DEF f
  <2>2. (n + 1) - 0 = n + 1
    OBVIOUS
  <2> QED
    BY <2>1, <2>2
<1>2. ASSUME NEW k \in Nat, k \in K PROVE k + 1 \in K
  <2> SUFFICES ASSUME k + 1 <= n
               PROVE  \E f : WalksFrom(f, (n + 1) - (k + 1), n, h, next)
    OBVIOUS
  <2> DEFINE a == n - k
  <2>1. /\ (n + 1) - (k + 1) = a /\ (n + 1) - k = a + 1 /\ a \in 1..n
    OBVIOUS
  <2> HIDE DEF a
  <2>2. PICK f : WalksFrom(f, a + 1, n, h, next)
    BY <1>2, <2>1
  <2> QED
    BY <2>1, <2>2, WalkStep
<1> HIDE DEF K
<1>3. n \in K
  BY <1>1, <1>2, Induction
<1>4. (n + 1) - n = 1
  OBVIOUS
<1>5. PICK f : WalksFrom(f, 1, n, h, next)
  BY <1>3, <1>4 DEF K
<1>6. Walks(f, n, h, next)
  BY <1>5 DEF Walks, WalksFrom
<1> QED
  BY <1>6

LEMMA WalkUnique ==
  ASSUME NEW n \in Nat, NEW h, NEW next, Forward(n, next),
         NEW f, Walks(f, n, h, next), NEW g, Walks(g, n, h, next)
  PROVE  \A i \in 1..(n + 1) : f[i] = g[i]
<1> DEFINE S == {i \in 1..n : f[i] = g[i]}
<1>1. ASSUME NEW i \in 1..n, \A j \in (i + 1)..n : j \in S PROVE i \in S
  <2>1. next[i] \in (i + 1)..n \/ next[i] = n + 1
    BY ForwardSteps
  <2>2. f[next[i]] = g[next[i]]
    BY <1>1, <2>1 DEF Walks
  <2> QED
    BY <2>2 DEF Walks
<1> HIDE DEF S
<1>2. 1..n \subseteq S
  BY <1>1, InductionDown
<1>3. \A i \in 1..(n + 1) : i \in 1..n \/ i = n + 1
  OBVIOUS
<1> QED
  BY <1>2, <1>3 DEF S, Walks

LEMMA WalkType ==
  ASSUME NEW n \in Nat, NEW h, NEW next, Forward(n, next),
         NEW f, Walks(f, n, h, next),
         NEW T, \A i \in 1..n : h[i] \in Seq(T)
  PROVE  \A i \in 1..(n + 1) : f[i] \in Seq(T)
<1> DEFINE S == {i \in 1..n : f[i] \in Seq(T)}
<1>0. f[n + 1] \in Seq(T)
  BY DEF Walks
<1>4. \A i \in 1..n : f[i] = h[i] \o f[next[i]]
  BY Zenon DEF Walks
<1>1. ASSUME NEW i \in 1..n, \A j \in (i + 1)..n : j \in S PROVE i \in S
  <2>1. next[i] \in (i + 1)..n \/ next[i] = n + 1
    BY ForwardSteps
  <2>2. f[next[i]] \in Seq(T) /\ h[i] \in Seq(T)
    BY <1>0, <1>1, <2>1
  <2>3. f[i] = h[i] \o f[next[i]]
    BY <1>4
  <2> QED
    BY <2>2, <2>3, ConcatProperties
<1> HIDE DEF S
<1>2. 1..n \subseteq S
  BY <1>1, InductionDown
<1>3. \A i \in 1..(n + 1) : i \in 1..n \/ i = n + 1
  OBVIOUS
<1> QED
  BY <1>0, <1>2, <1>3 DEF S

(* FlattenSeq from its end: a walk that takes every step.                  *)
Parted(g, f, k) == g[k] \o f[k + 1] = f[1]

IsSeqOf(S, x) == x \in Seq(S)
Cat(x, y) == x \o y

LEMMA Reassociated ==
  \A S, a, b, c : IsSeqOf(S, a) /\ IsSeqOf(S, b) /\ IsSeqOf(S, c)
                     => Cat(Cat(a, b), c) = Cat(a, Cat(b, c))
BY ConcatAssociative DEF IsSeqOf, Cat

LEMMA SuffixStep ==
  ASSUME NEW S, NEW n \in Nat, NEW g, NEW f, NEW u, NEW next, NEW k \in Nat,
         k + 1 \in 1..n, next[k + 1] = (k + 1) + 1,
         Concatenates(g, n, u), Walks(f, n, u, next), Parted(g, f, k),
         IsSeqOf(S, g[k]), IsSeqOf(S, u[k + 1]), IsSeqOf(S, f[(k + 1) + 1])
  PROVE  Parted(g, f, k + 1)
<1>1. g[k + 1] = Cat(g[k], u[k + 1])
  <2>1. g[k + 1] = Cat(g[(k + 1) - 1], u[k + 1])
    BY Zenon DEF Concatenates, Cat
  <2>2. (k + 1) - 1 = k
    OBVIOUS
  <2> QED
    BY <2>1, <2>2, Zenon
<1>2. f[k + 1] = Cat(u[k + 1], f[(k + 1) + 1])
  <2>1. f[k + 1] = Cat(u[k + 1], f[next[k + 1]])
    BY Zenon DEF Walks, Cat
  <2>2. f[next[k + 1]] = f[(k + 1) + 1]
    OBVIOUS
  <2> QED
    BY <2>1, <2>2, Zenon
<1>3. Cat(Cat(g[k], u[k + 1]), f[(k + 1) + 1])
        = Cat(g[k], Cat(u[k + 1], f[(k + 1) + 1]))
  BY Reassociated
<1>4. Cat(g[k], f[k + 1]) = f[1]
  BY Zenon DEF Parted, Cat
<1>5. Cat(g[k + 1], f[(k + 1) + 1]) = f[1]
  BY <1>1, <1>2, <1>3, <1>4, Zenon
<1> QED
  BY <1>5, Zenon DEF Parted, Cat

LEMMA FlattenBySuffixes ==
  ASSUME NEW S, NEW u \in Seq(Seq(S)), NEW f, NEW next,
         Walks(f, Len(u), u, next), \A i \in 1..Len(u) : next[i] = i + 1
  PROVE  FlattenSeq(u) = f[1]
<1>1. PICK n \in Nat : n = Len(u)
  OBVIOUS
<1>2. \A i \in 1..n : u[i] \in Seq(S)
  BY <1>1
<1>3. PICK g : Concatenates(g, n, u)
  BY <1>2, ConcatenationExists
<1>4. \A i \in 0..n : g[i] \in Seq(S)
  BY <1>2, <1>3, ConcatenationType
<1>5. Forward(n, next)
  BY <1>1 DEF Forward
<1>6. Walks(f, n, u, next)
  BY <1>1
<1>7. \A i \in 1..(n + 1) : f[i] \in Seq(S)
  BY <1>2, <1>5, <1>6, WalkType
<1> DEFINE K == {k \in Nat : k <= n => Parted(g, f, k)}
<1>8. g[0] = <<>> /\ f[n + 1] = <<>>
  <2>1. g[0] = <<>>
    BY <1>3, Zenon DEF Concatenates
  <2> QED
    BY <1>6, <2>1, Zenon DEF Walks
<1>9. 0 \in K
  <2>1. <<>> \o f[1] = f[1]
    BY <1>7, ConcatEmptySeq
  <2>2. 0 + 1 = 1
    OBVIOUS
  <2>3. Parted(g, f, 0)
    BY <1>8, <2>1, <2>2, Zenon DEF Parted
  <2> QED
    BY <2>3
<1>10. ASSUME NEW k \in Nat, k \in K PROVE k + 1 \in K
  <2>1. CASE ~(k + 1 <= n)
    BY <2>1
  <2>2. CASE k + 1 <= n
    <3>1. k + 1 \in 1..n /\ (k + 1) - 1 = k /\ k \in 0..n
          /\ (k + 1) + 1 \in 1..(n + 1) /\ k <= n
      BY <2>2
    <3>2. next[k + 1] = (k + 1) + 1
      BY <1>1, <3>1
    <3>3. g[(k + 1) - 1] \in Seq(S) /\ u[k + 1] \in Seq(S)
          /\ f[(k + 1) + 1] \in Seq(S)
      BY <1>2, <1>4, <1>7, <3>1
    <3>4. g[k] \in Seq(S)
      BY <3>1, <3>3
    <3>5. Parted(g, f, k)
      BY <1>10, <3>1
    <3>6. Parted(g, f, k + 1)
      BY <1>3, <1>6, <3>1, <3>2, <3>3, <3>4, <3>5, SuffixStep
         DEF IsSeqOf
    <3>7. k + 1 \in Nat
      OBVIOUS
    <3> QED
      BY <3>6, <3>7
  <2> QED
    BY <2>1, <2>2
<1>11. n \in K
  <2>1. \A k \in Nat : k \in K => k + 1 \in K
    <3> HIDE DEF K
    <3> QED
      BY <1>10
  <2> HIDE DEF K
  <2> QED
    BY <1>9, <2>1, Induction
<1>12. Parted(g, f, n)
  BY <1>11
<1>13. g[n] \in Seq(S)
  BY <1>4
<1>14. g[n] \o <<>> = g[n]
  BY <1>13, ConcatEmptySeq
<1>15. g[n] = f[1]
  BY <1>8, <1>12, <1>14, Zenon DEF Parted
<1> QED
  BY <1>1, <1>2, <1>3, <1>15, FlattenByPrefixes
-----------------------------------------------------------------------------
(* The elements of sequences, and of sequences made from them.             *)
LEMMA SeqOfSubset ==
  ASSUME NEW S, NEW s \in Seq(S), NEW T, \A i \in 1..Len(s) : s[i] \in T
  PROVE  s \in Seq(T)
OBVIOUS

LEMMA SeqOfWider ==
  ASSUME NEW S, NEW s \in Seq(S), NEW T, S \subseteq T
  PROVE  s \in Seq(T)
OBVIOUS

LEMMA Concatenated ==
  ASSUME NEW S, NEW s \in Seq(S), NEW t \in Seq(S)
  PROVE  /\ s \o t \in Seq(S) /\ Len(s \o t) = Len(s) + Len(t)
         /\ \A i \in 1..Len(s) : (s \o t)[i] = s[i]
         /\ \A i \in 1..Len(t) : (s \o t)[Len(s) + i] = t[i]
OBVIOUS

(* A concatenation has the elements of its parts.                          *)
LEMMA ConcatElements ==
  ASSUME NEW S, NEW x \in Seq(S), NEW y \in Seq(S)
  PROVE  ToSet(x \o y) = ToSet(x) \cup ToSet(y)
<1>1. /\ x \o y \in Seq(S) /\ Len(x \o y) = Len(x) + Len(y)
      /\ \A i \in 1..Len(x) : (x \o y)[i] = x[i]
      /\ \A i \in 1..Len(y) : (x \o y)[Len(x) + i] = y[i]
  OBVIOUS
<1> DEFINE z == x \o y
<1>2. DOMAIN x = 1..Len(x) /\ DOMAIN y = 1..Len(y) /\ DOMAIN z = 1..Len(z)
      /\ Len(x) \in Nat /\ Len(y) \in Nat
  BY <1>1
<1> HIDE DEF z
<1>3. ToSet(z) \subseteq ToSet(x) \cup ToSet(y)
  <2> SUFFICES ASSUME NEW i \in 1..Len(z) PROVE z[i] \in ToSet(x) \cup ToSet(y)
    BY <1>2 DEF ToSet
  <2>1. CASE i <= Len(x)
    BY <1>1, <1>2, <2>1 DEF ToSet, z
  <2>2. CASE i > Len(x)
    <3>1. i - Len(x) \in 1..Len(y) /\ Len(x) + (i - Len(x)) = i
      BY <1>1, <1>2, <2>2 DEF z
    <3>2. z[i] = y[i - Len(x)]
      BY <1>1, <3>1 DEF z
    <3> QED
      BY <1>2, <3>1, <3>2 DEF ToSet
  <2> QED
    BY <1>2, <2>1, <2>2
<1>4. ToSet(x) \subseteq ToSet(z)
  <2>1. \A i \in 1..Len(x) : i \in 1..Len(z) /\ z[i] = x[i]
    BY <1>1, <1>2 DEF z
  <2> QED
    BY <1>2, <2>1 DEF ToSet
<1>5. ToSet(y) \subseteq ToSet(z)
  <2>1. \A i \in 1..Len(y) : Len(x) + i \in 1..Len(z) /\ z[Len(x) + i] = y[i]
    BY <1>1, <1>2 DEF z
  <2> QED
    BY <1>2, <2>1 DEF ToSet
<1> QED
  BY <1>3, <1>4, <1>5 DEF z

LEMMA FlattenElements ==
  ASSUME NEW S, NEW u \in Seq(Seq(S))
  PROVE  ToSet(FlattenSeq(u)) = UNION {ToSet(u[i]) : i \in 1..Len(u)}
<1>1. Len(u) \in Nat /\ \A i \in 1..Len(u) : u[i] \in Seq(S)
  OBVIOUS
<1>2. PICK f : Concatenates(f, Len(u), u)
  BY <1>1, ConcatenationExists
<1>3. \A i \in 0..Len(u) : f[i] \in Seq(S)
  BY <1>1, <1>2, ConcatenationType
<1> DEFINE K == {k \in Nat : k <= Len(u) =>
                   ToSet(f[k]) = UNION {ToSet(u[i]) : i \in 1..k}}
<1>4. 0 \in K
  <2>1. f[0] = <<>> /\ ToSet(<<>>) = {}
    BY <1>2 DEF Concatenates, ToSet
  <2>2. {ToSet(u[i]) : i \in 1..0} = {}
    OBVIOUS
  <2> QED
    BY <2>1, <2>2
<1>5. ASSUME NEW k \in Nat, k \in K PROVE k + 1 \in K
  <2> SUFFICES ASSUME k + 1 <= Len(u)
               PROVE  ToSet(f[k + 1]) = UNION {ToSet(u[i]) : i \in 1..(k + 1)}
    OBVIOUS
  <2>1. k + 1 \in 1..Len(u) /\ (k + 1) - 1 = k /\ k \in 0..Len(u) /\ k <= Len(u)
    OBVIOUS
  <2>2. f[k + 1] = f[k] \o u[k + 1]
    <3>1. f[k + 1] = f[(k + 1) - 1] \o u[k + 1]
      BY <1>2, <2>1, Zenon DEF Concatenates
    <3> QED
      BY <2>1, <3>1, Zenon
  <2>3. f[k] \in Seq(S) /\ u[k + 1] \in Seq(S)
    BY <1>1, <1>3, <2>1
  <2>4. ToSet(f[k + 1]) = ToSet(f[k]) \cup ToSet(u[k + 1])
    BY <2>2, <2>3, ConcatElements
  <2>5. 1..(k + 1) = 1..k \cup {k + 1}
    OBVIOUS
  <2>6. ToSet(f[k]) = UNION {ToSet(u[i]) : i \in 1..k}
    BY <1>5, <2>1
  <2> QED
    BY <2>4, <2>5, <2>6
<1> HIDE DEF K
<1>6. Len(u) \in K
  BY <1>1, <1>4, <1>5, Induction
<1>7. FlattenSeq(u) = f[Len(u)]
  BY <1>2, FlattenByPrefixes
<1> QED
  BY <1>1, <1>6, <1>7 DEF K

(* The elements at some places.                                            *)
At(s, K) == [i \in DOMAIN s |-> IF i \in K THEN <<s[i]>> ELSE <<>>]
LEMMA KeptElements ==
  ASSUME NEW S, NEW s \in Seq(S), NEW K, K \subseteq DOMAIN s
  PROVE  /\ FlattenSeq(At(s, K)) \in Seq(S)
         /\ ToSet(FlattenSeq(At(s, K))) = {s[i] : i \in K}
<1> DEFINE u == At(s, K)
<1>1. DOMAIN s = 1..Len(s) /\ Len(s) \in Nat /\ \A i \in 1..Len(s) : s[i] \in S
  OBVIOUS
<1>2. \A i \in 1..Len(s) : <<>> \in Seq(S) /\ <<s[i]>> \in Seq(S)
  BY <1>1
<1>3. /\ u \in Seq(Seq(S)) /\ Len(u) = Len(s)
      /\ \A i \in 1..Len(s) : u[i] = IF i \in K THEN <<s[i]>> ELSE <<>>
  BY <1>1, <1>2 DEF At
<1> HIDE DEF u
<1>4. ToSet(FlattenSeq(u)) = UNION {ToSet(u[i]) : i \in 1..Len(s)}
  BY <1>3, FlattenElements
<1>5. ToSet(<<>>) = {} /\ \A e : ToSet(<<e>>) = {e}
  BY DEF ToSet
<1>6. \A i \in 1..Len(s) : ToSet(u[i]) = IF i \in K THEN {s[i]} ELSE {}
  BY <1>3, <1>5
<1>7. UNION {ToSet(u[i]) : i \in 1..Len(s)} = {s[i] : i \in K}
  BY <1>1, <1>6
<1> QED
  BY <1>3, <1>4, <1>7, FlattenType DEF u

(* Each of them from a place of its own.                                   *)
FromPlaces(x, s, K, p) ==
  /\ p \in [1..Len(x) -> K]
  /\ \A a \in 1..Len(x) : x[a] = s[p[a]]
  /\ \A a, b \in 1..Len(x) : p[a] = p[b] => a = b

LEMMA FromPlacesMore ==
  ASSUME NEW S, NEW x \in Seq(S), NEW s, NEW K, NEW L, NEW p, FromPlaces(x, s, K, p),
         NEW i, i \notin K, L = K \cup {i}, s[i] \in S
  PROVE  \E q : FromPlaces(x \o <<s[i]>>, s, L, q)
<1> DEFINE n == Len(x)
           y == x \o <<s[i]>>
           q == [a \in 1..(n + 1) |-> IF a <= n THEN p[a] ELSE i]
<1>1. /\ n \in Nat /\ Len(y) = n + 1 /\ y[n + 1] = s[i]
      /\ \A a \in 1..n : y[a] = x[a]
  OBVIOUS
<1>2. /\ p \in [1..n -> K] /\ \A a \in 1..n : x[a] = s[p[a]]
      /\ \A a, b \in 1..n : p[a] = p[b] => a = b
  BY DEF FromPlaces
<1> HIDE DEF n, y
<1>3. /\ DOMAIN q = 1..(n + 1) /\ q[n + 1] = i
      /\ \A a \in 1..n : q[a] = p[a] /\ p[a] \in K
  BY <1>1, <1>2
<1>4. \A a \in 1..(n + 1) : a \in 1..n \/ a = n + 1
  BY <1>1
<1>5. q = [a \in 1..(n + 1) |-> q[a]]
  OBVIOUS
<1> HIDE DEF q
<1>6. q \in [1..(n + 1) -> L]
  BY <1>3, <1>4, <1>5
<1>7. \A a \in 1..(n + 1) : y[a] = s[q[a]]
  BY <1>1, <1>2, <1>3, <1>4
<1>8. \A a, b \in 1..(n + 1) : q[a] = q[b] => a = b
  BY <1>2, <1>3, <1>4
<1>9. FromPlaces(y, s, L, q)
  BY <1>1, <1>6, <1>7, <1>8 DEF FromPlaces
<1> QED
  BY <1>9 DEF y

LEMMA KeptPlaces ==
  ASSUME NEW S, NEW s \in Seq(S), NEW K, K \subseteq DOMAIN s
  PROVE  \E p : FromPlaces(FlattenSeq(At(s, K)), s, K, p)
<1> DEFINE u == At(s, K)
           N == Len(s)
           upto(k) == {i \in K : i <= k}
<1>1. N \in Nat /\ DOMAIN s = 1..N /\ \A i \in 1..N : s[i] \in S
  OBVIOUS
<1>2. \A i \in 1..N : <<>> \in Seq(S) /\ <<s[i]>> \in Seq(S)
  BY <1>1
<1>3. /\ u \in Seq(Seq(S)) /\ Len(u) = N
      /\ \A i \in 1..N : u[i] = IF i \in K THEN <<s[i]>> ELSE <<>>
  BY <1>1, <1>2 DEF At
<1> HIDE DEF u, N
<1>4. PICK f : Concatenates(f, N, u)
  BY <1>1, ConcatenationExists
<1>5. \A i \in 1..N : u[i] \in Seq(S)
  BY <1>2, <1>3
<1>6. \A i \in 0..N : f[i] \in Seq(S)
  BY <1>1, <1>4, <1>5, ConcatenationType
<1> DEFINE T == {k \in Nat : k <= N => \E p : FromPlaces(f[k], s, upto(k), p)}
<1>7. 0 \in T
  <2>1. f[0] = <<>> /\ Len(<<>>) = 0
    BY <1>4 DEF Concatenates
  <2>2. FromPlaces(<<>>, s, upto(0), <<>>)
    <3>1. 1..0 = {} /\ <<>> \in [{} -> upto(0)]
      OBVIOUS
    <3> HIDE DEF upto
    <3> QED
      BY <2>1, <3>1 DEF FromPlaces
  <2> QED
    BY <2>1, <2>2
<1>8. ASSUME NEW k \in Nat, k \in T PROVE k + 1 \in T
  <2> SUFFICES ASSUME k + 1 <= N PROVE \E p : FromPlaces(f[k + 1], s, upto(k + 1), p)
    <3> HIDE DEF upto
    <3> QED
      OBVIOUS
  <2>1. /\ k + 1 \in 1..N /\ (k + 1) - 1 = k /\ k \in 0..N /\ k <= N
    BY <1>1
  <2>2. f[k + 1] = f[k] \o u[k + 1]
    <3>1. f[k + 1] = f[(k + 1) - 1] \o u[k + 1]
      BY <1>4, <2>1, Zenon DEF Concatenates
    <3> QED
      BY <2>1, <3>1, Zenon
  <2>3. f[k] \in Seq(S) /\ s[k + 1] \in S
    BY <1>1, <1>6, <2>1
  <2>4. PICK p : FromPlaces(f[k], s, upto(k), p)
    BY <1>8, <2>1
  <2>5. CASE k + 1 \in K
    <3>1. upto(k + 1) = upto(k) \cup {k + 1} /\ k + 1 \notin upto(k)
      BY <1>1, <2>5
    <3>2. f[k + 1] = f[k] \o <<s[k + 1]>>
      BY <1>3, <2>1, <2>2, <2>5
    <3> DEFINE x == f[k]
               L == upto(k + 1)
               M == upto(k)
    <3>3. x \in Seq(S) /\ FromPlaces(x, s, M, p) /\ L = M \cup {k + 1}
          /\ k + 1 \notin M /\ s[k + 1] \in S
      BY <2>3, <2>4, <3>1
    <3> HIDE DEF x, L, M
    <3>4. \E q : FromPlaces(x \o <<s[k + 1]>>, s, L, q)
      BY <3>3, FromPlacesMore
    <3> QED
      BY <3>2, <3>4 DEF x, L
  <2>6. CASE k + 1 \notin K
    <3>1. upto(k + 1) = upto(k)
      BY <1>1, <2>6
    <3>2. f[k + 1] = f[k]
      <4>1. u[k + 1] = <<>>
        BY <1>3, <2>1, <2>6
      <4> QED
        BY <2>2, <2>3, <4>1, ConcatEmptySeq
    <3> HIDE DEF upto
    <3> QED
      BY <2>4, <3>1, <3>2
  <2> QED
    BY <2>5, <2>6
<1> HIDE DEF T
<1>9. N \in T
  BY <1>1, <1>7, <1>8, Induction
<1>10. upto(N) = K
  BY <1>1
<1> HIDE DEF upto
<1>11. FlattenSeq(u) = f[N]
  BY <1>3, <1>4, FlattenByPrefixes
<1> QED
  BY <1>1, <1>9, <1>10, <1>11 DEF T, u

(* The first of each key k[i].                                             *)
Firsts(s, k) == {i \in DOMAIN s : ~\E j \in 1..(i - 1) : k[j] = k[i]}
LEMMA FirstElements ==
  ASSUME NEW S, NEW s \in Seq(S), NEW k
  PROVE  /\ FlattenSeq(At(s, Firsts(s, k))) \in Seq(S)
         /\ ToSet(FlattenSeq(At(s, Firsts(s, k)))) \subseteq ToSet(s)
         /\ \A i \in DOMAIN s : \E j \in DOMAIN s :
              k[j] = k[i] /\ s[j] \in ToSet(FlattenSeq(At(s, Firsts(s, k))))
<1> DEFINE K == Firsts(s, k)
<1>1. K \subseteq DOMAIN s
  BY DEF Firsts
<1>2. ASSUME NEW i \in DOMAIN s PROVE \E j \in K : k[j] = k[i]
  <2> DEFINE T == {j \in DOMAIN s : k[j] = k[i]}
  <2>1. DOMAIN s = 1..Len(s) /\ Len(s) \in Nat
    OBVIOUS
  <2>2. T \subseteq Nat /\ i \in T
    BY <2>1
  <2>3. PICK j \in T : \A n \in T : j <= n
    BY <2>2, LeastExists
  <2>4. ~\E n \in 1..(j - 1) : k[n] = k[j]
    <3> SUFFICES ASSUME NEW n \in 1..(j - 1), k[n] = k[j] PROVE FALSE
      OBVIOUS
    <3>1. n \in DOMAIN s /\ n < j
      BY <2>1
    <3>2. n \in T
      BY <3>1
    <3> QED
      BY <2>3, <3>1, <3>2
  <2> QED
    BY <2>4 DEF Firsts
<1> HIDE DEF K
<1>3. /\ FlattenSeq(At(s, K)) \in Seq(S)
      /\ ToSet(FlattenSeq(At(s, K))) = {s[i] : i \in K}
  BY <1>1, KeptElements
<1>4. {s[i] : i \in K} \subseteq ToSet(s)
  BY <1>1 DEF ToSet
<1>5. \A i \in DOMAIN s : \E j \in DOMAIN s :
        k[j] = k[i] /\ s[j] \in {s[n] : n \in K}
  BY <1>1, <1>2
<1> QED
  BY <1>3, <1>4, <1>5 DEF K

LEMMA FirstsApart ==
  ASSUME NEW S, NEW s \in Seq(S), NEW k, NEW first,
         first = FlattenSeq(At(s, Firsts(s, k)))
  PROVE  \E p \in [1..Len(first) -> DOMAIN s] :
           /\ \A a \in 1..Len(first) : first[a] = s[p[a]]
           /\ \A a, b \in 1..Len(first) : k[p[a]] = k[p[b]] => a = b
<1> DEFINE K == Firsts(s, k)
<1>1. K \subseteq DOMAIN s /\ DOMAIN s = 1..Len(s) /\ Len(s) \in Nat
  BY DEF Firsts
<1>2. \A i, j \in K : k[i] = k[j] => i = j
  <2> SUFFICES ASSUME NEW i \in K, NEW j \in K, k[i] = k[j], i < j PROVE FALSE
    BY <1>1
  <2>1. i \in 1..(j - 1)
    BY <1>1
  <2> QED
    BY <2>1 DEF Firsts
<1> HIDE DEF K
<1>3. PICK p : FromPlaces(first, s, K, p)
  BY <1>1, KeptPlaces DEF K
<1>4. /\ p \in [1..Len(first) -> K]
      /\ \A a \in 1..Len(first) : first[a] = s[p[a]]
      /\ \A a, b \in 1..Len(first) : p[a] = p[b] => a = b
  BY <1>3 DEF FromPlaces
<1>5. \A a, b \in 1..Len(first) : k[p[a]] = k[p[b]] => a = b
  BY <1>2, <1>4
<1>6. p \in [1..Len(first) -> DOMAIN s]
  BY <1>1, <1>4
<1> QED
  BY <1>4, <1>5, <1>6
=============================================================================
