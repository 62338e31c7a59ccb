------------------------- MODULE DollarEscapeProofs -------------------------
(***************************************************************************)
(* What os.ExpandEnv makes of an escaped text is what the text means       *)
(* (internal/render/escape.go), for texts of any length.                   *)
(***************************************************************************)
EXTENDS DollarEscape, DataInduction

(* The tokens of texts, values among them.                                 *)
IsAlphabet(T) == {"$", Open, Close, "GB_DOLLAR", "value of"} \subseteq T

LEMMA MarksAreNoNames == ~IsName("$") /\ ~IsName(Open) /\ ~IsName(Close)
BY TokenAssumption DEF IsName

LEMMA MarksDiffer == "$" # Open /\ "$" # Close /\ Open # Close
BY Zenon DEF Open, Close

-----------------------------------------------------------------------------
HasAt(s, i, tok) == s[i] = tok

(* The name that begins at i ends at e.                                    *)
EndsName(s, i, e) ==
  /\ e \in (i - 1)..Len(s)
  /\ \A k \in i..e : IsName(s[k])
  /\ e = Len(s) \/ ~IsName(s[e + 1])

LEMMA NameEndIs ==
  ASSUME NEW s, Len(s) \in Nat, NEW i \in 1..(Len(s) + 1)
  PROVE  EndsName(s, i, NameEnd(s, i))
<1> DEFINE named == {j \in i..Len(s) : \A k \in i..j : IsName(s[k])}
           M == {i - 1} \cup named
           e == NameEnd(s, i)
<1>1. Len(s) \in Nat /\ i - 1 \in Nat /\ i - 1 <= Len(s)
  OBVIOUS
<1>2. M \subseteq Nat /\ M # {} /\ \A x \in M : x <= Len(s)
  BY <1>1
<1>3. e = Max(M)
  BY DEF NameEnd
<1>4. e \in M /\ \A x \in M : x <= e
  <2> HIDE DEF M, e
  <2> QED
    BY <1>1, <1>2, <1>3, MaxOfBounded
<1> HIDE DEF e
<1>5. e \in (i - 1)..Len(s) /\ \A k \in i..e : IsName(s[k])
  BY <1>1, <1>4
<1>6. ASSUME e # Len(s), IsName(s[e + 1]) PROVE FALSE
  <2>1. e + 1 \in i..Len(s) /\ \A k \in i..(e + 1) : k \in i..e \/ k = e + 1
    BY <1>1, <1>5, <1>6
  <2>2. e + 1 \in named
    BY <1>5, <1>6, <2>1
  <2> QED
    BY <1>4, <1>5, <2>2
<1> QED
  BY <1>5, <1>6 DEF EndsName, e

LEMMA NameEndUnique ==
  ASSUME NEW s, Len(s) \in Nat, NEW i \in 1..(Len(s) + 1),
         NEW e, EndsName(s, i, e)
  PROVE  NameEnd(s, i) = e
<1>1. ASSUME NEW a, NEW b, EndsName(s, i, a), EndsName(s, i, b), a < b
      PROVE  FALSE
  <2>1. /\ a \in (i - 1)..Len(s) /\ b \in (i - 1)..Len(s)
        /\ \A k \in i..b : IsName(s[k])
        /\ a = Len(s) \/ ~IsName(s[a + 1])
    BY <1>1 DEF EndsName
  <2>2. a + 1 \in i..b /\ a # Len(s)
    BY <1>1, <2>1
  <2> QED
    BY <2>1, <2>2
<1>2. EndsName(s, i, NameEnd(s, i))
  BY NameEndIs
<1>3. NameEnd(s, i) \in Int /\ e \in Int
  BY <1>2 DEF EndsName
<1>4. NameEnd(s, i) < e \/ e < NameEnd(s, i) \/ NameEnd(s, i) = e
  BY <1>3
<1> QED
  BY <1>1, <1>2, <1>4

-----------------------------------------------------------------------------
(* The two forms of a reference from i to j.                               *)
IsBracedRef(s, i, j) ==
  HasAt(s, i + 1, Open) /\ HasAt(s, j, Close) /\ Names(s, i + 2, j - 1)
IsPlainRef(s, i, j) == Names(s, i + 1, j) /\ (j = Len(s) \/ ~IsName(s[j + 1]))

IsRef(s, i, j) ==
  i < j /\ HasAt(s, i, "$") /\ (IsBracedRef(s, i, j) \/ IsPlainRef(s, i, j))

LEMMA ReferencesAre ==
  ASSUME NEW s, NEW i \in 1..Len(s), NEW j \in 1..Len(s)
  PROVE  <<i, j>> \in References(s) <=> IsRef(s, i, j)
BY DEF References, IsRef, IsBracedRef, IsPlainRef, HasAt

LEMMA ReferenceBounds ==
  ASSUME NEW s, NEW r \in References(s)
  PROVE  /\ r = <<r[1], r[2]>> /\ r[1] \in 1..Len(s) /\ r[2] \in 1..Len(s)
         /\ IsRef(s, r[1], r[2])
BY DEF References, IsRef, IsBracedRef, IsPlainRef, HasAt

(* After "${" the reference ends with the brace after its name.            *)
LEMMA BracedRefEnd ==
  ASSUME NEW s, Len(s) \in Nat, NEW i \in 1..Len(s), HasAt(s, i, "$"),
         i < Len(s), HasAt(s, i + 1, Open)
  PROVE  /\ RefEnd(s, i) \in i..Len(s)
         /\ RefEnd(s, i) # i => IsRef(s, i, RefEnd(s, i))
         /\ \A j \in 1..Len(s) : IsRef(s, i, j) => j = RefEnd(s, i)
<1> DEFINE e == NameEnd(s, i + 2)
<1>1. Len(s) \in Nat /\ i + 2 \in 1..(Len(s) + 1) /\ (i + 2) - 1 = i + 1
  OBVIOUS
<1>2. EndsName(s, i + 2, e)
  BY <1>1, NameEndIs
<1>3. RefEnd(s, i) = IF ~IsVarName(s, i + 2, e) THEN i
                     ELSE IF e < Len(s) /\ HasAt(s, e + 1, Close) THEN e + 1 ELSE i
  BY <1>1 DEF RefEnd, HasAt
<1> HIDE DEF e
<1>4. e \in (i + 1)..Len(s) /\ \A k \in (i + 2)..e : IsName(s[k])
  BY <1>1, <1>2 DEF EndsName
<1>5. RefEnd(s, i) \in i..Len(s)
  BY <1>1, <1>3, <1>4
<1>6. ASSUME RefEnd(s, i) # i PROVE IsRef(s, i, RefEnd(s, i))
  <2>1. /\ RefEnd(s, i) = e + 1 /\ IsVarName(s, i + 2, e)
        /\ HasAt(s, e + 1, Close)
    BY <1>3, <1>6
  <2>2. (e + 1) - 1 = e /\ i < e + 1
    BY <1>4
  <2>3. Names(s, i + 2, e)
    BY <1>4, <2>1 DEF Names
  <2> QED
    BY <2>1, <2>2, <2>3 DEF IsRef, IsBracedRef
<1>7. ASSUME NEW j \in 1..Len(s), IsRef(s, i, j) PROVE j = RefEnd(s, i)
  <2>1. ~IsPlainRef(s, i, j)
    <3>1. ~IsName(s[i + 1])
      BY MarksAreNoNames DEF HasAt
    <3>2. IsPlainRef(s, i, j)
            => i + 1 <= j /\ \A k \in (i + 1)..j : IsName(s[k])
      BY DEF IsPlainRef, Names, IsVarName
    <3> QED
      BY <3>1, <3>2
  <2>2. /\ HasAt(s, j, Close) /\ IsVarName(s, i + 2, j - 1) /\ i + 2 <= j - 1
        /\ \A k \in (i + 2)..(j - 1) : IsName(s[k])
    BY <1>7, <2>1 DEF IsRef, IsBracedRef, Names, IsVarName
  <2>3. EndsName(s, i + 2, j - 1)
    <3>1. (j - 1) + 1 = j /\ j - 1 \in ((i + 2) - 1)..Len(s)
      BY <2>2
    <3> QED
      BY <2>2, <3>1, MarksAreNoNames DEF EndsName, HasAt
  <2>4. e = j - 1
    BY <1>1, <2>3, NameEndUnique DEF e
  <2>5. e + 1 = j /\ e < Len(s)
    BY <2>4
  <2> QED
    BY <1>3, <2>2, <2>4, <2>5
<1> QED
  BY <1>5, <1>6, <1>7

(* Anything else is followed by a name, or is none.                        *)
LEMMA PlainRefEnd ==
  ASSUME NEW s, Len(s) \in Nat, NEW i \in 1..Len(s), HasAt(s, i, "$"),
         ~(i < Len(s) /\ HasAt(s, i + 1, Open))
  PROVE  /\ RefEnd(s, i) \in i..Len(s)
         /\ RefEnd(s, i) # i => IsRef(s, i, RefEnd(s, i))
         /\ \A j \in 1..Len(s) : IsRef(s, i, j) => j = RefEnd(s, i)
<1> DEFINE e == NameEnd(s, i + 1)
<1>1. Len(s) \in Nat /\ i + 1 \in 1..(Len(s) + 1) /\ (i + 1) - 1 = i
  OBVIOUS
<1>2. EndsName(s, i + 1, e)
  BY <1>1, NameEndIs
<1>3. RefEnd(s, i) = IF ~IsVarName(s, i + 1, e) THEN i ELSE e
  BY <1>1 DEF RefEnd, HasAt
<1> HIDE DEF e
<1>4. /\ e \in i..Len(s) /\ \A k \in (i + 1)..e : IsName(s[k])
      /\ e = Len(s) \/ ~IsName(s[e + 1])
  BY <1>1, <1>2 DEF EndsName
<1>5. RefEnd(s, i) \in i..Len(s)
  BY <1>1, <1>3, <1>4
<1>6. ASSUME RefEnd(s, i) # i PROVE IsRef(s, i, RefEnd(s, i))
  <2>1. RefEnd(s, i) = e /\ IsVarName(s, i + 1, e) /\ i < e
    BY <1>3, <1>4, <1>6
  <2>2. Names(s, i + 1, e)
    BY <1>4, <2>1 DEF Names
  <2> QED
    BY <1>4, <2>1, <2>2 DEF IsRef, IsPlainRef
<1>7. ASSUME NEW j \in 1..Len(s), IsRef(s, i, j) PROVE j = RefEnd(s, i)
  <2>1. ~IsBracedRef(s, i, j) /\ i < j
    BY <1>7 DEF IsRef, IsBracedRef
  <2>2. /\ IsVarName(s, i + 1, j) /\ \A k \in (i + 1)..j : IsName(s[k])
        /\ j = Len(s) \/ ~IsName(s[j + 1])
    BY <1>7, <2>1 DEF IsRef, IsPlainRef, Names
  <2>3. EndsName(s, i + 1, j)
    BY <1>1, <2>1, <2>2 DEF EndsName
  <2>4. e = j
    BY <1>1, <2>3, NameEndUnique DEF e
  <2> QED
    BY <1>3, <2>2, <2>4
<1> QED
  BY <1>5, <1>6, <1>7

(* refPrefixLen finds the references the documentation defines.            *)
LEMMA RefEndIs ==
  ASSUME NEW s, Len(s) \in Nat, NEW i \in 1..Len(s), HasAt(s, i, "$")
  PROVE  /\ RefEnd(s, i) \in i..Len(s)
         /\ RefEnd(s, i) # i => IsRef(s, i, RefEnd(s, i))
         /\ \A j \in 1..Len(s) : IsRef(s, i, j) => j = RefEnd(s, i)
<1>1. CASE i < Len(s) /\ HasAt(s, i + 1, Open)
  BY <1>1, BracedRefEnd
<1>2. CASE ~(i < Len(s) /\ HasAt(s, i + 1, Open))
  BY <1>2, PlainRefEnd
<1> QED
  BY <1>1, <1>2

-----------------------------------------------------------------------------
(* A scan is a walk over the text.                                         *)
Outs(n, steps) == [i \in 1..n |-> steps[i].out]
Nexts(n, steps) == [i \in 1..n |-> steps[i].next]
Scans(f, n, steps) == Walks(f, n, Outs(n, steps), Nexts(n, steps))
Advances(n, steps) == \A i \in 1..n : steps[i].next \in (i + 1)..(n + 1)

LEMMA AdvancesForward ==
  ASSUME NEW n \in Nat, NEW steps, Advances(n, steps)
  PROVE  Forward(n, Nexts(n, steps))
BY DEF Advances, Forward, Nexts

LEMMA ScansIs ==
  ASSUME NEW n \in Nat, NEW steps, NEW f
  PROVE  Scans(f, n, steps)
           <=> /\ DOMAIN f = 1..(n + 1) /\ f[n + 1] = <<>>
               /\ \A i \in 1..n : f[i] = steps[i].out \o f[steps[i].next]
BY DEF Scans, Walks, Outs, Nexts

LEMMA ScanExists ==
  ASSUME NEW n \in Nat, NEW steps, Advances(n, steps)
  PROVE  \E f : Scans(f, n, steps) /\ Scan(n, steps) = f[1]
<1> DEFINE from == CHOOSE f : f = [i \in 1..(n + 1) |->
                     IF i = n + 1 THEN <<>>
                     ELSE steps[i].out \o f[steps[i].next]]
<1>1. Scan(n, steps) = from[1]
  BY DEF Scan
<1>2. PICK f : Scans(f, n, steps)
  <2>1. Forward(n, Nexts(n, steps))
    BY AdvancesForward
  <2> QED
    BY <2>1, WalkExists DEF Scans
<1> DEFINE g == [i \in 1..(n + 1) |-> f[i]]
<1>3. g = [i \in 1..(n + 1) |-> IF i = n + 1 THEN <<>>
                                ELSE steps[i].out \o g[steps[i].next]]
  <2>1. \A i \in 1..(n + 1) : i # n + 1 => i \in 1..n
    OBVIOUS
  <2>2. /\ f[n + 1] = <<>>
        /\ \A i \in 1..n : f[i] = steps[i].out \o f[steps[i].next]
    BY <1>2 DEF Scans, Walks, Outs, Nexts
  <2>3. \A i \in 1..n : steps[i].next \in 1..(n + 1)
    BY DEF Advances
  <2>4. \A i \in 1..n : g[steps[i].next] = f[steps[i].next]
    BY <2>3
  <2>5. \A i \in 1..(n + 1) : f[i] = IF i = n + 1 THEN <<>>
                                     ELSE steps[i].out \o g[steps[i].next]
    BY <2>1, <2>2, <2>4
  <2> QED
    BY <2>5
<1>4. from = [i \in 1..(n + 1) |-> IF i = n + 1 THEN <<>>
                                ELSE steps[i].out \o from[steps[i].next]]
  <2> HIDE DEF from
  <2> QED
    BY <1>3 DEF from
<1> HIDE DEF from
<1>5. Scans(from, n, steps)
  <2>1. \A i \in 1..n : i \in 1..(n + 1) /\ i # n + 1
    OBVIOUS
  <2>2. n + 1 \in 1..(n + 1)
    OBVIOUS
  <2> QED
    BY <1>4, <2>1, <2>2, ScansIs
<1> QED
  BY <1>1, <1>5

(* Any other walk over the steps is the same.                              *)
LEMMA ScanIs ==
  ASSUME NEW n \in Nat, NEW steps, Advances(n, steps), NEW f,
         Scans(f, n, steps)
  PROVE  Scan(n, steps) = f[1]
<1>1. PICK g : Scans(g, n, steps) /\ Scan(n, steps) = g[1]
  BY ScanExists
<1>2. Forward(n, Nexts(n, steps))
  BY AdvancesForward
<1>3. g[1] = f[1]
  <2>1. 1 \in 1..(n + 1)
    OBVIOUS
  <2> QED
    BY <1>1, <1>2, <2>1, WalkUnique DEF Scans
<1> QED
  BY <1>1, <1>3

(* After its first step a scan goes on as one of the rest of the text.     *)
Follows(rest, n, steps, m) ==
  /\ m \in Nat /\ n \in Nat /\ m > 0
  /\ Advances(m + n, steps) /\ Advances(n, rest)
  /\ \A k \in 1..n : /\ steps[m + k].out = rest[k].out
                     /\ steps[m + k].next = m + rest[k].next
  /\ steps[1].next = m + 1

LEMMA ScanTail ==
  ASSUME NEW m, NEW n, NEW steps, NEW rest, Follows(rest, n, steps, m)
  PROVE  Scan(m + n, steps) = steps[1].out \o Scan(n, rest)
<1>0. /\ m \in Nat /\ n \in Nat /\ m > 0
      /\ Advances(m + n, steps) /\ Advances(n, rest)
      /\ \A k \in 1..n : /\ steps[m + k].out = rest[k].out
                         /\ steps[m + k].next = m + rest[k].next
      /\ steps[1].next = m + 1
  BY DEF Follows
<1>1. m + n \in Nat /\ 1 \in 1..(m + n) /\ m + n > 0
  BY <1>0
<1>2. PICK f : Scans(f, m + n, steps) /\ Scan(m + n, steps) = f[1]
  BY <1>0, <1>1, ScanExists
<1> DEFINE g == [k \in 1..(n + 1) |-> f[m + k]]
<1>3. DOMAIN g = 1..(n + 1) /\ \A k \in 1..(n + 1) : g[k] = f[m + k]
  BY <1>0
<1> HIDE DEF g
<1>4. f[(m + n) + 1] = <<>>
      /\ \A i \in 1..(m + n) : f[i] = steps[i].out \o f[steps[i].next]
  <2> DEFINE N == m + n
  <2>1. N \in Nat /\ Scans(f, N, steps)
    BY <1>1, <1>2
  <2> HIDE DEF N
  <2>2. f[N + 1] = <<>>
        /\ \A i \in 1..N : f[i] = steps[i].out \o f[steps[i].next]
    BY <2>1 DEF Scans, Walks, Outs, Nexts
  <2> QED
    BY <2>2 DEF N
<1>5. g[n + 1] = <<>>
  <2>1. n + 1 \in 1..(n + 1) /\ m + (n + 1) = (m + n) + 1
    BY <1>0
  <2> QED
    BY <1>3, <1>4, <2>1
<1>6. ASSUME NEW k \in 1..n PROVE g[k] = rest[k].out \o g[rest[k].next]
  <2>1. m + k \in 1..(m + n) /\ k \in 1..(n + 1)
    BY <1>0
  <2>2. rest[k].next \in 1..(n + 1)
    BY <1>0 DEF Advances
  <2>3. f[m + k] = steps[m + k].out \o f[steps[m + k].next]
    BY <1>4, <2>1
  <2>4. f[m + k] = rest[k].out \o f[m + rest[k].next]
    BY <1>0, <2>3
  <2> QED
    BY <1>3, <2>1, <2>2, <2>4
<1>7. Scans(g, n, rest)
  BY <1>0, <1>3, <1>5, <1>6, ScansIs
<1>8. Scan(n, rest) = g[1] /\ g[1] = f[m + 1]
  <2>1. 1 \in 1..(n + 1)
    BY <1>0
  <2> QED
    BY <1>0, <1>3, <1>7, <2>1, ScanIs
<1>9. f[1] = steps[1].out \o f[m + 1]
  BY <1>0, <1>1, <1>4
<1> QED
  BY <1>2, <1>8, <1>9

-----------------------------------------------------------------------------
(* What os.ExpandEnv finds at a '$', case by case.                         *)
FirstClosing(s, i, j) ==
  /\ j \in i..Len(s) /\ HasAt(s, j, Close)
  /\ \A k \in i..(j - 1) : ~HasAt(s, k, Close)

LEMMA FirstClosingIs ==
  ASSUME NEW s, Len(s) \in Nat, NEW i \in Nat, NEW j, FirstClosing(s, i, j)
  PROVE  Closings(s, i) # {} /\ Min(Closings(s, i)) = j
<1> DEFINE C == Closings(s, i)
<1>1. C \subseteq Nat /\ j \in C
  BY DEF FirstClosing, Closings, HasAt
<1>2. Min(C) \in C /\ \A x \in C : Min(C) <= x
  <2> HIDE DEF C
  <2> QED
    BY <1>1, MinOfNaturals
<1> DEFINE m == Min(C)
<1>3. m \in i..Len(s) /\ HasAt(s, m, Close) /\ m <= j /\ j \in i..Len(s)
  BY <1>1, <1>2 DEF Closings, HasAt
<1> HIDE DEF m
<1>4. ~(m < j)
  <2>1. m < j => m \in i..(j - 1)
    BY <1>3
  <2> QED
    BY <1>3, <2>1 DEF FirstClosing
<1>5. m = j
  BY <1>3, <1>4
<1> QED
  BY <1>1, <1>5 DEF m

LEMMA FirstClosingExists ==
  ASSUME NEW s, Len(s) \in Nat, NEW i \in Nat, Closings(s, i) # {}
  PROVE  \E j : FirstClosing(s, i, j)
<1> DEFINE C == Closings(s, i)
           m == Min(C)
<1>1. C \subseteq Nat /\ C # {}
  BY DEF Closings
<1>2. m \in C /\ \A x \in C : m <= x
  <2> HIDE DEF C
  <2> QED
    BY <1>1, MinOfNaturals
<1> HIDE DEF m
<1>3. m \in i..Len(s) /\ HasAt(s, m, Close)
  BY <1>2 DEF Closings, HasAt
<1>4. ASSUME NEW k \in i..(m - 1), HasAt(s, k, Close) PROVE FALSE
  <2>1. k \in i..Len(s) /\ k < m
    BY <1>3
  <2>2. k \in C
    BY <1>4, <2>1 DEF Closings, HasAt
  <2> QED
    BY <1>2, <2>1, <2>2
<1>5. FirstClosing(s, i, m)
  BY <1>3, <1>4 DEF FirstClosing
<1> QED
  BY <1>5

(* The name that is read, and where it ends.                               *)
ReadsBraced(s, i, j) == HasAt(s, i + 1, Open) /\ FirstClosing(s, i + 2, j)
ReadsOpen(s, i) == HasAt(s, i + 1, Open) /\ Closings(s, i + 2) = {}
ReadsSpecial(s, i) == ~HasAt(s, i + 1, Open) /\ s[i + 1] \in Specials
ReadsPlain(s, i, e) == /\ ~HasAt(s, i + 1, Open) /\ s[i + 1] \notin Specials
                       /\ EndsName(s, i + 1, e)

Read(s, i, name, end) ==
  ShellName(s, i).name = name /\ ShellName(s, i).end = end

LEMMA BracedRead ==
  ASSUME NEW s, Len(s) \in Nat, NEW i \in 1..Len(s), NEW j,
         ReadsBraced(s, i, j)
  PROVE  Read(s, i, SubSeq(s, i + 2, j - 1), j)
<1>1. i + 2 \in Nat
  OBVIOUS
<1>2. Closings(s, i + 2) # {} /\ Min(Closings(s, i + 2)) = j
  BY <1>1, FirstClosingIs DEF ReadsBraced
<1> DEFINE name == SubSeq(s, i + 2, j - 1)
<1>3. ShellName(s, i) = [name |-> name, end |-> j]
  BY <1>2, Zenon DEF ShellName, ReadsBraced, HasAt
<1> HIDE DEF name
<1>4. Read(s, i, name, j)
  BY <1>3 DEF Read
<1> QED
  BY <1>4 DEF name

LEMMA OpenRead ==
  ASSUME NEW s, NEW i, ReadsOpen(s, i)
  PROVE  Read(s, i, <<>>, i + 1)
<1>1. ShellName(s, i) = [name |-> <<>>, end |-> i + 1]
  BY Zenon DEF ShellName, ReadsOpen, HasAt
<1> QED
  BY <1>1 DEF Read

LEMMA SpecialRead ==
  ASSUME NEW s, NEW i, ReadsSpecial(s, i)
  PROVE  Read(s, i, <<s[i + 1]>>, i + 1)
<1>1. ShellName(s, i) = [name |-> <<s[i + 1]>>, end |-> i + 1]
  BY Zenon DEF ShellName, ReadsSpecial, HasAt
<1> QED
  BY <1>1 DEF Read

LEMMA PlainRead ==
  ASSUME NEW s, Len(s) \in Nat, NEW i \in 1..Len(s), NEW e,
         ReadsPlain(s, i, e)
  PROVE  Read(s, i, SubSeq(s, i + 1, e), e)
<1>1. i + 1 \in 1..(Len(s) + 1)
  OBVIOUS
<1>2. NameEnd(s, i + 1) = e
  BY <1>1, NameEndUnique DEF ReadsPlain
<1> DEFINE name == SubSeq(s, i + 1, e)
<1>3. ShellName(s, i) = [name |-> name, end |-> e]
  BY <1>2, Zenon DEF ShellName, ReadsPlain, HasAt
<1> HIDE DEF name
<1>4. Read(s, i, name, e)
  BY <1>3 DEF Read
<1> QED
  BY <1>4 DEF name

LEMMA OneRead ==
  ASSUME NEW s, Len(s) \in Nat, NEW i \in 1..Len(s)
  PROVE  \/ \E j : ReadsBraced(s, i, j)
         \/ ReadsOpen(s, i)
         \/ ReadsSpecial(s, i)
         \/ \E e : ReadsPlain(s, i, e)
<1>1. i + 2 \in Nat /\ i + 1 \in 1..(Len(s) + 1)
  OBVIOUS
<1>2. Closings(s, i + 2) # {} => \E j : FirstClosing(s, i + 2, j)
  BY <1>1, FirstClosingExists
<1>3. EndsName(s, i + 1, NameEnd(s, i + 1))
  BY <1>1, NameEndIs
<1> QED
  BY <1>2, <1>3, Zenon DEF ReadsBraced, ReadsOpen, ReadsSpecial, ReadsPlain

-----------------------------------------------------------------------------
(* u goes on with t after its first m tokens: the same is read there.      *)
Continues(u, m, t) ==
  /\ m \in Nat /\ Len(t) \in Nat /\ Len(u) = m + Len(t)
  /\ \A k \in 1..Len(t) : u[m + k] = t[k]

Cut(u, m, t) == \A a \in 1..(Len(t) + 1), b \in 0..Len(t) :
                  SubSeq(u, m + a, m + b) = SubSeq(t, a, b)

LEMMA ConcatContinues ==
  ASSUME NEW T, NEW p \in Seq(T), NEW t \in Seq(T)
  PROVE  Continues(p \o t, Len(p), t)
BY DEF Continues

LEMMA SubSeqIs ==
  ASSUME NEW T, NEW u \in Seq(T), NEW a \in 1..(Len(u) + 1),
         NEW b \in 0..Len(u)
  PROVE  /\ SubSeq(u, a, b) \in Seq(T)
         /\ Len(SubSeq(u, a, b)) = IF a <= b THEN b - a + 1 ELSE 0
         /\ \A i \in 1..(b - a + 1) : SubSeq(u, a, b)[i] = u[a + i - 1]
<1>1. \A i \in a..b : u[i] \in T
  OBVIOUS
<1> QED
  BY <1>1, SubSeqProperties

LEMMA SubSeqSame ==
  ASSUME NEW T, NEW x \in Seq(T), NEW y \in Seq(T), Len(x) = Len(y),
         \A i \in 1..Len(x) : x[i] = y[i]
  PROVE  x = y
BY SeqEqual

LEMMA ConcatCut ==
  ASSUME NEW T, NEW p \in Seq(T), NEW t \in Seq(T)
  PROVE  Cut(p \o t, Len(p), t)
<1> SUFFICES ASSUME NEW a \in 1..(Len(t) + 1), NEW b \in 0..Len(t)
             PROVE  SubSeq(p \o t, Len(p) + a, Len(p) + b) = SubSeq(t, a, b)
  BY DEF Cut
<1> DEFINE m == Len(p)
           u == p \o t
           A == m + a
           B == m + b
<1>1. m \in Nat /\ Len(t) \in Nat /\ u \in Seq(T) /\ Len(u) = m + Len(t)
      /\ \A k \in 1..Len(t) : u[m + k] = t[k]
  OBVIOUS
<1> HIDE DEF m, u
<1>2. A \in 1..(Len(u) + 1) /\ B \in 0..Len(u) /\ A = m + a /\ B = m + b
  BY <1>1
<1> HIDE DEF A, B
<1>3. /\ SubSeq(u, A, B) \in Seq(T)
      /\ Len(SubSeq(u, A, B)) = IF A <= B THEN B - A + 1 ELSE 0
      /\ \A i \in 1..(B - A + 1) : SubSeq(u, A, B)[i] = u[A + i - 1]
  BY <1>1, <1>2, SubSeqIs
<1>4. /\ SubSeq(t, a, b) \in Seq(T)
      /\ Len(SubSeq(t, a, b)) = IF a <= b THEN b - a + 1 ELSE 0
      /\ \A i \in 1..(b - a + 1) : SubSeq(t, a, b)[i] = t[a + i - 1]
  BY SubSeqIs
<1>5. B - A + 1 = b - a + 1 /\ (A <= B <=> a <= b)
  BY <1>1, <1>2
<1>6. \A i \in 1..(b - a + 1) : u[A + i - 1] = t[a + i - 1]
  <2> TAKE i \in 1..(b - a + 1)
  <2>1. a + i - 1 \in 1..Len(t) /\ A + i - 1 = m + (a + i - 1)
    BY <1>1, <1>2
  <2> QED
    BY <1>1, <2>1
<1>7. SubSeq(u, A, B) = SubSeq(t, a, b)
  <2> DEFINE x == SubSeq(u, A, B)
             y == SubSeq(t, a, b)
  <2>1. x \in Seq(T) /\ y \in Seq(T) /\ Len(x) = Len(y)
    BY <1>3, <1>4, <1>5
  <2>2. \A i \in 1..Len(x) : i \in 1..(b - a + 1)
    BY <1>3, <1>5
  <2>3. \A i \in 1..Len(x) : x[i] = y[i]
    BY <1>3, <1>4, <1>5, <1>6, <2>2
  <2> HIDE DEF x, y
  <2>4. x = y
    BY <2>1, <2>3, SubSeqSame
  <2> QED
    BY <2>4 DEF x, y
<1> QED
  BY <1>2, <1>7 DEF m, u

LEMMA EndsNameShift ==
  ASSUME NEW u, NEW m, NEW t, Continues(u, m, t), NEW i \in 1..(Len(t) + 1),
         NEW e, EndsName(t, i, e)
  PROVE  EndsName(u, m + i, m + e)
<1>1. /\ m \in Nat /\ Len(t) \in Nat /\ Len(u) = m + Len(t)
      /\ \A k \in 1..Len(t) : u[m + k] = t[k]
  BY DEF Continues
<1>2. /\ e \in (i - 1)..Len(t) /\ \A k \in i..e : IsName(t[k])
      /\ e = Len(t) \/ ~IsName(t[e + 1])
  BY DEF EndsName
<1>3. m + e \in ((m + i) - 1)..Len(u)
  BY <1>1, <1>2
<1>4. ASSUME NEW k \in (m + i)..(m + e) PROVE IsName(u[k])
  <2>1. k - m \in i..e /\ k - m \in 1..Len(t) /\ m + (k - m) = k
    BY <1>1, <1>2
  <2>2. u[m + (k - m)] = t[k - m]
    BY <1>1, <2>1
  <2> QED
    BY <1>2, <2>1, <2>2
<1>5. m + e = Len(u) \/ ~IsName(u[(m + e) + 1])
  <2>1. CASE e = Len(t)
    BY <1>1, <2>1
  <2>2. CASE e # Len(t)
    <3>1. e + 1 \in 1..Len(t) /\ (m + e) + 1 = m + (e + 1)
      BY <1>1, <1>2, <2>2
    <3> QED
      BY <1>1, <1>2, <2>2, <3>1
  <2> QED
    BY <2>1, <2>2
<1> QED
  BY <1>3, <1>4, <1>5 DEF EndsName

LEMMA HasShift ==
  ASSUME NEW u, NEW m, NEW t, Continues(u, m, t), NEW k \in 1..Len(t), NEW tok
  PROVE  HasAt(u, m + k, tok) <=> HasAt(t, k, tok)
BY DEF Continues, HasAt

LEMMA FirstClosingShift ==
  ASSUME NEW u, NEW m, NEW t, Continues(u, m, t), NEW i \in 1..(Len(t) + 1)
  PROVE  /\ \A j : FirstClosing(t, i, j) => FirstClosing(u, m + i, m + j)
         /\ Closings(t, i) = {} => Closings(u, m + i) = {}
<1>1. m \in Nat /\ Len(t) \in Nat /\ Len(u) = m + Len(t)
  BY DEF Continues
<1>2. ASSUME NEW j, FirstClosing(t, i, j) PROVE FirstClosing(u, m + i, m + j)
  <2>1. /\ j \in i..Len(t) /\ HasAt(t, j, Close)
        /\ \A k \in i..(j - 1) : ~HasAt(t, k, Close)
    BY <1>2 DEF FirstClosing
  <2>2. m + j \in (m + i)..Len(u) /\ j \in 1..Len(t)
    BY <1>1, <2>1
  <2>3. HasAt(u, m + j, Close)
    BY <2>1, <2>2, HasShift
  <2>4. ASSUME NEW k \in (m + i)..((m + j) - 1) PROVE ~HasAt(u, k, Close)
    <3>1. k - m \in i..(j - 1) /\ k - m \in 1..Len(t) /\ m + (k - m) = k
      BY <1>1, <2>1
    <3>2. HasAt(u, m + (k - m), Close) <=> HasAt(t, k - m, Close)
      BY <3>1, HasShift
    <3> QED
      BY <2>1, <3>1, <3>2
  <2> QED
    BY <2>2, <2>3, <2>4 DEF FirstClosing
<1>3. ASSUME Closings(t, i) = {}, NEW j \in Closings(u, m + i) PROVE FALSE
  <2>1. j \in (m + i)..Len(u) /\ HasAt(u, j, Close)
    BY <1>3 DEF Closings, HasAt
  <2>2. j - m \in i..Len(t) /\ j - m \in 1..Len(t) /\ m + (j - m) = j
    BY <1>1, <2>1
  <2>3. HasAt(t, j - m, Close)
    BY <2>1, <2>2, HasShift
  <2>4. j - m \in Closings(t, i)
    BY <2>2, <2>3 DEF Closings, HasAt
  <2> QED
    BY <1>3, <2>4
<1> QED
  BY <1>2, <1>3

LEMMA ShellNameShift ==
  ASSUME NEW u, NEW m, NEW t, Continues(u, m, t), Cut(u, m, t),
         NEW k \in 1..Len(t), k < Len(t), NEW q, q = m + k
  PROVE  /\ ShellName(u, q).name = ShellName(t, k).name
         /\ ShellName(u, q).end = m + ShellName(t, k).end
<1>1. /\ m \in Nat /\ Len(t) \in Nat /\ Len(u) = m + Len(t) /\ Len(u) \in Nat
      /\ u[m + (k + 1)] = t[k + 1] /\ q \in 1..Len(u)
      /\ k + 1 \in 1..Len(t) /\ k + 2 \in 1..(Len(t) + 1)
      /\ k + 1 \in 1..(Len(t) + 1)
      /\ q + 1 = m + (k + 1) /\ q + 2 = m + (k + 2)
  <2>1. /\ m \in Nat /\ Len(t) \in Nat /\ Len(u) = m + Len(t)
        /\ \A i \in 1..Len(t) : u[m + i] = t[i]
    BY DEF Continues
  <2>2. k + 1 \in 1..Len(t)
    BY <2>1
  <2>3. u[m + (k + 1)] = t[k + 1]
    BY <2>1, <2>2
  <2>4. Len(u) \in Nat /\ q \in 1..Len(u)
        /\ q + 1 = m + (k + 1) /\ q + 2 = m + (k + 2)
    BY <2>1
  <2>5. k + 2 \in 1..(Len(t) + 1) /\ k + 1 \in 1..(Len(t) + 1)
    BY <2>1
  <2> QED
    BY <2>1, <2>2, <2>3, <2>4, <2>5, Zenon
<1>2. \A tok : HasAt(u, q + 1, tok) <=> HasAt(t, k + 1, tok)
  BY <1>1, HasShift
<1>3. CASE \E j : ReadsBraced(t, k, j)
  <2>1. PICK j : ReadsBraced(t, k, j)
    BY <1>3
  <2>2. j \in (k + 2)..Len(t)
    BY <2>1 DEF ReadsBraced, FirstClosing
  <2> DEFINE J == m + j
  <2>3. FirstClosing(u, q + 2, J)
    BY <1>1, <2>1, FirstClosingShift DEF ReadsBraced
  <2>4. J - 1 = m + (j - 1) /\ j - 1 \in 0..Len(t) /\ J = m + j
    BY <1>1, <2>2
  <2> HIDE DEF J
  <2>5. ReadsBraced(u, q, J)
    BY <1>2, <2>1, <2>3, Zenon DEF ReadsBraced
  <2>6. Read(t, k, SubSeq(t, k + 2, j - 1), j)
    BY <1>1, <2>1, BracedRead
  <2>7. Read(u, q, SubSeq(u, q + 2, J - 1), J)
    BY <1>1, <2>5, BracedRead
  <2>8. SubSeq(u, m + (k + 2), m + (j - 1)) = SubSeq(t, k + 2, j - 1)
    BY <1>1, <2>4, Zenon DEF Cut
  <2>9. SubSeq(u, q + 2, J - 1) = SubSeq(t, k + 2, j - 1)
    BY <1>1, <2>4, <2>8, Zenon
  <2> QED
    BY <2>4, <2>6, <2>7, <2>9, Zenon DEF Read
<1>4. CASE ReadsOpen(t, k)
  <2>1. ReadsOpen(u, q)
    <3>1. Closings(u, q + 2) = {}
      BY <1>1, <1>4, FirstClosingShift DEF ReadsOpen
    <3> QED
      BY <1>2, <1>4, <3>1, Zenon DEF ReadsOpen
  <2>2. Read(t, k, <<>>, k + 1)
    BY <1>1, <1>4, OpenRead
  <2>3. Read(u, q, <<>>, q + 1)
    BY <1>1, <2>1, OpenRead
  <2> QED
    BY <1>1, <2>2, <2>3 DEF Read
<1>5. CASE ReadsSpecial(t, k)
  <2>1. u[q + 1] = t[k + 1]
    BY <1>1, Zenon
  <2>2. ReadsSpecial(u, q)
    BY <1>2, <1>5, <2>1, Zenon DEF ReadsSpecial
  <2>3. Read(t, k, <<t[k + 1]>>, k + 1)
    BY <1>1, <1>5, SpecialRead
  <2>4. Read(u, q, <<u[q + 1]>>, q + 1)
    BY <1>1, <2>2, SpecialRead
  <2> QED
    BY <1>1, <2>1, <2>3, <2>4 DEF Read
<1>6. CASE \E e : ReadsPlain(t, k, e)
  <2>1. PICK e : ReadsPlain(t, k, e)
    BY <1>6
  <2> DEFINE E == m + e
  <2>2. EndsName(t, k + 1, e)
    BY <2>1 DEF ReadsPlain
  <2>3. EndsName(u, m + (k + 1), m + e)
    BY <1>1, <2>2, EndsNameShift
  <2>4. e \in 0..Len(t) /\ E = m + e
    BY <1>1, <2>2 DEF EndsName
  <2> HIDE DEF E
  <2>5. ReadsPlain(u, q, E)
    <3>1. EndsName(u, q + 1, E) /\ u[q + 1] = t[k + 1]
      BY <1>1, <2>3, <2>4, Zenon
    <3> QED
      BY <1>2, <2>1, <3>1, Zenon DEF ReadsPlain
  <2>6. Read(t, k, SubSeq(t, k + 1, e), e)
    BY <1>1, <2>1, PlainRead
  <2>7. Read(u, q, SubSeq(u, q + 1, E), E)
    BY <1>1, <2>5, PlainRead
  <2>8. SubSeq(u, m + (k + 1), m + e) = SubSeq(t, k + 1, e)
    BY <1>1, <2>4, Zenon DEF Cut
  <2>9. SubSeq(u, q + 1, E) = SubSeq(t, k + 1, e)
    BY <1>1, <2>4, <2>8, Zenon
  <2> QED
    BY <2>4, <2>6, <2>7, <2>9, Zenon DEF Read
<1>7. \/ \E j : ReadsBraced(t, k, j)
      \/ ReadsOpen(t, k)
      \/ ReadsSpecial(t, k)
      \/ \E e : ReadsPlain(t, k, e)
  BY <1>1, OneRead
<1> QED
  BY <1>3, <1>4, <1>5, <1>6, <1>7

-----------------------------------------------------------------------------
(* One step of os.ExpandEnv, and a whole text after its first step.        *)
OutOf(name) == IF name = <<>> THEN <<>> ELSE ValueOf(name)

IsLiteral(s, i) == ~HasAt(s, i, "$") \/ i = Len(s) \/ ShellName(s, i).end = i

LEMMA LiteralStep ==
  ASSUME NEW s, NEW i, IsLiteral(s, i)
  PROVE  ExpandStep(s, i).out = <<s[i]>> /\ ExpandStep(s, i).next = i + 1
<1>1. ExpandStep(s, i) = [out |-> <<s[i]>>, next |-> i + 1]
  BY Zenon DEF ExpandStep, IsLiteral, HasAt
<1> QED
  BY <1>1

LEMMA ValueStep ==
  ASSUME NEW s, NEW i, ~IsLiteral(s, i)
  PROVE  /\ ExpandStep(s, i).out = OutOf(ShellName(s, i).name)
         /\ ExpandStep(s, i).next = ShellName(s, i).end + 1
<1> DEFINE out == OutOf(ShellName(s, i).name)
           next == ShellName(s, i).end + 1
<1>1. ExpandStep(s, i) = [out |-> out, next |-> next]
  BY Zenon DEF ExpandStep, IsLiteral, HasAt, OutOf
<1> HIDE DEF out, next
<1>2. ExpandStep(s, i).out = out /\ ExpandStep(s, i).next = next
  BY <1>1
<1> QED
  BY <1>2 DEF out, next

LEMMA ReadEnds ==
  ASSUME NEW s, Len(s) \in Nat, NEW i \in 1..Len(s), i < Len(s)
  PROVE  ShellName(s, i).end \in i..Len(s)
<1>1. ASSUME NEW j, ReadsBraced(s, i, j)
      PROVE  ShellName(s, i).end \in i..Len(s)
  <2>1. j \in (i + 2)..Len(s)
    BY <1>1 DEF ReadsBraced, FirstClosing
  <2>2. ShellName(s, i).end = j
    BY <1>1, BracedRead DEF Read
  <2> QED
    BY <2>1, <2>2
<1>2. ASSUME ReadsOpen(s, i) PROVE ShellName(s, i).end \in i..Len(s)
  <2>1. ShellName(s, i).end = i + 1
    BY <1>2, OpenRead DEF Read
  <2> QED
    BY <2>1
<1>3. ASSUME ReadsSpecial(s, i) PROVE ShellName(s, i).end \in i..Len(s)
  <2>1. ShellName(s, i).end = i + 1
    BY <1>3, SpecialRead DEF Read
  <2> QED
    BY <2>1
<1>4. ASSUME NEW e, ReadsPlain(s, i, e) PROVE ShellName(s, i).end \in i..Len(s)
  <2>1. e \in ((i + 1) - 1)..Len(s)
    BY <1>4 DEF ReadsPlain, EndsName
  <2>2. ShellName(s, i).end = e
    BY <1>4, PlainRead DEF Read
  <2> QED
    BY <2>1, <2>2
<1> QED
  BY <1>1, <1>2, <1>3, <1>4, OneRead

ExpandSteps(s) == [i \in DOMAIN s |-> ExpandStep(s, i)]

LEMMA ExpandAdvances ==
  ASSUME NEW T, NEW s \in Seq(T)
  PROVE  Advances(Len(s), ExpandSteps(s))
<1>1. Len(s) \in Nat /\ DOMAIN s = 1..Len(s)
  OBVIOUS
<1>2. \A i \in 1..Len(s) : ExpandSteps(s)[i] = ExpandStep(s, i)
  BY <1>1 DEF ExpandSteps
<1>3. ASSUME NEW i \in 1..Len(s)
      PROVE  ExpandStep(s, i).next \in (i + 1)..(Len(s) + 1)
  <2>1. CASE IsLiteral(s, i)
    <3>1. ExpandStep(s, i).next = i + 1
      BY <2>1, LiteralStep
    <3> QED
      BY <1>1, <3>1
  <2>2. CASE ~IsLiteral(s, i)
    <3>1. ExpandStep(s, i).next = ShellName(s, i).end + 1
      BY <2>2, ValueStep
    <3>2. i < Len(s)
      <4>1. i # Len(s)
        BY <2>2, Zenon DEF IsLiteral
      <4>2. Len(s) \in Nat
        OBVIOUS
      <4> QED
        BY <4>1, <4>2
    <3>3. ShellName(s, i).end \in i..Len(s)
      BY <1>1, <3>2, ReadEnds
    <3> QED
      BY <1>1, <3>1, <3>3
  <2> QED
    BY <2>1, <2>2
<1> QED
  BY <1>2, <1>3 DEF Advances

LEMMA ExpandStepShift ==
  ASSUME NEW u, NEW m, NEW t, Continues(u, m, t), Cut(u, m, t),
         NEW k \in 1..Len(t)
  PROVE  /\ ExpandStep(u, m + k).out = ExpandStep(t, k).out
         /\ ExpandStep(u, m + k).next = m + ExpandStep(t, k).next
<1> DEFINE q == m + k
<1>1. /\ m \in Nat /\ Len(t) \in Nat /\ Len(u) = m + Len(t)
      /\ u[q] = t[k] /\ q = m + k /\ (q = Len(u) <=> k = Len(t))
      /\ q + 1 = m + (k + 1)
  <2>1. /\ m \in Nat /\ Len(t) \in Nat /\ Len(u) = m + Len(t)
        /\ \A i \in 1..Len(t) : u[m + i] = t[i]
    BY DEF Continues
  <2> QED
    BY <2>1
<1>2. HasAt(u, q, "$") <=> HasAt(t, k, "$")
  BY HasShift
<1> HIDE DEF q
<1>3. CASE k = Len(t)
  <2>1. IsLiteral(t, k) /\ IsLiteral(u, q)
    BY <1>1, <1>3 DEF IsLiteral
  <2>2. /\ ExpandStep(t, k).out = <<t[k]>> /\ ExpandStep(t, k).next = k + 1
        /\ ExpandStep(u, q).out = <<u[q]>> /\ ExpandStep(u, q).next = q + 1
    BY <2>1, LiteralStep
  <2> QED
    BY <1>1, <2>2, Zenon
<1>4. CASE k < Len(t)
  <2>1. /\ ShellName(u, q).name = ShellName(t, k).name
        /\ ShellName(u, q).end = m + ShellName(t, k).end
    BY <1>1, <1>4, ShellNameShift
  <2>2. ShellName(t, k).end \in Int
    BY <1>1, <1>4, ReadEnds
  <2>3. IsLiteral(t, k) <=> IsLiteral(u, q)
    BY <1>1, <1>2, <2>1, <2>2 DEF IsLiteral
  <2>4. CASE IsLiteral(t, k)
    <3>1. /\ ExpandStep(t, k).out = <<t[k]>> /\ ExpandStep(t, k).next = k + 1
          /\ ExpandStep(u, q).out = <<u[q]>> /\ ExpandStep(u, q).next = q + 1
      BY <2>3, <2>4, LiteralStep
    <3> QED
      BY <1>1, <3>1, Zenon
  <2>5. CASE ~IsLiteral(t, k)
    <3>1. /\ ExpandStep(t, k).out = OutOf(ShellName(t, k).name)
          /\ ExpandStep(t, k).next = ShellName(t, k).end + 1
      BY <2>5, ValueStep
    <3>2. /\ ExpandStep(u, q).out = OutOf(ShellName(u, q).name)
          /\ ExpandStep(u, q).next = ShellName(u, q).end + 1
      BY <2>3, <2>5, ValueStep
    <3>3. ExpandStep(u, q).out = ExpandStep(t, k).out
      BY <2>1, <3>1, <3>2, Zenon
    <3>4. ExpandStep(u, q).next = m + ExpandStep(t, k).next
      BY <1>1, <2>1, <2>2, <3>1, <3>2
    <3> QED
      BY <1>1, <3>3, <3>4
  <2> QED
    BY <2>4, <2>5
<1> QED
  BY <1>1, <1>3, <1>4

(* The rest of a text is expanded on its own once p has been read.         *)
LEMMA ExpandOn ==
  ASSUME NEW T, NEW p \in Seq(T), NEW t \in Seq(T), p # <<>>, NEW v,
         ExpandStep(p \o t, 1).out = v,
         ExpandStep(p \o t, 1).next = Len(p) + 1
  PROVE  ExpandEnv(p \o t) = v \o ExpandEnv(t)
<1> DEFINE u == p \o t
           m == Len(p)
           n == Len(t)
<1>1. /\ u \in Seq(T) /\ m \in Nat /\ m > 0 /\ n \in Nat /\ Len(u) = m + n
      /\ DOMAIN u = 1..(m + n) /\ DOMAIN t = 1..n
  OBVIOUS
<1>2. Continues(u, m, t) /\ Cut(u, m, t)
  BY ConcatContinues, ConcatCut
<1>3. ExpandStep(u, 1).out = v /\ ExpandStep(u, 1).next = m + 1
  OBVIOUS
<1> HIDE DEF u, m, n
<1>4. Advances(m + n, ExpandSteps(u)) /\ Advances(n, ExpandSteps(t))
  <2>1. Advances(Len(u), ExpandSteps(u))
    BY <1>1, ExpandAdvances
  <2>2. Advances(Len(t), ExpandSteps(t))
    BY ExpandAdvances
  <2> QED
    BY <1>1, <2>1, <2>2, Zenon DEF n
<1>5. \A k \in 1..n : /\ ExpandSteps(u)[m + k].out = ExpandSteps(t)[k].out
                      /\ ExpandSteps(u)[m + k].next = m + ExpandSteps(t)[k].next
  <2> TAKE k \in 1..n
  <2>1. /\ ExpandStep(u, m + k).out = ExpandStep(t, k).out
        /\ ExpandStep(u, m + k).next = m + ExpandStep(t, k).next
    BY <1>2, ExpandStepShift DEF n
  <2>2. m + k \in 1..(m + n)
    BY <1>1
  <2>3. ExpandSteps(u)[m + k] = ExpandStep(u, m + k)
        /\ ExpandSteps(t)[k] = ExpandStep(t, k)
    BY <1>1, <2>2, Zenon DEF ExpandSteps
  <2> QED
    BY <2>1, <2>3, Zenon
<1>6. ExpandSteps(u)[1] = ExpandStep(u, 1)
  <2>1. 1 \in DOMAIN u
    BY <1>1
  <2> QED
    BY <2>1, Zenon DEF ExpandSteps
<1>7. Scan(m + n, ExpandSteps(u)) = v \o Scan(n, ExpandSteps(t))
  <2> DEFINE xs == ExpandSteps(u)
             ys == ExpandSteps(t)
  <2>1. xs[1].out = v /\ xs[1].next = m + 1
    BY <1>3, <1>6, Zenon
  <2>2. Follows(ys, n, xs, m)
    <3>1. m \in Nat /\ n \in Nat /\ m > 0
      BY <1>1
    <3> QED
      BY <1>4, <1>5, <2>1, <3>1, Zenon DEF Follows
  <2> HIDE DEF xs, ys
  <2>3. Scan(m + n, xs) = xs[1].out \o Scan(n, ys)
    BY <2>2, ScanTail
  <2> QED
    BY <2>1, <2>3, Zenon DEF xs, ys
<1>8. ExpandEnv(u) = Scan(m + n, ExpandSteps(u))
      /\ ExpandEnv(t) = Scan(n, ExpandSteps(t))
  BY <1>1, Zenon DEF ExpandEnv, ExpandSteps, n
<1> QED
  BY <1>7, <1>8, Zenon DEF u

-----------------------------------------------------------------------------
(* What is read of a text that begins with a token, or with a reference.   *)
LEMMA ConcatBegins ==
  ASSUME NEW T, NEW p \in Seq(T), NEW t \in Seq(T)
  PROVE  /\ p \o t \in Seq(T) /\ Len(p \o t) = Len(p) + Len(t)
         /\ \A k \in 1..Len(p) : (p \o t)[k] = p[k]
         /\ \A k \in 1..Len(t) : (p \o t)[Len(p) + k] = t[k]
OBVIOUS

LEMMA PrefixCut ==
  ASSUME NEW T, NEW p \in Seq(T), NEW u \in Seq(T), Len(p) <= Len(u),
         \A k \in 1..Len(p) : u[k] = p[k],
         NEW a \in 1..(Len(p) + 1), NEW b \in 0..Len(p)
  PROVE  SubSeq(u, a, b) = SubSeq(p, a, b)
<1>1. a \in 1..(Len(u) + 1) /\ b \in 0..Len(u)
  OBVIOUS
<1> DEFINE x == SubSeq(u, a, b)
           y == SubSeq(p, a, b)
<1>2. /\ x \in Seq(T) /\ Len(x) = IF a <= b THEN b - a + 1 ELSE 0
      /\ \A i \in 1..(b - a + 1) : x[i] = u[a + i - 1]
  BY <1>1, SubSeqIs
<1>3. /\ y \in Seq(T) /\ Len(y) = IF a <= b THEN b - a + 1 ELSE 0
      /\ \A i \in 1..(b - a + 1) : y[i] = p[a + i - 1]
  BY SubSeqIs
<1> HIDE DEF x, y
<1>4. \A i \in 1..Len(x) : i \in 1..(b - a + 1) /\ a + i - 1 \in 1..Len(p)
  BY <1>2
<1>5. \A i \in 1..Len(x) : x[i] = y[i]
  BY <1>2, <1>3, <1>4
<1>6. x = y
  BY <1>2, <1>3, <1>5, SubSeqSame
<1> QED
  BY <1>6 DEF x, y

LEMMA ExpandToken ==
  ASSUME NEW T, NEW x \in T, x # "$", NEW t \in Seq(T)
  PROVE  ExpandEnv(<<x>> \o t) = <<x>> \o ExpandEnv(t)
<1> DEFINE p == <<x>>
           u == p \o t
<1>1. p \in Seq(T) /\ Len(p) = 1 /\ p # <<>> /\ u[1] = x
  OBVIOUS
<1> HIDE DEF u
<1>2. IsLiteral(u, 1)
  BY <1>1, Zenon DEF IsLiteral, HasAt
<1>3. ExpandStep(u, 1).out = p /\ ExpandStep(u, 1).next = Len(p) + 1
  <2>1. ExpandStep(u, 1).out = <<u[1]>> /\ ExpandStep(u, 1).next = 1 + 1
    BY <1>2, LiteralStep
  <2> QED
    BY <1>1, <2>1, Zenon
<1> HIDE DEF p
<1>4. ExpandEnv(p \o t) = p \o ExpandEnv(t)
  BY <1>1, <1>3, ExpandOn DEF u
<1> QED
  BY <1>4 DEF p

LEMMA ExpandReference ==
  ASSUME NEW T, NEW p \in Seq(T), NEW t \in Seq(T), NEW u, u = p \o t,
         HasAt(u, 1, "$"), Len(p) > 1, NEW name, name # <<>>,
         Read(u, 1, name, Len(p))
  PROVE  ExpandEnv(u) = ValueOf(name) \o ExpandEnv(t)
<1>1. Len(p) \in Nat /\ Len(t) \in Nat /\ p # <<>>
      /\ Len(u) # 1 /\ Len(p) # 1
  OBVIOUS
<1>2. ShellName(u, 1).name = name /\ ShellName(u, 1).end = Len(p)
  BY Zenon DEF Read
<1>4. ~IsLiteral(u, 1)
  BY <1>1, <1>2, Zenon DEF IsLiteral
<1>5. /\ ExpandStep(u, 1).out = OutOf(name)
      /\ ExpandStep(u, 1).next = Len(p) + 1
  <2>1. /\ ExpandStep(u, 1).out = OutOf(ShellName(u, 1).name)
        /\ ExpandStep(u, 1).next = ShellName(u, 1).end + 1
    BY <1>4, ValueStep
  <2> QED
    BY <1>2, <2>1, Zenon
<1>6. OutOf(name) = ValueOf(name)
  BY Zenon DEF OutOf
<1>7. ExpandStep(p \o t, 1).out = ValueOf(name)
      /\ ExpandStep(p \o t, 1).next = Len(p) + 1
  BY <1>5, <1>6, Zenon
<1>8. ExpandEnv(p \o t) = ValueOf(name) \o ExpandEnv(t)
  BY <1>1, <1>7, ExpandOn
<1> QED
  BY <1>8, Zenon

LEMMA ExpandBraced ==
  ASSUME NEW T, NEW p \in Seq(T), NEW t \in Seq(T), Len(p) > 3,
         HasAt(p, 1, "$"), HasAt(p, 2, Open), HasAt(p, Len(p), Close),
         \A k \in 3..(Len(p) - 1) : ~HasAt(p, k, Close)
  PROVE  ExpandEnv(p \o t) = ValueOf(SubSeq(p, 3, Len(p) - 1)) \o ExpandEnv(t)
<1> DEFINE u == p \o t
           e == Len(p)
           name == SubSeq(p, 3, e - 1)
<1>1. /\ e \in Nat /\ Len(t) \in Nat /\ u \in Seq(T) /\ Len(u) = e + Len(t)
      /\ e > 3 /\ 3 \in 1..(e + 1) /\ e - 1 \in 0..e
  OBVIOUS
<1>2. \A k \in 1..e : u[k] = p[k]
  OBVIOUS
<1>3. name # <<>>
  <2> DEFINE b == e - 1
  <2>1. 3 <= b /\ 3 \in 1..(Len(p) + 1) /\ b \in 0..Len(p)
    BY <1>1
  <2> HIDE DEF b
  <2>2. Len(SubSeq(p, 3, b)) = b - 3 + 1
    BY <2>1, SubSeqIs
  <2>3. SubSeq(p, 3, b) # <<>>
    BY <2>1, <2>2
  <2> QED
    BY <2>3 DEF b
<1> HIDE DEF u, name
<1>4. SubSeq(u, 3, e - 1) = name
  BY <1>1, <1>2, PrefixCut, SMTT(30) DEF name
<1> HIDE DEF e
<1>5. /\ HasAt(p, 1, "$") /\ HasAt(p, 2, Open) /\ HasAt(p, e, Close)
      /\ \A k \in 3..(e - 1) : ~HasAt(p, k, Close)
  BY Zenon DEF e
<1>6. \A k \in 1..e : \A tok : HasAt(u, k, tok) <=> HasAt(p, k, tok)
  BY <1>2, Zenon DEF HasAt
<1>7. FirstClosing(u, 3, e)
  <2>1. e \in 3..Len(u) /\ e \in 1..e /\ \A k \in 3..(e - 1) : k \in 1..e
    BY <1>1
  <2> QED
    BY <1>5, <1>6, <2>1, Zenon DEF FirstClosing
<1>8. ReadsBraced(u, 1, e)
  <2>1. 1 + 1 = 2 /\ 1 + 2 = 3 /\ 2 \in 1..e
    BY <1>1
  <2> QED
    BY <1>5, <1>6, <1>7, <2>1 DEF ReadsBraced
<1>9. Read(u, 1, SubSeq(u, 1 + 2, e - 1), e)
  <2>1. Len(u) \in Nat /\ 1 \in 1..Len(u)
    BY <1>1
  <2> QED
    BY <1>8, <2>1, BracedRead
<1>10. Read(u, 1, name, e)
  <2>1. 1 + 2 = 3
    OBVIOUS
  <2> QED
    BY <1>4, <1>9, <2>1, Zenon
<1>11. HasAt(u, 1, "$") /\ u = p \o t
  <2>1. 1 \in 1..e
    BY <1>1
  <2> QED
    BY <1>5, <1>6, <2>1, Zenon DEF u
<1>12. ExpandEnv(u) = ValueOf(name) \o ExpandEnv(t)
  <2>1. Read(u, 1, name, Len(p)) /\ Len(p) > 1
    BY <1>1, <1>10 DEF e
  <2> QED
    BY <1>3, <1>11, <2>1, ExpandReference
<1> QED
  BY <1>12, Zenon DEF u, name, e

LEMMA ExpandPlain ==
  ASSUME NEW T, NEW p \in Seq(T), NEW t \in Seq(T), Len(p) > 1,
         HasAt(p, 1, "$"), \A k \in 2..Len(p) : IsName(p[k]),
         p[2] \notin Digits, t = <<>> \/ ~IsName(t[1])
  PROVE  ExpandEnv(p \o t) = ValueOf(SubSeq(p, 2, Len(p))) \o ExpandEnv(t)
<1> DEFINE u == p \o t
           e == Len(p)
           name == SubSeq(p, 2, e)
<1>1. /\ e \in Nat /\ Len(t) \in Nat /\ u \in Seq(T) /\ Len(u) = e + Len(t)
      /\ e > 1 /\ 2 \in 1..(e + 1) /\ e \in 0..e
  OBVIOUS
<1>2. (\A k \in 1..e : u[k] = p[k]) /\ \A k \in 1..Len(t) : u[e + k] = t[k]
  OBVIOUS
<1>3. name # <<>>
  <2>1. Len(name) = e - 2 + 1
    BY <1>1, SubSeqIs
  <2>2. Len(name) # 0
    BY <1>1, <2>1
  <2> HIDE DEF name
  <2> QED
    BY <2>2
<1> HIDE DEF u, name
<1>4. SubSeq(u, 2, e) = name
  BY <1>1, <1>2, PrefixCut DEF name
<1>5. Len(t) = 0 \/ ~IsName(t[1])
  OBVIOUS
<1> HIDE DEF e
<1>6. EndsName(u, 2, e)
  <2>1. e \in (2 - 1)..Len(u) /\ \A k \in 2..e : k \in 1..e
    BY <1>1
  <2>2. \A k \in 2..e : IsName(u[k])
    BY <1>2, <2>1 DEF e
  <2>3. Len(t) = 0 => e = Len(u)
    BY <1>1
  <2>4. Len(t) # 0 => u[e + 1] = t[1]
    <3>1. Len(t) # 0 => 1 \in 1..Len(t)
      BY <1>1
    <3> QED
      BY <1>2, <3>1
  <2> QED
    BY <1>5, <2>1, <2>2, <2>3, <2>4 DEF EndsName
<1>7. ~HasAt(u, 2, Open) /\ u[2] \notin Specials
  <2>1. 2 \in 1..e /\ 2 \in 2..Len(p)
    BY <1>1 DEF e
  <2>2. u[2] = p[2] /\ IsName(p[2])
    BY <1>2, <2>1
  <2>3. IsName(u[2]) /\ u[2] \notin Digits
    BY <2>2, Zenon
  <2> QED
    BY <2>3, TokenAssumption, MarksAreNoNames, Zenon DEF HasAt, IsName
<1>8. ReadsPlain(u, 1, e)
  <2>1. 1 + 1 = 2
    OBVIOUS
  <2> QED
    BY <1>6, <1>7, <2>1, Zenon DEF ReadsPlain
<1>9. Read(u, 1, SubSeq(u, 1 + 1, e), e)
  <2>1. Len(u) \in Nat /\ 1 \in 1..Len(u)
    BY <1>1
  <2> QED
    BY <1>8, <2>1, PlainRead
<1>10. Read(u, 1, name, e)
  <2>1. 1 + 1 = 2
    OBVIOUS
  <2> QED
    BY <1>4, <1>9, <2>1, Zenon
<1>11. HasAt(u, 1, "$") /\ u = p \o t
  <2>1. u[1] = p[1]
    BY <1>1, <1>2
  <2> QED
    BY <2>1, Zenon DEF u, HasAt
<1>12. ExpandEnv(u) = ValueOf(name) \o ExpandEnv(t)
  <2>1. Read(u, 1, name, Len(p)) /\ Len(p) > 1
    BY <1>1, <1>10 DEF e
  <2> QED
    BY <1>3, <1>11, <2>1, ExpandReference
<1> QED
  BY <1>12, Zenon DEF u, name, e

-----------------------------------------------------------------------------
(* References do not overlap: none has a '$' after its first token.        *)
LEMMA NoDollarInside ==
  ASSUME NEW s, NEW i, NEW j, Len(s) \in Nat, i \in 1..Len(s), j \in 1..Len(s),
         IsRef(s, i, j), NEW k \in (i + 1)..j
  PROVE  ~HasAt(s, k, "$")
<1>1. IsBracedRef(s, i, j) \/ IsPlainRef(s, i, j)
  BY Zenon DEF IsRef
<1>2. CASE IsBracedRef(s, i, j)
  <2>1. /\ HasAt(s, i + 1, Open) /\ HasAt(s, j, Close)
        /\ \A x \in (i + 2)..(j - 1) : IsName(s[x])
    BY <1>2, Zenon DEF IsBracedRef, Names
  <2>2. k = i + 1 \/ k = j \/ k \in (i + 2)..(j - 1)
    OBVIOUS
  <2>3. CASE k = i + 1
    BY <2>1, <2>3, MarksDiffer, Zenon DEF HasAt
  <2>4. CASE k = j
    BY <2>1, <2>4, MarksDiffer, Zenon DEF HasAt
  <2>5. CASE k \in (i + 2)..(j - 1)
    BY <2>1, <2>5, MarksAreNoNames, Zenon DEF HasAt
  <2> QED
    BY <2>2, <2>3, <2>4, <2>5
<1>3. CASE IsPlainRef(s, i, j)
  <2>1. IsName(s[k])
    BY <1>3, Zenon DEF IsPlainRef, Names
  <2> QED
    BY <2>1, MarksAreNoNames, Zenon DEF HasAt
<1> QED
  BY <1>1, <1>2, <1>3

LEMMA StartsIs ==
  ASSUME NEW s, NEW i \in 1..Len(s)
  PROVE  Starts(s, i) <=> \E j \in 1..Len(s) : IsRef(s, i, j)
<1>1. ASSUME Starts(s, i) PROVE \E j \in 1..Len(s) : IsRef(s, i, j)
  <2>1. PICK r \in References(s) : r[1] = i
    BY <1>1 DEF Starts
  <2>2. r[2] \in 1..Len(s) /\ IsRef(s, r[1], r[2])
    BY ReferenceBounds
  <2> QED
    BY <2>1, <2>2
<1>2. ASSUME NEW j \in 1..Len(s), IsRef(s, i, j) PROVE Starts(s, i)
  <2>1. <<i, j>> \in References(s)
    BY <1>2, ReferencesAre
  <2> QED
    BY <2>1 DEF Starts
<1> QED
  BY <1>1, <1>2

LEMMA InsideIs ==
  ASSUME NEW s, NEW k
  PROVE  Inside(s, k) <=> \E i, j \in 1..Len(s) :
                            IsRef(s, i, j) /\ i < k /\ k <= j
<1>1. ASSUME Inside(s, k)
      PROVE  \E i, j \in 1..Len(s) : IsRef(s, i, j) /\ i < k /\ k <= j
  <2>1. PICK r \in References(s) : r[1] < k /\ k <= r[2]
    BY <1>1 DEF Inside
  <2>2. r[1] \in 1..Len(s) /\ r[2] \in 1..Len(s) /\ IsRef(s, r[1], r[2])
    BY ReferenceBounds
  <2> QED
    BY <2>1, <2>2
<1>2. ASSUME NEW i \in 1..Len(s), NEW j \in 1..Len(s), IsRef(s, i, j),
             i < k, k <= j
      PROVE  Inside(s, k)
  <2>1. <<i, j>> \in References(s)
    BY <1>2, ReferencesAre
  <2> QED
    BY <1>2, <2>1 DEF Inside
<1> QED
  BY <1>1, <1>2

(* What is inside no reference is followed by what is inside none, one     *)
(* token or one reference later.                                           *)
LEMMA ClearAfterToken ==
  ASSUME NEW s, Len(s) \in Nat, NEW i \in 1..Len(s),
         ~Inside(s, i), ~Starts(s, i)
  PROVE  ~Inside(s, i + 1)
<1> SUFFICES ASSUME NEW a \in 1..Len(s), NEW b \in 1..Len(s),
                    IsRef(s, a, b), a < i + 1, i + 1 <= b
             PROVE  FALSE
  BY InsideIs
<1>1. a # i
  BY StartsIs
<1>2. a < i /\ i <= b
  BY <1>1
<1> QED
  BY <1>2, InsideIs

LEMMA ClearAfterReference ==
  ASSUME NEW s, Len(s) \in Nat, NEW i \in 1..Len(s), NEW j \in 1..Len(s),
         ~Inside(s, i), IsRef(s, i, j),
         \A k \in 1..Len(s) : IsRef(s, i, k) => k = j
  PROVE  ~Inside(s, j + 1)
<1> SUFFICES ASSUME NEW a \in 1..Len(s), NEW b \in 1..Len(s),
                    IsRef(s, a, b), a < j + 1, j + 1 <= b
             PROVE  FALSE
  BY InsideIs
<1>0. i < j
  BY Zenon DEF IsRef
<1>1. CASE a < i
  <2>1. i <= b
    BY <1>0
  <2> QED
    BY <1>1, <2>1, InsideIs
<1>2. CASE a = i
  <2>1. b = j
    BY <1>2
  <2> QED
    BY <2>1
<1>3. CASE i < a
  <2>1. a \in (i + 1)..j
    BY <1>3
  <2>2. ~HasAt(s, a, "$")
    BY <2>1, NoDollarInside
  <2> QED
    BY <2>2, Zenon DEF IsRef
<1> QED
  BY <1>1, <1>2, <1>3

-----------------------------------------------------------------------------
(* What each token contributes to the meaning of a text.                   *)
RefName(s, i, j) == IF HasAt(s, i + 1, Open) THEN SubSeq(s, i + 2, j - 1)
                    ELSE SubSeq(s, i + 1, j)

LEMMA MeaningOfReference ==
  ASSUME NEW s, NEW i \in 1..Len(s), NEW j \in 1..Len(s), IsRef(s, i, j),
         \A k \in 1..Len(s) : IsRef(s, i, k) => k = j
  PROVE  MeaningAt(s, i) = ValueOf(RefName(s, i, j))
<1> DEFINE r == CHOOSE q \in References(s) : q[1] = i
<1>1. Starts(s, i)
  BY StartsIs
<1>2. \E q \in References(s) : q[1] = i
  BY <1>1 DEF Starts
<1>3. r \in References(s) /\ r[1] = i
  BY <1>2
<1> HIDE DEF r
<1>4. r[2] = j
  BY <1>3, ReferenceBounds
<1>5. MeaningAt(s, i) = ValueOf(IF HasAt(s, i + 1, Open)
                                THEN SubSeq(s, i + 2, r[2] - 1)
                                ELSE SubSeq(s, i + 1, r[2]))
  BY <1>1, Zenon DEF MeaningAt, r, HasAt
<1> QED
  BY <1>4, <1>5, Zenon DEF RefName

LEMMA MeaningOfToken ==
  ASSUME NEW s, NEW i, ~Starts(s, i), ~Inside(s, i)
  PROVE  MeaningAt(s, i) = <<s[i]>>
BY Zenon DEF MeaningAt

LEMMA MeaningInside ==
  ASSUME NEW s, NEW i, ~Starts(s, i), Inside(s, i)
  PROVE  MeaningAt(s, i) = <<>>
BY Zenon DEF MeaningAt

LEMMA OneToken ==
  \A T : \A x \in T : \A y \in Seq(T) :
    <<x>> \in Seq(T) /\ <<x>> \o y \in Seq(T)
OBVIOUS

LEMMA ValueType ==
  ASSUME NEW T, IsAlphabet(T), NEW name \in Seq(T)
  PROVE  ValueOf(name) \in Seq(T)
<1>1. "$" \in T /\ "value of" \in T
  BY Zenon DEF IsAlphabet
<1>2. <<"$">> \in Seq(T)
  BY <1>1, OneToken, Zenon
<1>3. <<"value of">> \o name \in Seq(T)
  BY <1>1, OneToken, Zenon
<1> QED
  BY <1>2, <1>3, Zenon DEF ValueOf

LEMMA RefNameType ==
  ASSUME NEW T, NEW s \in Seq(T), NEW i \in 1..Len(s), NEW j \in 1..Len(s),
         IsRef(s, i, j)
  PROVE  RefName(s, i, j) \in Seq(T)
<1>1. i < j
  BY Zenon DEF IsRef
<1>2. /\ i + 2 \in 1..(Len(s) + 1) /\ j - 1 \in 0..Len(s)
      /\ i + 1 \in 1..(Len(s) + 1) /\ j \in 0..Len(s)
  BY <1>1
<1>3. SubSeq(s, i + 2, j - 1) \in Seq(T)
  BY <1>2, SubSeqIs
<1>4. SubSeq(s, i + 1, j) \in Seq(T)
  BY <1>2, SubSeqIs
<1> QED
  BY <1>3, <1>4, Zenon DEF RefName

LEMMA MeaningType ==
  ASSUME NEW T, IsAlphabet(T), NEW s \in Seq(T), NEW i \in 1..Len(s)
  PROVE  MeaningAt(s, i) \in Seq(T)
<1>1. CASE Starts(s, i)
  <2>1. PICK j \in 1..Len(s) : IsRef(s, i, j)
    BY <1>1, StartsIs
  <2>2. HasAt(s, i, "$") /\ Len(s) \in Nat
    BY <2>1 DEF IsRef
  <2>3. \A k \in 1..Len(s) : IsRef(s, i, k) => k = j
    BY <2>1, <2>2, RefEndIs
  <2>4. MeaningAt(s, i) = ValueOf(RefName(s, i, j))
    BY <2>1, <2>3, MeaningOfReference
  <2>5. RefName(s, i, j) \in Seq(T)
    BY <2>1, RefNameType
  <2> QED
    BY <2>4, <2>5, ValueType
<1>2. CASE ~Starts(s, i) /\ Inside(s, i)
  <2>1. MeaningAt(s, i) = <<>>
    BY <1>2, MeaningInside
  <2> QED
    BY <2>1
<1>3. CASE ~Starts(s, i) /\ ~Inside(s, i)
  <2>1. MeaningAt(s, i) = <<s[i]>>
    BY <1>3, MeaningOfToken
  <2>2. <<s[i]>> \in Seq(T)
    OBVIOUS
  <2> QED
    BY <2>1, <2>2, Zenon
<1> QED
  BY <1>1, <1>2, <1>3

-----------------------------------------------------------------------------
(* One step of EscapeBareDollars.                                          *)
LEMMA EscapeToken ==
  ASSUME NEW s, NEW i, ~HasAt(s, i, "$")
  PROVE  EscapeStep(s, i).out = <<s[i]>> /\ EscapeStep(s, i).next = i + 1
<1>1. EscapeStep(s, i) = [out |-> <<s[i]>>, next |-> i + 1]
  BY Zenon DEF EscapeStep, HasAt
<1> QED
  BY <1>1

LEMMA EscapeBare ==
  ASSUME NEW s, NEW i, HasAt(s, i, "$"), RefEnd(s, i) = i
  PROVE  EscapeStep(s, i).out = Sentinel /\ EscapeStep(s, i).next = i + 1
<1>1. EscapeStep(s, i) = [out |-> Sentinel, next |-> RefEnd(s, i) + 1]
  BY Zenon DEF EscapeStep, HasAt
<1> QED
  BY <1>1

LEMMA EscapeReference ==
  ASSUME NEW s, NEW i, HasAt(s, i, "$"), NEW j, RefEnd(s, i) = j, j # i
  PROVE  EscapeStep(s, i).out = SubSeq(s, i, j)
         /\ EscapeStep(s, i).next = j + 1
<1> DEFINE part == SubSeq(s, i, j)
<1>1. EscapeStep(s, i) = [out |-> part, next |-> j + 1]
  BY Zenon DEF EscapeStep, HasAt
<1> HIDE DEF part
<1>2. EscapeStep(s, i).out = part /\ EscapeStep(s, i).next = j + 1
  BY <1>1
<1> QED
  BY <1>2 DEF part

LEMMA SentinelType ==
  ASSUME NEW T, IsAlphabet(T)
  PROVE  Sentinel \in Seq(T)
<1>1. \A a, b, c, d \in T : <<a, b, c, d>> \in Seq(T)
  OBVIOUS
<1>2. "$" \in T /\ Open \in T /\ "GB_DOLLAR" \in T /\ Close \in T
  BY Zenon DEF IsAlphabet, Open, Close
<1> QED
  BY <1>1, <1>2, Zenon DEF Sentinel

EscapeSteps(s) == [i \in DOMAIN s |-> EscapeStep(s, i)]

(* Each step goes on in the text, and writes what begins as it does.       *)
LEMMA EscapeStepIs ==
  ASSUME NEW T, IsAlphabet(T), NEW s \in Seq(T), NEW i \in 1..Len(s)
  PROVE  /\ EscapeStep(s, i).next \in (i + 1)..(Len(s) + 1)
         /\ EscapeStep(s, i).out \in Seq(T)
         /\ Len(EscapeStep(s, i).out) > 0
         /\ EscapeStep(s, i).out[1] = s[i]
<1>1. Len(s) \in Nat /\ s[i] \in T
  OBVIOUS
<1>2. CASE ~HasAt(s, i, "$")
  <2>1. EscapeStep(s, i).out = <<s[i]>> /\ EscapeStep(s, i).next = i + 1
    BY <1>2, EscapeToken
  <2> DEFINE out == <<s[i]>>
  <2>2. out \in Seq(T) /\ Len(out) > 0 /\ out[1] = s[i]
    BY <1>1
  <2>3. i + 1 \in (i + 1)..(Len(s) + 1)
    BY <1>1
  <2> HIDE DEF out
  <2> QED
    BY <2>1, <2>2, <2>3, Zenon DEF out
<1>3. CASE HasAt(s, i, "$") /\ RefEnd(s, i) = i
  <2>1. EscapeStep(s, i).out = Sentinel /\ EscapeStep(s, i).next = i + 1
    BY <1>3, EscapeBare
  <2>2. Sentinel \in Seq(T)
    BY SentinelType
  <2>3. Len(Sentinel) > 0 /\ Sentinel[1] = "$"
    <3>1. \A a, b, c, d : Len(<<a, b, c, d>>) > 0 /\ <<a, b, c, d>>[1] = a
      OBVIOUS
    <3> QED
      BY <3>1, Zenon DEF Sentinel
  <2>4. s[i] = "$"
    BY <1>3, Zenon DEF HasAt
  <2>5. i + 1 \in (i + 1)..(Len(s) + 1)
    BY <1>1
  <2> QED
    BY <2>1, <2>2, <2>3, <2>4, <2>5, Zenon
<1>4. CASE HasAt(s, i, "$") /\ RefEnd(s, i) # i
  <2>1. PICK j : j = RefEnd(s, i)
    OBVIOUS
  <2>2. j \in i..Len(s) /\ j # i
    BY <1>1, <1>4, <2>1, RefEndIs
  <2>3. EscapeStep(s, i).out = SubSeq(s, i, j) /\ EscapeStep(s, i).next = j + 1
    BY <1>4, <2>1, EscapeReference
  <2> DEFINE out == SubSeq(s, i, j)
  <2>4. out \in Seq(T) /\ Len(out) > 0 /\ out[1] = s[i]
    <3>1. i \in 1..(Len(s) + 1) /\ j \in 0..Len(s) /\ i <= j
          /\ 1 \in 1..(j - i + 1) /\ i + 1 - 1 = i
      BY <1>1, <2>2
    <3>2. /\ out \in Seq(T) /\ Len(out) = IF i <= j THEN j - i + 1 ELSE 0
          /\ \A k \in 1..(j - i + 1) : out[k] = s[i + k - 1]
      BY <3>1, SubSeqIs
    <3> HIDE DEF out
    <3>3. out[1] = s[i + 1 - 1]
      BY <3>1, <3>2
    <3> QED
      BY <3>1, <3>2, <3>3
  <2>5. j + 1 \in (i + 1)..(Len(s) + 1)
    BY <1>1, <2>2
  <2> HIDE DEF out
  <2> QED
    BY <2>3, <2>4, <2>5, Zenon DEF out
<1> QED
  BY <1>2, <1>3, <1>4

(* What is written for the text from i on begins as that text does.        *)
EscapedFrom(f, s) == Scans(f, Len(s), EscapeSteps(s))

LEMMA EscapedExists ==
  ASSUME NEW T, IsAlphabet(T), NEW s \in Seq(T)
  PROVE  \E f : EscapedFrom(f, s) /\ EscapeBareDollars(s) = f[1]
<1>1. Len(s) \in Nat /\ DOMAIN s = 1..Len(s)
  OBVIOUS
<1>2. Advances(Len(s), EscapeSteps(s))
  <2>1. \A i \in 1..Len(s) : EscapeSteps(s)[i] = EscapeStep(s, i)
    BY <1>1, Zenon DEF EscapeSteps
  <2>2. \A i \in 1..Len(s) : EscapeStep(s, i).next \in (i + 1)..(Len(s) + 1)
    BY EscapeStepIs
  <2> QED
    BY <2>1, <2>2, Zenon DEF Advances
<1>3. EscapeBareDollars(s) = Scan(Len(s), EscapeSteps(s))
  BY Zenon DEF EscapeBareDollars, EscapeSteps
<1>4. \E f : Scans(f, Len(s), EscapeSteps(s))
             /\ Scan(Len(s), EscapeSteps(s)) = f[1]
  BY <1>1, <1>2, ScanExists
<1> QED
  BY <1>3, <1>4, Zenon DEF EscapedFrom

LEMMA EscapedFromIs ==
  ASSUME NEW T, IsAlphabet(T), NEW s \in Seq(T), NEW f, EscapedFrom(f, s)
  PROVE  /\ f[Len(s) + 1] = <<>>
         /\ \A i \in 1..Len(s) :
              f[i] = EscapeStep(s, i).out \o f[EscapeStep(s, i).next]
         /\ \A i \in 1..(Len(s) + 1) : f[i] \in Seq(T)
<1> DEFINE n == Len(s)
           h == Outs(n, EscapeSteps(s))
           next == Nexts(n, EscapeSteps(s))
<1>1. n \in Nat /\ DOMAIN s = 1..n
  OBVIOUS
<1>2. \A i \in 1..n : EscapeSteps(s)[i] = EscapeStep(s, i)
  BY <1>1, Zenon DEF EscapeSteps
<1>3. \A i \in 1..n : h[i] = EscapeStep(s, i).out
                      /\ next[i] = EscapeStep(s, i).next
  BY <1>2, Zenon DEF Outs, Nexts
<1>4. \A i \in 1..n : h[i] \in Seq(T) /\ next[i] \in (i + 1)..(n + 1)
  BY <1>3, EscapeStepIs
<1>5. Walks(f, n, h, next)
  BY Zenon DEF EscapedFrom, Scans
<1> HIDE DEF n, h, next
<1>6. Forward(n, next)
  BY <1>4, Zenon DEF Forward
<1>7. \A i \in 1..(n + 1) : f[i] \in Seq(T)
  <2>1. \A i \in 1..n : h[i] \in Seq(T)
    BY <1>4
  <2> QED
    BY <1>1, <1>5, <1>6, <2>1, WalkType
<1>8. f[n + 1] = <<>> /\ \A i \in 1..n : f[i] = h[i] \o f[next[i]]
  BY <1>5, Zenon DEF Walks
<1>9. \A i \in 1..n : f[i] = EscapeStep(s, i).out \o f[EscapeStep(s, i).next]
  BY <1>3, <1>8, Zenon
<1> QED
  BY <1>7, <1>8, <1>9, Zenon DEF n

LEMMA EscapedBegins ==
  ASSUME NEW T, IsAlphabet(T), NEW s \in Seq(T), NEW f, EscapedFrom(f, s),
         NEW i \in 1..Len(s)
  PROVE  f[i] # <<>> /\ f[i][1] = s[i]
<1> DEFINE out == EscapeStep(s, i).out
           rest == f[EscapeStep(s, i).next]
<1>1. out \in Seq(T) /\ Len(out) > 0 /\ out[1] = s[i]
  BY EscapeStepIs
<1>2. EscapeStep(s, i).next \in 1..(Len(s) + 1)
  <2>1. EscapeStep(s, i).next \in (i + 1)..(Len(s) + 1)
    BY EscapeStepIs
  <2> QED
    BY <2>1
<1>3. rest \in Seq(T)
  BY <1>2, EscapedFromIs
<1>4. f[i] = out \o rest
  BY EscapedFromIs
<1> HIDE DEF out, rest
<1>5. out \o rest # <<>> /\ (out \o rest)[1] = out[1]
  BY <1>1, <1>3
<1> QED
  BY <1>1, <1>4, <1>5, Zenon

-----------------------------------------------------------------------------
(* The meaning of the text from each of its places on.                     *)
Meanings(s) == [i \in DOMAIN s |-> MeaningAt(s, i)]
Successors(n) == [i \in 1..n |-> i + 1]
MeaningFrom(g, s) == Walks(g, Len(s), Meanings(s), Successors(Len(s)))

LEMMA MeaningExists ==
  ASSUME NEW T, IsAlphabet(T), NEW s \in Seq(T)
  PROVE  \E g : MeaningFrom(g, s) /\ Meaning(s) = g[1]
<1> DEFINE n == Len(s)
           u == Meanings(s)
           next == Successors(n)
<1>1. n \in Nat /\ DOMAIN s = 1..n
  OBVIOUS
<1>2. \A i \in 1..n : MeaningAt(s, i) \in Seq(T)
  BY MeaningType
<1>3. u \in Seq(Seq(T)) /\ Len(u) = n
  <2>1. u = [i \in 1..n |-> MeaningAt(s, i)]
    BY <1>1, Zenon DEF Meanings
  <2> HIDE DEF u
  <2> QED
    BY <1>1, <1>2, <2>1
<1>4. \A i \in 1..n : next[i] = i + 1
  BY Zenon DEF Successors
<1> HIDE DEF next
<1>5. Forward(n, next)
  <2>1. \A i \in 1..n : i + 1 \in (i + 1)..(n + 1)
    BY <1>1
  <2> QED
    BY <1>4, <2>1, Zenon DEF Forward
<1> HIDE DEF u
<1>6. PICK g : Walks(g, n, u, next)
  BY <1>1, <1>5, WalkExists
<1>7. FlattenSeq(u) = g[1]
  <2>1. Walks(g, Len(u), u, next) /\ \A i \in 1..Len(u) : next[i] = i + 1
    BY <1>3, <1>4, <1>6, Zenon
  <2> QED
    BY <1>3, <2>1, FlattenBySuffixes
<1>8. Meaning(s) = g[1]
  BY <1>7, Zenon DEF Meaning, Meanings, u
<1>9. MeaningFrom(g, s)
  BY <1>6, Zenon DEF MeaningFrom, u, next
<1> QED
  BY <1>8, <1>9

LEMMA MeaningFromIs ==
  ASSUME NEW T, IsAlphabet(T), NEW s \in Seq(T), NEW g, MeaningFrom(g, s)
  PROVE  /\ g[Len(s) + 1] = <<>>
         /\ \A i \in 1..Len(s) : g[i] = MeaningAt(s, i) \o g[i + 1]
         /\ \A i \in 1..(Len(s) + 1) : g[i] \in Seq(T)
<1> DEFINE n == Len(s)
           h == Meanings(s)
           next == Successors(n)
<1>1. n \in Nat /\ DOMAIN s = 1..n
  OBVIOUS
<1>2. \A i \in 1..n : h[i] = MeaningAt(s, i) /\ next[i] = i + 1
  BY <1>1, Zenon DEF Meanings, Successors
<1>3. \A i \in 1..n : h[i] \in Seq(T)
  BY <1>2, MeaningType
<1>4. Walks(g, n, h, next)
  BY Zenon DEF MeaningFrom
<1> HIDE DEF n, h, next
<1>5. Forward(n, next)
  <2>1. \A i \in 1..n : i + 1 \in (i + 1)..(n + 1)
    BY <1>1
  <2> QED
    BY <1>2, <2>1, Zenon DEF Forward
<1>6. \A i \in 1..(n + 1) : g[i] \in Seq(T)
  BY <1>1, <1>3, <1>4, <1>5, WalkType
<1>7. g[n + 1] = <<>> /\ \A i \in 1..n : g[i] = h[i] \o g[next[i]]
  BY <1>4, Zenon DEF Walks
<1>8. \A i \in 1..n : g[i] = MeaningAt(s, i) \o g[i + 1]
  BY <1>2, <1>7, Zenon
<1> QED
  BY <1>6, <1>7, <1>8, Zenon DEF n

(* A reference means what its '$' does: the rest of it adds nothing.       *)
LEMMA MeaningSkips ==
  ASSUME NEW T, IsAlphabet(T), NEW s \in Seq(T), NEW g, MeaningFrom(g, s),
         NEW i \in 1..Len(s), NEW j \in 1..Len(s), IsRef(s, i, j)
  PROVE  g[i + 1] = g[j + 1]
<1>1. Len(s) \in Nat /\ i < j
  BY DEF IsRef
<1>2. ASSUME NEW k \in (i + 1)..j PROVE g[k] = g[k + 1]
  <2>1. k \in 1..Len(s) /\ k + 1 \in 1..(Len(s) + 1)
        /\ i < k /\ k <= j
    BY <1>1
  <2>2. ~HasAt(s, k, "$")
    BY <1>1, NoDollarInside
  <2>3. ~Starts(s, k)
    BY <2>1, <2>2, StartsIs DEF IsRef
  <2>4. Inside(s, k)
    BY <2>1, InsideIs
  <2>5. MeaningAt(s, k) = <<>>
    BY <2>3, <2>4, MeaningInside
  <2>6. g[k] = MeaningAt(s, k) \o g[k + 1] /\ g[k + 1] \in Seq(T)
    BY <2>1, MeaningFromIs
  <2> DEFINE rest == g[k + 1]
  <2>7. <<>> \o rest = rest
    BY <2>6, ConcatEmptySeq
  <2> QED
    BY <2>5, <2>6, <2>7, Zenon
<1> DEFINE S == {k \in 1..j : k > i => g[k] = g[j + 1]}
<1>3. ASSUME NEW k \in 1..j, \A l \in (k + 1)..j : l \in S PROVE k \in S
  <2>1. CASE k > i
    <3>1. g[k] = g[k + 1]
      BY <1>2, <2>1
    <3>2. CASE k = j
      BY <3>1, <3>2
    <3>3. CASE k < j
      <4>1. k + 1 \in S /\ k + 1 > i
        BY <1>3, <2>1, <3>3
      <4>2. g[k + 1] = g[j + 1]
        BY <4>1
      <4> QED
        BY <3>1, <4>2
    <3> QED
      BY <3>2, <3>3
  <2>2. CASE ~(k > i)
    BY <2>2
  <2> QED
    BY <2>1, <2>2
<1> HIDE DEF S
<1>4. 1..j \subseteq S
  <2>1. j \in Nat
    BY <1>1
  <2> QED
    BY <1>3, <2>1, InductionDown
<1>5. i + 1 \in 1..j
  BY <1>1
<1>6. i + 1 \in S /\ i + 1 > i
  BY <1>4, <1>5
<1> QED
  BY <1>6 DEF S

-----------------------------------------------------------------------------
(* From a place outside all references on, the escaped text expands to     *)
(* what the text means.                                                    *)
Agrees(f, g, s, i) == ~Inside(s, i) => ExpandEnv(f[i]) = g[i]

Prepared(T, s, f, g) ==
  IsAlphabet(T) /\ s \in Seq(T) /\ EscapedFrom(f, s) /\ MeaningFrom(g, s)

LEMMA AgreesAtToken ==
  ASSUME NEW T, NEW s, NEW f, NEW g, Prepared(T, s, f, g), NEW i \in 1..Len(s),
         ~HasAt(s, i, "$"), ~Inside(s, i), Agrees(f, g, s, i + 1)
  PROVE  ExpandEnv(f[i]) = g[i]
<1>1. IsAlphabet(T) /\ s \in Seq(T) /\ EscapedFrom(f, s) /\ MeaningFrom(g, s)
  BY Zenon DEF Prepared
<1>2. Len(s) \in Nat /\ s[i] \in T /\ i + 1 \in 1..(Len(s) + 1)
  BY <1>1
<1>3. ~Starts(s, i)
  BY StartsIs DEF IsRef
<1>4. ~Inside(s, i + 1)
  BY <1>2, <1>3, ClearAfterToken
<1>5. f[i] = <<s[i]>> \o f[i + 1] /\ f[i + 1] \in Seq(T)
  <2>1. f[i] = EscapeStep(s, i).out \o f[EscapeStep(s, i).next]
        /\ f[i + 1] \in Seq(T)
    BY <1>1, <1>2, EscapedFromIs
  <2>2. EscapeStep(s, i).out = <<s[i]>> /\ EscapeStep(s, i).next = i + 1
    BY EscapeToken
  <2> QED
    BY <2>1, <2>2, Zenon
<1>6. g[i] = <<s[i]>> \o g[i + 1]
  <2>1. g[i] = MeaningAt(s, i) \o g[i + 1]
    BY <1>1, MeaningFromIs
  <2>2. MeaningAt(s, i) = <<s[i]>>
    BY <1>3, MeaningOfToken
  <2> QED
    BY <2>1, <2>2, Zenon
<1>7. s[i] # "$"
  BY Zenon DEF HasAt
<1> DEFINE x == s[i]
           rest == f[i + 1]
<1>8. x \in T /\ x # "$" /\ rest \in Seq(T)
  BY <1>2, <1>5, <1>7
<1>9. ExpandEnv(<<x>> \o rest) = <<x>> \o ExpandEnv(rest)
  <2> HIDE DEF x, rest
  <2> QED
    BY <1>8, ExpandToken
<1> QED
  BY <1>4, <1>5, <1>6, <1>9, Zenon DEF Agrees

(* The sentinel stands for the '$' it replaces.                            *)
LEMMA ExpandSentinel ==
  ASSUME NEW T, IsAlphabet(T), NEW t \in Seq(T)
  PROVE  ExpandEnv(Sentinel \o t) = <<"$">> \o ExpandEnv(t)
<1> DEFINE p == Sentinel
<1>1. p \in Seq(T)
  BY SentinelType
<1>2. /\ Len(p) = 4 /\ p[1] = "$" /\ p[2] = Open /\ p[4] = Close
      /\ p[3] = "GB_DOLLAR"
  <2>1. \A a, b, c, d : LET q == <<a, b, c, d>> IN
          Len(q) = 4 /\ q[1] = a /\ q[2] = b /\ q[3] = c /\ q[4] = d
    OBVIOUS
  <2> QED
    BY <2>1, Zenon DEF Sentinel
<1> HIDE DEF p
<1>3. SubSeq(p, 3, 3) = <<p[3]>>
  <2>1. 3 \in 1..(Len(p) + 1) /\ 3 \in 0..Len(p) /\ 3 - 3 + 1 = 1
        /\ p[3] \in T
    BY <1>1, <1>2, SMTT(30)
  <2>2. /\ SubSeq(p, 3, 3) \in Seq(T)
        /\ Len(SubSeq(p, 3, 3)) = IF 3 <= 3 THEN 3 - 3 + 1 ELSE 0
        /\ \A i \in 1..(3 - 3 + 1) : SubSeq(p, 3, 3)[i] = p[3 + i - 1]
    BY <1>1, <2>1, SubSeqIs
  <2> DEFINE x == SubSeq(p, 3, 3)
             y == <<p[3]>>
  <2>3. x \in Seq(T) /\ y \in Seq(T) /\ Len(x) = 1 /\ Len(y) = 1
        /\ x[1] = p[3] /\ y[1] = p[3]
    BY <2>1, <2>2
  <2> HIDE DEF x, y
  <2>4. x = y
    BY <2>3, SubSeqSame
  <2> QED
    BY <2>4 DEF x, y
<1>4. ValueOf(SubSeq(p, 3, Len(p) - 1)) = <<"$">>
  <2>1. Len(p) - 1 = 3
    BY <1>2
  <2>2. SubSeq(p, 3, Len(p) - 1) = <<"GB_DOLLAR">>
    BY <1>2, <1>3, <2>1, Zenon
  <2> QED
    BY <2>2, Zenon DEF ValueOf
<1>5. ~HasAt(p, 3, Close)
  <2>1. "GB_DOLLAR" # Close
    BY Zenon DEF Close
  <2> QED
    BY <1>2, <2>1, Zenon DEF HasAt
<1>6. /\ HasAt(p, 1, "$") /\ HasAt(p, 2, Open) /\ HasAt(p, Len(p), Close)
      /\ \A k \in 3..(Len(p) - 1) : ~HasAt(p, k, Close)
  <2>1. \A k \in 3..(Len(p) - 1) : k = 3
    BY <1>2
  <2>2. HasAt(p, 1, "$") /\ HasAt(p, 2, Open) /\ HasAt(p, Len(p), Close)
    BY <1>2, Zenon DEF HasAt
  <2> QED
    BY <1>5, <2>1, <2>2, Zenon
<1>7. ExpandEnv(p \o t) = ValueOf(SubSeq(p, 3, Len(p) - 1)) \o ExpandEnv(t)
  <2>1. Len(p) > 3
    BY <1>2
  <2> QED
    BY <1>1, <1>6, <2>1, ExpandBraced
<1> QED
  BY <1>4, <1>7, Zenon DEF p

LEMMA AgreesAtBare ==
  ASSUME NEW T, NEW s, NEW f, NEW g, Prepared(T, s, f, g), NEW i \in 1..Len(s),
         HasAt(s, i, "$"), RefEnd(s, i) = i, ~Inside(s, i),
         Agrees(f, g, s, i + 1)
  PROVE  ExpandEnv(f[i]) = g[i]
<1>1. IsAlphabet(T) /\ s \in Seq(T) /\ EscapedFrom(f, s) /\ MeaningFrom(g, s)
  BY Zenon DEF Prepared
<1>2. Len(s) \in Nat /\ i + 1 \in 1..(Len(s) + 1)
  BY <1>1
<1>3. ~Starts(s, i)
  <2>1. ASSUME NEW j \in 1..Len(s), IsRef(s, i, j) PROVE FALSE
    <3>1. j = i
      BY <1>2, <2>1, RefEndIs
    <3>2. i < j
      BY <2>1, Zenon DEF IsRef
    <3> QED
      BY <3>1, <3>2
  <2> QED
    BY <2>1, StartsIs
<1>4. ~Inside(s, i + 1)
  BY <1>2, <1>3, ClearAfterToken
<1>5. f[i] = Sentinel \o f[i + 1] /\ f[i + 1] \in Seq(T)
  <2>1. f[i] = EscapeStep(s, i).out \o f[EscapeStep(s, i).next]
        /\ f[i + 1] \in Seq(T)
    BY <1>1, <1>2, EscapedFromIs
  <2>2. EscapeStep(s, i).out = Sentinel /\ EscapeStep(s, i).next = i + 1
    BY EscapeBare
  <2> QED
    BY <2>1, <2>2, Zenon
<1>6. g[i] = <<"$">> \o g[i + 1]
  <2>1. g[i] = MeaningAt(s, i) \o g[i + 1]
    BY <1>1, MeaningFromIs
  <2>2. MeaningAt(s, i) = <<s[i]>>
    BY <1>3, MeaningOfToken
  <2>3. s[i] = "$"
    BY Zenon DEF HasAt
  <2> QED
    BY <2>1, <2>2, <2>3, Zenon
<1> DEFINE rest == f[i + 1]
<1>7. rest \in Seq(T)
  BY <1>5
<1>8. ExpandEnv(Sentinel \o rest) = <<"$">> \o ExpandEnv(rest)
  <2> HIDE DEF rest
  <2> QED
    BY <1>1, <1>7, ExpandSentinel
<1> QED
  BY <1>4, <1>5, <1>6, <1>8, Zenon DEF Agrees

LEMMA PartOfPart ==
  ASSUME NEW T, NEW s \in Seq(T), NEW i \in 1..Len(s), NEW j \in i..Len(s),
         NEW p, p = SubSeq(s, i, j),
         NEW a \in 1..(j - i + 1), NEW b \in 1..(j - i + 1),
         NEW A, NEW B, A = i + a - 1, B = i + b - 1
  PROVE  SubSeq(p, a, b) = SubSeq(s, A, B)
<1>1. /\ i \in 1..(Len(s) + 1) /\ j \in 0..Len(s) /\ i <= j
      /\ A \in 1..(Len(s) + 1) /\ B \in 0..Len(s) /\ Len(s) \in Nat
      /\ B - A + 1 = b - a + 1 /\ (A <= B <=> a <= b)
  OBVIOUS
<1>2. /\ p \in Seq(T) /\ Len(p) = j - i + 1
      /\ \A k \in 1..(j - i + 1) : p[k] = s[i + k - 1]
  <2> DEFINE q == SubSeq(s, i, j)
  <2>1. /\ q \in Seq(T) /\ Len(q) = IF i <= j THEN j - i + 1 ELSE 0
        /\ \A k \in 1..(j - i + 1) : q[k] = s[i + k - 1]
    BY <1>1, SubSeqIs
  <2> HIDE DEF q
  <2>2. p = q
    BY DEF q
  <2> QED
    BY <1>1, <2>1, <2>2
<1> DEFINE x == SubSeq(p, a, b)
           y == SubSeq(s, A, B)
<1>3. /\ x \in Seq(T) /\ Len(x) = IF a <= b THEN b - a + 1 ELSE 0
      /\ \A k \in 1..(b - a + 1) : x[k] = p[a + k - 1]
  <2>1. a \in 1..(Len(p) + 1) /\ b \in 0..Len(p)
    BY <1>2
  <2> QED
    BY <1>2, <2>1, SubSeqIs
<1>4. /\ y \in Seq(T) /\ Len(y) = IF A <= B THEN B - A + 1 ELSE 0
      /\ \A k \in 1..(B - A + 1) : y[k] = s[A + k - 1]
  BY <1>1, SubSeqIs
<1> HIDE DEF x, y
<1>5. ASSUME NEW k \in 1..Len(x) PROVE x[k] = y[k]
  <2>1. k \in 1..(b - a + 1) /\ k \in 1..(B - A + 1)
    BY <1>1, <1>3
  <2>2. a + k - 1 \in 1..(j - i + 1) /\ i + (a + k - 1) - 1 = A + k - 1
    BY <1>1, <2>1
  <2>3. p[a + k - 1] = s[i + (a + k - 1) - 1]
    BY <1>2, <2>2
  <2>4. x[k] = p[a + k - 1] /\ y[k] = s[A + k - 1]
    BY <1>3, <1>4, <2>1
  <2> QED
    BY <2>2, <2>3, <2>4, Zenon
<1>6. Len(x) = Len(y)
  BY <1>1, <1>3, <1>4
<1>7. x = y
  BY <1>3, <1>4, <1>5, <1>6, SubSeqSame
<1> QED
  BY <1>7 DEF x, y

(* A reference in the escaped text stands for its value.                   *)
LEMMA ExpandBracedPart ==
  ASSUME NEW T, NEW s \in Seq(T), NEW i \in 1..Len(s), NEW j \in 1..Len(s),
         IsRef(s, i, j), IsBracedRef(s, i, j), NEW t \in Seq(T)
  PROVE  ExpandEnv(SubSeq(s, i, j) \o t)
           = ValueOf(RefName(s, i, j)) \o ExpandEnv(t)
<1>1. /\ HasAt(s, i, "$") /\ HasAt(s, i + 1, Open) /\ HasAt(s, j, Close)
      /\ i + 2 <= j - 1 /\ \A k \in (i + 2)..(j - 1) : IsName(s[k])
  BY Zenon DEF IsRef, IsBracedRef, Names, IsVarName
<1>2. /\ Len(s) \in Nat /\ i \in 1..(Len(s) + 1) /\ j \in 0..Len(s) /\ i <= j
      /\ j - i + 1 > 3 /\ j \in i..Len(s)
  BY <1>1
<1> DEFINE p == SubSeq(s, i, j)
           e == j - i + 1
<1>3. /\ p \in Seq(T) /\ Len(p) = IF i <= j THEN j - i + 1 ELSE 0
      /\ \A k \in 1..(j - i + 1) : p[k] = s[i + k - 1]
  BY <1>2, SubSeqIs
<1>4. e \in Nat /\ e > 3 /\ i + e - 1 = j /\ i + (e - 1) - 1 = j - 1
      /\ i + 1 - 1 = i /\ i + 2 - 1 = i + 1 /\ i + 3 - 1 = i + 2
      /\ 1 \in 1..e /\ 2 \in 1..e /\ 3 \in 1..e /\ e - 1 \in 1..e /\ e \in 1..e
  BY <1>2
<1>5. Len(p) = e /\ \A k \in 1..e : p[k] = s[i + k - 1]
  BY <1>2, <1>3
<1>6. SubSeq(p, 3, e - 1) = SubSeq(s, i + 2, j - 1)
  <2> DEFINE b == e - 1
             A == i + 2
             B == j - 1
  <2>1. 3 \in 1..(j - i + 1) /\ b \in 1..(j - i + 1)
        /\ A = i + 3 - 1 /\ B = i + b - 1
    BY <1>4
  <2> HIDE DEF b, A, B
  <2>2. SubSeq(p, 3, b) = SubSeq(s, A, B)
    <3>1. PICK q : q = p
      OBVIOUS
    <3>2. SubSeq(q, 3, b) = SubSeq(s, A, B)
      <4> HIDE DEF e
      <4> QED
        BY <1>2, <2>1, <3>1, PartOfPart
    <3> QED
      BY <3>1, <3>2, Zenon
  <2> QED
    BY <2>2, Zenon DEF b, A, B
<1> HIDE DEF p, e
<1>7. HasAt(p, 1, "$") /\ HasAt(p, 2, Open) /\ HasAt(p, e, Close)
  <2>1. p[1] = s[i] /\ p[2] = s[i + 1] /\ p[e] = s[j]
    BY <1>4, <1>5
  <2> QED
    BY <1>1, <2>1, Zenon DEF HasAt
<1>8. ASSUME NEW k \in 3..(e - 1) PROVE ~HasAt(p, k, Close)
  <2>1. k \in 1..e /\ i + k - 1 \in (i + 2)..(j - 1)
    BY <1>4
  <2>2. IsName(p[k])
    BY <1>1, <1>5, <2>1
  <2> QED
    BY <2>2, MarksAreNoNames, Zenon DEF HasAt
<1>9. RefName(s, i, j) = SubSeq(p, 3, Len(p) - 1)
  BY <1>1, <1>5, <1>6, Zenon DEF RefName
<1>10. ExpandEnv(p \o t) = ValueOf(SubSeq(p, 3, Len(p) - 1)) \o ExpandEnv(t)
  <2>1. /\ Len(p) > 3 /\ HasAt(p, Len(p), Close)
        /\ \A k \in 3..(Len(p) - 1) : ~HasAt(p, k, Close)
    BY <1>4, <1>5, <1>7, <1>8
  <2> QED
    BY <1>3, <1>7, <2>1, ExpandBraced
<1> QED
  BY <1>9, <1>10, Zenon DEF p

LEMMA ExpandPlainPart ==
  ASSUME NEW T, NEW s \in Seq(T), NEW i \in 1..Len(s), NEW j \in 1..Len(s),
         IsRef(s, i, j), IsPlainRef(s, i, j), NEW t \in Seq(T),
         t = <<>> \/ ~IsName(t[1])
  PROVE  ExpandEnv(SubSeq(s, i, j) \o t)
           = ValueOf(RefName(s, i, j)) \o ExpandEnv(t)
<1>1. /\ HasAt(s, i, "$") /\ i + 1 <= j /\ s[i + 1] \notin Digits
      /\ \A k \in (i + 1)..j : IsName(s[k])
  BY Zenon DEF IsRef, IsPlainRef, Names, IsVarName
<1>2. /\ Len(s) \in Nat /\ i \in 1..(Len(s) + 1) /\ j \in 0..Len(s) /\ i <= j
      /\ j - i + 1 > 1 /\ j \in i..Len(s) /\ i + 1 \in (i + 1)..j
  BY <1>1
<1> DEFINE p == SubSeq(s, i, j)
           e == j - i + 1
<1>3. /\ p \in Seq(T) /\ Len(p) = IF i <= j THEN j - i + 1 ELSE 0
      /\ \A k \in 1..(j - i + 1) : p[k] = s[i + k - 1]
  BY <1>2, SubSeqIs
<1>4. e \in Nat /\ e > 1 /\ i + e - 1 = j
      /\ i + 1 - 1 = i /\ i + 2 - 1 = i + 1
      /\ 1 \in 1..e /\ 2 \in 1..e /\ e \in 1..e
  BY <1>2
<1>5. Len(p) = e /\ \A k \in 1..e : p[k] = s[i + k - 1]
  BY <1>2, <1>3
<1>6. SubSeq(p, 2, e) = SubSeq(s, i + 1, j)
  <2> DEFINE b == e
             A == i + 1
  <2>1. 2 \in 1..(j - i + 1) /\ b \in 1..(j - i + 1)
        /\ A = i + 2 - 1 /\ j = i + b - 1
    BY <1>4
  <2> HIDE DEF b, A
  <2>2. SubSeq(p, 2, b) = SubSeq(s, A, j)
    <3>1. PICK q : q = p
      OBVIOUS
    <3>2. SubSeq(q, 2, b) = SubSeq(s, A, j)
      <4> HIDE DEF e
      <4> QED
        BY <1>2, <2>1, <3>1, PartOfPart
    <3> QED
      BY <3>1, <3>2, Zenon
  <2> QED
    BY <2>2, Zenon DEF b, A
<1> HIDE DEF p, e
<1>7. p[1] = s[i] /\ p[2] = s[i + 1]
  BY <1>4, <1>5
<1>8. ASSUME NEW k \in 2..e PROVE IsName(p[k])
  <2>1. k \in 1..e /\ i + k - 1 \in (i + 1)..j
    BY <1>4
  <2> QED
    BY <1>1, <1>5, <2>1
<1>9. RefName(s, i, j) = SubSeq(p, 2, Len(p))
  <2>1. ~HasAt(s, i + 1, Open)
    BY <1>1, <1>2, MarksAreNoNames, Zenon DEF HasAt
  <2> QED
    BY <1>5, <1>6, <2>1, Zenon DEF RefName
<1>10. ExpandEnv(p \o t) = ValueOf(SubSeq(p, 2, Len(p))) \o ExpandEnv(t)
  <2>1. Len(p) > 1 /\ HasAt(p, 1, "$") /\ p[2] \notin Digits
    BY <1>1, <1>4, <1>5, <1>7 DEF HasAt
  <2>2. \A k \in 2..Len(p) : IsName(p[k])
    BY <1>5, <1>8
  <2> QED
    BY <1>3, <2>1, <2>2, ExpandPlain
<1> QED
  BY <1>9, <1>10, Zenon DEF p

LEMMA AgreesAtReference ==
  ASSUME NEW T, NEW s, NEW f, NEW g, Prepared(T, s, f, g), NEW i \in 1..Len(s),
         HasAt(s, i, "$"), NEW j, RefEnd(s, i) = j, j # i, ~Inside(s, i),
         Agrees(f, g, s, j + 1)
  PROVE  ExpandEnv(f[i]) = g[i]
<1>1. IsAlphabet(T) /\ s \in Seq(T) /\ EscapedFrom(f, s) /\ MeaningFrom(g, s)
  BY Zenon DEF Prepared
<1>2. Len(s) \in Nat
  BY <1>1
<1>3. /\ j \in i..Len(s) /\ IsRef(s, i, j)
      /\ \A k \in 1..Len(s) : IsRef(s, i, k) => k = j
  BY <1>2, RefEndIs
<1>4. j \in 1..Len(s) /\ j + 1 \in 1..(Len(s) + 1)
  BY <1>2, <1>3
<1>5. ~Inside(s, j + 1)
  BY <1>2, <1>3, <1>4, ClearAfterReference
<1>6. f[i] = SubSeq(s, i, j) \o f[j + 1] /\ f[j + 1] \in Seq(T)
  <2>1. f[i] = EscapeStep(s, i).out \o f[EscapeStep(s, i).next]
        /\ f[j + 1] \in Seq(T)
    BY <1>1, <1>4, EscapedFromIs
  <2>2. EscapeStep(s, i).out = SubSeq(s, i, j)
        /\ EscapeStep(s, i).next = j + 1
    BY EscapeReference
  <2> QED
    BY <2>1, <2>2, Zenon
<1>7. g[i] = ValueOf(RefName(s, i, j)) \o g[j + 1]
  <2>1. g[i] = MeaningAt(s, i) \o g[i + 1]
    BY <1>1, MeaningFromIs
  <2>2. MeaningAt(s, i) = ValueOf(RefName(s, i, j))
    BY <1>3, <1>4, MeaningOfReference
  <2>3. g[i + 1] = g[j + 1]
    BY <1>1, <1>3, <1>4, MeaningSkips
  <2> QED
    BY <2>1, <2>2, <2>3, Zenon
<1> DEFINE rest == f[j + 1]
<1>8. IsPlainRef(s, i, j) => rest = <<>> \/ ~IsName(rest[1])
  <2>1. CASE j = Len(s)
    <3>1. f[j + 1] = <<>>
      BY <1>1, <2>1, EscapedFromIs
    <3> QED
      BY <3>1
  <2>2. CASE j # Len(s)
    <3>1. j + 1 \in 1..Len(s)
      BY <1>2, <1>4, <2>2
    <3>2. f[j + 1][1] = s[j + 1]
      BY <1>1, <3>1, EscapedBegins
    <3>3. IsPlainRef(s, i, j) => ~IsName(s[j + 1])
      BY <2>2, Zenon DEF IsPlainRef
    <3> QED
      BY <3>2, <3>3, Zenon
  <2> QED
    BY <2>1, <2>2
<1>9. rest \in Seq(T)
  BY <1>6
<1> HIDE DEF rest
<1>10. ExpandEnv(SubSeq(s, i, j) \o rest)
         = ValueOf(RefName(s, i, j)) \o ExpandEnv(rest)
  <2>1. IsBracedRef(s, i, j) \/ IsPlainRef(s, i, j)
    BY <1>3, Zenon DEF IsRef
  <2>2. CASE IsBracedRef(s, i, j)
    BY <1>1, <1>3, <1>4, <1>9, <2>2, ExpandBracedPart
  <2>3. CASE IsPlainRef(s, i, j)
    BY <1>1, <1>3, <1>4, <1>8, <1>9, <2>3, ExpandPlainPart
  <2> QED
    BY <2>1, <2>2, <2>3
<1> QED
  BY <1>5, <1>6, <1>7, <1>10, Zenon DEF Agrees, rest

LEMMA ExpandNothing == ExpandEnv(<<>>) = <<>>
<1> DEFINE steps == ExpandSteps(<<>>)
<1>1. Len(<<>>) = 0 /\ 0 \in Nat
  OBVIOUS
<1>2. ExpandEnv(<<>>) = Scan(0, steps)
  BY <1>1, Zenon DEF ExpandEnv, ExpandSteps
<1> HIDE DEF steps
<1>3. Advances(0, steps)
  BY DEF Advances
<1>4. PICK f : Scans(f, 0, steps) /\ Scan(0, steps) = f[1]
  BY <1>1, <1>3, ScanExists
<1>5. f[0 + 1] = <<>>
  BY <1>4, Zenon DEF Scans, Walks
<1>6. 0 + 1 = 1
  OBVIOUS
<1> QED
  BY <1>2, <1>4, <1>5, <1>6, Zenon

LEMMA EscapedAgrees ==
  ASSUME NEW T, IsAlphabet(T), NEW s \in Seq(T)
  PROVE  ExpandEnv(EscapeBareDollars(s)) = Meaning(s)
<1> DEFINE n == Len(s)
<1>1. n \in Nat
  OBVIOUS
<1>2. PICK f : EscapedFrom(f, s) /\ EscapeBareDollars(s) = f[1]
  BY EscapedExists
<1>3. PICK g : MeaningFrom(g, s) /\ Meaning(s) = g[1]
  BY MeaningExists
<1>4. Prepared(T, s, f, g)
  BY <1>2, <1>3, Zenon DEF Prepared
<1> HIDE DEF n
<1> DEFINE S == {i \in 1..n : Agrees(f, g, s, i)}
<1>5. Agrees(f, g, s, n + 1)
  <2>1. f[n + 1] = <<>>
    BY <1>2, EscapedFromIs DEF n
  <2>2. g[n + 1] = <<>>
    BY <1>3, MeaningFromIs DEF n
  <2> QED
    BY <2>1, <2>2, ExpandNothing, Zenon DEF Agrees
<1>6. ASSUME NEW i \in 1..n, \A j \in (i + 1)..n : j \in S PROVE i \in S
  <2>1. \A j \in (i + 1)..(n + 1) : Agrees(f, g, s, j)
    <3>1. \A j \in (i + 1)..(n + 1) : j \in (i + 1)..n \/ j = n + 1
      BY <1>1
    <3> QED
      BY <1>5, <1>6, <3>1
  <2>2. i \in 1..Len(s)
    BY DEF n
  <2>3. i + 1 \in (i + 1)..(n + 1)
    BY <1>1
  <2>4. ASSUME ~Inside(s, i) PROVE ExpandEnv(f[i]) = g[i]
    <3>1. CASE ~HasAt(s, i, "$")
      BY <1>4, <2>1, <2>2, <2>3, <2>4, <3>1, AgreesAtToken
    <3>2. CASE HasAt(s, i, "$") /\ RefEnd(s, i) = i
      BY <1>4, <2>1, <2>2, <2>3, <2>4, <3>2, AgreesAtBare
    <3>3. CASE HasAt(s, i, "$") /\ RefEnd(s, i) # i
      <4>1. PICK j : j = RefEnd(s, i)
        OBVIOUS
      <4>2. j \in i..n /\ j # i
        BY <1>1, <2>2, <3>3, <4>1, RefEndIs DEF n
      <4>3. j + 1 \in (i + 1)..(n + 1)
        BY <1>1, <4>2
      <4> QED
        BY <1>4, <2>1, <2>2, <2>4, <3>3, <4>1, <4>2, <4>3, AgreesAtReference
    <3> QED
      BY <3>1, <3>2, <3>3
  <2> QED
    BY <2>4 DEF Agrees
<1>7. 1..n \subseteq S
  <2> HIDE DEF S
  <2> QED
    BY <1>1, <1>6, InductionDown
<1>8. Agrees(f, g, s, 1)
  <2>1. 1 \in 1..n \/ n = 0
    BY <1>1
  <2>2. n = 0 => n + 1 = 1
    OBVIOUS
  <2> QED
    BY <1>5, <1>7, <2>1, <2>2
<1>9. ~Inside(s, 1)
  <2>1. \A i \in 1..Len(s) : ~(i < 1)
    BY <1>1 DEF n
  <2> QED
    BY <2>1, InsideIs
<1> QED
  BY <1>2, <1>3, <1>8, <1>9, Zenon DEF Agrees

(* EscapeBareDollars: for every text, what gobackup's os.ExpandEnv makes   *)
(* of what was written is what the text means: its references stand for    *)
(* their values, and every other '$' is one.                               *)
THEOREM EscapedMeansTheSame ==
  ASSUME NEW S, NEW s \in Seq(S)
  PROVE  ExpandEnv(EscapeBareDollars(s)) = Meaning(s)
<1> DEFINE X == {"$", Open, Close, "GB_DOLLAR", "value of"}
           T == S \cup X
<1>1. X \subseteq T /\ S \subseteq T
  <2> HIDE DEF X
  <2> QED
    OBVIOUS
<1> HIDE DEF T
<1>2. IsAlphabet(T)
  BY <1>1, Zenon DEF IsAlphabet, X
<1> HIDE DEF X
<1>3. s \in Seq(T)
  BY <1>1
<1> QED
  BY <1>2, <1>3, EscapedAgrees

LEMMA WholeReference ==
  ASSUME NEW s, Len(s) \in Nat, NEW i, NEW j, i = 1, j = Len(s), IsRef(s, i, j)
  PROVE  HasAt(s, i, "$") /\ RefEnd(s, i) = j /\ j # i
<1>1. HasAt(s, i, "$") /\ i < j
  BY Zenon DEF IsRef
<1>2. i \in 1..Len(s) /\ j \in 1..Len(s) /\ j # i
  BY <1>1
<1>3. \A k \in 1..Len(s) : IsRef(s, i, k) => k = RefEnd(s, i)
  BY <1>1, <1>2, RefEndIs
<1> QED
  BY <1>1, <1>2, <1>3, Zenon

(* A text that is one reference stays as it is.                            *)
LEMMA ReferenceKept ==
  ASSUME NEW T, IsAlphabet(T), NEW s \in Seq(T), Len(s) > 0,
         IsRef(s, 1, Len(s))
  PROVE  EscapeBareDollars(s) = s
<1>1. Len(s) \in Nat /\ 1 \in 1..Len(s)
  OBVIOUS
<1> DEFINE i == 1
           j == Len(s)
<1>2. HasAt(s, i, "$") /\ RefEnd(s, i) = j /\ j # i
  <2>1. i = 1 /\ j = Len(s) /\ IsRef(s, i, j)
    BY Zenon
  <2> HIDE DEF i, j
  <2> QED
    BY <1>1, <2>1, WholeReference
<1>3. EscapeStep(s, i).out = SubSeq(s, i, j)
      /\ EscapeStep(s, i).next = j + 1
  <2> HIDE DEF i, j
  <2> QED
    BY <1>2, EscapeReference
<1>4. PICK f : EscapedFrom(f, s) /\ EscapeBareDollars(s) = f[1]
  BY EscapedExists
<1>5. f[1] = EscapeStep(s, 1).out \o f[EscapeStep(s, 1).next]
      /\ f[Len(s) + 1] = <<>>
  BY <1>1, <1>4, EscapedFromIs
<1>6. SubSeq(s, 1, Len(s)) = s /\ s \o <<>> = s
  BY ConcatEmptySeq
<1> QED
  BY <1>3, <1>4, <1>5, <1>6, Zenon DEF i, j
=============================================================================
