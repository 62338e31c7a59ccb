-------------------------- MODULE ConfigPassProofs --------------------------
(***************************************************************************)
(* Proofs about ConfigPass: configuration trees and paths, reading labels, *)
(* building a source's model, discovery, the file and what the engine is   *)
(* given for it; together, the inductive invariant of a pass.              *)
(***************************************************************************)
EXTENDS ConfigPass, DollarEscapeProofs, FiniteSetTheorems, TLAPS

(* The elements of sequences.                                              *)
LEMMA SeqOfOwn ==
  ASSUME NEW S, NEW s \in Seq(S)
  PROVE  s \in Seq(ToSet(s)) /\ ToSet(s) \subseteq S
BY DEF ToSet

LEMMA AppendElements ==
  ASSUME NEW S, NEW s \in Seq(S), NEW e
  PROVE  /\ Append(s, e) \in Seq(ToSet(Append(s, e)))
         /\ ToSet(Append(s, e)) = ToSet(s) \cup {e}
<1>1. Append(s, e) \in Seq(S \cup {e}) /\ Len(Append(s, e)) = Len(s) + 1
      /\ \A i \in 1..(Len(s) + 1) :
           Append(s, e)[i] = IF i <= Len(s) THEN s[i] ELSE e
  OBVIOUS
<1>2. DOMAIN s = 1..Len(s) /\ DOMAIN Append(s, e) = 1..(Len(s) + 1)
  BY <1>1
<1>3. ToSet(s) \subseteq ToSet(Append(s, e))
  <2>1. \A i \in 1..Len(s) : i \in 1..(Len(s) + 1) /\ Append(s, e)[i] = s[i]
    BY <1>1
  <2> QED
    BY <1>2, <2>1 DEF ToSet
<1>4. e \in ToSet(Append(s, e))
  <2>1. Len(s) + 1 \in 1..(Len(s) + 1) /\ Append(s, e)[Len(s) + 1] = e
    BY <1>1
  <2> QED
    BY <1>2, <2>1 DEF ToSet
<1>5. ToSet(Append(s, e)) \subseteq ToSet(s) \cup {e}
  BY <1>1, <1>2 DEF ToSet
<1> QED
  BY <1>1, <1>3, <1>4, <1>5, SeqOfOwn

LEMMA TailElements ==
  ASSUME NEW S, NEW s \in Seq(S), s # <<>>
  PROVE  /\ Tail(s) \in Seq(ToSet(Tail(s))) /\ Head(s) \in ToSet(s)
         /\ ToSet(Tail(s)) \subseteq ToSet(s)
<1>1. Tail(s) \in Seq(S) /\ Len(Tail(s)) = Len(s) - 1
      /\ \A i \in 1..(Len(s) - 1) : Tail(s)[i] = s[i + 1]
  OBVIOUS
<1>2. ToSet(Tail(s)) \subseteq ToSet(s)
  BY <1>1 DEF ToSet
<1>3. Head(s) \in ToSet(s)
  BY DEF ToSet
<1> QED
  BY <1>1, <1>2, <1>3, SeqOfOwn

(* A prefix agrees with what it is a prefix of, key by key.                *)
LEMMA PrefixByKeys ==
  ASSUME NEW p \in Seq(Token), NEW q \in Seq(Token)
  PROVE  IsPrefix(p, q) <=> /\ Len(p) <= Len(q)
                            /\ \A i \in 1..Len(p) : p[i] = q[i]
<1>1. SubSeq(p, 1, Len(p)) = p
  OBVIOUS
<1>2. ASSUME Len(p) <= Len(q)
      PROVE  /\ SubSeq(q, 1, Len(p)) \in Seq(Token)
             /\ Len(SubSeq(q, 1, Len(p))) = Len(p)
             /\ \A i \in 1..Len(p) : SubSeq(q, 1, Len(p))[i] = q[i]
  BY <1>2
<1>3. ASSUME Len(p) <= Len(q), \A i \in 1..Len(p) : p[i] = q[i]
      PROVE  p = SubSeq(q, 1, Len(p))
  BY <1>2, <1>3
<1> QED
  BY <1>1, <1>2, <1>3 DEF IsPrefix

LEMMA PrefixReflexive ==
  ASSUME NEW p \in Seq(Token)
  PROVE  IsPrefix(p, p)
BY PrefixByKeys

LEMMA PrefixTransitive ==
  ASSUME NEW p \in Seq(Token), NEW q \in Seq(Token), NEW r \in Seq(Token),
         IsPrefix(p, q), IsPrefix(q, r)
  PROVE  IsPrefix(p, r)
BY PrefixByKeys

LEMMA PrefixAntisymmetric ==
  ASSUME NEW p \in Seq(Token), NEW q \in Seq(Token),
         IsPrefix(p, q), IsPrefix(q, p)
  PROVE  p = q
BY PrefixByKeys

(* Of two prefixes of one path one is a prefix of the other.               *)
LEMMA PrefixesOfOne ==
  ASSUME NEW p \in Seq(Token), NEW q \in Seq(Token), NEW r \in Seq(Token),
         IsPrefix(p, r), IsPrefix(q, r)
  PROVE  IsPrefix(p, q) \/ IsPrefix(q, p)
BY PrefixByKeys

(* What is above a path: its proper prefixes that are paths.               *)
LEMMA AbovePaths ==
  ASSUME NEW p \in Path, NEW q \in Above(p)
  PROVE  q \in Path /\ IsPrefix(q, p) /\ q # p
<1>1. PICK i \in 1..(Len(p) - 1) : q = SubSeq(p, 1, i)
  BY DEF Above
<1>2. /\ q \in Seq(Token) /\ Len(q) = i
      /\ \A k \in 1..i : q[k] = p[k]
  BY <1>1 DEF Path
<1>3. IsPrefix(q, p)
  BY <1>2, PrefixByKeys DEF Path
<1> QED
  BY <1>1, <1>2, <1>3 DEF Path

LEMMA PrefixesAreAbove ==
  ASSUME NEW p \in Path, NEW q \in Path, IsPrefix(q, p), q # p
  PROVE  q \in Above(p)
<1>1. Len(q) <= Len(p) /\ \A i \in 1..Len(q) : q[i] = p[i]
  BY PrefixByKeys DEF Path
<1>2. Len(q) \in 1..(Len(p) - 1)
  <2>1. Len(q) # Len(p)
    BY <1>1 DEF Path
  <2> QED
    BY <1>1, <2>1 DEF Path
<1>3. q = SubSeq(p, 1, Len(q))
  <2>1. SubSeq(p, 1, Len(q)) \in Seq(Token) /\ Len(SubSeq(p, 1, Len(q))) = Len(q)
        /\ \A i \in 1..Len(q) : SubSeq(p, 1, Len(q))[i] = p[i]
    BY <1>2 DEF Path
  <2> QED
    BY <1>1, <2>1 DEF Path
<1> QED
  BY <1>2, <1>3 DEF Above
-----------------------------------------------------------------------------
(* Merging.                                                                *)

LEMMA NodeKinds ==
  /\ IsNode(Map) /\ Map.kind = "map"
  /\ \A t \in Seq(Token) : IsNode(Text(t))
  /\ \A t : Text(t).kind = "text" /\ Text(t).kind # "map"
  /\ \A ts \in Seq(Seq(Token)) : IsNode(List(ts)) /\ IsNode(Strings(ts))
<1>1. <<>> \in Seq(Seq(Token))
  OBVIOUS
<1>2. \A t \in Seq(Token) : <<t>> \in Seq(Seq(Token)) /\ Len(<<t>>) = 1
  OBVIOUS
<1> QED
  BY <1>1, <1>2 DEF IsNode, Map, Text, List, Strings, Kinds

(* Setting a leaf keeps a tree a tree, without empty maps.                 *)
LEMMA SetPathShape ==
  ASSUME NEW t, WellFormed(t), NEW p \in Path,
         NEW v, IsNode(v), v.kind # "map"
  PROVE  /\ WellFormed(SetPath(t, p, v))
         /\ Filled(t) => Filled(SetPath(t, p, v))
<1> DEFINE D == (DOMAIN t \ Under(DOMAIN t, p)) \cup Above(p) \cup {p}
           u == SetPath(t, p, v)
<1>1. DOMAIN u = D /\ u[p] = v
      /\ \A q \in D \ {p} : u[q] = IF q \in Above(p) THEN Map ELSE t[q]
  BY DEF SetPath
<1>2. \A q \in Above(p) : q \in Path /\ IsPrefix(q, p) /\ q # p
  BY AbovePaths
<1>3. D \subseteq Path
  BY <1>2 DEF WellFormed
<1> HIDE DEF u
<1>4. \A q \in D : IsNode(u[q])
  BY <1>1, NodeKinds DEF WellFormed, Under
<1>5. ASSUME NEW q \in D, NEW a \in Above(q) PROVE IsMap(u, a)
  <2>1. q \in Path /\ a \in Path /\ IsPrefix(a, q) /\ a # q
    BY <1>3, AbovePaths
  <2>2. CASE q = p \/ q \in Above(p)
    <3>1. IsPrefix(q, p)
      BY <1>2, <2>2, PrefixReflexive DEF Path
    <3>2. IsPrefix(a, p)
      BY <2>1, <3>1, PrefixTransitive DEF Path
    <3>3. a # p
      BY <2>1, <3>1, PrefixAntisymmetric DEF Path
    <3>4. a \in Above(p)
      BY <2>1, <3>2, <3>3, PrefixesAreAbove
    <3> QED
      BY <1>1, <3>3, <3>4, NodeKinds DEF IsMap
  <2>3. CASE q # p /\ q \notin Above(p)
    <3>1. q \in DOMAIN t /\ ~IsPrefix(p, q)
      BY <2>3 DEF Under
    <3>2. IsMap(t, a)
      BY <3>1 DEF WellFormed
    <3>3. ~IsPrefix(p, a)
      BY <2>1, <3>1, PrefixTransitive DEF Path
    <3>4. a # p
      BY <2>1, <3>3, PrefixReflexive DEF Path
    <3>5. a \in D
      BY <3>2, <3>3 DEF Under, IsMap
    <3> QED
      BY <1>1, <3>2, <3>4, <3>5, NodeKinds DEF IsMap
  <2> QED
    BY <2>2, <2>3
<1>6. ASSUME Filled(t), NEW q \in D, IsMap(u, q)
      PROVE  \E r \in Leaves(u) : IsPrefix(q, r)
  <2>1. p \in Leaves(u) /\ q # p
    BY <1>1, <1>6 DEF Leaves, IsMap
  <2>2. CASE q \in Above(p)
    BY <1>2, <2>1, <2>2
  <2>3. CASE q \notin Above(p)
    <3>1. q \in DOMAIN t /\ ~IsPrefix(p, q) /\ IsMap(t, q) /\ q \in Path
      BY <1>1, <1>3, <1>6, <2>1, <2>3 DEF Under, IsMap
    <3>2. PICK r \in Leaves(t) : IsPrefix(q, r)
      BY <1>6, <3>1 DEF Filled
    <3>3. r \in Path /\ r \in DOMAIN t /\ t[r].kind # "map"
      BY <3>2 DEF Leaves, WellFormed
    <3>4. CASE IsPrefix(p, r)
      <4>1. IsPrefix(q, p) \/ IsPrefix(p, q)
        BY <3>1, <3>2, <3>3, <3>4, PrefixesOfOne DEF Path
      <4>2. q \in Above(p)
        BY <2>1, <3>1, <4>1, PrefixesAreAbove
      <4> QED
        BY <2>3, <4>2
    <3>5. CASE r \in Above(p)
      <4>1. IsPrefix(q, p)
        BY <1>2, <3>1, <3>2, <3>5, PrefixTransitive DEF Path
      <4>2. q \in Above(p)
        BY <2>1, <3>1, <4>1, PrefixesAreAbove
      <4> QED
        BY <2>3, <4>2
    <3>6. CASE ~IsPrefix(p, r) /\ r \notin Above(p)
      <4>1. r \in D /\ r # p
        BY <3>3, <3>6, PrefixReflexive DEF Under, Path
      <4>2. r \in Leaves(u)
        BY <1>1, <3>3, <3>6, <4>1 DEF Leaves
      <4> QED
        BY <3>2, <4>2
    <3> QED
      BY <3>4, <3>5, <3>6
  <2> QED
    BY <2>2, <2>3
<1>7. WellFormed(u)
  BY <1>1, <1>3, <1>4, <1>5 DEF WellFormed
<1>8. Filled(t) => Filled(u)
  BY <1>1, <1>6 DEF Filled
<1> QED
  BY <1>7, <1>8 DEF u

(* The tree of some labels is decoded as it should be, and has the labels  *)
(* for leaves.                                                             *)
LEMMA LabelTreeShape ==
  ASSUME NEW labels, NEW S, S \subseteq Path, Clear(S),
         \A p \in S : labels[p] \in Seq(Token)
  PROVE  /\ WellFormed(LabelTree(S, labels)) /\ Filled(LabelTree(S, labels))
         /\ Leaves(LabelTree(S, labels)) = S
<1> DEFINE t == LabelTree(S, labels)
           T == UNION {Above(q) \cup {q} : q \in S}
<1>1. /\ DOMAIN t = T
      /\ \A p \in T : t[p] = IF p \in S THEN Text(labels[p]) ELSE Map
  BY DEF LabelTree
<1>2. Map.kind = "map" /\ \A x : Text(x).kind # "map"
  BY NodeKinds
<1>3. \A p \in T : p \in Path /\ \E q \in S : IsPrefix(p, q)
  <2> TAKE p \in T
  <2>1. PICK q \in S : p \in Above(q) \cup {q}
    OBVIOUS
  <2> QED
    BY <2>1, AbovePaths, PrefixReflexive DEF Path
<1> HIDE DEF t
<1>4. Leaves(t) = S
  BY <1>1, <1>2 DEF Leaves
<1>5. Filled(t)
  BY <1>1, <1>3, <1>4 DEF Filled
<1>6. \A p \in T : \A a \in Above(p) : IsMap(t, a)
  <2> TAKE p \in T
  <2> TAKE a \in Above(p)
  <2>1. p \in Path /\ a \in Path /\ IsPrefix(a, p) /\ a # p
    BY <1>3, AbovePaths
  <2>2. PICK q \in S : IsPrefix(p, q)
    BY <1>3
  <2>3. q \in Path
    OBVIOUS
  <2>4. IsPrefix(a, q)
    BY <2>1, <2>2, <2>3, PrefixTransitive DEF Path
  <2>5. a # q
    BY <2>1, <2>2, PrefixAntisymmetric DEF Path
  <2>6. a \in Above(q)
    BY <2>1, <2>3, <2>4, <2>5, PrefixesAreAbove
  <2>7. a \notin S
    BY <2>4, <2>5 DEF Clear
  <2> QED
    BY <1>1, <1>2, <2>6, <2>7 DEF IsMap
<1>7. \A p \in T : IsNode(t[p])
  BY <1>1, NodeKinds
<1>8. WellFormed(t)
  BY <1>1, <1>3, <1>6, <1>7 DEF WellFormed
<1> QED
  BY <1>4, <1>5, <1>8 DEF t

(* A merge hides all below a key it hides.                                 *)
LEMMA HiddenBelow ==
  ASSUME NEW base, NEW over, WellFormed(base),
         NEW p \in Hidden(base, over), NEW q \in DOMAIN base, IsPrefix(p, q)
  PROVE  q \in Hidden(base, over)
<1>1. PICK r \in DOMAIN base \cap DOMAIN over :
        ~(IsMap(base, r) /\ IsMap(over, r)) /\ p \in Under(DOMAIN base, r)
  BY DEF Hidden
<1>2. p \in DOMAIN base /\ IsPrefix(r, p)
  BY <1>1 DEF Under
<1>3. IsPrefix(r, q)
  BY <1>1, <1>2, PrefixTransitive DEF WellFormed, Path
<1> QED
  BY <1>1, <1>3 DEF Hidden, Under

(* Merging labels over a profile gives a well-formed tree ...              *)
LEMMA MergedWellFormed ==
  ASSUME NEW base, NEW over, WellFormed(base), WellFormed(over)
  PROVE  WellFormed(DeepMerge(base, over))
<1> DEFINE t == DeepMerge(base, over)
           D == (DOMAIN base \ Hidden(base, over)) \cup DOMAIN over
<1>1. /\ DOMAIN t = D
      /\ \A p \in D : t[p] = IF p \in DOMAIN over THEN over[p] ELSE base[p]
  BY DEF DeepMerge
<1>2. ASSUME NEW p \in D, NEW a \in Above(p)
      PROVE  IsMap(t, a)
  <2>1. CASE p \in DOMAIN over
    <3>1. IsMap(over, a)
      BY <2>1 DEF WellFormed
    <3> QED
      BY <1>1, <3>1 DEF IsMap
  <2>2. CASE p \notin DOMAIN over
    <3>1. p \in DOMAIN base /\ p \in Path /\ p \notin Hidden(base, over)
      BY <2>2 DEF WellFormed
    <3>2. IsMap(base, a) /\ IsPrefix(a, p)
      BY <3>1, AbovePaths DEF WellFormed
    <3>3. a \notin Hidden(base, over)
      BY <3>1, <3>2, HiddenBelow
    <3>4. a \in DOMAIN over => IsMap(over, a)
      BY <3>1, <3>2 DEF Hidden, Under, IsMap
    <3> QED
      BY <1>1, <3>2, <3>3, <3>4 DEF IsMap
  <2> QED
    BY <2>1, <2>2
<1> QED
  BY <1>1, <1>2 DEF WellFormed

(* ... whose leaves are the labels and what of the profile is in no        *)
(* label's way: neither above one nor below one (deepMerge).  This is what *)
(* ModelsAsDeclared asks of a model, before opt-outs and credentials, for  *)
(* every profile and every labels.                                         *)
THEOREM MergedLeaves ==
  ASSUME NEW base, WellFormed(base),
         NEW over, WellFormed(over), Filled(over)
  PROVE  Leaves(DeepMerge(base, over)) = Leaves(over) \cup
           {q \in Leaves(base) : \A o \in Leaves(over) : ~Related(o, q)}
<1> DEFINE S == Leaves(over)
           t == DeepMerge(base, over)
           D == (DOMAIN base \ Hidden(base, over)) \cup DOMAIN over
<1>1. WellFormed(over) /\ Filled(over) /\ Leaves(over) = S
  OBVIOUS
<1> HIDE DEF S
<1>2. /\ DOMAIN t = D
      /\ \A p \in D : t[p] = IF p \in DOMAIN over THEN over[p] ELSE base[p]
  BY DEF DeepMerge
<1>3. \A p \in DOMAIN over : p \in S <=> ~IsMap(over, p)
  BY <1>1 DEF Leaves, IsMap
<1>4. S \subseteq DOMAIN over /\ S \subseteq Path
  BY <1>1 DEF Leaves, WellFormed
<1>5. ASSUME NEW x \in Leaves(t), x \notin S
      PROVE  x \in Leaves(base) /\ \A o \in S : ~Related(o, x)
  <2>1. x \in D /\ t[x].kind # "map"
    BY <1>2, <1>5 DEF Leaves
  <2>2. x \notin DOMAIN over
    BY <1>2, <1>3, <1>5, <2>1 DEF IsMap
  <2>3. x \in Leaves(base) /\ x \notin Hidden(base, over) /\ x \in Path
    BY <1>2, <2>1, <2>2 DEF Leaves, WellFormed
  <2>4. ASSUME NEW o \in S, IsPrefix(o, x) PROVE FALSE
    <3>1. o \in Above(x)
      BY <1>4, <2>2, <2>3, <2>4, PrefixesAreAbove
    <3>2. o \in DOMAIN base /\ ~IsMap(over, o)
      BY <1>3, <1>4, <2>3, <3>1 DEF WellFormed, Leaves, IsMap
    <3> QED
      BY <1>4, <2>3, <2>4, <3>2 DEF Hidden, Under, Leaves
  <2>5. ASSUME NEW o \in S, IsPrefix(x, o) PROVE FALSE
    <3>1. x \in Above(o)
      BY <1>4, <2>2, <2>3, <2>5, PrefixesAreAbove
    <3> QED
      BY <1>1, <1>4, <2>2, <3>1 DEF WellFormed, IsMap
  <2> QED
    BY <2>3, <2>4, <2>5 DEF Related
<1>6. ASSUME NEW x \in S PROVE x \in Leaves(t)
  BY <1>2, <1>3, <1>4 DEF Leaves, IsMap
<1>7. ASSUME NEW x \in Leaves(base), \A o \in S : ~Related(o, x)
      PROVE  x \in Leaves(t)
  <2>1. x \in DOMAIN base /\ ~IsMap(base, x) /\ x \in Path
    BY DEF Leaves, IsMap, WellFormed
  <2>2. x \notin DOMAIN over
    <3>1. x \in DOMAIN over => \E o \in S : IsPrefix(x, o)
      BY <1>1, <1>3, <2>1, PrefixReflexive DEF Filled, Path
    <3> QED
      BY <1>7, <3>1 DEF Related
  <2>3. x \notin Hidden(base, over)
    <3> SUFFICES ASSUME NEW p \in DOMAIN base \cap DOMAIN over,
                        ~(IsMap(base, p) /\ IsMap(over, p)), IsPrefix(p, x)
                 PROVE  FALSE
      BY DEF Hidden, Under
    <3>1. IsMap(over, p)
      BY <1>3, <1>7 DEF Related
    <3>2. p \in Above(x)
      BY <2>1, <2>2, PrefixesAreAbove DEF WellFormed
    <3> QED
      BY <2>1, <3>1, <3>2 DEF WellFormed
  <2> QED
    BY <1>2, <2>1, <2>2, <2>3 DEF Leaves, IsMap
<1> QED
  BY <1>5, <1>6, <1>7 DEF S
-----------------------------------------------------------------------------
(* Reading labels.                                                         *)

(* A label more: setPath gives the tree of the labels read and this one,   *)
(* whichever they are, if no label is set below another.                   *)
LEMMA SetPathLabelTree ==
  ASSUME NEW labels, NEW S, NEW p, p \notin S,
         S \cup {p} \subseteq Path, Clear(S \cup {p})
  PROVE  SetPath(LabelTree(S, labels), p, Text(labels[p]))
           = LabelTree(S \cup {p}, labels)
<1> DEFINE T == UNION {Above(q) \cup {q} : q \in S}
           t == LabelTree(S, labels)
<1>1. DOMAIN t = T
  BY DEF LabelTree
<1>2. \A r \in T : r \in Path /\ (\E q \in S : IsPrefix(r, q))
  <2> TAKE r \in T
  <2>1. PICK q \in S : r \in Above(q) \cup {q}
    OBVIOUS
  <2>2. q \in Path
    OBVIOUS
  <2> QED
    BY <2>1, <2>2, AbovePaths, PrefixReflexive DEF Path
<1>3. Under(T, p) = {}
  <2> SUFFICES ASSUME NEW r \in T, IsPrefix(p, r)
               PROVE  FALSE
    BY DEF Under
  <2>1. PICK q \in S : IsPrefix(r, q)
    BY <1>2
  <2>2. IsPrefix(p, q)
    BY <1>2, <2>1, PrefixTransitive DEF Path
  <2> QED
    BY <2>2 DEF Clear
<1>4. UNION {Above(q) \cup {q} : q \in S \cup {p}} = T \cup Above(p) \cup {p}
  OBVIOUS
<1>5. \A q \in Above(p) : q \notin S \cup {p}
  BY AbovePaths DEF Clear
<1>6. \A q \in T : q \notin {p} \cup Above(p)
        => t[q] = (IF q \in S \cup {p} THEN Text(labels[q]) ELSE Map)
  BY DEF LabelTree
<1>7. SetPath(t, p, Text(labels[p]))
        = [q \in T \cup Above(p) \cup {p} |->
             IF q = p THEN Text(labels[p])
             ELSE IF q \in Above(p) THEN Map ELSE t[q]]
  <2> HIDE DEF T, t
  <2> QED
    BY <1>1, <1>3 DEF SetPath
<1>8. \A q \in T \cup Above(p) \cup {p} :
        (IF q = p THEN Text(labels[p])
         ELSE IF q \in Above(p) THEN Map ELSE t[q])
        = (IF q \in S \cup {p} THEN Text(labels[q]) ELSE Map)
  <2> HIDE DEF T, t
  <2> QED
    BY <1>5, <1>6
<1>9. LabelTree(S \cup {p}, labels)
        = [q \in T \cup Above(p) \cup {p} |->
             IF q \in S \cup {p} THEN Text(labels[q]) ELSE Map]
  BY <1>4 DEF LabelTree
<1> QED
  <2> HIDE DEF T, t
  <2>1. SetPath(t, p, Text(labels[p])) = LabelTree(S \cup {p}, labels)
    BY <1>7, <1>8, <1>9
  <2> QED
    BY <2>1 DEF t

LEMMA NothingRead ==
  ASSUME NEW labels
  PROVE  LabelTree({}, labels) = Empty
BY DEF LabelTree, Empty

(* Labels that give nothing, or a source.                                  *)
LEMMA FreshIsSource ==
  ASSUME NEW w
  PROVE  IsSource(Fresh(w)) /\ Fresh(w).tree = Empty
<1>1. WellFormed(Empty) /\ Filled(Empty)
  BY DEF WellFormed, Filled, Empty
<1>2. <<>> \in Seq(Token) /\ ToSet(<<>>) = {}
      /\ <<>> \in Seq([path : Path, kind : {"env", "file"}, ref : Seq(Token)])
  BY DEF ToSet
<1> QED
  BY <1>1, <1>2 DEF IsSource, Fresh

(* A container whose labels are all to come.                               *)
LEMMA ReadingStarts ==
  ASSUME left' = LabelsOf(listed'), parsed' = Fresh(world')
  PROVE  /\ ParsedAsLabelled' /\ IsSource(parsed')
         /\ DOMAIN parsed' = DOMAIN Fresh(world')
<1>1. parsed'.tree = Empty /\ IsSource(parsed')
  BY FreshIsSource
<1>2. listed' # <<>> => SettingsRead' = {}
  BY DEF SettingsRead, Settings, LabelsOf
<1> QED
  BY <1>1, <1>2, NothingRead DEF ParsedAsLabelled

LEMMA ReadsInit == Init => Reads
<1> SUFFICES ASSUME Init PROVE Reads
  OBVIOUS
<1>1. IsWorld(world) /\ listed \in Seq(ToSet(world.containers))
  BY ConfigPassAssumption DEF Init, IsWorld
<1>2. parsed = Fresh(world) /\ parsed.tree = Empty /\ IsSource(parsed)
  BY FreshIsSource DEF Init
<1>3. listed # <<>> => SettingsRead = {}
  BY DEF Init, SettingsRead, Settings, LabelsOf
<1>4. sources = <<>> /\ ToSet(sources) = {} /\ sources \in Seq(ToSet(sources))
  BY DEF Init, ToSet
<1> QED
  BY <1>1, <1>2, <1>3, <1>4, NothingRead DEF Init, Reads, ParsedAsLabelled

(* The label being read is one of a container's.                           *)
LEMMA LabelAtHand ==
  ASSUME Reads, NEW p, Reading(p)
  PROVE  /\ listed # <<>> /\ p \in DOMAIN Head(listed).labels
         /\ IsContainer(Head(listed))
         /\ p \in Path /\ Head(listed).labels[p] \in Seq(Token)
<1>1. listed # <<>> /\ p \in DOMAIN Head(listed).labels
  BY DEF Reads, Reading, LabelsOf
<1>2. Head(listed) \in ToSet(world.containers)
  BY <1>1 DEF Reads
<1> QED
  BY <1>1, <1>2 DEF Reads, IsWorld, IsContainer

(* Reading one label: what it makes of parsed.tree decides.                *)
LEMMA ReadingPreserves ==
  ASSUME Reads, NEW p, Reading(p),
         DOMAIN parsed' = DOMAIN parsed, IsSource(parsed'),
         IF p \in Settings(Head(listed).labels)
         THEN parsed'.tree = SetPath(parsed.tree, p,
                                     Text(Head(listed).labels[p]))
         ELSE parsed'.tree = parsed.tree
  PROVE  Reads'
<1> DEFINE labels == Head(listed).labels
<1>1. /\ pc = "list" /\ p \in left /\ left' = left \ {p}
      /\ UNCHANGED <<world, pc, listed, sources>>
  BY DEF Reading
<1>2. listed # <<>> /\ IsContainer(Head(listed))
  BY LabelAtHand
<1>3. DOMAIN labels \subseteq Path
  BY <1>2 DEF IsContainer
<1>4. ASSUME Clear(Settings(labels))
      PROVE  parsed'.tree = LabelTree(SettingsRead', labels)
  <2>1. parsed.tree = LabelTree(SettingsRead, labels)
    BY <1>1, <1>2, <1>4 DEF Reads, ParsedAsLabelled
  <2>2. CASE p \in Settings(labels)
    <3>1. SettingsRead' = SettingsRead \cup {p} /\ p \notin SettingsRead
      BY <1>1, <2>2 DEF SettingsRead
    <3>2. SettingsRead \cup {p} \subseteq Settings(labels)
      BY <2>2 DEF SettingsRead
    <3>3. /\ SettingsRead \cup {p} \subseteq Path
          /\ Clear(SettingsRead \cup {p})
      BY <1>3, <1>4, <3>2 DEF Settings, Clear
    <3> QED
      BY <2>1, <2>2, <3>1, <3>3, SetPathLabelTree
  <2>3. CASE p \notin Settings(labels)
    <3>1. SettingsRead' = SettingsRead
      BY <1>1, <2>3 DEF SettingsRead
    <3> QED
      BY <2>1, <2>3, <3>1
  <2> QED
    BY <2>2, <2>3
<1>5. ParsedAsLabelled'
  BY <1>1, <1>4 DEF ParsedAsLabelled
<1>6. DOMAIN parsed' = DOMAIN Fresh(world')
  BY <1>1 DEF Reads
<1>7. pc' = "list" => left' \subseteq LabelsOf(listed')
  BY <1>1 DEF Reads
<1> QED
  BY <1>1, <1>5, <1>6, <1>7 DEF Reads, IsClient

LEMMA FieldsOfParsed ==
  ASSUME Reads
  PROVE  DOMAIN parsed = {"enabled", "name", "instance", "profile", "tree",
                          "refs"}
BY DEF Reads, Fresh

LEMMA ReadMetaReads ==
  ASSUME Reads, NEW p, ReadMeta(p) PROVE Reads'
<1>1. Reading(p) /\ p \in MetaKeys
  BY DEF ReadMeta
<1>2. p \notin Settings(Head(listed).labels)
  BY <1>1 DEF Settings
<1>3. Head(listed).labels[p] \in Seq(Token)
  BY <1>1, LabelAtHand
<1>4. /\ DOMAIN parsed' = DOMAIN parsed
      /\ parsed'.tree = parsed.tree /\ parsed'.refs = parsed.refs
      /\ {parsed'.name, parsed'.profile}
           \subseteq {parsed.name, parsed.profile, Head(listed).labels[p]}
  BY FieldsOfParsed DEF ReadMeta, MetaKeys
<1>5. IsSource(parsed')
  BY <1>3, <1>4 DEF Reads, IsSource
<1> QED
  BY <1>1, <1>2, <1>4, <1>5, ReadingPreserves

(* What a label for a credential refers to.                                *)
LEMMA CredRefShape ==
  ASSUME NEW p \in Path, IsCredRef(p), NEW text \in Seq(Token)
  PROVE  /\ CredRef(p, text) \in [path : Path, kind : {"env", "file"},
                                  ref : Seq(Token)]
         /\ Last(CredRef(p, text).path) \notin {"path", "includes",
                                                "excludes"}
<1> DEFINE key == CredSuffix[Last(p)].key
           path == Append(Front(p), key)
<1>1. CredSuffix[Last(p)] \in [key : Token \ {"path", "includes", "excludes"},
                               kind : {"env", "file"}]
  BY ConfigPassAssumption DEF IsCredRef
<1>2. Front(p) \in Seq(Token)
  BY DEF Path, Front, IsCredRef
<1> HIDE DEF key
<1>3. path \in Seq(Token) /\ Len(path) = Len(Front(p)) + 1
      /\ path[Len(Front(p)) + 1] = key
  BY <1>1, <1>2 DEF key
<1>4. path \in Path /\ Last(path) = key
  BY <1>2, <1>3 DEF Path, Last
<1> HIDE DEF path
<1> QED
  BY <1>1, <1>4 DEF CredRef, path, key

LEMMA ReadCredRefReads ==
  ASSUME Reads, NEW p, ReadCredRef(p) PROVE Reads'
<1> DEFINE ref == CredRef(p, Head(listed).labels[p])
<1>1. Reading(p) /\ p \notin MetaKeys /\ IsCredRef(p)
  BY DEF ReadCredRef
<1>2. p \notin Settings(Head(listed).labels)
  BY <1>1 DEF Settings
<1>3. /\ ref \in [path : Path, kind : {"env", "file"}, ref : Seq(Token)]
      /\ Last(ref.path) \notin {"path", "includes", "excludes"}
  BY <1>1, LabelAtHand, CredRefShape
<1>4. parsed' = [parsed EXCEPT !.refs = Append(@, ref)]
  BY DEF ReadCredRef
<1> HIDE DEF ref
<1>5. /\ DOMAIN parsed' = DOMAIN parsed /\ parsed'.tree = parsed.tree
      /\ parsed'.refs = Append(parsed.refs, ref)
      /\ parsed'.name = parsed.name /\ parsed'.profile = parsed.profile
  BY <1>4, FieldsOfParsed
<1>6. ToSet(parsed'.refs) = ToSet(parsed.refs) \cup {ref}
  BY <1>3, <1>5, AppendElements DEF Reads, IsSource
<1>7. IsSource(parsed')
  BY <1>3, <1>5, <1>6 DEF Reads, IsSource
<1> QED
  BY <1>1, <1>2, <1>5, <1>7, ReadingPreserves

LEMMA ReadSettingReads ==
  ASSUME Reads, NEW p, ReadSetting(p) PROVE Reads'
<1> DEFINE node == Text(Head(listed).labels[p])
<1>1. Reading(p) /\ p \notin MetaKeys /\ ~IsCredRef(p)
  BY DEF ReadSetting
<1>2. p \in DOMAIN Head(listed).labels /\ p \in Path
      /\ IsNode(node) /\ node.kind # "map"
  BY <1>1, LabelAtHand, NodeKinds
<1>3. p \in Settings(Head(listed).labels)
  BY <1>1, <1>2 DEF Settings
<1>4. /\ DOMAIN parsed' = DOMAIN parsed /\ parsed'.refs = parsed.refs
      /\ parsed'.tree = SetPath(parsed.tree, p, node)
      /\ parsed'.name = parsed.name /\ parsed'.profile = parsed.profile
  BY FieldsOfParsed DEF ReadSetting
<1> HIDE DEF node
<1>5. WellFormed(parsed'.tree) /\ Filled(parsed'.tree)
  BY <1>2, <1>4, SetPathShape DEF Reads, IsSource
<1>6. IsSource(parsed')
  BY <1>4, <1>5 DEF Reads, IsSource
<1> QED
  BY <1>1, <1>3, <1>4, <1>6, ReadingPreserves DEF node

LEMMA EndContainerReads ==
  ASSUME Reads, EndContainer PROVE Reads'
<1> DEFINE src == [container |-> Head(listed).name, id |-> Head(listed).id,
                   name |-> parsed.name, profile |-> parsed.profile,
                   tree |-> parsed.tree, refs |-> parsed.refs]
<1>1. /\ listed # <<>> /\ pc = "list" /\ UNCHANGED <<world, pc>>
      /\ listed' = Tail(listed) /\ left' = LabelsOf(listed')
      /\ parsed' = Fresh(world')
      /\ sources' = Append(sources, src) \/ sources' = sources
  BY DEF EndContainer
<1>2. IsContainer(Head(listed))
  BY <1>1 DEF Reads, IsWorld
<1>3. IsSource(src) /\ src.container \in Seq(Token) /\ IsClient(src.id)
  <2>1. Head(listed) \in ToSet(world.containers)
    BY <1>1, TailElements DEF Reads
  <2>2. IsClient(src.id)
    BY <2>1 DEF IsClient
  <2> QED
    BY <1>2, <2>2 DEF Reads, IsSource, IsContainer
<1> HIDE DEF src
<1>4. /\ sources' \in Seq(ToSet(sources'))
      /\ ToSet(sources') \subseteq ToSet(sources) \cup {src}
  BY <1>1, AppendElements DEF Reads
<1>5. listed' \in Seq(ToSet(world'.containers))
  BY <1>1 DEF Reads
<1> QED
  BY <1>1, <1>3, <1>4, <1>5, ReadingStarts DEF Reads, IsClient

(* Nothing is read while models are built, discovery runs and so on.       *)
LEMMA NotReading ==
  ASSUME Reads, pc' # "list", UNCHANGED <<world, listed, parsed>>,
         UNCHANGED sources \/ (sources # <<>> /\ sources' = Tail(sources))
  PROVE  Reads'
<1>1. sources' \in Seq(ToSet(sources')) /\ ToSet(sources') \subseteq ToSet(sources)
  BY TailElements DEF Reads
<1> QED
  BY <1>1 DEF Reads, ParsedAsLabelled, IsClient

LEMMA ReadsNext == Reads /\ [Next]_vars => Reads'
<1> SUFFICES ASSUME Reads, [Next]_vars PROVE Reads'
  OBVIOUS
<1>1. ASSUME NEW p \in left, ReadMeta(p) \/ ReadCredRef(p) \/ ReadSetting(p)
      PROVE  Reads'
  BY <1>1, ReadMetaReads, ReadCredRefReads, ReadSettingReads
<1>2. CASE EndContainer
  BY <1>2, EndContainerReads
<1>3. CASE NextPass
  <2>1. /\ listed' = world.containers /\ UNCHANGED world
        /\ left' = LabelsOf(listed') /\ parsed' = Fresh(world')
        /\ sources' = <<>>
    BY <1>3 DEF NextPass
  <2>2. listed' \in Seq(ToSet(world'.containers))
    BY <2>1 DEF Reads, IsWorld
  <2>3. ToSet(sources') = {} /\ sources' \in Seq(ToSet(sources'))
    BY <2>1 DEF ToSet
  <2> QED
    BY <2>1, <2>2, <2>3, ReadingStarts DEF Reads
<1>4. CASE LoadProfiles \/ BuildModel \/ StartDiscovery
  BY <1>4, NotReading DEF LoadProfiles, BuildModel, StartDiscovery, labelVars
<1>5. ASSUME NEW m \in left, NEW ok \in BOOLEAN,
             DiscoverArchive(m, ok) \/ DiscoverSqlite(m, ok)
      PROVE  Reads'
  BY <1>5, NotReading DEF DiscoverArchive, DiscoverSqlite, Walk, labelVars
<1>6. CASE ApplyArchiveVolumes \/ DedupMounts \/ WriteConfig
  BY <1>6, NotReading DEF ApplyArchiveVolumes, DedupMounts, WriteConfig,
                          labelVars
<1>7. CASE (\E ok \in BOOLEAN : ResolveCred(ok)) \/ EndPass
  BY <1>7, NotReading DEF ResolveCred, EndPass, labelVars
<1>8. CASE UNCHANGED vars
  BY <1>8 DEF vars, labelVars, Reads, IsClient, ParsedAsLabelled, SettingsRead,
              Settings, LabelsOf
<1> QED
  BY <1>1, <1>2, <1>3, <1>4, <1>5, <1>6, <1>7, <1>8 DEF Next
-----------------------------------------------------------------------------
(* Models stay valid.                                                      *)

(* Above a key of the archive there is the archive.                        *)
LEMMA AboveArchiveKey ==
  ASSUME NEW key
  PROVE  Above(<<"archive", key>>) = {<<"archive">>}
<1> DEFINE p == <<"archive", key>>
           K == {"archive", key}
<1>1. p \in Seq(K) /\ Len(p) = 2 /\ p[1] = "archive"
  OBVIOUS
<1>2. SubSeq(p, 1, 1) = <<"archive">>
  <2>1. /\ SubSeq(p, 1, 1) \in Seq(K) /\ Len(SubSeq(p, 1, 1)) = 1
        /\ SubSeq(p, 1, 1)[1] = "archive"
    BY <1>1
  <2>2. /\ <<"archive">> \in Seq(K) /\ Len(<<"archive">>) = 1
        /\ <<"archive">>[1] = "archive"
    OBVIOUS
  <2>3. \A i \in 1..1 : SubSeq(p, 1, 1)[i] = <<"archive">>[i]
    BY <2>1, <2>2
  <2> HIDE DEF p, K
  <2> QED
    BY <2>1, <2>2, <2>3, SeqEqual
<1> QED
  BY <1>1, <1>2 DEF Above

(* applyArchiveVolumes touches nothing but the archive.                    *)
LEMMA SetArchiveKeepsValid ==
  ASSUME NEW t, ValidModel(t), NEW key, NEW texts
  PROVE  ValidModel(WithStrings(t, <<"archive", key>>, texts))
<1> DEFINE p == <<"archive", key>>
           u == SetPath(t, p, Strings(texts))
<1>1. Above(p) = {<<"archive">>}
  BY AboveArchiveKey
<1>2. \A q \in DOMAIN t : q[1] = "storages" /\ Len(q) \in {1, 2}
        => q \in DOMAIN u /\ u[q] = t[q]
  <2> SUFFICES ASSUME NEW q \in DOMAIN t,
                      q[1] = "storages", Len(q) \in {1, 2}
               PROVE  q \in DOMAIN u /\ u[q] = t[q]
    OBVIOUS
  <2>1. ~IsPrefix(p, q) /\ q # p
    BY DEF IsPrefix
  <2>2. q # <<"archive">>
    OBVIOUS
  <2> QED
    BY <1>1, <2>1, <2>2 DEF SetPath, Under
<1>3. <<"archive">> \in DOMAIN u
  BY <1>1 DEF SetPath
<1>4. HasChild(u, "storages")
  <2>1. IsMap(t, <<"storages">>)
        /\ \E q \in DOMAIN t : Len(q) = 2 /\ q[1] = "storages"
    BY DEF ValidModel, HasChild
  <2>2. <<"storages">>[1] = "storages" /\ Len(<<"storages">>) = 1
    OBVIOUS
  <2> HIDE DEF u
  <2> QED
    BY <1>2, <2>1, <2>2 DEF HasChild, IsMap
<1>5. ValidModel(u)
  BY <1>3, <1>4 DEF ValidModel
<1> QED
  BY <1>5 DEF WithStrings

(* sqliteMountsForModel touches nothing but keys of databases.             *)
LEMMA MovePathsKeepsValid ==
  ASSUME NEW t, ValidModel(t), NEW u, DOMAIN u = DOMAIN t,
         \A p \in DOMAIN t : Len(p) # 3 => u[p] = t[p]
  PROVE  ValidModel(u)
<1>1. \A key : Len(<<key>>) = 1
  OBVIOUS
<1> QED
  BY <1>1 DEF ValidModel, HasChild, IsMap

LEMMA ValidatedInit == Init => Validated
BY DEF Init, Validated

LEMMA ValidatedNext == Validated /\ [Next]_vars => Validated'
<1> SUFFICES ASSUME Validated, [Next]_vars PROVE Validated'
  OBVIOUS
<1>1. ASSUME UNCHANGED models PROVE Validated'
  BY <1>1 DEF Validated
<1>2. CASE BuildModel
  <2>1. CASE UNCHANGED models
    BY <1>1, <2>1
  <2>2. ASSUME NEW name, NEW tree, ValidModel(tree),
               models' = Put(models, name, tree)
        PROVE  Validated'
    BY <2>2 DEF Validated, Put
  <2> QED
    BY <1>2, <2>1, <2>2 DEF BuildModel
<1>3. CASE ApplyArchiveVolumes
  <2> DEFINE own(m) == {v \in ToSet(volumes) : v.model = m}
             first(m) == CHOOSE v \in own(m) : TRUE
  <2>1. models' = [m \in DOMAIN models |->
          IF own(m) = {} THEN models[m]
          ELSE WithStrings(WithStrings(models[m], Includes, first(m).includes),
                           Excludes, first(m).excludes)]
    BY <1>3 DEF ApplyArchiveVolumes
  <2>2. ASSUME NEW t, ValidModel(t), NEW a, NEW b
        PROVE  ValidModel(WithStrings(WithStrings(t, Includes, a), Excludes, b))
    BY <2>2, SetArchiveKeepsValid DEF Includes, Excludes
  <2> HIDE DEF own, first
  <2> QED
    BY <2>1, <2>2 DEF Validated
<1>4. ASSUME NEW m \in left, NEW ok \in BOOLEAN, DiscoverSqlite(m, ok)
      PROVE  Validated'
  <2>1. CASE UNCHANGED models
    BY <1>1, <2>1
  <2>2. ASSUME NEW u, models' = [models EXCEPT ![m] = u],
               DOMAIN u = DOMAIN models[m],
               \A p \in DOMAIN models[m] : Len(p) # 3 => u[p] = models[m][p]
        PROVE  Validated'
    BY <2>2, MovePathsKeepsValid DEF Validated
  <2> DEFINE t == models[m]
             path(db) == t[DbPath(db)].val[1]
             found == {db \in SqliteDbs(t) : IsMounted(Dests(m), path(db))}
             u == [p \in DOMAIN t |->
                     IF \E db \in found : p = DbPath(db)
                     THEN Text(Transformed(m, path(p[2]))) ELSE t[p]]
  <2>3. UNCHANGED models \/ models' = [models EXCEPT ![m] = u]
    BY <1>4 DEF DiscoverSqlite
  <2>4. \A db : Len(DbPath(db)) = 3
    BY DEF DbPath
  <2>5. DOMAIN u = DOMAIN t /\ \A p \in DOMAIN t : Len(p) # 3 => u[p] = t[p]
    <3> HIDE DEF path, found
    <3> QED
      BY <2>4
  <2> HIDE DEF u
  <2> QED
    BY <2>1, <2>2, <2>3, <2>5
<1>5. CASE NextPass
  BY <1>5 DEF NextPass, Validated
<1>6. CASE UNCHANGED models
  BY <1>1, <1>6
<1> QED
  BY <1>2, <1>3, <1>4, <1>5, <1>6
     DEF Next, vars, ReadMeta, ReadCredRef, ReadSetting, Reading, EndContainer,
         LoadProfiles, StartDiscovery, DiscoverArchive, DedupMounts,
         WriteConfig, ResolveCred, EndPass, buildVars
-----------------------------------------------------------------------------
(* Paths, and the mounts above them.                                       *)

(* What is left of a path without the slashes at its end.                  *)
IsTrimmed(t, x) ==
  /\ t \in Seq(Token) /\ Len(t) <= Len(x)
  /\ \A i \in 1..Len(t) : t[i] = x[i]
  /\ \A i \in (Len(t) + 1)..Len(x) : x[i] = "/"
  /\ Len(t) > 0 => t[Len(t)] # "/"

LEMMA TrimIs ==
  ASSUME NEW x \in Seq(Token)
  PROVE  IsTrimmed(Trim(x), x)
<1> DEFINE T == {0} \cup {i \in DOMAIN x : x[i] # "/"}
           k == Max(T)
<1>1. DOMAIN x = 1..Len(x) /\ Len(x) \in Nat
  OBVIOUS
<1>2. T \subseteq Nat /\ T # {} /\ \A i \in T : i <= Len(x)
  BY <1>1
<1>3. k \in T /\ \A i \in T : i <= k
  <2> HIDE DEF T
  <2> QED
    BY <1>1, <1>2, MaxOfBounded
<1> HIDE DEF k
<1>4. k \in 0..Len(x) /\ (k > 0 => x[k] # "/")
      /\ \A i \in (k + 1)..Len(x) : x[i] = "/"
  BY <1>1, <1>3
<1>5. Trim(x) = SubSeq(x, 1, k)
  BY DEF Trim, k
<1> HIDE DEF T
<1>6. /\ SubSeq(x, 1, k) \in Seq(Token) /\ Len(SubSeq(x, 1, k)) = k
      /\ \A i \in 1..k : SubSeq(x, 1, k)[i] = x[i]
  BY <1>4
<1>7. k > 0 => k \in 1..k
  BY <1>4
<1> QED
  BY <1>4, <1>5, <1>6, <1>7 DEF IsTrimmed

LEMMA TrimmedOnce ==
  ASSUME NEW x \in Seq(Token), NEW s, NEW t, IsTrimmed(s, x), IsTrimmed(t, x)
  PROVE  s = t
<1>1. Len(s) \in Nat /\ Len(t) \in Nat /\ Len(x) \in Nat
  BY DEF IsTrimmed
<1>2. ~(Len(s) < Len(t))
  <2> SUFFICES ASSUME Len(s) < Len(t) PROVE FALSE
    OBVIOUS
  <2>1. Len(t) \in (Len(s) + 1)..Len(x) /\ Len(t) \in 1..Len(t)
    BY <1>1 DEF IsTrimmed
  <2> QED
    BY <1>1, <2>1 DEF IsTrimmed
<1>3. ~(Len(t) < Len(s))
  <2> SUFFICES ASSUME Len(t) < Len(s) PROVE FALSE
    OBVIOUS
  <2>1. Len(s) \in (Len(t) + 1)..Len(x) /\ Len(s) \in 1..Len(s)
    BY <1>1 DEF IsTrimmed
  <2> QED
    BY <1>1, <2>1 DEF IsTrimmed
<1>4. Len(s) = Len(t)
  BY <1>1, <1>2, <1>3
<1>5. \A i \in 1..Len(s) : s[i] = t[i]
  BY <1>4 DEF IsTrimmed
<1> QED
  BY <1>4, <1>5, SeqEqual DEF IsTrimmed

LEMMA TrimTwice ==
  ASSUME NEW x \in Seq(Token)
  PROVE  Trim(x) \in Seq(Token) /\ Trim(Trim(x)) = Trim(x)
<1>1. IsTrimmed(Trim(x), x)
  BY TrimIs
<1>2. IsTrimmed(Trim(x), Trim(x))
  BY <1>1 DEF IsTrimmed
<1> QED
  BY <1>1, <1>2, TrimIs, TrimmedOnce DEF IsTrimmed

(* A path that ends in something else is itself.                           *)
LEMMA TrimmedAlready ==
  ASSUME NEW x \in Seq(Token), Len(x) > 0, x[Len(x)] # "/"
  PROVE  Trim(x) = x
<1>1. IsTrimmed(x, x)
  BY DEF IsTrimmed
<1> QED
  BY <1>1, TrimIs, TrimmedOnce

(* A path below a model's place in the engine, token by token.             *)
InPlace(y, n, m, x) ==
  /\ n \in Nat /\ n = 3 + Len(m) /\ Len(m) \in Nat /\ Len(x) \in Nat
  /\ y \in Seq(Token) /\ Len(y) = n + Len(x)
  /\ y[1] = "/" /\ y[2] = "volumes" /\ y[3] = "/"
  /\ \A i \in 1..Len(m) : y[3 + i] = m[i]
  /\ \A i \in 1..Len(x) : y[n + i] = x[i]

LEMMA TransformedKeys ==
  ASSUME NEW m \in Seq(Token), NEW x \in Seq(Token)
  PROVE  InPlace(Transformed(m, x), 3 + Len(m), m, x)
<1> DEFINE y == Transformed(m, x)
           r == VolumesRoot
           z == r \o m
<1>1. /\ r \in Seq(Token) /\ Len(r) = 3
      /\ r[1] = "/" /\ r[2] = "volumes" /\ r[3] = "/"
  <2>1. "/" \in Token /\ "volumes" \in Token
    BY Zenon DEF Token
  <2>2. \A a, b, c \in Token : /\ <<a, b, c>> \in Seq(Token)
                               /\ Len(<<a, b, c>>) = 3
    OBVIOUS
  <2>3. r \in Seq(Token) /\ Len(r) = 3
    BY <2>1, <2>2, Zenon DEF VolumesRoot
  <2> QED
    BY <2>3 DEF VolumesRoot
<1>0. y = z \o x
  BY DEF Transformed
<1> HIDE DEF y, r
<1>2. /\ z \in Seq(Token) /\ Len(z) = 3 + Len(m)
      /\ \A i \in 1..3 : z[i] = r[i]
      /\ \A i \in 1..Len(m) : z[3 + i] = m[i]
  <2>1. r \in Seq(Token)
    BY <1>1
  <2>2. z = r \o m
    OBVIOUS
  <2> HIDE DEF z
  <2>3. /\ z \in Seq(Token) /\ Len(z) = Len(r) + Len(m)
        /\ \A i \in 1..Len(r) : z[i] = r[i]
        /\ \A i \in 1..Len(m) : z[Len(r) + i] = m[i]
    BY <2>1, <2>2, Concatenated
  <2> QED
    BY <1>1, <2>3
<1> HIDE DEF z
<1>3. z \in Seq(Token)
  BY <1>2
<1>4. /\ y \in Seq(Token) /\ Len(y) = Len(z) + Len(x)
      /\ \A i \in 1..Len(z) : y[i] = z[i]
      /\ \A i \in 1..Len(x) : y[Len(z) + i] = x[i]
  BY <1>0, <1>3, Concatenated
<1>5. /\ 1 \in 1..3 /\ 2 \in 1..3 /\ 3 \in 1..3
      /\ 1 \in 1..Len(z) /\ 2 \in 1..Len(z) /\ 3 \in 1..Len(z)
      /\ \A i \in 1..Len(m) : 3 + i \in 1..Len(z)
  BY <1>2
<1>6. y[1] = r[1] /\ y[2] = r[2] /\ y[3] = r[3]
  BY <1>2, <1>4, <1>5
<1>7. \A i \in 1..Len(m) : y[3 + i] = m[i]
  BY <1>2, <1>4, <1>5
<1>8. \A i \in 1..Len(x) : y[3 + Len(m) + i] = x[i]
  BY <1>2, <1>4
<1>9. Len(m) \in Nat /\ Len(x) \in Nat
  OBVIOUS
<1> QED
  BY <1>1, <1>2, <1>4, <1>6, <1>7, <1>8, <1>9 DEF InPlace, y

(* Slashes at the end of a path stay there.                                *)
LEMMA TrimTransformed ==
  ASSUME NEW m \in Seq(Token), NEW x \in Seq(Token), Trim(x) # <<>>
  PROVE  Trim(Transformed(m, x)) = Transformed(m, Trim(x))
<1> DEFINE t == Trim(x)
           y == Transformed(m, x)
           z == Transformed(m, t)
           n == 3 + Len(m)
<1>1. IsTrimmed(t, x) /\ t \in Seq(Token) /\ t # <<>>
  BY TrimIs DEF IsTrimmed
<1>0. y = Transformed(m, x) /\ z = Transformed(m, t)
  OBVIOUS
<1> HIDE DEF t, y, z
<1> HIDE DEF n
<1>2. InPlace(y, n, m, x)
  BY <1>0, TransformedKeys DEF n
<1>3. InPlace(z, n, m, t)
  BY <1>0, <1>1, TransformedKeys DEF n
<1>4. n \in Nat /\ Len(m) \in Nat /\ Len(t) \in Nat /\ Len(x) \in Nat
      /\ Len(t) > 0 /\ Len(t) <= Len(x) /\ n = 3 + Len(m)
  BY <1>1 DEF IsTrimmed, n
<1>5. \A i \in 1..Len(z) : z[i] = y[i]
  <2> TAKE i \in 1..Len(z)
  <2>1. CASE i \in 1..3
    BY <1>2, <1>3, <2>1 DEF InPlace
  <2>2. CASE i \in 4..n
    <3>1. i - 3 \in 1..Len(m) /\ 3 + (i - 3) = i
      BY <1>4, <2>2
    <3> QED
      BY <1>2, <1>3, <3>1 DEF InPlace
  <2>3. CASE i \in (n + 1)..Len(z)
    <3>1. i - n \in 1..Len(t) /\ i - n \in 1..Len(x) /\ n + (i - n) = i
      BY <1>3, <1>4, <2>3 DEF InPlace
    <3>2. t[i - n] = x[i - n]
      BY <1>1, <3>1 DEF IsTrimmed
    <3> QED
      BY <1>2, <1>3, <3>1, <3>2 DEF InPlace
  <2> QED
    BY <1>3, <1>4, <2>1, <2>2, <2>3 DEF InPlace
<1>6. \A i \in (Len(z) + 1)..Len(y) : y[i] = "/"
  <2> TAKE i \in (Len(z) + 1)..Len(y)
  <2>1. /\ i - n \in (Len(t) + 1)..Len(x) /\ i - n \in 1..Len(x)
        /\ n + (i - n) = i
    BY <1>2, <1>3, <1>4 DEF InPlace
  <2>2. x[i - n] = "/"
    BY <1>1, <2>1 DEF IsTrimmed
  <2> QED
    BY <1>2, <2>1, <2>2 DEF InPlace
<1>7. z[Len(z)] # "/"
  <2>1. Len(t) \in 1..Len(t) /\ t[Len(t)] # "/"
    BY <1>1, <1>4 DEF IsTrimmed
  <2>2. z[n + Len(t)] = t[Len(t)]
    BY <1>3, <2>1 DEF InPlace
  <2> QED
    BY <1>3, <2>1, <2>2 DEF InPlace
<1>8. IsTrimmed(z, y)
  BY <1>2, <1>3, <1>4, <1>5, <1>6, <1>7 DEF IsTrimmed, InPlace
<1> QED
  BY <1>2, <1>8, TrimIs, TrimmedOnce DEF InPlace, y, z, t

(* A destination is above a path, both without slashes at their end.       *)
IsAbove(d, t) ==
  /\ Len(d) <= Len(t) /\ \A i \in 1..Len(d) : t[i] = d[i]
  /\ Len(d) < Len(t) => t[Len(d) + 1] = "/"

LEMMA AboveBySlash ==
  ASSUME NEW d \in Seq(Token), NEW t \in Seq(Token)
  PROVE  IsPrefix(d \o <<"/">>, t \o <<"/">>) <=> IsAbove(d, t)
<1> DEFINE e == d \o <<"/">>
           u == t \o <<"/">>
<1>1. "/" \in Token /\ <<"/">> \in Seq(Token)
  <2>1. "/" \in Token
    BY Zenon DEF Token
  <2> QED
    BY <2>1
<1>2. /\ e \in Seq(Token) /\ Len(e) = Len(d) + 1
      /\ \A i \in 1..Len(d) : e[i] = d[i]
      /\ e[Len(d) + 1] = "/"
  BY <1>1
<1>3. /\ u \in Seq(Token) /\ Len(u) = Len(t) + 1
      /\ \A i \in 1..Len(t) : u[i] = t[i]
      /\ u[Len(t) + 1] = "/"
  BY <1>1
<1>4. Len(d) \in Nat /\ Len(t) \in Nat
  OBVIOUS
<1> HIDE DEF e, u
<1>5. IsPrefix(e, u) <=> Len(e) <= Len(u) /\ \A i \in 1..Len(e) : e[i] = u[i]
  BY <1>2, <1>3, PrefixByKeys
<1>6. ASSUME Len(e) <= Len(u), \A i \in 1..Len(e) : e[i] = u[i]
      PROVE  IsAbove(d, t)
  <2>1. Len(d) <= Len(t) /\ Len(d) + 1 \in 1..Len(e)
    BY <1>2, <1>3, <1>4, <1>6
  <2>2. \A i \in 1..Len(d) : i \in 1..Len(e) /\ i \in 1..Len(t)
    BY <1>2, <1>4, <2>1
  <2>3. \A i \in 1..Len(d) : t[i] = d[i]
    BY <1>2, <1>3, <1>6, <2>2
  <2>4. Len(d) < Len(t) => Len(d) + 1 \in 1..Len(t)
    BY <1>4
  <2>5. Len(d) < Len(t) => t[Len(d) + 1] = "/"
    BY <1>2, <1>3, <1>6, <2>1, <2>4
  <2> QED
    BY <2>1, <2>3, <2>5 DEF IsAbove
<1>7. ASSUME IsAbove(d, t)
      PROVE  Len(e) <= Len(u) /\ \A i \in 1..Len(e) : e[i] = u[i]
  <2>1. Len(e) <= Len(u)
    BY <1>2, <1>3, <1>4, <1>7 DEF IsAbove
  <2>2. \A i \in 1..Len(e) : i \in 1..Len(d) \/ i = Len(d) + 1
    BY <1>2, <1>4
  <2>3. \A i \in 1..Len(d) : e[i] = u[i]
    <3>1. \A i \in 1..Len(d) : i \in 1..Len(t) /\ t[i] = d[i]
      BY <1>4, <1>7 DEF IsAbove
    <3> QED
      BY <1>2, <1>3, <3>1
  <2>4. u[Len(d) + 1] = "/"
    <3>1. CASE Len(d) < Len(t)
      <4>1. Len(d) + 1 \in 1..Len(t) /\ t[Len(d) + 1] = "/"
        BY <1>4, <1>7, <3>1 DEF IsAbove
      <4> QED
        BY <1>3, <4>1
    <3>2. CASE Len(d) = Len(t)
      BY <1>3, <3>2
    <3> QED
      BY <1>4, <1>7, <3>1, <3>2 DEF IsAbove
  <2> QED
    BY <1>2, <2>1, <2>2, <2>3, <2>4
<1> QED
  BY <1>5, <1>6, <1>7 DEF e, u

(* In the engine a destination is above a path as it is in the client,     *)
(* and those of another model are not, if names have no slash in them.     *)
NoSlash(n) == n \in Seq(Token) /\ "/" \notin ToSet(n)
Absolute(d) == d \in Seq(Token) /\ Len(d) > 0 /\ d[1] = "/"

LEMMA PlacesAgree ==
  ASSUME NEW n, NoSlash(n), NEW m, NoSlash(m), NEW d, Absolute(d),
         NEW t, Absolute(t), NEW y, NEW z, NEW k, NEW l,
         InPlace(y, k, n, d), InPlace(z, l, m, t), IsAbove(y, z)
  PROVE  n = m
<1>1. /\ \A i \in 1..Len(n) : n[i] # "/"
      /\ \A i \in 1..Len(m) : m[i] # "/"
  BY DEF NoSlash, ToSet
<1>2. /\ k = 3 + Len(n) /\ l = 3 + Len(m) /\ Len(n) \in Nat /\ Len(m) \in Nat
      /\ Len(y) <= Len(z) /\ Len(y) = k + Len(d) /\ Len(z) = l + Len(t)
      /\ Len(d) \in Nat /\ Len(t) \in Nat /\ Len(d) > 0 /\ Len(t) > 0
      /\ \A i \in 1..Len(y) : z[i] = y[i]
  BY DEF InPlace, IsAbove, Absolute
<1>8. y[k + 1] = "/" /\ z[l + 1] = "/"
  <2>1. 1 \in 1..Len(d) /\ 1 \in 1..Len(t)
    BY <1>2
  <2>2. y[k + 1] = d[1] /\ z[l + 1] = t[1]
    BY <2>1 DEF InPlace
  <2> QED
    BY <2>2 DEF Absolute
<1>3. ~(Len(n) < Len(m))
  <2> SUFFICES ASSUME Len(n) < Len(m) PROVE FALSE
    OBVIOUS
  <2>1. k + 1 \in 1..Len(y) /\ Len(n) + 1 \in 1..Len(m)
        /\ k + 1 = 3 + (Len(n) + 1)
    BY <1>2
  <2>2. z[3 + (Len(n) + 1)] = m[Len(n) + 1]
    BY <2>1 DEF InPlace
  <2>3. z[k + 1] = "/"
    BY <1>2, <1>8, <2>1
  <2> QED
    BY <1>1, <2>1, <2>2, <2>3
<1>4. ~(Len(m) < Len(n))
  <2> SUFFICES ASSUME Len(m) < Len(n) PROVE FALSE
    OBVIOUS
  <2>1. l + 1 \in 1..Len(y) /\ Len(m) + 1 \in 1..Len(n)
        /\ l + 1 = 3 + (Len(m) + 1)
    BY <1>2
  <2>2. y[3 + (Len(m) + 1)] = n[Len(m) + 1]
    BY <2>1 DEF InPlace
  <2>3. y[l + 1] = "/"
    BY <1>2, <1>8, <2>1
  <2> QED
    BY <1>1, <2>1, <2>2, <2>3
<1>5. Len(n) = Len(m)
  BY <1>2, <1>3, <1>4
<1>6. \A i \in 1..Len(n) : n[i] = m[i]
  <2> TAKE i \in 1..Len(n)
  <2>1. i \in 1..Len(m) /\ 3 + i \in 1..Len(y)
    BY <1>2, <1>5
  <2>2. y[3 + i] = n[i] /\ z[3 + i] = m[i]
    BY <2>1 DEF InPlace
  <2> QED
    BY <1>2, <2>1, <2>2
<1>7. n \in Seq(Token) /\ m \in Seq(Token)
  BY DEF NoSlash
<1> QED
  BY <1>5, <1>6, <1>7, SeqEqual

LEMMA AboveInPlace ==
  ASSUME NEW m, NEW d \in Seq(Token), NEW t \in Seq(Token),
         NEW y, NEW z, NEW k, InPlace(y, k, m, d), InPlace(z, k, m, t)
  PROVE  IsAbove(y, z) <=> IsAbove(d, t)
<1>1. /\ k \in Nat /\ k = 3 + Len(m) /\ Len(m) \in Nat
      /\ Len(d) \in Nat /\ Len(t) \in Nat
      /\ Len(y) = k + Len(d) /\ Len(z) = k + Len(t)
      /\ \A i \in 1..Len(d) : y[k + i] = d[i]
      /\ \A i \in 1..Len(t) : z[k + i] = t[i]
  BY DEF InPlace
<1>2. \A i \in 1..k : y[i] = z[i]
  <2> TAKE i \in 1..k
  <2>1. CASE i \in 1..3
    <3>1. i = 1 \/ i = 2 \/ i = 3
      BY <2>1
    <3> QED
      BY <3>1 DEF InPlace
  <2>2. CASE i \notin 1..3
    <3>1. i - 3 \in 1..Len(m) /\ 3 + (i - 3) = i
      BY <1>1, <2>2
    <3>2. y[3 + (i - 3)] = m[i - 3] /\ z[3 + (i - 3)] = m[i - 3]
      BY <3>1 DEF InPlace
    <3> QED
      BY <3>1, <3>2
  <2> QED
    BY <2>1, <2>2
<1>3. ASSUME IsAbove(y, z) PROVE IsAbove(d, t)
  <2>1. Len(d) <= Len(t)
    BY <1>1, <1>3 DEF IsAbove
  <2>2. \A i \in 1..Len(d) : t[i] = d[i]
    <3> TAKE i \in 1..Len(d)
    <3>1. k + i \in 1..Len(y) /\ i \in 1..Len(t)
      BY <1>1, <2>1
    <3> QED
      BY <1>1, <1>3, <3>1 DEF IsAbove
  <2>3. ASSUME Len(d) < Len(t) PROVE t[Len(d) + 1] = "/"
    <3>1. Len(y) < Len(z) /\ Len(y) + 1 = k + (Len(d) + 1)
          /\ Len(d) + 1 \in 1..Len(t)
      BY <1>1, <2>3
    <3>2. z[Len(y) + 1] = "/"
      BY <1>3, <3>1 DEF IsAbove
    <3> QED
      BY <1>1, <3>1, <3>2
  <2> QED
    BY <2>1, <2>2, <2>3 DEF IsAbove
<1>4. ASSUME IsAbove(d, t) PROVE IsAbove(y, z)
  <2>1. Len(y) <= Len(z) /\ Len(d) <= Len(t)
    BY <1>1, <1>4 DEF IsAbove
  <2>2. \A i \in 1..Len(y) : z[i] = y[i]
    <3> TAKE i \in 1..Len(y)
    <3>1. CASE i \in 1..k
      BY <1>2, <3>1
    <3>2. CASE i \notin 1..k
      <4>1. i - k \in 1..Len(d) /\ i - k \in 1..Len(t) /\ k + (i - k) = i
        BY <1>1, <2>1, <3>2
      <4>2. t[i - k] = d[i - k]
        BY <1>4, <4>1 DEF IsAbove
      <4>3. y[k + (i - k)] = d[i - k] /\ z[k + (i - k)] = t[i - k]
        BY <1>1, <4>1
      <4> QED
        BY <4>1, <4>2, <4>3
    <3> QED
      BY <3>1, <3>2
  <2>3. ASSUME Len(y) < Len(z) PROVE z[Len(y) + 1] = "/"
    <3>1. Len(d) < Len(t) /\ Len(y) + 1 = k + (Len(d) + 1)
          /\ Len(d) + 1 \in 1..Len(t)
      BY <1>1, <2>3
    <3>2. t[Len(d) + 1] = "/"
      BY <1>4, <3>1 DEF IsAbove
    <3> QED
      BY <1>1, <3>1, <3>2
  <2> QED
    BY <2>1, <2>2, <2>3 DEF IsAbove
<1> QED
  BY <1>3, <1>4

(* Of two destinations above a path, equally long, there is but one.       *)
LEMMA AboveOnce ==
  ASSUME NEW d \in Seq(Token), NEW e \in Seq(Token), NEW t,
         IsAbove(d, t), IsAbove(e, t), Len(d) = Len(e)
  PROVE  d = e
<1>1. \A i \in 1..Len(d) : d[i] = e[i]
  BY DEF IsAbove
<1> QED
  BY <1>1, SeqEqual

(* The destinations of mounts: without slashes at their end, not "/".      *)
AreDests(D) ==
  \A dst \in D : dst \in Seq(Token) /\ dst # <<>> /\ dst[1] = "/"
                  /\ Trim(dst) = dst

(* findMountForPath gives the longest destination above a path, if any.    *)
IsLongest(f, D, t) ==
  f \in D /\ IsAbove(f, t)
  /\ \A d \in D : IsAbove(d, t) => /\ Len(d) <= Len(f)
                                   /\ Len(d) = Len(f) => d = f

LEMMA LongestExists ==
  ASSUME NEW D, AreDests(D), NEW t \in Seq(Token),
         NEW d0 \in D, IsAbove(d0, t)
  PROVE  \E f : IsLongest(f, D, t)
<1> DEFINE S == {n \in Nat : \E d \in D : IsAbove(d, t) /\ Len(d) = n}
<1>1. \A d \in D : d \in Seq(Token) /\ Len(d) \in Nat
  BY DEF AreDests
<1>2. S \subseteq Nat /\ Len(d0) \in S /\ \A n \in S : n <= Len(t)
  BY <1>1 DEF IsAbove
<1>3. Max(S) \in S /\ \A n \in S : n <= Max(S)
  <2>1. Len(t) \in Nat /\ S # {}
    BY <1>2
  <2> HIDE DEF S
  <2> QED
    BY <1>2, <2>1, MaxOfBounded
<1>4. PICK f \in D : IsAbove(f, t) /\ Len(f) = Max(S)
  BY <1>3
<1>5. \A d \in D : IsAbove(d, t) => Len(d) <= Len(f)
  BY <1>1, <1>3, <1>4
<1>6. \A d \in D : IsAbove(d, t) /\ Len(d) = Len(f) => d = f
  BY <1>1, <1>4, AboveOnce
<1> QED
  BY <1>4, <1>5, <1>6 DEF IsLongest

LEMMA MountIsLongest ==
  ASSUME NEW D, AreDests(DOMAIN D), NEW path \in Seq(Token)
  PROVE  LET f == FindMountForPath(path, D)
         IN \/ IsMounted(D, path) /\ IsLongest(f, DOMAIN D, Trim(path))
            \/ /\ ~IsMounted(D, path)
               /\ \A d \in DOMAIN D : ~IsAbove(d, Trim(path))
<1> DEFINE t == Trim(path)
           f == FindMountForPath(path, D)
           over == {dst \in DOMAIN D \ {<<>>} :
                      IsPrefix(dst \o <<"/">>, t \o <<"/">>)}
           longest == CHOOSE dst \in over : \A d \in over : Len(d) <= Len(dst)
<1>1. t \in Seq(Token)
  BY TrimTwice
<1>2. f = IF t \in DOMAIN D THEN t ELSE IF over = {} THEN NoMount ELSE longest
  BY DEF FindMountForPath
<1>3. NoMount \notin DOMAIN D
  <2>1. NoMount[1] # "/"
    BY DEF NoMount
  <2> QED
    BY <2>1 DEF AreDests
<1>4. over = {d \in DOMAIN D : IsAbove(d, t)}
  <2>1. \A d \in DOMAIN D : d \in Seq(Token) /\ d # <<>>
    BY DEF AreDests
  <2>2. \A d \in DOMAIN D : IsPrefix(d \o <<"/">>, t \o <<"/">>) <=> IsAbove(d, t)
    BY <1>1, <2>1, AboveBySlash
  <2> QED
    BY <2>1, <2>2
<1> HIDE DEF t, over, longest, f
<1>5. \A d \in DOMAIN D : d \in Seq(Token) /\ Len(d) \in Nat
  BY DEF AreDests
<1>6. CASE over = {}
  <2>1. IsAbove(t, t)
    BY <1>1 DEF IsAbove
  <2>2. t \notin DOMAIN D
    BY <1>4, <1>6, <2>1
  <2> QED
    BY <1>2, <1>4, <1>6, <2>2 DEF IsMounted, t, f
<1>7. CASE over # {}
  <2>1. PICK d0 \in DOMAIN D : IsAbove(d0, t)
    BY <1>4, <1>7
  <2>2. PICK g : IsLongest(g, DOMAIN D, t)
    BY <1>1, <2>1, LongestExists
  <2>3. CASE t \in DOMAIN D
    <3>1. f = t /\ IsAbove(t, t) /\ f \in DOMAIN D
      BY <1>1, <1>2, <2>3 DEF IsAbove
    <3>2. \A d \in DOMAIN D : IsAbove(d, t) => Len(d) <= Len(t)
      BY DEF IsAbove
    <3>3. \A d \in DOMAIN D : IsAbove(d, t) /\ Len(d) = Len(t) => d = t
      BY <1>1, <1>5, <3>1, AboveOnce
    <3>4. IsLongest(f, DOMAIN D, t)
      BY <3>1, <3>2, <3>3 DEF IsLongest
    <3> QED
      BY <1>3, <3>1, <3>4 DEF IsMounted, f, t
  <2>4. CASE t \notin DOMAIN D
    <3>1. f = longest
      BY <1>2, <1>7, <2>4
    <3>2. g \in over /\ \A d \in over : Len(d) <= Len(g)
      BY <1>4, <2>2 DEF IsLongest
    <3>3. longest \in over /\ \A d \in over : Len(d) <= Len(longest)
      BY <3>2 DEF longest
    <3>4. Len(longest) <= Len(g) /\ Len(g) <= Len(longest)
      BY <3>2, <3>3
    <3>5. longest = g
      BY <1>4, <1>5, <2>2, <3>3, <3>4 DEF IsLongest
    <3> QED
      BY <1>3, <2>2, <3>1, <3>5 DEF IsMounted, IsLongest, f, t
  <2> QED
    BY <2>3, <2>4
<1> QED
  BY <1>6, <1>7

(* What a path names is seen by the longest mount point above it.          *)
Below(path, d) == SubSeq(Trim(path), Len(Trim(d)) + 1, Len(Trim(path)))
LEMMA FileByTop ==
  ASSUME NEW S, NEW path \in Seq(Token), NEW f \in S,
         \A e \in S : Covers(e.at, path) => Trim(e.at) \in Seq(Token),
         Covers(f.at, path),
         \A e \in S : Covers(e.at, path) =>
           /\ Len(Trim(e.at)) <= Len(Trim(f.at))
           /\ Len(Trim(e.at)) = Len(Trim(f.at)) =>
                Trim(e.at) = Trim(f.at) /\ e.source = f.source
  PROVE  FileAt(S, path) = <<f.source, Below(path, f.at)>>
<1> DEFINE over == {d \in S : Covers(d.at, path)}
           top == CHOOSE d \in over :
                    \A e \in over : Len(Trim(e.at)) <= Len(Trim(d.at))
<1>1. f \in over /\ \A e \in over : Len(Trim(e.at)) <= Len(Trim(f.at))
  OBVIOUS
<1>2. top \in over /\ \A e \in over : Len(Trim(e.at)) <= Len(Trim(top.at))
  <2> HIDE DEF over
  <2> QED
    BY <1>1
<1>3. FileAt(S, path) = <<top.source, Below(path, top.at)>>
  <2>1. over # {}
    BY <1>1
  <2>2. FileAt(S, path) = IF over = {} THEN NotMounted
                          ELSE <<top.source, Below(path, top.at)>>
    BY DEF FileAt, Below
  <2> QED
    BY <2>1, <2>2
<1>4. top \in S /\ Covers(top.at, path)
  BY <1>2
<1>5. Len(Trim(top.at)) <= Len(Trim(f.at)) /\ Len(Trim(f.at)) <= Len(Trim(top.at))
  BY <1>1, <1>2
<1> HIDE DEF top, over
<1>6. Len(Trim(top.at)) = Len(Trim(f.at))
  <2>1. Len(Trim(top.at)) \in Nat /\ Len(Trim(f.at)) \in Nat
    BY <1>4
  <2> QED
    BY <1>5, <2>1
<1>7. Trim(top.at) = Trim(f.at) /\ top.source = f.source
  BY <1>4, <1>6
<1> QED
  BY <1>3, <1>7 DEF Below

(* What a container shows of its mounts.                                   *)
AreMounts(mnt) ==
  \A d, e \in DOMAIN mnt :
    /\ d \in Seq(Token) /\ d[1] = "/" /\ Trim(d) # <<>>
    /\ Trim(d) = Trim(e) => d = e

LEMMA DestsOfMounts ==
  ASSUME NEW mnt, AreMounts(mnt)
  PROVE  /\ AreDests(DOMAIN DestMap(mnt))
         /\ DOMAIN DestMap(mnt) = {Trim(d) : d \in DOMAIN mnt}
         /\ \A d \in DOMAIN mnt : DestMap(mnt)[Trim(d)] = mnt[d]
<1>1. DOMAIN DestMap(mnt) = {Trim(d) : d \in DOMAIN mnt}
  BY DEF DestMap
<1>2. ASSUME NEW d \in DOMAIN mnt
      PROVE  /\ Trim(d) \in Seq(Token) /\ Trim(d) # <<>> /\ Trim(d)[1] = "/"
             /\ Trim(Trim(d)) = Trim(d)
  <2>1. d \in Seq(Token) /\ d[1] = "/" /\ Trim(d) # <<>>
    BY DEF AreMounts
  <2>2. IsTrimmed(Trim(d), d)
    BY <2>1, TrimIs
  <2>3. 1 \in 1..Len(Trim(d))
    BY <2>1, <2>2 DEF IsTrimmed
  <2>4. Trim(d)[1] = d[1]
    BY <2>2, <2>3 DEF IsTrimmed
  <2> QED
    BY <2>1, <2>4, TrimTwice
<1>3. AreDests(DOMAIN DestMap(mnt))
  BY <1>1, <1>2 DEF AreDests
<1>4. ASSUME NEW d \in DOMAIN mnt PROVE DestMap(mnt)[Trim(d)] = mnt[d]
  <2> DEFINE own == CHOOSE e \in DOMAIN mnt : Trim(e) = Trim(d)
  <2>1. own \in DOMAIN mnt /\ Trim(own) = Trim(d)
    OBVIOUS
  <2>2. own = d
    BY <2>1 DEF AreMounts
  <2>3. DestMap(mnt)[Trim(d)] = mnt[own]
    BY DEF DestMap
  <2> QED
    BY <2>2, <2>3
<1> QED
  BY <1>1, <1>3, <1>4

LEMMA CoversIsAbove ==
  ASSUME NEW d \in Seq(Token), NEW path \in Seq(Token)
  PROVE  Covers(d, path) <=> IsAbove(Trim(d), Trim(path))
BY TrimTwice, AboveBySlash DEF Covers

FileOf(D, path) ==
  LET f == FindMountForPath(path, D)
  IN <<MountSource(D[f]), SubSeq(Trim(path), Len(f) + 1, Len(Trim(path)))>>

LEMMA FileInClient ==
  ASSUME NEW mnt, AreMounts(mnt), NEW path \in Seq(Token)
  PROVE  FileAt({[at |-> d, source |-> MountSource(mnt[d])] : d \in DOMAIN mnt},
                path)
           = IF IsMounted(DestMap(mnt), path) THEN FileOf(DestMap(mnt), path)
             ELSE NotMounted
<1> DEFINE D == DestMap(mnt)
           f == FindMountForPath(path, D)
           t == Trim(path)
           S == {[at |-> d, source |-> MountSource(mnt[d])] : d \in DOMAIN mnt}
<1>1. /\ AreDests(DOMAIN D) /\ DOMAIN D = {Trim(d) : d \in DOMAIN mnt}
      /\ \A d \in DOMAIN mnt : D[Trim(d)] = mnt[d]
  BY DestsOfMounts
<1>2. \/ IsMounted(D, path) /\ IsLongest(f, DOMAIN D, t)
      \/ ~IsMounted(D, path) /\ \A d \in DOMAIN D : ~IsAbove(d, t)
  BY <1>1, MountIsLongest
<1>3. \A d \in DOMAIN mnt : d \in Seq(Token)
  BY DEF AreMounts
<1>4. \A d \in DOMAIN mnt : Trim(d) \in Seq(Token)
                            /\ (Covers(d, path) <=> IsAbove(Trim(d), t))
  BY <1>3, CoversIsAbove, TrimTwice
<1>5. \A e \in S : \E d \in DOMAIN mnt :
        e.at = d /\ e.source = MountSource(D[Trim(d)])
  BY <1>1
<1>6. CASE ~IsMounted(D, path)
  <2>1. \A e \in S : ~Covers(e.at, path)
    BY <1>1, <1>2, <1>4, <1>5, <1>6
  <2>2. FileAt(S, path) = NotMounted
    BY <2>1 DEF FileAt
  <2> QED
    BY <1>6, <2>2
<1>7. CASE IsMounted(D, path)
  <2>1. IsLongest(f, DOMAIN D, t)
    BY <1>2, <1>7
  <2>2. PICK own \in DOMAIN mnt : f = Trim(own)
    BY <1>1, <2>1 DEF IsLongest
  <2> DEFINE top == [at |-> own, source |-> MountSource(mnt[own])]
  <2>3. /\ top \in S /\ top.at = own /\ Trim(top.at) = f
        /\ top.source = MountSource(D[f])
    BY <1>1, <2>2
  <2> HIDE DEF top, S, D, f, t
  <2>4. Covers(top.at, path)
    BY <1>4, <2>1, <2>2, <2>3 DEF IsLongest
  <2>5. \A e \in S : Covers(e.at, path) =>
          /\ Trim(e.at) \in Seq(Token)
          /\ Len(Trim(e.at)) <= Len(Trim(top.at))
          /\ Len(Trim(e.at)) = Len(Trim(top.at)) =>
               Trim(e.at) = Trim(top.at) /\ e.source = top.source
    <3> TAKE e \in S
    <3> HAVE Covers(e.at, path)
    <3>1. PICK d \in DOMAIN mnt :
            e.at = d /\ e.source = MountSource(D[Trim(d)])
      BY <1>5
    <3>2. Trim(d) \in DOMAIN D /\ IsAbove(Trim(d), t)
      BY <1>1, <1>4, <3>1
    <3> QED
      BY <1>4, <2>1, <2>3, <3>1, <3>2 DEF IsLongest
  <2>6. FileAt(S, path) = <<top.source, Below(path, top.at)>>
    BY <2>3, <2>4, <2>5, FileByTop
  <2>7. <<top.source, Below(path, top.at)>> = FileOf(D, path)
    BY <2>3 DEF FileOf, Below, f
  <2> QED
    BY <1>7, <2>6, <2>7 DEF S, D
<1> QED
  BY <1>6, <1>7

(* The place of a secret, token by token.                                  *)
LEMMA SecretKeys ==
  ASSUME NEW var \in Seq(Token)
  PROVE  LET y == SecretsRoot \o var
         IN /\ y \in Seq(Token) /\ Len(y) = 1 + Len(var)
            /\ y[1] = "/gobackup-secrets/"
            /\ \A i \in 1..Len(var) : y[1 + i] = var[i]
<1> DEFINE r == SecretsRoot
<1>1. r \in Seq(Token) /\ Len(r) = 1 /\ r[1] = "/gobackup-secrets/"
  <2>1. "/gobackup-secrets/" \in Token
    BY Zenon DEF Token
  <2> QED
    BY <2>1 DEF SecretsRoot
<1> HIDE DEF r
<1> DEFINE y == r \o var
<1>2. y = r \o var /\ r \in Seq(Token)
  BY <1>1
<1> HIDE DEF y
<1>3. /\ y \in Seq(Token) /\ Len(y) = Len(r) + Len(var)
      /\ \A i \in 1..Len(r) : y[i] = r[i]
      /\ \A i \in 1..Len(var) : y[Len(r) + i] = var[i]
  BY <1>2, Concatenated
<1>4. 1 \in 1..Len(r)
  BY <1>1
<1>5. /\ y \in Seq(Token) /\ Len(y) = 1 + Len(var)
      /\ y[1] = "/gobackup-secrets/"
      /\ \A i \in 1..Len(var) : y[1 + i] = var[i]
  BY <1>1, <1>3, <1>4
<1> QED
  BY <1>5 DEF y, r

(* Secrets are not above what was moved.                                   *)
LEMMA SecretsApart ==
  ASSUME NEW var \in Seq(Token), NEW m \in Seq(Token),
         NEW path \in Seq(Token)
  PROVE  ~Covers(SecretsRoot \o var, Transformed(m, path))
<1> DEFINE y == SecretsRoot \o var
           z == Transformed(m, path)
<1>1. y \in Seq(Token) /\ Len(y) > 0 /\ y[1] = "/gobackup-secrets/"
  <2>1. Len(var) \in Nat
    OBVIOUS
  <2> QED
    BY <2>1, SecretKeys
<1>2. z \in Seq(Token) /\ Len(z) > 0 /\ z[1] = "/" /\ z[2] = "volumes"
      /\ Len(z) >= 3
  <2>1. InPlace(z, 3 + Len(m), m, path)
    BY TransformedKeys
  <2> QED
    BY <2>1 DEF InPlace
<1> HIDE DEF y, z
<1>3. IsTrimmed(Trim(y), y) /\ IsTrimmed(Trim(z), z)
  BY <1>1, <1>2, TrimIs
<1>4. Len(Trim(y)) > 0 /\ Trim(y)[1] = "/gobackup-secrets/"
  <2>1. Len(Trim(y)) \in Nat /\ 1 \in 1..Len(y)
    BY <1>1, <1>3 DEF IsTrimmed
  <2>2. Len(Trim(y)) # 0
    BY <1>1, <1>3, <2>1 DEF IsTrimmed
  <2>3. Len(Trim(y)) > 0 /\ 1 \in 1..Len(Trim(y))
    BY <2>1, <2>2
  <2> QED
    BY <1>1, <1>3, <2>3 DEF IsTrimmed
<1>5. Len(Trim(z)) > 0 => Trim(z)[1] = "/"
  <2>1. Len(Trim(z)) > 0 => 1 \in 1..Len(Trim(z))
    BY <1>3 DEF IsTrimmed
  <2> QED
    BY <1>2, <1>3, <2>1 DEF IsTrimmed
<1>6. ~IsAbove(Trim(y), Trim(z))
  <2> SUFFICES ASSUME IsAbove(Trim(y), Trim(z)) PROVE FALSE
    OBVIOUS
  <2>1. 1 \in 1..Len(Trim(y)) /\ Len(Trim(z)) > 0
    BY <1>3, <1>4 DEF IsAbove, IsTrimmed
  <2> QED
    BY <1>4, <1>5, <2>1 DEF IsAbove
<1> QED
  BY <1>1, <1>2, <1>6, CoversIsAbove DEF y, z

(* A mount of the engine: a client's for a model, or a secret's.           *)
ForModel(e, m, D) ==
  \E n, d : /\ NoSlash(n) /\ Absolute(d) /\ Trim(d) = d
            /\ e.at = Transformed(n, d)
            /\ n = m => d \in DOMAIN D /\ e.source = MountSource(D[d])
ForSecret(e) ==
  \E var \in Seq(Token) : e.at = SecretsRoot \o var

LEMMA ModelMountCovers ==
  ASSUME NEW m, NoSlash(m), NEW D, AreDests(DOMAIN D),
         NEW path \in Seq(Token), Absolute(Trim(path)), NEW e,
         ForModel(e, m, D) \/ ForSecret(e), Covers(e.at, Transformed(m, path))
  PROVE  \E d \in DOMAIN D :
           /\ Trim(e.at) = Transformed(m, d) /\ e.source = MountSource(D[d])
           /\ IsAbove(d, Trim(path))
<1> DEFINE t == Trim(path)
           z == Transformed(m, path)
<1>1. m \in Seq(Token) /\ t \in Seq(Token) /\ t # <<>>
  BY TrimTwice DEF NoSlash, Absolute
<1>2. z \in Seq(Token) /\ Trim(z) = Transformed(m, t)
  BY <1>1, TransformedKeys, TrimTransformed DEF InPlace
<1>3. ForModel(e, m, D)
  BY <1>1, SecretsApart DEF ForSecret
<1>4. PICK n, d : /\ NoSlash(n) /\ Absolute(d) /\ Trim(d) = d
                  /\ e.at = Transformed(n, d)
                  /\ n = m => d \in DOMAIN D /\ e.source = MountSource(D[d])
  BY <1>3 DEF ForModel
<1>5. n \in Seq(Token) /\ d \in Seq(Token) /\ d # <<>>
  BY <1>4 DEF NoSlash, Absolute
<1>6. e.at \in Seq(Token) /\ Trim(e.at) = Transformed(n, d)
  BY <1>4, <1>5, TransformedKeys, TrimTransformed DEF InPlace
<1> DEFINE y == Transformed(n, d)
           u == Transformed(m, t)
<1>7. IsAbove(y, u)
  BY <1>2, <1>6, CoversIsAbove
<1>8. InPlace(y, 3 + Len(n), n, d) /\ InPlace(u, 3 + Len(m), m, t)
  BY <1>1, <1>5, TransformedKeys
<1> HIDE DEF y, u
<1>9. n = m
  BY <1>4, <1>7, <1>8, PlacesAgree
<1>10. IsAbove(d, t)
  <2>1. InPlace(y, 3 + Len(m), m, d)
    BY <1>8, <1>9
  <2> QED
    BY <1>1, <1>5, <1>7, <1>8, <2>1, AboveInPlace
<1> QED
  BY <1>4, <1>6, <1>9, <1>10 DEF y

LEMMA FileInEngine ==
  ASSUME NEW m, NoSlash(m), NEW D, AreDests(DOMAIN D),
         NEW path \in Seq(Token), IsMounted(D, path), NEW E,
         \A e \in E : ForModel(e, m, D) \/ ForSecret(e),
         NEW top \in E, top.at = Transformed(m, FindMountForPath(path, D))
  PROVE  /\ FileAt(E, Transformed(m, path)) = FileOf(D, path)
         /\ Covers(top.at, Transformed(m, path))
<1> DEFINE t == Trim(path)
           z == Transformed(m, path)
           f == FindMountForPath(path, D)
           u == Transformed(m, t)
           y == Transformed(m, f)
           k == 3 + Len(m)
<1>1. IsLongest(f, DOMAIN D, t)
  BY MountIsLongest
<1>2. f \in DOMAIN D /\ f \in Seq(Token) /\ f # <<>> /\ f[1] = "/"
      /\ Trim(f) = f /\ IsAbove(f, t)
  BY <1>1 DEF IsLongest, AreDests
<1>3. m \in Seq(Token) /\ t \in Seq(Token)
  BY TrimTwice DEF NoSlash
<1> HIDE DEF f, t
<1>4. Absolute(t) /\ t # <<>>
  <2>1. Len(f) > 0 /\ Len(f) <= Len(t) /\ 1 \in 1..Len(f)
    BY <1>2 DEF IsAbove
  <2> QED
    BY <1>2, <1>3, <2>1 DEF IsAbove, Absolute
<1>5. z \in Seq(Token) /\ Trim(z) = u
  BY <1>3, <1>4, TransformedKeys, TrimTransformed DEF InPlace, t
<1>6. y \in Seq(Token) /\ Trim(y) = y
  BY <1>2, <1>3, TransformedKeys, TrimTransformed DEF InPlace
<1>7. InPlace(y, k, m, f) /\ InPlace(u, k, m, t)
  BY <1>2, <1>3, TransformedKeys
<1>8. top.at = y
  BY DEF f
<1> HIDE DEF y, u, z, k
<1>9. Covers(top.at, z)
  <2>1. IsAbove(y, u)
    BY <1>2, <1>3, <1>7, AboveInPlace
  <2> QED
    BY <1>5, <1>6, <1>8, <2>1, CoversIsAbove
<1>10. ASSUME NEW e \in E, Covers(e.at, z)
       PROVE  \E d \in DOMAIN D :
                /\ Trim(e.at) = Transformed(m, d)
                /\ e.source = MountSource(D[d]) /\ IsAbove(d, t)
  BY <1>4, <1>10, ModelMountCovers DEF t, z
<1>11. ASSUME NEW e \in E, Covers(e.at, z)
       PROVE  /\ Trim(e.at) \in Seq(Token)
              /\ Len(Trim(e.at)) <= Len(y)
              /\ Len(Trim(e.at)) = Len(y) =>
                   Trim(e.at) = y /\ e.source = MountSource(D[f])
  <2>1. PICK d \in DOMAIN D :
          /\ Trim(e.at) = Transformed(m, d)
          /\ e.source = MountSource(D[d]) /\ IsAbove(d, t)
    BY <1>10, <1>11
  <2>2. d \in Seq(Token)
    BY DEF AreDests
  <2>3. InPlace(Transformed(m, d), k, m, d)
    BY <1>3, <2>2, TransformedKeys DEF k
  <2>4. Len(d) <= Len(f) /\ (Len(d) = Len(f) => d = f)
    BY <1>1, <2>1 DEF IsLongest
  <2>5. /\ Trim(e.at) \in Seq(Token) /\ Len(Trim(e.at)) = k + Len(d)
        /\ Len(y) = k + Len(f) /\ k \in Nat /\ Len(d) \in Nat /\ Len(f) \in Nat
    BY <1>7, <2>1, <2>3 DEF InPlace
  <2>6. Len(Trim(e.at)) = Len(y) => d = f
    BY <2>4, <2>5
  <2> QED
    BY <2>1, <2>4, <2>5, <2>6 DEF y
<1>12. top.source = MountSource(D[f]) /\ Trim(top.at) = y
  BY <1>6, <1>8, <1>9, <1>11
<1>13. FileAt(E, z) = <<top.source, Below(z, top.at)>>
  BY <1>5, <1>9, <1>11, <1>12, FileByTop
<1>14. Below(z, top.at) = SubSeq(t, Len(f) + 1, Len(t))
  <2>1. Below(z, top.at) = SubSeq(u, Len(y) + 1, Len(u))
    BY <1>5, <1>12 DEF Below
  <2>2. /\ Len(y) = k + Len(f) /\ Len(u) = k + Len(t) /\ k \in Nat
        /\ u \in Seq(Token) /\ Len(f) \in Nat /\ Len(t) \in Nat
        /\ Len(f) <= Len(t) /\ \A i \in 1..Len(t) : u[k + i] = t[i]
    BY <1>2, <1>7 DEF InPlace, IsAbove
  <2>3. /\ SubSeq(u, Len(y) + 1, Len(u)) \in Seq(Token)
        /\ Len(SubSeq(u, Len(y) + 1, Len(u))) = Len(t) - Len(f)
        /\ \A i \in 1..(Len(t) - Len(f)) :
             SubSeq(u, Len(y) + 1, Len(u))[i] = u[k + Len(f) + i]
    <3> DEFINE a == Len(y) + 1
               b == Len(u)
    <3>1. /\ a \in 1..(Len(u) + 1) /\ b \in Nat /\ b <= Len(u)
          /\ b - a + 1 = Len(t) - Len(f) /\ a - 1 = k + Len(f)
          /\ Len(t) - Len(f) \in Nat /\ a \in Nat
      BY <2>2
    <3> HIDE DEF a, b
    <3>2. /\ SubSeq(u, a, b) \in Seq(Token)
          /\ Len(SubSeq(u, a, b)) = b - a + 1
          /\ \A i \in 1..(b - a + 1) : SubSeq(u, a, b)[i] = u[a + i - 1]
      BY <2>2, <3>1
    <3>3. \A i \in 1..(b - a + 1) : a + i - 1 = k + Len(f) + i
      BY <2>2, <3>1
    <3> QED
      BY <3>1, <3>2, <3>3 DEF a, b
  <2>4. /\ SubSeq(t, Len(f) + 1, Len(t)) \in Seq(Token)
        /\ Len(SubSeq(t, Len(f) + 1, Len(t))) = Len(t) - Len(f)
        /\ \A i \in 1..(Len(t) - Len(f)) :
             SubSeq(t, Len(f) + 1, Len(t))[i] = t[Len(f) + i]
    BY <1>3, <2>2
  <2>5. \A i \in 1..(Len(t) - Len(f)) : u[k + Len(f) + i] = t[Len(f) + i]
    <3> TAKE i \in 1..(Len(t) - Len(f))
    <3>1. Len(f) + i \in 1..Len(t) /\ k + (Len(f) + i) = k + Len(f) + i
      BY <2>2
    <3> QED
      BY <2>2, <3>1
  <2>6. SubSeq(u, Len(y) + 1, Len(u)) = SubSeq(t, Len(f) + 1, Len(t))
    <3> DEFINE lower == SubSeq(u, Len(y) + 1, Len(u))
               upper == SubSeq(t, Len(f) + 1, Len(t))
               n == Len(t) - Len(f)
    <3>1. /\ lower \in Seq(Token) /\ Len(lower) = n
          /\ \A i \in 1..n : lower[i] = u[k + Len(f) + i]
      BY <2>3
    <3>2. /\ upper \in Seq(Token) /\ Len(upper) = n
          /\ \A i \in 1..n : upper[i] = t[Len(f) + i]
      BY <2>4
    <3>3. \A i \in 1..n : u[k + Len(f) + i] = t[Len(f) + i]
      BY <2>5
    <3> HIDE DEF lower, upper, n
    <3>4. \A i \in 1..Len(lower) : lower[i] = upper[i]
      BY <3>1, <3>2, <3>3
    <3>5. lower = upper
      BY <3>1, <3>2, <3>4, SeqEqual
    <3> QED
      BY <3>5 DEF lower, upper
  <2> QED
    BY <2>1, <2>6
<1> QED
  BY <1>9, <1>12, <1>13, <1>14 DEF FileOf, f, t, z
-----------------------------------------------------------------------------
(* Whatever the containers, profiles and faults, labels are read as they   *)
(* stand and models stay valid.                                            *)
LEMMA ReadAndValid == Spec => [](Reads /\ Validated)
BY ReadsInit, ReadsNext, ValidatedInit, ValidatedNext, PTL DEF Spec

(* What a container's labels give does not depend on the order Go walks    *)
(* them in: after any number of them the tree is that of the labels read,  *)
(* for any containers whose labels are not set below one another.          *)
THEOREM LabelsInAnyOrder == Spec => []ParsedAsLabelled
<1>1. Reads => ParsedAsLabelled
  BY DEF Reads
<1> QED
  BY <1>1, ReadAndValid, PTL

(* gobackup never gets a file it would reject for one of its models:       *)
(* neither discovery nor an inspect that fails in it takes away what       *)
(* validateModel saw.                                                      *)
THEOREM ModelsAccepted == Spec => []Accepted
<1>1. ASSUME NEW t, ValidModel(t)
      PROVE  Has(t, "storages", 2)
             /\ (Has(t, "databases", 2) \/ Has(t, "archive", 1))
  <2>1. \A key : HasChild(t, key) => Has(t, key, 2)
    BY DEF HasChild, Has
  <2>2. <<"archive">> \in DOMAIN t => Has(t, "archive", 1)
    <3>1. Len(<<"archive">>) = 1 /\ <<"archive">>[1] = "archive"
      OBVIOUS
    <3> QED
      BY <3>1 DEF Has
  <2> QED
    BY <1>1, <2>1, <2>2 DEF ValidModel
<1>2. Validated => Accepted
  BY <1>1 DEF Validated, Accepted
<1> QED
  BY <1>2, ReadAndValid, PTL
-----------------------------------------------------------------------------
(* Nodes, expanded and coerced.                                            *)
LEMMA ExpandedText ==
  ASSUME NEW text \in Seq(Token), NEW data,
         \A d \in DOMAIN data : data[d] \in Seq(Token)
  PROVE  ExpandText(text, data) \in Seq(Token)
<1> DEFINE u == [i \in 1..Len(text) |->
                   IF text[i] \in DOMAIN data THEN data[text[i]]
                   ELSE <<text[i]>>]
<1>1. DOMAIN text = 1..Len(text) /\ Len(text) \in Nat
      /\ \A i \in 1..Len(text) : text[i] \in Token
  OBVIOUS
<1>2. \A i \in 1..Len(text) : <<text[i]>> \in Seq(Token)
  BY <1>1
<1>3. \A i \in 1..Len(text) :
        (IF text[i] \in DOMAIN data THEN data[text[i]] ELSE <<text[i]>>)
          \in Seq(Token)
  BY <1>2
<1>4. u \in Seq(Seq(Token))
  BY <1>1, <1>3
<1>5. ExpandText(text, data) = FlattenSeq(u)
  BY <1>1 DEF ExpandText
<1> HIDE DEF u
<1> QED
  BY <1>4, <1>5, FlattenType

LEMMA CommaSeparated ==
  ASSUME NEW text \in Seq(Token)
  PROVE  SplitCSV(text) \in Seq(Seq(Token))
<1> DEFINE last == Len(text) + 1
           ends == {i \in DOMAIN text : text[i] = ","} \cup {last}
           solid(i) ==
             {k \in DOMAIN text : /\ k < i /\ text[k] # " "
                                  /\ \A j \in k..(i - 1) : text[j] # ","}
           item(i) == IF i \notin ends \/ solid(i) = {} THEN <<>>
                      ELSE <<SubSeq(text, Min(solid(i)), Max(solid(i)))>>
           u == [i \in 1..last |-> item(i)]
<1>1. last \in Nat /\ DOMAIN text = 1..Len(text)
  OBVIOUS
<1>2. ASSUME NEW i \in 1..last PROVE item(i) \in Seq(Seq(Token))
  <2>1. solid(i) \subseteq 1..Len(text)
    BY <1>1
  <2> HIDE DEF solid, ends
  <2>2. CASE i \notin ends \/ solid(i) = {}
    <3>1. item(i) = <<>>
      BY <2>2
    <3>2. <<>> \in Seq(Seq(Token))
      OBVIOUS
    <3> HIDE DEF item
    <3> QED
      BY <3>1, <3>2
  <2>3. CASE ~(i \notin ends \/ solid(i) = {})
    <3> DEFINE a == Min(solid(i))
               b == Max(solid(i))
    <3>1. solid(i) \subseteq Nat /\ \A x \in solid(i) : x <= Len(text)
      BY <2>1
    <3>2. a \in 1..Len(text) /\ b \in 1..Len(text)
      BY <1>1, <2>1, <2>3, <3>1, MinOfNaturals, MaxOfBounded
    <3>3. item(i) = <<SubSeq(text, a, b)>>
      BY <2>3
    <3> HIDE DEF a, b
    <3>4. SubSeq(text, a, b) \in Seq(Token)
      BY <3>2
    <3> HIDE DEF item
    <3> QED
      BY <3>3, <3>4
  <2> QED
    BY <2>2, <2>3
<1>3. SplitCSV(text) = FlattenSeq(u)
  BY DEF SplitCSV
<1> HIDE DEF item, last
<1>4. u \in Seq(Seq(Seq(Token)))
  BY <1>1, <1>2
<1> HIDE DEF u
<1> QED
  BY <1>3, <1>4, FlattenType

(* Expanding and coercing keep a node a node, a map the map it was.        *)
LEMMA ExpandedNode ==
  ASSUME NEW node, IsNode(node), NEW data,
         \A d \in DOMAIN data : data[d] \in Seq(Token)
  PROVE  /\ IsNode(ExpandNode(node, data))
         /\ ExpandNode(node, data).kind = node.kind
<1> DEFINE new == ExpandNode(node, data)
           val == [i \in DOMAIN node.val |-> ExpandText(node.val[i], data)]
<1>1. CASE ~HasTexts(node)
  BY <1>1 DEF ExpandNode, OnTexts
<1>2. CASE HasTexts(node)
  <2>1. new = [kind |-> node.kind, val |-> val]
    BY <1>2 DEF ExpandNode, OnTexts
  <2>2. node.val \in Seq(Seq(Token)) /\ node.kind \in {"text", "list"}
    BY <1>2 DEF IsNode, HasTexts
  <2>3. DOMAIN node.val = 1..Len(node.val) /\ Len(node.val) \in Nat
        /\ \A i \in 1..Len(node.val) : node.val[i] \in Seq(Token)
    BY <2>2
  <2>4. \A i \in 1..Len(node.val) : ExpandText(node.val[i], data) \in Seq(Token)
    BY <2>3, ExpandedText
  <2>5. val \in Seq(Seq(Token)) /\ Len(val) = Len(node.val)
    BY <2>3, <2>4
  <2> HIDE DEF new, val
  <2>6. new.kind = node.kind /\ new.val = val
        /\ new \in [kind : Kinds, val : Seq(Seq(Token))]
    BY <2>1, <2>5 DEF IsNode
  <2>7. IsNode(new)
    BY <2>2, <2>5, <2>6 DEF IsNode
  <2> QED
    BY <2>6, <2>7 DEF new
<1> QED
  BY <1>1, <1>2

LEMMA CoercedNode ==
  ASSUME NEW node, IsNode(node), NEW p
  PROVE  /\ IsNode(CoerceNode(p, node))
         /\ CoerceNode(p, node).kind = "map" <=> node.kind = "map"
         /\ node.kind = "map" => CoerceNode(p, node) = node
<1>1. CASE node.kind # "text"
  BY <1>1 DEF CoerceNode
<1>2. CASE node.kind = "text"
  <2> DEFINE text == node.val[1]
  <2>1. text \in Seq(Token)
    BY <1>2 DEF IsNode
  <2>2. CASE IsArrayField(p)
    <3>1. CoerceNode(p, node) = List(SplitCSV(text))
      BY <1>2, <2>2 DEF CoerceNode
    <3>2. SplitCSV(text) \in Seq(Seq(Token))
      BY <2>1, CommaSeparated
    <3> HIDE DEF text
    <3>3. IsNode(List(SplitCSV(text))) /\ List(SplitCSV(text)).kind = "list"
      BY <3>2, NodeKinds DEF List
    <3> QED
      BY <1>2, <3>1, <3>3
  <2>3. CASE ~IsArrayField(p)
    <3>1. CoerceNode(p, node) = CoerceScalar(Last(p), text)
      BY <1>2, <2>3 DEF CoerceNode
    <3> HIDE DEF text
    <3> DEFINE s == CoerceScalar(Last(p), text)
    <3>2. IsNode(Text(text)) /\ Text(text).kind = "text"
      BY <2>1, NodeKinds
    <3>3. ASSUME NEW x \in Seq(Token), NEW k \in {"bool", "int"}
          PROVE  /\ IsNode([kind |-> k, val |-> <<x>>])
                 /\ [kind |-> k, val |-> <<x>>].kind # "map"
      <4>1. <<x>> \in Seq(Seq(Token))
        OBVIOUS
      <4> QED
        BY <4>1 DEF IsNode, Kinds
    <3>4. text \in DOMAIN Bools => Bools[text] \in Seq(Token)
      BY ConfigPassAssumption
    <3>5. \/ text \in DOMAIN Bools /\ s = [kind |-> "bool", val |-> <<Bools[text]>>]
          \/ s = [kind |-> "int", val |-> <<text>>]
          \/ s = Text(text)
      BY DEF CoerceScalar
    <3> HIDE DEF s
    <3>6. CASE text \in DOMAIN Bools /\ s = [kind |-> "bool", val |-> <<Bools[text]>>]
      BY <1>2, <3>1, <3>3, <3>4, <3>6 DEF s
    <3>7. CASE s = [kind |-> "int", val |-> <<text>>]
      <4>1. text \in Seq(Token)
        BY <2>1 DEF text
      <4> QED
        BY <1>2, <3>1, <3>3, <3>7, <4>1 DEF s
    <3>8. CASE s = Text(text)
      BY <1>2, <3>1, <3>2, <3>8 DEF s
    <3> QED
      BY <3>5, <3>6, <3>7, <3>8
  <2> QED
    BY <2>2, <2>3
<1> QED
  BY <1>1, <1>2
-----------------------------------------------------------------------------
(* The tree of a model.                                                    *)

(* Opting out takes leaves.                                                *)
LEMMA PrunedTree ==
  ASSUME NEW t, WellFormed(t)
  PROVE  /\ WellFormed(PruneOptOut(t))
         /\ Leaves(PruneOptOut(t)) = {p \in Leaves(t) : t[p] # OptOut}
         /\ \A p \in DOMAIN PruneOptOut(t) : PruneOptOut(t)[p] = t[p]
<1> DEFINE u == PruneOptOut(t)
<1>1. /\ DOMAIN u = {q \in DOMAIN t : t[q] # OptOut}
      /\ \A p \in DOMAIN u : u[p] = t[p]
  BY DEF PruneOptOut
<1>2. OptOut.kind # "map"
  BY NodeKinds DEF OptOut
<1> HIDE DEF u
<1>3. \A p \in DOMAIN t : IsMap(t, p) => p \in DOMAIN u /\ IsMap(u, p)
  BY <1>1, <1>2 DEF IsMap
<1>4. WellFormed(u)
  BY <1>1, <1>3 DEF WellFormed, IsMap
<1>5. Leaves(u) = {p \in Leaves(t) : t[p] # OptOut}
  BY <1>1 DEF Leaves
<1> QED
  BY <1>1, <1>4, <1>5 DEF u

(* Expanding and coercing: node by node.                                   *)
LEMMA CoercedTree ==
  ASSUME NEW t, WellFormed(t), NEW data,
         \A d \in DOMAIN data : data[d] \in Seq(Token)
  PROVE  LET u == CoerceTree(ExpandTemplates(t, data))
         IN /\ WellFormed(u) /\ DOMAIN u = DOMAIN t /\ Leaves(u) = Leaves(t)
            /\ \A p \in DOMAIN t :
                 u[p] = CoerceNode(p, ExpandNode(t[p], data))
<1> DEFINE u == CoerceTree(ExpandTemplates(t, data))
<1>1. DOMAIN u = DOMAIN t
      /\ \A p \in DOMAIN t : u[p] = CoerceNode(p, ExpandNode(t[p], data))
  BY DEF CoerceTree, ExpandTemplates
<1> HIDE DEF u
<1>2. ASSUME NEW p \in DOMAIN t
      PROVE  IsNode(u[p]) /\ (u[p].kind = "map" <=> t[p].kind = "map")
  <2>1. /\ IsNode(ExpandNode(t[p], data))
        /\ ExpandNode(t[p], data).kind = t[p].kind
    BY ExpandedNode DEF WellFormed
  <2> QED
    BY <1>1, <2>1, CoercedNode
<1>3. \A p : IsMap(u, p) <=> IsMap(t, p)
  BY <1>1, <1>2 DEF IsMap
<1>4. WellFormed(u)
  BY <1>1, <1>2, <1>3 DEF WellFormed
<1>5. Leaves(u) = Leaves(t)
  BY <1>1, <1>2 DEF Leaves
<1> QED
  BY <1>1, <1>4, <1>5 DEF u

(* Setting a key the tree does not have.                                   *)
SetsLeaf(t, u, p, v) ==
  /\ WellFormed(u)
  /\ DOMAIN u = DOMAIN t \cup Above(p) \cup {p}
  /\ u[p] = v
  /\ \A q \in DOMAIN t : q \notin Above(p) => u[q] = t[q]
  /\ Leaves(u) = (Leaves(t) \ Above(p)) \cup {p}

LEMMA SetNewPath ==
  ASSUME NEW t, WellFormed(t), NEW p \in Path, p \notin DOMAIN t,
         NEW v, IsNode(v), v.kind # "map"
  PROVE  SetsLeaf(t, SetPath(t, p, v), p, v)
<1> DEFINE u == SetPath(t, p, v)
<1>1. Under(DOMAIN t, p) = {}
  <2> SUFFICES ASSUME NEW q \in DOMAIN t, IsPrefix(p, q) PROVE FALSE
    BY DEF Under
  <2>1. p \in Above(q)
    BY PrefixesAreAbove DEF WellFormed
  <2> QED
    BY <2>1 DEF WellFormed, IsMap
<1>2. p \notin Above(p)
  BY AbovePaths
<1>3. /\ DOMAIN u = DOMAIN t \cup Above(p) \cup {p}
      /\ u[p] = v
      /\ \A q \in Above(p) : u[q] = Map
      /\ \A q \in DOMAIN t : q \notin Above(p) => u[q] = t[q]
  BY <1>1, <1>2 DEF SetPath
<1>4. WellFormed(u)
  BY SetPathShape
<1> HIDE DEF u
<1>6. \A q \in DOMAIN u : u[q].kind # "map"
        <=> (q \in Leaves(t) /\ q \notin Above(p)) \/ q = p
  <2>1. \A q \in Above(p) : u[q].kind = "map"
    BY <1>3, NodeKinds
  <2> QED
    BY <1>2, <1>3, <2>1 DEF Leaves
<1>7. Leaves(u) = (Leaves(t) \ Above(p)) \cup {p}
  BY <1>3, <1>6 DEF Leaves
<1> QED
  BY <1>3, <1>4, <1>7 DEF SetsLeaf, u

(* What substituteCreds has after each reference.                          *)
Substitutes(acc, tree, refs, model, id) ==
  /\ acc[0] = [ok |-> TRUE, tree |-> tree, creds |-> <<>>]
  /\ \A i \in 1..Len(refs) : acc[i] = WithCred(acc[i - 1], refs[i], model, id)

LEMMA SubstituteSteps ==
  ASSUME NEW R, NEW refs \in Seq(R), NEW tree, NEW model, NEW id
  PROVE  \E acc : /\ Substitutes(acc, tree, refs, model, id)
                  /\ SubstituteCreds(tree, refs, model, id) = acc[Len(refs)]
<1> DEFINE base == [ok |-> TRUE, tree |-> tree, creds |-> <<>>]
           step(x, i) == WithCred(x, refs[i], model, id)
           Eq(f, n) == f = [i \in 0..n |-> IF i = 0 THEN base
                                           ELSE step(f[i - 1], i)]
           after == CHOOSE f : Eq(f, Len(refs))
           K == {k \in Nat : \E f : Eq(f, k)}
<1>1. SubstituteCreds(tree, refs, model, id) = after[Len(refs)]
  BY DEF SubstituteCreds
<1> HIDE DEF base, step
<1>2. 0 \in K
  <2>1. Eq([i \in 0..0 |-> base], 0)
    OBVIOUS
  <2> QED
    BY <2>1
<1>3. ASSUME NEW k \in Nat, k \in K PROVE k + 1 \in K
  <2>1. PICK f : Eq(f, k)
    BY <1>3
  <2> DEFINE last == step(f[k], k + 1)
             h == [i \in 0..(k + 1) |-> IF i <= k THEN f[i] ELSE last]
  <2> HIDE DEF last
  <2>2. \A i \in 0..(k + 1) : i \in 0..k \/ (i = k + 1 /\ i # 0 /\ i - 1 = k)
    OBVIOUS
  <2>3. /\ \A i \in 0..k : h[i] = f[i] /\ (i # 0 => h[i - 1] = f[i - 1])
        /\ h[k + 1] = last /\ h[k] = f[k]
    OBVIOUS
  <2>4. \A i \in 0..k : f[i] = IF i = 0 THEN base ELSE step(f[i - 1], i)
    BY <2>1
  <2>5. \A i \in 0..(k + 1) : h[i] = IF i = 0 THEN base ELSE step(h[i - 1], i)
    <3> HIDE DEF h
    <3> QED
      BY <2>2, <2>3, <2>4 DEF last
  <2>6. Eq(h, k + 1)
    BY <2>5
  <2> HIDE DEF h
  <2> QED
    BY <2>6
<1> HIDE DEF K
<1>4. Len(refs) \in K
  BY <1>2, <1>3, Induction
<1>5. Eq(after, Len(refs))
  BY <1>4 DEF K
<1> HIDE DEF after
<1>6. after[0] = base
      /\ \A i \in 1..Len(refs) : after[i] = step(after[i - 1], i)
  BY <1>5
<1>7. Substitutes(after, tree, refs, model, id)
  BY <1>6 DEF Substitutes, base, step
<1> QED
  BY <1>1, <1>7

(* Names of variables.                                                     *)
LEMMA SanitizedText ==
  ASSUME NEW text \in Seq(Token)
  PROVE  /\ SanitizeVar(text) \in Seq(Token)
         /\ Len(SanitizeVar(text)) = Len(text)
         /\ \A i \in 1..Len(text) : IsName(SanitizeVar(text)[i])
<1> DEFINE token(tok) == IF tok \in DOMAIN Upper THEN Upper[tok]
                        ELSE IF IsName(tok) THEN tok ELSE "_"
<1>0. \A tok \in DOMAIN Upper : Upper[tok] \in Token \ Marks
  BY ConfigPassAssumption
<1>1. ASSUME NEW tok \in Token PROVE token(tok) \in Token /\ IsName(token(tok))
  <2>1. "_" \in Token /\ "_" \notin Marks
    BY ConfigPassAssumption DEF Token
  <2>2. CASE tok \in DOMAIN Upper
    BY <1>0, <2>2 DEF IsName
  <2>3. CASE tok \notin DOMAIN Upper /\ IsName(tok)
    BY <2>3
  <2>4. CASE tok \notin DOMAIN Upper /\ ~IsName(tok)
    BY <2>1, <2>4 DEF IsName
  <2> QED
    BY <2>2, <2>3, <2>4
<1>2. DOMAIN text = 1..Len(text) /\ \A i \in 1..Len(text) : text[i] \in Token
  OBVIOUS
<1>3. SanitizeVar(text) = [i \in 1..Len(text) |-> token(text[i])]
  BY <1>2 DEF SanitizeVar
<1> HIDE DEF token
<1> QED
  BY <1>1, <1>2, <1>3

(* Short sequences.                                                        *)
LEMMA OneElement ==
  ASSUME NEW S, NEW x \in S
  PROVE  <<x>> \in Seq(S) /\ Len(<<x>>) = 1 /\ <<x>>[1] = x
OBVIOUS

(* The keys of a path, each after an underscore: nothing but name bytes.   *)
KeyNames(path) == [i \in DOMAIN path |-> <<"_">> \o SanitizeVar(<<path[i]>>)]
NameTokens == {tok \in Token : IsName(tok)}

LEMMA KeyNamesType ==
  ASSUME NEW path \in Seq(Token)
  PROVE  KeyNames(path) \in Seq(Seq(NameTokens))
<1>1. ASSUME NEW k \in Token
      PROVE  <<"_">> \o SanitizeVar(<<k>>) \in Seq(NameTokens)
  <2>1. <<k>> \in Seq(Token)
    BY OneElement
  <2>2. SanitizeVar(<<k>>) \in Seq(NameTokens)
    <3>1. /\ SanitizeVar(<<k>>) \in Seq(Token)
          /\ \A i \in 1..Len(<<k>>) : SanitizeVar(<<k>>)[i] \in NameTokens
          /\ Len(SanitizeVar(<<k>>)) = Len(<<k>>)
      BY <2>1, SanitizedText DEF NameTokens
    <3> QED
      BY <3>1, SeqOfSubset
  <2>3. "_" \in NameTokens
    BY ConfigPassAssumption DEF Token, NameTokens, IsName
  <2>4. <<"_">> \in Seq(NameTokens)
    BY <2>3, OneElement
  <2> QED
    BY <2>2, <2>4, Concatenated
<1>2. DOMAIN path = 1..Len(path) /\ \A i \in 1..Len(path) : path[i] \in Token
  OBVIOUS
<1>3. \A i \in 1..Len(path) :
        <<"_">> \o SanitizeVar(<<path[i]>>) \in Seq(NameTokens)
  BY <1>1, <1>2
<1> DEFINE key(i) == <<"_">> \o SanitizeVar(<<path[i]>>)
<1>4. KeyNames(path) = [i \in 1..Len(path) |-> key(i)]
  BY <1>2 DEF KeyNames
<1>5. \A i \in 1..Len(path) : key(i) \in Seq(NameTokens)
  BY <1>3
<1> HIDE DEF key
<1> QED
  BY <1>4, <1>5

(* A variable is a name.                                                   *)
LEMMA VarNameType ==
  ASSUME NEW model \in Seq(Token), NEW path \in Seq(Token)
  PROVE  /\ CredVarName(model, path) \in Seq(NameTokens)
         /\ CredVarName(model, path)
              = <<"GB", "_">> \o Joined(model, path)
         /\ Joined(model, path) \in Seq(NameTokens)
         /\ Reference(CredVarName(model, path)) \in Seq(Token)
<1> DEFINE keys == FlattenSeq(KeyNames(path))
           name == SanitizeVar(model)
           gb == <<"GB", "_">>
<1>1. keys \in Seq(NameTokens)
  BY KeyNamesType, FlattenType
<1>2. name \in Seq(NameTokens)
  <2>1. /\ name \in Seq(Token) /\ Len(name) = Len(model)
        /\ \A i \in 1..Len(model) : IsName(name[i])
    BY SanitizedText
  <2> HIDE DEF name
  <2>2. \A i \in 1..Len(name) : name[i] \in NameTokens
    BY <2>1 DEF NameTokens
  <2> QED
    BY <2>1, <2>2, SeqOfSubset
<1>3. {"GB", "_", "$", Open, Close} \subseteq Token
  BY Zenon DEF Token, Open, Close
<1>4. gb \in Seq(NameTokens)
  <2>1. "GB" \in NameTokens /\ "_" \in NameTokens
    BY <1>3, ConfigPassAssumption DEF NameTokens, IsName
  <2>2. \A x, y \in NameTokens : <<x, y>> \in Seq(NameTokens)
    OBVIOUS
  <2> QED
    BY <2>1, <2>2
<1>5. CredVarName(model, path) = (gb \o name) \o keys
      /\ Joined(model, path) = name \o keys
  BY DEF CredVarName, Joined, KeyNames
<1> HIDE DEF keys, name, gb
<1>6. (gb \o name) \o keys = gb \o (name \o keys)
  BY <1>1, <1>2, <1>4, ConcatAssociative
<1>7. (gb \o name) \o keys \in Seq(NameTokens) /\ name \o keys \in Seq(NameTokens)
  BY <1>1, <1>2, <1>4, Concatenated
<1>8. \A x \in Seq(NameTokens) : Reference(x) \in Seq(Token)
  <2>1. \A x, y \in Token : <<x, y>> \in Seq(Token) /\ <<x>> \in Seq(Token)
    OBVIOUS
  <2>2. <<"$", Open>> \in Seq(Token) /\ <<Close>> \in Seq(Token)
    BY <1>3, <2>1
  <2>3. \A x \in Seq(NameTokens) : x \in Seq(Token)
    BY SeqOfSubset DEF NameTokens
  <2> QED
    BY <2>2, <2>3, Concatenated DEF Reference
<1> QED
  BY <1>5, <1>6, <1>7, <1>8 DEF gb

(* References for the credentials at P have been put into a tree.          *)
Placed(t0, t, P, model) ==
  /\ WellFormed(t) /\ DOMAIN t0 \cup P \subseteq DOMAIN t
  /\ Leaves(t) = {p \in Leaves(t0) : \A c \in P : ~Related(c, p)} \cup
                 {c \in P : \A d \in P : IsPrefix(c, d) => c = d}
  /\ \A c \in Leaves(t) \cap P : t[c] = Text(Reference(CredVarName(model, c)))
  /\ \A p \in Leaves(t) \ P : t[p] = t0[p]

LEMMA PlaceCred ==
  ASSUME NEW model \in Seq(Token), NEW t0, NEW t, NEW P,
         Placed(t0, t, P, model), NEW p \in Path, p \notin DOMAIN t
  PROVE  Placed(t0, SetPath(t, p, Text(Reference(CredVarName(model, p)))),
                P \cup {p}, model)
<1> DEFINE node == Text(Reference(CredVarName(model, p)))
           u == SetPath(t, p, node)
<1>1. IsNode(node) /\ node.kind # "map"
  BY VarNameType, NodeKinds DEF Path
<1>2. WellFormed(t) /\ DOMAIN t0 \subseteq DOMAIN t /\ P \subseteq DOMAIN t
      /\ DOMAIN t \subseteq Path
  BY DEF Placed, WellFormed
<1> HIDE DEF node
<1>3. /\ WellFormed(u)
      /\ DOMAIN u = DOMAIN t \cup Above(p) \cup {p}
      /\ u[p] = node
      /\ \A q \in DOMAIN t : q \notin Above(p) => u[q] = t[q]
      /\ Leaves(u) = (Leaves(t) \ Above(p)) \cup {p}
  BY <1>1, <1>2, SetNewPath DEF SetsLeaf
<1> HIDE DEF u
<1>4. ASSUME NEW q \in DOMAIN t
      PROVE  ~IsPrefix(p, q) /\ (IsPrefix(q, p) <=> q \in Above(p)) /\ q # p
  <2>1. q # p /\ q \in Path
    BY <1>2
  <2>2. ~IsPrefix(p, q)
    <3>1. IsPrefix(p, q) => p \in Above(q)
      BY <2>1, PrefixesAreAbove
    <3> QED
      BY <1>2, <3>1 DEF WellFormed, IsMap
  <2> QED
    BY <2>1, <2>2, PrefixesAreAbove, AbovePaths
<1>5. IsPrefix(p, p)
  BY PrefixReflexive DEF Path
<1>6. \A x : x \in Leaves(u) <=>
        \/ x \in Leaves(t0) /\ \A c \in P \cup {p} : ~Related(c, x)
        \/ x \in P \cup {p} /\ \A d \in P \cup {p} : IsPrefix(x, d) => x = d
  <2> TAKE x
  <2>1. CASE x = p
    <3>1. x \in Leaves(u) /\ \A d \in P \cup {p} : IsPrefix(x, d) => x = d
      BY <1>2, <1>3, <1>4, <2>1
    <3> QED
      BY <2>1, <3>1
  <2>2. CASE x # p /\ x \notin DOMAIN t
    <3>1. x \notin Leaves(t) /\ x \notin Leaves(t0) /\ x \notin P \cup {p}
      BY <1>2, <2>2 DEF Leaves
    <3> QED
      BY <1>3, <2>2, <3>1
  <2>3. CASE x # p /\ x \in DOMAIN t
    <3>1. x \in Leaves(u) <=> x \in Leaves(t) /\ ~IsPrefix(x, p)
      BY <1>3, <1>4, <2>3
    <3>2. Related(p, x) <=> IsPrefix(x, p)
      BY <1>4, <2>3 DEF Related
    <3>3. x \in Leaves(t) <=>
            \/ x \in Leaves(t0) /\ \A c \in P : ~Related(c, x)
            \/ x \in P /\ \A d \in P : IsPrefix(x, d) => x = d
      BY DEF Placed
    <3> QED
      BY <2>3, <3>1, <3>2, <3>3
  <2> QED
    BY <2>1, <2>2, <2>3
<1>7. Leaves(u) = {x \in Leaves(t0) : \A c \in P \cup {p} : ~Related(c, x)} \cup
        {c \in P \cup {p} : \A d \in P \cup {p} : IsPrefix(c, d) => c = d}
  BY <1>6
<1>8. \A x \in Leaves(u) \ {p} : x \in Leaves(t) /\ u[x] = t[x]
  BY <1>3 DEF Leaves
<1>9. \A c \in Leaves(u) \cap (P \cup {p}) :
        u[c] = Text(Reference(CredVarName(model, c)))
  <2> TAKE c \in Leaves(u) \cap (P \cup {p})
  <2>1. CASE c = p
    BY <1>3, <2>1 DEF node
  <2>2. CASE c # p
    BY <1>8, <2>2 DEF Placed
  <2> QED
    BY <2>1, <2>2
<1>10. \A x \in Leaves(u) \ (P \cup {p}) : u[x] = t0[x]
  BY <1>8 DEF Placed
<1>11. DOMAIN t0 \cup (P \cup {p}) \subseteq DOMAIN u
  BY <1>2, <1>3
<1>12. Placed(t0, u, P \cup {p}, model)
  BY <1>3, <1>7, <1>9, <1>10, <1>11 DEF Placed
<1> QED
  BY <1>12 DEF u, node

(* substituteCreds succeeds only with every reference at a key of its own, *)
(* none taken from the model.                                              *)
PathsTo(refs, k) == {refs[j].path : j \in 1..k}
After(acc, tree, refs, model, id, k) ==
  /\ DOMAIN acc = {"ok", "tree", "creds"}
  /\ acc.ok =>
       /\ Placed(tree, acc.tree, PathsTo(refs, k), model)
       /\ \A i, j \in 1..k : refs[i].path = refs[j].path => i = j
       /\ acc.creds \in Seq({CredOf(r, model, id) : r \in ToSet(refs)})

LEMMA SubstitutedCreds ==
  ASSUME NEW tree, WellFormed(tree), NEW model \in Seq(Token), NEW id,
         NEW R, NEW refs \in Seq(R), \A r \in R : r.path \in Path
  PROVE  After(SubstituteCreds(tree, refs, model, id), tree, refs, model, id,
               Len(refs))
<1>1. PICK acc :
        /\ Substitutes(acc, tree, refs, model, id)
        /\ SubstituteCreds(tree, refs, model, id) = acc[Len(refs)]
  BY SubstituteSteps
<1> DEFINE K == {k \in Nat : k <= Len(refs) =>
                    After(acc[k], tree, refs, model, id, k)}
           C == {CredOf(r, model, id) : r \in ToSet(refs)}
<1>2. 0 \in K
  <2>1. acc[0] = [ok |-> TRUE, tree |-> tree, creds |-> <<>>]
    BY <1>1 DEF Substitutes
  <2>2. PathsTo(refs, 0) = {} /\ 1..0 = {}
    BY DEF PathsTo
  <2>3. Placed(tree, tree, {}, model)
    BY DEF Placed, Leaves
  <2>4. /\ acc[0].ok /\ acc[0].tree = tree /\ acc[0].creds = <<>>
        /\ DOMAIN acc[0] = {"ok", "tree", "creds"}
    BY <2>1
  <2>5. <<>> \in Seq(C)
    OBVIOUS
  <2>6. After(acc[0], tree, refs, model, id, 0)
    BY <2>2, <2>3, <2>4, <2>5 DEF After
  <2> QED
    BY <2>6
<1>3. ASSUME NEW k \in Nat, k \in K PROVE k + 1 \in K
  <2> SUFFICES ASSUME k + 1 <= Len(refs)
               PROVE  After(acc[k + 1], tree, refs, model, id, k + 1)
    OBVIOUS
  <2> DEFINE r == refs[k + 1]
             old == acc[k]
             new == acc[k + 1]
             node == Text(Reference(CredVarName(model, r.path)))
  <2>1. After(old, tree, refs, model, id, k)
    BY <1>3
  <2>2. new = WithCred(old, r, model, id)
    <3>1. k + 1 \in 1..Len(refs) /\ (k + 1) - 1 = k
      OBVIOUS
    <3> QED
      BY <1>1, <3>1 DEF Substitutes
  <2>3. r \in R /\ r \in ToSet(refs)
    <3>1. k + 1 \in DOMAIN refs
      OBVIOUS
    <3> QED
      BY <3>1 DEF ToSet
  <2> HIDE DEF r, old, new
  <2>4. CASE ~old.ok \/ r.ref = <<>> \/ r.path \in DOMAIN old.tree
    <3>1. new = [old EXCEPT !.ok = FALSE]
      BY <2>2, <2>4 DEF WithCred
    <3>2. DOMAIN new = {"ok", "tree", "creds"} /\ ~new.ok
      BY <2>1, <3>1 DEF After
    <3> QED
      BY <3>2 DEF After, new
  <2>5. CASE old.ok /\ r.ref # <<>> /\ r.path \notin DOMAIN old.tree
    <3>1. new = [ok |-> TRUE, tree |-> SetPath(old.tree, r.path, node),
                 creds |-> Append(old.creds, CredOf(r, model, id))]
      BY <2>2, <2>5 DEF WithCred
    <3>2. /\ DOMAIN new = {"ok", "tree", "creds"} /\ new.ok
          /\ new.tree = SetPath(old.tree, r.path, node)
          /\ new.creds = Append(old.creds, CredOf(r, model, id))
      BY <3>1
    <3>3. /\ Placed(tree, old.tree, PathsTo(refs, k), model)
          /\ \A i, j \in 1..k : refs[i].path = refs[j].path => i = j
          /\ old.creds \in Seq(C)
      BY <2>1, <2>5 DEF After
    <3>4. PathsTo(refs, k + 1) = PathsTo(refs, k) \cup {r.path}
      <4>1. \A j \in 1..(k + 1) : j \in 1..k \/ j = k + 1
        OBVIOUS
      <4>2. 1..k \subseteq 1..(k + 1) /\ k + 1 \in 1..(k + 1)
        OBVIOUS
      <4> QED
        BY <4>1, <4>2 DEF PathsTo, r
    <3>5. Placed(tree, new.tree, PathsTo(refs, k + 1), model)
      BY <2>3, <2>5, <3>2, <3>3, <3>4, PlaceCred DEF node
    <3>6. \A i \in 1..k : refs[i].path # r.path
      BY <2>5, <3>3 DEF Placed, PathsTo
    <3>7. \A i, j \in 1..(k + 1) : refs[i].path = refs[j].path => i = j
      <4>1. \A i \in 1..(k + 1) : i \in 1..k \/ (i = k + 1 /\ refs[i] = r)
        BY DEF r
      <4> QED
        BY <3>3, <3>6, <4>1
    <3>8. CredOf(r, model, id) \in C
      BY <2>3
    <3> HIDE DEF C
    <3>9. new.creds \in Seq(C)
      BY <3>2, <3>3, <3>8
    <3>10. After(new, tree, refs, model, id, k + 1)
      BY <3>2, <3>5, <3>7, <3>9 DEF After, C
    <3> QED
      BY <3>10 DEF new
  <2> QED
    BY <2>4, <2>5
<1> HIDE DEF K
<1>4. Len(refs) \in K
  BY <1>2, <1>3, Induction
<1> QED
  BY <1>1, <1>4 DEF K
-----------------------------------------------------------------------------
(* A model as built.                                                       *)

(* Merged and pruned, a source has the leaves its origin has.              *)
Merged(ps, src) == PruneOptOut(DeepMerge(Inherited(ps, src), src.tree))

LEMMA MergedOrigin ==
  ASSUME NEW src, WellFormed(src.tree), Filled(src.tree),
         WellFormed(Inherited(world.profiles, src))
  PROVE  LET merged == Merged(world.profiles, src)
         IN /\ WellFormed(merged)
            /\ Leaves(merged)
                 = {p \in DOMAIN Origin(src) : Origin(src)[p] # OptOut}
            /\ \A p \in Leaves(merged) : merged[p] = Origin(src)[p]
<1> DEFINE base == Inherited(world.profiles, src)
           over == src.tree
           both == DeepMerge(base, over)
           merged == PruneOptOut(both)
           L == Leaves(over) \cup
                  {q \in Leaves(base) : \A o \in Leaves(over) : ~Related(o, q)}
           origin == [p \in L |-> IF p \in DOMAIN over THEN over[p] ELSE base[p]]
<1>1. Origin(src) = origin
  BY DEF Origin
<1>2. Merged(world.profiles, src) = merged
  BY DEF Merged
<1> HIDE DEF base, over
<1>3. WellFormed(both) /\ Leaves(both) = L
  BY MergedWellFormed, MergedLeaves DEF base, over
<1>4. \A p \in DOMAIN both :
        both[p] = IF p \in DOMAIN over THEN over[p] ELSE base[p]
  BY DEF DeepMerge
<1>5. DOMAIN origin = L
      /\ \A p \in L : origin[p] = IF p \in DOMAIN over THEN over[p] ELSE base[p]
  OBVIOUS
<1> HIDE DEF origin, L, both
<1>6. \A p \in L : p \in DOMAIN both /\ origin[p] = both[p]
  BY <1>3, <1>4, <1>5 DEF Leaves
<1>7. /\ WellFormed(merged)
      /\ Leaves(merged) = {p \in Leaves(both) : both[p] # OptOut}
      /\ \A p \in DOMAIN merged : merged[p] = both[p]
  BY <1>3, PrunedTree
<1> HIDE DEF merged
<1>8. Leaves(merged) = {p \in DOMAIN origin : origin[p] # OptOut}
  BY <1>3, <1>5, <1>6, <1>7
<1>9. \A p \in Leaves(merged) : merged[p] = origin[p]
  BY <1>3, <1>6, <1>7 DEF Leaves
<1> QED
  BY <1>1, <1>2, <1>7, <1>8, <1>9

LEMMA InheritedTree ==
  ASSUME Reads, Built, pc # "list", NEW src
  PROVE  /\ Inherited(profiles, src) = Inherited(world.profiles, src)
         /\ WellFormed(Inherited(world.profiles, src))
<1>1. WellFormed(Empty)
  BY DEF WellFormed, Empty
<1> QED
  BY <1>1 DEF Reads, IsWorld, Built, Inherited

LEMMA DataType ==
  ASSUME Reads, NEW src, src.container \in Seq(Token), NEW name \in Seq(Token)
  PROVE  \A d \in DOMAIN Data(src, name) : Data(src, name)[d] \in Seq(Token)
BY DEF Data, Fields, Reads, IsWorld

(* What BuildWithCreds makes of a source.                                  *)
Model(src, name) ==
  SubstituteCreds(CoerceTree(ExpandTemplates(Merged(profiles, src),
                                             Data(src, name))),
                  src.refs, name, src.id)

LEMMA BuiltTree ==
  ASSUME Reads, Built, pc # "list",
         NEW src, IsSource(src), src.container \in Seq(Token),
         NEW name \in Seq(Token), Model(src, name).ok
  PROVE  /\ IsModel(Model(src, name).tree, src, name)
         /\ Model(src, name).creds
              \in Seq({CredOf(r, name, src.id) : r \in ToSet(src.refs)})
<1> DEFINE merged == Merged(world.profiles, src)
           data == Data(src, name)
           tree == CoerceTree(ExpandTemplates(merged, data))
           model == SubstituteCreds(tree, src.refs, name, src.id)
           t == model.tree
           R == [path : Path, kind : {"env", "file"}, ref : Seq(Token)]
           P == CredPaths(src)
<1>1. Model(src, name) = model
  BY InheritedTree DEF Model, Merged
<1>2. \A d \in DOMAIN data : data[d] \in Seq(Token)
  BY DataType
<1>3. /\ WellFormed(merged)
      /\ Leaves(merged) = {p \in DOMAIN Origin(src) : Origin(src)[p] # OptOut}
      /\ \A p \in Leaves(merged) : merged[p] = Origin(src)[p]
  BY MergedOrigin, InheritedTree DEF IsSource
<1> HIDE DEF merged, data
<1>4. /\ WellFormed(tree) /\ Leaves(tree) = Leaves(merged)
      /\ \A p \in DOMAIN merged :
           tree[p] = CoerceNode(p, ExpandNode(merged[p], data))
  BY <1>2, <1>3, CoercedTree
<1> HIDE DEF tree
<1>5. src.refs \in Seq(R) /\ \A r \in R : r.path \in Path
  BY DEF IsSource
<1> HIDE DEF R
<1>6. After(model, tree, src.refs, name, src.id, Len(src.refs))
  BY <1>4, <1>5, SubstitutedCreds
<1> HIDE DEF model
<1>7. model.ok
  BY <1>1
<1>8. DOMAIN src.refs = 1..Len(src.refs)
  BY <1>5
<1>9. PathsTo(src.refs, Len(src.refs)) = P
  BY <1>8 DEF PathsTo, CredPaths, ToSet
<1>10. /\ Placed(tree, t, P, name)
       /\ \A i, j \in DOMAIN src.refs :
            src.refs[i].path = src.refs[j].path => i = j
       /\ model.creds \in Seq({CredOf(r, name, src.id) : r \in ToSet(src.refs)})
  BY <1>6, <1>7, <1>8, <1>9 DEF After
<1> HIDE DEF P, t
<1>11. WellFormed(t) /\ Leaves(t) = DeclaredLeaves(src)
  BY <1>3, <1>4, <1>10 DEF Placed, DeclaredLeaves, CredLeaves, P
<1>12. \A c \in CredLeaves(src) : t[c] = Text(Reference(CredVarName(name, c)))
  BY <1>10, <1>11 DEF Placed, DeclaredLeaves, CredLeaves, P
<1>13. \A p \in (Leaves(t) \cap DOMAIN Origin(src)) \ P :
         t[p] = Coerced(Origin(src)[p], p, src, name)
  <2> TAKE p \in (Leaves(t) \cap DOMAIN Origin(src)) \ P
  <2>1. p \in Leaves(merged) /\ t[p] = tree[p]
    BY <1>4, <1>10 DEF Placed
  <2>2. tree[p] = CoerceNode(p, ExpandNode(Origin(src)[p], data))
    BY <1>3, <1>4, <2>1 DEF Leaves
  <2> QED
    BY <2>1, <2>2 DEF Coerced, data
<1>14. IsModel(t, src, name)
  BY <1>10, <1>11, <1>12, <1>13 DEF IsModel, P
<1> QED
  BY <1>1, <1>10, <1>14 DEF t

LEMMA SameWorldModel ==
  ASSUME UNCHANGED world
  PROVE  \A t, src, m : IsModel(t, src, m)' <=> IsModel(t, src, m)
<1>1. \A src : Inherited(world.profiles, src)' = Inherited(world.profiles, src)
  BY DEF Inherited
<1>2. \A src : Origin(src)' = Origin(src)
  BY <1>1 DEF Origin
<1>3. \A src : DeclaredLeaves(src)' = DeclaredLeaves(src)
  BY <1>2 DEF DeclaredLeaves
<1>4. \A src, m : Data(src, m)' = Data(src, m)
  BY DEF Data
<1>5. \A node, p, src, m : Coerced(node, p, src, m)' = Coerced(node, p, src, m)
  BY <1>4 DEF Coerced
<1> QED
  BY <1>2, <1>3, <1>5 DEF IsModel

LEMMA BuiltInit == Init => Built
BY DEF Init, Built

(* Built is kept where models are not made, and rewritten only after       *)
(* archives have been looked into.                                         *)
LEMMA BuiltKept ==
  ASSUME Built, UNCHANGED <<world, made>>, DOMAIN models' = DOMAIN models,
         pc' = "list" \/ (pc # "list" /\ UNCHANGED profiles)
           \/ profiles' = world.profiles,
         \/ UNCHANGED models /\ (pc' \in {"list", "build", "archive"}
                                   => pc \in {"list", "build", "archive"})
         \/ pc' \notin {"list", "build", "archive"}
  PROVE  Built'
<1>1. \A m \in DOMAIN made' :
        /\ m \in Seq(Token) /\ IsSource(made'[m].src)
        /\ IsClient(made[m].src.id)'
        /\ IsModel(made[m].tree, made[m].src, m)'
  <2>1. \A m \in DOMAIN made : IsModel(made[m].tree, made[m].src, m)
    BY DEF Built
  <2>2. \A m \in DOMAIN made : IsModel(made[m].tree, made[m].src, m)'
    BY <2>1, SameWorldModel
  <2>3. \A m \in DOMAIN made :
          m \in Seq(Token) /\ IsSource(made[m].src) /\ IsClient(made[m].src.id)'
    BY DEF Built, IsClient
  <2> QED
    BY <2>2, <2>3
<1>2. pc' # "list" => /\ DOMAIN profiles' = DOMAIN world'.profiles
                      /\ \A n \in DOMAIN profiles' :
                           profiles'[n] = world'.profiles[n]
  BY DEF Built
<1>3. pc' \in {"list", "build", "archive"} =>
        \A m \in DOMAIN models' : models'[m] = made'[m].tree
  BY DEF Built
<1>4. DOMAIN made' = DOMAIN models'
  BY DEF Built
<1> QED
  BY <1>1, <1>2, <1>3, <1>4 DEF Built

LEMMA ModelNameType ==
  ASSUME Reads, NEW container \in Seq(Token), NEW custom \in Seq(Token)
  PROVE  ModelName(container, custom) \in Seq(Token)
<1>1. "-" \in Token
  BY DEF Token
<1>2. <<"-">> \in Seq(Token)
  BY <1>1, OneElement
<1>3. world.host \in Seq(Token)
  BY DEF Reads, IsWorld
<1> QED
  BY <1>2, <1>3, Concatenated DEF ModelName

(* BuildModel: nothing, or a model more.                                   *)
LEMMA OneModelMore ==
  ASSUME Reads, Built, BuildModel
  PROVE  LET src == Head(sources)
             name == ModelName(src.container, src.name)
             model == Model(src, name)
         IN /\ IsSource(src) /\ src.container \in Seq(Token)
            /\ name \in Seq(Token) /\ IsClient(src.id)
            /\ \/ UNCHANGED <<models, creds, made>>
               \/ /\ name \notin DOMAIN models /\ model.ok
                  /\ models' = Put(models, name, model.tree)
                  /\ creds' = creds \o model.creds
                  /\ made' = Put(made, name, [src |-> src, tree |-> model.tree])
<1> DEFINE src == Head(sources)
           name == ModelName(src.container, src.name)
           model == Model(src, name)
<1>1. src \in ToSet(sources)
  BY TailElements DEF BuildModel, Reads
<1>2. /\ IsSource(src) /\ src.container \in Seq(Token)
      /\ src.name \in Seq(Token) /\ IsClient(src.id)
  BY <1>1 DEF Reads, IsSource
<1>3. name \in Seq(Token)
  BY <1>2, ModelNameType
<1>4. \/ UNCHANGED <<models, creds, made>>
      \/ /\ name \notin DOMAIN models /\ model.ok
         /\ models' = Put(models, name, model.tree)
         /\ creds' = creds \o model.creds
         /\ made' = Put(made, name, [src |-> src, tree |-> model.tree])
  BY DEF BuildModel, Model, Merged
<1> QED
  BY <1>2, <1>3, <1>4

LEMMA BuildModelBuilt ==
  ASSUME Reads, Built, BuildModel PROVE Built'
<1> DEFINE src == Head(sources)
           name == ModelName(src.container, src.name)
           model == Model(src, name)
<1>1. pc = "build" /\ UNCHANGED <<world, pc>>
      /\ profiles' = [n \in DOMAIN profiles |->
                        IF n = ProfileName(src)
                        THEN Kept(profiles[n], PruneOptOut(DeepMerge(
                               Inherited(profiles, src), src.tree)))
                        ELSE profiles[n]]
  BY DEF BuildModel
<1>2. /\ IsSource(src) /\ src.container \in Seq(Token) /\ name \in Seq(Token)
      /\ IsClient(src.id)
      /\ \/ UNCHANGED <<models, creds, made>>
         \/ /\ name \notin DOMAIN models /\ model.ok
            /\ models' = Put(models, name, model.tree)
            /\ creds' = creds \o model.creds
            /\ made' = Put(made, name, [src |-> src, tree |-> model.tree])
  BY OneModelMore
<1>3. model.ok => IsModel(model.tree, src, name)
  BY <1>1, <1>2, BuiltTree
<1> HIDE DEF src, name, model
<1>4. /\ DOMAIN profiles' = DOMAIN profiles
      /\ \A n \in DOMAIN profiles : profiles'[n] = profiles[n]
  BY <1>1 DEF Kept
<1>5. /\ DOMAIN profiles' = DOMAIN world'.profiles
      /\ \A n \in DOMAIN profiles' : profiles'[n] = world'.profiles[n]
  BY <1>1, <1>4 DEF Built
<1>6. CASE UNCHANGED <<models, creds, made>>
  <2>1. \A m \in DOMAIN made : IsModel(made[m].tree, made[m].src, m)'
    BY <1>1, <1>6, SameWorldModel DEF Built
  <2> QED
    BY <1>1, <1>5, <1>6, <2>1 DEF Built, IsClient
<1>7. CASE /\ name \notin DOMAIN models /\ model.ok
           /\ models' = Put(models, name, model.tree)
           /\ made' = Put(made, name, [src |-> src, tree |-> model.tree])
  <2>1. /\ DOMAIN models' = DOMAIN models \cup {name}
        /\ DOMAIN made' = DOMAIN made \cup {name}
        /\ models'[name] = model.tree
        /\ made'[name].tree = model.tree /\ made'[name].src = src
        /\ \A m \in DOMAIN models : m # name /\ models'[m] = models[m]
        /\ \A m \in DOMAIN made : m # name => made'[m] = made[m]
    BY <1>7 DEF Put
  <2>2. DOMAIN made = DOMAIN models /\ DOMAIN made' = DOMAIN models'
    BY <2>1 DEF Built
  <2>3. \A m \in DOMAIN models' : models'[m] = made'[m].tree
    BY <1>1, <2>1, <2>2 DEF Built
  <2>4. ASSUME NEW m \in DOMAIN made'
        PROVE  /\ m \in Seq(Token) /\ IsSource(made'[m].src)
               /\ IsClient(made[m].src.id)'
               /\ IsModel(made[m].tree, made[m].src, m)'
    <3>1. CASE m = name
      <4>1. IsModel(made'[m].tree, made'[m].src, m)
        BY <1>3, <1>7, <2>1, <3>1
      <4> QED
        BY <1>1, <1>2, <2>1, <3>1, <4>1, SameWorldModel DEF IsClient
    <3>2. CASE m # name
      <4>1. m \in DOMAIN made /\ made'[m] = made[m]
        BY <2>1, <3>2
      <4>2. /\ m \in Seq(Token) /\ IsSource(made[m].src)
            /\ IsClient(made[m].src.id)
            /\ IsModel(made[m].tree, made[m].src, m)
        BY <4>1 DEF Built
      <4> QED
        BY <1>1, <4>1, <4>2, SameWorldModel DEF IsClient
    <3> QED
      BY <3>1, <3>2
  <2> QED
    BY <1>5, <2>2, <2>3, <2>4 DEF Built
<1> QED
  BY <1>2, <1>6, <1>7

LEMMA BuiltNext == Reads /\ Built /\ [Next]_vars => Built'
<1> SUFFICES ASSUME Reads, Built, [Next]_vars PROVE Built'
  OBVIOUS
<1>1. ASSUME NEW p \in left, ReadMeta(p) \/ ReadCredRef(p) \/ ReadSetting(p)
      PROVE  Built'
  BY <1>1, BuiltKept DEF ReadMeta, ReadCredRef, ReadSetting, Reading,
                         buildVars
<1>2. CASE EndContainer
  BY <1>2, BuiltKept DEF EndContainer, buildVars
<1>3. CASE LoadProfiles
  BY <1>3, BuiltKept DEF LoadProfiles
<1>4. CASE BuildModel
  BY <1>4, BuildModelBuilt
<1>5. CASE StartDiscovery
  BY <1>5, BuiltKept DEF StartDiscovery, buildVars
<1>6. ASSUME NEW m \in left, NEW ok \in BOOLEAN, DiscoverArchive(m, ok)
      PROVE  Built'
  BY <1>6, BuiltKept DEF DiscoverArchive, Walk, buildVars
<1>7. ASSUME NEW m \in left, NEW ok \in BOOLEAN, DiscoverSqlite(m, ok)
      PROVE  Built'
  <2>1. /\ pc = "sqlite" /\ UNCHANGED <<world, made, pc, profiles>>
        /\ DOMAIN models' = DOMAIN models
    BY <1>7 DEF DiscoverSqlite, Walk
  <2> QED
    BY <2>1, BuiltKept
<1>8. CASE ApplyArchiveVolumes
  <2>1. /\ pc = "archive" /\ pc' = "sqlite" /\ UNCHANGED <<world, made, profiles>>
        /\ DOMAIN models' = DOMAIN models
    BY <1>8 DEF ApplyArchiveVolumes
  <2> QED
    BY <2>1, BuiltKept
<1>9. CASE DedupMounts \/ WriteConfig
  BY <1>9, BuiltKept DEF DedupMounts, WriteConfig, buildVars
<1>10. CASE (\E ok \in BOOLEAN : ResolveCred(ok)) \/ EndPass
  BY <1>10, BuiltKept DEF ResolveCred, EndPass, buildVars
<1>11. CASE NextPass
  BY <1>11 DEF NextPass, Built
<1>12. CASE UNCHANGED vars
  <2>1. UNCHANGED <<world, made, models, pc, profiles>>
    BY <1>12 DEF vars, buildVars
  <2> QED
    BY <2>1, BuiltKept
<1> QED
  BY <1>1, <1>2, <1>3, <1>4, <1>5, <1>6, <1>7, <1>8, <1>9, <1>10, <1>11,
     <1>12 DEF Next
-----------------------------------------------------------------------------
(* Discovery.                                                              *)

(* Trees whose lists may have been rewritten: above a key there are maps.  *)
Rooted(t) ==
  /\ DOMAIN t \subseteq Path
  /\ \A p \in DOMAIN t : \A a \in Above(p) : a \in DOMAIN t /\ t[a] = Map

LEMMA WellFormedRooted ==
  ASSUME NEW t, WellFormed(t)
  PROVE  Rooted(t)
<1>1. ASSUME NEW node, IsNode(node), node.kind = "map" PROVE node = Map
  <2>1. node.val = <<>> /\ node \in [kind : Kinds, val : Seq(Seq(Token))]
    BY <1>1 DEF IsNode
  <2>2. node = [kind |-> node.kind, val |-> node.val]
    BY <2>1
  <2> QED
    BY <1>1, <2>1, <2>2 DEF Map
<1> QED
  BY <1>1 DEF WellFormed, IsMap, Rooted

(* Setting a leaf again touches nothing else.                              *)
LEMMA SetSamePath ==
  ASSUME NEW t, Rooted(t), NEW p \in DOMAIN t, t[p].kind # "map",
         NEW v, v.kind # "map"
  PROVE  /\ Rooted(SetPath(t, p, v)) /\ DOMAIN SetPath(t, p, v) = DOMAIN t
         /\ \A q \in DOMAIN t :
              SetPath(t, p, v)[q] = IF q = p THEN v ELSE t[q]
<1> DEFINE u == SetPath(t, p, v)
<1>1. p \in Path /\ Map.kind = "map" /\ t[p] # Map
  BY NodeKinds DEF Rooted
<1>2. Under(DOMAIN t, p) = {p}
  <2>1. ASSUME NEW q \in DOMAIN t, IsPrefix(p, q), q # p PROVE FALSE
    <3>1. p \in Above(q)
      BY <1>1, <2>1, PrefixesAreAbove DEF Rooted
    <3> QED
      BY <1>1, <3>1 DEF Rooted
  <2>2. IsPrefix(p, p)
    BY <1>1, PrefixReflexive DEF Path
  <2> QED
    BY <2>1, <2>2 DEF Under
<1>3. \A a \in Above(p) : a \in DOMAIN t /\ t[a] = Map /\ a # p
  BY <1>1 DEF Rooted
<1>4. DOMAIN u = (DOMAIN t \ {p}) \cup Above(p) \cup {p}
      /\ \A q \in DOMAIN u :
           u[q] = IF q = p THEN v ELSE IF q \in Above(p) THEN Map ELSE t[q]
  BY <1>2 DEF SetPath
<1> HIDE DEF u
<1>5. DOMAIN u = DOMAIN t
  BY <1>3, <1>4
<1>6. \A q \in DOMAIN t : u[q] = IF q = p THEN v ELSE t[q]
  BY <1>3, <1>4, <1>5
<1>7. Rooted(u)
  <2>1. \A q \in DOMAIN t : \A a \in Above(q) :
          a \in DOMAIN t /\ t[a] = Map /\ a # p
    BY <1>1 DEF Rooted
  <2> QED
    BY <1>5, <1>6, <2>1 DEF Rooted
<1> QED
  BY <1>5, <1>6, <1>7 DEF u

(* A list is set where there is one.                                       *)
LEMMA ListRewritten ==
  ASSUME NEW t, Rooted(t), NEW key, NEW texts,
         texts = <<>> \/ StringsAt(t, key) # <<>>
  PROVE  /\ Rooted(WithStrings(t, key, texts))
         /\ DOMAIN WithStrings(t, key, texts) = DOMAIN t
         /\ \A p \in DOMAIN t :
              \/ WithStrings(t, key, texts)[p] = t[p]
              \/ /\ p = key /\ t[p].kind \in {"list", "strings"}
                 /\ WithStrings(t, key, texts)[p].kind = "strings"
<1>1. CASE texts = <<>>
  BY <1>1 DEF WithStrings
<1>2. CASE texts # <<>>
  <2>1. key \in DOMAIN t /\ t[key].kind \in {"list", "strings"}
    BY <1>2 DEF StringsAt
  <2>2. t[key].kind # "map" /\ Strings(texts).kind = "strings"
    BY <2>1 DEF Strings
  <2>3. WithStrings(t, key, texts) = SetPath(t, key, Strings(texts))
    BY <1>2 DEF WithStrings
  <2>4. /\ Rooted(SetPath(t, key, Strings(texts)))
        /\ DOMAIN SetPath(t, key, Strings(texts)) = DOMAIN t
        /\ \A q \in DOMAIN t : SetPath(t, key, Strings(texts))[q]
                                 = IF q = key THEN Strings(texts) ELSE t[q]
    BY <2>1, <2>2, SetSamePath
  <2> QED
    BY <2>1, <2>2, <2>3, <2>4
<1> QED
  BY <1>1, <1>2

LEMMA ListKeys ==
  /\ Last(Includes) = "includes" /\ Last(Excludes) = "excludes"
  /\ Includes # Excludes
  /\ \A db : Last(DbPath(db)) = "path" /\ DbPath(db)[2] = db
BY DEF Includes, Excludes, Last, DbPath

(* What discovery may change of a model.                                   *)
Kin(old, t, m) ==
  DOMAIN t = DOMAIN old
  /\ \A p \in DOMAIN t :
       /\ Rewritten(old[p], t[p], m)
       /\ Last(p) \in {"path", "includes", "excludes"} \/ t[p] = old[p]

(* Both lists of an archive.                                               *)
LEMMA ArchiveRewritten ==
  ASSUME NEW t, Rooted(t), NEW ins, NEW outs, NEW m,
         ins = <<>> \/ StringsAt(t, Includes) # <<>>,
         outs = <<>> \/ StringsAt(t, Excludes) # <<>>
  PROVE  Kin(t, WithStrings(WithStrings(t, Includes, ins), Excludes, outs), m)
<1> DEFINE s == WithStrings(t, Includes, ins)
           u == WithStrings(s, Excludes, outs)
<1>1. /\ Rooted(s) /\ DOMAIN s = DOMAIN t
      /\ \A p \in DOMAIN t :
           \/ s[p] = t[p]
           \/ /\ p = Includes /\ t[p].kind \in {"list", "strings"}
              /\ s[p].kind = "strings"
  BY ListRewritten
<1> HIDE DEF s
<1>2. StringsAt(s, Excludes) = StringsAt(t, Excludes)
  BY <1>1, ListKeys DEF StringsAt
<1>3. /\ DOMAIN u = DOMAIN s
      /\ \A p \in DOMAIN s :
           \/ u[p] = s[p]
           \/ /\ p = Excludes /\ s[p].kind \in {"list", "strings"}
              /\ u[p].kind = "strings"
  BY <1>1, <1>2, ListRewritten
<1> HIDE DEF u
<1>4. \A p \in DOMAIN t :
        /\ Rewritten(t[p], u[p], m)
        /\ Last(p) \in {"path", "includes", "excludes"} \/ u[p] = t[p]
  <2> TAKE p \in DOMAIN t
  <2>1. CASE u[p] = t[p]
    BY <2>1 DEF Rewritten
  <2>2. CASE u[p] # t[p]
    <3>1. /\ t[p].kind \in {"list", "strings"} /\ u[p].kind = "strings"
          /\ p \in {Includes, Excludes}
      BY <1>1, <1>3, <2>2
    <3> QED
      BY <3>1, ListKeys DEF Rewritten
  <2> QED
    BY <2>1, <2>2
<1> QED
  BY <1>1, <1>3, <1>4 DEF u, s, Kin

(* A path that was moved is not moved again.                               *)
LEMMA MovedOnce ==
  ASSUME NEW m \in Seq(Token), NEW path \in Seq(Token)
  PROVE  IsPrefix(VolumesRoot, Transformed(m, path))
<1> DEFINE root == VolumesRoot
<1>1. root \in Seq(Token)
  <2>1. \A x, y, z \in Token : <<x, y, z>> \in Seq(Token)
    OBVIOUS
  <2> QED
    BY <2>1 DEF VolumesRoot, Token
<1>2. Transformed(m, path) = (root \o m) \o path
  BY DEF Transformed
<1> HIDE DEF root
<1>3. (root \o m) \o path = root \o (m \o path) /\ m \o path \in Seq(Token)
  BY <1>1, ConcatAssociative, Concatenated
<1>4. /\ root \o (m \o path) \in Seq(Token)
      /\ Len(root) <= Len(root \o (m \o path))
      /\ \A i \in 1..Len(root) : root[i] = (root \o (m \o path))[i]
  BY <1>1, <1>3, Concatenated
<1>5. IsPrefix(root, root \o (m \o path))
  BY <1>1, <1>4, PrefixByKeys
<1> QED
  BY <1>2, <1>3, <1>5 DEF root

LEMMA DiscoveredKin ==
  Discovered <=>
    /\ \A m \in DOMAIN models : Kin(made[m].tree, models[m], m)
    /\ pc \in {"list", "build"} => volumes = <<>>
    /\ volumes \in Seq(ToSet(volumes))
    /\ pc = "archive" => \A v \in ToSet(volumes) :
         /\ v.includes = <<>> \/ StringsAt(models[v.model], Includes) # <<>>
         /\ v.excludes = <<>> \/ StringsAt(models[v.model], Excludes) # <<>>
BY DEF Discovered, Kin

LEMMA NoVolumes == ToSet(<<>>) = {} /\ <<>> \in Seq(ToSet(<<>>))
BY DEF ToSet

(* Nothing is discovered.                                                  *)
LEMMA DiscoveredKept ==
  ASSUME Discovered, UNCHANGED <<models, made, volumes>>,
         pc' = pc \/ (pc' \notin {"list", "build"} /\ volumes = <<>>)
           \/ pc' \notin {"list", "build", "archive"}
           \/ (pc = "list" /\ pc' = "build")
  PROVE  Discovered'
<1>1. \A m \in DOMAIN models' : Kin(made'[m].tree, models'[m], m)
  BY DEF Discovered, Kin
<1>2. pc' \in {"list", "build"} => volumes' = <<>>
  BY DEF Discovered
<1>3. volumes' \in Seq(ToSet(volumes'))
  BY DEF Discovered
<1>4. pc' = "archive" => \A v \in ToSet(volumes') :
         /\ v.includes = <<>> \/ StringsAt(models'[v.model], Includes) # <<>>
         /\ v.excludes = <<>> \/ StringsAt(models'[v.model], Excludes) # <<>>
  BY NoVolumes DEF Discovered
<1> QED
  BY <1>1, <1>2, <1>3, <1>4 DEF Discovered, Kin

LEMMA BuildModelDiscovered ==
  ASSUME Reads, Built, Discovered, BuildModel PROVE Discovered'
<1> DEFINE src == Head(sources)
           name == ModelName(src.container, src.name)
           model == Model(src, name)
<1>1. pc = "build" /\ UNCHANGED <<pc, volumes>>
  BY DEF BuildModel, volumeVars
<1>2. \/ UNCHANGED <<models, creds, made>>
      \/ /\ name \notin DOMAIN models
         /\ models' = Put(models, name, model.tree)
         /\ made' = Put(made, name, [src |-> src, tree |-> model.tree])
  BY OneModelMore
<1> HIDE DEF src, name, model
<1>3. CASE UNCHANGED <<models, creds, made>>
  BY <1>1, <1>3, DiscoveredKept
<1>4. CASE /\ name \notin DOMAIN models
           /\ models' = Put(models, name, model.tree)
           /\ made' = Put(made, name, [src |-> src, tree |-> model.tree])
  <2>1. /\ DOMAIN models' = DOMAIN models \cup {name}
        /\ models'[name] = model.tree /\ made'[name].tree = model.tree
        /\ \A m \in DOMAIN models : m # name /\ models'[m] = models[m]
        /\ \A m \in DOMAIN made : m # name => made'[m] = made[m]
    BY <1>4 DEF Put
  <2>2. DOMAIN made = DOMAIN models
    BY DEF Built
  <2>3. \A m \in DOMAIN models' : Kin(made'[m].tree, models'[m], m)
    <3> TAKE m \in DOMAIN models'
    <3>1. CASE m = name
      BY <2>1, <3>1 DEF Kin, Rewritten
    <3>2. CASE m # name
      <4>1. m \in DOMAIN models /\ models'[m] = models[m] /\ made'[m] = made[m]
        BY <2>1, <2>2, <3>2
      <4> QED
        BY <4>1, DiscoveredKin
    <3> QED
      BY <3>1, <3>2
  <2>4. volumes' = <<>> /\ pc' = "build"
    BY <1>1 DEF Discovered
  <2> QED
    BY <2>3, <2>4, NoVolumes DEF Discovered, Kin
<1> QED
  BY <1>2, <1>3, <1>4

(* discoverArchiveVolumes: lists only where there are some.                *)
LEMMA DiscoverArchiveDiscovered ==
  ASSUME Discovered, NEW m, NEW ok, DiscoverArchive(m, ok) PROVE Discovered'
<1>1. pc = "archive" /\ UNCHANGED <<pc, models, made>>
  BY DEF DiscoverArchive, Walk, outVars, buildVars, labelVars
<1> DEFINE found == Only(LAMBDA p : IsMounted(Dests(m), p),
                         StringsAt(models[m], Includes))
           all == [i \in DOMAIN found |->
                     ResolvePathMount(Dests(m), m, found[i], TRUE)]
           v == [model |-> m, mounts |-> FirstBy(LAMBDA d : d.target, all),
                 includes |-> [i \in DOMAIN found |->
                                 Transformed(m, found[i])],
                 excludes |-> StringsAt(models[m], Excludes)]
<1>2. /\ \/ volumes' = volumes
         \/ /\ volumes' = Append(volumes, v)
            /\ StringsAt(models[m], Includes) # <<>>
      /\ v.model = m /\ v.excludes = StringsAt(models[m], Excludes)
  BY DEF DiscoverArchive
<1> HIDE DEF v
<1>3. volumes \in Seq(ToSet(volumes))
  BY DEF Discovered
<1>4. CASE volumes' = volumes
  BY <1>1, <1>4, DiscoveredKept
<1>5. CASE volumes' # volumes
  <2>0. volumes' = Append(volumes, v)
    BY <1>2, <1>5
  <2>1. /\ volumes' \in Seq(ToSet(volumes'))
        /\ ToSet(volumes') = ToSet(volumes) \cup {v}
    BY <1>3, <2>0, AppendElements
  <2>2. \A x \in ToSet(volumes') :
          /\ x.includes = <<>> \/ StringsAt(models[x.model], Includes) # <<>>
          /\ x.excludes = <<>> \/ StringsAt(models[x.model], Excludes) # <<>>
    BY <1>1, <1>2, <1>5, <2>1 DEF Discovered
  <2> QED
    BY <1>1, <2>1, <2>2 DEF Discovered, Kin
<1> QED
  BY <1>4, <1>5

LEMMA ApplyArchiveDiscovered ==
  ASSUME Built, Discovered, ApplyArchiveVolumes PROVE Discovered'
<1> DEFINE own(m) == {v \in ToSet(volumes) : v.model = m}
           first(m) == CHOOSE v \in own(m) : TRUE
           new(m) == IF own(m) = {} THEN models[m]
                     ELSE WithStrings(WithStrings(models[m], Includes,
                                                  first(m).includes),
                                      Excludes, first(m).excludes)
<1>1. /\ models' = [m \in DOMAIN models |-> new(m)]
      /\ pc = "archive" /\ pc' = "sqlite" /\ UNCHANGED <<made, volumes>>
  BY DEF ApplyArchiveVolumes
<1>2. ASSUME NEW m \in DOMAIN models
      PROVE  Kin(made[m].tree, new(m), m)
  <2>1. models[m] = made[m].tree /\ WellFormed(models[m])
    BY <1>1 DEF Built, IsModel
  <2>2. CASE own(m) = {}
    BY <2>1, <2>2 DEF Kin, Rewritten
  <2>3. CASE own(m) # {}
    <3>1. first(m) \in ToSet(volumes) /\ first(m).model = m
      BY <2>3
    <3> DEFINE ins == first(m).includes
               outs == first(m).excludes
               u == WithStrings(WithStrings(models[m], Includes, ins),
                                Excludes, outs)
    <3>2. /\ ins = <<>> \/ StringsAt(models[m], Includes) # <<>>
          /\ outs = <<>> \/ StringsAt(models[m], Excludes) # <<>>
      BY <1>1, <3>1 DEF Discovered
    <3>3. new(m) = u
      BY <2>3
    <3> HIDE DEF ins, outs, new
    <3>4. Rooted(models[m])
      BY <2>1, WellFormedRooted
    <3>5. Kin(models[m], u, m)
      BY <3>2, <3>4, ArchiveRewritten
    <3> HIDE DEF u
    <3> QED
      BY <2>1, <3>3, <3>5
  <2> QED
    BY <2>2, <2>3
<1> HIDE DEF new
<1>3. \A m \in DOMAIN models' : Kin(made'[m].tree, models'[m], m)
  BY <1>1, <1>2
<1> QED
  BY <1>1, <1>3 DEF Discovered, Kin

(* sqliteMountsForModel: paths that are not in the engine's volumes yet.   *)
LEMMA DiscoverSqliteDiscovered ==
  ASSUME Built, Discovered, NEW m, NEW ok, DiscoverSqlite(m, ok)
  PROVE  Discovered'
<1> DEFINE t == models[m]
           path(db) == t[DbPath(db)].val[1]
           found == {db \in SqliteDbs(t) : IsMounted(Dests(m), path(db))}
           moved == [p \in DOMAIN t |->
                       IF \E db \in found : p = DbPath(db)
                       THEN Text(Transformed(m, path(p[2]))) ELSE t[p]]
<1>1. /\ UNCHANGED models \/ models' = [models EXCEPT ![m] = moved]
      /\ pc = "sqlite" /\ UNCHANGED <<pc, made, volumes>>
  BY DEF DiscoverSqlite, Walk
<1>2. CASE UNCHANGED models
  BY <1>1, <1>2, DiscoveredKept
<1>3. CASE models' = [models EXCEPT ![m] = moved]
  <2>1. ASSUME m \in DOMAIN models PROVE Kin(made[m].tree, moved, m)
    <3> DEFINE old == made[m].tree
    <3>1. Kin(old, t, m) /\ WellFormed(old) /\ m \in Seq(Token)
      BY <2>1 DEF Discovered, Kin, Built, IsModel
    <3>2. DOMAIN moved = DOMAIN t
          /\ \A p \in DOMAIN t :
               moved[p] = IF \E db \in found : p = DbPath(db)
                          THEN Text(Transformed(m, path(p[2]))) ELSE t[p]
      OBVIOUS
    <3>3. \A db \in found : /\ IsText(t, DbPath(db))
                            /\ ~IsPrefix(VolumesRoot, path(db))
      BY DEF SqliteDbs
    <3> HIDE DEF t, old, found, moved
    <3>4. ASSUME NEW p \in DOMAIN t
          PROVE  /\ Rewritten(old[p], moved[p], m)
                 /\ \/ Last(p) \in {"path", "includes", "excludes"}
                    \/ moved[p] = old[p]
      <4>1. CASE ~\E db \in found : p = DbPath(db)
        BY <3>1, <3>2, <4>1 DEF Kin
      <4>2. ASSUME NEW db \in found, p = DbPath(db)
            PROVE  Rewritten(old[p], moved[p], m) /\ Last(p) = "path"
        <5>1. p[2] = db /\ Last(p) = "path"
          BY <4>2, ListKeys
        <5>2. moved[p] = Text(Transformed(m, t[p].val[1]))
          BY <3>2, <4>2, <5>1
        <5>3. t[p].kind = "text" /\ ~IsPrefix(VolumesRoot, t[p].val[1])
          BY <3>3, <4>2 DEF IsText
        <5>4. t[p] = old[p]
          <6>1. p \in DOMAIN old /\ IsNode(old[p]) /\ Rewritten(old[p], t[p], m)
            BY <3>1 DEF Kin, WellFormed
          <6>2. CASE /\ old[p].kind = "text"
                     /\ t[p] = Text(Transformed(m, old[p].val[1]))
            <7>1. old[p].val[1] \in Seq(Token)
              BY <6>1, <6>2 DEF IsNode
            <7>2. IsPrefix(VolumesRoot, Transformed(m, old[p].val[1]))
              BY <3>1, <7>1, MovedOnce
            <7> QED
              BY <5>3, <6>2, <7>2 DEF Text
          <6> QED
            BY <5>3, <6>1, <6>2 DEF Rewritten
        <5> QED
          BY <5>1, <5>2, <5>3, <5>4 DEF Rewritten
      <4> QED
        BY <4>1, <4>2
    <3> QED
      BY <3>1, <3>2, <3>4 DEF Kin, old
  <2> HIDE DEF moved
  <2>2. \A x \in DOMAIN models' : Kin(made'[x].tree, models'[x], x)
    <3> TAKE x \in DOMAIN models'
    <3>1. CASE x = m
      BY <1>1, <1>3, <2>1, <3>1
    <3>2. CASE x # m
      BY <1>1, <1>3, <3>2 DEF Discovered, Kin
    <3> QED
      BY <3>1, <3>2
  <2> QED
    BY <1>1, <2>2 DEF Discovered, Kin
<1> QED
  BY <1>1, <1>2, <1>3

LEMMA DiscoveredNext == Reads /\ Built /\ Discovered /\ [Next]_vars => Discovered'
<1> SUFFICES ASSUME Reads, Built, Discovered, [Next]_vars PROVE Discovered'
  OBVIOUS
<1>1. ASSUME NEW p \in left, ReadMeta(p) \/ ReadCredRef(p) \/ ReadSetting(p)
      PROVE  Discovered'
  BY <1>1, DiscoveredKept DEF ReadMeta, ReadCredRef, ReadSetting, Reading,
                              buildVars, volumeVars
<1>2. CASE EndContainer \/ LoadProfiles
  BY <1>2, DiscoveredKept DEF EndContainer, LoadProfiles, buildVars, volumeVars
<1>3. CASE BuildModel
  BY <1>3, BuildModelDiscovered
<1>4. CASE StartDiscovery
  <2>1. /\ pc = "build" /\ pc' \in {"archive", "write"}
        /\ UNCHANGED <<models, made, volumes>>
    BY <1>4 DEF StartDiscovery, buildVars, volumeVars
  <2>2. volumes = <<>>
    BY <2>1 DEF Discovered
  <2> QED
    BY <2>1, <2>2, DiscoveredKept
<1>5. ASSUME NEW m \in left, NEW ok \in BOOLEAN,
             DiscoverArchive(m, ok) \/ DiscoverSqlite(m, ok)
      PROVE  Discovered'
  BY <1>5, DiscoverArchiveDiscovered, DiscoverSqliteDiscovered
<1>6. CASE ApplyArchiveVolumes
  BY <1>6, ApplyArchiveDiscovered
<1>7. CASE DedupMounts \/ WriteConfig
  <2>1. /\ pc' \notin {"list", "build", "archive"}
        /\ UNCHANGED <<models, made, volumes>>
    BY <1>7 DEF DedupMounts, WriteConfig, buildVars, volumeVars
  <2> QED
    BY <2>1, DiscoveredKept
<1>8. CASE (\E ok \in BOOLEAN : ResolveCred(ok)) \/ EndPass
  <2>1. /\ pc' \notin {"list", "build", "archive"}
        /\ UNCHANGED <<models, made, volumes>>
    BY <1>8 DEF ResolveCred, EndPass, buildVars, volumeVars
  <2> QED
    BY <2>1, DiscoveredKept
<1>9. CASE NextPass
  <2>1. volumes' = <<>> /\ DOMAIN models' = {} /\ pc' = "list"
    BY <1>9 DEF NextPass
  <2> QED
    BY <2>1, NoVolumes DEF Discovered
<1>10. CASE UNCHANGED vars
  <2>1. UNCHANGED <<models, made, volumes, pc>>
    BY <1>10 DEF vars, buildVars, volumeVars
  <2> QED
    BY <2>1, DiscoveredKept
<1> QED
  BY <1>1, <1>2, <1>3, <1>4, <1>5, <1>6, <1>7, <1>8, <1>9, <1>10 DEF Next
-----------------------------------------------------------------------------
(* The file, and what the engine is given.                                 *)

LEMMA WrittenKept ==
  ASSUME Written, UNCHANGED file,
         \/ UNCHANGED <<world, models>> /\ pc \in {"creds", "done"}
              /\ pc' \in {"creds", "done"}
         \/ pc \notin {"creds", "done"} /\ pc' \notin {"creds", "done"}
  PROVE  Written'
<1>1. UNCHANGED <<world, models>> => EscapeConfig' = EscapeConfig
  BY DEF EscapeConfig
<1> QED
  BY <1>1 DEF Written

LEMMA WrittenNext == Written /\ [Next]_vars => Written'
<1> SUFFICES ASSUME Written, [Next]_vars PROVE Written'
  OBVIOUS
<1>1. ASSUME NEW p \in left, ReadMeta(p) \/ ReadCredRef(p) \/ ReadSetting(p)
      PROVE  Written'
  BY <1>1, WrittenKept DEF ReadMeta, ReadCredRef, ReadSetting, Reading, outVars
<1>2. CASE EndContainer \/ LoadProfiles \/ BuildModel \/ StartDiscovery
  BY <1>2, WrittenKept DEF EndContainer, LoadProfiles, BuildModel,
                           StartDiscovery, outVars
<1>3. ASSUME NEW m \in left, NEW ok \in BOOLEAN,
             DiscoverArchive(m, ok) \/ DiscoverSqlite(m, ok)
      PROVE  Written'
  BY <1>3, WrittenKept DEF DiscoverArchive, DiscoverSqlite, Walk, outVars
<1>4. CASE ApplyArchiveVolumes \/ DedupMounts
  BY <1>4, WrittenKept DEF ApplyArchiveVolumes, DedupMounts, outVars
<1>5. CASE WriteConfig
  <2>1. /\ pc' \in {"creds", "done"} /\ file' = EscapeConfig
        /\ UNCHANGED <<world, models>>
    BY <1>5 DEF WriteConfig, buildVars
  <2>2. EscapeConfig' = EscapeConfig
    BY <2>1 DEF EscapeConfig
  <2> QED
    BY <2>1, <2>2 DEF Written
<1>6. CASE (\E ok \in BOOLEAN : ResolveCred(ok)) \/ EndPass
  BY <1>6, WrittenKept DEF ResolveCred, EndPass, buildVars, outVars
<1>7. CASE NextPass
  BY <1>7 DEF NextPass, Written
<1>8. CASE UNCHANGED vars
  <2>1. UNCHANGED <<world, models, pc, file>>
    BY <1>8 DEF vars, buildVars, outVars
  <2> QED
    BY <2>1, WrittenKept
<1> QED
  BY <1>1, <1>2, <1>3, <1>4, <1>5, <1>6, <1>7, <1>8 DEF Next

(* Nothing is asked for, and nothing given.                                *)
EnvGiven(e) ==
  \/ e.var = <<"GB_DOLLAR">>
  \/ \E c \in CredsOf("env") :
       /\ e.var = c.var /\ c.ref \in DOMAIN Client(c.id).env
       /\ e.val = Client(c.id).env[c.ref]
FileGiven(e, mnts) ==
  \E c \in CredsOf("file") :
    LET dests == DestMap(Client(c.id).mounts)
    IN /\ e.var = c.var /\ IsMounted(dests, c.ref)
       /\ \E d \in mnts :
            /\ d.target = e.path
            /\ d.source = MountSource(dests[FindMountForPath(c.ref, dests)])

LEMMA ResolvedGiven ==
  Resolved <=> /\ creds \in Seq(CredsOf("env") \cup CredsOf("file"))
               /\ DOMAIN extras = DOMAIN Nothing
               /\ pc \notin {"creds", "done"} => extras = Nothing
               /\ \A e \in extras.env : EnvGiven(e)
               /\ \A e \in extras.exports : FileGiven(e, extras.mounts)
BY DEF Resolved, EnvGiven, FileGiven

LEMMA ResolvedGivenNext ==
  Resolved' <=> /\ creds' \in Seq(CredsOf("env")' \cup CredsOf("file")')
                /\ DOMAIN extras' = DOMAIN Nothing
                /\ pc' \notin {"creds", "done"} => extras' = Nothing
                /\ \A e \in extras'.env : EnvGiven(e)'
                /\ \A e \in extras'.exports : FileGiven(e, extras.mounts)'
BY DEF Resolved, EnvGiven, FileGiven, Nothing

LEMMA SameMakers ==
  ASSUME UNCHANGED <<world, made>>
  PROVE  /\ \A k : CredsOf(k)' = CredsOf(k)
         /\ \A e : EnvGiven(e)' <=> EnvGiven(e)
         /\ \A e, mnts : FileGiven(e, mnts)' <=> FileGiven(e, mnts)
<1>1. \A k : CredsOf(k)' = CredsOf(k)
  BY DEF CredsOf
<1>2. \A id : Client(id)' = Client(id)
  BY DEF Client
<1> QED
  BY <1>1, <1>2 DEF EnvGiven, FileGiven

LEMMA ResolvedKept ==
  ASSUME Resolved, UNCHANGED <<world, made, creds, extras>>,
         pc' \in {"creds", "done"} \/ pc \notin {"creds", "done"}
  PROVE  Resolved'
<1>1. creds' \in Seq(CredsOf("env")' \cup CredsOf("file")')
  BY SameMakers, ResolvedGiven
<1>2. \A e \in extras.env : EnvGiven(e)'
  BY SameMakers, ResolvedGiven
<1>3. \A e \in extras.exports : FileGiven(e, extras.mounts)'
  BY SameMakers, ResolvedGiven
<1>4. /\ DOMAIN extras' = DOMAIN Nothing
      /\ pc' \notin {"creds", "done"} => extras' = Nothing
  BY ResolvedGiven
<1> QED
  BY <1>1, <1>2, <1>3, <1>4, ResolvedGivenNext

LEMMA NothingGiven ==
  /\ DOMAIN Nothing = {"mounts", "env", "exports"}
  /\ Nothing.env = {} /\ Nothing.exports = {} /\ Nothing.mounts = {}
BY DEF Nothing

(* A model more asks for its own credentials.                              *)
LEMMA BuildModelResolved ==
  ASSUME Reads, Built, Resolved, BuildModel PROVE Resolved'
<1> DEFINE src == Head(sources)
           name == ModelName(src.container, src.name)
           model == Model(src, name)
           old == CredsOf("env") \cup CredsOf("file")
           new == CredsOf("env")' \cup CredsOf("file")'
<1>1. pc = "build" /\ UNCHANGED <<pc, world, extras>>
  BY DEF BuildModel, outVars
<1>2. /\ IsSource(src) /\ src.container \in Seq(Token) /\ name \in Seq(Token)
      /\ \/ UNCHANGED <<models, creds, made>>
         \/ /\ name \notin DOMAIN models /\ model.ok
            /\ creds' = creds \o model.creds
            /\ made' = Put(made, name, [src |-> src, tree |-> model.tree])
  BY OneModelMore
<1>3. model.ok => model.creds
                    \in Seq({CredOf(r, name, src.id) : r \in ToSet(src.refs)})
  BY <1>1, <1>2, BuiltTree
<1> HIDE DEF src, name, model
<1>4. CASE UNCHANGED <<models, creds, made>>
  BY <1>1, <1>4, ResolvedKept
<1>5. CASE /\ name \notin DOMAIN models /\ model.ok
           /\ creds' = creds \o model.creds
           /\ made' = Put(made, name, [src |-> src, tree |-> model.tree])
  <2>1. /\ DOMAIN made' = DOMAIN made \cup {name} /\ name \notin DOMAIN made
        /\ made'[name].src = src
        /\ \A m \in DOMAIN made : made'[m] = made[m]
    BY <1>5 DEF Put, Built
  <2>2. ASSUME NEW kind PROVE CredsOf(kind) \subseteq CredsOf(kind)'
    BY <2>1 DEF CredsOf, CredOf
  <2>3. \A r \in ToSet(src.refs) : CredOf(r, name, src.id) \in new
    <3> TAKE r \in ToSet(src.refs)
    <3>1. r.kind \in {"env", "file"}
      <4> DEFINE R == [path : Path, kind : {"env", "file"}, ref : Seq(Token)]
      <4>1. src.refs \in Seq(R)
        BY <1>2 DEF IsSource
      <4> HIDE DEF R
      <4>2. r \in R
        BY <4>1, SeqOfOwn
      <4> QED
        BY <4>2 DEF R
    <3>2. \A kind : r.kind = kind => CredOf(r, name, src.id) \in CredsOf(kind)'
      BY <2>1 DEF CredsOf, CredOf
    <3> QED
      BY <3>1, <3>2
  <2>4. creds \in Seq(old) /\ old \subseteq new
    BY <2>2 DEF Resolved
  <2> HIDE DEF old, new
  <2>5. creds \in Seq(new)
    <3>1. \A i \in 1..Len(creds) : creds[i] \in new
      BY <2>4
    <3> QED
      BY <2>4, <3>1, SeqOfSubset
  <2>6. model.creds \in Seq(new)
    <3> DEFINE C == {CredOf(r, name, src.id) : r \in ToSet(src.refs)}
    <3>1. C \subseteq new /\ model.creds \in Seq(C)
      BY <1>3, <1>5, <2>3
    <3> HIDE DEF C
    <3>2. \A i \in 1..Len(model.creds) : model.creds[i] \in new
      BY <3>1
    <3> QED
      BY <3>1, <3>2, SeqOfSubset
  <2>7. creds' \in Seq(new)
    BY <1>5, <2>5, <2>6, Concatenated
  <2>8. extras' = Nothing
    BY <1>1 DEF Resolved
  <2> QED
    BY <1>1, <2>7, <2>8, ResolvedGivenNext, NothingGiven DEF new
<1> QED
  BY <1>2, <1>4, <1>5

LEMMA WriteConfigResolved ==
  ASSUME Resolved, WriteConfig PROVE Resolved'
<1>1. /\ pc = "write" /\ pc' \in {"creds", "done"}
      /\ UNCHANGED <<world, made, creds>>
  BY DEF WriteConfig, buildVars
<1>2. extras = Nothing
  BY <1>1 DEF Resolved
<1> DEFINE env == IF file' # models
                  THEN {[var |-> <<"GB_DOLLAR">>, val |-> <<"$">>]} ELSE {}
<1>3. extras' = [extras EXCEPT !.mounts = ToSet(mounts), !.env = env]
      /\ \A e \in env : e.var = <<"GB_DOLLAR">>
  BY DEF WriteConfig
<1> HIDE DEF env
<1>4. /\ DOMAIN extras' = DOMAIN Nothing /\ extras'.exports = {}
      /\ extras'.env = env
  BY <1>2, <1>3, NothingGiven
<1>5. creds' \in Seq(CredsOf("env")' \cup CredsOf("file")')
  BY <1>1, SameMakers DEF Resolved
<1>6. \A e \in extras'.env : EnvGiven(e)'
  BY <1>3, <1>4 DEF EnvGiven
<1> QED
  BY <1>1, <1>4, <1>5, <1>6, ResolvedGivenNext

(* A credential is asked for in its own container and under its own name.  *)
LEMMA ResolveEnvGives ==
  ASSUME Resolved, NEW c \in CredsOf("env"), ResolveEnv(c)
  PROVE  /\ DOMAIN extras' = DOMAIN Nothing
         /\ extras'.exports = extras.exports /\ extras'.mounts = extras.mounts
         /\ \A e \in extras'.env : EnvGiven(e)
<1> DEFINE e0 == [var |-> c.var, val |-> Client(c.id).env[c.ref]]
<1>1. DOMAIN extras = {"mounts", "env", "exports"}
      /\ \A e \in extras.env : EnvGiven(e)
  BY ResolvedGiven, NothingGiven
<1>2. \/ extras' = extras
      \/ /\ c.ref \in DOMAIN Client(c.id).env
         /\ extras' = [extras EXCEPT !.env = @ \cup {e0}]
  BY DEF ResolveEnv
<1>3. c.ref \in DOMAIN Client(c.id).env => EnvGiven(e0)
  BY DEF EnvGiven
<1> HIDE DEF e0
<1> QED
  BY <1>1, <1>2, <1>3, NothingGiven

LEMMA ResolveFileGives ==
  ASSUME Resolved, NEW c \in CredsOf("file"), ResolveFile(c)
  PROVE  /\ DOMAIN extras' = DOMAIN Nothing /\ extras'.env = extras.env
         /\ \A e \in extras'.exports : FileGiven(e, extras'.mounts)
<1> DEFINE dests == DestMap(Client(c.id).mounts)
           source == MountSource(dests[FindMountForPath(c.ref, dests)])
           target == SecretsRoot \o c.var
           d0 == [type |-> "bind", source |-> source, target |-> target,
                  readOnly |-> TRUE]
           e0 == [var |-> c.var, path |-> target]
<1>1. DOMAIN extras = {"mounts", "env", "exports"}
      /\ \A e \in extras.exports : FileGiven(e, extras.mounts)
  BY ResolvedGiven, NothingGiven
<1>2. \/ extras' = extras
      \/ /\ IsMounted(dests, c.ref)
         /\ extras' = [extras EXCEPT !.mounts = @ \cup {d0},
                                     !.exports = @ \cup {e0}]
  BY DEF ResolveFile
<1>3. ASSUME NEW mnts, d0 \in mnts, IsMounted(dests, c.ref)
      PROVE  FileGiven(e0, mnts)
  <2>1. d0.target = e0.path /\ d0.source = source /\ e0.var = c.var
    OBVIOUS
  <2> HIDE DEF d0, e0
  <2> QED
    BY <1>3, <2>1 DEF FileGiven
<1>4. \A e, mnts, more : FileGiven(e, mnts) => FileGiven(e, mnts \cup more)
  BY DEF FileGiven
<1> HIDE DEF d0, e0, dests
<1>5. CASE extras' = extras
  BY <1>1, <1>5, NothingGiven
<1>6. CASE /\ IsMounted(dests, c.ref)
           /\ extras' = [extras EXCEPT !.mounts = @ \cup {d0},
                                       !.exports = @ \cup {e0}]
  <2>1. /\ DOMAIN extras' = {"mounts", "env", "exports"}
        /\ extras'.env = extras.env
        /\ extras'.mounts = extras.mounts \cup {d0}
        /\ extras'.exports = extras.exports \cup {e0}
    BY <1>1, <1>6
  <2> QED
    BY <1>1, <1>3, <1>4, <1>6, <2>1, NothingGiven
<1> QED
  BY <1>2, <1>5, <1>6

LEMMA ResolveCredResolved ==
  ASSUME Resolved, NEW ok, ResolveCred(ok) PROVE Resolved'
<1> DEFINE c == Head(creds)
           all == CredsOf("env") \cup CredsOf("file")
<1>1. /\ pc = "creds" /\ creds # <<>> /\ creds' = Tail(creds)
      /\ UNCHANGED <<world, made, pc>>
      /\ \/ UNCHANGED extras
         \/ c.kind = "env" /\ ResolveEnv(c)
         \/ c.kind # "env" /\ ResolveFile(c)
  BY DEF ResolveCred
<1>2. creds \in Seq(all)
  BY DEF Resolved
<1>3. c \in all /\ Tail(creds) \in Seq(all)
  BY <1>1, <1>2
<1>4. \A kind : \A x \in CredsOf(kind) : x.kind = kind
  BY DEF CredsOf, CredOf
<1>5. creds' \in Seq(CredsOf("env")' \cup CredsOf("file")')
  BY <1>1, <1>3, SameMakers
<1> HIDE DEF c, all
<1>6. CASE UNCHANGED extras
  <2>1. \A e \in extras.env : EnvGiven(e)'
    BY <1>1, SameMakers, ResolvedGiven
  <2>2. \A e \in extras.exports : FileGiven(e, extras.mounts)'
    BY <1>1, <1>6, SameMakers, ResolvedGiven
  <2> QED
    BY <1>1, <1>5, <1>6, <2>1, <2>2, ResolvedGiven, ResolvedGivenNext
<1>7. CASE c.kind = "env" /\ ResolveEnv(c)
  <2>1. c \in CredsOf("env")
    BY <1>3, <1>4, <1>7 DEF all
  <2>2. /\ DOMAIN extras' = DOMAIN Nothing
        /\ extras'.exports = extras.exports /\ extras'.mounts = extras.mounts
        /\ \A e \in extras'.env : EnvGiven(e)
    BY <1>7, <2>1, ResolveEnvGives
  <2>3. \A e \in extras'.exports : FileGiven(e, extras.mounts)'
    BY <1>1, <2>2, SameMakers, ResolvedGiven
  <2> QED
    BY <1>1, <1>5, <2>2, <2>3, SameMakers, ResolvedGivenNext
<1>8. CASE c.kind # "env" /\ ResolveFile(c)
  <2>1. c \in CredsOf("file")
    BY <1>3, <1>4, <1>8 DEF all
  <2>2. /\ DOMAIN extras' = DOMAIN Nothing /\ extras'.env = extras.env
        /\ \A e \in extras'.exports : FileGiven(e, extras'.mounts)
    BY <1>8, <2>1, ResolveFileGives
  <2>3. \A e \in extras'.exports : FileGiven(e, extras.mounts)'
    BY <1>1, <2>2, SameMakers
  <2>4. \A e \in extras'.env : EnvGiven(e)'
    BY <1>1, <2>2, SameMakers, ResolvedGiven
  <2> QED
    BY <1>1, <1>5, <2>2, <2>3, <2>4, ResolvedGivenNext
<1> QED
  BY <1>1, <1>6, <1>7, <1>8

LEMMA ResolvedNext == Reads /\ Built /\ Resolved /\ [Next]_vars => Resolved'
<1> SUFFICES ASSUME Reads, Built, Resolved, [Next]_vars PROVE Resolved'
  OBVIOUS
<1>1. ASSUME NEW p \in left, ReadMeta(p) \/ ReadCredRef(p) \/ ReadSetting(p)
      PROVE  Resolved'
  BY <1>1, ResolvedKept DEF ReadMeta, ReadCredRef, ReadSetting, Reading,
                            buildVars, outVars
<1>2. CASE EndContainer \/ LoadProfiles \/ StartDiscovery
  BY <1>2, ResolvedKept DEF EndContainer, LoadProfiles, StartDiscovery,
                            buildVars, outVars
<1>3. CASE BuildModel
  BY <1>3, BuildModelResolved
<1>4. ASSUME NEW m \in left, NEW ok \in BOOLEAN,
             DiscoverArchive(m, ok) \/ DiscoverSqlite(m, ok)
      PROVE  Resolved'
  <2>1. UNCHANGED <<world, made, creds, extras, pc>>
    BY <1>4 DEF DiscoverArchive, DiscoverSqlite, Walk, labelVars,
                buildVars, outVars
  <2> QED
    BY <2>1, ResolvedKept
<1>5. CASE ApplyArchiveVolumes \/ DedupMounts
  <2>1. /\ UNCHANGED <<world, made, creds, extras>>
        /\ pc \notin {"creds", "done"}
    BY <1>5 DEF ApplyArchiveVolumes, DedupMounts, buildVars, outVars
  <2> QED
    BY <2>1, ResolvedKept
<1>6. CASE WriteConfig
  BY <1>6, WriteConfigResolved
<1>7. ASSUME NEW ok \in BOOLEAN, ResolveCred(ok) PROVE Resolved'
  BY <1>7, ResolveCredResolved
<1>8. CASE EndPass
  BY <1>8, ResolvedKept DEF EndPass, buildVars, outVars
<1>9. CASE NextPass
  <2>1. /\ creds' = <<>> /\ extras' = Nothing
    BY <1>9 DEF NextPass
  <2> QED
    BY <2>1, ResolvedGivenNext, NothingGiven
<1>10. CASE UNCHANGED vars
  BY <1>10, ResolvedKept DEF vars, buildVars, outVars
<1> QED
  BY <1>1, <1>2, <1>3, <1>4, <1>5, <1>6, <1>7, <1>8, <1>9, <1>10 DEF Next
-----------------------------------------------------------------------------
(* Trees stay finite.                                                      *)
LEMMA FiniteImage ==
  ASSUME NEW S, IsFiniteSet(S), NEW f
  PROVE  IsFiniteSet({f[x] : x \in S})
<1> DEFINE T == {f[x] : x \in S}
           g == [x \in S |-> f[x]]
<1>1. g \in Surjection(S, T)
  BY DEF Surjection
<1> HIDE DEF g, T
<1>2. IsFiniteSet(T)
  BY <1>1, FS_Surjection
<1> QED
  BY <1>2 DEF T

LEMMA FiniteAbove ==
  ASSUME NEW p \in Path
  PROVE  IsFiniteSet(Above(p))
<1> DEFINE S == 1..(Len(p) - 1)
           f == [i \in S |-> SubSeq(p, 1, i)]
<1>1. IsFiniteSet(S)
  <2>1. 1 \in Int /\ Len(p) - 1 \in Int
    BY DEF Path
  <2> QED
    BY <2>1, FS_Interval
<1>2. Above(p) = {f[i] : i \in S}
  BY DEF Above
<1> HIDE DEF S, f
<1> QED
  BY <1>1, <1>2, FiniteImage

LEMMA FiniteSetPath ==
  ASSUME NEW t, IsFiniteSet(DOMAIN t), NEW p \in Path, NEW v
  PROVE  IsFiniteSet(DOMAIN SetPath(t, p, v))
<1> DEFINE kept == DOMAIN t \ Under(DOMAIN t, p)
<1>1. DOMAIN SetPath(t, p, v) = (kept \cup Above(p)) \cup {p}
  BY DEF SetPath
<1>2. kept \in SUBSET DOMAIN t
  OBVIOUS
<1> HIDE DEF kept
<1>3. IsFiniteSet(kept)
  BY <1>2, FS_Subset
<1>4. IsFiniteSet(kept \cup Above(p))
  BY <1>3, FiniteAbove, FS_Union
<1>5. IsFiniteSet((kept \cup Above(p)) \cup {p})
  BY <1>4, FS_AddElement
<1> QED
  BY <1>1, <1>5

LEMMA FiniteMerge ==
  ASSUME NEW base, NEW over,
         IsFiniteSet(DOMAIN base), IsFiniteSet(DOMAIN over)
  PROVE  IsFiniteSet(DOMAIN PruneOptOut(DeepMerge(base, over)))
<1>1. DOMAIN DeepMerge(base, over) \in SUBSET (DOMAIN base \cup DOMAIN over)
  BY DEF DeepMerge
<1>2. DOMAIN PruneOptOut(DeepMerge(base, over))
        \in SUBSET (DOMAIN DeepMerge(base, over))
  BY DEF PruneOptOut
<1>3. IsFiniteSet(DOMAIN base \cup DOMAIN over)
  BY FS_Union
<1>4. IsFiniteSet(DOMAIN DeepMerge(base, over))
  BY <1>1, <1>3, FS_Subset
<1> QED
  BY <1>2, <1>4, FS_Subset

(* One reference after another.                                            *)
LEMMA FiniteCreds ==
  ASSUME NEW tree, IsFiniteSet(DOMAIN tree), NEW R, NEW refs \in Seq(R),
         \A i \in 1..Len(refs) : refs[i].path \in Path, NEW model, NEW id
  PROVE  IsFiniteSet(DOMAIN SubstituteCreds(tree, refs, model, id).tree)
<1>1. PICK acc : /\ Substitutes(acc, tree, refs, model, id)
                 /\ SubstituteCreds(tree, refs, model, id) = acc[Len(refs)]
  BY SubstituteSteps
<1> DEFINE Good(x) == /\ DOMAIN x = {"ok", "tree", "creds"}
                      /\ IsFiniteSet(DOMAIN x.tree)
           K == {k \in Nat : k <= Len(refs) => Good(acc[k])}
<1>2. 0 \in K
  <2>1. Good(acc[0])
    BY <1>1 DEF Substitutes
  <2> QED
    BY <2>1
<1>3. ASSUME NEW k \in Nat, k \in K PROVE k + 1 \in K
  <2> SUFFICES ASSUME k + 1 <= Len(refs) PROVE Good(acc[k + 1])
    OBVIOUS
  <2>1. k + 1 \in 1..Len(refs) /\ (k + 1) - 1 = k /\ k <= Len(refs)
    OBVIOUS
  <2>2. acc[k + 1] = WithCred(acc[k], refs[k + 1], model, id)
    BY <1>1, <2>1 DEF Substitutes
  <2> DEFINE x == acc[k]  r == refs[k + 1]
             node == Text(Reference(CredVarName(model, r.path)))
  <2>3. Good(x) /\ r.path \in Path
    BY <1>3, <2>1
  <2>4. \/ acc[k + 1] = [x EXCEPT !.ok = FALSE]
        \/ acc[k + 1] = [ok |-> TRUE, tree |-> SetPath(x.tree, r.path, node),
                         creds |-> Append(x.creds, CredOf(r, model, id))]
    BY <2>2 DEF WithCred
  <2> HIDE DEF x, r, node
  <2>5. IsFiniteSet(DOMAIN SetPath(x.tree, r.path, node))
    BY <2>3, FiniteSetPath
  <2> QED
    BY <2>3, <2>4, <2>5
<1> HIDE DEF K
<1>4. Len(refs) \in K
  BY <1>2, <1>3, Induction
<1> QED
  BY <1>1, <1>4 DEF K

(* A source over its profile, expanded, coerced and with its references.   *)
LEMMA FiniteModel ==
  ASSUME Reads, Built, pc = "build", NEW src, IsSource(src),
         IsFiniteSet(DOMAIN src.tree), NEW name
  PROVE  IsFiniteSet(DOMAIN Model(src, name).tree)
<1>1. IsFiniteSet(DOMAIN Inherited(profiles, src))
  <2>1. CASE ProfileName(src) \in DOMAIN profiles
    <3>1. /\ profiles[ProfileName(src)] = world.profiles[ProfileName(src)]
          /\ ProfileName(src) \in DOMAIN world.profiles
      BY <2>1 DEF Built
    <3>2. IsFiniteSet(DOMAIN world.profiles[ProfileName(src)])
      BY <3>1 DEF Reads, IsWorld
    <3> QED
      BY <2>1, <3>1, <3>2 DEF Inherited
  <2>2. CASE ProfileName(src) \notin DOMAIN profiles
    <3>1. DOMAIN Inherited(profiles, src) = {}
      BY <2>2 DEF Inherited, Empty
    <3> QED
      BY <3>1, FS_EmptySet
  <2> QED
    BY <2>1, <2>2
<1> DEFINE base == Merged(profiles, src)
           t == CoerceTree(ExpandTemplates(base, Data(src, name)))
<1>2. IsFiniteSet(DOMAIN base)
  BY <1>1, FiniteMerge DEF Merged
<1>3. DOMAIN t = DOMAIN base
  BY DEF CoerceTree, ExpandTemplates
<1>4. Model(src, name) = SubstituteCreds(t, src.refs, name, src.id)
  BY DEF Model, Merged
<1> DEFINE R == [path : Path, kind : {"env", "file"}, ref : Seq(Token)]
<1>5. src.refs \in Seq(R)
  BY DEF IsSource
<1>6. \A i \in 1..Len(src.refs) : src.refs[i].path \in Path
  <2> DEFINE refs == src.refs
  <2>1. refs \in Seq(R)
    BY <1>5
  <2> HIDE DEF refs, R
  <2>2. \A i \in 1..Len(refs) : refs[i] \in R
    BY <2>1
  <2> QED
    BY <2>2 DEF refs, R
<1> HIDE DEF base, t, R
<1> QED
  BY <1>2, <1>3, <1>4, <1>5, <1>6, FiniteCreds

LEMMA FiniteInit == Init => Finite
<1> SUFFICES ASSUME Init PROVE Finite
  OBVIOUS
<1>1. DOMAIN parsed.tree = {} /\ ToSet(sources) = {} /\ DOMAIN made = {}
  BY FreshIsSource, NoVolumes DEF Init, Empty
<1> QED
  BY <1>1, FS_EmptySet DEF Finite

LEMMA FiniteKept ==
  ASSUME Finite, UNCHANGED <<parsed, sources, made>>
  PROVE  Finite'
BY DEF Finite

LEMMA ReadingFinite ==
  ASSUME Reads, Finite, NEW p \in left,
         ReadMeta(p) \/ ReadCredRef(p) \/ ReadSetting(p)
  PROVE  Finite'
<1>1. UNCHANGED <<sources, made>> /\ Reading(p)
  BY DEF ReadMeta, ReadCredRef, ReadSetting, Reading, buildVars
<1>2. p \in Path
  BY <1>1, LabelAtHand
<1>3. IsFiniteSet(DOMAIN parsed'.tree)
  <2>1. IsFiniteSet(DOMAIN parsed.tree)
    BY DEF Finite
  <2>2. CASE ReadMeta(p)
    <3>1. parsed'.tree = parsed.tree
      BY <2>2, FieldsOfParsed DEF ReadMeta, MetaKeys
    <3> QED
      BY <2>1, <3>1
  <2>3. CASE ReadCredRef(p)
    <3>1. parsed'.tree = parsed.tree
      BY <2>3, FieldsOfParsed DEF ReadCredRef
    <3> QED
      BY <2>1, <3>1
  <2>4. CASE ReadSetting(p)
    <3> DEFINE node == Text(Head(listed).labels[p])
    <3>1. parsed' = [parsed EXCEPT !.tree = SetPath(parsed.tree, p, node)]
      BY <2>4 DEF ReadSetting
    <3> HIDE DEF node
    <3>2. parsed'.tree = SetPath(parsed.tree, p, node)
      BY <3>1, FieldsOfParsed
    <3> QED
      BY <1>2, <2>1, <3>2, FiniteSetPath
  <2> QED
    BY <2>2, <2>3, <2>4
<1> QED
  BY <1>1, <1>3 DEF Finite

LEMMA EndContainerFinite ==
  ASSUME Reads, Finite, EndContainer PROVE Finite'
<1> DEFINE src == [container |-> Head(listed).name, id |-> Head(listed).id,
                   name |-> parsed.name, profile |-> parsed.profile,
                   tree |-> parsed.tree, refs |-> parsed.refs]
<1>1. /\ parsed' = Fresh(world) /\ UNCHANGED made
      /\ sources' = Append(sources, src) \/ sources' = sources
  BY DEF EndContainer, buildVars
<1>2. DOMAIN parsed'.tree = {}
  BY <1>1, FreshIsSource DEF Empty
<1>3. src.tree = parsed.tree /\ IsFiniteSet(DOMAIN parsed.tree)
  BY DEF Finite
<1> HIDE DEF src
<1>4. sources \in Seq(ToSet(sources))
  BY DEF Reads
<1>5. ToSet(sources') \subseteq ToSet(sources) \cup {src}
  BY <1>1, <1>4, AppendElements
<1> QED
  BY <1>1, <1>2, <1>3, <1>5, FS_EmptySet DEF Finite

LEMMA BuildModelFinite ==
  ASSUME Reads, Built, Finite, BuildModel PROVE Finite'
<1> DEFINE src == Head(sources)
           name == ModelName(src.container, src.name)
           model == Model(src, name)
<1>1. pc = "build" /\ UNCHANGED parsed /\ sources # <<>>
      /\ sources' = Tail(sources)
  BY DEF BuildModel
<1>2. /\ IsSource(src)
      /\ \/ UNCHANGED made
         \/ made' = Put(made, name, [src |-> src, tree |-> model.tree])
  BY OneModelMore
<1>3. src \in ToSet(sources) /\ ToSet(sources') \subseteq ToSet(sources)
  BY <1>1, TailElements DEF Reads
<1>4. IsFiniteSet(DOMAIN src.tree)
  BY <1>3 DEF Finite
<1>5. IsFiniteSet(DOMAIN model.tree)
  BY <1>1, <1>2, <1>4, FiniteModel
<1> HIDE DEF src, name, model
<1>6. \A m \in DOMAIN made' : IsFiniteSet(DOMAIN made'[m].tree)
  BY <1>2, <1>5 DEF Finite, Put
<1> QED
  BY <1>1, <1>3, <1>6 DEF Finite

LEMMA FiniteNext == Reads /\ Built /\ Finite /\ [Next]_vars => Finite'
<1> SUFFICES ASSUME Reads, Built, Finite, [Next]_vars PROVE Finite'
  OBVIOUS
<1>1. ASSUME NEW p \in left, ReadMeta(p) \/ ReadCredRef(p) \/ ReadSetting(p)
      PROVE  Finite'
  BY <1>1, ReadingFinite
<1>2. CASE EndContainer
  BY <1>2, EndContainerFinite
<1>3. CASE BuildModel
  BY <1>3, BuildModelFinite
<1>4. CASE LoadProfiles \/ StartDiscovery \/ ApplyArchiveVolumes
           \/ DedupMounts \/ WriteConfig \/ EndPass
  BY <1>4, FiniteKept DEF LoadProfiles, StartDiscovery, ApplyArchiveVolumes,
     DedupMounts, WriteConfig, EndPass, labelVars, buildVars
<1>5. ASSUME NEW m \in left, NEW ok \in BOOLEAN,
             DiscoverArchive(m, ok) \/ DiscoverSqlite(m, ok)
      PROVE  Finite'
  BY <1>5, FiniteKept DEF DiscoverArchive, DiscoverSqlite, labelVars, buildVars
<1>6. ASSUME NEW ok \in BOOLEAN, ResolveCred(ok) PROVE Finite'
  BY <1>6, FiniteKept DEF ResolveCred, labelVars
<1>7. CASE NextPass
  <2>1. DOMAIN parsed'.tree = {} /\ ToSet(sources') = {} /\ DOMAIN made' = {}
    BY <1>7, FreshIsSource, NoVolumes DEF NextPass, Empty
  <2> QED
    BY <2>1, FS_EmptySet DEF Finite
<1>8. CASE UNCHANGED vars
  BY <1>8, FiniteKept DEF vars, labelVars, buildVars
<1> QED
  BY <1>1, <1>2, <1>3, <1>4, <1>5, <1>6, <1>7, <1>8 DEF Next
-----------------------------------------------------------------------------
(* Owners.                                                                 *)
LEMMA OwnedKept ==
  ASSUME Owned, UNCHANGED <<world, owner>>, DOMAIN models' = DOMAIN models,
         ToSet(sources') \subseteq ToSet(sources),
         \/ pc' \notin {"archive", "sqlite"}
         \/ left' \subseteq DOMAIN models
         \/ UNCHANGED pc /\ left' \subseteq left
  PROVE  Owned'
BY DEF Owned, IsClient, ModelName

LEMMA EndContainerOwned ==
  ASSUME Reads, Owned, EndContainer PROVE Owned'
<1> DEFINE c == Head(listed)
           name == ModelName(c.name, parsed.name)
           src == [container |-> c.name, id |-> c.id,
                   name |-> parsed.name, profile |-> parsed.profile,
                   tree |-> parsed.tree, refs |-> parsed.refs]
<1>1. /\ UNCHANGED <<world, models, pc>> /\ listed # <<>> /\ pc = "list"
      /\ \/ owner' = Put(owner, name, c.id) /\ sources' = Append(sources, src)
         \/ UNCHANGED <<owner, sources>>
  BY DEF EndContainer, buildVars
<1>2. c \in ToSet(world.containers) /\ sources \in Seq(ToSet(sources))
  BY <1>1, TailElements DEF Reads
<1>3. IsClient(c.id)
  BY <1>2 DEF IsClient
<1>4. ModelName(src.container, src.name) = name
  OBVIOUS
<1> HIDE DEF c, name, src
<1>5. CASE UNCHANGED <<owner, sources>>
  BY <1>1, <1>5, OwnedKept
<1>6. CASE owner' = Put(owner, name, c.id) /\ sources' = Append(sources, src)
  <2>1. /\ DOMAIN owner' = DOMAIN owner \cup {name}
        /\ \A m \in DOMAIN owner' :
             owner'[m] = c.id \/ (m \in DOMAIN owner /\ owner'[m] = owner[m])
    BY <1>6 DEF Put
  <2>2. ToSet(sources') = ToSet(sources) \cup {src}
    BY <1>2, <1>6, AppendElements
  <2>3. \A m \in DOMAIN owner' : IsClient(owner'[m])
    BY <1>3, <2>1 DEF Owned
  <2>4. \A m \in DOMAIN owner' : IsClient(owner[m])'
    BY <1>1, <2>3 DEF IsClient
  <2>5. \A x \in ToSet(sources') :
          ModelName(x.container, x.name) \in DOMAIN owner'
    BY <1>4, <2>1, <2>2 DEF Owned
  <2>6. \A x \in ToSet(sources') :
          ModelName(x.container, x.name)' \in DOMAIN owner'
    BY <1>1, <2>5 DEF ModelName
  <2>7. DOMAIN models' \subseteq DOMAIN owner'
    BY <1>1, <2>1 DEF Owned
  <2> QED
    BY <1>1, <2>4, <2>6, <2>7 DEF Owned
<1> QED
  BY <1>1, <1>5, <1>6

LEMMA BuildModelOwned ==
  ASSUME Reads, Built, Owned, BuildModel PROVE Owned'
<1> DEFINE src == Head(sources)
           name == ModelName(src.container, src.name)
           model == Model(src, name)
<1>1. /\ UNCHANGED <<world, owner>> /\ pc' = "build"
      /\ sources # <<>> /\ sources' = Tail(sources)
  BY DEF BuildModel
<1>2. UNCHANGED models \/ models' = Put(models, name, model.tree)
  BY OneModelMore
<1>3. src \in ToSet(sources) /\ ToSet(sources') \subseteq ToSet(sources)
  BY <1>1, TailElements DEF Reads
<1>4. name \in DOMAIN owner
  BY <1>3 DEF Owned
<1> HIDE DEF src, name, model
<1>5. DOMAIN models' \subseteq DOMAIN owner
  BY <1>2, <1>4 DEF Put, Owned
<1> QED
  BY <1>1, <1>3, <1>5 DEF Owned, IsClient, ModelName

LEMMA OwnedNext == Reads /\ Built /\ Owned /\ [Next]_vars => Owned'
<1> SUFFICES ASSUME Reads, Built, Owned, [Next]_vars PROVE Owned'
  OBVIOUS
<1>1. ASSUME NEW p \in left, ReadMeta(p) \/ ReadCredRef(p) \/ ReadSetting(p)
      PROVE  Owned'
  BY <1>1, OwnedKept DEF ReadMeta, ReadCredRef, ReadSetting, Reading,
                         buildVars
<1>2. CASE EndContainer
  BY <1>2, EndContainerOwned
<1>3. CASE BuildModel
  BY <1>3, BuildModelOwned
<1>4. CASE LoadProfiles \/ StartDiscovery \/ DedupMounts \/ WriteConfig
           \/ EndPass
  BY <1>4, OwnedKept DEF LoadProfiles, StartDiscovery, DedupMounts,
     WriteConfig, EndPass, labelVars, buildVars
<1>5. CASE ApplyArchiveVolumes
  <2>1. /\ UNCHANGED <<world, owner, sources>>
        /\ DOMAIN models' = DOMAIN models /\ left' = DOMAIN models
    BY <1>5 DEF ApplyArchiveVolumes, labelVars
  <2> QED
    BY <2>1, OwnedKept
<1>6. ASSUME NEW m \in left, NEW ok \in BOOLEAN,
             DiscoverArchive(m, ok) \/ DiscoverSqlite(m, ok)
      PROVE  Owned'
  <2>1. /\ UNCHANGED <<world, owner, sources, pc>>
        /\ DOMAIN models' = DOMAIN models /\ left' \subseteq left
    BY <1>6 DEF DiscoverArchive, DiscoverSqlite, Walk, labelVars, buildVars
  <2> QED
    BY <2>1, OwnedKept
<1>7. ASSUME NEW ok \in BOOLEAN, ResolveCred(ok) PROVE Owned'
  BY <1>7, OwnedKept DEF ResolveCred, labelVars
<1>8. CASE NextPass
  <2>1. /\ DOMAIN owner' = {} /\ ToSet(sources') = {} /\ DOMAIN models' = {}
        /\ pc' = "list"
    BY <1>8, NoVolumes DEF NextPass
  <2> QED
    BY <2>1 DEF Owned
<1>9. CASE UNCHANGED vars
  BY <1>9, OwnedKept DEF vars, labelVars, buildVars
<1> QED
  BY <1>1, <1>2, <1>3, <1>4, <1>5, <1>6, <1>7, <1>8, <1>9 DEF Next
-----------------------------------------------------------------------------
(* What discovery looks at stays what it was.                              *)
LEMMA SameOwners ==
  ASSUME UNCHANGED <<world, owner>>
  PROVE  /\ \A m : Dests(m)' = Dests(m)
         /\ \A d, m, path : Serves(d, m, path)' <=> Serves(d, m, path)
         /\ \A m, old, new, S :
              Relocated(m, old, new, S)' <=> Relocated(m, old, new, S)
<1>1. \A m : Dests(m)' = Dests(m)
  BY DEF Dests, Client
<1>2. \A d, m, path : Serves(d, m, path)' <=> Serves(d, m, path)
  BY <1>1 DEF Serves
<1>3. \A m, old, new, S :
        Relocated(m, old, new, S)' <=> Relocated(m, old, new, S)
  BY <1>1, <1>2 DEF Relocated
<1> QED
  BY <1>1, <1>2, <1>3

LEMMA SameMounts ==
  ASSUME UNCHANGED <<world, owner>>, DOMAIN models' = DOMAIN models
  PROVE  \A d : FromOwner(d)' <=> FromOwner(d)
BY SameOwners DEF FromOwner

(* Located, part by part.                                                  *)
VolumeLocated(v) ==
  /\ v.mounts \in Seq(ToSet(v.mounts))
  /\ \A d \in ToSet(v.mounts) : FromOwner(d)
  /\ Relocated(v.model, StringsAt(made[v.model].tree, Includes), v.includes,
               ToSet(v.mounts))
ArchiveLocated(m, t, S) ==
  LET old == StringsAt(made[m].tree, Includes)
      new == StringsAt(t, Includes)
  IN new = old \/ Relocated(m, old, new, S)
DatabasesLocated(m, t, S) ==
  \A p \in DOMAIN t :
    LET old == made[m].tree[p]
    IN p[1] = "databases" =>
         \/ t[p] = old
         \/ /\ t[p].val[1] = Transformed(m, old.val[1])
            /\ IsMounted(Dests(m), old.val[1])
            /\ \E d \in S : Serves(d, m, old.val[1]) /\ ~d.readOnly

LEMMA LocatedParts ==
  Located <=>
    /\ pc \in {"list", "build", "archive"} => mounts = <<>>
    /\ mounts \in Seq(ToSet(mounts))
    /\ \A d \in ToSet(mounts) : FromOwner(d)
    /\ \A v \in ToSet(volumes) : VolumeLocated(v)
    /\ \A m \in DOMAIN models : ArchiveLocated(m, models[m], ToSet(mounts))
    /\ \A m \in DOMAIN models : DatabasesLocated(m, models[m], ToSet(mounts))
BY DEF Located, VolumeLocated, ArchiveLocated, DatabasesLocated

LEMMA LocatedPartsNext ==
  Located' <=>
    /\ pc' \in {"list", "build", "archive"} => mounts' = <<>>
    /\ mounts' \in Seq(ToSet(mounts'))
    /\ \A d \in ToSet(mounts') : FromOwner(d)'
    /\ \A v \in ToSet(volumes') : VolumeLocated(v)'
    /\ \A m \in DOMAIN models' :
         ArchiveLocated(m, models[m], ToSet(mounts))'
    /\ \A m \in DOMAIN models' :
         DatabasesLocated(m, models[m], ToSet(mounts))'
BY DEF Located, VolumeLocated, ArchiveLocated, DatabasesLocated

LEMMA SamePlaces ==
  ASSUME UNCHANGED <<world, owner, made>>, DOMAIN models' = DOMAIN models
  PROVE  /\ \A v : VolumeLocated(v)' <=> VolumeLocated(v)
         /\ \A m, t, S : ArchiveLocated(m, t, S)' <=> ArchiveLocated(m, t, S)
         /\ \A m, t, S :
              DatabasesLocated(m, t, S)' <=> DatabasesLocated(m, t, S)
<1>1. \A v : VolumeLocated(v)' <=> VolumeLocated(v)
  BY SameOwners, SameMounts DEF VolumeLocated
<1>2. \A m, t, S : ArchiveLocated(m, t, S)' <=> ArchiveLocated(m, t, S)
  BY SameOwners DEF ArchiveLocated
<1>3. \A m, t, S : DatabasesLocated(m, t, S)' <=> DatabasesLocated(m, t, S)
  BY SameOwners DEF DatabasesLocated
<1> QED
  BY <1>1, <1>2, <1>3

(* Before discovery models are as made, and nothing is mounted.            *)
LEMMA LocatedEarly ==
  ASSUME Built', pc' \in {"list", "build", "archive"}, mounts' = <<>>,
         \A v \in ToSet(volumes') : VolumeLocated(v)'
  PROVE  Located'
<1>1. mounts' \in Seq(ToSet(mounts')) /\ ToSet(mounts') = {}
  BY NoVolumes
<1>2. \A m \in DOMAIN models' : models'[m] = made'[m].tree
  BY DEF Built
<1>3. \A m \in DOMAIN models' : ArchiveLocated(m, models[m], ToSet(mounts))'
  BY <1>2 DEF ArchiveLocated
<1>4. \A m \in DOMAIN models' : DatabasesLocated(m, models[m], ToSet(mounts))'
  BY <1>2 DEF DatabasesLocated
<1> QED
  BY <1>1, <1>3, <1>4, LocatedPartsNext

LEMMA LocatedKept ==
  ASSUME Located,
         UNCHANGED <<world, owner, made, models, mounts, volumes>>,
         \/ pc' \notin {"list", "build", "archive"}
         \/ pc \in {"list", "build", "archive"}
  PROVE  Located'
BY LocatedParts, LocatedPartsNext, SamePlaces, SameMounts
-----------------------------------------------------------------------------
(* The helpers of lists, by the places they keep.                          *)
MountedAt(D, s) == {i \in DOMAIN s : IsMounted(D, s[i])}

LEMMA OnlyMounted ==
  ASSUME NEW S, NEW s \in Seq(S), NEW D
  PROVE  LET found == Only(LAMBDA p : IsMounted(D, p), s)
         IN /\ found \in Seq(S)
            /\ ToSet(found) = {p \in ToSet(s) : IsMounted(D, p)}
<1> DEFINE K == MountedAt(D, s)
<1>1. Only(LAMBDA p : IsMounted(D, p), s) = FlattenSeq(At(s, K))
  <2>1. [i \in DOMAIN s |-> IF IsMounted(D, s[i]) THEN <<s[i]>> ELSE <<>>]
          = At(s, K)
    BY DEF At, MountedAt
  <2> QED
    BY <2>1 DEF Only
<1>2. K \subseteq DOMAIN s /\ {s[i] : i \in K} = {p \in ToSet(s) : IsMounted(D, p)}
  BY DEF MountedAt, ToSet
<1> HIDE DEF K
<1>3. /\ FlattenSeq(At(s, K)) \in Seq(S)
      /\ ToSet(FlattenSeq(At(s, K))) = {s[i] : i \in K}
  BY <1>2, KeptElements
<1> QED
  BY <1>1, <1>2, <1>3

ByTarget(s) == FirstBy(LAMBDA d : d.target, s)

(* What is left of mounts has all their targets.                           *)
AreFirst(first, s) ==
  /\ first \in Seq(ToSet(first)) /\ ToSet(first) \subseteq ToSet(s)
  /\ \A d \in ToSet(s) : \E e \in ToSet(first) : e.target = d.target

TargetsOf(s) == [i \in DOMAIN s |-> s[i].target]

LEMMA ByTargetFirsts ==
  ASSUME NEW S, NEW s \in Seq(S)
  PROVE  ByTarget(s) = FlattenSeq(At(s, Firsts(s, TargetsOf(s))))
<1> DEFINE k == TargetsOf(s)
<1>0. DOMAIN s = 1..Len(s) /\ Len(s) \in Nat
  OBVIOUS
<1>1. \A i \in DOMAIN s : \A j \in 1..(i - 1) :
        j \in DOMAIN s /\ (k[j] = k[i] <=> s[j].target = s[i].target)
  BY <1>0 DEF TargetsOf
<1> HIDE DEF k
<1>2. \A i \in DOMAIN s :
        i \in Firsts(s, k)
          <=> ~\E j \in 1..(i - 1) : s[j].target = s[i].target
  BY <1>1 DEF Firsts
<1>3. [i \in DOMAIN s |->
         IF \E j \in 1..(i - 1) : s[j].target = s[i].target
         THEN <<>> ELSE <<s[i]>>] = At(s, Firsts(s, k))
  BY <1>2 DEF At
<1> QED
  BY <1>3 DEF FirstBy, ByTarget, k

(* No two of the first at each target share one.                           *)
LEMMA FirstTargetsApart ==
  ASSUME NEW S, NEW s \in Seq(S)
  PROVE  \A a, b \in 1..Len(ByTarget(s)) :
           ByTarget(s)[a].target = ByTarget(s)[b].target => a = b
<1> DEFINE k == TargetsOf(s)
           first == ByTarget(s)
<1>1. first = FlattenSeq(At(s, Firsts(s, k)))
  BY ByTargetFirsts
<1>2. \A i \in DOMAIN s : k[i] = s[i].target
  BY DEF TargetsOf
<1> HIDE DEF k, first
<1>3. PICK p \in [1..Len(first) -> DOMAIN s] :
        /\ \A a \in 1..Len(first) : first[a] = s[p[a]]
        /\ \A a, b \in 1..Len(first) : k[p[a]] = k[p[b]] => a = b
  BY <1>1, FirstsApart
<1>4. \A a \in 1..Len(first) : first[a].target = k[p[a]]
  BY <1>2, <1>3
<1> QED
  BY <1>3, <1>4 DEF first

LEMMA FirstTargets ==
  ASSUME NEW S, NEW s \in Seq(S)
  PROVE  AreFirst(ByTarget(s), s)
<1> DEFINE k == TargetsOf(s)
           first == FlattenSeq(At(s, Firsts(s, k)))
<1>1. ByTarget(s) = first
  BY ByTargetFirsts
<1>2. \A i \in DOMAIN s : k[i] = s[i].target
  BY DEF TargetsOf
<1> HIDE DEF k
<1>3. /\ first \in Seq(S) /\ ToSet(first) \subseteq ToSet(s)
      /\ \A i \in DOMAIN s : \E j \in DOMAIN s :
           k[j] = k[i] /\ s[j] \in ToSet(first)
  BY FirstElements
<1> HIDE DEF first
<1>4. \A d \in ToSet(s) : \E e \in ToSet(first) : e.target = d.target
  <2> SUFFICES ASSUME NEW i \in DOMAIN s
               PROVE  \E e \in ToSet(first) : e.target = s[i].target
    BY DEF ToSet
  <2>1. PICK j \in DOMAIN s : k[j] = k[i] /\ s[j] \in ToSet(first)
    BY <1>3
  <2>2. s[j].target = s[i].target
    BY <1>2, <2>1
  <2> QED
    BY <2>1, <2>2
<1>5. first \in Seq(ToSet(first))
  BY <1>3, SeqOfOwn
<1> QED
  BY <1>1, <1>3, <1>4, <1>5 DEF AreFirst

LEMMA FirstMounts ==
  ASSUME NEW S, NEW s \in Seq(S)
  PROVE  AreFirst(FirstBy(MountKey, s), s)
<1> DEFINE k == [i \in DOMAIN s |-> MountKey(s[i])]
           first == FlattenSeq(At(s, Firsts(s, k)))
<1>0. DOMAIN s = 1..Len(s) /\ Len(s) \in Nat
  OBVIOUS
<1>1. FirstBy(MountKey, s) = first
  <2>1. \A i \in DOMAIN s : \A j \in 1..(i - 1) :
          j \in DOMAIN s /\ (k[j] = k[i] <=> MountKey(s[j]) = MountKey(s[i]))
    BY <1>0
  <2> HIDE DEF k
  <2>2. \A i \in DOMAIN s :
          i \in Firsts(s, k)
            <=> ~\E j \in 1..(i - 1) : MountKey(s[j]) = MountKey(s[i])
    BY <2>1 DEF Firsts
  <2>3. [i \in DOMAIN s |->
           IF \E j \in 1..(i - 1) : MountKey(s[j]) = MountKey(s[i])
           THEN <<>> ELSE <<s[i]>>] = At(s, Firsts(s, k))
    BY <2>2 DEF At
  <2> QED
    BY <2>3 DEF FirstBy
<1>2. \A i \in DOMAIN s : k[i] = MountKey(s[i])
  OBVIOUS
<1> HIDE DEF k
<1>3. /\ first \in Seq(S) /\ ToSet(first) \subseteq ToSet(s)
      /\ \A i \in DOMAIN s : \E j \in DOMAIN s :
           k[j] = k[i] /\ s[j] \in ToSet(first)
  BY FirstElements
<1> HIDE DEF first
<1>4. ASSUME NEW d, NEW e, MountKey(d) = MountKey(e)
      PROVE  d.target = e.target
  BY <1>4 DEF MountKey
<1>5. ASSUME NEW d \in ToSet(s)
      PROVE  \E e \in ToSet(first) : e.target = d.target
  <2>1. PICK i \in DOMAIN s : d = s[i]
    BY DEF ToSet
  <2>2. PICK j \in DOMAIN s : k[j] = k[i] /\ s[j] \in ToSet(first)
    BY <1>3
  <2>3. MountKey(s[j]) = MountKey(d)
    BY <1>2, <2>1, <2>2
  <2> QED
    BY <1>4, <2>2, <2>3
<1>6. first \in Seq(ToSet(first))
  BY <1>3, SeqOfOwn
<1> QED
  BY <1>1, <1>3, <1>5, <1>6 DEF AreFirst
-----------------------------------------------------------------------------
LEMMA OwnersMounts ==
  ASSUME IsWorld(world), NEW id, IsClient(id)
  PROVE  AreMounts(Client(id).mounts)
<1>1. Client(id) \in ToSet(world.containers)
  BY DEF IsClient, Client
<1>2. IsContainer(Client(id))
  BY <1>1 DEF IsWorld
<1> QED
  BY <1>2 DEF IsContainer, AreMounts

(* The mount for a path is one of the owner's and serves the path.         *)
MountFor(d, m, path, readOnly) ==
  FromOwner(d) /\ Serves(d, m, path) /\ d.readOnly = readOnly

LEMMA MountResolved ==
  ASSUME IsWorld(world), Owned, NEW m \in DOMAIN models,
         NEW path \in Seq(Token), IsMounted(Dests(m), path), NEW readOnly
  PROVE  MountFor(ResolvePathMount(Dests(m), m, path, readOnly),
                  m, path, readOnly)
<1> DEFINE f == FindMountForPath(path, Dests(m))
           d == ResolvePathMount(Dests(m), m, path, readOnly)
<1>1. AreMounts(Client(owner[m]).mounts)
  BY OwnersMounts DEF Owned
<1>2. AreDests(DOMAIN Dests(m))
  BY <1>1, DestsOfMounts DEF Dests
<1>3. f \in DOMAIN Dests(m)
  BY <1>2, MountIsLongest DEF IsLongest
<1>4. /\ d.target = Transformed(m, f) /\ d.readOnly = readOnly
      /\ d.source = MountSource(Dests(m)[f])
  BY DEF ResolvePathMount
<1> HIDE DEF d
<1>5. FromOwner(d)
  BY <1>3, <1>4 DEF FromOwner
<1>6. Serves(d, m, path)
  BY <1>4 DEF Serves
<1> QED
  BY <1>4, <1>5, <1>6 DEF MountFor, d

(* Mounts for paths: the first at each target serve them all.              *)
LEMMA MountsResolved ==
  ASSUME IsWorld(world), Owned, NEW m \in DOMAIN models,
         NEW found \in Seq(Seq(Token)), NEW readOnly,
         \A p \in ToSet(found) : IsMounted(Dests(m), p),
         NEW all, all = [i \in DOMAIN found |->
                           ResolvePathMount(Dests(m), m, found[i], readOnly)]
  PROVE  LET first == ByTarget(all)
         IN /\ first \in Seq(ToSet(first))
            /\ \A d \in ToSet(first) : FromOwner(d) /\ d.readOnly = readOnly
            /\ \A p \in ToSet(found) : \E d \in ToSet(first) : Serves(d, m, p)
<1> DEFINE first == ByTarget(all)
<1>1. DOMAIN found = 1..Len(found) /\ Len(found) \in Nat
      /\ \A i \in 1..Len(found) : found[i] \in Seq(Token)
                                  /\ found[i] \in ToSet(found)
  BY DEF ToSet
<1>2. \A i \in 1..Len(found) : MountFor(all[i], m, found[i], readOnly)
  BY <1>1, MountResolved
<1>3. all \in Seq(ToSet(all))
  <2>1. all = [i \in 1..Len(found) |-> all[i]]
    BY <1>1
  <2>2. \A i \in 1..Len(found) : all[i] \in ToSet(all)
    BY <1>1 DEF ToSet
  <2> QED
    BY <1>1, <2>1, <2>2
<1>4. DOMAIN all = 1..Len(found)
  BY <1>1
<1>5. AreFirst(first, all)
  BY <1>3, FirstTargets
<1> HIDE DEF first
<1>6. /\ first \in Seq(ToSet(first)) /\ ToSet(first) \subseteq ToSet(all)
      /\ \A d \in ToSet(all) : \E e \in ToSet(first) : e.target = d.target
  BY <1>5 DEF AreFirst
<1>7. \A d \in ToSet(all) : FromOwner(d) /\ d.readOnly = readOnly
  BY <1>2, <1>4 DEF ToSet, MountFor
<1>8. \A p \in ToSet(found) : \E d \in ToSet(first) : Serves(d, m, p)
  <2> TAKE p \in ToSet(found)
  <2>1. PICK i \in 1..Len(found) : p = found[i]
    BY <1>1 DEF ToSet
  <2>2. all[i] \in ToSet(all) /\ Serves(all[i], m, p)
    BY <1>2, <1>4, <2>1 DEF ToSet, MountFor
  <2>3. PICK e \in ToSet(first) : e.target = all[i].target
    BY <1>6, <2>2
  <2> QED
    BY <2>2, <2>3 DEF Serves
<1> QED
  BY <1>6, <1>7, <1>8 DEF first
-----------------------------------------------------------------------------
(* The strings of a tree that was decoded.                                 *)
LEMMA StringsType ==
  ASSUME NEW t, WellFormed(t), NEW p
  PROVE  StringsAt(t, p) \in Seq(Seq(Token))
<1>1. CASE p \in DOMAIN t /\ t[p].kind \in {"list", "strings"}
  <2>1. IsNode(t[p])
    BY <1>1 DEF WellFormed
  <2>2. t[p].val \in Seq(Seq(Token))
    BY <2>1 DEF IsNode
  <2> QED
    BY <1>1, <2>2 DEF StringsAt
<1>2. CASE ~(p \in DOMAIN t /\ t[p].kind \in {"list", "strings"})
  <2>1. StringsAt(t, p) = <<>>
    BY <1>2 DEF StringsAt
  <2> QED
    BY <2>1
<1> QED
  BY <1>1, <1>2

(* discoverArchiveVolumes: a volume has its model's includes that are on a *)
(* mount, and the mounts for them.                                         *)
LEMMA DiscoverArchiveLocated ==
  ASSUME Reads, Built, Built', Discovered, Owned, Located,
         NEW m \in left, NEW ok, DiscoverArchive(m, ok)
  PROVE  Located'
<1>1. /\ pc = "archive" /\ UNCHANGED <<pc, models, made, mounts, world, owner>>
  BY DEF DiscoverArchive, Walk, outVars, buildVars, labelVars
<1> DEFINE old == StringsAt(models[m], Includes)
           found == Only(LAMBDA p : IsMounted(Dests(m), p), old)
           all == [i \in DOMAIN found |->
                     ResolvePathMount(Dests(m), m, found[i], TRUE)]
           ins == [i \in DOMAIN found |-> Transformed(m, found[i])]
           v == [model |-> m, mounts |-> ByTarget(all), includes |-> ins,
                 excludes |-> StringsAt(models[m], Excludes)]
<1>2. volumes' = volumes \/ volumes' = Append(volumes, v)
  BY DEF DiscoverArchive, ByTarget
<1>3. v.model = m /\ v.mounts = ByTarget(all) /\ v.includes = ins
  OBVIOUS
<1>4. m \in DOMAIN models /\ IsWorld(world)
  BY <1>1 DEF Owned, Reads
<1>5. models[m] = made[m].tree /\ WellFormed(models[m])
  BY <1>1, <1>4 DEF Built, IsModel
<1>6. old \in Seq(Seq(Token))
  BY <1>5, StringsType
<1> HIDE DEF v, old
<1>7. /\ found \in Seq(Seq(Token))
      /\ ToSet(found) = {p \in ToSet(old) : IsMounted(Dests(m), p)}
  BY <1>6, OnlyMounted
<1> HIDE DEF found
<1>8. /\ ByTarget(all) \in Seq(ToSet(ByTarget(all)))
      /\ \A d \in ToSet(ByTarget(all)) : FromOwner(d) /\ d.readOnly = TRUE
      /\ \A p \in ToSet(found) :
           \E d \in ToSet(ByTarget(all)) : Serves(d, m, p)
  BY <1>4, <1>7, MountsResolved
<1> HIDE DEF all
<1>9. /\ ToSet(ins) = {Transformed(m, p) : p \in ToSet(found)}
      /\ ins \in Seq(ToSet(ins))
  <2>1. ToSet(ins) = {Transformed(m, p) : p \in ToSet(found)}
    BY DEF ToSet
  <2>2. DOMAIN found = 1..Len(found) /\ Len(found) \in Nat
    BY <1>7
  <2>3. \A i \in 1..Len(found) : Transformed(m, found[i]) \in ToSet(ins)
    BY <2>1, <2>2 DEF ToSet
  <2>4. ins = [i \in 1..Len(found) |-> Transformed(m, found[i])]
    BY <2>2
  <2>5. ins \in Seq(ToSet(ins))
    <3> DEFINE T == ToSet(ins)
    <3> HIDE DEF T
    <3> QED
      BY <2>2, <2>3, <2>4 DEF T
  <2> QED
    BY <2>1, <2>5
<1> HIDE DEF ins
<1>10. Relocated(m, old, ins, ToSet(ByTarget(all)))
  BY <1>7, <1>8, <1>9 DEF Relocated
<1>11. VolumeLocated(v)
  BY <1>3, <1>5, <1>8, <1>10 DEF VolumeLocated, old
<1>12. \A x \in ToSet(volumes) : VolumeLocated(x)
  BY LocatedParts
<1>13. volumes \in Seq(ToSet(volumes))
  BY DEF Discovered
<1>14. ToSet(volumes') \subseteq ToSet(volumes) \cup {v}
  BY <1>2, <1>13, AppendElements
<1>15. \A x \in ToSet(volumes') : VolumeLocated(x)'
  BY <1>1, <1>11, <1>12, <1>14, SamePlaces
<1>16. mounts' = <<>>
  BY <1>1, LocatedParts
<1> QED
  BY <1>1, <1>15, <1>16, LocatedEarly

(* Setting the lists of an archive.                                        *)
LEMMA ListsSet ==
  ASSUME NEW t, Rooted(t), NEW ins, NEW outs,
         ins = <<>> \/ StringsAt(t, Includes) # <<>>,
         outs = <<>> \/ StringsAt(t, Excludes) # <<>>
  PROVE  LET u == WithStrings(WithStrings(t, Includes, ins), Excludes, outs)
         IN /\ DOMAIN u = DOMAIN t
            /\ \A p \in DOMAIN t : p[1] = "databases" => u[p] = t[p]
            /\ StringsAt(u, Includes)
                 = IF ins = <<>> THEN StringsAt(t, Includes) ELSE ins
<1> DEFINE s == WithStrings(t, Includes, ins)
           u == WithStrings(s, Excludes, outs)
<1>1. /\ Rooted(s) /\ DOMAIN s = DOMAIN t
      /\ \A p \in DOMAIN t :
           \/ s[p] = t[p]
           \/ /\ p = Includes /\ t[p].kind \in {"list", "strings"}
              /\ s[p].kind = "strings"
  BY ListRewritten
<1>2. StringsAt(s, Includes) = IF ins = <<>> THEN StringsAt(t, Includes) ELSE ins
  <2>1. CASE ins = <<>>
    BY <2>1 DEF WithStrings
  <2>2. CASE ins # <<>>
    <3>1. Includes \in DOMAIN t /\ t[Includes].kind \in {"list", "strings"}
      BY <2>2 DEF StringsAt
    <3>2. s = SetPath(t, Includes, Strings(ins))
      BY <2>2 DEF WithStrings
    <3>3. Strings(ins).kind = "strings" /\ Strings(ins).val = ins
      BY DEF Strings
    <3>4. s[Includes] = Strings(ins)
      BY <3>1, <3>2, <3>3, SetSamePath
    <3> HIDE DEF s
    <3> QED
      BY <1>1, <2>2, <3>1, <3>3, <3>4 DEF StringsAt
  <2> QED
    BY <2>1, <2>2
<1> HIDE DEF s
<1>3. StringsAt(s, Excludes) = StringsAt(t, Excludes)
  BY <1>1, ListKeys DEF StringsAt
<1>4. /\ DOMAIN u = DOMAIN s
      /\ \A p \in DOMAIN s :
           \/ u[p] = s[p]
           \/ /\ p = Excludes /\ s[p].kind \in {"list", "strings"}
              /\ u[p].kind = "strings"
  BY <1>1, <1>3, ListRewritten
<1> HIDE DEF u
<1>5. StringsAt(u, Includes) = StringsAt(s, Includes)
  BY <1>4, ListKeys DEF StringsAt
<1>6. Includes[1] = "archive" /\ Excludes[1] = "archive"
  BY DEF Includes, Excludes
<1>7. \A p \in DOMAIN t : p[1] = "databases" => u[p] = t[p]
  BY <1>1, <1>4, <1>6
<1> QED
  BY <1>1, <1>2, <1>4, <1>5, <1>7 DEF u, s

(* The mounts of all volumes, once each.                                   *)
VolumeMounts == [i \in DOMAIN volumes |-> volumes[i].mounts]

LEMMA MountsOfVolumes ==
  ASSUME Discovered, Located
  PROVE  LET all == FlattenSeq(VolumeMounts)
         IN /\ all \in Seq(ToSet(all))
            /\ \A d \in ToSet(all) : FromOwner(d)
            /\ \A v \in ToSet(volumes) : ToSet(v.mounts) \subseteq ToSet(all)
<1> DEFINE S == UNION {ToSet(v.mounts) : v \in ToSet(volumes)}
           u == VolumeMounts
<1>1. volumes \in Seq(ToSet(volumes))
  BY DEF Discovered
<1>2. Len(volumes) \in Nat /\ DOMAIN volumes = 1..Len(volumes)
  BY <1>1
<1>3. \A v \in ToSet(volumes) : /\ v.mounts \in Seq(ToSet(v.mounts))
                                /\ \A d \in ToSet(v.mounts) : FromOwner(d)
  BY LocatedParts DEF VolumeLocated
<1>4. \A i \in 1..Len(volumes) : volumes[i] \in ToSet(volumes)
  BY <1>2 DEF ToSet
<1>5. \A v \in ToSet(volumes) : v.mounts \in Seq(S)
  <2> TAKE v \in ToSet(volumes)
  <2>1. ToSet(v.mounts) \subseteq S /\ v.mounts \in Seq(ToSet(v.mounts))
    BY <1>3
  <2>2. \A i \in 1..Len(v.mounts) : v.mounts[i] \in S
    BY <2>1
  <2> HIDE DEF S
  <2> QED
    BY <2>1, <2>2, SeqOfSubset
<1>6. /\ u = [i \in 1..Len(volumes) |-> volumes[i].mounts]
  BY <1>2 DEF VolumeMounts
<1>7. \A i \in 1..Len(volumes) : volumes[i].mounts \in Seq(S)
  BY <1>4, <1>5
<1> HIDE DEF S, u
<1>8. u \in Seq(Seq(S)) /\ Len(u) = Len(volumes)
  BY <1>2, <1>6, <1>7
<1>9. \A i \in 1..Len(u) : u[i] = volumes[i].mounts
  BY <1>6, <1>8
<1>10. FlattenSeq(u) \in Seq(S)
  BY <1>8, FlattenType
<1>11. ToSet(FlattenSeq(u)) = UNION {ToSet(u[i]) : i \in 1..Len(u)}
  BY <1>8, FlattenElements
<1> DEFINE all == FlattenSeq(u)
<1> HIDE DEF all
<1>12. all \in Seq(ToSet(all))
  BY <1>10, SeqOfOwn DEF all
<1>13. \A d \in ToSet(all) : FromOwner(d)
  <2> TAKE d \in ToSet(all)
  <2>1. PICK i \in 1..Len(u) : d \in ToSet(u[i])
    BY <1>11 DEF all
  <2>2. d \in ToSet(volumes[i].mounts) /\ volumes[i] \in ToSet(volumes)
    BY <1>4, <1>8, <1>9, <2>1
  <2> QED
    BY <1>3, <2>2
<1>14. \A v \in ToSet(volumes) : ToSet(v.mounts) \subseteq ToSet(all)
  <2> TAKE v \in ToSet(volumes)
  <2>1. PICK i \in 1..Len(volumes) : v = volumes[i]
    BY <1>2 DEF ToSet
  <2>2. i \in 1..Len(u) /\ u[i] = v.mounts
    BY <1>8, <1>9, <2>1
  <2> QED
    BY <1>11, <2>2 DEF all
<1> QED
  BY <1>12, <1>13, <1>14 DEF all, u

LEMMA RelocatedMore ==
  ASSUME NEW m, NEW old, NEW new, NEW S, Relocated(m, old, new, S), NEW T,
         \A d \in S : \E e \in T : e.target = d.target
  PROVE  Relocated(m, old, new, T)
BY DEF Relocated, Serves

(* applyArchiveVolumes: a model's includes are those of its volume, whose  *)
(* mounts are among the engine's.                                          *)
LEMMA ApplyArchiveLocated ==
  ASSUME Built, Discovered, Located, ApplyArchiveVolumes
  PROVE  Located'
<1> DEFINE own(m) == {v \in ToSet(volumes) : v.model = m}
           first(m) == CHOOSE v \in own(m) : TRUE
           new(m) == IF own(m) = {} THEN models[m]
                     ELSE WithStrings(WithStrings(models[m], Includes,
                                                  first(m).includes),
                                      Excludes, first(m).excludes)
           all == FlattenSeq(VolumeMounts)
           S == ToSet(mounts')
<1>1. /\ models' = [m \in DOMAIN models |-> new(m)]
      /\ pc = "archive" /\ pc' = "sqlite"
      /\ UNCHANGED <<made, volumes, world, owner>>
      /\ mounts' = FirstBy(MountKey, all)
  BY DEF ApplyArchiveVolumes, VolumeMounts, labelVars
<1>2. /\ all \in Seq(ToSet(all))
      /\ \A d \in ToSet(all) : FromOwner(d)
      /\ \A v \in ToSet(volumes) : ToSet(v.mounts) \subseteq ToSet(all)
  BY MountsOfVolumes
<1> HIDE DEF all
<1>3. AreFirst(mounts', all)
  BY <1>1, <1>2, FirstMounts
<1>4. /\ mounts' \in Seq(S) /\ \A d \in S : FromOwner(d)
      /\ \A v \in ToSet(volumes) : \A d \in ToSet(v.mounts) :
           \E e \in S : e.target = d.target
  BY <1>2, <1>3 DEF AreFirst
<1> HIDE DEF S
<1>5. \A v \in ToSet(volumes) : VolumeLocated(v)
  BY LocatedParts
<1>6. ASSUME NEW m \in DOMAIN models
      PROVE  ArchiveLocated(m, new(m), S) /\ DatabasesLocated(m, new(m), S)
  <2>1. models[m] = made[m].tree /\ WellFormed(models[m])
    BY <1>1 DEF Built, IsModel
  <2>2. CASE own(m) = {}
    <3>1. new(m) = made[m].tree
      BY <2>1, <2>2
    <3> HIDE DEF new
    <3> QED
      BY <3>1 DEF ArchiveLocated, DatabasesLocated
  <2>3. CASE own(m) # {}
    <3> DEFINE v == first(m)
               ins == v.includes
               outs == v.excludes
               old == StringsAt(models[m], Includes)
               u == WithStrings(WithStrings(models[m], Includes, ins),
                                Excludes, outs)
    <3>1. v \in ToSet(volumes) /\ v.model = m
      BY <2>3
    <3>2. new(m) = u
      BY <2>3
    <3> HIDE DEF v, new
    <3>3. /\ ins = <<>> \/ StringsAt(models[m], Includes) # <<>>
          /\ outs = <<>> \/ StringsAt(models[m], Excludes) # <<>>
      BY <1>1, <3>1 DEF Discovered
    <3>4. Rooted(models[m])
      BY <2>1, WellFormedRooted
    <3>5. Relocated(m, old, ins, S)
      <4>1. Relocated(m, old, ins, ToSet(v.mounts))
        BY <1>5, <2>1, <3>1 DEF VolumeLocated
      <4> HIDE DEF old, ins
      <4> QED
        BY <1>4, <3>1, <4>1, RelocatedMore
    <3> HIDE DEF ins, outs
    <3>6. /\ DOMAIN u = DOMAIN models[m]
          /\ \A p \in DOMAIN models[m] :
               p[1] = "databases" => u[p] = models[m][p]
          /\ StringsAt(u, Includes) = IF ins = <<>> THEN old ELSE ins
      BY <3>3, <3>4, ListsSet
    <3> HIDE DEF u, old
    <3>7. ArchiveLocated(m, u, S)
      BY <2>1, <3>5, <3>6 DEF ArchiveLocated, old
    <3>8. DatabasesLocated(m, u, S)
      BY <2>1, <3>6 DEF DatabasesLocated
    <3> QED
      BY <3>2, <3>7, <3>8
  <2> QED
    BY <2>2, <2>3
<1> HIDE DEF new
<1>7. DOMAIN models' = DOMAIN models /\ \A m \in DOMAIN models : models'[m] = new(m)
  BY <1>1
<1>8. /\ \A m \in DOMAIN models' : ArchiveLocated(m, models[m], ToSet(mounts))'
      /\ \A m \in DOMAIN models' :
           DatabasesLocated(m, models[m], ToSet(mounts))'
  BY <1>1, <1>6, <1>7, SamePlaces DEF S
<1>9. \A v \in ToSet(volumes') : VolumeLocated(v)'
  BY <1>1, <1>5, <1>7, SamePlaces
<1>10. \A d \in S : FromOwner(d)'
  BY <1>1, <1>4, <1>7, SameMounts
<1> QED
  BY <1>1, <1>4, <1>8, <1>9, <1>10, LocatedPartsNext DEF S
-----------------------------------------------------------------------------
(* All of a finite set, as a sequence.                                     *)
LEMMA OrderElements ==
  ASSUME NEW S, IsFiniteSet(S), NEW s \in SetToSeqs(S)
  PROVE  s \in Seq(S) /\ ToSet(s) = S
<1> DEFINE n == Cardinality(S)
<1>1. n \in Nat
  BY FS_CardinalityType
<1>3. s \in [1..n -> S] /\ IsInjective(s)
  BY DEF SetToSeqs, IsInjective
<1>4. s \in Injection(1..n, S)
  BY <1>3 DEF Injection
<1>5. IsFiniteSet(1..n) /\ Cardinality(1..n) = n
  <2>1. 1 \in Int /\ n \in Int /\ (1 > n => n = 0) /\ (n - 1) + 1 = n
    BY <1>1
  <2> HIDE DEF n
  <2> QED
    BY <2>1, FS_Interval
<1>6. s \in Surjection(1..n, S)
  BY <1>4, <1>5, FS_Injection
<1>7. s \in Seq(S) /\ DOMAIN s = 1..n
  BY <1>1, <1>3
<1>8. ToSet(s) = S
  BY <1>3, <1>6, <1>7 DEF Surjection, ToSet
<1> QED
  BY <1>7, <1>8

LEMMA FiniteDbs ==
  ASSUME NEW t, IsFiniteSet(DOMAIN t)
  PROVE  IsFiniteSet(SqliteDbs(t))
<1> DEFINE Q == {q \in DOMAIN t : Len(q) = 3}
           f == [q \in Q |-> q[2]]
           T == {f[q] : q \in Q}
<1>1. Q \in SUBSET DOMAIN t
  OBVIOUS
<1>2. SqliteDbs(t) \subseteq T
  BY DEF SqliteDbs
<1> HIDE DEF Q
<1>3. IsFiniteSet(Q)
  BY <1>1, FS_Subset
<1> HIDE DEF f
<1>4. IsFiniteSet(T)
  BY <1>3, FiniteImage
<1> HIDE DEF T
<1>5. SqliteDbs(t) \in SUBSET T
  BY <1>2
<1> QED
  BY <1>4, <1>5, FS_Subset

(* The path of a database is looked for while it is as made.               *)
LEMMA DatabaseAsMade ==
  ASSUME Built, Discovered, NEW m \in DOMAIN models,
         NEW db \in SqliteDbs(models[m])
  PROVE  LET p == DbPath(db)
         IN /\ p \in DOMAIN models[m] /\ models[m][p] = made[m].tree[p]
            /\ models[m][p].val[1] \in Seq(Token)
<1> DEFINE t == models[m]
           old == made[m].tree
           p == DbPath(db)
<1>1. Kin(old, t, m) /\ WellFormed(old) /\ m \in Seq(Token)
  BY DEF Discovered, Kin, Built, IsModel
<1>2. /\ p \in DOMAIN t /\ t[p].kind = "text"
      /\ ~IsPrefix(VolumesRoot, t[p].val[1])
  BY DEF SqliteDbs, IsText
<1> HIDE DEF t, old, p
<1>3. p \in DOMAIN old /\ IsNode(old[p]) /\ Rewritten(old[p], t[p], m)
  BY <1>1, <1>2 DEF Kin, WellFormed
<1>4. t[p] = old[p]
  <2>1. CASE /\ old[p].kind = "text"
             /\ t[p] = Text(Transformed(m, old[p].val[1]))
    <3>1. old[p].val[1] \in Seq(Token)
      BY <1>3, <2>1 DEF IsNode
    <3>2. IsPrefix(VolumesRoot, Transformed(m, old[p].val[1]))
      BY <1>1, <3>1, MovedOnce
    <3> QED
      BY <1>2, <2>1, <3>2 DEF Text
  <2> QED
    BY <1>2, <1>3, <2>1 DEF Rewritten
<1>5. t[p].val[1] \in Seq(Token)
  BY <1>2, <1>3, <1>4 DEF IsNode
<1> QED
  BY <1>2, <1>4, <1>5 DEF t, old, p

LEMMA ArchiveMore ==
  ASSUME NEW m, NEW t, NEW S, ArchiveLocated(m, t, S), NEW T,
         \A d \in S : \E e \in T : e.target = d.target
  PROVE  ArchiveLocated(m, t, T)
BY RelocatedMore DEF ArchiveLocated

LEMMA DatabasesMore ==
  ASSUME NEW m, NEW t, NEW S, DatabasesLocated(m, t, S), NEW T,
         \A d \in S : ~d.readOnly =>
           \E e \in T : e.target = d.target /\ ~e.readOnly
  PROVE  DatabasesLocated(m, t, T)
<1> SUFFICES ASSUME NEW p \in DOMAIN t, p[1] = "databases",
                    t[p] # made[m].tree[p]
             PROVE  LET old == made[m].tree[p]
                    IN /\ t[p].val[1] = Transformed(m, old.val[1])
                       /\ IsMounted(Dests(m), old.val[1])
                       /\ \E d \in T : Serves(d, m, old.val[1]) /\ ~d.readOnly
  BY DEF DatabasesLocated
<1> DEFINE path == made[m].tree[p].val[1]
<1>1. /\ t[p].val[1] = Transformed(m, path) /\ IsMounted(Dests(m), path)
      /\ \E d \in S : Serves(d, m, path) /\ ~d.readOnly
  BY DEF DatabasesLocated
<1> HIDE DEF path
<1>2. PICK d \in S : Serves(d, m, path) /\ ~d.readOnly
  BY <1>1
<1>3. PICK e \in T : e.target = d.target /\ ~e.readOnly
  BY <1>2
<1>4. Serves(e, m, path)
  BY <1>2, <1>3 DEF Serves
<1> QED
  BY <1>1, <1>3, <1>4 DEF path

(* What a walk over a model's databases does to it.                        *)
DbText(t, db) == t[DbPath(db)].val[1]
FoundDbs(m) == {db \in SqliteDbs(models[m]) :
                  IsMounted(Dests(m), DbText(models[m], db))}
DbMounts(m, order) ==
  [i \in DOMAIN order |->
     ResolvePathMount(Dests(m), m, DbText(models[m], order[i]), FALSE)]
MovedDbs(m) ==
  [p \in DOMAIN models[m] |->
     IF \E db \in FoundDbs(m) : p = DbPath(db)
     THEN Text(Transformed(m, DbText(models[m], p[2]))) ELSE models[m][p]]

LEMMA DbMountsServe ==
  ASSUME Reads, Built, Discovered, Finite, Owned, NEW m \in DOMAIN models,
         NEW order \in SetToSeqs(FoundDbs(m))
  PROVE  LET first == ByTarget(DbMounts(m, order))
         IN /\ first \in Seq(ToSet(first))
            /\ \A d \in ToSet(first) : FromOwner(d) /\ d.readOnly = FALSE
            /\ \A db \in FoundDbs(m) : \E d \in ToSet(first) :
                 Serves(d, m, DbText(models[m], db))
<1> DEFINE t == models[m]
           paths == [i \in DOMAIN order |-> DbText(t, order[i])]
<1>1. IsWorld(world)
  BY DEF Reads
<1>2. IsFiniteSet(FoundDbs(m))
  <2>1. IsFiniteSet(DOMAIN models[m])
    BY DEF Finite, Built, Discovered
  <2>2. IsFiniteSet(SqliteDbs(models[m]))
    BY <2>1, FiniteDbs
  <2>3. FoundDbs(m) \in SUBSET SqliteDbs(models[m])
    BY DEF FoundDbs
  <2> QED
    BY <2>2, <2>3, FS_Subset
<1>3. order \in Seq(FoundDbs(m)) /\ ToSet(order) = FoundDbs(m)
  BY <1>2, OrderElements
<1>4. DbMounts(m, order) = [i \in DOMAIN order |->
                       ResolvePathMount(Dests(m), m, DbText(t, order[i]), FALSE)]
  BY DEF DbMounts
<1>5. \A db \in FoundDbs(m) : /\ DbText(t, db) \in Seq(Token)
                              /\ IsMounted(Dests(m), DbText(t, db))
  BY DatabaseAsMade DEF FoundDbs, DbText
<1> HIDE DEF t
<1>6. DOMAIN order = 1..Len(order) /\ Len(order) \in Nat
      /\ \A i \in 1..Len(order) : order[i] \in FoundDbs(m)
  BY <1>3
<1>7. /\ paths \in Seq(Seq(Token)) /\ DOMAIN paths = DOMAIN order
      /\ \A i \in DOMAIN order : paths[i] = DbText(t, order[i])
  <2>1. paths = [i \in 1..Len(order) |-> DbText(t, order[i])]
    BY <1>6
  <2>2. \A i \in 1..Len(order) : DbText(t, order[i]) \in Seq(Token)
    BY <1>5, <1>6
  <2> QED
    BY <1>6, <2>1, <2>2
<1> HIDE DEF paths
<1>8. \A p \in ToSet(paths) : IsMounted(Dests(m), p)
  BY <1>5, <1>6, <1>7 DEF ToSet
<1>9. DbMounts(m, order) = [i \in DOMAIN paths |->
                       ResolvePathMount(Dests(m), m, paths[i], FALSE)]
  BY <1>4, <1>7
<1> DEFINE first == ByTarget(DbMounts(m, order))
<1>10. /\ first \in Seq(ToSet(first))
       /\ \A d \in ToSet(first) : FromOwner(d) /\ d.readOnly = FALSE
       /\ \A p \in ToSet(paths) : \E d \in ToSet(first) : Serves(d, m, p)
  BY <1>1, <1>7, <1>8, <1>9, MountsResolved
<1> HIDE DEF first
<1>11. \A db \in FoundDbs(m) : DbText(t, db) \in ToSet(paths)
  <2> TAKE db \in FoundDbs(m)
  <2>1. PICK i \in DOMAIN order : order[i] = db
    BY <1>3 DEF ToSet
  <2> QED
    BY <1>7, <2>1 DEF ToSet
<1> QED
  BY <1>10, <1>11 DEF first, t

LEMMA DiscoverSqliteLocated ==
  ASSUME Reads, Built, Discovered, Finite, Owned, Located,
         NEW m \in left, NEW ok, DiscoverSqlite(m, ok)
  PROVE  Located'
<1> DEFINE t == models[m]
           moved == MovedDbs(m)
           S == ToSet(mounts)
           T == ToSet(mounts')
<1>1. /\ pc = "sqlite" /\ UNCHANGED <<pc, made, volumes, world, owner>>
      /\ \/ UNCHANGED <<models, mounts>>
         \/ /\ models' = [models EXCEPT ![m] = moved]
            /\ \E order \in SetToSeqs(FoundDbs(m)) :
                 mounts' = mounts \o ByTarget(DbMounts(m, order))
  BY DEF DiscoverSqlite, Walk, labelVars, MovedDbs, FoundDbs, DbMounts,
         DbText, ByTarget
<1>2. m \in DOMAIN models
  BY <1>1 DEF Owned
<1>3. CASE UNCHANGED <<models, mounts>>
  BY <1>1, <1>3, LocatedKept
<1>4. CASE /\ models' = [models EXCEPT ![m] = moved]
           /\ \E order \in SetToSeqs(FoundDbs(m)) :
                mounts' = mounts \o ByTarget(DbMounts(m, order))
  <2>0. PICK order \in SetToSeqs(FoundDbs(m)) :
          mounts' = mounts \o ByTarget(DbMounts(m, order))
    BY <1>4
  <2> DEFINE add == ByTarget(DbMounts(m, order))
  <2>1. /\ add \in Seq(ToSet(add))
        /\ \A d \in ToSet(add) : FromOwner(d) /\ d.readOnly = FALSE
        /\ \A db \in FoundDbs(m) :
             \E d \in ToSet(add) : Serves(d, m, DbText(t, db))
    BY <1>2, DbMountsServe
  <2>2. mounts \in Seq(S) /\ \A d \in S : FromOwner(d)
    BY LocatedParts
  <2>b. mounts' = mounts \o add
    BY <2>0
  <2> HIDE DEF add
  <2>3. mounts' \in Seq(T) /\ T = S \cup ToSet(add)
    <3> DEFINE U == S \cup ToSet(add)
    <3>1. mounts \in Seq(U) /\ add \in Seq(U)
      BY <2>1, <2>2
    <3> HIDE DEF U
    <3>2. mounts \o add \in Seq(U)
      BY <3>1, Concatenated
    <3>3. ToSet(mounts \o add) = ToSet(mounts) \cup ToSet(add)
      BY <3>1, ConcatElements
    <3> QED
      BY <2>b, <3>2, <3>3, SeqOfOwn
  <2> HIDE DEF S, T
  <2>4. /\ \A x \in DOMAIN models : ArchiveLocated(x, models[x], T)
        /\ \A x \in DOMAIN models : DatabasesLocated(x, models[x], T)
    <3>1. /\ \A x \in DOMAIN models : ArchiveLocated(x, models[x], S)
          /\ \A x \in DOMAIN models : DatabasesLocated(x, models[x], S)
      BY LocatedParts DEF S
    <3> QED
      BY <2>3, <3>1, ArchiveMore, DatabasesMore
  <2>5. /\ DOMAIN moved = DOMAIN t
        /\ \A p \in DOMAIN t :
             moved[p] = IF \E db \in FoundDbs(m) : p = DbPath(db)
                        THEN Text(Transformed(m, DbText(t, p[2]))) ELSE t[p]
    BY DEF MovedDbs
  <2>6. \A db : DbPath(db)[1] = "databases" /\ DbPath(db)[2] = db
    BY DEF DbPath
  <2>7. Includes[1] = "archive"
    BY DEF Includes
  <2> HIDE DEF t, moved
  <2>8. ArchiveLocated(m, moved, T)
    <3>1. StringsAt(moved, Includes) = StringsAt(t, Includes)
      <4>1. \A db \in FoundDbs(m) : Includes # DbPath(db)
        BY <2>6, <2>7
      <4> QED
        BY <2>5, <4>1 DEF StringsAt
    <3>2. ArchiveLocated(m, t, T)
      BY <1>2, <2>4 DEF t
    <3> QED
      BY <3>1, <3>2 DEF ArchiveLocated
  <2>9. DatabasesLocated(m, moved, T)
    <3> DEFINE old == made[m].tree
    <3>1. ASSUME NEW p \in DOMAIN moved, NEW db \in FoundDbs(m), p = DbPath(db)
          PROVE  /\ moved[p].val[1] = Transformed(m, old[p].val[1])
                 /\ IsMounted(Dests(m), old[p].val[1])
                 /\ \E d \in T : Serves(d, m, old[p].val[1]) /\ ~d.readOnly
      <4>1. t[p] = old[p] /\ IsMounted(Dests(m), DbText(t, db))
        BY <1>2, <3>1, DatabaseAsMade DEF FoundDbs, t
      <4>2. DbText(t, db) = old[p].val[1] /\ p[2] = db
        BY <2>6, <3>1, <4>1 DEF DbText
      <4>3. moved[p] = Text(Transformed(m, old[p].val[1]))
        BY <2>5, <3>1, <4>2
      <4>4. PICK d \in ToSet(add) : Serves(d, m, DbText(t, db))
        BY <2>1 DEF t
      <4>5. d \in T /\ ~d.readOnly
        BY <2>1, <2>3
      <4> QED
        BY <4>1, <4>2, <4>3, <4>4, <4>5 DEF Text
    <3>2. ASSUME NEW p \in DOMAIN moved, ~\E db \in FoundDbs(m) : p = DbPath(db)
          PROVE  moved[p] = t[p] /\ p \in DOMAIN t
      BY <2>5, <3>2
    <3>3. DatabasesLocated(m, t, T)
      BY <1>2, <2>4 DEF t
    <3> QED
      BY <3>1, <3>2, <3>3 DEF DatabasesLocated
  <2>10. /\ DOMAIN models' = DOMAIN models /\ models'[m] = moved
         /\ \A x \in DOMAIN models : x # m => models'[x] = models[x]
    BY <1>2, <1>4
  <2>11. /\ \A x \in DOMAIN models' : ArchiveLocated(x, models'[x], T)
         /\ \A x \in DOMAIN models' : DatabasesLocated(x, models'[x], T)
    BY <2>4, <2>8, <2>9, <2>10
  <2>12. /\ \A x \in DOMAIN models' :
              ArchiveLocated(x, models[x], ToSet(mounts))'
         /\ \A x \in DOMAIN models' :
              DatabasesLocated(x, models[x], ToSet(mounts))'
    BY <1>1, <2>10, <2>11, SamePlaces DEF T
  <2>13. \A d \in T : FromOwner(d)'
    BY <1>1, <2>1, <2>2, <2>3, <2>10, SameMounts
  <2>14. \A v \in ToSet(volumes') : VolumeLocated(v)'
    BY <1>1, <2>10, LocatedParts, SamePlaces
  <2> QED
    BY <1>1, <2>3, <2>12, <2>13, <2>14, LocatedPartsNext DEF T
<1> QED
  BY <1>1, <1>3, <1>4
-----------------------------------------------------------------------------
(* dedupMountsByTarget: all targets stay, writable where any mount was.    *)
LEMMA DedupKeeps ==
  ASSUME NEW S, NEW s \in Seq(S)
  PROVE  LET new == DedupMountsByTarget(s)
         IN /\ new \in Seq(ToSet(new)) /\ ToSet(new) \subseteq ToSet(s)
            /\ \A d \in ToSet(s) : \E e \in ToSet(new) : e.target = d.target
            /\ \A d \in ToSet(s) : ~d.readOnly =>
                 \E e \in ToSet(new) : e.target = d.target /\ ~e.readOnly
<1> DEFINE first == ByTarget(s)
           W(m) == {i \in DOMAIN s : s[i].target = m.target /\ ~s[i].readOnly}
           pick(m) == IF m.readOnly /\ W(m) # {} THEN s[Min(W(m))] ELSE m
           new == DedupMountsByTarget(s)
<1>1. new = [i \in DOMAIN first |-> pick(first[i])]
  BY DEF DedupMountsByTarget, ByTarget
<1>2. AreFirst(first, s)
  BY FirstTargets
<1>3. DOMAIN s = 1..Len(s) /\ Len(s) \in Nat
  OBVIOUS
<1>4. ASSUME NEW m \in ToSet(s)
      PROVE  /\ pick(m) \in ToSet(s) /\ pick(m).target = m.target
             /\ W(m) # {} => ~pick(m).readOnly
  <2>1. CASE m.readOnly /\ W(m) # {}
    <3>1. W(m) \subseteq Nat
      BY <1>3
    <3>2. Min(W(m)) \in W(m)
      <4> HIDE DEF W
      <4> QED
        BY <2>1, <3>1, MinOfNaturals
    <3>3. pick(m) = s[Min(W(m))]
      BY <2>1
    <3> DEFINE j == Min(W(m))
    <3>4. j \in DOMAIN s /\ s[j].target = m.target /\ ~s[j].readOnly
      BY <3>2
    <3> HIDE DEF j, pick
    <3> QED
      BY <3>3, <3>4 DEF j, ToSet
  <2>2. CASE ~(m.readOnly /\ W(m) # {})
    <3>1. pick(m) = m
      BY <2>2
    <3> HIDE DEF pick
    <3> QED
      BY <2>2, <3>1
  <2> QED
    BY <2>1, <2>2
<1> HIDE DEF pick, first, new
<1>5. /\ first \in Seq(ToSet(first)) /\ ToSet(first) \subseteq ToSet(s)
      /\ \A d \in ToSet(s) : \E e \in ToSet(first) : e.target = d.target
  BY <1>2 DEF AreFirst
<1>6. DOMAIN first = 1..Len(first) /\ Len(first) \in Nat
      /\ \A i \in 1..Len(first) : first[i] \in ToSet(s)
  <2>1. first \in Seq(ToSet(s))
    BY <1>2, SeqOfWider DEF AreFirst
  <2> QED
    BY <2>1
<1>7. ToSet(new) = {pick(e) : e \in ToSet(first)}
  BY <1>1 DEF ToSet
<1>8. new \in Seq(ToSet(s))
  <2>1. \A i \in 1..Len(first) : pick(first[i]) \in ToSet(s)
    BY <1>4, <1>6
  <2> QED
    BY <1>1, <1>6, <2>1
<1>9. new \in Seq(ToSet(new)) /\ ToSet(new) \subseteq ToSet(s)
  BY <1>8, SeqOfOwn
<1>10. ASSUME NEW d \in ToSet(s)
       PROVE  \E e \in ToSet(new) :
                e.target = d.target /\ (~d.readOnly => ~e.readOnly)
  <2>1. PICK e \in ToSet(first) : e.target = d.target
    BY <1>5
  <2>2. pick(e) \in ToSet(new) /\ pick(e).target = d.target
    BY <1>4, <1>5, <1>7, <2>1
  <2>3. ~d.readOnly => W(e) # {}
    BY <2>1 DEF ToSet
  <2> QED
    BY <1>4, <1>5, <2>2, <2>3
<1>11. /\ \A d \in ToSet(s) : \E e \in ToSet(new) : e.target = d.target
       /\ \A d \in ToSet(s) : ~d.readOnly =>
            \E e \in ToSet(new) : e.target = d.target /\ ~e.readOnly
  BY <1>10
<1> QED
  BY <1>9, <1>11 DEF new

LEMMA DedupApart ==
  ASSUME NEW S, NEW s \in Seq(S)
  PROVE  LET new == DedupMountsByTarget(s)
         IN \A i, j \in DOMAIN new : new[i].target = new[j].target => i = j
<1> DEFINE first == ByTarget(s)
           W(m) == {i \in DOMAIN s : s[i].target = m.target /\ ~s[i].readOnly}
           pick(m) == IF m.readOnly /\ W(m) # {} THEN s[Min(W(m))] ELSE m
           new == DedupMountsByTarget(s)
<1>1. new = [i \in DOMAIN first |-> pick(first[i])]
  BY DEF DedupMountsByTarget, ByTarget
<1>2. DOMAIN s \subseteq Nat
  OBVIOUS
<1>3. ASSUME NEW m PROVE pick(m).target = m.target
  <2>1. CASE m.readOnly /\ W(m) # {}
    <3>1. W(m) \subseteq Nat
      BY <1>2
    <3>2. Min(W(m)) \in W(m)
      <4> HIDE DEF W
      <4> QED
        BY <2>1, <3>1, MinOfNaturals
    <3>3. pick(m) = s[Min(W(m))]
      BY <2>1
    <3>4. s[Min(W(m))].target = m.target
      BY <3>2
    <3> HIDE DEF pick, W
    <3> QED
      BY <3>3, <3>4
  <2>2. CASE ~(m.readOnly /\ W(m) # {})
    BY <2>2
  <2> QED
    BY <2>1, <2>2
<1>4. DOMAIN first = 1..Len(first)
  BY FirstTargets DEF AreFirst
<1>5. \A i, j \in 1..Len(first) : first[i].target = first[j].target => i = j
  BY FirstTargetsApart
<1> HIDE DEF pick, first, new
<1>6. DOMAIN new = 1..Len(first)
      /\ \A i \in 1..Len(first) : new[i].target = first[i].target
  BY <1>1, <1>3, <1>4
<1> QED
  BY <1>5, <1>6 DEF new

LEMMA DedupLocated ==
  ASSUME Located, DedupMounts PROVE Located'
<1> DEFINE S == ToSet(mounts)
           T == ToSet(mounts')
<1>1. /\ pc' = "write" /\ mounts' = DedupMountsByTarget(mounts)
      /\ UNCHANGED <<world, owner, made, models, volumes>>
  BY DEF DedupMounts, labelVars, buildVars
<1>2. mounts \in Seq(S) /\ \A d \in S : FromOwner(d)
  BY LocatedParts
<1>3. /\ mounts' \in Seq(T) /\ T \subseteq S
      /\ \A d \in S : \E e \in T : e.target = d.target
      /\ \A d \in S : ~d.readOnly =>
           \E e \in T : e.target = d.target /\ ~e.readOnly
  BY <1>1, <1>2, DedupKeeps
<1>4. /\ \A x \in DOMAIN models : ArchiveLocated(x, models[x], S)
      /\ \A x \in DOMAIN models : DatabasesLocated(x, models[x], S)
  BY LocatedParts
<1> HIDE DEF S, T
<1>5. /\ \A x \in DOMAIN models : ArchiveLocated(x, models[x], T)
      /\ \A x \in DOMAIN models : DatabasesLocated(x, models[x], T)
  BY <1>3, <1>4, ArchiveMore, DatabasesMore
<1>6. /\ \A x \in DOMAIN models' : ArchiveLocated(x, models[x], ToSet(mounts))'
      /\ \A x \in DOMAIN models' :
           DatabasesLocated(x, models[x], ToSet(mounts))'
  BY <1>1, <1>5, SamePlaces DEF T
<1>7. \A d \in T : FromOwner(d)'
  BY <1>1, <1>2, <1>3, SameMounts
<1>8. \A v \in ToSet(volumes') : VolumeLocated(v)'
  BY <1>1, LocatedParts, SamePlaces
<1> QED
  BY <1>1, <1>3, <1>6, <1>7, <1>8, LocatedPartsNext DEF T

(* Until there are models nothing is looked for.                           *)
LEMMA NothingLocated ==
  ASSUME Built', Discovered', pc' \in {"list", "build"}, mounts' = <<>>
  PROVE  Located'
<1>1. ToSet(volumes') = {}
  BY NoVolumes DEF Discovered
<1> QED
  BY <1>1, LocatedEarly

LEMMA LocatedInit == Init => Located
<1> SUFFICES ASSUME Init PROVE Located
  OBVIOUS
<1>1. /\ DOMAIN models = {} /\ mounts = <<>> /\ ToSet(volumes) = {}
      /\ ToSet(mounts) = {} /\ mounts \in Seq(ToSet(mounts))
  BY NoVolumes DEF Init
<1> QED
  BY <1>1 DEF Located

LEMMA LocatedNext ==
  Reads /\ Built /\ Discovered /\ Finite /\ Owned /\ Located /\ Built'
    /\ Discovered' /\ [Next]_vars => Located'
<1> SUFFICES ASSUME Reads, Built, Discovered, Finite, Owned, Located, Built',
                    Discovered', [Next]_vars
             PROVE  Located'
  OBVIOUS
<1>1. ASSUME NEW p \in left, ReadMeta(p) \/ ReadCredRef(p) \/ ReadSetting(p)
      PROVE  Located'
  <2>1. pc' = "list" /\ mounts' = mounts /\ pc = "list"
    BY <1>1 DEF ReadMeta, ReadCredRef, ReadSetting, Reading, volumeVars
  <2> QED
    BY <2>1, LocatedParts, NothingLocated
<1>2. CASE EndContainer \/ LoadProfiles \/ BuildModel
  <2>1. /\ pc' \in {"list", "build"} /\ pc \in {"list", "build"}
        /\ mounts' = mounts
    BY <1>2 DEF EndContainer, LoadProfiles, BuildModel, volumeVars
  <2> QED
    BY <2>1, LocatedParts, NothingLocated
<1>3. CASE StartDiscovery
  <2>1. /\ UNCHANGED <<world, owner, made, models, mounts, volumes>>
        /\ pc = "build"
    BY <1>3 DEF StartDiscovery, labelVars, buildVars, volumeVars
  <2> QED
    BY <2>1, LocatedKept
<1>4. ASSUME NEW m \in left, NEW ok \in BOOLEAN,
             DiscoverArchive(m, ok) \/ DiscoverSqlite(m, ok)
      PROVE  Located'
  BY <1>4, DiscoverArchiveLocated, DiscoverSqliteLocated
<1>5. CASE ApplyArchiveVolumes
  BY <1>5, ApplyArchiveLocated
<1>6. CASE DedupMounts
  BY <1>6, DedupLocated
<1>7. CASE WriteConfig \/ EndPass
  <2>1. /\ UNCHANGED <<world, owner, made, models, mounts, volumes>>
        /\ pc' \notin {"list", "build", "archive"}
    BY <1>7 DEF WriteConfig, EndPass, labelVars, buildVars, volumeVars
  <2> QED
    BY <2>1, LocatedKept
<1>8. ASSUME NEW ok \in BOOLEAN, ResolveCred(ok) PROVE Located'
  <2>1. /\ UNCHANGED <<world, owner, made, models, mounts, volumes>>
        /\ pc' \notin {"list", "build", "archive"}
    BY <1>8 DEF ResolveCred, labelVars
  <2> QED
    BY <2>1, LocatedKept
<1>9. CASE NextPass
  <2>1. pc' = "list" /\ mounts' = <<>>
    BY <1>9 DEF NextPass
  <2> QED
    BY <2>1, NothingLocated
<1>10. CASE UNCHANGED vars
  <2>1. UNCHANGED <<world, owner, made, models, mounts, volumes, pc>>
    BY <1>10 DEF vars, labelVars, buildVars, volumeVars
  <2> QED
    BY <2>1, LocatedKept
<1> QED
  BY <1>1, <1>2, <1>3, <1>4, <1>5, <1>6, <1>7, <1>8, <1>9, <1>10 DEF Next
-----------------------------------------------------------------------------
(* What the engine is given to mount.                                      *)
LEMMA EquippedKept ==
  ASSUME Equipped, UNCHANGED <<world, made, mounts, extras>>,
         pc' \in {"creds", "done"} => pc \in {"creds", "done"}
  PROVE  Equipped'
BY SameMakers DEF Equipped

LEMMA NotEquipping ==
  ASSUME pc' \notin {"creds", "done"}
  PROVE  Equipped'
BY DEF Equipped

LEMMA WriteConfigEquipped ==
  ASSUME Resolved, WriteConfig PROVE Equipped'
<1> DEFINE env == IF file' # models
                  THEN {[var |-> <<"GB_DOLLAR">>, val |-> <<"$">>]} ELSE {}
<1>1. extras = Nothing
  BY DEF WriteConfig, Resolved
<1>2. /\ extras' = [extras EXCEPT !.mounts = ToSet(mounts), !.env = env]
      /\ UNCHANGED mounts
  BY DEF WriteConfig, volumeVars
<1> HIDE DEF env
<1>3. extras'.mounts = ToSet(mounts')
  BY <1>1, <1>2, NothingGiven
<1> QED
  BY <1>3 DEF Equipped

LEMMA ResolveCredEquipped ==
  ASSUME Resolved, Equipped, NEW ok, ResolveCred(ok) PROVE Equipped'
<1> DEFINE c == Head(creds)
           all == CredsOf("env") \cup CredsOf("file")
           target == SecretsRoot \o c.var
<1>1. /\ pc = "creds" /\ creds # <<>>
      /\ UNCHANGED <<world, made, pc, mounts>>
      /\ \/ UNCHANGED extras
         \/ c.kind = "env" /\ ResolveEnv(c)
         \/ c.kind # "env" /\ ResolveFile(c)
  BY DEF ResolveCred
<1>2. c \in all
  <2>1. creds \in Seq(all)
    BY DEF Resolved
  <2> HIDE DEF all
  <2> QED
    BY <1>1, <2>1
<1>3. \A kind : \A x \in CredsOf(kind) : x.kind = kind
  BY DEF CredsOf, CredOf
<1>4. DOMAIN extras = {"mounts", "env", "exports"}
  BY NothingGiven DEF Resolved
<1> HIDE DEF c, target
<1>5. CASE UNCHANGED extras
  BY <1>1, <1>5, EquippedKept
<1>6. CASE c.kind = "env" /\ ResolveEnv(c)
  <2>1. extras'.mounts = extras.mounts
    BY <1>4, <1>6 DEF ResolveEnv
  <2> QED
    BY <1>1, <2>1, SameMakers DEF Equipped
<1>7. CASE c.kind # "env" /\ ResolveFile(c)
  <2>1. c \in CredsOf("file")
    BY <1>2, <1>3, <1>7
  <2>2. \/ extras'.mounts = extras.mounts
        \/ \E d : d.target = target /\ extras'.mounts = extras.mounts \cup {d}
    <3> DEFINE dests == DestMap(Client(c.id).mounts)
               source == MountSource(dests[FindMountForPath(c.ref, dests)])
               d0 == [type |-> "bind", source |-> source, target |-> target,
                      readOnly |-> TRUE]
               e0 == [var |-> c.var, path |-> target]
    <3>1. \/ extras' = extras
          \/ extras' = [extras EXCEPT !.mounts = @ \cup {d0},
                                      !.exports = @ \cup {e0}]
      BY <1>7 DEF ResolveFile, target
    <3>2. d0.target = target
      OBVIOUS
    <3> HIDE DEF d0, e0
    <3> QED
      BY <1>4, <3>1, <3>2
  <2>3. \A d \in extras'.mounts :
          d \in extras.mounts \/ d.target = target
    BY <2>2
  <2>4. extras.mounts \subseteq extras'.mounts
    BY <2>2
  <2>5. \A d \in extras'.mounts \ ToSet(mounts) :
          \E x \in CredsOf("file") :
            d.target = SecretsRoot \o x.var
    BY <1>1, <2>1, <2>3 DEF Equipped, target
  <2> QED
    BY <1>1, <2>4, <2>5, SameMakers DEF Equipped
<1> QED
  BY <1>1, <1>5, <1>6, <1>7

LEMMA EquippedNext == Resolved /\ Equipped /\ [Next]_vars => Equipped'
<1> SUFFICES ASSUME Resolved, Equipped, [Next]_vars PROVE Equipped'
  OBVIOUS
<1>1. ASSUME NEW p \in left, ReadMeta(p) \/ ReadCredRef(p) \/ ReadSetting(p)
      PROVE  Equipped'
  BY <1>1, NotEquipping DEF ReadMeta, ReadCredRef, ReadSetting, Reading
<1>2. CASE EndContainer \/ LoadProfiles \/ BuildModel \/ StartDiscovery
           \/ ApplyArchiveVolumes \/ DedupMounts \/ NextPass
  <2>1. pc' \notin {"creds", "done"}
    BY <1>2 DEF EndContainer, LoadProfiles, BuildModel, StartDiscovery,
                ApplyArchiveVolumes, DedupMounts, NextPass
  <2> QED
    BY <2>1, NotEquipping
<1>3. ASSUME NEW m \in left, NEW ok \in BOOLEAN,
             DiscoverArchive(m, ok) \/ DiscoverSqlite(m, ok)
      PROVE  Equipped'
  <2>1. pc' \notin {"creds", "done"}
    BY <1>3 DEF DiscoverArchive, DiscoverSqlite, Walk
  <2> QED
    BY <2>1, NotEquipping
<1>4. CASE WriteConfig
  BY <1>4, WriteConfigEquipped
<1>5. ASSUME NEW ok \in BOOLEAN, ResolveCred(ok) PROVE Equipped'
  BY <1>5, ResolveCredEquipped
<1>6. CASE EndPass
  <2>1. UNCHANGED <<world, made, mounts, extras>> /\ pc = "creds"
    BY <1>6 DEF EndPass, buildVars, volumeVars, outVars
  <2> QED
    BY <2>1, EquippedKept
<1>7. CASE UNCHANGED vars
  <2>1. UNCHANGED <<world, made, mounts, extras, pc>>
    BY <1>7 DEF vars, buildVars, volumeVars, outVars
  <2> QED
    BY <2>1, EquippedKept
<1> QED
  BY <1>1, <1>2, <1>3, <1>4, <1>5, <1>6, <1>7 DEF Next
-----------------------------------------------------------------------------
(* No two mounts at one place.                                             *)
ManagedPhases == {"write", "creds", "done"}
Apart(ms) == \A i, j \in DOMAIN ms : ms[i].target = ms[j].target => i = j
TargetsDiffer(S) == \A d, e \in S : d.target = e.target => d = e

LEMMA FittedParts ==
  Fitted <=>
    /\ pc \in ManagedPhases => Apart(mounts)
    /\ \A e \in extras.exports : e.path = SecretsRoot \o e.var
    /\ pc \in {"creds", "done"} =>
         /\ \A d \in extras.mounts \ ToSet(mounts) :
              \E e \in extras.exports : d.target = e.path
         /\ TargetsDiffer(extras.mounts)
BY DEF Fitted, ManagedPhases, Apart, TargetsDiffer

LEMMA FittedPartsNext ==
  Fitted' <=>
    /\ pc' \in ManagedPhases => Apart(mounts')
    /\ \A e \in extras'.exports : e.path = SecretsRoot \o e.var
    /\ pc' \in {"creds", "done"} =>
         /\ \A d \in extras'.mounts \ ToSet(mounts') :
              \E e \in extras'.exports : d.target = e.path
         /\ TargetsDiffer(extras'.mounts)
BY DEF Fitted, ManagedPhases, Apart, TargetsDiffer

LEMMA FittedKept ==
  ASSUME Fitted, UNCHANGED <<mounts, extras>>,
         pc' \in ManagedPhases => pc \in ManagedPhases,
         pc' \in {"creds", "done"} => pc \in {"creds", "done"}
  PROVE  Fitted'
BY FittedParts, FittedPartsNext

LEMMA NotFitting ==
  ASSUME Fitted, UNCHANGED extras, pc' \notin ManagedPhases
  PROVE  Fitted'
BY FittedParts, FittedPartsNext DEF ManagedPhases

LEMMA WriteConfigFitted ==
  ASSUME Resolved, Fitted, WriteConfig PROVE Fitted'
<1> DEFINE env == IF file' # models
                  THEN {[var |-> <<"GB_DOLLAR">>, val |-> <<"$">>]} ELSE {}
<1>1. extras = Nothing /\ pc = "write"
  BY DEF WriteConfig, Resolved
<1>2. /\ extras' = [extras EXCEPT !.mounts = ToSet(mounts), !.env = env]
      /\ UNCHANGED mounts
  BY DEF WriteConfig, volumeVars
<1> HIDE DEF env
<1>3. extras'.mounts = ToSet(mounts) /\ extras'.exports = {}
  BY <1>1, <1>2 DEF Nothing
<1>4. Apart(mounts)
  BY <1>1, FittedParts DEF ManagedPhases
<1>5. TargetsDiffer(ToSet(mounts))
  BY <1>4 DEF Apart, TargetsDiffer, ToSet
<1> QED
  BY <1>2, <1>3, <1>4, <1>5, FittedPartsNext

(* The places of secrets are apart, from each other and from volumes.      *)
LEMMA SecretsDiffer ==
  ASSUME NEW v \in Seq(Token), NEW w \in Seq(Token),
         SecretsRoot \o v = SecretsRoot \o w
  PROVE  v = w
<1> DEFINE y == SecretsRoot \o v
<1>1. /\ Len(y) = 1 + Len(v) /\ \A i \in 1..Len(v) : y[1 + i] = v[i]
      /\ Len(y) = 1 + Len(w) /\ \A i \in 1..Len(w) : y[1 + i] = w[i]
  BY SecretKeys
<1> HIDE DEF y
<1>2. Len(v) = Len(w)
  <2>1. Len(v) \in Nat /\ Len(w) \in Nat
    OBVIOUS
  <2> QED
    BY <1>1, <2>1
<1>3. \A i \in 1..Len(v) : v[i] = w[i]
  BY <1>1, <1>2
<1> QED
  BY <1>2, <1>3, SeqEqual

LEMMA SecretNotVolume ==
  ASSUME NEW v \in Seq(Token), NEW m \in Seq(Token), NEW x \in Seq(Token)
  PROVE  SecretsRoot \o v # Transformed(m, x)
<1>1. (SecretsRoot \o v)[1] = "/gobackup-secrets/"
  BY SecretKeys
<1>2. Transformed(m, x)[1] = "/"
  BY TransformedKeys DEF InPlace
<1> QED
  BY <1>1, <1>2

LEMMA CredVarIsName ==
  ASSUME Reads, Built, NEW c \in CredsOf("file")
  PROVE  c.var \in Seq(NameTokens) /\ c.var \in Seq(Token) /\ Len(c.var) > 0
<1>1. PICK n \in DOMAIN made :
        \E r \in ToSet(made[n].src.refs) : c = CredOf(r, n, made[n].src.id)
  BY DEF CredsOf
<1>2. PICK r \in ToSet(made[n].src.refs) : c = CredOf(r, n, made[n].src.id)
  BY <1>1
<1>3. n \in Seq(Token) /\ r.path \in Seq(Token)
  <2>1. n \in Seq(Token) /\ IsSource(made[n].src)
    BY DEF Built
  <2>2. made[n].src.refs \in Seq([path : Path, kind : {"env", "file"},
                                  ref : Seq(Token)])
    BY <2>1 DEF IsSource
  <2> DEFINE refs == made[n].src.refs
             R == [path : Path, kind : {"env", "file"}, ref : Seq(Token)]
  <2>3. refs \in Seq(R) /\ r \in ToSet(refs)
    BY <1>2, <2>2
  <2> HIDE DEF refs, R
  <2>4. r \in R
    BY <2>3 DEF ToSet
  <2>5. r.path \in Path
    BY <2>4 DEF R
  <2> QED
    BY <2>1, <2>5 DEF Path
<1>4. c.var = CredVarName(n, r.path)
  BY <1>2 DEF CredOf
<1> DEFINE j == Joined(n, r.path)
           gb == <<"GB", "_">>
           v == CredVarName(n, r.path)
<1>5. v \in Seq(NameTokens) /\ v = gb \o j /\ j \in Seq(NameTokens)
  BY <1>3, VarNameType
<1>6. NameTokens \subseteq Token
  BY DEF NameTokens
<1>7. Len(gb) = 2 /\ gb \in Seq(Token)
  <2>1. "GB" \in Token /\ "_" \in Token
    BY Zenon DEF Token
  <2>2. \A x, y \in Token : <<x, y>> \in Seq(Token) /\ Len(<<x, y>>) = 2
    OBVIOUS
  <2> QED
    BY <2>1, <2>2
<1> HIDE DEF gb, j, v
<1>8. j \in Seq(Token) /\ v \in Seq(Token)
  BY <1>5, <1>6, SeqOfWider
<1>9. Len(v) = Len(gb) + Len(j)
  BY <1>5, <1>7, <1>8, Concatenated
<1>10. Len(j) \in Nat
  BY <1>8
<1> QED
  BY <1>4, <1>5, <1>7, <1>8, <1>9, <1>10 DEF v

LEMMA OwnersPlaces ==
  ASSUME Reads, Built, Owned, NEW d, FromOwner(d)
  PROVE  \E m \in Seq(Token), x \in Seq(Token) :
           d.target = Transformed(m, x) /\ x # <<>> /\ Trim(x) = x
<1>1. PICK m \in DOMAIN models : \E dst \in DOMAIN Dests(m) :
        d.target = Transformed(m, dst)
  BY DEF FromOwner
<1>2. PICK x \in DOMAIN Dests(m) : d.target = Transformed(m, x)
  BY <1>1
<1>3. m \in Seq(Token)
  BY DEF Built
<1>4. AreDests(DOMAIN Dests(m))
  <2>1. IsWorld(world) /\ IsClient(owner[m])
    BY DEF Reads, Owned
  <2> QED
    BY <2>1, OwnersMounts, DestsOfMounts DEF Dests
<1>5. x \in Seq(Token) /\ x # <<>> /\ Trim(x) = x
  BY <1>2, <1>4 DEF AreDests
<1> QED
  BY <1>2, <1>3, <1>5

LEMMA ResolveFileFitted ==
  ASSUME Reads, Built, Resolved, Owned, Located, Fitted, pc = "creds",
         UNCHANGED <<pc, mounts>>, NEW c \in CredsOf("file"), ResolveFile(c)
  PROVE  Fitted'
<1> DEFINE dests == DestMap(Client(c.id).mounts)
           source == MountSource(dests[FindMountForPath(c.ref, dests)])
           target == SecretsRoot \o c.var
           d0 == [type |-> "bind", source |-> source, target |-> target,
                  readOnly |-> TRUE]
           e0 == [var |-> c.var, path |-> target]
<1>1. \/ extras' = extras
      \/ /\ \A e \in extras.exports : e.var # c.var
         /\ extras' = [extras EXCEPT !.mounts = @ \cup {d0},
                                     !.exports = @ \cup {e0}]
  BY DEF ResolveFile
<1>2. /\ d0.target = target /\ e0.path = target /\ e0.var = c.var
      /\ target = SecretsRoot \o c.var
  OBVIOUS
<1> HIDE DEF d0, e0, target, dests, source
<1>3. /\ Apart(mounts)
      /\ \A e \in extras.exports : e.path = SecretsRoot \o e.var
      /\ \A d \in extras.mounts \ ToSet(mounts) :
           \E e \in extras.exports : d.target = e.path
      /\ TargetsDiffer(extras.mounts)
  BY FittedParts DEF ManagedPhases
<1>4. CASE extras' = extras
  BY <1>4, FittedKept
<1>5. CASE /\ \A e \in extras.exports : e.var # c.var
           /\ extras' = [extras EXCEPT !.mounts = @ \cup {d0},
                                       !.exports = @ \cup {e0}]
  <2>1. DOMAIN extras = {"mounts", "env", "exports"}
    BY NothingGiven DEF Resolved
  <2>2. /\ extras'.mounts = extras.mounts \cup {d0}
        /\ extras'.exports = extras.exports \cup {e0}
    BY <1>5, <2>1
  <2>3. c.var \in Seq(Token)
    BY CredVarIsName
  <2>4. ASSUME NEW d \in extras.mounts PROVE d.target # target
    <3>1. CASE d \in ToSet(mounts)
      <4>1. FromOwner(d)
        BY <3>1 DEF Located
      <4>2. PICK m \in Seq(Token), x \in Seq(Token) :
              d.target = Transformed(m, x)
        BY <4>1, OwnersPlaces
      <4> QED
        BY <1>2, <2>3, <4>2, SecretNotVolume
    <3>2. CASE d \notin ToSet(mounts)
      <4>1. PICK e \in extras.exports : d.target = e.path
        BY <1>3, <3>2
      <4>2. e.path = SecretsRoot \o e.var
        BY <1>3
      <4>3. e.var \in Seq(Token)
        <5>1. \E b \in CredsOf("file") : e.var = b.var
          BY DEF Resolved
        <5> QED
          BY <5>1, CredVarIsName
      <4> QED
        BY <1>2, <1>5, <2>3, <4>1, <4>2, <4>3, SecretsDiffer
    <3> QED
      BY <3>1, <3>2
  <2>5. TargetsDiffer(extras'.mounts)
    BY <1>2, <1>3, <2>2, <2>4 DEF TargetsDiffer
  <2>6. \A e \in extras'.exports : e.path = SecretsRoot \o e.var
    BY <1>2, <1>3, <2>2
  <2>7. \A d \in extras'.mounts \ ToSet(mounts') :
          \E e \in extras'.exports : d.target = e.path
    BY <1>2, <1>3, <2>2
  <2> QED
    BY <1>3, <2>5, <2>6, <2>7, FittedPartsNext
<1> QED
  BY <1>1, <1>4, <1>5

LEMMA ResolveCredFitted ==
  ASSUME Reads, Built, Resolved, Owned, Located, Fitted, NEW ok,
         ResolveCred(ok)
  PROVE  Fitted'
<1> DEFINE c == Head(creds)
           all == CredsOf("env") \cup CredsOf("file")
<1>1. /\ pc = "creds" /\ creds # <<>> /\ UNCHANGED <<pc, mounts>>
      /\ \/ UNCHANGED extras
         \/ c.kind = "env" /\ ResolveEnv(c)
         \/ c.kind # "env" /\ ResolveFile(c)
  BY DEF ResolveCred
<1>2. c \in all
  <2>1. creds \in Seq(all)
    BY DEF Resolved
  <2> HIDE DEF all
  <2> QED
    BY <1>1, <2>1
<1>3. \A kind : \A x \in CredsOf(kind) : x.kind = kind
  BY DEF CredsOf, CredOf
<1> HIDE DEF c
<1>4. CASE UNCHANGED extras
  BY <1>1, <1>4, FittedKept
<1>5. CASE c.kind = "env" /\ ResolveEnv(c)
  <2>1. DOMAIN extras = {"mounts", "env", "exports"}
    BY NothingGiven DEF Resolved
  <2>2. extras'.mounts = extras.mounts /\ extras'.exports = extras.exports
    BY <1>5, <2>1 DEF ResolveEnv
  <2> QED
    BY <1>1, <2>2, FittedParts, FittedPartsNext
<1>6. CASE c.kind # "env" /\ ResolveFile(c)
  <2>1. c \in CredsOf("file")
    BY <1>2, <1>3, <1>6
  <2> QED
    BY <1>1, <1>6, <2>1, ResolveFileFitted
<1> QED
  BY <1>1, <1>4, <1>5, <1>6

LEMMA FittedNext ==
  Reads /\ Built /\ Resolved /\ Owned /\ Located /\ Fitted /\ [Next]_vars
    => Fitted'
<1> SUFFICES ASSUME Reads, Built, Resolved, Owned, Located, Fitted,
                    [Next]_vars
             PROVE  Fitted'
  OBVIOUS
<1>1. ASSUME NEW p \in left, ReadMeta(p) \/ ReadCredRef(p) \/ ReadSetting(p)
      PROVE  Fitted'
  <2>1. pc' = "list" /\ UNCHANGED extras
    BY <1>1 DEF ReadMeta, ReadCredRef, ReadSetting, Reading, outVars
  <2> QED
    BY <2>1, NotFitting DEF ManagedPhases
<1>2. CASE EndContainer \/ LoadProfiles \/ BuildModel \/ ApplyArchiveVolumes
  <2>1. pc' \in {"list", "build", "sqlite"} /\ UNCHANGED outVars
    <3>1. CASE EndContainer \/ LoadProfiles \/ ApplyArchiveVolumes
      BY <3>1 DEF EndContainer, LoadProfiles, ApplyArchiveVolumes
    <3>2. CASE BuildModel
      BY <3>2 DEF BuildModel
    <3> QED
      BY <1>2, <3>1, <3>2
  <2> QED
    BY <2>1, NotFitting DEF outVars, ManagedPhases
<1>3. CASE StartDiscovery
  <2>1. /\ pc = "build" /\ pc' \notin {"creds", "done"}
        /\ UNCHANGED <<mounts, extras>>
    BY <1>3 DEF StartDiscovery, volumeVars, outVars
  <2>2. mounts = <<>>
    BY <2>1 DEF Located
  <2>3. Apart(mounts)
    BY <2>2 DEF Apart
  <2> QED
    BY <2>1, <2>3, FittedParts, FittedPartsNext
<1>4. ASSUME NEW m \in left, NEW ok \in BOOLEAN,
             DiscoverArchive(m, ok) \/ DiscoverSqlite(m, ok)
      PROVE  Fitted'
  <2>1. pc' \in {"archive", "sqlite"} /\ UNCHANGED outVars
    <3>1. CASE DiscoverArchive(m, ok)
      BY <3>1 DEF DiscoverArchive, Walk
    <3>2. CASE DiscoverSqlite(m, ok)
      <4>1. Walk("sqlite", m) /\ UNCHANGED <<pc, outVars>>
        BY <3>2, Zenon DEF DiscoverSqlite
      <4> QED
        BY <4>1 DEF Walk
    <3> QED
      BY <1>4, <3>1, <3>2
  <2> QED
    BY <2>1, NotFitting DEF outVars, ManagedPhases
<1>5. CASE DedupMounts
  <2>1. /\ pc' = "write" /\ mounts' = DedupMountsByTarget(mounts)
        /\ UNCHANGED extras
    BY <1>5 DEF DedupMounts, outVars
  <2>2. mounts \in Seq(ToSet(mounts))
    BY DEF Located
  <2>3. Apart(mounts')
    BY <2>1, <2>2, DedupApart DEF Apart
  <2> QED
    BY <2>1, <2>3, FittedParts, FittedPartsNext
<1>6. CASE WriteConfig
  BY <1>6, WriteConfigFitted
<1>7. ASSUME NEW ok \in BOOLEAN, ResolveCred(ok) PROVE Fitted'
  BY <1>7, ResolveCredFitted
<1>8. CASE EndPass
  <2>1. pc = "creds" /\ UNCHANGED <<mounts, extras>>
    BY <1>8 DEF EndPass, volumeVars, outVars
  <2> QED
    BY <2>1, FittedKept DEF ManagedPhases
<1>9. CASE NextPass
  <2>1. pc' = "list" /\ extras' = Nothing
    BY <1>9 DEF NextPass
  <2>2. extras'.exports = {}
    BY <2>1 DEF Nothing
  <2> QED
    BY <2>1, <2>2, FittedPartsNext DEF ManagedPhases
<1>10. CASE UNCHANGED vars
  <2>1. UNCHANGED <<mounts, extras, pc>>
    BY <1>10 DEF vars, volumeVars, outVars
  <2> QED
    BY <2>1, FittedKept
<1> QED
  BY <1>1, <1>2, <1>3, <1>4, <1>5, <1>6, <1>7, <1>8, <1>9, <1>10 DEF Next
-----------------------------------------------------------------------------
(* Whatever the worlds, the orders Go walks its maps in and the inspects   *)
(* that fail, a pass keeps the inductive invariant: labels are read as     *)
(* they stand, a model has what its source declares, discovery sets lists  *)
(* and paths of databases only, the file is the models escaped, what the  *)
(* engine is given was asked for by a reference of a model, and no two of  *)
(* its mounts are at one place.                                            *)
THEOREM ConfigPassInvariance == Spec => []IInv
<1>1. Init => IInv
  <2> SUFFICES ASSUME Init PROVE IInv
    OBVIOUS
  <2>1. Reads /\ Validated /\ Built
    BY ReadsInit, ValidatedInit, BuiltInit
  <2>2. Discovered
    BY NoVolumes DEF Init, Discovered
  <2>3. Written
    BY DEF Init, Written
  <2>4. Resolved
    BY NothingGiven DEF Init, Resolved
  <2>5. Finite /\ Located
    BY FiniteInit, LocatedInit
  <2>6. Owned
    BY NoVolumes DEF Init, Owned
  <2>7. Equipped
    BY DEF Init, Equipped
  <2>8. Fitted
    <3>1. pc = "list" /\ extras.exports = {}
      BY DEF Init, Nothing
    <3> QED
      BY <3>1 DEF Fitted
  <2> QED
    BY <2>1, <2>2, <2>3, <2>4, <2>5, <2>6, <2>7, <2>8 DEF IInv
<1>2. IInv /\ [Next]_vars => IInv'
  <2> SUFFICES ASSUME IInv, [Next]_vars PROVE IInv'
    OBVIOUS
  <2>1. Reads' /\ Validated' /\ Built'
    BY ReadsNext, ValidatedNext, BuiltNext DEF IInv
  <2>2. Discovered' /\ Written' /\ Resolved'
    BY DiscoveredNext, WrittenNext, ResolvedNext DEF IInv
  <2>3. Finite' /\ Owned' /\ Equipped'
    BY FiniteNext, OwnedNext, EquippedNext DEF IInv
  <2>4. Located'
    BY <2>1, <2>2, LocatedNext DEF IInv
  <2>5. Fitted'
    BY FittedNext DEF IInv
  <2> QED
    BY <2>1, <2>2, <2>3, <2>4, <2>5 DEF IInv
<1> QED
  BY <1>1, <1>2, PTL DEF Spec
=============================================================================
