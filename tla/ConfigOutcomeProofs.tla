------------------------ MODULE ConfigOutcomeProofs ------------------------
(***************************************************************************)
(* Proofs about what a pass gives: what the properties of ConfigPass say,  *)
(* from its inductive invariant, and that a pass without failures gives    *)
(* the outcome of its world (PassOutcome), in whatever order it walks.     *)
(***************************************************************************)
EXTENDS PassOutcome, ConfigPassProofs

(* What the properties say.                                                *)

(* A model has the leaves its own container and its profile declare, and   *)
(* no other, from when it is built until the file is written, whatever     *)
(* other containers, profiles and models there are, and whichever inspects *)
(* fail (deepCopy, deepMerge, pruneOptOut, substituteCreds, discovery).    *)
THEOREM ModelsDeclared == Spec => []ModelsAsDeclared
<1>1. ASSUME IInv PROVE ModelsAsDeclared
  <2> SUFFICES ASSUME NEW m \in DOMAIN models
               PROVE  Leaves(models[m]) = DeclaredLeaves(made[m].src)
    BY DEF ModelsAsDeclared
  <2>1. Kin(made[m].tree, models[m], m)
    BY <1>1 DEF IInv, Discovered, Kin
  <2>2. Leaves(made[m].tree) = DeclaredLeaves(made[m].src)
    BY <1>1 DEF IInv, Built, IsModel
  <2>3. \A old, new : Rewritten(old, new, m)
                        => (new.kind = "map" <=> old.kind = "map")
    BY NodeKinds DEF Rewritten
  <2> QED
    BY <2>1, <2>2, <2>3 DEF Kin, Leaves
<1> QED
  BY <1>1, ConfigPassInvariance, PTL

(* A variable is one credential's, if no other is alike.                   *)
LEMMA VarNamesOne ==
  ASSUME NEW m \in Seq(Token), NEW p \in Seq(Token),
         NEW n \in Seq(Token), NEW q \in Seq(Token),
         CredVarName(m, p) = CredVarName(n, q)
  PROVE  Joined(m, p) = Joined(n, q)
<1> DEFINE gb == <<"GB", "_">>
<1>1. gb \in Seq(NameTokens)
  <2>1. "GB" \in NameTokens /\ "_" \in NameTokens
    BY ConfigPassAssumption DEF NameTokens, IsName, Token
  <2>2. \A x, y \in NameTokens : <<x, y>> \in Seq(NameTokens)
    OBVIOUS
  <2> QED
    BY <2>1, <2>2
<1> HIDE DEF gb
<1>2. Joined(m, p) \in Seq(NameTokens) /\ Joined(n, q) \in Seq(NameTokens)
  BY VarNameType
<1>3. gb \o Joined(m, p) = CredVarName(m, p)
  BY VarNameType DEF gb
<1>4. gb \o Joined(n, q) = CredVarName(n, q)
  BY VarNameType DEF gb
<1>5. gb \o Joined(m, p) = gb \o Joined(n, q)
  BY <1>3, <1>4
<1> QED
  BY <1>1, <1>2, <1>5, ConcatSimplifications

LEMMA VarNameLonger ==
  ASSUME NEW m \in Seq(Token), NEW p \in Seq(Token)
  PROVE  /\ Len(CredVarName(m, p)) >= 2
         /\ CredVarName(m, p)[1] = "GB"
         /\ CredVarName(m, p) # <<"GB_DOLLAR">>
<1> DEFINE gb == <<"GB", "_">>
           rest == Joined(m, p)
<1>1. gb \in Seq(NameTokens) /\ Len(gb) = 2 /\ gb[1] = "GB"
  <2>1. "GB" \in NameTokens /\ "_" \in NameTokens
    BY ConfigPassAssumption DEF NameTokens, IsName, Token
  <2>2. \A x, y \in NameTokens : <<x, y>> \in Seq(NameTokens)
    OBVIOUS
  <2>3. Len(gb) = 2 /\ gb[1] = "GB"
    OBVIOUS
  <2> QED
    BY <2>1, <2>2, <2>3
<1>2. CredVarName(m, p) = gb \o rest /\ rest \in Seq(NameTokens)
  BY VarNameType
<1>3. Len(<<"GB_DOLLAR">>) = 1
  OBVIOUS
<1> HIDE DEF gb, rest
<1>4. Len(gb \o rest) >= 2 /\ (gb \o rest)[1] = "GB"
  <2>1. Len(gb \o rest) = Len(gb) + Len(rest)
        /\ \A i \in 1..Len(gb) : (gb \o rest)[i] = gb[i]
    <3>1. gb \in Seq(NameTokens) /\ rest \in Seq(NameTokens)
      BY <1>1, <1>2
    <3> QED
      BY <3>1, Concatenated
  <2>2. Len(rest) \in Nat /\ 1 \in 1..Len(gb)
    BY <1>1, <1>2
  <2> QED
    BY <1>1, <2>1, <2>2
<1> DEFINE x == gb \o rest
           one == <<"GB_DOLLAR">>
<1>5. Len(x) # Len(one)
  BY <1>1, <1>2, <1>3, <1>4
<1> HIDE DEF x, one
<1>6. x # one
  BY <1>5, Zenon
<1> QED
  BY <1>2, <1>4, <1>6 DEF x, one

(* The destination of a mount is found, whatever other mounts there are.   *)
LEMMA OwnDestination ==
  ASSUME NEW mnts, NEW d \in DOMAIN mnts,
         \A e \in DOMAIN mnts : Trim(e) = Trim(d) => e = d
  PROVE  DestMap(mnts)[FindMountForPath(d, DestMap(mnts))] = mnts[d]
<1> DEFINE own == CHOOSE e \in DOMAIN mnts : Trim(e) = Trim(d)
<1>1. own \in DOMAIN mnts /\ Trim(own) = Trim(d)
  OBVIOUS
<1>2. own = d
  BY <1>1
<1>3. Trim(d) \in DOMAIN DestMap(mnts) /\ DestMap(mnts)[Trim(d)] = mnts[own]
  BY DEF DestMap
<1>4. FindMountForPath(d, DestMap(mnts)) = Trim(d)
  BY <1>3 DEF FindMountForPath
<1> QED
  BY <1>2, <1>3, <1>4
-----------------------------------------------------------------------------
(* Escaping keeps the reference to a credential's variable.                *)
LEMMA ReferenceParts ==
  ASSUME NEW var \in Seq(NameTokens), NEW s, s = Reference(var)
  PROVE  /\ s \in Seq(Token) /\ Len(s) = Len(var) + 3
         /\ s[1] = "$" /\ s[2] = Open /\ s[Len(s)] = Close
         /\ \A k \in 1..Len(var) : s[k + 2] = var[k]
<1> DEFINE begin == <<"$", Open>>
           end == <<Close>>
           part == begin \o var
<1>1. /\ begin \in Seq(Token) /\ Len(begin) = 2
      /\ begin[1] = "$" /\ begin[2] = Open
      /\ end \in Seq(Token) /\ Len(end) = 1 /\ end[1] = Close
  <2>1. "$" \in Token /\ Open \in Token /\ Close \in Token
    BY Zenon DEF Token, Open, Close
  <2>2. \A x, y \in Token : <<x, y>> \in Seq(Token) /\ Len(<<x, y>>) = 2
          /\ <<x, y>>[1] = x /\ <<x, y>>[2] = y
    OBVIOUS
  <2>3. \A x \in Token : <<x>> \in Seq(Token) /\ Len(<<x>>) = 1
          /\ <<x>>[1] = x
    OBVIOUS
  <2>4. end \in Seq(Token) /\ Len(end) = 1 /\ end[1] = Close
    BY <2>1, <2>3
  <2> QED
    BY <2>1, <2>2, <2>4
<1>2. s = part \o end
  BY Zenon DEF Reference
<1>3. var \in Seq(Token)
  <2>1. \A i \in 1..Len(var) : var[i] \in Token
    BY DEF NameTokens
  <2> QED
    BY <2>1, SeqOfSubset
<1> HIDE DEF begin, end
<1>0. begin \in Seq(Token) /\ end \in Seq(Token)
  BY <1>1
<1>4. /\ part \in Seq(Token) /\ Len(part) = Len(begin) + Len(var)
      /\ \A i \in 1..Len(begin) : part[i] = begin[i]
      /\ \A i \in 1..Len(var) : part[Len(begin) + i] = var[i]
  BY <1>0, <1>3, Concatenated
<1> HIDE DEF part
<1>a. part \in Seq(Token)
  BY <1>4
<1>5. /\ s \in Seq(Token) /\ Len(s) = Len(part) + Len(end)
      /\ \A i \in 1..Len(part) : s[i] = part[i]
      /\ \A i \in 1..Len(end) : s[Len(part) + i] = end[i]
  BY <1>0, <1>2, <1>a, Concatenated
<1>6. Len(var) \in Nat
  OBVIOUS
<1>7. /\ Len(s) = Len(var) + 3 /\ 1 \in 1..Len(begin) /\ 2 \in 1..Len(begin)
      /\ 1 \in 1..Len(part) /\ 2 \in 1..Len(part)
      /\ 1 \in 1..Len(end) /\ Len(part) + 1 = Len(s)
      /\ \A k \in 1..Len(var) : k + 2 \in 1..Len(part) /\ Len(begin) + k = k + 2
  BY <1>1, <1>4, <1>5, <1>6
<1>8. s[1] = begin[1] /\ s[2] = begin[2] /\ s[Len(s)] = end[1]
  BY <1>4, <1>5, <1>7
<1>9. \A k \in 1..Len(var) : s[k + 2] = var[k]
  BY <1>4, <1>5, <1>7
<1> QED
  BY <1>1, <1>5, <1>7, <1>8, <1>9

LEMMA NamesBetween ==
  ASSUME NEW s, NEW a \in Nat, NEW b \in Nat, a < b,
         s[a] \notin Digits, \A k \in a..b : IsName(s[k])
  PROVE  Names(s, a, b)
BY DEF Names, IsVarName

LEMMA BracedIsRef ==
  ASSUME NEW s, NEW n \in Nat, n = Len(s), n >= 5,
         HasAt(s, 1, "$"), HasAt(s, 2, Open), HasAt(s, n, Close),
         Names(s, 3, n - 1)
  PROVE  IsRef(s, 1, n)
<1>1. 1 < n /\ 1 + 1 = 2 /\ 1 + 2 = 3
  OBVIOUS
<1>2. IsBracedRef(s, 1, n)
  BY <1>1, Zenon DEF IsBracedRef
<1> QED
  BY <1>1, <1>2, Zenon DEF IsRef

LEMMA CredEscaped ==
  ASSUME NEW model \in Seq(Token), NEW path \in Seq(Token)
  PROVE  EscapeBareDollars(Reference(CredVarName(model, path)))
           = Reference(CredVarName(model, path))
<1> DEFINE var == CredVarName(model, path)
           s == Reference(var)
           n == Len(s)
<1>1. var \in Seq(NameTokens) /\ Len(var) >= 2 /\ var[1] = "GB"
  BY VarNameType, VarNameLonger
<1> HIDE DEF var
<1>2. /\ s \in Seq(Token) /\ Len(s) = Len(var) + 3
      /\ s[1] = "$" /\ s[2] = Open /\ s[Len(s)] = Close
      /\ \A k \in 1..Len(var) : s[k + 2] = var[k]
  BY <1>1, ReferenceParts
<1> HIDE DEF s
<1>3. n \in Nat /\ n >= 5 /\ n - 1 \in Nat /\ 3 \in Nat /\ 3 < n - 1 /\ n > 0
  BY <1>1, <1>2
<1>4. s[3] \notin Digits /\ \A k \in 3..(n - 1) : IsName(s[k])
  <2>1. \A k \in 3..(n - 1) : k - 2 \in 1..Len(var) /\ (k - 2) + 2 = k
    BY <1>1, <1>2
  <2>2. \A k \in 1..Len(var) : IsName(var[k])
    BY <1>1 DEF NameTokens
  <2>3. 1 \in 1..Len(var) /\ 1 + 2 = 3
    BY <1>1
  <2>4. s[3] = "GB"
    BY <1>1, <1>2, <2>3
  <2>5. s[3] \notin Digits
    BY <2>4, ConfigPassAssumption
  <2>6. \A k \in 1..Len(var) : IsName(s[k + 2])
    BY <1>2, <2>2
  <2>7. \A k \in 3..(n - 1) : IsName(s[k])
    BY <2>1, <2>6
  <2> QED
    BY <2>5, <2>7
<1>5. Names(s, 3, n - 1)
  BY <1>3, <1>4, NamesBetween
<1>6. HasAt(s, 1, "$") /\ HasAt(s, 2, Open) /\ HasAt(s, n, Close)
  BY <1>2, Zenon DEF HasAt
<1> HIDE DEF n
<1>7. n = Len(s)
  BY DEF n
<1>8. IsRef(s, 1, n)
  BY <1>3, <1>5, <1>6, <1>7, BracedIsRef
<1>9. IsRef(s, 1, Len(s)) /\ Len(s) > 0
  BY <1>3, <1>7, <1>8, Zenon
<1>10. IsAlphabet(Token)
  BY Zenon DEF IsAlphabet, Token, Open, Close
<1>11. EscapeBareDollars(s) = s
  BY <1>2, <1>9, <1>10, ReferenceKept
<1> QED
  BY <1>11 DEF s, var

(* A variable is asked for by one credential, unless others are alike.     *)
LEMMA SourcePaths ==
  ASSUME NEW src, IsSource(src), NEW r \in ToSet(src.refs)
  PROVE  /\ r.path \in Seq(Token) /\ r.kind \in {"env", "file"}
         /\ r.path \in CredPaths(src)
         /\ Last(r.path) \notin {"path", "includes", "excludes"}
<1>1. src.refs \in Seq([path : Path, kind : {"env", "file"},
                        ref : Seq(Token)])
  BY DEF IsSource
<1> DEFINE R == [path : Path, kind : {"env", "file"}, ref : Seq(Token)]
           refs == src.refs
<1>2. r \in R
  <2>1. refs \in Seq(R) /\ r \in ToSet(refs)
    BY <1>1
  <2> HIDE DEF R, refs
  <2> QED
    BY <2>1 DEF ToSet
<1>3. r.path \in Path /\ r.kind \in {"env", "file"}
  BY <1>2
<1> QED
  BY <1>3 DEF IsSource, CredPaths, Path

LEMMA OwnCred ==
  ASSUME Built, NEW m \in DOMAIN made, NEW r \in ToSet(made[m].src.refs),
         ~Alike(m, r.path), NEW kind, NEW c \in CredsOf(kind),
         c.var = CredVarName(m, r.path)
  PROVE  c.ref = r.ref /\ c.id = made[m].src.id
<1>1. PICK n \in DOMAIN made :
        \E q \in ToSet(made[n].src.refs) : c = CredOf(q, n, made[n].src.id)
  BY DEF CredsOf
<1>2. PICK q \in ToSet(made[n].src.refs) : c = CredOf(q, n, made[n].src.id)
  BY <1>1
<1>3. /\ c.var = CredVarName(n, q.path) /\ c.ref = q.ref
      /\ c.id = made[n].src.id
  BY <1>2 DEF CredOf
<1>4. /\ m \in Seq(Token) /\ IsSource(made[m].src)
      /\ n \in Seq(Token) /\ IsSource(made[n].src)
  BY DEF Built
<1>5. r.path \in Seq(Token) /\ q.path \in Seq(Token)
      /\ q.path \in CredPaths(made[n].src)
  BY <1>4, SourcePaths
<1>6. Joined(n, q.path) = Joined(m, r.path)
  <2> DEFINE own == r.path
             other == q.path
  <2>1. /\ m \in Seq(Token) /\ own \in Seq(Token)
        /\ n \in Seq(Token) /\ other \in Seq(Token)
        /\ CredVarName(n, other) = CredVarName(m, own)
    BY <1>3, <1>4, <1>5, Zenon
  <2> HIDE DEF own, other
  <2>2. Joined(n, other) = Joined(m, own)
    BY <2>1, VarNamesOne
  <2> QED
    BY <2>2 DEF own, other
<1>7. <<n, q.path>> = <<m, r.path>>
  BY <1>5, <1>6, Zenon DEF Alike
<1>8. n = m /\ q.path = r.path
  BY <1>7
<1>9. q = r
  <2>1. \A i, j \in DOMAIN made[m].src.refs :
          made[m].src.refs[i].path = made[m].src.refs[j].path => i = j
    BY DEF Built, IsModel
  <2>2. PICK i \in DOMAIN made[m].src.refs : r = made[m].src.refs[i]
    BY DEF ToSet
  <2>3. PICK j \in DOMAIN made[m].src.refs : q = made[m].src.refs[j]
    BY <1>8 DEF ToSet
  <2> QED
    BY <1>8, <2>1, <2>2, <2>3
<1> QED
  BY <1>3, <1>8, <1>9

LEMMA ClientMounts ==
  ASSUME IsWorld(world), NEW id, IsClient(id),
         NEW d \in DOMAIN Client(id).mounts
  PROVE  \A e \in DOMAIN Client(id).mounts : Trim(e) = Trim(d) => e = d
<1>1. Client(id) \in ToSet(world.containers)
  BY DEF IsClient, Client
<1>2. IsContainer(Client(id))
  BY <1>1 DEF IsWorld
<1> QED
  BY <1>2 DEF IsContainer

(* The values behind a variable are those its credential asked for.        *)
LEMMA ValuesOwned ==
  ASSUME IInv, NEW m \in DOMAIN made, NEW r \in ToSet(made[m].src.refs),
         ~Alike(m, r.path)
  PROVE  OwnValue(made[m].src, CredVarName(m, r.path), r)
<1> DEFINE src == made[m].src
           var == CredVarName(m, r.path)
<1>1. Built /\ Resolved /\ IsWorld(world)
  BY DEF IInv, Reads
<1>2. m \in Seq(Token) /\ IsSource(src) /\ IsClient(src.id)
  BY <1>1 DEF Built
<1>3. r.path \in Seq(Token)
  BY <1>2, SourcePaths
<1>4. var # <<"GB_DOLLAR">>
  BY <1>2, <1>3, VarNameLonger
<1>5. \A kind : \A c \in CredsOf(kind) :
        c.var = var => c.ref = r.ref /\ c.id = src.id
  BY <1>1, OwnCred
<1>6. ASSUME NEW e \in extras.env, e.var = var
      PROVE  /\ r.ref \in DOMAIN Client(src.id).env
             /\ e.val = Client(src.id).env[r.ref]
  <2>1. PICK c \in CredsOf("env") :
          /\ e.var = c.var /\ c.ref \in DOMAIN Client(c.id).env
          /\ e.val = Client(c.id).env[c.ref]
    BY <1>1, <1>4, <1>6 DEF Resolved
  <2>2. c.ref = r.ref /\ c.id = src.id
    BY <1>5, <1>6, <2>1
  <2> QED
    BY <2>1, <2>2
<1>7. ASSUME NEW e \in extras.exports, e.var = var,
             r.ref \in DOMAIN Client(src.id).mounts
      PROVE  \E d \in extras.mounts :
               /\ d.target = e.path
               /\ d.source = MountSource(Client(src.id).mounts[r.ref])
  <2> DEFINE mnts == Client(src.id).mounts
             found(c) ==
               LET dests == DestMap(Client(c.id).mounts)
               IN MountSource(dests[FindMountForPath(c.ref, dests)])
  <2>1. PICK c \in CredsOf("file") :
          /\ e.var = c.var
          /\ \E d \in extras.mounts : d.target = e.path /\ d.source = found(c)
    BY <1>1 DEF Resolved
  <2>2. c.ref = r.ref /\ c.id = src.id
    BY <1>5, <1>7, <2>1
  <2>3. DestMap(mnts)[FindMountForPath(r.ref, DestMap(mnts))] = mnts[r.ref]
    BY <1>1, <1>2, <1>7, ClientMounts, OwnDestination
  <2>4. found(c) = MountSource(mnts[r.ref])
    BY <2>2, <2>3
  <2> HIDE DEF found, mnts
  <2>5. \E d \in extras.mounts :
          d.target = e.path /\ d.source = MountSource(mnts[r.ref])
    BY <2>1, <2>4
  <2> QED
    BY <2>5 DEF mnts
<1> HIDE DEF src, var
<1>8. OwnValue(src, var, r)
  <2>1. \A e \in extras.env : e.var = var
          => /\ r.ref \in DOMAIN Client(src.id).env
             /\ e.val = Client(src.id).env[r.ref]
    BY <1>6
  <2>2. \A e \in extras.exports :
          e.var = var /\ r.ref \in DOMAIN Client(src.id).mounts
          => \E d \in extras.mounts :
               /\ d.target = e.path
               /\ d.source = MountSource(Client(src.id).mounts[r.ref])
    BY <1>7
  <2> QED
    BY <2>1, <2>2, Zenon DEF OwnValue
<1> QED
  BY <1>8 DEF src, var

(* A placeholder in the file gets its value from the container whose label *)
(* asked for it, and from no other container, model or secret, for every   *)
(* set of containers, labels and profiles, and whichever inspects fail     *)
(* (substituteCreds, EscapeConfig, resolveCreds).                          *)
THEOREM CredentialsFromTheirOwner == Spec => []CredentialsOwn
<1>1. ASSUME IInv PROVE CredentialsOwn
  <2> SUFFICES ASSUME NEW m \in DOMAIN file,
                      NEW r \in ToSet(made[m].src.refs)
               PROVE  /\ r.path \in CredLeaves(made[m].src)
                           => file[m][r.path]
                                = Text(Reference(CredVarName(m, r.path)))
                      /\ \/ Alike(m, r.path)
                         \/ OwnValue(made[m].src, CredVarName(m, r.path), r)
    BY Zenon DEF CredentialsOwn
  <2>1. Built /\ Discovered /\ Written
    BY <1>1 DEF IInv
  <2>2. file = EscapeConfig /\ DOMAIN file = DOMAIN models
    <3>1. DOMAIN <<>> = {}
      OBVIOUS
    <3>2. file # <<>>
      BY <3>1
    <3>3. file = EscapeConfig
      BY <2>1, <3>2 DEF Written
    <3> QED
      BY <3>3 DEF EscapeConfig
  <2>3. m \in DOMAIN models /\ m \in DOMAIN made
    BY <2>1, <2>2 DEF Built
  <2>4. ASSUME r.path \in CredLeaves(made[m].src)
        PROVE  file[m][r.path] = Text(Reference(CredVarName(m, r.path)))
    <3> DEFINE ref == Reference(CredVarName(m, r.path))
    <3>1. /\ m \in Seq(Token) /\ IsSource(made[m].src)
          /\ IsModel(made[m].tree, made[m].src, m)
      BY <2>1, <2>3 DEF Built
    <3>2. r.path \in Seq(Token)
          /\ Last(r.path) \notin {"path", "includes", "excludes"}
      BY <3>1, SourcePaths
    <3>3. made[m].tree[r.path] = Text(ref)
      BY <2>4, <3>1 DEF IsModel
    <3>4. r.path \in DOMAIN made[m].tree
      BY <2>4, <3>1 DEF IsModel, DeclaredLeaves, Leaves
    <3>5. r.path \in DOMAIN models[m] /\ models[m][r.path] = Text(ref)
      BY <2>1, <2>3, <3>2, <3>3, <3>4 DEF Discovered
    <3>6. EscapeBareDollars(ref) = ref
      BY <3>1, <3>2, CredEscaped
    <3> HIDE DEF ref
    <3>7. OnTexts(EscapeBareDollars, Text(ref)) = Text(ref)
      <4>1. Text(ref).kind = "text" /\ Text(ref).val = <<ref>>
        BY DEF Text
      <4>2. OnTexts(EscapeBareDollars, Text(ref))
              = [kind |-> "text",
                 val |-> [i \in DOMAIN <<ref>> |->
                            EscapeBareDollars(<<ref>>[i])]]
        BY <4>1 DEF OnTexts, HasTexts
      <4>3. [i \in DOMAIN <<ref>> |-> EscapeBareDollars(<<ref>>[i])] = <<ref>>
        BY <3>6
      <4> QED
        BY <4>2, <4>3 DEF Text
    <3>8. file[m][r.path] = IF world.managed
                            THEN OnTexts(EscapeBareDollars, models[m][r.path])
                            ELSE models[m][r.path]
      BY <2>2, <2>3, <3>5 DEF EscapeConfig
    <3> QED
      BY <3>5, <3>7, <3>8 DEF ref
  <2> QED
    BY <1>1, <2>3, <2>4, ValuesOwned
<1> QED
  BY <1>1, ConfigPassInvariance, PTL
-----------------------------------------------------------------------------
(* What was written reaches gobackup.                                      *)

(* A text without templates, and a node that holds it, stay what they are. *)
LEMMA PlainKept ==
  ASSUME NEW text \in Seq(Token), IsPlain(text),
         NEW data, DOMAIN data \subseteq Templates
  PROVE  ExpandText(text, data) = text
<1>1. \A i \in DOMAIN text : text[i] \notin DOMAIN data
  <2>1. \A i \in DOMAIN text : text[i] \in ToSet(text)
    BY DEF ToSet
  <2> QED
    BY <2>1 DEF IsPlain
<1>2. [i \in DOMAIN text |->
         IF text[i] \in DOMAIN data THEN data[text[i]] ELSE <<text[i]>>]
        = [i \in DOMAIN text |-> <<text[i]>>]
  BY <1>1
<1>3. ExpandText(text, data) = FlattenSeq([i \in DOMAIN text |-> <<text[i]>>])
  BY <1>2, Zenon DEF ExpandText
<1> QED
  BY <1>3, FlattenSingletons

LEMMA AsGiven ==
  ASSUME NEW node, IsNode(node), NEW data, DOMAIN data \subseteq Templates,
         NEW p, HasTexts(CoerceNode(p, ExpandNode(node, data))),
         NEW i \in DOMAIN Items(p, node), IsPlain(Given(node, i))
  PROVE  LET new == CoerceNode(p, ExpandNode(node, data))
         IN /\ Items(p, node)[i] \in Seq(Token)
            /\ i \in DOMAIN new.val /\ new.val[i] = Items(p, node)[i]
            /\ new.kind = "text" => node.kind = "text" /\ i = 1
<1> DEFINE expanded == ExpandNode(node, data)
           new == CoerceNode(p, expanded)
           items == Items(p, node)
<1>1. node.val \in Seq(Seq(Token))
  BY DEF IsNode
<1>2. DOMAIN node.val = 1..Len(node.val) /\ Len(node.val) \in Nat
      /\ \A k \in 1..Len(node.val) : node.val[k] \in Seq(Token)
  BY <1>1
<1>3. HasTexts(node)
        => expanded = [kind |-> node.kind,
                       val |-> [k \in DOMAIN node.val |->
                                  ExpandText(node.val[k], data)]]
  BY DEF ExpandNode, OnTexts
<1>4. ~HasTexts(node) => expanded = node
  BY DEF ExpandNode, OnTexts
<1>5. CASE node.kind = "text"
  <2> DEFINE text == node.val[1]
  <2>1. text \in Seq(Token) /\ DOMAIN node.val = {1}
    BY <1>2, <1>5 DEF IsNode
  <2>2. ExpandText(text, data) = text
    BY <1>5, <2>1, PlainKept DEF Given
  <2>3. expanded.kind = "text" /\ expanded.val[1] = text
    BY <1>3, <1>5, <2>1, <2>2 DEF HasTexts
  <2>4. CASE IsArrayField(p)
    <3>1. new = List(SplitCSV(text)) /\ items = SplitCSV(text)
      BY <1>5, <2>3, <2>4 DEF CoerceNode, Items
    <3>2. SplitCSV(text) \in Seq(Seq(Token))
      BY <2>1, CommaSeparated
    <3> DEFINE parts == SplitCSV(text)
    <3> HIDE DEF parts, items, new
    <3>3. parts[i] \in Seq(Token)
      BY <3>1, <3>2 DEF parts, items
    <3>4. new.val = parts /\ new.kind # "text"
      BY <3>1 DEF List, parts
    <3>5. items = parts
      BY <3>1 DEF parts
    <3>6. i \in DOMAIN new.val /\ new.val[i] = items[i] /\ items[i] \in Seq(Token)
      BY <3>3, <3>4, <3>5 DEF items
    <3> QED
      BY <3>4, <3>6 DEF items, new
  <2>5. CASE ~IsArrayField(p)
    <3>1. new = CoerceScalar(Last(p), text) /\ items = node.val
      BY <1>5, <2>3, <2>5 DEF CoerceNode, Items
    <3>2. new = Text(text)
      <4>1. new.kind \in {"text", "list"}
        BY DEF HasTexts
      <4> HIDE DEF text, new
      <4> QED
        BY <3>1, <4>1 DEF CoerceScalar
    <3>3. i = 1
      BY <2>1, <3>1
    <3>4. new.val = <<text>>
      BY <3>2 DEF Text
    <3> QED
      BY <1>5, <2>1, <3>1, <3>3, <3>4
  <2> QED
    BY <2>4, <2>5
<1>6. CASE node.kind # "text"
  <2>1. expanded.kind # "text"
    BY <1>3, <1>4, <1>6
  <2>2. new = expanded /\ items = node.val
    BY <1>6, <2>1 DEF CoerceNode, Items
  <2>3. HasTexts(node)
    BY <1>4, <2>2
  <2>4. i \in 1..Len(node.val) /\ node.val[i] \in Seq(Token)
    BY <1>2, <2>2
  <2>5. ExpandText(node.val[i], data) = node.val[i]
    BY <1>6, <2>4, PlainKept DEF Given
  <2>6. new.val = [k \in DOMAIN node.val |-> ExpandText(node.val[k], data)]
    BY <1>3, <2>2, <2>3
  <2> QED
    BY <1>2, <2>1, <2>2, <2>4, <2>5, <2>6
<1> QED
  BY <1>5, <1>6

LEMMA OriginNodes ==
  ASSUME NEW src, IsSource(src), WellFormed(Inherited(world.profiles, src)),
         NEW p \in DOMAIN Origin(src)
  PROVE  IsNode(Origin(src)[p])
<1> DEFINE base == Inherited(world.profiles, src)
<1>1. WellFormed(src.tree) /\ WellFormed(base)
  BY DEF IsSource
<1>2. \/ p \in DOMAIN src.tree /\ Origin(src)[p] = src.tree[p]
      \/ p \in DOMAIN base /\ Origin(src)[p] = base[p]
  <2> HIDE DEF base
  <2>1. p \in Leaves(src.tree) \cup Leaves(base)
        /\ Origin(src)[p] = IF p \in DOMAIN src.tree THEN src.tree[p]
                            ELSE base[p]
    BY DEF Origin, base
  <2> QED
    BY <2>1 DEF Leaves
<1> HIDE DEF base
<1> QED
  BY <1>1, <1>2 DEF WellFormed

(* Discovery leaves a text or a list alone, or moves it under /volumes.    *)
LEMMA NotMoved ==
  ASSUME NEW m \in Seq(Token), NEW old, IsNode(old), NEW new,
         Rewritten(old, new, m), HasTexts(new)
  PROVE  /\ HasTexts(old)
         /\ \/ new = old
            \/ old.kind = "text" /\ IsPrefix(VolumesRoot, new.val[1])
<1>1. CASE new = old
  BY <1>1
<1>2. CASE old.kind \in {"list", "strings"} /\ new.kind = "strings"
  BY <1>2 DEF HasTexts
<1>3. CASE old.kind = "text" /\ new = Text(Transformed(m, old.val[1]))
  <2> DEFINE path == old.val[1]
             moved == Transformed(m, path)
  <2>1. path \in Seq(Token)
    BY <1>3 DEF IsNode
  <2> HIDE DEF path
  <2>2. IsPrefix(VolumesRoot, moved)
    BY <2>1, MovedOnce
  <2>3. new = Text(moved)
    BY <1>3 DEF path
  <2> HIDE DEF moved
  <2>4. new.val[1] = moved
    BY <2>3 DEF Text
  <2> QED
    BY <1>3, <2>2, <2>4 DEF HasTexts
<1> QED
  BY <1>1, <1>2, <1>3 DEF Rewritten

(* Every text gobackup ends up with means what its label or profile says,  *)
(* for every set of containers, labels and profiles, whatever dollars,     *)
(* braces and references they hold (EscapeBareDollars, escapeValue,        *)
(* CoerceTree; discovery moves paths, and nothing else).                   *)
THEOREM ValuesKept == Spec => []ValuesSurvive
<1>1. ASSUME IInv PROVE ValuesSurvive
  <2> SUFFICES
        ASSUME NEW m \in DOMAIN file, world.managed,
               NEW p \in (DOMAIN Origin(made[m].src) \cap DOMAIN file[m])
                           \ CredPaths(made[m].src),
               HasTexts(file[m][p]),
               NEW i \in DOMAIN Items(p, Origin(made[m].src)[p]),
               IsPlain(Given(Origin(made[m].src)[p], i)),
               ~IsPrefix(VolumesRoot, models[m][p].val[i])
        PROVE  ExpandEnv(file[m][p].val[i])
                 = Meaning(Items(p, Origin(made[m].src)[p])[i])
    BY Zenon DEF ValuesSurvive
  <2> DEFINE src == made[m].src
             origin == Origin(src)
             items == Items(p, origin[p])
             old == made[m].tree[p]
             new == models[m][p]
             data == Data(src, m)
  <2>1. Reads /\ Built /\ Discovered /\ Written
    BY <1>1 DEF IInv
  <2>2. file = EscapeConfig /\ pc # "list"
    <3>1. DOMAIN <<>> = {}
      OBVIOUS
    <3>2. file # <<>>
      BY <3>1
    <3> QED
      BY <2>1, <3>2 DEF Written
  <2>3. m \in DOMAIN models /\ m \in DOMAIN made
    BY <2>1, <2>2 DEF Built, EscapeConfig
  <2>4. /\ m \in Seq(Token) /\ IsSource(src)
        /\ IsModel(made[m].tree, src, m)
    BY <2>1, <2>3 DEF Built
  <2>5. p \in DOMAIN models[m] /\ file[m][p] = OnTexts(EscapeBareDollars, new)
    BY <2>2, <2>3 DEF EscapeConfig
  <2>6. p \in DOMAIN made[m].tree /\ Rewritten(old, new, m)
    BY <2>1, <2>3, <2>5 DEF Discovered
  <2>7. IsNode(old)
    BY <2>4, <2>6 DEF IsModel, WellFormed
  <2>8. HasTexts(new)
    BY <2>5 DEF OnTexts
  <2>9. /\ HasTexts(old)
        /\ \/ new = old
           \/ old.kind = "text" /\ IsPrefix(VolumesRoot, new.val[1])
    <3> HIDE DEF old, new
    <3>1. m \in Seq(Token)
      BY <2>4
    <3> QED
      BY <2>6, <2>7, <2>8, <3>1, NotMoved
  <2>10. old = CoerceNode(p, ExpandNode(origin[p], data))
    <3>1. p \in Leaves(made[m].tree)
      BY <2>6, <2>9 DEF Leaves, HasTexts
    <3> QED
      BY <2>4, <3>1, Zenon DEF IsModel, Coerced
  <2>11. IsNode(origin[p])
    <3>1. WellFormed(Inherited(world.profiles, src))
      BY <2>1, <2>2, InheritedTree
    <3> QED
      BY <2>4, <3>1, OriginNodes
  <2>12. DOMAIN data \subseteq Templates
    BY ConfigPassAssumption DEF Data
  <2>13. /\ items[i] \in Seq(Token)
         /\ i \in DOMAIN old.val /\ old.val[i] = items[i]
         /\ old.kind = "text" => i = 1
    <3>1. HasTexts(CoerceNode(p, ExpandNode(origin[p], data)))
      BY <2>9, <2>10, Zenon
    <3>2. IsPlain(Given(origin[p], i)) /\ i \in DOMAIN Items(p, origin[p])
      OBVIOUS
    <3> DEFINE node == origin[p]
    <3> HIDE DEF node, data
    <3>3. LET t == CoerceNode(p, ExpandNode(node, data))
          IN /\ Items(p, node)[i] \in Seq(Token)
             /\ i \in DOMAIN t.val /\ t.val[i] = Items(p, node)[i]
             /\ t.kind = "text" => node.kind = "text" /\ i = 1
      BY <2>11, <2>12, <3>1, <3>2, AsGiven DEF node
    <3> QED
      BY <2>10, <3>3, Zenon DEF node
  <2>14. new = old
    BY <2>9, <2>13
  <2> DEFINE text == items[i]
  <2>15. file[m][p].val[i] = EscapeBareDollars(text)
    <3>1. file[m][p].val = [k \in DOMAIN new.val |->
                              EscapeBareDollars(new.val[k])]
      BY <2>5, <2>8 DEF OnTexts
    <3> QED
      BY <2>13, <2>14, <3>1
  <2>16. text \in Seq(Token)
    BY <2>13
  <2> HIDE DEF text
  <2>17. ExpandEnv(EscapeBareDollars(text)) = Meaning(text)
    BY <2>16, EscapedMeansTheSame
  <2> QED
    BY <2>15, <2>17 DEF text
<1> QED
  BY <1>1, ConfigPassInvariance, PTL
-----------------------------------------------------------------------------
(* A model whose name nobody else claims, and no name with a slash.        *)
LEMMA OwnMounts ==
  ASSUME IInv, NEW m \in DOMAIN models, ~Contested(m)
  PROVE  /\ NoSlash(m) /\ AreMounts(Client(made[m].src.id).mounts)
         /\ Dests(m) = DestMap(Client(made[m].src.id).mounts)
         /\ AreDests(DOMAIN Dests(m))
<1>1. Built /\ IsWorld(world)
  BY DEF IInv, Reads
<1>2. m \in Seq(Token) /\ IsClient(made[m].src.id)
  BY <1>1 DEF Built
<1>3. NoSlash(m) /\ owner[m] = made[m].src.id
  BY <1>2 DEF Contested, NoSlash
<1>4. AreMounts(Client(made[m].src.id).mounts)
  BY <1>1, <1>2, OwnersMounts
<1>5. Dests(m) = DestMap(Client(made[m].src.id).mounts)
  BY <1>3 DEF Dests
<1> QED
  BY <1>3, <1>4, <1>5, DestsOfMounts

(* What else the engine mounts is another model's, or a secret.            *)
MountedRecord(d) == [at |-> d.target, source |-> d.source]

LEMMA EngineMounts ==
  ASSUME IInv, pc \in {"creds", "done"}, NEW m \in DOMAIN models,
         ~Contested(m), NEW d \in extras.mounts
  PROVE  ForModel(MountedRecord(d), m, Dests(m)) \/ ForSecret(MountedRecord(d))
<1> DEFINE e == MountedRecord(d)
<1>0. e.at = d.target /\ e.source = d.source
  BY DEF MountedRecord
<1> HIDE DEF e
<1>1. Built /\ Located /\ Equipped /\ Owned /\ IsWorld(world)
  BY DEF IInv, Reads
<1>2. CASE d \in ToSet(mounts)
  <2>1. PICK n \in DOMAIN models : \E dst \in DOMAIN Dests(n) :
          /\ d.target = Transformed(n, dst)
          /\ d.source = MountSource(Dests(n)[dst])
    BY <1>1, <1>2, LocatedParts DEF FromOwner
  <2>2. PICK dst \in DOMAIN Dests(n) :
          /\ d.target = Transformed(n, dst)
          /\ d.source = MountSource(Dests(n)[dst])
    BY <2>1
  <2>3. NoSlash(n)
    BY <1>1 DEF Contested, NoSlash, Built
  <2>4. AreDests(DOMAIN Dests(n))
    <3>1. AreMounts(Client(owner[n]).mounts)
      BY <1>1, OwnersMounts DEF Owned
    <3> QED
      BY <3>1, DestsOfMounts DEF Dests
  <2>5. Absolute(dst) /\ Trim(dst) = dst
    <3>1. dst \in Seq(Token) /\ dst # <<>> /\ dst[1] = "/" /\ Trim(dst) = dst
      BY <2>4 DEF AreDests
    <3> QED
      BY <3>1 DEF Absolute
  <2>6. ForModel(e, m, Dests(m))
    BY <1>0, <2>2, <2>3, <2>5 DEF ForModel
  <2> QED
    BY <2>6 DEF e
<1>3. CASE d \notin ToSet(mounts)
  <2>1. PICK c \in CredsOf("file") :
          d.target = SecretsRoot \o c.var
    BY <1>1, <1>3 DEF Equipped
  <2>2. PICK n \in DOMAIN made :
          \E r \in ToSet(made[n].src.refs) : c = CredOf(r, n, made[n].src.id)
    BY DEF CredsOf
  <2>3. PICK r \in ToSet(made[n].src.refs) : c = CredOf(r, n, made[n].src.id)
    BY <2>2
  <2>4. n \in Seq(Token) /\ r.path \in Seq(Token)
    BY <1>1, SourcePaths DEF Built
  <2>5. c.var \in Seq(Token)
    <3>1. c.var = CredVarName(n, r.path)
      BY <2>3 DEF CredOf
    <3>2. CredVarName(n, r.path) \in Seq(NameTokens) /\ NameTokens \subseteq Token
      BY <2>4, VarNameType DEF NameTokens
    <3> QED
      BY <3>1, <3>2, SeqOfWider
  <2> QED
    BY <1>0, <2>1, <2>5 DEF ForSecret, e
<1> QED
  BY <1>2, <1>3

(* A path whose mount the engine has names the same file there.            *)
LEMMA ServedPath ==
  ASSUME IInv, pc \in {"creds", "done"}, NEW m \in DOMAIN models,
         ~Contested(m), NEW path \in Seq(Token), IsMounted(Dests(m), path),
         NEW d \in ToSet(mounts), Serves(d, m, path)
  PROVE  /\ SameFile(m, path, Transformed(m, path))
         /\ d \in extras.mounts /\ Covers(d.target, Transformed(m, path))
<1> DEFINE mnt == Client(made[m].src.id).mounts
           E == {MountedRecord(x) : x \in extras.mounts}
           top == MountedRecord(d)
<1>1. /\ NoSlash(m) /\ AreMounts(mnt) /\ Dests(m) = DestMap(mnt)
      /\ AreDests(DOMAIN Dests(m))
  BY OwnMounts
<1>2. d \in extras.mounts
  BY DEF IInv, Equipped
<1>3. InClient(m, path) = FileOf(Dests(m), path)
  BY <1>1, FileInClient DEF InClient
<1>4. InEngine(Transformed(m, path)) = FileAt(E, Transformed(m, path))
  BY DEF InEngine, MountedRecord
<1>5. \A e \in E : ForModel(e, m, Dests(m)) \/ ForSecret(e)
  BY EngineMounts
<1>6. /\ top \in E /\ top.at = d.target
      /\ top.at = Transformed(m, FindMountForPath(path, Dests(m)))
  BY <1>2 DEF Serves, MountedRecord
<1> HIDE DEF E, top, mnt
<1>7. /\ FileAt(E, Transformed(m, path)) = FileOf(Dests(m), path)
      /\ Covers(top.at, Transformed(m, path))
  BY <1>1, <1>5, <1>6, FileInEngine
<1> QED
  BY <1>2, <1>3, <1>4, <1>6, <1>7 DEF SameFile

LEMMA ArchivesSame ==
  ASSUME IInv, pc \in {"creds", "done"}, NEW m \in DOMAIN models,
         ~Contested(m)
  PROVE  SameArchives(m)
<1> DEFINE old == StringsAt(made[m].tree, Includes)
           new == StringsAt(models[m], Includes)
           found == {p \in ToSet(old) : IsMounted(Dests(m), p)}
<1>1. Built /\ Located
  BY DEF IInv
<1>2. old \in Seq(Seq(Token))
  BY <1>1, StringsType DEF Built, IsModel
<1>3. ArchiveLocated(m, models[m], ToSet(mounts))
  BY <1>1, LocatedParts
<1> SUFFICES ASSUME new # old
             PROVE  /\ \A i \in DOMAIN new :
                         \E j \in DOMAIN old : SameFile(m, old[j], new[i])
                    /\ \A j \in DOMAIN old :
                         Contains(new, Transformed(m, old[j]))
                           \/ InClient(m, old[j]) = NotMounted
  BY DEF SameArchives
<1>4. Relocated(m, old, new, ToSet(mounts))
  BY <1>3 DEF ArchiveLocated
<1> HIDE DEF old, new
<1>5. /\ new \in Seq(ToSet(new))
      /\ ToSet(new) = {Transformed(m, p) : p \in found}
      /\ \A p \in found : \E d \in ToSet(mounts) : Serves(d, m, p)
  BY <1>4 DEF Relocated
<1>6. DOMAIN old = 1..Len(old) /\ \A j \in DOMAIN old :
        old[j] \in Seq(Token) /\ old[j] \in ToSet(old)
  BY <1>2 DEF ToSet
<1>7. ASSUME NEW i \in DOMAIN new
      PROVE  \E j \in DOMAIN old : SameFile(m, old[j], new[i])
  <2>1. new[i] \in ToSet(new)
    BY DEF ToSet
  <2>2. PICK p \in found : new[i] = Transformed(m, p)
    BY <1>5, <2>1
  <2>3. PICK j \in DOMAIN old : p = old[j]
    BY <2>2 DEF ToSet
  <2>4. PICK d \in ToSet(mounts) : Serves(d, m, p)
    BY <1>5, <2>2
  <2>5. p \in Seq(Token) /\ IsMounted(Dests(m), p)
    BY <1>6, <2>2, <2>3
  <2>6. SameFile(m, p, Transformed(m, p))
    BY <2>4, <2>5, ServedPath
  <2> QED
    BY <2>2, <2>3, <2>6
<1>8. ASSUME NEW j \in DOMAIN old, InClient(m, old[j]) # NotMounted
      PROVE  Contains(new, Transformed(m, old[j]))
  <2> DEFINE path == old[j]
             mnt == Client(made[m].src.id).mounts
  <2>1. path \in Seq(Token) /\ path \in ToSet(old)
    BY <1>6
  <2>2. AreMounts(mnt) /\ Dests(m) = DestMap(mnt)
    BY OwnMounts
  <2> HIDE DEF path, mnt
  <2>3. IsMounted(Dests(m), path)
    <3>1. InClient(m, path) # NotMounted
      BY <1>8 DEF path
    <3>2. InClient(m, path)
            = IF IsMounted(DestMap(mnt), path) THEN FileOf(DestMap(mnt), path)
              ELSE NotMounted
      BY <2>1, <2>2, FileInClient DEF InClient, mnt
    <3> QED
      BY <2>2, <3>1, <3>2
  <2>4. Transformed(m, path) \in ToSet(new)
    BY <1>5, <2>1, <2>3
  <2>5. DOMAIN new = 1..Len(new)
    BY <1>5
  <2> QED
    BY <2>4, <2>5 DEF Contains, ToSet, path
<1> QED
  BY <1>7, <1>8

LEMMA DatabasesSame ==
  ASSUME IInv, pc \in {"creds", "done"}, NEW m \in DOMAIN models,
         ~Contested(m)
  PROVE  SameDatabases(m)
<1> SUFFICES ASSUME NEW p \in Leaves(made[m].tree), p[1] = "databases",
                    IsText(models[m], p),
                    models[m][p].val[1] # made[m].tree[p].val[1]
             PROVE  LET old == made[m].tree[p].val[1]
                        new == models[m][p].val[1]
                    IN /\ SameFile(m, old, new)
                       /\ \E d \in extras.mounts :
                            Covers(d.target, new) /\ ~d.readOnly
  BY DEF SameDatabases
<1> DEFINE node == made[m].tree[p]
           old == node.val[1]
           new == models[m][p].val[1]
<1>1. Built /\ Located /\ Discovered
  BY DEF IInv
<1>2. Kin(made[m].tree, models[m], m) /\ WellFormed(made[m].tree)
  BY <1>1 DEF Discovered, Kin, Built, IsModel
<1>3. p \in DOMAIN models[m] /\ IsNode(node) /\ Rewritten(node, models[m][p], m)
  BY <1>2 DEF Leaves, Kin, WellFormed
<1>4. DatabasesLocated(m, models[m], ToSet(mounts))
  BY <1>1, LocatedParts
<1>5. /\ new = Transformed(m, old) /\ IsMounted(Dests(m), old)
      /\ \E d \in ToSet(mounts) : Serves(d, m, old) /\ ~d.readOnly
  BY <1>3, <1>4 DEF DatabasesLocated
<1>6. node.kind = "text"
  BY <1>3 DEF Rewritten, IsText
<1>7. old \in Seq(Token)
  BY <1>3, <1>6 DEF IsNode
<1> HIDE DEF old, new
<1>8. PICK d \in ToSet(mounts) : Serves(d, m, old) /\ ~d.readOnly
  BY <1>5
<1>9. /\ SameFile(m, old, Transformed(m, old))
      /\ d \in extras.mounts /\ Covers(d.target, Transformed(m, old))
  BY <1>5, <1>7, <1>8, ServedPath
<1> QED
  BY <1>5, <1>8, <1>9 DEF old, new

(* A path that discovery rewrote names in the engine the very file it      *)
(* names in the model's own container, no include on a mount is lost, and  *)
(* the mount of a sqlite database can be written to, whatever the mounts,  *)
(* the models that share them, the order they are walked in and the        *)
(* inspects that fail (findMountForPath, resolvePathMount,                 *)
(* applyArchiveVolumes, dedupMountsByTarget).                              *)
THEOREM FilesKept == Spec => []SameFiles
<1>1. IInv => SameFiles
  BY ArchivesSame, DatabasesSame DEF SameFiles
<1> QED
  BY <1>1, ConfigPassInvariance, PTL
-----------------------------------------------------------------------------
(* A target is at a place mergeMounts clears, and does not end in a slash. *)
LEMMA SecretPlace ==
  ASSUME NEW v \in Seq(NameTokens), v \in Seq(Token), Len(v) > 0
  PROVE  LET y == SecretsRoot \o v IN Trim(y) = y /\ IsManagedMount(y)
<1> DEFINE y == SecretsRoot \o v
           n == Len(v)
<1>1. n \in 1..n /\ 1 + n = n + 1 /\ n \in Nat
  OBVIOUS
<1>2. /\ y \in Seq(Token) /\ Len(y) = 1 + n /\ y[1] = "/gobackup-secrets/"
      /\ \A i \in 1..n : y[1 + i] = v[i]
  BY SecretKeys
<1>3. v[n] \in NameTokens
  BY <1>1
<1>4. "/" \notin NameTokens
  BY ConfigPassAssumption DEF NameTokens, IsName
<1> HIDE DEF y, n
<1>5. y[Len(y)] # "/" /\ Len(y) > 0
  BY <1>1, <1>2, <1>3, <1>4
<1>6. Trim(y) = y
  BY <1>2, <1>5, TrimmedAlready
<1>7. IsPrefix(SecretsRoot, y)
  <2> DEFINE r == SecretsRoot
  <2>1. r \in Seq(Token) /\ Len(r) = 1 /\ r[1] = "/gobackup-secrets/"
    <3>1. "/gobackup-secrets/" \in Token
      BY Zenon DEF Token
    <3> QED
      BY <3>1 DEF SecretsRoot
  <2> HIDE DEF r
  <2>2. Len(r) <= Len(y) /\ \A i \in 1..Len(r) : r[i] = y[i]
    BY <1>1, <1>2, <2>1
  <2>3. IsPrefix(r, y)
    BY <1>2, <2>1, <2>2, PrefixByKeys
  <2> QED
    BY <2>3 DEF r
<1> QED
  BY <1>6, <1>7 DEF IsManagedMount, y

LEMMA MountPlace ==
  ASSUME IInv, pc \in {"creds", "done"}, NEW d \in extras.mounts
  PROVE  Trim(d.target) = d.target /\ IsManagedMount(d.target)
<1>1. /\ Reads /\ Built /\ Owned /\ Located /\ Equipped
  BY DEF IInv
<1>2. CASE d \in ToSet(mounts)
  <2>1. FromOwner(d)
    BY <1>1, <1>2 DEF Located
  <2>2. PICK m \in Seq(Token), x \in Seq(Token) :
          d.target = Transformed(m, x) /\ x # <<>> /\ Trim(x) = x
    BY <1>1, <2>1, OwnersPlaces
  <2>3. Trim(Transformed(m, x)) = Transformed(m, x)
    BY <2>2, TrimTransformed
  <2>4. IsPrefix(VolumesRoot, Transformed(m, x))
    BY MovedOnce
  <2> QED
    BY <2>2, <2>3, <2>4 DEF IsManagedMount
<1>3. CASE d \notin ToSet(mounts)
  <2>1. PICK c \in CredsOf("file") : d.target = SecretsRoot \o c.var
    BY <1>1, <1>3 DEF Equipped
  <2>2. c.var \in Seq(NameTokens) /\ c.var \in Seq(Token) /\ Len(c.var) > 0
    BY <1>1, CredVarIsName
  <2> QED
    BY <2>1, <2>2, SecretPlace
<1> QED
  BY <1>2, <1>3

(* Docker can create the engine a pass asks for: whatever the models, the  *)
(* mounts they share and the secrets, no two mounts are at one place, and  *)
(* none is at a place where mergeMounts keeps a mount of the operator's    *)
(* (dedupMountsByTarget, resolveCreds, isManagedMount).                    *)
THEOREM EngineMountsFit == Spec => []MountsFit
<1>1. ASSUME IInv PROVE MountsFit
  <2> SUFFICES ASSUME pc \in {"creds", "done"}
               PROVE  /\ \A i, j \in DOMAIN mounts :
                           Trim(mounts[i].target) = Trim(mounts[j].target)
                             => i = j
                      /\ \A d, e \in extras.mounts :
                           Trim(d.target) = Trim(e.target) => d = e
                      /\ \A d \in extras.mounts : IsManagedMount(d.target)
    BY DEF MountsFit
  <2>1. \A d \in extras.mounts :
          Trim(d.target) = d.target /\ IsManagedMount(d.target)
    BY <1>1, MountPlace
  <2>2. /\ \A i, j \in DOMAIN mounts :
             mounts[i].target = mounts[j].target => i = j
        /\ \A d, e \in extras.mounts : d.target = e.target => d = e
    BY <1>1 DEF IInv, Fitted
  <2>3. \A i \in DOMAIN mounts : mounts[i] \in extras.mounts
    BY <1>1 DEF IInv, Equipped, ToSet
  <2> QED
    BY <2>1, <2>2, <2>3
<1> QED
  BY <1>1, ConfigPassInvariance, PTL
-----------------------------------------------------------------------------
(* References in any order.                                                *)
LEMMA WithOneMore ==
  ASSUME NEW t, WellFormed(t), NEW P, P \subseteq Path, NEW p \in Path,
         p \notin DOMAIN t, \A q \in P : ~Related(p, q), NEW m
  PROVE  SetPath(WithRefs(t, P, m), p, Text(Reference(CredVarName(m, p))))
           = WithRefs(t, P \cup {p}, m)
<1> DEFINE u == WithRefs(t, P, m)
           v == WithRefs(t, P \cup {p}, m)
           over == UNION {Above(q) : q \in P}
           node(q) == Text(Reference(CredVarName(m, q)))
<1>1. \A q \in Path : Above(q) \subseteq Path
        /\ \A a \in Above(q) : IsPrefix(a, q) /\ a # q
  BY AbovePaths
<1>2. /\ DOMAIN u = DOMAIN t \cup over \cup P
      /\ \A q \in DOMAIN u : u[q] = IF q \in P THEN node(q)
                                    ELSE IF q \in over THEN Map ELSE t[q]
  BY DEF WithRefs
<1>3. UNION {Above(q) : q \in P \cup {p}} = over \cup Above(p)
  OBVIOUS
<1>4. v = [q \in DOMAIN t \cup over \cup Above(p) \cup P \cup {p} |->
             IF q \in P \cup {p} THEN node(q)
             ELSE IF q \in over \cup Above(p) THEN Map ELSE t[q]]
  BY <1>3 DEF WithRefs
<1>5. \A q \in Above(p) : q \notin P
  BY <1>1 DEF Related
<1>6. Under(DOMAIN u, p) = {}
  <2> SUFFICES ASSUME NEW q \in DOMAIN u, IsPrefix(p, q) PROVE FALSE
    BY DEF Under
  <2>1. CASE q \in DOMAIN t
    <3>1. q \in Path /\ q # p
      BY <2>1 DEF WellFormed
    <3>2. p \in Above(q)
      BY <3>1, PrefixesAreAbove
    <3> QED
      BY <2>1, <3>2 DEF WellFormed, IsMap
  <2>2. CASE q \in P
    BY <2>2 DEF Related
  <2>3. CASE q \in over
    <3>1. PICK r \in P : q \in Above(r)
      BY <2>3
    <3>2. q \in Path /\ IsPrefix(q, r) /\ r \in Path
      BY <1>1, <3>1
    <3>3. IsPrefix(p, r)
      BY <3>2, PrefixTransitive DEF Path
    <3> QED
      BY <3>1, <3>3 DEF Related
  <2> QED
    BY <1>2, <2>1, <2>2, <2>3
<1>7. p \notin over /\ p \notin Above(p)
  BY <1>1 DEF Related
<1> HIDE DEF over
<1>8. SetPath(u, p, node(p))
        = [q \in DOMAIN u \cup Above(p) \cup {p} |->
             IF q = p THEN node(p) ELSE IF q \in Above(p) THEN Map ELSE u[q]]
  BY <1>6 DEF SetPath
<1>9. \A q \in DOMAIN u \cup Above(p) \cup {p} :
        (IF q = p THEN node(p) ELSE IF q \in Above(p) THEN Map ELSE u[q])
          = IF q \in P \cup {p} THEN node(q)
            ELSE IF q \in over \cup Above(p) THEN Map ELSE t[q]
  <2> HIDE DEF node, u
  <2> QED
    BY <1>2, <1>5, <1>7
<1> HIDE DEF node, u, v
<1> QED
  BY <1>2, <1>4, <1>8, <1>9 DEF u, v, node

LEMMA WithRefsDomain ==
  ASSUME NEW t, NEW P, NEW m
  PROVE  \A q : q \in DOMAIN WithRefs(t, P, m)
                 <=> q \in DOMAIN t \/ q \in P \/ \E p \in P : q \in Above(p)
BY DEF WithRefs

Placeable(t, refs, k) ==
  /\ \A i \in 1..k : refs[i].ref # <<>> /\ refs[i].path \notin DOMAIN t
  /\ \A i, j \in 1..k : refs[i].path = refs[j].path => i = j
AllPlaced(acc, t, refs, m, id, k) ==
  /\ acc.ok \in BOOLEAN /\ (acc.ok <=> Placeable(t, refs, k))
  /\ acc.ok => /\ acc.tree = WithRefs(t, PathsTo(refs, k), m)
               /\ DOMAIN acc = {"ok", "tree", "creds"}
               /\ acc.creds \in Seq({CredOf(r, m, id) : r \in ToSet(refs)})
               /\ ToSet(acc.creds) = {CredOf(refs[i], m, id) : i \in 1..k}

LEMMA PlaceNext ==
  ASSUME NEW t, WellFormed(t), NEW m, NEW id, NEW R, NEW refs \in Seq(R),
         \A r \in R : r.path \in Path, Clear({r.path : r \in ToSet(refs)}),
         NEW k \in Nat, k + 1 <= Len(refs), NEW acc,
         AllPlaced(acc, t, refs, m, id, k)
  PROVE  AllPlaced(WithCred(acc, refs[k + 1], m, id), t, refs, m, id, k + 1)
<1> DEFINE r == refs[k + 1]
           P == PathsTo(refs, k)
           new == WithCred(acc, r, m, id)
           C == {CredOf(c, m, id) : c \in ToSet(refs)}
<1>0. /\ k + 1 \in DOMAIN refs /\ \A i \in 1..k : i \in DOMAIN refs
      /\ 1..(k + 1) = 1..k \cup {k + 1} /\ k + 1 \notin 1..k
      /\ \A i \in DOMAIN refs : refs[i] \in R /\ refs[i] \in ToSet(refs)
  BY DEF ToSet
<1>1. PathsTo(refs, k + 1) = P \cup {r.path} /\ P \subseteq Path
      /\ r.path \in Path
      /\ P \cup {r.path} \subseteq {x.path : x \in ToSet(refs)}
  BY <1>0 DEF PathsTo
<1>2. \A q \in P : q # r.path => ~Related(r.path, q)
  BY <1>1 DEF Clear, Related
<1>3. Placeable(t, refs, k + 1)
        <=> Placeable(t, refs, k) /\ r.ref # <<>>
              /\ r.path \notin DOMAIN t /\ r.path \notin P
  BY <1>0 DEF Placeable, PathsTo
<1>4. CASE ~acc.ok
  <2>1. new = [acc EXCEPT !.ok = FALSE]
    BY <1>4 DEF WithCred
  <2>2. new.ok = FALSE
    BY <2>1 DEF AllPlaced
  <2> QED
    BY <1>3, <1>4, <2>2 DEF AllPlaced
<1>5. CASE acc.ok
  <2>1. /\ acc.tree = WithRefs(t, P, m) /\ Placeable(t, refs, k)
        /\ DOMAIN acc = {"ok", "tree", "creds"} /\ acc.creds \in Seq(C)
        /\ ToSet(acc.creds) = {CredOf(refs[i], m, id) : i \in 1..k}
    BY <1>5 DEF AllPlaced
  <2>2. r.path \in DOMAIN acc.tree <=> r.path \in DOMAIN t \/ r.path \in P
    <3>1. ASSUME NEW q \in P, r.path \in Above(q) PROVE FALSE
      <4>1. IsPrefix(r.path, q) /\ r.path # q
        BY <1>1, <3>1, AbovePaths
      <4> QED
        BY <1>2, <3>1, <4>1 DEF Related
    <3> HIDE DEF P, r
    <3>2. r.path \in DOMAIN acc.tree
            <=> r.path \in DOMAIN t \/ r.path \in P
                  \/ \E p \in P : r.path \in Above(p)
      BY <2>1, WithRefsDomain
    <3> QED
      BY <3>1, <3>2
  <2>3. CASE r.ref = <<>> \/ r.path \in DOMAIN acc.tree
    <3>1. new = [acc EXCEPT !.ok = FALSE]
      BY <2>3 DEF WithCred
    <3>2. new.ok = FALSE
      BY <2>1, <3>1
    <3>3. ~Placeable(t, refs, k + 1)
      BY <1>3, <2>2, <2>3
    <3> QED
      BY <3>2, <3>3 DEF AllPlaced
  <2>4. CASE ~(r.ref = <<>> \/ r.path \in DOMAIN acc.tree)
    <3>1. new = [ok |-> TRUE,
                 tree |-> SetPath(acc.tree, r.path,
                            Text(Reference(CredVarName(m, r.path)))),
                 creds |-> Append(acc.creds, CredOf(r, m, id))]
      BY <1>5, <2>4 DEF WithCred
    <3>2. Placeable(t, refs, k + 1)
      BY <1>3, <2>1, <2>2, <2>4
    <3>3. r.path \notin DOMAIN t /\ \A q \in P : ~Related(r.path, q)
      BY <1>2, <2>2, <2>4
    <3>4. new.tree = WithRefs(t, P \cup {r.path}, m)
      <4>1. new.tree = SetPath(acc.tree, r.path,
                         Text(Reference(CredVarName(m, r.path))))
        BY <3>1
      <4> HIDE DEF P, r, new
      <4> QED
        BY <1>1, <2>1, <3>3, <4>1, WithOneMore
    <3>5. CredOf(r, m, id) \in C
      BY <1>0
    <3>6. new.creds \in Seq(C)
          /\ ToSet(new.creds) = ToSet(acc.creds) \cup {CredOf(r, m, id)}
      <4>1. new.creds = Append(acc.creds, CredOf(r, m, id))
        BY <3>1
      <4> HIDE DEF C, new, r
      <4> QED
        BY <2>1, <3>5, <4>1, AppendElements
    <3>7. {CredOf(refs[i], m, id) : i \in 1..(k + 1)}
            = ToSet(acc.creds) \cup {CredOf(r, m, id)}
      BY <1>0, <2>1
    <3>8. new.ok = TRUE /\ DOMAIN new = {"ok", "tree", "creds"}
      BY <3>1
    <3>9. AllPlaced(new, t, refs, m, id, k + 1)
      <4> HIDE DEF new, P, r
      <4> QED
        BY <1>1, <3>2, <3>4, <3>6, <3>7, <3>8 DEF AllPlaced
    <3> QED
      BY <3>9
  <2> QED
    BY <2>3, <2>4
<1> QED
  BY <1>4, <1>5 DEF AllPlaced

LEMMA AllSubstituted ==
  ASSUME NEW t, WellFormed(t), t = [q \in DOMAIN t |-> t[q]],
         NEW m, NEW id, NEW R, NEW refs \in Seq(R),
         \A r \in R : r.path \in Path, Clear({r.path : r \in ToSet(refs)})
  PROVE  AllPlaced(SubstituteCreds(t, refs, m, id), t, refs, m, id, Len(refs))
<1>1. PICK acc : /\ Substitutes(acc, t, refs, m, id)
                 /\ SubstituteCreds(t, refs, m, id) = acc[Len(refs)]
  BY SubstituteSteps
<1> DEFINE K == {k \in Nat : k <= Len(refs) =>
                               AllPlaced(acc[k], t, refs, m, id, k)}
           C == {CredOf(r, m, id) : r \in ToSet(refs)}
<1>2. 0 \in K
  <2>1. acc[0] = [ok |-> TRUE, tree |-> t, creds |-> <<>>]
    BY <1>1 DEF Substitutes
  <2>2. PathsTo(refs, 0) = {} /\ 1..0 = {}
    BY DEF PathsTo
  <2>3. WithRefs(t, {}, m) = t
    BY DEF WithRefs
  <2>4. ToSet(<<>>) = {} /\ <<>> \in Seq(C)
    BY DEF ToSet
  <2>5. /\ acc[0].ok = TRUE /\ acc[0].tree = t /\ acc[0].creds = <<>>
        /\ DOMAIN acc[0] = {"ok", "tree", "creds"}
    BY <2>1
  <2>6. Placeable(t, refs, 0)
    BY <2>2 DEF Placeable
  <2>7. AllPlaced(acc[0], t, refs, m, id, 0)
    BY <2>2, <2>3, <2>4, <2>5, <2>6 DEF AllPlaced
  <2> QED
    BY <2>7
<1>3. ASSUME NEW k \in Nat, k \in K PROVE k + 1 \in K
  <2> SUFFICES ASSUME k + 1 <= Len(refs)
               PROVE  AllPlaced(acc[k + 1], t, refs, m, id, k + 1)
    OBVIOUS
  <2>1. k + 1 \in 1..Len(refs) /\ (k + 1) - 1 = k /\ k <= Len(refs)
    OBVIOUS
  <2>2. acc[k + 1] = WithCred(acc[k], refs[k + 1], m, id)
    BY <1>1, <2>1 DEF Substitutes
  <2>3. AllPlaced(acc[k], t, refs, m, id, k)
    BY <1>3, <2>1
  <2> QED
    BY <2>2, <2>3, PlaceNext
<1> HIDE DEF K
<1>4. Len(refs) \in K
  BY <1>2, <1>3, Induction
<1> QED
  BY <1>1, <1>4 DEF K
-----------------------------------------------------------------------------
(* Reading labels, and the queue of sources.                               *)
LEMMA RefsReadNone ==
  ASSUME NEW labels
  PROVE  RefsRead(<<>>, labels, {})
<1>1. ToSet(<<>>) = {} /\ <<>> \in Seq(ToSet(<<>>)) /\ DOMAIN <<>> = {}
  BY DEF ToSet
<1> QED
  BY <1>1 DEF RefsRead, PathsDiffer

LEMMA RefsReadMore ==
  ASSUME NEW labels, NEW refs, NEW K, NEW p, p \notin K,
         RefsRead(refs, labels, K)
  PROVE  RefsRead(Append(refs, RefAt(labels, p)), labels, K \cup {p})
<1> DEFINE r == RefAt(labels, p)
           new == Append(refs, r)
           n == Len(refs)
<1>1. /\ refs \in Seq(ToSet(refs))
      /\ ToSet(refs) = {RefAt(labels, q) : q \in K}
  BY DEF RefsRead
<1> HIDE DEF r
<1>2. new \in Seq(ToSet(new)) /\ ToSet(new) = ToSet(refs) \cup {r}
  BY <1>1, AppendElements
<1>3. ToSet(new) = {RefAt(labels, q) : q \in K \cup {p}}
  BY <1>1, <1>2 DEF r
<1>4. /\ n \in Nat /\ DOMAIN refs = 1..n /\ DOMAIN new = 1..(n + 1)
      /\ \A i \in 1..n : new[i] = refs[i]
      /\ new[n + 1] = r
  BY <1>1
<1>5. (\E i \in 1..n : refs[i].path = r.path)
        <=> \E q \in K : RefAt(labels, q).path = r.path
  <2>1. ToSet(refs) = {refs[i] : i \in 1..n}
    BY <1>4 DEF ToSet
  <2> HIDE DEF n
  <2>2. \A i \in 1..n : \E q \in K : RefAt(labels, q) = refs[i]
    BY <1>1, <2>1
  <2>3. \A q \in K : \E i \in 1..n : RefAt(labels, q) = refs[i]
    BY <1>1, <2>1
  <2> QED
    BY <2>2, <2>3
<1>6. (\A i, j \in 1..(n + 1) : new[i].path = new[j].path => i = j)
        <=> /\ \A i, j \in 1..n : refs[i].path = refs[j].path => i = j
            /\ ~\E i \in 1..n : refs[i].path = r.path
  <2>1. 1..(n + 1) = 1..n \cup {n + 1} /\ n + 1 \notin 1..n
    BY <1>4
  <2> HIDE DEF n, new
  <2> QED
    BY <1>4, <2>1
<1>7. PathsDiffer(labels, K \cup {p})
        <=> PathsDiffer(labels, K) /\ ~\E q \in K : RefAt(labels, q).path = r.path
  BY DEF PathsDiffer, r
<1>8. (\A i, j \in 1..n : refs[i].path = refs[j].path => i = j)
        <=> PathsDiffer(labels, K)
  BY <1>4 DEF RefsRead
<1>9. (\A i, j \in DOMAIN new : new[i].path = new[j].path => i = j)
        <=> PathsDiffer(labels, K \cup {p})
  <2> HIDE DEF new, n
  <2> QED
    BY <1>4, <1>5, <1>6, <1>7, <1>8
<1> QED
  BY <1>2, <1>3, <1>9 DEF RefsRead, r

LEMMA PlaceOf ==
  ASSUME NEW w, IsWorld(w), NEW i \in DOMAIN w.containers
  PROVE  Place(w, w.containers[i].id) = i
BY DEF Place, IsWorld

LEMMA QueueMore ==
  ASSUME NEW w, IsWorld(w), NEW S, NEW s \in Seq(S), NEW high \in Nat,
         high + 1 \in DOMAIN w.containers, Queued(w, s, 0, high),
         NEW src, src.id = w.containers[high + 1].id,
         Contributing(w, w.containers[high + 1]),
         ReadWhole(src, w.containers[high + 1])
  PROVE  Queued(w, Append(s, src), 0, high + 1)
<1> DEFINE new == Append(s, src)
           n == Len(s)
           i(j) == Place(w, new[j].id)
           o(j) == Place(w, s[j].id)
<1>1. /\ n \in Nat /\ DOMAIN s = 1..n /\ DOMAIN new = 1..n \cup {n + 1}
      /\ \A j \in 1..n : new[j] = s[j]
      /\ new[n + 1] = src
  OBVIOUS
<1>2. /\ \A j \in 1..n : i(j) = o(j)
      /\ i(n + 1) = high + 1
  BY <1>1, PlaceOf
<1>3. /\ \A j \in 1..n : /\ o(j) \in (0 + 1)..high
                         /\ Contributing(w, w.containers[o(j)])
                         /\ ReadWhole(s[j], w.containers[o(j)])
      /\ \A k \in (0 + 1)..high : Contributing(w, w.containers[k])
                                   => \E j \in 1..n : o(j) = k
      /\ \A j, k \in 1..n : j < k => o(j) < o(k)
  BY <1>1 DEF Queued
<1> HIDE DEF new, n, i, o
<1>4. \A j \in DOMAIN new : /\ i(j) \in (0 + 1)..(high + 1)
                            /\ Contributing(w, w.containers[i(j)])
                            /\ ReadWhole(new[j], w.containers[i(j)])
  BY <1>1, <1>2, <1>3
<1>5. \A k \in (0 + 1)..(high + 1) : Contributing(w, w.containers[k])
                                      => \E j \in DOMAIN new : i(j) = k
  <2> SUFFICES ASSUME NEW k \in (0 + 1)..(high + 1),
                      Contributing(w, w.containers[k])
               PROVE  \E j \in DOMAIN new : i(j) = k
    OBVIOUS
  <2>1. CASE k = high + 1
    BY <1>1, <1>2, <2>1
  <2>2. CASE k \in (0 + 1)..high
    BY <1>1, <1>2, <1>3, <2>2
  <2> QED
    BY <2>1, <2>2
<1>6. \A j, k \in DOMAIN new : j < k => i(j) < i(k)
  <2> SUFFICES ASSUME NEW j \in DOMAIN new, NEW k \in DOMAIN new, j < k
               PROVE  i(j) < i(k)
    OBVIOUS
  <2>1. j \in 1..n
    BY <1>1
  <2>2. CASE k \in 1..n
    BY <1>2, <1>3, <2>1, <2>2
  <2>3. CASE k = n + 1
    BY <1>2, <1>3, <2>1, <2>3
  <2> QED
    BY <1>1, <2>2, <2>3
<1> QED
  BY <1>4, <1>5, <1>6 DEF Queued, i, new

LEMMA QueueSkipped ==
  ASSUME NEW w, NEW s, NEW high \in Nat, Queued(w, s, 0, high),
         ~Contributing(w, w.containers[high + 1])
  PROVE  Queued(w, s, 0, high + 1)
<1>1. (0 + 1)..(high + 1) = (0 + 1)..high \cup {high + 1}
  OBVIOUS
<1> QED
  BY <1>1 DEF Queued

LEMMA QueueNext ==
  ASSUME NEW w, NEW S, NEW s \in Seq(S), s # <<>>, NEW n \in Nat,
         NEW low \in 0..n, Queued(w, s, low, n)
  PROVE  LET i == Place(w, Head(s).id)
         IN /\ i \in (low + 1)..n /\ Contributing(w, w.containers[i])
            /\ ReadWhole(Head(s), w.containers[i])
            /\ \A j \in (low + 1)..(i - 1) : ~Contributing(w, w.containers[j])
            /\ Queued(w, Tail(s), i, n)
<1> DEFINE o(j) == Place(w, s[j].id)
           t == Tail(s)
           m == Len(t)
           i == o(1)
<1>1. /\ m \in Nat /\ DOMAIN s = 1..(m + 1) /\ DOMAIN t = 1..m
      /\ \A j \in 1..m : t[j] = s[j + 1]
      /\ Head(s) = s[1]
  OBVIOUS
<1>2. /\ \A j \in 1..(m + 1) : /\ o(j) \in (low + 1)..n
                               /\ Contributing(w, w.containers[o(j)])
                               /\ ReadWhole(s[j], w.containers[o(j)])
      /\ \A k \in (low + 1)..n : Contributing(w, w.containers[k])
                                  => \E j \in 1..(m + 1) : o(j) = k
      /\ \A j, k \in 1..(m + 1) : j < k => o(j) < o(k)
  BY <1>1 DEF Queued
<1>3. \A j \in 1..m : Place(w, t[j].id) = o(j + 1)
  BY <1>1
<1> HIDE DEF o, t, m
<1>4. 1 \in 1..(m + 1) /\ \A j \in 1..(m + 1) : j = 1 \/ (j - 1 \in 1..m /\ 1 < j)
  BY <1>1
<1>5. i \in (low + 1)..n /\ \A j \in 1..(m + 1) : j # 1 => i < o(j)
  BY <1>2, <1>4
<1>6. \A j \in (low + 1)..(i - 1) : ~Contributing(w, w.containers[j])
  <2> SUFFICES ASSUME NEW j \in (low + 1)..(i - 1),
                      Contributing(w, w.containers[j]) PROVE FALSE
    OBVIOUS
  <2>1. j \in (low + 1)..n /\ j < i
    BY <1>5
  <2>2. PICK k \in 1..(m + 1) : o(k) = j
    BY <1>2, <2>1
  <2> QED
    BY <1>5, <2>1, <2>2
<1>7. Queued(w, t, i, n)
  <2>1. \A j \in 1..m : /\ o(j + 1) \in (i + 1)..n
                        /\ Contributing(w, w.containers[o(j + 1)])
                        /\ ReadWhole(t[j], w.containers[o(j + 1)])
    <3> SUFFICES ASSUME NEW j \in 1..m
                 PROVE  /\ o(j + 1) \in (i + 1)..n
                        /\ Contributing(w, w.containers[o(j + 1)])
                        /\ ReadWhole(t[j], w.containers[o(j + 1)])
      OBVIOUS
    <3>1. j + 1 \in 1..(m + 1) /\ j + 1 # 1
      BY <1>1
    <3>2. i < o(j + 1) /\ o(j + 1) \in (low + 1)..n
      BY <1>2, <1>5, <3>1
    <3> QED
      BY <1>1, <1>2, <1>5, <3>1, <3>2
  <2>2. \A k \in (i + 1)..n : Contributing(w, w.containers[k])
                               => \E j \in 1..m : o(j + 1) = k
    <3> SUFFICES ASSUME NEW k \in (i + 1)..n, Contributing(w, w.containers[k])
                 PROVE  \E j \in 1..m : o(j + 1) = k
      OBVIOUS
    <3>1. k \in (low + 1)..n /\ k # i
      BY <1>5
    <3>2. PICK j \in 1..(m + 1) : o(j) = k
      BY <1>2, <3>1
    <3>3. j # 1 /\ j - 1 \in 1..m /\ (j - 1) + 1 = j
      BY <1>4, <3>1, <3>2
    <3> QED
      BY <3>2, <3>3
  <2>3. \A j, k \in 1..m : j < k => o(j + 1) < o(k + 1)
    <3> TAKE j, k \in 1..m
    <3>1. j + 1 \in 1..(m + 1) /\ k + 1 \in 1..(m + 1)
          /\ (j < k => j + 1 < k + 1)
      BY <1>1
    <3> QED
      BY <1>2, <3>1
  <2> DEFINE place(j) == Place(w, t[j].id)
  <2>4. \A j \in 1..m : place(j) = o(j + 1)
    BY <1>3
  <2> HIDE DEF place
  <2>5. \A j \in 1..m : /\ place(j) \in (i + 1)..n
                        /\ Contributing(w, w.containers[place(j)])
                        /\ ReadWhole(t[j], w.containers[place(j)])
    BY <2>1, <2>4
  <2>6. \A k \in (i + 1)..n : Contributing(w, w.containers[k])
                               => \E j \in 1..m : place(j) = k
    BY <2>2, <2>4
  <2>7. \A j, k \in 1..m : j < k => place(j) < place(k)
    BY <2>3, <2>4
  <2> QED
    BY <1>1, <2>5, <2>6, <2>7 DEF Queued, place
<1> QED
  BY <1>1, <1>2, <1>4, <1>5, <1>6, <1>7 DEF o, t
-----------------------------------------------------------------------------
(* A label more.                                                           *)
LEMMA MetaMore ==
  ASSUME NEW labels, NEW read, NEW p, NEW key
  PROVE  MetaAt(labels, read \cup {p}, key)
           = IF p = <<key>> THEN labels[p] ELSE MetaAt(labels, read, key)
BY DEF MetaAt

LEMMA ReadMore ==
  ASSUME Reads, NEW p, ReadMeta(p) \/ ReadCredRef(p) \/ ReadSetting(p),
         ReadSoFar(world, parsed, Head(listed).labels,
                   DOMAIN Head(listed).labels \ left)
  PROVE  ReadSoFar(world, parsed', Head(listed).labels,
                   DOMAIN Head(listed).labels \ left')
<1> DEFINE labels == Head(listed).labels
           read == DOMAIN labels \ left
<1>1. /\ p \in left /\ left' = left \ {p} /\ pc = "list"
  BY DEF ReadMeta, ReadCredRef, ReadSetting, Reading
<1>2. p \in DOMAIN labels /\ p \notin read
  BY <1>1 DEF Reads, LabelsOf
<1>3. DOMAIN labels \ left' = read \cup {p}
  BY <1>1, <1>2
<1>4. DOMAIN parsed = {"enabled", "name", "instance", "profile", "tree", "refs"}
  BY DEF Reads, Fresh
<1>5. /\ parsed.enabled = EnabledAt(world, labels, read)
      /\ \A key \in {"name", "instance", "profile"} :
           parsed[key] = MetaAt(labels, read, key)
      /\ RefsRead(parsed.refs, labels, CredKeys(labels) \cap read)
  BY DEF ReadSoFar
<1>6. IsCredRef(p) => p \notin MetaKeys
  <2> SUFFICES ASSUME p \in MetaKeys, Len(p) > 1 PROVE FALSE
    BY DEF IsCredRef
  <2>1. PICK k : p = <<k>>
    BY DEF MetaKeys
  <2>2. Len(p) = 1
    BY <2>1
  <2> QED
    BY <2>2
<1>7. CredKeys(labels) \cap (read \cup {p})
        = IF IsCredRef(p) THEN (CredKeys(labels) \cap read) \cup {p}
          ELSE CredKeys(labels) \cap read
  BY <1>2 DEF CredKeys
<1>8. p \notin MetaKeys =>
        /\ EnabledAt(world, labels, read \cup {p})
             = EnabledAt(world, labels, read)
        /\ \A key \in {"name", "instance", "profile"} :
             MetaAt(labels, read \cup {p}, key) = MetaAt(labels, read, key)
  BY DEF EnabledAt, MetaAt, MetaKeys
<1> HIDE DEF read
<1>9. CASE ReadMeta(p)
  <2>1. p \in MetaKeys /\ ~IsCredRef(p)
    BY <1>6, <1>9 DEF ReadMeta
  <2>2. CASE p = <<"enable">>
    <3>1. parsed' = [parsed EXCEPT !.enabled = ParseBool(labels[p], world.exposed)]
      BY <1>9, <2>2 DEF ReadMeta
    <3>2. /\ parsed'.enabled = ParseBool(labels[p], world.exposed)
          /\ \A key \in {"name", "instance", "profile", "refs"} :
               parsed'[key] = parsed[key]
      BY <1>4, <3>1
    <3>3. /\ EnabledAt(world, labels, read \cup {p}) = parsed'.enabled
          /\ \A key \in {"name", "instance", "profile"} :
               MetaAt(labels, read \cup {p}, key) = MetaAt(labels, read, key)
      BY <2>2, <3>2 DEF EnabledAt, MetaAt
    <3> QED
      BY <1>3, <1>5, <1>7, <2>1, <3>2, <3>3 DEF ReadSoFar
  <2>3. ASSUME NEW k \in {"name", "instance", "profile"}, p = <<k>>
        PROVE  ReadSoFar(world, parsed', labels, DOMAIN labels \ left')
    <3>1. parsed' = [parsed EXCEPT ![k] = labels[p]]
      <4>1. p # <<"enable">> /\ p[1] = k
        BY <2>3
      <4> QED
        BY <1>9, <4>1 DEF ReadMeta
    <3>2. /\ parsed'[k] = labels[p]
          /\ \A key \in {"enabled", "name", "instance", "profile", "refs"} :
               key # k => parsed'[key] = parsed[key]
      BY <1>4, <3>1
    <3>3. /\ EnabledAt(world, labels, read \cup {p})
               = EnabledAt(world, labels, read)
          /\ \A key \in {"name", "instance", "profile"} :
               MetaAt(labels, read \cup {p}, key)
                 = IF key = k THEN labels[p] ELSE MetaAt(labels, read, key)
      BY <2>3 DEF EnabledAt, MetaAt
    <3>4. \A key \in {"name", "instance", "profile"} :
            parsed'[key] = MetaAt(labels, read \cup {p}, key)
      BY <1>5, <3>2, <3>3
    <3>5. parsed'.enabled = parsed.enabled /\ parsed'.refs = parsed.refs
      BY <3>2
    <3> QED
      BY <1>3, <1>5, <1>7, <2>1, <3>3, <3>4, <3>5 DEF ReadSoFar
  <2> QED
    BY <2>1, <2>2, <2>3 DEF MetaKeys
<1>10. CASE ReadCredRef(p)
  <2>1. /\ p \notin MetaKeys /\ IsCredRef(p)
        /\ parsed' = [parsed EXCEPT !.refs = Append(@, RefAt(labels, p))]
    BY <1>10 DEF ReadCredRef, RefAt
  <2>2. /\ parsed'.refs = Append(parsed.refs, RefAt(labels, p))
        /\ \A key \in {"enabled", "name", "instance", "profile"} :
             parsed'[key] = parsed[key]
    BY <1>4, <2>1
  <2>3. RefsRead(parsed'.refs, labels, (CredKeys(labels) \cap read) \cup {p})
    BY <1>2, <1>5, <2>2, RefsReadMore
  <2>4. CredKeys(labels) \cap (read \cup {p}) = (CredKeys(labels) \cap read) \cup {p}
    BY <1>7, <2>1
  <2> QED
    BY <1>3, <1>5, <1>8, <2>1, <2>2, <2>3, <2>4 DEF ReadSoFar
<1>11. CASE ReadSetting(p)
  <2>1. /\ p \notin MetaKeys /\ ~IsCredRef(p)
        /\ \A key \in {"enabled", "name", "instance", "profile", "refs"} :
             parsed'[key] = parsed[key]
    BY <1>4, <1>11 DEF ReadSetting
  <2> QED
    BY <1>3, <1>5, <1>7, <1>8, <2>1 DEF ReadSoFar
<1> QED
  BY <1>9, <1>10, <1>11

LEMMA ReadingListing ==
  ASSUME Reads, Listing, NEW p, ReadMeta(p) \/ ReadCredRef(p) \/ ReadSetting(p)
  PROVE  Listing'
<1>1. /\ pc = "list" /\ p \in left
      /\ UNCHANGED <<world, pc, listed, sources, made, creds>>
  BY DEF ReadMeta, ReadCredRef, ReadSetting, Reading, buildVars
<1>2. listed # <<>>
  BY <1>1 DEF Reads, LabelsOf
<1>3. ReadSoFar(world, parsed', Head(listed).labels,
                DOMAIN Head(listed).labels \ left')
  BY <1>1, <1>2, ReadMore DEF Listing
<1> QED
  BY <1>1, <1>3 DEF Listing, High

LEMMA ReadNothing ==
  ASSUME NEW w, NEW labels
  PROVE  ReadSoFar(w, Fresh(w), labels, {})
<1>1. CredKeys(labels) \cap {} = {}
  OBVIOUS
<1> QED
  BY <1>1, RefsReadNone DEF ReadSoFar, Fresh, EnabledAt, MetaAt

(* Owners.                                                                 *)
LEMMA OwnedMore ==
  ASSUME NEW w, NEW o, NEW high \in Nat, high + 1 \in DOMAIN w.containers,
         OwnedUpTo(w, o, high), w.containers \in Seq(ToSet(w.containers)),
         Contributing(w, w.containers[high + 1])
  PROVE  OwnedUpTo(w, Put(o, NameOf(w, w.containers[high + 1]),
                          w.containers[high + 1].id), high + 1)
<1> DEFINE C == w.containers
           name == NameOf(w, C[high + 1])
           new == Put(o, name, C[high + 1].id)
<1>1. 1..(high + 1) = 1..high \cup {high + 1}
      /\ \A m : Claiming(w, m) \subseteq Nat
  BY DEF Claiming
<1>2. DOMAIN new = DOMAIN o \cup {name} /\ new[name] = C[high + 1].id
      /\ \A m \in DOMAIN o : m # name => new[m] = o[m]
  BY DEF Put
<1>3. {NameOf(w, C[i]) : i \in {j \in 1..(high + 1) : Contributing(w, C[j])}}
        = {NameOf(w, C[i]) : i \in {j \in 1..high : Contributing(w, C[j])}}
            \cup {name}
  BY <1>1
<1>4. high + 1 \in Claiming(w, name)
  BY DEF Claiming
<1>5. \A m : m # name => high + 1 \notin Claiming(w, m)
  BY DEF Claiming
<1> HIDE DEF name, new, C
<1>6. ASSUME NEW m \in DOMAIN new
      PROVE  \E i \in Claiming(w, m) :
               /\ i <= high + 1 /\ new[m] = C[i].id
               /\ \A j \in Claiming(w, m) : j <= high + 1 => j <= i
  <2>1. CASE m = name
    BY <1>2, <1>4, <2>1
  <2>2. CASE m # name
    <3>1. PICK i \in Claiming(w, m) :
            /\ i <= high /\ o[m] = C[i].id
            /\ \A j \in Claiming(w, m) : j <= high => j <= i
      BY <1>2, <2>2 DEF OwnedUpTo, C
    <3>2. \A j \in Claiming(w, m) : j <= high + 1 => j <= high
      BY <1>1, <1>5, <2>2
    <3>3. i <= high + 1 /\ new[m] = C[i].id
      BY <1>1, <1>2, <2>2, <3>1
    <3> QED
      BY <3>1, <3>2, <3>3
  <2> QED
    BY <2>1, <2>2
<1>7. OwnedUpTo(w, new, high + 1)
  BY <1>2, <1>3, <1>6 DEF OwnedUpTo, C
<1> QED
  BY <1>7 DEF new, name, C

LEMMA OwnedSkipped ==
  ASSUME NEW w, NEW o, NEW high \in Nat, OwnedUpTo(w, o, high),
         w.containers \in Seq(ToSet(w.containers)),
         ~Contributing(w, w.containers[high + 1])
  PROVE  OwnedUpTo(w, o, high + 1)
<1>1. \A m : Claiming(w, m) \subseteq Nat /\ high + 1 \notin Claiming(w, m)
  BY DEF Claiming
<1>2. {j \in 1..(high + 1) : Contributing(w, w.containers[j])}
        = {j \in 1..high : Contributing(w, w.containers[j])}
  OBVIOUS
<1>3. ASSUME NEW m \in DOMAIN o
      PROVE  \E i \in Claiming(w, m) :
               /\ i <= high + 1 /\ o[m] = w.containers[i].id
               /\ \A j \in Claiming(w, m) : j <= high + 1 => j <= i
  <2>1. PICK i \in Claiming(w, m) :
          /\ i <= high /\ o[m] = w.containers[i].id
          /\ \A j \in Claiming(w, m) : j <= high => j <= i
    BY DEF OwnedUpTo
  <2>2. i <= high + 1 /\ \A j \in Claiming(w, m) : j <= high + 1 => j <= high
    BY <1>1, <2>1
  <2> QED
    BY <2>1, <2>2
<1> QED
  BY <1>2, <1>3 DEF OwnedUpTo
-----------------------------------------------------------------------------
(* The end of a container.                                                 *)
LEMMA EndedContainer ==
  ASSUME Reads, ClearLabels(world), Listing, EndContainer
  PROVE  LET c == Head(listed)
         IN /\ High \in Nat /\ High + 1 \in DOMAIN world.containers
            /\ c = world.containers[High + 1]
            /\ High' = High + 1 /\ UNCHANGED <<world, pc, made, creds>>
            /\ pc = "list" /\ listed' = Tail(listed)
            /\ left' = LabelsOf(listed') /\ parsed' = Fresh(world)
            /\ \A i \in DOMAIN listed' :
                 listed'[i] = world.containers[High + 1 + i]
            /\ \/ /\ Contributing(world, c)
                  /\ owner' = Put(owner, NameOf(world, c), c.id)
                  /\ \E src : /\ sources' = Append(sources, src)
                              /\ src.id = c.id /\ ReadWhole(src, c)
               \/ ~Contributing(world, c) /\ UNCHANGED <<owner, sources>>
<1> DEFINE c == Head(listed)
           labels == c.labels
           C == world.containers
           src == [container |-> c.name, id |-> c.id, name |-> parsed.name,
                   profile |-> parsed.profile, tree |-> parsed.tree,
                   refs |-> parsed.refs]
<1>1. /\ pc = "list" /\ listed # <<>> /\ left = {} /\ listed' = Tail(listed)
      /\ left' = LabelsOf(listed') /\ parsed' = Fresh(world)
      /\ UNCHANGED <<world, pc, made, creds>>
      /\ \/ /\ Contributes(parsed)
            /\ owner' = Put(owner, ModelName(c.name, parsed.name), c.id)
            /\ sources' = Append(sources, src)
         \/ ~Contributes(parsed) /\ UNCHANGED <<owner, sources>>
  BY DEF EndContainer, buildVars
<1>2. /\ listed \in Seq(ToSet(C)) /\ C \in Seq(ToSet(C))
      /\ High \in Nat /\ High = Len(C) - Len(listed)
      /\ \A i \in DOMAIN listed : listed[i] = C[High + i]
  BY <1>1 DEF Reads, IsWorld, Listing, High
<1> HIDE DEF C
<1>3. /\ c = C[High + 1] /\ High + 1 \in DOMAIN C
      /\ High' = High + 1
      /\ \A i \in DOMAIN listed' : listed'[i] = C[High + 1 + i]
  <2>1. /\ 1 \in DOMAIN listed /\ c = listed[1]
        /\ Len(listed') = Len(listed) - 1
        /\ \A i \in DOMAIN listed' : i + 1 \in DOMAIN listed
                                     /\ listed'[i] = listed[i + 1]
    BY <1>1, <1>2
  <2>2. High' = Len(C) - Len(listed')
    BY <1>1 DEF High, C
  <2>3. High' = High + 1
    BY <1>1, <1>2, <2>1, <2>2
  <2>4. High + 1 \in DOMAIN C
    BY <1>1, <1>2, <2>1
  <2>5. \A i \in DOMAIN listed' : High + (i + 1) = High + 1 + i
    BY <1>1, <1>2
  <2>6. \A i \in DOMAIN listed' : listed'[i] = C[High + (i + 1)]
    BY <1>2, <2>1
  <2> QED
    BY <1>2, <2>1, <2>3, <2>4, <2>5, <2>6
<1>4. c \in ToSet(C)
  BY <1>3 DEF ToSet
<1>5. /\ parsed.enabled = EnabledAt(world, labels, DOMAIN labels)
      /\ \A key \in {"name", "instance", "profile"} :
           parsed[key] = MetaAt(labels, DOMAIN labels, key)
      /\ RefsRead(parsed.refs, labels, CredKeys(labels))
  <2>1. DOMAIN labels \ left = DOMAIN labels
        /\ CredKeys(labels) \cap DOMAIN labels = CredKeys(labels)
    BY <1>1 DEF CredKeys
  <2>2. ReadSoFar(world, parsed, labels, DOMAIN labels)
    BY <1>1, <2>1 DEF Listing
  <2> QED
    BY <2>1, <2>2 DEF ReadSoFar
<1>6. parsed.tree = TreeOf(c)
  <2>1. Clear(Settings(labels))
    BY <1>4 DEF ClearLabels, C
  <2>2. SettingsRead = Settings(labels)
    BY <1>1 DEF SettingsRead, Settings
  <2> QED
    BY <1>1, <2>1, <2>2 DEF Reads, ParsedAsLabelled, TreeOf
<1>7. Contributes(parsed) <=> Contributing(world, c)
  BY <1>5, <1>6 DEF Contributes, Contributing
<1>8. ModelName(c.name, parsed.name) = NameOf(world, c)
  BY <1>5 DEF ModelName, NameOf
<1>9. src.id = c.id /\ ReadWhole(src, c)
  BY <1>5, <1>6 DEF ReadWhole
<1> HIDE DEF src, c, labels
<1> QED
  BY <1>1, <1>2, <1>3, <1>7, <1>8, <1>9 DEF C, c

LEMMA EndContainerListing ==
  ASSUME Reads, ClearLabels(world), Listing, EndContainer
  PROVE  Listing'
<1> DEFINE c == Head(listed)
<1>1. /\ High \in Nat /\ High + 1 \in DOMAIN world.containers
      /\ c = world.containers[High + 1]
      /\ High' = High + 1 /\ UNCHANGED <<world, pc, made, creds>>
      /\ pc = "list" /\ left' = LabelsOf(listed') /\ parsed' = Fresh(world)
      /\ \A i \in DOMAIN listed' : listed'[i] = world.containers[High + 1 + i]
      /\ \/ /\ Contributing(world, c)
            /\ \E src : /\ sources' = Append(sources, src)
                        /\ src.id = c.id /\ ReadWhole(src, c)
         \/ ~Contributing(world, c) /\ UNCHANGED sources
  BY EndedContainer
<1> HIDE DEF c
<1>2. /\ sources \in Seq(ToSet(sources)) /\ IsWorld(world)
      /\ Queued(world, sources, 0, High)
  BY <1>1 DEF Reads, Listing
<1>3. Queued(world, sources', 0, High + 1)
  <2>1. CASE Contributing(world, c)
    <3>1. PICK src : /\ sources' = Append(sources, src)
                     /\ src.id = c.id /\ ReadWhole(src, c)
      BY <1>1, <2>1
    <3> QED
      BY <1>1, <1>2, <2>1, <3>1, QueueMore
  <2>2. CASE ~Contributing(world, c)
    BY <1>1, <1>2, <2>2, QueueSkipped
  <2> QED
    BY <2>1, <2>2
<1>4. listed' # <<>> => LET labels == Head(listed').labels
                       IN ReadSoFar(world, parsed', labels,
                                    DOMAIN labels \ left')
  <2> SUFFICES ASSUME listed' # <<>>
               PROVE  LET labels == Head(listed').labels
                      IN ReadSoFar(world, Fresh(world), labels,
                                   DOMAIN labels \ left')
    BY <1>1
  <2>1. DOMAIN Head(listed').labels \ left' = {}
    BY <1>1 DEF LabelsOf
  <2> QED
    BY <2>1, ReadNothing
<1>5. made' = <<>> /\ creds' = <<>> /\ High' \in Nat
  BY <1>1 DEF Listing
<1>6. Queued(world', sources', 0, High')
      /\ \A i \in DOMAIN listed' : listed'[i] = world'.containers[High' + i]
  BY <1>1, <1>3
<1>7. listed' # <<>> => LET labels == Head(listed').labels
                       IN ReadSoFar(world', parsed', labels,
                                    DOMAIN labels \ left')
  BY <1>1, <1>4
<1> QED
  BY <1>5, <1>6, <1>7 DEF Listing

LEMMA EndContainerOwning ==
  ASSUME Reads, ClearLabels(world), Listing, Owning, EndContainer
  PROVE  Owning'
<1> DEFINE c == Head(listed)
<1>1. /\ High \in Nat /\ High + 1 \in DOMAIN world.containers
      /\ c = world.containers[High + 1]
      /\ High' = High + 1 /\ UNCHANGED <<world, pc>> /\ pc = "list"
      /\ \/ /\ Contributing(world, c)
            /\ owner' = Put(owner, NameOf(world, c), c.id)
         \/ ~Contributing(world, c) /\ UNCHANGED owner
  BY EndedContainer
<1> HIDE DEF c
<1>2. OwnedUpTo(world, owner, High)
      /\ world.containers \in Seq(ToSet(world.containers))
  BY <1>1 DEF Owning, Reads, IsWorld
<1>3. OwnedUpTo(world, owner', High + 1)
  <2>1. CASE Contributing(world, c)
    BY <1>1, <1>2, <2>1, OwnedMore
  <2>2. CASE ~Contributing(world, c)
    BY <1>1, <1>2, <2>2, OwnedSkipped
  <2> QED
    BY <2>1, <2>2
<1>4. OwnedUpTo(world', owner', High')
  BY <1>1, <1>3
<1>5. pc' = "list"
  BY <1>1
<1> QED
  BY <1>4, <1>5 DEF Owning
-----------------------------------------------------------------------------
(* What a source read whole gives is its container's model.                *)
Buildable(src, name) ==
  LET merged == Merged(profiles, src)
  IN /\ HasProfile(src) /\ ~IsBroken(merged, Data(src, name))
     /\ Model(src, name).ok /\ ValidModel(Model(src, name).tree)

LEMMA SourceOfContainer ==
  ASSUME Reads, Built, pc # "list", NEW c, NEW src,
         src.container = c.name, src.profile
           = MetaAt(c.labels, DOMAIN c.labels, "profile"),
         src.tree = TreeOf(c)
  PROVE  /\ Merged(profiles, src) = MergedOf(world, c)
         /\ Data(src, NameOf(world, c)) = DataOf(world, c)
         /\ HasProfile(src)
              <=> LET profile == MetaAt(c.labels, DOMAIN c.labels, "profile")
                  IN profile = <<>> \/ profile \in DOMAIN world.profiles
<1>1. Inherited(profiles, src) = Inherited(world.profiles, src)
  BY InheritedTree
<1>2. Merged(profiles, src) = MergedOf(world, c)
  BY <1>1 DEF Merged, MergedOf, Inherited, ProfileName
<1>3. Data(src, NameOf(world, c)) = DataOf(world, c)
  BY DEF Data, DataOf
<1>4. DOMAIN profiles = DOMAIN world.profiles
  BY DEF Built
<1> QED
  BY <1>2, <1>3, <1>4 DEF HasProfile

LEMMA RefsPlaceable ==
  ASSUME NEW c, NEW src, NEW t, src.refs \in Seq(ToSet(src.refs)),
         RefsRead(src.refs, c.labels, CredKeys(c.labels))
  PROVE  Placeable(t, src.refs, Len(src.refs))
           <=> /\ \A p \in CredKeys(c.labels) :
                    c.labels[p] # <<>> /\ RefAt(c.labels, p).path \notin DOMAIN t
               /\ PathsDiffer(c.labels, CredKeys(c.labels))
<1> DEFINE refs == src.refs
           K == CredKeys(c.labels)
<1>1. DOMAIN refs = 1..Len(refs)
  OBVIOUS
<1>2. ToSet(refs) = {RefAt(c.labels, p) : p \in K}
      /\ ToSet(refs) = {refs[i] : i \in 1..Len(refs)}
  BY <1>1 DEF RefsRead, ToSet
<1>3. \A p : RefAt(c.labels, p).ref = c.labels[p]
  BY DEF RefAt, CredRef
<1>4. (\A i, j \in 1..Len(refs) : refs[i].path = refs[j].path => i = j)
        <=> PathsDiffer(c.labels, K)
  BY <1>1 DEF RefsRead
<1> HIDE DEF refs, K
<1>5. (\A i \in 1..Len(refs) : refs[i].ref # <<>> /\ refs[i].path \notin DOMAIN t)
        <=> \A p \in K : c.labels[p] # <<>>
                         /\ RefAt(c.labels, p).path \notin DOMAIN t
  <2>1. ASSUME \A p \in K : c.labels[p] # <<>>
                            /\ RefAt(c.labels, p).path \notin DOMAIN t,
               NEW i \in 1..Len(refs)
        PROVE  refs[i].ref # <<>> /\ refs[i].path \notin DOMAIN t
    <3>1. PICK p \in K : refs[i] = RefAt(c.labels, p)
      BY <1>2
    <3> QED
      BY <1>3, <2>1, <3>1
  <2>2. ASSUME \A i \in 1..Len(refs) : refs[i].ref # <<>>
                                       /\ refs[i].path \notin DOMAIN t,
               NEW p \in K
        PROVE  c.labels[p] # <<>> /\ RefAt(c.labels, p).path \notin DOMAIN t
    <3>1. PICK i \in 1..Len(refs) : refs[i] = RefAt(c.labels, p)
      BY <1>2
    <3> QED
      BY <1>3, <2>2, <3>1
  <2> QED
    BY <2>1, <2>2
<1> QED
  BY <1>4, <1>5 DEF Placeable, refs, K

LEMMA ModelledSource ==
  ASSUME Reads, Built, pc # "list", ClearLabels(world),
         NEW c \in ToSet(world.containers), Contributing(world, c),
         NEW src, IsSource(src), ReadWhole(src, c)
  PROVE  LET name == NameOf(world, c)
             model == Model(src, name)
         IN /\ ModelName(src.container, src.name) = name
            /\ Buildable(src, name) <=> Modelled(world, c)
            /\ Modelled(world, c) =>
                 /\ model.tree = ModelOf(world, c)
                 /\ ToSet(model.creds)
                      = {CredOf(r, name, src.id) : r \in ToSet(src.refs)}
<1> DEFINE name == NameOf(world, c)
           model == Model(src, name)
           base == BaseOf(world, c)
           refs == src.refs
           n == Len(refs)
           R == [path : Path, kind : {"env", "file"}, ref : Seq(Token)]
<1>1. /\ src.container = c.name /\ src.tree = TreeOf(c)
      /\ src.profile = MetaAt(c.labels, DOMAIN c.labels, "profile")
      /\ src.name = MetaAt(c.labels, DOMAIN c.labels, "name")
      /\ RefsRead(refs, c.labels, CredKeys(c.labels))
  BY DEF ReadWhole
<1>2. /\ Merged(profiles, src) = MergedOf(world, c)
      /\ Data(src, name) = DataOf(world, c)
      /\ HasProfile(src)
           <=> LET profile == MetaAt(c.labels, DOMAIN c.labels, "profile")
               IN profile = <<>> \/ profile \in DOMAIN world.profiles
  BY <1>1, SourceOfContainer
<1>3. ModelName(src.container, src.name) = name
  BY <1>1 DEF ModelName, NameOf
<1>4. name \in Seq(Token) /\ c.name \in Seq(Token)
  <2>1. src.name \in Seq(Token) /\ c.name \in Seq(Token)
    BY DEF IsSource, Reads, IsWorld, IsContainer
  <2> QED
    BY <1>1, <1>3, <2>1, ModelNameType
<1>5. WellFormed(base) /\ base = [q \in DOMAIN base |-> base[q]]
  <2>1. WellFormed(Merged(profiles, src))
    <3>1. Inherited(profiles, src) = Inherited(world.profiles, src)
          /\ WellFormed(Inherited(world.profiles, src))
      BY InheritedTree
    <3> QED
      BY <3>1, MergedOrigin DEF IsSource, Merged
  <2>2. \A d \in DOMAIN Data(src, name) : Data(src, name)[d] \in Seq(Token)
    BY <1>1, <1>4, DataType
  <2>3. base = CoerceTree(ExpandTemplates(Merged(profiles, src),
                                          Data(src, name)))
    BY <1>2 DEF BaseOf
  <2>4. WellFormed(base)
    BY <2>1, <2>2, <2>3, CoercedTree
  <2>5. base = [q \in DOMAIN base |-> base[q]]
    BY DEF BaseOf, CoerceTree
  <2> QED
    BY <2>4, <2>5
<1>6. model = SubstituteCreds(base, refs, name, src.id)
  BY <1>2 DEF Model, BaseOf
<1>7. refs \in Seq(R) /\ refs \in Seq(ToSet(refs)) /\ \A r \in R : r.path \in Path
  BY <1>1 DEF IsSource, RefsRead
<1>8. {r.path : r \in ToSet(refs)} = CredPathsOf(c)
      /\ Clear({r.path : r \in ToSet(refs)})
  <2>1. ToSet(refs) = {RefAt(c.labels, p) : p \in CredKeys(c.labels)}
    BY <1>1 DEF RefsRead
  <2>2. {r.path : r \in ToSet(refs)} = CredPathsOf(c)
    BY <2>1 DEF CredPathsOf
  <2>3. CredPathsOf(c) = CredLabels(c.labels)
    BY DEF CredPathsOf, CredLabels, CredKeys, RefAt
  <2> QED
    BY <2>2, <2>3 DEF ClearLabels
<1>9. DOMAIN refs = 1..n /\ PathsTo(refs, n) = CredPathsOf(c)
      /\ {CredOf(refs[i], name, src.id) : i \in 1..n}
           = {CredOf(r, name, src.id) : r \in ToSet(refs)}
  <2>1. DOMAIN refs = 1..n
    BY <1>7
  <2>2. ToSet(refs) = {refs[i] : i \in 1..n}
    BY <2>1 DEF ToSet
  <2> HIDE DEF refs, n
  <2> QED
    BY <1>8, <2>1, <2>2 DEF PathsTo
<1> HIDE DEF base, R
<1>10. AllPlaced(model, base, refs, name, src.id, n)
  BY <1>5, <1>6, <1>7, <1>8, AllSubstituted
<1>11. Placeable(base, refs, n)
         <=> /\ \A p \in CredKeys(c.labels) :
                  c.labels[p] # <<>> /\ RefAt(c.labels, p).path \notin DOMAIN base
             /\ PathsDiffer(c.labels, CredKeys(c.labels))
  BY <1>1, <1>7, RefsPlaceable
<1>12. model.ok <=> Placeable(base, refs, n)
  BY <1>10 DEF AllPlaced
<1>13. model.ok => /\ model.tree = WithRefs(base, CredPathsOf(c), name)
                   /\ ToSet(model.creds) = {CredOf(r, name, src.id) : r \in ToSet(refs)}
  BY <1>9, <1>10 DEF AllPlaced
<1>14. model.ok => model.tree = ModelOf(world, c)
  BY <1>13 DEF ModelOf, base
<1> HIDE DEF model, name, refs, n
<1>15. Buildable(src, name) <=> Modelled(world, c)
  BY <1>2, <1>11, <1>12, <1>14 DEF Buildable, Modelled, base, model
<1>16. Modelled(world, c) => model.ok
  BY <1>15 DEF Buildable, model
<1> QED
  BY <1>3, <1>13, <1>14, <1>15, <1>16 DEF model, name, refs
-----------------------------------------------------------------------------
(* Models made so far.                                                     *)
LEMMA MadeNone ==
  ASSUME NEW w
  PROVE  MadeUpTo(w, <<>>, 0)
BY DEF MadeUpTo

LEMMA MadeSkipped ==
  ASSUME NEW w, w.containers \in Seq(ToSet(w.containers)),
         NEW built, NEW low \in Nat, NEW i \in Nat, low <= i,
         MadeUpTo(w, built, low),
         \A j \in (low + 1)..i : Modelled(w, w.containers[j])
                                   => NameOf(w, w.containers[j]) \in DOMAIN built
  PROVE  MadeUpTo(w, built, i)
<1> DEFINE name(j) == NameOf(w, w.containers[j])
           is(j) == Modelled(w, w.containers[j])
<1>1. DOMAIN built = {name(j) : j \in {k \in 1..low : is(k)}}
  BY DEF MadeUpTo
<1>2. 1..i = 1..low \cup (low + 1)..i
  OBVIOUS
<1>3. \A j \in (low + 1)..i : is(j) => name(j) \in DOMAIN built
  OBVIOUS
<1>4. DOMAIN built = {name(j) : j \in {k \in 1..i : is(k)}}
  <2> HIDE DEF name, is
  <2> QED
    BY <1>1, <1>2, <1>3
<1>5. \A m \in DOMAIN built : \E j \in Making(w, m) :
        /\ j <= i /\ \A k \in Making(w, m) : j <= k
        /\ ReadWhole(built[m].src, w.containers[j])
        /\ built[m].tree = ModelOf(w, w.containers[j])
  <2> TAKE m \in DOMAIN built
  <2>1. PICK j \in Making(w, m) :
          /\ j <= low /\ \A k \in Making(w, m) : j <= k
          /\ ReadWhole(built[m].src, w.containers[j])
          /\ built[m].tree = ModelOf(w, w.containers[j])
    BY DEF MadeUpTo
  <2>2. name(j) = m /\ is(j) /\ j \in DOMAIN w.containers
    BY <2>1 DEF Making
  <2>3. j <= i
    <3>1. j \in Nat
      BY <2>2
    <3> QED
      BY <2>1, <3>1
  <2> QED
    BY <2>1, <2>3
<1> QED
  BY <1>4, <1>5 DEF MadeUpTo

LEMMA MadeMore ==
  ASSUME NEW w, w.containers \in Seq(ToSet(w.containers)),
         NEW built, NEW low \in Nat, NEW i \in DOMAIN w.containers, low < i,
         MadeUpTo(w, built, low), Modelled(w, w.containers[i]),
         \A j \in (low + 1)..(i - 1) : ~Modelled(w, w.containers[j]),
         NameOf(w, w.containers[i]) \notin DOMAIN built,
         NEW src, ReadWhole(src, w.containers[i])
  PROVE  MadeUpTo(w, Put(built, NameOf(w, w.containers[i]),
                         [src |-> src, tree |-> ModelOf(w, w.containers[i])]),
                  i)
<1> DEFINE name(j) == NameOf(w, w.containers[j])
           is(j) == Modelled(w, w.containers[j])
           one == [src |-> src, tree |-> ModelOf(w, w.containers[i])]
           new == Put(built, name(i), one)
<1>1. DOMAIN built = {name(j) : j \in {k \in 1..low : is(k)}}
  BY DEF MadeUpTo
<1>2. /\ i \in Nat /\ DOMAIN w.containers \subseteq Nat \ {0}
      /\ 1..i = 1..low \cup (low + 1)..(i - 1) \cup {i}
      /\ is(i) /\ \A j \in (low + 1)..(i - 1) : ~is(j)
  OBVIOUS
<1>3. /\ DOMAIN new = DOMAIN built \cup {name(i)}
      /\ new[name(i)].src = src
      /\ new[name(i)].tree = ModelOf(w, w.containers[i])
      /\ \A m \in DOMAIN built : m # name(i) /\ new[m] = built[m]
  BY DEF Put
<1> HIDE DEF new, one
<1>4. DOMAIN new = {name(j) : j \in {k \in 1..i : is(k)}}
  <2> HIDE DEF name, is
  <2> QED
    BY <1>1, <1>2, <1>3
<1>5. ASSUME NEW m \in DOMAIN new
      PROVE  \E j \in Making(w, m) :
               /\ j <= i /\ \A k \in Making(w, m) : j <= k
               /\ ReadWhole(new[m].src, w.containers[j])
               /\ new[m].tree = ModelOf(w, w.containers[j])
  <2>1. CASE m \in DOMAIN built
    <3>1. PICK j \in Making(w, m) :
            /\ j <= low /\ \A k \in Making(w, m) : j <= k
            /\ ReadWhole(built[m].src, w.containers[j])
            /\ built[m].tree = ModelOf(w, w.containers[j])
      BY <2>1 DEF MadeUpTo
    <3>2. j \in Nat
      BY <1>2, <3>1 DEF Making
    <3>3. j <= i /\ new[m] = built[m]
      BY <1>2, <1>3, <2>1, <3>1, <3>2
    <3> QED
      BY <3>1, <3>3
  <2>2. CASE m = name(i)
    <3>1. i \in Making(w, m)
      BY <2>2 DEF Making
    <3>2. ASSUME NEW k \in Making(w, m), k < i PROVE FALSE
      <4>1. k \in 1..i /\ k # i /\ is(k) /\ name(k) = m
        BY <1>2, <3>2 DEF Making
      <4>2. k \in 1..low
        BY <1>2, <4>1
      <4> QED
        BY <1>1, <2>2, <4>1, <4>2
    <3>3. \A k \in Making(w, m) : k \in Nat
      BY <1>2 DEF Making
    <3>4. \A k \in Making(w, m) : i <= k
      BY <1>2, <3>2, <3>3
    <3> QED
      BY <1>2, <1>3, <2>2, <3>1, <3>4
  <2> QED
    BY <1>3, <2>1, <2>2
<1>6. MadeUpTo(w, new, i)
  BY <1>4, <1>5 DEF MadeUpTo
<1> QED
  BY <1>6 DEF new, one

(* Building a model: one container further.                                *)
AskedBy(src, m) == {CredOf(r, m, src.id) : r \in ToSet(src.refs)}

LEMMA BuiltOne ==
  ASSUME Reads, Built, ClearLabels(world), Building, BuildModel
  PROVE  /\ Building'
         /\ \/ UNCHANGED <<made, creds>>
            \/ \E m, src, cs :
                 /\ m \notin DOMAIN made
                 /\ \E t : made' = Put(made, m, [src |-> src, tree |-> t])
                 /\ creds' = creds \o cs /\ IsSource(src)
                 /\ cs \in Seq(AskedBy(src, m)) /\ ToSet(cs) = AskedBy(src, m)
<1> DEFINE src == Head(sources)
           n == Len(world.containers)
           i == Place(world, src.id)
           c == world.containers[i]
           name == NameOf(world, c)
           model == Model(src, name)
<1>1. /\ pc = "build" /\ sources # <<>> /\ sources' = Tail(sources)
      /\ UNCHANGED <<world, pc>>
  BY DEF BuildModel
<1>2. /\ sources \in Seq(ToSet(sources)) /\ IsWorld(world)
      /\ world.containers \in Seq(ToSet(world.containers))
  BY DEF Reads, IsWorld
<1>3. n \in Nat /\ DOMAIN world.containers = 1..n
  BY <1>2
<1>4. PICK low \in 0..n : Queued(world, sources, low, n)
                          /\ MadeUpTo(world, made, low)
  BY <1>1 DEF Building
<1>5. /\ i \in (low + 1)..n /\ Contributing(world, c) /\ ReadWhole(src, c)
      /\ \A j \in (low + 1)..(i - 1) : ~Contributing(world, world.containers[j])
      /\ Queued(world, sources', i, n)
  BY <1>1, <1>2, <1>3, <1>4, QueueNext
<1>6. i \in DOMAIN world.containers /\ i \in 0..n /\ low < i /\ low \in Nat
      /\ i \in Nat /\ low <= i
      /\ (low + 1)..i = (low + 1)..(i - 1) \cup {i}
  BY <1>3, <1>5
<1>7. c \in ToSet(world.containers)
  BY <1>6 DEF ToSet
<1>8. IsSource(src)
  BY OneModelMore
<1> HIDE DEF c, src, i, n
<1>9. /\ ModelName(src.container, src.name) = name
      /\ Buildable(src, name) <=> Modelled(world, c)
      /\ Modelled(world, c) =>
           /\ model.tree = ModelOf(world, c)
           /\ ToSet(model.creds) = {CredOf(r, name, src.id) : r \in ToSet(src.refs)}
  BY <1>1, <1>5, <1>7, <1>8, ModelledSource
<1>10. IF Buildable(src, name) /\ name \notin DOMAIN models
       THEN /\ creds' = creds \o model.creds
            /\ made' = Put(made, name, [src |-> src, tree |-> model.tree])
       ELSE UNCHANGED <<creds, made>>
  <2> HIDE DEF name
  <2> QED
    BY <1>9 DEF BuildModel, Buildable, Model, Merged, src
<1>11. DOMAIN models = DOMAIN made
  BY DEF Built
<1>12. \A j \in (low + 1)..(i - 1) : ~Modelled(world, world.containers[j])
  BY <1>5 DEF Modelled
<1>13. CASE Modelled(world, c) /\ name \notin DOMAIN made
  <2>1. /\ creds' = creds \o model.creds
        /\ made' = Put(made, name, [src |-> src, tree |-> model.tree])
        /\ model.tree = ModelOf(world, c)
        /\ ToSet(model.creds) = {CredOf(r, name, src.id) : r \in ToSet(src.refs)}
    BY <1>9, <1>10, <1>11, <1>13
  <2>2. MadeUpTo(world, made', i)
    BY <1>2, <1>4, <1>5, <1>6, <1>12, <1>13, <2>1, MadeMore DEF c
  <2>3. \E k \in 0..n : Queued(world, sources', k, n) /\ MadeUpTo(world, made', k)
    BY <1>5, <1>6, <2>2
  <2>4. Building'
    BY <1>1, <2>3 DEF Building, n
  <2>5. model.creds \in Seq({CredOf(r, name, src.id) : r \in ToSet(src.refs)})
    <3>1. src.container \in Seq(Token) /\ name \in Seq(Token)
      BY <1>9, OneModelMore DEF src
    <3>2. model.ok
      BY <1>9, <1>13 DEF Buildable
    <3>3. pc # "list"
      BY <1>1
    <3> HIDE DEF name
    <3> QED
      BY <1>8, <3>1, <3>2, <3>3, BuiltTree
  <2>6. /\ model.creds \in Seq(AskedBy(src, name))
        /\ ToSet(model.creds) = AskedBy(src, name)
    BY <2>1, <2>5 DEF AskedBy
  <2>7. \E t : made' = Put(made, name, [src |-> src, tree |-> t])
    BY <2>1
  <2> HIDE DEF name, model
  <2> QED
    BY <1>8, <1>13, <2>1, <2>4, <2>6, <2>7
<1>14. CASE ~(Modelled(world, c) /\ name \notin DOMAIN made)
  <2>1. UNCHANGED <<creds, made>>
    BY <1>9, <1>10, <1>11, <1>14
  <2>2. \A j \in (low + 1)..i : Modelled(world, world.containers[j])
          => NameOf(world, world.containers[j]) \in DOMAIN made
    BY <1>6, <1>12, <1>14 DEF c
  <2>3. MadeUpTo(world, made, i)
    BY <1>2, <1>4, <1>6, <2>2, MadeSkipped
  <2>4. \E k \in 0..n : Queued(world, sources', k, n) /\ MadeUpTo(world, made', k)
    BY <1>5, <1>6, <2>1, <2>3
  <2>5. Building'
    BY <1>1, <2>4 DEF Building, n
  <2> QED
    BY <2>1, <2>5
<1> QED
  BY <1>13, <1>14
-----------------------------------------------------------------------------
(* Credentials still to give are those of the models made so far.          *)
LEMMA KindsAsked ==
  ASSUME NEW src, IsSource(src)
  PROVE  \A r \in ToSet(src.refs) : r.kind \in {"env", "file"}
<1> DEFINE R == [path : Path, kind : {"env", "file"}, ref : Seq(Token)]
<1>1. src.refs \in Seq(R) /\ \A r \in R : r.kind \in {"env", "file"}
  BY DEF IsSource
<1> HIDE DEF R
<1>2. \A i \in DOMAIN src.refs : src.refs[i] \in R
  BY <1>1
<1> QED
  BY <1>1, <1>2 DEF ToSet

LEMMA AllAsked ==
  ASSUME \A m \in DOMAIN made : IsSource(made[m].src)
  PROVE  AllCreds = UNION {AskedBy(made[m].src, m) : m \in DOMAIN made}
<1>1. \A m \in DOMAIN made : \A r \in ToSet(made[m].src.refs) :
        r.kind \in {"env", "file"}
  BY KindsAsked
<1> QED
  BY <1>1 DEF AllCreds, CredsOf, AskedBy

LEMMA AskingMore ==
  ASSUME \A m \in DOMAIN made : IsSource(made[m].src),
         NEW m, NEW src, NEW t, m \notin DOMAIN made, IsSource(src),
         made' = Put(made, m, [src |-> src, tree |-> t])
  PROVE  AllCreds' = AllCreds \cup AskedBy(src, m)
<1>1. /\ DOMAIN made' = DOMAIN made \cup {m} /\ made'[m].src = src
      /\ \A n \in DOMAIN made : made'[n].src = made[n].src
  BY DEF Put
<1>2. \A n \in DOMAIN made' : IsSource(made'[n].src)
  BY <1>1
<1>3. AllCreds' = UNION {AskedBy(made'[n].src, n) : n \in DOMAIN made'}
  <2>1. \A n \in DOMAIN made' : \A r \in ToSet(made'[n].src.refs) :
          r.kind \in {"env", "file"}
    BY <1>2, KindsAsked
  <2> QED
    BY <2>1 DEF AllCreds, CredsOf, AskedBy
<1>4. AllCreds = UNION {AskedBy(made[n].src, n) : n \in DOMAIN made}
  BY AllAsked
<1> QED
  BY <1>1, <1>3, <1>4

LEMMA BuildModelFollowing ==
  ASSUME Reads, Built, Resolved, ClearLabels(world), Following, BuildModel
  PROVE  Following'
<1>1. /\ pc = "build" /\ UNCHANGED <<world, pc, owner>>
  BY DEF BuildModel
<1>2. Building'
  BY BuiltOne DEF Following
<1>3. Listing' /\ Owning'
  BY <1>1 DEF Following, Listing, Owning
<1>4. \A m \in DOMAIN made : IsSource(made[m].src)
  BY DEF Built
<1>5. ToSet(creds) = AllCreds /\ creds \in Seq(AllCreds)
  BY <1>1 DEF Following, Asking, Resolved, AllCreds
<1>6. ToSet(creds') = AllCreds'
  <2>1. CASE UNCHANGED <<made, creds>>
    BY <1>5, <2>1 DEF AllCreds, CredsOf
  <2>2. ASSUME NEW m, NEW src, NEW cs, m \notin DOMAIN made, NEW t,
               made' = Put(made, m, [src |-> src, tree |-> t]),
               creds' = creds \o cs, IsSource(src),
               cs \in Seq(AskedBy(src, m)), ToSet(cs) = AskedBy(src, m)
        PROVE  ToSet(creds') = AllCreds'
    <3>1. AllCreds' = AllCreds \cup AskedBy(src, m)
      BY <1>4, <2>2, AskingMore
    <3> DEFINE S == AllCreds \cup AskedBy(src, m)
    <3>2. creds \in Seq(S) /\ cs \in Seq(S)
      BY <1>5, <2>2, SeqOfSubset
    <3>3. ToSet(creds \o cs) = ToSet(creds) \cup ToSet(cs)
      BY <3>2, ConcatElements
    <3> QED
      BY <1>5, <2>2, <3>1, <3>3
  <2> QED
    BY <2>1, <2>2, BuiltOne DEF Following
<1> QED
  BY <1>1, <1>2, <1>3, <1>6 DEF Following, Asking

(* What follows once models have been built.                               *)
LEMMA FollowingKept ==
  ASSUME Following, UNCHANGED <<world, owner, made>>,
         pc \notin {"list", "build"}, pc' \notin {"list", "build"},
         \/ pc' \in {"creds", "done"}
         \/ pc \notin {"creds", "done"} /\ UNCHANGED creds
  PROVE  Following'
<1>1. Listing' /\ Building' /\ Owning'
  BY DEF Following, Listing, Building, Owning
<1>2. AllCreds' = AllCreds
  BY DEF AllCreds, CredsOf
<1> QED
  BY <1>1, <1>2 DEF Following, Asking

LEMMA ReadingFollowing ==
  ASSUME Reads, Following, NEW p,
         ReadMeta(p) \/ ReadCredRef(p) \/ ReadSetting(p)
  PROVE  Following'
<1>1. /\ pc = "list"
      /\ UNCHANGED <<world, pc, listed, owner, made, creds, sources>>
  BY DEF ReadMeta, ReadCredRef, ReadSetting, Reading, buildVars
<1>2. Listing'
  BY ReadingListing DEF Following
<1>3. AllCreds' = AllCreds
  BY <1>1 DEF AllCreds, CredsOf
<1> QED
  BY <1>1, <1>2, <1>3 DEF Following, Building, Owning, High, Asking

LEMMA EndContainerFollowing ==
  ASSUME Reads, ClearLabels(world), Following, EndContainer
  PROVE  Following'
<1>1. pc = "list" /\ UNCHANGED <<world, pc, made, creds>>
  BY DEF EndContainer, buildVars
<1>2. Listing' /\ Owning'
  BY EndContainerListing, EndContainerOwning DEF Following
<1>3. AllCreds' = AllCreds
  BY <1>1 DEF AllCreds, CredsOf
<1> QED
  BY <1>1, <1>2, <1>3 DEF Following, Building, Asking

LEMMA NothingAsked ==
  ASSUME made = <<>>
  PROVE  AllCreds = {}
BY DEF AllCreds, CredsOf

(* A pass that starts.                                                     *)
Starting ==
  /\ IsWorld(world) /\ pc = "list" /\ listed = world.containers
  /\ left = LabelsOf(listed) /\ parsed = Fresh(world) /\ sources = <<>>
  /\ owner = <<>> /\ made = <<>> /\ creds = <<>>

LEMMA FollowingStarts == Starting => Following
<1> SUFFICES ASSUME Starting PROVE Following
  OBVIOUS
<1> USE DEF Starting
<1>1. world.containers \in Seq(ToSet(world.containers))
  BY DEF IsWorld
<1>2. High = 0
  BY <1>1 DEF High
<1>3. listed # <<>> => LET labels == Head(listed).labels
                       IN ReadSoFar(world, parsed, labels, DOMAIN labels \ left)
  <2> SUFFICES ASSUME listed # <<>>
               PROVE  LET labels == Head(listed).labels
                      IN ReadSoFar(world, Fresh(world), labels,
                                   DOMAIN labels \ left)
    OBVIOUS
  <2>1. DOMAIN Head(listed).labels \ left = {}
    BY DEF LabelsOf
  <2> QED
    BY <2>1, ReadNothing
<1>4. Queued(world, sources, 0, 0)
  BY DEF Queued
<1>5. OwnedUpTo(world, owner, 0)
  BY DEF OwnedUpTo
<1>6. ToSet(creds) = AllCreds
  BY NothingAsked DEF ToSet
<1>7. \A i \in DOMAIN listed : listed[i] = world.containers[0 + i]
  BY <1>1
<1> QED
  BY <1>2, <1>3, <1>4, <1>5, <1>6, <1>7 DEF Following, Listing, Building,
                                            Owning, Asking

LEMMA LoadProfilesFollowing ==
  ASSUME Reads, Following, LoadProfiles
  PROVE  Following'
<1>1. /\ pc = "list" /\ pc' = "build" /\ listed = <<>>
      /\ UNCHANGED <<world, listed, sources, owner, made, creds>>
  BY DEF LoadProfiles, labelVars
<1>2. world.containers \in Seq(ToSet(world.containers))
  BY DEF Reads, IsWorld
<1>3. High = Len(world.containers) /\ 0 \in 0..Len(world.containers)
  BY <1>1, <1>2 DEF High
<1>4. Queued(world, sources, 0, Len(world.containers)) /\ MadeUpTo(world, made, 0)
  BY <1>1, <1>3, MadeNone DEF Following, Listing
<1>5. AllCreds' = AllCreds
  BY <1>1 DEF AllCreds, CredsOf
<1>6. Building'
  BY <1>1, <1>3, <1>4 DEF Building
<1>7. Owning'
  BY <1>1, <1>3 DEF Owning, Following
<1> QED
  BY <1>1, <1>5, <1>6, <1>7 DEF Following, Listing, Asking

LEMMA StartDiscoveryFollowing ==
  ASSUME Reads, Following, StartDiscovery
  PROVE  Following'
<1> DEFINE n == Len(world.containers)
<1>1. /\ pc = "build" /\ sources = <<>> /\ pc' \in {"archive", "write"}
      /\ UNCHANGED <<world, owner, made, creds>>
  BY DEF StartDiscovery, labelVars, buildVars
<1>2. world.containers \in Seq(ToSet(world.containers)) /\ n \in Nat
  BY DEF Reads, IsWorld
<1>3. PICK low \in 0..n : Queued(world, sources, low, n)
                          /\ MadeUpTo(world, made, low)
  BY <1>1 DEF Following, Building
<1>4. \A j \in (low + 1)..n : ~Modelled(world, world.containers[j])
  BY <1>1, <1>3 DEF Queued, Modelled
<1>5. MadeUpTo(world, made, n)
  BY <1>2, <1>3, <1>4, MadeSkipped
<1>6. AllCreds' = AllCreds
  BY <1>1 DEF AllCreds, CredsOf
<1>7. Building'
  BY <1>1, <1>5 DEF Building
<1> QED
  BY <1>1, <1>6, <1>7 DEF Following, Listing, Owning, Asking

LEMMA FollowingNext ==
  ASSUME Reads, Built, Resolved, ClearLabels(world), Following, [Next]_vars
  PROVE  Following'
<1>1. CASE \E p \in left : ReadMeta(p) \/ ReadCredRef(p) \/ ReadSetting(p)
  BY <1>1, ReadingFollowing
<1>2. CASE EndContainer
  BY <1>2, EndContainerFollowing
<1>3. CASE LoadProfiles
  BY <1>3, LoadProfilesFollowing
<1>4. CASE BuildModel
  BY <1>4, BuildModelFollowing
<1>5. CASE StartDiscovery
  BY <1>5, StartDiscoveryFollowing
<1>6. CASE \E m \in left, ok \in BOOLEAN :
             DiscoverArchive(m, ok) \/ DiscoverSqlite(m, ok)
  BY <1>6, FollowingKept DEF DiscoverArchive, DiscoverSqlite, Walk,
                             labelVars, buildVars
<1>7. CASE ApplyArchiveVolumes \/ DedupMounts
  BY <1>7, FollowingKept DEF ApplyArchiveVolumes, DedupMounts,
                             labelVars, buildVars
<1>8. CASE WriteConfig
  BY <1>8, FollowingKept DEF WriteConfig, labelVars, buildVars
<1>9. CASE (\E ok \in BOOLEAN : ResolveCred(ok)) \/ EndPass
  BY <1>9, FollowingKept DEF ResolveCred, EndPass, labelVars, buildVars
<1>10. CASE NextPass
  <2>1. Starting'
    BY <1>10 DEF NextPass, Reads, Starting
  <2> QED
    BY <2>1, FollowingStarts, PTL
<1>11. CASE UNCHANGED vars
  <2>1. AllCreds' = AllCreds
    BY <1>11 DEF AllCreds, CredsOf, vars, buildVars
  <2> QED
    BY <1>11, <2>1 DEF vars, labelVars, buildVars, Following, Listing,
                       Building, Owning, Asking, High
<1> QED
  BY <1>1, <1>2, <1>3, <1>4, <1>5, <1>6, <1>7, <1>8, <1>9, <1>10, <1>11
  DEF Next
-----------------------------------------------------------------------------
(* Mounts at the places of models, which lie apart when no name has a "/". *)
MountOf(m, dst, readOnly) ==
  [type |-> ConvertMountType(Dests(m)[dst].type),
   source |-> MountSource(Dests(m)[dst]),
   target |-> Transformed(m, dst), readOnly |-> readOnly]
IsOwn(d) ==
  \E m \in DOMAIN made : \E dst \in DOMAIN Dests(m) :
    d = MountOf(m, dst, d.readOnly)
PlainNames == \A m \in DOMAIN made : m \in Seq(Token) /\ "/" \notin ToSet(m)

LEMMA PlacesApart ==
  ASSUME NEW m \in Seq(Token), NEW n \in Seq(Token), "/" \notin ToSet(n),
         NEW x \in Seq(Token), NEW y \in Seq(Token), x # <<>>, x[1] = "/",
         Transformed(m, x) = Transformed(n, y)
  PROVE  Len(n) <= Len(m)
<1> DEFINE z == Transformed(m, x)
<1>1. /\ InPlace(z, 3 + Len(m), m, x)
      /\ InPlace(z, 3 + Len(n), n, y)
  BY TransformedKeys
<1> HIDE DEF z
<1>2. Len(m) \in Nat /\ Len(n) \in Nat /\ 1 \in 1..Len(x)
  OBVIOUS
<1>3. SUFFICES ASSUME Len(m) < Len(n) PROVE FALSE
  BY <1>2
<1>4. z[3 + Len(m) + 1] = "/"
  BY <1>1, <1>2 DEF InPlace
<1> DEFINE i == Len(m) + 1
<1>5. i \in 1..Len(n) /\ 3 + i = 3 + Len(m) + 1
  BY <1>2, <1>3
<1>6. z[3 + i] = n[i]
  BY <1>1, <1>5 DEF InPlace
<1>7. n[i] \in ToSet(n)
  BY <1>5 DEF ToSet
<1> QED
  BY <1>4, <1>5, <1>6, <1>7

LEMMA PlacesDiffer ==
  ASSUME NEW m \in Seq(Token), NEW n \in Seq(Token),
         "/" \notin ToSet(m), "/" \notin ToSet(n),
         NEW x \in Seq(Token), NEW y \in Seq(Token),
         x # <<>>, x[1] = "/", y # <<>>, y[1] = "/",
         Transformed(m, x) = Transformed(n, y)
  PROVE  m = n /\ x = y
<1> DEFINE z == Transformed(m, x)
<1>1. /\ InPlace(z, 3 + Len(m), m, x)
      /\ InPlace(z, 3 + Len(n), n, y)
  BY TransformedKeys
<1>2. Len(m) = Len(n)
  <2>1. Len(n) <= Len(m) /\ Len(m) <= Len(n)
    BY PlacesApart
  <2> QED
    BY <2>1
<1> HIDE DEF z
<1>3. \A i \in 1..Len(m) : m[i] = n[i]
  BY <1>1, <1>2 DEF InPlace
<1>4. Len(x) = Len(y) /\ \A i \in 1..Len(x) : x[i] = y[i]
  BY <1>1, <1>2 DEF InPlace
<1> QED
  BY <1>2, <1>3, <1>4, SeqEqual

LEMMA MountsApart ==
  ASSUME IsWorld(world), \A m \in DOMAIN made : IsClient(owner[m]), PlainNames,
         NEW d, NEW e, IsOwn(d), IsOwn(e), d.target = e.target,
         d.readOnly = e.readOnly
  PROVE  d = e
<1>1. PICK m \in DOMAIN made : \E dst \in DOMAIN Dests(m) :
        d = MountOf(m, dst, d.readOnly)
  BY DEF IsOwn
<1>2. PICK x \in DOMAIN Dests(m) : d = MountOf(m, x, d.readOnly)
  BY <1>1
<1>3. PICK n \in DOMAIN made : \E dst \in DOMAIN Dests(n) :
        e = MountOf(n, dst, e.readOnly)
  BY DEF IsOwn
<1>4. PICK y \in DOMAIN Dests(n) : e = MountOf(n, y, e.readOnly)
  BY <1>3
<1>5. d.target = Transformed(m, x) /\ e.target = Transformed(n, y)
  BY <1>2, <1>4 DEF MountOf
<1>6. AreDests(DOMAIN Dests(m)) /\ AreDests(DOMAIN Dests(n))
  BY OwnersMounts, DestsOfMounts DEF Dests
<1>7. /\ x \in Seq(Token) /\ x # <<>> /\ x[1] = "/"
      /\ y \in Seq(Token) /\ y # <<>> /\ y[1] = "/"
  BY <1>6 DEF AreDests
<1>8. m = n /\ x = y
  BY <1>5, <1>7, PlacesDiffer DEF PlainNames
<1> QED
  BY <1>2, <1>4, <1>8

LEMMA ResolvedMount ==
  ASSUME IsWorld(world), NEW m \in DOMAIN made, IsClient(owner[m]),
         NEW path \in Seq(Token), IsMounted(Dests(m), path), NEW readOnly
  PROVE  LET d == ResolvePathMount(Dests(m), m, path, readOnly)
         IN IsOwn(d) /\ d.readOnly = readOnly
<1> DEFINE f == FindMountForPath(path, Dests(m))
           d == ResolvePathMount(Dests(m), m, path, readOnly)
<1>1. AreMounts(Client(owner[m]).mounts)
  BY OwnersMounts
<1>2. AreDests(DOMAIN Dests(m))
  BY <1>1, DestsOfMounts DEF Dests
<1>3. f \in DOMAIN Dests(m)
  BY <1>2, MountIsLongest DEF IsLongest
<1>4. d = MountOf(m, f, readOnly) /\ d.readOnly = readOnly
  BY DEF ResolvePathMount, MountOf
<1> HIDE DEF d, f
<1> QED
  BY <1>3, <1>4 DEF IsOwn, d

(* With targets apart, the first mounts at each are all of them.           *)
LEMMA FirstAreAll ==
  ASSUME NEW first, NEW s, AreFirst(first, s),
         \A d, e \in ToSet(s) : d.target = e.target => d = e
  PROVE  ToSet(first) = ToSet(s)
BY DEF AreFirst

LEMMA PreferredMounts ==
  ASSUME NEW S, NEW s \in Seq(S),
         \A d, e \in ToSet(s) :
           d.target = e.target /\ d.readOnly = e.readOnly => d = e,
         \A d \in ToSet(s) : d.readOnly \in BOOLEAN
  PROVE  ToSet(DedupMountsByTarget(s)) = Preferred(ToSet(s))
<1> DEFINE first == ByTarget(s)
           W(m) == {i \in DOMAIN s : s[i].target = m.target /\ ~s[i].readOnly}
           pick(m) == IF m.readOnly /\ W(m) # {} THEN s[Min(W(m))] ELSE m
           new == DedupMountsByTarget(s)
<1>1. new = [i \in DOMAIN first |-> pick(first[i])]
  BY DEF DedupMountsByTarget, ByTarget
<1>2. AreFirst(first, s)
  BY FirstTargets
<1>3. DOMAIN s = 1..Len(s) /\ Len(s) \in Nat
  OBVIOUS
<1>4. ASSUME NEW m \in ToSet(s)
      PROVE  /\ pick(m) \in Preferred(ToSet(s)) /\ pick(m).target = m.target
  <2>1. CASE m.readOnly /\ W(m) # {}
    <3>1. W(m) \subseteq Nat
      BY <1>3
    <3>2. Min(W(m)) \in W(m)
      <4> HIDE DEF W
      <4> QED
        BY <2>1, <3>1, MinOfNaturals
    <3>3. pick(m) = s[Min(W(m))]
      BY <2>1
    <3> DEFINE j == Min(W(m))
    <3>4. j \in DOMAIN s /\ s[j].target = m.target /\ ~s[j].readOnly
      BY <3>2
    <3> HIDE DEF j, pick
    <3> QED
      BY <3>3, <3>4 DEF j, ToSet, Preferred
  <2>2. CASE ~(m.readOnly /\ W(m) # {})
    <3>1. pick(m) = m
      BY <2>2
    <3>2. m.readOnly => ~\E e \in ToSet(s) : e.target = m.target /\ ~e.readOnly
      BY <2>2 DEF ToSet
    <3> HIDE DEF pick
    <3> QED
      BY <3>1, <3>2 DEF Preferred
  <2> QED
    BY <2>1, <2>2
<1> HIDE DEF pick, first, new
<1>5. /\ ToSet(first) \subseteq ToSet(s)
      /\ \A d \in ToSet(s) : \E e \in ToSet(first) : e.target = d.target
  BY <1>2 DEF AreFirst
<1>6. ToSet(new) = {pick(e) : e \in ToSet(first)}
  BY <1>1 DEF ToSet
<1>7. ToSet(new) \subseteq Preferred(ToSet(s))
  BY <1>4, <1>5, <1>6
<1>8. ASSUME NEW d \in Preferred(ToSet(s)) PROVE d \in ToSet(new)
  <2>1. d \in ToSet(s)
    BY DEF Preferred
  <2>2. PICK e \in ToSet(first) : e.target = d.target
    BY <1>5, <2>1
  <2>3. pick(e) \in Preferred(ToSet(s)) /\ pick(e).target = d.target
        /\ pick(e) \in ToSet(new)
    BY <1>4, <1>5, <1>6, <2>2
  <2>4. pick(e) \in ToSet(s)
    BY <2>3 DEF Preferred
  <2>5. d.readOnly = pick(e).readOnly
    BY <2>1, <2>3, <2>4 DEF Preferred
  <2>6. d = pick(e)
    BY <2>1, <2>3, <2>4, <2>5
  <2> QED
    BY <2>3, <2>6
<1> QED
  BY <1>7, <1>8 DEF new
-----------------------------------------------------------------------------
(* What discovery can rely on in an ordinary world.                        *)
Ready == /\ IsWorld(world) /\ PlainNames
         /\ \A m \in DOMAIN made : /\ IsClient(owner[m])
                                   /\ WellFormed(made[m].tree)
                                   /\ IsFiniteSet(DOMAIN made[m].tree)

(* The mounts for some paths of a model, the first at each target.         *)
MountsAt(m, found, readOnly) ==
  [i \in DOMAIN found |-> ResolvePathMount(Dests(m), m, found[i], readOnly)]
MountsFrom(m, P, readOnly) ==
  {ResolvePathMount(Dests(m), m, p, readOnly) : p \in P}

LEMMA MountsForPaths ==
  ASSUME Ready, NEW m \in DOMAIN made,
         NEW found \in Seq(Seq(Token)), NEW readOnly,
         \A p \in ToSet(found) : IsMounted(Dests(m), p)
  PROVE  LET all == MountsAt(m, found, readOnly)
             S == MountsFrom(m, ToSet(found), readOnly)
         IN /\ ByTarget(all) \in Seq(S) /\ ToSet(ByTarget(all)) = S
            /\ \A d \in S : IsOwn(d) /\ d.readOnly = readOnly
<1> DEFINE all == MountsAt(m, found, readOnly)
           S == MountsFrom(m, ToSet(found), readOnly)
<1>1. DOMAIN found = 1..Len(found) /\ Len(found) \in Nat
      /\ \A i \in 1..Len(found) : found[i] \in Seq(Token)
                                  /\ found[i] \in ToSet(found)
  BY DEF ToSet
<1>2. \A p \in ToSet(found) : p \in Seq(Token)
  BY <1>1 DEF ToSet
<1>3. \A d \in S : IsOwn(d) /\ d.readOnly = readOnly
  BY <1>2, ResolvedMount DEF Ready, MountsFrom
<1>4. /\ \A i \in 1..Len(found) : all[i] \in S
      /\ all = [i \in 1..Len(found) |-> all[i]] /\ DOMAIN all = 1..Len(found)
      /\ \A p \in ToSet(found) : \E i \in 1..Len(found) :
           all[i] = ResolvePathMount(Dests(m), m, p, readOnly)
  BY <1>1 DEF ToSet, MountsAt, MountsFrom
<1>5. ToSet(all) = S
  <2>1. ToSet(all) = {all[i] : i \in 1..Len(found)}
    BY <1>4 DEF ToSet
  <2>2. \A d \in S : \E i \in 1..Len(found) : d = all[i]
    BY <1>4 DEF MountsFrom
  <2> HIDE DEF all, S
  <2> QED
    BY <1>4, <2>1, <2>2
<1> HIDE DEF all, S
<1>6. all \in Seq(S)
  BY <1>1, <1>4
<1>7. AreFirst(ByTarget(all), all)
  BY <1>6, FirstTargets
<1>8. \A d, e \in S : d.target = e.target => d = e
  BY <1>3, MountsApart DEF Ready
<1>9. ToSet(ByTarget(all)) = S
  BY <1>5, <1>7, <1>8, FirstAreAll
<1>10. ByTarget(all) \in Seq(S)
  BY <1>7, <1>9 DEF AreFirst
<1> QED
  BY <1>3, <1>9, <1>10 DEF all, S

LEMMA ArchiveMountsFound ==
  ASSUME Ready, NEW m \in DOMAIN made
  PROVE  LET S == ArchiveMounts(made[m].tree, Dests(m), m)
         IN /\ VolumeFor(m).mounts \in Seq(S) /\ ToSet(VolumeFor(m).mounts) = S
            /\ \A d \in S : IsOwn(d) /\ d.readOnly = TRUE
<1> DEFINE t == made[m].tree
           old == StringsAt(t, Includes)
           found == Only(LAMBDA p : IsMounted(Dests(m), p), old)
<1>1. old \in Seq(Seq(Token))
  BY StringsType DEF Ready
<1>2. /\ VolumeFor(m).mounts = ByTarget(MountsAt(m, found, TRUE))
      /\ ArchiveMounts(t, Dests(m), m) = MountsFrom(m, ToSet(found), TRUE)
  BY DEF VolumeFor, VolumeOf, ByTarget, MountsAt, MountsFrom, ArchiveMounts, Found
<1> HIDE DEF t, old
<1>3. /\ found \in Seq(Seq(Token))
      /\ ToSet(found) = {p \in ToSet(old) : IsMounted(Dests(m), p)}
  BY <1>1, OnlyMounted
<1> HIDE DEF found
<1>4. \A p \in ToSet(found) : IsMounted(Dests(m), p)
  BY <1>3
<1>5. LET all == MountsAt(m, found, TRUE)
          S == MountsFrom(m, ToSet(found), TRUE)
      IN /\ ByTarget(all) \in Seq(S) /\ ToSet(ByTarget(all)) = S
         /\ \A d \in S : IsOwn(d) /\ d.readOnly = TRUE
  BY <1>3, <1>4, MountsForPaths
<1> QED
  BY <1>2, <1>5 DEF t

(* The databases of a model whose archive was looked into.                 *)
LEMMA ArchivedDbs ==
  ASSUME Ready, NEW m \in DOMAIN made
  PROVE  /\ DOMAIN ArchivedTree(m) = DOMAIN made[m].tree
         /\ \A db \in SqliteDbs(ArchivedTree(m)) :
              DbPathOf(ArchivedTree(m), db) \in Seq(Token)
<1> DEFINE t == made[m].tree
           u == ArchivedTree(m)
           found == Found(t, Dests(m))
           ins == [i \in DOMAIN found |-> Transformed(m, found[i])]
           outs == StringsAt(t, Excludes)
<1>1. u = IF StringsAt(t, Includes) = <<>> THEN t
          ELSE WithStrings(WithStrings(t, Includes, ins), Excludes, outs)
  BY DEF ArchivedTree, Archived
<1>2. WellFormed(t) /\ Rooted(t)
  BY WellFormedRooted DEF Ready
<1>3. DOMAIN u = DOMAIN t /\ \A p \in DOMAIN t : p[1] = "databases" => u[p] = t[p]
  <2>1. CASE StringsAt(t, Includes) = <<>>
    BY <1>1, <2>1
  <2>2. CASE StringsAt(t, Includes) # <<>>
    <3>1. u = WithStrings(WithStrings(t, Includes, ins), Excludes, outs)
      BY <1>1, <2>2
    <3>2. outs = <<>> \/ StringsAt(t, Excludes) # <<>>
      OBVIOUS
    <3> HIDE DEF u, t, ins, outs
    <3> QED
      BY <1>2, <2>2, <3>1, <3>2, ListsSet
  <2> QED
    BY <2>1, <2>2
<1> HIDE DEF u
<1>4. ASSUME NEW db \in SqliteDbs(u) PROVE DbPathOf(u, db) \in Seq(Token)
  <2> DEFINE p == DbPath(db)
  <2>1. p \in DOMAIN u /\ u[p].kind = "text" /\ p[1] = "databases"
    BY DEF SqliteDbs, IsText, DbPath
  <2>2. u[p] = t[p] /\ IsNode(t[p])
    BY <1>2, <1>3, <2>1 DEF WellFormed
  <2> QED
    BY <2>1, <2>2 DEF DbPathOf, IsNode
<1> QED
  BY <1>3, <1>4 DEF u

(* What DiscoverSqlite adds for a model.                                   *)
AddedFor(t, m, order) ==
  ByTarget([i \in DOMAIN order |->
              ResolvePathMount(Dests(m), m, DbPathOf(t, order[i]), FALSE)])

LEMMA DatabaseMountsOwn ==
  ASSUME Ready, NEW m \in DOMAIN made,
         NEW d \in DatabaseMounts(ArchivedTree(m), Dests(m), m)
  PROVE  IsOwn(d) /\ d.readOnly = FALSE
<1> DEFINE t == ArchivedTree(m)
<1>1. \A db \in SqliteDbs(t) : DbPathOf(t, db) \in Seq(Token)
  BY ArchivedDbs
<1> HIDE DEF t
<1>2. PICK db \in SqliteDbs(t) :
        /\ IsMounted(Dests(m), DbPathOf(t, db))
        /\ d = ResolvePathMount(Dests(m), m, DbPathOf(t, db), FALSE)
  BY DEF DatabaseMounts, DbsFound, t
<1> QED
  BY <1>1, <1>2, ResolvedMount DEF Ready

LEMMA DatabaseMountsFound ==
  ASSUME Ready, NEW m \in DOMAIN made,
         NEW order \in SetToSeqs(DbsFound(ArchivedTree(m), Dests(m)))
  PROVE  LET t == ArchivedTree(m)
             S == DatabaseMounts(t, Dests(m), m)
         IN /\ AddedFor(t, m, order) \in Seq(S) /\ ToSet(AddedFor(t, m, order)) = S
            /\ \A d \in S : IsOwn(d) /\ d.readOnly = FALSE
<1> DEFINE t == ArchivedTree(m)
           F == DbsFound(t, Dests(m))
           paths == [i \in DOMAIN order |-> DbPathOf(t, order[i])]
           S == DatabaseMounts(t, Dests(m), m)
           all == [i \in DOMAIN order |->
                     ResolvePathMount(Dests(m), m, DbPathOf(t, order[i]), FALSE)]
<1>1. /\ DOMAIN t = DOMAIN made[m].tree
      /\ \A db \in SqliteDbs(t) : DbPathOf(t, db) \in Seq(Token)
  BY ArchivedDbs
<1>0. order \in SetToSeqs(F)
  OBVIOUS
<1> HIDE DEF t
<1>2. F \in SUBSET SqliteDbs(t) /\ \A db \in F : IsMounted(Dests(m), DbPathOf(t, db))
  BY DEF DbsFound
<1>3. IsFiniteSet(F)
  <2>1. IsFiniteSet(SqliteDbs(t))
    BY <1>1, FiniteDbs DEF Ready
  <2> QED
    BY <1>2, <2>1, FS_Subset
<1> HIDE DEF F
<1>4. order \in Seq(F) /\ ToSet(order) = F
  BY <1>0, <1>3, OrderElements
<1>5. S = {ResolvePathMount(Dests(m), m, DbPathOf(t, db), FALSE) : db \in F}
  BY DEF DatabaseMounts, F
<1> HIDE DEF S
<1>6. DOMAIN order = 1..Len(order) /\ Len(order) \in Nat
      /\ \A i \in 1..Len(order) : order[i] \in F
  BY <1>4
<1>7. /\ paths \in Seq(Seq(Token)) /\ DOMAIN paths = DOMAIN order
      /\ \A i \in DOMAIN order : paths[i] = DbPathOf(t, order[i])
  <2>1. paths = [i \in 1..Len(order) |-> DbPathOf(t, order[i])]
    BY <1>6
  <2>2. \A i \in 1..Len(order) : DbPathOf(t, order[i]) \in Seq(Token)
    BY <1>1, <1>2, <1>6
  <2> QED
    BY <1>6, <2>1, <2>2
<1> HIDE DEF paths
<1>8. ToSet(paths) = {DbPathOf(t, db) : db \in F}
  <2>1. ToSet(paths) = {DbPathOf(t, order[i]) : i \in DOMAIN order}
    BY <1>7 DEF ToSet
  <2>2. F = {order[i] : i \in DOMAIN order}
    BY <1>4 DEF ToSet
  <2> QED
    BY <2>1, <2>2
<1>9. \A p \in ToSet(paths) : IsMounted(Dests(m), p)
  BY <1>2, <1>8
<1>10. all = MountsAt(m, paths, FALSE)
  BY <1>7 DEF MountsAt
<1>11. S = MountsFrom(m, ToSet(paths), FALSE)
  BY <1>5, <1>8 DEF MountsFrom
<1>12. AddedFor(t, m, order) = ByTarget(all)
  BY DEF AddedFor
<1> HIDE DEF all
<1>13. /\ ByTarget(all) \in Seq(S) /\ ToSet(ByTarget(all)) = S
       /\ \A d \in S : IsOwn(d) /\ d.readOnly = FALSE
  <2>1. LET A == MountsAt(m, paths, FALSE)
            B == MountsFrom(m, ToSet(paths), FALSE)
        IN /\ ByTarget(A) \in Seq(B) /\ ToSet(ByTarget(A)) = B
           /\ \A d \in B : IsOwn(d) /\ d.readOnly = FALSE
    BY <1>7, <1>9, MountsForPaths
  <2> QED
    BY <1>10, <1>11, <2>1
<1> QED
  BY <1>12, <1>13 DEF S, t
-----------------------------------------------------------------------------
(* Discovery: all it does for a model is a function of the model as built. *)
LEMMA ReadyWorld ==
  ASSUME Reads, Built, Finite, Owned, Following, Ordinary(world),
         pc \notin {"list", "build"}
  PROVE  Ready
<1>1. MadeUpTo(world, made, Len(world.containers))
  BY DEF Following, Building
<1>2. world.containers \in Seq(ToSet(world.containers))
  BY DEF Reads, IsWorld
<1>3. DOMAIN made = ModelNames(world)
  BY <1>1, <1>2 DEF MadeUpTo, ModelNames
<1>4. PlainNames
  BY <1>3 DEF PlainNames, Ordinary, Built
<1>5. \A m \in DOMAIN made : /\ IsClient(owner[m]) /\ WellFormed(made[m].tree)
                             /\ IsFiniteSet(DOMAIN made[m].tree)
  BY DEF Owned, Built, IsModel, Finite
<1> QED
  BY <1>4, <1>5 DEF Ready, Reads

LEMMA SameFinds ==
  ASSUME UNCHANGED <<world, owner, made>>
  PROVE  /\ \A m : /\ VolumeFor(m)' = VolumeFor(m)
                   /\ HasVolume(m)' <=> HasVolume(m)
                   /\ ArchivedTree(m)' = ArchivedTree(m)
                   /\ RelocatedTree(m)' = RelocatedTree(m)
         /\ MountsForArchives' = MountsForArchives
         /\ \A M : MountsForDatabases(M)' = MountsForDatabases(M)
<1>1. \A m : Dests(m)' = Dests(m)
  BY SameOwners
<1>2. \A m : VolumeFor(m)' = VolumeFor(m)
  BY <1>1 DEF VolumeFor
<1>3. \A m : HasVolume(m)' <=> HasVolume(m)
  BY <1>2 DEF HasVolume
<1>4. \A m : ArchivedTree(m)' = ArchivedTree(m)
  BY <1>1 DEF ArchivedTree
<1>5. \A m : RelocatedTree(m)' = RelocatedTree(m)
  BY <1>1, <1>4 DEF RelocatedTree
<1>6. MountsForArchives' = MountsForArchives
  BY <1>1 DEF MountsForArchives
<1>7. \A M : MountsForDatabases(M)' = MountsForDatabases(M)
  BY <1>1, <1>4 DEF MountsForDatabases
<1> QED
  BY <1>2, <1>3, <1>4, <1>5, <1>6, <1>7

LEMMA StartDiscoveryDiscovering ==
  ASSUME Built, Discovered, Located, StartDiscovery
  PROVE  Discovering'
<1>1. /\ pc = "build" /\ UNCHANGED <<world, made, models, volumes, mounts>>
      /\ \/ world.managed /\ pc' = "archive" /\ left' = DOMAIN models
         \/ ~world.managed /\ pc' = "write"
  BY DEF StartDiscovery, buildVars, volumeVars
<1>2. volumes = <<>> /\ mounts = <<>>
  BY <1>1, LocatedParts DEF Discovered
<1>3. DOMAIN made = DOMAIN models /\ \A m \in DOMAIN models : models[m] = made[m].tree
  BY <1>1 DEF Built
<1>4. CASE world.managed /\ pc' = "archive" /\ left' = DOMAIN models
  <2>1. ToSet(volumes') = {} /\ DOMAIN made' \ left' = {}
    BY <1>1, <1>2, <1>3, <1>4, NoVolumes
  <2> QED
    BY <1>1, <1>4, <2>1 DEF Discovering
<1>5. CASE ~world.managed /\ pc' = "write"
  BY <1>1, <1>2, <1>3, <1>5 DEF Discovering
<1> QED
  BY <1>1, <1>4, <1>5

LEMMA WithoutFaults ==
  ASSUME faults \in Nat, faults' = 0, NEW ok \in BOOLEAN, NEW needed,
         Inspect(ok, needed)
  PROVE  ok /\ faults = 0
BY DEF Inspect

LEMMA DiscoverArchiveDiscovering ==
  ASSUME Built, Discovered, Owned, Discovering, faults \in Nat, faults' = 0,
         NEW m \in left, NEW ok \in BOOLEAN, DiscoverArchive(m, ok)
  PROVE  Discovering'
<1>1. /\ pc = "archive" /\ UNCHANGED <<pc, models, made, mounts, world, owner>>
      /\ left' = left \ {m}
      /\ Inspect(ok, StringsAt(models[m], Includes) # <<>>)
  BY DEF DiscoverArchive, Walk, outVars, buildVars, labelVars
<1>2. m \in DOMAIN made /\ models[m] = made[m].tree
  BY <1>1 DEF Owned, Built
<1>3. volumes' = LET v == VolumeOf(m, models[m], Dests(m))
                 IN IF ok /\ StringsAt(models[m], Includes) # <<>>
                       /\ v.includes \o v.excludes # <<>>
                    THEN Append(volumes, v) ELSE volumes
  BY DEF DiscoverArchive, VolumeOf, Found
<1>4. VolumeOf(m, made[m].tree, Dests(m)) = VolumeFor(m)
  BY DEF VolumeFor
<1>5. volumes' = IF HasVolume(m) THEN Append(volumes, VolumeFor(m)) ELSE volumes
  BY <1>1, <1>2, <1>3, <1>4, WithoutFaults DEF HasVolume
<1>6. volumes \in Seq(ToSet(volumes))
  BY DEF Discovered
<1>7. ToSet(volumes') = ToSet(volumes)
        \cup IF HasVolume(m) THEN {VolumeFor(m)} ELSE {}
  BY <1>5, <1>6, AppendElements
<1>8. ToSet(volumes) = {VolumeFor(n) : n \in {k \in DOMAIN made \ left :
                                               HasVolume(k)}}
  BY <1>1 DEF Discovering
<1>9. DOMAIN made \ (left \ {m}) = (DOMAIN made \ left) \cup {m}
  BY <1>2
<1>10. ToSet(volumes') = {VolumeFor(n) : n \in {k \in DOMAIN made \ left' :
                                                 HasVolume(k)}}
  BY <1>1, <1>7, <1>8, <1>9
<1>11. ToSet(volumes') = {VolumeFor(n)' : n \in {k \in DOMAIN made' \ left' :
                                                  HasVolume(k)'}}
  BY <1>1, <1>10, SameFinds
<1> QED
  BY <1>1, <1>11 DEF Discovering

(* A model without a volume is archived as it was.                         *)
LEMMA NoVolumeFor ==
  ASSUME Ready, NEW m \in DOMAIN made, ~HasVolume(m)
  PROVE  /\ ArchivedTree(m) = made[m].tree
         /\ ArchiveMounts(made[m].tree, Dests(m), m) = {}
<1> DEFINE t == made[m].tree
           old == StringsAt(t, Includes)
           found == Only(LAMBDA p : IsMounted(Dests(m), p), old)
           ins == [i \in DOMAIN found |-> Transformed(m, found[i])]
           outs == StringsAt(t, Excludes)
<1>1. old \in Seq(Seq(Token)) /\ outs \in Seq(Seq(Token))
  BY StringsType DEF Ready
<1>2. /\ ArchivedTree(m) = IF old = <<>> THEN t
                           ELSE WithStrings(WithStrings(t, Includes, ins),
                                            Excludes, outs)
      /\ ArchiveMounts(t, Dests(m), m)
           = {ResolvePathMount(Dests(m), m, p, TRUE) : p \in ToSet(found)}
      /\ VolumeFor(m).includes = ins /\ VolumeFor(m).excludes = outs
  BY DEF ArchivedTree, Archived, ArchiveMounts, Found,
         VolumeFor, VolumeOf
<1>3. old # <<>> => ins \o outs = <<>>
  BY <1>2 DEF HasVolume
<1> HIDE DEF t, old
<1>4. /\ found \in Seq(Seq(Token))
      /\ ToSet(found) = {p \in ToSet(old) : IsMounted(Dests(m), p)}
  BY <1>1, OnlyMounted
<1> HIDE DEF found, outs
<1>5. DOMAIN found = 1..Len(found) /\ Len(found) \in Nat
  BY <1>4
<1>6. CASE old = <<>>
  <2>1. ToSet(found) = {}
    BY <1>4, <1>6, NoVolumes
  <2> QED
    BY <1>2, <1>6, <2>1 DEF t
<1>7. CASE old # <<>>
  <2> DEFINE S == {Transformed(m, found[i]) : i \in DOMAIN found} \cup Seq(Token)
  <2>1. ins \in Seq(S) /\ Len(ins) = Len(found)
    <3>1. \A i \in 1..Len(found) : Transformed(m, found[i]) \in S
      BY <1>5
    <3>2. ins = [i \in 1..Len(found) |-> Transformed(m, found[i])]
      BY <1>5
    <3> HIDE DEF S
    <3> QED
      BY <1>5, <3>1, <3>2
  <2>2. outs \in Seq(S)
    BY <1>1, SeqOfWider
  <2> HIDE DEF S, ins
  <2>3. Len(ins) + Len(outs) = 0
    <3>1. Len(ins \o outs) = Len(ins) + Len(outs)
      BY <2>1, <2>2, Concatenated
    <3> QED
      BY <1>3, <1>7, <3>1
  <2>4. ins = <<>> /\ outs = <<>> /\ found = <<>>
    BY <1>4, <2>1, <2>2, <2>3
  <2>5. ArchivedTree(m) = t
    BY <1>2, <2>4 DEF WithStrings
  <2>6. ToSet(found) = {}
    BY <2>4, NoVolumes
  <2> QED
    BY <1>2, <2>5, <2>6 DEF t
<1> QED
  BY <1>6, <1>7

(* A model with one is archived with it.                                   *)
LEMMA VolumeApplied ==
  ASSUME Ready, NEW m \in DOMAIN made, HasVolume(m)
  PROVE  ArchivedTree(m)
           = WithStrings(WithStrings(made[m].tree, Includes,
                                     VolumeFor(m).includes),
                         Excludes, VolumeFor(m).excludes)
BY DEF HasVolume, ArchivedTree, Archived, VolumeFor, VolumeOf

LEMMA AllArchiveMounts ==
  ASSUME Ready, volumes \in Seq(ToSet(volumes)),
         ToSet(volumes) = {VolumeFor(m) : m \in {n \in DOMAIN made :
                                                 HasVolume(n)}}
  PROVE  LET all == FlattenSeq(VolumeMounts)
         IN all \in Seq(MountsForArchives) /\ ToSet(all) = MountsForArchives
<1> DEFINE S == MountsForArchives
           u == VolumeMounts
           n == Len(volumes)
           A(m) == ArchiveMounts(made[m].tree, Dests(m), m)
<1>1. n \in Nat /\ DOMAIN volumes = 1..n
      /\ \A i \in 1..n : volumes[i] \in ToSet(volumes)
  BY DEF ToSet
<1>2. S = UNION {A(m) : m \in DOMAIN made}
  BY DEF MountsForArchives
<1>3. \A m \in DOMAIN made : /\ VolumeFor(m).mounts \in Seq(A(m))
                             /\ ToSet(VolumeFor(m).mounts) = A(m)
  BY ArchiveMountsFound
<1>4. \A m \in DOMAIN made : ~HasVolume(m) => A(m) = {}
  BY NoVolumeFor
<1> HIDE DEF A, S
<1>5. \A m \in DOMAIN made : VolumeFor(m).mounts \in Seq(S)
  BY <1>2, <1>3, SeqOfWider
<1>6. u = [i \in 1..n |-> volumes[i].mounts]
  BY <1>1 DEF VolumeMounts
<1>7. \A i \in 1..n : \E m \in DOMAIN made : HasVolume(m)
                                             /\ volumes[i] = VolumeFor(m)
  BY <1>1
<1>8. u \in Seq(Seq(S)) /\ Len(u) = n /\ \A i \in 1..n : u[i] = volumes[i].mounts
  <2>1. \A i \in 1..n : volumes[i].mounts \in Seq(S)
    BY <1>5, <1>7
  <2> HIDE DEF n, u
  <2> QED
    BY <1>1, <1>6, <2>1
<1>9. FlattenSeq(u) \in Seq(S)
  BY <1>8, FlattenType
<1>10. ToSet(FlattenSeq(u)) = UNION {ToSet(u[i]) : i \in 1..n}
  BY <1>8, FlattenElements
<1> HIDE DEF u
<1>11. ToSet(FlattenSeq(u)) \subseteq S
  BY <1>9, SeqOfOwn
<1>12. ASSUME NEW d \in S PROVE d \in ToSet(FlattenSeq(u))
  <2>1. PICK m \in DOMAIN made : d \in A(m)
    BY <1>2
  <2>2. HasVolume(m) /\ d \in ToSet(VolumeFor(m).mounts)
    BY <1>3, <1>4, <2>1
  <2>3. VolumeFor(m) \in ToSet(volumes)
    BY <2>2
  <2>4. PICK i \in 1..n : volumes[i] = VolumeFor(m)
    BY <1>1, <2>3 DEF ToSet
  <2> QED
    BY <1>8, <1>10, <2>2, <2>4
<1> QED
  BY <1>9, <1>11, <1>12 DEF u, S
-----------------------------------------------------------------------------
(* Archives applied, databases walked, mounts merged, the file written.    *)
LEMMA ApplyArchiveDiscovering ==
  ASSUME Built, Built', Discovered, Ready, Discovering, ApplyArchiveVolumes
  PROVE  Discovering'
<1> DEFINE own(m) == {v \in ToSet(volumes) : v.model = m}
           first(m) == CHOOSE v \in own(m) : TRUE
           new(m) == IF own(m) = {} THEN models[m]
                     ELSE WithStrings(WithStrings(models[m], Includes,
                                                  first(m).includes),
                                      Excludes, first(m).excludes)
           all == FlattenSeq(VolumeMounts)
           S == MountsForArchives
<1>1. /\ models' = [m \in DOMAIN models |-> new(m)]
      /\ pc = "archive" /\ pc' = "sqlite" /\ left = {} /\ left' = DOMAIN models
      /\ UNCHANGED <<made, volumes, world, owner>>
      /\ mounts' = FirstBy(MountKey, all)
  BY DEF ApplyArchiveVolumes, VolumeMounts, labelVars
<1>2. volumes \in Seq(ToSet(volumes)) /\ world.managed
      /\ ToSet(volumes) = {VolumeFor(m) : m \in {n \in DOMAIN made :
                                                  HasVolume(n)}}
  BY <1>1 DEF Discovered, Discovering
<1>3. all \in Seq(S) /\ ToSet(all) = S
  BY <1>2, AllArchiveMounts
<1>4. \A d, e \in S : d.target = e.target => d = e
  <2>1. \A d \in S : IsOwn(d) /\ d.readOnly = TRUE
    BY ArchiveMountsFound DEF MountsForArchives
  <2> QED
    BY <2>1, MountsApart DEF Ready
<1> HIDE DEF all, S
<1>5. ToSet(mounts') = S
  <2>1. AreFirst(mounts', all)
    BY <1>1, <1>3, FirstMounts
  <2> QED
    BY <1>3, <1>4, <2>1, FirstAreAll
<1>6. ASSUME NEW m \in DOMAIN made
      PROVE  new(m) = ArchivedTree(m)
  <2>1. m \in DOMAIN models /\ models[m] = made[m].tree
    BY <1>1 DEF Built
  <2>2. VolumeFor(m).model = m /\ \A n : VolumeFor(n).model = n
    BY DEF VolumeFor, VolumeOf
  <2>3. own(m) = IF HasVolume(m) THEN {VolumeFor(m)} ELSE {}
    BY <1>2, <2>2
  <2>4. CASE HasVolume(m)
    <3>1. first(m) = VolumeFor(m) /\ own(m) # {}
      BY <2>3, <2>4
    <3> QED
      BY <2>1, <2>4, <3>1, VolumeApplied
  <2>5. CASE ~HasVolume(m)
    BY <2>1, <2>3, <2>5, NoVolumeFor
  <2> QED
    BY <2>4, <2>5
<1> HIDE DEF new
<1>7. DOMAIN made = DOMAIN models /\ DOMAIN made \ left' = {}
  BY <1>1 DEF Built
<1>8. \A m \in DOMAIN made : models'[m] = ArchivedTree(m)
  BY <1>1, <1>6, <1>7
<1>9. ToSet(mounts') = MountsForArchives \cup MountsForDatabases({})
  BY <1>5 DEF MountsForDatabases, S
<1>10. /\ \A m \in DOMAIN made' : models'[m] = ArchivedTree(m)'
       /\ ToSet(mounts') = MountsForArchives' \cup MountsForDatabases({})'
  BY <1>1, <1>8, <1>9, SameFinds
<1> QED
  BY <1>1, <1>2, <1>7, <1>10 DEF Discovering

LEMMA DiscoverSqliteDiscovering ==
  ASSUME Built, Owned, Located, Ready, Discovering,
         faults \in Nat, faults' = 0,
         NEW m \in left, NEW ok \in BOOLEAN, DiscoverSqlite(m, ok)
  PROVE  Discovering'
<1> DEFINE t == models[m]
           u == ArchivedTree(m)
           D == DatabaseMounts(u, Dests(m), m)
           S == ToSet(mounts)
<1>1. /\ pc = "sqlite" /\ UNCHANGED <<pc, made, world, owner>>
      /\ left' = left \ {m} /\ Inspect(ok, SqliteDbs(t) # {})
  BY DEF DiscoverSqlite, Walk, labelVars
<1>2. ok
  BY <1>1, WithoutFaults
<1>3. /\ models' = [models EXCEPT ![m] = Relocate(t, Dests(m), m)]
      /\ \E order \in SetToSeqs(DbsFound(t, Dests(m))) :
           mounts' = mounts \o AddedFor(t, m, order)
  BY <1>2 DEF DiscoverSqlite, Relocate, DbsFound, DbPathOf, AddedFor, ByTarget
<1>4. m \in DOMAIN models /\ DOMAIN made = DOMAIN models
  BY <1>1 DEF Owned, Built
<1>5. /\ world.managed /\ t = u
      /\ S = MountsForArchives \cup MountsForDatabases(DOMAIN made \ left)
      /\ \A n \in DOMAIN made :
           models[n] = IF n \in left THEN ArchivedTree(n) ELSE RelocatedTree(n)
  BY <1>1, <1>4 DEF Discovering
<1>a. PICK order \in SetToSeqs(DbsFound(u, Dests(m))) :
        mounts' = mounts \o AddedFor(u, m, order)
  BY <1>3, <1>5
<1> DEFINE add == AddedFor(u, m, order)
<1>6. add \in Seq(D) /\ ToSet(add) = D /\ mounts' = mounts \o add
  BY <1>4, <1>a, DatabaseMountsFound
<1>7. mounts \in Seq(S)
  BY LocatedParts
<1>8. MountsForDatabases((DOMAIN made \ left) \cup {m})
        = MountsForDatabases(DOMAIN made \ left) \cup D
  BY DEF MountsForDatabases
<1>9. Relocate(t, Dests(m), m) = RelocatedTree(m)
  BY <1>5 DEF RelocatedTree
<1> HIDE DEF t, D, S, u, add
<1>10. ToSet(mounts') = S \cup D
  <2>1. mounts \in Seq(S \cup D) /\ add \in Seq(S \cup D)
    BY <1>6, <1>7, SeqOfWider
  <2>2. ToSet(mounts \o add) = ToSet(mounts) \cup ToSet(add)
    BY <2>1, ConcatElements
  <2> QED
    BY <1>6, <2>2 DEF S
<1>11. DOMAIN made \ left' = (DOMAIN made \ left) \cup {m}
  BY <1>1, <1>4
<1>12. ToSet(mounts')
         = MountsForArchives \cup MountsForDatabases(DOMAIN made \ left')
  BY <1>5, <1>8, <1>10, <1>11
<1>13. \A n \in DOMAIN made :
         models'[n] = IF n \in left' THEN ArchivedTree(n) ELSE RelocatedTree(n)
  BY <1>1, <1>3, <1>4, <1>5, <1>9
<1>14. /\ ToSet(mounts')
            = MountsForArchives' \cup MountsForDatabases(DOMAIN made \ left)'
       /\ \A n \in DOMAIN made' :
            models'[n] = IF n \in left' THEN ArchivedTree(n)'
                         ELSE RelocatedTree(n)'
  <2>1. MountsForDatabases(DOMAIN made \ left)'
          = MountsForDatabases(DOMAIN made' \ left')
    BY <1>1, SameFinds DEF MountsForDatabases
  <2> QED
    BY <1>1, <1>12, <1>13, <2>1, SameFinds
<1> QED
  BY <1>1, <1>5, <1>14 DEF Discovering

(* Mounts at one target differ in that one of them can be written to.      *)
LEMMA AllMountsOwn ==
  ASSUME Ready, NEW d \in MountsForArchives \cup MountsForDatabases(DOMAIN made)
  PROVE  IsOwn(d) /\ d.readOnly \in BOOLEAN
<1>1. CASE d \in MountsForArchives
  <2>1. PICK m \in DOMAIN made : d \in ArchiveMounts(made[m].tree, Dests(m), m)
    BY <1>1 DEF MountsForArchives
  <2> QED
    BY <2>1, ArchiveMountsFound
<1>2. CASE d \in MountsForDatabases(DOMAIN made)
  <2>1. PICK m \in DOMAIN made : d \in DatabaseMounts(ArchivedTree(m), Dests(m), m)
    BY <1>2 DEF MountsForDatabases
  <2> QED
    BY <2>1, DatabaseMountsOwn
<1> QED
  BY <1>1, <1>2

LEMMA DedupDiscovering ==
  ASSUME Built, Located, Ready, Discovering, DedupMounts
  PROVE  Discovering'
<1> DEFINE S == MountsForArchives \cup MountsForDatabases(DOMAIN made)
<1>1. /\ pc = "sqlite" /\ pc' = "write" /\ left = {}
      /\ UNCHANGED <<made, models, world, owner>>
      /\ mounts' = DedupMountsByTarget(mounts)
  BY DEF DedupMounts, labelVars, buildVars
<1>2. DOMAIN made \ left = DOMAIN made
  BY <1>1
<1>3. /\ world.managed /\ ToSet(mounts) = S
      /\ \A m \in DOMAIN made : models[m] = RelocatedTree(m)
  BY <1>1, <1>2 DEF Discovering
<1>4. \A d \in S : IsOwn(d) /\ d.readOnly \in BOOLEAN
  BY AllMountsOwn
<1>5. \A d, e \in S : d.target = e.target /\ d.readOnly = e.readOnly => d = e
  BY <1>4, MountsApart DEF Ready
<1> HIDE DEF S
<1>6. mounts \in Seq(S)
  BY <1>3, LocatedParts
<1>7. ToSet(mounts') = Preferred(S)
  BY <1>1, <1>3, <1>4, <1>5, <1>6, PreferredMounts
<1>8. /\ ToSet(mounts')
            = Preferred(MountsForArchives \cup MountsForDatabases(DOMAIN made))'
      /\ \A m \in DOMAIN made' : models'[m] = RelocatedTree(m)'
  BY <1>1, <1>3, <1>7, SameFinds DEF S
<1> QED
  BY <1>1, <1>3, <1>8 DEF Discovering

LEMMA DiscoveringKept ==
  ASSUME Discovering, UNCHANGED <<world, owner, made, models, mounts>>,
         pc \in {"write", "creds", "done"}, pc' \in {"write", "creds", "done"}
  PROVE  Discovering'
<1>1. DOMAIN made' = DOMAIN made
  OBVIOUS
<1>2. /\ \A m : RelocatedTree(m)' = RelocatedTree(m)
      /\ MountsForArchives' = MountsForArchives
      /\ MountsForDatabases(DOMAIN made)' = MountsForDatabases(DOMAIN made)
  BY SameFinds
<1> QED
  BY <1>1, <1>2 DEF Discovering
-----------------------------------------------------------------------------
(* Whose models, volumes and credentials they are, by the world alone.     *)
LEMMA MakersOfWorld ==
  ASSUME IsWorld(world), MadeUpTo(world, made, Len(world.containers))
  PROVE  /\ DOMAIN made = ModelNames(world)
         /\ \A m \in DOMAIN made : /\ ReadWhole(made[m].src, Maker(world, m))
                                   /\ made[m].tree = TreeMade(world, m)
<1>1. DOMAIN world.containers = 1..Len(world.containers)
  BY DEF IsWorld
<1>2. DOMAIN made = ModelNames(world)
  BY <1>1 DEF MadeUpTo, ModelNames
<1>3. ASSUME NEW m \in DOMAIN made
      PROVE  /\ ReadWhole(made[m].src, Maker(world, m))
             /\ made[m].tree = TreeMade(world, m)
  <2>1. PICK i \in Making(world, m) :
          /\ \A j \in Making(world, m) : i <= j
          /\ ReadWhole(made[m].src, world.containers[i])
          /\ made[m].tree = ModelOf(world, world.containers[i])
    BY DEF MadeUpTo
  <2>2. Making(world, m) \subseteq 1..Len(world.containers)
    BY <1>1 DEF Making
  <2>3. (CHOOSE k \in Making(world, m) : \A j \in Making(world, m) : k <= j) = i
    BY <2>1, <2>2
  <2>4. Maker(world, m) = world.containers[i]
    BY <2>3 DEF Maker
  <2> QED
    BY <2>1, <2>4 DEF TreeMade
<1> QED
  BY <1>2, <1>3

LEMMA OwnersOfWorld ==
  ASSUME IsWorld(world), OwnedUpTo(world, owner, Len(world.containers)),
         NEW m \in DOMAIN owner
  PROVE  Client(owner[m]) = OwnerOf(world, m) /\ Dests(m) = MountsOf(world, m)
<1>1. DOMAIN world.containers = 1..Len(world.containers)
  BY DEF IsWorld
<1>2. PICK i \in Claiming(world, m) :
        /\ owner[m] = world.containers[i].id
        /\ \A j \in Claiming(world, m) : j <= Len(world.containers) => j <= i
  BY DEF OwnedUpTo
<1>3. Claiming(world, m) \subseteq 1..Len(world.containers)
  BY <1>1 DEF Claiming
<1>4. (CHOOSE k \in Claiming(world, m) : \A j \in Claiming(world, m) : j <= k) = i
  BY <1>2, <1>3
<1>5. OwnerOf(world, m) = world.containers[i]
  BY <1>4 DEF OwnerOf
<1>6. Client(world.containers[i].id) = world.containers[i]
  <2>1. world.containers[i] \in ToSet(world.containers)
    BY <1>1, <1>3 DEF ToSet
  <2>2. \A c \in ToSet(world.containers) :
          c.id = world.containers[i].id => c = world.containers[i]
    BY <1>1, <1>3 DEF IsWorld, ToSet
  <2> QED
    BY <2>1, <2>2 DEF Client
<1> QED
  BY <1>2, <1>5, <1>6 DEF Dests, MountsOf

LEMMA CredsOfWorld ==
  ASSUME IsWorld(world), MadeUpTo(world, made, Len(world.containers)), Built
  PROVE  /\ AllCreds = CredsIn(world)
         /\ \A m \in DOMAIN made :
              CredPaths(made[m].src) = CredPathsOf(Maker(world, m))
<1>1. /\ DOMAIN made = ModelNames(world)
      /\ \A m \in DOMAIN made : ReadWhole(made[m].src, Maker(world, m))
  BY MakersOfWorld
<1>2. AllCreds = UNION {AskedBy(made[m].src, m) : m \in DOMAIN made}
  BY AllAsked DEF Built
<1>3. ASSUME NEW m \in DOMAIN made
      PROVE  LET c == Maker(world, m)
             IN /\ ToSet(made[m].src.refs)
                     = {RefAt(c.labels, p) : p \in CredKeys(c.labels)}
                /\ made[m].src.id = c.id
  BY <1>1 DEF ReadWhole, RefsRead
<1>4. \A m \in DOMAIN made :
        AskedBy(made[m].src, m)
          = {CredOf(RefAt(Maker(world, m).labels, p), m, Maker(world, m).id) :
               p \in CredKeys(Maker(world, m).labels)}
  <2> TAKE m \in DOMAIN made
  <2> DEFINE refs == ToSet(made[m].src.refs)
             labels == Maker(world, m).labels
  <2>1. refs = {RefAt(labels, p) : p \in CredKeys(labels)}
        /\ made[m].src.id = Maker(world, m).id
    BY <1>3
  <2>2. AskedBy(made[m].src, m)
          = {CredOf(r, m, Maker(world, m).id) : r \in refs}
    BY <2>1 DEF AskedBy
  <2> HIDE DEF refs, labels
  <2>3. {CredOf(r, m, Maker(world, m).id) : r \in refs}
          = {CredOf(RefAt(labels, p), m, Maker(world, m).id) :
               p \in CredKeys(labels)}
    BY <2>1
  <2> QED
    BY <2>2, <2>3 DEF labels
<1>5. AllCreds = CredsIn(world)
  <2> DEFINE Of(m) ==
        {CredOf(RefAt(Maker(world, m).labels, p), m, Maker(world, m).id) :
           p \in CredKeys(Maker(world, m).labels)}
  <2>1. CredsIn(world) = UNION {Of(m) : m \in DOMAIN made}
    BY <1>1 DEF CredsIn
  <2>2. \A m \in DOMAIN made : AskedBy(made[m].src, m) = Of(m)
    BY <1>4
  <2> HIDE DEF Of
  <2> QED
    BY <1>2, <2>1, <2>2
<1>6. \A m \in DOMAIN made :
        CredPaths(made[m].src) = CredPathsOf(Maker(world, m))
  BY <1>3 DEF CredPaths, CredPathsOf
<1> QED
  BY <1>5, <1>6

(* A variable is asked for once.                                           *)
LEMMA VarsDiffer ==
  ASSUME IsWorld(world), MadeUpTo(world, made, Len(world.containers)), Built,
         Ordinary(world), NEW c \in AllCreds, NEW d \in AllCreds, c.var = d.var
  PROVE  c = d
<1>1. AllCreds = UNION {AskedBy(made[m].src, m) : m \in DOMAIN made}
  BY AllAsked DEF Built
<1>2. PICK m \in DOMAIN made : c \in AskedBy(made[m].src, m)
  BY <1>1
<1>3. PICK n \in DOMAIN made : d \in AskedBy(made[n].src, n)
  BY <1>1
<1>4. PICK r \in ToSet(made[m].src.refs) : c = CredOf(r, m, made[m].src.id)
  BY <1>2 DEF AskedBy
<1>5. PICK q \in ToSet(made[n].src.refs) : d = CredOf(q, n, made[n].src.id)
  BY <1>3 DEF AskedBy
<1>6. CredVarName(m, r.path) = CredVarName(n, q.path)
  BY <1>4, <1>5 DEF CredOf
<1>7. r.path \in CredPaths(made[m].src) /\ q.path \in CredPaths(made[n].src)
  BY DEF CredPaths
<1>8. m \in Seq(Token) /\ n \in Seq(Token)
      /\ r.path \in Seq(Token) /\ q.path \in Seq(Token)
  <2>1. IsSource(made[m].src) /\ IsSource(made[n].src)
    BY DEF Built
  <2>2. r.path \in Seq(Token) /\ q.path \in Seq(Token)
    BY <2>1, SourcePaths
  <2> QED
    BY <2>2 DEF Built
<1>9. Joined(m, r.path) = Joined(n, q.path)
  BY <1>6, <1>8, VarNamesOne
<1>10. /\ m \in ModelNames(world) /\ n \in ModelNames(world)
       /\ r.path \in CredPathsOf(Maker(world, m))
       /\ q.path \in CredPathsOf(Maker(world, n))
  BY <1>7, CredsOfWorld, MakersOfWorld
<1>11. <<m, r.path>> = <<n, q.path>>
  BY <1>9, <1>10 DEF Ordinary
<1>12. m = n /\ r.path = q.path
  BY <1>11
<1>13. r = q
  BY <1>12 DEF Built, IsModel, ToSet
<1> QED
  BY <1>4, <1>5, <1>12, <1>13
-----------------------------------------------------------------------------
(* What is given: one credential adds the same whenever its turn comes.    *)
LEMMA NothingAdded ==
  ASSUME NEW w, NEW x, x = [mounts |-> x.mounts, env |-> x.env,
                            exports |-> x.exports]
  PROVE  WithCreds(w, x, {}) = x
<1>1. {MountsOfCred(c, HolderOf(w, c)) : c \in {}} = {}
      /\ {EnvOfCred(c, HolderOf(w, c)) : c \in {}} = {}
      /\ {ExportsOfCred(c, HolderOf(w, c)) : c \in {}} = {}
  OBVIOUS
<1>2. \A S : S \cup UNION {} = S
  OBVIOUS
<1>3. WithCreds(w, x, {}) = [mounts |-> x.mounts, env |-> x.env,
                             exports |-> x.exports]
  BY <1>1, <1>2 DEF WithCreds
<1> QED
  BY <1>3

LEMMA OneCredMore ==
  ASSUME NEW w, NEW x, NEW C, NEW c
  PROVE  LET y == WithCreds(w, x, C)
             h == HolderOf(w, c)
         IN WithCreds(w, x, C \cup {c})
              = [mounts |-> y.mounts \cup MountsOfCred(c, h),
                 env |-> y.env \cup EnvOfCred(c, h),
                 exports |-> y.exports \cup ExportsOfCred(c, h)]
<1> DEFINE M(d) == MountsOfCred(d, HolderOf(w, d))
           E(d) == EnvOfCred(d, HolderOf(w, d))
           X(d) == ExportsOfCred(d, HolderOf(w, d))
           y == WithCreds(w, x, C)
           z == WithCreds(w, x, C \cup {c})
<1>1. /\ y.mounts = x.mounts \cup UNION {M(d) : d \in C}
      /\ y.env = x.env \cup UNION {E(d) : d \in C}
      /\ y.exports = x.exports \cup UNION {X(d) : d \in C}
  BY DEF WithCreds
<1>2. z = [mounts |-> x.mounts \cup UNION {M(d) : d \in C \cup {c}},
           env |-> x.env \cup UNION {E(d) : d \in C \cup {c}},
           exports |-> x.exports \cup UNION {X(d) : d \in C \cup {c}}]
  BY DEF WithCreds
<1> HIDE DEF M, E, X, y, z
<1>3. /\ UNION {M(d) : d \in C \cup {c}} = (UNION {M(d) : d \in C}) \cup M(c)
      /\ UNION {E(d) : d \in C \cup {c}} = (UNION {E(d) : d \in C}) \cup E(c)
      /\ UNION {X(d) : d \in C \cup {c}} = (UNION {X(d) : d \in C}) \cup X(c)
  OBVIOUS
<1>4. \A A, B, D : A \cup (B \cup D) = (A \cup B) \cup D
  OBVIOUS
<1>5. z = [mounts |-> y.mounts \cup M(c), env |-> y.env \cup E(c),
           exports |-> y.exports \cup X(c)]
  BY <1>1, <1>2, <1>3, <1>4
<1> QED
  BY <1>5 DEF z, y, M, E, X

(* Extras with something added.                                            *)
LEMMA EnvMore ==
  ASSUME NEW x, x = [mounts |-> x.mounts, env |-> x.env, exports |-> x.exports],
         NEW E
  PROVE  [x EXCEPT !.env = @ \cup E]
           = [mounts |-> x.mounts, env |-> x.env \cup E, exports |-> x.exports]
<1>1. DOMAIN x = {"mounts", "env", "exports"}
  OBVIOUS
<1> DEFINE y == [x EXCEPT !.env = @ \cup E]
<1>2. /\ DOMAIN y = {"mounts", "env", "exports"} /\ y.env = x.env \cup E
      /\ y.mounts = x.mounts /\ y.exports = x.exports
      /\ y = [f \in DOMAIN y |-> y[f]]
  BY <1>1
<1> HIDE DEF y
<1>3. y = [mounts |-> y.mounts, env |-> y.env, exports |-> y.exports]
  BY <1>2
<1> QED
  BY <1>2, <1>3 DEF y

LEMMA SecretMore ==
  ASSUME NEW x, x = [mounts |-> x.mounts, env |-> x.env, exports |-> x.exports],
         NEW M, NEW X
  PROVE  [x EXCEPT !.mounts = @ \cup M, !.exports = @ \cup X]
           = [mounts |-> x.mounts \cup M, env |-> x.env,
              exports |-> x.exports \cup X]
<1>1. DOMAIN x = {"mounts", "env", "exports"}
  OBVIOUS
<1> DEFINE y == [x EXCEPT !.mounts = @ \cup M, !.exports = @ \cup X]
<1>2. /\ DOMAIN y = {"mounts", "env", "exports"} /\ y.env = x.env
      /\ y.mounts = x.mounts \cup M /\ y.exports = x.exports \cup X
      /\ y = [f \in DOMAIN y |-> y[f]]
  BY <1>1
<1> HIDE DEF y
<1>3. y = [mounts |-> y.mounts, env |-> y.env, exports |-> y.exports]
  BY <1>2
<1> QED
  BY <1>2, <1>3 DEF y

(* Given once, it adds nothing more.                                       *)
LEMMA GivenAlready ==
  ASSUME NEW w, NEW x, NEW C, NEW c \in C
  PROVE  WithCreds(w, x, C \cup {c}) = WithCreds(w, x, C)
<1>1. C \cup {c} = C
  OBVIOUS
<1> QED
  BY <1>1

(* resolveCreds, one credential.                                           *)
LEMMA CredAdded ==
  ASSUME NEW x, x.exports = {}, NEW C \in SUBSET AllCreds,
         \A a, b \in AllCreds : a.var = b.var => a = b,
         extras = WithCreds(world, x, C), NEW c \in AllCreds,
         c.kind \in {"env", "file"},
         IF c.kind = "env" THEN ResolveEnv(c) ELSE ResolveFile(c)
  PROVE  extras' = WithCreds(world, x, C \cup {c})
<1> DEFINE h == HolderOf(world, c)
           new == WithCreds(world, x, C \cup {c})
<1>1. /\ new = [mounts |-> extras.mounts \cup MountsOfCred(c, h),
                env |-> extras.env \cup EnvOfCred(c, h),
                exports |-> extras.exports \cup ExportsOfCred(c, h)]
      /\ extras = [mounts |-> extras.mounts, env |-> extras.env,
                   exports |-> extras.exports]
  <2>1. new = [mounts |-> extras.mounts \cup MountsOfCred(c, h),
               env |-> extras.env \cup EnvOfCred(c, h),
               exports |-> extras.exports \cup ExportsOfCred(c, h)]
    BY OneCredMore
  <2>2. extras = [mounts |-> extras.mounts, env |-> extras.env,
                  exports |-> extras.exports]
    BY DEF WithCreds
  <2> QED
    BY <2>1, <2>2
<1>2. h = Client(c.id)
  BY DEF HolderOf, Client
<1> HIDE DEF h, new
<1>3. CASE c.kind = "env"
  <2>1. MountsOfCred(c, h) = {} /\ ExportsOfCred(c, h) = {}
    BY <1>3 DEF MountsOfCred, ExportsOfCred, IsServed
  <2>2. EnvOfCred(c, h) = IF c.ref \in DOMAIN h.env
                          THEN {[var |-> c.var, val |-> h.env[c.ref]]} ELSE {}
    BY <1>3 DEF EnvOfCred
  <2>3. extras' = IF c.ref \notin DOMAIN h.env THEN extras
                  ELSE [extras EXCEPT !.env = @ \cup
                          {[var |-> c.var, val |-> h.env[c.ref]]}]
    BY <1>2, <1>3 DEF ResolveEnv
  <2>4. \A S : S \cup {} = S
    OBVIOUS
  <2>5. CASE c.ref \in DOMAIN h.env
    <3> DEFINE E == {[var |-> c.var, val |-> h.env[c.ref]]}
    <3>1. EnvOfCred(c, h) = E /\ extras' = [extras EXCEPT !.env = @ \cup E]
      BY <2>2, <2>3, <2>5
    <3> HIDE DEF E
    <3>2. extras' = [mounts |-> extras.mounts, env |-> extras.env \cup E,
                     exports |-> extras.exports]
      BY <1>1, <3>1, EnvMore
    <3> QED
      BY <1>1, <2>1, <2>4, <3>1, <3>2 DEF new
  <2>6. CASE c.ref \notin DOMAIN h.env
    BY <1>1, <2>1, <2>2, <2>3, <2>4, <2>6 DEF new
  <2> QED
    BY <2>5, <2>6
<1>4. CASE c.kind = "file"
  <2>1. EnvOfCred(c, h) = {}
    BY <1>4 DEF EnvOfCred
  <2>2. \A S : S \cup {} = S
    OBVIOUS
  <2>3. SecretTarget(c) = SecretsRoot \o c.var
    BY DEF SecretTarget
  <2> DEFINE d0 == [type |-> "bind", source |-> SourceOfCred(c, h),
                    target |-> SecretTarget(c), readOnly |-> TRUE]
             e0 == [var |-> c.var, path |-> SecretTarget(c)]
  <2>4. IF ~IsServed(c, h) \/ \E e \in extras.exports : e.var = c.var
        THEN UNCHANGED extras
        ELSE extras' = [extras EXCEPT !.mounts = @ \cup {d0},
                                      !.exports = @ \cup {e0}]
    BY <1>2, <1>4, <2>3 DEF ResolveFile, IsServed, SourceOfCred
  <2>5. /\ MountsOfCred(c, h) = IF IsServed(c, h) THEN {d0} ELSE {}
        /\ ExportsOfCred(c, h) = IF IsServed(c, h) THEN {e0} ELSE {}
    BY DEF MountsOfCred, ExportsOfCred
  <2> HIDE DEF d0, e0
  <2>6. CASE ~IsServed(c, h)
    BY <1>1, <2>1, <2>2, <2>4, <2>5, <2>6 DEF new
  <2>7. CASE IsServed(c, h) /\ \E e \in extras.exports : e.var = c.var
    <3>1. PICK e \in extras.exports : e.var = c.var
      BY <2>7
    <3>2. extras.exports
            = x.exports \cup UNION {ExportsOfCred(b, HolderOf(world, b)) : b \in C}
      BY DEF WithCreds
    <3>3. PICK b \in C : e \in ExportsOfCred(b, HolderOf(world, b))
      BY <3>1, <3>2
    <3>4. e.var = b.var
      BY <3>3 DEF ExportsOfCred
    <3>5. c \in C
      BY <3>1, <3>3, <3>4
    <3> QED
      BY <2>4, <2>7, <3>5, GivenAlready
  <2>8. CASE IsServed(c, h) /\ ~\E e \in extras.exports : e.var = c.var
    <3>1. extras' = [extras EXCEPT !.mounts = @ \cup {d0},
                                   !.exports = @ \cup {e0}]
      BY <2>4, <2>8
    <3>2. extras' = [mounts |-> extras.mounts \cup {d0}, env |-> extras.env,
                     exports |-> extras.exports \cup {e0}]
      BY <1>1, <3>1, SecretMore
    <3> QED
      BY <1>1, <2>1, <2>2, <2>5, <2>8, <3>2 DEF new
  <2> QED
    BY <2>6, <2>7, <2>8
<1> QED
  BY <1>3, <1>4
-----------------------------------------------------------------------------
(* The steps of a pass, one by one.                                        *)
LEMMA NoModels == <<>> = [m \in DOMAIN <<>> |-> <<>>[m]]
<1>1. <<>> \in Seq({}) /\ Len(<<>>) = 0
  OBVIOUS
<1> QED
  BY <1>1

LEMMA CountedNext == Counted /\ [Next]_vars => Counted'
<1> SUFFICES ASSUME Counted, [Next]_vars PROVE Counted'
  OBVIOUS
<1>1. CASE UNCHANGED <<faults, models>>
  BY <1>1 DEF Counted
<1>2. CASE BuildModel
  <2>1. faults' = faults
    BY <1>2 DEF BuildModel, volumeVars
  <2>2. CASE UNCHANGED models
    BY <2>1, <2>2 DEF Counted
  <2>3. CASE \E n, t : models' = Put(models, n, t)
    BY <2>1, <2>3 DEF Counted, Put
  <2> QED
    BY <1>2, <2>2, <2>3 DEF BuildModel
<1>3. CASE \E m \in left, ok \in BOOLEAN : DiscoverArchive(m, ok)
  BY <1>3 DEF DiscoverArchive, Inspect, Counted, buildVars
<1>4. CASE \E m \in left, ok \in BOOLEAN : DiscoverSqlite(m, ok)
  <2>1. PICK m \in left, ok \in BOOLEAN : DiscoverSqlite(m, ok)
    BY <1>4
  <2>2. faults' \in Nat
    <3>1. Inspect(ok, SqliteDbs(models[m]) # {})
      BY <2>1 DEF DiscoverSqlite
    <3> QED
      BY <3>1 DEF Inspect, Counted
  <2>3. UNCHANGED models \/ \E t : models' = [models EXCEPT ![m] = t]
    BY <2>1 DEF DiscoverSqlite
  <2> QED
    BY <2>2, <2>3 DEF Counted
<1>5. CASE ApplyArchiveVolumes
  <2>1. faults' = faults
    BY <1>5 DEF ApplyArchiveVolumes
  <2>2. \E M : DOMAIN models' = M /\ models' = [m \in M |-> models'[m]]
    BY <1>5 DEF ApplyArchiveVolumes
  <2> QED
    BY <2>1, <2>2 DEF Counted
<1>6. CASE \E ok \in BOOLEAN : ResolveCred(ok)
  BY <1>6 DEF ResolveCred, Inspect, Counted
<1>7. CASE NextPass
  BY <1>7, NoModels DEF NextPass, Counted
<1>8. CASE \/ \E p \in left : ReadMeta(p) \/ ReadCredRef(p) \/ ReadSetting(p)
           \/ EndContainer \/ LoadProfiles \/ StartDiscovery \/ DedupMounts
           \/ WriteConfig \/ EndPass \/ UNCHANGED vars
  <2>1. UNCHANGED <<faults, models>>
    BY <1>8 DEF ReadMeta, ReadCredRef, ReadSetting, Reading, EndContainer,
                LoadProfiles, StartDiscovery, DedupMounts, WriteConfig,
                EndPass, vars, buildVars, volumeVars
  <2> QED
    BY <1>1, <2>1
<1> QED
  BY <1>2, <1>3, <1>4, <1>5, <1>6, <1>7, <1>8 DEF Next

(* What starts is what nothing was added to yet.                           *)
LEMMA WriteConfigGiving ==
  ASSUME Resolved, Following, Counted, Discovering, WriteConfig
  PROVE  Giving'
<1> DEFINE env0 == IF file' # models' THEN {[var |-> <<"GB_DOLLAR">>,
                                            val |-> <<"$">>]} ELSE {}
           x0 == [mounts |-> ToSet(mounts'), env |-> env0, exports |-> {}]
<1>1. /\ pc = "write" /\ UNCHANGED <<world, models, mounts, made, creds>>
      /\ pc' = IF world.managed THEN "creds" ELSE "done"
      /\ file' = EscapeConfig
      /\ extras' = [extras EXCEPT !.mounts = ToSet(mounts'), !.env = env0]
  BY DEF WriteConfig, buildVars, volumeVars
<1>2. extras = [mounts |-> {}, env |-> {}, exports |-> {}]
  BY <1>1 DEF Resolved, Nothing
<1>3. Started' = x0
  BY DEF Started
<1> HIDE DEF env0
<1>4. extras' = x0
  BY <1>1, <1>2
<1>5. x0 = [mounts |-> x0.mounts, env |-> x0.env, exports |-> x0.exports]
  OBVIOUS
<1> HIDE DEF x0
<1>6. WithCreds(world, x0, {}) = x0
  BY <1>5, NothingAdded
<1>7. ToSet(creds') = AllCreds'
  BY <1>1 DEF Following, Asking, AllCreds, CredsOf
<1>8. CASE world.managed
  <2>1. {} \in SUBSET AllCreds' /\ {} \cup ToSet(creds') = AllCreds'
        /\ extras' = WithCreds(world', Started', {})
    BY <1>1, <1>3, <1>4, <1>6, <1>7
  <2> QED
    BY <1>1, <1>8, <2>1 DEF Giving
<1>9. CASE ~world.managed
  <2>1. file' = models'
    <3>1. EscapeConfig = [m \in DOMAIN models |-> models[m]]
      BY <1>9 DEF EscapeConfig
    <3> QED
      BY <1>1, <3>1 DEF Counted
  <2>2. mounts' = <<>> /\ ToSet(mounts') = {}
    BY <1>1, <1>9, NoVolumes DEF Discovering
  <2>3. extras' = Nothing
    BY <1>4, <2>1, <2>2 DEF Nothing, x0, env0
  <2> QED
    BY <1>1, <1>9, <2>3 DEF Giving
<1> QED
  BY <1>8, <1>9

LEMMA HeadAndTail ==
  ASSUME NEW S, NEW s \in Seq(S), s # <<>>
  PROVE  Head(s) \in S /\ ToSet(s) = {Head(s)} \cup ToSet(Tail(s))
<1>1. Tail(s) \in Seq(S) /\ Len(Tail(s)) = Len(s) - 1 /\ Len(s) \in Nat
      /\ Len(s) # 0 /\ Head(s) = s[1]
      /\ \A i \in 1..(Len(s) - 1) : Tail(s)[i] = s[i + 1]
  OBVIOUS
<1>2. DOMAIN s = 1..Len(s) /\ DOMAIN Tail(s) = 1..(Len(s) - 1)
  BY <1>1
<1>3. ASSUME NEW i \in 1..Len(s) PROVE s[i] \in {Head(s)} \cup ToSet(Tail(s))
  <2>1. CASE i = 1
    BY <1>1, <2>1
  <2>2. CASE i # 1
    <3>1. i - 1 \in 1..(Len(s) - 1) /\ (i - 1) + 1 = i
      BY <1>1, <2>2
    <3>2. Tail(s)[i - 1] = s[i]
      BY <1>1, <3>1
    <3> QED
      BY <1>2, <3>1, <3>2 DEF ToSet
  <2> QED
    BY <2>1, <2>2
<1>4. Head(s) \in S /\ Head(s) \in ToSet(s) /\ ToSet(Tail(s)) \subseteq ToSet(s)
  BY TailElements
<1> QED
  BY <1>2, <1>3, <1>4 DEF ToSet

LEMMA ResolveCredGiving ==
  ASSUME IsWorld(world), MadeUpTo(world, made, Len(world.containers)), Built,
         Ordinary(world), Resolved, Giving, faults \in Nat, faults' = 0,
         NEW ok \in BOOLEAN, ResolveCred(ok)
  PROVE  Giving'
<1> DEFINE c == Head(creds)
<1>1. /\ pc = "creds" /\ creds # <<>> /\ creds' = Tail(creds)
      /\ UNCHANGED <<pc, world, models, mounts, made, file>>
      /\ Inspect(ok, c.id \notin left)
      /\ ok => IF c.kind = "env" THEN ResolveEnv(c) ELSE ResolveFile(c)
  BY DEF ResolveCred
<1>2. IF c.kind = "env" THEN ResolveEnv(c) ELSE ResolveFile(c)
  BY <1>1, WithoutFaults
<1>3. creds \in Seq(AllCreds)
  BY DEF Resolved, AllCreds
<1>4. c \in AllCreds /\ ToSet(creds) = {c} \cup ToSet(creds')
  BY <1>1, <1>3, HeadAndTail
<1> HIDE DEF c
<1>5. c.kind \in {"env", "file"}
  BY <1>4 DEF AllCreds, CredsOf, CredOf
<1>6. PICK C \in SUBSET AllCreds : /\ C \cup ToSet(creds) = AllCreds
                                   /\ extras = WithCreds(world, Started, C)
  BY <1>1 DEF Giving
<1>7. \A a, b \in AllCreds : a.var = b.var => a = b
  BY VarsDiffer
<1>8. Started.exports = {}
  BY DEF Started
<1>9. extras' = WithCreds(world, Started, C \cup {c})
  BY <1>2, <1>4, <1>5, <1>6, <1>7, <1>8, CredAdded
<1>10. Started' = Started /\ AllCreds' = AllCreds
  BY <1>1 DEF Started, AllCreds, CredsOf
<1>11. C \cup {c} \in SUBSET AllCreds' /\ (C \cup {c}) \cup ToSet(creds') = AllCreds'
       /\ extras' = WithCreds(world', Started', C \cup {c})
  BY <1>1, <1>4, <1>6, <1>9, <1>10
<1> QED
  BY <1>1, <1>11 DEF Giving

LEMMA EndPassGiving ==
  ASSUME Giving, EndPass
  PROVE  Giving'
<1>1. /\ pc = "creds" /\ creds = <<>> /\ pc' = "done"
      /\ UNCHANGED <<world, models, mounts, made, file, extras>>
  BY DEF EndPass, buildVars, volumeVars, outVars
<1>2. world.managed
      /\ \E C \in SUBSET AllCreds : /\ C \cup ToSet(creds) = AllCreds
                                    /\ extras = WithCreds(world, Started, C)
  BY <1>1 DEF Giving
<1>3. extras = WithCreds(world, Started, AllCreds)
  BY <1>1, <1>2, NoVolumes
<1>4. Started' = Started /\ AllCreds' = AllCreds
  BY <1>1 DEF Started, AllCreds, CredsOf
<1> QED
  BY <1>1, <1>2, <1>3, <1>4 DEF Giving
-----------------------------------------------------------------------------
(* What discovery and credentials give is the outcome of the world.        *)
LEMMA FileOfWorld ==
  ASSUME IsWorld(world), MadeUpTo(world, made, Len(world.containers)),
         \A m \in DOMAIN made : Dests(m) = MountsOf(world, m),
         DOMAIN models = DOMAIN made, pc = "done", Written, Discovering
  PROVE  /\ file = FileWritten(world)
         /\ \A m \in DOMAIN models : models[m] = FinalTree(world, m)
<1>1. /\ DOMAIN made = ModelNames(world)
      /\ \A m \in DOMAIN made : made[m].tree = TreeMade(world, m)
  BY MakersOfWorld
<1>2. ASSUME NEW m \in DOMAIN made
      PROVE  models[m] = FinalTree(world, m)
  <2>1. CASE world.managed
    <3>1. models[m] = RelocatedTree(m)
      BY <2>1 DEF Discovering
    <3> QED
      BY <1>1, <2>1, <3>1 DEF RelocatedTree, ArchivedTree, FinalTree
  <2>2. CASE ~world.managed
    BY <1>1, <2>2 DEF Discovering, FinalTree
  <2> QED
    BY <2>1, <2>2
<1>3. file = EscapeConfig
  BY DEF Written
<1>4. EscapeConfig = [m \in DOMAIN models |->
                        IF world.managed THEN EscapedTree(models[m])
                        ELSE models[m]]
  BY DEF EscapeConfig, EscapedTree
<1> QED
  BY <1>1, <1>2, <1>3, <1>4 DEF FileWritten

LEMMA ExtrasOfWorld ==
  ASSUME IsWorld(world), MadeUpTo(world, made, Len(world.containers)), Built,
         \A m \in DOMAIN made : Dests(m) = MountsOf(world, m),
         pc = "done", Written, Counted, Discovering, Giving
  PROVE  extras = ExtrasOf(world)
<1>1. CASE ~world.managed
  BY <1>1 DEF Giving, ExtrasOf
<1>2. CASE world.managed
  <2>1. /\ DOMAIN made = ModelNames(world) /\ DOMAIN models = DOMAIN made
        /\ \A m \in DOMAIN made : made[m].tree = TreeMade(world, m)
    BY MakersOfWorld DEF Built
  <2>2. /\ file = FileWritten(world)
        /\ \A m \in DOMAIN models : models[m] = FinalTree(world, m)
    BY <2>1, FileOfWorld
  <2>3. models = [m \in ModelNames(world) |-> FinalTree(world, m)]
    BY <2>1, <2>2 DEF Counted
  <2>4. MountsForArchives \cup MountsForDatabases(DOMAIN made)
          = UNION {FoundMounts(world, m) : m \in ModelNames(world)}
    <3> DEFINE A(m) == ArchiveMounts(made[m].tree, Dests(m), m)
               D(m) == DatabaseMounts(ArchivedTree(m), Dests(m), m)
    <3>1. \A m \in DOMAIN made : FoundMounts(world, m) = A(m) \cup D(m)
      BY <2>1 DEF FoundMounts, ArchivedTree
    <3>2. /\ MountsForArchives = UNION {A(m) : m \in DOMAIN made}
          /\ MountsForDatabases(DOMAIN made) = UNION {D(m) : m \in DOMAIN made}
      BY DEF MountsForArchives, MountsForDatabases
    <3> HIDE DEF A, D
    <3> QED
      BY <2>1, <3>1, <3>2
  <2>5. ToSet(mounts) = MountsNeeded(world)
    BY <1>2, <2>4 DEF Discovering, MountsNeeded
  <2>6. Started = [mounts |-> MountsNeeded(world), env |-> SentinelOf(world),
                   exports |-> {}]
    BY <2>2, <2>3, <2>5 DEF Started, SentinelOf
  <2>7. AllCreds = CredsIn(world)
    BY CredsOfWorld
  <2> QED
    BY <1>2, <2>6, <2>7 DEF Giving, ExtrasOf
<1> QED
  BY <1>1, <1>2

LEMMA PassGivesOutcome ==
  ASSUME IInv, Counted, Following, pc = "done", Discovering, Giving
  PROVE  <<file, extras>> = Outcome(world)
<1>1. IsWorld(world) /\ Built /\ Written /\ Owned /\ DOMAIN models = DOMAIN made
  BY DEF IInv, Reads, Built
<1>2. /\ MadeUpTo(world, made, Len(world.containers))
      /\ OwnedUpTo(world, owner, Len(world.containers))
  BY DEF Following, Building, Owning
<1>3. \A m \in DOMAIN made : Dests(m) = MountsOf(world, m)
  BY <1>1, <1>2, OwnersOfWorld DEF Owned
<1>4. file = FileWritten(world)
  BY <1>1, <1>2, <1>3, FileOfWorld
<1>5. extras = ExtrasOf(world)
  BY <1>1, <1>2, <1>3, ExtrasOfWorld
<1> QED
  BY <1>4, <1>5 DEF Outcome

(* An action of a pass, but for labels and models.                         *)
LEMMA DiscoveringNext ==
  ASSUME IInv, IInv', Counted, Following, Ordinary(world), faults' = 0,
         pc' \notin {"list", "build"},
         pc \notin {"list", "build"} => Discovering /\ Giving, [Next]_vars
  PROVE  Discovering' /\ Giving'
<1>1. IsWorld(world) /\ Reads /\ Built /\ Built' /\ Discovered /\ Resolved
      /\ Finite /\ Owned /\ Located
  BY DEF IInv, Reads
<1>2. pc \notin {"list", "build"} =>
        Ready /\ MadeUpTo(world, made, Len(world.containers))
  BY <1>1, ReadyWorld DEF Following, Building
<1>3. faults \in Nat
  BY DEF Counted
<1>4. CASE StartDiscovery
  <2>1. pc' \in {"archive", "write"}
    BY <1>4 DEF StartDiscovery
  <2> QED
    BY <1>1, <1>4, <2>1, StartDiscoveryDiscovering DEF Giving
<1>5. CASE \E m \in left, ok \in BOOLEAN : DiscoverArchive(m, ok)
  <2>1. PICK m \in left, ok \in BOOLEAN : DiscoverArchive(m, ok)
    BY <1>5
  <2>2. pc = "archive" /\ pc' = pc
    BY <2>1 DEF DiscoverArchive, Walk
  <2> QED
    BY <1>1, <1>3, <2>1, <2>2, DiscoverArchiveDiscovering DEF Giving
<1>6. CASE \E m \in left, ok \in BOOLEAN : DiscoverSqlite(m, ok)
  <2>1. PICK m \in left, ok \in BOOLEAN : DiscoverSqlite(m, ok)
    BY <1>6
  <2>2. pc = "sqlite" /\ pc' = pc
    BY <2>1 DEF DiscoverSqlite, Walk
  <2> QED
    BY <1>1, <1>2, <1>3, <2>1, <2>2, DiscoverSqliteDiscovering DEF Giving
<1>7. CASE ApplyArchiveVolumes
  <2>1. pc = "archive" /\ pc' = "sqlite"
    BY <1>7 DEF ApplyArchiveVolumes
  <2> QED
    BY <1>1, <1>2, <1>7, <2>1, ApplyArchiveDiscovering DEF Giving
<1>8. CASE DedupMounts
  <2>1. pc = "sqlite" /\ pc' = "write"
    BY <1>8 DEF DedupMounts
  <2> QED
    BY <1>1, <1>2, <1>8, <2>1, DedupDiscovering DEF Giving
<1>9. CASE WriteConfig
  <2>1. /\ pc = "write" /\ pc' \in {"creds", "done"}
        /\ UNCHANGED <<world, owner, made, models, mounts>>
    BY <1>9 DEF WriteConfig, labelVars, buildVars, volumeVars
  <2> QED
    BY <1>1, <1>9, <2>1, DiscoveringKept, WriteConfigGiving
<1>10. CASE \E ok \in BOOLEAN : ResolveCred(ok)
  <2>1. PICK ok \in BOOLEAN : ResolveCred(ok)
    BY <1>10
  <2>2. /\ pc = "creds" /\ pc' = "creds"
        /\ UNCHANGED <<world, owner, made, models, mounts>>
    BY <2>1 DEF ResolveCred, labelVars
  <2> QED
    BY <1>1, <1>2, <1>3, <2>1, <2>2, DiscoveringKept, ResolveCredGiving
<1>11. CASE EndPass
  <2>1. /\ pc = "creds" /\ pc' = "done"
        /\ UNCHANGED <<world, owner, made, models, mounts>>
    BY <1>11 DEF EndPass, labelVars, buildVars, volumeVars
  <2> QED
    BY <1>11, <2>1, DiscoveringKept, EndPassGiving
<1>12. CASE UNCHANGED vars
  <2>1. /\ UNCHANGED <<world, pc, left, owner, made, models, mounts, volumes,
                       extras, file, creds>>
    BY <1>12 DEF vars, labelVars, buildVars, volumeVars, outVars
  <2>2. Discovering'
    BY <2>1, SameFinds DEF Discovering
  <2>3. Started' = Started /\ AllCreds' = AllCreds
    BY <2>1 DEF Started, AllCreds, CredsOf
  <2> QED
    BY <2>1, <2>2, <2>3 DEF Giving
<1>13. CASE \/ \E p \in left : ReadMeta(p) \/ ReadCredRef(p) \/ ReadSetting(p)
            \/ EndContainer \/ LoadProfiles \/ BuildModel \/ NextPass
  BY <1>13 DEF ReadMeta, ReadCredRef, ReadSetting, Reading, EndContainer,
               LoadProfiles, BuildModel, NextPass
<1> QED
  BY <1>4, <1>5, <1>6, <1>7, <1>8, <1>9, <1>10, <1>11, <1>12, <1>13 DEF Next
-----------------------------------------------------------------------------
(* Passes over one world: each gives its outcome.                          *)
LEMMA SameWorld ==
  ASSUME [Next]_vars PROVE UNCHANGED world
BY DEF Next, ReadMeta, ReadCredRef, ReadSetting, Reading, EndContainer,
       LoadProfiles, BuildModel, StartDiscovery, DiscoverArchive,
       DiscoverSqlite, ApplyArchiveVolumes, DedupMounts, WriteConfig,
       ResolveCred, EndPass, NextPass, vars

LEMMA FaultsStay ==
  ASSUME Counted, [Next]_vars, faults' = 0
  PROVE  faults = 0 \/ pc' = "list"
<1>1. CASE \E m \in left, ok \in BOOLEAN : DiscoverArchive(m, ok)
  BY <1>1 DEF DiscoverArchive, Inspect, Counted
<1>2. CASE \E m \in left, ok \in BOOLEAN : DiscoverSqlite(m, ok)
  <2>1. PICK m \in left, ok \in BOOLEAN : DiscoverSqlite(m, ok)
    BY <1>2
  <2>2. Inspect(ok, SqliteDbs(models[m]) # {})
    BY <2>1 DEF DiscoverSqlite
  <2> QED
    BY <2>2 DEF Inspect, Counted
<1>3. CASE \E ok \in BOOLEAN : ResolveCred(ok)
  BY <1>3 DEF ResolveCred, Inspect, Counted
<1>4. CASE NextPass
  BY <1>4 DEF NextPass
<1>5. CASE \/ \E p \in left : ReadMeta(p) \/ ReadCredRef(p) \/ ReadSetting(p)
           \/ EndContainer \/ LoadProfiles \/ BuildModel \/ StartDiscovery
           \/ ApplyArchiveVolumes \/ DedupMounts \/ WriteConfig \/ EndPass
           \/ UNCHANGED vars
  BY <1>5 DEF ReadMeta, ReadCredRef, ReadSetting, Reading, EndContainer,
              LoadProfiles, BuildModel, StartDiscovery, ApplyArchiveVolumes,
              DedupMounts, WriteConfig, EndPass, vars, volumeVars
<1> QED
  BY <1>1, <1>2, <1>3, <1>4, <1>5 DEF Next

LEMMA OutcomeInvInit == Init => OutcomeInv
<1> SUFFICES ASSUME Init PROVE OutcomeInv
  OBVIOUS
<1>1. IsWorld(world)
  BY ConfigPassAssumption DEF Init
<1>2. Following
  BY <1>1, FollowingStarts DEF Init, Starting
<1>3. Counted
  BY NoModels DEF Init, Counted
<1> QED
  BY <1>2, <1>3 DEF Init, OutcomeInv, Determined

LEMMA OutcomeInvNext == IInv /\ IInv' /\ OutcomeInv /\ [Next]_vars => OutcomeInv'
<1> SUFFICES ASSUME IInv, IInv', OutcomeInv, [Next]_vars PROVE OutcomeInv'
  OBVIOUS
<1>1. Counted'
  BY CountedNext DEF OutcomeInv
<1>2. /\ world' = world
      /\ ClearLabels(world)' <=> ClearLabels(world)
      /\ Ordinary(world)' <=> Ordinary(world)
      /\ Ordinary(world) => ClearLabels(world)
  BY SameWorld DEF Ordinary
<1>3. ClearLabels(world)' => Following'
  BY <1>2, FollowingNext DEF IInv, OutcomeInv, Determined
<1>4. ASSUME pc' \notin {"list", "build"}, faults' = 0, Ordinary(world)'
      PROVE  Discovering' /\ Giving'
  <2>1. faults = 0 /\ Following
    BY <1>2, <1>4, FaultsStay DEF OutcomeInv, Determined
  <2>2. pc \notin {"list", "build"} => Discovering /\ Giving
    BY <1>2, <1>4, <2>1 DEF OutcomeInv, Determined
  <2> QED
    BY <1>2, <1>4, <2>1, <2>2, DiscoveringNext DEF OutcomeInv
<1>5. Determined'
  BY <1>3, <1>4 DEF Determined
<1> QED
  BY <1>1, <1>5 DEF OutcomeInv

LEMMA OutcomeInvariance == Spec => [](IInv /\ OutcomeInv)
<1>1. Init => OutcomeInv
  BY OutcomeInvInit
<1>2. IInv /\ IInv' /\ OutcomeInv /\ [Next]_vars => OutcomeInv'
  BY OutcomeInvNext
<1> QED
  BY <1>1, <1>2, ConfigPassInvariance, PTL DEF Spec

(* What a pass without failures gives is a function of labels, profiles    *)
(* and mounts.                                                             *)
THEOREM PassesDetermined == Spec => []OutcomeOfWorld
<1>1. IInv /\ OutcomeInv => OutcomeOfWorld
  <2> SUFFICES ASSUME IInv, OutcomeInv, pc = "done", faults = 0, Ordinary(world)
               PROVE  <<file, extras>> = Outcome(world)
    BY DEF OutcomeOfWorld
  <2>1. Following /\ Discovering /\ Giving
    BY DEF OutcomeInv, Determined, Ordinary
  <2> QED
    BY <2>1, PassGivesOutcome DEF OutcomeInv
<1> QED
  BY <1>1, OutcomeInvariance, PTL
=============================================================================
