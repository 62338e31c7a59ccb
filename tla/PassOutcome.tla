---------------------------- MODULE PassOutcome ----------------------------
(***************************************************************************)
(* What a pass of ConfigPass gives as a function of its world: nothing in  *)
(* it is walked in an order but the list of containers.                    *)
(***************************************************************************)
EXTENDS ConfigPass

(* What some labels of a container give.                                   *)
MetaAt(labels, read, key) ==
  IF <<key>> \in read THEN labels[<<key>>] ELSE <<>>
EnabledAt(w, labels, read) ==
  IF <<"enable">> \in read THEN ParseBool(labels[<<"enable">>], w.exposed)
  ELSE w.exposed
CredKeys(labels) == {p \in DOMAIN labels : IsCredRef(p)}
RefAt(labels, p) == CredRef(p, labels[p])
TreeOf(c) == LabelTree(Settings(c.labels), c.labels)

Contributing(w, c) ==
  LET instance == MetaAt(c.labels, DOMAIN c.labels, "instance")
  IN /\ EnabledAt(w, c.labels, DOMAIN c.labels) /\ DOMAIN TreeOf(c) # {}
     /\ \/ w.instance = <<>> \/ instance = <<>> \/ instance = w.instance

NameOf(w, c) ==
  LET name == MetaAt(c.labels, DOMAIN c.labels, "name")
  IN IF name # <<>> THEN name
     ELSE IF w.host # <<>> THEN c.name \o <<"-">> \o w.host ELSE c.name

(* The model of a container.                                               *)
DataOf(w, c) ==
  [field \in Fields |-> CASE field = "{{.Model}}"     -> NameOf(w, c)
                          [] field = "{{.Container}}" -> c.name
                          [] field = "{{.Host}}"      -> w.host
                          [] field = "{{.Instance}}"  -> w.instance]
MergedOf(w, c) ==
  LET profile == MetaAt(c.labels, DOMAIN c.labels, "profile")
      name == IF profile = <<>> THEN <<"default">> ELSE profile
      base == IF name \in DOMAIN w.profiles THEN w.profiles[name] ELSE Empty
  IN PruneOptOut(DeepMerge(base, TreeOf(c)))
BaseOf(w, c) == CoerceTree(ExpandTemplates(MergedOf(w, c), DataOf(w, c)))

(* References at once, at paths of which none is above another.            *)
WithRefs(t, P, m) ==
  LET over == UNION {Above(p) : p \in P}
  IN [q \in DOMAIN t \cup over \cup P |->
        IF q \in P THEN Text(Reference(CredVarName(m, q)))
        ELSE IF q \in over THEN Map ELSE t[q]]
CredPathsOf(c) == {RefAt(c.labels, p).path : p \in CredKeys(c.labels)}
ModelOf(w, c) == WithRefs(BaseOf(w, c), CredPathsOf(c), NameOf(w, c))

PathsDiffer(labels, K) ==
  \A p, q \in K : RefAt(labels, p).path = RefAt(labels, q).path => p = q
Modelled(w, c) ==
  LET profile == MetaAt(c.labels, DOMAIN c.labels, "profile")
  IN /\ Contributing(w, c)
     /\ profile = <<>> \/ profile \in DOMAIN w.profiles
     /\ ~IsBroken(MergedOf(w, c), DataOf(w, c))
     /\ \A p \in CredKeys(c.labels) :
          /\ c.labels[p] # <<>>
          /\ RefAt(c.labels, p).path \notin DOMAIN BaseOf(w, c)
     /\ PathsDiffer(c.labels, CredKeys(c.labels))
     /\ ValidModel(ModelOf(w, c))

(* The first container of a name makes the model, the last one is asked    *)
(* for its volumes.                                                        *)
Making(w, m) == {i \in DOMAIN w.containers :
                   /\ Modelled(w, w.containers[i])
                   /\ NameOf(w, w.containers[i]) = m}
Claiming(w, m) == {i \in DOMAIN w.containers :
                     /\ Contributing(w, w.containers[i])
                     /\ NameOf(w, w.containers[i]) = m}
Maker(w, m) == w.containers[CHOOSE i \in Making(w, m) :
                              \A j \in Making(w, m) : i <= j]
OwnerOf(w, m) == w.containers[CHOOSE i \in Claiming(w, m) :
                                \A j \in Claiming(w, m) : j <= i]
ModelNames(w) ==
  {NameOf(w, w.containers[i]) :
     i \in {j \in DOMAIN w.containers : Modelled(w, w.containers[j])}}

(* Discovery, of a model t with the mounts D.                              *)
Found(t, D) == Only(LAMBDA p : IsMounted(D, p), StringsAt(t, Includes))
Archived(t, D, m) ==
  LET found == Found(t, D)
  IN IF StringsAt(t, Includes) = <<>> THEN t
     ELSE WithStrings(
            WithStrings(t, Includes,
                        [i \in DOMAIN found |-> Transformed(m, found[i])]),
            Excludes, StringsAt(t, Excludes))
DbPathOf(t, db) == t[DbPath(db)].val[1]
DbsFound(t, D) == {db \in SqliteDbs(t) : IsMounted(D, DbPathOf(t, db))}
Relocate(t, D, m) ==
  [p \in DOMAIN t |-> IF \E db \in DbsFound(t, D) : p = DbPath(db)
                      THEN Text(Transformed(m, DbPathOf(t, p[2]))) ELSE t[p]]
ArchiveMounts(t, D, m) ==
  {ResolvePathMount(D, m, p, TRUE) : p \in ToSet(Found(t, D))}
DatabaseMounts(t, D, m) ==
  {ResolvePathMount(D, m, DbPathOf(t, db), FALSE) : db \in DbsFound(t, D)}
Preferred(S) ==
  {d \in S : d.readOnly => ~\E e \in S : e.target = d.target /\ ~e.readOnly}

(* The models, the mounts they need, the file and the extras.              *)
MountsOf(w, m) == DestMap(OwnerOf(w, m).mounts)
TreeMade(w, m) == ModelOf(w, Maker(w, m))
FinalTree(w, m) ==
  IF w.managed
  THEN Relocate(Archived(TreeMade(w, m), MountsOf(w, m), m), MountsOf(w, m), m)
  ELSE TreeMade(w, m)
FoundMounts(w, m) ==
  ArchiveMounts(TreeMade(w, m), MountsOf(w, m), m)
    \cup DatabaseMounts(Archived(TreeMade(w, m), MountsOf(w, m), m),
                        MountsOf(w, m), m)
EscapedTree(t) == [p \in DOMAIN t |-> OnTexts(EscapeBareDollars, t[p])]
FileWritten(w) ==
  [m \in ModelNames(w) |-> IF w.managed THEN EscapedTree(FinalTree(w, m))
                           ELSE FinalTree(w, m)]

(* What one credential adds.                                               *)
EnvOfCred(c, client) ==
  IF c.kind = "env" /\ c.ref \in DOMAIN client.env
  THEN {[var |-> c.var, val |-> client.env[c.ref]]} ELSE {}
SourceOfCred(c, client) ==
  LET dests == DestMap(client.mounts)
  IN MountSource(dests[FindMountForPath(c.ref, dests)])
IsServed(c, client) ==
  /\ c.kind = "file" /\ IsMounted(DestMap(client.mounts), c.ref)
  /\ SourceOfCred(c, client) # <<>>
SecretTarget(c) == SecretsRoot \o c.var
MountsOfCred(c, client) ==
  IF IsServed(c, client)
  THEN {[type |-> "bind", source |-> SourceOfCred(c, client),
         target |-> SecretTarget(c), readOnly |-> TRUE]} ELSE {}
ExportsOfCred(c, client) ==
  IF IsServed(c, client) THEN {[var |-> c.var, path |-> SecretTarget(c)]}
  ELSE {}
HolderOf(w, c) == CHOOSE d \in ToSet(w.containers) : d.id = c.id
WithCreds(w, x, C) ==
  [mounts |-> x.mounts \cup UNION {MountsOfCred(c, HolderOf(w, c)) : c \in C},
   env |-> x.env \cup UNION {EnvOfCred(c, HolderOf(w, c)) : c \in C},
   exports |-> x.exports
                 \cup UNION {ExportsOfCred(c, HolderOf(w, c)) : c \in C}]

CredsIn(w) ==
  UNION {{CredOf(RefAt(Maker(w, m).labels, p), m, Maker(w, m).id) :
            p \in CredKeys(Maker(w, m).labels)} : m \in ModelNames(w)}
SentinelOf(w) ==
  IF FileWritten(w) # [m \in ModelNames(w) |-> FinalTree(w, m)]
  THEN {[var |-> <<"GB_DOLLAR">>, val |-> <<"$">>]} ELSE {}
MountsNeeded(w) == Preferred(UNION {FoundMounts(w, m) : m \in ModelNames(w)})
ExtrasOf(w) ==
  IF ~w.managed THEN Nothing
  ELSE WithCreds(w, [mounts |-> MountsNeeded(w), env |-> SentinelOf(w),
                     exports |-> {}], CredsIn(w))

(* Worlds without what makes the order matter: labels below one another,   *)
(* model names with a "/", and names that are alike once sanitized.        *)
ClearLabels(w) ==
  \A c \in ToSet(w.containers) :
    Clear(Settings(c.labels)) /\ Clear(CredLabels(c.labels))
Ordinary(w) ==
  /\ ClearLabels(w)
  /\ \A n \in ModelNames(w) : "/" \notin ToSet(n)
  /\ \A m, n \in ModelNames(w) :
       \A p \in CredPathsOf(Maker(w, m)), q \in CredPathsOf(Maker(w, n)) :
         Joined(m, p) = Joined(n, q) => <<m, p>> = <<n, q>>
Outcome(w) == <<FileWritten(w), ExtrasOf(w)>>

(* Whatever order a pass without failures walks labels, models and the     *)
(* databases of a model in, its file, mounts, variables and secrets are    *)
(* the outcome of its world, an ordinary one (Parse,                       *)
(* processArchiveVolumes, sqliteMountsForModel, dedupMountsByTarget,       *)
(* resolveCreds).  The order secrets are exported in is no part of the     *)
(* outcome: passes differ in it, see RecreatedForChangesOnly of EngineSpec.*)
(* Which container a name stands for that two claim is as the code has it. *)
OutcomeOfWorld ==
  pc = "done" /\ faults = 0 /\ Ordinary(world)
    => <<file, extras>> = Outcome(world)
-----------------------------------------------------------------------------
(* Invariants.                                                             *)

(* What has been read, of a container with labels, those in read.          *)
RefsRead(refs, labels, K) ==
  /\ refs \in Seq(ToSet(refs))
  /\ ToSet(refs) = {RefAt(labels, p) : p \in K}
  /\ (\A i, j \in DOMAIN refs : refs[i].path = refs[j].path => i = j)
       <=> PathsDiffer(labels, K)
ReadSoFar(w, x, labels, read) ==
  /\ x.enabled = EnabledAt(w, labels, read)
  /\ \A key \in {"name", "instance", "profile"} :
       x[key] = MetaAt(labels, read, key)
  /\ RefsRead(x.refs, labels, CredKeys(labels) \cap read)
ReadWhole(src, c) ==
  /\ src.container = c.name /\ src.id = c.id
  /\ \A key \in {"name", "profile"} :
       src[key] = MetaAt(c.labels, DOMAIN c.labels, key)
  /\ src.tree = TreeOf(c)
  /\ RefsRead(src.refs, c.labels, CredKeys(c.labels))

Place(w, id) == CHOOSE i \in DOMAIN w.containers : w.containers[i].id = id

(* The sources still to build from: those of the containers in low+1..high *)
(* that contribute, in order.                                              *)
Queued(w, srcs, low, high) ==
  /\ \A j \in DOMAIN srcs :
       LET i == Place(w, srcs[j].id)
       IN /\ i \in (low + 1)..high /\ Contributing(w, w.containers[i])
          /\ ReadWhole(srcs[j], w.containers[i])
  /\ \A i \in (low + 1)..high :
       Contributing(w, w.containers[i])
         => \E j \in DOMAIN srcs : Place(w, srcs[j].id) = i
  /\ \A j, k \in DOMAIN srcs :
       j < k => Place(w, srcs[j].id) < Place(w, srcs[k].id)

OwnedUpTo(w, owners, high) ==
  /\ DOMAIN owners =
       {NameOf(w, w.containers[i]) :
          i \in {j \in 1..high : Contributing(w, w.containers[j])}}
  /\ \A m \in DOMAIN owners : \E i \in Claiming(w, m) :
       /\ i <= high /\ owners[m] = w.containers[i].id
       /\ \A j \in Claiming(w, m) : j <= high => j <= i
MadeUpTo(w, built, low) ==
  /\ DOMAIN built = {NameOf(w, w.containers[i]) :
                       i \in {j \in 1..low : Modelled(w, w.containers[j])}}
  /\ \A m \in DOMAIN built : \E i \in Making(w, m) :
       /\ i <= low /\ \A j \in Making(w, m) : i <= j
       /\ ReadWhole(built[m].src, w.containers[i])
       /\ built[m].tree = ModelOf(w, w.containers[i])

(* Reading, building, and what is left to discovery.                       *)
High == Len(world.containers) - Len(listed)
Listing ==
  pc = "list" =>
    /\ High \in Nat /\ made = <<>> /\ creds = <<>>
    /\ \A i \in DOMAIN listed : listed[i] = world.containers[High + i]
    /\ Queued(world, sources, 0, High)
    /\ listed # <<>> =>
         LET labels == Head(listed).labels
         IN ReadSoFar(world, parsed, labels, DOMAIN labels \ left)
Building ==
  LET n == Len(world.containers)
  IN /\ pc = "build" => \E low \in 0..n : /\ Queued(world, sources, low, n)
                                        /\ MadeUpTo(world, made, low)
     /\ pc \notin {"list", "build"} => MadeUpTo(world, made, n)
Owning ==
  OwnedUpTo(world, owner, IF pc = "list" THEN High ELSE Len(world.containers))
AllCreds == CredsOf("env") \cup CredsOf("file")
Asking == pc \notin {"creds", "done"} => ToSet(creds) = AllCreds
Following == Listing /\ Building /\ Owning /\ Asking

(* Discovery, without failures.                                            *)
VolumeOf(m, t, D) ==
  LET found == Found(t, D)
  IN [model |-> m,
      mounts |-> FirstBy(LAMBDA d : d.target,
                   [i \in DOMAIN found |->
                      ResolvePathMount(D, m, found[i], TRUE)]),
      includes |-> [i \in DOMAIN found |-> Transformed(m, found[i])],
      excludes |-> StringsAt(t, Excludes)]
VolumeFor(m) == VolumeOf(m, made[m].tree, Dests(m))
HasVolume(m) == /\ StringsAt(made[m].tree, Includes) # <<>>
                /\ VolumeFor(m).includes \o VolumeFor(m).excludes # <<>>
ArchivedTree(m) == Archived(made[m].tree, Dests(m), m)
RelocatedTree(m) == Relocate(ArchivedTree(m), Dests(m), m)
MountsForArchives ==
  UNION {ArchiveMounts(made[m].tree, Dests(m), m) : m \in DOMAIN made}
MountsForDatabases(M) ==
  UNION {DatabaseMounts(ArchivedTree(m), Dests(m), m) : m \in M}
Discovering ==
  /\ pc = "archive" =>
       /\ world.managed
       /\ ToSet(volumes) = {VolumeFor(m) : m \in {n \in DOMAIN made \ left :
                                                 HasVolume(n)}}
  /\ pc = "sqlite" =>
       /\ world.managed
       /\ ToSet(mounts) = MountsForArchives
                            \cup MountsForDatabases(DOMAIN made \ left)
       /\ \A m \in DOMAIN made :
            models[m] = IF m \in left THEN ArchivedTree(m)
                        ELSE RelocatedTree(m)
  /\ pc \in {"write", "creds", "done"} =>
       IF world.managed
       THEN /\ ToSet(mounts) =
                 Preferred(MountsForArchives
                             \cup MountsForDatabases(DOMAIN made))
            /\ \A m \in DOMAIN made : models[m] = RelocatedTree(m)
       ELSE mounts = <<>> /\ \A m \in DOMAIN made : models[m] = made[m].tree

(* What is written, and credentials.                                       *)
Started == [mounts |-> ToSet(mounts),
            env |-> IF file # models
                    THEN {[var |-> <<"GB_DOLLAR">>, val |-> <<"$">>]} ELSE {},
            exports |-> {}]
Giving ==
  /\ pc = "creds" =>
       /\ world.managed
       /\ \E C \in SUBSET AllCreds : /\ C \cup ToSet(creds) = AllCreds
                                     /\ extras = WithCreds(world, Started, C)
  /\ pc = "done" =>
       extras = IF world.managed THEN WithCreds(world, Started, AllCreds)
                ELSE Nothing

(* Whatever order a pass without failures takes, this is what it gives.    *)
Determined ==
  /\ ClearLabels(world) => Following
  /\ pc \notin {"list", "build"} /\ faults = 0 /\ Ordinary(world)
       => Discovering /\ Giving

(* Failures are counted, and models are a map.                             *)
Counted == faults \in Nat /\ models = [m \in DOMAIN models |-> models[m]]

(* Inductive with IInv: a pass without failures is on its way to the       *)
(* outcome of its world (Run).                                             *)
OutcomeInv == Counted /\ Determined
=============================================================================
