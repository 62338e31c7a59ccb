----------------------------- MODULE ConfigPass -----------------------------
(***************************************************************************)
(* One pass from the containers' labels to gobackup.yml and to what the    *)
(* engine must be given for it (internal/labels/parse.go; internal/render; *)
(* internal/pipeline/reconcile.go: render, processArchiveVolumes,          *)
(* processSqliteVolumes, resolveCreds; volumes.go).                        *)
(*                                                                         *)
(* A label is a key path after "gobackup." and a text.  What varies from   *)
(* pass to pass is the order Go walks its maps in, labels and models, and  *)
(* which inspects fail; what is read in a pass is a world, see Worlds.     *)
(* When passes run is ReconcileLoop, how the file is written ConfigWriter, *)
(* how the engine is replaced EngineReplacement.                           *)
(***************************************************************************)
EXTENDS Trees, DollarEscape, VolumePaths

CONSTANTS
  Worlds,      \* [managed, exposed, host, instance, profiles, containers]
  CredSuffix,  \* last keys of credential labels, to [key, kind]
  Upper,       \* letters in lower case, to those in upper case
  Protected,   \* keys coerceScalar takes for identifiers, secrets or hosts
  Ints,        \* texts of canonical integers
  Bools,       \* texts of booleans in any case, to those in lower case
  Templates,   \* template tokens
  MaxFaults    \* inspects that fail in a pass

Fields == {"{{.Model}}", "{{.Container}}", "{{.Host}}", "{{.Instance}}"}

(* What Docker shows of a container: labels that are not empty after       *)
(* "gobackup.", and mounts at absolute destinations, one at each; it       *)
(* refuses a mount at "/".                                                 *)
IsContainer(c) ==
  /\ c.name \in Seq(Token)
  /\ \A p \in DOMAIN c.labels : p \in Path /\ c.labels[p] \in Seq(Token)
  /\ \A d, e \in DOMAIN c.mounts :
       /\ d \in Seq(Token) /\ d[1] = "/" /\ Trim(d) # <<>>
       /\ Trim(d) = Trim(e) => d = e

(* A list of them, each with an id of its own, and profiles as decoded     *)
(* from YAML.                                                              *)
IsWorld(w) ==
  /\ w.containers \in Seq(ToSet(w.containers))
  /\ \A i, j \in DOMAIN w.containers :
       w.containers[i].id = w.containers[j].id => i = j
  /\ {w.host, w.instance} \subseteq Seq(Token)
  /\ \A c \in ToSet(w.containers) : IsContainer(c)
  /\ \A n \in DOMAIN w.profiles :
       WellFormed(w.profiles[n]) /\ IsFiniteSet(DOMAIN w.profiles[n])

(* Credentials are passwords, tokens and the like (credKeys).              *)
ASSUME ConfigPassAssumption ==
  /\ \A w \in Worlds : IsWorld(w)
  /\ \A k \in DOMAIN CredSuffix :
       CredSuffix[k] \in [key : Token \ {"path", "includes", "excludes"},
                          kind : {"env", "file"}]
  /\ \A k \in DOMAIN Upper : Upper[k] \in Token \ Marks
  /\ \A b \in DOMAIN Bools : Bools[b] \in Seq(Token)
  /\ "GB" \notin Marks \cup Digits \cup Letters
  /\ "_" \notin Marks /\ "/" \in Marks
  /\ Fields \subseteq Templates

VARIABLES
  world, pc,
  listed,   \* containers to come; the labels of the first are being read
  left,     \* its labels, or the models, that a walk has not come to yet;
            \* at the end the clients resolveCreds has inspected
  parsed,   \* what its labels have given so far
  sources,  \* contributions to build models from
  owner,    \* modelToContainer
  profiles, \* defaults.yml as decoded
  models,   \* the configuration, by model name
  creds,    \* credentials to resolve
  volumes,  \* what discovery has found for archives
  mounts,   \* mounts the engine needs for them and for sqlite
  extras,   \* mounts, environment and exports to give the engine; their
            \* order is left to EngineSpec
  file,     \* gobackup.yml
  faults,
  made      \* history: the source of each model, and the model as built

labelVars == <<listed, parsed, sources, owner>>
buildVars == <<profiles, models, creds, made>>
volumeVars == <<volumes, mounts, faults>>
outVars == <<extras, file>>
vars == <<world, pc, left, labelVars, buildVars, volumeVars, outVars>>

Nothing == [mounts |-> {}, env |-> {}, exports |-> {}]
Fresh(w) == [enabled |-> w.exposed, name |-> <<>>, instance |-> <<>>,
             profile |-> <<>>, tree |-> Empty, refs |-> <<>>]
LabelsOf(cs) == IF cs = <<>> THEN {} ELSE DOMAIN Head(cs).labels
Client(id) == CHOOSE c \in ToSet(world.containers) : c.id = id

(* A Go map with one key set.                                              *)
Put(f, key, value) ==
  [k \in DOMAIN f \cup {key} |-> IF k = key THEN value ELSE f[k]]

Init ==
  /\ world \in Worlds /\ pc = "list"
  /\ listed = world.containers /\ left = LabelsOf(listed)
  /\ parsed = Fresh(world) /\ sources = <<>> /\ owner = <<>>
  /\ profiles = <<>> /\ models = <<>> /\ creds = <<>> /\ volumes = <<>>
  /\ mounts = <<>> /\ extras = Nothing /\ file = <<>> /\ faults = 0
  /\ made = <<>>
-----------------------------------------------------------------------------
(* Labels.                                                                 *)

ParseBool(text, fallback) ==
  IF text \in {<<w>> : w \in {"true", "1", "yes", "on", "enable", "enabled"}}
  THEN TRUE
  ELSE IF text \in {<<w>> : w \in {"false", "0", "no", "off", "disable",
                                   "disabled"}}
  THEN FALSE ELSE fallback

MetaKeys == {<<"enable">>, <<"name">>, <<"instance">>, <<"profile">>}
IsCredRef(p) == Len(p) > 1 /\ Last(p) \in DOMAIN CredSuffix
CredRef(p, text) ==
  [path |-> Append(Front(p), CredSuffix[Last(p)].key),
   kind |-> CredSuffix[Last(p)].kind, ref |-> text]

Reading(p) ==
  /\ pc = "list" /\ p \in left /\ left' = left \ {p}
  /\ UNCHANGED <<world, pc, listed, sources, owner, buildVars, volumeVars,
                 outVars>>

ReadMeta(p) ==
  LET text == Head(listed).labels[p]
  IN /\ Reading(p) /\ p \in MetaKeys
     /\ parsed' =
          IF p = <<"enable">>
          THEN [parsed EXCEPT !.enabled = ParseBool(text, world.exposed)]
          ELSE [parsed EXCEPT ![p[1]] = text]

ReadCredRef(p) ==
  /\ Reading(p) /\ p \notin MetaKeys /\ IsCredRef(p)
  /\ parsed' = [parsed EXCEPT
                  !.refs = Append(@, CredRef(p, Head(listed).labels[p]))]

ReadSetting(p) ==
  /\ Reading(p) /\ p \notin MetaKeys /\ ~IsCredRef(p)
  /\ parsed' = [parsed EXCEPT
                  !.tree = SetPath(@, p, Text(Head(listed).labels[p]))]

ModelName(container, custom) ==
  IF custom # <<>> THEN custom
  ELSE IF world.host # <<>> THEN container \o <<"-">> \o world.host
  ELSE container

Contributes(p) ==
  /\ p.enabled /\ DOMAIN p.tree # {}
  /\ \/ world.instance = <<>> \/ p.instance = <<>>
     \/ p.instance = world.instance

(* The next container of the list; its model's name is taken over from any *)
(* container before it.                                                    *)
EndContainer ==
  LET c == Head(listed)
      name == ModelName(c.name, parsed.name)
  IN /\ pc = "list" /\ listed # <<>> /\ left = {}
     /\ IF Contributes(parsed)
        THEN /\ owner' = Put(owner, name, c.id)
             /\ sources' = Append(sources,
                  [container |-> c.name, id |-> c.id, name |-> parsed.name,
                   profile |-> parsed.profile, tree |-> parsed.tree,
                   refs |-> parsed.refs])
        ELSE UNCHANGED <<owner, sources>>
     /\ listed' = Tail(listed) /\ left' = LabelsOf(listed')
     /\ parsed' = Fresh(world)
     /\ UNCHANGED <<world, pc, buildVars, volumeVars, outVars>>

LoadProfiles ==
  /\ pc = "list" /\ listed = <<>>
  /\ profiles' = world.profiles /\ pc' = "build"
  /\ UNCHANGED <<world, left, labelVars, models, creds, made, volumeVars,
                 outVars>>
-----------------------------------------------------------------------------
(* Models (internal/render).                                               *)

ProfileName(src) == IF src.profile = <<>> THEN <<"default">> ELSE src.profile
HasProfile(src) == src.profile = <<>> \/ src.profile \in DOMAIN profiles
Inherited(ps, src) ==
  IF ProfileName(src) \in DOMAIN ps THEN ps[ProfileName(src)] ELSE Empty

HasTexts(node) == node.kind \in {"text", "list"}
OnTexts(Op(_), node) ==
  IF ~HasTexts(node) THEN node
  ELSE [kind |-> node.kind,
        val |-> [i \in DOMAIN node.val |-> Op(node.val[i])]]

Data(src, name) ==
  [field \in Fields |-> CASE field = "{{.Model}}"     -> name
                          [] field = "{{.Container}}" -> src.container
                          [] field = "{{.Host}}"      -> world.host
                          [] field = "{{.Instance}}"  -> world.instance]

(* A template that names no field is an error.                             *)
IsBroken(t, data) ==
  \E p \in DOMAIN t : /\ HasTexts(t[p])
                      /\ \E text \in ToSet(t[p].val) :
                           ToSet(text) \cap (Templates \ DOMAIN data) # {}

ExpandText(text, data) ==
  FlattenSeq([i \in DOMAIN text |->
    IF text[i] \in DOMAIN data THEN data[text[i]] ELSE <<text[i]>>])
ExpandNode(node, data) == OnTexts(LAMBDA text : ExpandText(text, data), node)
ExpandTemplates(t, data) == [p \in DOMAIN t |-> ExpandNode(t[p], data)]

IsArrayField(p) ==
  \/ p \in {<<"archive", "includes">>, <<"archive", "excludes">>}
  \/ /\ Len(p) = 3 /\ p[1] = "databases"
     /\ p[3] \in {"tables", "exclude_tables", "exclude_tables_prefix",
                  "skip_databases", "endpoints"}

(* What stands between commas, less the spaces around it, if anything.     *)
SplitCSV(text) ==
  LET last == Len(text) + 1
      ends == {i \in DOMAIN text : text[i] = ","} \cup {last}
      solid(i) ==
        {k \in DOMAIN text : /\ k < i /\ text[k] # " "
                             /\ \A j \in k..(i - 1) : text[j] # ","}
  IN FlattenSeq([i \in 1..last |->
       IF i \notin ends \/ solid(i) = {} THEN <<>>
       ELSE <<SubSeq(text, Min(solid(i)), Max(solid(i)))>>])

CoerceScalar(key, text) ==
  IF text \in DOMAIN Bools THEN [kind |-> "bool", val |-> <<Bools[text]>>]
  ELSE IF key \notin Protected /\ text \in Ints
  THEN [kind |-> "int", val |-> <<text>>]
  ELSE Text(text)

CoerceNode(p, node) ==
  IF node.kind # "text" THEN node
  ELSE IF IsArrayField(p) THEN List(SplitCSV(node.val[1]))
  ELSE CoerceScalar(Last(p), node.val[1])
CoerceTree(t) == [p \in DOMAIN t |-> CoerceNode(p, t[p])]

SanitizeVar(text) ==
  [i \in DOMAIN text |-> IF text[i] \in DOMAIN Upper THEN Upper[text[i]]
                         ELSE IF IsName(text[i]) THEN text[i] ELSE "_"]

(* Deviation: the model's name is left out.                                *)
CredVarNameOfPath(model, path) ==
  <<"GB">> \o FlattenSeq([i \in DOMAIN path |->
                            <<"_">> \o SanitizeVar(<<path[i]>>)])

CredVarName(model, path) ==
  <<"GB", "_">> \o SanitizeVar(model)
    \o FlattenSeq([i \in DOMAIN path |->
                     <<"_">> \o SanitizeVar(<<path[i]>>)])

Reference(var) == <<"$", Open>> \o var \o <<Close>>

(* Each reference in turn: an empty one, or one for a key the model has    *)
(* already, fails the model.                                               *)
CredOf(r, model, id) ==
  [var |-> CredVarName(model, r.path), kind |-> r.kind, ref |-> r.ref,
   id |-> id]
WithCred(acc, r, model, id) ==
  IF ~acc.ok \/ r.ref = <<>> \/ r.path \in DOMAIN acc.tree
  THEN [acc EXCEPT !.ok = FALSE]
  ELSE [ok |-> TRUE,
        tree |-> SetPath(acc.tree, r.path,
                         Text(Reference(CredVarName(model, r.path)))),
        creds |-> Append(acc.creds, CredOf(r, model, id))]
SubstituteCreds(tree, refs, model, id) ==
  LET after[i \in 0..Len(refs)] ==
        IF i = 0 THEN [ok |-> TRUE, tree |-> tree, creds |-> <<>>]
        ELSE WithCred(after[i - 1], refs[i], model, id)
  IN after[Len(refs)]

(* Deviation: the profile is merged into, not a copy of it.                *)
KeptAliased(profile, merged) == merged

(* deepCopy: what a profile is once a source was merged over it.           *)
Kept(profile, merged) == profile

(* One source of BuildWithCreds.  The first model of a name stays.         *)
BuildModel ==
  LET src    == Head(sources)
      name   == ModelName(src.container, src.name)
      merged == PruneOptOut(DeepMerge(Inherited(profiles, src), src.tree))
      data   == Data(src, name)
      model  == SubstituteCreds(CoerceTree(ExpandTemplates(merged, data)),
                                src.refs, name, src.id)
  IN /\ pc = "build" /\ sources # <<>> /\ sources' = Tail(sources)
     /\ profiles' = [n \in DOMAIN profiles |->
                       IF n = ProfileName(src) THEN Kept(profiles[n], merged)
                       ELSE profiles[n]]
     /\ IF /\ HasProfile(src) /\ ~IsBroken(merged, data) /\ model.ok
           /\ ValidModel(model.tree) /\ name \notin DOMAIN models
        THEN /\ models' = Put(models, name, model.tree)
             /\ creds' = creds \o model.creds
             /\ made' = Put(made, name, [src |-> src, tree |-> model.tree])
        ELSE UNCHANGED <<models, creds, made>>
     /\ UNCHANGED <<world, pc, left, listed, parsed, owner, volumeVars,
                    outVars>>
-----------------------------------------------------------------------------
(* Volumes.  The volumes of a model are looked for in its owner.           *)

StartDiscovery ==
  /\ pc = "build" /\ sources = <<>>
  /\ pc' = IF world.managed THEN "archive" ELSE "write"
  /\ left' = IF world.managed THEN DOMAIN models ELSE {}
  /\ UNCHANGED <<world, labelVars, buildVars, volumeVars, outVars>>

Includes == <<"archive", "includes">>
Excludes == <<"archive", "excludes">>
StringsAt(t, p) ==   \* toStrSlice
  IF p \in DOMAIN t /\ t[p].kind \in {"list", "strings"} THEN t[p].val
  ELSE <<>>

Dests(m) == DestMap(Client(owner[m]).mounts)

Walk(phase, m) == pc = phase /\ m \in left /\ left' = left \ {m}

(* An inspect; needed says whether the code makes one.                     *)
Inspect(ok, needed) ==
  /\ ok \/ (needed /\ faults < MaxFaults)
  /\ faults' = IF ok THEN faults ELSE faults + 1

(* discoverArchiveVolumes: excludes count only with includes.              *)
DiscoverArchive(m, ok) ==
  LET includes == StringsAt(models[m], Includes)
      dests    == Dests(m)
      found    == Only(LAMBDA p : IsMounted(dests, p), includes)
      all      == [i \in DOMAIN found |->
                     ResolvePathMount(dests, m, found[i], TRUE)]
      volume   == [model |-> m, mounts |-> FirstBy(LAMBDA d : d.target, all),
                   includes |-> [i \in DOMAIN found |->
                                   Transformed(m, found[i])],
                   excludes |-> StringsAt(models[m], Excludes)]
  IN /\ Walk("archive", m) /\ Inspect(ok, includes # <<>>)
     /\ volumes' = IF ok /\ includes # <<>>
                      /\ volume.includes \o volume.excludes # <<>>
                   THEN Append(volumes, volume) ELSE volumes
     /\ UNCHANGED <<world, pc, labelVars, buildVars, mounts, outVars>>

WithStrings(t, p, texts) ==
  IF texts = <<>> THEN t ELSE SetPath(t, p, Strings(texts))

(* Deviation: a volume is mounted once, whatever models want it.           *)
MountKeyBySource(d) == d.source

MountKey(d) == <<d.source, d.target>>

ApplyArchiveVolumes ==
  LET rewritten(m) ==
        LET own == {v \in ToSet(volumes) : v.model = m}
            v   == CHOOSE v \in own : TRUE
        IN IF own = {} THEN models[m]
           ELSE WithStrings(WithStrings(models[m], Includes, v.includes),
                            Excludes, v.excludes)
  IN /\ pc = "archive" /\ left = {} /\ pc' = "sqlite"
     /\ left' = DOMAIN models
     /\ models' = [m \in DOMAIN models |-> rewritten(m)]
     /\ mounts' = FirstBy(MountKey,
                    FlattenSeq([i \in DOMAIN volumes |-> volumes[i].mounts]))
     /\ UNCHANGED <<world, labelVars, profiles, creds, made, volumes, faults,
                    outVars>>

DbPath(db) == <<"databases", db, "path">>
SqliteDbs(t) ==
  {db \in {p[2] : p \in {q \in DOMAIN t : Len(q) = 3}} :
     LET type == <<"databases", db, "type">>
     IN /\ type \in DOMAIN t /\ t[type] = Text(<<"sqlite">>)
        /\ IsText(t, DbPath(db)) /\ t[DbPath(db)].val[1] # <<>>
        /\ ~IsPrefix(VolumesRoot, t[DbPath(db)].val[1])}

(* processSqliteVolumes and sqliteMountsForModel for one model, whose       *)
(* databases are walked in any order.                                      *)
DiscoverSqlite(m, ok) ==
  LET t      == models[m]
      dbs    == SqliteDbs(t)
      dests  == Dests(m)
      path(db) == t[DbPath(db)].val[1]
      found  == {db \in dbs : IsMounted(dests, path(db))}
      add(order) == [i \in DOMAIN order |->
                       ResolvePathMount(dests, m, path(order[i]), FALSE)]
      moved  == [p \in DOMAIN t |->
                   IF \E db \in found : p = DbPath(db)
                   THEN Text(Transformed(m, path(p[2]))) ELSE t[p]]
  IN /\ Walk("sqlite", m) /\ Inspect(ok, dbs # {})
     /\ IF ok
        THEN /\ models' = [models EXCEPT ![m] = moved]
             /\ \E order \in SetToSeqs(found) :
                  mounts' = mounts \o FirstBy(LAMBDA d : d.target, add(order))
        ELSE UNCHANGED <<models, mounts>>
     /\ UNCHANGED <<world, pc, labelVars, profiles, creds, made, volumes,
                    outVars>>

DedupMounts ==
  /\ pc = "sqlite" /\ left = {} /\ pc' = "write"
  /\ mounts' = DedupMountsByTarget(mounts)
  /\ UNCHANGED <<world, left, labelVars, buildVars, volumes, faults, outVars>>
-----------------------------------------------------------------------------
(* The file, and what the engine needs for it.                             *)

(* Only a managed engine can be given the sentinel.                        *)
EscapeConfig ==
  [m \in DOMAIN models |->
     IF world.managed
     THEN [p \in DOMAIN models[m] |-> OnTexts(EscapeBareDollars, models[m][p])]
     ELSE models[m]]

WriteConfig ==
  /\ pc = "write" /\ pc' = IF world.managed THEN "creds" ELSE "done"
  /\ file' = EscapeConfig
  /\ extras' = [extras EXCEPT
       !.mounts = ToSet(mounts),
       !.env = IF file' # models THEN {[var |-> <<"GB_DOLLAR">>,
                                        val |-> <<"$">>]} ELSE {}]
  /\ UNCHANGED <<world, left, labelVars, buildVars, volumeVars>>

ResolveEnv(c) ==
  LET env == Client(c.id).env
  IN extras' = IF c.ref \notin DOMAIN env THEN extras
               ELSE [extras EXCEPT !.env = @ \cup
                       {[var |-> c.var, val |-> env[c.ref]]}]

SecretsRoot == <<"/gobackup-secrets/">>
ResolveFile(c) ==
  LET dests  == DestMap(Client(c.id).mounts)
      source == MountSource(dests[FindMountForPath(c.ref, dests)])
      target == SecretsRoot \o c.var
  IN IF \/ ~IsMounted(dests, c.ref)
        \/ source = <<>>
        \/ \E e \in extras.exports : e.var = c.var
     THEN UNCHANGED extras
     ELSE extras' = [extras EXCEPT
            !.mounts = @ \cup {[type |-> "bind", source |-> source,
                                target |-> target, readOnly |-> TRUE]},
            !.exports = @ \cup {[var |-> c.var, path |-> target]}]

(* resolveCreds, one credential; what cannot be resolved is left out.      *)
ResolveCred(ok) ==
  LET c == Head(creds)
  IN /\ pc = "creds" /\ creds # <<>> /\ creds' = Tail(creds)
     /\ Inspect(ok, c.id \notin left)
     /\ left' = IF ok THEN left \cup {c.id} ELSE left
     /\ IF ~ok THEN UNCHANGED extras
        ELSE IF c.kind = "env" THEN ResolveEnv(c) ELSE ResolveFile(c)
     /\ UNCHANGED <<world, pc, labelVars, profiles, models, made, volumes,
                    mounts, file>>

EndPass ==
  /\ pc = "creds" /\ creds = <<>> /\ pc' = "done"
  /\ UNCHANGED <<world, left, labelVars, buildVars, volumeVars, outVars>>

(* Another pass over the same world: other orders, other faults.           *)
NextPass ==
  /\ pc = "done" /\ pc' = "list" /\ UNCHANGED world
  /\ listed' = world.containers /\ left' = LabelsOf(listed')
  /\ parsed' = Fresh(world) /\ sources' = <<>> /\ owner' = <<>>
  /\ profiles' = <<>> /\ models' = <<>> /\ creds' = <<>> /\ volumes' = <<>>
  /\ mounts' = <<>> /\ extras' = Nothing /\ file' = <<>> /\ faults' = 0
  /\ made' = <<>>

Next ==
  \/ \E p \in left : ReadMeta(p) \/ ReadCredRef(p) \/ ReadSetting(p)
  \/ EndContainer \/ LoadProfiles \/ BuildModel \/ StartDiscovery
  \/ \E m \in left, ok \in BOOLEAN :
       DiscoverArchive(m, ok) \/ DiscoverSqlite(m, ok)
  \/ ApplyArchiveVolumes \/ DedupMounts \/ WriteConfig
  \/ \E ok \in BOOLEAN : ResolveCred(ok)
  \/ EndPass \/ NextPass

Spec == Init /\ [][Next]_vars
-----------------------------------------------------------------------------
(* Properties.                                                             *)

(* The labels of a container that are settings, and those read so far.     *)
Settings(labels) == {p \in DOMAIN labels : p \notin MetaKeys /\ ~IsCredRef(p)}
SettingsRead == {p \in Settings(Head(listed).labels) : p \notin left}

(* No label is set on a key that others are set below.                     *)
Clear(S) == \A p, q \in S : IsPrefix(p, q) => p = q

LabelTree(S, labels) ==
  [p \in UNION {Above(q) \cup {q} : q \in S} |->
     IF p \in S THEN Text(labels[p]) ELSE Map]

(* Whatever order the map of labels is walked in, the tree has exactly the *)
(* labels read, each at its path, unless one is a prefix of another        *)
(* (labels.Parse, setPath).                                                *)
ParsedAsLabelled ==
  pc = "list" /\ listed # <<>> /\ Clear(Settings(Head(listed).labels))
    => parsed.tree = LabelTree(SettingsRead, Head(listed).labels)

(* The leaves a source asks for: its own, those of its profile that are    *)
(* not in their way, less what is opted out of, and its credentials.       *)
Related(p, q) == IsPrefix(p, q) \/ IsPrefix(q, p)
Origin(src) ==
  LET base == Inherited(world.profiles, src)
  IN [p \in Leaves(src.tree) \cup
            {q \in Leaves(base) : \A o \in Leaves(src.tree) : ~Related(o, q)}
        |-> IF p \in DOMAIN src.tree THEN src.tree[p] ELSE base[p]]
CredPaths(src) == {r.path : r \in ToSet(src.refs)}
CredLeaves(src) ==
  {c \in CredPaths(src) : \A d \in CredPaths(src) : IsPrefix(c, d) => c = d}
DeclaredLeaves(src) ==
  {p \in DOMAIN Origin(src) : Origin(src)[p] # OptOut
     /\ \A c \in CredPaths(src) : ~Related(c, p)} \cup CredLeaves(src)

(* A model has the leaves its own container and its profile declare, no    *)
(* more and no fewer: nothing of another container, of another profile, or *)
(* of an earlier merge into the same profile (deepCopy, deepMerge,         *)
(* pruneOptOut, substituteCreds; discovery and escaping keep them).        *)
ModelsAsDeclared ==
  \A m \in DOMAIN models : Leaves(models[m]) = DeclaredLeaves(made[m].src)

(* What is written is what gobackup accepts: it rejects the whole file for *)
(* one model without storages, or without databases and archive            *)
(* (validateModel, before discovery and escaping rewrite the model).       *)
Has(t, key, least) == \E p \in DOMAIN t : Len(p) >= least /\ p[1] = key
Accepted ==
  \A m \in DOMAIN models :
    /\ Has(models[m], "storages", 2)
    /\ Has(models[m], "databases", 2) \/ Has(models[m], "archive", 1)

(* The text gobackup ends up with, after os.ExpandEnv, means what its      *)
(* label or profile says (EscapeConfig).  Templates, rewritten paths and   *)
(* credentials have another text by design; booleans and integers have no  *)
(* '$'.  Left out: lists that discovery rewrote ("strings"), which are not *)
(* escaped although README.md:349-360 promises any '$' in any value.       *)
Items(p, node) ==
  IF node.kind = "text" /\ IsArrayField(p) THEN SplitCSV(node.val[1])
  ELSE node.val
Given(node, i) == node.val[IF node.kind = "text" THEN 1 ELSE i]
IsPlain(text) == ToSet(text) \cap Templates = {}
ValuesSurvive ==
  \A m \in DOMAIN file : world.managed =>
    LET origin == Origin(made[m].src)
    IN \A p \in (DOMAIN origin \cap DOMAIN file[m]) \ CredPaths(made[m].src) :
         LET items == Items(p, origin[p])
         IN HasTexts(file[m][p]) => \A i \in DOMAIN items :
              IsPlain(Given(origin[p], i))
                /\ ~IsPrefix(VolumesRoot, models[m][p].val[i])
                => ExpandEnv(file[m][p].val[i]) = Meaning(items[i])

(* What a path names where some paths are mounted over: the mount with the *)
(* longest of the paths above it, and the rest of the way.                 *)
Covers(dst, path) == IsPrefix(Trim(dst) \o <<"/">>, Trim(path) \o <<"/">>)
NotMounted == << <<"not mounted">>, <<>> >>
FileAt(mounted, path) ==
  LET over == {d \in mounted : Covers(d.at, path)}
      top  == CHOOSE d \in over :
                \A e \in over : Len(Trim(e.at)) <= Len(Trim(d.at))
  IN IF over = {} THEN NotMounted
     ELSE <<top.source, SubSeq(Trim(path), Len(Trim(top.at)) + 1,
                               Len(Trim(path)))>>
InEngine(path) ==
  FileAt({[at |-> d.target, source |-> d.source] : d \in extras.mounts},
         path)
InClient(m, path) ==
  LET mnt == Client(made[m].src.id).mounts
  IN FileAt({[at |-> d, source |-> MountSource(mnt[d])] : d \in DOMAIN mnt},
            path)

(* Two containers claim the name, or a model's name has a "/" in it: paths *)
(* of two models can then collide (README.md:177 says they never do).      *)
Contested(m) ==
  owner[m] # made[m].src.id \/ \E n \in DOMAIN models : "/" \in ToSet(n)

(* A path that was rewritten names in the engine the file the original     *)
(* names in the model's own container, all includes on a mount are there   *)
(* when any was rewritten, and the mount of a sqlite database can be       *)
(* written to although an archive mounts it read-only (findMountForPath,   *)
(* resolvePathMount, applyArchiveVolumes, dedupMountsByTarget).  A tmpfs   *)
(* is never shared.  Left out: archives no include of which is on a mount, *)
(* whose paths stay as they are (the design document, 4.4, omits them).    *)
SameFile(m, old, new) ==
  /\ new = Transformed(m, old)
  /\ InClient(m, old)[1] # <<>> => InEngine(new) = InClient(m, old)
SameArchives(m) ==
  LET old == StringsAt(made[m].tree, Includes)
      new == StringsAt(models[m], Includes)
  IN new # old =>
       /\ \A i \in DOMAIN new :
            \E j \in DOMAIN old : SameFile(m, old[j], new[i])
       /\ \A j \in DOMAIN old : Contains(new, Transformed(m, old[j]))
                                 \/ InClient(m, old[j]) = NotMounted
SameDatabases(m) ==
  \A p \in Leaves(made[m].tree) :
    LET old == made[m].tree[p].val[1]  new == models[m][p].val[1]
    IN p[1] = "databases" /\ IsText(models[m], p) /\ new # old =>
         /\ SameFile(m, old, new)
         /\ \E d \in extras.mounts : Covers(d.target, new) /\ ~d.readOnly
SameFiles ==
  pc \in {"creds", "done"} =>
    \A m \in DOMAIN models :
      Contested(m) \/ (SameArchives(m) /\ SameDatabases(m))

(* A placeholder in the file gets its value from the container whose label *)
(* asked for it: the variable has that container's value, or the secret's  *)
(* own file behind it (substituteCreds, resolveCreds).  Left out: names    *)
(* that are alike once sanitized, which the comment at render/model.go:137 *)
(* calls collision-proof, and a file below a mounted directory.            *)
Joined(m, path) ==
  SanitizeVar(m) \o FlattenSeq([i \in DOMAIN path |->
                                  <<"_">> \o SanitizeVar(<<path[i]>>)])
Alike(m, path) ==
  \E n \in DOMAIN made : \E q \in CredPaths(made[n].src) :
    <<n, q>> # <<m, path>> /\ Joined(n, q) = Joined(m, path)
OwnValue(src, var, r) ==
  LET c == Client(src.id)
  IN IF r.kind = "env"
     THEN \A e \in extras.env :
            e.var = var => r.ref \in DOMAIN c.env /\ e.val = c.env[r.ref]
     ELSE \A e \in extras.exports :
            e.var = var /\ r.ref \in DOMAIN c.mounts
            => \E d \in extras.mounts :
                 d.target = e.path /\ d.source = MountSource(c.mounts[r.ref])
CredentialsOwn ==
  \A m \in DOMAIN file : \A r \in ToSet(made[m].src.refs) :
    LET var == CredVarName(m, r.path)
    IN /\ r.path \in CredLeaves(made[m].src)
            => file[m][r.path] = Text(Reference(var))
       /\ Alike(m, r.path) \/ OwnValue(made[m].src, var, r)

(* Where the labels of a container put credentials.                        *)
CredLabels(labels) ==
  {CredRef(p, labels[p]).path : p \in {q \in DOMAIN labels : IsCredRef(q)}}

(* Docker refuses to create a container with two mounts at one path, and   *)
(* by then the old engine is gone.  No two mounts a pass asks for share a  *)
(* target, of one model or of several, archive, database or secret, and    *)
(* each is at a place that mergeMounts has cleared (dedupMountsByTarget,   *)
(* resolveCreds, isManagedMount).  Left out: model names that are no path  *)
(* as it stands ("a/", "a/../b"), which Docker cleans.                     *)
IsManagedMount(target) ==
  IsPrefix(VolumesRoot, target) \/ IsPrefix(SecretsRoot, target)
MountsFit ==
  pc \in {"creds", "done"} =>
    /\ \A i, j \in DOMAIN mounts :
         Trim(mounts[i].target) = Trim(mounts[j].target) => i = j
    /\ \A d, e \in extras.mounts : Trim(d.target) = Trim(e.target) => d = e
    /\ \A d \in extras.mounts : IsManagedMount(d.target)

(* Docker binds host paths only.  Credentials whose secret has no host     *)
(* source are left out (reconcile.go:240-244, README.md "Notes & limits"); *)
(* resolveCreds asks mountSource, which gives a volume's name.             *)
SecretsHaveHostSource ==
  \A d \in extras.mounts : d.type = "bind" => d.source[1] = "/"

(* What labels give: a tree of texts without empty maps, and references.   *)
IsSource(src) ==
  /\ WellFormed(src.tree) /\ Filled(src.tree)
  /\ src.refs \in Seq([path : Path, kind : {"env", "file"},
                       ref : Seq(Token)])
  /\ \A r \in ToSet(src.refs) : Last(r.path) \notin {"path", "includes",
                                                     "excludes"}
  /\ {src.name, src.profile} \subseteq Seq(Token)

IsClient(id) == \E c \in ToSet(world.containers) : c.id = id

(* Reading labels: what is still to come is of the container being read.   *)
Reads ==
  /\ IsWorld(world)
  /\ listed \in Seq(ToSet(world.containers))
  /\ DOMAIN parsed = DOMAIN Fresh(world) /\ IsSource(parsed)
  /\ pc = "list" => left \subseteq LabelsOf(listed)
  /\ ParsedAsLabelled
  /\ sources \in Seq(ToSet(sources))
  /\ \A src \in ToSet(sources) :
       IsSource(src) /\ src.container \in Seq(Token) /\ IsClient(src.id)

(* A model, once built, stays one that validateModel would pass.           *)
Validated == \A m \in DOMAIN models : ValidModel(models[m])

(* Building: profiles stay what was read, and a model is its source's      *)
(* leaves, expanded and coerced, with references for its credentials.      *)
Coerced(node, p, src, m) == CoerceNode(p, ExpandNode(node, Data(src, m)))
IsModel(t, src, m) ==
  /\ WellFormed(t) /\ Leaves(t) = DeclaredLeaves(src)
  /\ \A i, j \in DOMAIN src.refs :
       src.refs[i].path = src.refs[j].path => i = j
  /\ \A c \in CredLeaves(src) : t[c] = Text(Reference(CredVarName(m, c)))
  /\ \A p \in (Leaves(t) \cap DOMAIN Origin(src)) \ CredPaths(src) :
       t[p] = Coerced(Origin(src)[p], p, src, m)
Built ==
  /\ pc # "list" => /\ DOMAIN profiles = DOMAIN world.profiles
                    /\ \A n \in DOMAIN profiles :
                         profiles[n] = world.profiles[n]
  /\ pc \in {"list", "build", "archive"} =>
       \A m \in DOMAIN models : models[m] = made[m].tree
  /\ DOMAIN made = DOMAIN models
  /\ \A m \in DOMAIN made :
       /\ m \in Seq(Token) /\ IsSource(made[m].src)
       /\ IsClient(made[m].src.id)
       /\ IsModel(made[m].tree, made[m].src, m)

(* Discovery sets lists and the paths of databases, and nothing else.      *)
Rewritten(old, new, m) ==
  \/ new = old
  \/ old.kind \in {"list", "strings"} /\ new.kind = "strings"
  \/ old.kind = "text" /\ new = Text(Transformed(m, old.val[1]))
Discovered ==
  /\ \A m \in DOMAIN models : DOMAIN models[m] = DOMAIN made[m].tree
       /\ \A p \in DOMAIN models[m] :
            /\ Rewritten(made[m].tree[p], models[m][p], m)
            /\ Last(p) \in {"path", "includes", "excludes"}
                 \/ models[m][p] = made[m].tree[p]
  /\ pc \in {"list", "build"} => volumes = <<>>
  /\ volumes \in Seq(ToSet(volumes))
  /\ pc = "archive" => \A v \in ToSet(volumes) :
       /\ v.includes = <<>> \/ StringsAt(models[v.model], Includes) # <<>>
       /\ v.excludes = <<>> \/ StringsAt(models[v.model], Excludes) # <<>>

(* The file is the models, escaped, and no file before.                    *)
Written == file = IF pc \in {"creds", "done"} THEN EscapeConfig ELSE <<>>

(* Whom variables and secrets were asked for.                              *)
CredsOf(kind) ==
  UNION {{CredOf(r, m, made[m].src.id) :
            r \in {q \in ToSet(made[m].src.refs) : q.kind = kind}} :
           m \in DOMAIN made}
Resolved ==
  /\ creds \in Seq(CredsOf("env") \cup CredsOf("file"))
  /\ DOMAIN extras = DOMAIN Nothing
  /\ pc \notin {"creds", "done"} => extras = Nothing
  /\ \A e \in extras.env :
       \/ e.var = <<"GB_DOLLAR">>
       \/ \E c \in CredsOf("env") :
            /\ e.var = c.var /\ c.ref \in DOMAIN Client(c.id).env
            /\ e.val = Client(c.id).env[c.ref]
  /\ \A e \in extras.exports : \E c \in CredsOf("file") :
       LET dests == DestMap(Client(c.id).mounts)
       IN /\ e.var = c.var /\ IsMounted(dests, c.ref)
          /\ \E d \in extras.mounts :
               /\ d.target = e.path
               /\ d.source = MountSource(dests[FindMountForPath(c.ref, dests)])

(* Trees are finite, so that databases can be walked.                      *)
Finite ==
  /\ IsFiniteSet(DOMAIN parsed.tree)
  /\ \A src \in ToSet(sources) : IsFiniteSet(DOMAIN src.tree)
  /\ \A m \in DOMAIN made : IsFiniteSet(DOMAIN made[m].tree)

(* Every model has an owner, a container that was listed, and models are   *)
(* what discovery walks.                                                   *)
Owned ==
  /\ pc \in {"archive", "sqlite"} => left \subseteq DOMAIN models
  /\ \A m \in DOMAIN owner : IsClient(owner[m])
  /\ \A src \in ToSet(sources) :
       ModelName(src.container, src.name) \in DOMAIN owner
  /\ DOMAIN models \subseteq DOMAIN owner

(* A mount of the engine is one of an owner's, at the model's own place.   *)
FromOwner(d) ==
  \E m \in DOMAIN models : \E dst \in DOMAIN Dests(m) :
    d.target = Transformed(m, dst) /\ d.source = MountSource(Dests(m)[dst])
Serves(d, m, path) ==
  d.target = Transformed(m, FindMountForPath(path, Dests(m)))

(* The includes that are on a mount, and the mounts for them.              *)
Relocated(m, old, new, S) ==
  LET found == {p \in ToSet(old) : IsMounted(Dests(m), p)}
  IN /\ new \in Seq(ToSet(new))
     /\ ToSet(new) = {Transformed(m, p) : p \in found}
     /\ \A p \in found : \E d \in S : Serves(d, m, p)

(* A path that was moved has its mount, a database's one to write to.      *)
Located ==
  /\ pc \in {"list", "build", "archive"} => mounts = <<>>
  /\ mounts \in Seq(ToSet(mounts))
  /\ \A d \in ToSet(mounts) : FromOwner(d)
  /\ \A v \in ToSet(volumes) :
       /\ v.mounts \in Seq(ToSet(v.mounts))
       /\ \A d \in ToSet(v.mounts) : FromOwner(d)
       /\ Relocated(v.model, StringsAt(made[v.model].tree, Includes),
                 v.includes, ToSet(v.mounts))
  /\ \A m \in DOMAIN models :
       LET old == StringsAt(made[m].tree, Includes)
           new == StringsAt(models[m], Includes)
       IN new = old \/ Relocated(m, old, new, ToSet(mounts))
  /\ \A m \in DOMAIN models : \A p \in DOMAIN models[m] :
       LET old == made[m].tree[p]
       IN p[1] = "databases" => \/ models[m][p] = old
                                \/ /\ models[m][p].val[1]
                                        = Transformed(m, old.val[1])
                                   /\ IsMounted(Dests(m), old.val[1])
                                   /\ \E d \in ToSet(mounts) :
                                        Serves(d, m, old.val[1]) /\ ~d.readOnly

(* The engine gets these mounts, and those of secrets elsewhere.           *)
Equipped ==
  pc \in {"creds", "done"} =>
    /\ ToSet(mounts) \subseteq extras.mounts
    /\ \A d \in extras.mounts \ ToSet(mounts) :
         \E c \in CredsOf("file") :
           d.target = SecretsRoot \o c.var

(* Targets are apart, those of secrets by their variables.                 *)
Fitted ==
  /\ pc \in {"write", "creds", "done"} =>
       \A i, j \in DOMAIN mounts : mounts[i].target = mounts[j].target => i = j
  /\ \A e \in extras.exports : e.path = SecretsRoot \o e.var
  /\ pc \in {"creds", "done"} =>
       /\ \A d \in extras.mounts \ ToSet(mounts) :
            \E e \in extras.exports : d.target = e.path
       /\ \A d, e \in extras.mounts : d.target = e.target => d = e

(* The inductive invariant: labels give their tree in any order, models    *)
(* what their source declares, discovery and the file keep it, what was    *)
(* moved is on a mount, and what the engine is given was asked for.        *)
IInv == Reads /\ Validated /\ Built /\ Discovered /\ Written /\ Resolved
          /\ Finite /\ Owned /\ Located /\ Equipped /\ Fitted
=============================================================================
