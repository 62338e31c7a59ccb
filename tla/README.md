# gobackup-docker in TLA+

gobackup-docker is a supervisor: it reads the labels of the containers that run on
a Docker host, renders `gobackup.yml` from them, and recreates the gobackup engine
container when the volumes, variables or secrets the sources need change. This
directory models what in it is concurrent or can be interrupted, and what a pass
computes, checks it with TLC on small instances and proves its main safety properties
with TLAPS for all of them.
Every definition is translated from the code; `PROJECT.json` maps it to its lines.

## The system

| Component | State it keeps | Operations | Talks to |
|---|---|---|---|
| Reconcile loop (`pipeline/reconcile.go`) | debounce timer, `Status` | `Run`, `reconcile`, `render` | everything below, in this order per pass |
| Engine replacement (`pipeline/manage.go`) | `<output>.container.json`, the recovery record | `ensureGobackupContainer` (twice per pass), `resumeGobackupReplacement` | Docker daemon, file system |
| Config writer (`apply/filewatch.go`) | `gobackup.yml`, `w.last` | `Apply`, `AtomicWrite` | file system, gobackup's own file watch |
| Event watcher (`docker/watcher.go`) | event stream, backoff | `WatchEvents`, `pump` | Docker events, `fire()` |
| Defaults watcher (`pipeline/watchfile.go`) | fsnotify watch | `WatchFile` | `fire()` |
| Wiring (`cmd/gobackup-docker/main.go`) | trigger channel of size one | `fire` | the loop and both watchers |
| Engine spec (`manage.go`, `container/config.go`) | none | `buildGobackupSpec`, `mergeMounts`, `mergeEnv`, `needsRecreate` | pure |
| Credentials (`reconcile.go`, `resolveCreds`) | none | resolve references to variables and mounts | Docker inspect |
| Labels (`labels/parse.go`) | none | `Parse` | pure |
| Model build (`render/`) | none | merge, templates, coercion, validation | pure |
| Volume discovery (`pipeline/volumes.go`) | none | match paths with mounts | Docker inspect |
| Dollar escaping (`render/escape.go`) | none | `EscapeConfig` | pure |
| Web API (`webapi/server.go`) | none | status, proxy | a copy of `Status` |

What is hard, and what must be right:

- *Replacing the engine* is five Docker calls and two file operations, each of which
  can fail, lose its answer, land after the supervisor gave up, or be the last thing
  the process did; the operator acts on the same container meanwhile. An engine taken
  down must come back, as recorded, without touching anybody else's container.
- *Writing the file* must never show a reader half a configuration, across crashes and
  power losses, nor wake gobackup for nothing.
- *The loop* must not lose a wake-up: requests are dropped when the channel is full, events
  when the stream is down, and a failed pass has already consumed its request.
- *Passes* end at the first failure of some steps and log those of others; what they
  leave on file, in the status and in the engine has to agree.
- *The pure parts* walk Go maps, so their results must not depend on the order; they
  edit shared trees in place; and what they write is read by a program with rules of its
  own (every model valid, `os.ExpandEnv` over the whole file, paths that exist in another
  container), so a value must mean there what it meant here.

`PROJECT.json` lists these under `hazards`, each at its line, with the properties that
watch it or the reason why none does yet.

## Modules

| Module | What it is |
|---|---|
| `EngineReplacement` | manage.go with the Docker daemon, the disk, the operator |
| `EngineSwap` | abstract: what replacing the engine promises |
| `ConfigWriter` | filewatch.go with the file system |
| `AtomicFile` | abstract: what an atomic write promises |
| `ReconcileLoop` | reconcile.go, watcher.go, watchfile.go, main.go: who wakes whom |
| `EngineSpec` | manage.go, resolveCreds: what the engine is recreated with, and when |
| `ConfigPass` | one pass from labels to gobackup.yml and to what the engine needs for it |
| `PassOutcome` | what a pass without failures promises: its outcome as a function of its world |
| `Trees` | configuration trees: setPath, deepMerge, pruneOptOut, validateModel |
| `DollarEscape` | escape.go, and os.ExpandEnv on the other side |
| `VolumePaths` | volumes.go: paths, mounts and targets |
| `MC...` | the values of the constants for TLC |
| `...Proofs` | theorems and their proofs |
| `DataInduction` | lemmas on recursive functions over sequences, for the proofs about the pure parts |

The first three detailed modules meet at two seams. `ReconcileLoop` takes `FileWriter.Apply`
as one step (written, nothing to write, failed before or after the rename), which is
what `ConfigWriter` shows of it, and the engine as "a record is left or not, and can be
completed or not", which is `EngineReplacement` seen from its caller. In turn
`EngineReplacement` takes the whole of a pass between its two calls as one step
(`Render`), and `AtomicWrite` of the record as two, the rename and the directory sync:
`ConfigWriter` shows why nothing in between is visible. `EngineSpec` opens what
`EngineReplacement` calls what the engine needs, and takes the replacement as one step.
`ConfigPass` opens what `ReconcileLoop` calls rendering and discovery (`List`,
`ReadDefaults`, `Discover`, `Write`); it ends where `EngineSpec` begins, with the mounts,
variables and exports the engine is to be given.

### EngineReplacement

`slot` is the container holding the engine's name, `wire` the calls whose answer was
lost and that the daemon may still carry out, `record` the recovery record a process
reads and `survives` what a power loss may make of it (a renamed or removed file is
there, but its directory is durable only after a sync). `pc`, `phase`, `pending`,
`target` and `onClear` are the program counter and the locals of
`ensureGobackupContainer`. One action per Docker call or file operation, in the
code's order: `ReadRecord`, `Render`, `FindEngine`, `SaveRecord`, `SyncDirectory`,
`InspectName`, `StopOld`, `RemoveOld`, `CreateNew`, `StartNew`, `ClearRecord`. The
errors the code tolerates (NotFound, NotModified) go on, the others end the pass.
`owed` is history: the supervisor stopped or removed a running engine and has not
started one since; the operator's interventions cancel the debt.

What the engine can need (`Wants`) is a set of cases told apart by `needsRecreate`;
that the comparison itself is stable is the subject of `EngineSpec`. A
variable that is no longer wanted is not something `needsRecreate` tells apart.
`Refused` are the cases of which Docker creates no container, ever. `Render` has three
outcomes: the pass fails; it computes the extras the sources need; or an inspect of a
source fails and is logged only (`reconcile.go:254-258`, `388-392`, `423-427`), so that the
pass goes on with what is left (`Poorer`), and to success. `short` is history: the extras
last computed are such a remainder.

A pass begins only when it is `due`, as in `Run`: after a request (`main`'s first one, a
change of the sources, or any other, `Request`) or by the timer that a failed pass arms.
A pass that ends well arms nothing.
`FindEngine` is two Docker calls (list, inspect) in one step: both only read, and the
container vanishing between them is one of the step's failures.

A call with a lost answer is kept by the daemon as accepted, a create therefore
reserves the name until it lands or the host loses power. Requests still queued
outside the daemon when the supervisor gives up are not modelled.

### ConfigWriter

A file is its bytes and whether they are synced; `survives` as above. Each line of
`AtomicWrite` that can fail is an action. `replaced` is history: whether this process
has replaced the file, or failed halfway past the rename.

### ReconcileLoop

Four activities: the loop's goroutine (`loop`), the event watcher (`watcher`), the
defaults watcher (`watch`) and the world. A configuration is the sources and defaults it
was rendered from and whether discovery succeeded for all of it. Time is counted in ticks
(`timer`, `nap`); no tick passes while the loop has something to receive, because the
goroutine needs no time to do so, but a pass takes as long as it takes while
everything else goes on. go.mod names Go 1.26, where `Timer.Reset` leaves no stale
tick in the channel. `unseen` is history: an edit of defaults.yml that nobody watched.

### EngineSpec

The other modules ask whether a replacement happens as decided; this one what is
decided. The inputs of a pass are what inspect shows of the engine, which an earlier
pass may have built, so errors of one recreation are inputs of the next. `engine`
holds what inspect shows: mounts, environment, command and the label with the base
command; `cfg` is `gobackup_container.*`; `volumes` and `offered` are what the sources ask
for and what their credentials resolve to; `applied` is history: the extras of the last
pass. `Pass` is `ensureGobackupContainer` with no record pending, `Created` the
daemon, which adds the image's variables; the other operators are the functions of
their names in the source (`Overlay` is `mergeEnv`).

A mount is what `mountKey` makes of it. A wrapped command is the sequence of secrets it
exports and the argument list it then executes: the shell text is a function of the two,
and what a bare and a wrapped command have in common is what `baseCommand` must keep
apart. Credential references come in any order (`Orders`), as `labels.Parse` collects
them while ranging over a map. Assumed: the engine has a command; the operator's mounts are
not under `/volumes/` or `/gobackup-secrets/`, his variables not those of credentials; the
supervisor's labels do not change. Image, networks and labels play no part in
`needsRecreate` and are left out.

### ConfigPass

A world is what a pass reads and the pass does not change: the containers with their
labels, mounts and environments, the profiles, the configuration of the supervisor. A pass
takes it through the code's phases (`pc`): reading the labels of each container one at a
time in any order (`ReadMeta`, `ReadCredRef`, `ReadSetting`, `EndContainer`), reading
profiles (`LoadProfiles`), building one source after the other (`BuildModel`), discovery
for archives, model by model in any order (`DiscoverArchive`, then `ApplyArchiveVolumes`)
and for sqlite (`DiscoverSqlite`, models and the databases of each in any order; `DedupMounts`),
writing (`WriteConfig`) and credentials (`ResolveCred`). Any inspect may fail, and what the code then leaves out is left out.
`NextPass` starts again on the same world in other orders. `made` is history: which source
a model was built from, and what it was before discovery.

`PassOutcome` says what such a pass must come to without taking a step: which containers contribute
(`Contributing`), which of those make a model and which owns it (`Maker`, `OwnerOf`), the model of a container
(`ModelOf`), what discovery moves and mounts (`FinalTree`, `MountsNeeded`) and what credentials add (`WithCreds`),
together the file and the extras (`Outcome`). It is written with sets where the code walks a map, so it can only
agree with the code (`OutcomeOfWorld`) if the order is immaterial.

The inputs the proofs quantify over are what `IsWorld` says: containers with ids of their
own and absolute mount destinations, one mount at each and none at `/` (which Docker refuses), labels with a key after
`gobackup.`, texts of tokens, and profiles that are finite trees as YAML decodes them. A credential's key is none of `path`,
`includes` and `excludes` (`ConfigPassAssumption`; `credKeys` in `parse.go` are passwords, tokens and the like).

A tree (`Trees`) is a function from paths to nodes: in the code it is nested maps edited
in place, so what is below a key that is overwritten has to go (`SetPath`, `Hidden`).
Sharing of maps between a profile and a model is the one thing this cannot show by itself:
`BuildModel` therefore says what a profile is after a model was built from it (`Kept`),
which is where a forgotten `deepCopy` shows. A text is a sequence of tokens, each a byte
or a word the code does not look into: `$`, braces, `/` and commas are bytes because the
code looks for them. The texts that count as integers or booleans and the keys that are
credentials or protected are given as sets. A list holds texts. Model names are not escaped
in the code and not here; what discovery writes is a `[]string`, a kind of its own
(`Strings`), because the code's type switch does not walk it.

Where the code does otherwise than one would expect, the properties make an exception, by
name. The first four contradict a document or a comment of the repository (quoted below, under "What the
code does differently"):

- a model name with a `/` (`Contested`): targets of two models can coincide;
- names that are alike once sanitized (`Alike`): one variable for two credentials;
- lists that discovery rewrote are not escaped;
- an include of a model nothing of which is on a mount stays as it is;
- labels on a key that others are set below (`Clear`): the last one walked wins, as the comment
  at `parse.go:132` accepts.

Of two no document speaks: a model name that two containers claim (`Contested`: the first
builds the model, the last is asked for its volumes), and a tmpfs, which is not shared.

But for the tmpfs each is needed: without it TLC finds the code's behaviour.

## Runs

| Run | Bounds | Shows |
|---|---|---|
| `engine_safety` | 2 faults, 1 crash, 1 power loss, 2 moves of the operator, 1 change; 3 cases of needs, one refused by Docker | `RecordWhileOwed`, `StatusHonest`, `OperatorsEngineUntouched`, `KeepsPromise` (refinement of `EngineSwap`), the inductive invariant |
| `engine_liveness` | 1 fault, 1 crash, 1 move, 1 change; 4 cases of needs, one refused by Docker | `RecoveryEnds`, unless the replacement is stuck for good (another container on the name, a create Docker refuses); `Converges`, with that exception and that of a pass that swallowed a failing inspect |
| `writer` | 2 faults, 1 crash, 1 power loss, 3 byte strings, one malformed | `AppliedIsOnFile`, `NoNeedlessReload`, `ReplacesAtomically` (refinement of `AtomicFile`) |
| `loop` | 2 faults, 1 change, 1 edit, 1 move, 1 crash; debounce 1, pause 2, retry 3 ticks | `QuietMeansCurrent`, `SourcesFollowed`, `DefaultsFollowed`, the inductive invariant |
| `engine_spec` | 2 volumes, 1 variable and 2 secrets of credentials, 2 values, 2 commands, labels set or not; passes unbounded | `OperatorsKept`, `AsAsked`, `Stabilizes`, the inductive invariant |
| `config_pass` | 3235 worlds in seven families, 1 failed inspect in a pass; passes unbounded | `ParsedAsLabelled`, `ModelsAsDeclared`, `Accepted`, `ValuesSurvive`, `SameFiles`, `CredentialsOwn`, `OutcomeOfWorld`, `MountsFit`, the inductive invariant |
| `engine_durability`, `engine_stale_extras`, `writer_dedup`, `loop_degraded`, `engine_spec_order`, `config_secrets` | the least that shows it | disagreements between the code and what it says of itself, below |

Why the bounds are enough: two faults let a call lose its answer and the next pass fail
while it is still on the wire; one crash on top of them reaches every pair of program
points; a second intervention of the operator can undo the first (`engine_safety`; the
liveness run has one fault, after which nothing but the code itself keeps the replacement from its
end, and power losses are left to `engine_safety`). One change, during a
pass or after it, covers the stale snapshot. Two byte strings are what "the last
one written" needs to differ from "the one on file". Event stream breaks, failed
connections and failed engine syncs are not bounded at all. The ticks keep the order of
the code's delays (500 ms < 1 s < 5 s), which is what matters: with a debounce that is
not shorter than the reconnect pause, a stream that keeps breaking starves the pass.
Two secrets are the fewest that can be in another order, two values the fewest for a
credential that is rotated.

The worlds of `config_pass` (`MCConfigPass`) are families, each for one question:
`Passwords`, every text of up to four of `$`, `{`, `}`, a letter, a digit and `!`, the least
in which each branch of the reference grammar begins, ends or is cut short; `Merges`, two
containers over one profile with every subset of labels that add, replace, opt out, split
or template, some on a key of another; `Skips`, names, instances, profiles and templates that leave a
container out or make two collide; `Discoveries`, every set of three mounts, two of them
nested, with every two includes and every sqlite path among five, a trailing slash, a look-alike of a
mount and a `$` in the path included; `Neighbours`, two models over one volume or one name; `Secrets`,
credentials of both kinds, of two containers, on a bind, a volume, a tmpfs, above a mount, below one
and not at all; `Doubles`, one model with two sqlite databases and two secrets, whose mounts and
exports come in any order. Passes repeat on one world, in other orders and after failed ones;
each is compared with the outcome that `PassOutcome` computes from the world.
No symmetry set is used: the liveness runs could not, and the others do not need it. `loop`
starts from one source and one defaults file (`MCInit`), as the others differ in name only.
No run turns the deadlock check off: the supervisor never stops.

### Fairness

`EngineReplacement!FairSpec`: weak fairness of the supervisor's steps taken together (a
pass that is due begins and runs to its end) and of
`Land` (the daemon finishes what it has accepted). Nothing brings a pass that is not due:
`Request` is under no obligation. That a due pass begins assumes that requests do not
come faster than the debounce for ever, which would starve it. `ReconcileLoop!FairSpec`: weak
fairness of each goroutine and of time. Docker calls are assumed to return, with an error
if need be: the code gives them no deadline, so a daemon that hangs for ever stops the
supervisor, and no property here says otherwise. Failures, crashes, the operator,
the sources and the recovery of the event stream are under no obligation.

### What the code does differently from what it says

- `engine_durability`: `manage.go:142` promises to persist before anything destructive,
  but a record whose directory sync failed is trusted by the next pass.
- `engine_stale_extras`: stale mounts are dropped (`manage.go:407`) only as long as
  something else is needed; with nothing needed the engine is left as it is.
- `writer_dedup`: `w.last` is not what was last put on file after a write that failed past
  its rename.
- `loop_degraded`: `README.md:224` promises that failures are shown and retried; failed
  inspects during discovery are neither.
- `engine_spec_order`: the engine is recreated when volumes or credentials change
  (`README.md:242`), but also when the secrets of one container come in another order, which
  they do at random: the order is part of the command that is compared.
- `config_secrets`: a secret without a host source is to be skipped (`reconcile.go:241`,
  `README.md:408`); one on a named volume becomes a bind mount of the volume's name, which
  Docker refuses when the old engine is gone.

Without a run of their own, because the models have the behaviour and a property makes an
exception for it, or because it is a matter of wording:

- `README.md:390`: an unresolved credential skips the model; the code writes the model with an
  empty variable, as the comment at `reconcile.go:243` says.
- `README.md:405`: a `_file` credential is read again on each reload; the exports of the command
  run once, when the engine starts.
- `coerce.go:36`: secret-like keys are left as strings; a password `TRUE` becomes a boolean, because
  that is asked first (line 114).
- `README.md:349-360`: any `$` in any value round-trips; lists that discovery rewrote are a
  `[]string` (`volumes.go:228-231`), which `escapeValue` (`escape.go:133`) does not walk, so a `$` in an
  include that is on a mount is expanded by gobackup.
- `README.md:177`, `304`: paths of different models never collide; models `a` and `a/srv` can have one
  target for two volumes, and one backs up the other's (`Contested`).
- `docs/2026-07-04-auto-volume-mount-design.md:176`: an include without a mount is omitted from the file;
  if none of a model's includes is on one they all stay (`volumes.go:227`), and name files of the engine.
- `model.go:137`: the variable of a credential has a collision-proof name; models `my-db` and `my_db` get
  the same one, and with it one value for two passwords (`Alike`).
- `README.md:440`: an edit of `defaults.yml` regenerates the configuration; not one made before the
  directory is watched, or after watching it has failed, which is only logged (`unseen`).
- `docs/2026-07-04-auto-volume-mount-design.md:230`: regeneration is independent of the container's
  lifecycle; a replacement that cannot be completed ends every pass before it renders.
  `SourcesFollowed` excepts it (`CanFollow`).

The design document's section 8.1 (an engine whose recreation failed goes on running)
describes an earlier design; `README.md:219-225` describes the one modelled here.

## Theorems

All proofs are for arbitrary sets of constants and arbitrary bounds, from the named
assumptions only (`ReplacementAssumption`, `PoorerAssumption`, `NothingAssumption`, `WriterAssumption`,
`NoFileAssumption`, `LoopAssumption`, `NoConfigAssumption`: bounds are naturals, "nothing"
is not something, delays are positive; `EngineSpecAssumption`, `NoLabelAssumption`: see
`EngineSpec` above, and the operator's mounts, the volumes and the secrets are finitely many;
`ConfigPassAssumption`: worlds are what `IsWorld` says, see `ConfigPass` above, `GB` is a word and
`_` a name byte, `/` a mark, and upper case keeps name bytes; `TokenAssumption`: `$` and braces are no name bytes). `Token`, the
alphabet of texts, is `STRING` with the literals the modules use named once more: the provers
do not know that a string is in `STRING`. TLC checks each inductive invariant too, but for
`OutcomeInv`, which is slow to evaluate: the run checks what it says of the end of a pass (`OutcomeOfWorld`).

**EngineReplacementProofs.** `Invariance` proves `IInv`; `TypeCorrect`, `RecordedOutage`,
`HonestStatus`, `OperatorsEngineSafe` and `Implements` follow. `RecordWhileOwed` is not
inductive: it needs to know that whoever clears the record has just started the engine
(`Owed`), that memory and file agree at each call (`Stages`), that ids are never reused
(`Fresh`), that the container being started is not the operator's (`OldGone`) and, the
heart of it, what a call that lands late can still do (`Wire`): a stop or remove on the
wire that could still hit something is covered by the record, a create on the wire
means that the name is free and that the record is its own, and there is at most one.
`Implements` maps every step to one of `EngineSwap`'s or to a stutter, power losses too:
one may undo a record that no sync has covered, or bring a cleared one back, and
`EngineSwap` says exactly that with its `survives` (`PowerLoss`, `Harden`).

**ConfigWriterProofs.** `WriterInvariance` proves `IInv`: whatever a power loss can leave
under the name is whole and synced (`Whole`), because the temporary file was synced
before its rename (`TempFile`); `Knowledge` relates `w.last` to the file. `AnswersAreTrue`,
`ReloadsAreNeeded` and `WriterImplements` (refinement of `AtomicFile`) follow.

**ReconcileLoopProofs.** `LoopInvariance` proves `IInv`: at each stage of a pass, what the
draft was computed from is current or word of a change is still on its way (`Drafted`),
and so it is for what was published when the loop goes back to wait (`Settled`).
`NoLostWakeup` follows.

**EngineSpecProofs.** `SpecInvariance` proves `IInv`. The heart of it is `BaseIsBare`: the base
command is never a wrapped one, which takes `Labelled` (the label records the
command without its exports, and an engine without a label is the operator's). With it
`Recreated` gives the parts of a recreated engine; `LeftAloneInv` shows that an engine that is
left alone is as asked too, for which `mountsEqual`, a comparison of lengths and an
inclusion, has to mean equality: that is where finiteness is needed. `DeploymentKept`,
`EngineAsAsked` and `RecreationStabilizes` follow. Stability is a fact about one more
pass with the same extras in the same order; `engine_spec_order` shows that the order matters.

**ConfigPassProofs.** `ConfigPassInvariance` proves `IInv`, for every set
of worlds, every order of maps and every number of failed inspects. Its parts follow a label on its way:

- `Reads`: what has been read of a container's labels is exactly their tree, with the rest still to
  come. A step of it is `SetPathLabelTree`, which says what one label more does to a tree whatever the
  labels before it were; it rests on facts about prefixes of paths.
- `Validated`: a model is one `validateModel` passes, which `Accepted` does not say of a tree that lacks
  the maps, and which discovery keeps because it sets keys of the archive (`SetArchiveKeepsValid`) or
  three keys deep (`MovePathsKeepsValid`).
- `Built`: profiles are still what was read, and a model is `IsModel`: a tree with the leaves its source
  and profile declare, each expanded and coerced, and a reference at each credential. It takes what
  merging leaves of a profile (`MergedLeaves`), that opting out keeps a tree a tree, and, reference by
  reference, what placing one does to those placed before it (`PlaceCred`, `SubstitutedCreds`): a later
  one may replace an earlier one above or below it, which is what `CredLeaves` says.
- `Discovered`: discovery changes lists and the paths of databases only (`Rewritten`), nodes whose last key
  no credential has. `Written`: the file is the models as they are now, escaped.
- `Resolved`: every variable, export and mount of a secret was asked for by a credential of a built
  model, and has the value its own container gives.
- `Finite` and `Owned`: trees are finite, so that the databases in one can be walked (`SetToSeqs`), and
  the container that discovery inspects for a model is one that was listed.
- `Located`: every mount found so far is one of an owner's, at the model's own place in the engine
  (`FromOwner`); what stands in a model is what was declared or exactly the images of those includes that are on a
  mount, each with a mount that serves it (`Relocated`), the mount of a database writable. It speaks of
  the two halves of discovery separately because archives are applied when all models have been walked and
  databases while they are, and it survives `dedupMountsByTarget` because what is dropped leaves a
  mount at the same target, and a writable one if one was writable (`DedupKeeps`).
- `Equipped`: the engine is given those mounts and besides them only secrets', which are elsewhere.
- `Fitted`: once `dedupMountsByTarget` has run, no two mounts in the list have one target; the targets of
  secrets are those of the exports.

`LabelsInAnyOrder` and `ModelsAccepted` follow at once.

**ConfigOutcomeProofs.** From the same invariant follow `ModelsDeclared`, `CredentialsFromTheirOwner`,
`ValuesKept` and `FilesKept`. `CredentialsFromTheirOwner` needs that a variable's name determines model and path up to
`Alike` (`VarNamesOne`), that it is never `GB_DOLLAR` (`VarNameLonger`), that a placeholder is left alone by
escaping (`CredEscaped`) and that a secret's own destination is found among all mounts
(`OwnDestination`). `ValuesKept` joins `IsModel`, `NotMoved` and the theorem about escaping. `FilesKept` (`SameFiles`) compares
the longest destination above a path in the client with the longest one above its image in the engine
(`FileInEngine`): `findMountForPath` finds the longest of the client's (`MountIsLongest`), one destination is above
another in the engine exactly if it is in the client, whatever slashes end them (`AboveInPlace`), the places of
other models are not above it because their names differ and have no slash in them (`PlacesAgree`), and
neither are those of secrets (`SecretsApart`).

`EngineMountsFit` (`MountsFit`) says that no two mounts a pass asks for have one target and none is where the operator's own
are (targets as texts, as the code compares them; model names that cleaning a path would change, such as `a/../b`,
are not covered), two reasons for which Docker would refuse the new engine. It takes the part
`Fitted` of the invariant: after `dedupMountsByTarget` no two mounts have one target (`DedupApart`, from the
fact that `FirstBy` takes each element from a place of its own, `KeptPlaces` in `DataInduction`, an induction
over the sequence), a secret's target is not a volume's (`SecretNotVolume`), and two secrets of one target
are of one variable, which `resolveCreds` serves once (`SecretsDiffer`).

`PassesDetermined` takes an invariant of its own, `OutcomeInv` (in `PassOutcome`),
inductive together with `IInv`. That no order matters is a statement about several passes, and no
invariant can compare two step by step: they are never in the same place. Instead each is compared with
what the world determines (`Outcome`), which no order enters: the file, the mounts, the variables and the
*set* of exports. The order of the exports is left out, because passes differ in it and the engine is
recreated for it (`engine_spec_order`); so are the worlds that are not `Ordinary`, and for a name that two
containers claim the outcome is what the code makes of it. Its parts follow the phases of a pass:

- `Following` (`Listing`, `Building`, `Owning`, `Asking`): what has been read of a container is what its labels
  give, label by label (`ReadSoFar`); the queue of sources has those of the containers that contribute, in the
  list's order (`Queued`); of the containers read, the first of a name that can be built has made the model
  (`MadeUpTo`), the last that contributes owns it (`OwnedUpTo`). References are placed one by one in the
  code, at once in `ModelOf`: the order is immaterial because none is above another (`WithOneMore`).
- `Discovering`, of a pass without failures: the volumes found so far are those of the models walked
  so far, each a function of the model as built (`VolumeFor`), and so for databases. `Preferred`, a set, is what the two
  deduplications leave of a sequence in any order; that takes the mounts at one target to differ in being writable only
  (`MountsApart`), and this the targets of two models to be apart, which is where names without a slash are needed.
- `Giving`: what credentials add so far is a union over those resolved (`WithCreds`); that the code skips an export it has
  already changes nothing when no two credentials have one variable.

**DollarEscapeProofs.** `EscapedMeansTheSame`: for every text whatever, `os.ExpandEnv` of the escaped text
is what the text means. `Meaning` does not scan: it is defined by the references that stand in the text,
while the code and Go's library each walk over it with rules of their own about where a name begins and ends. The proof
goes from the end of the text to its start. Both walks are recursive functions, and
`Agrees` says of a position that expanding the escaped rest gives the meaning of the rest; only positions that
are not inside a reference matter (`ClearAfterToken`, `ClearAfterReference`). A step needs that at such a position the library
reads from the escaped text exactly the reference, the sentinel or the byte that the code wrote there, whatever comes
after it (`ExpandReference`, `ExpandSentinel`, `ExpandToken`): what is read does not depend on what
follows because `refPrefixLen` takes the longest name and asks for the closing brace (`RefEndIs`).

**DataInduction** has what those proofs need of recursive functions, all derived from induction over a
set of naturals, which can be cited: that they exist and are unique, what `FlattenSeq`
gives and which elements it has, what is left of a sequence when the first of each kind is kept
(`FirstElements`), and `Walks`, a function that goes through a sequence by steps of its own.

Model-checked only: the liveness properties (`RecoveryEnds`,
`Converges`, `SourcesFollowed`, `DefaultsFollowed`), which need fairness and ENABLED; and the violations.
What those properties do not promise, they say: a replacement that cannot be completed (`Stuck`, `CanFollow`)
stays as it is; a pass that swallowed a failing inspect leaves the engine short until some event (`short`);
an edit of the defaults nobody watched is not seen (`unseen`). `SameFiles` does not
speak of models nothing of which is on a mount, nor `ValuesSurvive` of lists that discovery rewrote.

## Not modelled

Of the pure parts: how a label is split at its dots and a YAML file decoded, Go templates
beyond a field, the case and outer spaces of a boolean label, `BareDollarPaths` (a warning). That Docker lists
containers in a stable order is assumed.
The web API only reads a copy of the status.
The Docker client is a wrapper without state. Boot (environment, host id, own labels)
is read once. Examples, manual scenarios and CI hold no logic of the program.

## Plan

1. `EngineSpec`: an engine without a command, supervisor's labels that change between
   processes, and the promise that an unresolvable credential is empty (`reconcile.go:242`),
   which a stale variable breaks; the image, which a change of label alone does not apply.
2. `ReconcileLoop` with a debounce as long as the pause (starvation), and
   two supervisors on one host.
3. Composition: `ReconcileLoop` over `ConfigWriter` and `EngineReplacement` with a
   refinement that shows the two seams; `EngineSpec` over `ConfigPass`'s extras.
4. Proofs: that after a sync that succeeded the record outlives every power loss until the
   engine runs again, which `DurableWhileOwed` shows to fail when the sync did not.
