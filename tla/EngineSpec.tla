----------------------------- MODULE EngineSpec -----------------------------
(***************************************************************************)
(* What the engine is recreated with, and when (internal/pipeline/         *)
(* manage.go: buildGobackupSpec, mergeMounts, mergeEnv, baseCommand,       *)
(* wrapCommandWithSecrets, needsRecreate; reconcile.go: resolveCreds).     *)
(*                                                                         *)
(* Each pass computes the engine's specification from the engine Docker    *)
(* shows, which an earlier pass may have built, and recreates the engine   *)
(* when the two differ: the module is about what that does over many       *)
(* passes.  The recreation itself is one step (EngineReplacement has its   *)
(* calls).  A mount is what mountKey makes of it, an argument list a model *)
(* value, and it is never empty.                                           *)
(***************************************************************************)
EXTENDS Naturals, Sequences, FiniteSets

CONSTANTS
  OwnMounts,    \* the operator's mounts: configuration, backups, state
  VolumeMounts, \* the mounts discovery may ask for, under /volumes/
  EnvCreds,     \* variables of _env credentials, and GB_DOLLAR
  FileCreds,    \* variables of _file credentials
  OtherVars,    \* variables of the operator and of the image
  Values,       \* values of variables; host paths of secret files
  Missing,      \* a credential nobody refers to, or that cannot be resolved
  OwnEnv,       \* the environment the operator deploys the engine with
  ImageEnv,     \* ... and what the image adds to every container
  OwnArgv,      \* the command the operator deploys the engine with
  Argvs,        \* commands
  Unset,        \* gobackup_container.command is not set
  NoLabel,      \* a container without the base-command label
  Configs       \* what the supervisor's own labels may configure

Vars == EnvCreds \cup FileCreds \cup OtherVars
Envs(names) == UNION {[some -> Values] : some \in SUBSET names}

ASSUME EngineSpecAssumption ==
  /\ IsFiniteSet(OwnMounts) /\ IsFiniteSet(VolumeMounts)
  /\ IsFiniteSet(FileCreds)
  /\ OwnMounts \cap (VolumeMounts \cup (FileCreds \X Values)) = {}
  /\ (EnvCreds \cup FileCreds) \cap OtherVars = {}
  /\ Missing \notin Values
  /\ OwnEnv \in Envs(OtherVars) /\ ImageEnv \in Envs(OtherVars)
  /\ OwnArgv \in Argvs /\ Unset \notin Argvs
  /\ Configs \subseteq [command: Argvs \cup {Unset}, env: Envs(OtherVars)]

(* A command: the secret files a shell exports before it executes argv.    *)
Command == [exports: Seq(FileCreds), argv: Argvs]

ASSUME NoLabelAssumption == NoLabel \notin Command

VARIABLES
  engine,   \* what inspect shows: mounts, env, command and base-command label
  cfg,      \* gobackup_container.*
  volumes,  \* the mounts discovery asks for
  offered,  \* what each credential resolves to
  applied   \* history: the extras of the last pass, since the operator deployed

vars == <<engine, cfg, volumes, offered, applied>>

(* Targets under /volumes/ and /gobackup-secrets/: the supervisor's own.   *)
ManagedMounts == VolumeMounts \cup (FileCreds \X Values)
IsManagedMount(m) == m \in ManagedMounts

Nothing == [mounts |-> {}, env |-> <<>>, exports |-> <<>>]

Deployed == [mounts |-> OwnMounts, env |-> OwnEnv, label |-> NoLabel,
             command |-> [exports |-> <<>>, argv |-> OwnArgv]]
-----------------------------------------------------------------------------
(* g wins where both have a value.                                         *)
Overlay(f, g) == [v \in DOMAIN f \cup DOMAIN g |->
                    IF v \in DOMAIN g THEN g[v] ELSE f[v]]

(* Docker adds the variables of the image that are not set otherwise.      *)
Created(spec) == [spec EXCEPT !.env = Overlay(ImageEnv, @)]

Resolved(creds) == {c \in creds : offered[c] # Missing}

(* Credential references come in the order labels were walked in: any.     *)
Orders(S) == {s \in [1..Cardinality(S) -> S] :
                \A i, j \in DOMAIN s : s[i] = s[j] => i = j}

(* resolveCreds, and the extras reconcile puts together.                   *)
Extras(exports) ==
  [mounts  |-> volumes \cup {<<c, offered[c]>> : c \in Resolved(FileCreds)},
   env     |-> [c \in Resolved(EnvCreds) |-> offered[c]],
   exports |-> exports]

Wrap(base, exports) ==
  IF exports = <<>> THEN base
  ELSE [base EXCEPT !.exports = exports \o @]

(* Deviation: the command as it is, wrapped or not, is the base.           *)
BaseCommandAsIs(e) ==
  IF cfg.command # Unset THEN [exports |-> <<>>, argv |-> cfg.command]
  ELSE e.command

BaseCommand(e) ==
  IF cfg.command # Unset THEN [exports |-> <<>>, argv |-> cfg.command]
  ELSE IF e.label # NoLabel THEN e.label
  ELSE e.command

(* Deviation: mounts nobody wants any more are kept.                       *)
MergeMountsKeepingAll(existing, managed) == existing \cup managed

(* Deviation: the engine gets what the supervisor manages.                 *)
MergeMountsFromScratch(existing, managed) == managed

MergeMounts(existing, managed) ==
  {m \in existing : ~IsManagedMount(m)} \cup managed

BaseEnv(e) == IF DOMAIN cfg.env # {} THEN cfg.env ELSE e.env

(* buildGobackupSpec; mergeEnv is Overlay.                                 *)
BuildGobackupSpec(e, x) ==
  [mounts  |-> MergeMounts(e.mounts, x.mounts),
   env     |-> Overlay(BaseEnv(e), x.env),
   command |-> Wrap(BaseCommand(e), x.exports),
   label   |-> BaseCommand(e)]

MountsEqual(current, desired) ==
  Cardinality(current) = Cardinality(desired) /\ current \subseteq desired

Has(env, v, value) == v \in DOMAIN env /\ env[v] = value

(* Deviation: the whole environment is compared.                           *)
NeedsRecreateExactly(e, x) ==
  LET spec == BuildGobackupSpec(e, x)
  IN  \/ ~MountsEqual(e.mounts, spec.mounts)
      \/ e.command # spec.command
      \/ e.env # spec.env

NeedsRecreate(e, x) ==
  LET spec == BuildGobackupSpec(e, x)
  IN  \/ ~MountsEqual(e.mounts, spec.mounts)
      \/ e.command # spec.command
      \/ \E v \in DOMAIN x.env : ~Has(e.env, v, x.env[v])
-----------------------------------------------------------------------------
Init ==
  /\ engine = Created(Deployed)
  /\ cfg \in Configs
  /\ volumes = {} /\ offered = [c \in EnvCreds \cup FileCreds |-> Missing]
  /\ applied = Nothing

(* ensureGobackupContainer with no replacement pending.                    *)
Pass ==
  /\ \E order \in Orders(Resolved(FileCreds)) :
       LET x == Extras(order) IN
         /\ x.mounts # {} \/ DOMAIN x.env # {} \/ x.exports # <<>>
         /\ engine' = IF NeedsRecreate(engine, x)
                      THEN Created(BuildGobackupSpec(engine, x)) ELSE engine
         /\ applied' = x
  /\ UNCHANGED <<cfg, volumes, offered>>

SourcesChange ==
  /\ volumes' \in SUBSET VolumeMounts
  /\ offered' \in [EnvCreds \cup FileCreds -> Values \cup {Missing}]
  /\ UNCHANGED <<engine, cfg, applied>>

(* docker compose up: the operator's engine again.                         *)
Redeploy ==
  /\ engine' = Created(Deployed)
  /\ applied' = Nothing
  /\ UNCHANGED <<cfg, volumes, offered>>

Next == Pass \/ SourcesChange \/ Redeploy

Spec == Init /\ [][Next]_vars
-----------------------------------------------------------------------------
TypeOK ==
  /\ engine \in [mounts: SUBSET (OwnMounts \cup ManagedMounts),
                 env: Envs(Vars), command: Command,
                 label: Command \cup {NoLabel}]
  /\ cfg \in Configs
  /\ volumes \in SUBSET VolumeMounts
  /\ offered \in [EnvCreds \cup FileCreds -> Values \cup {Missing}]
  /\ applied \in [mounts: SUBSET ManagedMounts,
                  env: Envs(EnvCreds), exports: Seq(FileCreds)]

(* However often the engine is recreated from the one before it, the       *)
(* operator's mounts, command and environment are what he deployed, or     *)
(* what the supervisor's labels say (README.md:200).                       *)
OperatorsKept ==
  /\ {m \in engine.mounts : ~IsManagedMount(m)} = OwnMounts
  /\ engine.command.argv = IF engine.label = NoLabel \/ cfg.command = Unset
                           THEN OwnArgv ELSE cfg.command
  /\ LET env == IF engine.label = NoLabel \/ DOMAIN cfg.env = {}
                THEN OwnEnv ELSE cfg.env
     IN \A v \in OtherVars :
          v \in DOMAIN Overlay(ImageEnv, env)
            => Has(engine.env, v, Overlay(ImageEnv, env)[v])

(* After a pass the engine has the mounts and secrets asked for and no     *)
(* others of the supervisor's, the variables asked for, and the command    *)
(* that the supervisor's labels configure (manage.go:223-272).             *)
AsAsked ==
  applied # Nothing =>
    /\ {m \in engine.mounts : IsManagedMount(m)} = applied.mounts
    /\ engine.command.exports = applied.exports
    /\ engine.command.argv = cfg.command \/ cfg.command = Unset
    /\ \A v \in DOMAIN applied.env : Has(engine.env, v, applied.env[v])

(* "The check stabilizes instead of looping" (manage.go:353-356): asked    *)
(* again for the same, a pass leaves the engine alone.                     *)
Stabilizes == applied # Nothing => ~NeedsRecreate(engine, applied)

(* The inductive invariant: the label records the command without exports. *)
Labelled ==
  /\ engine.label = NoLabel =>
       engine.command = [exports |-> <<>>, argv |-> OwnArgv]
  /\ engine.label # NoLabel =>
       engine.label = [exports |-> <<>>, argv |-> engine.command.argv]
  /\ DOMAIN ImageEnv \subseteq DOMAIN engine.env

IInv == TypeOK /\ Labelled /\ OperatorsKept /\ AsAsked

(* The engine is "recreated by the supervisor when auto-mounted volumes or *)
(* credentials change" (README.md:242), and only then.                     *)
RecreatedForChangesOnly ==
  [][ (/\ applied # Nothing /\ applied' # Nothing
       /\ applied'.mounts = applied.mounts /\ applied'.env = applied.env)
      => engine' = engine ]_vars
=============================================================================
