-------------------------- MODULE EngineSpecProofs --------------------------
(***************************************************************************)
(* Proofs about EngineSpec, for every set of mounts, credentials, values   *)
(* and commands and every number of passes: what the operator deployed is  *)
(* kept, what the sources ask for is there, and recreating comes to rest.  *)
(***************************************************************************)
EXTENDS EngineSpec, FiniteSetTheorems, TLAPS

ExtrasType == [mounts: SUBSET ManagedMounts, env: Envs(EnvCreds),
               exports: Seq(FileCreds)]

EngineType == [mounts: SUBSET (OwnMounts \cup ManagedMounts), env: Envs(Vars),
               command: Command, label: Command \cup {NoLabel}]

(* An environment is a function from some of the names to values.          *)
LEMMA EnvsMember ==
  ASSUME NEW names, NEW f, f = [v \in DOMAIN f |-> f[v]],
         DOMAIN f \subseteq names, \A v \in DOMAIN f : f[v] \in Values
  PROVE  f \in Envs(names)
<1>1. f \in [DOMAIN f -> Values]
  OBVIOUS
<1> QED BY <1>1 DEF Envs

(* ... and the other way round.                                            *)
LEMMA EnvsElim ==
  ASSUME NEW names, NEW f \in Envs(names)
  PROVE  /\ DOMAIN f \subseteq names
         /\ \A v \in DOMAIN f : f[v] \in Values
         /\ f = [v \in DOMAIN f |-> f[v]]
BY DEF Envs

(* Overlaying environments gives an environment (mergeEnv).                *)
LEMMA OverlayType ==
  ASSUME NEW A, NEW B, NEW f \in Envs(A), NEW g \in Envs(B)
  PROVE  Overlay(f, g) \in Envs(A \cup B)
<1>1. /\ DOMAIN f \subseteq A /\ \A v \in DOMAIN f : f[v] \in Values
      /\ DOMAIN g \subseteq B /\ \A v \in DOMAIN g : g[v] \in Values
  BY EnvsElim
<1>2. DOMAIN Overlay(f, g) = DOMAIN f \cup DOMAIN g
  BY DEF Overlay
<1>3. \A v \in DOMAIN Overlay(f, g) : Overlay(f, g)[v] \in Values
  BY <1>1 DEF Overlay
<1>4. Overlay(f, g) = [v \in DOMAIN Overlay(f, g) |-> Overlay(f, g)[v]]
  BY DEF Overlay
<1> QED BY <1>1, <1>2, <1>3, <1>4, EnvsMember

(* Fewer names are also names.                                             *)
LEMMA EnvsMonotone ==
  ASSUME NEW A, NEW B, A \subseteq B, NEW f \in Envs(A)
  PROVE  f \in Envs(B)
BY DEF Envs
-----------------------------------------------------------------------------
(* Wrapping a bare command exports exactly the secrets                     *)
(* (wrapCommandWithSecrets).                                               *)
LEMMA WrapType ==
  ASSUME NEW base \in Command, base.exports = <<>>, NEW e \in Seq(FileCreds)
  PROVE  Wrap(base, e) = [exports |-> e, argv |-> base.argv]
<1>1. base = [exports |-> <<>>, argv |-> base.argv]
  BY DEF Command
<1>2. e \o <<>> = e
  OBVIOUS
<1> QED BY <1>1, <1>2 DEF Wrap

(* What a pass asks for has its type.                                      *)
LEMMA ExtrasAreTyped ==
  ASSUME TypeOK, NEW order \in Orders(Resolved(FileCreds))
  PROVE  Extras(order) \in ExtrasType
<1> DEFINE S == Resolved(FileCreds)
<1>1. /\ volumes \subseteq VolumeMounts
      /\ \A c \in EnvCreds \cup FileCreds : offered[c] \in Values \cup {Missing}
  BY DEF TypeOK
<1>2. Extras(order).mounts \subseteq ManagedMounts
  BY <1>1 DEF Extras, Resolved, ManagedMounts
<1>3. [c \in Resolved(EnvCreds) |-> offered[c]]
        \in [Resolved(EnvCreds) -> Values]
  BY <1>1 DEF Resolved
<1>4. Extras(order).env \in Envs(EnvCreds)
  BY <1>3 DEF Extras, Envs, Resolved
<1>5. S \in SUBSET FileCreds
  BY DEF Resolved
<1>6. Cardinality(S) \in Nat
  BY <1>5, EngineSpecAssumption, FS_Subset, FS_CardinalityType
<1>7. order \in [1..Cardinality(S) -> FileCreds]
  BY <1>5 DEF Orders
<1>8. Extras(order).exports \in Seq(FileCreds)
  BY <1>6, <1>7 DEF Extras
<1>9. Extras(order) = [mounts |-> Extras(order).mounts,
                       env |-> Extras(order).env,
                       exports |-> Extras(order).exports]
  BY DEF Extras
<1> QED BY <1>2, <1>4, <1>8, <1>9 DEF ExtrasType

(* ... and its mounts are finitely many.                                   *)
LEMMA ExtrasAreFinite ==
  ASSUME TypeOK, NEW order
  PROVE  IsFiniteSet(Extras(order).mounts)
<1> DEFINE S == Resolved(FileCreds)
           T == {<<c, offered[c]>> : c \in S}
<1>1. IsFiniteSet(volumes)
  BY EngineSpecAssumption, FS_Subset DEF TypeOK
<1>2. IsFiniteSet(S)
  BY EngineSpecAssumption, FS_Subset DEF Resolved
<1>3. [c \in S |-> <<c, offered[c]>>] \in Surjection(S, T)
  BY DEF Surjection
<1>4. IsFiniteSet(T)
  BY <1>2, <1>3, FS_Surjection
<1> QED BY <1>1, <1>4, FS_Union DEF Extras
-----------------------------------------------------------------------------
(* The base command is the label's, the supervisor's or the operator's,    *)
(* never a wrapped one: a command is not wrapped twice (baseCommand).      *)
LEMMA BaseIsBare ==
  ASSUME IInv
  PROVE  /\ BaseCommand(engine) \in Command
         /\ BaseCommand(engine).exports = <<>>
         /\ BaseCommand(engine).argv =
              IF cfg.command = Unset THEN OwnArgv ELSE cfg.command
         /\ cfg.command = Unset => engine.command.argv = OwnArgv
<1>1. /\ engine.command \in Command /\ engine.label \in Command \cup {NoLabel}
      /\ cfg.command \in Argvs \cup {Unset} /\ OwnArgv \in Argvs
  BY EngineSpecAssumption DEF IInv, TypeOK
<1>2. <<>> \in Seq(FileCreds)
  OBVIOUS
<1>3. \A a \in Argvs : [exports |-> <<>>, argv |-> a] \in Command
  BY <1>2 DEF Command
<1>4. CASE cfg.command # Unset
  <2>1. BaseCommand(engine) = [exports |-> <<>>, argv |-> cfg.command]
    BY <1>4 DEF BaseCommand
  <2> QED BY <1>1, <1>3, <1>4, <2>1
<1>5. CASE cfg.command = Unset
  <2>1. engine.command.argv = OwnArgv
    BY <1>5 DEF IInv, OperatorsKept
  <2>2. CASE engine.label = NoLabel
    <3>1. /\ BaseCommand(engine) = engine.command
          /\ engine.command = [exports |-> <<>>, argv |-> OwnArgv]
      BY <1>5, <2>2 DEF BaseCommand, IInv, Labelled
    <3> QED BY <1>1, <1>5, <3>1
  <2>3. CASE engine.label # NoLabel
    <3>1. /\ BaseCommand(engine) = engine.label
          /\ engine.label = [exports |-> <<>>, argv |-> engine.command.argv]
      BY <1>5, <2>3 DEF BaseCommand, IInv, Labelled
    <3> QED BY <1>1, <1>5, <2>1, <2>3, <3>1
  <2> QED BY <2>2, <2>3
<1> QED BY <1>4, <1>5

FreshlyDeployed ==
  /\ engine = Created(Deployed) /\ applied = Nothing
  /\ cfg \in Configs /\ volumes \in SUBSET VolumeMounts
  /\ offered \in [EnvCreds \cup FileCreds -> Values \cup {Missing}]

(* The engine the operator deploys satisfies the invariant.                *)
LEMMA DeployedInv == FreshlyDeployed => IInv
<1> SUFFICES ASSUME FreshlyDeployed PROVE IInv
  OBVIOUS
<1> USE DEF FreshlyDeployed
<1>1. engine = [mounts |-> OwnMounts, env |-> Overlay(ImageEnv, OwnEnv),
                label |-> NoLabel,
                command |-> [exports |-> <<>>, argv |-> OwnArgv]]
  BY DEF Created, Deployed
<1>2. Overlay(ImageEnv, OwnEnv) \in Envs(Vars)
  <2>1. Overlay(ImageEnv, OwnEnv) \in Envs(OtherVars \cup OtherVars)
    BY EngineSpecAssumption, OverlayType
  <2> QED BY <2>1, EnvsMonotone DEF Vars
<1>3. engine.command \in Command
  <2>1. <<>> \in Seq(FileCreds)
    OBVIOUS
  <2> QED BY <1>1, <2>1, EngineSpecAssumption DEF Command
<1>4. Nothing \in ExtrasType
  <2>1. <<>> \in [{} -> Values]
    OBVIOUS
  <2>2. <<>> \in Envs(EnvCreds)
    BY <2>1 DEF Envs
  <2>3. <<>> \in Seq(FileCreds)
    OBVIOUS
  <2> QED BY <2>2, <2>3 DEF Nothing, ExtrasType
<1>5. TypeOK
  BY <1>1, <1>2, <1>3, <1>4 DEF TypeOK, ExtrasType
<1>6. OperatorsKept
  <2>1. {m \in engine.mounts : ~IsManagedMount(m)} = OwnMounts
    BY <1>1, EngineSpecAssumption DEF IsManagedMount, ManagedMounts
  <2>2. /\ engine.label = NoLabel /\ engine.command.argv = OwnArgv
        /\ engine.env = Overlay(ImageEnv, OwnEnv)
    BY <1>1
  <2> QED BY <2>1, <2>2 DEF OperatorsKept, Has
<1>7. Labelled
  <2>1. DOMAIN ImageEnv \subseteq DOMAIN engine.env
    BY <1>1 DEF Overlay
  <2> QED BY <1>1, <2>1 DEF Labelled
<1> QED BY <1>5, <1>6, <1>7 DEF IInv, AsAsked
-----------------------------------------------------------------------------
(* What an engine recreated for x is, part by part (buildGobackupSpec).    *)
LEMMA Recreated ==
  ASSUME IInv, NEW x \in ExtrasType
  PROVE  LET e == Created(BuildGobackupSpec(engine, x))
             env == Overlay(BaseEnv(engine), x.env)
         IN  /\ e \in EngineType
             /\ e.mounts = OwnMounts \cup x.mounts
             /\ e.env = Overlay(ImageEnv, env)
             /\ e.label = BaseCommand(engine)
             /\ e.command = [exports |-> x.exports, argv |-> e.label.argv]
<1> DEFINE spec == BuildGobackupSpec(engine, x)
           e == Created(spec)
           env == Overlay(BaseEnv(engine), x.env)
<1>1. /\ x.mounts \subseteq ManagedMounts /\ x.env \in Envs(EnvCreds)
      /\ x.exports \in Seq(FileCreds)
  BY DEF ExtrasType
<1>2. /\ spec.mounts = MergeMounts(engine.mounts, x.mounts)
      /\ spec.env = env
      /\ spec.label = BaseCommand(engine)
      /\ spec.command = Wrap(BaseCommand(engine), x.exports)
  BY DEF BuildGobackupSpec
<1>3. e = [mounts |-> spec.mounts, env |-> Overlay(ImageEnv, spec.env),
           command |-> spec.command, label |-> spec.label]
  BY DEF Created, BuildGobackupSpec
<1>4. spec.mounts = OwnMounts \cup x.mounts
  BY <1>2 DEF MergeMounts, IInv, OperatorsKept
<1>5. spec.command = [exports |-> x.exports, argv |-> BaseCommand(engine).argv]
  BY <1>1, <1>2, BaseIsBare, WrapType
<1>6. spec.command \in Command
  <2>1. BaseCommand(engine).argv \in Argvs
    BY BaseIsBare DEF Command
  <2> QED BY <1>1, <1>5, <2>1 DEF Command
<1>7. Overlay(ImageEnv, env) \in Envs(Vars)
  <2>1. BaseEnv(engine) \in Envs(Vars)
    <3>1. cfg.env \in Envs(OtherVars) /\ engine.env \in Envs(Vars)
      BY EngineSpecAssumption DEF IInv, TypeOK
    <3>2. cfg.env \in Envs(Vars)
      BY <3>1, EnvsMonotone DEF Vars
    <3> QED BY <3>1, <3>2 DEF BaseEnv
  <2>2. env \in Envs(Vars \cup EnvCreds)
    BY <1>1, <2>1, OverlayType
  <2>3. Overlay(ImageEnv, env) \in Envs(OtherVars \cup (Vars \cup EnvCreds))
    BY <2>2, EngineSpecAssumption, OverlayType
  <2>4. OtherVars \cup (Vars \cup EnvCreds) = Vars
    BY DEF Vars
  <2> QED BY <2>3, <2>4
<1>8. e \in EngineType
  BY <1>1, <1>2, <1>3, <1>4, <1>6, <1>7, BaseIsBare DEF EngineType
<1> QED BY <1>2, <1>3, <1>4, <1>5, <1>8

(* An engine recreated for x satisfies the invariant.                      *)
LEMMA RecreatedInv ==
  ASSUME IInv, NEW x \in ExtrasType,
         engine' = Created(BuildGobackupSpec(engine, x)), applied' = x,
         UNCHANGED <<cfg, volumes, offered>>
  PROVE  IInv'
<1> DEFINE env == Overlay(BaseEnv(engine), x.env)
<1>1. /\ engine' \in EngineType
      /\ engine'.mounts = OwnMounts \cup x.mounts
      /\ engine'.env = Overlay(ImageEnv, env)
      /\ engine'.label = BaseCommand(engine)
      /\ engine'.command = [exports |-> x.exports, argv |-> engine'.label.argv]
  BY Recreated
<1>2. /\ x.mounts \subseteq ManagedMounts /\ x.env \in Envs(EnvCreds)
      /\ x.exports \in Seq(FileCreds)
  BY DEF ExtrasType
<1>3. engine'.label # NoLabel /\ engine'.label \in Command
  BY <1>1, BaseIsBare, NoLabelAssumption
<1>4. TypeOK'
  BY <1>1 DEF IInv, TypeOK, EngineType, ExtrasType
<1>5. Labelled'
  <2>1. engine'.label = [exports |-> <<>>, argv |-> engine'.command.argv]
    BY <1>1, <1>3, BaseIsBare DEF Command
  <2>2. DOMAIN ImageEnv \subseteq DOMAIN engine'.env
    BY <1>1 DEF Overlay
  <2> QED BY <1>3, <2>1, <2>2 DEF Labelled
<1>6. OperatorsKept'
  <2>1. {m \in engine'.mounts : ~IsManagedMount(m)} = OwnMounts
    BY <1>1, <1>2, EngineSpecAssumption DEF IsManagedMount, ManagedMounts
  <2>2. engine'.command.argv =
          IF cfg.command = Unset THEN OwnArgv ELSE cfg.command
    BY <1>1, BaseIsBare
  <2>3. ASSUME NEW v \in OtherVars,
               NEW own, own = (IF DOMAIN cfg.env = {} THEN OwnEnv ELSE cfg.env),
               v \in DOMAIN Overlay(ImageEnv, own)
        PROVE  Has(engine'.env, v, Overlay(ImageEnv, own)[v])
    <3>1. v \notin DOMAIN x.env
      BY <1>2, EnvsElim, EngineSpecAssumption
    <3>2. v \in DOMAIN ImageEnv \cup DOMAIN own
      BY <2>3 DEF Overlay
    <3>3. CASE DOMAIN cfg.env # {}
      <4>1. BaseEnv(engine) = own
        BY <2>3, <3>3 DEF BaseEnv
      <4> QED BY <1>1, <3>1, <3>2, <4>1 DEF Overlay, Has
    <3>4. CASE DOMAIN cfg.env = {}
      <4>1. BaseEnv(engine) = engine.env
        BY <3>4 DEF BaseEnv
      <4>2. Has(engine.env, v, Overlay(ImageEnv, own)[v])
        BY <2>3, <3>4 DEF IInv, OperatorsKept
      <4> QED BY <1>1, <3>1, <4>1, <4>2 DEF Overlay, Has
    <3> QED BY <3>3, <3>4
  <2> QED BY <1>3, <2>1, <2>2, <2>3 DEF OperatorsKept
<1>7. AsAsked'
  <2>1. {m \in engine'.mounts : IsManagedMount(m)} = x.mounts
    BY <1>1, <1>2, EngineSpecAssumption DEF IsManagedMount, ManagedMounts
  <2>2. engine'.command.exports = x.exports
    BY <1>1
  <2>3. engine'.command.argv = cfg.command \/ cfg.command = Unset
    BY <1>1, BaseIsBare
  <2>4. \A v \in DOMAIN x.env : Has(engine'.env, v, x.env[v])
    BY <1>1 DEF Overlay, Has
  <2> QED BY <2>1, <2>2, <2>3, <2>4 DEF AsAsked
<1> QED BY <1>4, <1>5, <1>6, <1>7 DEF IInv

(* An engine that is left alone already is what was asked for              *)
(* (needsRecreate).                                                        *)
LEMMA LeftAloneInv ==
  ASSUME IInv, NEW x \in ExtrasType, IsFiniteSet(x.mounts),
         ~NeedsRecreate(engine, x), engine' = engine, applied' = x,
         UNCHANGED <<cfg, volumes, offered>>
  PROVE  IInv'
<1> DEFINE spec == BuildGobackupSpec(engine, x)
<1>1. /\ x.mounts \subseteq ManagedMounts /\ x.exports \in Seq(FileCreds)
  BY DEF ExtrasType
<1>2. /\ MountsEqual(engine.mounts, spec.mounts)
      /\ engine.command = spec.command
      /\ \A v \in DOMAIN x.env : Has(engine.env, v, x.env[v])
  BY DEF NeedsRecreate
<1>3. spec.mounts = OwnMounts \cup x.mounts
  BY DEF BuildGobackupSpec, MergeMounts, IInv, OperatorsKept
<1>4. engine.mounts = OwnMounts \cup x.mounts
  <2>1. IsFiniteSet(spec.mounts)
    <3>1. IsFiniteSet(OwnMounts \cup x.mounts)
      BY EngineSpecAssumption, FS_Union
    <3> QED BY <1>3, <3>1
  <2>2. /\ engine.mounts \subseteq spec.mounts
        /\ Cardinality(engine.mounts) = Cardinality(spec.mounts)
    BY <1>2 DEF MountsEqual
  <2> QED BY <1>3, <2>1, <2>2, FS_Subset
<1>5. engine.command = [exports |-> x.exports,
                        argv |-> BaseCommand(engine).argv]
  <2>1. spec.command = Wrap(BaseCommand(engine), x.exports)
    BY DEF BuildGobackupSpec
  <2> QED BY <1>1, <1>2, <2>1, BaseIsBare, WrapType
<1>6. AsAsked'
  <2>1. {m \in engine.mounts : IsManagedMount(m)} = x.mounts
    BY <1>1, <1>4, EngineSpecAssumption DEF IsManagedMount, ManagedMounts
  <2>2. engine.command.exports = x.exports
    BY <1>5
  <2>3. engine.command.argv = cfg.command \/ cfg.command = Unset
    BY <1>5, BaseIsBare
  <2> QED BY <1>2, <2>1, <2>2, <2>3 DEF AsAsked
<1>7. TypeOK'
  BY DEF IInv, TypeOK, ExtrasType
<1>8. Labelled' /\ OperatorsKept'
  BY DEF IInv, Labelled, OperatorsKept
<1> QED BY <1>6, <1>7, <1>8 DEF IInv
-----------------------------------------------------------------------------
(* Every step preserves the invariant.                                     *)
LEMMA NextInv == ASSUME IInv, [Next]_vars PROVE IInv'
<1>1. CASE Pass
  <2>1. PICK order \in Orders(Resolved(FileCreds)) :
          /\ engine' = IF NeedsRecreate(engine, Extras(order))
                       THEN Created(BuildGobackupSpec(engine, Extras(order)))
                       ELSE engine
          /\ applied' = Extras(order)
    BY <1>1 DEF Pass
  <2>2. /\ Extras(order) \in ExtrasType
        /\ IsFiniteSet(Extras(order).mounts)
    BY ExtrasAreTyped, ExtrasAreFinite DEF IInv
  <2>3. UNCHANGED <<cfg, volumes, offered>>
    BY <1>1 DEF Pass
  <2>4. CASE NeedsRecreate(engine, Extras(order))
    BY <2>1, <2>2, <2>3, <2>4, RecreatedInv
  <2>5. CASE ~NeedsRecreate(engine, Extras(order))
    BY <2>1, <2>2, <2>3, <2>5, LeftAloneInv
  <2> QED BY <2>4, <2>5
<1>2. CASE SourcesChange
  BY <1>2 DEF SourcesChange, IInv, TypeOK, Labelled, OperatorsKept, AsAsked
<1>3. CASE Redeploy
  <2>1. FreshlyDeployed'
    BY <1>3 DEF Redeploy, FreshlyDeployed, IInv, TypeOK
  <2>2. FreshlyDeployed' => IInv'
    BY DeployedInv, PTL
  <2> QED BY <2>1, <2>2
<1>4. CASE UNCHANGED vars
  BY <1>4 DEF vars, IInv, TypeOK, Labelled, OperatorsKept, AsAsked
<1> QED BY <1>1, <1>2, <1>3, <1>4 DEF Next

(* The invariant holds in every reachable state.                           *)
THEOREM SpecInvariance == Spec => []IInv
<1>1. Init => IInv
  BY DeployedInv DEF Init, FreshlyDeployed
<1>2. IInv /\ [Next]_vars => IInv'
  BY NextInv
<1> QED BY <1>1, <1>2, PTL DEF Spec

(* However often the engine is recreated from the one before, the mounts,  *)
(* command and environment of the operator are kept (mergeMounts,          *)
(* baseCommand, mergeEnv).                                                 *)
THEOREM DeploymentKept == Spec => []OperatorsKept
<1>1. IInv => OperatorsKept
  BY DEF IInv
<1> QED BY <1>1, SpecInvariance, PTL

(* After a pass the engine has what was asked for, and of the supervisor's *)
(* mounts and secrets nothing else.                                        *)
THEOREM EngineAsAsked == Spec => []AsAsked
<1>1. IInv => AsAsked
  BY DEF IInv
<1> QED BY <1>1, SpecInvariance, PTL

(* An engine that is what was asked for needs no recreation.               *)
LEMMA AtRest == ASSUME IInv PROVE Stabilizes
<1> SUFFICES ASSUME applied # Nothing PROVE ~NeedsRecreate(engine, applied)
  BY DEF Stabilizes
<1> DEFINE spec == BuildGobackupSpec(engine, applied)
<1>1. /\ {m \in engine.mounts : IsManagedMount(m)} = applied.mounts
      /\ engine.command.exports = applied.exports
      /\ engine.command.argv = cfg.command \/ cfg.command = Unset
      /\ \A v \in DOMAIN applied.env : Has(engine.env, v, applied.env[v])
  BY DEF IInv, AsAsked
<1>2. MountsEqual(engine.mounts, spec.mounts)
  <2>1. spec.mounts =
          {m \in engine.mounts : ~IsManagedMount(m)} \cup applied.mounts
    BY DEF BuildGobackupSpec, MergeMounts
  <2>2. spec.mounts = engine.mounts
    BY <1>1, <2>1
  <2> QED BY <2>2 DEF MountsEqual
<1>3. engine.command = spec.command
  <2>1. applied.exports \in Seq(FileCreds)
    BY DEF IInv, TypeOK
  <2>2. spec.command = Wrap(BaseCommand(engine), applied.exports)
    BY DEF BuildGobackupSpec
  <2>3. spec.command = [exports |-> applied.exports,
                        argv |-> BaseCommand(engine).argv]
    BY <2>1, <2>2, BaseIsBare, WrapType
  <2>4. engine.command.argv = BaseCommand(engine).argv
    BY <1>1, BaseIsBare
  <2>5. engine.command \in Command
    BY DEF IInv, TypeOK
  <2> QED BY <1>1, <2>3, <2>4, <2>5 DEF Command
<1> QED BY <1>1, <1>2, <1>3 DEF NeedsRecreate

(* Passes that ask for the same come to rest (needsRecreate).              *)
THEOREM RecreationStabilizes == Spec => []Stabilizes
<1>1. IInv => Stabilizes
  BY AtRest
<1> QED BY <1>1, SpecInvariance, PTL
=============================================================================
