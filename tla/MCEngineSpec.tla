---------------------------- MODULE MCEngineSpec ----------------------------
(* Instances of EngineSpec for TLC. *)
EXTENDS EngineSpec

CONSTANTS config, volume1, volume2, varA, secret1, secret2, path, tz, v1, v2,
          run, perform   \* model values

MCOwnMounts == {config}
MCVolumeMounts == {volume1, volume2}
MCEnvCreds == {varA}
MCFileCreds == {secret1, secret2}
MCOtherVars == {path, tz}
MCValues == {v1, v2}
MCOwnEnv == [v \in {tz} |-> v1]
MCImageEnv == [v \in {path} |-> v1]
MCArgvs == {run, perform}
MCConfigs == {[command |-> c, env |-> e] :
                c \in {Unset, perform}, e \in {<<>>, [v \in {tz} |-> v2]}}
==============================================================================
