--------------------------- MODULE MCConfigWriter ---------------------------
(* An instance of ConfigWriter for TLC. *)
EXTENDS ConfigWriter

CONSTANTS config1, config2, garbled   \* model values

MCConfigs == {config1, config2, garbled}
MCMalformed == {garbled}
=============================================================================
