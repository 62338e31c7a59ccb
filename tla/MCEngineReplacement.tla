------------------------- MODULE MCEngineReplacement -------------------------
(* Instances of EngineReplacement for TLC. *)
EXTENDS EngineReplacement

CONSTANTS none, mounts1, mounts2, gone   \* model values: what sources may need

MCWants == {none, mounts1, mounts2, gone}
MCFewWants == {none, mounts1, gone}

(* mounts1 is a part of the others.                                        *)
MCPoorer == [w \in MCWants |-> CASE w = none    -> {}
                                 [] w = mounts1 -> {none}
                                 [] OTHER       -> {none, mounts1}]
MCFewPoorer == [w \in MCFewWants |-> MCPoorer[w]]
==============================================================================
