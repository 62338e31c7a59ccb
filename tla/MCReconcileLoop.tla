--------------------------- MODULE MCReconcileLoop ---------------------------
(* Instances of ReconcileLoop for TLC. *)
EXTENDS ReconcileLoop

CONSTANTS s1, s2, d1, d2   \* model values: sources and defaults

MCSources == {s1, s2}
MCDefaults == {d1, d2, Broken}

(* The behaviours that start from s1 and d1.  Nothing tells one source, or  *)
(* one parseable defaults file, from another, so the others are these with *)
(* the names exchanged.                                                    *)
MCInit == Init /\ sources = s1 /\ defaults = d1

MCFairSpec == MCInit /\ [][Next]_vars /\ Fairness
==============================================================================
