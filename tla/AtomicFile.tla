----------------------------- MODULE AtomicFile -----------------------------
(***************************************************************************)
(* What AtomicWrite promises of the file it replaces: whoever reads it     *)
(* finds the whole of something that was written, before and after a       *)
(* power loss, and what was acknowledged as written is still there.        *)
(***************************************************************************)
CONSTANTS Contents,   \* what is ever written
          Missing     \* there is no file

VARIABLES file,       \* what a reader finds
          survives,   \* what a power loss may make of it
          acked       \* the write last acknowledged, or Missing

vars == <<file, survives, acked>>

Init == /\ file \in Contents \cup {Missing}
        /\ survives = {file}
        /\ acked = Missing

Replace == /\ file' \in Contents
           /\ survives' = survives \cup {file'}
           /\ UNCHANGED acked

Harden == /\ survives' = {file}
          /\ UNCHANGED <<file, acked>>

(* Only what no power loss can undo is acknowledged.                       *)
Acknowledge == /\ survives = {file}
               /\ acked' \in {file, Missing}
               /\ UNCHANGED <<file, survives>>

(* A process that starts another write, or dies, remembers no answer.      *)
Forget == /\ acked' = Missing
          /\ UNCHANGED <<file, survives>>

PowerLoss == /\ file' \in survives
             /\ survives' = {file'}
             /\ acked' = Missing

Next == Replace \/ Harden \/ Acknowledge \/ Forget \/ PowerLoss

Spec == Init /\ [][Next]_vars
=============================================================================
