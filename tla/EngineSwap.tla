----------------------------- MODULE EngineSwap -----------------------------
(***************************************************************************)
(* What replacing the engine promises, without Docker calls, files or      *)
(* passes.  The supervisor announces which engine it is going to replace   *)
(* and by what (the recovery record); only then may it take the engine     *)
(* down; an engine it took down it owes, and what it builds is exactly     *)
(* what it announced; and it withdraws the announcement only when it owes  *)
(* nothing.  The operator may do what he likes with the engine.  A host    *)
(* that loses power stops the engine, undoes an announcement that has not  *)
(* been hardened, and may bring one back that was withdrawn.               *)
(***************************************************************************)
CONSTANTS Specs,      \* what an engine can be created with
          OwnSpec,    \* what the operator creates his engines with
          Promises,   \* announcements: records with a field spec \in Specs
          NoPromise,  \* nothing is announced
          NoEngine    \* no container is the engine

VARIABLES engine,     \* [spec, running] of the engine, or NoEngine
          owed,       \* the supervisor took the engine down
          promise,    \* the announcement on file
          survives    \* what a power loss may make of it

vars == <<engine, owed, promise, survives>>

Engines == [spec: Specs, running: BOOLEAN]

Init == /\ engine \in {[spec |-> OwnSpec, running |-> TRUE], NoEngine}
        /\ owed = FALSE
        /\ promise = NoPromise
        /\ survives = {NoPromise}

Announce == /\ promise = NoPromise
            /\ promise' \in Promises
            /\ survives' = survives \cup {promise'}
            /\ UNCHANGED <<engine, owed>>

Harden == /\ survives' = {promise}
          /\ UNCHANGED <<engine, owed, promise>>

(* Stop it, then remove it.                                                *)
TakeDown == /\ promise # NoPromise /\ engine # NoEngine
            /\ engine' \in {NoEngine, [spec |-> engine.spec, running |-> FALSE]}
            /\ owed' \in {owed, TRUE}
            /\ UNCHANGED <<promise, survives>>

Build == /\ promise # NoPromise /\ engine = NoEngine
         /\ engine' = [spec |-> promise.spec, running |-> FALSE]
         /\ UNCHANGED <<owed, promise, survives>>

BringUp == /\ engine # NoEngine
           /\ engine' = [spec |-> engine.spec, running |-> TRUE]
           /\ owed' = FALSE
           /\ UNCHANGED <<promise, survives>>

Withdraw == /\ ~owed
            /\ promise' = NoPromise
            /\ survives' = survives \cup {NoPromise}
            /\ UNCHANGED <<engine, owed>>

(* The operator deploys an engine of his own, or removes or stops the one  *)
(* there is.                                                               *)
OutsideHand == /\ \/ engine' = [spec |-> OwnSpec, running |-> TRUE]
                  \/ engine' = NoEngine
                  \/ /\ engine # NoEngine
                     /\ engine' = [spec |-> engine.spec, running |-> FALSE]
               /\ owed' = FALSE
               /\ UNCHANGED <<promise, survives>>

PowerLoss == /\ promise' \in survives
             /\ survives' = {promise'}
             /\ engine' = IF engine = NoEngine THEN NoEngine
                          ELSE [spec |-> engine.spec, running |-> FALSE]
             /\ UNCHANGED owed

Next == Announce \/ Harden \/ TakeDown \/ Build \/ BringUp \/ Withdraw
          \/ OutsideHand \/ PowerLoss

Spec == Init /\ [][Next]_vars
=============================================================================
