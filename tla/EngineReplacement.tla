-------------------------- MODULE EngineReplacement --------------------------
(***************************************************************************)
(* The replacement of the gobackup engine container                        *)
(* (internal/pipeline/manage.go, ensureGobackupContainer and               *)
(* resumeGobackupReplacement), as reconcile calls it twice per pass: once  *)
(* with no extras, to finish an interrupted replacement, and once, after   *)
(* the configuration has been written, with the extras the sources need.   *)
(*                                                                         *)
(* Every Docker call and every file operation is a step of its own.  The   *)
(* daemon may carry a call out, refuse it, or lose its answer; a call      *)
(* whose answer was lost is still on its way and lands later, or never.    *)
(* The supervisor process may die between any two steps and the host may   *)
(* lose power.  The operator (docker compose, docker rm, docker stop ...)  *)
(* acts on the engine's name at any moment.                                *)
(***************************************************************************)
EXTENDS Naturals, FiniteSets

CONSTANTS
  Wants,        \* what the sources may need of the engine, as far as
                \* needsRecreate tells it apart (mounts, command, missing env)
  NoExtras,     \* ... and the case that they need nothing
  Poorer,       \* what may be left of a need when an inspect of a source fails
  Refused,      \* the subset of Wants Docker never creates (a bind source is gone)
  NoContainer,  \* nothing holds the engine's name
  NoRecord,     \* <output>.container.json does not exist
  MaxFaults,    \* bound: refused calls, lost answers and I/O errors
  MaxCrashes,   \* bound: deaths of the supervisor process
  MaxLosses,    \* bound: power losses of the host
  MaxMoves,     \* bound: interventions of the operator
  MaxChanges    \* bound: changes of what the sources need

ASSUME ReplacementAssumption ==
  /\ NoExtras \in Wants /\ Refused \subseteq Wants \ {NoExtras}
  /\ {MaxFaults, MaxCrashes, MaxLosses, MaxMoves, MaxChanges} \subseteq Nat
ASSUME PoorerAssumption == Poorer \in [Wants -> SUBSET Wants]

(* Ids are handed out by the daemon in creation order; 0 stands for "".    *)
Ids == Nat \ {0}
NoId == 0

(* What the supervisor reads of a container: its id, whether it carries    *)
(* the component label, the id under its replaces label (NoId: no such     *)
(* label), the extras it was created with, and whether it runs.            *)
Container == [id: Ids, component: BOOLEAN, replaces: Ids \cup {NoId},
              spec: Wants, running: BOOLEAN]

(* pendingReplacement.validate: a record always names its old container.   *)
Record == [old: Ids, spec: Wants]

(* A Docker call: stop, remove and start name a container; create names    *)
(* the container it replaces and the extras of the new one.                *)
Call == [op: {"stop", "remove", "create", "start"}, id: Ids, spec: Wants]

ASSUME NothingAssumption ==
  /\ NoContainer \notin Container \cup [spec: Wants, running: BOOLEAN]
  /\ NoRecord \notin [old: Nat, spec: Wants]

VARIABLES
  slot,      \* the container that holds the engine's name
  nextId,    \* the id of the next container created
  wire,      \* calls whose answer was lost: the daemon may still carry them out
  record,    \* the recovery record a process reads
  survives,  \* what a power loss may make of the record file
  want,      \* what the current sources need
  pc,        \* the call or file operation the supervisor is about to make
  phase,     \* which of reconcile's two calls of ensureGobackupContainer
  extras,    \* the extras computed by this pass
  pending,   \* the replacement being carried out
  target,    \* the container to start
  onClear,   \* where ensureGobackupContainer goes on after a resumed replacement
  status,    \* status.LastError: "boot" (no pass ended yet), "ok" or "error"
  due,       \* Run will start a pass: a request, or the timer after a failure
  short,     \* history: the extras last computed lack what an inspect did not give
  owed,      \* history: the supervisor took the engine down and owes a new one
  left       \* history: how much of each bound is left

daemon == <<slot, nextId, wire>>
disk   == <<record, survives>>
memory == <<pc, phase, extras, pending, target, onClear>>
needs  == <<want, short>>
vars   == <<slot, nextId, wire, record, survives, want, pc, phase, extras,
            pending, target, onClear, status, due, short, owed, left>>

PCs == {"idle", "read", "render", "find", "save", "dirsync", "inspect", "stop",
        "remove", "create", "start", "clear"}
Resuming == {"inspect", "stop", "remove", "create", "start", "clear"}

NoPending == [old |-> NoId, spec |-> NoExtras]

Spend(what) == /\ left[what] > 0
               /\ left' = [left EXCEPT ![what] = @ - 1]
-----------------------------------------------------------------------------
Init ==
  /\ slot \in {[id |-> 1, component |-> TRUE, replaces |-> NoId,
                spec |-> NoExtras, running |-> TRUE], NoContainer}
  /\ nextId = 2
  /\ wire = {}
  /\ record = NoRecord
  /\ survives = {NoRecord}
  /\ want \in Wants
  /\ pc = "idle" /\ phase = "recover" /\ extras = NoExtras
  /\ pending = NoPending /\ target = NoId /\ onClear = "ensure"
  /\ status = "boot" /\ due = TRUE /\ short = FALSE
  /\ owed = FALSE
  /\ left = [fault |-> MaxFaults, crash |-> MaxCrashes, loss |-> MaxLosses,
              move |-> MaxMoves, change |-> MaxChanges]
-----------------------------------------------------------------------------
(* How a pass ends: reconcile returns and its locals are gone; after an    *)
(* error, Run arms the timer for another pass.                             *)

Forget == /\ pc' = "idle" /\ phase' = "recover" /\ extras' = NoExtras
          /\ pending' = NoPending /\ target' = NoId /\ onClear' = "ensure"

(* Deviation: only an event brings another pass.                           *)
FailUnarmed == Forget /\ status' = "error" /\ UNCHANGED due

Fail    == Forget /\ status' = "error" /\ due' = TRUE
Succeed == Forget /\ status' = "ok" /\ UNCHANGED due

Goto(where) == /\ pc' = where
               /\ UNCHANGED <<phase, extras, pending, target, onClear, status, due>>

(* The rest of ensureGobackupContainer once no record is left: with no     *)
(* extras it returns; otherwise it looks for the engine.                   *)
AfterRecovery ==
  \/ phase = "recover" /\ Goto("render")
  \/ phase = "sync" /\ extras = NoExtras /\ Succeed
  \/ phase = "sync" /\ extras # NoExtras /\ Goto("find")
-----------------------------------------------------------------------------
(* The daemon's side of a call: what it does to the container that holds   *)
(* the name.  A call on a container that is gone changes nothing.          *)

Holds(id) == slot # NoContainer /\ slot.id = id

NewContainer(call) ==
  [id |-> nextId, component |-> TRUE, replaces |-> call.id, spec |-> call.spec,
   running |-> FALSE]

Effective(call) ==
  \/ call.op \in {"stop", "start"} /\ Holds(call.id)
  \/ call.op = "remove" /\ Holds(call.id) /\ ~slot.running
  \/ call.op = "create" /\ slot = NoContainer /\ call.spec \notin Refused

CarryOut(call) ==
  \/ /\ call.op = "stop" /\ Effective(call)
     /\ slot' = [slot EXCEPT !.running = FALSE]
     /\ owed' = IF slot.running THEN TRUE ELSE owed
     /\ UNCHANGED nextId
  \/ /\ call.op = "remove" /\ Effective(call)
     /\ slot' = NoContainer
     /\ owed' = TRUE
     /\ UNCHANGED nextId
  \/ /\ call.op = "create" /\ Effective(call)
     /\ slot' = NewContainer(call)
     /\ nextId' = nextId + 1
     /\ UNCHANGED owed
  \/ /\ call.op = "start" /\ Effective(call)
     /\ slot' = [slot EXCEPT !.running = TRUE]
     /\ owed' = FALSE
     /\ UNCHANGED nextId
  \/ /\ ~Effective(call)
     /\ UNCHANGED <<slot, nextId, owed>>

NameReserved == \E call \in wire : call.op = "create"

(* The call the supervisor is about to make.                               *)
CurrentCall ==
  [op |-> pc, id |-> IF pc = "start" THEN target ELSE pending.old,
   spec |-> pending.spec]

(* A call whose answer nobody will read: the daemon has accepted it, which *)
(* for a create takes a free name.                                         *)
Abandon ==
  /\ pc = "create" => slot = NoContainer /\ ~NameReserved
  /\ wire' = wire \cup {CurrentCall}

(* The error returns every call shares: the daemon refuses (nothing        *)
(* happens), or the connection breaks after the request was sent.          *)
CallFails ==
  /\ Fail
  /\ Spend("fault")
  /\ UNCHANGED wire \/ Abandon
  /\ UNCHANGED <<slot, nextId, owed>>

(* The call is answered: ok says whether the supervisor goes on.           *)
Answered(ok, next) ==
  /\ CarryOut(CurrentCall)
  /\ UNCHANGED <<wire, left>>
  /\ IF ok THEN next ELSE Fail
-----------------------------------------------------------------------------
(* reconcile, phase by phase.                                              *)

(* Run: the debounced trigger or the timer.                                *)
StartPass ==
  /\ pc = "idle" /\ due
  /\ pc' = "read" /\ due' = FALSE
  /\ UNCHANGED <<daemon, disk, needs, phase, extras, pending, target, onClear,
                 status, owed, left>>

(* Deviation: the resumed replacement is built for what the sources need   *)
(* now instead of what the record says.                                    *)
ReadRecordForToday ==
  /\ pc = "read"
  /\ IF record # NoRecord
     THEN /\ pc' = "inspect" /\ pending' = [record EXCEPT !.spec = want]
          /\ onClear' = "ensure"
          /\ UNCHANGED <<phase, extras, target, status, due>>
     ELSE AfterRecovery
  /\ UNCHANGED <<daemon, disk, needs, owed, left>>

(* os.ReadFile of the record: an unreadable record ends the pass.          *)
ReadRecord ==
  /\ pc = "read"
  /\ \/ /\ record # NoRecord
        /\ pc' = "inspect" /\ pending' = record /\ onClear' = "ensure"
        /\ UNCHANGED <<phase, extras, target, status, due, left>>
     \/ /\ record = NoRecord
        /\ AfterRecovery
        /\ UNCHANGED left
     \/ /\ Fail
        /\ Spend("fault")
  /\ UNCHANGED <<daemon, disk, needs, owed>>

(* List, read the defaults, build, discover volumes, write gobackup.yml,   *)
(* resolve the credentials: the extras are a snapshot of this moment.  An  *)
(* inspect of a source that fails, in discovery or in resolveCreds, is     *)
(* logged: the pass goes on without what it would have given.              *)
Render ==
  /\ pc = "render"
  /\ \/ /\ pc' = "read" /\ phase' = "sync"
        /\ \/ extras' = want /\ short' = FALSE /\ UNCHANGED left
           \/ extras' \in Poorer[want] /\ short' = TRUE /\ Spend("fault")
        /\ UNCHANGED <<pending, target, onClear, status, due>>
     \/ /\ Fail
        /\ Spend("fault")
        /\ UNCHANGED short
  /\ UNCHANGED <<daemon, disk, want, owed>>

(* findGobackupContainer finds the engine by its label; needsRecreate      *)
(* compares its spec with the extras.                                      *)
EngineFound == slot # NoContainer /\ slot.component

(* Deviation: an engine that has extras of any kind is left as it is.      *)
FindEngineOnce ==
  /\ pc = "find"
  /\ IF EngineFound
     THEN IF slot.spec # NoExtras
          THEN Succeed
          ELSE /\ pc' = "save" /\ onClear' = "return"
               /\ pending' = [old |-> slot.id, spec |-> extras]
               /\ UNCHANGED <<phase, extras, target, status, due>>
     ELSE Fail
  /\ UNCHANGED <<daemon, disk, needs, owed, left>>

FindEngine ==
  /\ pc = "find"
  /\ \/ /\ EngineFound
        /\ IF slot.spec = extras
           THEN Succeed
           ELSE /\ pc' = "save" /\ onClear' = "return"
                /\ pending' = [old |-> slot.id, spec |-> extras]
                /\ UNCHANGED <<phase, extras, target, status, due>>
        /\ UNCHANGED left
     \/ /\ ~EngineFound
        /\ Fail
        /\ UNCHANGED left
     \/ /\ Fail
        /\ Spend("fault")
  /\ UNCHANGED <<daemon, disk, needs, owed>>

(* Deviation: the error of the write is logged and the replacement goes on.*)
SaveRecordBestEffort ==
  /\ pc = "save"
  /\ \/ /\ record' = pending
        /\ survives' = survives \cup {pending}
        /\ Goto("dirsync")
        /\ UNCHANGED left
     \/ /\ Goto("inspect")
        /\ Spend("fault")
        /\ UNCHANGED disk
  /\ UNCHANGED <<daemon, needs, owed>>

(* AtomicWrite of the record up to the rename: it appears whole or not at  *)
(* all, and until the directory is synced a power loss may undo it.        *)
SaveRecord ==
  /\ pc = "save"
  /\ \/ /\ record' = pending
        /\ survives' = survives \cup {pending}
        /\ Goto("dirsync")
        /\ UNCHANGED left
     \/ /\ Fail
        /\ Spend("fault")
        /\ UNCHANGED disk
  /\ UNCHANGED <<daemon, needs, owed>>

(* The end of AtomicWrite: open the directory and sync it.                 *)
SyncDirectory ==
  /\ pc = "dirsync"
  /\ \/ /\ survives' = {record}
        /\ Goto("inspect")
        /\ UNCHANGED left
     \/ /\ Fail
        /\ Spend("fault")
        /\ UNCHANGED survives
  /\ UNCHANGED <<daemon, record, needs, owed>>
-----------------------------------------------------------------------------
(* resumeGobackupReplacement.                                              *)

(* Deviation: any container with the component label passes for ours.      *)
LooksLikeReplacement(c) == c.component

IsReplacement(c) == c.component /\ c.replaces = pending.old

(* The container that holds the name is the old one, its replacement, or   *)
(* another one, which is refused.                                          *)
InspectName ==
  /\ pc = "inspect"
  /\ \/ slot = NoContainer /\ Goto("create") /\ UNCHANGED left
     \/ Holds(pending.old) /\ Goto("stop") /\ UNCHANGED left
     \/ /\ slot # NoContainer /\ ~Holds(pending.old) /\ IsReplacement(slot)
        /\ pc' = "start" /\ target' = slot.id
        /\ UNCHANGED <<phase, extras, pending, onClear, status, due, left>>
     \/ /\ slot # NoContainer /\ ~Holds(pending.old) /\ ~IsReplacement(slot)
        /\ Fail
        /\ UNCHANGED left
     \/ /\ Fail
        /\ Spend("fault")
  /\ UNCHANGED <<daemon, disk, needs, owed>>

(* A container already stopped or gone is no error.                        *)
StopOld ==
  /\ pc = "stop"
  /\ \/ Answered(TRUE, Goto("remove"))
     \/ CallFails
  /\ UNCHANGED <<disk, needs>>

(* Not forced: Docker refuses to remove a container someone has started    *)
(* again, and one whose removal is already in progress.                    *)
RemovalInProgress ==
  /\ Holds(pending.old)
  /\ \E call \in wire : call.op = "remove" /\ call.id = pending.old

RemoveOld ==
  /\ pc = "remove"
  /\ \/ Answered(~Holds(pending.old) \/ ~slot.running, Goto("create"))
     \/ /\ RemovalInProgress
        /\ Fail
        /\ UNCHANGED <<daemon, owed, left>>
     \/ CallFails
  /\ UNCHANGED <<disk, needs>>

(* Docker refuses a name that is taken, and reserves it from the moment it *)
(* accepts a create.                                                       *)
CreateNew ==
  /\ pc = "create"
  /\ \/ /\ ~NameReserved
        /\ Answered(slot = NoContainer /\ pending.spec \notin Refused,
                    /\ pc' = "start" /\ target' = nextId
                    /\ UNCHANGED <<phase, extras, pending, onClear, status, due>>)
     \/ /\ NameReserved
        /\ Fail
        /\ UNCHANGED <<daemon, owed, left>>
     \/ CallFails
  /\ UNCHANGED <<disk, needs>>

(* A container already running is no error; one that is gone is.           *)
StartNew ==
  /\ pc = "start"
  /\ \/ Answered(Holds(target), Goto("clear"))
     \/ CallFails
  /\ UNCHANGED <<disk, needs>>

(* Deviation: the record is emptied instead of removed.                    *)
ClearRecordByTruncation ==
  /\ pc = "clear"
  /\ record' = NoPending
  /\ survives' = survives \cup {NoPending}
  /\ IF onClear = "return" THEN Succeed ELSE AfterRecovery
  /\ UNCHANGED <<daemon, needs, owed, left>>

(* Deviation: a failure to remove the record is ignored.                   *)
ClearRecordBestEffort ==
  /\ pc = "clear"
  /\ \/ /\ record' = NoRecord
        /\ survives' = survives \cup {NoRecord}
        /\ UNCHANGED left
     \/ /\ Spend("fault")
        /\ UNCHANGED disk
  /\ IF onClear = "return" THEN Succeed ELSE AfterRecovery
  /\ UNCHANGED <<daemon, needs, owed>>

(* os.Remove of the record; the directory is not synced.                   *)
ClearRecord ==
  /\ pc = "clear"
  /\ \/ /\ record' = NoRecord
        /\ survives' = survives \cup {NoRecord}
        /\ IF onClear = "return" THEN Succeed ELSE AfterRecovery
        /\ UNCHANGED left
     \/ /\ Fail
        /\ Spend("fault")
        /\ UNCHANGED disk
  /\ UNCHANGED <<daemon, needs, owed>>
-----------------------------------------------------------------------------
(* The environment.                                                        *)

(* The daemon carries out a call nobody waits for any more.                *)
Land ==
  /\ \E call \in wire : /\ CarryOut(call)
                        /\ wire' = wire \ {call}
  /\ UNCHANGED <<disk, needs, memory, status, due, left>>

(* The supervisor dies and is restarted; a call it was making may still    *)
(* reach the daemon.  main fills the channel before the loop runs.         *)
Crash ==
  /\ Forget
  /\ status' = "boot" /\ due' = TRUE
  /\ Spend("crash")
  /\ \/ UNCHANGED wire
     \/ /\ pc \in {"stop", "remove", "create", "start"}
        /\ Abandon
  /\ UNCHANGED <<slot, nextId, disk, needs, owed>>

(* The host loses power: calls under way are gone, the file system comes   *)
(* back in a state it may have kept, and nothing runs.  Whatever restarts  *)
(* the operator's own containers on boot is an operator's move.            *)
PowerLoss ==
  /\ Forget
  /\ status' = "boot" /\ due' = TRUE
  /\ Spend("loss")
  /\ wire' = {}
  /\ record' \in survives
  /\ survives' = {record'}
  /\ slot' = IF slot = NoContainer THEN slot ELSE [slot EXCEPT !.running = FALSE]
  /\ UNCHANGED <<nextId, needs, owed>>

(* The operator puts a container of his own on the name (compose recreates *)
(* the engine, or something else takes the name), removes what is there,   *)
(* stops it or starts it: from then on the engine is his affair.           *)
Deploy ==
  /\ ~NameReserved
  /\ \E label \in BOOLEAN :
       slot' = [id |-> nextId, component |-> label, replaces |-> NoId,
                spec |-> NoExtras, running |-> TRUE]
  /\ nextId' = nextId + 1

OperatorMoves ==
  /\ Spend("move")
  /\ owed' = FALSE
  /\ \/ Deploy
     \/ /\ slot # NoContainer
        /\ slot' = NoContainer
        /\ UNCHANGED nextId
     \/ /\ slot # NoContainer
        /\ \E up \in BOOLEAN : slot' = [slot EXCEPT !.running = up]
        /\ UNCHANGED nextId
  /\ UNCHANGED <<wire, disk, needs, memory, status, due>>

(* A source is started, dies, or is redeployed with other labels; that     *)
(* word of it reaches the loop is ReconcileLoop's matter.                  *)
SourcesChange ==
  /\ Spend("change")
  /\ want' \in Wants \ {want}
  /\ due' = TRUE
  /\ UNCHANGED <<daemon, disk, memory, status, short, owed>>

(* Another request: a container that has nothing to do with backups, the   *)
(* engine's own stop and start, an edit of defaults.yml, a reconnect.      *)
(* During a pass it waits in the channel, as if it came at the end.        *)
Request ==
  /\ pc = "idle" /\ ~due /\ due' = TRUE
  /\ UNCHANGED <<daemon, disk, memory, needs, status, owed, left>>
-----------------------------------------------------------------------------
SupervisorStep ==
  \/ StartPass \/ ReadRecord \/ Render \/ FindEngine \/ SaveRecord
  \/ SyncDirectory \/ InspectName \/ StopOld \/ RemoveOld \/ CreateNew
  \/ StartNew \/ ClearRecord

Next ==
  \/ SupervisorStep
  \/ Land \/ Crash \/ PowerLoss \/ OperatorMoves \/ SourcesChange \/ Request

Spec == Init /\ [][Next]_vars

(* A pass that is due begins (requests do not come faster than the         *)
(* debounce for ever) and runs to its end, and the daemon finishes what it *)
(* has accepted.  Nothing brings a pass that is not due: requests,         *)
(* failures, crashes, operators and sources are under no obligation.       *)
FairSpec == Spec /\ WF_vars(SupervisorStep) /\ WF_vars(Land)
-----------------------------------------------------------------------------
TypeOK ==
  /\ slot \in Container \cup {NoContainer}
  /\ nextId \in Ids
  /\ wire \subseteq Call
  /\ record \in Record \cup {NoRecord}
  /\ survives \subseteq Record \cup {NoRecord}
  /\ want \in Wants /\ extras \in Wants
  /\ pc \in PCs
  /\ phase \in {"recover", "sync"}
  /\ pending \in Record \cup {NoPending}
  /\ target \in Nat
  /\ onClear \in {"ensure", "return"}
  /\ status \in {"boot", "ok", "error"}
  /\ due \in BOOLEAN /\ short \in BOOLEAN /\ owed \in BOOLEAN
  /\ left \in [{"fault", "crash", "loss", "move", "change"} -> Nat]

NoLossYet == left.loss = MaxLosses

(* An engine the supervisor has taken down and not brought back always has *)
(* its recovery record on file, whatever calls failed, lost their answer   *)
(* or landed late and wherever the process died: the next process can      *)
(* finish.  (Power losses apart: see DurableWhileOwed.)                    *)
RecordWhileOwed == owed /\ NoLossYet => record # NoRecord

(* "Persist before any destructive operation" (manage.go:142), read for a  *)
(* host that may lose power: the record is one no power loss can undo.     *)
DurableWhileOwed == owed => NoRecord \notin survives

(* A pass that reports success leaves no replacement unfinished: the       *)
(* status API does not say "ok" while an engine is owed.                   *)
StatusHonest ==
  pc = "idle" /\ status = "ok" /\ NoLossYet => record = NoRecord /\ ~owed

(* The inductive invariant behind these.  Fresh: ids only grow, so an id    *)
(* once gone never names a container again.  Stages: what memory and file  *)
(* have to do with each other at each call.  OldGone: once the old engine  *)
(* is removed, what is started is its successor.  Wire: what a call that   *)
(* lands late can still do.  Owed: the supervisor's debt.                  *)
Fresh ==
  /\ slot # NoContainer => slot.id < nextId
  /\ \A call \in wire : call.id < nextId
  /\ \A r \in survives \cup {record} : r # NoRecord => r.old < nextId
  /\ pending.old < nextId /\ target < nextId

Stages ==
  /\ pc \in Resuming \cup {"dirsync"} => record = pending /\ record # NoRecord
  /\ pc \in {"render", "find", "save"} => record = NoRecord
  /\ pc = "save" => pending \in Record
  /\ pc \in {"start", "clear"} => target # NoId /\ ~NameReserved
  /\ record \in survives

OldGone ==
  /\ pc \in {"create", "start", "clear"} => ~Holds(pending.old)
  /\ pc \in {"start", "clear"} /\ Holds(target) => slot.replaces # NoId

Wire ==
  /\ \A call \in wire :
       /\ call.op \in {"stop", "remove"} /\ Holds(call.id) =>
            record # NoRecord /\ record.old = call.id
       /\ call.op = "start" /\ Holds(call.id) => slot.replaces # NoId
       /\ call.op = "create" =>
            /\ slot = NoContainer
            /\ record = [old |-> call.id, spec |-> call.spec]
  /\ \A c, d \in wire : c.op = "create" /\ d.op = "create" => c = d

Owed ==
  /\ left.loss <= MaxLosses
  /\ owed => slot = NoContainer \/ ~slot.running
  /\ pc = "clear" => ~owed

IInv == /\ TypeOK /\ Fresh /\ Stages /\ OldGone /\ Wire /\ Owed
        /\ RecordWhileOwed /\ StatusHonest

(* No call of the supervisor, however late it lands, changes a container   *)
(* the operator deployed, but for the one the record names as replaced.    *)
OperatorsEngineUntouched ==
  [][ (/\ slot # NoContainer /\ slot.replaces = NoId /\ slot' # slot
       /\ left'.move = left.move /\ left'.loss = left.loss)
      => record # NoRecord /\ record.old = slot.id ]_vars

(* The engine the supervisor brings back after it took one down is the one *)
(* the record describes, even when the sources have changed since.         *)
Swap == INSTANCE EngineSwap WITH
  Specs     <- Wants,
  OwnSpec   <- NoExtras,
  Promises  <- Record,
  NoPromise <- NoRecord,
  NoEngine  <- NoContainer,
  engine    <- IF slot = NoContainer THEN NoContainer
               ELSE [spec |-> slot.spec, running |-> slot.running],
  promise   <- record
KeepsPromise == Swap!Spec

(* A replacement that cannot be completed: another container has the name, *)
(* or Docker creates no container with what the record says.               *)
Stuck == /\ record # NoRecord
         /\ \/ /\ slot # NoContainer
               /\ slot.id # record.old /\ slot.replaces # record.old
            \/ record.spec \in Refused

(* A replacement once recorded is finished, whatever calls failed or lost  *)
(* their answer and wherever the process died, unless another container    *)
(* takes the engine's name or Docker refuses every create of it            *)
(* (resumeGobackupReplacement at the head of each pass; Run's retry).      *)
RecoveryEnds == record # NoRecord ~> (record = NoRecord \/ Stuck)

Serves(spec) == slot # NoContainer /\ slot.running /\ slot.spec = spec

(* Left alone by the operator, an engine that exists ends up running with  *)
(* what the sources need, once they stop changing: unless the last pass    *)
(* went on without an inspect that failed, which nothing retries, or the   *)
(* replacement it began is stuck.                                          *)
Converges ==
  slot # NoContainer /\ [](left.move = MaxMoves) =>
    <>[](want # NoExtras /\ ~short /\ ~Stuck => Serves(want))

(* The same when the sources need nothing any more (mergeMounts: "Stale    *)
(* managed mounts ... are dropped").                                       *)
StaleExtrasDropped ==
  slot # NoContainer => <>[](want = NoExtras => Serves(NoExtras))
=============================================================================
