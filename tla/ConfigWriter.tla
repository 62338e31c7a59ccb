---------------------------- MODULE ConfigWriter ----------------------------
(***************************************************************************)
(* FileWriter.Apply and AtomicWrite (internal/apply/filewatch.go): the     *)
(* generated configuration reaches disk through a temporary file, a sync   *)
(* and a rename, and is not written again while it does not change.        *)
(*                                                                         *)
(* Each file operation is a step that may fail.  The process may die and   *)
(* the host may lose power between any two of them: a power loss undoes a  *)
(* rename whose directory was not synced and tears data that was not.      *)
(***************************************************************************)
EXTENDS Naturals

CONSTANTS
  Configs,     \* the byte strings a pass may render
  Malformed,   \* the subset of them that does not parse as YAML
  Torn,        \* bytes that are no whole configuration: empty or cut short
  NoBytes,     \* w.last before the first write of a process
  NoFile,      \* no file has the name
  MaxFaults,   \* bound: failing file operations
  MaxCrashes,  \* bound: deaths of the process
  MaxLosses    \* bound: power losses of the host

ASSUME WriterAssumption ==
  /\ Malformed \subseteq Configs
  /\ Torn \notin Configs /\ NoBytes \notin Configs \cup {Torn}
  /\ {MaxFaults, MaxCrashes, MaxLosses} \subseteq Nat

(* A file is its bytes and whether they have been synced.                  *)
File == [bytes: Configs \cup {Torn}, synced: BOOLEAN]

ASSUME NoFileAssumption == NoFile \notin File

VARIABLES
  path,      \* the file a reader finds at w.Path
  survives,  \* the files a power loss may leave there
  temp,      \* the temporary file of the write under way
  pc,        \* the next operation of Apply
  cfg,       \* Apply's argument
  last,      \* w.last
  answer,    \* what the last call of Apply returned: "changed", "unchanged",
             \* "error"; or "none" since the process started or a call began
  replaced,  \* history: how far this process got with its last replacement of
             \* the file: "never", "half" (it failed after its rename), "fully"
  left       \* history: how much of each bound is left

vars == <<path, survives, temp, pc, cfg, last, answer, replaced, left>>

disk == <<path, survives>>

PCs == {"idle", "create", "write", "chmod", "sync", "close", "rename",
        "opendir", "syncdir", "remember"}

Spend(what) == /\ left[what] > 0
               /\ left' = [left EXCEPT ![what] = @ - 1]

Init ==
  /\ \/ path = NoFile
     \/ \E good \in Configs \ Malformed : path = [bytes |-> good, synced |-> TRUE]
  /\ survives = {path}
  /\ temp = NoFile
  /\ pc = "idle" /\ cfg = NoBytes /\ last = NoBytes
  /\ answer = "none" /\ replaced = "never"
  /\ left = [fault |-> MaxFaults, crash |-> MaxCrashes, loss |-> MaxLosses]
-----------------------------------------------------------------------------
(* Apply returns; AtomicWrite's deferred os.Remove takes the temporary     *)
(* file away, if a rename has not.                                         *)
Return(result) == /\ pc' = "idle"
                  /\ answer' = result
                  /\ temp' = NoFile

(* An operation fails: Apply returns its error.                            *)
Fails == /\ Return("error")
         /\ Spend("fault")
         /\ UNCHANGED <<disk, cfg, last>>

Goto(where) == /\ pc' = where
               /\ UNCHANGED <<cfg, last, answer, replaced, left>>

(* Deviation: the argument is remembered before it is written.             *)
ApplyEagerly(bytes) ==
  /\ pc = "idle"
  /\ cfg' = bytes
  /\ IF bytes = last
     THEN Return("unchanged") /\ UNCHANGED last
     ELSE IF bytes \in Malformed
     THEN Return("error") /\ UNCHANGED last
     ELSE pc' = "create" /\ answer' = "none" /\ last' = bytes /\ UNCHANGED temp
  /\ UNCHANGED <<disk, replaced, left>>

(* Apply's two early returns: nothing new, nothing valid.                  *)
Apply(bytes) ==
  /\ pc = "idle"
  /\ cfg' = bytes
  /\ \/ bytes = last /\ Return("unchanged")
     \/ bytes # last /\ bytes \in Malformed /\ Return("error")
     \/ /\ bytes # last /\ bytes \notin Malformed
        /\ pc' = "create" /\ answer' = "none"
        /\ UNCHANGED temp
  /\ UNCHANGED <<disk, last, replaced, left>>

CreateTemp ==
  /\ pc = "create"
  /\ \/ /\ temp' = [bytes |-> Torn, synced |-> FALSE]
        /\ Goto("write") /\ UNCHANGED disk
     \/ Fails /\ UNCHANGED replaced

WriteTemp ==
  /\ pc = "write"
  /\ \/ /\ temp' = [temp EXCEPT !.bytes = cfg]
        /\ Goto("chmod") /\ UNCHANGED disk
     \/ Fails /\ UNCHANGED replaced

ChmodTemp ==
  /\ pc = "chmod"
  /\ \/ Goto("sync") /\ UNCHANGED <<disk, temp>>
     \/ Fails /\ UNCHANGED replaced

(* Deviation: the temporary file is not synced.                            *)
SyncTempSkipped ==
  /\ pc = "sync"
  /\ Goto("close") /\ UNCHANGED <<disk, temp>>

SyncTemp ==
  /\ pc = "sync"
  /\ \/ /\ temp' = [temp EXCEPT !.synced = TRUE]
        /\ Goto("close") /\ UNCHANGED disk
     \/ Fails /\ UNCHANGED replaced

CloseTemp ==
  /\ pc = "close"
  /\ \/ Goto("rename") /\ UNCHANGED <<disk, temp>>
     \/ Fails /\ UNCHANGED replaced

(* The temporary file becomes the file; the directory that says so is not  *)
(* on disk yet.                                                            *)
Rename ==
  /\ pc = "rename"
  /\ \/ /\ path' = temp /\ temp' = NoFile
        /\ survives' = survives \cup {temp}
        /\ Goto("opendir")
     \/ Fails /\ UNCHANGED replaced

(* From here on a failure is reported for a file that has been replaced.   *)
OpenDirectory ==
  /\ pc = "opendir"
  /\ \/ Goto("syncdir") /\ UNCHANGED <<disk, temp>>
     \/ Fails /\ replaced' = "half"

(* Deviation: the directory is not synced.                                 *)
SyncDirectorySkipped ==
  /\ pc = "syncdir"
  /\ Goto("remember") /\ UNCHANGED <<disk, temp>>

SyncDirectory ==
  /\ pc = "syncdir"
  /\ \/ /\ survives' = {path}
        /\ Goto("remember") /\ UNCHANGED <<path, temp>>
     \/ Fails /\ replaced' = "half"

(* Deviation: what was written is not remembered.                          *)
RememberNothing ==
  /\ pc = "remember"
  /\ replaced' = "fully"
  /\ Return("changed")
  /\ UNCHANGED <<disk, cfg, last, left>>

Remember ==
  /\ pc = "remember"
  /\ last' = cfg
  /\ replaced' = "fully"
  /\ Return("changed")
  /\ UNCHANGED <<disk, cfg, left>>
-----------------------------------------------------------------------------
(* A process starts with nothing remembered and nothing under way; the     *)
(* temporary file of the one before it stays in the directory for good.    *)
Restart == /\ pc' = "idle" /\ temp' = NoFile /\ cfg' = NoBytes
           /\ last' = NoBytes /\ answer' = "none" /\ replaced' = "never"

Crash == Spend("crash") /\ Restart /\ UNCHANGED disk

(* What a file may hold after a power loss.                                *)
AfterLoss(f) ==
  IF f = NoFile \/ f.synced THEN {f}
  ELSE [bytes: {f.bytes, Torn}, synced: {TRUE}]

PowerLoss ==
  /\ Spend("loss")
  /\ \E f \in survives : path' \in AfterLoss(f)
  /\ survives' = {path'}
  /\ Restart

Next ==
  \/ \E bytes \in Configs : Apply(bytes)
  \/ CreateTemp \/ WriteTemp \/ ChmodTemp \/ SyncTemp \/ CloseTemp \/ Rename
  \/ OpenDirectory \/ SyncDirectory \/ Remember
  \/ Crash \/ PowerLoss

Spec == Init /\ [][Next]_vars
-----------------------------------------------------------------------------
TypeOK ==
  /\ path \in File \cup {NoFile} /\ temp \in File \cup {NoFile}
  /\ survives \subseteq File \cup {NoFile}
  /\ pc \in PCs
  /\ cfg \in Configs \cup {NoBytes} /\ last \in Configs \cup {NoBytes}
  /\ answer \in {"none", "changed", "unchanged", "error"}
  /\ replaced \in {"never", "half", "fully"}
  /\ left \in [{"fault", "crash", "loss"} -> Nat]

OnFile(bytes) == path = [bytes |-> bytes, synced |-> TRUE] /\ survives = {path}

(* Apply returns no error only if the file holds its argument and no power *)
(* loss can undo that, whether it wrote or found nothing to write: unless  *)
(* an earlier write failed after its rename.                               *)
AppliedIsOnFile ==
  answer \in {"changed", "unchanged"} /\ replaced # "half" => OnFile(cfg)

(* The same without the exception: Apply "de-duplicates against the last   *)
(* bytes it wrote" (filewatch.go:16-17), so when it finds nothing to write *)
(* the file holds what it was asked to write.                              *)
UnchangedIsOnFile == answer = "unchanged" => OnFile(cfg)

(* "An unchanged result never touches the file" (README.md:47): a rename   *)
(* brings gobackup new bytes, but for the first write of a process and     *)
(* what follows a write that failed after its rename.                      *)
NoNeedlessReload ==
  [][ pc = "rename" /\ pc' = "opendir" /\ path # NoFile
      /\ replaced = "fully"
      => path'.bytes # path.bytes ]_vars

(* Whoever reads the file finds the whole of a valid configuration, before *)
(* and after crashes and power losses, and what Apply says it changed no   *)
(* power loss undoes.                                                      *)
BytesOf(f) == IF f = NoFile THEN NoFile
              ELSE IF f.synced THEN f.bytes ELSE Torn

Target == INSTANCE AtomicFile WITH
  Contents <- Configs \ Malformed,
  Missing  <- NoFile,
  file     <- BytesOf(path),
  survives <- {BytesOf(f) : f \in survives},
  acked    <- IF answer = "changed" THEN cfg ELSE NoFile
ReplacesAtomically == Target!Spec

(* The inductive invariant: what is under the name is whole and synced;    *)
(* what the temporary file holds at each operation; and what w.last knows. *)
Whole == \A f \in survives \cup {path} :
           f # NoFile => f.bytes \in Configs \ Malformed /\ f.synced

TempFile ==
  /\ pc # "idle" => cfg \in Configs \ Malformed /\ answer = "none"
  /\ pc \in {"write", "chmod", "sync", "close", "rename"} => temp # NoFile
  /\ pc \in {"chmod", "sync", "close", "rename"} => temp.bytes = cfg
  /\ pc \in {"close", "rename"} => temp.synced

Knowledge ==
  /\ path \in survives
  /\ pc \in {"opendir", "syncdir", "remember"} => path.bytes = cfg /\ path # NoFile
  /\ pc = "remember" => survives = {path}
  /\ pc \notin {"opendir", "syncdir", "remember"} /\ last # NoBytes /\ replaced # "half"
       => OnFile(last)
  /\ pc # "idle" => cfg # last
  /\ answer \in {"changed", "unchanged"} => cfg = last /\ last # NoBytes
  /\ replaced = "fully" => last # NoBytes

IInv == TypeOK /\ Whole /\ TempFile /\ Knowledge /\ AppliedIsOnFile
=============================================================================
