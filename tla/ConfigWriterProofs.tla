-------------------------- MODULE ConfigWriterProofs --------------------------
(***************************************************************************)
(* Proofs about ConfigWriter: its inductive invariant, and from it that    *)
(* Apply's answers are true, that an unchanged configuration is left       *)
(* alone, and that the file is replaced as AtomicFile says.                *)
(***************************************************************************)
EXTENDS ConfigWriter, TLAPS

(* A process starts with the file an earlier one left, whole and synced.   *)
LEMMA InitInv == Init => IInv
  <1> SUFFICES ASSUME Init PROVE IInv
    OBVIOUS
  <1>1. path # NoFile => /\ path \in File /\ path.synced
                         /\ path.bytes \in Configs \ Malformed
    <2>1. ASSUME NEW good \in Configs \ Malformed,
                 path = [bytes |-> good, synced |-> TRUE]
          PROVE  path \in File /\ path.synced /\ path.bytes \in Configs \ Malformed
      BY <2>1 DEF File
    <2> QED
      BY <2>1 DEF Init
  <1>2. TypeOK
    BY <1>1, WriterAssumption DEF Init, TypeOK, File, PCs
  <1>3. Whole
    BY <1>1 DEF Init, Whole
  <1>4. TempFile /\ Knowledge /\ AppliedIsOnFile
    BY DEF Init, TempFile, Knowledge, AppliedIsOnFile
  <1> QED
    BY <1>2, <1>3, <1>4 DEF IInv

(* Apply's early returns, and the start of a write.                        *)
LEMMA ApplyInv ==
  ASSUME IInv, NEW bytes \in Configs, Apply(bytes)
  PROVE  IInv'
  <1>1. CASE bytes = last
    BY <1>1, WriterAssumption, NoFileAssumption
    DEF Apply, Return, IInv, TypeOK, Whole, TempFile, Knowledge,
        AppliedIsOnFile, OnFile, File, PCs, disk
  <1>2. CASE bytes # last
    BY <1>2, WriterAssumption, NoFileAssumption
    DEF Apply, Return, IInv, TypeOK, Whole, TempFile, Knowledge,
        AppliedIsOnFile, OnFile, File, PCs, disk
  <1> QED
    BY <1>1, <1>2

(* Writing and syncing change one thing of a file each.                    *)
LEMMA FileEdits ==
  ASSUME NEW f \in File, NEW b \in Configs
  PROVE  /\ [f EXCEPT !.bytes = b] \in File /\ [f EXCEPT !.bytes = b].bytes = b
         /\ [f EXCEPT !.synced = TRUE] \in File
         /\ [f EXCEPT !.synced = TRUE].synced
         /\ [f EXCEPT !.synced = TRUE].bytes = f.bytes
  BY DEF File

(* The operations before the rename touch the temporary file only.         *)
LEMMA TempInv ==
  ASSUME IInv, CreateTemp \/ WriteTemp \/ ChmodTemp \/ SyncTemp \/ CloseTemp
  PROVE  IInv'
  <1>1. UNCHANGED <<path, survives, cfg, last, replaced>>
    BY DEF CreateTemp, WriteTemp, ChmodTemp, SyncTemp, CloseTemp, Goto, Fails, disk
  <1>2. answer' \in {"none", "error"}
    BY DEF CreateTemp, WriteTemp, ChmodTemp, SyncTemp, CloseTemp, Goto, Fails,
           Return, IInv, TempFile
  <1>3. pc' \in PCs /\ left' \in [{"fault", "crash", "loss"} -> Nat]
    BY DEF CreateTemp, WriteTemp, ChmodTemp, SyncTemp, CloseTemp, Goto, Fails,
           Return, Spend, IInv, TypeOK, PCs
  <1>4. temp' \in File \cup {NoFile} /\ TempFile'
    <2>1. cfg \in Configs \ Malformed /\ answer = "none"
      BY DEF CreateTemp, WriteTemp, ChmodTemp, SyncTemp, CloseTemp, IInv, TempFile
    <2>2. pc # "create" => temp \in File
      BY DEF CreateTemp, WriteTemp, ChmodTemp, SyncTemp, CloseTemp, IInv, TypeOK,
             TempFile
    <2>3. CASE Fails
      BY <2>3 DEF Fails, Return, TempFile
    <2>4. CASE CreateTemp /\ ~Fails
      <3>1. temp' = [bytes |-> Torn, synced |-> FALSE]
        BY <2>4 DEF CreateTemp
      <3>2. [bytes |-> Torn, synced |-> FALSE] \in File
        BY DEF File
      <3>3. pc' = "write" /\ answer' = answer
        BY <2>4 DEF CreateTemp, Goto
      <3> QED
        BY <1>1, <2>1, <3>1, <3>2, <3>3, NoFileAssumption DEF TempFile
    <2>5. CASE WriteTemp /\ ~Fails
      <3>1. temp' = [temp EXCEPT !.bytes = cfg] /\ pc' = "chmod" /\ answer' = answer
        BY <2>5 DEF WriteTemp, Goto
      <3>2. temp' \in File /\ temp'.bytes = cfg
        BY <2>1, <2>2, <2>5, <3>1, FileEdits DEF WriteTemp
      <3> QED
        BY <1>1, <2>1, <3>1, <3>2, NoFileAssumption DEF TempFile
    <2>6. CASE ChmodTemp /\ ~Fails
      BY <1>1, <2>1, <2>2, <2>6 DEF ChmodTemp, Goto, IInv, TempFile
    <2>7. CASE SyncTemp /\ ~Fails
      <3>1. temp' = [temp EXCEPT !.synced = TRUE] /\ pc' = "close" /\ answer' = answer
        BY <2>7 DEF SyncTemp, Goto
      <3>2. temp' \in File /\ temp'.bytes = cfg /\ temp'.synced
        BY <2>1, <2>2, <2>7, <3>1, FileEdits DEF SyncTemp, IInv, TempFile
      <3> QED
        BY <1>1, <2>1, <3>1, <3>2, NoFileAssumption DEF TempFile
    <2>8. CASE CloseTemp /\ ~Fails
      BY <1>1, <2>1, <2>2, <2>8 DEF CloseTemp, Goto, IInv, TempFile
    <2> QED
      BY <2>3, <2>4, <2>5, <2>6, <2>7, <2>8
  <1>5. TypeOK'
    BY <1>1, <1>2, <1>3, <1>4 DEF IInv, TypeOK
  <1>6. Whole'
    BY <1>1 DEF IInv, Whole
  <1>7. Knowledge' /\ AppliedIsOnFile'
    BY <1>1, <1>2
    DEF CreateTemp, WriteTemp, ChmodTemp, SyncTemp, CloseTemp, Goto, Fails, Return,
        IInv, Knowledge, AppliedIsOnFile, OnFile
  <1> QED
    BY <1>4, <1>5, <1>6, <1>7 DEF IInv

(* The rename puts a whole and synced file under the name.                 *)
LEMMA RenameInv == ASSUME IInv, Rename PROVE IInv'
  BY WriterAssumption, NoFileAssumption
  DEF Rename, Goto, Fails, Return, Spend, IInv, TypeOK, Whole, TempFile,
      Knowledge, AppliedIsOnFile, OnFile, File, PCs, disk

(* After it, a failure leaves w.last behind the file; success does not.    *)
LEMMA DirectoryInv ==
  ASSUME IInv, OpenDirectory \/ SyncDirectory \/ Remember
  PROVE  IInv'
  BY WriterAssumption, NoFileAssumption
  DEF OpenDirectory, SyncDirectory, Remember, Goto, Fails, Return, Spend, IInv,
      TypeOK, Whole, TempFile, Knowledge, AppliedIsOnFile, OnFile, File, PCs, disk

(* A process that dies takes its memory with it, and the host's power loss *)
(* one of the files that were whole and synced.                            *)
LEMMA RestartInv == ASSUME IInv, Crash \/ PowerLoss PROVE IInv'
  <1>1. ASSUME PowerLoss PROVE path' \in survives
    BY <1>1 DEF PowerLoss, AfterLoss, IInv, Whole
  <1> QED
    BY <1>1, WriterAssumption, NoFileAssumption
    DEF Crash, PowerLoss, Restart, Spend, IInv, TypeOK, Whole, TempFile,
        Knowledge, AppliedIsOnFile, OnFile, File, PCs, disk

(* Every step keeps the inductive invariant.                               *)
LEMMA StepInv == IInv /\ [Next]_vars => IInv'
  <1> SUFFICES ASSUME IInv, [Next]_vars PROVE IInv'
    OBVIOUS
  <1>1. CASE UNCHANGED vars
    BY <1>1 DEF vars, IInv, TypeOK, Whole, TempFile, Knowledge, AppliedIsOnFile,
                OnFile
  <1>2. CASE Next
    BY <1>2, ApplyInv, TempInv, RenameInv, DirectoryInv, RestartInv DEF Next
  <1> QED
    BY <1>1, <1>2

(* The inductive invariant holds in every state of every behaviour.        *)
THEOREM WriterInvariance == Spec => []IInv
  BY InitInv, StepInv, PTL DEF Spec

(* Apply's answers are true: FileWriter.Apply returns no error only for    *)
(* what is on file for good, but after a write that failed half way.       *)
THEOREM AnswersAreTrue == Spec => []AppliedIsOnFile
  <1>1. IInv => AppliedIsOnFile
    BY DEF IInv
  <1> QED
    BY <1>1, WriterInvariance, PTL

(* An unchanged configuration is not written again.                        *)
THEOREM ReloadsAreNeeded == Spec => NoNeedlessReload
  <1>1. IInv /\ [Next]_vars =>
          [ pc = "rename" /\ pc' = "opendir" /\ path # NoFile
            /\ replaced = "fully" => path'.bytes # path.bytes ]_vars
    <2> SUFFICES ASSUME IInv, Next, pc = "rename", pc' = "opendir",
                        path # NoFile, replaced = "fully"
                 PROVE  path'.bytes # path.bytes
      OBVIOUS
    <2>1. Rename /\ path' = temp
      BY DEF Next, Apply, CreateTemp, WriteTemp, ChmodTemp, SyncTemp, CloseTemp,
             Rename, OpenDirectory, SyncDirectory, Remember, Crash, PowerLoss,
             Restart, Fails, Return
    <2>2. temp.bytes = cfg /\ cfg # last /\ path.bytes = last
      BY DEF IInv, TempFile, Knowledge, OnFile
    <2> QED
      BY <2>1, <2>2
  <1> QED
    BY <1>1, WriterInvariance, PTL DEF Spec, NoNeedlessReload

(* Each step of AtomicWrite, seen through what a reader may find, is one of *)
(* AtomicFile or none.                                                     *)
LEMMA WriteStep == IInv /\ IInv' /\ [Next]_vars => [Target!Next]_(Target!vars)
  <1> SUFFICES ASSUME IInv, IInv', [Next]_vars PROVE [Target!Next]_(Target!vars)
    OBVIOUS
  <1> DEFINE Acked == IF answer = "changed" THEN cfg ELSE NoFile
  <1> DEFINE May == {BytesOf(f) : f \in survives}
  <1> USE WriterAssumption, NoFileAssumption
  <1>1. CASE UNCHANGED vars
    BY <1>1 DEF vars, Target!vars, BytesOf
  <1>2. CASE \E bytes \in Configs : Apply(bytes)
    <2>1. Acked' = NoFile /\ UNCHANGED <<path, survives>>
      BY <1>2 DEF Apply, Return, disk
    <2> QED
      BY <2>1 DEF Target!Next, Target!Forget, Target!vars, BytesOf
  <1>3. CASE CreateTemp \/ WriteTemp \/ ChmodTemp \/ SyncTemp \/ CloseTemp
             \/ OpenDirectory
    <2>1. Acked' = NoFile /\ UNCHANGED <<path, survives>>
      BY <1>3 DEF CreateTemp, WriteTemp, ChmodTemp, SyncTemp, CloseTemp,
                  OpenDirectory, Goto, Fails, Return, disk, IInv, TempFile
    <2> QED
      BY <2>1 DEF Target!Next, Target!Forget, Target!vars, BytesOf
  <1>4. CASE Rename
    <2>1. CASE Fails
      <3>1. Acked' = NoFile /\ UNCHANGED <<path, survives>>
        BY <2>1 DEF Fails, Return, disk
      <3> QED
        BY <3>1 DEF Target!Next, Target!Forget, Target!vars, BytesOf
    <2>2. CASE ~Fails
      <3>1. /\ path' = temp /\ survives' = survives \cup {temp}
            /\ UNCHANGED <<answer, cfg>>
        BY <1>4, <2>2 DEF Rename, Goto
      <3>2. BytesOf(temp) = cfg /\ cfg \in Configs \ Malformed
        BY <1>4 DEF Rename, IInv, TempFile, BytesOf
      <3>3. BytesOf(path)' = BytesOf(temp) /\ May' = May \cup {BytesOf(temp)}
        BY <3>1 DEF BytesOf
      <3> QED
        BY <3>1, <3>2, <3>3 DEF Target!Next, Target!Replace
    <2> QED
      BY <2>1, <2>2
  <1>5. CASE SyncDirectory
    <2>1. CASE Fails
      <3>1. Acked' = NoFile /\ UNCHANGED <<path, survives>>
        BY <2>1 DEF Fails, Return, disk
      <3> QED
        BY <3>1 DEF Target!Next, Target!Forget, Target!vars, BytesOf
    <2>2. CASE ~Fails
      <3>1. survives' = {path} /\ UNCHANGED <<path, answer, cfg>>
        BY <1>5, <2>2 DEF SyncDirectory, Goto
      <3> QED
        BY <3>1 DEF Target!Next, Target!Harden, BytesOf
    <2> QED
      BY <2>1, <2>2
  <1>6. CASE Remember
    <2>1. survives = {path} /\ path # NoFile /\ path.bytes = cfg /\ path.synced
      BY <1>6 DEF Remember, IInv, Knowledge, Whole
    <2>2. Acked' = BytesOf(path) /\ UNCHANGED <<path, survives>>
      BY <1>6, <2>1 DEF Remember, Return, disk, BytesOf
    <2>3. May = {BytesOf(path)}
      BY <2>1
    <2> QED
      BY <2>2, <2>3 DEF Target!Next, Target!Acknowledge, BytesOf
  <1>7. CASE Crash
    <2>1. Acked' = NoFile /\ UNCHANGED <<path, survives>>
      BY <1>7 DEF Crash, Restart, disk
    <2> QED
      BY <2>1 DEF Target!Next, Target!Forget, Target!vars, BytesOf
  <1>8. CASE PowerLoss
    <2>1. path' \in survives /\ survives' = {path'} /\ Acked' = NoFile
      BY <1>8 DEF PowerLoss, AfterLoss, Restart, IInv, Whole
    <2>2. BytesOf(path)' \in May /\ May' = {BytesOf(path)'}
      BY <2>1 DEF BytesOf
    <2> QED
      BY <2>1, <2>2 DEF Target!Next, Target!PowerLoss
  <1> QED
    BY <1>1, <1>2, <1>3, <1>4, <1>5, <1>6, <1>7, <1>8 DEF Next

(* AtomicWrite replaces the file as AtomicFile says: no reader finds part  *)
(* of a configuration, and no power loss undoes what was acknowledged.     *)
THEOREM WriterImplements == Spec => ReplacesAtomically
  <1>1. Init => Target!Init
    BY WriterAssumption, NoFileAssumption DEF Init, Target!Init, BytesOf
  <1> QED
    BY <1>1, WriterInvariance, WriteStep, PTL
    DEF Spec, ReplacesAtomically, Target!Spec
=============================================================================
