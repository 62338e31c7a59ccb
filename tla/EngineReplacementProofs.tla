----------------------- MODULE EngineReplacementProofs -----------------------
(***************************************************************************)
(* Proofs about EngineReplacement, for every set of extras and every bound *)
(* on faults, crashes, power losses, operator's moves and changes: the     *)
(* inductive invariant IInv, and what follows from it.                     *)
(***************************************************************************)
EXTENDS EngineReplacement, TLAPS

USE DEF Ids, NoId, needs

(* The supervisor starts with no record, no call and no debt.              *)
LEMMA InitInv == ASSUME Init PROVE IInv
<1> USE ReplacementAssumption, NothingAssumption DEF Init, NoPending
<1>1. TypeOK
  <2>1. slot \in Container \cup {NoContainer}
    <3>1. [id |-> 1, component |-> TRUE, replaces |-> NoId,
           spec |-> NoExtras, running |-> TRUE] \in Container
      BY DEF Container
    <3> QED BY <3>1
  <2>2. left \in [{"fault", "crash", "loss", "move", "change"} -> Nat]
    <3>1. /\ MaxFaults \in Nat /\ MaxCrashes \in Nat /\ MaxLosses \in Nat
          /\ MaxMoves \in Nat /\ MaxChanges \in Nat
      OBVIOUS
    <3> QED BY <3>1
  <2>3. /\ nextId \in Ids /\ wire \subseteq Call
        /\ record \in Record \cup {NoRecord} /\ survives \subseteq Record \cup {NoRecord}
    OBVIOUS
  <2>4. /\ pc \in PCs
        /\ want \in Wants /\ extras \in Wants /\ phase \in {"recover", "sync"}
        /\ pending \in Record \cup {NoPending} /\ target \in Nat
        /\ onClear \in {"ensure", "return"} /\ status \in {"boot", "ok", "error"}
        /\ due \in BOOLEAN /\ short \in BOOLEAN /\ owed \in BOOLEAN
    BY DEF PCs
  <2> QED BY <2>1, <2>2, <2>3, <2>4 DEF TypeOK
<1>2. Fresh BY DEF Fresh
<1>3. Stages /\ OldGone /\ Wire BY DEF Stages, Resuming, OldGone, Wire
<1>4. Owed /\ RecordWhileOwed /\ StatusHonest
  BY DEF Owed, RecordWhileOwed, StatusHonest
<1> QED BY <1>1, <1>2, <1>3, <1>4 DEF IInv
-----------------------------------------------------------------------------
(* Steps that make no Docker call.                                         *)

(* A pass that begins keeps the invariant: nothing is known yet.           *)
LEMMA StartPassInv == ASSUME IInv, StartPass PROVE IInv'
<1> USE ReplacementAssumption, NothingAssumption
     DEF IInv, StartPass, Goto, daemon, disk
<1>a. due' \in BOOLEAN /\ short' \in BOOLEAN /\ owed' \in BOOLEAN
  BY DEF TypeOK
<1>b. left' \in [{"fault", "crash", "loss", "move", "change"} -> Nat]
  BY DEF TypeOK
<1>1. TypeOK'
  BY <1>a, <1>b DEF TypeOK, Stages, Container, Record, Call, PCs, Resuming
<1>2. Fresh' BY DEF Fresh, TypeOK, Record, Container
<1>3. Stages' BY DEF Stages, TypeOK, Resuming, NameReserved, Record
<1>4. OldGone' BY DEF OldGone, TypeOK, Stages, Holds, Resuming
<1>5. Wire' BY DEF Wire, TypeOK, Stages, Holds, Record, Call, Resuming
<1>6. Owed' BY DEF Owed, TypeOK, NoLossYet
<1>7. RecordWhileOwed'
  BY DEF RecordWhileOwed, TypeOK, Stages, Owed, NoLossYet, Resuming
<1>8. StatusHonest'
  BY DEF StatusHonest, TypeOK, Stages, Owed, RecordWhileOwed, NoLossYet,
         Resuming
<1> QED BY <1>1, <1>2, <1>3, <1>4, <1>5, <1>6, <1>7, <1>8

(* What os.ReadFile finds becomes the replacement to resume.               *)
LEMMA ReadRecordInv == ASSUME IInv, ReadRecord PROVE IInv'
<1> USE ReplacementAssumption, NothingAssumption
     DEF IInv, ReadRecord, AfterRecovery, Succeed, Fail, Forget, NoPending,
         Goto, Spend, daemon, disk
<1>a. due' \in BOOLEAN /\ short' \in BOOLEAN /\ owed' \in BOOLEAN
  BY DEF TypeOK
<1>b. left' \in [{"fault", "crash", "loss", "move", "change"} -> Nat]
  BY DEF TypeOK
<1>1. TypeOK'
  BY <1>a, <1>b DEF TypeOK, Stages, Container, Record, Call, PCs, Resuming
<1>2. Fresh' BY DEF Fresh, TypeOK, Record, Container
<1>3. Stages' BY DEF Stages, TypeOK, Resuming, NameReserved, Record
<1>4. OldGone' BY DEF OldGone, TypeOK, Stages, Holds, Resuming
<1>5. Wire' BY DEF Wire, TypeOK, Stages, Holds, Record, Call, Resuming
<1>6. Owed' BY DEF Owed, TypeOK, NoLossYet
<1>7. RecordWhileOwed'
  BY DEF RecordWhileOwed, TypeOK, Stages, Owed, NoLossYet, Resuming
<1>8. StatusHonest'
  BY DEF StatusHonest, TypeOK, Stages, Owed, RecordWhileOwed, NoLossYet,
         Resuming
<1> QED BY <1>1, <1>2, <1>3, <1>4, <1>5, <1>6, <1>7, <1>8

(* The pass between the two calls touches neither record nor engine.       *)
LEMMA RenderInv == ASSUME IInv, Render PROVE IInv'
<1> USE ReplacementAssumption, NothingAssumption
     DEF IInv, Render, Fail, Forget, NoPending, Spend, daemon, disk
<1>a. due' \in BOOLEAN /\ short' \in BOOLEAN /\ owed' \in BOOLEAN
  BY DEF TypeOK
<1>b. left' \in [{"fault", "crash", "loss", "move", "change"} -> Nat]
  BY DEF TypeOK
<1>c. extras' \in Wants
  BY PoorerAssumption DEF TypeOK
<1>1. TypeOK'
  BY <1>a, <1>b, <1>c DEF TypeOK, Stages, Container, Record, Call, PCs, Resuming
<1>2. Fresh' BY DEF Fresh, TypeOK, Record, Container
<1>3. Stages' BY DEF Stages, TypeOK, Resuming, NameReserved, Record
<1>4. OldGone' BY DEF OldGone, TypeOK, Stages, Holds, Resuming
<1>5. Wire' BY DEF Wire, TypeOK, Stages, Holds, Record, Call, Resuming
<1>6. Owed' BY DEF Owed, TypeOK, NoLossYet
<1>7. RecordWhileOwed'
  BY DEF RecordWhileOwed, TypeOK, Stages, Owed, NoLossYet, Resuming
<1>8. StatusHonest'
  BY DEF StatusHonest, TypeOK, Stages, Owed, RecordWhileOwed, NoLossYet,
         Resuming
<1> QED BY <1>1, <1>2, <1>3, <1>4, <1>5, <1>6, <1>7, <1>8

(* The record names the replacement about to begin, or the pass ends.      *)
LEMMA SaveRecordInv == ASSUME IInv, SaveRecord PROVE IInv'
<1> USE ReplacementAssumption, NothingAssumption
     DEF IInv, SaveRecord, Fail, Forget, NoPending, Goto, Spend, daemon, disk
<1>a. due' \in BOOLEAN /\ short' \in BOOLEAN /\ owed' \in BOOLEAN
  BY DEF TypeOK
<1>b. left' \in [{"fault", "crash", "loss", "move", "change"} -> Nat]
  BY DEF TypeOK
<1>1. TypeOK'
  BY <1>a, <1>b DEF TypeOK, Stages, Container, Record, Call, PCs, Resuming
<1>2. Fresh' BY DEF Fresh, TypeOK, Record, Container
<1>3. Stages' BY DEF Stages, TypeOK, Resuming, NameReserved, Record
<1>4. OldGone' BY DEF OldGone, TypeOK, Stages, Holds, Resuming
<1>5. Wire' BY DEF Wire, TypeOK, Stages, Holds, Record, Call, Resuming
<1>6. Owed' BY DEF Owed, TypeOK, NoLossYet
<1>7. RecordWhileOwed'
  BY DEF RecordWhileOwed, TypeOK, Stages, Owed, NoLossYet, Resuming
<1>8. StatusHonest'
  BY DEF StatusHonest, TypeOK, Stages, Owed, RecordWhileOwed, NoLossYet,
         Resuming
<1> QED BY <1>1, <1>2, <1>3, <1>4, <1>5, <1>6, <1>7, <1>8

(* Syncing the directory makes the record of memory the only one.          *)
LEMMA SyncDirectoryInv == ASSUME IInv, SyncDirectory PROVE IInv'
<1> USE ReplacementAssumption, NothingAssumption
     DEF IInv, SyncDirectory, Fail, Forget, NoPending, Goto, Spend, daemon,
         disk
<1>a. due' \in BOOLEAN /\ short' \in BOOLEAN /\ owed' \in BOOLEAN
  BY DEF TypeOK
<1>b. left' \in [{"fault", "crash", "loss", "move", "change"} -> Nat]
  BY DEF TypeOK
<1>1. TypeOK'
  BY <1>a, <1>b DEF TypeOK, Stages, Container, Record, Call, PCs, Resuming
<1>2. Fresh' BY DEF Fresh, TypeOK, Record, Container
<1>3. Stages' BY DEF Stages, TypeOK, Resuming, NameReserved, Record
<1>4. OldGone' BY DEF OldGone, TypeOK, Stages, Holds, Resuming
<1>5. Wire' BY DEF Wire, TypeOK, Stages, Holds, Record, Call, Resuming
<1>6. Owed' BY DEF Owed, TypeOK, NoLossYet
<1>7. RecordWhileOwed'
  BY DEF RecordWhileOwed, TypeOK, Stages, Owed, NoLossYet, Resuming
<1>8. StatusHonest'
  BY DEF StatusHonest, TypeOK, Stages, Owed, RecordWhileOwed, NoLossYet,
         Resuming
<1> QED BY <1>1, <1>2, <1>3, <1>4, <1>5, <1>6, <1>7, <1>8

(* What the sources need is no part of a replacement under way.            *)
LEMMA SourcesChangeInv == ASSUME IInv, SourcesChange PROVE IInv'
<1> USE ReplacementAssumption, NothingAssumption
     DEF IInv, SourcesChange, Spend, daemon, disk, memory, NoPending
<1>a. due' \in BOOLEAN /\ short' \in BOOLEAN /\ owed' \in BOOLEAN
  BY DEF TypeOK
<1>b. left' \in [{"fault", "crash", "loss", "move", "change"} -> Nat]
  BY DEF TypeOK
<1>1. TypeOK'
  BY <1>a, <1>b DEF TypeOK, Stages, Container, Record, Call, PCs, Resuming
<1>2. Fresh' BY DEF Fresh, TypeOK, Record, Container
<1>3. Stages' BY DEF Stages, TypeOK, Resuming, NameReserved, Record
<1>4. OldGone' BY DEF OldGone, TypeOK, Stages, Holds, Resuming
<1>5. Wire' BY DEF Wire, TypeOK, Stages, Holds, Record, Call, Resuming
<1>6. Owed' BY DEF Owed, TypeOK, NoLossYet
<1>7. RecordWhileOwed'
  BY DEF RecordWhileOwed, TypeOK, Stages, Owed, NoLossYet, Resuming
<1>8. StatusHonest'
  BY DEF StatusHonest, TypeOK, Stages, Owed, RecordWhileOwed, NoLossYet,
         Resuming
<1> QED BY <1>1, <1>2, <1>3, <1>4, <1>5, <1>6, <1>7, <1>8

(* Nor does a request change anything but that a pass is due.              *)
LEMMA RequestInv == ASSUME IInv, Request PROVE IInv'
<1> USE ReplacementAssumption, NothingAssumption
     DEF IInv, Request, daemon, disk, memory
<1>1. TypeOK' BY DEF TypeOK
<1>2. Fresh' /\ Stages' /\ OldGone'
  BY DEF Fresh, Stages, OldGone, NameReserved, Holds
<1>3. Wire' BY DEF Wire, Holds
<1>4. Owed' /\ RecordWhileOwed' /\ StatusHonest'
  BY DEF Owed, RecordWhileOwed, StatusHonest, NoLossYet
<1> QED BY <1>1, <1>2, <1>3, <1>4

(* The engine found is the one the new record will name as old.            *)
LEMMA FindEngineInv == ASSUME IInv, FindEngine PROVE IInv'
<1> USE ReplacementAssumption, NothingAssumption
     DEF IInv, FindEngine, EngineFound, Succeed, Fail, Forget, NoPending, Spend,
         daemon, disk
<1>a. due' \in BOOLEAN /\ short' \in BOOLEAN /\ owed' \in BOOLEAN
  BY DEF TypeOK
<1>b. left' \in [{"fault", "crash", "loss", "move", "change"} -> Nat]
  BY DEF TypeOK
<1>1. TypeOK'
  BY <1>a, <1>b DEF TypeOK, Stages, Container, Record, Call, PCs, Resuming
<1>2. Fresh' BY DEF Fresh, TypeOK, Record, Container
<1>3. Stages'
  <2>1. CASE EngineFound /\ slot.spec # extras /\ pc' = "save"
    <3>1. slot.id \in Ids /\ extras \in Wants BY <2>1 DEF TypeOK, Container
    <3>2. pending' \in Record BY <2>1, <3>1 DEF Record, Stages, TypeOK
    <3> QED BY <2>1, <3>2 DEF Stages, Resuming
  <2>2. CASE pc' = "idle"
    BY <2>2 DEF Stages, Resuming
  <2> QED BY <2>1, <2>2
<1>4. OldGone' BY DEF OldGone, TypeOK, Stages, Holds, Resuming
<1>5. Wire' BY DEF Wire, TypeOK, Stages, Holds, Record, Call, Resuming
<1>6. Owed' BY DEF Owed, TypeOK, NoLossYet
<1>7. RecordWhileOwed'
  BY DEF RecordWhileOwed, TypeOK, Stages, Owed, NoLossYet, Resuming
<1>8. StatusHonest'
  BY DEF StatusHonest, TypeOK, Stages, Owed, RecordWhileOwed, NoLossYet,
         Resuming
<1> QED BY <1>1, <1>2, <1>3, <1>4, <1>5, <1>6, <1>7, <1>8

(* What holds the name decides the next call, and the invariant holds      *)
(* for each: create with no engine, stop the old one, start the new one.   *)
LEMMA InspectNameInv == ASSUME IInv, InspectName PROVE IInv'
<1> USE ReplacementAssumption, NothingAssumption
     DEF IInv, InspectName, Fail, Forget, NoPending, Goto, Spend, daemon, disk,
         IsReplacement
<1>a. due' \in BOOLEAN /\ short' \in BOOLEAN /\ owed' \in BOOLEAN
  BY DEF TypeOK
<1>b. left' \in [{"fault", "crash", "loss", "move", "change"} -> Nat]
  BY DEF TypeOK
<1>1. TypeOK'
  BY <1>a, <1>b DEF TypeOK, Stages, Container, Record, Call, PCs, Resuming
<1>2. Fresh' BY DEF Fresh, TypeOK, Record, Container
<1>3. Stages'
  <2>1. CASE pc' = "start" /\ target' = slot.id /\ slot # NoContainer
    <3>1. slot.id \in Ids BY <2>1 DEF TypeOK, Container
    <3>2. ~NameReserved' BY <2>1 DEF Wire, NameReserved
    <3> QED BY <2>1, <3>1, <3>2 DEF Stages, Resuming
  <2>2. CASE pc' \in {"idle", "create", "stop"}
    BY <2>2 DEF Stages, Resuming
  <2> QED BY <2>1, <2>2
<1>4. OldGone'
  <2>1. CASE pc' = "create" /\ slot = NoContainer
    BY <2>1 DEF OldGone, Holds
  <2>2. CASE /\ pc' = "start" /\ ~Holds(pending.old) /\ slot.replaces = pending.old
             /\ pending' = pending
    <3>1. pending.old \in Ids BY DEF Stages, Resuming, TypeOK, Record
    <3> QED BY <2>2, <3>1 DEF OldGone, Holds
  <2>3. CASE pc' \in {"idle", "stop"}
    BY <2>3 DEF OldGone
  <2> QED BY <2>1, <2>2, <2>3
<1>5. Wire' BY DEF Wire, TypeOK, Stages, Holds, Record, Call, Resuming
<1>6. Owed' BY DEF Owed, TypeOK, NoLossYet
<1>7. RecordWhileOwed'
  BY DEF RecordWhileOwed, TypeOK, Stages, Owed, NoLossYet, Resuming
<1>8. StatusHonest'
  BY DEF StatusHonest, TypeOK, Stages, Owed, RecordWhileOwed, NoLossYet,
         Resuming
<1> QED BY <1>1, <1>2, <1>3, <1>4, <1>5, <1>6, <1>7, <1>8

(* The record goes only when the engine it promised has been started.      *)
LEMMA ClearRecordInv == ASSUME IInv, ClearRecord PROVE IInv'
<1> USE ReplacementAssumption, NothingAssumption
     DEF IInv, ClearRecord, AfterRecovery, Succeed, Fail, Forget, NoPending,
         Goto, Spend, daemon, disk
<1>a. due' \in BOOLEAN /\ short' \in BOOLEAN /\ owed' \in BOOLEAN
  BY DEF TypeOK
<1>b. left' \in [{"fault", "crash", "loss", "move", "change"} -> Nat]
  BY DEF TypeOK
<1>1. TypeOK'
  BY <1>a, <1>b DEF TypeOK, Stages, Container, Record, Call, PCs, Resuming
<1>2. Fresh' BY DEF Fresh, TypeOK, Record, Container
<1>3. Stages' BY DEF Stages, TypeOK, Resuming, NameReserved, Record
<1>4. OldGone' BY DEF OldGone, TypeOK, Stages, Holds, Resuming
<1>5. Wire'
  <2>0. record = pending /\ ~Holds(pending.old) /\ ~NameReserved
    BY DEF OldGone, Stages, Resuming
  <2>1. \A call \in wire : /\ call.op # "create"
                           /\ call.op \in {"stop", "remove"} => ~Holds(call.id)
    BY <2>0 DEF Wire, NameReserved
  <2>2. CASE record' = NoRecord BY <2>1, <2>2 DEF Wire, Holds
  <2>3. CASE record' = record BY <2>3 DEF Wire, Holds
  <2> QED BY <2>2, <2>3
<1>6. Owed' BY DEF Owed, TypeOK, NoLossYet
<1>7. RecordWhileOwed'
  BY DEF RecordWhileOwed, TypeOK, Stages, Owed, NoLossYet, Resuming
<1>8. StatusHonest'
  BY DEF StatusHonest, TypeOK, Stages, Owed, RecordWhileOwed, NoLossYet,
         Resuming
<1> QED BY <1>1, <1>2, <1>3, <1>4, <1>5, <1>6, <1>7, <1>8

(* A power loss leaves one of the records that could survive it.           *)
LEMMA PowerLossInv == ASSUME IInv, PowerLoss PROVE IInv'
<1> USE ReplacementAssumption, NothingAssumption
     DEF IInv, PowerLoss, Forget, NoPending, Spend
<1>1. TypeOK'
  <2>1. slot' \in Container \cup {NoContainer} BY DEF TypeOK, Container
  <2>2. record' \in Record \cup {NoRecord} /\ survives' \subseteq Record \cup {NoRecord}
    BY DEF TypeOK
  <2>3. left' \in [{"fault", "crash", "loss", "move", "change"} -> Nat]
    BY DEF TypeOK
  <2> QED BY <2>1, <2>2, <2>3 DEF TypeOK, PCs
<1>2. Fresh' BY DEF Fresh, TypeOK, Record, Container
<1>3. Stages' BY DEF Stages, TypeOK, Resuming, NameReserved, Record
<1>4. OldGone' BY DEF OldGone, TypeOK, Stages, Holds, Resuming
<1>5. Wire' BY DEF Wire, TypeOK, Stages, Holds, Record, Call, Resuming
<1>6. Owed' BY DEF Owed, TypeOK, NoLossYet
<1>7. RecordWhileOwed'
  BY DEF RecordWhileOwed, TypeOK, Stages, Owed, NoLossYet, Resuming
<1>8. StatusHonest'
  BY DEF StatusHonest, TypeOK, Stages, Owed, RecordWhileOwed, NoLossYet,
         Resuming
<1> QED BY <1>1, <1>2, <1>3, <1>4, <1>5, <1>6, <1>7, <1>8

-----------------------------------------------------------------------------
(* What carrying a call out does to the daemon's state, whoever waits for  *)
(* the answer.                                                             *)
LEMMA Effect ==
  ASSUME TypeOK, Fresh, Wire, Owed, NEW call \in Call, CarryOut(call),
         UNCHANGED record, wire' \subseteq wire, call.id < nextId,
         call.op \in {"stop", "remove"} /\ Holds(call.id) =>
           record # NoRecord /\ record.old = call.id,
         call.op = "start" /\ Holds(call.id) => slot.replaces # NoId,
         call.op = "create" => \A c \in wire' : c.op # "create"
  PROVE  /\ slot' \in Container \cup {NoContainer}
         /\ nextId' \in Ids /\ nextId <= nextId' /\ owed' \in BOOLEAN
         /\ slot' # NoContainer => slot'.id < nextId'
         /\ \A id \in Ids : id < nextId /\ Holds(id)' =>
              Holds(id) /\ slot'.replaces = slot.replaces
         /\ Wire'
         /\ owed' => slot' = NoContainer \/ ~slot'.running
         /\ owed' = owed \/ owed' = FALSE \/ (call.op \in {"stop", "remove"} /\ Holds(call.id))
<1> USE ReplacementAssumption, NothingAssumption
<1>1. CASE call.op = "stop" /\ Effective(call)
  <2>1. slot # NoContainer /\ slot.id = call.id /\ slot' = [slot EXCEPT !.running = FALSE]
        /\ nextId' = nextId /\ owed' = IF slot.running THEN TRUE ELSE owed
    BY <1>1 DEF CarryOut, Effective, Holds
  <2>2. /\ slot' \in Container /\ slot'.id = slot.id /\ slot'.replaces = slot.replaces
        /\ ~slot'.running /\ slot' # NoContainer
    BY <2>1 DEF TypeOK, Container
  <2>3. Wire'
    BY <2>1, <2>2 DEF Wire, Holds
  <2>4. owed' \in BOOLEAN BY <2>1 DEF TypeOK
  <2>5. nextId' \in Ids /\ nextId <= nextId' /\ slot'.id < nextId'
    BY <2>1, <2>2 DEF TypeOK, Fresh
  <2>6. \A id \in Ids : Holds(id)' => Holds(id) /\ slot'.replaces = slot.replaces
    BY <2>1, <2>2 DEF Holds
  <2>7. Holds(call.id) BY <2>1 DEF Holds
  <2> QED BY <1>1, <2>2, <2>3, <2>4, <2>5, <2>6, <2>7
<1>2. CASE call.op = "remove" /\ Effective(call)
  <2>1. slot' = NoContainer /\ nextId' = nextId /\ owed' = TRUE /\ Holds(call.id)
    BY <1>2 DEF CarryOut, Effective
  <2>3. Wire'
    BY <2>1, <1>2 DEF Wire, Holds
  <2>4. nextId' \in Ids /\ nextId <= nextId'
    BY <2>1 DEF TypeOK
  <2>5. \A id \in Ids : ~Holds(id)'
    BY <2>1 DEF Holds
  <2> QED BY <1>2, <2>1, <2>3, <2>4, <2>5
<1>3. CASE call.op = "create" /\ Effective(call)
  <2>1. slot = NoContainer /\ slot' = NewContainer(call) /\ nextId' = nextId + 1 /\ owed' = owed
    BY <1>3 DEF CarryOut, Effective
  <2>0. call.id \in Ids /\ call.spec \in Wants /\ nextId \in Ids
    BY DEF Call, TypeOK
  <2>a. slot' \in Container
    BY <2>0, <2>1 DEF Container, NewContainer
  <2>b. slot'.id = nextId /\ slot'.replaces = call.id
    BY <2>1 DEF NewContainer
  <2>c. ~slot'.running
    BY <2>1 DEF NewContainer
  <2>2. /\ slot' \in Container /\ slot'.id = nextId /\ slot'.replaces = call.id
        /\ ~slot'.running /\ slot' # NoContainer
    BY <2>a, <2>b, <2>c
  <2>3. \A c \in wire' : ~Holds(c.id)'
    BY <2>2 DEF Fresh, Holds, TypeOK, Call
  <2>4. Wire'
    BY <1>3, <2>1, <2>3 DEF Wire
  <2> QED BY <1>3, <2>1, <2>2, <2>4 DEF TypeOK, Holds
<1>4. CASE call.op = "start" /\ Effective(call)
  <2>1. slot # NoContainer /\ slot.id = call.id /\ slot' = [slot EXCEPT !.running = TRUE]
        /\ nextId' = nextId /\ owed' = FALSE
    BY <1>4 DEF CarryOut, Effective, Holds
  <2>2. /\ slot' \in Container /\ slot'.id = slot.id /\ slot'.replaces = slot.replaces
        /\ slot' # NoContainer
    BY <2>1 DEF TypeOK, Container
  <2>3. Wire'
    BY <2>1, <2>2 DEF Wire, Holds
  <2>4. nextId' \in Ids /\ nextId <= nextId' /\ slot'.id < nextId'
    BY <2>1, <2>2 DEF TypeOK, Fresh
  <2>5. \A id \in Ids : Holds(id)' => Holds(id) /\ slot'.replaces = slot.replaces
    BY <2>1, <2>2 DEF Holds
  <2> QED BY <2>1, <2>2, <2>3, <2>4, <2>5
<1>5. CASE ~Effective(call)
  <2>1. slot' = slot /\ nextId' = nextId /\ owed' = owed
    BY <1>5 DEF CarryOut
  <2>3. Wire'
    BY <2>1 DEF Wire, Holds
  <2> QED BY <2>1, <2>3 DEF TypeOK, Fresh, Owed, Holds
<1> QED BY <1>1, <1>2, <1>3, <1>4, <1>5 DEF CarryOut

-----------------------------------------------------------------------------
(* Steps that make a Docker call, fail in one, or die in one.              *)

Calls == {"stop", "remove", "create", "start"}

(* The call about to be made is well formed and the record stands for it.  *)
LEMMA CurrentCallFact ==
  ASSUME IInv, pc \in Calls
  PROVE  /\ CurrentCall \in Call /\ CurrentCall.op = pc
         /\ CurrentCall.id < nextId
         /\ pc \in {"stop", "remove"} =>
              record # NoRecord /\ record.old = CurrentCall.id
         /\ pc = "start" /\ Holds(CurrentCall.id) => slot.replaces # NoId
         /\ pc = "create" => record = [old |-> CurrentCall.id, spec |-> CurrentCall.spec]
<1> USE ReplacementAssumption, NothingAssumption DEF IInv
<1>1. pending \in Record /\ record = pending /\ record # NoRecord
  BY DEF Calls, Stages, Resuming, TypeOK
<1>2. pc = "start" => target \in Ids
  BY DEF Stages, TypeOK
<1>3. /\ CurrentCall.op = pc /\ CurrentCall.spec = pending.spec
      /\ CurrentCall.id = IF pc = "start" THEN target ELSE pending.old
  BY DEF CurrentCall
<1>4. CurrentCall \in Call
  BY <1>1, <1>2 DEF CurrentCall, Call, Record, Calls
<1>5. CurrentCall.id < nextId
  BY <1>3 DEF Fresh
<1>6. pc = "start" /\ Holds(CurrentCall.id) => slot.replaces # NoId
  BY <1>3 DEF OldGone
<1>7. pending = [old |-> pending.old, spec |-> pending.spec]
  BY <1>1 DEF Record
<1> QED BY <1>1, <1>3, <1>4, <1>5, <1>6, <1>7

(* A call whose answer is lost joins the wire without breaking Wire.       *)
LEMMA AbandonFact ==
  ASSUME IInv, pc \in Calls, Abandon, UNCHANGED <<slot, nextId, record>>
  PROVE  wire' \subseteq Call /\ Wire' /\ \A call \in wire' : call.id < nextId'
<1> USE ReplacementAssumption, NothingAssumption DEF IInv
<1>1. /\ wire' = wire \cup {CurrentCall}
      /\ pc = "create" => slot = NoContainer /\ \A c \in wire : c.op # "create"
  BY DEF Abandon, NameReserved
<1>2. wire' \subseteq Call BY <1>1, CurrentCallFact DEF TypeOK
<1>3. \A call \in wire' : call.id < nextId' BY <1>1, CurrentCallFact DEF Fresh
<1>4. \A call \in wire' :
        /\ call.op \in {"stop", "remove"} /\ Holds(call.id)' =>
             record' # NoRecord /\ record'.old = call.id
        /\ call.op = "start" /\ Holds(call.id)' => slot'.replaces # NoId
        /\ call.op = "create" =>
             /\ slot' = NoContainer
             /\ record' = [old |-> call.id, spec |-> call.spec]
  <2>1. ASSUME NEW call \in wire'
        PROVE /\ call.op \in {"stop", "remove"} /\ Holds(call.id) =>
                   record # NoRecord /\ record.old = call.id
              /\ call.op = "start" /\ Holds(call.id) => slot.replaces # NoId
              /\ call.op = "create" =>
                   /\ slot = NoContainer
                   /\ record = [old |-> call.id, spec |-> call.spec]
    <3>1. CASE call \in wire BY <3>1 DEF Wire
    <3>2. CASE call = CurrentCall BY <3>2, <1>1, CurrentCallFact
    <3> QED BY <1>1, <3>1, <3>2
  <2> QED BY <2>1 DEF Holds
<1>5. \A c, d \in wire' : c.op = "create" /\ d.op = "create" => c = d
  BY <1>1, CurrentCallFact DEF Wire
<1> QED BY <1>2, <1>3, <1>4, <1>5 DEF Wire

(* A refused call, or a lost answer, ends the pass and keeps the invariant. *)
LEMMA CallFailsInv ==
  ASSUME IInv, pc \in Calls, CallFails, UNCHANGED <<disk, needs>>
  PROVE  IInv'
<1> USE ReplacementAssumption, NothingAssumption
        DEF IInv, CallFails, Fail, Forget, NoPending, Spend, disk
<1>1. wire' \subseteq Call /\ Wire' /\ \A call \in wire' : call.id < nextId'
  <2>1. CASE UNCHANGED wire BY <2>1 DEF Wire, Holds, TypeOK, Fresh
  <2>2. CASE Abandon BY <2>2, AbandonFact
  <2> QED BY <2>1, <2>2
<1>2. TypeOK' BY <1>1 DEF TypeOK, PCs
<1>3. Fresh' BY <1>1 DEF Fresh, TypeOK
<1>4. Stages' /\ OldGone' /\ StatusHonest'
  BY DEF Stages, OldGone, StatusHonest, Resuming
<1>5. Owed' BY DEF Owed, TypeOK
<1>6. RecordWhileOwed' BY DEF RecordWhileOwed, NoLossYet, TypeOK, Owed
<1> QED BY <1>1, <1>2, <1>3, <1>4, <1>5, <1>6

(* So does the death of the process in the middle of a call.               *)
LEMMA CrashInv == ASSUME IInv, Crash PROVE IInv'
<1> USE ReplacementAssumption, NothingAssumption
        DEF IInv, Crash, Forget, NoPending, Spend, disk
<1>1. wire' \subseteq Call /\ Wire' /\ \A call \in wire' : call.id < nextId'
  <2>1. CASE UNCHANGED wire BY <2>1 DEF Wire, Holds, TypeOK, Fresh
  <2>2. CASE pc \in Calls /\ Abandon BY <2>2, AbandonFact
  <2> QED BY <2>1, <2>2 DEF Calls
<1>2. TypeOK' BY <1>1 DEF TypeOK, PCs
<1>3. Fresh' BY <1>1 DEF Fresh, TypeOK
<1>4. Stages' /\ OldGone' /\ StatusHonest'
  BY DEF Stages, OldGone, StatusHonest, Resuming
<1>5. Owed' BY DEF Owed, TypeOK
<1>6. RecordWhileOwed' BY DEF RecordWhileOwed, NoLossYet, TypeOK, Owed
<1> QED BY <1>1, <1>2, <1>3, <1>4, <1>5, <1>6

(* Stopping the old engine makes a debt; the record is on file.            *)
LEMMA StopOldInv == ASSUME IInv, StopOld PROVE IInv'
<1> USE ReplacementAssumption, NothingAssumption DEF IInv, StopOld, disk
<1>1. CASE CallFails BY <1>1, CallFailsInv DEF Calls
<1>2. CASE Answered(TRUE, Goto("remove"))
  <2> USE DEF Goto
  <2>1. /\ CarryOut(CurrentCall) /\ UNCHANGED <<wire, left>> /\ pc' = "remove"
        /\ UNCHANGED <<record, survives, want, short, phase, extras, pending, target, onClear, status, due>>
    BY <1>2 DEF Answered
  <2>2. CurrentCall \in Call /\ CurrentCall.op = "stop" /\ CurrentCall.id < nextId
        /\ record # NoRecord /\ record.old = CurrentCall.id
    BY CurrentCallFact DEF Calls
  <2>3. /\ slot' \in Container \cup {NoContainer}
        /\ nextId' \in Ids /\ nextId <= nextId' /\ owed' \in BOOLEAN
        /\ slot' # NoContainer => slot'.id < nextId'
        /\ Wire'
        /\ owed' => slot' = NoContainer \/ ~slot'.running
    BY <2>1, <2>2, Effect
  <2>a. due' \in BOOLEAN /\ short' \in BOOLEAN /\ owed' \in BOOLEAN
    BY <2>1, <2>3 DEF TypeOK
  <2>4. TypeOK' BY <2>1, <2>3, <2>a DEF TypeOK, PCs
  <2>5. Fresh' BY <2>1, <2>3 DEF Fresh, TypeOK, Call, Record, NoPending
  <2>6. Stages' BY <2>1 DEF Stages, Resuming
  <2>7. OldGone' /\ StatusHonest' /\ RecordWhileOwed'
    BY <2>1, <2>2 DEF OldGone, StatusHonest, RecordWhileOwed
  <2>8. Owed' BY <2>1, <2>3 DEF Owed
  <2> QED BY <2>3, <2>4, <2>5, <2>6, <2>7, <2>8
<1> QED BY <1>1, <1>2

(* Removing it frees the name and its id is never used again.              *)
LEMMA RemoveOldInv == ASSUME IInv, RemoveOld PROVE IInv'
<1> USE ReplacementAssumption, NothingAssumption DEF IInv, RemoveOld, disk
<1>1. CASE CallFails BY <1>1, CallFailsInv DEF Calls
<1>2. CASE Fail /\ UNCHANGED <<daemon, owed, left>>
  <2> USE <1>2 DEF Fail, Forget, NoPending, daemon
  <2>1. TypeOK' BY DEF TypeOK, PCs
  <2>2. Fresh' BY DEF Fresh, TypeOK
  <2>3. Wire' BY DEF Wire, Holds
  <2>4. Stages' /\ OldGone' /\ Owed' /\ RecordWhileOwed' /\ StatusHonest'
    BY
         DEF Stages, Resuming, OldGone, Owed, RecordWhileOwed, StatusHonest,
             NoLossYet
  <2> QED BY <2>1, <2>2, <2>3, <2>4
<1>3. CASE Answered(~Holds(pending.old) \/ ~slot.running, Goto("create"))
  <2>1. /\ CarryOut(CurrentCall) /\ UNCHANGED <<wire, left, record, survives, want, short>>
        /\ \/ /\ pc' = "create" /\ ~Holds(pending.old)'
              /\ UNCHANGED <<phase, extras, pending, target, onClear, status, due>>
           \/ Fail
    <3>1. CurrentCall.op = "remove" /\ CurrentCall.id = pending.old
      BY DEF CurrentCall
    <3>2. CASE ~Holds(pending.old)
      BY <1>3, <3>1, <3>2 DEF Answered, Goto, CarryOut, Effective, Holds
    <3>3. CASE Holds(pending.old) /\ ~slot.running
      BY <1>3, <3>1, <3>3 DEF Answered, Goto, CarryOut, Effective, Holds
    <3>4. CASE Holds(pending.old) /\ slot.running
      BY <1>3, <3>4 DEF Answered
    <3> QED BY <3>2, <3>3, <3>4
  <2>2. CurrentCall \in Call /\ CurrentCall.op = "remove" /\ CurrentCall.id < nextId
        /\ record # NoRecord /\ record.old = CurrentCall.id
    BY CurrentCallFact DEF Calls
  <2>3. /\ slot' \in Container \cup {NoContainer}
        /\ nextId' \in Ids /\ nextId <= nextId' /\ owed' \in BOOLEAN
        /\ slot' # NoContainer => slot'.id < nextId'
        /\ Wire'
        /\ owed' => slot' = NoContainer \/ ~slot'.running
    BY <2>1, <2>2, Effect
  <2> USE DEF Fail, Forget, NoPending
  <2>a. due' \in BOOLEAN /\ short' \in BOOLEAN /\ owed' \in BOOLEAN
    BY <2>1, <2>3 DEF TypeOK
  <2>4. TypeOK' BY <2>1, <2>3, <2>a DEF TypeOK, PCs
  <2>5. Fresh' BY <2>1, <2>3 DEF Fresh, TypeOK, Call, Record
  <2>6. Stages' BY <2>1 DEF Stages, Resuming
  <2>7. OldGone' /\ StatusHonest' /\ RecordWhileOwed'
    BY <2>1, <2>2 DEF OldGone, StatusHonest, RecordWhileOwed
  <2>8. Owed' BY <2>1, <2>3 DEF Owed
  <2> QED BY <2>3, <2>4, <2>5, <2>6, <2>7, <2>8
<1> QED BY <1>1, <1>2, <1>3

(* The new container carries the replaces label and a fresh id.            *)
LEMMA CreateNewInv == ASSUME IInv, CreateNew PROVE IInv'
<1> USE ReplacementAssumption, NothingAssumption DEF IInv, CreateNew, disk
<1>1. CASE CallFails BY <1>1, CallFailsInv DEF Calls
<1>2. CASE Fail /\ UNCHANGED <<daemon, owed, left>>
  <2> USE <1>2 DEF Fail, Forget, NoPending, daemon
  <2>1. TypeOK' BY DEF TypeOK, PCs
  <2>2. Fresh' BY DEF Fresh, TypeOK
  <2>3. Wire' BY DEF Wire, Holds
  <2>4. Stages' /\ OldGone' /\ Owed' /\ RecordWhileOwed' /\ StatusHonest'
    BY
         DEF Stages, Resuming, OldGone, Owed, RecordWhileOwed, StatusHonest,
             NoLossYet
  <2> QED BY <2>1, <2>2, <2>3, <2>4
<1>3. CASE /\ ~NameReserved
           /\ Answered(slot = NoContainer /\ pending.spec \notin Refused,
                       /\ pc' = "start" /\ target' = nextId
                       /\ UNCHANGED <<phase, extras, pending, onClear, status, due>>)
  <2>0. CurrentCall \in Call /\ CurrentCall.op = "create" /\ CurrentCall.id < nextId
        /\ record = pending /\ record # NoRecord /\ pending \in Record /\ nextId \in Ids
    BY CurrentCallFact DEF Calls, Stages, Resuming, TypeOK
  <2>1. /\ CarryOut(CurrentCall) /\ UNCHANGED <<wire, left, record, survives, want, short>>
        /\ \/ /\ pc' = "start" /\ target' = nextId
              /\ ~Holds(pending.old)' /\ slot' # NoContainer /\ slot'.replaces # NoId
              /\ nextId < nextId'
              /\ UNCHANGED <<phase, extras, pending, onClear, status, due>>
           \/ Fail
    <3>1. /\ CurrentCall.op = "create" /\ CurrentCall.id = pending.old
          /\ CurrentCall.spec = pending.spec
      BY DEF CurrentCall
    <3>2. CASE slot = NoContainer /\ pending.spec \notin Refused
      <4>1. slot' = NewContainer(CurrentCall) /\ nextId' = nextId + 1
        BY <1>3, <3>1, <3>2 DEF Answered, CarryOut, Effective
      <4>2. slot'.id = nextId /\ slot'.replaces = pending.old
        BY <4>1, <3>1 DEF NewContainer
      <4>3. slot' \in Container
        BY <4>1, <2>0, <3>1 DEF NewContainer, Container, Record
      <4>4. pending.old \in Ids /\ pending.old < nextId
        BY <2>0 DEF Fresh, Record
      <4>5. ~Holds(pending.old)'
        BY <4>2, <4>4, <1>3, <3>2 DEF Holds, Answered
      <4> QED BY <1>3, <2>0, <3>2, <4>1, <4>2, <4>3, <4>4, <4>5 DEF Answered
    <3>3. CASE ~(slot = NoContainer /\ pending.spec \notin Refused)
      BY <1>3, <3>3 DEF Answered
    <3> QED BY <3>2, <3>3
  <2>2. \A c \in wire' : c.op # "create"
    BY <2>1, <1>3 DEF NameReserved
  <2>3. /\ slot' \in Container \cup {NoContainer}
        /\ nextId' \in Ids /\ nextId <= nextId' /\ owed' \in BOOLEAN
        /\ slot' # NoContainer => slot'.id < nextId'
        /\ Wire'
        /\ owed' => slot' = NoContainer \/ ~slot'.running
    BY <2>0, <2>1, <2>2, Effect
  <2> USE DEF Fail, Forget, NoPending
  <2>a. due' \in BOOLEAN /\ short' \in BOOLEAN /\ owed' \in BOOLEAN
    BY <2>0, <2>1, <2>3 DEF TypeOK
  <2>4. TypeOK' BY <2>0, <2>1, <2>3, <2>a DEF TypeOK, PCs
  <2>5. Fresh' BY <2>1, <2>3 DEF Fresh, TypeOK, Call, Record
  <2>6. Stages' BY <2>0, <2>1, <2>2 DEF Stages, Resuming, NameReserved
  <2>7. OldGone' BY <2>1 DEF OldGone, Holds
  <2>8. StatusHonest' /\ RecordWhileOwed'
    BY <2>0, <2>1 DEF StatusHonest, RecordWhileOwed
  <2>9. Owed' BY <2>1, <2>3 DEF Owed
  <2> QED BY <2>3, <2>4, <2>5, <2>6, <2>7, <2>8, <2>9
<1> QED BY <1>1, <1>2, <1>3

(* Starting it pays the debt.                                              *)
LEMMA StartNewInv == ASSUME IInv, StartNew PROVE IInv'
<1> USE ReplacementAssumption, NothingAssumption DEF IInv, StartNew, disk
<1>1. CASE CallFails BY <1>1, CallFailsInv DEF Calls
<1>2. CASE Answered(Holds(target), Goto("clear"))
  <2>0. CurrentCall \in Call /\ CurrentCall.op = "start" /\ CurrentCall.id = target
        /\ CurrentCall.id < nextId
        /\ (Holds(CurrentCall.id) => slot.replaces # NoId)
        /\ record = pending /\ record # NoRecord /\ pending \in Record
    BY CurrentCallFact DEF Calls, Stages, Resuming, TypeOK, CurrentCall
  <2>1. /\ CarryOut(CurrentCall) /\ UNCHANGED <<wire, left, record, survives, want, short>>
        /\ \/ /\ pc' = "clear" /\ owed' = FALSE
              /\ UNCHANGED <<phase, extras, pending, target, onClear, status, due>>
           \/ Fail
    <3>1. CASE Holds(target)
      BY <1>2, <2>0, <3>1 DEF Answered, Goto, CarryOut, Effective
    <3>2. CASE ~Holds(target)
      BY <1>2, <3>2 DEF Answered
    <3> QED BY <3>1, <3>2
  <2>3. /\ slot' \in Container \cup {NoContainer}
        /\ nextId' \in Ids /\ nextId <= nextId' /\ owed' \in BOOLEAN
        /\ slot' # NoContainer => slot'.id < nextId'
        /\ \A id \in Ids : id < nextId /\ Holds(id)' =>
              Holds(id) /\ slot'.replaces = slot.replaces
        /\ Wire'
        /\ owed' => slot' = NoContainer \/ ~slot'.running
    BY <2>0, <2>1, Effect
  <2> USE DEF Fail, Forget, NoPending
  <2>a. due' \in BOOLEAN /\ short' \in BOOLEAN /\ owed' \in BOOLEAN
    BY <2>1, <2>3 DEF TypeOK
  <2>4. TypeOK' BY <2>1, <2>3, <2>a DEF TypeOK, PCs
  <2>5. Fresh' BY <2>1, <2>3 DEF Fresh, TypeOK, Call, Record
  <2>6. Stages' BY <2>0, <2>1 DEF Stages, Resuming, NameReserved
  <2>7. OldGone'
    <3>1. pending.old \in Ids /\ pending.old < nextId /\ target \in Ids /\ target < nextId
      BY <2>0 DEF Fresh, Record, Stages, TypeOK
    <3>2. CASE pc' = "clear"
      BY <2>0, <2>1, <2>3, <3>1, <3>2 DEF OldGone, Holds
    <3>3. CASE pc' = "idle" BY <3>3 DEF OldGone
    <3> QED BY <2>1, <3>2, <3>3
  <2>8. StatusHonest' /\ RecordWhileOwed'
    BY <2>0, <2>1 DEF StatusHonest, RecordWhileOwed
  <2>9. Owed' BY <2>1, <2>3 DEF Owed
  <2> QED BY <2>3, <2>4, <2>5, <2>6, <2>7, <2>8, <2>9
<1> QED BY <1>1, <1>2

-----------------------------------------------------------------------------
(* The environment.                                                        *)

(* A call that lands late does no harm its record does not account for.    *)
LEMMA LandInv == ASSUME IInv, Land PROVE IInv'
<1> USE ReplacementAssumption, NothingAssumption DEF IInv, disk, memory
<1>1. PICK call \in wire : CarryOut(call) /\ wire' = wire \ {call}
  BY DEF Land
<1>2. UNCHANGED <<record, survives, want, short, pc, phase, extras, pending, target, onClear, status, due, left>>
  BY DEF Land
<1>3. /\ call \in Call /\ call.id < nextId
      /\ call.op \in {"stop", "remove"} /\ Holds(call.id) =>
           record # NoRecord /\ record.old = call.id
      /\ call.op = "start" /\ Holds(call.id) => slot.replaces # NoId
      /\ call.op = "create" => \A c \in wire' : c.op # "create"
  BY <1>1 DEF TypeOK, Fresh, Wire
<1>4. /\ slot' \in Container \cup {NoContainer}
      /\ nextId' \in Ids /\ nextId <= nextId' /\ owed' \in BOOLEAN
      /\ slot' # NoContainer => slot'.id < nextId'
      /\ \A id \in Ids : id < nextId /\ Holds(id)' =>
           Holds(id) /\ slot'.replaces = slot.replaces
      /\ Wire'
      /\ owed' => slot' = NoContainer \/ ~slot'.running
      /\ owed' = owed \/ owed' = FALSE \/ (record # NoRecord /\ Holds(record.old))
  BY <1>1, <1>2, <1>3, Effect
<1>5. TypeOK' BY <1>1, <1>2, <1>4 DEF TypeOK
<1>6. Fresh' BY <1>1, <1>2, <1>4 DEF Fresh, TypeOK, Call, Record, NoPending
<1>7. Stages' BY <1>1, <1>2 DEF Stages, NameReserved
<1>8. OldGone'
  <2>1. CASE pc \in {"create", "start", "clear"}
    <3>1. pending.old \in Ids /\ pending.old < nextId
      BY <2>1 DEF Stages, Resuming, TypeOK, Record, Fresh
    <3>2. ~Holds(pending.old)'
      BY <2>1, <1>2, <1>4, <3>1 DEF OldGone
    <3>3. pc \in {"start", "clear"} => target \in Ids /\ target < nextId
      BY DEF Stages, TypeOK, Fresh
    <3>4. pc \in {"start", "clear"} /\ Holds(target)' => slot'.replaces # NoId
      BY <1>2, <1>4, <3>3 DEF OldGone
    <3> QED BY <1>2, <3>2, <3>4 DEF OldGone, Holds
  <2>2. CASE pc \notin {"create", "start", "clear"}
    BY <2>2, <1>2 DEF OldGone
  <2> QED BY <2>1, <2>2
<1>9. Owed' /\ RecordWhileOwed' /\ StatusHonest'
  <2>1. pc = "clear" => ~owed'
    BY <1>4 DEF Owed, OldGone, Stages, Resuming
  <2>2. owed' /\ NoLossYet => record # NoRecord
    BY <1>4 DEF RecordWhileOwed
  <2>3. pc = "idle" /\ status = "ok" /\ NoLossYet => ~owed'
    BY <1>4 DEF StatusHonest
  <2> QED BY <1>2, <1>4, <2>1, <2>2, <2>3
       DEF Owed, RecordWhileOwed, StatusHonest, NoLossYet
<1> QED BY <1>4, <1>5, <1>6, <1>7, <1>8, <1>9

(* Whatever the operator does to the name, the engine is his from then on. *)
LEMMA OperatorMovesInv == ASSUME IInv, OperatorMoves PROVE IInv'
<1> USE ReplacementAssumption, NothingAssumption DEF IInv, disk, memory
<1>1. /\ UNCHANGED <<wire, record, survives, want, short, pc, phase, extras, pending,
                     target, onClear, status, due>>
      /\ owed' = FALSE
      /\ left' \in [{"fault", "crash", "loss", "move", "change"} -> Nat]
      /\ left'.loss = left.loss
  BY DEF OperatorMoves, Spend, TypeOK
<1>2. /\ slot' \in Container \cup {NoContainer}
      /\ nextId' \in Ids /\ nextId <= nextId'
      /\ slot' # NoContainer => slot'.id < nextId'
      /\ \A id \in Ids : id < nextId /\ Holds(id)' =>
           Holds(id) /\ slot'.replaces = slot.replaces
      /\ slot = NoContainer /\ slot' # NoContainer => ~NameReserved
  <2>1. CASE Deploy
    <3>1. PICK label \in BOOLEAN :
            slot' = [id |-> nextId, component |-> label, replaces |-> NoId,
                     spec |-> NoExtras, running |-> TRUE]
      BY <2>1 DEF Deploy
    <3>2. slot' \in Container BY <3>1 DEF Container, TypeOK
    <3>3. slot'.id = nextId /\ nextId' = nextId + 1 /\ nextId \in Ids
      BY <2>1, <3>1 DEF Deploy, TypeOK
    <3>4. ~NameReserved BY <2>1 DEF Deploy
    <3> QED BY <3>2, <3>3, <3>4 DEF Holds
  <2>2. CASE slot # NoContainer /\ slot' = NoContainer /\ UNCHANGED nextId
    BY <2>2 DEF TypeOK, Holds
  <2>3. CASE /\ slot # NoContainer /\ UNCHANGED nextId
             /\ \E up \in BOOLEAN : slot' = [slot EXCEPT !.running = up]
    <3>1. slot' \in Container /\ slot'.id = slot.id /\ slot'.replaces = slot.replaces
      BY <2>3 DEF TypeOK, Container
    <3> QED BY <2>3, <3>1 DEF TypeOK, Fresh, Holds
  <2> QED BY <2>1, <2>2, <2>3 DEF OperatorMoves
<1>3. TypeOK' BY <1>1, <1>2 DEF TypeOK
<1>4. Fresh' BY <1>1, <1>2 DEF Fresh, TypeOK, Call, Record, NoPending
<1>5. Stages' BY <1>1 DEF Stages, NameReserved
<1>6. OldGone'
  <2>1. CASE pc \in {"create", "start", "clear"}
    <3>1. pending.old \in Ids /\ pending.old < nextId
      BY <2>1 DEF Stages, Resuming, TypeOK, Record, Fresh
    <3>2. ~Holds(pending.old)'
      BY <2>1, <1>1, <1>2, <3>1 DEF OldGone
    <3>3. pc \in {"start", "clear"} => target \in Ids /\ target < nextId
      BY DEF Stages, TypeOK, Fresh
    <3>4. pc \in {"start", "clear"} /\ Holds(target)' => slot'.replaces # NoId
      BY <1>1, <1>2, <3>3 DEF OldGone
    <3> QED BY <1>1, <3>2, <3>4 DEF OldGone, Holds
  <2>2. CASE pc \notin {"create", "start", "clear"}
    BY <2>2, <1>1 DEF OldGone
  <2> QED BY <2>1, <2>2
<1>7. Wire'
  <2>1. \A call \in wire : call.op = "create" => slot' = NoContainer
    BY <1>2 DEF Wire, NameReserved
  <2>2. \A call \in wire : call.id \in Ids /\ call.id < nextId
    BY DEF TypeOK, Call, Fresh
  <2> QED BY <1>1, <1>2, <2>1, <2>2 DEF Wire
<1>8. Owed' /\ RecordWhileOwed' /\ StatusHonest'
  BY <1>1 DEF Owed, RecordWhileOwed, StatusHonest, NoLossYet
<1> QED BY <1>2, <1>3, <1>4, <1>5, <1>6, <1>7, <1>8

-----------------------------------------------------------------------------

(* Every step keeps the invariant.                                         *)
LEMMA StepInv == IInv /\ [Next]_vars => IInv'
<1> SUFFICES ASSUME IInv, [Next]_vars PROVE IInv'
  OBVIOUS
<1>1. CASE StartPass BY <1>1, StartPassInv
<1>2. CASE ReadRecord BY <1>2, ReadRecordInv
<1>3. CASE Render BY <1>3, RenderInv
<1>4. CASE FindEngine BY <1>4, FindEngineInv
<1>5. CASE SaveRecord BY <1>5, SaveRecordInv
<1>6. CASE SyncDirectory BY <1>6, SyncDirectoryInv
<1>7. CASE InspectName BY <1>7, InspectNameInv
<1>8. CASE StopOld BY <1>8, StopOldInv
<1>9. CASE RemoveOld BY <1>9, RemoveOldInv
<1>10. CASE CreateNew BY <1>10, CreateNewInv
<1>11. CASE StartNew BY <1>11, StartNewInv
<1>12. CASE ClearRecord BY <1>12, ClearRecordInv
<1>13. CASE Land BY <1>13, LandInv
<1>14. CASE Crash BY <1>14, CrashInv
<1>15. CASE PowerLoss BY <1>15, PowerLossInv
<1>16. CASE OperatorMoves BY <1>16, OperatorMovesInv
<1>17. CASE SourcesChange BY <1>17, SourcesChangeInv
<1>18. CASE Request BY <1>18, RequestInv
<1>19. CASE UNCHANGED vars
  <2> USE <1>19 DEF vars, IInv
  <2>1. TypeOK' /\ Fresh' /\ Stages' /\ OldGone'
    BY DEF TypeOK, Fresh, Stages, OldGone, NameReserved, Holds
  <2>2. Wire' /\ Owed' /\ RecordWhileOwed' /\ StatusHonest'
    BY DEF Wire, Owed, RecordWhileOwed, StatusHonest, NoLossYet, Holds
  <2> QED BY <2>1, <2>2
<1> QED
  BY <1>1, <1>2, <1>3, <1>4, <1>5, <1>6, <1>7, <1>8, <1>9, <1>10, <1>11, <1>12,
     <1>13, <1>14, <1>15, <1>16, <1>17, <1>18, <1>19 DEF Next, SupervisorStep

(* The invariant holds in every reachable state.                           *)
THEOREM Invariance == Spec => []IInv
<1>1. Init => IInv BY InitInv
<1>2. IInv /\ [Next]_vars => IInv' BY StepInv
<1> QED BY <1>1, <1>2, PTL DEF Spec

(* Every variable keeps to its type.                                       *)
THEOREM TypeCorrect == Spec => []TypeOK
<1>1. IInv => TypeOK BY DEF IInv
<1> QED BY <1>1, Invariance, PTL

(* The engine is never down by the supervisor's hand without a recovery    *)
(* record that the next process will find (manage.go:142-145).             *)
THEOREM RecordedOutage == Spec => []RecordWhileOwed
<1>1. IInv => RecordWhileOwed BY DEF IInv
<1> QED BY <1>1, Invariance, PTL

(* A pass that reports success has left no replacement unfinished.         *)
THEOREM HonestStatus == Spec => []StatusHonest
<1>1. IInv => StatusHonest BY DEF IInv
<1> QED BY <1>1, Invariance, PTL

(* No step but the operator's or a power loss changes a container the      *)
(* operator deployed, unless the record names it as the one to replace.    *)
LEMMA UntouchedStep ==
  ASSUME IInv, [Next]_vars,
         slot # NoContainer, slot.replaces = NoId, slot' # slot,
         left'.move = left.move, left'.loss = left.loss
  PROVE  record # NoRecord /\ record.old = slot.id
<1> USE DEF IInv
<1>1. CASE pc \in Calls /\ CarryOut(CurrentCall)
  <2>1. /\ CurrentCall.op = pc
        /\ pc \in {"stop", "remove"} =>
             record # NoRecord /\ record.old = CurrentCall.id
        /\ pc = "start" /\ Holds(CurrentCall.id) => slot.replaces # NoId
    BY <1>1, CurrentCallFact
  <2> QED BY <1>1, <2>1 DEF CarryOut, Effective, Holds
<1>2. CASE Land
  <2>1. PICK call \in wire : CarryOut(call) BY <1>2 DEF Land
  <2> QED BY <2>1 DEF CarryOut, Effective, Holds, Wire, TypeOK, Call
<1>3. CASE OperatorMoves
  <2>1. left.move \in Nat /\ left'.move = left.move - 1
    BY <1>3 DEF OperatorMoves, Spend, TypeOK
  <2> QED BY <2>1
<1>4. CASE PowerLoss
  <2>1. left.loss \in Nat /\ left'.loss = left.loss - 1
    BY <1>4 DEF PowerLoss, Spend, TypeOK
  <2> QED BY <2>1
<1>5. CASE StopOld \/ RemoveOld \/ CreateNew \/ StartNew
  <2>1. pc \in Calls
    BY <1>5 DEF StopOld, RemoveOld, CreateNew, StartNew, Calls
  <2>2. CarryOut(CurrentCall)
    BY <1>5
         DEF StopOld, RemoveOld, CreateNew, StartNew, Answered, CallFails,
             daemon
  <2> QED BY <1>1, <2>1, <2>2
<1>6. CASE UNCHANGED slot BY <1>6
<1> QED
  BY <1>2, <1>3, <1>4, <1>5, <1>6
     DEF Next, SupervisorStep, vars, daemon, StartPass, ReadRecord, Render,
         FindEngine, SaveRecord, SyncDirectory, InspectName, ClearRecord, Crash,
         SourcesChange, Request

(* No call of the supervisor, however late, changes a container the operator *)
(* deployed that the record does not name (manage.go:150-168).             *)
THEOREM OperatorsEngineSafe == Spec => OperatorsEngineUntouched
<1>1. IInv /\ [Next]_vars =>
        [ (/\ slot # NoContainer /\ slot.replaces = NoId /\ slot' # slot
           /\ left'.move = left.move /\ left'.loss = left.loss)
          => record # NoRecord /\ record.old = slot.id ]_vars
  BY UntouchedStep
<1> QED BY <1>1, Invariance, PTL DEF Spec, OperatorsEngineUntouched
-----------------------------------------------------------------------------
(* The replacement implements EngineSwap, power losses included.           *)

(* The engine EngineSwap sees in a container.                              *)
Bar(c) == IF c = NoContainer THEN NoContainer
          ELSE [spec |-> c.spec, running |-> c.running]

(* A Docker call carried out is a step of EngineSwap.                      *)
LEMMA CarryOutSwaps ==
  ASSUME IInv, NEW call \in Call, CarryOut(call), UNCHANGED disk,
         call.op \in {"stop", "remove"} /\ Holds(call.id) => record # NoRecord,
         call.op = "create" => record = [old |-> call.id, spec |-> call.spec]
                               /\ record # NoRecord
  PROVE  [Swap!Next]_(Swap!vars)
<1> USE ReplacementAssumption, NothingAssumption DEF IInv, disk
<1>1. CASE call.op = "stop" /\ Effective(call)
  <2>1. /\ record # NoRecord /\ slot # NoContainer
        /\ slot' = [slot EXCEPT !.running = FALSE] /\ slot \in Container
        /\ owed' \in {owed, TRUE}
    BY <1>1 DEF CarryOut, Effective, Holds, TypeOK
  <2>2. slot' # NoContainer /\ slot'.spec = slot.spec /\ slot'.running = FALSE
    BY <2>1 DEF Container
  <2>3. Bar(slot') = [spec |-> slot.spec, running |-> FALSE] BY <2>2 DEF Bar
  <2>4. Bar(slot).spec = slot.spec /\ Bar(slot) # NoContainer
    BY <2>1 DEF Bar, Container
  <2> QED BY <2>1, <2>3, <2>4 DEF Bar, Swap!Next, Swap!TakeDown
<1>2. CASE call.op = "remove" /\ Effective(call)
  <2>1. /\ record # NoRecord /\ slot # NoContainer /\ slot \in Container
        /\ slot' = NoContainer /\ owed' = TRUE
    BY <1>2 DEF CarryOut, Effective, Holds, TypeOK
  <2> QED BY <2>1 DEF Swap!Next, Swap!TakeDown, Container
<1>3. CASE call.op = "create" /\ Effective(call)
  <2>1. /\ record # NoRecord /\ record.spec = call.spec /\ slot = NoContainer
        /\ slot' = NewContainer(call) /\ owed' = owed
    BY <1>3 DEF CarryOut, Effective
  <2>2. slot' \in Container
    BY <2>1 DEF NewContainer, Container, Call, TypeOK
  <2>3. slot'.spec = call.spec /\ slot'.running = FALSE
    BY <2>1 DEF NewContainer
  <2> QED BY <2>1, <2>2, <2>3 DEF Swap!Next, Swap!Build
<1>4. CASE call.op = "start" /\ Effective(call)
  <2>1. /\ slot # NoContainer
        /\ slot' = [slot EXCEPT !.running = TRUE] /\ slot \in Container
        /\ owed' = FALSE
    BY <1>4 DEF CarryOut, Effective, Holds, TypeOK
  <2>2. slot' # NoContainer /\ slot'.spec = slot.spec /\ slot'.running = TRUE
    BY <2>1 DEF Container
  <2> QED BY <2>1, <2>2 DEF Swap!Next, Swap!BringUp, Container
<1>5. CASE ~Effective(call)
  BY <1>5 DEF CarryOut, Swap!vars
<1> QED BY <1>1, <1>2, <1>3, <1>4, <1>5 DEF CarryOut

(* Every step is a step of EngineSwap or leaves its variables alone.       *)
LEMMA SwapStep ==
  ASSUME IInv, [Next]_vars
  PROVE  [Swap!Next]_(Swap!vars)
<1> USE ReplacementAssumption, NothingAssumption DEF IInv
<1>1. CASE Land
  <2>1. PICK call \in wire : CarryOut(call) BY <1>1 DEF Land
  <2>2. /\ call \in Call /\ UNCHANGED disk
        /\ call.op \in {"stop", "remove"} /\ Holds(call.id) => record # NoRecord
        /\ call.op = "create" => record = [old |-> call.id, spec |-> call.spec]
    BY <1>1, <2>1 DEF Land, disk, TypeOK, Wire
  <2>3. call.op = "create" => record # NoRecord
    BY <2>2 DEF Call
  <2> QED BY <2>1, <2>2, <2>3, CarryOutSwaps
<1>2. CASE StopOld \/ RemoveOld \/ CreateNew \/ StartNew
  <2>1. pc \in Calls /\ UNCHANGED disk
    BY <1>2 DEF StopOld, RemoveOld, CreateNew, StartNew, Calls
  <2>2. CarryOut(CurrentCall) \/ UNCHANGED <<slot, owed>>
    BY <1>2
         DEF StopOld, RemoveOld, CreateNew, StartNew, Answered, CallFails,
             daemon
  <2>3. CASE CarryOut(CurrentCall)
    BY <2>1, <2>3, CurrentCallFact, CarryOutSwaps DEF Stages, Resuming, Calls
  <2>4. CASE UNCHANGED <<slot, owed>>
    BY <2>1, <2>4 DEF Swap!vars, disk
  <2> QED BY <2>2, <2>3, <2>4
<1>3. CASE SaveRecord
  <2>1. /\ UNCHANGED <<slot, owed>>
        /\ \/ UNCHANGED disk
           \/ record' = pending /\ survives' = survives \cup {pending}
    BY <1>3 DEF SaveRecord, daemon
  <2>2. record = NoRecord /\ pending \in Record
    BY <1>3 DEF SaveRecord, Stages
  <2> QED BY <2>1, <2>2 DEF Swap!Next, Swap!Announce, Swap!vars, disk
<1>4. CASE ClearRecord
  <2>1. /\ UNCHANGED <<slot, owed>>
        /\ \/ UNCHANGED disk
           \/ record' = NoRecord /\ survives' = survives \cup {NoRecord}
    BY <1>4 DEF ClearRecord, daemon
  <2>2. ~owed BY <1>4 DEF ClearRecord, Owed
  <2> QED BY <2>1, <2>2 DEF Swap!Next, Swap!Withdraw, Swap!vars, disk
<1>5. CASE OperatorMoves
  <2>1. owed' = FALSE /\ UNCHANGED <<record, survives>>
    BY <1>5 DEF OperatorMoves, disk
  <2>2. CASE Deploy
    <3>1. slot' # NoContainer /\ slot'.spec = NoExtras /\ slot'.running = TRUE
      <4>1. PICK label \in BOOLEAN :
              slot' = [id |-> nextId, component |-> label, replaces |-> NoId,
                       spec |-> NoExtras, running |-> TRUE]
        BY <2>2 DEF Deploy
      <4>2. slot' \in Container BY <4>1 DEF Container, TypeOK
      <4> QED BY <4>1, <4>2
    <3> QED BY <2>1, <3>1 DEF Swap!Next, Swap!OutsideHand
  <2>3. CASE slot' = NoContainer
    BY <2>1, <2>3 DEF Swap!Next, Swap!OutsideHand
  <2>4. CASE /\ slot # NoContainer
             /\ \E up \in BOOLEAN : slot' = [slot EXCEPT !.running = up]
    <3>1. PICK up \in BOOLEAN : slot' = [slot EXCEPT !.running = up] BY <2>4
    <3>2. slot' # NoContainer /\ slot'.spec = slot.spec /\ slot'.running = up
          /\ slot \in Container
      BY <2>4, <3>1 DEF TypeOK, Container
    <3>a. Bar(slot).spec = slot.spec /\ Bar(slot) # NoContainer
      BY <2>4, <3>2 DEF Bar, Container
    <3>3. CASE up = TRUE
      <4>1. Bar(slot') = [spec |-> slot.spec, running |-> TRUE] BY <3>2, <3>3
           DEF Bar
      <4> QED BY <2>1, <3>a, <4>1 DEF Bar, Swap!Next, Swap!BringUp
    <3>4. CASE up = FALSE
      <4>1. Bar(slot') = [spec |-> slot.spec, running |-> FALSE] BY <3>2, <3>4
           DEF Bar
      <4> QED BY <2>1, <3>a, <4>1 DEF Bar, Swap!Next, Swap!OutsideHand
    <3> QED BY <3>3, <3>4
  <2> QED BY <1>5, <2>2, <2>3, <2>4 DEF OperatorMoves
<1>6. CASE PowerLoss
  <2>1. /\ record' \in survives /\ survives' = {record'} /\ owed' = owed
        /\ slot' = IF slot = NoContainer THEN slot
                   ELSE [slot EXCEPT !.running = FALSE]
    BY <1>6 DEF PowerLoss
  <2>2. CASE slot = NoContainer
    BY <2>1, <2>2 DEF Swap!Next, Swap!PowerLoss
  <2>3. CASE slot # NoContainer
    <3>1. slot \in Container /\ slot' = [slot EXCEPT !.running = FALSE]
      BY <2>1, <2>3 DEF TypeOK
    <3>2. /\ slot' # NoContainer /\ slot'.spec = slot.spec
          /\ slot'.running = FALSE
      BY <3>1 DEF Container
    <3>3. Bar(slot') = [spec |-> slot.spec, running |-> FALSE]
      BY <3>2 DEF Bar
    <3>4. Bar(slot).spec = slot.spec /\ Bar(slot) # NoContainer
      BY <2>3, <3>1 DEF Bar, Container
    <3> QED BY <2>1, <3>3, <3>4 DEF Bar, Swap!Next, Swap!PowerLoss
  <2> QED BY <2>2, <2>3
<1>7. CASE SyncDirectory
  <2>1. /\ UNCHANGED <<slot, owed, record>>
        /\ UNCHANGED survives \/ survives' = {record}
    BY <1>7 DEF SyncDirectory, daemon
  <2> QED BY <2>1 DEF Swap!Next, Swap!Harden, Swap!vars
<1>8. CASE UNCHANGED <<slot, owed, record, survives>>
  BY <1>8 DEF Swap!vars
<1> QED
  BY <1>1, <1>2, <1>3, <1>4, <1>5, <1>6, <1>7, <1>8
     DEF Next, SupervisorStep, vars, daemon, disk, StartPass, ReadRecord, Render,
         FindEngine, InspectName, Crash, SourcesChange, Request

(* An engine the supervisor takes down was announced on file, is built     *)
(* again exactly as announced, and the announcement is withdrawn only when *)
(* nothing is owed: EngineReplacement implements EngineSwap.               *)
THEOREM Implements == Spec => KeepsPromise
<1> USE ReplacementAssumption, NothingAssumption
<1>1. Init => Swap!Init
  <2> SUFFICES ASSUME Init PROVE Swap!Init OBVIOUS
  <2>1. CASE slot = NoContainer BY <2>1 DEF Init, Swap!Init
  <2>2. CASE slot # NoContainer
    <3>1. slot.spec = NoExtras /\ slot.running = TRUE BY <2>2 DEF Init
    <3> QED BY <2>2, <3>1 DEF Init, Swap!Init
  <2> QED BY <2>1, <2>2
<1>2. IInv /\ [Next]_vars => [Swap!Next]_(Swap!vars)
  BY SwapStep
<1> QED BY <1>1, <1>2, Invariance, PTL DEF Spec, KeepsPromise, Swap!Spec
==============================================================================
