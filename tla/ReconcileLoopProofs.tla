-------------------------- MODULE ReconcileLoopProofs --------------------------
(***************************************************************************)
(* Proofs about ReconcileLoop: its inductive invariant, and from it that   *)
(* the loop never waits for an event with work left that nobody announces. *)
(***************************************************************************)
EXTENDS ReconcileLoop, TLAPS

(* What a pass makes of its draft is a draft, and in the end a             *)
(* configuration.                                                          *)
LEMMA DraftFacts ==
  /\ Blank \in Draft
  /\ \A d \in Draft :
       /\ \A s \in Sources : /\ [d EXCEPT !.src = s] \in Draft
                             /\ [d EXCEPT !.src = s].src = s
       /\ \A f \in Defaults \ {Broken} : /\ [d EXCEPT !.dfl = f] \in Draft
                                        /\ [d EXCEPT !.dfl = f].dfl = f
                                        /\ [d EXCEPT !.dfl = f].src = d.src
       /\ [d EXCEPT !.full = FALSE] \in Draft
       /\ [d EXCEPT !.full = FALSE].src = d.src
       /\ [d EXCEPT !.full = FALSE].dfl = d.dfl
       /\ d.src \in Sources /\ d.dfl \in Defaults \ {Broken} => d \in Config
  BY DEF Blank, Draft, Config

(* Every variable keeps its type.                                          *)
LEMMA TypeInv == ASSUME IInv, Next PROVE TypeOK'
  <1> USE DEF Next, LoopStep, Debounced, TimerFires, Recover, List, ReadDefaults,
              Discover, Write, SyncEngine, WatcherStep, Connect, Greet, PumpEvent,
              PumpError, Wake, FileWatcherStep, StartWatch, DefaultsEvent,
              StreamBreaks, SourcesChange, EditDefaults, EngineNameTaken, Crash,
              Tick, Urgent, Goto, Return, ReturnError, Fire, output, events,
              edits, world
  <1>1. trigger' \in BOOLEAN /\ failed' \in BOOLEAN
    BY DEF IInv, TypeOK
  <1>2. stream' \in BOOLEAN /\ nudge' \in BOOLEAN /\ unseen' \in BOOLEAN
    BY DEF IInv, TypeOK
  <1>3. timer' \in Nat \cup {Stopped} /\ nap' \in Nat
    BY LoopAssumption DEF IInv, TypeOK, Stopped
  <1>4. inbox' \in Nat
    BY DEF IInv, TypeOK
  <1>5. loop' \in {"select", "recover", "list", "defaults", "discover", "write", "sync"}
    BY DEF IInv, TypeOK
  <1>6. draft' \in Draft
    <2>1. draft \in Draft /\ sources \in Sources /\ defaults \in Defaults
      BY DEF IInv, TypeOK
    <2>2. \/ draft' \in {draft, Blank}
          \/ draft' = [draft EXCEPT !.src = sources]
          \/ defaults # Broken /\ draft' = [draft EXCEPT !.dfl = defaults]
          \/ draft' = [draft EXCEPT !.full = FALSE]
      OBVIOUS
    <2> QED
      BY <2>1, <2>2, DraftFacts
  <1>7. /\ file' \in Config \cup {NoConfig} /\ last' \in Config \cup {NoConfig}
        /\ published' \in Config \cup {NoConfig}
    <2>1. \/ UNCHANGED <<file, last, published>>
          \/ last' = NoConfig /\ published' = NoConfig /\ file' = file
          \/ /\ loop = "write"
             /\ file' \in {file, draft} /\ last' \in {last, draft}
             /\ published' \in {published, draft}
      OBVIOUS
    <2>2. loop = "write" => draft \in Config
      BY DraftFacts DEF IInv, TypeOK, Drafted
    <2> QED
      BY <2>1, <2>2 DEF IInv, TypeOK
  <1>8. record' \in {"none", "pending", "blocked"}
    BY DEF IInv, TypeOK
  <1>9. /\ watcher' \in {"connect", "greet", "pump", "sleep"}
        /\ watch' \in {"starting", "watching", "gone"}
    BY DEF IInv, TypeOK
  <1>10. sources' \in Sources /\ defaults' \in Defaults
    BY DEF IInv, TypeOK
  <1>11. left' \in [{"fault", "change", "edit", "move", "crash"} -> Nat]
    BY DEF IInv, TypeOK, Spend
  <1> QED
    BY <1>1, <1>2, <1>3, <1>4, <1>5, <1>6, <1>7, <1>8, <1>9, <1>10, <1>11
    DEF TypeOK

(* A process starts with the channel filled.                               *)
LEMMA InitInv == Init => IInv
  <1> SUFFICES ASSUME Init PROVE IInv
    OBVIOUS
  <1>1. TypeOK
    <2>1. timer \in Nat \cup {Stopped} /\ nap \in Nat /\ inbox \in Nat
      BY DEF Init
    <2>2. left \in [{"fault", "change", "edit", "move", "crash"} -> Nat]
      BY LoopAssumption DEF Init
    <2> QED
      BY <2>1, <2>2, DraftFacts DEF Init, TypeOK
  <1>2. Drafted /\ Settled
    BY DEF Init, Drafted, Settled, WordOfSources, WordOfDefaults, Waiting
  <1> QED
    BY <1>1, <1>2 DEF IInv

(* Receiving: what was announced is now owed by the timer or by the pass.  *)
LEMMA SelectInv == ASSUME IInv, Debounced \/ TimerFires PROVE Drafted' /\ Settled'
  <1> USE DEF Debounced, TimerFires, output, events, edits, world
  <1>1. Drafted'
    BY DEF IInv, TypeOK, Drafted, WordOfSources, WordOfDefaults
  <1>2. Settled'
    BY LoopAssumption
    DEF IInv, TypeOK, Drafted, Settled, WordOfSources, WordOfDefaults, Waiting,
        FromSources, FromDefaults, Stopped
  <1> QED
    BY <1>1, <1>2

(* A recovery that fails arms the timer.                                   *)
LEMMA RecoverInv == ASSUME IInv, Recover PROVE Drafted' /\ Settled'
  <1> USE DEF Recover, Goto, Return, ReturnError, output, events, edits, world
  <1>1. Drafted'
    BY DEF IInv, TypeOK, Drafted, WordOfSources, WordOfDefaults
  <1>2. Settled'
    BY LoopAssumption
    DEF IInv, TypeOK, Drafted, Settled, WordOfSources, WordOfDefaults, Waiting,
        FromSources, FromDefaults, Stopped
  <1> QED
    BY <1>1, <1>2

(* The draft starts from the sources that run now.                         *)
LEMMA ListInv == ASSUME IInv, List PROVE Drafted' /\ Settled'
  <1>1. Drafted'
    <2>1. \/ loop' = "select"
          \/ loop' = "defaults" /\ draft' = [draft EXCEPT !.src = sources]
      BY DEF List, Goto, Return, ReturnError, output, events, edits, world
    <2>2. draft \in Draft /\ sources \in Sources /\ sources' = sources
      BY DEF List, world, IInv, TypeOK
    <2>3. [draft EXCEPT !.src = sources].src = sources
      BY <2>2 DEF Draft
    <2> QED
      BY <2>1, <2>2, <2>3 DEF Drafted
  <1>2. Settled'
    BY LoopAssumption
    DEF List, Goto, Return, ReturnError, output, events, edits, world,
        IInv, TypeOK, Drafted, Settled, WordOfSources, WordOfDefaults, Waiting,
        FromSources, FromDefaults, Stopped
  <1> QED
    BY <1>1, <1>2

(* And goes on with the defaults on file now.                              *)
LEMMA ReadDefaultsInv == ASSUME IInv, ReadDefaults PROVE Drafted' /\ Settled'
  <1>1. Drafted'
    <2>1. \/ loop' = "select"
          \/ /\ loop' = "discover" /\ draft' = [draft EXCEPT !.dfl = defaults]
             /\ defaults # Broken
      BY DEF ReadDefaults, Goto, Return, ReturnError, output, events, edits, world
    <2>2. /\ draft \in Draft /\ defaults \in Defaults
          /\ draft.src \in Sources /\ (WordOfSources \/ draft.src = sources)
      BY DEF ReadDefaults, IInv, TypeOK, Drafted
    <2>3. UNCHANGED <<sources, defaults, trigger, inbox, watcher, stream>>
      BY DEF ReadDefaults, Goto, Return, ReturnError, output, events, edits, world
    <2>4. /\ [draft EXCEPT !.dfl = defaults].dfl = defaults
          /\ [draft EXCEPT !.dfl = defaults].src = draft.src
      BY <2>2 DEF Draft
    <2> QED
      BY <2>1, <2>2, <2>3, <2>4 DEF Drafted, WordOfSources
  <1>2. Settled'
    BY LoopAssumption
    DEF ReadDefaults, Goto, Return, ReturnError, output, events, edits, world,
        IInv, TypeOK, Drafted, Settled, WordOfSources, WordOfDefaults, Waiting,
        FromSources, FromDefaults, Stopped
  <1> QED
    BY <1>1, <1>2

(* Discovery leaves the draft's origins alone.                             *)
LEMMA DiscoverInv == ASSUME IInv, Discover PROVE Drafted' /\ Settled'
  <1> USE DEF Discover, Goto, output, events, edits, world
  <1>1. Drafted'
    BY DraftFacts DEF IInv, TypeOK, Drafted, WordOfSources, WordOfDefaults
  <1>2. Settled'
    BY LoopAssumption
    DEF IInv, TypeOK, Drafted, Settled, WordOfSources, WordOfDefaults, Waiting,
        FromSources, FromDefaults, Stopped
  <1> QED
    BY <1>1, <1>2

(* What is written and published is the draft.                             *)
LEMMA WriteInv == ASSUME IInv, Write PROVE Drafted' /\ Settled'
  <1>1. Drafted'
    BY DEF Write, Goto, Return, ReturnError, IInv, TypeOK, Drafted, WordOfSources, WordOfDefaults
  <1>2. Settled'
    <2>1. draft \in Config /\ draft # NoConfig
      <3>1. draft \in Draft /\ draft.src \in Sources /\ draft.dfl \in Defaults \ {Broken}
        BY DEF Write, IInv, TypeOK, Drafted
      <3>2. draft \in Config
        BY <3>1, DraftFacts
      <3> QED
        BY <3>2, NoConfigAssumption
    <2>2. \/ published' = draft /\ last' = draft /\ loop' = "sync"
          \/ UNCHANGED <<published, last>> /\ loop' = "select" /\ timer' = Retry
      BY DEF Write, Goto, Return, ReturnError, output, events, edits, world
    <2>3. /\ WordOfSources \/ draft.src = sources
          /\ WordOfDefaults \/ draft.dfl = defaults
      BY DEF Write, IInv, Drafted
    <2>4. UNCHANGED <<sources, defaults, trigger, inbox, watcher, stream, nudge, unseen>>
      BY DEF Write, Goto, Return, ReturnError, output, events, edits, world
    <2> QED
      BY <2>1, <2>2, <2>3, <2>4, LoopAssumption
      DEF IInv, Settled, WordOfSources, WordOfDefaults, Waiting, FromSources,
          FromDefaults, Stopped
  <1> QED
    BY <1>1, <1>2

(* A pass that ends well leaves what it published; one that does not arms  *)
(* the timer.                                                              *)
LEMMA SyncInv == ASSUME IInv, SyncEngine PROVE Drafted' /\ Settled'
  <1> USE DEF SyncEngine, Return, ReturnError, output, events, edits, world
  <1>1. Drafted'
    BY DEF IInv, TypeOK, Drafted, WordOfSources, WordOfDefaults
  <1>2. Settled'
    BY LoopAssumption
    DEF IInv, TypeOK, Drafted, Settled, WordOfSources, WordOfDefaults, Waiting,
        FromSources, FromDefaults, Stopped
  <1> QED
    BY <1>1, <1>2

(* WatchEvents turns one kind of word into another, and into a request.    *)
LEMMA WatcherInv == ASSUME IInv, WatcherStep \/ StreamBreaks PROVE Drafted' /\ Settled'
  <1> USE DEF WatcherStep, Connect, Greet, PumpEvent, PumpError, Wake, StreamBreaks,
             Fire, output, events, edits, world
  <1>1. Drafted'
    BY DEF IInv, TypeOK, Drafted, WordOfSources, WordOfDefaults
  <1>2. Settled'
    BY LoopAssumption
    DEF IInv, TypeOK, Drafted, Settled, WordOfSources, WordOfDefaults, Waiting,
        FromSources, FromDefaults, Stopped
  <1> QED
    BY <1>1, <1>2

(* And so does WatchFile.                                                  *)
LEMMA FileWatcherInv == ASSUME IInv, FileWatcherStep PROVE Drafted' /\ Settled'
  <1> USE DEF FileWatcherStep, StartWatch, DefaultsEvent, Fire, output, events, edits, world
  <1>1. Drafted'
    BY DEF IInv, TypeOK, Drafted, WordOfSources, WordOfDefaults
  <1>2. Settled'
    BY LoopAssumption
    DEF IInv, TypeOK, Drafted, Settled, WordOfSources, WordOfDefaults, Waiting,
        FromSources, FromDefaults, Stopped
  <1> QED
    BY <1>1, <1>2

(* A change of the sources is an event, or the stream is down.             *)
LEMMA SourcesChangeInv == ASSUME IInv, SourcesChange PROVE Drafted' /\ Settled'
  <1> USE DEF SourcesChange, Spend, output, events, edits, world
  <1>1. Drafted'
    BY DEF IInv, TypeOK, Drafted, WordOfSources, WordOfDefaults
  <1>2. Settled'
    BY DEF IInv, TypeOK, Settled, WordOfSources, WordOfDefaults, Waiting,
           FromSources, FromDefaults
  <1> QED
    BY <1>1, <1>2

(* An edit of the defaults is an event, or seen to be unseen.              *)
LEMMA EditDefaultsInv == ASSUME IInv, EditDefaults PROVE Drafted' /\ Settled'
  <1> USE DEF EditDefaults, Spend, output, events, edits, world
  <1>1. Drafted'
    BY DEF IInv, TypeOK, Drafted, WordOfSources, WordOfDefaults
  <1>2. Settled'
    BY DEF IInv, TypeOK, Settled, WordOfSources, WordOfDefaults, Waiting,
           FromSources, FromDefaults
  <1> QED
    BY <1>1, <1>2

(* What happens to the name of the engine concerns the next pass only.     *)
LEMMA EngineNameTakenInv == ASSUME IInv, EngineNameTaken PROVE Drafted' /\ Settled'
  <1> USE DEF EngineNameTaken, Spend, output, events, edits, world
  <1>1. Drafted'
    BY DEF IInv, TypeOK, Drafted, WordOfSources, WordOfDefaults
  <1>2. Settled'
    BY DEF IInv, TypeOK, Settled, WordOfSources, WordOfDefaults, Waiting,
           FromSources, FromDefaults
  <1> QED
    BY <1>1, <1>2

(* A new process has a full channel; time changes nothing but clocks.      *)
LEMMA CrashTickInv == ASSUME IInv, Crash \/ Tick PROVE Drafted' /\ Settled'
  <1> USE DEF Crash, Tick, Urgent, output, events, edits, world
  <1>1. Drafted'
    BY DEF IInv, TypeOK, Drafted, WordOfSources, WordOfDefaults
  <1>2. Settled'
    BY LoopAssumption
    DEF IInv, TypeOK, Drafted, Settled, WordOfSources, WordOfDefaults, Waiting,
        FromSources, FromDefaults, Stopped
  <1> QED
    BY <1>1, <1>2

(* Every step keeps the inductive invariant.                               *)
LEMMA StepInv == IInv /\ [Next]_vars => IInv'
  <1> SUFFICES ASSUME IInv, [Next]_vars PROVE IInv'
    OBVIOUS
  <1>1. CASE UNCHANGED vars
    BY <1>1 DEF vars, IInv, TypeOK, Drafted, Settled, WordOfSources,
                WordOfDefaults, Waiting, FromSources, FromDefaults
  <1>2. CASE Next
    BY <1>2, TypeInv, SelectInv, RecoverInv, ListInv, ReadDefaultsInv, DiscoverInv,
       WriteInv, SyncInv, WatcherInv, FileWatcherInv, SourcesChangeInv,
       EditDefaultsInv, EngineNameTakenInv, CrashTickInv
    DEF Next, LoopStep, IInv
  <1> QED
    BY <1>1, <1>2

(* The inductive invariant holds in every state of every behaviour.        *)
THEOREM LoopInvariance == Spec => []IInv
  BY InitInv, StepInv, PTL DEF Spec

(* Whatever the bounds and delays: when the loop waits for an event, the   *)
(* last pass of Run succeeded and no change is left that is not announced. *)
THEOREM NoLostWakeup == Spec => []QuietMeansCurrent
  <1>1. IInv => QuietMeansCurrent
    BY DEF IInv, Settled, QuietMeansCurrent, Resting, Waiting, WordOfSources,
           WordOfDefaults, TypeOK
  <1> QED
    BY <1>1, LoopInvariance, PTL
=============================================================================
