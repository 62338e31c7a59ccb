---------------------------- MODULE ReconcileLoop ----------------------------
(***************************************************************************)
(* The supervisor's goroutines and what wakes them: Reconciler.Run with    *)
(* its debounce timer and reconcile with its early returns                 *)
(* (internal/pipeline/reconcile.go), WatchEvents and pump                  *)
(* (internal/docker/watcher.go), WatchFile (internal/pipeline/watchfile.go)*)
(* and main, which connects them by a channel of size one.                 *)
(*                                                                         *)
(* What a pass computes is abstracted to what it was computed from.  The   *)
(* write is FileWriter.Apply as one step (ConfigWriter has its steps); the *)
(* replacement of the engine is reduced to whether a recovery record is    *)
(* left and whether it can be completed (EngineReplacement has the rest).  *)
(* Time passes in ticks, and not while the loop has something to receive.  *)
(***************************************************************************)
EXTENDS Integers

CONSTANTS
  Sources,     \* what running containers and their labels may amount to
  Defaults,    \* what defaults.yml may hold
  Broken,      \* the member of Defaults that does not parse
  NoConfig,    \* no gobackup.yml, or nothing written by this process
  Debounce,    \* ticks: GOBACKUP_DOCKER_DEBOUNCE (500ms)
  Retry,       \* ticks: the 5 seconds after a failed pass
  Backoff,     \* ticks: the pause before the event stream is reopened (1s)
  MaxFaults,   \* bound: failing calls and file operations in passes
  MaxChanges,  \* bound: changes of the sources
  MaxEdits,    \* bound: edits of defaults.yml
  MaxMoves,    \* bound: times the engine's name is taken or freed
  MaxCrashes   \* bound: deaths of the supervisor

ASSUME LoopAssumption ==
  /\ Broken \in Defaults
  /\ {Debounce, Retry, Backoff} \subseteq Nat \ {0}
  /\ {MaxFaults, MaxChanges, MaxEdits, MaxMoves, MaxCrashes} \subseteq Nat

(* A configuration: the sources and defaults it was rendered from, and     *)
(* whether the volumes of every source could be discovered.                *)
Config == [src: Sources, dfl: Defaults \ {Broken}, full: BOOLEAN]

(* One that a pass has begun to compute.                                   *)
Draft == [src: Sources \cup {NoConfig}, dfl: (Defaults \ {Broken}) \cup {NoConfig},
          full: BOOLEAN]

ASSUME NoConfigAssumption == NoConfig \notin Config

VARIABLES
  trigger,    \* the channel holds a request
  timer,      \* ticks until the timer fires, 0 when it has, or Stopped
  loop,       \* the next step of the loop's goroutine
  draft,      \* the configuration this pass is computing
  file,       \* the configuration in gobackup.yml
  last,       \* the one FileWriter remembers (w.last)
  published,  \* the one whose models Status.Models names
  failed,     \* Status.LastError is set
  record,     \* recovery of the engine: "none", "pending", "blocked"
  watcher,    \* the next step of WatchEvents' goroutine
  stream,     \* the event stream is open
  inbox,      \* events in the stream not read yet
  nap,        \* ticks left of the pause before reconnecting
  watch,      \* WatchFile: "starting", "watching", "gone"
  nudge,      \* fsnotify has an event for defaults.yml
  sources,    \* what is running
  defaults,   \* what defaults.yml holds
  unseen,     \* history: defaults.yml changed while nobody watched it, and has
              \* not been read since
  left        \* history: how much of each bound is left

output  == <<file, last, published>>
events  == <<watcher, stream, inbox, nap>>
edits   == <<watch, nudge>>
world   == <<sources, defaults>>
vars    == <<trigger, timer, loop, draft, file, last, published, failed,
             record, watcher, stream, inbox, nap, watch, nudge, sources, defaults,
             unseen, left>>

Stopped == -1

Spend(what) == /\ left[what] > 0
               /\ left' = [left EXCEPT ![what] = @ - 1]

Blank == [src |-> NoConfig, dfl |-> NoConfig, full |-> TRUE]

(* main: the channel is filled once before the loop runs, and both         *)
(* watchers have been started, which says nothing of how far they are.     *)
Init ==
  /\ trigger = TRUE /\ timer = Stopped /\ loop = "select" /\ draft = Blank
  /\ sources \in Sources /\ defaults \in Defaults \ {Broken}
  /\ file = NoConfig /\ last = NoConfig /\ published = NoConfig
  /\ failed = FALSE
  /\ record = "none"
  /\ watcher = "connect" /\ stream = FALSE /\ inbox = 0 /\ nap = 0
  /\ watch = "starting" /\ nudge = FALSE
  /\ unseen = FALSE
  /\ left = [fault |-> MaxFaults, change |-> MaxChanges, edit |-> MaxEdits,
             move |-> MaxMoves, crash |-> MaxCrashes]
-----------------------------------------------------------------------------
(* Run: the select.  fire() never blocks: a full channel is request enough.*)

Fire == trigger' = TRUE

Debounced ==
  /\ loop = "select" /\ trigger
  /\ trigger' = FALSE
  /\ timer' = Debounce
  /\ UNCHANGED <<loop, draft, output, failed, record, events, edits, world,
                 unseen, left>>

TimerFires ==
  /\ loop = "select" /\ timer = 0
  /\ timer' = Stopped
  /\ loop' = "recover"
  /\ UNCHANGED <<trigger, draft, output, failed, record, events, edits, world,
                 unseen, left>>
-----------------------------------------------------------------------------
(* reconcile.  A step that fails sets LastError and ends the pass, and the *)
(* loop arms the timer.                                                    *)

Goto(where) == loop' = where /\ UNCHANGED <<timer, failed>>

Return == loop' = "select" /\ draft' = Blank

(* Deviation: only the next event brings another pass.                     *)
ReturnErrorUnarmed == Return /\ failed' = TRUE /\ UNCHANGED timer

ReturnError == Return /\ failed' = TRUE /\ timer' = Retry

(* The engine first: a replacement that was interrupted is completed, or   *)
(* nothing else of the pass happens.                                       *)
Recover ==
  /\ loop = "recover"
  /\ \/ /\ record # "blocked" /\ record' = "none"
        /\ Goto("list") /\ UNCHANGED <<draft, left>>
     \/ record = "blocked" /\ ReturnError /\ UNCHANGED <<record, left>>
     \/ Spend("fault") /\ ReturnError /\ UNCHANGED record
  /\ UNCHANGED <<trigger, output, events, edits, world, unseen>>

List ==
  /\ loop = "list"
  /\ \/ /\ draft' = [draft EXCEPT !.src = sources]
        /\ Goto("defaults") /\ UNCHANGED left
     \/ Spend("fault") /\ ReturnError
  /\ UNCHANGED <<trigger, output, record, events, edits, world, unseen>>

(* Deviation: the profiles are read by the first pass only.                *)
ReadDefaultsOnce ==
  /\ loop = "defaults"
  /\ unseen' = FALSE
  /\ \/ /\ defaults # Broken
        /\ draft' = [draft EXCEPT !.dfl = IF last = NoConfig THEN defaults
                                         ELSE last.dfl]
        /\ Goto("discover")
     \/ defaults = Broken /\ ReturnError
  /\ UNCHANGED <<trigger, output, record, events, edits, world, left>>

(* LoadProfiles: a file that cannot be read or does not parse ends the     *)
(* pass.                                                                   *)
ReadDefaults ==
  /\ loop = "defaults"
  /\ \/ /\ defaults # Broken
        /\ draft' = [draft EXCEPT !.dfl = defaults]
        /\ unseen' = FALSE
        /\ Goto("discover") /\ UNCHANGED left
     \/ /\ defaults = Broken /\ ReturnError
        /\ unseen' = FALSE
        /\ UNCHANGED left
     \/ Spend("fault") /\ ReturnError /\ UNCHANGED unseen
  /\ UNCHANGED <<trigger, output, record, events, edits, world>>

(* Volume discovery logs the inspects that fail and goes on without.       *)
Discover ==
  /\ loop = "discover"
  /\ Goto("write")
  /\ \/ UNCHANGED <<draft, left>>
     \/ draft' = [draft EXCEPT !.full = FALSE] /\ Spend("fault")
  /\ UNCHANGED <<trigger, output, record, events, edits, world, unseen>>

(* Deviation: the status is updated before the write.                      *)
WriteAfterPublishing ==
  /\ loop = "write"
  /\ published' = draft
  /\ \/ /\ file' = IF draft = last THEN file ELSE draft
        /\ last' = draft
        /\ Goto("sync") /\ UNCHANGED <<draft, left>>
     \/ /\ draft # last
        /\ UNCHANGED <<file, last>>
        /\ ReturnError /\ Spend("fault")
  /\ UNCHANGED <<trigger, record, events, edits, world, unseen>>

(* FileWriter.Apply: nothing to write, written, or an error before or after*)
(* the rename; then Status.Models.                                         *)
Write ==
  /\ loop = "write"
  /\ \/ /\ draft = last
        /\ published' = draft
        /\ Goto("sync") /\ UNCHANGED <<file, last, draft, left>>
     \/ /\ draft # last
        /\ file' = draft /\ last' = draft /\ published' = draft
        /\ Goto("sync") /\ UNCHANGED <<draft, left>>
     \/ /\ draft # last
        /\ file' \in {file, draft} /\ UNCHANGED <<last, published>>
        /\ ReturnError /\ Spend("fault")
  /\ UNCHANGED <<trigger, record, events, edits, world, unseen>>

(* The engine again, for what this pass needs: it may fail, and every time *)
(* (nothing is deployed as the engine, Docker refuses its mounts), before  *)
(* or after the recovery record has been saved.                            *)
SyncEngine ==
  /\ loop = "sync"
  /\ \/ Return /\ failed' = FALSE /\ UNCHANGED <<timer, record>>
     \/ ReturnError /\ record' \in {"none", "pending"}
  /\ UNCHANGED <<trigger, output, events, edits, world, unseen, left>>

LoopStep ==
  \/ Debounced \/ TimerFires \/ Recover \/ List \/ ReadDefaults \/ Discover
  \/ Write \/ SyncEngine
-----------------------------------------------------------------------------
(* WatchEvents.  Events returns when the daemon has answered; whether it   *)
(* accepted the subscription shows in pump only.                           *)

Connect ==
  /\ watcher = "connect"
  /\ watcher' = "greet"
  /\ stream' \in BOOLEAN
  /\ UNCHANGED <<trigger, timer, loop, draft, output, failed, record, inbox, nap,
                 edits, world, unseen, left>>

(* Deviation: the request is made when the first connection is opened only.*)
GreetOnce ==
  /\ watcher = "greet"
  /\ watcher' = "pump"
  /\ IF published = NoConfig THEN Fire ELSE UNCHANGED trigger
  /\ UNCHANGED <<timer, loop, draft, output, failed, record, stream, inbox, nap,
                 edits, world, unseen, left>>

Greet ==
  /\ watcher = "greet"
  /\ watcher' = "pump"
  /\ Fire
  /\ UNCHANGED <<timer, loop, draft, output, failed, record, stream, inbox, nap,
                 edits, world, unseen, left>>

PumpEvent ==
  /\ watcher = "pump" /\ inbox > 0
  /\ inbox' = inbox - 1
  /\ Fire
  /\ UNCHANGED <<timer, loop, draft, output, failed, record, watcher, stream, nap,
                 edits, world, unseen, left>>

(* The stream has ended; the pause is always the same, the doubling of     *)
(* backoff being undone before it is used.                                 *)
PumpError ==
  /\ watcher = "pump" /\ ~stream /\ inbox = 0
  /\ watcher' = "sleep" /\ nap' = Backoff
  /\ UNCHANGED <<trigger, timer, loop, draft, output, failed, record, stream,
                 inbox, edits, world, unseen, left>>

Wake ==
  /\ watcher = "sleep" /\ nap = 0
  /\ watcher' = "connect"
  /\ UNCHANGED <<trigger, timer, loop, draft, output, failed, record, stream,
                 inbox, nap, edits, world, unseen, left>>

WatcherStep == Connect \/ Greet \/ PumpEvent \/ PumpError \/ Wake

(* The daemon goes away: what it had sent may or may not arrive.           *)
StreamBreaks ==
  /\ stream
  /\ stream' = FALSE
  /\ inbox' \in 0..inbox
  /\ UNCHANGED <<trigger, timer, loop, draft, output, failed, record, watcher,
                 nap, edits, world, unseen, left>>
-----------------------------------------------------------------------------
(* WatchFile: it registers the directory, or cannot and returns for good.  *)
StartWatch ==
  /\ watch = "starting"
  /\ watch' \in {"watching", "gone"}
  /\ UNCHANGED <<trigger, timer, loop, draft, output, failed, record, events,
                 nudge, world, unseen, left>>

DefaultsEvent ==
  /\ watch = "watching" /\ nudge
  /\ nudge' = FALSE
  /\ Fire
  /\ UNCHANGED <<timer, loop, draft, output, failed, record, events, watch, world,
                 unseen, left>>

FileWatcherStep == StartWatch \/ DefaultsEvent
-----------------------------------------------------------------------------
(* The world outside.                                                      *)

SourcesChange ==
  /\ Spend("change")
  /\ sources' \in Sources \ {sources}
  /\ inbox' = IF stream THEN inbox + 1 ELSE inbox
  /\ UNCHANGED <<trigger, timer, loop, draft, output, failed, record, watcher,
                 stream, nap, edits, defaults, unseen>>

EditDefaults ==
  /\ Spend("edit")
  /\ defaults' \in Defaults \ {defaults}
  /\ nudge' = (watch = "watching" \/ nudge)
  /\ unseen' = (watch # "watching" \/ unseen)
  /\ UNCHANGED <<trigger, timer, loop, draft, output, failed, record, events,
                 watch, sources>>

(* While a replacement is unfinished, something comes to stand in its way  *)
(* or goes: another container takes the engine's name, a directory the     *)
(* record mounts is removed.                                               *)
EngineNameTaken ==
  /\ Spend("move")
  /\ \/ record = "pending" /\ record' = "blocked"
     \/ record = "blocked" /\ record' = "pending"
  /\ UNCHANGED <<trigger, timer, loop, draft, output, failed, events, edits, world,
                 unseen>>

(* What was on its way to the old process is lost with it; a replacement   *)
(* may have been begun.                                                    *)
Crash ==
  /\ Spend("crash")
  /\ trigger' = TRUE /\ timer' = Stopped /\ loop' = "select" /\ draft' = Blank
  /\ last' = NoConfig /\ published' = NoConfig /\ failed' = FALSE
  /\ watcher' = "connect" /\ stream' = FALSE /\ inbox' = 0 /\ nap' = 0
  /\ watch' = "starting" /\ nudge' = FALSE
  /\ record' \in IF loop = "sync" THEN {"none", "pending"} ELSE {record}
  /\ UNCHANGED <<file, world, unseen>>

Urgent == loop = "select" /\ (trigger \/ timer = 0)

Tick ==
  /\ ~Urgent
  /\ timer > 0 \/ nap > 0
  /\ timer' = IF timer > 0 THEN timer - 1 ELSE timer
  /\ nap' = IF nap > 0 THEN nap - 1 ELSE nap
  /\ UNCHANGED <<trigger, loop, draft, output, failed, record, watcher, stream,
                 inbox, edits, world, unseen, left>>

Next ==
  \/ LoopStep \/ WatcherStep \/ FileWatcherStep
  \/ StreamBreaks \/ SourcesChange \/ EditDefaults \/ EngineNameTaken
  \/ Crash \/ Tick

Spec == Init /\ [][Next]_vars

(* The Go scheduler runs every goroutine that can run, calls return, and   *)
(* time passes.  Nothing is asked of the daemon: the stream may break, and *)
(* connecting may fail, for ever.                                          *)
Fairness == /\ WF_vars(LoopStep) /\ WF_vars(WatcherStep)
            /\ WF_vars(FileWatcherStep) /\ WF_vars(Tick)

FairSpec == Spec /\ Fairness
-----------------------------------------------------------------------------
TypeOK ==
  /\ trigger \in BOOLEAN /\ failed \in BOOLEAN /\ stream \in BOOLEAN
  /\ nudge \in BOOLEAN /\ unseen \in BOOLEAN
  /\ timer \in Nat \cup {Stopped} /\ nap \in Nat
  /\ loop \in {"select", "recover", "list", "defaults", "discover", "write", "sync"}
  /\ draft \in Draft
  /\ file \in Config \cup {NoConfig} /\ last \in Config \cup {NoConfig}
  /\ published \in Config \cup {NoConfig}
  /\ record \in {"none", "pending", "blocked"}
  /\ watcher \in {"connect", "greet", "pump", "sleep"}
  /\ inbox \in Nat
  /\ watch \in {"starting", "watching", "gone"}
  /\ sources \in Sources /\ defaults \in Defaults
  /\ left \in [{"fault", "change", "edit", "move", "crash"} -> Nat]

(* The loop waits for an event: nothing else will start a pass.            *)
Resting == loop = "select" /\ ~trigger /\ timer = Stopped

FromSources(c)  == c # NoConfig /\ c.src = sources
FromDefaults(c) == c # NoConfig /\ c.dfl = defaults

(* No wake-up is lost and no failure forgotten: when the loop waits for an *)
(* event, its last pass succeeded, and it has rendered the current sources *)
(* and defaults, or word of what changed is still on its way: an event not *)
(* read yet, a stream that is down and will be greeted, a file event.      *)
QuietMeansCurrent ==
  Resting =>
    /\ ~failed
    /\ watcher = "pump" /\ stream /\ inbox = 0 => FromSources(published)
    /\ ~nudge /\ ~unseen => FromDefaults(published)

(* The inductive invariant behind it.  Word: what changed is still on its  *)
(* way to the loop.  The stages of a pass, and the wait after it, hold the *)
(* current sources and defaults or there is word of a change.              *)
WordOfSources == trigger \/ inbox > 0 \/ watcher # "pump" \/ ~stream
WordOfDefaults == trigger \/ nudge \/ unseen

Waiting == loop = "select" /\ timer = Stopped

Drafted ==
  /\ loop \in {"defaults", "discover", "write"} =>
       draft.src \in Sources /\ (WordOfSources \/ draft.src = sources)
  /\ loop \in {"discover", "write"} =>
       draft.dfl \in Defaults \ {Broken} /\ (WordOfDefaults \/ draft.dfl = defaults)

Settled ==
  /\ loop = "sync" \/ Waiting =>
       /\ WordOfSources \/ FromSources(published)
       /\ WordOfDefaults \/ FromDefaults(published)
  /\ Waiting => ~failed
  /\ published = last

IInv == TypeOK /\ Drafted /\ Settled

(* Discovery that failed is a failure like the others: "exposed in the     *)
(* status API's last_error and retried after five seconds" (README.md:224).*)
DiscoveryIsRetried == Resting /\ published # NoConfig => published.full

(* gobackup.yml ends up rendered from the sources that run, although the   *)
(* event stream may break and fail to open for ever: unless defaults.yml   *)
(* does not parse, the engine cannot be recovered, or a write failed after *)
(* its rename and the sources have gone back to what was written before.   *)
CanFollow == record # "blocked" /\ defaults # Broken /\ file = last
SourcesFollowed == <>[](CanFollow => FromSources(file))

(* And from the defaults, unless they changed while nobody watched them.   *)
DefaultsFollowed ==
  <>[](CanFollow /\ ~unseen => FromDefaults(file))
=============================================================================
