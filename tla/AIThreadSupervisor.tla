------------------------- MODULE AIThreadSupervisor -------------------------
(***************************************************************************)
(* The in-process bot worker: inputs that the gameplay thread coalesces    *)
(* under one lock (perception frames, terrain changes, map snapshots), and *)
(* the background thread that takes them in batches, keeps a private copy  *)
(* of the terrain and answers with intents.                                *)
(*                                                                         *)
(* A method of the supervisor holds the lock, so it is one step.  The      *)
(* worker holds it only while it takes a batch and while it delivers the   *)
(* intents (and to set the ready flag): everything the gameplay thread     *)
(* does in between meets a batch that is out of the queues and not yet     *)
(* answered.                                                               *)
(*                                                                         *)
(* Terrain is the number of the last commit that wrote a cell, 0 for the   *)
(* map file's content.  A change table holds 0 where it has no entry.      *)
(* The worker waits at most 0.25 s for its wake event, so it takes a batch *)
(* whether or not the event is set; the event is not modelled.             *)
(***************************************************************************)
EXTENDS Integers, Sequences, FiniteSets

CONSTANTS
  Bots,         \* player ids the director gives to bots
  Cells,        \* voxel coordinates
  IntentLimit,  \* _INTENT_LIMIT
  NoFrame,      \* _awaiting_frame_id is None
  NoRoute       \* a bot without a planned route

ASSUME IntentLimitAssumption == IntentLimit \in Nat \ {0}
ASSUME NoFrameAssumption == NoFrame \notin Nat

VARIABLES
  latest,     \* map epoch of _latest_snapshot, 0 when it is None
  serial,     \* _snapshot_serial
  epoch,      \* _terrain_map_epoch
  version,    \* _terrain_version
  pending,    \* _terrain_pending
  overlay,    \* _terrain_overlay
  frames,     \* _frames, one per (observer, generation)
  intents,    \* _intents
  ready,      \* _ready
  awaiting,   \* _awaiting_frame_id
  thread,     \* "none", "alive" or "dead"
  stopping,   \* _stop
  phase,      \* what the worker does: "idle", "taken" or "loaded"
  applied,    \* applied_snapshot_serial
  world,      \* the worker's SimpleVoxelWorld
  routes,     \* the brain's route of each bot
  batch       \* what the worker took last

queueVars == <<latest, serial, epoch, version, pending, overlay, frames,
               intents, ready, awaiting>>
threadVars == <<thread, stopping>>
workerVars == <<phase, applied, world, routes, batch>>
supervisorVars == <<queueVars, threadVars, workerVars>>

NoChanges == [c \in Cells |-> 0]
NoWorld == [epoch |-> 0, version |-> 0, cells |-> NoChanges,
            stamps |-> NoChanges]
NoBatch == [serial |-> 0, snapshot |-> FALSE, epoch |-> 0, version |-> 0,
            changes |-> NoChanges, frames |-> {}]
NoRoutes == [b \in Bots |-> NoRoute]

(* The terrain that results from applying the changes g on top of f. *)
Over(f, g) == [c \in Cells |-> IF g[c] # 0 THEN g[c] ELSE f[c]]

Newest(fs) == IF fs = {} THEN -1
              ELSE CHOOSE id \in {f.id : f \in fs} : \A f \in fs : f.id <= id

(* The newest of the frames, or intents, fs about bot b. *)
NewestFor(fs, b) ==
  CHOOSE f \in fs : f.bot = b /\ \A g \in fs : g.bot = b => g.id <= f.id

(* The frames fs, one after the other; no two of them have one id. *)
InIdOrder(fs) ==
  {order \in [1..Cardinality(fs) -> fs] :
     \A j, k \in DOMAIN order : j < k => order[j].id < order[k].id}

SupervisorInit ==
  /\ latest = 0 /\ serial = 0 /\ epoch = -1 /\ version = -1
  /\ pending = NoChanges /\ overlay = NoChanges
  /\ frames = {} /\ intents = <<>>
  /\ ready = FALSE /\ awaiting = NoFrame
  /\ thread = "none" /\ stopping = FALSE
  /\ phase = "idle" /\ applied = -1 /\ world = NoWorld
  /\ routes = NoRoutes /\ batch = NoBatch

-----------------------------------------------------------------------------
(* Methods the gameplay thread calls.                                      *)

(* Mutant of AdoptSnapshot: the serial that makes the worker load it stays. *)
AdoptSnapshotUnnumbered(map, mapVersion, changed) ==
  /\ latest' = map
  /\ epoch' = map
  /\ version' = mapVersion
  /\ pending' = NoChanges
  /\ overlay' = changed
  /\ frames' = {}
  /\ intents' = <<>>
  /\ ready' = FALSE
  /\ UNCHANGED serial

(* What start and publish_map have in common: the snapshot's map replaces  *)
(* every queued fact.  changed is the snapshot's changed_cells.            *)
AdoptSnapshot(map, mapVersion, changed) ==
  /\ latest' = map
  /\ serial' = serial + 1
  /\ epoch' = map
  /\ version' = mapVersion
  /\ pending' = NoChanges
  /\ overlay' = changed
  /\ frames' = {}
  /\ intents' = <<>>
  /\ ready' = FALSE

(* start: a new owner thread, which has applied nothing yet. *)
StartThread(map, mapVersion, changed) ==
  /\ AdoptSnapshot(map, mapVersion, changed)
  /\ thread' = "alive"
  /\ phase' = "idle"
  /\ applied' = -1
  /\ world' = NoWorld
  /\ routes' = NoRoutes
  /\ batch' = NoBatch
  /\ UNCHANGED <<awaiting, stopping>>

(* recover_if_stopped: the retained snapshot, completed by the overlay,    *)
(* becomes the first map of a new thread.                                  *)
RecoverIfStopped ==
  /\ ~stopping
  /\ latest # 0
  /\ thread = "dead"
  /\ StartThread(latest, version, overlay)

PublishMap(map, mapVersion) ==
  /\ AdoptSnapshot(map, mapVersion, NoChanges)
  /\ awaiting' = NoFrame
  /\ UNCHANGED <<threadVars, workerVars>>

DiscardTimeline ==
  /\ frames' = {}
  /\ intents' = <<>>
  /\ awaiting' = NoFrame
  /\ UNCHANGED <<latest, serial, epoch, version, pending, overlay, ready,
                 threadVars, workerVars>>

(* request_restart: the serial makes the worker rebuild its private state; *)
(* terrain still pending stays in the overlay it will be given.            *)
RequestRestart ==
  IF latest = 0 THEN UNCHANGED supervisorVars
  ELSE /\ serial' = serial + 1
       /\ frames' = {}
       /\ intents' = <<>>
       /\ awaiting' = NoFrame
       /\ ready' = FALSE
       /\ UNCHANGED <<latest, epoch, version, pending, overlay, threadVars, workerVars>>

PublishWorldChange(c, value, mapEpoch, topology) ==
  IF mapEpoch # epoch THEN UNCHANGED supervisorVars
  ELSE /\ version' = IF topology > version THEN topology ELSE version
       /\ pending' = [pending EXCEPT ![c] = value]
       /\ overlay' = [overlay EXCEPT ![c] = value]
       /\ UNCHANGED <<latest, serial, epoch, frames, intents, ready,
                      awaiting, threadVars, workerVars>>

(* submit_frame keeps the newest perception of one bot generation. *)
SameBot(f, g) == f.bot = g.bot /\ f.gen = g.gen

SubmitFrame(frame) ==
  LET previous == {f \in frames : SameBot(f, frame)}
  IN  IF \E f \in previous : f.id >= frame.id
      THEN UNCHANGED supervisorVars
      ELSE /\ frames' = (frames \ previous) \cup {frame}
           /\ awaiting' = IF awaiting = NoFrame THEN frame.id ELSE awaiting
           /\ UNCHANGED <<latest, serial, epoch, version, pending, overlay,
                          intents, ready, threadVars, workerVars>>

(* Mutant of TakeIntents: the intents are read, not taken. *)
PeekIntents(n) == UNCHANGED supervisorVars

(* drain_intents hands out the n oldest intents. *)
TakeIntents(n) ==
  /\ intents' = SubSeq(intents, n + 1, Len(intents))
  /\ UNCHANGED <<latest, serial, epoch, version, pending, overlay, frames,
                 ready, awaiting, threadVars, workerVars>>

(* close: the stop flag and the join, during which the gameplay thread is  *)
(* blocked and what the worker still delivers is cleared at the end.  The  *)
(* thread has ended by then, or the join has timed out on a slow batch.    *)
Close ==
  /\ stopping' = TRUE
  /\ latest' = 0
  /\ ready' = FALSE
  /\ frames' = {}
  /\ intents' = <<>>
  /\ pending' = NoChanges
  /\ overlay' = NoChanges
  /\ \/ /\ thread' = "none"
        /\ phase' = "idle"
        /\ batch' = NoBatch
     \/ /\ thread = "alive"
        /\ UNCHANGED <<thread, phase, batch>>
  /\ UNCHANGED <<serial, epoch, version, awaiting, applied, world, routes>>

-----------------------------------------------------------------------------
(* The worker thread (_worker_main).                                       *)

Running(p) == thread = "alive" /\ phase = p

(* Mutant of TakeBatch: a snapshot is taken with the pending changes only. *)
TakeBatchWithoutOverlay ==
  /\ Running("idle")
  /\ ~stopping
  /\ batch' = [serial |-> serial, snapshot |-> latest # 0 /\ serial # applied,
               epoch |-> epoch, version |-> version, changes |-> pending,
               frames |-> frames]
  /\ pending' = NoChanges
  /\ frames' = {}
  /\ phase' = "taken"
  /\ UNCHANGED <<latest, serial, epoch, version, overlay, intents, ready,
                 awaiting, threadVars, applied, world, routes>>

(* One critical section takes everything queued.  A serial the worker has  *)
(* not applied makes it take the snapshot with the whole overlay instead   *)
(* of the pending changes.                                                 *)
TakeBatch ==
  /\ Running("idle")
  /\ ~stopping
  /\ LET fresh == latest # 0 /\ serial # applied
     IN  batch' = [serial |-> serial, snapshot |-> fresh,
                   epoch |-> epoch, version |-> version,
                   changes |-> IF fresh THEN overlay ELSE pending,
                   frames |-> frames]
  /\ pending' = NoChanges
  /\ frames' = {}
  /\ phase' = "taken"
  /\ UNCHANGED <<latest, serial, epoch, version, overlay, intents, ready,
                 awaiting, threadVars, applied, world, routes>>

(* The frames of a batch that is given up are gone. *)
LoseBatch ==
  /\ batch' = NoBatch
  /\ phase' = "idle"
  /\ world' = NoWorld
  /\ routes' = NoRoutes

LoadSnapshot ==
  /\ Running("taken")
  /\ batch.snapshot
  /\ world' = [epoch |-> batch.epoch, version |-> batch.version,
               cells |-> batch.changes, stamps |-> NoChanges]
  /\ routes' = NoRoutes
  /\ applied' = batch.serial
  /\ ready' = TRUE
  /\ phase' = "loaded"
  /\ UNCHANGED <<latest, serial, epoch, version, pending, overlay, frames,
                 intents, awaiting, threadVars, batch>>

(* A snapshot that fails to load is poisoned for its serial. *)
RejectSnapshot ==
  /\ Running("taken")
  /\ batch.snapshot
  /\ LoseBatch
  /\ applied' = batch.serial
  /\ ready' = FALSE
  /\ UNCHANGED <<latest, serial, epoch, version, pending, overlay, frames,
                 intents, awaiting, threadVars>>

(* SimpleVoxelWorld.apply, which ignores another map's changes and those   *)
(* of an older version, and stamps the changed cells with the version of   *)
(* the batch; a route under a changed cell becomes doubtful.               *)
Stamped(stamps) ==
  [c \in Cells |-> IF batch.changes[c] # 0 THEN batch.version ELSE stamps[c]]

ApplyChanges ==
  /\ Running("taken")
  /\ ~batch.snapshot
  /\ IF /\ batch.changes # NoChanges
        /\ batch.epoch = world.epoch
        /\ batch.version >= world.version
     THEN /\ world' = [world EXCEPT !.version = batch.version,
                                    !.cells = Over(@, batch.changes),
                                    !.stamps = Stamped(@)]
          /\ routes' = [b \in Bots |-> IF routes[b] = NoRoute THEN NoRoute
                                       ELSE [routes[b] EXCEPT !.stale = TRUE]]
     ELSE UNCHANGED <<world, routes>>
  /\ phase' = "loaded"
  /\ UNCHANGED <<queueVars, threadVars, applied, batch>>

(* decide_current_frame: only a frame of the loaded map, and of no later   *)
(* terrain, is decided.                                                    *)
Decidable(f) == f.map = world.epoch /\ f.top <= world.version

IntentFor(f) == [bot |-> f.bot, gen |-> f.gen, id |-> f.id, map |-> f.map,
                 mode |-> f.mode, top |-> world.version]

(* The route a decision leaves: planned afresh when the bot has none or    *)
(* when cells along it have a version the route has not seen.  Every cell  *)
(* here lies along every route, and the planner always has credit.         *)
RouteAfter(f) ==
  LET r == routes[f.bot]
      planned == [gen |-> f.gen, version |-> world.version, stale |-> FALSE]
  IN  IF r = NoRoute THEN planned
      ELSE IF r.gen # f.gen THEN planned
      ELSE IF r.version = world.version THEN r
      ELSE IF \E c \in Cells : world.stamps[c] > r.version THEN planned
      ELSE [r EXCEPT !.version = world.version]

(* Mutant of NewestOf: an unbounded queue. *)
AllOf(s) == s

(* deque(maxlen): the oldest intents make room. *)
NewestOf(s) == IF Len(s) <= IntentLimit THEN s
               ELSE SubSeq(s, Len(s) - IntentLimit + 1, Len(s))

DeliverIntents ==
  /\ Running("loaded")
  /\ LET decided == {f \in batch.frames : Decidable(f)}
         processed == Newest(batch.frames)
     IN  \E order \in InIdOrder(decided) :
           /\ intents' = NewestOf(intents \o [k \in DOMAIN order |-> IntentFor(order[k])])
           /\ routes' = [b \in Bots |->
                IF \E f \in decided : f.bot = b
                THEN RouteAfter(NewestFor(decided, b))
                ELSE routes[b]]
           /\ awaiting' = IF awaiting # NoFrame /\ processed >= awaiting
                          THEN NoFrame ELSE awaiting
  /\ phase' = "idle"
  /\ batch' = NoBatch
  /\ UNCHANGED <<latest, serial, epoch, version, pending, overlay, frames,
                 ready, threadVars, applied, world>>

(* An exception while the batch is applied or decided: the private state   *)
(* is rebuilt from the retained snapshot by the next batch.                *)
BatchFails ==
  /\ Running("taken") \/ Running("loaded")
  /\ LoseBatch
  /\ applied' = -1
  /\ ready' = FALSE
  /\ UNCHANGED <<latest, serial, epoch, version, pending, overlay, frames,
                 intents, awaiting, threadVars>>

(* The thread ends without reaching the end of _worker_main. *)
ThreadDies ==
  /\ thread = "alive"
  /\ LoseBatch
  /\ thread' = "dead"
  /\ applied' = -1
  /\ UNCHANGED <<queueVars, stopping>>

(* The loop sees the stop flag. *)
ThreadStops ==
  /\ Running("idle")
  /\ stopping
  /\ thread' = "dead"
  /\ ready' = FALSE
  /\ UNCHANGED <<latest, serial, epoch, version, pending, overlay, frames,
                 intents, awaiting, stopping, workerVars>>

WorkerStep ==
  \/ TakeBatch
  \/ LoadSnapshot
  \/ ApplyChanges
  \/ DeliverIntents
  \/ ThreadStops
=============================================================================
