---------------------------- MODULE BotDirector ----------------------------
(***************************************************************************)
(* The bot director on the gameplay thread, composed with the bot worker   *)
(* of AIThreadSupervisor: it keeps the roster of bots and their            *)
(* generations, tells the worker of every terrain commit and of every      *)
(* game boundary, submits perception frames and adopts the intents that    *)
(* still concern the bot, the map and the game they were computed for.     *)
(*                                                                         *)
(* A commit of several cells notifies the worker cell by cell, each in a   *)
(* critical section of its own: while unpublished # {} the gameplay thread *)
(* does nothing else, but the worker may take a batch.                     *)
(*                                                                         *)
(* The new world of a map change is edited by nobody before the director   *)
(* subscribes to it, so that the swap and the rebinding are one step.      *)
(* Lives of a bot, the reaction of the motors and the static lights are    *)
(* left out.                                                               *)
(***************************************************************************)
EXTENDS AIThreadSupervisor

CONSTANTS
  DrainLimit,    \* intents adopted in one tick
  CommitSizes,   \* numbers of cells a commit may write
  MaxMaps,       \* bound: maps of a behaviour
  MaxGames,      \* bound: games of a behaviour
  MaxCommits,    \* bound: commits on one map
  MaxFrames,     \* bound: frames of a behaviour
  MaxJoins,      \* bound: bots added to one id, but for reconnections
  MaxFaults,     \* bound: failed batches and threads
  NoBot,         \* an id without a bot
  NoIntent       \* a bot without an intention

ASSUME DirectorAssumption ==
  /\ DrainLimit \in Nat \ {0}
  /\ MaxMaps \in Nat /\ MaxGames \in Nat /\ MaxCommits \in Nat
  /\ MaxFrames \in Nat /\ MaxJoins \in Nat /\ MaxFaults \in Nat

VARIABLES
  started,      \* _started
  mapEpoch,     \* _map_epoch
  modeEpoch,    \* _mode_epoch
  terrain,      \* the canonical world
  topology,     \* its topology_version, which is also the director's
  unpublished,  \* cells of the running commit the worker was not told of
  runtime,      \* _runtime: the controller of each bot
  generations,  \* _generation_counter
  frameId,      \* _frame_id
  games,        \* games that have ended
  reconnect,    \* the retired roster, NoBot outside a transition
  faults        \* bound: faults so far

gameVars == <<started, mapEpoch, modeEpoch, terrain, topology, unpublished,
              runtime, generations, frameId, games, reconnect, faults>>
worldVars == <<terrain, topology, unpublished>>
epochVars == <<mapEpoch, modeEpoch>>
rosterVars == <<runtime, generations, reconnect>>
tallyVars == <<games, faults>>
vars == <<supervisorVars, gameVars>>

Idle == started /\ unpublished = {}
Playing == Idle /\ reconnect = NoBot

Init ==
  /\ SupervisorInit
  /\ started = FALSE
  /\ mapEpoch = 0 /\ modeEpoch = 0
  /\ terrain = NoChanges /\ topology = 0 /\ unpublished = {}
  /\ runtime = [b \in Bots |-> NoBot]
  /\ generations = [b \in Bots |-> 0]
  /\ frameId = 0 /\ games = 0
  /\ reconnect = NoBot
  /\ faults = 0

-----------------------------------------------------------------------------
(* Roster.                                                                 *)

Controller(b) ==
  [gen |-> generations[b] + 1, intent |-> NoIntent, last |-> -1,
   since |-> frameId]

(* BotDirector.start, once in the life of a server. *)
Start ==
  /\ ~started /\ ~stopping
  /\ started' = TRUE
  /\ mapEpoch' = 1 /\ modeEpoch' = 1
  /\ StartThread(1, 0, NoChanges)
  /\ UNCHANGED <<worldVars, rosterVars, frameId, tallyVars>>

AddBot(b) ==
  /\ Playing
  /\ runtime[b] = NoBot
  /\ generations[b] < MaxJoins
  /\ runtime' = [runtime EXCEPT ![b] = Controller(b)]
  /\ generations' = [generations EXCEPT ![b] = @ + 1]
  /\ UNCHANGED <<supervisorVars, started, epochVars, worldVars, frameId,
                 reconnect, tallyVars>>

RemoveBot(b) ==
  /\ Playing
  /\ runtime[b] # NoBot
  /\ runtime' = [runtime EXCEPT ![b] = NoBot]
  /\ UNCHANGED <<supervisorVars, started, epochVars, worldVars, generations,
                 frameId, reconnect, tallyVars>>

-----------------------------------------------------------------------------
(* The world and the tick.                                                 *)

(* WorldManager commits the cells first and then tells its listeners. *)
Commit(cells) ==
  /\ Idle
  /\ topology < MaxCommits
  /\ topology' = topology + 1
  /\ terrain' = [c \in Cells |-> IF c \in cells THEN topology + 1 ELSE terrain[c]]
  /\ unpublished' = cells
  /\ UNCHANGED <<supervisorVars, started, epochVars, rosterVars, frameId, tallyVars>>

OnWorldMutation(c) ==
  /\ c \in unpublished
  /\ unpublished' = unpublished \ {c}
  /\ PublishWorldChange(c, terrain[c], mapEpoch, topology)
  /\ UNCHANGED <<started, epochVars, terrain, topology, rosterVars, frameId, tallyVars>>

PublishPerception(b) ==
  /\ Playing
  /\ runtime[b] # NoBot
  /\ frameId < MaxFrames
  /\ frameId' = frameId + 1
  /\ SubmitFrame([bot |-> b, gen |-> runtime[b].gen, id |-> frameId + 1,
                  map |-> mapEpoch, mode |-> modeEpoch, top |-> topology])
  /\ UNCHANGED <<started, epochVars, worldVars, rosterVars, tallyVars>>

(* Mutant of Adoptable: the generation of the bot is not compared. *)
AdoptableForId(i, r) ==
  /\ r # NoBot
  /\ i.map = mapEpoch
  /\ i.mode = modeEpoch
  /\ i.top <= topology
  /\ i.id > r.last

(* What the director refuses; an intent may also have expired. *)
Adoptable(i, r) ==
  /\ r # NoBot
  /\ i.gen = r.gen
  /\ i.map = mapEpoch
  /\ i.mode = modeEpoch
  /\ i.top <= topology
  /\ i.id > r.last

(* The controller of b after the drained intents, oldest first, each newer *)
(* one replacing the one before.                                           *)
Adopted(b, drained) ==
  LET good == {i \in drained : i.bot = b /\ Adoptable(i, runtime[b])}
  IN  IF good = {} THEN runtime[b]
      ELSE [runtime[b] EXCEPT !.intent = NewestFor(good, b),
                              !.last = NewestFor(good, b).id]

DrainIntents ==
  /\ Playing
  /\ intents # <<>>
  /\ LET n == IF Len(intents) < DrainLimit THEN Len(intents) ELSE DrainLimit
     IN  /\ TakeIntents(n)
         /\ \E expired \in SUBSET (1..n) :
              runtime' = [b \in Bots |->
                Adopted(b, {intents[k] : k \in (1..n) \ expired})]
  /\ UNCHANGED <<started, epochVars, worldVars, generations, frameId,
                 reconnect, tallyVars>>

(* The population job of the tick looks after the worker's thread. *)
Recover ==
  /\ Playing
  /\ RecoverIfStopped
  /\ UNCHANGED gameVars

-----------------------------------------------------------------------------
(* Game boundaries.                                                        *)

(* prepare_for_game_transition retires the roster; what follows awaits. *)
BeginTransition ==
  /\ Playing
  /\ games < MaxGames
  /\ reconnect' = {b \in Bots : runtime[b] # NoBot}
  /\ runtime' = [b \in Bots |-> NoBot]
  /\ UNCHANGED <<supervisorVars, started, epochVars, worldVars, generations,
                 frameId, tallyVars>>

InTransition == Idle /\ reconnect # NoBot

(* _reconnect_roster: new players, with the next generations. *)
ReconnectRoster ==
  /\ runtime' = [b \in Bots |-> IF b \in reconnect THEN Controller(b) ELSE NoBot]
  /\ generations' = [b \in Bots |-> IF b \in reconnect THEN generations[b] + 1
                                    ELSE generations[b]]
  /\ reconnect' = NoBot
  /\ games' = games + 1
  /\ UNCHANGED <<started, frameId, faults>>

(* _record_game_boundary recycles the planner every clean_slate_games      *)
(* games, 0 being never: any boundary may be the one.                      *)
RecordGameBoundary == RequestRestart \/ UNCHANGED supervisorVars

(* _refresh_epochs finds another world object: the worker gets the map     *)
(* file, whatever that world has become since it was loaded.  A recycle    *)
(* of the planner on top of a new map changes nothing more.                *)
RebindToWorld(cells, commits) ==
  /\ mapEpoch < MaxMaps
  /\ mapEpoch' = mapEpoch + 1
  /\ modeEpoch' = modeEpoch + 1
  /\ terrain' = cells
  /\ topology' = commits
  /\ PublishMap(mapEpoch + 1, commits)
  /\ UNCHANGED unpublished

ChangeMap ==
  /\ InTransition
  /\ RebindToWorld(NoChanges, 0)
  /\ ReconnectRoster

(* The rollover raises after the director was bound to the new world; the  *)
(* old one comes back as one more world object.                            *)
RollBackLate ==
  /\ InTransition
  /\ RebindToWorld(terrain, topology)
  /\ ReconnectRoster

(* The mode changes on the same world. *)
ChangeMode ==
  /\ InTransition
  /\ modeEpoch' = modeEpoch + 1
  /\ RecordGameBoundary
  /\ ReconnectRoster
  /\ UNCHANGED <<mapEpoch, worldVars>>

(* The rollover fails before the swap: world and mode are the old ones.    *)
RollBack ==
  /\ InTransition
  /\ RecordGameBoundary
  /\ ReconnectRoster
  /\ UNCHANGED <<epochVars, worldVars>>

(* reset_after_round_restart; a recycle discards the timeline as well. *)
RestartRound ==
  /\ InTransition
  /\ modeEpoch' = modeEpoch + 1
  /\ RequestRestart \/ DiscardTimeline
  /\ ReconnectRoster
  /\ UNCHANGED <<mapEpoch, worldVars>>

EndTransition == ChangeMap \/ ChangeMode \/ RollBack \/ RestartRound

CloseDirector ==
  /\ Idle
  /\ Close
  /\ started' = FALSE
  /\ runtime' = [b \in Bots |-> NoBot]
  /\ UNCHANGED <<epochVars, worldVars, generations, frameId, reconnect,
                 tallyVars>>

Fault ==
  /\ faults < MaxFaults
  /\ RejectSnapshot \/ BatchFails \/ ThreadDies
  /\ faults' = faults + 1
  /\ UNCHANGED <<started, epochVars, worldVars, rosterVars, frameId, games>>

Work == WorkerStep /\ UNCHANGED gameVars

Next ==
  \/ Start
  \/ \E b \in Bots : AddBot(b)
  \/ \E b \in Bots : RemoveBot(b)
  \/ \E cells \in SUBSET Cells : Cardinality(cells) \in CommitSizes /\ Commit(cells)
  \/ \E c \in Cells : OnWorldMutation(c)
  \/ \E b \in Bots : PublishPerception(b)
  \/ DrainIntents
  \/ Recover
  \/ BeginTransition
  \/ ChangeMap
  \/ ChangeMode
  \/ RollBack
  \/ RestartRound
  \/ CloseDirector
  \/ Fault
  \/ Work

Spec == Init /\ [][Next]_vars

(* The same with a rollover that fails late, which NoChangeIsLost does not *)
(* survive.                                                                *)
SpecWithLateRollback == Init /\ [][Next \/ RollBackLate]_vars

(* The worker thread runs, a commit in progress notifies its listeners,    *)
(* the tick looks after the thread once a second, and a rollover ends.     *)
FairSpec ==
  /\ Spec
  /\ WF_vars(Start)
  /\ WF_vars(Work)
  /\ WF_vars(\E c \in Cells : OnWorldMutation(c))
  /\ WF_vars(Recover)
  /\ WF_vars(EndTransition)

-----------------------------------------------------------------------------
FrameShape ==
  [bot : Bots, gen : Nat, id : Nat, map : Nat, mode : Nat, top : Nat]

(* Type invariant; the intents never outgrow their queue. *)
TypeOK ==
  /\ latest \in Nat /\ serial \in Nat /\ applied \in Nat \cup {-1}
  /\ epoch \in Nat \cup {-1} /\ version \in Nat \cup {-1}
  /\ pending \in [Cells -> Nat] /\ overlay \in [Cells -> Nat]
  /\ frames \subseteq FrameShape /\ intents \in Seq(FrameShape)
  /\ Len(intents) <= IntentLimit
  /\ ready \in BOOLEAN /\ awaiting \in Nat \cup {NoFrame}
  /\ thread \in {"none", "alive", "dead"} /\ stopping \in BOOLEAN
  /\ phase \in {"idle", "taken", "loaded"}
  /\ world \in [epoch : Nat, version : Nat, cells : [Cells -> Nat],
                stamps : [Cells -> Nat]]
  /\ routes \in [Bots -> [gen : Nat, version : Nat, stale : BOOLEAN]
                         \cup {NoRoute}]
  /\ batch \in [serial : Nat, snapshot : BOOLEAN, epoch : Nat \cup {-1},
                version : Nat \cup {-1}, changes : [Cells -> Nat],
                frames : SUBSET FrameShape]
  /\ started \in BOOLEAN /\ mapEpoch \in Nat /\ modeEpoch \in Nat
  /\ terrain \in [Cells -> Nat] /\ topology \in Nat /\ unpublished \subseteq Cells
  /\ runtime \in [Bots -> [gen : Nat, intent : FrameShape \cup {NoIntent},
                           last : Nat \cup {-1}, since : Nat] \cup {NoBot}]
  /\ generations \in [Bots -> Nat] /\ frameId \in Nat
  /\ games \in Nat /\ faults \in Nat
  /\ reconnect \in (SUBSET Bots) \cup {NoBot}

(* The terrain the worker will have when it has dealt with its batch. *)
WorkerView ==
  IF phase # "taken" THEN world.cells
  ELSE IF batch.snapshot THEN batch.changes
  ELSE Over(world.cells, batch.changes)

WorkerIsCurrent ==
  IF phase = "taken" /\ batch.snapshot
  THEN batch.serial = serial
  ELSE applied = serial /\ world.epoch = epoch

(* No terrain change falls between the queues, the batch in flight and the *)
(* worker's private world, whatever was published, restarted or lost while *)
(* the batch was out: a worker that believes its snapshot to be current    *)
(* will show every committed cell once it has taken what is pending.  And  *)
(* one that crashed, was recycled or has rejected a map can be given the   *)
(* world as it is: the table it is rebuilt from is the canonical terrain,  *)
(* but for the cells of a commit that is still being published             *)
(* (thread_supervisor.py:139, :322).                                       *)
NoChangeIsLost ==
  started =>
    \A c \in Cells \ unpublished :
      /\ overlay[c] = terrain[c]
      /\ thread = "alive" /\ WorkerIsCurrent => Over(WorkerView, pending)[c] = terrain[c]

(* A bot follows a decision made from a frame about itself, submitted      *)
(* since it joined, on the present map and in the present game, although   *)
(* ids are reused and the worker may deliver the intents of a discarded    *)
(* timeline after the discard (director.py:2209, thread_supervisor.py:419).*)
BotsFollowOwnFrames ==
  \A b \in Bots : runtime[b] # NoBot =>
    LET i == runtime[b].intent
    IN  i # NoIntent => /\ i.id > runtime[b].since
                        /\ i.map = mapEpoch
                        /\ i.mode = modeEpoch
                        /\ i.top <= topology

(* The decisions about one bot reach it in the order of its frames through *)
(* queue, batch and intents, across failures of the worker and overflow of *)
(* the intents: the director's test of the frame id never drops one.       *)
DecisionsInOrder ==
  /\ \A i, j \in DOMAIN intents :
       i < j /\ SameBot(intents[i], intents[j]) => intents[i].id < intents[j].id
  /\ \A i \in DOMAIN intents : \A f \in batch.frames \cup frames :
       SameBot(intents[i], f) => intents[i].id < f.id
  /\ \A f \in batch.frames : \A g \in frames : SameBot(f, g) => f.id < g.id
  /\ \A i \in DOMAIN intents :
       LET r == runtime[intents[i].bot]
       IN  r # NoBot /\ intents[i].gen = r.gen => intents[i].id > r.last

(* A thread that fails or dies comes back, and once the faults, the        *)
(* commits and the map changes are over the worker is ready, on the map    *)
(* being played, with the terrain as it is - unless the last snapshot      *)
(* failed to load (recover_if_stopped, thread_supervisor.py:397).          *)
WorkerConverges ==
  <>[](\/ ~started
       \/ applied = serial /\ world = NoWorld
       \/ /\ thread = "alive" /\ ready
          /\ world.epoch = mapEpoch
          /\ world.cells = terrain)

(* A route the brain keeps was planned on, or compared with, the terrain   *)
(* it crosses: "Did committed terrain change along the stretch of route    *)
(* just ahead" (simple_navigation.py:413).  The code breaks this; see the  *)
(* README.                                                                 *)
KeptRoutesSawEveryEdit ==
  [][DeliverIntents => \A f \in batch.frames :
       Decidable(f) => ~routes'[f.bot].stale]_vars
=============================================================================
