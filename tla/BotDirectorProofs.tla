---------------------------- MODULE BotDirectorProofs ----------------------------
(***************************************************************************)
(* Proofs about BotDirector, for any number of bots, cells, maps, games    *)
(* and faults and any limits of the queues: the terrain invariant of the   *)
(* worker, with the serials and versions of its batches that carry it, and *)
(* the order of frames and intents, with the generations of the bots.      *)
(***************************************************************************)
EXTENDS BotDirector, FiniteSetTheorems, WellFoundedInduction, SequenceTheorems, TLAPS

-----------------------------------------------------------------------------
(* The inductive invariant.                                                *)

\* A snapshot the supervisor retains is that of the map being played.
SnapshotKept ==
  /\ latest # 0 => epoch # -1 /\ version # -1
  /\ started => latest = mapEpoch /\ epoch = mapEpoch /\ mapEpoch # 0
  /\ ~started /\ ~stopping => terrain = NoChanges /\ unpublished = {}

\* A cell that the running commit wrote does not look like one without entry.
CommitsAreMarked == \A c \in unpublished : terrain[c] # 0

\* What a batch was taken under: a serial that is still the present one comes
\* with the present map and no later version, and changes without a snapshot go
\* to the world of their serial.
BatchAgrees ==
  /\ applied <= serial /\ batch.serial <= serial
  /\ batch.snapshot => batch.epoch # -1 /\ batch.version # -1
  /\ phase # "idle" /\ batch.serial = serial =>
       batch.epoch = epoch /\ batch.version <= version
  /\ started /\ phase = "taken" /\ ~batch.snapshot =>
       batch.serial = applied /\ world.version <= batch.version
  /\ started /\ applied = serial => world.version <= version

\* Frames and intents that may still reach a bot.
Queued == frames \cup batch.frames
Answered == {intents[k] : k \in DOMAIN intents}

\* Every frame and intent has a number and a generation that were given out.
\* One of a bot's present generation is newer than the bot, and a frame newer
\* than the decision the bot follows.
FramesAreNumbered ==
  /\ IsFiniteSet(frames) /\ IsFiniteSet(batch.frames)
  /\ \A f \in Queued \cup Answered : f.id <= frameId /\ f.gen <= generations[f.bot]
  /\ ~started => \A b \in Bots : runtime[b] = NoBot
  /\ \A b \in Bots : runtime[b] # NoBot =>
       /\ runtime[b].gen <= generations[b]
       /\ runtime[b].since <= frameId /\ runtime[b].last <= frameId
       /\ \A f \in Queued \cup Answered :
            f.bot = b /\ f.gen = runtime[b].gen => f.id > runtime[b].since
       /\ \A f \in Queued :
            f.bot = b /\ f.gen = runtime[b].gen => f.id > runtime[b].last

TerrainInv == SnapshotKept /\ CommitsAreMarked /\ BatchAgrees /\ NoChangeIsLost
FramesInv == FramesAreNumbered /\ BotsFollowOwnFrames /\ DecisionsInOrder
IInv == TypeOK /\ TerrainInv /\ FramesInv

-----------------------------------------------------------------------------
(* What several actions have in common.                                    *)

\* The type of the supervisor's variables, and of the director's.
SupervisorTypeOK ==
  /\ latest \in Nat /\ serial \in Nat /\ applied \in Nat \cup {-1}
  /\ epoch \in Nat \cup {-1} /\ version \in Nat \cup {-1}
  /\ pending \in [Cells -> Nat] /\ overlay \in [Cells -> Nat]
  /\ frames \subseteq FrameShape /\ intents \in Seq(FrameShape)
  /\ Len(intents) <= IntentLimit
  /\ ready \in BOOLEAN /\ awaiting \in Nat \cup {NoFrame}
  /\ thread \in {"none", "alive", "dead"} /\ stopping \in BOOLEAN
  /\ phase \in {"idle", "taken", "loaded"}
  /\ world \in [epoch : Nat, version : Nat, cells : [Cells -> Nat],
                stamps : [Cells -> Nat]]
  /\ routes \in [Bots -> [gen : Nat, version : Nat, stale : BOOLEAN] \cup {NoRoute}]
  /\ batch \in [serial : Nat, snapshot : BOOLEAN, epoch : Nat \cup {-1},
                version : Nat \cup {-1}, changes : [Cells -> Nat],
                frames : SUBSET FrameShape]

DirectorTypeOK ==
  /\ started \in BOOLEAN /\ mapEpoch \in Nat /\ modeEpoch \in Nat
  /\ terrain \in [Cells -> Nat] /\ topology \in Nat /\ unpublished \subseteq Cells
  /\ runtime \in [Bots -> [gen : Nat, intent : FrameShape \cup {NoIntent},
                           last : Nat \cup {-1}, since : Nat] \cup {NoBot}]
  /\ generations \in [Bots -> Nat] /\ frameId \in Nat
  /\ games \in Nat /\ faults \in Nat
  /\ reconnect \in (SUBSET Bots) \cup {NoBot}

\* TypeOK is the conjunction of the two.
LEMMA TypeParts ==
  /\ TypeOK <=> SupervisorTypeOK /\ DirectorTypeOK
  /\ TypeOK' <=> SupervisorTypeOK' /\ DirectorTypeOK'
BY DEF TypeOK, SupervisorTypeOK, DirectorTypeOK

\* Changes of either are kept from the other's type.
LEMMA SupervisorTypeKept ==
  ASSUME IInv, UNCHANGED supervisorVars PROVE SupervisorTypeOK'
BY TypeParts, SMTT(30) DEF IInv, SupervisorTypeOK, supervisorVars, queueVars, threadVars, workerVars

LEMMA DirectorTypeKept == ASSUME IInv, UNCHANGED gameVars PROVE DirectorTypeOK'
BY TypeParts DEF IInv, DirectorTypeOK, gameVars

\* Nothing about terrain changes.
LEMMA TerrainKept ==
  ASSUME IInv,
         UNCHANGED <<latest, serial, epoch, version, pending, overlay, thread, stopping,
                     phase, applied, world, batch>>,
         UNCHANGED <<started, mapEpoch, terrain, unpublished>>
  PROVE  TerrainInv'
<1>1. WorkerView' = WorkerView
  BY DEF WorkerView, Over
<1>2. NoChangeIsLost'
  BY <1>1 DEF IInv, TerrainInv, NoChangeIsLost, WorkerIsCurrent, Over
<1>3. SnapshotKept' /\ CommitsAreMarked' /\ BatchAgrees'
  BY DEF IInv, TerrainInv, SnapshotKept, CommitsAreMarked, BatchAgrees
<1>4. QED
  BY <1>2, <1>3 DEF TerrainInv

\* A controller that joins is of a generation nobody has asked anything.
LEMMA ControllerShape ==
  ASSUME DirectorTypeOK, NEW b \in Bots
  PROVE  /\ Controller(b) \in [gen : Nat, intent : FrameShape \cup {NoIntent},
                               last : Nat \cup {-1}, since : Nat]
         /\ Controller(b).gen = generations[b] + 1 /\ Controller(b).intent = NoIntent
         /\ Controller(b).last = -1 /\ Controller(b).since = frameId
BY DEF DirectorTypeOK, Controller

\* What is queued or answered looks like a frame.
LEMMA KnownShape ==
  ASSUME SupervisorTypeOK
  PROVE  \A f \in Queued \cup Answered :
           f \in FrameShape /\ f.bot \in Bots /\ f.gen \in Nat /\ f.id \in Nat
<1>1. Queued \subseteq FrameShape
  BY DEF SupervisorTypeOK, Queued
<1>2. Answered \subseteq FrameShape
  BY DEF SupervisorTypeOK, Answered
<1>3. QED
  BY <1>1, <1>2 DEF FrameShape

\* Frames and intents may get lost, and bots leave or join with the next
\* generation; those that stay keep their map and their game.
LEMMA FramesKept ==
  ASSUME IInv, frames' \subseteq frames, batch'.frames \subseteq batch.frames,
         intents' \in {intents, << >>}, frameId' = frameId,
         \A b \in Bots :
           \/ runtime'[b] = NoBot /\ generations'[b] = generations[b]
           \/ /\ runtime'[b] = runtime[b] /\ generations'[b] = generations[b]
              /\ mapEpoch' = mapEpoch /\ modeEpoch' = modeEpoch /\ topology' >= topology
              /\ started => started'
           \/ started' /\ runtime'[b] = Controller(b) /\ generations'[b] = generations[b] + 1,
         topology' \in Nat
  PROVE  FramesInv'
<1>1. DirectorTypeOK /\ SupervisorTypeOK
  BY TypeParts DEF IInv
<1>2. FramesAreNumbered /\ BotsFollowOwnFrames /\ DecisionsInOrder
  BY DEF IInv, FramesInv
<1>3. Queued' \subseteq Queued /\ Answered' \subseteq Answered
  BY DEF Queued, Answered
<1>4. \A f \in Queued \cup Answered : f \in FrameShape /\ f.bot \in Bots /\ f.gen \in Nat
                                      /\ f.id \in Nat
  BY <1>1, KnownShape
<1>5. FramesAreNumbered'
  <2>1. IsFiniteSet(frames') /\ IsFiniteSet(batch'.frames)
    BY <1>2, FS_Subset DEF FramesAreNumbered
  <2>2. \A f \in Queued' \cup Answered' : f.id <= frameId' /\ f.gen <= generations'[f.bot]
    BY <1>1, <1>2, <1>3, <1>4 DEF FramesAreNumbered, DirectorTypeOK
  <2>3. ASSUME NEW b \in Bots, runtime'[b] # NoBot
        PROVE  /\ runtime'[b].gen <= generations'[b]
               /\ runtime'[b].since <= frameId' /\ runtime'[b].last <= frameId'
               /\ \A f \in Queued' \cup Answered' :
                    f.bot = b /\ f.gen = runtime'[b].gen => f.id > runtime'[b].since
               /\ \A f \in Queued' :
                    f.bot = b /\ f.gen = runtime'[b].gen => f.id > runtime'[b].last
    <3>1. CASE runtime'[b] = runtime[b] /\ generations'[b] = generations[b]
      BY <1>2, <1>3, <2>3, <3>1 DEF FramesAreNumbered
    <3>2. CASE runtime'[b] = Controller(b) /\ generations'[b] = generations[b] + 1
      <4>1. /\ runtime'[b].gen = generations[b] + 1
            /\ runtime'[b].last = -1 /\ runtime'[b].since = frameId
            /\ generations[b] \in Nat /\ frameId \in Nat
        BY <1>1, <3>2, ControllerShape DEF DirectorTypeOK
      <4>2. \A f \in Queued \cup Answered : f.bot = b => f.gen <= generations[b]
        BY <1>2 DEF FramesAreNumbered
      <4>3. \A f \in Queued' \cup Answered' : ~ (f.bot = b /\ f.gen = runtime'[b].gen)
        BY <1>3, <1>4, <4>1, <4>2
      <4>4. QED
        BY <3>2, <4>1, <4>3
    <3>3. QED
      BY <2>3, <3>1, <3>2
  <2>4. ~started' => \A b \in Bots : runtime'[b] = NoBot
    BY <1>2 DEF FramesAreNumbered
  <2>5. QED
    BY <2>1, <2>2, <2>3, <2>4 DEF FramesAreNumbered
<1>6. BotsFollowOwnFrames'
  <2> SUFFICES ASSUME NEW b \in Bots, runtime'[b] # NoBot, runtime'[b].intent # NoIntent
               PROVE  /\ runtime'[b].intent.id > runtime'[b].since
                      /\ runtime'[b].intent.map = mapEpoch'
                      /\ runtime'[b].intent.mode = modeEpoch'
                      /\ runtime'[b].intent.top <= topology'
    BY DEF BotsFollowOwnFrames
  <2>1. runtime'[b] # Controller(b)
    BY <1>1, ControllerShape
  <2>2. /\ runtime'[b] = runtime[b]
        /\ mapEpoch' = mapEpoch /\ modeEpoch' = modeEpoch /\ topology' >= topology
    BY <2>1
  <2>3. runtime[b].intent \in FrameShape
    BY <1>1, <2>2 DEF DirectorTypeOK
  <2>4. runtime[b].intent.top \in Nat /\ topology \in Nat
    BY <1>1, <2>3 DEF FrameShape, DirectorTypeOK
  <2>5. /\ runtime[b].intent.id > runtime[b].since
        /\ runtime[b].intent.map = mapEpoch /\ runtime[b].intent.mode = modeEpoch
        /\ runtime[b].intent.top <= topology
    BY <1>2, <2>2 DEF BotsFollowOwnFrames
  <2>6. QED
    BY <2>2, <2>4, <2>5
<1>7. DecisionsInOrder'
  <2>1. ASSUME NEW i \in DOMAIN intents', runtime'[intents'[i].bot] # NoBot,
               intents'[i].gen = runtime'[intents'[i].bot].gen
        PROVE  intents'[i].id > runtime'[intents'[i].bot].last
    <3>1. intents' = intents /\ intents[i] \in Answered
      BY DEF Answered
    <3>2. PICK f \in Answered : f = intents[i]
      BY <3>1
    <3>3. f.bot \in Bots /\ f.gen \in Nat /\ f.id \in Nat /\ f.gen <= generations[f.bot]
      BY <1>2, <1>4 DEF FramesAreNumbered
    <3>4. runtime'[f.bot] # Controller(f.bot)
      BY <1>1, <2>1, <3>1, <3>2, <3>3, ControllerShape DEF DirectorTypeOK
    <3>5. runtime'[f.bot] = runtime[f.bot]
      BY <2>1, <3>1, <3>2, <3>3, <3>4
    <3>6. QED
      BY <1>2, <2>1, <3>1, <3>2, <3>5 DEF DecisionsInOrder
  <2>2. QED
    BY <1>2, <2>1 DEF DecisionsInOrder, SameBot
<1>8. QED
  BY <1>5, <1>6, <1>7 DEF FramesInv

-----------------------------------------------------------------------------
(* The newest of some frames, and the rest of a queue.                     *)

\* A set of finite sets has a member of which no other one is a part.
LEMMA MinimalSubset ==
  ASSUME NEW S, NEW T \in SUBSET FiniteSubsetsOf(S), T # {}
  PROVE  \E x \in T : \A y \in T : ~ (y \subseteq x /\ y # x)
<1>1. \E x \in T : \A y \in T : ~ (<<y, x>> \in StrictSubsetOrdering(S))
  BY FS_StrictSubsetOrderingWellFounded, WFMin
<1>2. \A y, x \in T : y \subseteq x /\ y # x => <<y, x>> \in StrictSubsetOrdering(S)
  BY DEF StrictSubsetOrdering, FiniteSubsetsOf
<1>3. QED
  BY <1>1, <1>2

\* Numbers that stay below a bound have a greatest one.
LEMMA GreatestNumber ==
  ASSUME NEW T \in SUBSET Nat, T # {}, NEW bound \in Nat, \A k \in T : k <= bound
  PROVE  \E m \in T : \A k \in T : k <= m
<1> DEFINE Above == {n..bound : n \in T}
<1>1. \A n \in T : n..bound \in FiniteSubsetsOf(Nat)
  BY FS_Interval DEF FiniteSubsetsOf
<1>2. Above \in SUBSET FiniteSubsetsOf(Nat) /\ Above # {}
  BY <1>1
<1>3. \E x \in Above : \A y \in Above : ~ (y \subseteq x /\ y # x)
  <2> HIDE DEF Above
  <2> QED
    BY <1>2, MinimalSubset
<1>4. PICK m \in T : \A y \in Above : ~ (y \subseteq m..bound /\ y # m..bound)
  BY <1>3
<1>5. ASSUME NEW k \in T, k > m PROVE FALSE
  <2>1. k..bound \in Above
    OBVIOUS
  <2>2. m \in Nat /\ k \in Nat /\ k <= bound
    OBVIOUS
  <2>3. k..bound \subseteq m..bound /\ m \in m..bound /\ m \notin k..bound
    BY <1>5, <2>2
  <2>4. QED
    BY <1>4, <2>1, <2>3
<1>6. \A k \in T : k <= m
  BY <1>5
<1>7. QED
  BY <1>6

\* The newest frame about a bot is one of them.
LEMMA NewestForIsNewest ==
  ASSUME NEW fs, NEW b, NEW bound \in Nat, \E f \in fs : f.bot = b,
         \A f \in fs : f.id \in Nat /\ f.id <= bound
  PROVE  /\ NewestFor(fs, b) \in fs /\ NewestFor(fs, b).bot = b
         /\ \A f \in fs : f.bot = b => f.id <= NewestFor(fs, b).id
<1> DEFINE ids == {f.id : f \in {g \in fs : g.bot = b}}
<1>1. ids \in SUBSET Nat /\ ids # {} /\ \A k \in ids : k <= bound
  OBVIOUS
<1>2. PICK m \in ids : \A k \in ids : k <= m
  <2> HIDE DEF ids
  <2> QED
    BY <1>1, GreatestNumber
<1>3. \E f \in fs : f.bot = b /\ \A g \in fs : g.bot = b => g.id <= f.id
  BY <1>2
<1>4. QED
  BY <1>3 DEF NewestFor

\* What is left of a queue when its first n members are gone.
LEMMA RestOfQueue ==
  ASSUME NEW S, NEW s \in Seq(S), NEW n \in 0..Len(s)
  PROVE  LET rest == SubSeq(s, n + 1, Len(s))
         IN  /\ rest \in Seq(S) /\ Len(rest) = Len(s) - n
             /\ \A k \in 1..(Len(s) - n) : rest[k] = s[k + n] /\ k + n \in 1..Len(s)
<1>1. \A i \in (n + 1)..Len(s) : s[i] \in S
  OBVIOUS
<1>2. n + 1 \in Int /\ Len(s) \in Int
  OBVIOUS
<1>3. /\ SubSeq(s, n + 1, Len(s)) \in Seq(S)
      /\ Len(SubSeq(s, n + 1, Len(s))) = IF n + 1 <= Len(s) THEN Len(s) - (n + 1) + 1 ELSE 0
      /\ \A i \in 1..(Len(s) - (n + 1) + 1) :
           SubSeq(s, n + 1, Len(s))[i] = s[n + 1 + i - 1]
  BY <1>1, <1>2, SubSeqProperties
<1>4. QED
  BY <1>3

-----------------------------------------------------------------------------
(* The roster and the world.                                               *)

\* The empty values have their types.
LEMMA BlankShapes ==
  /\ NoChanges \in [Cells -> Nat]
  /\ NoRoutes \in [Bots -> [gen : Nat, version : Nat, stale : BOOLEAN] \cup {NoRoute}]
  /\ NoWorld \in [epoch : Nat, version : Nat, cells : [Cells -> Nat], stamps : [Cells -> Nat]]
  /\ NoBatch \in [serial : Nat, snapshot : BOOLEAN, epoch : Nat \cup {-1},
                  version : Nat \cup {-1}, changes : [Cells -> Nat],
                  frames : SUBSET FrameShape]
  /\ NoBatch.serial = 0 /\ ~NoBatch.snapshot /\ NoBatch.frames = {}
  /\ NoWorld.version = 0 /\ NoWorld.epoch = 0
BY DEF NoChanges, NoRoutes, NoWorld, NoBatch

\* A server begins with an empty roster and no thread.
LEMMA InitInv == Init => IInv
<1> SUFFICES ASSUME Init PROVE IInv
  OBVIOUS
<1>1. SupervisorTypeOK
  <2>1. intents \in Seq(FrameShape) /\ Len(intents) <= IntentLimit
    BY IntentLimitAssumption DEF Init, SupervisorInit
  <2>2. /\ world \in [epoch : Nat, version : Nat, cells : [Cells -> Nat], stamps : [Cells -> Nat]]
        /\ routes \in [Bots -> [gen : Nat, version : Nat, stale : BOOLEAN] \cup {NoRoute}]
        /\ batch \in [serial : Nat, snapshot : BOOLEAN, epoch : Nat \cup {-1},
                      version : Nat \cup {-1}, changes : [Cells -> Nat],
                      frames : SUBSET FrameShape]
    BY BlankShapes DEF Init, SupervisorInit
  <2>3. /\ pending \in [Cells -> Nat] /\ overlay \in [Cells -> Nat]
        /\ latest \in Nat /\ serial \in Nat /\ applied \in Nat \cup {-1}
        /\ epoch \in Nat \cup {-1} /\ version \in Nat \cup {-1}
        /\ frames \subseteq FrameShape
        /\ ready \in BOOLEAN /\ awaiting \in Nat \cup {NoFrame}
        /\ thread \in {"none", "alive", "dead"} /\ stopping \in BOOLEAN
        /\ phase \in {"idle", "taken", "loaded"}
    BY BlankShapes DEF Init, SupervisorInit
  <2>4. QED
    BY <2>1, <2>2, <2>3 DEF SupervisorTypeOK
<1>2. DirectorTypeOK
  BY BlankShapes DEF Init, DirectorTypeOK
<1>3. TerrainInv
  BY BlankShapes DEF Init, SupervisorInit, TerrainInv, SnapshotKept, CommitsAreMarked,
     BatchAgrees, NoChangeIsLost
<1>4. Queued = {} /\ Answered = {} /\ IsFiniteSet({})
  BY BlankShapes, FS_EmptySet DEF Init, SupervisorInit, Queued, Answered
<1>5. FramesInv
  BY <1>4, BlankShapes
     DEF Init, SupervisorInit, FramesInv, FramesAreNumbered, BotsFollowOwnFrames,
         DecisionsInOrder
<1>6. QED
  BY <1>1, <1>2, <1>3, <1>5, TypeParts DEF IInv

\* A thread starts from a snapshot and has applied nothing.
LEMMA StartThreadResult ==
  ASSUME SupervisorTypeOK, NEW map \in Nat, NEW v \in Nat, NEW changed \in [Cells -> Nat],
         StartThread(map, v, changed)
  PROVE  /\ SupervisorTypeOK'
         /\ latest' = map /\ epoch' = map /\ version' = v /\ overlay' = changed
         /\ applied' = -1 /\ serial' \in Nat /\ phase' = "idle"
         /\ batch' = NoBatch /\ frames' = {} /\ intents' = << >>
         /\ thread' = "alive" /\ stopping' = stopping
<1>1. /\ latest' = map /\ serial' = serial + 1 /\ epoch' = map /\ version' = v
      /\ pending' = NoChanges /\ overlay' = changed /\ frames' = {} /\ intents' = << >>
      /\ ready' = FALSE /\ thread' = "alive" /\ phase' = "idle" /\ applied' = -1
      /\ world' = NoWorld /\ routes' = NoRoutes /\ batch' = NoBatch
      /\ awaiting' = awaiting /\ stopping' = stopping
  BY DEF StartThread, AdoptSnapshot
<1>2. /\ latest' \in Nat /\ serial' \in Nat /\ applied' \in Nat \cup {-1}
      /\ epoch' \in Nat \cup {-1} /\ version' \in Nat \cup {-1}
      /\ frames' \subseteq FrameShape
      /\ ready' \in BOOLEAN /\ awaiting' \in Nat \cup {NoFrame}
      /\ thread' \in {"none", "alive", "dead"} /\ stopping' \in BOOLEAN
      /\ phase' \in {"idle", "taken", "loaded"}
  <2>1. serial \in Nat /\ awaiting \in Nat \cup {NoFrame} /\ stopping \in BOOLEAN
    BY DEF SupervisorTypeOK
  <2>2. latest' \in Nat /\ serial' \in Nat
    BY <1>1, <2>1
  <2>3. applied' \in Nat \cup {-1} /\ epoch' \in Nat \cup {-1}
    BY <1>1
  <2>4. version' \in Nat \cup {-1}
    BY <1>1
  <2>5. frames' \subseteq FrameShape
    BY <1>1
  <2>6. awaiting' \in Nat \cup {NoFrame}
    BY <1>1, <2>1
  <2>7. ready' \in BOOLEAN
    BY <1>1
  <2>8. stopping' \in BOOLEAN
    BY <1>1, <2>1
  <2>9. thread' \in {"none", "alive", "dead"} /\ phase' \in {"idle", "taken", "loaded"}
    BY <1>1
  <2>10. QED
    BY <2>2, <2>3, <2>4, <2>5, <2>6, <2>7, <2>8, <2>9
<1>3. /\ pending' \in [Cells -> Nat] /\ overlay' \in [Cells -> Nat]
      /\ intents' \in Seq(FrameShape) /\ Len(intents') <= IntentLimit
  BY <1>1, BlankShapes, IntentLimitAssumption
<1>4. /\ world' \in [epoch : Nat, version : Nat, cells : [Cells -> Nat], stamps : [Cells -> Nat]]
      /\ routes' \in [Bots -> [gen : Nat, version : Nat, stale : BOOLEAN] \cup {NoRoute}]
      /\ batch' \in [serial : Nat, snapshot : BOOLEAN, epoch : Nat \cup {-1},
                     version : Nat \cup {-1}, changes : [Cells -> Nat],
                     frames : SUBSET FrameShape]
  BY <1>1, BlankShapes
<1>5. QED
  BY <1>1, <1>2, <1>3, <1>4 DEF SupervisorTypeOK

\* The first thread is given the map file of the first world.
LEMMA StartInv == ASSUME IInv, Start PROVE IInv'
<1>1. /\ ~started /\ ~stopping /\ started' = TRUE /\ mapEpoch' = 1 /\ modeEpoch' = 1
      /\ StartThread(1, 0, NoChanges)
      /\ UNCHANGED <<terrain, topology, unpublished, runtime, generations, reconnect,
                     frameId, games, faults>>
  BY DEF Start, worldVars, rosterVars, tallyVars
<1>2. SupervisorTypeOK /\ DirectorTypeOK
  BY TypeParts DEF IInv
<1>3. /\ SupervisorTypeOK'
      /\ latest' = 1 /\ epoch' = 1 /\ version' = 0 /\ overlay' = NoChanges
      /\ applied' = -1 /\ serial' \in Nat /\ phase' = "idle"
      /\ batch' = NoBatch /\ frames' = {} /\ intents' = << >>
  BY <1>1, <1>2, StartThreadResult, BlankShapes
<1>4. DirectorTypeOK'
  BY <1>1, <1>2 DEF DirectorTypeOK
<1>5. TerrainInv'
  BY <1>1, <1>3, BlankShapes
     DEF IInv, TerrainInv, SnapshotKept, CommitsAreMarked, BatchAgrees, NoChangeIsLost,
         WorkerIsCurrent
<1>6. FramesInv'
  <2>1. Queued' = {} /\ Answered' = {} /\ IsFiniteSet({})
    BY <1>3, BlankShapes, FS_EmptySet DEF Queued, Answered
  <2>2. \A b \in Bots : runtime[b] = NoBot
    BY <1>1 DEF IInv, FramesInv, FramesAreNumbered
  <2>3. FramesAreNumbered' /\ BotsFollowOwnFrames'
    BY <1>1, <1>3, <2>1, <2>2, BlankShapes DEF FramesAreNumbered, BotsFollowOwnFrames
  <2>4. DecisionsInOrder'
    BY <1>3, BlankShapes DEF DecisionsInOrder
  <2>5. QED
    BY <2>3, <2>4 DEF FramesInv
<1>7. QED
  BY <1>3, <1>4, <1>5, <1>6, TypeParts DEF IInv

\* The worker hears nothing of who comes.
LEMMA AddBotInv == ASSUME IInv, NEW b \in Bots, AddBot(b) PROVE IInv'
<1>1. /\ started /\ started' = started
      /\ runtime' = [runtime EXCEPT ![b] = Controller(b)]
      /\ generations' = [generations EXCEPT ![b] = @ + 1]
      /\ UNCHANGED <<supervisorVars, mapEpoch, modeEpoch, terrain, topology, unpublished,
                     frameId, reconnect, games, faults>>
  BY DEF AddBot, Playing, Idle, epochVars, worldVars, tallyVars
<1>2. DirectorTypeOK
  BY TypeParts DEF IInv
<1>3. SupervisorTypeOK'
  BY <1>1, SupervisorTypeKept
<1>4. DirectorTypeOK'
  BY <1>1, <1>2, ControllerShape DEF DirectorTypeOK
<1>5. TerrainInv'
  BY <1>1, TerrainKept DEF supervisorVars, queueVars, threadVars, workerVars
<1>6. FramesInv'
  <2>1. /\ frames' = frames /\ batch' = batch /\ intents' = intents /\ frameId' = frameId
        /\ topology' = topology /\ topology \in Nat
    BY <1>1, <1>2 DEF supervisorVars, queueVars, workerVars, DirectorTypeOK
  <2>2. \A d \in Bots :
           \/ runtime'[d] = runtime[d] /\ generations'[d] = generations[d]
           \/ runtime'[d] = Controller(d) /\ generations'[d] = generations[d] + 1
    BY <1>1, <1>2 DEF DirectorTypeOK
  <2>3. QED
    BY <1>1, <2>1, <2>2, FramesKept
<1>7. QED
  BY <1>3, <1>4, <1>5, <1>6, TypeParts DEF IInv

\* And nothing of who goes.
LEMMA RemoveBotInv == ASSUME IInv, NEW b \in Bots, RemoveBot(b) PROVE IInv'
<1>1. /\ started /\ started' = started
      /\ runtime' = [runtime EXCEPT ![b] = NoBot]
      /\ UNCHANGED <<supervisorVars, mapEpoch, modeEpoch, terrain, topology, unpublished,
                     generations, frameId, reconnect, games, faults>>
  BY DEF RemoveBot, Playing, Idle, epochVars, worldVars, tallyVars
<1>2. DirectorTypeOK
  BY TypeParts DEF IInv
<1>3. SupervisorTypeOK'
  BY <1>1, SupervisorTypeKept
<1>4. DirectorTypeOK'
  BY <1>1, <1>2 DEF DirectorTypeOK
<1>5. TerrainInv'
  BY <1>1, TerrainKept DEF supervisorVars, queueVars, threadVars, workerVars
<1>6. FramesInv'
  <2>1. /\ frames' = frames /\ batch' = batch /\ intents' = intents /\ frameId' = frameId
        /\ topology' = topology /\ topology \in Nat
    BY <1>1, <1>2 DEF supervisorVars, queueVars, workerVars, DirectorTypeOK
  <2>2. \A d \in Bots : runtime'[d] = runtime[d] \/ runtime'[d] = NoBot
    BY <1>1, <1>2 DEF DirectorTypeOK
  <2>3. QED
    BY <1>1, <2>1, <2>2, FramesKept
<1>7. QED
  BY <1>3, <1>4, <1>5, <1>6, TypeParts DEF IInv

\* The cells of a commit owe the worker nothing until their listener is called.
LEMMA CommitInv == ASSUME IInv, NEW cells \in SUBSET Cells, Commit(cells) PROVE IInv'
<1>1. /\ started /\ started' = started /\ unpublished = {}
      /\ topology' = topology + 1 /\ unpublished' = cells
      /\ terrain' = [c \in Cells |-> IF c \in cells THEN topology + 1 ELSE terrain[c]]
      /\ UNCHANGED <<supervisorVars, mapEpoch, modeEpoch, runtime, generations, reconnect,
                     frameId, games, faults>>
  BY DEF Commit, Idle, epochVars, rosterVars, tallyVars
<1>2. DirectorTypeOK
  BY TypeParts DEF IInv
<1>3. SupervisorTypeOK'
  BY <1>1, SupervisorTypeKept
<1>4. DirectorTypeOK'
  BY <1>1, <1>2 DEF DirectorTypeOK
<1>5. TerrainInv'
  <2>1. /\ latest' = latest /\ serial' = serial /\ epoch' = epoch /\ version' = version
        /\ pending' = pending /\ overlay' = overlay /\ thread' = thread
        /\ stopping' = stopping /\ phase' = phase /\ applied' = applied
        /\ world' = world /\ batch' = batch
    BY <1>1 DEF supervisorVars, queueVars, threadVars, workerVars
  <2>2. SnapshotKept' /\ BatchAgrees'
    BY <1>1, <2>1 DEF IInv, TerrainInv, SnapshotKept, BatchAgrees
  <2>3. topology + 1 # 0
    BY <1>2 DEF DirectorTypeOK
  <2>4. CommitsAreMarked'
    BY <1>1, <2>3 DEF CommitsAreMarked
  <2>5. \A c \in Cells \ cells : terrain'[c] = terrain[c]
    BY <1>1
  <2>6. WorkerView' = WorkerView /\ WorkerIsCurrent' = WorkerIsCurrent
    BY <2>1 DEF WorkerView, WorkerIsCurrent, Over
  <2>7. NoChangeIsLost'
    BY <1>1, <2>1, <2>5, <2>6 DEF IInv, TerrainInv, NoChangeIsLost, Over
  <2>8. QED
    BY <2>2, <2>4, <2>7 DEF TerrainInv
<1>6. FramesInv'
  <2>1. /\ frames' = frames /\ batch' = batch /\ intents' = intents /\ frameId' = frameId
        /\ topology' \in Nat /\ topology' >= topology
    BY <1>1, <1>2 DEF supervisorVars, queueVars, workerVars, DirectorTypeOK
  <2>2. QED
    BY <1>1, <2>1, FramesKept
<1>7. QED
  BY <1>3, <1>4, <1>5, <1>6, TypeParts DEF IInv

\* A listener's call puts its cell into both tables, or none is owed.
LEMMA OnWorldMutationInv == ASSUME IInv, NEW c \in Cells, OnWorldMutation(c) PROVE IInv'
<1>1. /\ c \in unpublished /\ unpublished' = unpublished \ {c}
      /\ PublishWorldChange(c, terrain[c], mapEpoch, topology)
      /\ UNCHANGED <<started, mapEpoch, modeEpoch, terrain, topology, runtime, generations,
                     reconnect, frameId, games, faults>>
  BY DEF OnWorldMutation, epochVars, rosterVars, tallyVars
<1>2. SupervisorTypeOK /\ DirectorTypeOK
  BY TypeParts DEF IInv
<1>3. /\ UNCHANGED <<latest, serial, epoch, frames, intents, ready, awaiting, thread, stopping,
                     phase, applied, world, routes, batch>>
      /\ \/ mapEpoch # epoch /\ UNCHANGED <<version, pending, overlay>>
         \/ /\ mapEpoch = epoch
            /\ version' = IF topology > version THEN topology ELSE version
            /\ pending' = [pending EXCEPT ![c] = terrain[c]]
            /\ overlay' = [overlay EXCEPT ![c] = terrain[c]]
  BY <1>1 DEF PublishWorldChange, supervisorVars, queueVars, threadVars, workerVars
<1>4. /\ version' \in Nat \cup {-1} /\ version' >= version
      /\ (version # -1 => version' # -1)
  BY <1>2, <1>3, SMTT(30) DEF SupervisorTypeOK, DirectorTypeOK
<1>5. pending' \in [Cells -> Nat] /\ overlay' \in [Cells -> Nat]
  BY <1>2, <1>3 DEF SupervisorTypeOK, DirectorTypeOK
<1>6. SupervisorTypeOK'
  BY <1>2, <1>3, <1>4, <1>5, SMTT(30) DEF SupervisorTypeOK
<1>7. DirectorTypeOK'
  BY <1>1, <1>2 DEF DirectorTypeOK
<1>8. TerrainInv'
  <2>1. SnapshotKept /\ CommitsAreMarked /\ BatchAgrees /\ NoChangeIsLost
    BY DEF IInv, TerrainInv
  <2>2. SnapshotKept'
    BY <1>1, <1>3, <1>4, <2>1 DEF SnapshotKept
  <2>3. CommitsAreMarked'
    BY <1>1, <2>1 DEF CommitsAreMarked
  <2>4. BatchAgrees'
    <3>1. world.version \in Nat /\ batch.version \in Nat \cup {-1}
      BY <1>2 DEF SupervisorTypeOK
    <3>2. version \in Nat \cup {-1}
      BY <1>2 DEF SupervisorTypeOK
    <3>3. QED
      BY <1>1, <1>3, <1>4, <2>1, <3>1, <3>2 DEF BatchAgrees
  <2>5. WorkerView' = WorkerView /\ WorkerIsCurrent' = WorkerIsCurrent
    BY <1>3 DEF WorkerView, WorkerIsCurrent, Over
  <2>6. ASSUME started, NEW d \in Cells \ unpublished'
        PROVE  /\ overlay'[d] = terrain[d]
               /\ thread = "alive" /\ WorkerIsCurrent =>
                    Over(WorkerView, pending')[d] = terrain[d]
    <3>1. /\ pending' = [pending EXCEPT ![c] = terrain[c]]
          /\ overlay' = [overlay EXCEPT ![c] = terrain[c]]
      BY <1>3, <2>1, <2>6 DEF SnapshotKept
    <3>2. pending \in [Cells -> Nat] /\ overlay \in [Cells -> Nat]
      BY <1>2 DEF SupervisorTypeOK
    <3>3. CASE d = c
      BY <1>1, <2>1, <3>1, <3>2, <3>3 DEF CommitsAreMarked, Over
    <3>4. CASE d # c
      BY <1>1, <2>1, <2>6, <3>1, <3>2, <3>4 DEF NoChangeIsLost, Over
    <3>5. QED
      BY <3>3, <3>4
  <2>7. NoChangeIsLost'
    BY <1>1, <1>3, <2>5, <2>6 DEF NoChangeIsLost, Over
  <2>8. QED
    BY <2>2, <2>3, <2>4, <2>7 DEF TerrainInv
<1>9. FramesInv'
  BY <1>1, <1>2, <1>3, FramesKept DEF DirectorTypeOK
<1>10. QED
  BY <1>6, <1>7, <1>8, <1>9, TypeParts DEF IInv

\* A new frame is newer than everything that was asked or answered.
LEMMA PublishPerceptionInv ==
  ASSUME IInv, NEW b \in Bots, PublishPerception(b) PROVE IInv'
<1> DEFINE new == [bot |-> b, gen |-> runtime[b].gen, id |-> frameId + 1,
                   map |-> mapEpoch, mode |-> modeEpoch, top |-> topology]
<1>1. /\ started /\ runtime[b] # NoBot /\ frameId' = frameId + 1
      /\ SubmitFrame(new)
      /\ UNCHANGED <<started, mapEpoch, modeEpoch, terrain, topology, unpublished, runtime,
                     generations, reconnect, games, faults>>
  BY DEF PublishPerception, Playing, Idle, epochVars, worldVars, rosterVars, tallyVars
<1>2. SupervisorTypeOK /\ DirectorTypeOK
  BY TypeParts DEF IInv
<1>3. /\ new \in FrameShape /\ new.bot = b /\ new.gen = runtime[b].gen
      /\ new.id = frameId + 1 /\ frameId \in Nat
  BY <1>1, <1>2 DEF DirectorTypeOK, FrameShape
<1> HIDE DEF new
<1>4. /\ UNCHANGED <<latest, serial, epoch, version, pending, overlay, intents, ready,
                     thread, stopping, phase, applied, world, routes, batch>>
      /\ frames' \subseteq frames \cup {new}
      /\ awaiting' \in {awaiting, NoFrame, new.id}
  BY <1>1 DEF SubmitFrame, supervisorVars, queueVars, threadVars, workerVars
<1>5. SupervisorTypeOK'
  <2>1. frames' \subseteq FrameShape /\ awaiting' \in Nat \cup {NoFrame}
    BY <1>2, <1>3, <1>4 DEF SupervisorTypeOK
  <2>2. QED
    BY <1>2, <1>4, <2>1 DEF SupervisorTypeOK
<1>6. DirectorTypeOK'
  BY <1>1, <1>2 DEF DirectorTypeOK
<1>7. TerrainInv'
  BY <1>1, <1>4, TerrainKept
<1>8. FramesInv'
  <2>1. FramesAreNumbered /\ BotsFollowOwnFrames /\ DecisionsInOrder
    BY DEF IInv, FramesInv
  <2>2. \A f \in Queued \cup Answered : f.id \in Nat /\ f.gen \in Nat /\ f.bot \in Bots
    BY <1>2, KnownShape
  <2>3. Queued' \subseteq Queued \cup {new} /\ Answered' = Answered
    BY <1>4 DEF Queued, Answered
  <2>4. \A f \in Queued \cup Answered : f.id <= frameId /\ f.gen <= generations[f.bot]
    BY <2>1 DEF FramesAreNumbered
  <2>5. FramesAreNumbered'
    <3>1. IsFiniteSet(frames') /\ IsFiniteSet(batch'.frames)
      BY <1>4, <2>1, FS_AddElement, FS_Subset DEF FramesAreNumbered
    <3>2. new.gen <= generations[new.bot]
      BY <1>1, <1>3, <2>1 DEF FramesAreNumbered
    <3>3. \A f \in Queued' \cup Answered' : f.id <= frameId' /\ f.gen <= generations'[f.bot]
      BY <1>1, <1>3, <2>2, <2>3, <2>4, <3>2
    <3>4. ASSUME NEW d \in Bots, runtime'[d] # NoBot
          PROVE  /\ runtime'[d].gen <= generations'[d]
                 /\ runtime'[d].since <= frameId' /\ runtime'[d].last <= frameId'
                 /\ \A f \in Queued' \cup Answered' :
                      f.bot = d /\ f.gen = runtime'[d].gen => f.id > runtime'[d].since
                 /\ \A f \in Queued' :
                      f.bot = d /\ f.gen = runtime'[d].gen => f.id > runtime'[d].last
      <4>1. /\ runtime[d].gen <= generations[d]
            /\ runtime[d].since <= frameId /\ runtime[d].last <= frameId
            /\ \A f \in Queued \cup Answered :
                 f.bot = d /\ f.gen = runtime[d].gen => f.id > runtime[d].since
            /\ \A f \in Queued :
                 f.bot = d /\ f.gen = runtime[d].gen => f.id > runtime[d].last
        BY <1>1, <2>1, <3>4 DEF FramesAreNumbered
      <4>2. runtime[d].since \in Nat /\ runtime[d].last \in Nat \cup {-1}
        BY <1>1, <1>2, <3>4 DEF DirectorTypeOK
      <4>3. /\ runtime[d].since <= frameId + 1 /\ runtime[d].last <= frameId + 1
            /\ new.id > runtime[d].since /\ new.id > runtime[d].last
        BY <1>3, <4>1, <4>2
      <4>4. QED
        BY <1>1, <2>3, <4>1, <4>3
    <3>5. QED
      BY <1>1, <2>1, <3>1, <3>3, <3>4 DEF FramesAreNumbered
  <2>6. BotsFollowOwnFrames'
    BY <1>1, <2>1 DEF BotsFollowOwnFrames
  <2>7. DecisionsInOrder'
    <3>1. \A i \in DOMAIN intents : intents[i].id < new.id
      BY <1>3, <2>2, <2>4 DEF Answered
    <3>2. \A f \in batch.frames : f.id < new.id
      BY <1>3, <2>2, <2>4 DEF Queued
    <3>3. QED
      BY <1>1, <1>4, <2>1, <3>1, <3>2 DEF DecisionsInOrder
  <2>8. QED
    BY <2>5, <2>6, <2>7 DEF FramesInv
<1>9. QED
  BY <1>5, <1>6, <1>7, <1>8, TypeParts DEF IInv

\* A bot of runtime r that adopts the intent i.
Following(r, i) == [r EXCEPT !.intent = i, !.last = i.id]

\* A bot is left alone, or follows one of the intents that are good for it.
LEMMA AdoptedResult ==
  ASSUME IInv, NEW b \in Bots, NEW drained \in SUBSET Answered
  PROVE  \/ Adopted(b, drained) = runtime[b]
         \/ \E i \in drained :
              /\ i.bot = b /\ Adoptable(i, runtime[b])
              /\ Adopted(b, drained) = Following(runtime[b], i)
<1> DEFINE good == {i \in drained : i.bot = b /\ Adoptable(i, runtime[b])}
<1>1. CASE good = {}
  BY <1>1 DEF Adopted
<1>2. CASE good # {}
  <2>1. \A i \in good : i.id \in Nat /\ i.id <= frameId
    BY TypeParts, KnownShape DEF IInv, FramesInv, FramesAreNumbered
  <2>2. \E i \in good : i.bot = b
    BY <1>2
  <2>3. frameId \in Nat
    BY TypeParts DEF IInv, DirectorTypeOK
  <2>4. NewestFor(good, b) \in good
    <3> HIDE DEF good
    <3> QED
      BY <2>1, <2>2, <2>3, NewestForIsNewest
  <2>5. Adopted(b, drained) = [runtime[b] EXCEPT !.intent = NewestFor(good, b),
                                                 !.last = NewestFor(good, b).id]
    BY <1>2 DEF Adopted
  <2>6. QED
    BY <2>4, <2>5 DEF Following
<1>3. QED
  BY <1>1, <1>2

\* What a bot drops is older than what it follows, and what it follows than
\* what is still to come.
LEMMA DrainIntentsInv == ASSUME IInv, DrainIntents PROVE IInv'
<1>1. SupervisorTypeOK /\ DirectorTypeOK
  BY TypeParts DEF IInv
<1>2. PICK n \in 1..Len(intents) :
        /\ TakeIntents(n)
        /\ \E expired \in SUBSET (1..n) :
             runtime' = [b \in Bots |-> Adopted(b, {intents[k] : k \in (1..n) \ expired})]
  <2>1. Len(intents) \in Nat /\ Len(intents) # 0
    BY <1>1 DEF DrainIntents, SupervisorTypeOK
  <2> DEFINE n == IF Len(intents) < DrainLimit THEN Len(intents) ELSE DrainLimit
  <2>2. n \in 1..Len(intents)
    BY <2>1, DirectorAssumption
  <2>3. /\ TakeIntents(n)
        /\ \E expired \in SUBSET (1..n) :
             runtime' = [b \in Bots |-> Adopted(b, {intents[k] : k \in (1..n) \ expired})]
    BY DEF DrainIntents
  <2> HIDE DEF n
  <2>4. QED
    BY <2>2, <2>3
<1>3. PICK expired \in SUBSET (1..n) :
        runtime' = [b \in Bots |-> Adopted(b, {intents[k] : k \in (1..n) \ expired})]
  BY <1>2
<1> DEFINE drained == {intents[k] : k \in (1..n) \ expired}
<1>4. /\ started
      /\ UNCHANGED <<latest, serial, epoch, version, pending, overlay, frames, ready, awaiting,
                     thread, stopping, phase, applied, world, routes, batch>>
      /\ UNCHANGED <<started, mapEpoch, modeEpoch, terrain, topology, unpublished, generations,
                     frameId, reconnect, games, faults>>
  BY <1>2 DEF DrainIntents, TakeIntents, Playing, Idle, epochVars, worldVars, tallyVars,
     threadVars, workerVars
<1>5. /\ intents' \in Seq(FrameShape) /\ Len(intents') = Len(intents) - n
      /\ \A k \in 1..(Len(intents) - n) :
           intents'[k] = intents[k + n] /\ k + n \in 1..Len(intents)
  <2>1. intents \in Seq(FrameShape) /\ n \in 0..Len(intents)
    BY <1>1 DEF SupervisorTypeOK
  <2>2. intents' = SubSeq(intents, n + 1, Len(intents))
    BY <1>2 DEF TakeIntents
  <2>3. QED
    BY <2>1, <2>2, RestOfQueue
<1>6. /\ drained \in SUBSET Answered
      /\ \A i \in drained : \E k \in 1..n : i = intents[k] /\ k \in DOMAIN intents
  BY <1>1 DEF Answered, SupervisorTypeOK
<1>7. runtime' = [b \in Bots |-> Adopted(b, drained)]
  BY <1>3
<1> HIDE DEF drained
<1>8. ASSUME NEW b \in Bots
      PROVE  \/ runtime'[b] = runtime[b]
             \/ \E i \in drained :
                  /\ i.bot = b /\ Adoptable(i, runtime[b])
                  /\ runtime'[b] = Following(runtime[b], i)
  <2>1. runtime'[b] = Adopted(b, drained)
    BY <1>7
  <2>2. drained \in SUBSET Answered
    BY <1>6
  <2>3. \/ Adopted(b, drained) = runtime[b]
        \/ \E i \in drained :
             /\ i.bot = b /\ Adoptable(i, runtime[b])
             /\ Adopted(b, drained) = Following(runtime[b], i)
    BY <2>2, AdoptedResult
  <2>4. QED
    BY <2>1, <2>3
<1>9. \A f \in Queued \cup Answered :
        f \in FrameShape /\ f.bot \in Bots /\ f.gen \in Nat /\ f.id \in Nat
  BY <1>1, KnownShape
<1>10. ASSUME NEW b \in Bots, NEW i \in drained, Adoptable(i, runtime[b]),
              runtime'[b] = Following(runtime[b], i)
       PROVE  /\ runtime[b] # NoBot
              /\ runtime'[b] \in [gen : Nat, intent : FrameShape \cup {NoIntent},
                                  last : Nat \cup {-1}, since : Nat]
              /\ runtime'[b].gen = runtime[b].gen /\ runtime'[b].since = runtime[b].since
              /\ runtime'[b].intent = i /\ runtime'[b].last = i.id
  <2>1. runtime[b] # NoBot
    BY <1>10 DEF Adoptable
  <2>2. runtime[b] \in [gen : Nat, intent : FrameShape \cup {NoIntent},
                        last : Nat \cup {-1}, since : Nat]
    BY <1>1, <2>1 DEF DirectorTypeOK
  <2>3. i \in FrameShape /\ i.id \in Nat
    BY <1>6, <1>9
  <2>4. QED
    BY <1>10, <2>1, <2>2, <2>3 DEF Following
<1>11. SupervisorTypeOK'
  <2>1. Len(intents') <= IntentLimit
    BY <1>1, <1>5, IntentLimitAssumption DEF SupervisorTypeOK
  <2>2. QED
    BY <1>1, <1>4, <1>5, <2>1 DEF SupervisorTypeOK
<1>12. DirectorTypeOK'
  <2>1. \A b \in Bots :
          runtime'[b] \in [gen : Nat, intent : FrameShape \cup {NoIntent},
                           last : Nat \cup {-1}, since : Nat] \cup {NoBot}
    BY <1>1, <1>8, <1>10 DEF DirectorTypeOK
  <2>2. runtime' \in [Bots -> [gen : Nat, intent : FrameShape \cup {NoIntent},
                               last : Nat \cup {-1}, since : Nat] \cup {NoBot}]
    BY <1>7, <2>1
  <2>3. QED
    BY <1>1, <1>4, <2>2 DEF DirectorTypeOK
<1>13. TerrainInv'
  BY <1>4, TerrainKept
<1>14. FramesInv'
  <2>1. FramesAreNumbered /\ BotsFollowOwnFrames /\ DecisionsInOrder
    BY DEF IInv, FramesInv
  <2>0. \A k \in DOMAIN intents' :
        /\ k \in Nat /\ k + n > n /\ k + n \in DOMAIN intents /\ intents'[k] = intents[k + n]
    <3>1. DOMAIN intents = 1..Len(intents) /\ Len(intents) \in Nat
      BY <1>1 DEF SupervisorTypeOK
    <3>2. DOMAIN intents' = 1..(Len(intents) - n)
      BY <1>5
    <3>3. QED
      BY <1>5, <3>1, <3>2
  <2>2. Queued' = Queued /\ Answered' \subseteq Answered
    BY <1>4, <2>0 DEF Queued, Answered
  <2>3. FramesAreNumbered'
    <3>1. ASSUME NEW b \in Bots, runtime'[b] # NoBot
          PROVE  /\ runtime'[b].gen <= generations[b]
                 /\ runtime'[b].since <= frameId /\ runtime'[b].last <= frameId
                 /\ \A f \in Queued \cup Answered :
                      f.bot = b /\ f.gen = runtime'[b].gen => f.id > runtime'[b].since
                 /\ \A f \in Queued :
                      f.bot = b /\ f.gen = runtime'[b].gen => f.id > runtime'[b].last
      <4>1. CASE runtime'[b] = runtime[b]
        BY <2>1, <3>1, <4>1 DEF FramesAreNumbered
      <4>2. ASSUME NEW i \in drained, i.bot = b, Adoptable(i, runtime[b]),
                   runtime'[b] = Following(runtime[b], i)
            PROVE  /\ runtime'[b].gen <= generations[b]
                   /\ runtime'[b].since <= frameId /\ runtime'[b].last <= frameId
                   /\ \A f \in Queued \cup Answered :
                        f.bot = b /\ f.gen = runtime'[b].gen => f.id > runtime'[b].since
                   /\ \A f \in Queued :
                        f.bot = b /\ f.gen = runtime'[b].gen => f.id > runtime'[b].last
        <5>1. /\ runtime[b] # NoBot
              /\ runtime'[b].gen = runtime[b].gen /\ runtime'[b].since = runtime[b].since
              /\ runtime'[b].last = i.id
          BY <1>10, <4>2
        <5>2. i.id <= frameId /\ i.gen = runtime[b].gen
          BY <1>6, <2>1, <4>2 DEF FramesAreNumbered, Adoptable
        <5>3. \A f \in Queued : f.bot = b /\ f.gen = i.gen => f.id > i.id
          <6>1. PICK k \in DOMAIN intents : i = intents[k]
            BY <1>6
          <6>2. \A f \in Queued : f.bot = i.bot /\ f.gen = i.gen => i.id < f.id
            BY <2>1, <6>1 DEF DecisionsInOrder, SameBot, Queued
          <6>3. QED
            BY <1>6, <1>9, <4>2, <6>2
        <5>4. QED
          BY <2>1, <5>1, <5>2, <5>3 DEF FramesAreNumbered
      <4>3. QED
        BY <1>8, <4>1, <4>2
    <3>2. QED
      BY <1>4, <2>1, <2>2, <3>1 DEF FramesAreNumbered
  <2>4. BotsFollowOwnFrames'
    <3> SUFFICES ASSUME NEW b \in Bots, runtime'[b] # NoBot, runtime'[b].intent # NoIntent
                 PROVE  /\ runtime'[b].intent.id > runtime'[b].since
                        /\ runtime'[b].intent.map = mapEpoch
                        /\ runtime'[b].intent.mode = modeEpoch
                        /\ runtime'[b].intent.top <= topology
      BY <1>4 DEF BotsFollowOwnFrames
    <3>1. CASE runtime'[b] = runtime[b]
      BY <2>1, <3>1 DEF BotsFollowOwnFrames
    <3>2. ASSUME NEW i \in drained, i.bot = b, Adoptable(i, runtime[b]),
                 runtime'[b] = Following(runtime[b], i)
          PROVE  /\ runtime'[b].intent.id > runtime'[b].since
                 /\ runtime'[b].intent.map = mapEpoch
                 /\ runtime'[b].intent.mode = modeEpoch
                 /\ runtime'[b].intent.top <= topology
      <4>1. runtime[b] # NoBot /\ runtime'[b].since = runtime[b].since /\ runtime'[b].intent = i
        BY <1>10, <3>2
      <4>2. i.gen = runtime[b].gen /\ i \in Answered
        BY <1>6, <3>2 DEF Adoptable
      <4>3. i.id > runtime[b].since
        BY <2>1, <3>2, <4>1, <4>2 DEF FramesAreNumbered
      <4>4. QED
        BY <3>2, <4>1, <4>3 DEF Adoptable
    <3>3. QED
      BY <1>8, <3>1, <3>2
  <2>5. DecisionsInOrder'
    <3>1. \A k \in DOMAIN intents' :
            /\ k \in Nat /\ k + n > n /\ k + n \in DOMAIN intents
            /\ intents'[k] = intents[k + n]
      BY <2>0
    <3>2. \A i, j \in DOMAIN intents' :
            i < j /\ SameBot(intents'[i], intents'[j]) => intents'[i].id < intents'[j].id
      BY <2>1, <3>1 DEF DecisionsInOrder
    <3>3. \A i \in DOMAIN intents' : \A f \in batch.frames \cup frames :
            SameBot(intents'[i], f) => intents'[i].id < f.id
      BY <2>1, <3>1 DEF DecisionsInOrder
    <3>4. ASSUME NEW j \in DOMAIN intents', runtime'[intents'[j].bot] # NoBot,
                 intents'[j].gen = runtime'[intents'[j].bot].gen
          PROVE  intents'[j].id > runtime'[intents'[j].bot].last
      <4>1. PICK b \in Bots : b = intents'[j].bot
        BY <1>9, <3>1 DEF Answered
      <4>2. CASE runtime'[b] = runtime[b]
        BY <2>1, <3>1, <3>4, <4>1, <4>2 DEF DecisionsInOrder
      <4>3. ASSUME NEW i \in drained, i.bot = b, Adoptable(i, runtime[b]),
                   runtime'[b] = Following(runtime[b], i)
            PROVE  intents'[j].id > runtime'[b].last
        <5>1. runtime'[b].gen = runtime[b].gen /\ runtime'[b].last = i.id
          BY <1>10, <4>3
        <5>2. PICK k \in 1..n : i = intents[k] /\ k \in DOMAIN intents
          BY <1>6
        <5>3. SameBot(intents[k], intents[j + n])
          BY <3>1, <3>4, <4>1, <4>3, <5>1, <5>2 DEF Adoptable, SameBot
        <5>4. intents[k].id < intents[j + n].id
          <6>1. k < j + n /\ j + n \in DOMAIN intents
            BY <3>1, <5>2
          <6>2. QED
            BY <2>1, <5>2, <5>3, <6>1 DEF DecisionsInOrder
        <5>5. intents[k].id \in Nat /\ intents[j + n].id \in Nat
          BY <1>9, <3>1, <5>2 DEF Answered
        <5>6. QED
          BY <3>1, <5>1, <5>2, <5>4, <5>5
      <4>4. QED
        BY <1>8, <4>1, <4>2, <4>3
    <3>5. QED
      BY <1>4, <2>1, <3>2, <3>3, <3>4 DEF DecisionsInOrder
  <2>6. QED
    BY <2>3, <2>4, <2>5 DEF FramesInv
<1>15. QED
  BY <1>11, <1>12, <1>13, <1>14, TypeParts DEF IInv

\* The overlay makes the retained snapshot complete.
LEMMA RecoverInv == ASSUME IInv, Recover PROVE IInv'
<1>1. /\ started /\ latest # 0 /\ StartThread(latest, version, overlay) /\ UNCHANGED gameVars
  BY DEF Recover, Playing, Idle, RecoverIfStopped
<1>2. SupervisorTypeOK /\ DirectorTypeOK
  BY TypeParts DEF IInv
<1>3. /\ started' = started /\ mapEpoch' = mapEpoch /\ modeEpoch' = modeEpoch
      /\ terrain' = terrain /\ topology' = topology /\ unpublished' = unpublished
      /\ runtime' = runtime /\ generations' = generations /\ frameId' = frameId
  BY <1>1 DEF gameVars
<1>4. SnapshotKept /\ CommitsAreMarked /\ NoChangeIsLost
  BY DEF IInv, TerrainInv
<1>5. latest \in Nat /\ version \in Nat /\ overlay \in [Cells -> Nat]
  BY <1>1, <1>2, <1>4 DEF SupervisorTypeOK, SnapshotKept
<1>6. /\ SupervisorTypeOK'
      /\ latest' = latest /\ epoch' = latest /\ version' = version /\ overlay' = overlay
      /\ applied' = -1 /\ serial' \in Nat /\ phase' = "idle"
      /\ batch' = NoBatch /\ frames' = {} /\ intents' = << >>
  BY <1>1, <1>2, <1>5, StartThreadResult
<1>7. TerrainInv'
  <2>1. SnapshotKept' /\ CommitsAreMarked'
    BY <1>1, <1>3, <1>4, <1>5, <1>6 DEF SnapshotKept, CommitsAreMarked
  <2>2. BatchAgrees'
    BY <1>6, BlankShapes DEF BatchAgrees
  <2>3. ~WorkerIsCurrent'
    BY <1>6 DEF WorkerIsCurrent
  <2>4. NoChangeIsLost'
    BY <1>3, <1>4, <1>6, <2>3 DEF NoChangeIsLost
  <2>5. QED
    BY <2>1, <2>2, <2>4 DEF TerrainInv
<1>8. FramesInv'
  <2>1. frames' \subseteq frames /\ batch'.frames \subseteq batch.frames
    BY <1>6, BlankShapes
  <2>2. topology' \in Nat /\ topology' >= topology
    BY <1>2, <1>3 DEF DirectorTypeOK
  <2>3. QED
    BY <1>3, <1>6, <2>1, <2>2, FramesKept
<1>9. QED
  BY <1>1, <1>6, <1>7, <1>8, DirectorTypeKept, TypeParts DEF IInv

-----------------------------------------------------------------------------
(* Game boundaries.                                                        *)

\* The roster steps aside.
LEMMA BeginTransitionInv == ASSUME IInv, BeginTransition PROVE IInv'
<1>1. /\ started /\ started' = started
      /\ runtime' = [b \in Bots |-> NoBot]
      /\ reconnect' = {b \in Bots : runtime[b] # NoBot}
      /\ UNCHANGED <<supervisorVars, mapEpoch, modeEpoch, terrain, topology, unpublished,
                     generations, frameId, games, faults>>
  BY DEF BeginTransition, Playing, Idle, epochVars, worldVars, tallyVars
<1>2. DirectorTypeOK
  BY TypeParts DEF IInv
<1>3. SupervisorTypeOK'
  BY <1>1, SupervisorTypeKept
<1>4. DirectorTypeOK'
  BY <1>1, <1>2 DEF DirectorTypeOK
<1>5. TerrainInv'
  BY <1>1, TerrainKept DEF supervisorVars, queueVars, threadVars, workerVars
<1>6. FramesInv'
  <2>1. /\ frames' = frames /\ batch' = batch /\ intents' = intents /\ frameId' = frameId
        /\ topology' \in Nat
    BY <1>1, <1>2 DEF supervisorVars, queueVars, workerVars, DirectorTypeOK
  <2>2. QED
    BY <1>1, <2>1, FramesKept
<1>7. QED
  BY <1>3, <1>4, <1>5, <1>6, TypeParts DEF IInv

\* The roster comes back with new controllers.
LEMMA ReconnectRosterResult ==
  ASSUME IInv, InTransition, ReconnectRoster
  PROVE  /\ started' = started /\ started /\ unpublished = {}
         /\ \A b \in Bots :
              \/ runtime'[b] = NoBot /\ generations'[b] = generations[b]
              \/ runtime'[b] = Controller(b) /\ generations'[b] = generations[b] + 1
         /\ runtime' \in [Bots -> [gen : Nat, intent : FrameShape \cup {NoIntent},
                                   last : Nat \cup {-1}, since : Nat] \cup {NoBot}]
         /\ generations' \in [Bots -> Nat] /\ frameId' = frameId
         /\ games' \in Nat /\ faults' = faults
         /\ reconnect' \in (SUBSET Bots) \cup {NoBot}
<1>1. DirectorTypeOK
  BY TypeParts DEF IInv
<1>2. /\ started' = started /\ started /\ unpublished = {}
      /\ frameId' = frameId /\ faults' = faults /\ games' = games + 1 /\ reconnect' = NoBot
      /\ runtime' = [b \in Bots |-> IF b \in reconnect THEN Controller(b) ELSE NoBot]
      /\ generations' = [b \in Bots |-> IF b \in reconnect THEN generations[b] + 1
                                        ELSE generations[b]]
  BY DEF InTransition, Idle, ReconnectRoster
<1>3. \A b \in Bots :
        \/ runtime'[b] = NoBot /\ generations'[b] = generations[b]
        \/ runtime'[b] = Controller(b) /\ generations'[b] = generations[b] + 1
  BY <1>2
<1>4. runtime' \in [Bots -> [gen : Nat, intent : FrameShape \cup {NoIntent},
                             last : Nat \cup {-1}, since : Nat] \cup {NoBot}]
  <2>1. \A b \in Bots : Controller(b) \in [gen : Nat, intent : FrameShape \cup {NoIntent},
                                           last : Nat \cup {-1}, since : Nat]
    BY <1>1, ControllerShape
  <2>2. QED
    BY <1>2, <2>1
<1>5. generations' \in [Bots -> Nat] /\ games' \in Nat
  BY <1>1, <1>2 DEF DirectorTypeOK
<1>6. QED
  BY <1>2, <1>3, <1>4, <1>5

\* A new serial makes the worker give up its world, and nothing else.
LEMMA TimelineDiscarded ==
  ASSUME IInv, RequestRestart \/ DiscardTimeline \/ UNCHANGED supervisorVars,
         UNCHANGED <<started, mapEpoch, terrain, unpublished>>
  PROVE  /\ SupervisorTypeOK' /\ TerrainInv'
         /\ frames' \subseteq frames /\ batch' = batch /\ intents' \in {intents, << >>}
<1>1. SupervisorTypeOK
  BY TypeParts DEF IInv
<1>2. CASE UNCHANGED supervisorVars
  <2>1. SupervisorTypeOK'
    BY <1>2, SupervisorTypeKept
  <2>2. QED
    BY <1>2, <2>1, TerrainKept DEF supervisorVars, queueVars, threadVars, workerVars
<1>3. CASE DiscardTimeline
  <2>1. /\ frames' = {} /\ intents' = << >> /\ awaiting' = NoFrame
        /\ UNCHANGED <<latest, serial, epoch, version, pending, overlay, ready, thread,
                       stopping, phase, applied, world, routes, batch>>
    BY <1>3 DEF DiscardTimeline, threadVars, workerVars
  <2>2. intents' \in Seq(FrameShape) /\ Len(intents') <= IntentLimit
    BY <2>1, IntentLimitAssumption
  <2>3. SupervisorTypeOK'
    BY <1>1, <2>1, <2>2 DEF SupervisorTypeOK
  <2>4. QED
    BY <2>1, <2>3, TerrainKept
<1>4. CASE RequestRestart /\ latest # 0
  <2>1. /\ serial' = serial + 1
        /\ frames' = {} /\ intents' = << >> /\ awaiting' = NoFrame /\ ready' = FALSE
        /\ UNCHANGED <<latest, epoch, version, pending, overlay, thread,
                       stopping, phase, applied, world, routes, batch>>
    BY <1>4 DEF RequestRestart, threadVars, workerVars
  <2>2. intents' \in Seq(FrameShape) /\ Len(intents') <= IntentLimit
    BY <2>1, IntentLimitAssumption
  <2>3. serial \in Nat /\ applied \in Int /\ batch.serial \in Nat
    BY <1>1 DEF SupervisorTypeOK
  <2>4. SupervisorTypeOK'
    <3>1. serial' \in Nat
      BY <2>1, <2>3
    <3>2. frames' \subseteq FrameShape /\ ready' \in BOOLEAN
      BY <2>1
    <3>3. awaiting' \in Nat \cup {NoFrame}
      BY <2>1
    <3>4. QED
      BY <1>1, <2>1, <2>2, <3>1, <3>2, <3>3 DEF SupervisorTypeOK
  <2>5. SnapshotKept /\ CommitsAreMarked /\ BatchAgrees /\ NoChangeIsLost
    BY DEF IInv, TerrainInv
  <2>6. SnapshotKept' /\ CommitsAreMarked'
    BY <2>1, <2>5 DEF SnapshotKept, CommitsAreMarked
  <2>7. applied' < serial' /\ batch'.serial < serial'
    BY <2>1, <2>3, <2>5 DEF BatchAgrees
  <2>8. BatchAgrees'
    BY <2>1, <2>3, <2>5, <2>7 DEF BatchAgrees
  <2>9. ~WorkerIsCurrent'
    BY <2>1, <2>3, <2>7 DEF WorkerIsCurrent
  <2>10. NoChangeIsLost'
    BY <2>1, <2>5, <2>9 DEF NoChangeIsLost
  <2>11. QED
    BY <2>1, <2>4, <2>6, <2>8, <2>10 DEF TerrainInv
<1>5. RequestRestart /\ latest = 0 => UNCHANGED supervisorVars
  BY DEF RequestRestart
<1>6. QED
  BY <1>2, <1>3, <1>4, <1>5

\* The same map goes on: mode changes, rollbacks and restarted rounds.
LEMMA SameMapInv ==
  ASSUME IInv, InTransition, ReconnectRoster, modeEpoch' \in Nat,
         RequestRestart \/ DiscardTimeline \/ UNCHANGED supervisorVars,
         UNCHANGED <<mapEpoch, terrain, topology, unpublished>>
  PROVE  IInv'
<1>1. DirectorTypeOK
  BY TypeParts DEF IInv
<1>2. /\ started' = started /\ started
      /\ \A b \in Bots :
           \/ runtime'[b] = NoBot /\ generations'[b] = generations[b]
           \/ runtime'[b] = Controller(b) /\ generations'[b] = generations[b] + 1
      /\ runtime' \in [Bots -> [gen : Nat, intent : FrameShape \cup {NoIntent},
                                last : Nat \cup {-1}, since : Nat] \cup {NoBot}]
      /\ generations' \in [Bots -> Nat] /\ frameId' = frameId
      /\ games' \in Nat /\ faults' = faults
      /\ reconnect' \in (SUBSET Bots) \cup {NoBot}
  BY ReconnectRosterResult
<1>3. /\ SupervisorTypeOK' /\ TerrainInv'
      /\ frames' \subseteq frames /\ batch' = batch /\ intents' \in {intents, << >>}
  BY <1>2, TimelineDiscarded
<1>4. DirectorTypeOK'
  BY <1>1, <1>2 DEF DirectorTypeOK
<1>5. FramesInv'
  <2>1. topology' \in Nat
    BY <1>1 DEF DirectorTypeOK
  <2>2. QED
    BY <1>2, <1>3, <2>1, FramesKept
<1>6. QED
  BY <1>3, <1>4, <1>5, TypeParts DEF IInv

LEMMA ChangeModeInv == ASSUME IInv, ChangeMode PROVE IInv'
<1>1. modeEpoch' \in Nat
  BY TypeParts DEF ChangeMode, IInv, DirectorTypeOK
<1>2. QED
  BY <1>1, SameMapInv DEF ChangeMode, RecordGameBoundary, worldVars

LEMMA RollBackInv == ASSUME IInv, RollBack PROVE IInv'
<1>1. modeEpoch' \in Nat
  BY TypeParts DEF RollBack, epochVars, IInv, DirectorTypeOK
<1>2. QED
  BY <1>1, SameMapInv DEF RollBack, RecordGameBoundary, epochVars, worldVars

LEMMA RestartRoundInv == ASSUME IInv, RestartRound PROVE IInv'
<1>1. modeEpoch' \in Nat
  BY TypeParts DEF RestartRound, IInv, DirectorTypeOK
<1>2. QED
  BY <1>1, SameMapInv DEF RestartRound, worldVars

\* Neither the batch in flight nor the worker's world is of the new serial.
LEMMA ChangeMapInv == ASSUME IInv, ChangeMap PROVE IInv'
<1>1. SupervisorTypeOK /\ DirectorTypeOK
  BY TypeParts DEF IInv
<1>2. /\ InTransition /\ ReconnectRoster
      /\ mapEpoch' = mapEpoch + 1 /\ modeEpoch' = modeEpoch + 1
      /\ terrain' = NoChanges /\ topology' = 0 /\ unpublished' = unpublished
      /\ latest' = mapEpoch + 1 /\ serial' = serial + 1 /\ epoch' = mapEpoch + 1
      /\ version' = 0 /\ pending' = NoChanges /\ overlay' = NoChanges
      /\ frames' = {} /\ intents' = << >> /\ ready' = FALSE /\ awaiting' = NoFrame
      /\ UNCHANGED <<thread, stopping, phase, applied, world, routes, batch>>
  BY DEF ChangeMap, RebindToWorld, PublishMap, AdoptSnapshot, threadVars, workerVars
<1>3. /\ started' = started /\ started /\ unpublished = {}
      /\ \A b \in Bots :
           \/ runtime'[b] = NoBot /\ generations'[b] = generations[b]
           \/ runtime'[b] = Controller(b) /\ generations'[b] = generations[b] + 1
      /\ runtime' \in [Bots -> [gen : Nat, intent : FrameShape \cup {NoIntent},
                                last : Nat \cup {-1}, since : Nat] \cup {NoBot}]
      /\ generations' \in [Bots -> Nat] /\ frameId' = frameId
      /\ games' \in Nat /\ faults' = faults
      /\ reconnect' \in (SUBSET Bots) \cup {NoBot}
  BY <1>2, ReconnectRosterResult
<1>4. mapEpoch \in Nat /\ modeEpoch \in Nat /\ serial \in Nat /\ applied \in Int
      /\ batch.serial \in Nat
  BY <1>1 DEF SupervisorTypeOK, DirectorTypeOK
<1>5. SupervisorTypeOK'
  <2>1. intents' \in Seq(FrameShape) /\ Len(intents') <= IntentLimit
    BY <1>2, IntentLimitAssumption
  <2>2. pending' \in [Cells -> Nat] /\ overlay' \in [Cells -> Nat]
    BY <1>2, BlankShapes
  <2>3. /\ latest' \in Nat /\ serial' \in Nat /\ epoch' \in Nat /\ version' \in Nat
        /\ frames' \subseteq FrameShape
    BY <1>2, <1>4
  <2>4. QED
    BY <1>1, <1>2, <2>1, <2>2, <2>3 DEF SupervisorTypeOK
<1>6. DirectorTypeOK'
  <2>1. mapEpoch' \in Nat /\ modeEpoch' \in Nat /\ topology' \in Nat
        /\ terrain' \in [Cells -> Nat] /\ unpublished' \subseteq Cells
    BY <1>2, <1>3, <1>4, BlankShapes
  <2>2. QED
    BY <1>1, <1>3, <2>1 DEF DirectorTypeOK
<1>7. TerrainInv'
  <2>1. SnapshotKept /\ BatchAgrees
    BY DEF IInv, TerrainInv
  <2>2. SnapshotKept' /\ CommitsAreMarked'
    BY <1>2, <1>3, <1>4 DEF SnapshotKept, CommitsAreMarked
  <2>3. applied' < serial' /\ batch'.serial < serial'
    BY <1>2, <1>4, <2>1 DEF BatchAgrees
  <2>4. BatchAgrees'
    BY <1>2, <1>3, <1>4, <2>1, <2>3 DEF BatchAgrees
  <2>5. ~WorkerIsCurrent'
    BY <1>2, <1>4, <2>3 DEF WorkerIsCurrent
  <2>6. NoChangeIsLost'
    BY <1>2, <2>5 DEF NoChangeIsLost
  <2>7. QED
    BY <2>2, <2>4, <2>6 DEF TerrainInv
<1>8. FramesInv'
  <2>1. topology' \in Nat
    BY <1>2
  <2>2. QED
    BY <1>2, <1>3, <2>1, FramesKept
<1>9. QED
  BY <1>5, <1>6, <1>7, <1>8, TypeParts DEF IInv

\* Nobody is left to be told anything.
LEMMA CloseDirectorInv == ASSUME IInv, CloseDirector PROVE IInv'
<1>1. SupervisorTypeOK /\ DirectorTypeOK
  BY TypeParts DEF IInv
<1>2. /\ started' = FALSE /\ unpublished = {} /\ runtime' = [b \in Bots |-> NoBot]
      /\ UNCHANGED <<mapEpoch, modeEpoch, terrain, topology, unpublished, generations, frameId,
                     reconnect, games, faults>>
      /\ stopping' = TRUE /\ latest' = 0 /\ ready' = FALSE
      /\ frames' = {} /\ intents' = << >> /\ pending' = NoChanges /\ overlay' = NoChanges
      /\ UNCHANGED <<serial, epoch, version, awaiting, applied, world, routes>>
      /\ \/ thread' = "none" /\ phase' = "idle" /\ batch' = NoBatch
         \/ UNCHANGED <<thread, phase, batch>>
  BY DEF CloseDirector, Idle, Close, epochVars, worldVars, tallyVars
<1>3. SupervisorTypeOK'
  <2>1. intents' \in Seq(FrameShape) /\ Len(intents') <= IntentLimit
    BY <1>2, IntentLimitAssumption
  <2>2. pending' \in [Cells -> Nat] /\ overlay' \in [Cells -> Nat]
    BY <1>2, BlankShapes
  <2>3. batch' \in [serial : Nat, snapshot : BOOLEAN, epoch : Nat \cup {-1},
                    version : Nat \cup {-1}, changes : [Cells -> Nat],
                    frames : SUBSET FrameShape]
    BY <1>1, <1>2, BlankShapes DEF SupervisorTypeOK
  <2>4. thread' \in {"none", "alive", "dead"} /\ phase' \in {"idle", "taken", "loaded"}
    BY <1>1, <1>2 DEF SupervisorTypeOK
  <2>5. /\ latest' \in Nat /\ ready' \in BOOLEAN /\ stopping' \in BOOLEAN
        /\ frames' \subseteq FrameShape
    BY <1>2
  <2>6. QED
    BY <1>1, <1>2, <2>1, <2>2, <2>3, <2>4, <2>5 DEF SupervisorTypeOK
<1>4. DirectorTypeOK'
  BY <1>1, <1>2 DEF DirectorTypeOK
<1>5. TerrainInv'
  <2>1. CommitsAreMarked /\ BatchAgrees
    BY DEF IInv, TerrainInv
  <2>2. SnapshotKept' /\ CommitsAreMarked' /\ NoChangeIsLost'
    BY <1>2 DEF SnapshotKept, CommitsAreMarked, NoChangeIsLost
  <2>3. serial \in Nat
    BY <1>1 DEF SupervisorTypeOK
  <2>4. BatchAgrees'
    BY <1>2, <2>1, <2>3, BlankShapes DEF BatchAgrees
  <2>5. QED
    BY <2>2, <2>4 DEF TerrainInv
<1>6. FramesInv'
  <2>1. batch'.frames \subseteq batch.frames /\ frames' \subseteq frames
    BY <1>2, BlankShapes
  <2>2. topology' \in Nat
    BY <1>1, <1>2 DEF DirectorTypeOK
  <2>3. QED
    BY <1>2, <2>1, <2>2, FramesKept
<1>7. QED
  BY <1>3, <1>4, <1>5, <1>6, TypeParts DEF IInv

-----------------------------------------------------------------------------
(* The worker.                                                             *)

\* A batch that is given up leaves a worker of no serial, or one that has
\* rejected the map of its serial and has an empty world.
LEMMA BatchGivenUp ==
  ASSUME IInv, LoseBatch, applied' \in {-1, batch.serial},
         ready' \in BOOLEAN, thread' \in {thread, "dead"},
         UNCHANGED <<latest, serial, epoch, version, pending, overlay, frames, intents,
                     awaiting, stopping>>,
         UNCHANGED <<started, mapEpoch, modeEpoch, terrain, topology, unpublished, runtime,
                     generations, reconnect, frameId, games>>,
         faults' \in Nat
  PROVE  IInv'
<1>1. SupervisorTypeOK /\ DirectorTypeOK
  BY TypeParts DEF IInv
<1>2. batch' = NoBatch /\ phase' = "idle" /\ world' = NoWorld /\ routes' = NoRoutes
  BY DEF LoseBatch
<1>3. SupervisorTypeOK'
  <2>1. /\ world' \in [epoch : Nat, version : Nat, cells : [Cells -> Nat],
                       stamps : [Cells -> Nat]]
        /\ routes' \in [Bots -> [gen : Nat, version : Nat, stale : BOOLEAN] \cup {NoRoute}]
        /\ batch' \in [serial : Nat, snapshot : BOOLEAN, epoch : Nat \cup {-1},
                       version : Nat \cup {-1}, changes : [Cells -> Nat],
                       frames : SUBSET FrameShape]
    BY <1>2, BlankShapes
  <2>2. applied' \in Nat \cup {-1}
    BY <1>1 DEF SupervisorTypeOK
  <2>3. thread' \in {"none", "alive", "dead"} /\ phase' \in {"idle", "taken", "loaded"}
    BY <1>1, <1>2 DEF SupervisorTypeOK
  <2>4. QED
    BY <1>1, <2>1, <2>2, <2>3 DEF SupervisorTypeOK
<1>4. DirectorTypeOK'
  BY <1>1 DEF DirectorTypeOK
<1>5. TerrainInv'
  <2>1. SnapshotKept /\ CommitsAreMarked /\ BatchAgrees /\ NoChangeIsLost
    BY DEF IInv, TerrainInv
  <2>2. SnapshotKept' /\ CommitsAreMarked'
    BY <2>1 DEF SnapshotKept, CommitsAreMarked
  <2>3. /\ serial \in Nat /\ batch.serial \in Nat /\ version \in Nat \cup {-1}
        /\ applied' <= serial
    BY <1>1, <2>1 DEF SupervisorTypeOK, BatchAgrees
  <2>4. started => mapEpoch # 0 /\ epoch = mapEpoch /\ version # -1
    BY <2>1 DEF SnapshotKept
  <2>5. BatchAgrees'
    BY <1>2, <2>3, <2>4, BlankShapes DEF BatchAgrees
  <2>6. started => ~WorkerIsCurrent'
    BY <1>2, <2>4, BlankShapes DEF WorkerIsCurrent
  <2>7. NoChangeIsLost'
    BY <2>1, <2>6 DEF NoChangeIsLost
  <2>8. QED
    BY <2>2, <2>5, <2>7 DEF TerrainInv
<1>6. FramesInv'
  BY <1>1, <1>2, BlankShapes, FramesKept DEF DirectorTypeOK
<1>7. QED
  BY <1>3, <1>4, <1>5, <1>6, TypeParts DEF IInv

LEMMA FaultInv == ASSUME IInv, Fault PROVE IInv'
<1>1. /\ UNCHANGED <<started, mapEpoch, modeEpoch, terrain, topology, unpublished, runtime,
                     generations, reconnect, frameId, games>>
      /\ faults' = faults + 1
  BY DEF Fault, epochVars, worldVars, rosterVars
<1>2. SupervisorTypeOK /\ faults' \in Nat
  BY <1>1, TypeParts DEF IInv, DirectorTypeOK
<1>3. CASE RejectSnapshot
  BY <1>1, <1>2, <1>3, BatchGivenUp DEF RejectSnapshot, threadVars
<1>4. CASE BatchFails
  BY <1>1, <1>2, <1>4, BatchGivenUp DEF BatchFails, threadVars
<1>5. CASE ThreadDies
  BY <1>1, <1>2, <1>5, BatchGivenUp DEF ThreadDies, queueVars, SupervisorTypeOK
<1>6. QED
  BY <1>3, <1>4, <1>5 DEF Fault

\* A batch has all that was queued, and leaves nothing behind.
LEMMA TakeBatchInv == ASSUME IInv, TakeBatch, UNCHANGED gameVars PROVE IInv'
<1> DEFINE fresh == latest # 0 /\ serial # applied
<1>1. SupervisorTypeOK /\ DirectorTypeOK
  BY TypeParts DEF IInv
<1>2. /\ phase = "idle" /\ phase' = "taken" /\ pending' = NoChanges /\ frames' = {}
      /\ batch' = [serial |-> serial, snapshot |-> fresh, epoch |-> epoch, version |-> version,
                   changes |-> IF fresh THEN overlay ELSE pending, frames |-> frames]
      /\ UNCHANGED <<latest, serial, epoch, version, overlay, intents, ready, awaiting,
                     thread, stopping, applied, world, routes>>
  BY DEF TakeBatch, Running, threadVars
<1>3. /\ batch'.serial = serial /\ batch'.snapshot = fresh /\ batch'.epoch = epoch
      /\ batch'.version = version /\ batch'.frames = frames
      /\ batch'.changes = IF fresh THEN overlay ELSE pending
  BY <1>2
<1>4. SupervisorTypeOK'
  <2>1. batch' \in [serial : Nat, snapshot : BOOLEAN, epoch : Nat \cup {-1},
                    version : Nat \cup {-1}, changes : [Cells -> Nat],
                    frames : SUBSET FrameShape]
    BY <1>1, <1>2 DEF SupervisorTypeOK
  <2>2. pending' \in [Cells -> Nat] /\ frames' \subseteq FrameShape
    BY <1>2, BlankShapes
  <2>3. QED
    BY <1>1, <1>2, <2>1, <2>2 DEF SupervisorTypeOK
<1>5. /\ started' = started /\ mapEpoch' = mapEpoch /\ modeEpoch' = modeEpoch
      /\ terrain' = terrain /\ topology' = topology /\ unpublished' = unpublished
      /\ runtime' = runtime /\ generations' = generations /\ frameId' = frameId
  BY DEF gameVars
<1>6. TerrainInv'
  <2>1. SnapshotKept /\ CommitsAreMarked /\ BatchAgrees /\ NoChangeIsLost
    BY DEF IInv, TerrainInv
  <2>2. SnapshotKept' /\ CommitsAreMarked'
    BY <1>2, <1>5, <2>1 DEF SnapshotKept, CommitsAreMarked
  <2>3. BatchAgrees'
    <3>1. serial \in Nat /\ version \in Nat \cup {-1}
      BY <1>1 DEF SupervisorTypeOK
    <3>2. fresh => epoch # -1 /\ version # -1
      BY <2>1 DEF SnapshotKept
    <3>3. started /\ ~fresh => applied = serial
      BY <2>1 DEF SnapshotKept
    <3>4. applied' <= serial' /\ batch'.serial <= serial'
      BY <1>2, <1>3, <2>1, <3>1 DEF BatchAgrees
    <3>5. batch'.epoch = epoch' /\ batch'.version <= version'
      BY <1>2, <1>3, <3>1
    <3>6. batch'.snapshot => batch'.epoch # -1 /\ batch'.version # -1
      BY <1>3, <3>2
    <3>7. started' /\ ~batch'.snapshot =>
            batch'.serial = applied' /\ world'.version <= batch'.version
      BY <1>2, <1>3, <1>5, <2>1, <3>3 DEF BatchAgrees
    <3>8. started' /\ applied' = serial' => world'.version <= version'
      BY <1>2, <1>5, <2>1 DEF BatchAgrees
    <3>9. QED
      BY <3>4, <3>5, <3>6, <3>7, <3>8 DEF BatchAgrees
  <2>4. ASSUME started, NEW c \in Cells \ unpublished, thread = "alive", WorkerIsCurrent'
        PROVE  Over(WorkerView', pending')[c] = terrain[c]
    <3>1. pending' = NoChanges /\ NoChanges[c] = 0
      BY <1>2 DEF NoChanges
    <3>2. CASE fresh
      <4>1. WorkerView' = overlay
        BY <1>2, <1>3, <3>2 DEF WorkerView
      <4>2. QED
        BY <2>1, <2>4, <3>1, <4>1 DEF NoChangeIsLost, Over
    <3>3. CASE ~fresh
      <4>1. WorkerIsCurrent
        BY <1>2, <1>3, <2>4, <3>3 DEF WorkerIsCurrent
      <4>2. WorkerView = world.cells /\ WorkerView' = Over(world.cells, pending)
        BY <1>2, <1>3, <3>3 DEF WorkerView, Over
      <4>3. Over(world.cells, pending)[c] = terrain[c]
        BY <2>1, <2>4, <4>1, <4>2 DEF NoChangeIsLost
      <4>4. QED
        BY <2>4, <3>1, <4>2, <4>3 DEF Over
    <3>4. QED
      BY <3>2, <3>3
  <2>5. NoChangeIsLost'
    BY <1>2, <1>5, <2>1, <2>4 DEF NoChangeIsLost, Over
  <2>6. QED
    BY <2>2, <2>3, <2>5 DEF TerrainInv
<1>7. FramesInv'
  <2>1. FramesAreNumbered /\ BotsFollowOwnFrames /\ DecisionsInOrder
    BY DEF IInv, FramesInv
  <2>2. Queued' \subseteq Queued /\ Answered' = Answered
    BY <1>2, <1>3 DEF Queued, Answered
  <2>3. FramesAreNumbered'
    <3>1. IsFiniteSet(frames') /\ IsFiniteSet(batch'.frames)
      BY <1>2, <1>3, <2>1, FS_EmptySet DEF FramesAreNumbered
    <3>2. QED
      BY <1>5, <2>1, <2>2, <3>1 DEF FramesAreNumbered
  <2>4. BotsFollowOwnFrames'
    BY <1>5, <2>1 DEF BotsFollowOwnFrames
  <2>5. DecisionsInOrder'
    BY <1>2, <1>3, <1>5, <2>1 DEF DecisionsInOrder
  <2>6. QED
    BY <2>3, <2>4, <2>5 DEF FramesInv
<1>8. QED
  BY <1>4, <1>6, <1>7, DirectorTypeKept, TypeParts DEF IInv

\* The snapshot that a batch brings becomes the worker's world.
LEMMA LoadSnapshotInv == ASSUME IInv, LoadSnapshot, UNCHANGED gameVars PROVE IInv'
<1>1. SupervisorTypeOK /\ DirectorTypeOK
  BY TypeParts DEF IInv
<1>2. /\ phase = "taken" /\ phase' = "loaded" /\ batch.snapshot
      /\ world' = [epoch |-> batch.epoch, version |-> batch.version,
                   cells |-> batch.changes, stamps |-> NoChanges]
      /\ routes' = NoRoutes /\ applied' = batch.serial /\ ready' = TRUE
      /\ UNCHANGED <<latest, serial, epoch, version, pending, overlay, frames, intents,
                     awaiting, thread, stopping, batch>>
  BY DEF LoadSnapshot, Running, threadVars
<1>3. SnapshotKept /\ CommitsAreMarked /\ BatchAgrees /\ NoChangeIsLost
  BY DEF IInv, TerrainInv
<1>4. /\ batch.serial \in Nat /\ batch.epoch \in Nat /\ batch.version \in Nat
      /\ batch.changes \in [Cells -> Nat]
  BY <1>1, <1>2, <1>3 DEF SupervisorTypeOK, BatchAgrees
<1>5. SupervisorTypeOK'
  <2>1. world' \in [epoch : Nat, version : Nat, cells : [Cells -> Nat],
                    stamps : [Cells -> Nat]]
    BY <1>2, <1>4, BlankShapes
  <2>2. routes' \in [Bots -> [gen : Nat, version : Nat, stale : BOOLEAN] \cup {NoRoute}]
    BY <1>2, BlankShapes
  <2>3. applied' \in Nat \cup {-1} /\ ready' \in BOOLEAN /\ phase' \in {"idle", "taken", "loaded"}
    BY <1>2, <1>4
  <2>4. QED
    BY <1>1, <1>2, <2>1, <2>2, <2>3 DEF SupervisorTypeOK
<1>6. /\ started' = started /\ mapEpoch' = mapEpoch /\ modeEpoch' = modeEpoch
      /\ terrain' = terrain /\ topology' = topology /\ unpublished' = unpublished
      /\ runtime' = runtime /\ generations' = generations /\ frameId' = frameId
  BY DEF gameVars
<1>7. TerrainInv'
  <2>1. SnapshotKept' /\ CommitsAreMarked'
    BY <1>2, <1>3, <1>6 DEF SnapshotKept, CommitsAreMarked
  <2>2. world'.version = batch.version /\ world'.cells = batch.changes
    BY <1>2
  <2>3. BatchAgrees'
    BY <1>2, <1>3, <1>6, <2>2 DEF BatchAgrees
  <2>4. WorkerIsCurrent' => WorkerIsCurrent
    BY <1>2 DEF WorkerIsCurrent
  <2>5. WorkerView' = WorkerView
    BY <1>2, <2>2 DEF WorkerView
  <2>6. NoChangeIsLost'
    BY <1>2, <1>3, <1>6, <2>4, <2>5 DEF NoChangeIsLost, Over
  <2>7. QED
    BY <2>1, <2>3, <2>6 DEF TerrainInv
<1>8. FramesInv'
  BY <1>1, <1>2, <1>6, FramesKept DEF DirectorTypeOK
<1>9. QED
  BY <1>5, <1>7, <1>8, DirectorTypeKept, TypeParts DEF IInv

\* Changes that the worker's world refuses are not of the present serial.
LEMMA ApplyChangesInv == ASSUME IInv, ApplyChanges, UNCHANGED gameVars PROVE IInv'
<1> DEFINE accepted == /\ batch.changes # NoChanges /\ batch.epoch = world.epoch
                       /\ batch.version >= world.version
<1>1. SupervisorTypeOK /\ DirectorTypeOK
  BY TypeParts DEF IInv
<1>2. /\ phase = "taken" /\ phase' = "loaded" /\ ~batch.snapshot
      /\ accepted => world' = [world EXCEPT !.version = batch.version,
                                            !.cells = Over(@, batch.changes),
                                            !.stamps = Stamped(@)]
      /\ accepted => routes' = [b \in Bots |-> IF routes[b] = NoRoute THEN NoRoute
                                               ELSE [routes[b] EXCEPT !.stale = TRUE]]
      /\ ~accepted => world' = world /\ routes' = routes
      /\ UNCHANGED <<latest, serial, epoch, version, pending, overlay, frames, intents, ready,
                     awaiting, thread, stopping, applied, batch>>
  BY DEF ApplyChanges, Running, threadVars, queueVars
<1>3. SnapshotKept /\ CommitsAreMarked /\ BatchAgrees /\ NoChangeIsLost
  BY DEF IInv, TerrainInv
<1>4. /\ world \in [epoch : Nat, version : Nat, cells : [Cells -> Nat], stamps : [Cells -> Nat]]
      /\ batch.serial \in Nat /\ batch.version \in Nat \cup {-1}
      /\ batch.changes \in [Cells -> Nat] /\ version \in Nat \cup {-1}
  BY <1>1 DEF SupervisorTypeOK
<1>5. ASSUME accepted
      PROVE  /\ world' \in [epoch : Nat, version : Nat, cells : [Cells -> Nat],
                            stamps : [Cells -> Nat]]
             /\ world'.version = batch.version /\ world'.epoch = world.epoch
             /\ world'.cells = Over(world.cells, batch.changes)
  <2>1. batch.version \in Nat
    BY <1>4, <1>5
  <2>2. Over(world.cells, batch.changes) \in [Cells -> Nat]
    BY <1>4 DEF Over
  <2>3. Stamped(world.stamps) \in [Cells -> Nat]
    BY <1>4, <2>1 DEF Stamped
  <2>4. world' = [world EXCEPT !.version = batch.version,
                               !.cells = Over(world.cells, batch.changes),
                               !.stamps = Stamped(world.stamps)]
    BY <1>2, <1>5
  <2>5. QED
    BY <1>4, <2>1, <2>2, <2>3, <2>4
<1>6. SupervisorTypeOK'
  <2>1. world' \in [epoch : Nat, version : Nat, cells : [Cells -> Nat],
                    stamps : [Cells -> Nat]]
    BY <1>2, <1>4, <1>5
  <2>2. routes' \in [Bots -> [gen : Nat, version : Nat, stale : BOOLEAN] \cup {NoRoute}]
    <3>1. routes \in [Bots -> [gen : Nat, version : Nat, stale : BOOLEAN] \cup {NoRoute}]
      BY <1>1 DEF SupervisorTypeOK
    <3>2. ASSUME NEW b \in Bots, routes[b] # NoRoute
          PROVE  [routes[b] EXCEPT !.stale = TRUE] \in [gen : Nat, version : Nat, stale : BOOLEAN]
      <4>1. routes[b] \in [gen : Nat, version : Nat, stale : BOOLEAN]
        BY <3>1, <3>2
      <4>2. QED
        BY <4>1
    <3>3. QED
      BY <1>2, <3>1, <3>2
  <2>3. phase' \in {"idle", "taken", "loaded"}
    BY <1>2
  <2>4. QED
    BY <1>1, <1>2, <2>1, <2>2, <2>3 DEF SupervisorTypeOK
<1>7. /\ started' = started /\ mapEpoch' = mapEpoch /\ modeEpoch' = modeEpoch
      /\ terrain' = terrain /\ topology' = topology /\ unpublished' = unpublished
      /\ runtime' = runtime /\ generations' = generations /\ frameId' = frameId
  BY DEF gameVars
<1>8. TerrainInv'
  <2>1. SnapshotKept' /\ CommitsAreMarked'
    BY <1>2, <1>3, <1>7 DEF SnapshotKept, CommitsAreMarked
  <2>2. world'.epoch = world.epoch /\ world'.version \in {world.version, batch.version}
    BY <1>2, <1>5
  <2>3. BatchAgrees'
    BY <1>2, <1>3, <1>4, <1>7, <2>2 DEF BatchAgrees
  <2>4. ASSUME started, NEW c \in Cells \ unpublished, thread = "alive", WorkerIsCurrent'
        PROVE  Over(WorkerView', pending)[c] = terrain[c]
    <3>1. applied = serial /\ world.epoch = epoch /\ WorkerIsCurrent
      BY <1>2, <2>2, <2>4 DEF WorkerIsCurrent
    <3>2. WorkerView = Over(world.cells, batch.changes) /\ WorkerView' = world'.cells
      BY <1>2 DEF WorkerView
    <3>3. WorkerView'[c] = WorkerView[c]
      <4>1. CASE accepted
        BY <1>5, <3>2, <4>1
      <4>2. CASE ~accepted
        <5>1. batch.epoch = world.epoch /\ batch.version >= world.version
          BY <1>2, <1>3, <1>4, <2>4, <3>1 DEF BatchAgrees
        <5>2. batch.changes = NoChanges
          BY <4>2, <5>1
        <5>3. QED
          BY <1>2, <3>2, <4>2, <5>2 DEF Over, NoChanges
      <4>3. QED
        BY <4>1, <4>2
    <3>4. QED
      BY <1>3, <2>4, <3>1, <3>3 DEF NoChangeIsLost, Over
  <2>5. NoChangeIsLost'
    BY <1>2, <1>3, <1>7, <2>4 DEF NoChangeIsLost, Over
  <2>6. QED
    BY <2>1, <2>3, <2>5 DEF TerrainInv
<1>9. FramesInv'
  BY <1>1, <1>2, <1>7, FramesKept DEF DirectorTypeOK
<1>10. QED
  BY <1>6, <1>8, <1>9, DirectorTypeKept, TypeParts DEF IInv

\* A thread that ends will be started from the overlay, or not at all.
LEMMA ThreadStopsInv == ASSUME IInv, ThreadStops, UNCHANGED gameVars PROVE IInv'
<1>1. SupervisorTypeOK /\ DirectorTypeOK
  BY TypeParts DEF IInv
<1>2. /\ thread' = "dead" /\ ready' = FALSE
      /\ UNCHANGED <<latest, serial, epoch, version, pending, overlay, frames, intents,
                     awaiting, stopping, phase, applied, world, routes, batch>>
  BY DEF ThreadStops, workerVars
<1>3. /\ started' = started /\ mapEpoch' = mapEpoch /\ modeEpoch' = modeEpoch
      /\ terrain' = terrain /\ topology' = topology /\ unpublished' = unpublished
      /\ runtime' = runtime /\ generations' = generations /\ frameId' = frameId
  BY DEF gameVars
<1>4. SupervisorTypeOK'
  <2>1. thread' \in {"none", "alive", "dead"} /\ ready' \in BOOLEAN
    BY <1>2
  <2>2. QED
    BY <1>1, <1>2, <2>1, ZenonT(40) DEF SupervisorTypeOK
<1>5. TerrainInv'
  <2>1. SnapshotKept' /\ CommitsAreMarked' /\ BatchAgrees'
    BY <1>2, <1>3 DEF IInv, TerrainInv, SnapshotKept, CommitsAreMarked, BatchAgrees
  <2>2. NoChangeIsLost'
    BY <1>2, <1>3 DEF IInv, TerrainInv, NoChangeIsLost
  <2>3. QED
    BY <2>1, <2>2 DEF TerrainInv
<1>6. FramesInv'
  BY <1>1, <1>2, <1>3, FramesKept DEF DirectorTypeOK
<1>7. QED
  BY <1>4, <1>5, <1>6, DirectorTypeKept, TypeParts DEF IInv

\* The intents a batch is answered with, in the order they join the queue.
LEMMA DeliveredIntents ==
  ASSUME IInv, DeliverIntents
  PROVE  \E ans \in Seq(FrameShape), keep \in Seq(FrameShape), lost \in Nat :
           /\ keep = intents \o ans /\ intents' \in Seq(FrameShape)
           /\ Len(intents') <= IntentLimit
           /\ \A k \in DOMAIN intents' :
                k + lost \in DOMAIN keep /\ intents'[k] = keep[k + lost]
           /\ \A k \in DOMAIN ans :
                \E f \in batch.frames : SameBot(ans[k], f) /\ ans[k].id = f.id
           /\ \A j, k \in DOMAIN ans : j < k => ans[j].id < ans[k].id
<1> DEFINE decided == {f \in batch.frames : Decidable(f)}
<1>1. SupervisorTypeOK
  BY TypeParts DEF IInv
<1>2. PICK order \in InIdOrder(decided) :
        intents' = NewestOf(intents \o [k \in DOMAIN order |-> IntentFor(order[k])])
  BY DEF DeliverIntents
<1> DEFINE ans == [k \in DOMAIN order |-> IntentFor(order[k])]
           keep == intents \o ans
           lost == IF Len(keep) <= IntentLimit THEN 0 ELSE Len(keep) - IntentLimit
<1>3. Cardinality(decided) \in Nat
  BY FS_Subset, FS_CardinalityType DEF IInv, FramesInv, FramesAreNumbered
<1>4. /\ order \in [1..Cardinality(decided) -> decided]
      /\ \A j, k \in DOMAIN order : j < k => order[j].id < order[k].id
  BY <1>2 DEF InIdOrder
<1>5. \A f \in decided : /\ f \in batch.frames /\ f \in FrameShape
                         /\ IntentFor(f) \in FrameShape
                         /\ SameBot(IntentFor(f), f) /\ IntentFor(f).id = f.id
  BY <1>1 DEF SupervisorTypeOK, FrameShape, IntentFor, SameBot
<1> HIDE DEF decided
<1>6. ans \in Seq(FrameShape) /\ DOMAIN ans = DOMAIN order
  <2>1. ans \in [1..Cardinality(decided) -> FrameShape]
    BY <1>4, <1>5
  <2>2. QED
    BY <1>3, <1>4, <2>1
<1>7. \A k \in DOMAIN ans : order[k] \in decided /\ ans[k] = IntentFor(order[k])
  BY <1>4
<1>8. \A k \in DOMAIN ans : \E f \in batch.frames : SameBot(ans[k], f) /\ ans[k].id = f.id
  BY <1>5, <1>7
<1>9. \A j, k \in DOMAIN ans : j < k => ans[j].id < ans[k].id
  BY <1>4, <1>5, <1>6, <1>7
<1>10. keep \in Seq(FrameShape) /\ Len(keep) \in Nat
  BY <1>1, <1>6, ConcatProperties DEF SupervisorTypeOK
<1>11. lost \in 0..Len(keep) /\ lost \in Nat
  BY <1>10, IntentLimitAssumption
<1>12. intents' = SubSeq(keep, lost + 1, Len(keep)) \/ (intents' = keep /\ lost = 0)
  <2>1. intents' = NewestOf(keep)
    BY <1>2
  <2> HIDE DEF ans, keep
  <2>2. CASE Len(keep) <= IntentLimit
    BY <2>1, <2>2 DEF NewestOf
  <2>3. CASE ~(Len(keep) <= IntentLimit)
    <3>1. intents' = SubSeq(keep, Len(keep) - IntentLimit + 1, Len(keep))
      BY <2>1, <2>3 DEF NewestOf
    <3>2. Len(keep) - IntentLimit + 1 = lost + 1
      BY <1>10, <2>3, IntentLimitAssumption
    <3> HIDE DEF lost
    <3>3. intents' = SubSeq(keep, lost + 1, Len(keep))
      BY <3>1, <3>2, Zenon
    <3>4. QED
      BY <3>3
  <2>4. QED
    BY <2>2, <2>3
<1>13. /\ intents' \in Seq(FrameShape) /\ Len(intents') = Len(keep) - lost
       /\ \A k \in 1..(Len(keep) - lost) :
            intents'[k] = keep[k + lost] /\ k + lost \in 1..Len(keep)
  <2> HIDE DEF ans, keep, lost
  <2>1. CASE intents' = keep /\ lost = 0
    BY <1>10, <2>1
  <2>2. CASE intents' = SubSeq(keep, lost + 1, Len(keep))
    BY <1>10, <1>11, <2>2, RestOfQueue
  <2>3. QED
    BY <1>12, <2>1, <2>2
<1>14. Len(intents') <= IntentLimit
  BY <1>10, <1>13, IntentLimitAssumption
<1>15. \A k \in DOMAIN intents' : k + lost \in DOMAIN keep /\ intents'[k] = keep[k + lost]
  <2> HIDE DEF ans, keep, lost
  <2>1. DOMAIN intents' = 1..Len(intents') /\ DOMAIN keep = 1..Len(keep)
    BY <1>10, <1>13
  <2>2. QED
    BY <1>13, <2>1
<1>16. keep = intents \o ans
  OBVIOUS
<1> HIDE DEF ans, keep, lost
<1>17. QED
  BY <1>6, <1>8, <1>9, <1>10, <1>11, <1>13, <1>14, <1>15, <1>16

\* An answer takes the place of its frame.
LEMMA DeliverIntentsInv == ASSUME IInv, DeliverIntents, UNCHANGED gameVars PROVE IInv'
<1>1. SupervisorTypeOK /\ DirectorTypeOK
  BY TypeParts DEF IInv
<1>2. /\ phase = "loaded" /\ phase' = "idle" /\ batch' = NoBatch
      /\ awaiting' \in {awaiting, NoFrame}
      /\ UNCHANGED <<latest, serial, epoch, version, pending, overlay, frames, ready,
                     thread, stopping, applied, world>>
  BY DEF DeliverIntents, Running, threadVars
<1>3. PICK ans \in Seq(FrameShape), keep \in Seq(FrameShape), lost \in Nat :
        /\ keep = intents \o ans /\ intents' \in Seq(FrameShape)
        /\ Len(intents') <= IntentLimit
        /\ \A k \in DOMAIN intents' :
             k + lost \in DOMAIN keep /\ intents'[k] = keep[k + lost]
        /\ \A k \in DOMAIN ans :
             \E f \in batch.frames : SameBot(ans[k], f) /\ ans[k].id = f.id
        /\ \A j, k \in DOMAIN ans : j < k => ans[j].id < ans[k].id
  BY DeliveredIntents
<1>4. /\ started' = started /\ mapEpoch' = mapEpoch /\ modeEpoch' = modeEpoch
      /\ terrain' = terrain /\ topology' = topology /\ unpublished' = unpublished
      /\ runtime' = runtime /\ generations' = generations /\ frameId' = frameId
  BY DEF gameVars
<1>5. routes' \in [Bots -> [gen : Nat, version : Nat, stale : BOOLEAN] \cup {NoRoute}]
  <2> DEFINE decided == {f \in batch.frames : Decidable(f)}
             Route == [gen : Nat, version : Nat, stale : BOOLEAN]
  <2>1. routes \in [Bots -> Route \cup {NoRoute}] /\ world.version \in Nat
    BY <1>1 DEF SupervisorTypeOK
  <2>2. routes' = [b \in Bots |-> IF \E f \in decided : f.bot = b
                                  THEN RouteAfter(NewestFor(decided, b)) ELSE routes[b]]
    BY DEF DeliverIntents
  <2>3. ASSUME NEW f \in FrameShape PROVE RouteAfter(f) \in Route
    <3>1. f.bot \in Bots /\ f.gen \in Nat
      BY <2>3 DEF FrameShape
    <3>2. [gen |-> f.gen, version |-> world.version, stale |-> FALSE] \in Route
      BY <2>1, <3>1
    <3>3. CASE routes[f.bot] = NoRoute
      BY <3>2, <3>3 DEF RouteAfter
    <3>4. CASE routes[f.bot] # NoRoute
      <4>1. routes[f.bot] \in Route
        BY <2>1, <3>1, <3>4
      <4>2. [routes[f.bot] EXCEPT !.version = world.version] \in Route
        BY <2>1, <4>1
      <4> HIDE DEF Route
      <4>3. QED
        BY <3>2, <3>4, <4>1, <4>2 DEF RouteAfter
    <3>5. QED
      BY <3>3, <3>4
  <2>4. ASSUME NEW b \in Bots, \E f \in decided : f.bot = b
        PROVE  NewestFor(decided, b) \in FrameShape
    <3>1. \A f \in decided : f \in FrameShape /\ f.id \in Nat /\ f.id <= frameId
      BY <1>1, KnownShape DEF IInv, FramesInv, FramesAreNumbered, Queued
    <3>2. frameId \in Nat
      BY <1>1 DEF DirectorTypeOK
    <3> HIDE DEF decided
    <3>3. NewestFor(decided, b) \in decided
      BY <2>4, <3>1, <3>2, NewestForIsNewest
    <3>4. QED
      BY <3>1, <3>3
  <2> HIDE DEF decided, Route
  <2>5. \A b \in Bots : routes'[b] \in Route \cup {NoRoute}
    BY <2>1, <2>2, <2>3, <2>4
  <2>6. routes' \in [Bots -> Route \cup {NoRoute}]
    BY <2>2, <2>5
  <2>7. QED
    BY <2>6 DEF Route
<1>6. SupervisorTypeOK'
  <2>1. awaiting' \in Nat \cup {NoFrame} /\ phase' \in {"idle", "taken", "loaded"}
    BY <1>1, <1>2 DEF SupervisorTypeOK
  <2>2. batch' \in [serial : Nat, snapshot : BOOLEAN, epoch : Nat \cup {-1},
                    version : Nat \cup {-1}, changes : [Cells -> Nat],
                    frames : SUBSET FrameShape]
    BY <1>2, BlankShapes
  <2>3. QED
    BY <1>1, <1>2, <1>3, <1>5, <2>1, <2>2 DEF SupervisorTypeOK
<1>7. TerrainInv'
  <2>1. SnapshotKept /\ CommitsAreMarked /\ BatchAgrees /\ NoChangeIsLost
    BY DEF IInv, TerrainInv
  <2>2. SnapshotKept' /\ CommitsAreMarked'
    BY <1>2, <1>4, <2>1 DEF SnapshotKept, CommitsAreMarked
  <2>3. BatchAgrees'
    <3>1. serial \in Nat
      BY <1>1 DEF SupervisorTypeOK
    <3>2. QED
      BY <1>2, <1>4, <2>1, <3>1, BlankShapes DEF BatchAgrees
  <2>4. WorkerIsCurrent' = WorkerIsCurrent /\ WorkerView' = WorkerView
    BY <1>2 DEF WorkerIsCurrent, WorkerView
  <2>5. NoChangeIsLost'
    BY <1>2, <1>4, <2>1, <2>4 DEF NoChangeIsLost, Over
  <2>6. QED
    BY <2>2, <2>3, <2>5 DEF TerrainInv
<1>8. FramesInv'
  <2>1. FramesAreNumbered /\ BotsFollowOwnFrames /\ DecisionsInOrder
    BY DEF IInv, FramesInv
  <2>2. \A f \in Queued \cup Answered :
          f \in FrameShape /\ f.bot \in Bots /\ f.gen \in Nat /\ f.id \in Nat
    BY <1>1, KnownShape
  <2>3. Queued' = frames /\ batch'.frames = {} /\ frames' = frames /\ frames \subseteq Queued
    BY <1>2, BlankShapes DEF Queued
  <2>4. \A k \in DOMAIN ans : \E f \in Queued : SameBot(ans[k], f) /\ ans[k].id = f.id
    BY <1>3 DEF Queued
  <2>5. /\ DOMAIN intents = 1..Len(intents) /\ DOMAIN ans = 1..Len(ans)
        /\ DOMAIN keep = 1..(Len(intents) + Len(ans))
        /\ Len(intents) \in Nat /\ Len(ans) \in Nat
        /\ \A k \in DOMAIN keep :
             keep[k] = IF k <= Len(intents) THEN intents[k] ELSE ans[k - Len(intents)]
    <3>1. intents \in Seq(FrameShape)
      BY <1>1 DEF SupervisorTypeOK
    <3>2. /\ Len(keep) = Len(intents) + Len(ans)
          /\ \A k \in 1..(Len(intents) + Len(ans)) :
               keep[k] = IF k <= Len(intents) THEN intents[k] ELSE ans[k - Len(intents)]
      BY <1>3, <3>1, ConcatProperties
    <3>3. QED
      BY <3>1, <3>2
  <2>6. ASSUME NEW k \in DOMAIN keep
        PROVE  \/ k \in DOMAIN intents /\ keep[k] = intents[k]
               \/ /\ k > Len(intents) /\ k - Len(intents) \in DOMAIN ans
                  /\ keep[k] = ans[k - Len(intents)]
    BY <2>5
  <2>7. \A k \in DOMAIN keep :
          \/ k \in DOMAIN intents /\ keep[k] = intents[k]
          \/ \E f \in batch.frames : SameBot(keep[k], f) /\ keep[k].id = f.id
    BY <1>3, <2>6
  <2>8. \A g \in Answered' : \E f \in Queued \cup Answered : SameBot(g, f) /\ g.id = f.id
    <3>1. \A g \in Answered' : \E k \in DOMAIN keep : g = keep[k]
      BY <1>3 DEF Answered
    <3>2. \A k \in DOMAIN intents : intents[k] \in Answered
      BY DEF Answered
    <3>3. batch.frames \subseteq Queued
      BY DEF Queued
    <3>4. \A k \in DOMAIN keep : \E f \in Queued \cup Answered :
            SameBot(keep[k], f) /\ keep[k].id = f.id
      BY <2>7, <3>2, <3>3 DEF SameBot
    <3>5. QED
      BY <3>1, <3>4
  <2>9. FramesAreNumbered'
    <3>1. IsFiniteSet(frames') /\ IsFiniteSet(batch'.frames)
      BY <2>1, <2>3, FS_EmptySet DEF FramesAreNumbered
    <3>2. \A f \in Queued' \cup Answered' : f.id <= frameId' /\ f.gen <= generations'[f.bot]
      BY <1>4, <2>1, <2>3, <2>8 DEF FramesAreNumbered, SameBot
    <3>3. ASSUME NEW b \in Bots, runtime[b] # NoBot,
                 NEW g \in Queued' \cup Answered', g.bot = b, g.gen = runtime[b].gen
          PROVE  g.id > runtime[b].since
      BY <2>1, <2>3, <2>8, <3>3 DEF FramesAreNumbered, SameBot
    <3>4. QED
      BY <1>4, <2>1, <2>3, <3>1, <3>2, <3>3 DEF FramesAreNumbered
  <2>10. BotsFollowOwnFrames'
    BY <1>4, <2>1 DEF BotsFollowOwnFrames
  <2>11. \A i, j \in DOMAIN keep : i < j /\ SameBot(keep[i], keep[j]) => keep[i].id < keep[j].id
    <3> SUFFICES ASSUME NEW i \in DOMAIN keep, NEW j \in DOMAIN keep,
                        i < j, SameBot(keep[i], keep[j])
                 PROVE  keep[i].id < keep[j].id
      OBVIOUS
    <3>1. CASE i \in DOMAIN intents /\ j \in DOMAIN intents
      BY <2>1, <2>5, <3>1 DEF DecisionsInOrder
    <3>2. CASE i \in DOMAIN intents /\ j \notin DOMAIN intents
      <4>1. keep[i] = intents[i]
        BY <2>5, <3>2
      <4>2. PICK f \in batch.frames : SameBot(keep[j], f) /\ keep[j].id = f.id
        BY <2>7, <3>2
      <4>3. SameBot(intents[i], f)
        BY <4>1, <4>2 DEF SameBot
      <4>4. QED
        BY <2>1, <3>2, <4>1, <4>2, <4>3 DEF DecisionsInOrder
    <3>3. CASE i \notin DOMAIN intents
      <4>1. /\ i - Len(intents) \in DOMAIN ans /\ keep[i] = ans[i - Len(intents)]
            /\ i > Len(intents)
        BY <2>6, <3>3
      <4>2. j - Len(intents) \in DOMAIN ans /\ keep[j] = ans[j - Len(intents)]
        BY <2>5, <2>6, <4>1
      <4>3. i - Len(intents) < j - Len(intents)
        BY <2>5
      <4>4. QED
        BY <1>3, <4>1, <4>2, <4>3
    <3>4. QED
      BY <3>1, <3>2, <3>3
  <2>12. \A k \in DOMAIN keep : \A f \in frames : SameBot(keep[k], f) => keep[k].id < f.id
    BY <2>1, <2>7 DEF DecisionsInOrder, SameBot
  <2>13. \A k \in DOMAIN keep :
           LET r == runtime[keep[k].bot]
           IN  r # NoBot /\ keep[k].gen = r.gen => keep[k].id > r.last
    <3> SUFFICES ASSUME NEW k \in DOMAIN keep, runtime[keep[k].bot] # NoBot,
                        keep[k].gen = runtime[keep[k].bot].gen
                 PROVE  keep[k].id > runtime[keep[k].bot].last
      OBVIOUS
    <3>1. CASE k \in DOMAIN intents /\ keep[k] = intents[k]
      BY <2>1, <3>1 DEF DecisionsInOrder
    <3>2. ASSUME NEW f \in batch.frames, SameBot(keep[k], f), keep[k].id = f.id
          PROVE  keep[k].id > runtime[keep[k].bot].last
      <4>1. f \in Queued /\ f.bot \in Bots
        BY <2>2 DEF Queued
      <4>2. QED
        BY <2>1, <3>2, <4>1 DEF FramesAreNumbered, SameBot
    <3>3. QED
      BY <2>7, <3>1, <3>2
  <2>14. DecisionsInOrder'
    <3>1. \A k \in DOMAIN intents' :
            k \in Nat /\ k + lost \in DOMAIN keep /\ intents'[k] = keep[k + lost]
      BY <1>3
    <3>2. \A i, j \in DOMAIN intents' : i < j => i + lost < j + lost
      BY <3>1
    <3>3. \A i, j \in DOMAIN intents' :
            i < j /\ SameBot(intents'[i], intents'[j]) => intents'[i].id < intents'[j].id
      BY <2>11, <3>1, <3>2
    <3>4. \A i \in DOMAIN intents' : \A f \in frames :
            SameBot(intents'[i], f) => intents'[i].id < f.id
      BY <2>12, <3>1
    <3>5. \A i \in DOMAIN intents' :
            LET r == runtime[intents'[i].bot]
            IN  r # NoBot /\ intents'[i].gen = r.gen => intents'[i].id > r.last
      BY <2>13, <3>1
    <3>6. QED
      BY <1>4, <2>3, <3>3, <3>4, <3>5 DEF DecisionsInOrder
  <2>15. QED
    BY <2>9, <2>10, <2>14 DEF FramesInv
<1>9. QED
  BY <1>6, <1>7, <1>8, DirectorTypeKept, TypeParts DEF IInv

-----------------------------------------------------------------------------
(* The theorems.                                                           *)

LEMMA NextInv == IInv /\ [Next]_vars => IInv'
<1> SUFFICES ASSUME IInv, [Next]_vars PROVE IInv'
  OBVIOUS
<1>1. CASE Start
  BY <1>1, StartInv
<1>2. ASSUME NEW b \in Bots, AddBot(b) PROVE IInv'
  BY <1>2, AddBotInv
<1>3. ASSUME NEW b \in Bots, RemoveBot(b) PROVE IInv'
  BY <1>3, RemoveBotInv
<1>4. ASSUME NEW cells \in SUBSET Cells, Commit(cells) PROVE IInv'
  BY <1>4, CommitInv
<1>5. ASSUME NEW c \in Cells, OnWorldMutation(c) PROVE IInv'
  BY <1>5, OnWorldMutationInv
<1>6. ASSUME NEW b \in Bots, PublishPerception(b) PROVE IInv'
  BY <1>6, PublishPerceptionInv
<1>7. CASE DrainIntents
  BY <1>7, DrainIntentsInv
<1>8. CASE Recover
  BY <1>8, RecoverInv
<1>9. CASE BeginTransition
  BY <1>9, BeginTransitionInv
<1>10. CASE ChangeMap
  BY <1>10, ChangeMapInv
<1>11. CASE ChangeMode \/ RollBack \/ RestartRound
  BY <1>11, ChangeModeInv, RollBackInv, RestartRoundInv
<1>12. CASE CloseDirector
  BY <1>12, CloseDirectorInv
<1>13. CASE Fault
  BY <1>13, FaultInv
<1>14. CASE Work
  BY <1>14, TakeBatchInv, LoadSnapshotInv, ApplyChangesInv, DeliverIntentsInv, ThreadStopsInv
     DEF Work, WorkerStep
<1>15. CASE UNCHANGED vars
  <2>1. UNCHANGED supervisorVars /\ UNCHANGED gameVars
    BY <1>15 DEF vars
  <2>2. SupervisorTypeOK' /\ DirectorTypeOK'
    BY <2>1, SupervisorTypeKept, DirectorTypeKept
  <2>3. TerrainInv'
    BY <2>1, TerrainKept DEF supervisorVars, queueVars, threadVars, workerVars, gameVars
  <2>4. FramesInv'
    <3>1. topology \in Nat
      BY TypeParts DEF IInv, DirectorTypeOK
    <3>2. QED
      BY <2>1, <3>1, FramesKept DEF supervisorVars, queueVars, workerVars, gameVars
  <2>5. QED
    BY <2>2, <2>3, <2>4, TypeParts DEF IInv
<1>16. QED
  BY <1>1, <1>2, <1>3, <1>4, <1>5, <1>6, <1>7, <1>8, <1>9, <1>10, <1>11, <1>12, <1>13, <1>14,
     <1>15 DEF Next

\* In every state that the program reaches the inductive invariant holds.
LEMMA Inductive == Spec => []IInv
<1>1. QED
  BY InitInv, NextInv, PTL DEF Spec

\* Every variable keeps its type, and the queue of intents its limit
\* (thread_supervisor.py:71).
THEOREM TypeCorrect == Spec => []TypeOK
<1>1. IInv => TypeOK
  BY DEF IInv
<1>2. QED
  BY <1>1, Inductive, PTL

\* No terrain change falls between the queues, the batch in flight and the
\* world of the worker, however edits, map changes, recycles, failures and
\* restarts interleave (thread_supervisor.py:139, :322, :397).
THEOREM TerrainReachesTheWorker == Spec => []NoChangeIsLost
<1>1. IInv => NoChangeIsLost
  BY DEF IInv, TerrainInv
<1>2. QED
  BY <1>1, Inductive, PTL

\* A bot follows only what was decided from a frame about itself, of its present
\* life, map and game, although ids are reused and a batch outlives the discard
\* of its timeline (director.py:2209).
THEOREM NoStaleDecision == Spec => []BotsFollowOwnFrames
<1>1. IInv => BotsFollowOwnFrames
  BY DEF IInv, FramesInv
<1>2. QED
  BY <1>1, Inductive, PTL

\* Decisions about one bot arrive in the order of its frames, so that the
\* director's test of the frame id drops none (director.py:2229).
THEOREM NoDecisionOvertakes == Spec => []DecisionsInOrder
<1>1. IInv => DecisionsInOrder
  BY DEF IInv, FramesInv
<1>2. QED
  BY <1>1, Inductive, PTL
=============================================================================
