---------------------------- MODULE AIWorkerBridge ----------------------------
(***************************************************************************)
(* The bot worker as a process of its own.  The gameplay thread coalesces  *)
(* frames, terrain changes and maps under locks; the bridge thread spawns  *)
(* the child, streams snapshots in chunks, then terrain, then frames into  *)
(* its bounded pipe, reads the answers and kills a child that is silent    *)
(* for too long.  The child may die or hang at any time; the next one has  *)
(* fresh pipes and must be given everything again.                         *)
(*                                                                         *)
(* A step holds one lock, or makes one put or get; what commutes with      *)
(* every step of the other threads is joined; a child that takes a batch   *)
(* and answers it does so in one step, for in between it touches nothing   *)
(* shared.  A bot here is one life of a player id, the key of the          *)
(* coalesced frames.  A change table holds 0 where it has no entry, which  *)
(* stands for the content of the map file.  Every decision that is allowed *)
(* yields an intent.  The queue of intents to the director, which is the   *)
(* one of AIThreadSupervisor, and start and close are left out.            *)
(***************************************************************************)
EXTENDS Integers, Sequences, FiniteSets, SequencesExt

CONSTANTS
  Bots,         \* lives of bots
  Cells,        \* voxel coordinates
  Values,       \* contents of a cell
  FileContent,  \* the content every cell has in the map file
  NoFrame,      \* _awaiting_frame_id is None
  InLimit,      \* _SERVER_TO_BRIDGE_LIMIT: records in the child's input pipe
  OutLimit,     \* _BRIDGE_TO_SERVER_LIMIT: its output pipe
  DeltaCells,   \* _TERRAIN_DELTA_BATCH_CELLS
  FrameBatch,   \* frames the bridge takes at once (16)
  Threshold,    \* _TERRAIN_SNAPSHOT_THRESHOLD
  Chunks,       \* chunks of an encoded snapshot
  MaxEvents,    \* bound: maps, commits and frames of a behaviour
  MaxTroubles   \* bound: discards, recycles, and children that die, hang or
                \* are killed while healthy

ASSUME BridgeAssumption ==
  /\ Values \subseteq Nat \ {0} /\ FileContent \in Values
  /\ NoFrame \notin Nat
  /\ InLimit \in Nat \ {0} /\ OutLimit \in Nat \ {0}
  /\ DeltaCells \in Nat \ {0} /\ FrameBatch \in Nat \ {0} /\ Threshold \in Nat \ {0} /\ Chunks \in Nat \ {0}
  /\ MaxEvents \in Nat /\ MaxTroubles \in Nat

VARIABLES
  terrain,    \* the canonical world's cells
  topology,   \* its topology_version
  frameId,    \* the director's frame counter
  discarding, \* publish_map has yet to discard the timeline
  serial,     \* _snapshot_serial; the map epoch of _latest_snapshot
  version,    \* _terrain_version
  pending,    \* _pending_terrain
  overlay,    \* _terrain_overlay
  required,   \* _snapshot_required
  frames,     \* _frames, in order
  restart,    \* _restart_request
  awaiting,   \* _awaiting_frame_id
  lease,      \* _awaiting_snapshot_transfer_id, 0 for None
  at,         \* where the bridge thread is
  sent,       \* sent_snapshot_serial
  transfer,   \* _outbound_snapshot
  transfers,  \* snapshots encoded so far
  hand,       \* a delta, or frames, the bridge has taken and not yet put
  worker,     \* the child: "none", "alive", "wedged" in its batch, or "dead"
  inbox,      \* process_input
  outbox,     \* process_output
  child,      \* its assembler and its world
  unheard,    \* history: the newest frame and transfer whose answer was dropped
  events,     \* bound: maps, commits and frames so far
  troubles    \* bound: troubles so far

gameVars == <<terrain, topology, frameId, discarding>>
terrainVars == <<serial, version, pending, overlay, required>>
statusVars == <<awaiting, lease>>
bridgeVars == <<at, sent, transfer, transfers, hand>>
childVars == <<worker, inbox, outbox, child, unheard>>
tallyVars == <<events, troubles>>
vars == <<gameVars, terrainVars, frames, restart, statusVars, bridgeVars, childVars,
          tallyVars>>

NoChanges == [c \in Cells |-> 0]
Authored == [c \in Cells |-> FileContent]
NoTransfer == [id |-> 0, serial |-> 0, version |-> 0, cells |-> NoChanges,
               captured |-> NoChanges, next |-> 0]
NoneUnheard == [frame |-> -1, transfer |-> -1]
NewChild == [taking |-> 0, next |-> 0, done |-> -1, map |-> -1, version |-> -1,
             cells |-> NoChanges, fine |-> TRUE]

(* The content after the changes g on top of f. *)
Over(f, g) == [c \in Cells |-> IF g[c] # 0 THEN g[c] ELSE f[c]]
Changed(f) == {c \in Cells : f[c] # 0}
Without(f, S) == [c \in Cells |-> IF c \in S THEN 0 ELSE f[c]]

(* The numbers in S from least to greatest, and what s has at these positions. *)
InOrder(S) ==
  {order \in Bijection(1..Cardinality(S), S) :
     \A j, k \in DOMAIN order : j < k => order[j] < order[k]}
Picked(s, order) == [k \in DOMAIN order |-> s[order[k]]]

Init ==
  /\ terrain = Authored /\ topology = 0 /\ frameId = 0 /\ discarding = FALSE
  /\ serial = 1 /\ version = 0
  /\ pending = NoChanges /\ overlay = NoChanges /\ required = FALSE
  /\ frames = <<>> /\ restart = FALSE
  /\ awaiting = NoFrame /\ lease = 0
  /\ at = "top" /\ sent = -1 /\ transfer = NoTransfer /\ transfers = 0 /\ hand = <<>>
  /\ worker = "none"
  /\ inbox = <<>> /\ outbox = <<>> /\ child = NewChild
  /\ unheard = NoneUnheard /\ events = 0 /\ troubles = 0

-----------------------------------------------------------------------------
(* The gameplay thread.                                                    *)

Happens ==
  /\ ~discarding /\ events < MaxEvents
  /\ events' = events + 1
  /\ UNCHANGED troubles

(* A committed cell is told to the bridge: publish_world_change. *)
PublishWorldChange(c, v) ==
  /\ Happens /\ v # terrain[c]
  /\ topology' = topology + 1
  /\ terrain' = [terrain EXCEPT ![c] = v]
  /\ version' = IF topology + 1 > version THEN topology + 1 ELSE version
  /\ overlay' = [overlay EXCEPT ![c] = v]
  /\ pending' = [pending EXCEPT ![c] = v]
  /\ required' = (required \/ Cardinality(Changed(pending')) >= Threshold)
  /\ UNCHANGED <<frameId, discarding, serial, frames, restart, statusVars,
                 bridgeVars, childVars>>

(* The first half of publish_map, under the snapshot and terrain locks: a  *)
(* new world, whose map is the file's content.                             *)
PublishMap ==
  /\ Happens
  /\ terrain' = Authored /\ topology' = 0
  /\ serial' = serial + 1
  /\ version' = 0
  /\ pending' = NoChanges /\ overlay' = NoChanges /\ required' = FALSE
  /\ discarding' = TRUE
  /\ UNCHANGED <<frameId, frames, restart, statusVars, bridgeVars, childVars>>

(* discard_timeline: frames and the frame's clock (and the intents). *)
Discarded ==
  /\ frames' = <<>>
  /\ awaiting' = NoFrame
  /\ UNCHANGED <<terrain, topology, frameId, terrainVars, lease, bridgeVars, childVars>>

FinishPublish ==
  /\ discarding
  /\ discarding' = FALSE
  /\ Discarded
  /\ UNCHANGED <<restart, tallyVars>>

(* A round restart discards the timeline; a recycle of the planner asks    *)
(* the bridge for a new child as well (request_restart).                   *)
DiscardTimeline ==
  /\ ~discarding /\ troubles < MaxTroubles
  /\ troubles' = troubles + 1
  /\ Discarded
  /\ restart' \in {restart, TRUE}
  /\ UNCHANGED <<discarding, events>>

(* FAULT: the waiting frame of the same life stays. *)
WaitingQueued(b) == {frames}

Waiting(b) ==
  {Picked(frames, order) :
     order \in InOrder({k \in DOMAIN frames : frames[k].bot # b})}

(* submit_frame replaces the waiting frame of the same life; too many      *)
(* lives drop the oldest.                                                  *)
SubmitFrame(b) ==
  /\ Happens
  /\ frameId' = frameId + 1
  /\ \E others \in Waiting(b) :
       frames' = Append(IF Len(others) < InLimit THEN others ELSE Tail(others),
                        [kind |-> "frame", bot |-> b, id |-> frameId + 1,
                         map |-> serial, top |-> topology])
  /\ UNCHANGED <<terrain, topology, discarding, terrainVars, restart, statusVars,
                 bridgeVars, childVars>>

-----------------------------------------------------------------------------
(* The bridge thread: the life of a child.                                 *)

(* FAULT: a predecessor's frame keeps the clock running. *)
FreshPipesStillAwaiting ==
  /\ inbox' = <<>> /\ outbox' = <<>>
  /\ child' = NewChild
  /\ sent' = -1
  /\ transfer' = NoTransfer
  /\ lease' = 0
  /\ unheard' = NoneUnheard
  /\ UNCHANGED awaiting

(* FAULT: the next child gets no snapshot. *)
FreshPipesStillSent ==
  /\ inbox' = <<>> /\ outbox' = <<>>
  /\ child' = NewChild
  /\ UNCHANGED sent
  /\ transfer' = NoTransfer
  /\ lease' = 0
  /\ unheard' = NoneUnheard
  /\ awaiting' = NoFrame

(* What a child leaves behind goes with its pipes, whatever was its end. *)
FreshPipes ==
  /\ inbox' = <<>> /\ outbox' = <<>>
  /\ child' = NewChild
  /\ sent' = -1
  /\ transfer' = NoTransfer
  /\ awaiting' = NoFrame
  /\ lease' = 0
  /\ unheard' = NoneUnheard

(* The planned recycle. *)
Recycle ==
  /\ at = "top" /\ restart
  /\ restart' = FALSE
  /\ worker' = "none"
  /\ FreshPipes
  /\ UNCHANGED <<gameVars, terrainVars, frames, at, transfers, hand, tallyVars>>

(* process.is_alive *)
IsAlive == worker \in {"alive", "wedged"}

(* The child is found dead, or none is there once the backoff is over. *)
Spawn ==
  /\ at = "top" /\ ~restart /\ ~IsAlive
  /\ worker' = "alive"
  /\ at' = "snapshot"
  /\ FreshPipes
  /\ UNCHANGED <<gameVars, terrainVars, frames, restart, transfers, hand, tallyVars>>

NextRound ==
  /\ at = "top" /\ ~restart /\ IsAlive
  /\ at' = "snapshot"
  /\ UNCHANGED <<gameVars, terrainVars, frames, restart, statusVars, sent,
                 transfer, transfers, hand, childVars, tallyVars>>

-----------------------------------------------------------------------------
(* The bridge thread: snapshots, then terrain, then frames.                *)

Room == Len(inbox) < InLimit

(* What most bridge steps leave alone. *)
OnlyBridge ==
  UNCHANGED <<gameVars, restart, worker, outbox, child, unheard, tallyVars>>

Goes(place) ==
  /\ at' = place
  /\ OnlyBridge
  /\ UNCHANGED <<terrainVars, frames, statusVars, sent, transfer, transfers, hand,
                 inbox>>

NoSnapshotDue ==
  /\ at = "snapshot" /\ transfer = NoTransfer
  /\ serial = sent /\ ~required
  /\ Goes("gate")

(* The base with the whole overlay is captured and encoded. *)
ComposeSnapshot ==
  /\ at = "snapshot" /\ transfer = NoTransfer
  /\ serial # sent \/ required
  /\ transfers' = transfers + 1
  /\ transfer' = [id |-> transfers + 1, serial |-> serial, version |-> version,
                  cells |-> overlay, captured |-> pending, next |-> 0]
  /\ OnlyBridge
  /\ UNCHANGED <<terrainVars, frames, statusVars, at, sent, hand, inbox>>

Header == [kind |-> "start", id |-> transfer.id]
Chunk == [kind |-> "chunk", id |-> transfer.id, index |-> transfer.next,
          map |-> transfer.serial, version |-> transfer.version,
          cells |-> transfer.cells]

(* The header is put first, and starts the transfer's clock. *)
PutRecord ==
  /\ at = "snapshot" /\ transfer # NoTransfer
  /\ transfer.next <= Chunks /\ Room
  /\ inbox' = Append(inbox, IF transfer.next = 0 THEN Header ELSE Chunk)
  /\ transfer' = [transfer EXCEPT !.next = @ + 1]
  /\ lease' = IF transfer.next = 0 THEN transfer.id ELSE lease
  /\ OnlyBridge
  /\ UNCHANGED <<terrainVars, frames, awaiting, at, sent, transfers, hand>>

(* The transfer is resumed at this chunk in the next round; a transfer    *)
(* under way holds back terrain and frames in this one.                    *)
PipeIsFull ==
  /\ at = "snapshot" /\ transfer # NoTransfer
  /\ transfer.next <= Chunks /\ ~Room
  /\ Goes("receive")

(* FAULT: everything pending counts as sent. *)
FinishTransferForgetting ==
  /\ at = "snapshot" /\ transfer # NoTransfer /\ transfer.next > Chunks
  /\ pending' = Without(pending, Changed(transfer.captured))
  /\ required' = (Cardinality(Changed(pending')) >= Threshold)
  /\ sent' = transfer.serial
  /\ transfer' = NoTransfer
  /\ at' = "gate"
  /\ OnlyBridge
  /\ UNCHANGED <<serial, version, overlay, frames, statusVars, transfers, hand, inbox>>

(* Changes the snapshot had captured and nobody has changed since are in   *)
(* it; what raced the transfer stays pending.                              *)
FinishTransfer ==
  /\ at = "snapshot" /\ transfer # NoTransfer /\ transfer.next > Chunks
  /\ pending' = Without(pending, {c \in Changed(transfer.captured) :
                                    pending[c] = transfer.captured[c]})
  /\ required' = (Cardinality(Changed(pending')) >= Threshold)
  /\ sent' = transfer.serial
  /\ transfer' = NoTransfer
  /\ at' = "gate"
  /\ OnlyBridge
  /\ UNCHANGED <<serial, version, overlay, frames, statusVars, transfers, hand, inbox>>

(* _snapshot_stream_ready, when no transfer is under way. *)
StreamReady == sent = serial /\ ~required

CheckSnapshot ==
  /\ at = "gate"
  /\ Goes(IF StreamReady THEN "terrain" ELSE "receive")

Delta(S) ==
  [kind |-> "delta", map |-> serial, version |-> version,
   cells |-> [c \in Cells |-> IF c \in S THEN pending[c] ELSE 0]]

(* _send_pending_terrain takes a batch under the terrain lock. *)
TakeTerrain ==
  /\ at = "terrain"
  /\ LET changed == Changed(pending)
         n == Cardinality(changed)
     IN  IF n = 0 \/ required THEN Goes("order")
         ELSE /\ \E S \in SUBSET changed :
                   /\ Cardinality(S) = IF n < DeltaCells THEN n ELSE DeltaCells
                   /\ hand' = <<Delta(S)>>
                   /\ pending' = Without(pending, S)
              /\ at' = "delta"
              /\ OnlyBridge
              /\ UNCHANGED <<serial, version, overlay, required, frames, statusVars,
                             sent, transfer, transfers, inbox>>

(* Merged back over a full pipe: newer changes win, and those of another   *)
(* map are void.                                                           *)
PutTerrain ==
  /\ at = "delta"
  /\ inbox' = IF Room THEN Append(inbox, hand[1]) ELSE inbox
  /\ pending' = IF Room \/ hand[1].map # serial THEN pending
                ELSE Over(hand[1].cells, pending)
  /\ hand' = <<>>
  /\ at' = "order"
  /\ OnlyBridge
  /\ UNCHANGED <<serial, version, overlay, required, frames, statusVars, sent,
                 transfer, transfers>>

(* _incremental_stream_ready *)
CheckTerrain ==
  /\ at = "order"
  /\ Goes(IF StreamReady /\ pending = NoChanges THEN "frames" ELSE "receive")

TakeFrames ==
  /\ at = "frames"
  /\ LET n == IF Len(frames) < FrameBatch THEN Len(frames) ELSE FrameBatch
     IN  /\ hand' = SubSeq(frames, 1, n)
         /\ frames' = SubSeq(frames, n + 1, Len(frames))
  /\ at' = IF frames = <<>> THEN "receive" ELSE "put"
  /\ OnlyBridge
  /\ UNCHANGED <<terrainVars, statusVars, sent, transfer, transfers, inbox>>

(* The frame's clock starts unless one is running.  (A frame whose bot is  *)
(* dead does not start it; those are left out.)                            *)
PutFrame ==
  /\ at = "put" /\ hand # <<>> /\ Room
  /\ inbox' = Append(inbox, Head(hand))
  /\ hand' = Tail(hand)
  /\ awaiting' = IF awaiting = NoFrame THEN Head(hand).id ELSE awaiting
  /\ OnlyBridge
  /\ UNCHANGED <<terrainVars, frames, lease, at, sent, transfer, transfers>>

(* FAULT: put back over newer ones. *)
PutBackOver(old, new) ==
  {Picked(new, order) \o old :
     order \in InOrder({k \in DOMAIN new : \A f \in ToSet(old) : f.bot # new[k].bot})}

PutBack(old, new) ==
  {new \o Picked(old, order) :
     order \in InOrder({k \in DOMAIN old : \A f \in ToSet(new) : f.bot # old[k].bot})}

(* Over a full pipe, frames that were not superseded are put back. *)
EndFrames ==
  /\ at = "put"
  /\ hand = <<>> \/ ~Room
  /\ frames' \in PutBack(hand, frames)
  /\ hand' = <<>>
  /\ at' = "receive"
  /\ OnlyBridge
  /\ UNCHANGED <<terrainVars, statusVars, sent, transfer, transfers, inbox>>

-----------------------------------------------------------------------------
(* The bridge thread: answers and the watchdog.                            *)

(* _acknowledge_processed_frame, of an answer m; only a heartbeat tells of  *)
(* transfers.                                                              *)
AnswersFrame(m) == m.frame >= awaiting
AnswersTransfer(m) == m.kind = "heartbeat" /\ m.transfer >= lease

(* At most 32 answers are taken, and some may still be on their way. *)
ReceiveIntents(n) ==
  /\ at = "receive"
  /\ awaiting' = IF awaiting # NoFrame /\ \E k \in 1..n : AnswersFrame(outbox[k])
                 THEN NoFrame ELSE awaiting
  /\ lease' = IF \E k \in 1..n : AnswersTransfer(outbox[k]) THEN 0 ELSE lease
  /\ outbox' = SubSeq(outbox, n + 1, Len(outbox))
  /\ at' = "top"
  /\ UNCHANGED <<gameVars, terrainVars, frames, restart, sent, transfer, transfers,
                 hand, worker, inbox, child, unheard, tallyVars>>

(* _worker_is_stalled: a clock has run out at the end of a round. *)
Kill ==
  /\ at = "top" /\ IsAlive
  /\ awaiting # NoFrame \/ lease # 0
  /\ worker' = "dead"
  /\ awaiting' = NoFrame /\ lease' = 0
  /\ UNCHANGED <<gameVars, terrainVars, frames, restart, bridgeVars, inbox, outbox,
                 child, unheard>>

FramesIn(records) == {m \in ToSet(records) : m.kind = "frame"}
Newest(fs) == IF fs = {} THEN -1 ELSE Max({f.id : f \in fs})

(* What the running clocks wait for is on its way to, in, or from the child. *)
FrameIsOwed ==
  \/ \E f \in FramesIn(inbox) : f.id >= awaiting
  \/ \E m \in ToSet(outbox) : AnswersFrame(m)
TransferIsOwed ==
  \/ transfer.id = lease
  \/ \E m \in ToSet(inbox) : m.kind = "chunk" /\ m.id >= lease
  \/ \E m \in ToSet(outbox) : AnswersTransfer(m)
Owed == /\ awaiting # NoFrame => FrameIsOwed
        /\ lease # 0 => TransferIsOwed

(* A child that hangs is silent for ever, and so is one whose answer found *)
(* the pipe full; a healthy child that is slow may also be killed.         *)
KillSilent == (worker = "wedged" \/ ~Owed) /\ Kill /\ UNCHANGED tallyVars
KillSlow ==
  /\ worker = "alive" /\ Owed /\ troubles < MaxTroubles
  /\ Kill
  /\ troubles' = troubles + 1
  /\ UNCHANGED events

-----------------------------------------------------------------------------
(* The child (run_worker).                                                 *)

Raises(s) == [s EXCEPT !.fine = FALSE]

(* MapSnapshotAssembler and the world, one record after the other. *)
Reads(s, m) ==
  CASE m.kind = "start" ->
         IF s.taking # 0 \/ m.id <= s.done THEN Raises(s)
         ELSE [s EXCEPT !.taking = m.id, !.next = 1]
    [] m.kind = "chunk" ->
         IF s.taking # m.id \/ s.next # m.index THEN Raises(s)
         ELSE IF m.index < Chunks THEN [s EXCEPT !.next = @ + 1]
         ELSE [s EXCEPT !.taking = 0, !.next = 0, !.done = m.id, !.map = m.map,
                        !.version = m.version, !.cells = m.cells]
    [] m.kind = "delta" ->
         IF s.taking # 0 THEN Raises(s)
         ELSE IF m.map # s.map \/ m.version < s.version THEN s
         ELSE [s EXCEPT !.version = m.version, !.cells = Over(@, m.cells)]
    [] m.kind = "frame" -> IF s.taking # 0 THEN Raises(s) ELSE s

(* The child after each of the records, read from state s; after all.      *)
Readings(s, records) ==
  LET after[k \in 0..Len(records)] ==
        IF k = 0 THEN s ELSE Reads(after[k - 1], records[k])
  IN  after
ReadAll(records) == Readings(child, records)[Len(records)]

(* The newest frame of each life, unless a later snapshot made it void. *)
Live(records) ==
  {records[k] : k \in {j \in DOMAIN records :
     /\ records[j].kind = "frame"
     /\ \A i \in DOMAIN records :
          i > j /\ records[i].kind = "chunk" => records[i].index < Chunks
     /\ \A f \in FramesIn(records) :
          f.bot = records[j].bot => f.id <= records[j].id}}

(* A heartbeat for the batch and the intents of the frames whose map and   *)
(* terrain the child has; what finds the output pipe full is gone.  The    *)
(* pipe's feeder may be late: the child takes some prefix.                 *)
AnswerBatch(n) ==
  /\ worker = "alive"
  /\ inbox' = SubSeq(inbox, n + 1, Len(inbox))
  /\ LET batch == SubSeq(inbox, 1, n)
         state == ReadAll(batch)
         newest == Newest(FramesIn(batch))
         decided == {f \in Live(batch) : f.map = state.map /\ f.top <= state.version}
         room == OutLimit - Len(outbox)
     IN  IF state.fine
         THEN /\ child' = state
              /\ \E order \in InOrder({f.id : f \in decided}) :
                   LET answers == <<[kind |-> "heartbeat", frame |-> newest,
                                     transfer |-> state.done]>>
                                  \o [k \in DOMAIN order |->
                                       [kind |-> "intent", frame |-> order[k]]]
                   IN  outbox' = outbox \o SubSeq(answers, 1,
                          IF room < Len(answers) THEN room ELSE Len(answers))
              /\ unheard' = IF room > 0 THEN unheard
                            ELSE [frame |-> Max({unheard.frame, newest}),
                                  transfer |-> state.done]
              /\ UNCHANGED worker
         ELSE /\ worker' = "dead"
              /\ UNCHANGED <<child, outbox, unheard>>
  /\ UNCHANGED <<gameVars, terrainVars, frames, restart, statusVars, bridgeVars,
                 tallyVars>>

(* The child blocks inside its batch, or its process ends. *)
Hangs(n) ==
  /\ worker = "alive" /\ troubles < MaxTroubles
  /\ worker' = "wedged"
  /\ inbox' = SubSeq(inbox, n + 1, Len(inbox))
  /\ troubles' = troubles + 1
  /\ UNCHANGED <<events, gameVars, terrainVars, frames, restart, statusVars, bridgeVars,
                 outbox, child, unheard>>

Dies ==
  /\ IsAlive /\ troubles < MaxTroubles
  /\ worker' = "dead"
  /\ troubles' = troubles + 1
  /\ UNCHANGED <<events, gameVars, terrainVars, frames, restart, statusVars, bridgeVars,
                 inbox, outbox, child, unheard>>

-----------------------------------------------------------------------------
Snapshots == NoSnapshotDue \/ ComposeSnapshot \/ PutRecord \/ PipeIsFull \/ FinishTransfer
Increments == CheckSnapshot \/ TakeTerrain \/ PutTerrain \/ CheckTerrain
              \/ TakeFrames \/ PutFrame \/ EndFrames
Bridge == Recycle \/ Spawn \/ NextRound \/ Snapshots \/ Increments
          \/ \E n \in 0..Len(outbox) : ReceiveIntents(n)
Child == \E n \in 1..Len(inbox) : AnswerBatch(n)

Next ==
  \/ \E c \in Cells, v \in Values : PublishWorldChange(c, v)
  \/ PublishMap
  \/ FinishPublish
  \/ DiscardTimeline
  \/ \E b \in Bots : SubmitFrame(b)
  \/ Recycle
  \/ Spawn
  \/ NextRound
  \/ NoSnapshotDue
  \/ ComposeSnapshot
  \/ PutRecord
  \/ PipeIsFull
  \/ FinishTransfer
  \/ CheckSnapshot
  \/ TakeTerrain
  \/ PutTerrain
  \/ CheckTerrain
  \/ TakeFrames
  \/ PutFrame
  \/ EndFrames
  \/ \E n \in 0..Len(outbox) : ReceiveIntents(n)
  \/ KillSilent
  \/ KillSlow
  \/ \E n \in 1..Len(inbox) : AnswerBatch(n)
  \/ \E n \in 1..Len(inbox) : Hangs(n)
  \/ Dies

Spec == Init /\ [][Next]_vars

(* The threads and a child that does not hang run; an answer reaches the   *)
(* bridge at last, and a clock that is running whenever the bridge looks   *)
(* at it runs out at last.                                                 *)
FairSpec ==
  /\ Spec
  /\ WF_vars(FinishPublish)
  /\ WF_vars(Bridge)
  /\ WF_vars(Child)
  /\ SF_vars(ReceiveIntents(Len(outbox)))
  /\ SF_vars(KillSilent)

-----------------------------------------------------------------------------
Changes == [Cells -> Values \cup {0}]
Number == Nat \cup {-1}
DeltaShape == [kind : {"delta"}, map : Nat, version : Nat, cells : Changes]
FrameShape == [kind : {"frame"}, bot : Bots, id : Nat, map : Nat, top : Nat]
RecordShape ==
  [kind : {"start"}, id : Nat]
    \cup [kind : {"chunk"}, id : Nat, index : Nat, map : Nat, version : Nat,
          cells : Changes]
    \cup DeltaShape \cup FrameShape
AnswerShape ==
  [kind : {"heartbeat"}, frame : Number, transfer : Number]
    \cup [kind : {"intent"}, frame : Nat]
ChildShape == [taking : Nat, next : Nat, done : Number, map : Number,
               version : Number, cells : Changes, fine : BOOLEAN]

(* Type invariant; the pipes keep to their limits, and of each life one    *)
(* frame waits.                                                            *)
TypeOK ==
  /\ terrain \in [Cells -> Values] /\ topology \in Nat /\ frameId \in Nat
  /\ discarding \in BOOLEAN
  /\ serial \in Nat /\ version \in Nat /\ required \in BOOLEAN
  /\ pending \in Changes /\ overlay \in Changes
  /\ frames \in Seq(FrameShape)
  /\ \A j, k \in DOMAIN frames : frames[j].bot = frames[k].bot => j = k
  /\ restart \in BOOLEAN
  /\ awaiting \in Nat \cup {NoFrame} /\ transfers \in Nat /\ lease \in 0..transfers
  /\ at \in {"top", "snapshot", "gate", "terrain", "delta", "order", "frames", "put",
             "receive"}
  /\ sent \in Number
  /\ transfer \in [id : 0..transfers, serial : Nat, version : Nat, cells : Changes,
                   captured : Changes, next : 0..(Chunks + 1)]
  /\ IF at = "delta" THEN hand \in Seq(DeltaShape) /\ Len(hand) = 1
     ELSE hand \in Seq(FrameShape) /\ (at # "put" => hand = <<>>)
  /\ worker \in {"none", "alive", "wedged", "dead"}
  /\ inbox \in Seq(RecordShape) /\ Len(inbox) <= InLimit
  /\ outbox \in Seq(AnswerShape) /\ Len(outbox) <= OutLimit
  /\ child \in ChildShape /\ child.done <= transfers
  /\ unheard \in [frame : Number, transfer : Number]
  /\ events \in 0..MaxEvents /\ troubles \in 0..MaxTroubles

Delta0 == IF hand # <<>> /\ hand[1].kind = "delta" /\ hand[1].map = serial
          THEN hand[1].cells ELSE NoChanges

(* What is in the child's pipe is a stream it can read to the end: headers *)
(* and chunks of one transfer at a time, and nothing between them, across  *)
(* full pipes, maps that change and children that die in mid-transfer      *)
(* (supervisor.py:528, snapshot_transport.py:152).  And it ends with the   *)
(* terrain as it is, but for what is still pending: no change falls        *)
(* between the overlay, a transfer that captured it, a delta in flight and *)
(* a delta that was put back (supervisor.py:543, :600).                    *)
StreamEndsCanonical ==
  worker = "alive" =>
    LET last == ReadAll(inbox)
    IN  /\ last.fine
        /\ transfer = NoTransfer /\ sent = serial =>
             /\ last.map = serial
             /\ Over(Over(Over(Authored, last.cells), Delta0), pending) = terrain
        /\ transfer # NoTransfer /\ transfer.serial = serial =>
             Over(Over(Authored, transfer.cells), pending) = terrain

Ordered ==
  LET all == inbox \o hand \o frames
  IN  \A i, j \in DOMAIN all :
        i < j /\ all[i].kind = "frame" /\ all[j].kind = "frame" /\ all[i].bot = all[j].bot
          => all[i].id < all[j].id

(* The frames of one life are decided in the order they were made, and a   *)
(* waiting one makes room only for a newer one: one that was put back over *)
(* a full pipe never follows, or replaces, a newer one (supervisor.py:624).*)
FramesInOrder ==
  [][/\ Ordered'
     /\ \A f \in ToSet(frames), g \in ToSet(frames') : f.bot = g.bot => f.id <= g.id]_vars

(* The watchdog's clocks run only for something this child was given and   *)
(* has not answered, or whose answer found the output pipe full: no child  *)
(* is killed for a frame or a transfer of its predecessor, of a discarded  *)
(* timeline, or one that it has answered (supervisor.py:653, :714).        *)
WatchdogHasCause ==
  worker = "alive" =>
    /\ awaiting # NoFrame => FrameIsOwed \/ unheard.frame >= awaiting
    /\ lease # 0 => TransferIsOwed \/ unheard.transfer >= lease

(* A child that dies, hangs or is killed is replaced, and in the end there *)
(* is one that has the terrain of the map being played - unless it hangs   *)
(* while it owes nothing, which nobody notices before the next frame.      *)
WorkerConverges ==
  <>[](\/ worker = "wedged" /\ awaiting = NoFrame /\ lease = 0
       \/ worker = "alive" /\ child.map = serial /\ Over(Authored, child.cells) = terrain)

(* "A new-map frame must never overtake the VXL that gives its coordinates *)
(* meaning in the child" (supervisor.py:440).  The code breaks this; see   *)
(* the README.                                                             *)
FramesFollowTheirMap ==
  worker = "alive" =>
    \A k \in DOMAIN inbox :
      inbox[k].kind = "frame" => ReadAll(SubSeq(inbox, 1, k)).map >= inbox[k].map
=============================================================================
