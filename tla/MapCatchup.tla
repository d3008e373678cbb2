----------------------------- MODULE MapCatchup -----------------------------
(***************************************************************************)
(* Late-join terrain of the authoritative server: the MapSync snapshot a   *)
(* joining peer is given, the bounded journal of the cells committed while *)
(* that peer loads, and the replay at its first ClientData that closes the *)
(* gap before live broadcasts reach it.                                    *)
(*                                                                         *)
(* Everything runs on one event-loop thread; only the compression of a     *)
(* snapshot runs elsewhere.  A handler without an await is atomic in the   *)
(* program.  Two of them are long (a multi-cell commit, the world reveal)  *)
(* and are modelled by several steps during which no other handler runs:   *)
(* toPublish # {} while a commit notifies its listeners, revealing # None  *)
(* while a ClientData is being answered.                                   *)
(*                                                                         *)
(* view[c] is the terrain peer c will show once it has processed all that  *)
(* was sent to it on its ordered, reliable channel.                        *)
(***************************************************************************)
EXTENDS Naturals, FiniteSets

CONSTANTS
  Conn,          \* connection slots (one ENet peer at a time in each)
  Cell,          \* voxel coordinates
  Colour,        \* what a solid voxel looks like
  Air,           \* the content of an empty voxel
  None,          \* no connection
  Pristine,      \* the authored map, [Cell -> Value]
  JournalLimit,  \* max_map_mutation_journal
  AirCatchup,    \* map_air_catchup_enabled
  AirBatch,      \* map_air_catchup_batch_limit
  MaxSequence,   \* bound: cells committed in a behaviour
  MaxFaults      \* bound: reveals that raise in a behaviour

Value == Colour \cup {Air}

ASSUME ContentAssumption == Air \notin Colour /\ Pristine \in [Cell -> Value]
ASSUME ConnAssumption == None \notin Conn
ASSUME LimitAssumption ==
  /\ JournalLimit \in Nat \ {0}
  /\ AirBatch \in Nat \ {0}
  /\ AirCatchup \in BOOLEAN
  /\ MaxSequence \in Nat /\ MaxFaults \in Nat

VARIABLES
  vxl,        \* the canonical map
  air,        \* cells of the air-override masks
  topology,   \* WorldManager.topology_version: one per committed batch
  toPublish,  \* cells of the committed batch not yet handed to the journal
  sequence,   \* _map_cell_sequence
  journal,    \* _map_cell_journal, as the set of its (sequence, cell) rows
  phase,      \* how far each peer's loader handshake has come
  closing,    \* peers the server has disconnected, event not yet serviced
  inGame,     \* connections with in_game set
  pinned,     \* connections whose map_cell_watermark is not None
  watermark,  \* map_cell_watermark
  overflow,   \* connections with map_cell_overflow set
  leased,     \* connections holding a _MapCellReplayLease
  target,     \* its target_sequence
  left,       \* its cells from next_index on
  airLeft,    \* cells of the _MapAirReplayLease not yet sent
  view,       \* external: the terrain of each client
  mapSync,    \* snapshot in the compression worker, {} when the lock is free
  cache,      \* _prepared_sync_key and _prepared_sync_chunks, {} when empty
  revealing,  \* connection whose first-ClientData reveal is running
  stage,      \* where that reveal is
  airSent,    \* cells its air replay has sent in this frame
  faults      \* auxiliary: reveals that have raised

terrainVars == <<vxl, air, topology>>
journalVars == <<sequence, journal>>
peerVars    == <<phase, closing, inGame, pinned, watermark, overflow>>
leaseVars   == <<leased, target, left>>
syncVars    == <<mapSync, cache>>
revealVars  == <<revealing, stage, airSent, faults>>

vars == <<terrainVars, toPublish, journalVars, peerVars, leaseVars, airLeft,
          view, syncVars, revealVars>>

Phase == {"gone", "handshake", "compress", "ready", "joined"}
Stage == {"idle", "air", "cells", "rest"}
Entry == [seq : Nat, cell : Cell]
Map   == [Cell -> Value]

-----------------------------------------------------------------------------
(* Helpers of the handlers.                                                *)

\* FAULT: a reveal may start between two cells of a batch.
QuietMidBatch == revealing = None

\* No synchronous handler is half way: another one may start.
Quiet == toPublish = {} /\ revealing = None

\* Connections a terrain change must be retained for.
Pending == pinned \ inGame

\* FAULT: prune up to the newest watermark instead of the oldest.
PrunedToNewest(rows, pending, mark) ==
  {e \in rows : pending # {} /\ \A c \in pending : mark[c] < e.seq}

\* _prune_map_mutations: the rows at or below the oldest pending watermark go.
Pruned(rows, pending, mark) ==
  {e \in rows : \E c \in pending : mark[c] < e.seq}

\* Rows the limit pushes out: the oldest one, as rows arrive one at a time.
Excess(rows) ==
  IF Cardinality(rows) > JournalLimit
  THEN {e \in rows : \A f \in rows : e.seq <= f.seq}
  ELSE {}

\* Rows a peer has still to be shown.
Newer(rows, mark) == {e \in rows : e.seq > mark}

\* FAULT: a lease of journal rows where cells are meant.
RowsAsCells(rows) == rows

CellsOf(rows) == {e.cell : e \in rows}

\* The contiguity test on the head of the journal when a lease is made.
Gap(c) ==
  /\ journal # {}
  /\ \A e \in journal : e.seq > watermark[c] + 1

\* Why a catch-up is given up.
CatchupLost(c) == c \in overflow \/ (c \notin leased /\ Gap(c))

\* x is the leased cell whose first mutation is the oldest.
IsNext(c, x) ==
  \E e \in Newer(journal, watermark[c]) :
    /\ e.cell = x
    /\ \A f \in Newer(journal, watermark[c]) :
         f.cell \in left[c] => e.seq <= f.seq

\* canonical_packets: whatever the peer held at x, it now holds the VXL's x.
Shown(seen, x) == [seen EXCEPT ![x] = vxl[x]]

\* What the client's loader makes of a snapshot.  With the air catch-up on, the
\* loader may keep the authored content of destroyed cells (stale).
Loaded(map, stale) ==
  [x \in Cell |-> IF x \in stale THEN Pristine[x] ELSE map[x]]

-----------------------------------------------------------------------------
Init ==
  /\ vxl = Pristine
  /\ air = {}
  /\ topology = 0
  /\ toPublish = {}
  /\ sequence = 0
  /\ journal = {}
  /\ phase = [c \in Conn |-> "gone"]
  /\ closing = {} /\ inGame = {} /\ pinned = {} /\ overflow = {}
  /\ watermark = [c \in Conn |-> 0]
  /\ leased = {}
  /\ target = [c \in Conn |-> 0]
  /\ left = [c \in Conn |-> {}]
  /\ airLeft = [c \in Conn |-> {}]
  /\ view = [c \in Conn |-> Pristine]
  /\ mapSync = {}
  /\ cache = {}
  /\ revealing = None
  /\ stage = "idle"
  /\ airSent = 0
  /\ faults = 0

-----------------------------------------------------------------------------
(* Canonical terrain changes.                                              *)

\* WorldManager.set_block: build, paint (a new colour) or remove one cell.
SetBlock(x, content) ==
  /\ Quiet
  /\ sequence < MaxSequence
  /\ vxl' = [vxl EXCEPT ![x] = content]
  /\ air' = IF content = Air THEN air \cup {x} ELSE air \ {x}
  /\ topology' = topology + 1
  /\ toPublish' = {x}
  /\ UNCHANGED <<journalVars, peerVars, leaseVars, airLeft, view, syncVars,
                 revealVars>>

\* WorldManager.destroy_blocks: a collapse removes several cells, all of them
\* before the first listener is told.  The listener may itself remove more: a
\* mine that loses its support explodes while the batch is being published.
DestroyBlocks(cells) ==
  /\ revealing = None
  /\ sequence + Cardinality(toPublish \cup cells) <= MaxSequence
  /\ cells # {}
  /\ \A x \in cells : vxl[x] # Air
  /\ vxl' = [x \in Cell |-> IF x \in cells THEN Air ELSE vxl[x]]
  /\ air' = air \cup cells
  /\ topology' = topology + 1
  /\ toPublish' = toPublish \cup cells
  /\ UNCHANGED <<journalVars, peerVars, leaseVars, airLeft, view, syncVars,
                 revealVars>>

\* _record_canonical_map_mutation for one cell of the batch, and the gameplay
\* packet of that cell, which only in-game peers receive.
Publish(x) ==
  LET row   == [seq |-> sequence + 1, cell |-> x]
      grown == IF Pending = {} THEN journal ELSE journal \cup {row}
      gone  == Excess(grown)
  IN
  /\ x \in toPublish
  /\ toPublish' = toPublish \ {x}
  /\ sequence' = sequence + 1
  /\ journal' = grown \ gone
  /\ overflow' = overflow \cup
                 {c \in Pending : \E e \in gone : watermark[c] < e.seq}
  /\ view' = [c \in Conn |-> IF c \in inGame THEN Shown(view[c], x)
                                             ELSE view[c]]
  /\ UNCHANGED <<terrainVars, phase, closing, inGame, pinned, watermark,
                 leaseVars, airLeft, syncVars, revealVars>>

-----------------------------------------------------------------------------
(* Connection and loader handshake.                                        *)

\* A peer connects, presents its ticket and answers InitialInfo.  The slot of
\* an old peer is reused once its compression worker has ended.
Connect(c) ==
  /\ Quiet
  /\ phase[c] = "gone"
  /\ \A s \in mapSync : s.conn # c
  /\ phase' = [phase EXCEPT ![c] = "handshake"]
  /\ UNCHANGED <<terrainVars, toPublish, journalVars, closing, inGame, pinned,
                 watermark, overflow, leaseVars, airLeft, view, syncVars,
                 revealVars>>

\* mark_map_snapshot_complete: bind the joiner to the terrain just captured.
MarkSnapshot(c) ==
  /\ watermark' = [watermark EXCEPT ![c] = sequence]
  /\ pinned' = pinned \cup {c}
  /\ overflow' = overflow \ {c}
  /\ airLeft' = [airLeft EXCEPT ![c] = IF AirCatchup THEN air ELSE {}]
  /\ journal' = Pruned(journal, (pinned \cup {c}) \ inGame,
                       [watermark EXCEPT ![c] = sequence])
  /\ UNCHANGED sequence

\* send_map_data, the transfer is at hand: the prepared chunks of this very
\* revision, or no edit at all to send to a client that has the map file.
SendPreparedMap(c) ==
  /\ Quiet
  /\ phase[c] = "handshake" /\ c \notin closing
  /\ mapSync = {}
  /\ \E map \in {s.map : s \in {t \in cache : t.rev = topology}}
                \cup (IF topology = 0 THEN {Pristine} ELSE {}) :
       /\ cache' = {[rev |-> topology, map |-> map]}
       /\ MarkSnapshot(c)
       /\ \E stale \in SUBSET airLeft'[c] :
            view' = [view EXCEPT ![c] = Loaded(map, stale)]
  /\ phase' = [phase EXCEPT ![c] = "ready"]
  /\ UNCHANGED <<terrainVars, toPublish, closing, inGame, leaseVars, mapSync,
                 revealVars>>

\* send_map_data under map_sync_lock: capture, pin the watermark in the same
\* turn, hand the immutable bytes to the compression worker.
CaptureMap(c) ==
  /\ Quiet
  /\ phase[c] = "handshake" /\ c \notin closing
  /\ mapSync = {}
  /\ \A t \in cache : t.rev # topology
  /\ mapSync' = {[conn |-> c, rev |-> topology, map |-> vxl]}
  /\ MarkSnapshot(c)
  /\ phase' = [phase EXCEPT ![c] = "compress"]
  /\ UNCHANGED <<terrainVars, toPublish, closing, inGame, leaseVars, view,
                 cache, revealVars>>

\* FAULT: the watermark is taken when the snapshot is sent, not captured.
SendCompressedMapPinningLate(c) ==
  /\ Quiet
  /\ phase[c] = "compress" /\ c \notin closing
  /\ \E s \in mapSync :
       /\ s.conn = c
       /\ cache' = IF s.rev = topology
                   THEN {[rev |-> s.rev, map |-> s.map]} ELSE cache
       /\ MarkSnapshot(c)
       /\ view' = [view EXCEPT ![c] = s.map]
  /\ mapSync' = {}
  /\ phase' = [phase EXCEPT ![c] = "ready"]
  /\ UNCHANGED <<terrainVars, toPublish, closing, inGame, leaseVars,
                 revealVars>>

\* The worker is done and the peer is still current: publish the chunks in the
\* cache unless the map has changed since, send them, send the state.
SendCompressedMap(c) ==
  /\ Quiet
  /\ phase[c] = "compress" /\ c \notin closing
  /\ \E s \in mapSync :
       /\ s.conn = c
       /\ cache' = IF s.rev = topology
                   THEN {[rev |-> s.rev, map |-> s.map]} ELSE cache
       /\ \E stale \in SUBSET airLeft[c] :
            view' = [view EXCEPT ![c] = Loaded(s.map, stale)]
  /\ mapSync' = {}
  /\ phase' = [phase EXCEPT ![c] = "ready"]
  /\ UNCHANGED <<terrainVars, toPublish, journalVars, closing, inGame, pinned,
                 watermark, overflow, leaseVars, airLeft, revealVars>>

\* FAULT: the lock is not released when the peer has gone.
AbandonMapKeepingLock(c) ==
  /\ Quiet
  /\ phase[c] = "gone" \/ c \in closing
  /\ \E s \in mapSync : s.conn = c
  /\ phase' = [phase EXCEPT ![c] = IF @ = "compress" THEN "handshake" ELSE @]
  /\ UNCHANGED <<terrainVars, toPublish, journalVars, closing, inGame, pinned,
                 watermark, overflow, leaseVars, airLeft, view, syncVars,
                 revealVars>>

\* The worker is done for a peer that is closing or gone: its generation has
\* moved on, nothing is sent or cached, the lock is released.
AbandonMap(c) ==
  /\ Quiet
  /\ phase[c] = "gone" \/ c \in closing
  /\ \E s \in mapSync : s.conn = c
  /\ mapSync' = {}
  /\ phase' = [phase EXCEPT ![c] = IF @ = "compress" THEN "handshake" ELSE @]
  /\ UNCHANGED <<terrainVars, toPublish, journalVars, closing, inGame, pinned,
                 watermark, overflow, leaseVars, airLeft, view, cache,
                 revealVars>>

\* NewPlayerConnection, accepted only once MapSync and StateData were sent.
NewPlayer(c) ==
  /\ Quiet
  /\ phase[c] = "ready" /\ c \notin closing
  /\ phase' = [phase EXCEPT ![c] = "joined"]
  /\ UNCHANGED <<terrainVars, toPublish, journalVars, closing, inGame, pinned,
                 watermark, overflow, leaseVars, airLeft, view, syncVars,
                 revealVars>>

\* Connection.disconnect from anywhere else: a kick, a ban, a server reason.
Kick(c) ==
  /\ Quiet
  /\ phase[c] # "gone" /\ c \notin closing
  /\ closing' = closing \cup {c}
  /\ UNCHANGED <<terrainVars, toPublish, journalVars, phase, inGame, pinned,
                 watermark, overflow, leaseVars, airLeft, view, syncVars,
                 revealVars>>

\* What a disconnect does to the connection itself.
DropConnection(c) ==
  /\ phase' = [phase EXCEPT ![c] = "gone"]
  /\ closing' = closing \ {c}
  /\ inGame' = inGame \ {c}
  /\ watermark' = [watermark EXCEPT ![c] = 0]
  /\ overflow' = overflow \ {c}
  /\ leased' = leased \ {c}
  /\ target' = [target EXCEPT ![c] = 0]
  /\ left' = [left EXCEPT ![c] = {}]
  /\ airLeft' = [airLeft EXCEPT ![c] = {}]
  /\ view' = [view EXCEPT ![c] = Pristine]

\* _on_disconnect_sync: the connection is dropped, then the journal is pruned
\* so that a dead joiner no longer pins it.
Disconnect(c) ==
  /\ Quiet
  /\ phase[c] # "gone"
  /\ DropConnection(c)
  /\ pinned' = pinned \ {c}
  /\ journal' = Pruned(journal, Pending \ {c}, watermark)
  /\ UNCHANGED <<terrainVars, toPublish, sequence, syncVars, revealVars>>

-----------------------------------------------------------------------------
(* First ClientData: reveal_world_to, then in_game.                        *)

\* A ClientData of a peer that has a Player and is still gated.  One already
\* queued is answered even when the peer is closing.
StartReveal(c) ==
  /\ Quiet
  /\ phase[c] = "joined" /\ c \notin inGame
  /\ revealing' = c
  /\ stage' = "air"
  /\ UNCHANGED <<terrainVars, toPublish, journalVars, peerVars, leaseVars,
                 airLeft, view, syncVars, airSent, faults>>

\* replay_map_air_overrides, one cell; the cursor moves once it was accepted.
AirCell(c, x) ==
  /\ revealing = c /\ stage = "air"
  /\ airSent < AirBatch
  /\ x \in airLeft[c]
  /\ view' = [view EXCEPT ![c] = Shown(@, x)]
  /\ airLeft' = [airLeft EXCEPT ![c] = @ \ {x}]
  /\ airSent' = airSent + 1
  /\ UNCHANGED <<terrainVars, toPublish, journalVars, peerVars, leaseVars,
                 syncVars, revealing, stage, faults>>

\* The batch is spent and cells remain: stay gated until the next ClientData.
AirPause(c) ==
  /\ revealing = c /\ stage = "air"
  /\ airSent = AirBatch /\ airLeft[c] # {}
  /\ revealing' = None
  /\ stage' = "idle"
  /\ airSent' = 0
  /\ UNCHANGED <<terrainVars, toPublish, journalVars, peerVars, leaseVars,
                 airLeft, view, syncVars, faults>>

\* The air replay is exhausted: roster, palettes and snapshot are sent, then
\* replay_map_mutations begins.
AirDone(c) ==
  /\ revealing = c /\ stage = "air"
  /\ airLeft[c] = {}
  /\ stage' = "cells"
  /\ airSent' = 0
  /\ UNCHANGED <<terrainVars, toPublish, journalVars, peerVars, leaseVars,
                 airLeft, view, syncVars, revealing, faults>>

\* _fail_map_catchup: a cell this peer needs is gone; disconnect it.
RejectCatchup(c) ==
  /\ revealing = c /\ stage = "cells"
  /\ CatchupLost(c)
  /\ overflow' = overflow \cup {c}
  /\ closing' = closing \cup {c}
  /\ revealing' = None
  /\ stage' = "idle"
  /\ UNCHANGED <<terrainVars, toPublish, journalVars, phase, inGame, pinned,
                 watermark, leaseVars, airLeft, view, syncVars, airSent,
                 faults>>

\* Freeze what is to be replayed: each changed cell once, up to the sequence
\* of this moment.  A lease that survived a failed attempt is kept instead.
TakeLease(c) ==
  /\ revealing = c /\ stage = "cells"
  /\ ~CatchupLost(c)
  /\ c \notin leased
  /\ leased' = leased \cup {c}
  /\ target' = [target EXCEPT ![c] = sequence]
  /\ left' = [left EXCEPT ![c] = CellsOf(Newer(journal, watermark[c]))]
  /\ UNCHANGED <<terrainVars, toPublish, journalVars, peerVars, airLeft, view,
                 syncVars, revealVars>>

\* Send the canonical content of the next leased cell.
ReplayCell(c) ==
  /\ revealing = c /\ stage = "cells"
  /\ ~CatchupLost(c)
  /\ c \in leased
  /\ \E x \in left[c] :
       /\ IsNext(c, x)
       /\ view' = [view EXCEPT ![c] = Shown(@, x)]
       /\ left' = [left EXCEPT ![c] = @ \ {x}]
  /\ UNCHANGED <<terrainVars, toPublish, journalVars, peerVars, leased,
                 target, airLeft, syncVars, revealVars>>

\* The lease is exhausted: advance the watermark to it, prune, and go round
\* again if the terrain has moved since the lease was made.
LeaseDone(c) ==
  /\ revealing = c /\ stage = "cells"
  /\ ~CatchupLost(c)
  /\ c \in leased /\ left[c] = {}
  /\ watermark' = [watermark EXCEPT ![c] = target[c]]
  /\ leased' = leased \ {c}
  /\ target' = [target EXCEPT ![c] = 0]
  /\ journal' = Pruned(journal, Pending, watermark')
  /\ stage' = IF sequence <= target[c] THEN "rest" ELSE "cells"
  /\ UNCHANGED <<terrainVars, toPublish, sequence, phase, closing, inGame,
                 pinned, overflow, left, airLeft, view, syncVars, revealing,
                 airSent, faults>>

\* The rest of the reveal was sent: admit the peer to the live broadcasts.
Admit(c) ==
  /\ revealing = c /\ stage = "rest"
  /\ inGame' = inGame \cup {c}
  /\ journal' = Pruned(journal, Pending \ {c}, watermark)
  /\ revealing' = None
  /\ stage' = "idle"
  /\ UNCHANGED <<terrainVars, toPublish, sequence, phase, closing, pinned,
                 watermark, overflow, leaseVars, airLeft, view, syncVars,
                 airSent, faults>>

\* Cells whose packets may be on their way out when a send raises.
InTransit(c) ==
  CASE stage = "air" -> airLeft[c]
    [] stage = "cells" /\ c \in leased -> {x \in left[c] : IsNext(c, x)}
    [] OTHER -> {}

\* A send raises inside the reveal.  on_receive swallows it and keeps the peer
\* gated; cursors have moved only past cells that were accepted in full, the
\* packets of the current cell may have left.
RevealRaises(c) ==
  /\ revealing = c
  /\ faults < MaxFaults
  /\ faults' = faults + 1
  /\ \E sent \in {{}} \cup {{x} : x \in InTransit(c)} :
       view' = [view EXCEPT ![c] =
                  [x \in Cell |-> IF x \in sent THEN vxl[x] ELSE view[c][x]]]
  /\ revealing' = None
  /\ stage' = "idle"
  /\ airSent' = 0
  /\ UNCHANGED <<terrainVars, toPublish, journalVars, peerVars, leaseVars,
                 airLeft, syncVars>>

-----------------------------------------------------------------------------
Mutation ==
  \/ \E x \in Cell, content \in Value : SetBlock(x, content)
  \/ \E cells \in SUBSET Cell : DestroyBlocks(cells)
  \/ \E x \in Cell : Publish(x)

Handshake(c) ==
  \/ SendPreparedMap(c)
  \/ CaptureMap(c)
  \/ SendCompressedMap(c)
  \/ AbandonMap(c)
  \/ NewPlayer(c)

Departure(c) == Kick(c) \/ Disconnect(c)

Reveal(c) ==
  \/ StartReveal(c)
  \/ \E x \in Cell : AirCell(c, x)
  \/ AirPause(c)
  \/ AirDone(c)
  \/ RejectCatchup(c)
  \/ TakeLease(c)
  \/ ReplayCell(c)
  \/ LeaseDone(c)
  \/ Admit(c)

Next ==
  \/ Mutation
  \/ \E c \in Conn : Connect(c) \/ Handshake(c) \/ Departure(c)
                     \/ Reveal(c) \/ RevealRaises(c)

Spec == Init /\ [][Next]_vars

\* The event loop finishes every handler it has started, the worker ends, a
\* client whose link is up answers its loader and keeps sending ClientData, and
\* a disconnect that was asked for is eventually serviced.  Strong fairness
\* stands for first-come first-served: waiters of map_sync_lock queue up, and
\* a ClientData in the inbox is not overtaken for ever by other peers' packets.
Fairness ==
  /\ WF_vars(\E x \in Cell : Publish(x))
  /\ \A c \in Conn : /\ SF_vars(Handshake(c) \/ Reveal(c))
                      /\ SF_vars(c \in closing /\ Disconnect(c))

FairSpec == Spec /\ Fairness

-----------------------------------------------------------------------------
(* Properties.                                                             *)

\* Every variable keeps to its type.
TypeOK ==
  /\ vxl \in Map /\ air \in SUBSET Cell /\ topology \in Nat
  /\ toPublish \in SUBSET Cell
  /\ sequence \in Nat /\ journal \in SUBSET Entry
  /\ phase \in [Conn -> Phase]
  /\ closing \in SUBSET Conn /\ inGame \in SUBSET Conn
  /\ pinned \in SUBSET Conn /\ overflow \in SUBSET Conn
  /\ watermark \in [Conn -> Nat]
  /\ leased \in SUBSET Conn /\ target \in [Conn -> Nat]
  /\ left \in [Conn -> SUBSET Cell]
  /\ airLeft \in [Conn -> SUBSET Cell]
  /\ view \in [Conn -> Map]
  /\ mapSync \in SUBSET [conn : Conn, rev : Nat, map : Map]
  /\ cache \in SUBSET [rev : Nat, map : Map]
  /\ revealing \in Conn \cup {None} /\ stage \in Stage
  /\ airSent \in Nat /\ faults \in Nat

\* Cells a client shows differently from the canonical map.
Differs(c) == {x \in Cell : view[c][x] # vxl[x]}

\* "Edits made during transfer are not lost": a peer in the live broadcast
\* stream shows the canonical terrain, but for the batch being published now.
AdmittedSeesCanonical == \A c \in inGame : Differs(c) \subseteq toPublish

\* The journal a joiner will be replayed from has every sequence it needs: it
\* is contiguous from the joiner's watermark unless the joiner is condemned.
JournalCoversJoiners ==
  \A c \in Pending \ overflow :
    {e.seq : e \in Newer(journal, watermark[c])}
      = (watermark[c] + 1) .. sequence

\* Prepared chunks are only ever reused for the map they were made from, even
\* when edits were committed while the worker compressed them.
CacheMatchesRevision ==
  \A s \in cache : s.rev = topology => s.map = vxl

\* A retry never rewinds: the watermark of a connection only advances until
\* the connection is dropped.
WatermarkAdvances ==
  [][\A c \in Conn : c \in pinned /\ c \in pinned'
                       => watermark[c] <= watermark'[c]]_vars

\* Seen from outside, the many steps of a join are one: this machinery
\* implements TerrainView, in which a viewer starts from the canonical terrain.
View == INSTANCE TerrainView WITH
          terrain <- vxl, undelivered <- toPublish,
          shown <- [c \in inGame |-> view[c]]

ImplementsTerrainView == View!Spec

\* A peer that has joined does not stay behind the gate for ever: it is
\* admitted, or its connection ends.
JoinResolves ==
  \A c \in Conn :
    phase[c] \in {"handshake", "joined"} ~> c \in inGame \/ phase[c] = "gone"

-----------------------------------------------------------------------------
(* The inductive invariant behind AdmittedSeesCanonical.                   *)

Bounds ==
  /\ \A e \in journal : e.seq <= sequence
  /\ \A c \in Conn : watermark[c] <= sequence /\ target[c] <= sequence
  /\ \A c \in leased : watermark[c] <= target[c]

PhasesAgree ==
  /\ \A c \in Conn : phase[c] \in {"compress", "ready", "joined"} => c \in pinned
  /\ \A c \in inGame \cup leased : phase[c] = "joined"

RevealsAgree ==
  /\ revealing = None <=> stage = "idle"
  /\ revealing # None =>
       /\ toPublish = {}
       /\ phase[revealing] = "joined" /\ revealing \notin inGame
  /\ stage \in {"cells", "rest"} => airLeft[revealing] = {}
  /\ stage = "rest" =>
       /\ revealing \notin overflow \cup leased
       /\ watermark[revealing] = sequence

SnapshotsAgree ==
  /\ topology = 0 => vxl = Pristine
  /\ \A s \in cache \cup mapSync :
       s.rev <= topology /\ (s.rev = topology => s.map = vxl)

\* Cells a loading peer will show wrongly once the bytes being prepared for it,
\* or already sent, have arrived.
Wrong(c) ==
  IF phase[c] = "compress"
  THEN {x \in Cell : \E s \in mapSync : s.conn = c /\ s.map[x] # vxl[x]}
  ELSE Differs(c)

\* Cells the peer is still going to be sent.
Repairs(c) ==
  toPublish \cup airLeft[c] \cup
  (IF c \in leased
   THEN left[c] \cup CellsOf(Newer(journal, target[c]))
   ELSE CellsOf(Newer(journal, watermark[c])))

LoadersCovered ==
  \A c \in Pending \ overflow :
    phase[c] \in {"compress", "ready", "joined"} => Wrong(c) \subseteq Repairs(c)

IInv ==
  /\ TypeOK
  /\ Bounds
  /\ PhasesAgree
  /\ RevealsAgree
  /\ SnapshotsAgree
  /\ LoadersCovered
  /\ AdmittedSeesCanonical
  /\ JournalCoversJoiners
=============================================================================
