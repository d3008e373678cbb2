---------------------------- MODULE TerrainRepair ----------------------------
(***************************************************************************)
(* The delayed terrain confirmations that players in game receive.  A      *)
(* client shows what it predicts: a build or a dig that the server then    *)
(* rejects, and its own idea of what a dig makes collapse.  The server     *)
(* corrects it later, cell by cell, from two lanes that share one limit:   *)
(* the footprints of rejected edits, after a quiet period, and the cells   *)
(* of collapses, sooner.                                                   *)
(*                                                                         *)
(* A client's view is what it shows once the packets on their way to it    *)
(* have been handled.  A cell is of a colour, or Air; damage is left out.  *)
(* A newcomer is admitted with the canonical map, which is MapCatchup's    *)
(* business.  A peer whose sends raise is as good as gone.  The cells of a *)
(* collapse are recorded one by one, in an order that geometry decides and *)
(* that is any order here; nothing else runs meanwhile.                    *)
(***************************************************************************)
EXTENDS Integers, Sequences, FiniteSets, SequencesExt

CONSTANTS
  Conn,           \* connections
  Cell,           \* voxels
  Colour,         \* colours of a solid voxel
  Air,            \* a voxel that is not solid
  Limit,          \* terrain_repair_queue_limit
  Delay,          \* terrain_repair_delay_ticks
  CollapseDelay,  \* terrain_collapse_repair_delay_ticks
  Batch,          \* terrain_repair_batch_limit
  CollapseBatch,  \* terrain_collapse_repair_batch_limit
  Interval,       \* terrain_repair_interval_ticks
  MaxEdits        \* bound: edits of a behaviour, rejected ones included

ASSUME RepairAssumption ==
  /\ IsFiniteSet(Cell) /\ Air \notin Colour
  /\ Limit \in Nat \ {0} /\ Delay \in Nat \ {0} /\ CollapseDelay \in Nat \ {0}
  /\ Batch \in Nat \ {0} /\ CollapseBatch \in Nat \ {0}
  /\ Interval \in Nat \ {0} /\ MaxEdits \in Nat

VARIABLES
  vxl,         \* the canonical map
  inGame,      \* connections in game, with a Player
  view,        \* what the client of each connection shows
  pending,     \* _pending: cells and the ticks they still wait, oldest first
  collapsing,  \* _collapse_pending, the same
  falling,     \* cells of a collapse that are not recorded yet
  beat,        \* loop_count modulo the interval
  dismissed,   \* history: cells dropped, or discarded as rebuilt
  edits        \* bound: edits so far

lanes == <<pending, collapsing>>
peerVars == <<inGame, view>>
vars == <<vxl, peerVars, lanes, falling, beat, dismissed, edits>>

Content == Colour \cup {Air}
Map == [Cell -> Content]
Solid(x) == vxl[x] # Air

Quiet == falling = {}

Cells(lane) == {lane[k].cell : k \in DOMAIN lane}
Without(lane, x) ==
  IF x \in Cells(lane) THEN RemoveAt(lane, CHOOSE k \in DOMAIN lane : lane[k].cell = x)
  ELSE lane

Init ==
  /\ vxl \in Map
  /\ inGame = {} /\ view = [p \in Conn |-> vxl]
  /\ pending = <<>> /\ collapsing = <<>> /\ falling = {}
  /\ beat = 0 /\ dismissed = {} /\ edits = 0

-----------------------------------------------------------------------------
(* Recording.  A book holds both lanes and the cells dropped from them.    *)

Book == [pending |-> pending, collapsing |-> collapsing, dropped |-> dismissed]

(* The regular lane gives way first, oldest entry first; the collapse lane *)
(* loses its newest entry.                                                 *)
EnforceLimit(b) ==
  IF Len(b.pending) + Len(b.collapsing) <= Limit THEN b
  ELSE IF b.pending # <<>>
  THEN [b EXCEPT !.pending = Tail(@), !.dropped = @ \cup {Head(b.pending).cell}]
  ELSE [b EXCEPT !.collapsing = Front(@),
                 !.dropped = @ \cup {Last(b.collapsing).cell}]

(* One cell of record_cells.                                               *)
RecordCell(b, x) ==
  IF x \in Cells(b.collapsing) /\ ~Solid(x) THEN b
  ELSE EnforceLimit(
    [pending    |-> Append(Without(b.pending, x), [cell |-> x, wait |-> Delay]),
     collapsing |-> Without(b.collapsing, x),
     dropped    |-> b.dropped \ {x}])

RecordCollapseCell(b, x) ==
  EnforceLimit(
    [pending    |-> Without(b.pending, x),
     collapsing |-> Append(Without(b.collapsing, x),
                           [cell |-> x, wait |-> CollapseDelay]),
     dropped    |-> b.dropped \ {x}])

Keep(b) ==
  /\ pending' = b.pending /\ collapsing' = b.collapsing /\ dismissed' = b.dropped

-----------------------------------------------------------------------------
(* Edits, between two ticks of the service.                                *)

Edit ==
  /\ Quiet /\ edits < MaxEdits
  /\ edits' = edits + 1
  /\ UNCHANGED <<inGame, beat>>

(* A rejected or cancelled build or dig, which the player's client shows.  *)
Reject(p, x, shown) ==
  /\ Edit
  /\ p \in inGame
  /\ (shown = Air) # (view[p][x] = Air)
  /\ view' = [view EXCEPT ![p][x] = shown]
  /\ Keep(RecordCell(Book, x))
  /\ UNCHANGED <<vxl, falling>>

(* A committed build.  The builder's own cell is painted after its echo;   *)
(* the others get a coloured build, which a client ignores where it shows  *)
(* a solid voxel.  Builders that are bots have no view.                    *)
Build(builder, x, colour) ==
  /\ Edit
  /\ ~Solid(x)
  /\ vxl' = [vxl EXCEPT ![x] = colour]
  /\ view' = [p \in Conn |->
       IF p \in inGame /\ (p = builder \/ view[p][x] = Air)
       THEN [view[p] EXCEPT ![x] = colour] ELSE view[p]]
  /\ UNCHANGED <<lanes, falling, dismissed>>

SameShape(p) == \A x \in Cell : Solid(x) <=> view[p][x] # Air

(* A dig, told exactly, and the cells that fall with it, which each client *)
(* derives from the topology it shows: one whose topology is not the       *)
(* server's may keep some of them.                                         *)
Dig(x, fallen, kept) ==
  /\ Edit
  /\ x \notin fallen
  /\ \A y \in fallen \cup {x} : Solid(y)
  /\ \A p \in Conn : kept[p] # {} => p \in inGame /\ ~SameShape(p)
  /\ vxl' = [y \in Cell |-> IF y \in fallen \cup {x} THEN Air ELSE vxl[y]]
  /\ view' = [p \in Conn |->
       IF p \in inGame
       THEN [y \in Cell |-> IF y \in (fallen \cup {x}) \ kept[p] THEN Air ELSE view[p][y]]
       ELSE view[p]]
  /\ falling' = fallen
  /\ UNCHANGED <<lanes, dismissed>>

RecordFallen(x) ==
  /\ x \in falling
  /\ falling' = falling \ {x}
  /\ Keep(RecordCollapseCell(Book, x))
  /\ UNCHANGED <<vxl, peerVars, beat, edits>>

-----------------------------------------------------------------------------
(* The tick.                                                               *)

(* The first n entries of a lane are all that are due and in the batch, of *)
(* whose entries those in counted count.                                   *)
IsBatch(lane, n, batch, counted) ==
  LET taken(k) == Cardinality(counted \cap 1..k)
  IN /\ \A k \in 1..n : lane[k].wait = 0 /\ taken(k - 1) < batch
     /\ n < Len(lane) => lane[n + 1].wait > 0 \/ taken(n) >= batch

(* Rebuilt cells are discarded and do not count.                           *)
IsCollapseBatch(n) ==
  IsBatch(collapsing, n, CollapseBatch,
          {k \in DOMAIN collapsing : ~Solid(collapsing[k].cell)})
IsRegularBatch(n) == IsBatch(pending, n, Batch, DOMAIN pending)

(* What a client that has shown something shows of a cell after its        *)
(* packets: a removal, or a coloured build and a paint.                    *)
WithoutPaint(shown, x) == IF Solid(x) /\ shown # Air THEN shown ELSE vxl[x]
CanonicalPackets(shown, x) == vxl[x]

Aged(lane) ==
  [k \in DOMAIN lane |-> [lane[k] EXCEPT !.wait = IF @ = 0 THEN 0 ELSE @ - 1]]
After(lane, n) == Aged(SubSeq(lane, n + 1, Len(lane)))

NoRegularWork == pending = <<>>
NothingToDo == pending = <<>> /\ collapsing = <<>>

Send(m, n) ==
  LET confirmed == Cells(SubSeq(collapsing, 1, m))
      rebuilt == {x \in confirmed : Solid(x)}
      cells == (confirmed \ rebuilt) \cup Cells(SubSeq(pending, 1, n))
  IN /\ IsCollapseBatch(m) /\ IsRegularBatch(n)
     /\ view' = [p \in Conn |->
          IF p \in inGame
          THEN [x \in Cell |-> IF x \in cells THEN CanonicalPackets(view[p][x], x)
                               ELSE view[p][x]]
          ELSE view[p]]
     /\ collapsing' = After(collapsing, m) /\ pending' = After(pending, n)
     /\ dismissed' = (dismissed \cup rebuilt) \ cells

Tick ==
  /\ Quiet
  /\ beat' = (beat + 1) % Interval
  /\ \/ /\ NothingToDo \/ beat # 0
        /\ pending' = Aged(pending) /\ collapsing' = Aged(collapsing)
        /\ UNCHANGED <<view, dismissed>>
     \/ /\ ~NothingToDo /\ beat = 0 /\ inGame = {}
        /\ pending' = <<>> /\ collapsing' = <<>>
        /\ UNCHANGED <<view, dismissed>>
     \/ /\ ~NothingToDo /\ beat = 0 /\ inGame # {}
        /\ \E m \in 0..Len(collapsing), n \in 0..Len(pending) : Send(m, n)
  /\ UNCHANGED <<vxl, inGame, falling, edits>>

-----------------------------------------------------------------------------
(* Peers, and a new world.                                                 *)

Join(p) ==
  /\ Quiet /\ p \notin inGame
  /\ inGame' = inGame \cup {p}
  /\ view' = [view EXCEPT ![p] = vxl]
  /\ UNCHANGED <<vxl, lanes, falling, beat, dismissed, edits>>

Leave(p) ==
  /\ Quiet /\ p \in inGame
  /\ inGame' = inGame \ {p}
  /\ UNCHANGED <<vxl, view, lanes, falling, beat, dismissed, edits>>

(* Everybody reloads; the lanes of the old world are discarded.            *)
Rollover(world) ==
  /\ Quiet /\ edits < MaxEdits
  /\ edits' = edits + 1
  /\ vxl' = world
  /\ inGame' = {}
  /\ pending' = <<>> /\ collapsing' = <<>> /\ dismissed' = {}
  /\ UNCHANGED <<view, falling, beat>>

Next ==
  \/ Tick
  \/ \E p \in Conn : Join(p) \/ Leave(p)
  \/ \E p \in Conn, x \in Cell, shown \in Content : Reject(p, x, shown)
  \/ \E p \in Conn \cup {Air}, x \in Cell, colour \in Colour : Build(p, x, colour)
  \/ \E x \in Cell, fallen \in SUBSET Cell :
       \E kept \in [Conn -> SUBSET fallen] : Dig(x, fallen, kept)
  \/ \E x \in falling : RecordFallen(x)
  \/ \E world \in Map : Rollover(world)

Spec == Init /\ [][Next]_vars

(* The fixed-step loop runs, and a handler that has begun goes on.         *)
FairSpec == Spec /\ WF_vars(Tick) /\ WF_vars(\E x \in Cell : RecordFallen(x))

-----------------------------------------------------------------------------
Entry(delay) == [cell : Cell, wait : 0..delay]
Sorted(lane) == \A j, k \in DOMAIN lane : j <= k => lane[j].wait <= lane[k].wait
Distinct(lane) == \A j, k \in DOMAIN lane : lane[j].cell = lane[k].cell => j = k
Lane(delay) == {lane \in Seq(Entry(delay)) : Sorted(lane) /\ Distinct(lane)}

\* Type invariant: the lanes share their limit and no cell, and are in the
\* order in which their entries fall due, so that a scan may stop at the first
\* that is not.
TypeOK ==
  /\ vxl \in Map /\ inGame \subseteq Conn /\ view \in [Conn -> Map]
  /\ pending \in Lane(Delay) /\ collapsing \in Lane(CollapseDelay)
  /\ Cells(pending) \cap Cells(collapsing) = {}
  /\ Len(pending) + Len(collapsing) <= Limit
  /\ falling \subseteq Cell /\ beat \in 0..(Interval - 1)
  /\ dismissed \subseteq Cell /\ edits \in 0..MaxEdits

Queued == Cells(pending) \cup Cells(collapsing)
Wrong(p) == {x \in Cell : view[p][x] # vxl[x]}

\* Whatever a player in game shows wrongly is still going to be corrected,
\* unless the queues have dropped it or discarded it as rebuilt.
WrongCellsAreQueued ==
  \A p \in inGame : Wrong(p) \subseteq Queued \cup falling \cup dismissed

\* A wrong cell is corrected in the end, unless it is dismissed or its player
\* leaves: the two lanes, their delays, batches and limit starve nobody.
WrongCellsHeal ==
  \A p \in Conn, x \in Cell :
    p \in inGame /\ x \in Wrong(p)
      ~> p \notin inGame \/ x \notin Wrong(p) \/ x \in dismissed

\* "Rebuilt cells are discarded at send time because their ordinary reliable
\* build packet is authoritative": with room for every cell, whatever a player
\* in game shows wrongly is going to be corrected.  The code breaks this: a
\* client that kept a fallen voxel ignores the build packet of the new one.
RebuiltCellsNeedNoRepair ==
  Limit >= Cardinality(Cell) =>
    \A p \in inGame : Wrong(p) \subseteq Queued \cup falling
=============================================================================
