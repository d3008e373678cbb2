---------------------------- MODULE TerrainView ----------------------------
(***************************************************************************)
(* What the join terrain catch-up promises, without saying how: joining is *)
(* one step.  A peer enters the set of live viewers holding exactly the    *)
(* canonical terrain of that moment, never between two cells of a batch,   *)
(* and from then on is shown every committed cell.                         *)
(***************************************************************************)
CONSTANTS
  Conn,   \* connection slots
  Cell,   \* voxel coordinates
  Value   \* what a voxel may hold

VARIABLES
  terrain,      \* the canonical map
  undelivered,  \* committed cells the viewers have not been shown yet
  shown         \* what each live viewer shows; its domain is the viewers

vars == <<terrain, undelivered, shown>>

Viewers == DOMAIN shown

Init ==
  /\ terrain \in [Cell -> Value]
  /\ undelivered = {}
  /\ shown = [c \in {} |-> terrain]

\* A batch of cells is committed.
Commit(cells, after) ==
  /\ \A x \in Cell \ cells : after[x] = terrain[x]
  /\ terrain' = after
  /\ undelivered' = undelivered \cup cells
  /\ UNCHANGED shown

\* One committed cell reaches every viewer.
Deliver(x) ==
  /\ x \in undelivered
  /\ undelivered' = undelivered \ {x}
  /\ shown' = [c \in Viewers |-> [shown[c] EXCEPT ![x] = terrain[x]]]
  /\ UNCHANGED terrain

\* A peer becomes a viewer.
Join(c) ==
  /\ c \notin Viewers
  /\ undelivered = {}
  /\ shown' = [d \in Viewers \cup {c} |-> IF d = c THEN terrain ELSE shown[d]]
  /\ UNCHANGED <<terrain, undelivered>>

\* A viewer's connection ends.
Leave(c) ==
  /\ c \in Viewers
  /\ shown' = [d \in Viewers \ {c} |-> shown[d]]
  /\ UNCHANGED <<terrain, undelivered>>

Next ==
  \/ \E cells \in SUBSET Cell, after \in [Cell -> Value] : Commit(cells, after)
  \/ \E x \in Cell : Deliver(x)
  \/ \E c \in Conn : Join(c) \/ Leave(c)

Spec == Init /\ [][Next]_vars
=============================================================================
