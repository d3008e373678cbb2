------------------------------ MODULE GameTick ------------------------------
(***************************************************************************)
(* One fixed simulation tick and what the network task does around it: the *)
(* in-game packets of all peers in one bounded queue with a share for each *)
(* peer, the drain at the start of the tick, the one input row each player *)
(* consumes, and the terrain edits that are validated and paid for during  *)
(* the drain but committed after the physics of the frame they belong to.  *)
(*                                                                         *)
(* A packet handler may suspend, so that the network task runs between two *)
(* rows of a drained batch: connections go, players come, rows arrive and  *)
(* a rollover retires every player.  The rest of a tick does not suspend.  *)
(*                                                                         *)
(* One Connection holds one Player at a time; a Player is its connection   *)
(* and the number of the join.  Bots, whose edits are ready at once, and   *)
(* teams with infinite blocks are left out.                                *)
(***************************************************************************)
EXTENDS Integers, Sequences, FiniteSets, FiniteSetsExt, Functions

CONSTANTS
  Conn,           \* connections, each connects once
  Ids,            \* wire ids of players
  Cells,          \* voxels that can be built
  None,           \* no connection
  NoLoop,         \* last_applied_input_loop is None
  ConnectionCap,  \* max_pending_packets_per_connection
  MaxPending,     \* max_pending_packets
  DrainBudget,    \* packet_drain_budget
  MutationLimit,  \* world_mutation_queue_limit
  MutationBudget, \* world_mutation_batch_limit
  CellBudget,     \* world_mutation_cell_budget
  Timeout,        \* world_mutation_timeout_ticks
  Wallet,         \* block wallet of a new body, and its maximum
  MaxLoop,        \* bound: client frames of one connection
  MaxEdits,       \* bound: build packets of one connection
  MaxJoins,       \* bound: players of one connection
  MaxResets,      \* bound: respawns, restarts and rollovers
  MaxFaults       \* bound: edits whose apply raises

ASSUME TickAssumption ==
  /\ Ids \subseteq Nat \ {0}
  /\ IsFiniteSet(Ids) /\ IsFiniteSet(Cells)
  /\ None \notin Conn
  /\ NoLoop \notin Nat
  /\ ConnectionCap \in Nat \ {0} /\ MaxPending \in Nat \ {0}
  /\ DrainBudget \in Nat \ {0} /\ MutationLimit \in Nat \ {0}
  /\ MutationBudget \in Nat \ {0} /\ CellBudget \in Nat \ {0}
  /\ Timeout \in Nat \ {0} /\ Wallet \in Nat
  /\ MaxLoop \in Nat /\ MaxEdits \in Nat /\ MaxJoins \in Nat
  /\ MaxResets \in Nat /\ MaxFaults \in Nat

VARIABLES
  online,     \* connections that are registered
  id,         \* id of the connection's Player, 0 when it has none
  joins,      \* players the connection has had
  roster,     \* server.players: the connection whose Player holds the id
  frame,      \* the client's loop counter
  edits,      \* edits the client has sent
  queue,      \* _pending_ingame_packets
  counts,     \* _pending_ingame_counts
  batch,      \* the rows the drain has taken
  phase,      \* "idle" between ticks, "drain" or "commit"
  history,    \* input_history
  applied,    \* last_applied_input_loop
  blocks,     \* block wallet
  solid,      \* cells that are solid
  mutations,  \* WorldMutationService._pending
  ledger,     \* history: blocks taken, neither placed nor given back
  lost,       \* history: blocks of edits whose apply raised
  timeline,   \* history: restarts and rollovers
  resets,     \* bound: respawns, restarts and rollovers so far
  faults      \* bound: faults so far

peerVars == <<online, id, joins, roster>>
clientVars == <<frame, edits>>
queueVars == <<queue, counts>>
tickVars == <<batch, phase>>
bodyVars == <<history, applied>>
editVars == <<blocks, solid, mutations, ledger>>
tallyVars == <<lost, timeline, resets, faults>>
vars == <<peerVars, clientVars, queueVars, tickVars, bodyVars, editVars, tallyVars>>

InGame(c) == id[c] # 0
Rows(c) == Cardinality({k \in DOMAIN queue : queue[k].from = c})

Init ==
  /\ online = {}
  /\ id = [c \in Conn |-> 0] /\ joins = [c \in Conn |-> 0]
  /\ roster = [i \in Ids |-> None]
  /\ frame = [c \in Conn |-> 0] /\ edits = [c \in Conn |-> 0]
  /\ queue = <<>> /\ counts = [c \in Conn |-> 0]
  /\ batch = <<>> /\ phase = "idle"
  /\ history = [c \in Conn |-> {}] /\ applied = [c \in Conn |-> NoLoop]
  /\ blocks = [c \in Conn |-> 0] /\ solid = {} /\ mutations = <<>>
  /\ ledger = [c \in Conn |-> 0] /\ lost = [c \in Conn |-> 0]
  /\ timeline = 0 /\ resets = 0 /\ faults = 0

-----------------------------------------------------------------------------
(* Queues and the reservations of deferred edits.                          *)

(* The positions S of a queue, from front to back. *)
InOrder(S) ==
  {order \in Bijection(1..Cardinality(S), S) :
     \A j, k \in DOMAIN order : j < k => order[j] < order[k]}

Picked(s, order) == [k \in DOMAIN order |-> s[order[k]]]

(* The blocks that the edits at positions S have taken from c, each as the *)
(* position of its edit and its cell.                                      *)
Held(c, S) == {h \in S \X Cells : /\ mutations[h[1]].who = c
                                  /\ h[2] \in mutations[h[1]].cells}

Returned(c, S) ==
  Cardinality({h \in Held(c, S) : mutations[h[1]].join = joins[c]})

(* FAULT: a wallet that was refilled meanwhile overflows. *)
RefundPastTheCap(c, S) == blocks[c] + Returned(c, S)

(* The wallet of c after the edits S are cancelled: a cancel gives back    *)
(* what the request took, to the body of that request.                     *)
Refund(c, S) == IF blocks[c] + Returned(c, S) > Wallet THEN Wallet
                ELSE blocks[c] + Returned(c, S)

(* The edits in cancelled are given back, those in placed are built. *)
Settle(cancelled, placed) ==
  /\ blocks' = [c \in Conn |-> Refund(c, cancelled)]
  /\ ledger' = [c \in Conn |-> ledger[c] - Cardinality(Held(c, cancelled \cup placed))]
  /\ solid' = solid \cup UNION {mutations[k].cells : k \in placed}

OwnedBy(i) == {k \in DOMAIN mutations : mutations[k].owner = i}

(* FAULT: the edits are dropped, not cancelled. *)
CancelUnpaid(S) ==
  /\ \E order \in InOrder(DOMAIN mutations \ S) : mutations' = Picked(mutations, order)
  /\ UNCHANGED <<blocks, ledger, solid>>

(* cancel_owner, cancel_all *)
Cancel(S) ==
  /\ Settle(S, {})
  /\ \E order \in InOrder(DOMAIN mutations \ S) : mutations' = Picked(mutations, order)

-----------------------------------------------------------------------------
(* Peers.                                                                  *)

NetworkRuns == phase \in {"idle", "drain"}

Connect(c) ==
  /\ NetworkRuns
  /\ joins[c] = 0 /\ c \notin online
  /\ online' = online \cup {c}
  /\ joins' = [joins EXCEPT ![c] = 1]
  /\ UNCHANGED <<id, roster, clientVars, queueVars, tickVars, bodyVars, editVars,
                 tallyVars>>

(* The connection's handshake ends in a Player on the lowest free id. *)
Join(c) ==
  /\ NetworkRuns
  /\ c \in online /\ ~InGame(c) /\ joins[c] <= MaxJoins
  /\ \E i \in Ids :
       /\ roster[i] = None
       /\ \A j \in Ids : j < i => roster[j] # None
       /\ id' = [id EXCEPT ![c] = i]
       /\ roster' = [roster EXCEPT ![i] = c]
  /\ blocks' = [blocks EXCEPT ![c] = Wallet]
  /\ history' = [history EXCEPT ![c] = {}]
  /\ applied' = [applied EXCEPT ![c] = NoLoop]
  /\ UNCHANGED <<online, joins, clientVars, queueVars, tickVars, solid, mutations,
                 ledger, tallyVars>>

(* FAULT: the edits stay behind. *)
DisconnectKeepingEdits(c) ==
  /\ NetworkRuns
  /\ c \in online
  /\ online' = online \ {c}
  /\ \E order \in InOrder({k \in DOMAIN queue : queue[k].from # c}) :
       queue' = Picked(queue, order)
  /\ counts' = [counts EXCEPT ![c] = 0]
  /\ id' = [id EXCEPT ![c] = 0]
  /\ roster' = [i \in Ids |-> IF i = id[c] THEN None ELSE roster[i]]
  /\ UNCHANGED <<joins, clientVars, tickVars, bodyVars, editVars, tallyVars>>

(* _on_disconnect_sync: the rows the peer has queued go, and forget_player *)
(* cancels its edits before its id is free.                                *)
Disconnect(c) ==
  /\ NetworkRuns
  /\ c \in online
  /\ online' = online \ {c}
  /\ \E order \in InOrder({k \in DOMAIN queue : queue[k].from # c}) :
       queue' = Picked(queue, order)
  /\ counts' = [counts EXCEPT ![c] = 0]
  /\ id' = [id EXCEPT ![c] = 0]
  /\ roster' = [i \in Ids |-> IF i = id[c] THEN None ELSE roster[i]]
  /\ Cancel(IF InGame(c) THEN OwnedBy(id[c]) ELSE {})
  /\ UNCHANGED <<joins, clientVars, tickVars, bodyVars, tallyVars>>

-----------------------------------------------------------------------------
(* The packet queue.                                                       *)

(* FAULT: shares outlive the rows. *)
SharesAsCounted(c) == counts[c]

(* The shares a queue that was emptied elsewhere has left behind are void. *)
Shares(c) == IF queue = <<>> THEN 0 ELSE counts[c]

Accepts(c) == Shares(c) < ConnectionCap /\ Len(queue) < MaxPending

(* _queue_ingame_packet *)
Receive(c, row) ==
  IF Accepts(c)
  THEN /\ queue' = Append(queue, row)
       /\ counts' = [d \in Conn |-> Shares(d) + IF d = c THEN 1 ELSE 0]
  ELSE /\ counts' = [d \in Conn |-> Shares(d)]
       /\ UNCHANGED queue

Row(c, kind, loop, cells) ==
  [from |-> c, kind |-> kind, loop |-> loop, cells |-> cells, line |-> timeline]

(* ClientData of the next client frame. *)
SendInput(c) ==
  /\ NetworkRuns
  /\ InGame(c) /\ frame[c] < MaxLoop
  /\ frame' = [frame EXCEPT ![c] = @ + 1]
  /\ Receive(c, Row(c, "input", frame[c] + 1, {}))
  /\ UNCHANGED <<peerVars, edits, tickVars, bodyVars, editVars, tallyVars>>

(* A BlockLine of the frame whose ClientData goes out next. *)
SendLine(c, cells) ==
  /\ NetworkRuns
  /\ InGame(c) /\ edits[c] < MaxEdits
  /\ edits' = [edits EXCEPT ![c] = @ + 1]
  /\ Receive(c, Row(c, "line", frame[c] + 1, cells))
  /\ UNCHANGED <<peerVars, frame, tickVars, bodyVars, editVars, tallyVars>>

(* The command /restart of an administrator. *)
SendRestart(c) ==
  /\ NetworkRuns
  /\ InGame(c) /\ resets < MaxResets
  /\ Receive(c, Row(c, "restart", frame[c] + 1, {}))
  /\ resets' = resets + 1
  /\ UNCHANGED <<peerVars, clientVars, tickVars, bodyVars, editVars, lost,
                 timeline, faults>>

-----------------------------------------------------------------------------
(* The drain.                                                              *)

(* A tick begins: the drain takes the rows its budget allows and returns   *)
(* their shares; every pending edit is a tick older.                       *)
BeginTick ==
  /\ phase = "idle"
  /\ phase' = "drain"
  /\ LET n == IF Len(queue) < DrainBudget THEN Len(queue) ELSE DrainBudget
         taken == SubSeq(queue, 1, n)
         left == SubSeq(queue, n + 1, Len(queue))
         Drawn(c) == Cardinality({k \in DOMAIN taken : taken[k].from = c})
     IN  /\ batch' = taken
         /\ queue' = left
         /\ counts' = IF n = 0 THEN counts
                      ELSE [c \in Conn |-> IF left = <<>> THEN 0
                                           ELSE IF counts[c] < Drawn(c) THEN 0
                                           ELSE counts[c] - Drawn(c)]
  /\ mutations' = [k \in DOMAIN mutations |->
                    [mutations[k] EXCEPT !.age = IF @ < Timeout THEN @ + 1 ELSE @]]
  /\ UNCHANGED <<peerVars, clientVars, bodyVars, blocks, solid, ledger, tallyVars>>

Row1 == Head(batch)

(* The checks at the consumption boundary, after every suspension. *)
Current(c) == c \in online /\ (InGame(c) => roster[id[c]] = c)

SkipRow ==
  /\ phase = "drain" /\ batch # <<>>
  /\ ~Current(Row1.from) \/ ~InGame(Row1.from)
  /\ batch' = Tail(batch)
  /\ UNCHANGED <<peerVars, clientVars, queueVars, phase, bodyVars, editVars, tallyVars>>

Handles(kind) ==
  /\ phase = "drain" /\ batch # <<>>
  /\ Row1.kind = kind
  /\ Current(Row1.from) /\ InGame(Row1.from)
  /\ batch' = Tail(batch)

HandleInput ==
  /\ Handles("input")
  /\ LET c == Row1.from
     IN  history' = [history EXCEPT ![c] =
           IF applied[c] # NoLoop /\ Row1.loop <= applied[c] THEN @
           ELSE @ \cup {Row1.loop}]
  /\ UNCHANGED <<peerVars, clientVars, queueVars, phase, applied, editVars, tallyVars>>

(* handle_block_line pays for the cells that are not solid yet and queues  *)
(* the edit, which a full queue cancels at once.  A request may also be    *)
(* refused for reach, sight, support or cadence.                           *)
HandleLine ==
  /\ Handles("line")
  /\ LET c == Row1.from
         cells == Row1.cells \ solid
         cost == Cardinality(cells)
         edit == [owner |-> id[c], who |-> c, join |-> joins[c], loop |-> Row1.loop,
                  cells |-> cells, cost |-> cost, age |-> 0]
         accepted == cells # {} /\ blocks[c] >= cost
     IN  \/ /\ accepted /\ Len(mutations) < MutationLimit
            /\ blocks' = [blocks EXCEPT ![c] = @ - cost]
            /\ ledger' = [ledger EXCEPT ![c] = @ + cost]
            /\ mutations' = Append(mutations, edit)
         \/ UNCHANGED <<blocks, ledger, mutations>>
  /\ UNCHANGED <<peerVars, clientVars, queueVars, phase, bodyVars, solid, tallyVars>>

-----------------------------------------------------------------------------
(* Physics and commit.                                                     *)

(* simulate_tick consumes the oldest row, or refills the next label when   *)
(* it is missing.                                                          *)
Consumed(c) ==
  LET rows == {l \in history[c] : applied[c] = NoLoop \/ l > applied[c]}
  IN  IF ~InGame(c) \/ rows = {} THEN applied[c]
      ELSE IF applied[c] = NoLoop THEN Min(rows)
      ELSE applied[c] + 1

Simulate ==
  /\ phase = "drain" /\ batch = <<>>
  /\ phase' = "commit"
  /\ applied' = [c \in Conn |-> Consumed(c)]
  /\ history' = [c \in Conn |-> {l \in history[c] : Consumed(c) = NoLoop
                                                    \/ l > Consumed(c)}]
  /\ UNCHANGED <<peerVars, clientVars, queueVars, batch, editVars, tallyVars>>

Ready(m) == LET c == roster[m.owner]
            IN  applied[c] # NoLoop /\ applied[c] >= m.loop

(* FAULT: no timeout. *)
NeverExpired(m) == roster[m.owner] = None

Expired(m) == roster[m.owner] = None \/ m.age >= Timeout

(* What the budget of a tick leaves for the edit at position k after those *)
(* of the set done in front of it.                                         *)
Fits(k, done) ==
  LET before == {j \in done : j < k}
  IN  /\ Cardinality(before) < MutationBudget
      /\ Cardinality({h \in before \X Cells : h[2] \in mutations[h[1]].cells})
           + mutations[k].cost <= CellBudget

Applies(k, done) ==
  ~Expired(mutations[k]) /\ Ready(mutations[k]) /\ Fits(k, done)

(* commit_ready over the positions scanned, from front to back: done are   *)
(* applied; of these, the blocked are cancelled after all, for a body      *)
(* stands in their cells by now; and what has expired is cancelled.        *)
Scans(scanned, done, blocked) ==
  /\ \A k \in scanned : k \in done <=> Applies(k, done)
  /\ Settle({k \in scanned : Expired(mutations[k])} \cup blocked, done \ blocked)

(* What a scan puts back. *)
Kept(scanned, done) == {k \in scanned \ done : ~Expired(mutations[k])}

CommitReady ==
  /\ phase = "commit"
  /\ phase' = "idle"
  /\ LET all == DOMAIN mutations
     IN  \E done \in SUBSET all : \E blocked \in SUBSET done :
           /\ Scans(all, done, blocked)
           /\ \E order \in InOrder(Kept(all, done)) : mutations' = Picked(mutations, order)
  /\ UNCHANGED <<peerVars, clientVars, queueVars, batch, bodyVars, tallyVars>>

(* An apply raises: the scan ends there, the edit is neither placed nor    *)
(* cancelled, and those behind it are now in front of those it had put     *)
(* back.  The tick goes on without the rest of the service.                *)
CommitRaises ==
  /\ phase = "commit" /\ faults < MaxFaults
  /\ phase' = "idle"
  /\ faults' = faults + 1
  /\ \E k \in DOMAIN mutations :
       LET front == 1..(k - 1)
       IN  \E done \in SUBSET front : \E blocked \in SUBSET done :
             /\ Applies(k, done)
             /\ Scans(front, done, blocked)
             /\ lost' = [lost EXCEPT ![mutations[k].who] = @ + mutations[k].cost]
             /\ \E order \in InOrder(Kept(front, done)) :
                  mutations' = SubSeq(mutations, k + 1, Len(mutations))
                               \o Picked(mutations, order)
  /\ UNCHANGED <<peerVars, clientVars, queueVars, batch, bodyVars, timeline, resets>>

-----------------------------------------------------------------------------
(* Lives, rounds and sessions.                                             *)

(* Player.spawn *)
Spawned(S) ==
  /\ history' = [c \in Conn |-> IF c \in S THEN {} ELSE history[c]]
  /\ applied' = [c \in Conn |-> IF c \in S THEN NoLoop ELSE applied[c]]

(* A death and the respawn; the edits of the old life stay. *)
Respawn(c) ==
  /\ phase = "idle" /\ resets < MaxResets
  /\ InGame(c)
  /\ Spawned({c})
  /\ blocks' = [blocks EXCEPT ![c] = Wallet]
  /\ resets' = resets + 1
  /\ UNCHANGED <<peerVars, clientVars, queueVars, tickVars, solid, mutations,
                 ledger, lost, timeline, faults>>

(* restart_round discards the old timeline's queue, reset_round_runtime    *)
(* cancels every edit, and every player is respawned.                      *)
RestartRound ==
  /\ queue' = <<>>
  /\ mutations' = <<>>
  /\ ledger' = [c \in Conn |-> ledger[c] - Cardinality(Held(c, DOMAIN mutations))]
  /\ blocks' = [c \in Conn |-> IF InGame(c) THEN Wallet ELSE blocks[c]]
  /\ Spawned({c \in Conn : InGame(c)})
  /\ timeline' = timeline + 1
  /\ UNCHANGED <<peerVars, clientVars, counts, solid, lost, faults>>

(* The command is handled inside the drain. *)
HandleRestart ==
  /\ Handles("restart")
  /\ RestartRound
  /\ UNCHANGED <<phase, resets>>

(* The end of a match restarts the round from a task of its own. *)
MatchRestart ==
  /\ NetworkRuns /\ resets < MaxResets
  /\ resets' = resets + 1
  /\ RestartRound
  /\ UNCHANGED tickVars

(* _rollover detaches every player, cancelling its edits, and discards the *)
(* queue; the peers join again.                                            *)
Rollover ==
  /\ NetworkRuns /\ resets < MaxResets
  /\ resets' = resets + 1
  /\ id' = [c \in Conn |-> 0]
  /\ roster' = [i \in Ids |-> None]
  /\ joins' = [c \in Conn |-> IF InGame(c) THEN joins[c] + 1 ELSE joins[c]]
  /\ queue' = <<>>
  /\ Cancel(DOMAIN mutations)
  /\ timeline' = timeline + 1
  /\ UNCHANGED <<online, clientVars, counts, tickVars, bodyVars, lost, faults>>

Handle == SkipRow \/ HandleInput \/ HandleLine \/ HandleRestart
Tick == BeginTick \/ Handle \/ Simulate \/ CommitReady

Next ==
  \/ \E c \in Conn : Connect(c)
  \/ \E c \in Conn : Join(c)
  \/ \E c \in Conn : Disconnect(c)
  \/ \E c \in Conn : SendInput(c)
  \/ \E c \in Conn, cells \in (SUBSET Cells) \ {{}} : SendLine(c, cells)
  \/ \E c \in Conn : SendRestart(c)
  \/ \E c \in Conn : Respawn(c)
  \/ BeginTick
  \/ SkipRow
  \/ HandleInput
  \/ HandleLine
  \/ HandleRestart
  \/ Simulate
  \/ CommitReady
  \/ CommitRaises
  \/ MatchRestart
  \/ Rollover

Spec == Init /\ [][Next]_vars

(* The fixed-step loop runs while the server runs. *)
FairSpec == Spec /\ WF_vars(Tick)

-----------------------------------------------------------------------------
Reserved(c) == Cardinality(Held(c, DOMAIN mutations))

RowShape == [from : Conn, kind : {"input", "line", "restart"}, loop : Nat,
             cells : SUBSET Cells, line : Nat]
EditShape == [owner : Ids, who : Conn, join : Nat, loop : Nat,
              cells : SUBSET Cells, cost : Nat, age : Nat]

(* Type invariant; the queues keep to their limits. *)
TypeOK ==
  /\ online \subseteq Conn
  /\ id \in [Conn -> Ids \cup {0}] /\ joins \in [Conn -> Nat]
  /\ roster \in [Ids -> Conn \cup {None}]
  /\ frame \in [Conn -> Nat] /\ edits \in [Conn -> Nat]
  /\ queue \in Seq(RowShape) /\ batch \in Seq(RowShape)
  /\ Len(queue) <= MaxPending
  /\ counts \in [Conn -> Nat]
  /\ phase \in {"idle", "drain", "commit"}
  /\ history \in [Conn -> SUBSET Nat] /\ applied \in [Conn -> Nat \cup {NoLoop}]
  /\ blocks \in [Conn -> 0..Wallet] /\ solid \subseteq Cells
  /\ mutations \in Seq(EditShape) /\ Len(mutations) <= MutationLimit
  /\ ledger \in [Conn -> Int] /\ lost \in [Conn -> Nat]
  /\ timeline \in Nat /\ resets \in Nat /\ faults \in Nat

(* Every block taken for an edit is placed or given back exactly once,     *)
(* whatever ends the edit: the commit, a full queue, a timeout, a body in  *)
(* the way, a departure, a restart - but for edits whose apply raised,     *)
(* which nobody settles (world_mutations.py:141).                          *)
ReservationsSettleOnce ==
  \A c \in Conn : ledger[c] = Reserved(c) + lost[c]

(* A pending edit belongs to the Player that holds its id now: an id that  *)
(* is reused never pays for, or is charged with, the edit of the player    *)
(* that had it before (world_mutations.py:154), and no row of a peer that  *)
(* has gone is left in the queue.                                          *)
NothingOutlivesItsOwner ==
  /\ \A k \in DOMAIN mutations :
       LET m == mutations[k]
       IN  roster[m.owner] = m.who /\ id[m.who] = m.owner /\ joins[m.who] = m.join
  /\ \A k \in DOMAIN queue : queue[k].from \in online

(* A packet is refused only to a peer that has its whole share in the      *)
(* queue, or when the queue is full: shares are returned by the drain, by  *)
(* a disconnect and after somebody else has emptied the queue.             *)
OnlyFloodersAreRefused ==
  [][\A c \in Conn :
       (frame'[c] # frame[c] \/ edits'[c] # edits[c]) /\ queue' = queue
         => Rows(c) = ConnectionCap \/ Len(queue) = MaxPending]_vars

(* Everything that was queued is consumed, and every edit is committed or  *)
(* cancelled, also one whose owner never reaches its frame.                *)
EverythingSettles == <>[](queue = <<>> /\ mutations = <<>>)

(* "Drop inputs and mode callbacks stamped against the prior timeline"     *)
(* (match/__init__.py:701): no packet received before a restart or a       *)
(* rollover is handled after it.                                           *)
OldTimelineIsDropped ==
  [][HandleInput \/ HandleLine => Row1.line = timeline]_vars
=============================================================================
