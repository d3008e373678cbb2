# BattleSpades in TLA+

Specifications, model-checking configurations and proofs for the BattleSpades
server (an authoritative game server in Python: asyncio, ENet, a voxel map, many
game modes, AI bots). Everything here is translated from the code under `src/`;
`PROJECT.json` names, for each definition, the lines it stands for.

Contents: [the system](#the-system), [the modules](#the-modules),
[what is checked](#what-is-checked), [what is proved](#what-is-proved),
[disagreements with the code](#disagreements-with-the-code),
[what is not modelled](#what-is-not-modelled), [plan](#plan).

## The system

One asyncio event loop runs nearly everything. A handler without an `await` is
atomic; the hard behaviour is at the awaits (compression in a worker thread, the
grace sleep of a map change, the identity service, HTTP), in the order packets and
disconnects are serviced, and in the threads and processes that plan for the bots.

| Component | State | Operations | Talks to | What is hard, and what makes it correct |
|---|---|---|---|---|
| Join terrain catch-up (`main.py`, `connection.py`, `world_manager.py`, `terrain_repair.py`) | canonical VXL, air overrides, topology version, bounded journal, per-connection watermark, overflow flag and replay leases, cache of compressed chunks | commit cells, publish to journal and viewers, snapshot, compress, replay at first ClientData, prune | construction, prefabs, modes edit the map; the peer's loader | edits while a snapshot is compressed or loaded; an admitted peer must show exactly the canonical map |
| Player ids (`main.py`, `connection.py`, `bot_ai/director.py`) | roster, reserved ids, `reserved_player_id` of each connection | promise an id, take it, release it, evict a bot, detach and re-admit all at a rollover | match transition, bots | an id has one owner, and is released exactly once |
| Match transition (`match/__init__.py`, `modes/base_mode.py`) | the lock, the request task, the end sequence, `_scene_transition_ready`, world and mode | request, prepare, roll over, roll back, restart | every connection, the mode, the voting | peers that connect, join, leave or stay silent meanwhile; operations that overlap |
| Round results (`revival_master.py`, `result_outbox.py`, `scoreboard.py`) | counters and baselines, departed, records, memory queue, SQLite outbox | capture, persist, post, acknowledge, close | disconnects, scoreboard, master server | each point is credited exactly once across departures, retries and crashes |
| Bot director (`bot_ai/director.py`) | bot roster and generations, map and mode epochs, reconnect roster | add, remove, submit frames, adopt intents, end a game, restart, rebind to a new world | world commits, AI supervisors, player ids | an intent may come back for a bot, a map or a game that is gone |
| AI thread supervisor (`bot_ai/thread_supervisor.py`, `simple_worker.py`) | frames per observer, terrain base and overlay, intent queue, one lock; the worker's private world and routes | publish, take a batch, answer, discard, restart | director, worker thread | commits told cell by cell while the worker takes batches; batches and threads that fail |
| AI process supervisor (`bot_ai/supervisor.py`, `snapshot_transport.py`, `worker.py`) | coalesced frames and terrain, chunked transfers, two bounded pipes, watchdog | coalesce, stream, receive, kill, respawn | gameplay thread, child process | half-sent snapshots, a kill racing an answer, a child that comes up with nothing |
| Simulation tick, packet queue (`main.py`, `connection.py`) | bounded deque with a share per peer, input history, phase of the tick | receive, drain, consume, step, commit edits | everything | peers leave, die, rejoin or are retired between two rows of a drained batch |
| World mutations (`world_mutations.py`, `combat_runtime.py`) | deferred block lines with reserved inventory | reserve, commit within a budget, retry, time out, cancel | map, players, tick | what was paid is placed or given back, once, to the player that paid |
| Voting (`voting.py`) | the ballot, votes by player id, deadline, match kicks, cooldowns, the result event | start, cast, expire, cancel, withdraw | match transition, disconnects | departures and id reuse during a ballot; a round that waits for a ballot |
| Terrain repair (`terrain_repair.py`) | two lanes of cells with due ticks, one limit | record a rejected edit or a collapse, drain, reset | combat runtime, tick, match transition, clients | what a client shows wrongly must wait in a lane, whatever is built, dug or dropped meanwhile |
| Replication, entity lifetime | wire ids, known ids per peer | create, destroy, snapshot | peers | reuse of ids |
| Game modes | objectives, timers, end sequence | many | all of the above | one party to transitions |
| Fleet, Steam, hosting; moderation; identity; codecs; bot planning; tools | processes, files | supervise, command, encode | the server | see [what is not modelled](#what-is-not-modelled) |

Interaction: `world_manager` calls the journal listener for every committed cell;
a connection's handshake captures world, mutation mark and player id; a rollover
reaches into all connections, the roster and the results bridge (`begin_round`);
a disconnect is the one place where journal, ids, roster and results are released
together. A world commit also notifies the bot director, which tells its worker;
the drain of a tick runs the handlers that build, vote, chat and join. `PROJECT.json` lists the hazards at their lines.

## The modules

| Module | Models |
|---|---|
| `TerrainView` | what joining promises, as one atomic step |
| `MapCatchup` | the journal, snapshots, cache, replay; implements `TerrainView` |
| `MapCatchupProofs` | theorems about `MapCatchup` |
| `PlayerSlots` | player ids across joins, bots and rollovers |
| `PlayerSlotsProofs` | theorems about `PlayerSlots` |
| `SceneTransition` | rollovers over retained connections |
| `AccountCredit` | what an account is promised for its points |
| `RoundResults` | credit of a round and its delivery; implements `AccountCredit` |
| `MatchProofs` | theorems about `SceneTransition`, and about `RoundResults` |
| `AIThreadSupervisor` | the in-process bot worker, its queues and its lock |
| `BotDirector` | the bot director, composed with `AIThreadSupervisor` |
| `BotDirectorProofs` | theorems about `BotDirector` and `AIThreadSupervisor` |
| `AIWorkerBridge` | the bot worker as a child process behind a bridge thread |
| `AIWorkerBridgeProofs` | theorems about `AIWorkerBridge` |
| `GameTick` | packet queue, drain, inputs and deferred terrain edits of one tick |
| `GameTickProofs` | theorems about `GameTick` |
| `TerrainRepair` | delayed confirmations of rejected edits and collapses |
| `TerrainRepairProofs` | theorems about `TerrainRepair` |
| `VoteManager` | kick and map ballots and the end sequence that waits for them |
| `VoteManagerProofs` | theorems about `VoteManager` |
| `MCMapCatchup`, `MCPlayerSlots`, `MCVoteManager` | authored maps and symmetry sets of small instances |

Definitions marked `FAULT` in the comment above them are plausible bugs; they are
not part of any specification. Each property is shown to notice one of them.

**MapCatchup.** `SetBlock` and `DestroyBlocks` commit cells; `Publish` is one call
of `_record_canonical_map_mutation` (sequence, journal row, limit, overflow, live
broadcast). `Connect`, `SendPreparedMap`, `CaptureMap`, `SendCompressedMap`,
`AbandonMap`, `NewPlayer`, `Kick`, `DropConnection`, `Disconnect` are the
handshake; `stage` goes through one ClientData: the air replay, the lease and the
cells it still has to send (`left`), a send that raises, admission. The two
handlers that have no await but many effects (a batch commit, a reveal) are
several steps during which no other handler runs (`Quiet`). A peer's view is what
it shows once its ordered, reliable channel has been processed. Colours are
abstract; the validation and settle waits are one wait; the packet-level
fallback journal, which no real connection reaches, is left out. With
`AirCatchup` the loader may keep authored content in destroyed cells, which is
why the air replay exists; without it the loader is exact.

**PlayerSlots.** `ClaimSlot` is `_claim_player_slot` with the eviction of a bot;
`reserved` is the server's set and `reservedId` each connection's field, which
the code lets disagree. A rollover is few steps because the code suspends only in
the grace and in the reloads; the reload tasks that one `gather` starts run their
first parts back to back (`toReload`, of which each task takes the head). A reload that
times out is a `Kick`.

**SceneTransition.** A world is an epoch: world and mode are replaced without an
await in between. `run` says where each of the operations (admin request, vote,
restart) is; `stage` how far each connection's join is; `scene` the epoch of the
last InitialInfo. Peers never owe an answer: a silent client simply takes no
step. Rollback is modelled from the grace. `overlooked` is an auxiliary variable.

**RoundResults.** Players live at addresses because the code keys baselines by
`id(player)`; an address is reused. `Capture` is `_capture_round_results` with all
its early returns and its refusal when the memory queue is full; `Depart` is the
disconnect handler, leave hooks included, which may end the round half way. The
result task is split where it awaits: `StartFlush`, `Persist` (the transaction,
then popping the snapshot), `Load`, `Deliver` or `PostFails`, `Acknowledge`.
`Close`, `Cancel`, `Exit` are the shutdown: cancelling waits for SQLite but not for
the HTTP thread, whose event may still arrive. `Crash` loses the memory and keeps
the outbox. `RetirePlayers`, `BeginRound`, `StartServer` start another match. `Without` is a
queue less some of its events, as `put_many`, the popping of a snapshot and `acknowledge` leave it.
`Due` counts the points of an account one by one (`PointsOf`), which is their
sum. A counter stands for kills, deaths, captures and score. The master
is external: it keeps one copy of an event id; checkpoints (`cumulative`) of a
match replace one another, other reports are added.

**AIThreadSupervisor.** A method of the supervisor holds the lock, so it is one
step. The worker holds it only to take a batch and to deliver intents, so a batch is
`TakeBatch`, `LoadSnapshot` or `RejectSnapshot`, `ApplyChanges` and `DeliverIntents`;
the batch may fail or the thread die at each of them (`BatchFails`, `ThreadDies`). Terrain is the number of the last commit that wrote a cell, so "the
worker has the terrain" means the very commit. The worker's `stamps` are the versions
its routes are compared with.

**BotDirector** extends it: one set of variables for both threads. `Commit` and
`OnWorldMutation` are a commit and its notifications: the worker is told cell by
cell, each in a critical section of its own, and may take a batch between two
(`unpublished`). Adding and removing bots, submitting frames, draining intents,
the end of a game, a rollover with the retired roster reconnected, and the
recovery of a dead worker are actions of the gameplay thread.

**AIWorkerBridge.** Three actors: the gameplay thread coalesces (`PublishWorldChange`,
`SubmitFrame`, `PublishMap` and the discard it ends with), the bridge thread is
one loop cut at every lock, put and get (`at` is where it is), the child reads,
answers, hangs or dies. A child takes a batch and answers it in one step, for
nothing shared happens in between. Transfers are encoded once and resumed chunk
by chunk; `FreshPipes` is a new child. `Readings` is what the child is after each record
of its pipe, `ReadAll` what it will be at the end. The frames of a batch are taken by their
positions in order (`InOrder`, `Picked`). Clocks are abstract: one that runs may run out.

**GameTick.** `Receive` queues a row or refuses it by the share; `BeginTick` takes
up to the budget; a row that suspends lets the network task run (connect, leave,
respawn, restart, rollover) before the next; then each player consumes one input,
steps, and the edits of reached frames are committed within the budgets, retried,
timed out or cancelled. A pass of the commit looks at the queue by positions (`Scans`): an
edit is placed, cancelled because it has expired or somebody stands in its cells, or put back. `blocks` and
`ledger` say where each paid block is, `Held` which are in the queue.

**VoteManager.** Ballots are kept by player id, as in the code; `people` is a
history variable that remembers who held these ids. The end sequence is split
where it sleeps or waits (`sequence`).

**TerrainRepair.** `RecordCell` and `RecordCollapseCell` are one cell of `record_cells`
and `record_collapse_cells`, with the limit that follows each; the cells of a collapse
are recorded one by one, in any order, while nothing else runs. An entry's `wait` is its
due tick less the current one. `Tick` is the whole of `tick`: idle, no recipient, or a
batch of each lane (`IsBatch` is the scan that stops at the first entry that is not
due or at a full batch). `Reject`, `Build` and `Dig` are the edits, told to clients at
once; what a client makes of them depends on what it shows, as the comments of the
code measured it: a coloured build is ignored on a solid voxel, and a client whose
topology differs may keep part of a collapse. A client that lets too much fall is left
out: nothing in the server corrects it. `dismissed` is a history variable.

## What is checked

Each run takes at most about two minutes with two workers.

| Run | Bounds | Shows |
|---|---|---|
| `join_catchup` | 2 connections, 2 cells, journal of 2, 3 commits, loaders that keep authored content | safety of the catch-up and of its air replay, and that `MapCatchup` implements `TerrainView` |
| `join_resolves` | 2 connections, 1 cell, journal of 1, 2 commits, 1 failing send | every join ends, with the compression lock and the journal shared |
| `player_slots` | 3 peers, 3 ids, 2 bots, 2 rollovers | no ghosts in the roster; ids exclusive and promises released until a rollover has run |
| `scene_transition` | 2 peers, 2 installed worlds | carried peers settle, operations are single-flight and end |
| `round_results` | 2 accounts, 2 addresses, 2 Players, 2 matches, 2 points, memory queue of 2, outbox of 2, batches of 1 | reports are exact, and credit only grows, up to what was earned (`AccountCredit`); events owned, stored until accepted, and delivered at last |
| `bot_worker` | 1 bot that joins once and is reconnected, 2 cells told one by one, 2 maps, 2 frames, 1 fault | no terrain change is lost, intents reach only the bot, map and game they are for, in order; the worker comes back |
| `worker_bridge` | 1 bot, 2 cells with 2 contents, pipes of 2, 1 chunk, 2 events, 2 troubles | the child's stream ends with the terrain as it is; kills have a cause; frames stay in order; a child comes up with the current world |
| `game_tick` | 2 connections, ids 1 and 2, 1 cell, share of 1, queue of 2, timeout of 2, a wallet of 1, 2 joins, 1 reset, 1 fault | reservations are settled once, nothing outlives its owner, only flooders are refused, all edits settle |
| `votes` | 3 connections, 3 ids, 5 joins, 3 ballots, 3 rounds | a ballot never passes to a newcomer; a round ends with its own result |
| `terrain_repair` | 1 player, bots that build, 3 cells of 2 colours, lanes of 2, delays 2 and 1, batches of 1, 3 edits | a wrong voxel is never forgotten, and is corrected unless dropped or discarded |
| `duplicate_ids`, `stale_packets` | as small as shows it | the disagreements below |

Why the bounds suffice for the interesting cases. A journal of two rows against
three commits overflows, is pruned for one reader while another waits, and is
contiguous or not; two connections share the compression lock and the cache, and
each slot is reused. Three ids for three peers and two bots force evictions and a
full server; two rollovers let what the first leaves behind meet the second.
Two Players at two addresses include the return of an account, two Players of
one account, and an address with an old baseline; an outbox of two rows is
full, and overfilled by a batch. A commit of two cells is the smallest that is told in two
critical sections, and a second map the smallest timeline to be discarded; the
fault meets any of the worker's steps. A pipe of two records is filled by a
snapshot of a header and one chunk, two pending cells pass the threshold of a full snapshot, one
cell goes as a delta; two troubles let a kill meet a dead child, a discard or a
recycle; the bridge takes one frame at once there, 16 in the code, and any number in the
theorems. The bridge's safety has also been checked with three events and one trouble, on one cell, and
two events and two troubles on two. A share of one and a queue of two tell a flooder from an honest peer; a
wallet of one makes each reservation refuse the next; two joins reuse an id and
a connection. Five joins of three connections hand the id of a ballot's target, of its starter and of
a voter to somebody else. Three cells for lanes of two overflow
them, with a collapse of two cells and a rebuilt one; the repair has also been checked with two players on
two cells, with lanes of one, and with an interval of two ticks. Every bound that is not the program's is a
constant whose comment says "bound".

Fairness. `MapCatchup`: the listener loop of a commit goes on (weak); a handshake
or reveal that is possible again and again is made, because the lock is first
come first served and the inbox is ordered (strong); a client
whose link is up answers its loader and keeps sending ClientData; ENet reports a
disconnect that was asked for. `SceneTransition`: only tasks that are awake and waits the
code bounds by a timeout, never a client's answer. `RoundResults`: heartbeats and the
task go on, a stopped server is started again, and a master that is asked again
and again accepts (strong). `BotDirector`: the gameplay thread ticks, so it starts the
supervisor, goes on with the notifications of a commit, ends a transition and
recovers a dead worker, and a live worker goes on with its batch; no batch is
assumed to succeed. `GameTick`: only that the fixed-step loop runs. `AIWorkerBridge`:
each thread goes on (weak), and a child that does not hang; an answer reaches the bridge
at last, and a clock that is running whenever it is looked at runs out (strong).
`TerrainRepair`: the fixed-step loop ticks and a collapse is recorded to the end (weak).
Nothing is assumed of clients, of how often the terrain changes, or of a child that hangs.

Deadlock is checked where the server always has a next step. It is not in
`bot_worker`, `worker_bridge`, `game_tick` and `votes` (and their violation runs), where the bounds on frames, joins and
ballots end behaviours.

## What is proved

`MapCatchupProofs` proves, for any set of connections and cells, any journal limit
and both settings of the air catch-up:

- `TypeCorrect`: `Spec => []TypeOK`;
- `Invariance`: `Spec => []IInv`, from which `NoEditIsLost` (an admitted peer
  shows the canonical map, but for the batch being published), `JournalIsContiguous`
  and `CacheIsExact` (prepared chunks are reused only for the map they were made from);
- `WatermarksAdvance`: the action property;
- `Refinement`: `MapCatchup` implements `TerrainView`.

From the assumptions of `MapCatchup` only: `Air` is not a colour, the authored map
is a map, `None` is not a connection, limits are positive numbers.

The argument. `AdmittedSeesCanonical` is not inductive, because it says nothing of
peers that are still loading. `IInv` adds `LoadersCovered`: what such a peer will
show wrongly (from the snapshot being compressed for it, or from what it was sent)
is among the cells it is still going to be sent: the batch being published, the
rest of its air replay, the rest of its lease, the journal rows beyond its
lease or its watermark. That is preserved only if no row a peer needs is dropped
(`JournalCoversJoiners`: the journal is contiguous from the watermark of every
peer that is not condemned), and if reused chunks are those of the current
revision (`SnapshotsAgree`). `PhasesAgree`, `RevealsAgree` and `Bounds` tie the
handshake, the reveal and the numbers together. At admission nothing is left to
be sent, so nothing is wrong. The refinement follows: of all steps of a join only
admission changes the abstract state, and the invariant makes it `Join`.

`TerrainRepairProofs` proves, for any cells, colours, players, delays, batches, limit and interval:

- `TypeCorrect`: the lanes keep within their shared limit, share no cell and stay
  sorted by the tick their entries fall due, so that the scan of `tick` may stop at
  the first that is not;
- `NothingWrongIsForgotten`: `Spec => []WrongCellsAreQueued`.

The two invariants are inductive together. The first half of the module says what each
helper does to a lane (`WithoutLane`, `AppendLane`, `SubLane`, `AgedLane`,
`AfterLane`) and to the book of both lanes (`EnforceOrderly`, `RecordOrderly`: a record forgets
nothing); then there is one lemma for each action. Both use only `RepairAssumption`: a colour is not
`Air` and the numbers are positive.

`VoteManagerProofs` proves, for any connections, ids and bounds:

- `TypeCorrect`: in particular the target of a kick never has a vote, and the event is
  unset exactly while a map ballot is open;
- `BallotsNameTheirPeople`: `Spec => []BallotNamesItsPeople`, ids reused at once notwithstanding;
- `RoundsEndWithTheirVote`: `Spec => []RoundEndsWithItsVote`.

Three facts make them inductive. `Roles`: only a kick has a target and a starter, so the
departure of either can never cancel a map ballot. `Staged`: a result is this round's
until the end sequence takes it, and between the end of a round and that moment there is
a map ballot or a result. Also in `Staged`: the ballot that is awaited is the latest one,
since none is opened while the end sequence runs; the waiter is therefore never woken
by, or for, another. All ways to end a ballot go through the lemma `EndsInv`. From
`VoteAssumption` only: ids are positive, `None` is something else, the bounds are numbers.

`PlayerSlotsProofs` proves, for any peers, ids, bots and rollovers:

- `TypeCorrect`: the roster names no connection twice;
- `NoGhostEver`: `Spec => []RosterHasNoGhosts`, through rollovers and rollbacks;
- `OneOwnerAtFirst` and `NoPromiseLeaksAtFirst`: ids are exclusive, and promises
  released, until the first rollover.

The roster is right because of what surrounds it. `RosterAgrees`: the connections it lists are those
that are not gone, each once. `CarriedAreOut`: a peer whose reload has not
started is retired, gone or back in its loader; none can get a Player meanwhile, so that
reloading it leaves no ghost. Exclusiveness needs `FirstMatch`, whose part `PromisesAreHeld` (what a
joining peer was told is reserved) is what a rollover breaks. From `SlotAssumption`.

`MatchProofs` proves of `SceneTransition`, for any peers and number of worlds:

- `TypeCorrect`, and `OperationsAreSingleFlight`: `Spec => []SingleFlight`;
- `ScenesSettle`: `Spec => []SettledScenes`.

Who is in the broadcasts is decided by what happened to its join long before, at the gate,
while an end sequence is cancelled, at the swap. `HeldPeers`: a peer the
rollover carries has left or had completed its join at the gate, and cannot get a new
Player. `Turned`: a peer it does not carry will not complete the join it was found in. `Current`: whoever is past
its loader is in the scene of this world, will be reloaded, or is `overlooked`. From `WorldAssumption`.

It proves of `RoundResults`, for any finite sets of accounts and addresses and any limits of the queues:

- `ResultsTypeCorrect`: the memory queue and the outbox keep within their limits;
- `CompletedRoundsAreExact`: `ResultSpec => []CompletedIsExact`;
- `RecordsStayOwned`: `ResultSpec => []RecordsAreOwned`;
- `NobodyIsOvercredited`: `ResultSpec => []NeverOvercredited`, which `AccountCredit` has too;
- `RowsAreStoredUntilAcknowledged`: the action property `StoredUntilAcknowledged`;
- `CreditRefinement`: `RoundResults` implements `AccountCredit`.

What an event may credit much later is settled when it is made, so `ResultIInv` is about the
books of the round. `AccountsAgree`: records, departed and what is due to the roster add up to what
was earned, until the round is completed; once a rollover has retired the Players, to no more
than that. A departure moves a share from the roster to the departed, a capture moves all of it to the records;
this rests on `RosterAgrees`: no baseline exceeds the counter of whoever lives at its address, also
when that is a newcomer. `SoundEvent`: an event, wherever it is, reports no more than was
earned in its match nor than the records of its round. `OneKind`: a match has checkpoints, or one report without
match evidence, never both, or the two would be added. `Reported`: each
record is the total of some event that counts. What the result task does (`MovesInv`) only moves events:
none that counts is lost, none appears. The credit of a set of events is then a maximum of numbers that are known to
be bounded (`CreditBelow`) and reached (`CreditIs`), and it grows with the set (`CreditGrows`), which is the refinement.
A sum of points is the size of a set of pairs of an address and a number (`PointsOf`), so that adding a point or taking
an address away is a step on finite sets (`PointsSplit`). From `ResultAssumption`.

`BotDirectorProofs` proves, for any bots, cells, maps, games, faults and limits, of both threads:

- `TypeCorrect`;
- `TerrainReachesTheWorker`: `Spec => []NoChangeIsLost`, commits told cell by cell,
  batches in flight, discarded timelines, rejected maps and dead workers notwithstanding;
- `NoStaleDecision`: `Spec => []BotsFollowOwnFrames`;
- `NoDecisionOvertakes`: `Spec => []DecisionsInOrder`.

`IInv` is two invariants that do not need each other. `TerrainInv`: a batch in flight whose serial is
still the present one was taken from the present map and knows no later version
(`BatchAgrees`), and a retained snapshot is of the map being played (`SnapshotKept`).
`FramesInv`: each frame or intent of a bot's present generation is newer than the bot, and each frame
still to be answered newer than the decision it follows (`FramesAreNumbered`). From
`DirectorAssumption` and the two assumptions of `AIThreadSupervisor`.

`GameTickProofs` proves, for any peers, ids, cells, queues, budgets and timeouts:

- `TypeCorrect`: the queues keep their limits and no refund overfills a wallet;
- `EveryBlockIsSettled`: `Spec => []ReservationsSettleOnce`;
- `NoEditIsInherited`: `Spec => []NothingOutlivesItsOwner`;
- `NoShareIsLost`: the action property `OnlyFloodersAreRefused`.

A reservation is a number of blocks, an edit a set of cells: `CostsAreCells` ties one to the other, and the
cells held for a peer are pairs of a position in the queue and a cell. What a step does to the queue
(append, cancel, drop those behind a position) is a bijection between such sets of pairs, or splits one,
so that no sum is needed. `PeersAgree`: a Player and the roster know each other; whoever frees an
id cancels its edits first. `SharesAreRows`: while the queue has rows, a share counts its
peer's. From `TickAssumption`.

`AIWorkerBridgeProofs` proves, for any lives, cells, contents, chunks, pipes and thresholds:

- `TypeCorrect`: the pipes keep their limits; no life has two frames waiting;
- `StreamIsCanonical`: `Spec => []StreamEndsCanonical`: a living child can read its
  pipe to the end, and then has the terrain, but for what is pending or in the bridge's hand;
- `ClocksHaveCause`: `Spec => []WatchdogHasCause`;
- `FramesKeepTheirOrder`: the action property `FramesInOrder`;
- `Inductive`: `Spec => []IInv`.

The property is about a child that has not read yet, so the invariant speaks of `AtEnd`,
what it will be when it has. `StreamFollowsTransfer`: it will have read just as far into the
transfer as the bridge has sent it, or, between transfers, be on the map last sent.
`TransferAgrees` and `OverlayIsExact`: the tables on the bridge's side add up to the terrain.
`CompletedBefore`: no last chunk of the present transfer is in the pipe before it was sent, so a child that
has completed it has answered it (`LeaseHasCause`; `FrameHasCause` likewise for frames). `Ordered` compares
the frames of table, hand and pipe. A record put at the end of the pipe is one more
reading; a pipe that is read is a shorter one with a child further on: `ReadAll` is proved to agree
with both by induction on the positions. From `BridgeAssumption`.

Induction on numbers is available here in a roundabout way: a set of positions is finite, subsets of it are
well-founded, so a nonempty one has a minimal member (`MinimalSubset` and the lemmas after it in
`PlayerSlotsProofs`, `MatchProofs`, `BotDirectorProofs`, `GameTickProofs` and `AIWorkerBridgeProofs`). That is enough for
recursive functions whose argument is a position (`Without`, `ReadAll`). It is not for folds and sums over
functions, for `SelectSeq` or for sorting, which take operators; sums are therefore kept as sizes of sets, and
queues compared by their positions.

Only model-checked:

- every liveness property, which needs `ENABLED`: `JoinResolves`, `CarriedPeersSettle`, `OperationsEnd`,
  `ResultsArrive`, `EverythingSettles`, `WrongCellsHeal` and the two `WorkerConverges`;
- that `IdsAreExclusive`, `PromisesAreReleased` and the properties listed below are violated.

## Disagreements with the code

Two runs end in a violation; `PROJECT.json` ("findings") quotes what they
contradict.

1. `duplicate_ids` (`connection.py:1278`): a reload gives back the id the
   connection remembers, though it may be somebody else's by then; two peers are
   told one id.
2. `stale_packets` (`main.py:2424`): a restart while the drain is suspended clears the queue, but
   the rest of the batch, received before the restart, is handled after it.

Six more properties are stated beside the model they are about and refuted by TLC when put in a
configuration, but have no run of their own:

- `PromisesAreReleased` (`PlayerSlots`; `connection.py:1335`): a peer that leaves
  in the grace is reloaded all the same and is promised an id nobody releases.
- `NewGameplayMeetsNewScene` (`SceneTransition`; `match/__init__.py:326`): a peer
  that connects after the rollover has listed its connections loads the old map
  and stays on it.
- `FullOutboxDrains` (`RoundResults`; `revival_master.py:894`): a full outbox makes
  every flush fail before it posts, so it never drains. `ResultsArrive` excludes it.
- `KeptRoutesSawEveryEdit` (`BotDirector`; `simple_worker.py:4171`): the worker takes
  a batch between two notifications of one commit and plans; the second cell arrives
  with the version the route was stamped with, so the route is never compared with
  it, though `simple_navigation.py:413` asks "Did committed terrain change along the
  stretch of route just ahead".
- `RebuiltCellsNeedNoRepair` (`TerrainRepair`, with a limit of three;
  `terrain_repair.py:258`): "Rebuilt cells are discarded at send time because their
  ordinary reliable build packet is authoritative", but a client that kept the fallen
  voxel ignores that packet (`terrain_repair.py:307`), and keeps its colour.
- `FramesFollowTheirMap` (`AIWorkerBridge`; `supervisor.py:440`): terrain is
  checked under one lock and frames are taken under another, so a frame of the
  next map can go ahead of that map. The child refuses it, so only a frame is lost.

The passing properties state what remains true: `IdsAreExclusiveAtFirst`,
`PromisesAreReleasedAtFirst`, `SettledScenes`, `ResultsArrive`, `NoChangeIsLost`,
`NothingOutlivesItsOwner`.

Seen on the way:

- Joins: a newcomer whose handshake was for the replaced world is neither restarted
  nor disconnected (`connection.py:1482`); a carried peer can re-enter the live
  broadcasts while an end sequence is being cancelled (`match/__init__.py:402`;
  `SettledScenes` excludes it until its reload).
- Results: profile baselines outlive the Players a rollover retires
  (`revival_master.py:655`); an event the master rejects for good keeps those
  behind it waiting (`revival_master.py:904`).
- Bots: a rollover that is rolled back after the director has been told does
  not tell the worker again; under `SpecWithLateRollback` TLC refutes `NoChangeIsLost`.
- Bridge: a child that hangs while no clock runs is unnoticed until the next frame; a
  snapshot too large to encode ends the bridge thread for good; a frame put back
  after a discard of the timeline outlives it, and is filtered by the director's
  epoch and generation checks.
- Edits: an edit over the budget goes to the back of the queue and is overtaken by later
  ones of its owner, though `world_mutations.py:6` has rows "ordered by their client
  loop"; an apply that raises keeps the reservation (`world_mutations.py:141`;
  `lost` counts it); with infinite blocks a line costs nothing and its
  cancellation refunds its cells (`combat_runtime.py:568`, `:1511`); edits of a previous life survive a respawn.
- Repair: on overflow the collapse lane loses its newest entry, so the shell of a later
  collapse goes before the interior of an earlier one, though `terrain_repair.py:128`
  has "the deepest unsent interior before any visible-shell confirmation".
- Kick votes: with three eligible players one vote is needed, so the starter's
  suffices, and any ballot cast is what triggers the count (`voting.py:573` speaks of
  a majority).

## What is not modelled

- Geometry, physics, combat and lag compensation: floating point; a bounded check
  does not reach what is hard about them. Bot planning: heuristic search over floats,
  which the models see as "a route" and "an intent".
- Wire codecs: encodings of values, abstracted to messages.
- Mode objectives, and administration (single steps; those that change the match
  are requests in `SceneTransition`); the password challenge and bans.
- Entity lifetime: planned below.
- Fleet, Steam and hosting processes; GUI, tools, plugins and client patches.
- In `SceneTransition`: the end screen's cosmetics and a rollback after the swap. In
  `RoundResults`: mirror files, profile and participation counters, batches of
  more than 100 players, the bonus for a result. In `BotDirector`: when a frame is due,
  motors, lives of a bot, static lights. In `AIWorkerBridge`: the queue of intents, which is
  the one of `AIThreadSupervisor`, start and close. In `GameTick`: prefabs and constructions, bots
  (their edits are ready at once), the accumulator, the queue of mode events. In
  `VoteManager`: bots, teams, the ranking of maps, texts. In `TerrainRepair`: damage, block health
  and the colours of implicit interior voxels.

Most of the repository's lines are such code, or data, vendored libraries and tools;
the models cover the protocols between its tasks, threads and processes.

## Plan

Done: the modules above, their runs, and a theorem for every safety property that a run checks. What a next
step would take up:

1. `EntityRegistry`: wire ids of entities and what each peer knows of them.
2. In `RoundResults`: the mirror files of a hosted server, and profile counters, whose baselines are not
   rebuilt with a round.
