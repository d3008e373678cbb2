---------------------------- MODULE SceneTransition ----------------------------
(***************************************************************************)
(* Map and mode changes over retained connections.  A rollover gates every *)
(* peer it finds, retires their Players, waits out a grace, installs a new *)
(* world and mode, and runs the loader handshake again for the peers it    *)
(* carries.  Meanwhile the network goes on: peers connect, load, join and  *)
(* leave, and packets queued before the gate are still answered.           *)
(*                                                                         *)
(* A world is an epoch number: world_manager and mode change together.     *)
(* scene[c] is the epoch of the last InitialInfo peer c was sent, that is, *)
(* of the GameScene it is in or is loading.                                *)
(***************************************************************************)
EXTENDS Naturals, FiniteSets

CONSTANTS
  Conn,       \* peer slots (one Connection object at a time in each)
  MaxWorlds   \* bound: worlds installed in a behaviour

ASSUME WorldAssumption == MaxWorlds \in Nat

\* Who may change the lifecycle: an admin command's retained task, a vote's
\* end sequence, a same-map restart.
Op == {"request", "vote", "restart"}

VARIABLES
  world,      \* server.world_manager and server.mode
  run,        \* where each lifecycle operation is
  ending,     \* the mode's end sequence task is running
  link,       \* each ENet peer: gone, up, or disconnected by the server
  stage,      \* how far the join of each connection is
  loader,     \* world captured by the loader handshake in flight
  scene,      \* external: epoch of the peer's GameScene
  armed,      \* connections with _scene_transition_ready set
  inGame,     \* connections with in_game set
  present,    \* all_connections of the running rollover
  carried,    \* connections of it that are reloaded
  toReload,   \* carried connections whose reload_scene has not started
  overlooked  \* auxiliary: peers that had loaded the old world, were not in
              \* all_connections, and saw the world being replaced

serverVars == <<world, run, ending>>
peerVars   == <<link, stage, loader, scene, armed, inGame>>
rollVars   == <<present, carried, toReload, overlooked>>
vars == <<serverVars, peerVars, rollVars>>

World == 0 .. MaxWorlds
Link  == {"gone", "up", "closing"}
Stage == {"none", "loading", "stalled", "loaded", "ticket", "abandoned",
          "playing", "retired"}
Step  == {"idle", "asked", "preparing", "cancelling", "grace", "reloading",
          "restarting"}

-----------------------------------------------------------------------------
(* Helpers.                                                                *)

\* Peers whose loader handshake is complete: map_sent and state_sent.
Complete(c) == stage[c] \in {"loaded", "ticket", "abandoned", "playing", "retired"}

\* FAULT: an operation that is still loading its map does not count.
BusyOnceCommitting(o) ==
  \E p \in Op \ {o} : run[p] \notin {"idle", "asked", "preparing"}

\* _transition_busy, as asked by operation o.
Busy(o) == \E p \in Op \ {o} : run[p] # "idle"

\* MatchTransitionService._lock is free.
Unlocked == \A p \in Op : run[p] \in {"idle", "asked", "preparing"}

Become(o, step) == run' = [run EXCEPT ![o] = step]

Init ==
  /\ world = 0
  /\ run = [o \in Op |-> "idle"]
  /\ ending = FALSE
  /\ link = [c \in Conn |-> "gone"]
  /\ stage = [c \in Conn |-> "none"]
  /\ loader = [c \in Conn |-> 0]
  /\ scene = [c \in Conn |-> 0]
  /\ armed = {} /\ inGame = {}
  /\ present = {} /\ carried = {} /\ toReload = {}
  /\ overlooked = {}

-----------------------------------------------------------------------------
(* Peers.                                                                  *)

\* _on_connect_sync.  The slot of a connection that a running rollover still
\* holds is not reused: that object lives on.
Connect(c) ==
  /\ link[c] = "gone" /\ c \notin present
  /\ link' = [link EXCEPT ![c] = "up"]
  /\ UNCHANGED <<serverVars, stage, loader, scene, armed, inGame, rollVars>>

\* The ticket starts send_connection_data: InitialInfo for the world of now,
\* which send_map_data also captures.
Ticket(c) ==
  /\ link[c] = "up" /\ stage[c] = "none"
  /\ stage' = [stage EXCEPT ![c] = "loading"]
  /\ loader' = [loader EXCEPT ![c] = world]
  /\ scene' = [scene EXCEPT ![c] = world]
  /\ UNCHANGED <<serverVars, link, armed, inGame, rollVars>>

\* FAULT: still_current looks at the generation only.
MapSentUnchecked(c) ==
  /\ link[c] = "up" /\ stage[c] = "loading"
  /\ stage' = [stage EXCEPT ![c] = "loaded"]
  /\ UNCHANGED <<serverVars, link, loader, scene, armed, inGame, rollVars>>

\* send_map_data is still current: MapSync, then StateData.
MapSent(c) ==
  /\ link[c] = "up" /\ stage[c] = "loading"
  /\ loader[c] = world
  /\ stage' = [stage EXCEPT ![c] = "loaded"]
  /\ UNCHANGED <<serverVars, link, loader, scene, armed, inGame, rollVars>>

\* FAULT: a reload waits for the peer's MapDataValidation without a timeout.
MapStaleWithoutTimeout(c) ==
  /\ stage[c] = "loading"
  /\ loader[c] # world \/ link[c] # "up"
  /\ stage' = [stage EXCEPT ![c] = "stalled"]
  /\ UNCHANGED <<serverVars, link, loader, scene, armed, inGame, rollVars>>

\* send_map_data returns False: its world or its peer has gone, or a reloaded
\* peer did not answer in time.  Nothing restarts the handshake.
MapStale(c) ==
  /\ stage[c] = "loading"
  /\ loader[c] # world \/ link[c] # "up" \/ c \in carried
  /\ stage' = [stage EXCEPT ![c] = "stalled"]
  /\ UNCHANGED <<serverVars, link, loader, scene, armed, inGame, rollVars>>

\* NewPlayerConnection of a peer past its loader and not being retired: the
\* Player is built at once, or after its join code has been looked up.
NewPlayer(c) ==
  /\ link[c] # "gone" /\ stage[c] = "loaded" /\ c \notin armed
  /\ \E next \in {"playing", "ticket"} : stage' = [stage EXCEPT ![c] = next]
  /\ UNCHANGED <<serverVars, link, loader, scene, armed, inGame, rollVars>>

\* The lookup is answered.  The join is given up when the connection's
\* generation has moved on.
TicketChecked(c) ==
  /\ stage[c] \in {"ticket", "abandoned"}
  /\ stage' = [stage EXCEPT ![c] = IF @ = "ticket" THEN "playing" ELSE "retired"]
  /\ UNCHANGED <<serverVars, link, loader, scene, armed, inGame, rollVars>>

\* First ClientData of a gated peer that has a Player: reveal, then in_game.
\* It may have been queued before a gate or a disconnect.
ClientData(c) ==
  /\ stage[c] = "playing" /\ c \notin inGame
  /\ inGame' = inGame \cup {c}
  /\ UNCHANGED <<serverVars, link, stage, loader, scene, armed, rollVars>>

\* Connection.disconnect gives up what is under way (the generation moves on).
GivenUp(cs) ==
  [c \in Conn |-> IF c \in cs /\ stage[c] = "ticket" THEN "abandoned" ELSE stage[c]]

Kick(c) ==
  /\ link[c] = "up"
  /\ link' = [link EXCEPT ![c] = "closing"]
  /\ stage' = GivenUp({c})
  /\ UNCHANGED <<serverVars, loader, scene, armed, inGame, rollVars>>

\* _on_disconnect_sync.
Disconnect(c) ==
  /\ link[c] # "gone"
  /\ link' = [link EXCEPT ![c] = "gone"]
  /\ stage' = [stage EXCEPT ![c] = "none"]
  /\ armed' = armed \ {c}
  /\ inGame' = inGame \ {c}
  /\ overlooked' = overlooked \ {c}
  /\ UNCHANGED <<serverVars, loader, scene, present, carried, toReload>>

-----------------------------------------------------------------------------
(* Lifecycle operations.                                                   *)

\* The round is decided and its end sequence starts, or the sequence is over.
EndSequence ==
  /\ run["vote"] = "idle" /\ run["restart"] = "idle"
  /\ run["request"] \in {"idle", "asked", "preparing"}
  /\ ending' = ~ending
  /\ UNCHANGED <<world, run, peerVars, rollVars>>

\* request_map_change or request_mode_change: the task is created.
Request ==
  /\ run["request"] = "idle" /\ ~Busy("request")
  /\ Become("request", "asked")
  /\ UNCHANGED <<world, ending, peerVars, rollVars>>

\* _change_map or change_mode: the candidate is loaded in a thread, a voted one
\* followed by the statistics screen.
Prepare(o) ==
  /\ \/ o = "request" /\ run[o] = "asked"
     \/ o = "vote" /\ run[o] = "idle" /\ ending
  /\ ~Busy(o)
  /\ world < MaxWorlds
  /\ Become(o, "preparing")
  /\ UNCHANGED <<world, ending, peerVars, rollVars>>

\* Refused, an unknown map, a map that does not load.
Refuse(o) ==
  /\ run[o] \in {"asked", "preparing"}
  /\ Become(o, "idle")
  /\ UNCHANGED <<world, ending, peerVars, rollVars>>

\* restart_round: the scene stays, only a running end sequence is awaited.
Restart ==
  /\ run["restart"] = "idle" /\ ~Busy("restart") /\ Unlocked
  /\ Become("restart", "restarting")
  /\ UNCHANGED <<world, ending, peerVars, rollVars>>

Restarted ==
  /\ run["restart"] = "restarting"
  /\ Become("restart", "idle")
  /\ ending' = FALSE
  /\ UNCHANGED <<world, peerVars, rollVars>>

\* Where detaching the Players leaves the joins of the connections cs.
Detached(cs) ==
  [c \in Conn |->
     CASE c \in cs /\ stage[c] = "playing" -> "retired"
       [] c \in cs /\ stage[c] = "ticket" -> "abandoned"
       [] OTHER -> stage[c]]

\* _rollover down to its first await: arm the peers it carries, gate everyone,
\* disconnect those still loading.  An end sequence that is not the caller
\* itself is cancelled and awaited; otherwise the Players are detached at once.
Gate(o) ==
  /\ run[o] = "preparing" /\ Unlocked
  /\ present' = {c \in Conn : link[c] # "gone"}
  /\ carried' = {c \in present' : Complete(c)}
  /\ armed' = armed \cup carried'
  /\ inGame' = {}
  /\ link' = [c \in Conn |-> IF c \in present' \ carried' THEN "closing" ELSE link[c]]
  /\ IF ending /\ o # "vote"
     THEN Become(o, "cancelling") /\ stage' = GivenUp(present')
     ELSE Become(o, "grace") /\ stage' = Detached(present')
  /\ UNCHANGED <<world, ending, loader, scene, toReload, overlooked>>

\* The end sequence is cancelled: bots leave, Players are detached.
Detach(o) ==
  /\ run[o] = "cancelling"
  /\ Become(o, "grace")
  /\ stage' = Detached(present)
  /\ UNCHANGED <<world, ending, link, loader, scene, armed, inGame, rollVars>>

\* The grace is over: the new world and mode are installed and started.
Swap(o) ==
  /\ run[o] = "grace"
  /\ world' = world + 1
  /\ ending' = FALSE
  /\ toReload' = carried
  /\ overlooked' = overlooked \cup {c \in Conn \ present : Complete(c)}
  /\ Become(o, "reloading")
  /\ UNCHANGED <<peerVars, present, carried>>

\* reload_scene of one carried peer: forget the old join, send InitialInfo.  It
\* raises when the Player is still there.
ReloadScene(c) ==
  /\ c \in toReload
  /\ toReload' = toReload \ {c}
  /\ IF stage[c] = "playing"
     THEN UNCHANGED <<stage, loader, scene, armed, inGame>>
     ELSE /\ stage' = [stage EXCEPT ![c] = IF link[c] = "gone" THEN @ ELSE "loading"]
          /\ loader' = [loader EXCEPT ![c] = world]
          /\ scene' = [scene EXCEPT ![c] = world]
          /\ armed' = armed \ {c}
          /\ inGame' = inGame \ {c}
  /\ overlooked' = overlooked \ {c}
  /\ UNCHANGED <<serverVars, link, present, carried>>

\* FAULT: a peer that did not answer its reload is left alone.
FinishKeepingSilent(o) ==
  /\ run[o] = "reloading" /\ toReload = {}
  /\ \A c \in carried : stage[c] # "loading"
  /\ present' = {} /\ carried' = {}
  /\ Become(o, "idle")
  /\ UNCHANGED <<world, ending, peerVars, toReload, overlooked>>

\* Every reload has ended; the peers it failed for are disconnected.
Finish(o) ==
  /\ run[o] = "reloading" /\ toReload = {}
  /\ \A c \in carried : stage[c] # "loading"
  /\ link' = [c \in Conn |-> IF c \in carried /\ stage[c] = "stalled"
                                  /\ link[c] = "up"
                             THEN "closing" ELSE link[c]]
  /\ present' = {} /\ carried' = {}
  /\ Become(o, "idle")
  /\ UNCHANGED <<world, ending, stage, loader, scene, armed, inGame, toReload,
                 overlooked>>

\* FAULT: the rollback steps back from the world it has already restored.
RollbackTooFar(o) ==
  /\ run[o] = "grace"
  /\ world' = world - 1
  /\ link' = [c \in Conn |-> IF c \in present /\ link[c] = "up"
                             THEN "closing" ELSE link[c]]
  /\ inGame' = inGame \ present
  /\ ending' = FALSE
  /\ present' = {} /\ carried' = {}
  /\ Become(o, "idle")
  /\ UNCHANGED <<stage, loader, scene, armed, toReload, overlooked>>

\* The commit raises: the old world and mode are restored and restarted, all
\* that were present are disconnected.
Rollback(o) ==
  /\ run[o] = "grace"
  /\ link' = [c \in Conn |-> IF c \in present /\ link[c] = "up"
                             THEN "closing" ELSE link[c]]
  /\ inGame' = inGame \ present
  /\ ending' = FALSE
  /\ present' = {} /\ carried' = {}
  /\ Become(o, "idle")
  /\ UNCHANGED <<world, stage, loader, scene, armed, toReload, overlooked>>

-----------------------------------------------------------------------------
Join(c) ==
  \/ Ticket(c) \/ MapSent(c) \/ MapStale(c)
  \/ NewPlayer(c) \/ TicketChecked(c) \/ ClientData(c)

Rollover(o) ==
  Gate(o) \/ Detach(o) \/ Swap(o) \/ Finish(o) \/ Rollback(o)

Next ==
  \/ \E c \in Conn : Connect(c) \/ Join(c) \/ Kick(c) \/ Disconnect(c)
                     \/ ReloadScene(c)
  \/ EndSequence \/ Request \/ Restart \/ Restarted
  \/ \E o \in Op : Prepare(o) \/ Refuse(o) \/ Rollover(o)

Spec == Init /\ [][Next]_vars

\* The event loop runs every task it has woken; waits that the code bounds by a
\* timeout end; ENet reports a disconnect that was asked for.  Nothing is
\* assumed of clients: they may never answer, join or send ClientData.
Fairness ==
  /\ \A o \in Op : WF_vars(Prepare(o) \/ Refuse(o)) /\ WF_vars(Rollover(o))
  /\ WF_vars(Restarted)
  /\ \A c \in Conn : /\ WF_vars(ReloadScene(c))
                      /\ WF_vars(MapStale(c))
                      /\ WF_vars(link[c] = "closing" /\ Disconnect(c))

FairSpec == Spec /\ Fairness

-----------------------------------------------------------------------------
(* Properties.                                                             *)

\* Every variable keeps to its type.
TypeOK ==
  /\ world \in World /\ run \in [Op -> Step] /\ ending \in BOOLEAN
  /\ link \in [Conn -> Link] /\ stage \in [Conn -> Stage]
  /\ loader \in [Conn -> World] /\ scene \in [Conn -> World]
  /\ armed \in SUBSET Conn /\ inGame \in SUBSET Conn
  /\ present \in SUBSET Conn /\ carried \in SUBSET Conn
  /\ toReload \in SUBSET Conn /\ overlooked \in SUBSET Conn

\* "New-mode gameplay must never enter an old GameScene": whoever takes part in
\* the live broadcasts is in the scene of the current world.  The code breaks
\* this; see the README.
NewGameplayMeetsNewScene == \A c \in inGame : scene[c] = world

\* The same, but for two kinds of peer: those that had loaded the old world
\* behind the back of the rollover, and, until their reload starts, carried
\* peers that slipped back in while an end sequence was being cancelled.
SettledScenes ==
  \A c \in inGame \ (overlooked \cup toReload) : scene[c] = world

\* "Map preparation, mode rollover, and restart are single-flight."
SingleFlight == \A o, p \in Op : run[o] # "idle" /\ run[p] # "idle" => o = p

\* A peer a rollover carries ends in the scene of the current world with its
\* loader finished, or its connection ends, whatever clients do or fail to do.
CarriedPeersSettle ==
  \A c \in Conn :
    c \in armed ~> \/ link[c] = "gone"
                   \/ c \notin armed /\ Complete(c) /\ scene[c] = world

\* Every lifecycle operation ends, so the next one is not refused for ever.
OperationsEnd == \A o \in Op : run[o] # "idle" ~> run[o] = "idle"
=============================================================================
