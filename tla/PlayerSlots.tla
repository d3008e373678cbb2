------------------------------ MODULE PlayerSlots ------------------------------
(***************************************************************************)
(* Player ids.  A joining peer is promised an id before it has a Player    *)
(* (StateData names it), a Player takes the promised id, bots take the     *)
(* lowest free one, a full server retires a bot for a human, and a map or  *)
(* mode rollover detaches every Player and runs the join handshake again   *)
(* over the retained connections.                                          *)
(*                                                                         *)
(* A rollover suspends only in its grace sleep and while the reloaded      *)
(* peers answer, so it is a few steps; the reload tasks that one gather    *)
(* starts run their first part back to back (toReload # << >>).            *)
(***************************************************************************)
EXTENDS Integers, FiniteSets, SequencesExt

CONSTANTS
  Conn,         \* peer slots (one Connection object at a time in each)
  MaxPlayers,   \* config.max_players
  MaxBots,      \* config.bots.max_bots
  Bot, Nobody,  \* what a player id may stand for besides a connection
  MaxRollovers  \* bound: rollovers in a behaviour

ASSUME SlotAssumption ==
  /\ IsFiniteSet(Conn)
  /\ MaxPlayers \in Nat \ {0} /\ MaxBots \in Nat /\ MaxRollovers \in Nat
  /\ Bot # Nobody /\ {Bot, Nobody} \cap Conn = {}

Id   == 0 .. MaxPlayers - 1
NoId == -1

VARIABLES
  roster,      \* keys of server.connections, in the order they connected
  phase,       \* how far each connection is
  closing,     \* peers the server has disconnected, event not yet serviced
  reservedId,  \* reserved_player_id of each Connection object
  reserved,    \* server.reserved_player_ids
  players,     \* server.players: who has each id
  rolling,     \* where the rollover is
  carried,     \* connections the running rollover carries into the new map
  toReload,    \* the snapshot from the next reload_scene to start onwards
  botsAway,    \* _reconnect_count of the bot director
  rollovers    \* auxiliary: rollovers begun

peerVars     == <<roster, phase, closing>>
rolloverVars == <<rolling, carried, toReload, botsAway, rollovers>>
vars == <<peerVars, reservedId, reserved, players, rolloverVars>>

Phase == {"gone", "connected", "loading", "selecting", "playing", "retired"}

-----------------------------------------------------------------------------
(* Helpers.                                                                *)

\* A list of different connections, with one of them taken out.
Without(list, c) == RemoveAt(list, CHOOSE k \in DOMAIN list : list[k] = c)

\* The rest of a list from the first of these connections onwards.
From(list, these) ==
  LET at == {k \in DOMAIN list : list[k] \in these} IN
  IF at = {} THEN << >> ELSE SubSeq(list, Min(at), Len(list))

BotIds(who) == {i \in Id : who[i] = Bot}

\* FAULT: ids promised to peers that are still loading count as free.
FreeOfPlayers(who, promised) == {i \in Id : who[i] = Nobody}

\* The ids get_next_player_id chooses the lowest of.
Free(who, promised) == {i \in Id : who[i] = Nobody} \ promised

\* make_room_for_human: one bot leaves a full server.
WithRoom(promised) ==
  IF Free(players, promised) # {} \/ BotIds(players) = {}
  THEN {players}
  ELSE {[players EXCEPT ![i] = Nobody] : i \in BotIds(players)}

\* n bots join at the lowest free ids.
WithBots(n) ==
  LET free == Free(players, reserved) IN
  [i \in Id |-> IF i \in free /\ Cardinality({j \in free : j < i}) < n
                THEN Bot ELSE players[i]]

\* FAULT: the -1 of a full server is promised like an id.
ClaimSlotUnchecked(c, promised) ==
  \E who \in WithRoom(promised) :
    /\ players' = who
    /\ reservedId' = [reservedId EXCEPT ![c] =
                        IF Free(who, promised) = {} THEN NoId
                        ELSE Min(Free(who, promised))]
    /\ reserved' = promised \cup {reservedId'[c]}
    /\ closing' = closing

\* _claim_player_slot of a connection that has no reservation.
ClaimSlot(c, promised) ==
  \E who \in WithRoom(promised) :
    /\ players' = who
    /\ \/ /\ Free(who, promised) # {}
          /\ reservedId' = [reservedId EXCEPT ![c] = Min(Free(who, promised))]
          /\ reserved' = promised \cup {reservedId'[c]}
          /\ closing' = closing
       \/ /\ Free(who, promised) = {}
          /\ reservedId' = [reservedId EXCEPT ![c] = NoId]
          /\ reserved' = promised
          /\ closing' = closing \cup {d \in {c} : phase[d] # "gone"}

Init ==
  /\ roster = << >>
  /\ phase = [c \in Conn |-> "gone"]
  /\ closing = {}
  /\ reservedId = [c \in Conn |-> NoId]
  /\ reserved = {}
  /\ players = [i \in Id |-> Nobody]
  /\ rolling = "idle"
  /\ carried = {}
  /\ toReload = << >>
  /\ botsAway = 0
  /\ rollovers = 0

-----------------------------------------------------------------------------
(* Joining and leaving.                                                    *)

\* No reload task is about to run its first part.
Quiet == rolling = "reloading" => toReload = << >>

\* _on_connect_sync: a new Connection.  The slot of a peer that a rollover
\* still refers to is not reused, for that object lives on.
Connect(c) ==
  /\ Quiet
  /\ phase[c] = "gone" /\ c \notin carried
  /\ roster' = Append(roster, c)
  /\ phase' = [phase EXCEPT ![c] = "connected"]
  /\ reservedId' = [reservedId EXCEPT ![c] = NoId]
  /\ UNCHANGED <<closing, reserved, players, rolloverVars>>

\* The ticket starts send_connection_data, which claims a slot.
Claim(c) ==
  /\ Quiet
  /\ phase[c] = "connected" /\ c \notin closing
  /\ ClaimSlot(c, reserved)
  /\ phase' = [phase EXCEPT ![c] = "loading"]
  /\ UNCHANGED <<roster, rolloverVars>>

\* MapSync and StateData were sent: the peer is on team selection.
Loaded(c) ==
  /\ Quiet
  /\ phase[c] = "loading" /\ c \notin closing
  /\ phase' = [phase EXCEPT ![c] = "selecting"]
  /\ UNCHANGED <<roster, closing, reservedId, reserved, players, rolloverVars>>

\* _on_new_player: the Player takes the promised id.  The connection goes on
\* remembering it in reserved_player_id.
NewPlayer(c) ==
  /\ Quiet
  /\ phase[c] = "selecting"
  /\ reserved' = reserved \ {reservedId[c]}
  /\ players' = [players EXCEPT ![reservedId[c]] = c]
  /\ phase' = [phase EXCEPT ![c] = "playing"]
  /\ UNCHANGED <<roster, closing, reservedId, rolloverVars>>

\* Connection.disconnect: a kick, a refusal, a reload that timed out.
Kick(c) ==
  /\ Quiet
  /\ phase[c] # "gone" /\ c \notin closing
  /\ closing' = closing \cup {c}
  /\ UNCHANGED <<roster, phase, reservedId, reserved, players, rolloverVars>>

\* FAULT: a Player is removed only when its peer was not being kicked.
DisconnectKeepingPlayer(c) ==
  /\ Quiet
  /\ phase[c] # "gone"
  /\ roster' = Without(roster, c)
  /\ phase' = [phase EXCEPT ![c] = "gone"]
  /\ closing' = closing \ {c}
  /\ reserved' = reserved \ {reservedId[c]}
  /\ players' = IF phase[c] = "playing" /\ c \notin closing
                THEN [players EXCEPT ![reservedId[c]] = Nobody] ELSE players
  /\ UNCHANGED <<reservedId, rolloverVars>>

\* FAULT: the promise to a peer that never finished joining is kept.
DisconnectKeepingPromise(c) ==
  /\ Quiet
  /\ phase[c] # "gone"
  /\ roster' = Without(roster, c)
  /\ phase' = [phase EXCEPT ![c] = "gone"]
  /\ closing' = closing \ {c}
  /\ players' = IF phase[c] = "playing"
                THEN [players EXCEPT ![reservedId[c]] = Nobody] ELSE players
  /\ UNCHANGED <<reservedId, reserved, rolloverVars>>

\* _on_disconnect_sync: the promise and the Player of the peer are released.
Disconnect(c) ==
  /\ Quiet
  /\ phase[c] # "gone"
  /\ roster' = Without(roster, c)
  /\ phase' = [phase EXCEPT ![c] = "gone"]
  /\ closing' = closing \ {c}
  /\ reserved' = reserved \ {reservedId[c]}
  /\ players' = IF phase[c] = "playing"
                THEN [players EXCEPT ![reservedId[c]] = Nobody] ELSE players
  /\ UNCHANGED <<reservedId, rolloverVars>>

-----------------------------------------------------------------------------
(* Bots.  The director keeps still while it holds a roster to reconnect.   *)

\* add_bot, from the population upkeep or an admin command.
AddBot ==
  /\ Quiet /\ rolling # "grace"
  /\ Cardinality(BotIds(players)) < MaxBots
  /\ Free(players, reserved) # {}
  /\ players' = WithBots(1)
  /\ UNCHANGED <<peerVars, reservedId, reserved, rolloverVars>>

\* remove_bot: the id it holds back while PlayerLeft goes out is free again at
\* the end.
RemoveBot ==
  /\ Quiet
  /\ \E i \in BotIds(players) : players' = [players EXCEPT ![i] = Nobody]
  /\ UNCHANGED <<peerVars, reservedId, reserved, rolloverVars>>

-----------------------------------------------------------------------------
(* Rollover.                                                               *)

Carries(c) == phase[c] \in {"selecting", "playing"}

\* From the snapshot of the connections to the grace sleep: peers past their
\* loader are carried over, the others disconnected; bots and Players go.
BeginRollover ==
  /\ rolling = "idle" /\ rollovers < MaxRollovers
  /\ carried' = {c \in Conn : Carries(c)}
  /\ toReload' = From(roster, carried')
  /\ phase' = [c \in Conn |-> IF Carries(c) THEN "retired" ELSE phase[c]]
  /\ closing' = closing \cup {c \in Conn : phase[c] \in {"connected", "loading"}}
  /\ botsAway' = Cardinality(BotIds(players))
  /\ players' = [i \in Id |-> Nobody]
  /\ rolling' = "grace"
  /\ rollovers' = rollovers + 1
  /\ UNCHANGED <<roster, reservedId, reserved>>

\* The grace is over: new world and mode, and the bots join again before any
\* peer is reloaded.
RebindBots ==
  /\ rolling = "grace"
  /\ players' = WithBots(botsAway)
  /\ botsAway' = 0
  /\ rolling' = "reloading"
  /\ UNCHANGED <<peerVars, reservedId, reserved, carried, toReload, rollovers>>

\* The first part of one reload_scene: give back what reserved_player_id
\* remembers, claim a slot again.
ReloadScene ==
  /\ rolling = "reloading" /\ toReload # << >>
  /\ LET c == Head(toReload) IN
       /\ ClaimSlot(c, reserved \ {reservedId[c]})
       /\ phase' = [phase EXCEPT ![c] = IF @ = "gone" THEN @ ELSE "loading"]
  /\ toReload' = From(Tail(toReload), carried)
  /\ UNCHANGED <<roster, rolling, carried, botsAway, rollovers>>

\* Every reload of the gather has ended.
FinishRollover ==
  /\ rolling = "reloading" /\ toReload = << >>
  /\ \A c \in carried \ closing : phase[c] # "loading"
  /\ rolling' = "idle"
  /\ carried' = {}
  /\ UNCHANGED <<peerVars, reservedId, reserved, players, toReload, botsAway,
                 rollovers>>

\* The commit raises: everybody from before is disconnected, bots come back.
Rollback ==
  /\ rolling = "grace"
  /\ closing' = closing \cup {c \in carried : phase[c] # "gone"}
  /\ players' = WithBots(botsAway)
  /\ botsAway' = 0
  /\ rolling' = "idle"
  /\ carried' = {}
  /\ toReload' = << >>
  /\ UNCHANGED <<roster, phase, reservedId, reserved, rollovers>>

-----------------------------------------------------------------------------
Peer(c) ==
  Connect(c) \/ Claim(c) \/ Loaded(c) \/ NewPlayer(c) \/ Kick(c) \/ Disconnect(c)

Rollover ==
  BeginRollover \/ RebindBots \/ ReloadScene \/ FinishRollover \/ Rollback

Next ==
  \/ \E c \in Conn : Peer(c)
  \/ AddBot
  \/ RemoveBot
  \/ Rollover

Spec == Init /\ [][Next]_vars

-----------------------------------------------------------------------------
(* Properties.                                                             *)

\* Every variable keeps to its type.
TypeOK ==
  /\ roster \in Seq(Conn) /\ Len(roster) <= Cardinality(Conn)
  /\ phase \in [Conn -> Phase] /\ closing \in SUBSET Conn
  /\ reservedId \in [Conn -> Id \cup {NoId}] /\ reserved \in SUBSET Id
  /\ players \in [Id -> Conn \cup {Bot, Nobody}]
  /\ rolling \in {"idle", "grace", "reloading"}
  /\ carried \in SUBSET Conn /\ toReload \in Seq(Conn)
  /\ botsAway \in Nat /\ rollovers \in Nat

\* Connections that were told an id, or play under it.
Told == {c \in Conn : /\ phase[c] \in {"loading", "selecting", "playing"}
                      /\ reservedId[c] # NoId}

\* An id that was promised to a peer is nobody else's: no other connection was
\* told it, and server.players has it empty until its own Player takes it.
IdsAreExclusive ==
  \A c \in Told :
    /\ \A d \in Told \ {c} : reservedId[d] # reservedId[c]
    /\ players[reservedId[c]] = IF phase[c] = "playing" THEN c ELSE Nobody

\* "Release an id promised to a client that never finished joining": each id
\* held back belongs to a peer that is connected and still joining.
PromisesAreReleased ==
  \A i \in reserved :
    \E c \in Told : reservedId[c] = i /\ phase[c] # "playing"

\* Until a rollover has run, the ids promised to joining peers, those of bots
\* and those of players are exclusive, whatever the order of joins, kicks,
\* departures and bot evictions.
IdsAreExclusiveAtFirst == rollovers = 0 => IdsAreExclusive

\* Until a rollover has run, every id held back is given back in the end.
PromisesAreReleasedAtFirst == rollovers = 0 => PromisesAreReleased

\* server.players has no ghosts, also across rollovers: an entry is a bot or
\* the Player of a live connection, so an id is never lost to a peer that has
\* gone, been retired or been loaded again.
RosterHasNoGhosts ==
  \A i \in Id : players[i] \in Conn =>
    /\ phase[players[i]] = "playing"
    /\ reservedId[players[i]] = i
=============================================================================
