---------------------------- MODULE VoteManager ----------------------------
(***************************************************************************)
(* The one vote overlay of the server: kick ballots that players open, map *)
(* ballots that the mode opens near the end of a round, and the end        *)
(* sequence that waits for the map ballot before it picks the next scene.  *)
(*                                                                         *)
(* Ballots are kept by player ids, which are reused at once.  Votes,       *)
(* departures, deadlines, cancellations and resets meet in any order; all  *)
(* of it runs on one event loop, which the end sequence leaves only while  *)
(* it sleeps or waits.                                                     *)
(*                                                                         *)
(* All humans are of one team; bots, which cannot vote, and the denials    *)
(* and texts sent to clients are left out, as is the ranking of the maps:  *)
(* a map ballot offers candidates 0 and 1.                                 *)
(***************************************************************************)
EXTENDS Integers, FiniteSets

CONSTANTS
  Conn,       \* connections, of distinct addresses
  Ids,        \* wire ids of players
  None,       \* nobody, nothing
  MinTeam,    \* votekick_min_team_players
  MaxJoins,   \* bound: players of all connections
  MaxBallots, \* bound: ballots
  MaxRounds   \* bound: rounds

ASSUME VoteAssumption ==
  /\ Ids \subseteq Nat \ {0} /\ IsFiniteSet(Ids)
  /\ None \notin Conn \cup Ids \cup Nat
  /\ MinTeam \in Nat
  /\ MaxJoins \in Nat /\ MaxBallots \in Nat /\ MaxRounds \in Nat \ {0}

VARIABLES
  roster,   \* server.players: the connection whose Player holds the id
  inGame,   \* connections that have sent their first ClientData
  ballot,   \* the open ballot, or NoBallot
  due,      \* its deadline has passed
  nextMap,  \* next_map
  event,    \* [of, set]: which map ballot _map_result_event is for
  kicked,   \* _match_kicks
  cooling,  \* connections with a running cooldown
  sequence, \* end sequence: "off", "scores", "waiting" or "dwell"
  awaited,  \* the map ballot it waits for
  chosen,   \* the map it goes on with, None for the same
  people,   \* history: who held the ids named in the ballot
  outcome,  \* history: result of this round's last map ballot
  round,    \* history: rounds begun
  joins,    \* bound: joins so far
  ballots   \* bound: ballots so far

peerVars == <<roster, inGame, joins>>
ballotVars == <<ballot, due, people>>
resultVars == <<nextMap, event, outcome>>
matchVars == <<sequence, awaited, chosen, round>>
vars == <<peerVars, ballotVars, resultVars, kicked, cooling, matchVars, ballots>>

Nobody == [i \in {} |-> None]
NoBallot == [kind |-> "none", target |-> None, starter |-> None, votes |-> Nobody]

Active == ballot.kind # "none"
Voters == DOMAIN ballot.votes
ForIndex(k) == {i \in Voters : ballot.votes[i] = k}

Holds(c, i) == roster[i] = c
Online == {roster[i] : i \in Ids} \ {None}
Eligible == {i \in Ids : roster[i] \in inGame}

Init ==
  /\ roster = [i \in Ids |-> None] /\ inGame = {}
  /\ ballot = NoBallot /\ due = FALSE
  /\ nextMap = None /\ event = [of |-> 0, set |-> FALSE]
  /\ kicked = {} /\ cooling = {}
  /\ sequence = "off" /\ awaited = 0 /\ chosen = None
  /\ people = Nobody /\ outcome = None
  /\ round = 1 /\ joins = 0 /\ ballots = 0

-----------------------------------------------------------------------------
(* Resolving and cancelling.                                               *)

(* Half of those who may vote, without the target. *)
Needed == LET others == Cardinality(Eligible) - 1
          IN  IF others <= 1 THEN 1 ELSE (others + 1) \div 2

Enough == Cardinality(ForIndex(0)) >= Needed

Closed ==
  /\ ballot' = NoBallot
  /\ due' = FALSE
  /\ people' = Nobody

(* _resolve_kick: the ballot is retired before the target is disconnected. *)
ResolveKick(passed) ==
  /\ Closed
  /\ kicked' = IF passed /\ roster[ballot.target] # None
               THEN kicked \cup {roster[ballot.target]} ELSE kicked
  /\ UNCHANGED resultVars

(* A tie goes to the first candidate. *)
Winner(votes) ==
  LET Count(k) == Cardinality({i \in DOMAIN votes : votes[i] = k})
  IN  IF Count(1) > Count(0) THEN 1 ELSE 0

(* _resolve_map *)
ResolveMap(votes) ==
  /\ Closed
  /\ nextMap' = Winner(votes)
  /\ outcome' = Winner(votes)
  /\ event' = [event EXCEPT !.set = TRUE]
  /\ UNCHANGED kicked

Resolve == IF ballot.kind = "map" THEN ResolveMap(ballot.votes) ELSE ResolveKick(Enough)

(* Whoever waits for a map ballot that is cancelled is woken. *)
Released == IF ballot.kind = "map" THEN [event EXCEPT !.set = TRUE] ELSE event

(* cancel *)
Cancel ==
  /\ Closed
  /\ event' = Released
  /\ UNCHANGED <<nextMap, outcome, kicked>>

KeepBallot == UNCHANGED <<ballotVars, resultVars, kicked>>

-----------------------------------------------------------------------------
(* Players.                                                                *)

Join(c) ==
  /\ c \notin Online /\ c \notin kicked
  /\ joins < MaxJoins
  /\ joins' = joins + 1
  /\ \E i \in Ids : /\ Holds(None, i)
                    /\ \A j \in Ids : j < i => ~Holds(None, j)
                    /\ roster' = [roster EXCEPT ![i] = c]
  /\ UNCHANGED <<inGame, ballotVars, resultVars, kicked, cooling, matchVars, ballots>>

(* First ClientData: reveal_to shows the ballot, unless it is overdue. *)
Reveal(c) ==
  /\ c \in Online \ inGame
  /\ inGame' = inGame \cup {c}
  /\ IF Active /\ due THEN Resolve ELSE KeepBallot
  /\ UNCHANGED <<roster, joins, cooling, matchVars, ballots>>

(* FAULT: the ballot goes on without its target or starter. *)
ForgetOnlyVotes(i) ==
  /\ ballot' = [ballot EXCEPT !.votes = [j \in Voters \ {i} |-> ballot.votes[j]]]
  /\ people' = [j \in DOMAIN people \ ({i} \ {ballot.target, ballot.starter}) |-> people[j]]
  /\ UNCHANGED <<due, resultVars, kicked>>

(* forget_player, before the id is free; the connection is out already. *)
Forget(i) ==
  LET votes == [j \in Voters \ {i} |-> ballot.votes[j]]
      remaining == Eligible \ {i}
  IN  IF i \in {ballot.target, ballot.starter} THEN Cancel
      ELSE IF ballot.kind = "map" /\ remaining # {} /\ remaining \subseteq Voters
      THEN ResolveMap(votes)
      ELSE /\ ballot' = [ballot EXCEPT !.votes = votes]
           /\ people' = [j \in DOMAIN people \ {i} |-> people[j]]
           /\ UNCHANGED <<due, resultVars, kicked>>

Leave(c) ==
  /\ \E i \in Ids : /\ Holds(c, i)
                    /\ Forget(i)
                    /\ roster' = [roster EXCEPT ![i] = None]
  /\ inGame' = inGame \ {c}
  /\ UNCHANGED <<joins, cooling, matchVars, ballots>>

-----------------------------------------------------------------------------
(* Kick ballots.                                                           *)

(* start_kick; the starter has voted for it. *)
StartKick(s, t) ==
  /\ ~Active /\ ballots < MaxBallots
  /\ s # t /\ s \in Eligible /\ t \in Eligible
  /\ roster[s] \notin cooling
  /\ Cardinality(Online) >= MinTeam
  /\ ballot' = [kind |-> "kick", target |-> t, starter |-> s,
                votes |-> [i \in {s} |-> 0]]
  /\ due' = FALSE
  /\ people' = [i \in {s, t} |-> roster[i]]
  /\ cooling' = cooling \cup {roster[s]}
  /\ ballots' = ballots + 1
  /\ UNCHANGED <<peerVars, resultVars, kicked, matchVars>>

(* The starter's own packet; its next ballot may come earlier. *)
CancelKick(s) ==
  /\ ballot.kind = "kick" /\ ballot.starter = s
  /\ Cancel
  /\ UNCHANGED <<peerVars, cooling, matchVars, ballots>>

CooldownEnds(c) ==
  /\ c \in cooling
  /\ cooling' = cooling \ {c}
  /\ UNCHANGED <<peerVars, ballotVars, resultVars, kicked, matchVars, ballots>>

-----------------------------------------------------------------------------
(* Votes and deadlines.                                                    *)

(* FAULT: the target votes, too. *)
CastByAnyone(i, k) ==
  /\ Active /\ ~due
  /\ i \in Eligible
  /\ i \in Voters => ballot.votes[i] # k
  /\ ballot' = [ballot EXCEPT !.votes =
                  [j \in Voters \cup {i} |-> IF j = i THEN k ELSE ballot.votes[j]]]
  /\ people' = [j \in DOMAIN people \cup {i} |-> IF j = i THEN roster[i] ELSE people[j]]
  /\ UNCHANGED <<due, resultVars, kicked, peerVars, cooling, matchVars, ballots>>

(* _cast_index, after _expire_due: a vote that decides the ballot closes it. *)
Cast(i, k) ==
  /\ Active /\ ~due
  /\ i \in Eligible /\ i # ballot.target
  /\ i \in Voters => ballot.votes[i] # k
  /\ LET votes == [j \in Voters \cup {i} |-> IF j = i THEN k ELSE ballot.votes[j]]
         yes == {j \in DOMAIN votes : votes[j] = 0}
     IN  IF ballot.kind = "kick" /\ Cardinality(yes) >= Needed
         THEN ResolveKick(TRUE)
         ELSE IF ballot.kind = "map" /\ Cardinality(DOMAIN votes) >= Cardinality(Eligible)
         THEN ResolveMap(votes)
         ELSE /\ ballot' = [ballot EXCEPT !.votes = votes]
              /\ people' = [j \in DOMAIN people \cup {i} |->
                              IF j = i THEN roster[i] ELSE people[j]]
              /\ UNCHANGED <<due, resultVars, kicked>>
  /\ UNCHANGED <<peerVars, cooling, matchVars, ballots>>

DeadlinePasses ==
  /\ Active /\ ~due
  /\ due' = TRUE
  /\ UNCHANGED <<peerVars, ballot, people, resultVars, kicked, cooling, matchVars,
                 ballots>>

(* tick, or a late vote: an overdue ballot is resolved with what it has. *)
Expire ==
  /\ Active /\ due
  /\ Resolve
  /\ UNCHANGED <<peerVars, cooling, matchVars, ballots>>

-----------------------------------------------------------------------------
(* Map ballots and the end of the round.                                   *)

(* start_map_vote *)
Opened ==
  /\ ballot' = [NoBallot EXCEPT !.kind = "map"]
  /\ due' = FALSE
  /\ people' = Nobody
  /\ nextMap' = None
  /\ event' = [of |-> event.of + 1, set |-> FALSE]
  /\ ballots' = ballots + 1
  /\ UNCHANGED <<outcome, kicked>>

(* The mode's tick in the last seconds of the round: ensure_map_vote. *)
OpenMapVote ==
  /\ sequence = "off"
  /\ ~Active /\ nextMap = None /\ ballots < MaxBallots
  /\ Opened
  /\ UNCHANGED <<peerVars, cooling, matchVars>>

(* on_mode_end: a kick ballot gives way; an open map ballot, or the result *)
(* of one, is kept.                                                        *)
EndRound ==
  /\ sequence = "off"
  /\ sequence' = "scores"
  /\ IF ballot.kind # "map" /\ nextMap = None
     THEN /\ ballots < MaxBallots
          /\ Opened
     ELSE /\ IF ballot.kind = "kick" THEN Cancel ELSE KeepBallot
          /\ UNCHANGED ballots
  /\ UNCHANGED <<peerVars, cooling, awaited, chosen, round>>

(* wait_for_map_result with nothing to wait for; consume_next_map. *)
NothingToAwait ==
  /\ sequence = "scores" /\ ballot.kind # "map"
  /\ sequence' = "dwell"
  /\ chosen' = nextMap
  /\ nextMap' = None
  /\ UNCHANGED <<peerVars, ballotVars, event, outcome, kicked, cooling, awaited, round,
                 ballots>>

AwaitResult ==
  /\ sequence = "scores" /\ ballot.kind = "map"
  /\ sequence' = "waiting"
  /\ awaited' = event.of
  /\ UNCHANGED <<peerVars, ballotVars, resultVars, kicked, cooling, chosen, round,
                 ballots>>

(* The event of the awaited ballot is set, also when it has been replaced. *)
Settled == event.of # awaited \/ event.set

(* The waiter resumes some time after the ballot was settled, and takes    *)
(* what is staged then.                                                    *)
WakeUp ==
  /\ sequence = "waiting" /\ Settled
  /\ sequence' = "dwell"
  /\ chosen' = nextMap
  /\ nextMap' = None
  /\ UNCHANGED <<peerVars, ballotVars, event, outcome, kicked, cooling, awaited, round,
                 ballots>>

(* FAULT: the end sequence goes on and leaves the ballot open. *)
TimeOutUnresolved ==
  /\ sequence = "waiting" /\ ~Settled /\ due
  /\ sequence' = "dwell"
  /\ chosen' = nextMap
  /\ UNCHANGED <<peerVars, ballotVars, resultVars, kicked, cooling, awaited, round,
                 ballots>>

(* Its own timeout: an overdue ballot is resolved here. *)
TimeOut ==
  /\ sequence = "waiting" /\ ~Settled /\ due
  /\ sequence' = "dwell"
  /\ Closed
  /\ chosen' = Winner(ballot.votes) /\ outcome' = Winner(ballot.votes)
  /\ event' = [event EXCEPT !.set = TRUE]
  /\ UNCHANGED <<peerVars, nextMap, kicked, cooling, awaited, round, ballots>>

-----------------------------------------------------------------------------
(* The next round.                                                         *)

(* _reset_vote_state, and the end sequence is cancelled or over. *)
Reset ==
  /\ round < MaxRounds
  /\ round' = round + 1
  /\ Closed
  /\ event' = Released
  /\ nextMap' = None /\ outcome' = None
  /\ kicked' = {}
  /\ sequence' = "off" /\ chosen' = None
  /\ UNCHANGED <<cooling, awaited, ballots>>

(* A restart, by the end sequence or by an administrator at any time. *)
Restart == Reset /\ UNCHANGED peerVars

(* A rollover detaches every player; the peers join the new scene. *)
Rollover ==
  /\ Reset
  /\ roster' = [i \in Ids |-> None]
  /\ inGame' = {}
  /\ UNCHANGED joins

Next ==
  \/ \E c \in Conn : Join(c) \/ Reveal(c) \/ Leave(c) \/ CooldownEnds(c)
  \/ \E s, t \in Ids : StartKick(s, t)
  \/ \E s \in Ids : CancelKick(s)
  \/ \E i \in Ids, k \in {0, 1} : Cast(i, k)
  \/ DeadlinePasses
  \/ Expire
  \/ OpenMapVote
  \/ EndRound
  \/ NothingToAwait
  \/ AwaitResult
  \/ WakeUp
  \/ TimeOut
  \/ Restart
  \/ Rollover

Spec == Init /\ [][Next]_vars

-----------------------------------------------------------------------------
(* Type invariant; the target of a kick has no vote, and the event is      *)
(* unset exactly while a map ballot is open.                               *)
TypeOK ==
  /\ roster \in [Ids -> Conn \cup {None}] /\ inGame \subseteq Online
  /\ ballot.kind \in {"none", "kick", "map"}
  /\ {ballot.target, ballot.starter} \subseteq Ids \cup {None}
  /\ ballot.votes \in [Voters -> {0, 1}] /\ Voters \subseteq Ids \ {ballot.target}
  /\ due \in BOOLEAN
  /\ nextMap \in {None, 0, 1} /\ outcome \in {None, 0, 1} /\ chosen \in {None, 0, 1}
  /\ event.of \in 0..MaxBallots
  /\ (ballot.kind = "map") = (event.of > 0 /\ ~event.set)
  /\ kicked \subseteq Conn /\ cooling \subseteq Conn
  /\ sequence \in {"off", "scores", "waiting", "dwell"} /\ awaited \in 0..MaxBallots
  /\ people \in [DOMAIN people -> Conn] /\ DOMAIN people \subseteq Ids
  /\ round \in 1..MaxRounds /\ joins \in 0..MaxJoins /\ ballots \in 0..MaxBallots

(* The ids of a ballot - its target, its starter and everybody whose vote  *)
(* is counted - still belong to the players they were taken from, though   *)
(* ids are reused at once (voting.py:971): no newcomer inherits a vote, a  *)
(* ballot, or a kick.                                                      *)
BallotNamesItsPeople ==
  /\ DOMAIN people = Voters \cup ({ballot.target, ballot.starter} \ {None})
  /\ \A i \in DOMAIN people : Holds(people[i], i)

(* "Never consume an unresolved vote" (base_mode.py:1094): whatever closes *)
(* the ballot the end sequence waits for - votes, a departure, the tick or *)
(* its own timeout - the round ends with the result of this round's map    *)
(* ballot, and with no map ballot open.                                    *)
RoundEndsWithItsVote ==
  sequence = "dwell" =>
    /\ chosen = outcome /\ outcome # None
    /\ ballot.kind # "map"
=============================================================================
