----------------------------- MODULE RoundResults ------------------------------
(***************************************************************************)
(* The account credit of a round.  The bridge to the master server turns   *)
(* the counters of Players, which come and go within a round, into         *)
(* immutable events: one checkpoint for each departure and a last one for  *)
(* the end of the round.  An event waits in memory, then in a SQLite       *)
(* outbox that survives the process, until the master acknowledges it.     *)
(*                                                                         *)
(* The counter of a Player stands for its kills, deaths, captures and      *)
(* score, which a new round resets.  Baselines belong to addresses, as     *)
(* they do in the code: id(player) is a new Player's once the old is gone. *)
(***************************************************************************)
EXTENDS Integers, Sequences, FiniteSets, FiniteSetsExt, SequencesExt

CONSTANTS
  Addr,        \* where Player objects live
  Acct,        \* accounts (account_legacy_id)
  Free,        \* what lives at an unused address
  MaxPending,  \* events the memory queue holds (256)
  MaxEvents,   \* ResultOutbox.MAX_EVENTS
  BatchLimit,  \* rows ResultOutbox.pending returns
  MaxMatches,  \* bound: matches in a behaviour
  MaxScore,    \* bound: points earned in a match
  MaxJoins     \* bound: Players in a behaviour

ASSUME ResultAssumption ==
  /\ IsFiniteSet(Addr) /\ IsFiniteSet(Acct) /\ Free \notin Acct
  /\ MaxPending \in Nat \ {0} /\ MaxEvents \in Nat \ {0}
  /\ BatchLimit \in Nat \ {0} /\ MaxMatches \in Nat \ {0} /\ MaxScore \in Nat
  /\ MaxJoins \in Nat

Match == 1 .. MaxMatches

VARIABLES
  who,        \* server.players: the account of the Player at each address
  counter,    \* its match counter
  baseline,   \* _player_baselines, 0 where there is none
  match,      \* _round_match_id
  eligible,   \* the round has lasted long enough for match evidence
  ended,      \* server._game_stats_sent
  rolling,    \* between the Players' retirement and the new round
  departed,   \* _departed: credit of Players that have left
  records,    \* _round_records: what the events of this round report
  completed,  \* _round_completed
  pending,    \* _pending_results
  flush,      \* where the result task is
  batch,      \* the events it is writing or posting
  closing,    \* _closing
  up,         \* the process runs
  outbox,     \* rows of round_results, in the order of rowid
  accepted,   \* external: events the master has committed
  earned,     \* auxiliary: credit earned in each match until it is completed
  captured,   \* events made so far; the next event_id
  joins       \* auxiliary: Players so far

rosterVars == <<who, counter, baseline>>
roundVars  == <<match, eligible, ended, rolling, departed, records, completed>>
flushVars  == <<flush, batch>>
storeVars  == <<outbox, accepted>>
tallies    == <<earned, captured, joins>>
resultVars == <<rosterVars, roundVars, pending, flushVars, closing, up, storeVars, tallies>>

Nothing == [p \in Acct |-> 0]
\* Another match fits into the bound, also after a shutdown that is under way.
Room == match + (IF closing THEN 1 ELSE 0) < MaxMatches
NoRecord == [total |-> 0, connected |-> FALSE]

-----------------------------------------------------------------------------
(* Helpers.                                                                *)

\* The sum of points over S, counted one point at a time.
PointsOf(points, S) ==
  Cardinality({h \in S \X (1 .. MaxScore) : h[2] <= points[h[1]]})

\* The elements of s that are not in S, after each element of s.
Kept(s, S) ==
  LET kept[n \in 0 .. Len(s)] ==
        IF n = 0 THEN << >>
        ELSE IF s[n] \in S THEN kept[n - 1] ELSE Append(kept[n - 1], s[n])
  IN  kept
Without(s, S) == Kept(s, S)[Len(s)]

\* FAULT: the baseline is not looked at.
DeltaFromZero(a) == counter[a]

\* _player_delta of the Player at address a.
Delta(a) == IF counter[a] > baseline[a] THEN counter[a] - baseline[a] ELSE 0

\* What account p has earned since the last event, with those on the roster.
Due(roster, p) ==
  PointsOf([a \in Addr |-> Delta(a)], {a \in Addr : roster[a] = p})

\* accumulate_departing_player.
SetAside(a) == [departed EXCEPT ![who[a]] = @ + Delta(a)]

\* FAULT: what the departed have earned since the last event is left out.
CombinedOfConnected(roster, left) ==
  [p \in Acct |->
    [total |-> records[p].total + Due(roster, p),
     connected |-> \E a \in Addr : roster[a] = p]]

\* _result_players: the records of the round, of the departed, of the roster.
Combined(roster, left) ==
  [p \in Acct |->
    [total |-> records[p].total + left[p] + Due(roster, p),
     connected |-> \E a \in Addr : roster[a] = p]]

\* _capture_round_results, with what departure has made of the roster, the
\* departed and the baselines.  It changes nothing when it returns early or
\* raises because the memory queue is full.
Capture(finished, roster, left, base) ==
  LET all == Combined(roster, left)
      changed == {p \in Acct : /\ all[p].total > 0
                               /\ \/ all[p] # records[p]
                                  \/ finished /\ all[p].connected}
  IN
  IF \/ closing \/ completed
     \/ ~eligible /\ (~finished \/ \E p \in Acct : records[p] # NoRecord)
     \/ Len(pending) >= MaxPending
  THEN /\ departed' = left
       /\ baseline' = base
       /\ UNCHANGED <<records, completed, pending, captured>>
  ELSE /\ completed' = finished
       /\ IF changed = {}
          THEN /\ departed' = left
               /\ baseline' = base
               /\ UNCHANGED <<records, pending, captured>>
          ELSE /\ pending' = Append(pending,
                    [id |-> captured, match |-> match, cumulative |-> eligible,
                     total |-> [p \in changed |-> all[p].total]])
               /\ departed' = Nothing
               /\ captured' = captured + 1
               /\ records' = all
               /\ baseline' = [a \in Addr |-> IF roster[a] # Free THEN counter[a]
                                              ELSE base[a]]

\* put_many: one transaction, which skips the events that are rows already and
\* fails as a whole when a row too many would be inserted.
Missing(events) == Without(events, ToSet(outbox))
\* FAULT: the limit is checked once, not for each event.
FitsAtFirst(events) == Len(outbox) < MaxEvents \/ Missing(events) = << >>
Fits(events) == Len(outbox) + Len(Missing(events)) <= MaxEvents
PutMany(events) ==
  outbox' = IF Fits(events) THEN outbox \o Missing(events) ELSE outbox

\* What a process starts from, and what its end leaves of memory.
FreshMemory ==
  /\ who' = [a \in Addr |-> Free] /\ counter' = [a \in Addr |-> 0]
  /\ baseline' = [a \in Addr |-> 0]
  /\ eligible' = FALSE /\ ended' = FALSE /\ rolling' = FALSE
  /\ departed' = Nothing /\ records' = [p \in Acct |-> NoRecord]
  /\ completed' = FALSE /\ pending' = << >>
  /\ flush' = "off" /\ batch' = << >> /\ closing' = FALSE

ResultInit ==
  /\ who = [a \in Addr |-> Free] /\ counter = [a \in Addr |-> 0]
  /\ baseline = [a \in Addr |-> 0]
  /\ match = 1 /\ eligible = FALSE /\ ended = FALSE /\ rolling = FALSE
  /\ departed = Nothing /\ records = [p \in Acct |-> NoRecord]
  /\ completed = FALSE /\ pending = << >>
  /\ flush = "off" /\ batch = << >> /\ closing = FALSE
  /\ up = TRUE
  /\ outbox = << >> /\ accepted = {}
  /\ earned = [m \in Match |-> Nothing]
  /\ captured = 0 /\ joins = 0

-----------------------------------------------------------------------------
(* The round.                                                              *)

\* A Player of account p; an address that was used before may be used again.
JoinRound(a, p) ==
  /\ up /\ who[a] = Free /\ joins < MaxJoins
  /\ joins' = joins + 1
  /\ who' = [who EXCEPT ![a] = p]
  /\ counter' = [counter EXCEPT ![a] = 0]
  /\ UNCHANGED <<baseline, roundVars, pending, flushVars, closing, up, storeVars,
                 earned, captured>>

\* A point, while fewer than MaxScore were made; one made after the round was
\* completed counts for nothing.
Score(a) ==
  /\ up /\ who[a] # Free
  /\ PointsOf(earned[match], Acct) < MaxScore /\ counter[a] < MaxScore
  /\ counter' = [counter EXCEPT ![a] = @ + 1]
  /\ earned' = IF completed THEN earned
               ELSE [earned EXCEPT ![match][who[a]] = @ + 1]
  /\ UNCHANGED <<who, baseline, roundVars, pending, flushVars, closing, up,
                 storeVars, captured, joins>>

\* Thirty seconds have passed.
BecomeEligible ==
  /\ up /\ ~eligible
  /\ eligible' = TRUE
  /\ UNCHANGED <<rosterVars, match, ended, rolling, departed, records, completed,
                 pending, flushVars, closing, up, storeVars, tallies>>

\* _on_disconnect_sync: set the Player's credit aside, run the leave hooks,
\* which may end the round, take it off the roster, capture.  The capture of a
\* round that the hook has completed finds nothing to do.
Depart(a) ==
  /\ up /\ who[a] # Free
  /\ who' = [who EXCEPT ![a] = Free]
  /\ counter' = [counter EXCEPT ![a] = 0]
  /\ \E endsRound \in BOOLEAN :
       /\ endsRound => ~ended /\ ~rolling
       /\ ended' = (ended \/ endsRound)
       /\ Capture(endsRound, who', SetAside(a), [baseline EXCEPT ![a] = 0])
  /\ UNCHANGED <<match, eligible, rolling, flushVars, closing, up, storeVars,
                 earned, joins>>

\* broadcast_game_stats at the end of the round.
FinishRound ==
  /\ up /\ ~ended /\ ~rolling
  /\ ended' = TRUE
  /\ Capture(TRUE, who, departed, baseline)
  /\ UNCHANGED <<who, counter, match, eligible, rolling, flushVars, closing, up,
                 storeVars, earned, joins>>

\* A map or mode rollover retires every Player without setting credit aside.
RetirePlayers ==
  /\ up /\ ~rolling /\ Room
  /\ who' = [a \in Addr |-> Free]
  /\ counter' = [a \in Addr |-> 0]
  /\ rolling' = TRUE
  /\ UNCHANGED <<baseline, match, eligible, ended, departed, records, completed,
                 pending, flushVars, closing, up, storeVars, tallies>>

\* begin_round of reset_round_runtime, then reset_round_scores of
\* on_mode_start: after a rollover, or for the Players of a same-map restart.
BeginRound ==
  /\ up /\ Room
  /\ match' = match + 1
  /\ eligible' = FALSE /\ ended' = FALSE /\ rolling' = FALSE /\ completed' = FALSE
  /\ departed' = Nothing
  /\ records' = [p \in Acct |-> NoRecord]
  /\ counter' = [a \in Addr |-> 0]
  /\ baseline' = [a \in Addr |-> 0]
  /\ UNCHANGED <<who, pending, flushVars, closing, up, storeVars, tallies>>

-----------------------------------------------------------------------------
(* The result task.  It holds _result_lock; one runs at a time.            *)

\* The task persists what is pending before it reads the outbox.
Persisting == /\ flush' = IF pending = << >> THEN "loading" ELSE "writing"
              /\ batch' = pending

\* FAULT: a heartbeat does not retry what an earlier task left in the outbox.
StartFlushForPending ==
  /\ up /\ ~closing /\ flush = "off"
  /\ pending # << >>
  /\ Persisting
  /\ UNCHANGED <<rosterVars, roundVars, pending, closing, up, storeVars, tallies>>

\* _start_result_flush, after a capture, at the start and with each heartbeat.
StartFlush ==
  /\ up /\ ~closing /\ flush = "off"
  /\ Persisting
  /\ UNCHANGED <<rosterVars, roundVars, pending, closing, up, storeVars, tallies>>

\* FAULT: every pending event is dropped once the snapshot is on disk.
PersistClearing ==
  /\ up /\ flush = "writing"
  /\ PutMany(batch)
  /\ pending' = IF Fits(batch) THEN << >> ELSE pending
  /\ flush' = IF Fits(batch) /\ ~closing THEN "loading" ELSE "off"
  /\ batch' = << >>
  /\ UNCHANGED <<rosterVars, roundVars, closing, up, accepted, tallies>>

\* put_many has committed, or raised, which ends the task.
Persist ==
  /\ up /\ flush = "writing"
  /\ PutMany(batch)
  /\ pending' = IF Fits(batch)
                THEN Without(pending, ToSet(batch))
                ELSE pending
  /\ flush' = IF Fits(batch) /\ ~closing THEN "loading" ELSE "off"
  /\ batch' = << >>
  /\ UNCHANGED <<rosterVars, roundVars, closing, up, accepted, tallies>>

\* The first rows of the outbox are to be posted.
Load ==
  /\ up /\ flush = "loading"
  /\ batch' = SubSeq(outbox, 1, IF Len(outbox) < BatchLimit THEN Len(outbox)
                                                            ELSE BatchLimit)
  /\ flush' = IF outbox = << >> THEN "off" ELSE "posting"
  /\ UNCHANGED <<rosterVars, roundVars, pending, closing, up, storeVars, tallies>>

\* The master commits the event and answers.
Deliver ==
  /\ up /\ flush = "posting"
  /\ accepted' = accepted \cup {Head(batch)}
  /\ flush' = "answered"
  /\ UNCHANGED <<rosterVars, roundVars, pending, batch, closing, up, outbox, tallies>>

\* The row of an accepted event is deleted; then the next, or the next round.
Acknowledge ==
  /\ up /\ flush = "answered"
  /\ outbox' = Without(outbox, {Head(batch)})
  /\ IF Len(batch) > 1
     THEN flush' = "posting" /\ batch' = Tail(batch)
     ELSE Persisting
  /\ UNCHANGED <<rosterVars, roundVars, pending, closing, up, accepted, tallies>>

\* FAULT: an event that could not be submitted is deleted.
PostFailsForgetting ==
  /\ up /\ flush = "posting"
  /\ accepted' \in {accepted, accepted \cup {Head(batch)}}
  /\ outbox' = Without(outbox, {Head(batch)})
  /\ flush' = "off" /\ batch' = << >>
  /\ UNCHANGED <<rosterVars, roundVars, pending, closing, up, tallies>>

\* The master cannot be reached or refuses, or its answer is lost.
PostFails ==
  /\ up /\ flush = "posting"
  /\ accepted' \in {accepted, accepted \cup {Head(batch)}}
  /\ flush' = "off" /\ batch' = << >>
  /\ UNCHANGED <<rosterVars, roundVars, pending, closing, up, outbox, tallies>>

-----------------------------------------------------------------------------
(* Shutdown and crash.                                                     *)

\* close: the last capture, then the gate.
Close ==
  /\ up /\ ~closing /\ match < MaxMatches
  /\ Capture(FALSE, who, departed, baseline)
  /\ closing' = TRUE
  /\ UNCHANGED <<who, counter, match, eligible, ended, rolling, flushVars, up,
                 storeVars, earned, joins>>

\* close cancels the result task.  SQLite and HTTP threads are not stopped by
\* that: a transaction is waited for, a post may still arrive.
Cancel ==
  /\ up /\ closing /\ flush # "off"
  /\ flush' = "off" /\ batch' = << >>
  /\ \/ flush = "writing" /\ PutMany(batch) /\ UNCHANGED accepted
     \/ flush = "loading" /\ UNCHANGED storeVars
     \/ /\ flush = "posting" /\ UNCHANGED outbox
        /\ accepted' \in {accepted, accepted \cup {Head(batch)}}
     \/ /\ flush = "answered" /\ UNCHANGED accepted
        /\ outbox' = Without(outbox, {Head(batch)})
  /\ UNCHANGED <<rosterVars, roundVars, pending, closing, up, tallies>>

\* The last put_many, which is allowed to fail, and the end of the process.
Exit ==
  /\ up /\ closing /\ flush = "off"
  /\ PutMany(pending)
  /\ up' = FALSE
  /\ FreshMemory
  /\ UNCHANGED <<match, accepted, tallies>>

\* The process dies.
Crash ==
  /\ up /\ match < MaxMatches
  /\ up' = FALSE
  /\ FreshMemory
  /\ UNCHANGED <<match, storeVars, tallies>>

\* A new process, a new match id.
StartServer ==
  /\ ~up
  /\ up' = TRUE
  /\ match' = match + 1
  /\ UNCHANGED <<rosterVars, eligible, ended, rolling, departed, records, completed,
                 pending, flushVars, closing, storeVars, tallies>>

-----------------------------------------------------------------------------
Round ==
  \/ \E a \in Addr : Score(a) \/ Depart(a) \/ \E p \in Acct : JoinRound(a, p)
  \/ BecomeEligible \/ FinishRound \/ RetirePlayers \/ BeginRound

Flush ==
  StartFlush \/ Persist \/ Load \/ Deliver \/ Acknowledge \/ PostFails

Process == Close \/ Cancel \/ Exit \/ Crash \/ StartServer

ResultNext == Round \/ Flush \/ Process

ResultSpec == ResultInit /\ [][ResultNext]_resultVars

\* Heartbeats go on and the task runs; a server that is down is started again;
\* a master that is asked again and again answers.
ResultFairness ==
  /\ WF_resultVars(StartFlush) /\ WF_resultVars(Persist) /\ WF_resultVars(Load)
  /\ WF_resultVars(Acknowledge) /\ SF_resultVars(Deliver)
  /\ WF_resultVars(Cancel) /\ WF_resultVars(Exit) /\ WF_resultVars(StartServer)

FairResultSpec == ResultSpec /\ ResultFairness

-----------------------------------------------------------------------------
(* Properties.                                                             *)

\* An event reports on some accounts.
Event == [id : Nat, match : Match, cumulative : BOOLEAN,
          total : UNION {[some -> 1 .. MaxScore] : some \in SUBSET Acct}]

\* Every variable keeps to its type.
ResultTypeOK ==
  /\ who \in [Addr -> Acct \cup {Free}]
  /\ counter \in [Addr -> 0 .. MaxScore] /\ baseline \in [Addr -> 0 .. MaxScore]
  /\ match \in Match
  /\ {eligible, ended, rolling, completed, closing, up} \subseteq BOOLEAN
  /\ departed \in [Acct -> Nat]
  /\ records \in [Acct -> [total : Nat, connected : BOOLEAN]]
  /\ pending \in Seq(Event) /\ Len(pending) <= MaxPending
  /\ flush \in {"off", "writing", "loading", "posting", "answered"}
  /\ batch \in Seq(Event)
  /\ outbox \in Seq(Event) /\ Len(outbox) <= MaxEvents
  /\ accepted \in SUBSET Event
  /\ earned \in [Match -> [Acct -> 0 .. MaxScore]]
  /\ captured \in Nat /\ joins \in 0 .. MaxJoins

\* How events S credit account p for match m: checkpoints of a match replace
\* one another, a report without match evidence is added.
Of(S, m, p, cumulative) ==
  {e.total[p] : e \in {f \in S : f.match = m /\ f.cumulative = cumulative
                                 /\ p \in DOMAIN f.total}}
Credit(S, m, p) ==
  Max(Of(S, m, p, TRUE) \cup {0}) + Max(Of(S, m, p, FALSE) \cup {0})

\* Nobody is ever credited with more than was earned in the match, whatever
\* departures, returns, retries, lost answers and crashes.
NeverOvercredited ==
  \A m \in Match, p \in Acct : Credit(accepted, m, p) <= earned[m][p]

\* The bridge implements AccountCredit: what the master makes of the events it
\* has got only ever grows, one match at a time, up to what was earned.
Credits == INSTANCE AccountCredit WITH
  credit <- [m \in Match |-> [p \in Acct |-> Credit(accepted, m, p)]]
ImplementsAccountCredit == Credits!Spec

\* A match that was completed reports all that each account earned in it, also
\* with Players that left and came back, under other or reused addresses.
CompletedIsExact ==
  completed => \A p \in Acct : records[p].total = earned[match][p]

\* "The immutable event now owns them": what the records call reported is in
\* an event that is still in memory, stored, or accepted.
RecordsAreOwned ==
  up => \A p \in Acct :
    records[p].total
      = Credit(ToSet(pending) \cup ToSet(outbox) \cup accepted, match, p)

\* "An event keeps its original ID and payload until the master acknowledges
\* it": a row is deleted only when the master has committed that event.
StoredUntilAcknowledged ==
  [][\A e \in ToSet(outbox) : e \in ToSet(outbox') \/ e \in accepted]_resultVars

\* "Result retries must continue": rows of the outbox do reach the master, if
\* it answers now and then, and are deleted; unless the pending events overfill
\* the outbox.
ResultsArrive ==
  \A m \in Match :
    (\E e \in ToSet(outbox) : e.match = m)
      ~> \/ ~\E e \in ToSet(outbox) : e.match = m
         \/ ~Fits(pending)

\* "round result outbox is full; restore master connectivity": with a master
\* that answers again, a full outbox does not stay full.  The code breaks this;
\* see the README.
FullOutboxDrains == Len(outbox) = MaxEvents ~> Len(outbox) < MaxEvents
=============================================================================
