--------------------------- MODULE VoteManagerProofs ---------------------------
(***************************************************************************)
(* Proofs about VoteManager, for any connections, ids and bounds.          *)
(***************************************************************************)
EXTENDS VoteManager, TLAPS

-----------------------------------------------------------------------------
(* The inductive invariant.  The runs' invariants say nothing of who has a *)
(* role in which kind of ballot, nor of the result on its way from the     *)
(* ballot to the end sequence.                                             *)

Shapes ==
  /\ ballot = [kind |-> ballot.kind, target |-> ballot.target,
               starter |-> ballot.starter, votes |-> ballot.votes]
  /\ event = [of |-> event.of, set |-> event.set]
  /\ event.of \in Nat /\ event.set \in BOOLEAN
  /\ event.of <= ballots

Roles ==
  /\ ballot.kind = "kick" => ballot.target \in Ids /\ ballot.starter \in Ids
  /\ ballot.kind # "kick" => ballot.target = None /\ ballot.starter = None
  /\ ballot.kind = "none" => Voters = {}

\* A result is staged until the end sequence takes it, and there is one, or a
\* ballot to wait for, as long as the end sequence has not.
Staged ==
  /\ nextMap # None => nextMap = outcome
  /\ ballot.kind = "map" => nextMap = None
  /\ sequence \in {"scores", "waiting"} => ballot.kind = "map" \/ nextMap # None
  /\ sequence = "waiting" => awaited = event.of /\ event.of > 0

IInv ==
  /\ TypeOK /\ Shapes /\ Roles
  /\ BallotNamesItsPeople
  /\ Staged /\ RoundEndsWithItsVote

-----------------------------------------------------------------------------
\* Nothing has been opened.
LEMMA InitInv == Init => IInv
<1> SUFFICES ASSUME Init PROVE IInv
  OBVIOUS
<1>1. Voters = {} /\ ballot.kind = "none" /\ ballot.target = None /\ ballot.starter = None
  BY DEF Init, NoBallot, Nobody, Voters
<1>2. ballot.votes \in [Voters -> {0, 1}]
  BY <1>1 DEF Init, NoBallot, Nobody, Voters
<1>3. TypeOK
  <2>1. people \in [DOMAIN people -> Conn] /\ DOMAIN people = {}
    BY DEF Init, Nobody
  <2>2. event.of = 0 /\ event.set = FALSE
    BY DEF Init
  <2>3. roster \in [Ids -> Conn \cup {None}] /\ inGame \subseteq Online
    BY DEF Init
  <2>4. /\ nextMap \in {None, 0, 1} /\ outcome \in {None, 0, 1} /\ chosen \in {None, 0, 1}
        /\ kicked \subseteq Conn /\ cooling \subseteq Conn /\ due \in BOOLEAN
        /\ sequence \in {"off", "scores", "waiting", "dwell"}
    BY DEF Init
  <2>5. /\ event.of \in 0..MaxBallots /\ awaited \in 0..MaxBallots
        /\ round \in 1..MaxRounds /\ joins \in 0..MaxJoins /\ ballots \in 0..MaxBallots
    BY <2>2, VoteAssumption DEF Init
  <2>6. QED
    BY <1>1, <1>2, <2>1, <2>2, <2>3, <2>4, <2>5 DEF TypeOK
<1>4. Shapes /\ Roles
  BY <1>1 DEF Init, Shapes, Roles, NoBallot
<1>5. BallotNamesItsPeople
  BY <1>1 DEF Init, BallotNamesItsPeople, Nobody
<1>6. Staged /\ RoundEndsWithItsVote
  BY <1>1 DEF Init, Staged, RoundEndsWithItsVote
<1>7. QED
  BY <1>3, <1>4, <1>5, <1>6 DEF IInv

\* A closed ballot names nobody.
LEMMA ClosedFacts ==
  ASSUME Closed
  PROVE  /\ ballot'.kind = "none" /\ ballot'.target = None /\ ballot'.starter = None
         /\ Voters' = {} /\ ballot'.votes \in [Voters' -> {0, 1}] /\ due' = FALSE
         /\ DOMAIN people' = {} /\ people' \in [DOMAIN people' -> Conn]
         /\ ballot' = [kind |-> ballot'.kind, target |-> ballot'.target,
                       starter |-> ballot'.starter, votes |-> ballot'.votes]
         /\ Roles' /\ BallotNamesItsPeople'
<1>1. /\ ballot' = [kind |-> "none", target |-> None, starter |-> None, votes |-> Nobody]
      /\ due' = FALSE /\ people' = Nobody
  BY DEF Closed, NoBallot
<1>2. DOMAIN Nobody = {} /\ Nobody \in [DOMAIN Nobody -> {0, 1}]
      /\ Nobody \in [DOMAIN Nobody -> Conn]
  BY DEF Nobody
<1>3. /\ ballot'.kind = "none" /\ ballot'.target = None /\ ballot'.starter = None
      /\ ballot'.votes = Nobody /\ Voters' = {}
  BY <1>1, <1>2 DEF Voters
<1>4. Roles' /\ BallotNamesItsPeople'
  BY <1>1, <1>2, <1>3 DEF Roles, BallotNamesItsPeople
<1>5. QED
  BY <1>1, <1>2, <1>3, <1>4

\* How a ballot may end: a kick ballot, or none, without touching the result;
\* a map ballot with a result.
Ends ==
  /\ Closed /\ kicked' \subseteq Conn
  /\ \/ ballot.kind # "map" /\ UNCHANGED resultVars
     \/ /\ ballot.kind = "map" /\ nextMap' \in {0, 1} /\ outcome' = nextMap'
        /\ event' = [event EXCEPT !.set = TRUE]

\* A map ballot has a winner.
LEMMA WinnerIs == \A votes : Winner(votes) \in {0, 1}
BY DEF Winner

\* Votes, deadlines and cancelled kicks end a ballot in one of these ways.
LEMMA ResolveEnds ==
  ASSUME IInv
  PROVE  /\ \A passed \in BOOLEAN : ballot.kind = "kick" /\ ResolveKick(passed) => Ends
         /\ \A votes : ballot.kind = "map" /\ ResolveMap(votes) => Ends
         /\ Active /\ Resolve => Ends
         /\ ballot.kind = "kick" /\ Cancel => Ends
<1>1. ASSUME NEW passed \in BOOLEAN, ballot.kind = "kick", ResolveKick(passed) PROVE Ends
  <2>1. ballot.target \in Ids /\ kicked \subseteq Conn
    BY <1>1 DEF IInv, Roles, TypeOK
  <2>2. roster[ballot.target] \in Conn \cup {None}
    BY <2>1 DEF IInv, TypeOK
  <2>3. kicked' \subseteq Conn
    BY <1>1, <2>1, <2>2 DEF ResolveKick
  <2>4. QED
    BY <1>1, <2>3 DEF ResolveKick, Ends
<1>2. ASSUME NEW votes, ballot.kind = "map", ResolveMap(votes) PROVE Ends
  BY <1>2, WinnerIs DEF ResolveMap, Ends, IInv, TypeOK
<1>3. ASSUME Active, Resolve PROVE Ends
  <2>1. ballot.kind \in {"kick", "map"}
    BY <1>3 DEF Active, IInv, TypeOK
  <2>2. Enough \in BOOLEAN
    BY DEF Enough
  <2>3. QED
    BY <1>1, <1>2, <1>3, <2>1, <2>2 DEF Resolve
<1>4. ASSUME ballot.kind = "kick", Cancel PROVE Ends
  <2>1. UNCHANGED resultVars /\ kicked' = kicked
    BY <1>4 DEF Cancel, Released, resultVars
  <2>2. QED
    BY <1>4, <2>1 DEF Cancel, Ends, IInv, TypeOK
<1>5. QED
  BY <1>1, <1>2, <1>3, <1>4

\* What holds of the players whatever happens to the ballot.
Peers ==
  /\ roster \in [Ids -> Conn \cup {None}] /\ inGame \subseteq Online
  /\ joins \in 0..MaxJoins

\* A ballot that ends keeps the invariant, whoever comes or goes with it.
LEMMA EndsInv ==
  ASSUME IInv, Ends, Peers', UNCHANGED <<cooling, matchVars, ballots>>
  PROVE  IInv'
<1>1. /\ ballot'.kind = "none" /\ ballot'.target = None /\ ballot'.starter = None
      /\ Voters' = {} /\ ballot'.votes \in [Voters' -> {0, 1}] /\ due' = FALSE
      /\ DOMAIN people' = {} /\ people' \in [DOMAIN people' -> Conn]
      /\ ballot' = [kind |-> ballot'.kind, target |-> ballot'.target,
                    starter |-> ballot'.starter, votes |-> ballot'.votes]
      /\ Roles' /\ BallotNamesItsPeople'
  BY ClosedFacts DEF Ends
<1>2. /\ event' = [of |-> event'.of, set |-> event'.set]
      /\ event'.of = event.of /\ event'.set \in BOOLEAN
      /\ ~(event'.of > 0 /\ ~event'.set)
      /\ nextMap' \in {None, 0, 1} /\ outcome' \in {None, 0, 1}
  <2>1. CASE ballot.kind # "map"
    BY <2>1 DEF Ends, IInv, Shapes, TypeOK, resultVars
  <2>2. CASE ballot.kind = "map"
    BY <2>2 DEF Ends, IInv, Shapes, TypeOK
  <2>3. QED
    BY <2>1, <2>2
<1>3. TypeOK'
  BY <1>1, <1>2 DEF IInv, TypeOK, Peers, Ends, matchVars
<1>4. Shapes'
  BY <1>1, <1>2 DEF IInv, Shapes
<1>5. Staged' /\ RoundEndsWithItsVote'
  <2>1. CASE ballot.kind # "map"
    BY <1>1, <2>1 DEF Ends, IInv, Staged, RoundEndsWithItsVote, matchVars, resultVars
  <2>2. CASE ballot.kind = "map"
    BY <1>1, <1>2, <2>2, VoteAssumption
       DEF Ends, IInv, Staged, RoundEndsWithItsVote, matchVars
  <2>3. QED
    BY <2>1, <2>2
<1>6. QED
  BY <1>1, <1>3, <1>4, <1>5 DEF IInv

\* Nor does a step that touches neither ballot, results nor end sequence.
LEMMA KeepInv ==
  ASSUME IInv, KeepBallot, Peers', UNCHANGED <<matchVars, ballots>>, cooling' \subseteq Conn,
         \A i \in DOMAIN people : roster[i] = people[i] => roster'[i] = people[i]
  PROVE  IInv'
<1>1. TypeOK'
  BY DEF IInv, TypeOK, Peers, KeepBallot, ballotVars, resultVars, matchVars, Voters
<1>2. Shapes' /\ Roles' /\ Staged' /\ RoundEndsWithItsVote'
  BY DEF IInv, Shapes, Roles, Staged, RoundEndsWithItsVote, KeepBallot, ballotVars,
         resultVars, matchVars, Voters
<1>3. BallotNamesItsPeople'
  BY DEF IInv, BallotNamesItsPeople, Holds, KeepBallot, ballotVars, Voters
<1>4. QED
  BY <1>1, <1>2, <1>3 DEF IInv

\* A newcomer takes an id that nobody named in the ballot holds.
LEMMA JoinInv == ASSUME IInv, NEW c \in Conn, Join(c) PROVE IInv'
<1>1. PICK i \in Ids : roster[i] = None /\ roster' = [roster EXCEPT ![i] = c]
  BY DEF Join, Holds
<1>2. roster \in [Ids -> Conn \cup {None}]
  BY DEF IInv, TypeOK
<1>3. Peers'
  <2>1. Online \subseteq Online'
    BY <1>1, <1>2, VoteAssumption DEF Online
  <2>2. joins' \in 0..MaxJoins
    BY VoteAssumption DEF Join, IInv, TypeOK
  <2>3. QED
    BY <1>1, <1>2, <2>1, <2>2 DEF Join, IInv, TypeOK, Peers
<1>4. \A j \in DOMAIN people : roster[j] = people[j] => roster'[j] = people[j]
  BY <1>1, <1>2, VoteAssumption DEF IInv, TypeOK
<1>5. QED
  BY <1>3, <1>4, KeepInv DEF Join, KeepBallot, IInv, TypeOK

\* A reveal may close an overdue ballot.
LEMMA RevealInv == ASSUME IInv, NEW c \in Conn, Reveal(c) PROVE IInv'
<1>1. Peers'
  BY DEF Reveal, IInv, TypeOK, Peers, Online
<1>2. CASE Active /\ due
  BY <1>1, <1>2, ResolveEnds, EndsInv DEF Reveal
<1>3. CASE ~(Active /\ due)
  BY <1>1, <1>3, KeepInv DEF Reveal, IInv, TypeOK
<1>4. QED
  BY <1>2, <1>3

\* Whoever goes takes the ballot, or only its vote, along.
LEMMA LeaveInv == ASSUME IInv, NEW c \in Conn, Leave(c) PROVE IInv'
<1>1. PICK i \in Ids : Holds(c, i) /\ Forget(i) /\ roster' = [roster EXCEPT ![i] = None]
  BY DEF Leave
<1>2. /\ roster \in [Ids -> Conn \cup {None}] /\ None \notin Ids /\ None \notin Conn
      /\ inGame' = inGame \ {c}
  BY VoteAssumption DEF IInv, TypeOK, Leave
<1>3. Peers'
  <2>1. \A d \in Online : d # c => d \in Online'
    BY <1>1, <1>2 DEF Online, Holds
  <2>2. QED
    BY <1>1, <1>2, <2>1 DEF Leave, IInv, TypeOK, Peers
<1>4. CASE i \in {ballot.target, ballot.starter}
  <2>1. ballot.kind = "kick"
    BY <1>2, <1>4 DEF IInv, Roles
  <2>2. Ends
    BY <1>1, <1>4, <2>1, ResolveEnds DEF Forget
  <2>3. QED
    BY <1>3, <2>2, EndsInv DEF Leave
<1>5. CASE /\ i \notin {ballot.target, ballot.starter}
           /\ ballot.kind = "map" /\ Eligible \ {i} # {} /\ Eligible \ {i} \subseteq Voters
  <2>1. ResolveMap([j \in Voters \ {i} |-> ballot.votes[j]])
    BY <1>1, <1>5 DEF Forget
  <2>2. Ends
    BY <1>5, <2>1, ResolveEnds
  <2>3. QED
    BY <1>3, <2>2, EndsInv DEF Leave
<1>6. CASE /\ i \notin {ballot.target, ballot.starter}
           /\ ~(ballot.kind = "map" /\ Eligible \ {i} # {} /\ Eligible \ {i} \subseteq Voters)
  <2> DEFINE votes == [j \in Voters \ {i} |-> ballot.votes[j]]
  <2>1. /\ ballot' = [ballot EXCEPT !.votes = votes]
        /\ people' = [j \in DOMAIN people \ {i} |-> people[j]]
        /\ UNCHANGED <<due, resultVars, kicked>>
    BY <1>1, <1>6 DEF Forget
  <2>2. votes \in [Voters \ {i} -> {0, 1}] /\ DOMAIN votes = Voters \ {i}
    BY DEF IInv, TypeOK
  <2> HIDE DEF votes
  <2>3. ballot' = [kind |-> ballot.kind, target |-> ballot.target,
                   starter |-> ballot.starter, votes |-> votes]
    BY <2>1 DEF IInv, Shapes
  <2>4. /\ ballot'.kind = ballot.kind /\ ballot'.target = ballot.target
        /\ ballot'.starter = ballot.starter /\ ballot'.votes = votes
        /\ Voters' = Voters \ {i}
    BY <2>2, <2>3 DEF Voters
  <2>5. people' \in [DOMAIN people' -> Conn] /\ DOMAIN people' = DOMAIN people \ {i}
    BY <2>1 DEF IInv, TypeOK
  <2>6. TypeOK'
    BY <1>3, <2>1, <2>2, <2>4, <2>5 DEF IInv, TypeOK, Peers, Leave, resultVars, matchVars
  <2>7. Shapes' /\ Roles' /\ Staged' /\ RoundEndsWithItsVote'
    BY <2>1, <2>3, <2>4 DEF IInv, Shapes, Roles, Staged, RoundEndsWithItsVote, Leave,
                            resultVars, matchVars
  <2>8. BallotNamesItsPeople'
    <3>1. DOMAIN people' = Voters' \cup ({ballot'.target, ballot'.starter} \ {None})
      BY <1>6, <2>4, <2>5 DEF IInv, BallotNamesItsPeople
    <3>2. \A j \in DOMAIN people' : roster'[j] = people'[j]
      BY <1>1, <1>2, <2>1, <2>5 DEF IInv, BallotNamesItsPeople, Holds
    <3>3. QED
      BY <3>1, <3>2 DEF BallotNamesItsPeople, Holds
  <2>9. QED
    BY <2>6, <2>7, <2>8 DEF IInv
<1>7. QED
  BY <1>4, <1>5, <1>6

-----------------------------------------------------------------------------
\* A kick ballot opens with the people it names.
LEMMA StartKickInv == ASSUME IInv, NEW s \in Ids, NEW t \in Ids, StartKick(s, t) PROVE IInv'
<1>1. /\ roster \in [Ids -> Conn \cup {None}] /\ inGame \subseteq Online /\ None \notin Conn
      /\ Online \subseteq Conn /\ roster[s] \in inGame /\ roster[t] \in inGame
      /\ None \notin Ids
  BY VoteAssumption DEF IInv, TypeOK, Online, StartKick, Eligible
<1> DEFINE votes == [i \in {s} |-> 0]
<1>2. votes \in [{s} -> {0, 1}] /\ DOMAIN votes = {s}
  OBVIOUS
<1>3. ballot' = [kind |-> "kick", target |-> t, starter |-> s, votes |-> votes]
  BY DEF StartKick
<1> HIDE DEF votes
<1>4. /\ ballot'.kind = "kick" /\ ballot'.target = t /\ ballot'.starter = s
      /\ ballot'.votes = votes /\ Voters' = {s}
  BY <1>2, <1>3 DEF Voters
<1>5. /\ people' \in [DOMAIN people' -> Conn] /\ DOMAIN people' = {s, t}
      /\ \A i \in {s, t} : people'[i] = roster[i]
  BY <1>1 DEF StartKick
<1>6. ballot.kind = "none" /\ UNCHANGED <<peerVars, resultVars, kicked, matchVars>>
  BY DEF StartKick, Active
<1>7. TypeOK'
  <2>1. cooling' \subseteq Conn /\ ballots' \in 0..MaxBallots /\ due' \in BOOLEAN
    <3>1. /\ cooling' = cooling \cup {roster[s]} /\ due' = FALSE
          /\ ballots' = ballots + 1 /\ ballots < MaxBallots
      BY DEF StartKick
    <3>2. cooling \subseteq Conn /\ ballots \in 0..MaxBallots /\ MaxBallots \in Nat
      BY VoteAssumption DEF IInv, TypeOK
    <3>3. ballots' \in 0..MaxBallots
      BY <3>1, <3>2
    <3>4. cooling' \subseteq Conn
      BY <1>1, <3>1, <3>2
    <3>5. QED
      BY <3>1, <3>3, <3>4
  <2>2. s # t
    BY DEF StartKick
  <2>3. inGame' \subseteq Online'
    BY <1>1, <1>6 DEF Online, peerVars
  <2>4. (ballot'.kind = "map") = (event'.of > 0 /\ ~event'.set)
    BY <1>4, <1>6 DEF IInv, TypeOK, resultVars
  <2>5. QED
    BY <1>2, <1>4, <1>5, <1>6, <2>1, <2>2, <2>3, <2>4
       DEF IInv, TypeOK, peerVars, resultVars, matchVars
<1>8. Shapes' /\ Roles'
  <2>1. ballots' = ballots + 1 /\ ballots \in Nat
    BY VoteAssumption DEF StartKick, IInv, TypeOK
  <2>2. QED
    BY <1>3, <1>4, <1>6, <2>1 DEF IInv, Shapes, Roles, resultVars
<1>9. BallotNamesItsPeople'
  BY <1>1, <1>4, <1>5, <1>6 DEF BallotNamesItsPeople, Holds, peerVars
<1>10. Staged' /\ RoundEndsWithItsVote'
  BY <1>4, <1>6 DEF IInv, Staged, RoundEndsWithItsVote, resultVars, matchVars
<1>11. QED
  BY <1>7, <1>8, <1>9, <1>10 DEF IInv

\* Peers of a state with the same peers.
LEMMA PeersStay == ASSUME IInv, UNCHANGED peerVars PROVE Peers'
BY DEF IInv, TypeOK, Peers, Online, peerVars

\* A cancelled kick ends a ballot.
LEMMA CancelKickInv == ASSUME IInv, NEW s \in Ids, CancelKick(s) PROVE IInv'
BY PeersStay, ResolveEnds, EndsInv DEF CancelKick

\* Cooldowns matter to nobody else.
LEMMA CooldownInv == ASSUME IInv, NEW c \in Conn, CooldownEnds(c) PROVE IInv'
<1>1. Peers' /\ KeepBallot /\ roster' = roster /\ cooling' \subseteq Conn
  BY PeersStay DEF CooldownEnds, KeepBallot, peerVars, IInv, TypeOK
<1>2. QED
  BY <1>1, KeepInv DEF CooldownEnds

\* A vote is counted for who holds the id now.
LEMMA CastInv ==
  ASSUME IInv, NEW i \in Ids, NEW k \in {0, 1}, Cast(i, k) PROVE IInv'
<1> DEFINE votes == [j \in Voters \cup {i} |-> IF j = i THEN k ELSE ballot.votes[j]]
           yes == {j \in DOMAIN votes : votes[j] = 0}
           passes == ballot.kind = "kick" /\ Cardinality(yes) >= Needed
           decided == /\ ~passes /\ ballot.kind = "map"
                      /\ Cardinality(DOMAIN votes) >= Cardinality(Eligible)
<1>1. CASE passes
  <2>1. ballot.kind = "kick" /\ ResolveKick(TRUE)
    BY <1>1 DEF Cast
  <2>2. Ends
    BY <2>1, ResolveEnds
  <2>3. QED
    BY <2>2, PeersStay, EndsInv DEF Cast
<1>2. CASE decided
  <2>1. ballot.kind = "map" /\ ResolveMap(votes)
    BY <1>2 DEF Cast
  <2>2. Ends
    BY <2>1, ResolveEnds
  <2>3. QED
    BY <2>2, PeersStay, EndsInv DEF Cast
<1>3. CASE ~passes /\ ~decided
  <2>1. /\ ballot' = [ballot EXCEPT !.votes = votes]
        /\ people' = [j \in DOMAIN people \cup {i} |-> IF j = i THEN roster[i] ELSE people[j]]
        /\ UNCHANGED <<due, resultVars, kicked>>
    BY <1>3 DEF Cast
  <2>2. votes \in [Voters \cup {i} -> {0, 1}] /\ DOMAIN votes = Voters \cup {i}
    BY DEF IInv, TypeOK
  <2> HIDE DEF votes, passes, decided
  <2>3. ballot' = [kind |-> ballot.kind, target |-> ballot.target,
                   starter |-> ballot.starter, votes |-> votes]
    BY <2>1 DEF IInv, Shapes
  <2>4. /\ ballot'.kind = ballot.kind /\ ballot'.target = ballot.target
        /\ ballot'.starter = ballot.starter /\ ballot'.votes = votes
        /\ Voters' = Voters \cup {i}
    BY <2>2, <2>3 DEF Voters
  <2>5. /\ i # ballot.target /\ ballot.kind # "none" /\ roster[i] \in Conn
        /\ UNCHANGED <<peerVars, cooling, matchVars, ballots>>
    BY VoteAssumption DEF Cast, Active, Eligible, IInv, TypeOK, Online
  <2>6. /\ people' \in [DOMAIN people' -> Conn] /\ DOMAIN people' = DOMAIN people \cup {i}
        /\ \A j \in DOMAIN people : j # i => people'[j] = people[j]
        /\ people'[i] = roster[i]
    BY <2>1, <2>5 DEF IInv, TypeOK
  <2>7. TypeOK'
    BY <2>1, <2>2, <2>4, <2>5, <2>6, PeersStay
       DEF IInv, TypeOK, Peers, resultVars, matchVars
  <2>8. Shapes' /\ Roles' /\ Staged' /\ RoundEndsWithItsVote'
    BY <2>1, <2>3, <2>4, <2>5 DEF IInv, Shapes, Roles, Staged, RoundEndsWithItsVote,
                                  resultVars, matchVars
  <2>9. BallotNamesItsPeople'
    <3>1. DOMAIN people' = Voters' \cup ({ballot'.target, ballot'.starter} \ {None})
      BY <2>4, <2>6 DEF IInv, BallotNamesItsPeople
    <3>2. \A j \in DOMAIN people' : roster'[j] = people'[j]
      BY <2>5, <2>6 DEF IInv, BallotNamesItsPeople, Holds, peerVars
    <3>3. QED
      BY <3>1, <3>2 DEF BallotNamesItsPeople, Holds
  <2>10. QED
    BY <2>7, <2>8, <2>9 DEF IInv
<1>4. QED
  BY <1>1, <1>2, <1>3

\* A deadline that passes changes nothing yet.
LEMMA DeadlineInv == ASSUME IInv, DeadlinePasses PROVE IInv'
<1>1. TypeOK'
  BY PeersStay DEF DeadlinePasses, IInv, TypeOK, Peers, Voters, resultVars, matchVars
<1>2. Shapes' /\ Roles' /\ Staged' /\ RoundEndsWithItsVote' /\ BallotNamesItsPeople'
  BY DEF DeadlinePasses, IInv, Shapes, Roles, Staged, RoundEndsWithItsVote,
         BallotNamesItsPeople, Holds, Voters, peerVars, resultVars, matchVars
<1>3. QED
  BY <1>1, <1>2 DEF IInv

\* An overdue ballot ends.
LEMMA ExpireInv == ASSUME IInv, Expire PROVE IInv'
BY PeersStay, ResolveEnds, EndsInv DEF Expire

-----------------------------------------------------------------------------
\* A map ballot opens while there is no result and no other ballot to keep.
LEMMA OpenedInv ==
  ASSUME IInv, Opened, ballot.kind # "map", nextMap = None, ballots < MaxBallots,
         UNCHANGED <<peerVars, cooling, awaited, chosen, round>>,
         sequence = "off", sequence' \in {"off", "scores"}
  PROVE  IInv'
<1>1. ballot' = [kind |-> "map", target |-> None, starter |-> None, votes |-> Nobody]
  BY DEF Opened, NoBallot
<1>2. /\ DOMAIN Nobody = {} /\ Nobody \in [DOMAIN Nobody -> {0, 1}]
      /\ Nobody \in [DOMAIN Nobody -> Conn]
  BY DEF Nobody
<1>3. /\ ballot'.kind = "map" /\ ballot'.target = None /\ ballot'.starter = None
      /\ ballot'.votes = Nobody /\ Voters' = {}
  BY <1>1, <1>2 DEF Voters
<1>4. due' = FALSE /\ people' = Nobody /\ nextMap' = None
      /\ event' = [of |-> event.of + 1, set |-> FALSE] /\ ballots' = ballots + 1
      /\ outcome' = outcome /\ kicked' = kicked
  BY DEF Opened
<1>5. ballots \in Nat /\ event.of \in Nat /\ event.of <= ballots /\ MaxBallots \in Nat
  BY VoteAssumption DEF IInv, TypeOK, Shapes
<1>6. /\ event'.of = event.of + 1 /\ event'.set = FALSE /\ event'.of > 0
      /\ event'.of \in 0..MaxBallots /\ ballots' \in 0..MaxBallots
  BY <1>4, <1>5
<1>7. TypeOK'
  <2>1. (ballot'.kind = "map") = (event'.of > 0 /\ ~event'.set)
    BY <1>3, <1>6
  <2>2. ballot'.votes \in [Voters' -> {0, 1}] /\ Voters' \subseteq Ids \ {ballot'.target}
    BY <1>2, <1>3
  <2>3. people' \in [DOMAIN people' -> Conn] /\ DOMAIN people' \subseteq Ids
    BY <1>2, <1>4
  <2>4. QED
    BY <1>3, <1>4, <1>6, <2>1, <2>2, <2>3, PeersStay DEF IInv, TypeOK, Peers
<1>8. Shapes' /\ Roles'
  BY <1>1, <1>3, <1>4, <1>5, <1>6 DEF Shapes, Roles
<1>9. BallotNamesItsPeople'
  BY <1>2, <1>3, <1>4 DEF BallotNamesItsPeople
<1>10. Staged' /\ RoundEndsWithItsVote'
  BY <1>3, <1>4 DEF Staged, RoundEndsWithItsVote
<1>11. QED
  BY <1>7, <1>8, <1>9, <1>10 DEF IInv

\* The mode opens one near the end of the round.
LEMMA OpenMapVoteInv == ASSUME IInv, OpenMapVote PROVE IInv'
BY OpenedInv DEF OpenMapVote, Active, matchVars

\* The end of a round keeps a map ballot or its result, or opens one.
LEMMA EndRoundInv == ASSUME IInv, EndRound PROVE IInv'
<1>1. CASE ballot.kind # "map" /\ nextMap = None
  BY <1>1, OpenedInv DEF EndRound
<1>2. CASE ~(ballot.kind # "map" /\ nextMap = None)
  <2>1. /\ sequence = "off" /\ sequence' = "scores"
        /\ UNCHANGED <<peerVars, cooling, awaited, chosen, round, ballots>>
        /\ IF ballot.kind = "kick" THEN Cancel ELSE KeepBallot
    BY <1>2 DEF EndRound
  <2>2. CASE ballot.kind = "kick"
    <3>1. /\ ballot'.kind = "none" /\ ballot'.target = None /\ ballot'.starter = None
          /\ Voters' = {} /\ ballot'.votes \in [Voters' -> {0, 1}] /\ due' = FALSE
          /\ DOMAIN people' = {} /\ people' \in [DOMAIN people' -> Conn]
          /\ ballot' = [kind |-> ballot'.kind, target |-> ballot'.target,
                        starter |-> ballot'.starter, votes |-> ballot'.votes]
          /\ Roles' /\ BallotNamesItsPeople'
      BY <2>1, <2>2, ClosedFacts DEF Cancel
    <3>2. event' = event /\ UNCHANGED <<nextMap, outcome, kicked>>
      BY <2>1, <2>2 DEF Cancel, Released
    <3>3. TypeOK'
      BY <2>1, <2>2, <3>1, <3>2, PeersStay DEF IInv, TypeOK, Peers
    <3>4. Shapes' /\ Staged' /\ RoundEndsWithItsVote'
      BY <1>2, <2>1, <2>2, <3>1, <3>2 DEF IInv, Shapes, Staged, RoundEndsWithItsVote
    <3>5. QED
      BY <3>1, <3>3, <3>4 DEF IInv
  <2>3. CASE ballot.kind # "kick"
    <3>1. UNCHANGED <<ballotVars, resultVars, kicked>>
      BY <2>1, <2>3 DEF KeepBallot
    <3>2. TypeOK'
      BY <2>1, <3>1, PeersStay DEF IInv, TypeOK, Peers, Voters, ballotVars, resultVars
    <3>3. Shapes' /\ Roles' /\ Staged' /\ RoundEndsWithItsVote' /\ BallotNamesItsPeople'
      BY <1>2, <2>1, <3>1
         DEF IInv, Shapes, Roles, Staged, RoundEndsWithItsVote, BallotNamesItsPeople, Holds,
             Voters, peerVars, ballotVars, resultVars
    <3>4. QED
      BY <3>2, <3>3 DEF IInv
  <2>4. QED
    BY <2>2, <2>3
<1>3. QED
  BY <1>1, <1>2

\* The result is taken when no map ballot is open any more.
LEMMA TakeInv ==
  ASSUME IInv, sequence \in {"scores", "waiting"}, ballot.kind # "map",
         sequence' = "dwell", chosen' = nextMap, nextMap' = None,
         UNCHANGED <<peerVars, ballotVars, event, outcome, kicked, cooling, awaited,
                     round, ballots>>
  PROVE  IInv'
<1>1. TypeOK'
  BY PeersStay DEF IInv, TypeOK, Peers, Voters, ballotVars
<1>2. Shapes' /\ Roles' /\ BallotNamesItsPeople'
  BY DEF IInv, Shapes, Roles, BallotNamesItsPeople, Holds, Voters, peerVars, ballotVars
<1>3. Staged' /\ RoundEndsWithItsVote'
  BY DEF IInv, Staged, RoundEndsWithItsVote, ballotVars
<1>4. QED
  BY <1>1, <1>2, <1>3 DEF IInv

\* With no ballot to wait for it is there already.
LEMMA NothingToAwaitInv == ASSUME IInv, NothingToAwait PROVE IInv'
BY TakeInv DEF NothingToAwait

\* The awaited ballot is the only one that can be open meanwhile.
LEMMA WakeUpInv == ASSUME IInv, WakeUp PROVE IInv'
<1>1. awaited = event.of /\ event.set
  BY DEF WakeUp, Settled, IInv, Staged
<1>2. ballot.kind # "map"
  BY <1>1 DEF IInv, TypeOK
<1>3. QED
  BY <1>2, TakeInv DEF WakeUp

\* The end sequence remembers which ballot it waits for.
LEMMA AwaitInv == ASSUME IInv, AwaitResult PROVE IInv'
<1>1. TypeOK'
  BY PeersStay DEF AwaitResult, IInv, TypeOK, Peers, Voters, ballotVars, resultVars
<1>2. Shapes' /\ Roles' /\ BallotNamesItsPeople'
  BY DEF AwaitResult, IInv, Shapes, Roles, BallotNamesItsPeople, Holds, Voters, peerVars,
         ballotVars, resultVars
<1>3. Staged' /\ RoundEndsWithItsVote'
  BY DEF AwaitResult, IInv, TypeOK, Staged, RoundEndsWithItsVote, ballotVars, resultVars
<1>4. QED
  BY <1>1, <1>2, <1>3 DEF IInv

\* An overdue ballot that is awaited is resolved by the one that waits.
LEMMA TimeOutInv == ASSUME IInv, TimeOut PROVE IInv'
<1>1. /\ ballot'.kind = "none" /\ ballot'.target = None /\ ballot'.starter = None
      /\ Voters' = {} /\ ballot'.votes \in [Voters' -> {0, 1}] /\ due' = FALSE
      /\ DOMAIN people' = {} /\ people' \in [DOMAIN people' -> Conn]
      /\ ballot' = [kind |-> ballot'.kind, target |-> ballot'.target,
                    starter |-> ballot'.starter, votes |-> ballot'.votes]
      /\ Roles' /\ BallotNamesItsPeople'
  BY ClosedFacts DEF TimeOut
<1>2. /\ event' = [event EXCEPT !.set = TRUE] /\ chosen' = outcome' /\ outcome' \in {0, 1}
      /\ sequence = "waiting" /\ sequence' = "dwell"
      /\ UNCHANGED <<peerVars, nextMap, kicked, cooling, awaited, round, ballots>>
      /\ awaited = event.of /\ ~event.set
  BY WinnerIs DEF TimeOut, Settled, IInv, Staged
<1>3. /\ event' = [of |-> event'.of, set |-> event'.set] /\ event'.of = event.of
      /\ event'.set = TRUE
  BY <1>2 DEF IInv, Shapes
<1>4. TypeOK'
  BY <1>1, <1>2, <1>3, PeersStay DEF IInv, TypeOK, Peers
<1>5. nextMap = None
  <2>1. event.of > 0
    BY <1>2 DEF IInv, Staged
  <2>2. ballot.kind = "map"
    BY <1>2, <2>1 DEF IInv, TypeOK
  <2>3. QED
    BY <2>2 DEF IInv, Staged
<1>6. Shapes' /\ Staged' /\ RoundEndsWithItsVote'
  BY <1>1, <1>2, <1>3, <1>5, VoteAssumption DEF IInv, Shapes, Staged, RoundEndsWithItsVote
<1>7. QED
  BY <1>1, <1>4, <1>6 DEF IInv
-----------------------------------------------------------------------------
\* A new round starts with no ballot, no result and nobody who waits for one.
LEMMA ResetInv == ASSUME IInv, Reset, Peers' PROVE IInv'
<1>1. /\ ballot'.kind = "none" /\ ballot'.target = None /\ ballot'.starter = None
      /\ Voters' = {} /\ ballot'.votes \in [Voters' -> {0, 1}] /\ due' = FALSE
      /\ DOMAIN people' = {} /\ people' \in [DOMAIN people' -> Conn]
      /\ ballot' = [kind |-> ballot'.kind, target |-> ballot'.target,
                    starter |-> ballot'.starter, votes |-> ballot'.votes]
      /\ Roles' /\ BallotNamesItsPeople'
  BY ClosedFacts DEF Reset
<1>2. /\ nextMap' = None /\ outcome' = None /\ chosen' = None /\ kicked' = {}
      /\ sequence' = "off" /\ UNCHANGED <<cooling, awaited, ballots>>
  BY DEF Reset
<1>3. round' \in 1..MaxRounds
  BY VoteAssumption DEF Reset, IInv, TypeOK
<1>4. /\ event' = [of |-> event'.of, set |-> event'.set]
      /\ event'.of = event.of /\ event'.set \in BOOLEAN
      /\ ~(event'.of > 0 /\ ~event'.set)
  <2>1. CASE ballot.kind = "map"
    BY <2>1 DEF Reset, Released, IInv, Shapes
  <2>2. CASE ballot.kind # "map"
    BY <2>2 DEF Reset, Released, IInv, Shapes, TypeOK
  <2>3. QED
    BY <2>1, <2>2
<1>5. TypeOK'
  BY <1>1, <1>2, <1>3, <1>4 DEF IInv, TypeOK, Peers
<1>6. Shapes' /\ Staged' /\ RoundEndsWithItsVote'
  BY <1>1, <1>2, <1>4 DEF IInv, Shapes, Staged, RoundEndsWithItsVote
<1>7. QED
  BY <1>1, <1>5, <1>6 DEF IInv

\* A restart keeps the players, a rollover detaches them.
LEMMA NewRoundInv == ASSUME IInv, Restart \/ Rollover PROVE IInv'
<1>1. CASE Restart
  BY <1>1, PeersStay, ResetInv DEF Restart
<1>2. CASE Rollover
  <2>1. Peers'
    BY <1>2 DEF Rollover, IInv, TypeOK, Peers
  <2>2. QED
    BY <1>2, <2>1, ResetInv DEF Rollover
<1>3. QED
  BY <1>1, <1>2

\* No step of the ballots, the players or the end sequence breaks it.
LEMMA NextInv == IInv /\ [Next]_vars => IInv'
<1> SUFFICES ASSUME IInv, [Next]_vars PROVE IInv'
  OBVIOUS
<1>1. CASE \E c \in Conn : Join(c) \/ Reveal(c) \/ Leave(c) \/ CooldownEnds(c)
  BY <1>1, JoinInv, RevealInv, LeaveInv, CooldownInv
<1>2. CASE \E s, t \in Ids : StartKick(s, t)
  BY <1>2, StartKickInv
<1>3. CASE \E s \in Ids : CancelKick(s)
  BY <1>3, CancelKickInv
<1>4. CASE \E i \in Ids, k \in {0, 1} : Cast(i, k)
  BY <1>4, CastInv
<1>5. CASE DeadlinePasses \/ Expire
  BY <1>5, DeadlineInv, ExpireInv
<1>6. CASE OpenMapVote \/ EndRound
  BY <1>6, OpenMapVoteInv, EndRoundInv
<1>7. CASE NothingToAwait \/ AwaitResult \/ WakeUp \/ TimeOut
  BY <1>7, NothingToAwaitInv, AwaitInv, WakeUpInv, TimeOutInv
<1>8. CASE Restart \/ Rollover
  BY <1>8, NewRoundInv
<1>9. CASE UNCHANGED vars
  <2>1. Peers' /\ KeepBallot
    BY <1>9, PeersStay DEF vars, KeepBallot
  <2>2. QED
    BY <1>9, <2>1, KeepInv DEF vars, peerVars, IInv, TypeOK
<1>10. QED
  BY <1>1, <1>2, <1>3, <1>4, <1>5, <1>6, <1>7, <1>8, <1>9 DEF Next

-----------------------------------------------------------------------------
\* Types: in particular the target of a kick never has a vote, and the event
\* the end sequence waits for is unset exactly while a map ballot is open.
THEOREM TypeCorrect == Spec => []TypeOK
<1>1. IInv => TypeOK
  BY DEF IInv
<1>2. QED
  BY InitInv, NextInv, <1>1, PTL DEF Spec

\* However players come, go and take each other's ids, everybody named in an
\* open ballot is the player that was meant.
THEOREM BallotsNameTheirPeople == Spec => []BallotNamesItsPeople
<1>1. IInv => BallotNamesItsPeople
  BY DEF IInv
<1>2. QED
  BY InitInv, NextInv, <1>1, PTL DEF Spec

\* Whatever settles the map ballot, the round goes on with its result.
THEOREM RoundsEndWithTheirVote == Spec => []RoundEndsWithItsVote
<1>1. IInv => RoundEndsWithItsVote
  BY DEF IInv
<1>2. QED
  BY InitInv, NextInv, <1>1, PTL DEF Spec
=============================================================================
