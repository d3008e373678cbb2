---------------------------- MODULE PlayerSlotsProofs ----------------------------
(***************************************************************************)
(* Proofs about PlayerSlots, for any number of peers, ids, bots and        *)
(* rollovers.  The roster without ghosts holds for good; the exclusiveness *)
(* of the ids and the release of the promises hold until the first         *)
(* rollover, and their invariant is needed only then.                      *)
(***************************************************************************)
EXTENDS PlayerSlots, FiniteSetTheorems, WellFoundedInduction, SequenceTheorems, TLAPS

\* The roster lists the connections there are, each once.
RosterAgrees ==
  /\ \A j, k \in DOMAIN roster : roster[j] = roster[k] => j = k
  /\ \A c \in Conn : phase[c] # "gone" <=> \E k \in DOMAIN roster : roster[k] = c

\* No peer whose reload has yet to start has a Player, or will get one.
AwaitingReload == rolling = "grace" \/ toReload # << >>

CarriedAreOut ==
  /\ AwaitingReload => \A c \in carried : phase[c] \in {"retired", "gone", "loading"}
  /\ rolling = "grace" => \A c \in carried : phase[c] # "loading"
  /\ toReload # << >> => /\ rolling \in {"grace", "reloading"}
                         /\ Head(toReload) \in carried

\* A connection is promised nothing before its ticket.
UnpromisedAtFirst == \A c \in Conn : phase[c] = "connected" => reservedId[c] = NoId

\* Before the first rollover an id that a joining peer was told is held back.
PromisesAreHeld ==
  \A c \in Told : phase[c] # "playing" => reservedId[c] \in reserved

FirstMatch ==
  rollovers = 0 =>
    /\ rolling = "idle" /\ toReload = << >> /\ \A c \in Conn : phase[c] # "retired"
    /\ IdsAreExclusive /\ PromisesAreReleased /\ PromisesAreHeld

IInv ==
  /\ TypeOK /\ RosterAgrees /\ RosterHasNoGhosts
  /\ CarriedAreOut /\ UnpromisedAtFirst /\ FirstMatch

-----------------------------------------------------------------------------
(* Least elements and lists.                                               *)

\* A set of finite sets has a member of which no other one is a part.
LEMMA MinimalSubset ==
  ASSUME NEW S, NEW T \in SUBSET FiniteSubsetsOf(S), T # {}
  PROVE  \E x \in T : \A y \in T : ~ (y \subseteq x /\ y # x)
<1>1. IsWellFoundedOn(StrictSubsetOrdering(S), FiniteSubsetsOf(S))
  BY FS_StrictSubsetOrderingWellFounded
<1>2. \E x \in T : \A y \in T : ~ (<<y, x>> \in StrictSubsetOrdering(S))
  BY <1>1, WFMin
<1>3. \A y, x \in T : y \subseteq x /\ y # x => <<y, x>> \in StrictSubsetOrdering(S)
  BY DEF StrictSubsetOrdering, FiniteSubsetsOf
<1>4. QED
  BY <1>2, <1>3

\* The least element of a set of natural numbers is one of them.
LEMMA MinIsLeast ==
  ASSUME NEW T \in SUBSET Nat, T # {}
  PROVE  Min(T) \in T /\ \A k \in T : Min(T) <= k
<1> DEFINE Upto == {0..n : n \in T}
<1>1. \A n \in T : 0..n \in FiniteSubsetsOf(Nat)
  BY FS_Interval DEF FiniteSubsetsOf
<1>2. Upto \in SUBSET FiniteSubsetsOf(Nat) /\ Upto # {}
  BY <1>1
<1>3. \E x \in Upto : \A y \in Upto : ~ (y \subseteq x /\ y # x)
  <2> HIDE DEF Upto
  <2> QED
    BY <1>2, MinimalSubset
<1>4. PICK m \in T : \A y \in Upto : ~ (y \subseteq 0..m /\ y # 0..m)
  BY <1>3
<1>5. ASSUME NEW k \in T, k < m PROVE FALSE
  <2>1. 0..k \in Upto
    OBVIOUS
  <2>2. m \in Nat /\ k \in Nat
    OBVIOUS
  <2>3. 0..k \subseteq 0..m /\ m \in 0..m /\ m \notin 0..k
    BY <1>5, <2>2
  <2>4. QED
    BY <1>4, <2>1, <2>3
<1>6. \A k \in T : m <= k
  BY <1>5
<1>7. QED
  BY <1>6 DEF Min

\* Taking an element out moves the later ones up by one.
LEMMA RemoveAtProperties ==
  ASSUME NEW S, NEW s \in Seq(S), NEW n \in 1..Len(s)
  PROVE  /\ RemoveAt(s, n) \in Seq(S)
         /\ Len(RemoveAt(s, n)) = Len(s) - 1
         /\ \A i \in 1..Len(s)-1 : RemoveAt(s, n)[i] = IF i < n THEN s[i] ELSE s[i + 1]
<1>1. /\ SubSeq(s, 1, n - 1) \in Seq(S) /\ Len(SubSeq(s, 1, n - 1)) = n - 1
      /\ \A i \in 1..n-1 : SubSeq(s, 1, n - 1)[i] = s[i]
  BY SubSeqProperties
<1>2. /\ SubSeq(s, n + 1, Len(s)) \in Seq(S) /\ Len(SubSeq(s, n + 1, Len(s))) = Len(s) - n
      /\ \A i \in 1..Len(s)-n : SubSeq(s, n + 1, Len(s))[i] = s[n + i]
  BY SubSeqProperties
<1>3. PICK front \in Seq(S), back \in Seq(S) :
        /\ front = SubSeq(s, 1, n - 1) /\ back = SubSeq(s, n + 1, Len(s))
        /\ Len(front) = n - 1 /\ \A i \in 1..n-1 : front[i] = s[i]
        /\ Len(back) = Len(s) - n /\ \A i \in 1..Len(s)-n : back[i] = s[n + i]
  BY <1>1, <1>2
<1>4. RemoveAt(s, n) = front \o back
  BY <1>3 DEF RemoveAt
<1>5. PICK joint : joint = front \o back
  OBVIOUS
<1>6. /\ joint \in Seq(S) /\ Len(joint) = Len(front) + Len(back)
      /\ \A i \in 1..Len(front)+Len(back) :
           joint[i] = IF i <= Len(front) THEN front[i] ELSE back[i - Len(front)]
  BY <1>5, ConcatProperties
<1>7. Len(front) + Len(back) = Len(s) - 1
  <2>1. Len(front) = n - 1 /\ Len(back) = Len(s) - n
    BY <1>3
  <2>2. n \in Int /\ Len(s) \in Int
    OBVIOUS
  <2>3. QED
    BY <2>1, <2>2
<1>8. ASSUME NEW i \in 1..Len(s)-1
      PROVE  joint[i] = IF i < n THEN s[i] ELSE s[i + 1]
  <2>1. joint[i] = IF i <= n - 1 THEN front[i] ELSE back[i - (n - 1)]
    BY <1>3, <1>6, <1>7
  <2>2. CASE i < n
    BY <1>3, <2>1, <2>2
  <2>3. CASE ~ (i < n)
    <3>1. PICK k \in 1..Len(s)-n : k = i - (n - 1)
      BY <2>3
    <3>2. joint[i] = back[k] /\ back[k] = s[n + k] /\ n + k = i + 1
      BY <1>3, <2>1, <2>3, <3>1
    <3>3. QED
      BY <2>3, <3>2
  <2>4. QED
    BY <2>2, <2>3
<1>9. QED
  BY <1>4, <1>5, <1>6, <1>7, <1>8

\* A list without one of its members holds the others, each once.
LEMMA WithoutIsTheRest ==
  ASSUME NEW list \in Seq(Conn), NEW c \in Conn,
         \A j, k \in DOMAIN list : list[j] = list[k] => j = k,
         \E k \in DOMAIN list : list[k] = c,
         NEW rest, rest = Without(list, c)
  PROVE  /\ rest \in Seq(Conn)
         /\ Len(rest) <= Len(list)
         /\ \A j, k \in DOMAIN rest : rest[j] = rest[k] => j = k
         /\ \A d \in Conn : (\E k \in DOMAIN rest : rest[k] = d)
                              <=> d # c /\ \E k \in DOMAIN list : list[k] = d
<1>1. PICK n \in 1..Len(list) : n = (CHOOSE k \in DOMAIN list : list[k] = c) /\ list[n] = c
  OBVIOUS
<1>2. rest = RemoveAt(list, n)
  BY <1>1 DEF Without
<1>3. /\ rest \in Seq(Conn) /\ Len(rest) = Len(list) - 1
      /\ \A i \in 1..Len(list)-1 : rest[i] = IF i < n THEN list[i] ELSE list[i + 1]
  <2>1. /\ RemoveAt(list, n) \in Seq(Conn) /\ Len(RemoveAt(list, n)) = Len(list) - 1
        /\ \A i \in 1..Len(list)-1 :
             RemoveAt(list, n)[i] = IF i < n THEN list[i] ELSE list[i + 1]
    BY RemoveAtProperties, Zenon
  <2>2. QED
    BY <1>2, <2>1, Zenon
<1>4. DOMAIN rest = 1..Len(list)-1 /\ DOMAIN list = 1..Len(list) /\ Len(list) \in Nat
  BY <1>3
<1> DEFINE at(i) == IF i < n THEN i ELSE i + 1
<1>5. ASSUME NEW i \in DOMAIN rest
      PROVE  at(i) \in DOMAIN list /\ at(i) # n /\ rest[i] = list[at(i)]
  BY <1>3, <1>4
<1>6. \A j, k \in DOMAIN rest : at(j) = at(k) => j = k
  BY <1>4
<1>7. ASSUME NEW j \in DOMAIN list, j # n
      PROVE  \E k \in DOMAIN rest : at(k) = j
  <2>1. CASE j < n
    BY <1>4, <2>1
  <2>2. CASE j > n
    <3>1. j - 1 \in DOMAIN rest /\ at(j - 1) = j
      BY <1>4, <2>2
    <3>2. QED
      BY <3>1
  <2>3. QED
    BY <1>4, <1>7, <2>1, <2>2
<1> HIDE DEF at
<1>8. \A j, k \in DOMAIN rest : rest[j] = rest[k] => j = k
  BY <1>5, <1>6
<1>9. \A d \in Conn : (\E k \in DOMAIN rest : rest[k] = d)
                        <=> d # c /\ \E k \in DOMAIN list : list[k] = d
  BY <1>1, <1>4, <1>5, <1>7
<1>10. QED
  BY <1>3, <1>8, <1>9

\* What is left of a list from some of its members onwards starts with one.
LEMMA FromStartsThere ==
  ASSUME NEW list \in Seq(Conn), NEW these
  PROVE  /\ From(list, these) \in Seq(Conn)
         /\ From(list, these) # << >> => Head(From(list, these)) \in these
<1> DEFINE at == {k \in DOMAIN list : list[k] \in these}
<1>1. CASE at = {}
  BY <1>1 DEF From
<1>2. CASE at # {}
  <2>1. at \in SUBSET Nat /\ DOMAIN list = 1..Len(list) /\ Len(list) \in Nat
    OBVIOUS
  <2>2. Min(at) \in at
    BY <1>2, <2>1, MinIsLeast
  <2>3. PICK m \in at : m = Min(at)
    BY <2>2
  <2>4. m \in Int /\ Len(list) \in Int /\ m <= Len(list) /\ list[m] \in these
        /\ \A i \in m..Len(list) : list[i] \in Conn
    BY <2>1
  <2>5. /\ SubSeq(list, m, Len(list)) \in Seq(Conn)
        /\ Len(SubSeq(list, m, Len(list))) = Len(list) - m + 1
        /\ SubSeq(list, m, Len(list))[1] = list[m]
    BY <2>4, SubSeqProperties
  <2>6. From(list, these) = SubSeq(list, m, Len(list))
    BY <1>2, <2>3 DEF From
  <2>7. QED
    BY <2>4, <2>5, <2>6
<1>3. QED
  BY <1>1, <1>2

-----------------------------------------------------------------------------
(* The helpers of the model.                                               *)

\* The bots of a roster can be counted.
LEMMA BotsCounted == ASSUME NEW who PROVE Cardinality(BotIds(who)) \in Nat
<1>1. IsFiniteSet(Id)
  BY SlotAssumption, FS_Interval DEF Id
<1>2. IsFiniteSet(BotIds(who))
  BY <1>1, FS_Subset DEF BotIds
<1>3. QED
  BY <1>2, FS_CardinalityType

\* Who may stand in server.players.
Who == Conn \cup {Bot, Nobody}

\* Making room takes away bots at most.
LEMMA RoomLosesBots ==
  ASSUME TypeOK, NEW promised, NEW who \in WithRoom(promised)
  PROVE  /\ who \in [Id -> Who]
         /\ \A i \in Id : who[i] = players[i] \/ (players[i] = Bot /\ who[i] = Nobody)
<1>1. players \in [Id -> Who]
  BY DEF TypeOK, Who
<1>2. who = players \/ \E i \in BotIds(players) : who = [players EXCEPT ![i] = Nobody]
  BY DEF WithRoom
<1>3. ASSUME NEW i \in BotIds(players), who = [players EXCEPT ![i] = Nobody]
      PROVE  /\ who \in [Id -> Who]
             /\ \A j \in Id : who[j] = players[j] \/ (players[j] = Bot /\ who[j] = Nobody)
  <2>1. players[i] = Bot
    BY DEF BotIds
  <2>2. QED
    BY <1>1, <1>3, <2>1 DEF Who
<1>4. QED
  BY <1>1, <1>2, <1>3

\* Bots come to free ids only.
LEMMA BotsJoinFree ==
  ASSUME TypeOK, NEW n
  PROVE  /\ WithBots(n) \in [Id -> Who]
         /\ \A i \in Id : \/ WithBots(n)[i] = players[i]
                          \/ /\ WithBots(n)[i] = Bot
                             /\ players[i] = Nobody /\ i \notin reserved
<1> DEFINE free == Free(players, reserved)
<1>1. \A i \in free : players[i] = Nobody /\ i \notin reserved
  BY DEF Free
<1> HIDE DEF free
<1>2. QED
  BY <1>1 DEF TypeOK, WithBots, Who, free

\* A claim is promised a free id, or refused one and its peer disconnected.
LEMMA ClaimSlotResult ==
  ASSUME TypeOK, NEW c \in Conn, NEW promised \in SUBSET Id, ClaimSlot(c, promised)
  PROVE  /\ players' \in [Id -> Who]
         /\ \A i \in Id : players'[i] = players[i] \/ (players[i] = Bot /\ players'[i] = Nobody)
         /\ \/ \E i \in Id \ promised :
                 /\ players'[i] = Nobody
                 /\ reservedId' = [reservedId EXCEPT ![c] = i]
                 /\ reserved' = promised \cup {i}
                 /\ closing' = closing
            \/ /\ reservedId' = [reservedId EXCEPT ![c] = NoId]
               /\ reserved' = promised
               /\ closing' \in SUBSET Conn
<1>1. PICK who \in WithRoom(promised) :
        /\ players' = who
        /\ \/ /\ Free(who, promised) # {}
              /\ reservedId' = [reservedId EXCEPT ![c] = Min(Free(who, promised))]
              /\ reserved' = promised \cup {reservedId'[c]}
              /\ closing' = closing
           \/ /\ Free(who, promised) = {}
              /\ reservedId' = [reservedId EXCEPT ![c] = NoId]
              /\ reserved' = promised
              /\ closing' = closing \cup {d \in {c} : phase[d] # "gone"}
  BY DEF ClaimSlot
<1>2. /\ who \in [Id -> Who]
      /\ \A i \in Id : who[i] = players[i] \/ (players[i] = Bot /\ who[i] = Nobody)
  BY RoomLosesBots
<1>3. CASE Free(who, promised) # {}
  <2>1. Free(who, promised) \in SUBSET Nat
    BY SlotAssumption DEF Free, Id
  <2>2. PICK i \in Free(who, promised) : i = Min(Free(who, promised))
    BY <1>3, <2>1, MinIsLeast
  <2>3. i \in Id \ promised /\ who[i] = Nobody
    BY DEF Free
  <2>4. reservedId'[c] = i
    BY <1>1, <1>3, <2>2 DEF TypeOK
  <2>5. QED
    BY <1>1, <1>2, <1>3, <2>2, <2>3, <2>4
<1>4. CASE Free(who, promised) = {}
  BY <1>1, <1>2, <1>4 DEF TypeOK
<1>5. QED
  BY <1>3, <1>4

-----------------------------------------------------------------------------
(* The invariant is inductive.                                             *)

\* At the start nobody is connected.
LEMMA InitInv == Init => IInv
<1> SUFFICES ASSUME Init PROVE IInv
  OBVIOUS
<1>1. TypeOK
  <2>1. Len(<< >>) = 0 /\ << >> \in Seq(Conn) /\ Cardinality(Conn) \in Nat
    BY SlotAssumption, FS_CardinalityType
  <2>2. QED
    BY <2>1 DEF Init, TypeOK, Phase
<1>2. RosterAgrees /\ RosterHasNoGhosts /\ CarriedAreOut /\ UnpromisedAtFirst
  BY SlotAssumption DEF Init, RosterAgrees, RosterHasNoGhosts, CarriedAreOut, AwaitingReload,
     UnpromisedAtFirst
<1>3. FirstMatch
  BY DEF Init, FirstMatch, IdsAreExclusive, PromisesAreReleased, PromisesAreHeld, Told
<1>4. QED
  BY <1>1, <1>2, <1>3 DEF IInv

\* A roster that lists each connection once is no longer than there are peers.
LEMMA RosterFits ==
  ASSUME NEW list \in Seq(Conn), \A j, k \in DOMAIN list : list[j] = list[k] => j = k
  PROVE  Len(list) <= Cardinality(Conn)
<1>1. PICK n \in Nat : n = Len(list)
  OBVIOUS
<1>2. list \in Injection(1..n, Conn)
  BY <1>1 DEF Injection, IsInjective
<1>3. Cardinality(1..n) <= Cardinality(Conn)
  <2>1. IsFiniteSet(Conn)
    BY SlotAssumption
  <2>2. QED
    BY <1>2, <2>1, FS_Injection
<1>4. Cardinality(1..n) = n
  BY FS_Interval
<1>5. QED
  BY <1>1, <1>3, <1>4

\* A new connection is promised nothing and has no Player.
LEMMA ConnectInv == ASSUME IInv, NEW c \in Conn, Connect(c) PROVE IInv'
<1>1. /\ Quiet /\ phase[c] = "gone" /\ c \notin carried
      /\ roster' = Append(roster, c)
      /\ phase' = [phase EXCEPT ![c] = "connected"]
      /\ reservedId' = [reservedId EXCEPT ![c] = NoId]
      /\ UNCHANGED <<closing, reserved, players, rolling, carried, toReload, botsAway, rollovers>>
  BY DEF Connect, rolloverVars
<1>2. roster \in Seq(Conn) /\ roster' \in Seq(Conn) /\ Len(roster') = Len(roster) + 1
      /\ (\A k \in 1..Len(roster) : roster'[k] = roster[k]) /\ roster'[Len(roster) + 1] = c
  BY <1>1, AppendProperties DEF IInv, TypeOK
<1>3. \A k \in DOMAIN roster : roster[k] # c
  BY <1>1 DEF IInv, RosterAgrees
<1>4. DOMAIN roster = 1..Len(roster) /\ DOMAIN roster' = 1..Len(roster)+1 /\ Len(roster) \in Nat
  BY <1>2
<1>5. RosterAgrees'
  <2>1. \A j, k \in DOMAIN roster' : roster'[j] = roster'[k] => j = k
    BY <1>2, <1>3, <1>4 DEF IInv, RosterAgrees
  <2>2. ASSUME NEW d \in Conn
        PROVE  phase'[d] # "gone" <=> \E k \in DOMAIN roster' : roster'[k] = d
    <3>1. CASE d = c
      BY <1>1, <1>2, <1>4, <3>1 DEF IInv, TypeOK
    <3>2. CASE d # c
      BY <1>1, <1>2, <1>4, <3>2 DEF IInv, TypeOK, RosterAgrees
    <3>3. QED
      BY <3>1, <3>2
  <2>3. QED
    BY <2>1, <2>2 DEF RosterAgrees
<1>6. TypeOK'
  <2>1. Len(roster') <= Cardinality(Conn)
    BY <1>2, <1>5, RosterFits DEF RosterAgrees
  <2>2. phase' \in [Conn -> Phase] /\ reservedId' \in [Conn -> Id \cup {NoId}]
    BY <1>1 DEF IInv, TypeOK, Phase
  <2>3. QED
    BY <1>1, <1>2, <2>1, <2>2 DEF IInv, TypeOK
<1>7. RosterHasNoGhosts'
  BY <1>1 DEF IInv, TypeOK, RosterHasNoGhosts
<1>8. CarriedAreOut' /\ UnpromisedAtFirst'
  BY <1>1 DEF IInv, TypeOK, CarriedAreOut, AwaitingReload, UnpromisedAtFirst
<1>9. FirstMatch'
  <2>1. Told' = Told
    BY <1>1 DEF IInv, TypeOK, Told
  <2>2. QED
    BY <1>1, <2>1 DEF IInv, TypeOK, FirstMatch, IdsAreExclusive, PromisesAreReleased,
       PromisesAreHeld, Told
<1>10. QED
  BY <1>5, <1>6, <1>7, <1>8, <1>9 DEF IInv

\* The ticket: a free id is promised to the peer, or the peer is refused.
LEMMA ClaimInv == ASSUME IInv, NEW c \in Conn, Claim(c) PROVE IInv'
<1>1. /\ Quiet /\ phase[c] = "connected"
      /\ phase' = [phase EXCEPT ![c] = "loading"]
      /\ UNCHANGED <<roster, rolling, carried, toReload, botsAway, rollovers>>
  BY DEF Claim, rolloverVars
<1>2. /\ players' \in [Id -> Who]
      /\ \A i \in Id : players'[i] = players[i] \/ (players[i] = Bot /\ players'[i] = Nobody)
      /\ \/ \E i \in Id \ reserved :
              /\ players'[i] = Nobody
              /\ reservedId' = [reservedId EXCEPT ![c] = i]
              /\ reserved' = reserved \cup {i}
              /\ closing' = closing
         \/ /\ reservedId' = [reservedId EXCEPT ![c] = NoId]
            /\ reserved' = reserved
            /\ closing' \in SUBSET Conn
  BY ClaimSlotResult DEF IInv, TypeOK, Claim
<1>3. TypeOK'
  <2>1. phase' \in [Conn -> Phase]
    BY <1>1 DEF IInv, TypeOK, Phase
  <2>2. reservedId' \in [Conn -> Id \cup {NoId}] /\ reserved' \in SUBSET Id
        /\ closing' \in SUBSET Conn
    BY <1>2 DEF IInv, TypeOK
  <2>3. QED
    BY <1>1, <1>2, <2>1, <2>2 DEF IInv, TypeOK, Who
<1>4. RosterAgrees'
  BY <1>1 DEF IInv, TypeOK, RosterAgrees
<1>5. \A i \in Id : players'[i] \in Conn => players'[i] = players[i]
  BY <1>2, SlotAssumption
<1>6. \A d \in Conn \ {c} : phase'[d] = phase[d] /\ reservedId'[d] = reservedId[d]
  BY <1>1, <1>2 DEF IInv, TypeOK
<1>7. RosterHasNoGhosts'
  BY <1>1, <1>5, <1>6 DEF IInv, TypeOK, RosterHasNoGhosts
<1>8. CarriedAreOut' /\ UnpromisedAtFirst'
  BY <1>1, <1>6 DEF IInv, TypeOK, CarriedAreOut, AwaitingReload, UnpromisedAtFirst
<1>9. FirstMatch'
  <2> SUFFICES ASSUME rollovers = 0
               PROVE  IdsAreExclusive' /\ PromisesAreReleased' /\ PromisesAreHeld'
    BY <1>1 DEF IInv, TypeOK, FirstMatch
  <2>1. IdsAreExclusive /\ PromisesAreReleased /\ PromisesAreHeld
    BY DEF IInv, FirstMatch
  <2>2. c \notin Told /\ phase'[c] = "loading" /\ Told \subseteq Conn
    BY <1>1 DEF IInv, TypeOK, Told
  <2>3. \A d \in Told : /\ d \in Told' /\ d # c /\ phase'[d] = phase[d]
                        /\ reservedId'[d] = reservedId[d] /\ reservedId[d] \in Id
    BY <1>6, <2>2 DEF IInv, TypeOK, Told
  <2>4. \A d \in Told' : d = c \/ d \in Told
    BY <1>6 DEF Told
  <2>5. \A d \in Told : players'[reservedId[d]] = players[reservedId[d]]
    BY <1>2, <2>1, <2>2, <2>3, SlotAssumption DEF IdsAreExclusive
  <2>6. CASE /\ reservedId' = [reservedId EXCEPT ![c] = NoId] /\ reserved' = reserved
    <3>1. c \notin Told'
      BY <2>6 DEF IInv, TypeOK, Told
    <3>2. QED
      BY <2>1, <2>3, <2>4, <2>5, <2>6, <3>1
         DEF IdsAreExclusive, PromisesAreReleased, PromisesAreHeld
  <2>7. ASSUME NEW i \in Id \ reserved, players'[i] = Nobody,
               reservedId' = [reservedId EXCEPT ![c] = i],
               reserved' = reserved \cup {i}
        PROVE  IdsAreExclusive' /\ PromisesAreReleased' /\ PromisesAreHeld'
    <3>1. reservedId'[c] = i /\ c \in Told'
      BY <2>2, <2>7, SlotAssumption DEF IInv, TypeOK, Told, Id, NoId
    <3>2. \A d \in Told : reservedId[d] # i
      BY <2>1, <2>2, <2>5, <2>7, SlotAssumption DEF IdsAreExclusive, PromisesAreHeld
    <3>3. IdsAreExclusive'
      BY <2>1, <2>2, <2>3, <2>4, <2>5, <2>7, <3>1, <3>2 DEF IdsAreExclusive
    <3>4. PromisesAreReleased' /\ PromisesAreHeld'
      BY <2>1, <2>2, <2>3, <2>4, <2>7, <3>1 DEF PromisesAreReleased, PromisesAreHeld
    <3>5. QED
      BY <3>3, <3>4
  <2>8. QED
    BY <1>2, <2>6, <2>7
<1>10. QED
  BY <1>3, <1>4, <1>7, <1>8, <1>9 DEF IInv

\* The id stays promised while the peer chooses its team.
LEMMA LoadedInv == ASSUME IInv, NEW c \in Conn, Loaded(c) PROVE IInv'
<1>1. /\ Quiet /\ phase[c] = "loading"
      /\ phase' = [phase EXCEPT ![c] = "selecting"]
      /\ UNCHANGED <<roster, closing, reservedId, reserved, players,
                     rolling, carried, toReload, botsAway, rollovers>>
  BY DEF Loaded, rolloverVars
<1>2. TypeOK'
  <2>1. phase' \in [Conn -> Phase]
    BY <1>1 DEF IInv, TypeOK, Phase
  <2>2. QED
    BY <1>1, <2>1 DEF IInv, TypeOK
<1>3. RosterAgrees' /\ RosterHasNoGhosts'
  BY <1>1 DEF IInv, TypeOK, RosterAgrees, RosterHasNoGhosts
<1>4. CarriedAreOut' /\ UnpromisedAtFirst'
  BY <1>1 DEF IInv, TypeOK, CarriedAreOut, AwaitingReload, UnpromisedAtFirst, Quiet
<1>5. FirstMatch'
  <2>1. Told' = Told
    BY <1>1 DEF IInv, TypeOK, Told
  <2>2. QED
    BY <1>1, <2>1 DEF IInv, TypeOK, FirstMatch, IdsAreExclusive, PromisesAreReleased,
       PromisesAreHeld, Told
<1>6. QED
  BY <1>2, <1>3, <1>4, <1>5 DEF IInv

\* The Player stands where its peer was promised, and the promise is over.
LEMMA NewPlayerInv == ASSUME IInv, NEW c \in Conn, NewPlayer(c) PROVE IInv'
<1>1. /\ Quiet /\ phase[c] = "selecting"
      /\ reserved' = reserved \ {reservedId[c]}
      /\ players' = [players EXCEPT ![reservedId[c]] = c]
      /\ phase' = [phase EXCEPT ![c] = "playing"]
      /\ UNCHANGED <<roster, closing, reservedId, rolling, carried, toReload, botsAway, rollovers>>
  BY DEF NewPlayer, rolloverVars
<1>2. TypeOK'
  <2>1. phase' \in [Conn -> Phase] /\ players' \in [Id -> Conn \cup {Bot, Nobody}]
        /\ reserved' \in SUBSET Id
    BY <1>1 DEF IInv, TypeOK, Phase
  <2>2. QED
    BY <1>1, <2>1 DEF IInv, TypeOK
<1>3. RosterAgrees'
  BY <1>1 DEF IInv, TypeOK, RosterAgrees
<1>4. RosterHasNoGhosts'
  BY <1>1 DEF IInv, TypeOK, RosterHasNoGhosts
<1>5. CarriedAreOut' /\ UnpromisedAtFirst'
  BY <1>1 DEF IInv, TypeOK, CarriedAreOut, AwaitingReload, UnpromisedAtFirst, Quiet
<1>6. FirstMatch'
  <2> SUFFICES ASSUME rollovers = 0
               PROVE  IdsAreExclusive' /\ PromisesAreReleased' /\ PromisesAreHeld'
    BY <1>1 DEF IInv, TypeOK, FirstMatch
  <2>1. IdsAreExclusive /\ PromisesAreReleased /\ PromisesAreHeld
    BY DEF IInv, FirstMatch
  <2>2. Told' = Told /\ \A d \in Told : reservedId[d] \in Id
    BY <1>1 DEF IInv, TypeOK, Told
  <2>3. \A d \in Conn \ {c} : phase'[d] = phase[d]
    BY <1>1 DEF IInv, TypeOK
  <2>4. phase'[c] = "playing"
    BY <1>1 DEF IInv, TypeOK
  <2>5. \A d \in Told \ {c} : c \in Told => reservedId[d] # reservedId[c]
    BY <2>1 DEF IdsAreExclusive
  <2>6. c \notin Told => reservedId[c] = NoId
    BY <1>1 DEF Told
  <2>7. \A d \in Told \ {c} : players'[reservedId[d]] = players[reservedId[d]]
    BY <1>1, <2>2, <2>5, <2>6 DEF IInv, TypeOK, Id, NoId
  <2>8. c \in Told => players'[reservedId[c]] = c
    BY <1>1, <2>2 DEF IInv, TypeOK
  <2>9. IdsAreExclusive'
    BY <1>1, <2>1, <2>2, <2>3, <2>4, <2>7, <2>8 DEF IdsAreExclusive
  <2>10. PromisesAreReleased'
    BY <1>1, <2>1, <2>2, <2>3 DEF PromisesAreReleased
  <2>11. PromisesAreHeld'
    BY <1>1, <2>1, <2>2, <2>3, <2>4, <2>5, <2>6 DEF PromisesAreHeld, Told
  <2>12. QED
    BY <2>9, <2>10, <2>11
<1>7. QED
  BY <1>2, <1>3, <1>4, <1>5, <1>6 DEF IInv

\* A disconnect that the server asks for changes nothing before the event.
LEMMA KickInv == ASSUME IInv, NEW c \in Conn, Kick(c) PROVE IInv'
BY DEF Kick, rolloverVars, IInv, TypeOK, RosterAgrees, RosterHasNoGhosts, CarriedAreOut,
   AwaitingReload, UnpromisedAtFirst, FirstMatch, IdsAreExclusive, PromisesAreReleased,
   PromisesAreHeld, Told

\* The peer leaves with its promise and its Player.
LEMMA DisconnectInv == ASSUME IInv, NEW c \in Conn, Disconnect(c) PROVE IInv'
<1>1. /\ Quiet /\ phase[c] # "gone"
      /\ roster' = Without(roster, c)
      /\ phase' = [phase EXCEPT ![c] = "gone"]
      /\ closing' = closing \ {c}
      /\ reserved' = reserved \ {reservedId[c]}
      /\ players' = IF phase[c] = "playing"
                    THEN [players EXCEPT ![reservedId[c]] = Nobody] ELSE players
      /\ UNCHANGED <<reservedId, rolling, carried, toReload, botsAway, rollovers>>
  BY DEF Disconnect, rolloverVars
<1>2. /\ roster \in Seq(Conn)
      /\ \A j, k \in DOMAIN roster : roster[j] = roster[k] => j = k
      /\ \E k \in DOMAIN roster : roster[k] = c
  BY <1>1 DEF IInv, TypeOK, RosterAgrees
<1>3. /\ roster' \in Seq(Conn)
      /\ \A j, k \in DOMAIN roster' : roster'[j] = roster'[k] => j = k
      /\ \A d \in Conn : (\E k \in DOMAIN roster' : roster'[k] = d)
                           <=> d # c /\ \E k \in DOMAIN roster : roster[k] = d
  <2>1. PICK rest : rest = Without(roster, c)
    OBVIOUS
  <2>2. /\ rest \in Seq(Conn)
        /\ \A j, k \in DOMAIN rest : rest[j] = rest[k] => j = k
        /\ \A d \in Conn : (\E k \in DOMAIN rest : rest[k] = d)
                             <=> d # c /\ \E k \in DOMAIN roster : roster[k] = d
    BY <1>2, <2>1, WithoutIsTheRest, SMTT(30)
  <2>3. roster' = rest
    BY <1>1, <2>1, Zenon
  <2>4. QED
    BY <2>2, <2>3, Zenon
<1>4. RosterAgrees'
  BY <1>1, <1>3 DEF IInv, TypeOK, RosterAgrees
<1>5. TypeOK'
  <2>1. Len(roster') <= Cardinality(Conn)
    BY <1>3, RosterFits
  <2>2. phase' \in [Conn -> Phase] /\ players' \in [Id -> Conn \cup {Bot, Nobody}]
        /\ reserved' \in SUBSET Id
    BY <1>1 DEF IInv, TypeOK, Phase
  <2>3. QED
    BY <1>1, <1>3, <2>1, <2>2 DEF IInv, TypeOK
<1>6. RosterHasNoGhosts'
  BY <1>1, SlotAssumption DEF IInv, TypeOK, RosterHasNoGhosts
<1>7. CarriedAreOut' /\ UnpromisedAtFirst'
  BY <1>1 DEF IInv, TypeOK, CarriedAreOut, AwaitingReload, UnpromisedAtFirst
<1>8. FirstMatch'
  <2> SUFFICES ASSUME rollovers = 0
               PROVE  IdsAreExclusive' /\ PromisesAreReleased' /\ PromisesAreHeld'
    BY <1>1 DEF IInv, TypeOK, FirstMatch
  <2>1. IdsAreExclusive /\ PromisesAreReleased /\ PromisesAreHeld
    BY DEF IInv, FirstMatch
  <2>2. Told' = Told \ {c} /\ \A d \in Told : reservedId[d] \in Id
    BY <1>1 DEF IInv, TypeOK, Told
  <2>3. \A d \in Conn \ {c} : phase'[d] = phase[d]
    BY <1>1 DEF IInv, TypeOK
  <2>4. c \in Told \/ reservedId[c] = NoId
    BY <1>1 DEF IInv, TypeOK, Phase, FirstMatch, UnpromisedAtFirst, Told
  <2>5. ASSUME NEW d \in Told \ {c} PROVE reservedId[d] # reservedId[c]
    BY <2>1, <2>4 DEF IdsAreExclusive, Told
  <2>6. \A d \in Told \ {c} : players'[reservedId[d]] = players[reservedId[d]]
    BY <1>1, <2>2, <2>5 DEF IInv, TypeOK
  <2>7. IdsAreExclusive'
    BY <1>1, <2>1, <2>2, <2>3, <2>6 DEF IdsAreExclusive, Told
  <2>8. PromisesAreReleased'
    BY <1>1, <2>1, <2>2, <2>3 DEF PromisesAreReleased, Told
  <2>9. PromisesAreHeld'
    BY <1>1, <2>1, <2>2, <2>3, <2>5 DEF PromisesAreHeld, Told
  <2>10. QED
    BY <2>7, <2>8, <2>9
<1>9. QED
  BY <1>4, <1>5, <1>6, <1>7, <1>8 DEF IInv

\* A change that concerns bots, and ids that nobody holds or was promised.
LEMMA BotsInv ==
  ASSUME IInv, players' \in [Id -> Who],
         \A i \in Id : \/ players'[i] = players[i]
                       \/ /\ players[i] \notin Conn /\ players'[i] \notin Conn
                          /\ i \notin reserved \/ players'[i] = Nobody,
         UNCHANGED <<roster, phase, closing, reservedId, reserved,
                     rolling, carried, toReload, botsAway, rollovers>>
  PROVE  IInv'
<1>1. TypeOK' /\ RosterAgrees' /\ RosterHasNoGhosts'
  BY DEF IInv, TypeOK, Who, RosterAgrees, RosterHasNoGhosts
<1>2. CarriedAreOut' /\ UnpromisedAtFirst'
  BY DEF IInv, CarriedAreOut, AwaitingReload, UnpromisedAtFirst
<1>3. FirstMatch'
  <2> SUFFICES ASSUME rollovers = 0
               PROVE  IdsAreExclusive' /\ PromisesAreReleased' /\ PromisesAreHeld'
    BY DEF IInv, FirstMatch
  <2>1. IdsAreExclusive /\ PromisesAreReleased /\ PromisesAreHeld
    BY DEF IInv, FirstMatch
  <2>2. Told' = Told /\ \A c \in Told : c \in Conn /\ reservedId[c] \in Id
    BY DEF IInv, TypeOK, Told
  <2>3. \A c \in Told : players'[reservedId[c]] = players[reservedId[c]]
    BY <2>1, <2>2 DEF IdsAreExclusive, PromisesAreHeld
  <2>4. QED
    BY <2>1, <2>2, <2>3 DEF IdsAreExclusive, PromisesAreReleased, PromisesAreHeld
<1>4. QED
  BY <1>1, <1>2, <1>3 DEF IInv

\* The upkeep and the admin command add a bot at a free id.
LEMMA AddBotInv == ASSUME IInv, AddBot PROVE IInv'
<1>1. /\ players' = WithBots(1)
      /\ UNCHANGED <<roster, phase, closing, reservedId, reserved,
                     rolling, carried, toReload, botsAway, rollovers>>
  BY DEF AddBot, peerVars, rolloverVars
<1>2. TypeOK
  BY DEF IInv
<1>3. QED
  BY <1>1, <1>2, BotsJoinFree, BotsInv, SlotAssumption

\* A bot that leaves frees its id.
LEMMA RemoveBotInv == ASSUME IInv, RemoveBot PROVE IInv'
<1>1. PICK i \in BotIds(players) : players' = [players EXCEPT ![i] = Nobody]
  BY DEF RemoveBot
<1>2. players' \in [Id -> Who] /\ players[i] = Bot /\ i \in Id
      /\ \A j \in Id : j # i => players'[j] = players[j]
  BY <1>1 DEF IInv, TypeOK, Who, BotIds
<1>3. players'[i] = Nobody
  BY <1>1, <1>2 DEF IInv, TypeOK
<1>4. UNCHANGED <<roster, phase, closing, reservedId, reserved,
                  rolling, carried, toReload, botsAway, rollovers>>
  BY DEF RemoveBot, peerVars, rolloverVars
<1>5. QED
  BY <1>2, <1>3, <1>4, BotsInv, SlotAssumption

\* A rollover carries over every Player, and detaches it.
LEMMA BeginRolloverInv == ASSUME IInv, BeginRollover PROVE IInv'
<1>1. /\ carried' = {c \in Conn : Carries(c)}
      /\ toReload' = From(roster, carried')
      /\ phase' = [c \in Conn |-> IF Carries(c) THEN "retired" ELSE phase[c]]
      /\ closing' = closing \cup {c \in Conn : phase[c] \in {"connected", "loading"}}
      /\ botsAway' = Cardinality(BotIds(players))
      /\ players' = [i \in Id |-> Nobody]
      /\ rolling' = "grace"
      /\ rollovers' = rollovers + 1
      /\ UNCHANGED <<roster, reservedId, reserved>>
  BY DEF BeginRollover
<1>2. toReload' \in Seq(Conn) /\ (toReload' # << >> => Head(toReload') \in carried')
  BY <1>1, FromStartsThere DEF IInv, TypeOK
<1>3. TypeOK'
  <2>1. phase' \in [Conn -> Phase] /\ players' \in [Id -> Conn \cup {Bot, Nobody}]
        /\ carried' \in SUBSET Conn /\ closing' \in SUBSET Conn
    BY <1>1 DEF IInv, TypeOK, Phase
  <2>2. botsAway' \in Nat /\ rollovers' \in Nat
    BY <1>1, BotsCounted DEF IInv, TypeOK
  <2>3. QED
    BY <1>1, <1>2, <2>1, <2>2 DEF IInv, TypeOK
<1>4. RosterAgrees' /\ RosterHasNoGhosts'
  BY <1>1, SlotAssumption DEF IInv, TypeOK, RosterAgrees, RosterHasNoGhosts, Carries
<1>5. CarriedAreOut' /\ UnpromisedAtFirst'
  BY <1>1, <1>2 DEF IInv, TypeOK, CarriedAreOut, UnpromisedAtFirst
<1>6. FirstMatch'
  BY <1>1 DEF IInv, TypeOK, FirstMatch
<1>7. QED
  BY <1>3, <1>4, <1>5, <1>6 DEF IInv

\* The bots are back before the first reload.
LEMMA RebindBotsInv == ASSUME IInv, RebindBots PROVE IInv'
<1>1. /\ rolling = "grace" /\ rolling' = "reloading"
      /\ players' = WithBots(botsAway) /\ botsAway' = 0
      /\ UNCHANGED <<roster, phase, closing, reservedId, reserved, carried, toReload, rollovers>>
  BY DEF RebindBots, peerVars
<1>2. players' \in [Id -> Who] /\ \A i \in Id : players'[i] \in Conn => players'[i] = players[i]
  BY <1>1, BotsJoinFree, SlotAssumption DEF IInv
<1>3. TypeOK'
  BY <1>1, <1>2 DEF IInv, TypeOK, Who
<1>4. RosterAgrees' /\ RosterHasNoGhosts'
  BY <1>1, <1>2 DEF IInv, TypeOK, RosterAgrees, RosterHasNoGhosts
<1>5. CarriedAreOut' /\ UnpromisedAtFirst'
  BY <1>1 DEF IInv, CarriedAreOut, AwaitingReload, UnpromisedAtFirst
<1>6. FirstMatch'
  BY <1>1 DEF IInv, FirstMatch
<1>7. QED
  BY <1>3, <1>4, <1>5, <1>6 DEF IInv

\* A carried peer has no Player when it claims an id again.
LEMMA ReloadSceneInv == ASSUME IInv, ReloadScene PROVE IInv'
<1>1. PICK c \in carried :
        /\ rolling = "reloading" /\ toReload # << >>
        /\ ClaimSlot(c, reserved \ {reservedId[c]})
        /\ phase' = [phase EXCEPT ![c] = IF @ = "gone" THEN @ ELSE "loading"]
  BY DEF ReloadScene, IInv, CarriedAreOut
<1>2. /\ toReload' = From(Tail(toReload), carried)
      /\ UNCHANGED <<roster, rolling, carried, botsAway, rollovers>>
  BY DEF ReloadScene
<1>3. c \in Conn /\ phase[c] \in {"retired", "gone", "loading"} /\ rollovers # 0
  BY <1>1 DEF IInv, TypeOK, CarriedAreOut, AwaitingReload, FirstMatch
<1>4. /\ players' \in [Id -> Who]
      /\ \A i \in Id : players'[i] = players[i] \/ (players[i] = Bot /\ players'[i] = Nobody)
      /\ reservedId' \in [Conn -> Id \cup {NoId}]
      /\ \A d \in Conn \ {c} : reservedId'[d] = reservedId[d]
      /\ reserved' \in SUBSET Id /\ closing' \in SUBSET Conn
  <2>1. TypeOK /\ reserved \ {reservedId[c]} \in SUBSET Id
    BY DEF IInv, TypeOK
  <2>2. /\ players' \in [Id -> Who]
        /\ \A i \in Id : players'[i] = players[i] \/ (players[i] = Bot /\ players'[i] = Nobody)
        /\ \/ \E i \in Id \ (reserved \ {reservedId[c]}) :
                /\ players'[i] = Nobody
                /\ reservedId' = [reservedId EXCEPT ![c] = i]
                /\ reserved' = (reserved \ {reservedId[c]}) \cup {i}
                /\ closing' = closing
           \/ /\ reservedId' = [reservedId EXCEPT ![c] = NoId]
              /\ reserved' = reserved \ {reservedId[c]}
              /\ closing' \in SUBSET Conn
    BY <1>1, <1>3, <2>1, ClaimSlotResult
  <2>3. QED
    BY <2>1, <2>2 DEF TypeOK
<1>5. toReload' \in Seq(Conn) /\ (toReload' # << >> => Head(toReload') \in carried)
  <2>1. Tail(toReload) \in Seq(Conn)
    BY <1>1 DEF IInv, TypeOK
  <2>2. QED
    BY <1>2, <2>1, FromStartsThere
<1>6. TypeOK'
  <2>1. phase' \in [Conn -> Phase]
    BY <1>1 DEF IInv, TypeOK, Phase
  <2>2. QED
    BY <1>2, <1>4, <1>5, <2>1 DEF IInv, TypeOK, Who
<1>7. RosterAgrees'
  BY <1>1, <1>2, <1>3 DEF IInv, TypeOK, RosterAgrees
<1>8. RosterHasNoGhosts'
  BY <1>1, <1>3, <1>4, SlotAssumption DEF IInv, TypeOK, RosterHasNoGhosts
<1>9. CarriedAreOut' /\ UnpromisedAtFirst'
  BY <1>1, <1>2, <1>3, <1>4, <1>5
     DEF IInv, TypeOK, CarriedAreOut, AwaitingReload, UnpromisedAtFirst
<1>10. FirstMatch'
  BY <1>2, <1>3 DEF FirstMatch
<1>11. QED
  BY <1>6, <1>7, <1>8, <1>9, <1>10 DEF IInv

\* Nothing is left to reload.
LEMMA FinishRolloverInv == ASSUME IInv, FinishRollover PROVE IInv'
<1>1. /\ toReload = << >> /\ rolling' = "idle" /\ carried' = {}
      /\ UNCHANGED <<roster, phase, closing, reservedId, reserved, players,
                     toReload, botsAway, rollovers>>
  BY DEF FinishRollover, peerVars
<1>2. TypeOK' /\ RosterAgrees' /\ RosterHasNoGhosts'
  BY <1>1 DEF IInv, TypeOK, RosterAgrees, RosterHasNoGhosts
<1>3. CarriedAreOut' /\ UnpromisedAtFirst'
  BY <1>1 DEF IInv, CarriedAreOut, AwaitingReload, UnpromisedAtFirst
<1>4. FirstMatch'
  BY <1>1 DEF IInv, FirstMatch, IdsAreExclusive, PromisesAreReleased, PromisesAreHeld, Told
<1>5. QED
  BY <1>2, <1>3, <1>4 DEF IInv

\* A rollback leaves the peers without Players, and brings back the bots.
LEMMA RollbackInv == ASSUME IInv, Rollback PROVE IInv'
<1>1. /\ rolling = "grace" /\ rolling' = "idle" /\ carried' = {} /\ toReload' = << >>
      /\ players' = WithBots(botsAway) /\ botsAway' = 0
      /\ closing' = closing \cup {c \in carried : phase[c] # "gone"}
      /\ UNCHANGED <<roster, phase, reservedId, reserved, rollovers>>
  BY DEF Rollback
<1>2. players' \in [Id -> Who] /\ \A i \in Id : players'[i] \in Conn => players'[i] = players[i]
  BY <1>1, BotsJoinFree, SlotAssumption DEF IInv
<1>3. TypeOK'
  BY <1>1, <1>2 DEF IInv, TypeOK, Who
<1>4. RosterAgrees' /\ RosterHasNoGhosts'
  BY <1>1, <1>2 DEF IInv, TypeOK, RosterAgrees, RosterHasNoGhosts
<1>5. CarriedAreOut' /\ UnpromisedAtFirst'
  BY <1>1 DEF IInv, CarriedAreOut, AwaitingReload, UnpromisedAtFirst
<1>6. FirstMatch'
  BY <1>1 DEF IInv, FirstMatch
<1>7. QED
  BY <1>3, <1>4, <1>5, <1>6 DEF IInv

\* Every step keeps the invariant.
LEMMA NextInv == IInv /\ [Next]_vars => IInv'
<1> SUFFICES ASSUME IInv, [Next]_vars PROVE IInv'
  OBVIOUS
<1>1. ASSUME NEW c \in Conn, Peer(c) PROVE IInv'
  BY <1>1, ConnectInv, ClaimInv, LoadedInv, NewPlayerInv, KickInv, DisconnectInv DEF Peer
<1>2. CASE AddBot \/ RemoveBot
  BY <1>2, AddBotInv, RemoveBotInv
<1>3. CASE Rollover
  BY <1>3, BeginRolloverInv, RebindBotsInv, ReloadSceneInv, FinishRolloverInv, RollbackInv
     DEF Rollover
<1>4. CASE UNCHANGED vars
  BY <1>4 DEF vars, peerVars, rolloverVars, IInv, TypeOK, RosterAgrees, RosterHasNoGhosts,
     CarriedAreOut, AwaitingReload, UnpromisedAtFirst, FirstMatch, IdsAreExclusive,
     PromisesAreReleased, PromisesAreHeld, Told
<1>5. QED
  BY <1>1, <1>2, <1>3, <1>4 DEF Next

\* Every variable keeps its type, and no connection is listed twice.
THEOREM TypeCorrect == Spec => []TypeOK
<1>1. IInv => TypeOK
  BY DEF IInv
<1>2. QED
  BY InitInv, NextInv, <1>1, PTL DEF Spec

\* server.players has no ghosts, through any number of rollovers: each entry is
\* a bot or the Player of a live connection that was promised that very id.
THEOREM NoGhostEver == Spec => []RosterHasNoGhosts
<1>1. IInv => RosterHasNoGhosts
  BY DEF IInv
<1>2. QED
  BY InitInv, NextInv, <1>1, PTL DEF Spec

\* Until a rollover has run, an id that a peer was told is nobody else's.
THEOREM OneOwnerAtFirst == Spec => []IdsAreExclusiveAtFirst
<1>1. IInv => IdsAreExclusiveAtFirst
  BY DEF IInv, FirstMatch, IdsAreExclusiveAtFirst
<1>2. QED
  BY InitInv, NextInv, <1>1, PTL DEF Spec

\* Until a rollover has run, every id held back belongs to a joining peer.
THEOREM NoPromiseLeaksAtFirst == Spec => []PromisesAreReleasedAtFirst
<1>1. IInv => PromisesAreReleasedAtFirst
  BY DEF IInv, FirstMatch, PromisesAreReleasedAtFirst
<1>2. QED
  BY InitInv, NextInv, <1>1, PTL DEF Spec
=============================================================================
