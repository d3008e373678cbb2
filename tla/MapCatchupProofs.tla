------------------------- MODULE MapCatchupProofs -------------------------
(***************************************************************************)
(* Proofs about MapCatchup, for any number of connections, cells and       *)
(* colours, any journal limit and no bound on the run.                     *)
(*                                                                         *)
(* IInv is shown inductive part by part: each lemma takes the parts it     *)
(* needs before a step and gives one part after it.                        *)
(***************************************************************************)
EXTENDS MapCatchup, TLAPS

-----------------------------------------------------------------------------
(* The helpers on journal rows.                                            *)

\* Pruning never removes a row that a pending connection has still to be shown.
LEMMA PruneKeepsNewer ==
  ASSUME NEW rows, NEW pending, NEW mark, NEW c \in pending,
         NEW m \in Nat, mark[c] \in Nat, mark[c] <= m,
         rows \subseteq Entry
  PROVE  Newer(Pruned(rows, pending, mark), m) = Newer(rows, m)
  BY DEF Newer, Pruned, Entry

\* Pruning and the journal limit only ever remove rows.
LEMMA RowsOnlyGo ==
  ASSUME NEW rows, NEW pending, NEW mark
  PROVE  /\ Pruned(rows, pending, mark) \subseteq rows
         /\ Excess(rows) \subseteq rows
  BY DEF Pruned, Excess

-----------------------------------------------------------------------------
(* Types.                                                                  *)

LEMMA InitTypeOK == Init => TypeOK
  BY ContentAssumption, ConnAssumption
     DEF Init, TypeOK, Map, Value, Phase, Stage, Entry

\* Every step of every handler keeps every variable within its type.
LEMMA NextTypeOK == TypeOK /\ [Next]_vars => TypeOK'
<1> SUFFICES ASSUME TypeOK, [Next]_vars PROVE TypeOK'
  OBVIOUS
<1> USE DEF terrainVars, journalVars, peerVars, leaseVars, syncVars, revealVars
<1>1. CASE UNCHANGED vars
  BY <1>1 DEF vars, TypeOK
<1>2. ASSUME NEW x \in Cell, NEW content \in Value, SetBlock(x, content)
      PROVE TypeOK'
  BY <1>2 DEF SetBlock, TypeOK, Map
<1>3. ASSUME NEW cells \in SUBSET Cell, DestroyBlocks(cells)
      PROVE TypeOK'
  BY <1>3 DEF DestroyBlocks, TypeOK, Map, Value
<1>4. ASSUME NEW x \in Cell, Publish(x)
      PROVE TypeOK'
  <2>1. /\ toPublish' \in SUBSET Cell
        /\ sequence' \in Nat
        /\ journal' \in SUBSET Entry
        /\ overflow' \in SUBSET Conn
    BY <1>4, RowsOnlyGo DEF Publish, TypeOK, Entry, Pending
  <2>2. view' \in [Conn -> Map]
    BY <1>4 DEF Publish, TypeOK, Map, Shown
  <2>3. QED
    BY <1>4, <2>1, <2>2 DEF Publish, TypeOK
<1>5. ASSUME NEW c \in Conn, Connect(c)
      PROVE TypeOK'
  BY <1>5 DEF Connect, TypeOK, Phase
<1>6. ASSUME NEW c \in Conn, MarkSnapshot(c), TypeOK
      PROVE /\ watermark' \in [Conn -> Nat] /\ pinned' \in SUBSET Conn
            /\ overflow' \in SUBSET Conn /\ airLeft' \in [Conn -> SUBSET Cell]
            /\ journal' \in SUBSET Entry /\ sequence' \in Nat
  BY <1>6, RowsOnlyGo DEF MarkSnapshot, TypeOK
<1>7. ASSUME NEW c \in Conn, SendPreparedMap(c)
      PROVE TypeOK'
  <2>1. PICK map \in {s.map : s \in {t \in cache : t.rev = topology}}
                 \cup (IF topology = 0 THEN {Pristine} ELSE {}) :
          /\ cache' = {[rev |-> topology, map |-> map]}
          /\ MarkSnapshot(c)
          /\ \E stale \in SUBSET airLeft'[c] :
               view' = [view EXCEPT ![c] = Loaded(map, stale)]
    BY <1>7 DEF SendPreparedMap
  <2>2. map \in Map
    BY ContentAssumption DEF TypeOK, Map
  <2>3. cache' \in SUBSET [rev : Nat, map : Map]
    BY <2>1, <2>2 DEF TypeOK
  <2>4. view' \in [Conn -> Map]
    BY <2>1, <2>2, ContentAssumption DEF TypeOK, Map, Loaded
  <2>5. QED
    BY <1>6, <1>7, <2>1, <2>3, <2>4 DEF SendPreparedMap, TypeOK, Phase
<1>8. ASSUME NEW c \in Conn, CaptureMap(c)
      PROVE TypeOK'
  BY <1>6, <1>8 DEF CaptureMap, TypeOK, Phase
<1>9. ASSUME NEW c \in Conn, SendCompressedMap(c)
      PROVE TypeOK'
  <2>1. PICK s \in mapSync :
          /\ cache' = IF s.rev = topology
                      THEN {[rev |-> s.rev, map |-> s.map]} ELSE cache
          /\ \E stale \in SUBSET airLeft[c] :
               view' = [view EXCEPT ![c] = Loaded(s.map, stale)]
    BY <1>9 DEF SendCompressedMap
  <2>2. s.rev \in Nat /\ s.map \in Map
    BY DEF TypeOK
  <2>3. cache' \in SUBSET [rev : Nat, map : Map]
    BY <2>1, <2>2 DEF TypeOK
  <2>4. view' \in [Conn -> Map]
    BY <2>1, <2>2, ContentAssumption DEF TypeOK, Map, Loaded
  <2>5. QED
    BY <1>9, <2>3, <2>4 DEF SendCompressedMap, TypeOK, Phase
<1>10. ASSUME NEW c \in Conn, AbandonMap(c) \/ NewPlayer(c) \/ Kick(c)
       PROVE TypeOK'
  BY <1>10 DEF AbandonMap, NewPlayer, Kick, TypeOK, Phase
<1>11. ASSUME NEW c \in Conn, Disconnect(c)
       PROVE TypeOK'
  BY <1>11, RowsOnlyGo, ContentAssumption DEF Disconnect, DropConnection, TypeOK, Phase, Map
<1>12. ASSUME NEW c \in Conn,
              StartReveal(c) \/ AirPause(c) \/ AirDone(c) \/ RejectCatchup(c)
       PROVE TypeOK'
  BY <1>12 DEF StartReveal, AirPause, AirDone, RejectCatchup, TypeOK, Stage
<1>13. ASSUME NEW c \in Conn, NEW x \in Cell, AirCell(c, x)
       PROVE TypeOK'
  BY <1>13 DEF AirCell, TypeOK, Map, Shown
<1>14. ASSUME NEW c \in Conn, TakeLease(c)
       PROVE TypeOK'
  <2>1. CellsOf(Newer(journal, watermark[c])) \in SUBSET Cell
    BY DEF CellsOf, Newer, TypeOK, Entry
  <2>2. QED
    BY <1>14, <2>1 DEF TakeLease, TypeOK
<1>15. ASSUME NEW c \in Conn, ReplayCell(c)
       PROVE TypeOK'
  BY <1>15 DEF ReplayCell, TypeOK, Map, Shown
<1>16. ASSUME NEW c \in Conn, LeaseDone(c)
       PROVE TypeOK'
  BY <1>16, RowsOnlyGo DEF LeaseDone, TypeOK, Stage
<1>17. ASSUME NEW c \in Conn, Admit(c)
       PROVE TypeOK'
  BY <1>17, RowsOnlyGo DEF Admit, TypeOK, Stage
<1>18. ASSUME NEW c \in Conn, RevealRaises(c)
       PROVE TypeOK'
  <2>1. view' \in [Conn -> Map]
    BY <1>18 DEF RevealRaises, TypeOK, Map
  <2>2. QED
    BY <1>18, <2>1 DEF RevealRaises, TypeOK, Stage
<1>19. QED
  BY <1>1, <1>2, <1>3, <1>4, <1>5, <1>7, <1>8, <1>9, <1>10, <1>11, <1>12,
     <1>13, <1>14, <1>15, <1>16, <1>17, <1>18
     DEF Next, Mutation, Handshake, Departure, Reveal

\* Every variable of the catch-up keeps to its type for ever.
THEOREM TypeCorrect == Spec => []TypeOK
  BY InitTypeOK, NextTypeOK, PTL DEF Spec

-----------------------------------------------------------------------------
(* The parts of the inductive invariant, one lemma each.                   *)

\* The initial state satisfies the inductive invariant.
LEMMA InitIInv == Init => IInv
<1> SUFFICES ASSUME Init PROVE IInv
  OBVIOUS
<1>1. TypeOK
  BY InitTypeOK
<1>2. Bounds /\ PhasesAgree /\ RevealsAgree /\ SnapshotsAgree
  BY ConnAssumption
     DEF Init, Bounds, PhasesAgree, RevealsAgree, SnapshotsAgree
<1>3. LoadersCovered /\ AdmittedSeesCanonical /\ JournalCoversJoiners
  BY DEF Init, LoadersCovered, AdmittedSeesCanonical, JournalCoversJoiners,
         Pending
<1>4. QED
  BY <1>1, <1>2, <1>3 DEF IInv

\* Watermarks and leases never run ahead of the sequence.
LEMMA NextBounds == IInv /\ [Next]_vars => Bounds'
<1> SUFFICES ASSUME IInv, [Next]_vars PROVE Bounds'
  OBVIOUS
<1> USE DEF IInv, terrainVars, journalVars, peerVars, leaseVars, syncVars,
            revealVars
<1>1. CASE UNCHANGED <<sequence, journal, watermark, leased, target>>
  BY <1>1 DEF Bounds
<1>2. ASSUME NEW x \in Cell, Publish(x)
      PROVE Bounds'
  <2>1. \A e \in journal' : e.seq <= sequence + 1
    BY <1>2, RowsOnlyGo DEF Publish, Bounds, TypeOK, Entry
  <2>2. /\ sequence' = sequence + 1
        /\ UNCHANGED <<watermark, leased, target>>
    BY <1>2 DEF Publish
  <2>3. QED
    BY <2>1, <2>2 DEF Bounds, TypeOK
<1>3. ASSUME NEW c \in Conn, MarkSnapshot(c), phase[c] = "handshake",
             UNCHANGED leaseVars
      PROVE Bounds'
  <2>1. journal' \subseteq journal
    BY <1>3, RowsOnlyGo DEF MarkSnapshot
  <2>2. c \notin leased
    BY <1>3 DEF PhasesAgree
  <2>3. /\ UNCHANGED <<sequence, leased, target>>
        /\ \A d \in Conn : watermark'[d] = IF d = c THEN sequence
                                         ELSE watermark[d]
    BY <1>3 DEF MarkSnapshot, TypeOK
  <2>4. QED
    BY <2>1, <2>2, <2>3 DEF Bounds, TypeOK
<1>4. ASSUME NEW c \in Conn, SendPreparedMap(c) \/ CaptureMap(c)
      PROVE Bounds'
  BY <1>3, <1>4 DEF SendPreparedMap, CaptureMap
<1>5. ASSUME NEW c \in Conn, Disconnect(c)
      PROVE Bounds'
  <2>1. journal' \subseteq journal
    BY <1>5, RowsOnlyGo DEF Disconnect, DropConnection
  <2>2. /\ sequence' = sequence /\ leased' = leased \ {c}
        /\ \A d \in Conn : /\ watermark'[d] = IF d = c THEN 0 ELSE watermark[d]
                           /\ target'[d] = IF d = c THEN 0 ELSE target[d]
    BY <1>5 DEF Disconnect, DropConnection, TypeOK
  <2>3. QED
    BY <2>1, <2>2 DEF Bounds, TypeOK
<1>6. ASSUME NEW c \in Conn, TakeLease(c)
      PROVE Bounds'
  BY <1>6 DEF TakeLease, Bounds, TypeOK
<1>7. ASSUME NEW c \in Conn, LeaseDone(c)
      PROVE Bounds'
  <2>1. journal' \subseteq journal
    BY <1>7, RowsOnlyGo DEF LeaseDone
  <2>2. /\ sequence' = sequence /\ leased' = leased \ {c}
        /\ \A d \in Conn :
             /\ watermark'[d] = IF d = c THEN target[d] ELSE watermark[d]
             /\ target'[d] = IF d = c THEN 0 ELSE target[d]
    BY <1>7 DEF LeaseDone, TypeOK
  <2>3. QED
    BY <2>1, <2>2 DEF Bounds, TypeOK
<1>8. ASSUME NEW c \in Conn, Admit(c)
      PROVE Bounds'
  <2>1. journal' \subseteq journal
    BY <1>8, RowsOnlyGo DEF Admit
  <2>2. QED
    BY <1>8, <2>1 DEF Admit, Bounds
<1>9. QED
  <2>1. CASE UNCHANGED vars
    BY <1>1, <2>1 DEF vars
  <2>2. CASE Mutation
    BY <1>1, <1>2, <2>2 DEF Mutation, SetBlock, DestroyBlocks
  <2>3. ASSUME NEW c \in Conn,
               Connect(c) \/ Handshake(c) \/ Departure(c)
        PROVE Bounds'
    BY <1>1, <1>4, <1>5, <2>3
       DEF Handshake, Departure, Connect, SendCompressedMap, AbandonMap,
           NewPlayer, Kick
  <2>4. ASSUME NEW c \in Conn, Reveal(c) \/ RevealRaises(c)
        PROVE Bounds'
    BY <1>1, <1>6, <1>7, <1>8, <2>4
       DEF Reveal, StartReveal, AirCell, AirPause, AirDone, RejectCatchup,
           ReplayCell, RevealRaises
  <2>5. QED
    BY <2>1, <2>2, <2>3, <2>4 DEF Next

\* Only a pinned, joined peer is ever leased cells or admitted.
LEMMA NextPhasesAgree == IInv /\ [Next]_vars => PhasesAgree'
<1> SUFFICES ASSUME IInv, [Next]_vars PROVE PhasesAgree'
  OBVIOUS
<1> USE DEF IInv, terrainVars, journalVars, peerVars, leaseVars, syncVars,
            revealVars
<1>1. CASE UNCHANGED <<phase, pinned, inGame, leased>>
  BY <1>1 DEF PhasesAgree
<1>2. ASSUME NEW c \in Conn, Connect(c) \/ AbandonMap(c) \/ NewPlayer(c)
      PROVE PhasesAgree'
  BY <1>2 DEF Connect, AbandonMap, NewPlayer, PhasesAgree, TypeOK, Phase
<1>3. ASSUME NEW c \in Conn,
             SendPreparedMap(c) \/ CaptureMap(c) \/ SendCompressedMap(c)
      PROVE PhasesAgree'
  BY <1>3 DEF SendPreparedMap, CaptureMap, SendCompressedMap, MarkSnapshot,
              PhasesAgree, TypeOK, Phase
<1>4. ASSUME NEW c \in Conn, Disconnect(c)
      PROVE PhasesAgree'
  BY <1>4 DEF Disconnect, DropConnection, PhasesAgree, TypeOK, Phase
<1>5. ASSUME NEW c \in Conn, TakeLease(c) \/ LeaseDone(c) \/ Admit(c)
      PROVE PhasesAgree'
  <2>1. phase[c] = "joined"
    BY <1>5, ConnAssumption
       DEF TakeLease, LeaseDone, Admit, RevealsAgree
  <2>2. QED
    BY <1>5, <2>1 DEF TakeLease, LeaseDone, Admit, PhasesAgree
<1>6. QED
  <2>1. CASE UNCHANGED vars
    BY <1>1, <2>1 DEF vars
  <2>2. CASE Mutation
    BY <1>1, <2>2 DEF Mutation, SetBlock, DestroyBlocks, Publish
  <2>3. ASSUME NEW c \in Conn,
               Connect(c) \/ Handshake(c) \/ Departure(c)
        PROVE PhasesAgree'
    BY <1>1, <1>2, <1>3, <1>4, <2>3 DEF Handshake, Departure, Kick
  <2>4. ASSUME NEW c \in Conn, Reveal(c) \/ RevealRaises(c)
        PROVE PhasesAgree'
    BY <1>1, <1>5, <2>4
       DEF Reveal, StartReveal, AirCell, AirPause, AirDone, RejectCatchup,
           ReplayCell, RevealRaises
  <2>5. QED
    BY <2>1, <2>2, <2>3, <2>4 DEF Next

\* While a reveal runs nothing else touches what it relies on.
LEMMA NextRevealsAgree == IInv /\ [Next]_vars => RevealsAgree'
<1> SUFFICES ASSUME IInv, [Next]_vars PROVE RevealsAgree'
  OBVIOUS
<1> USE ConnAssumption
    DEF IInv, terrainVars, journalVars, peerVars, leaseVars, syncVars,
        revealVars
<1>1. CASE UNCHANGED <<revealVars, toPublish, phase, inGame, airLeft,
                       overflow, leased, watermark, sequence>>
  BY <1>1 DEF RevealsAgree
<1>2. CASE revealing = None /\ revealing' = None /\ stage' = stage
  BY <1>2 DEF RevealsAgree
<1>3. ASSUME NEW c \in Conn, StartReveal(c)
      PROVE RevealsAgree'
  BY <1>3 DEF StartReveal, Quiet, RevealsAgree
<1>4. ASSUME NEW c \in Conn,
             AirPause(c) \/ RejectCatchup(c) \/ Admit(c) \/ RevealRaises(c)
      PROVE RevealsAgree'
  BY <1>4 DEF AirPause, RejectCatchup, Admit, RevealRaises, RevealsAgree
<1>5. ASSUME NEW c \in Conn, NEW x \in Cell, AirCell(c, x)
      PROVE RevealsAgree'
  BY <1>5 DEF AirCell, RevealsAgree
<1>6. ASSUME NEW c \in Conn, AirDone(c) \/ TakeLease(c) \/ ReplayCell(c)
      PROVE RevealsAgree'
  BY <1>6 DEF AirDone, TakeLease, ReplayCell, RevealsAgree
<1>7. ASSUME NEW c \in Conn, LeaseDone(c)
      PROVE RevealsAgree'
  <2>1. /\ revealing' = c /\ revealing = c /\ stage = "cells"
        /\ stage' \in {"rest", "cells"}
        /\ toPublish' = {} /\ phase'[c] = "joined" /\ c \notin inGame'
        /\ airLeft'[c] = {}
    BY <1>7 DEF LeaseDone, RevealsAgree
  <2>2. stage' = "rest" => sequence <= target[c]
    BY <1>7 DEF LeaseDone
  <2>3. target[c] <= sequence /\ target[c] \in Nat /\ sequence \in Nat
    BY DEF Bounds, TypeOK
  <2>4. stage' = "rest" => watermark'[c] = sequence'
    BY <1>7, <2>2, <2>3 DEF LeaseDone, TypeOK
  <2>5. c \notin overflow' \cup leased'
    BY <1>7 DEF LeaseDone, CatchupLost
  <2>6. QED
    BY <2>1, <2>4, <2>5 DEF RevealsAgree
<1>8. QED
  <2>1. CASE UNCHANGED vars
    BY <1>1, <2>1 DEF vars
  <2>2. CASE Mutation
    <3>1. revealing = None
      BY <2>2 DEF Mutation, SetBlock, DestroyBlocks, Publish, Quiet,
                  RevealsAgree
    <3>2. QED
      BY <1>2, <2>2, <3>1 DEF Mutation, SetBlock, DestroyBlocks, Publish
  <2>3. ASSUME NEW c \in Conn,
               Connect(c) \/ Handshake(c) \/ Departure(c)
        PROVE RevealsAgree'
    BY <1>2, <2>3
       DEF Connect, Handshake, Departure, SendPreparedMap, CaptureMap,
           SendCompressedMap, AbandonMap, NewPlayer, Kick, Disconnect, DropConnection, Quiet
  <2>4. ASSUME NEW c \in Conn, Reveal(c) \/ RevealRaises(c)
        PROVE RevealsAgree'
    BY <1>3, <1>4, <1>5, <1>6, <1>7, <2>4 DEF Reveal
  <2>5. QED
    BY <2>1, <2>2, <2>3, <2>4 DEF Next

\* A snapshot of this very revision is the canonical map.
LEMMA NextSnapshotsAgree == IInv /\ [Next]_vars => SnapshotsAgree'
<1> SUFFICES ASSUME IInv, [Next]_vars PROVE SnapshotsAgree'
  OBVIOUS
<1> USE DEF IInv, terrainVars, journalVars, peerVars, leaseVars, syncVars,
            revealVars
<1>1. CASE UNCHANGED <<vxl, topology>> /\ cache' = cache
           /\ mapSync' \subseteq mapSync
  BY <1>1 DEF SnapshotsAgree
<1>2. CASE topology' = topology + 1 /\ UNCHANGED syncVars
  BY <1>2 DEF SnapshotsAgree, TypeOK
<1>3. ASSUME NEW c \in Conn, SendPreparedMap(c)
      PROVE SnapshotsAgree'
  BY <1>3 DEF SendPreparedMap, SnapshotsAgree, TypeOK
<1>4. ASSUME NEW c \in Conn, CaptureMap(c)
      PROVE SnapshotsAgree'
  BY <1>4 DEF CaptureMap, SnapshotsAgree, TypeOK
<1>5. ASSUME NEW c \in Conn, SendCompressedMap(c)
      PROVE SnapshotsAgree'
  BY <1>5 DEF SendCompressedMap, SnapshotsAgree
<1>6. QED
  <2>1. CASE UNCHANGED vars
    BY <1>1, <2>1 DEF vars
  <2>2. CASE Mutation
    BY <1>1, <1>2, <2>2 DEF Mutation, SetBlock, DestroyBlocks, Publish
  <2>3. ASSUME NEW c \in Conn,
               Connect(c) \/ Handshake(c) \/ Departure(c)
        PROVE SnapshotsAgree'
    BY <1>1, <1>3, <1>4, <1>5, <2>3
       DEF Connect, Handshake, Departure, AbandonMap, NewPlayer, Kick,
           Disconnect, DropConnection
  <2>4. ASSUME NEW c \in Conn, Reveal(c) \/ RevealRaises(c)
        PROVE SnapshotsAgree'
    BY <1>1, <2>4
       DEF Reveal, StartReveal, AirCell, AirPause, AirDone, RejectCatchup,
           TakeLease, ReplayCell, LeaseDone, Admit, RevealRaises
  <2>5. QED
    BY <2>1, <2>2, <2>3, <2>4 DEF Next

\* No step loses a row that a joiner, not condemned by that step, waits for.
LEMMA NoRowLost ==
  ASSUME IInv, [Next]_vars,
         NEW c \in Pending' \ overflow', NEW m \in Nat, watermark'[c] <= m
  PROVE  Newer(journal, m) \subseteq journal'
<1> USE DEF IInv, terrainVars, journalVars, peerVars, leaseVars, syncVars,
            revealVars
<1>1. c \in Conn /\ watermark'[c] \in Nat
  BY NextTypeOK DEF TypeOK, Pending
<1>2. CASE journal' = journal
  BY <1>2 DEF Newer
<1>3. ASSUME NEW mark, mark[c] = watermark'[c],
             journal' = Pruned(journal, Pending', mark)
      PROVE Newer(journal, m) \subseteq journal'
  <2>1. \A e \in Newer(journal, m) : mark[c] < e.seq
    BY <1>1, <1>3 DEF Newer, TypeOK, Entry
  <2>2. QED
    BY <1>3, <2>1 DEF Pruned, Newer
<1>4. ASSUME NEW x \in Cell, Publish(x)
      PROVE Newer(journal, m) \subseteq journal'
  <2>1. /\ c \in Pending
        /\ watermark[c] = watermark'[c]
    BY <1>4 DEF Publish, Pending
  <2>2. PICK grown \in {journal, journal
                        \cup {[seq |-> sequence + 1, cell |-> x]}} :
          /\ journal' = grown \ Excess(grown)
          /\ overflow' = overflow \cup
               {d \in Pending : \E e \in Excess(grown) : watermark[d] < e.seq}
    BY <1>4 DEF Publish
  <2>3. ASSUME NEW e \in Newer(journal, m), e \in Excess(grown)
        PROVE FALSE
    <3>1. watermark[c] < e.seq
      BY <1>1, <2>1, <2>3 DEF Newer, TypeOK, Entry
    <3>2. QED
      BY <2>1, <2>2, <2>3, <3>1
  <2>4. QED
    BY <2>2, <2>3 DEF Newer
<1>5. ASSUME NEW d \in Conn, MarkSnapshot(d), inGame' = inGame
      PROVE Newer(journal, m) \subseteq journal'
  BY <1>3, <1>5 DEF MarkSnapshot, Pending
<1>6. ASSUME NEW d \in Conn, SendPreparedMap(d) \/ CaptureMap(d)
      PROVE Newer(journal, m) \subseteq journal'
  BY <1>5, <1>6 DEF SendPreparedMap, CaptureMap
<1>7. ASSUME NEW d \in Conn, Disconnect(d)
      PROVE Newer(journal, m) \subseteq journal'
  <2>1. Pending' = Pending \ {d} /\ journal' = Pruned(journal, Pending', watermark)
    BY <1>7 DEF Disconnect, DropConnection, Pending
  <2>2. watermark'[c] = watermark[c]
    BY <1>7, <1>1, <2>1 DEF Disconnect, DropConnection, TypeOK
  <2>3. QED
    BY <1>3, <2>1, <2>2
<1>8. ASSUME NEW d \in Conn, LeaseDone(d)
      PROVE Newer(journal, m) \subseteq journal'
  <2>1. Pending' = Pending /\ journal' = Pruned(journal, Pending', watermark')
    BY <1>8 DEF LeaseDone, Pending
  <2>2. QED
    BY <1>3, <2>1
<1>9. ASSUME NEW d \in Conn, Admit(d)
      PROVE Newer(journal, m) \subseteq journal'
  <2>1. Pending' = Pending \ {d} /\ journal' = Pruned(journal, Pending', watermark)
    BY <1>9 DEF Admit, Pending
  <2>2. watermark' = watermark
    BY <1>9 DEF Admit
  <2>3. QED
    BY <1>3, <2>1, <2>2
<1>10. QED
  <2>1. CASE UNCHANGED vars
    BY <1>2, <2>1 DEF vars
  <2>2. CASE Mutation
    BY <1>2, <1>4, <2>2 DEF Mutation, SetBlock, DestroyBlocks
  <2>3. ASSUME NEW d \in Conn,
               Connect(d) \/ Handshake(d) \/ Departure(d)
        PROVE Newer(journal, m) \subseteq journal'
    BY <1>2, <1>6, <1>7, <2>3
       DEF Connect, Handshake, Departure, SendCompressedMap, AbandonMap,
           NewPlayer, Kick
  <2>4. ASSUME NEW d \in Conn, Reveal(d) \/ RevealRaises(d)
        PROVE Newer(journal, m) \subseteq journal'
    BY <1>2, <1>8, <1>9, <2>4
       DEF Reveal, StartReveal, AirCell, AirPause, AirDone, RejectCatchup,
           TakeLease, ReplayCell, RevealRaises
  <2>5. QED
    BY <2>1, <2>2, <2>3, <2>4 DEF Next

\* Rows enter the journal one sequence at a time, and only from a commit.
LEMMA RowsEntering ==
  ASSUME IInv, [Next]_vars
  PROVE  \/ journal' \subseteq journal /\ sequence' = sequence
         \/ \E x \in Cell :
              LET row == [seq |-> sequence + 1, cell |-> x] IN
              /\ Publish(x)
              /\ sequence' = sequence + 1
              /\ journal' \subseteq journal \cup {row}
              /\ \A c \in Pending' \ overflow' : row \in journal'
<1> USE DEF IInv, terrainVars, journalVars, peerVars, leaseVars, syncVars,
            revealVars
<1>1. ASSUME NEW x \in Cell, Publish(x)
      PROVE LET row == [seq |-> sequence + 1, cell |-> x] IN
              /\ sequence' = sequence + 1
              /\ journal' \subseteq journal \cup {row}
              /\ \A c \in Pending' \ overflow' : row \in journal'
  <2> DEFINE row   == [seq |-> sequence + 1, cell |-> x]
             grown == IF Pending = {} THEN journal ELSE journal \cup {row}
  <2>1. /\ sequence' = sequence + 1
        /\ journal' = grown \ Excess(grown)
        /\ overflow' = overflow \cup
             {d \in Pending : \E e \in Excess(grown) : watermark[d] < e.seq}
        /\ Pending' = Pending
    BY <1>1 DEF Publish, Pending
  <2>2. ASSUME NEW c \in Pending' \ overflow'
        PROVE row \in journal'
    <3>1. row \in grown
      BY <2>1, <2>2
    <3>2. watermark[c] < row.seq
      BY <2>1, <2>2 DEF Bounds, TypeOK, Pending
    <3>3. row \notin Excess(grown)
      BY <2>1, <2>2, <3>2
    <3>4. QED
      BY <2>1, <3>1, <3>3
  <2>3. QED
    BY <2>1, <2>2
<1>2. ASSUME NEW c \in Conn, MarkSnapshot(c)
      PROVE journal' \subseteq journal /\ sequence' = sequence
  BY <1>2 DEF MarkSnapshot, Pruned
<1>3. QED
  <2>1. CASE UNCHANGED vars
    BY <2>1 DEF vars
  <2>2. CASE Mutation
    BY <1>1, <2>2 DEF Mutation, SetBlock, DestroyBlocks
  <2>3. ASSUME NEW c \in Conn,
               Connect(c) \/ Handshake(c) \/ Departure(c)
        PROVE journal' \subseteq journal /\ sequence' = sequence
    BY <1>2, <2>3
       DEF Connect, Handshake, Departure, SendPreparedMap, CaptureMap,
           SendCompressedMap, AbandonMap, NewPlayer, Kick, Disconnect, DropConnection, Pruned
  <2>4. ASSUME NEW c \in Conn, Reveal(c) \/ RevealRaises(c)
        PROVE journal' \subseteq journal /\ sequence' = sequence
    BY <2>4
       DEF Reveal, StartReveal, AirCell, AirPause, AirDone, RejectCatchup,
           TakeLease, ReplayCell, LeaseDone, Admit, RevealRaises, Pruned
  <2>5. QED
    BY <2>1, <2>2, <2>3, <2>4 DEF Next


\* How the watermark of a joiner that is not condemned may move.
LEMMA WatermarkMoves ==
  ASSUME IInv, [Next]_vars, NEW c \in Pending' \ overflow'
  PROVE  \/ c \in Pending \ overflow /\ watermark'[c] = watermark[c]
         \/ MarkSnapshot(c) /\ watermark'[c] = sequence
         \/ /\ LeaseDone(c) /\ c \in Pending \ overflow
            /\ watermark'[c] = target[c]
<1> USE ConnAssumption
    DEF IInv, terrainVars, journalVars, peerVars, leaseVars, syncVars,
        revealVars
<1>1. ASSUME UNCHANGED <<pinned, inGame, watermark>>, overflow \subseteq overflow'
      PROVE c \in Pending \ overflow /\ watermark'[c] = watermark[c]
  BY <1>1 DEF Pending
<1>2. ASSUME NEW d \in Conn, MarkSnapshot(d), inGame' = inGame
      PROVE \/ c \in Pending \ overflow /\ watermark'[c] = watermark[c]
            \/ MarkSnapshot(c) /\ watermark'[c] = sequence
  <2>1. CASE c = d
    BY <1>2, <2>1 DEF MarkSnapshot, TypeOK
  <2>2. CASE c # d
    BY <1>2, <2>2 DEF MarkSnapshot, TypeOK, Pending
  <2>3. QED
    BY <2>1, <2>2
<1>3. ASSUME NEW d \in Conn, Disconnect(d)
      PROVE c \in Pending \ overflow /\ watermark'[c] = watermark[c]
  BY <1>3 DEF Disconnect, DropConnection, Pending, TypeOK
<1>4. ASSUME NEW d \in Conn, LeaseDone(d)
      PROVE \/ c \in Pending \ overflow /\ watermark'[c] = watermark[c]
            \/ /\ LeaseDone(c) /\ c \in Pending \ overflow
               /\ watermark'[c] = target[c]
  BY <1>4 DEF LeaseDone, Pending, TypeOK
<1>5. ASSUME NEW d \in Conn, Admit(d)
      PROVE c \in Pending \ overflow /\ watermark'[c] = watermark[c]
  BY <1>5 DEF Admit, Pending
<1>6. QED
  <2>1. CASE UNCHANGED vars
    BY <1>1, <2>1 DEF vars
  <2>2. CASE Mutation
    BY <1>1, <2>2 DEF Mutation, SetBlock, DestroyBlocks, Publish
  <2>3. ASSUME NEW d \in Conn,
               Connect(d) \/ Handshake(d) \/ Departure(d)
        PROVE \/ c \in Pending \ overflow /\ watermark'[c] = watermark[c]
              \/ MarkSnapshot(c) /\ watermark'[c] = sequence
    BY <1>1, <1>2, <1>3, <2>3
       DEF Connect, Handshake, Departure, SendPreparedMap, CaptureMap,
           SendCompressedMap, AbandonMap, NewPlayer, Kick
  <2>4. ASSUME NEW d \in Conn, Reveal(d) \/ RevealRaises(d)
        PROVE \/ c \in Pending \ overflow /\ watermark'[c] = watermark[c]
              \/ /\ LeaseDone(c) /\ c \in Pending \ overflow
                 /\ watermark'[c] = target[c]
    <3>1. \/ LeaseDone(d) \/ Admit(d)
          \/ /\ UNCHANGED <<pinned, inGame, watermark>>
             /\ overflow \subseteq overflow'
      BY <2>4
         DEF Reveal, StartReveal, AirCell, AirPause, AirDone, RejectCatchup,
             TakeLease, ReplayCell, RevealRaises
    <3>2. QED
      BY <1>1, <1>4, <1>5, <3>1
  <2>5. QED
    BY <2>1, <2>2, <2>3, <2>4 DEF Next

\* The journal stays contiguous above the watermark of every joiner.
LEMMA NextJournalCovers == IInv /\ [Next]_vars => JournalCoversJoiners'
<1> SUFFICES ASSUME IInv, [Next]_vars, NEW c \in Pending' \ overflow'
             PROVE  {e.seq : e \in Newer(journal', watermark'[c])}
                      = (watermark'[c] + 1) .. sequence'
  BY DEF JournalCoversJoiners
<1> DEFINE m == watermark'[c]
<1>1. /\ c \in Conn /\ m \in Nat /\ sequence \in Nat /\ journal \subseteq Entry
      /\ TypeOK'
  BY NextTypeOK DEF IInv, TypeOK, Pending
<1>2. m <= sequence /\ {e.seq : e \in Newer(journal, m)} = (m + 1) .. sequence
  <2>1. CASE c \in Pending \ overflow /\ m = watermark[c]
    BY <2>1 DEF IInv, JournalCoversJoiners, Bounds, Pending, TypeOK
  <2>2. CASE m = sequence
    BY <1>1, <2>2 DEF IInv, Bounds, Newer, Entry
  <2>3. CASE LeaseDone(c) /\ c \in Pending \ overflow /\ m = target[c]
    <3>1. watermark[c] \in Nat /\ watermark[c] <= m /\ m <= sequence
      BY <1>1, <2>3 DEF LeaseDone, IInv, Bounds, TypeOK
    <3>2. {e.seq : e \in Newer(journal, watermark[c])}
            = (watermark[c] + 1) .. sequence
      BY <2>3 DEF IInv, JournalCoversJoiners
    <3>3. Newer(journal, m) = {e \in Newer(journal, watermark[c]) : e.seq > m}
      BY <1>1, <3>1 DEF Newer, Entry
    <3>4. QED
      BY <1>1, <3>1, <3>2, <3>3
  <2>4. QED
    BY <2>1, <2>2, <2>3, WatermarkMoves
<1>3. Newer(journal, m) \subseteq Newer(journal', m)
  BY <1>1, NoRowLost DEF Newer
<1>4. CASE journal' \subseteq journal /\ sequence' = sequence
  <2>1. Newer(journal', m) = Newer(journal, m)
    BY <1>3, <1>4 DEF Newer
  <2>2. QED
    BY <1>2, <1>4, <2>1
<1>5. ASSUME NEW x \in Cell, NEW row,
             row = [seq |-> sequence + 1, cell |-> x],
             sequence' = sequence + 1,
             journal' \subseteq journal \cup {row}, row \in journal'
      PROVE {e.seq : e \in Newer(journal', m)} = (m + 1) .. sequence'
  <2>1. Newer(journal', m) = Newer(journal, m) \cup {row}
    BY <1>1, <1>2, <1>3, <1>5 DEF Newer, Entry
  <2>2. {e.seq : e \in Newer(journal', m)}
          = ((m + 1) .. sequence) \cup {sequence + 1}
    BY <1>2, <1>5, <2>1
  <2>3. QED
    BY <1>1, <1>2, <1>5, <2>2
<1>6. QED
  BY <1>4, <1>5, RowsEntering

\* A step that leaves a loading peer alone leaves its repairs in place: the
\* journal keeps what the peer waits for.
LEMMA Undisturbed ==
  ASSUME IInv, [Next]_vars,
         NEW c \in (Pending \ overflow) \cap (Pending' \ overflow'),
         phase[c] \in {"compress", "ready", "joined"},
         c \in leased <=> c \in leased',
         watermark'[c] = watermark[c], target'[c] = target[c],
         left'[c] = left[c], airLeft'[c] = airLeft[c],
         toPublish \subseteq toPublish',
         Wrong(c)' \subseteq Wrong(c) \cup toPublish'
  PROVE  Wrong(c)' \subseteq Repairs(c)'
<1> DEFINE m == IF c \in leased THEN target[c] ELSE watermark[c]
<1>1. m \in Nat /\ watermark'[c] <= m
  BY DEF IInv, TypeOK, Bounds, Pending
<1>2. Newer(journal, m) \subseteq Newer(journal', m)
  BY <1>1, NoRowLost DEF Newer
<1>3. CellsOf(Newer(journal, m)) \subseteq CellsOf(Newer(journal', m))
  BY <1>2 DEF CellsOf
<1>4. Repairs(c) \subseteq Repairs(c)'
  BY <1>3 DEF Repairs
<1>5. Wrong(c) \subseteq Repairs(c)
  BY DEF IInv, LoadersCovered
<1>6. toPublish' \subseteq Repairs(c)'
  BY DEF Repairs
<1>7. QED
  BY <1>4, <1>5, <1>6

\* Whatever a loading peer will show wrongly, it is going to be sent.
LEMMA NextLoadersCovered == IInv /\ [Next]_vars => LoadersCovered'
<1> SUFFICES ASSUME IInv, [Next]_vars,
                    NEW c \in Pending' \ overflow',
                    phase'[c] \in {"compress", "ready", "joined"}
             PROVE  Wrong(c)' \subseteq Repairs(c)'
  BY DEF LoadersCovered
<1> USE ConnAssumption
    DEF terrainVars, journalVars, peerVars, leaseVars, syncVars, revealVars
<1>1. TypeOK /\ TypeOK' /\ c \in Conn
  BY NextTypeOK DEF IInv, TypeOK, Pending
<1>2. \/ c \in Pending \ overflow
      \/ MarkSnapshot(c)
  BY WatermarkMoves
<1>3. CASE UNCHANGED vars
  <2>1. c \in Pending \ overflow /\ Wrong(c)' = Wrong(c)
    BY <1>3 DEF vars, Pending, Wrong, Differs
  <2>2. QED
    BY <1>3, <2>1, Undisturbed DEF vars
<1>4. ASSUME NEW cells \in SUBSET Cell,
             \A x \in Cell \ cells : vxl'[x] = vxl[x],
             toPublish' = toPublish \cup cells,
             UNCHANGED <<peerVars, leaseVars, airLeft, view, mapSync>>
      PROVE Wrong(c)' \subseteq Repairs(c)'
  <2>1. c \in Pending \ overflow
    BY <1>4 DEF Pending
  <2>2. Wrong(c)' \subseteq Wrong(c) \cup toPublish'
    BY <1>4 DEF Wrong, Differs
  <2>3. QED
    BY <1>4, <2>1, <2>2, Undisturbed
<1>5. CASE \/ \E x \in Cell, content \in Value : SetBlock(x, content)
           \/ \E cells \in SUBSET Cell : DestroyBlocks(cells)
  <2>1. ASSUME NEW x \in Cell, NEW content \in Value, SetBlock(x, content)
        PROVE Wrong(c)' \subseteq Repairs(c)'
    <3>1. /\ \A y \in Cell \ {x} : vxl'[y] = vxl[y]
          /\ toPublish' = toPublish \cup {x}
          /\ UNCHANGED <<peerVars, leaseVars, airLeft, view, mapSync>>
      BY <1>1, <2>1 DEF SetBlock, Quiet, TypeOK, Map
    <3>2. {x} \in SUBSET Cell
      OBVIOUS
    <3>3. QED
      BY <1>4, <3>1, <3>2
  <2>2. ASSUME NEW cells \in SUBSET Cell, DestroyBlocks(cells)
        PROVE Wrong(c)' \subseteq Repairs(c)'
    <3>1. /\ \A y \in Cell \ cells : vxl'[y] = vxl[y]
          /\ toPublish' = toPublish \cup cells
          /\ UNCHANGED <<peerVars, leaseVars, airLeft, view, mapSync>>
      BY <1>1, <2>2 DEF DestroyBlocks, TypeOK, Map
    <3>2. QED
      BY <1>4, <3>1
  <2>3. QED
    BY <1>5, <2>1, <2>2
<1>6. ASSUME NEW x \in Cell, Publish(x)
      PROVE Wrong(c)' \subseteq Repairs(c)'
  <2> DEFINE m == IF c \in leased THEN target[c] ELSE watermark[c]
             row == [seq |-> sequence + 1, cell |-> x]
  <2>1. /\ c \in Pending \ overflow /\ c \notin inGame
        /\ toPublish' = toPublish \ {x}
        /\ UNCHANGED <<vxl, mapSync, phase, airLeft, leaseVars, watermark>>
    BY <1>6 DEF Publish, Pending
  <2>2. Wrong(c)' = Wrong(c)
    BY <1>1, <1>6, <2>1 DEF Publish, Wrong, Differs, TypeOK
  <2>3. m \in Nat /\ watermark'[c] <= m /\ m <= sequence
    BY <1>1, <2>1 DEF IInv, TypeOK, Bounds
  <2>4. Newer(journal, m) \subseteq Newer(journal', m)
    BY <2>3, NoRowLost DEF Newer
  <2>5. row \in journal'
    <3>1. Pending' = Pending
      BY <1>6 DEF Publish, Pending
    <3>2. PICK grown : /\ row \in grown
                       /\ journal' = grown \ Excess(grown)
                       /\ overflow' = overflow \cup
                            {d \in Pending :
                               \E e \in Excess(grown) : watermark[d] < e.seq}
      BY <1>6, <2>1 DEF Publish
    <3>3. watermark[c] < row.seq
      BY <1>1, <2>1 DEF IInv, Bounds, TypeOK
    <3>4. QED
      BY <2>1, <3>2, <3>3
  <2>6. row \in Newer(journal', m) /\ row.cell = x
    BY <1>1, <2>3, <2>5 DEF Newer, TypeOK
  <2>7. x \in CellsOf(Newer(journal', m))
    BY <2>6 DEF CellsOf
  <2>8. CellsOf(Newer(journal, m)) \subseteq CellsOf(Newer(journal', m))
    BY <2>4 DEF CellsOf
  <2>9. Repairs(c) \subseteq Repairs(c)'
    BY <2>1, <2>7, <2>8 DEF Repairs
  <2>10. QED
    BY <2>1, <2>2, <2>9 DEF IInv, LoadersCovered
<1>7. ASSUME NEW d \in Conn,
             Connect(d) \/ NewPlayer(d) \/ Kick(d) \/ Disconnect(d)
      PROVE Wrong(c)' \subseteq Repairs(c)'
  <2>1. /\ c \in Pending \ overflow
        /\ UNCHANGED <<vxl, mapSync, toPublish>>
        /\ c \in leased <=> c \in leased'
        /\ watermark'[c] = watermark[c] /\ target'[c] = target[c]
        /\ left'[c] = left[c] /\ airLeft'[c] = airLeft[c]
        /\ view'[c] = view[c]
        /\ phase'[c] = phase[c] \/ (phase[c] = "ready" /\ phase'[c] = "joined")
    <3>1. CASE Connect(d) \/ NewPlayer(d) \/ Kick(d)
      <4>1. phase'[c] = phase[c] \/ (phase[c] = "ready" /\ phase'[c] = "joined")
        BY <1>1, <3>1 DEF Connect, NewPlayer, Kick, TypeOK
      <4>2. /\ c \in Pending \ overflow
            /\ UNCHANGED <<vxl, mapSync, toPublish, leaseVars, watermark,
                           airLeft, view>>
        BY <3>1 DEF Connect, NewPlayer, Kick, Pending
      <4>3. QED
        BY <4>1, <4>2
    <3>2. CASE Disconnect(d)
      <4>1. c # d
        BY <1>1, <3>2 DEF Disconnect, DropConnection, Pending
      <4>2. /\ c \in Pending \ overflow
            /\ UNCHANGED <<vxl, mapSync, toPublish>>
            /\ c \in leased <=> c \in leased'
        BY <3>2, <4>1 DEF Disconnect, DropConnection, Pending
      <4>3. /\ watermark'[c] = watermark[c] /\ target'[c] = target[c]
            /\ left'[c] = left[c] /\ airLeft'[c] = airLeft[c]
            /\ view'[c] = view[c] /\ phase'[c] = phase[c]
        BY <1>1, <3>2, <4>1 DEF Disconnect, DropConnection, TypeOK
      <4>4. QED
        BY <4>2, <4>3
    <3>3. QED
      BY <1>7, <3>1, <3>2
  <2>2. Wrong(c)' = Wrong(c)
    BY <2>1 DEF Wrong, Differs
  <2>3. QED
    BY <2>1, <2>2, Undisturbed
<1>8. ASSUME NEW d \in Conn, AbandonMap(d)
      PROVE Wrong(c)' \subseteq Repairs(c)'
  <2>1. /\ c \in Pending \ overflow /\ phase'[c] = phase[c]
    BY <1>1, <1>8 DEF AbandonMap, Pending, TypeOK
  <2>2. Wrong(c)' \subseteq Wrong(c)
    BY <1>8, <2>1 DEF AbandonMap, Wrong, Differs
  <2>3. QED
    BY <1>8, <2>1, <2>2, Undisturbed DEF AbandonMap
<1>9. ASSUME NEW d \in Conn, d # c, MarkSnapshot(d), phase[d] = "handshake",
             \/ mapSync' = mapSync
             \/ \A s \in mapSync' : s.conn = d,
             phase'[c] = phase[c], view'[c] = view[c],
             UNCHANGED <<vxl, toPublish, inGame, leaseVars>>
      PROVE Wrong(c)' \subseteq Repairs(c)'
  <2>1. /\ c \in Pending \ overflow
        /\ watermark'[c] = watermark[c] /\ airLeft'[c] = airLeft[c]
    BY <1>1, <1>9 DEF MarkSnapshot, Pending, TypeOK
  <2>2. Wrong(c)' \subseteq Wrong(c)
    BY <1>9 DEF Wrong, Differs
  <2>3. QED
    BY <1>9, <2>1, <2>2, Undisturbed
<1>10. ASSUME NEW d \in Conn, SendPreparedMap(d)
       PROVE Wrong(c)' \subseteq Repairs(c)'
  <2>1. CASE d # c
    <3>1. phase'[c] = phase[c] /\ view'[c] = view[c]
      BY <1>1, <1>10, <2>1 DEF SendPreparedMap, TypeOK
    <3>2. QED
      BY <1>9, <1>10, <2>1, <3>1 DEF SendPreparedMap
  <2>2. CASE d = c
    <3>1. PICK map \in {s.map : s \in {t \in cache : t.rev = topology}}
                   \cup (IF topology = 0 THEN {Pristine} ELSE {}),
               stale \in SUBSET airLeft'[c] :
            view' = [view EXCEPT ![c] = Loaded(map, stale)]
      BY <1>10, <2>2 DEF SendPreparedMap
    <3>2. map = vxl
      BY <3>1 DEF IInv, SnapshotsAgree
    <3>3. phase'[c] = "ready" /\ vxl' = vxl
      BY <1>1, <1>10, <2>2 DEF SendPreparedMap, TypeOK
    <3>4. Wrong(c)' \subseteq airLeft'[c]
      BY <1>1, <3>1, <3>2, <3>3 DEF Wrong, Differs, Loaded, TypeOK
    <3>5. QED
      BY <3>4 DEF Repairs
  <2>3. QED
    BY <2>1, <2>2
<1>11. ASSUME NEW d \in Conn, CaptureMap(d)
       PROVE Wrong(c)' \subseteq Repairs(c)'
  <2>1. CASE d # c
    BY <1>1, <1>9, <1>11, <2>1 DEF CaptureMap, TypeOK
  <2>2. CASE d = c
    BY <1>1, <1>11, <2>2 DEF CaptureMap, Wrong, TypeOK
  <2>3. QED
    BY <2>1, <2>2
<1>12. ASSUME NEW d \in Conn, SendCompressedMap(d)
       PROVE Wrong(c)' \subseteq Repairs(c)'
  <2>1. /\ c \in Pending \ overflow
        /\ UNCHANGED <<vxl, toPublish, journal, watermark, leaseVars, airLeft>>
        /\ mapSync' = {}
    BY <1>12 DEF SendCompressedMap, Pending
  <2>2. CASE d # c
    <3>1. phase'[c] = phase[c] /\ view'[c] = view[c]
      BY <1>1, <1>12, <2>2 DEF SendCompressedMap, TypeOK
    <3>2. Wrong(c)' \subseteq Wrong(c)
      BY <2>1, <3>1 DEF Wrong, Differs
    <3>3. QED
      BY <2>1, <3>1, <3>2, Undisturbed
  <2>3. CASE d = c
    <3>1. PICK s \in mapSync, stale \in SUBSET airLeft[c] :
            s.conn = c /\ view' = [view EXCEPT ![c] = Loaded(s.map, stale)]
      BY <1>12, <2>3 DEF SendCompressedMap
    <3>2. phase[c] = "compress" /\ phase'[c] = "ready"
      BY <1>1, <1>12, <2>3 DEF SendCompressedMap, TypeOK
    <3>3. Wrong(c)' \subseteq Wrong(c) \cup airLeft[c]
      BY <1>1, <2>1, <3>1, <3>2 DEF Wrong, Differs, Loaded, TypeOK
    <3>4. Wrong(c) \subseteq Repairs(c)
      BY <2>1, <3>2 DEF IInv, LoadersCovered
    <3>5. Repairs(c)' = Repairs(c) /\ airLeft[c] \subseteq Repairs(c)
      BY <2>1 DEF Repairs
    <3>6. QED
      BY <3>3, <3>4, <3>5
  <2>4. QED
    BY <2>2, <2>3
<1>13. ASSUME NEW d \in Conn, revealing = d,
              c \in Pending \ overflow, phase' = phase,
              UNCHANGED <<vxl, toPublish, mapSync>>,
              \/ d # c
              \/ UNCHANGED <<view, leaseVars, airLeft>>,
              \A e \in Conn \ {d} :
                /\ view'[e] = view[e] /\ airLeft'[e] = airLeft[e]
                /\ e \in leased <=> e \in leased'
                /\ watermark'[e] = watermark[e] /\ target'[e] = target[e]
                /\ left'[e] = left[e],
              d # c \/ watermark'[c] = watermark[c]
       PROVE Wrong(c)' \subseteq Repairs(c)'
  <2>1. view'[c] = view[c]
    BY <1>1, <1>13
  <2>2. Wrong(c)' = Wrong(c)
    BY <1>13, <2>1 DEF Wrong, Differs
  <2>3. QED
    BY <1>1, <1>13, <2>2, Undisturbed
<1>14. ASSUME NEW d \in Conn,
              \/ StartReveal(d) \/ AirPause(d) \/ AirDone(d)
              \/ RejectCatchup(d) \/ Admit(d)
       PROVE Wrong(c)' \subseteq Repairs(c)'
  <2>1. /\ c \in Pending \ overflow
        /\ phase' = phase
        /\ UNCHANGED <<vxl, toPublish, mapSync, view, leaseVars, airLeft,
                       watermark>>
    BY <1>14 DEF StartReveal, AirPause, AirDone, RejectCatchup, Admit, Pending
  <2>2. Wrong(c)' = Wrong(c)
    BY <2>1 DEF Wrong, Differs
  <2>3. QED
    BY <2>1, <2>2, Undisturbed
<1>15. ASSUME NEW d \in Conn, NEW x \in Cell, AirCell(d, x)
       PROVE Wrong(c)' \subseteq Repairs(c)'
  <2>1. /\ c \in Pending \ overflow /\ phase' = phase /\ revealing = d
        /\ UNCHANGED <<vxl, toPublish, mapSync, leaseVars, watermark, journal>>
    BY <1>15 DEF AirCell, Pending
  <2>2. CASE d # c
    BY <1>1, <1>13, <1>15, <2>1, <2>2 DEF AirCell, TypeOK
  <2>3. CASE d = c
    <3>1. phase[c] = "joined"
      BY <2>1, <2>3 DEF IInv, RevealsAgree
    <3>2. Wrong(c)' \subseteq Wrong(c) \ {x}
      BY <1>1, <1>15, <2>1, <2>3, <3>1
         DEF AirCell, Wrong, Differs, Shown, TypeOK, Map
    <3>3. Repairs(c) \ {x} \subseteq Repairs(c)'
      BY <1>1, <1>15, <2>1, <2>3 DEF AirCell, Repairs, TypeOK
    <3>4. QED
      BY <2>1, <3>1, <3>2, <3>3 DEF IInv, LoadersCovered
  <2>4. QED
    BY <2>2, <2>3
<1>16. ASSUME NEW d \in Conn, TakeLease(d)
       PROVE Wrong(c)' \subseteq Repairs(c)'
  <2>1. /\ c \in Pending \ overflow /\ phase' = phase /\ revealing = d
        /\ UNCHANGED <<vxl, toPublish, mapSync, view, airLeft, watermark,
                       journal>>
    BY <1>16 DEF TakeLease, Pending
  <2>2. CASE d # c
    BY <1>1, <1>13, <1>16, <2>1, <2>2 DEF TakeLease, TypeOK
  <2>3. CASE d = c
    <3>1. Wrong(c)' = Wrong(c)
      BY <2>1 DEF Wrong, Differs
    <3>2. Repairs(c) \subseteq Repairs(c)'
      BY <1>1, <1>16, <2>1, <2>3 DEF TakeLease, Repairs, TypeOK
    <3>3. QED
      BY <2>1, <3>1, <3>2 DEF IInv, LoadersCovered
  <2>4. QED
    BY <2>2, <2>3
<1>17. ASSUME NEW d \in Conn, ReplayCell(d)
       PROVE Wrong(c)' \subseteq Repairs(c)'
  <2>1. /\ c \in Pending \ overflow /\ phase' = phase /\ revealing = d
        /\ UNCHANGED <<vxl, toPublish, mapSync, airLeft, leased, target,
                       watermark, journal>>
    BY <1>17 DEF ReplayCell, Pending
  <2>2. PICK x \in left[d] :
          /\ view' = [view EXCEPT ![d] = Shown(view[d], x)]
          /\ left' = [left EXCEPT ![d] = left[d] \ {x}]
    BY <1>17 DEF ReplayCell
  <2>3. CASE d # c
    BY <1>1, <1>13, <2>1, <2>2, <2>3 DEF TypeOK
  <2>4. CASE d = c
    <3>1. phase[c] = "joined" /\ x \in Cell
      BY <1>1, <2>1, <2>2, <2>4 DEF IInv, RevealsAgree, TypeOK
    <3>2. Wrong(c)' \subseteq Wrong(c) \ {x}
      BY <1>1, <2>1, <2>2, <2>4, <3>1
         DEF Wrong, Differs, Shown, TypeOK, Map
    <3>3. Repairs(c) \ {x} \subseteq Repairs(c)'
      BY <1>1, <2>1, <2>2, <2>4 DEF Repairs, TypeOK
    <3>4. QED
      BY <2>1, <3>1, <3>2, <3>3 DEF IInv, LoadersCovered
  <2>5. QED
    BY <2>3, <2>4
<1>18. ASSUME NEW d \in Conn, LeaseDone(d)
       PROVE Wrong(c)' \subseteq Repairs(c)'
  <2>1. /\ c \in Pending \ overflow /\ phase' = phase /\ revealing = d
        /\ UNCHANGED <<vxl, toPublish, mapSync, view, airLeft>>
    BY <1>18 DEF LeaseDone, Pending
  <2>2. CASE d # c
    BY <1>1, <1>13, <1>18, <2>1, <2>2 DEF LeaseDone, TypeOK
  <2>3. CASE d = c
    <3>1. Wrong(c)' = Wrong(c)
      BY <2>1 DEF Wrong, Differs
    <3>2. /\ c \in leased /\ c \notin leased' /\ left[c] = {}
          /\ watermark'[c] = target[c] /\ target[c] \in Nat
      BY <1>1, <1>18, <2>3 DEF LeaseDone, TypeOK
    <3>3. Newer(journal, target[c]) \subseteq Newer(journal', watermark'[c])
      BY <3>2, NoRowLost DEF Newer
    <3>4. Repairs(c) \subseteq Repairs(c)'
      BY <2>1, <3>2, <3>3 DEF Repairs, CellsOf
    <3>5. QED
      BY <2>1, <3>1, <3>4 DEF IInv, LoadersCovered
  <2>4. QED
    BY <2>2, <2>3
<1>19. ASSUME NEW d \in Conn, RevealRaises(d)
       PROVE Wrong(c)' \subseteq Repairs(c)'
  <2>1. /\ c \in Pending \ overflow /\ phase' = phase
        /\ UNCHANGED <<vxl, toPublish, mapSync, leaseVars, airLeft, watermark>>
    BY <1>19 DEF RevealRaises, Pending
  <2>2. view'[c] = view[c] \/ \A x \in Cell : view'[c][x] \in {vxl[x], view[c][x]}
    BY <1>1, <1>19 DEF RevealRaises, TypeOK
  <2>3. Wrong(c)' \subseteq Wrong(c)
    BY <2>1, <2>2 DEF Wrong, Differs
  <2>4. QED
    BY <2>1, <2>3, Undisturbed
<1>20. QED
  <2>1. CASE Mutation
    BY <1>5, <1>6, <2>1 DEF Mutation
  <2>2. ASSUME NEW d \in Conn, Connect(d) \/ Handshake(d) \/ Departure(d)
        PROVE Wrong(c)' \subseteq Repairs(c)'
    BY <1>7, <1>8, <1>10, <1>11, <1>12, <2>2 DEF Handshake, Departure
  <2>3. ASSUME NEW d \in Conn, Reveal(d) \/ RevealRaises(d)
        PROVE Wrong(c)' \subseteq Repairs(c)'
    BY <1>14, <1>15, <1>16, <1>17, <1>18, <1>19, <2>3 DEF Reveal
  <2>4. QED
    BY <1>3, <2>1, <2>2, <2>3 DEF Next

\* A live viewer differs from the canonical map at most in the batch that is
\* being published.
LEMMA NextAdmitted == IInv /\ [Next]_vars => AdmittedSeesCanonical'
<1> SUFFICES ASSUME IInv, [Next]_vars, NEW c \in inGame'
             PROVE  Differs(c)' \subseteq toPublish'
  BY DEF AdmittedSeesCanonical
<1> USE ConnAssumption
    DEF terrainVars, journalVars, peerVars, leaseVars, syncVars, revealVars
<1>1. TypeOK /\ TypeOK' /\ c \in Conn
  BY NextTypeOK DEF IInv, TypeOK
<1>2. ASSUME c \in inGame, vxl' = vxl, view'[c] = view[c],
             toPublish \subseteq toPublish'
      PROVE Differs(c)' \subseteq toPublish'
  BY <1>2 DEF IInv, AdmittedSeesCanonical, Differs
<1>3. ASSUME NEW x \in Cell, NEW content \in Value, SetBlock(x, content)
      PROVE Differs(c)' \subseteq toPublish'
  BY <1>1, <1>3
     DEF SetBlock, Quiet, IInv, AdmittedSeesCanonical, Differs, TypeOK, Map
<1>4. ASSUME NEW cells \in SUBSET Cell, DestroyBlocks(cells)
      PROVE Differs(c)' \subseteq toPublish'
  BY <1>1, <1>4
     DEF DestroyBlocks, IInv, AdmittedSeesCanonical, Differs, TypeOK, Map
<1>5. ASSUME NEW x \in Cell, Publish(x)
      PROVE Differs(c)' \subseteq toPublish'
  <2>1. /\ c \in inGame /\ vxl' = vxl /\ toPublish' = toPublish \ {x}
        /\ view'[c] = [view[c] EXCEPT ![x] = vxl[x]]
    BY <1>1, <1>5 DEF Publish, Shown
  <2>2. Differs(c)' \subseteq Differs(c) \ {x}
    BY <1>1, <2>1 DEF Differs, TypeOK, Map
  <2>3. QED
    BY <2>1, <2>2 DEF IInv, AdmittedSeesCanonical
<1>6. ASSUME NEW d \in Conn,
             SendPreparedMap(d) \/ CaptureMap(d) \/ SendCompressedMap(d)
      PROVE Differs(c)' \subseteq toPublish'
  <2>1. phase[d] # "joined" /\ inGame' = inGame
    BY <1>6 DEF SendPreparedMap, CaptureMap, SendCompressedMap
  <2>2. c # d
    BY <2>1 DEF IInv, PhasesAgree
  <2>3. vxl' = vxl /\ toPublish' = toPublish /\ view'[c] = view[c]
    BY <1>1, <1>6, <2>2
       DEF SendPreparedMap, CaptureMap, SendCompressedMap, TypeOK
  <2>4. QED
    BY <1>2, <2>1, <2>3
<1>7. ASSUME NEW d \in Conn,
             \/ Connect(d) \/ AbandonMap(d) \/ NewPlayer(d)
             \/ Kick(d) \/ Disconnect(d)
      PROVE Differs(c)' \subseteq toPublish'
  <2>1. /\ c \in inGame /\ vxl' = vxl /\ toPublish' = toPublish
        /\ view'[c] = view[c]
    BY <1>1, <1>7
       DEF Connect, AbandonMap, NewPlayer, Kick, Disconnect, DropConnection, TypeOK
  <2>2. QED
    BY <1>2, <2>1
<1>8. ASSUME NEW d \in Conn, d \notin inGame, inGame' = inGame,
             vxl' = vxl, toPublish' = toPublish,
             \A e \in Conn \ {d} : view'[e] = view[e]
      PROVE Differs(c)' \subseteq toPublish'
  BY <1>1, <1>2, <1>8
<1>9. ASSUME NEW d \in Conn, Reveal(d) \/ RevealRaises(d), ~Admit(d)
      PROVE Differs(c)' \subseteq toPublish'
  <2>1. d \notin inGame
    BY <1>9 DEF Reveal, StartReveal, AirCell, AirPause, AirDone,
                RejectCatchup, TakeLease, ReplayCell, LeaseDone, RevealRaises,
                IInv, RevealsAgree
  <2>2. /\ inGame' = inGame /\ vxl' = vxl /\ toPublish' = toPublish
        /\ \A e \in Conn \ {d} : view'[e] = view[e]
    BY <1>1, <1>9
       DEF Reveal, StartReveal, AirCell, AirPause, AirDone, RejectCatchup,
           TakeLease, ReplayCell, LeaseDone, RevealRaises, TypeOK
  <2>3. QED
    BY <1>8, <2>1, <2>2
<1>10. ASSUME NEW d \in Conn, Admit(d)
       PROVE Differs(c)' \subseteq toPublish'
  <2>1. vxl' = vxl /\ view' = view /\ toPublish' = toPublish
    BY <1>10 DEF Admit
  <2>2. CASE c = d
    <3>1. /\ toPublish = {} /\ airLeft[c] = {} /\ phase[c] = "joined"
          /\ c \notin overflow \cup leased \cup inGame
          /\ watermark[c] = sequence
      BY <1>10, <2>2 DEF Admit, IInv, RevealsAgree
    <3>2. c \in Pending \ overflow
      BY <1>1, <3>1 DEF IInv, PhasesAgree, Pending
    <3>3. Newer(journal, watermark[c]) = {}
      BY <1>1, <3>1 DEF IInv, Bounds, Newer, TypeOK, Entry
    <3>4. Repairs(c) = {}
      BY <3>1, <3>3 DEF Repairs, CellsOf
    <3>5. Differs(c) = {}
      BY <3>1, <3>2, <3>4 DEF IInv, LoadersCovered, Wrong
    <3>6. QED
      BY <2>1, <3>5 DEF Differs
  <2>3. CASE c # d
    BY <1>2, <1>10, <2>1, <2>3 DEF Admit
  <2>4. QED
    BY <2>2, <2>3
<1>11. QED
  <2>1. CASE UNCHANGED vars
    BY <1>2, <2>1 DEF vars
  <2>2. CASE Mutation
    BY <1>3, <1>4, <1>5, <2>2 DEF Mutation
  <2>3. ASSUME NEW d \in Conn, Connect(d) \/ Handshake(d) \/ Departure(d)
        PROVE Differs(c)' \subseteq toPublish'
    BY <1>6, <1>7, <2>3 DEF Handshake, Departure
  <2>4. ASSUME NEW d \in Conn, Reveal(d) \/ RevealRaises(d)
        PROVE Differs(c)' \subseteq toPublish'
    BY <1>9, <1>10, <2>4
  <2>5. QED
    BY <2>1, <2>2, <2>3, <2>4 DEF Next

-----------------------------------------------------------------------------
(* The theorems.                                                           *)

\* The inductive invariant holds throughout.
THEOREM Invariance == Spec => []IInv
<1>1. IInv /\ [Next]_vars => IInv'
  BY NextTypeOK, NextBounds, NextPhasesAgree, NextRevealsAgree,
     NextSnapshotsAgree, NextLoadersCovered, NextAdmitted, NextJournalCovers
     DEF IInv
<1>2. QED
  BY InitIInv, <1>1, PTL DEF Spec

\* "Edits made during transfer are not lost": once a peer is admitted to the
\* live broadcasts its terrain is the canonical one.
THEOREM NoEditIsLost == Spec => []AdmittedSeesCanonical
<1>1. IInv => AdmittedSeesCanonical
  BY DEF IInv
<1>2. QED
  BY Invariance, <1>1, PTL

\* A joiner that is not condemned finds every sequence since its snapshot in
\* the journal, whatever the other joiners do to it.
THEOREM JournalIsContiguous == Spec => []JournalCoversJoiners
<1>1. IInv => JournalCoversJoiners
  BY DEF IInv
<1>2. QED
  BY Invariance, <1>1, PTL

\* Prepared chunks of this revision are the canonical map.
THEOREM CacheIsExact == Spec => []CacheMatchesRevision
<1>1. IInv => CacheMatchesRevision
  BY DEF IInv, SnapshotsAgree, CacheMatchesRevision
<1>2. QED
  BY Invariance, <1>1, PTL

\* A watermark never goes back while its connection lasts.
LEMMA WatermarkStep ==
  IInv /\ [Next]_vars =>
    \A c \in Conn : c \in pinned /\ c \in pinned' => watermark[c] <= watermark'[c]
<1> SUFFICES ASSUME IInv, [Next]_vars,
                    NEW c \in Conn, c \in pinned, c \in pinned'
             PROVE  watermark[c] <= watermark'[c]
  OBVIOUS
<1> USE DEF terrainVars, journalVars, peerVars, leaseVars, syncVars, revealVars
<1>1. /\ watermark \in [Conn -> Nat] /\ target \in [Conn -> Nat]
      /\ watermark[c] <= sequence
      /\ c \in leased => watermark[c] <= target[c]
  BY DEF IInv, TypeOK, Bounds
<1>2. CASE watermark'[c] = watermark[c]
  BY <1>1, <1>2
<1>3. CASE watermark' = watermark
  BY <1>2, <1>3
<1>4. ASSUME NEW d \in Conn, SendPreparedMap(d) \/ CaptureMap(d)
      PROVE watermark[c] <= watermark'[c]
  <2>1. watermark' = [watermark EXCEPT ![d] = sequence]
    BY <1>4 DEF SendPreparedMap, CaptureMap, MarkSnapshot
  <2>2. QED
    BY <1>1, <1>2, <2>1
<1>5. ASSUME NEW d \in Conn, Disconnect(d)
      PROVE watermark[c] <= watermark'[c]
  BY <1>1, <1>2, <1>5 DEF Disconnect, DropConnection
<1>6. ASSUME NEW d \in Conn, LeaseDone(d)
      PROVE watermark[c] <= watermark'[c]
  <2>1. d \in leased /\ watermark' = [watermark EXCEPT ![d] = target[d]]
    BY <1>6 DEF LeaseDone
  <2>2. QED
    BY <1>1, <1>2, <2>1
<1>7. QED
  <2>1. CASE UNCHANGED vars \/ Mutation
    BY <1>3, <2>1 DEF vars, Mutation, SetBlock, DestroyBlocks, Publish
  <2>2. ASSUME NEW d \in Conn, Connect(d) \/ Handshake(d) \/ Departure(d)
        PROVE watermark[c] <= watermark'[c]
    BY <1>3, <1>4, <1>5, <2>2
       DEF Connect, Handshake, Departure, SendCompressedMap, AbandonMap,
           NewPlayer, Kick
  <2>3. ASSUME NEW d \in Conn, Reveal(d) \/ RevealRaises(d)
        PROVE watermark[c] <= watermark'[c]
    BY <1>3, <1>6, <2>3
       DEF Reveal, StartReveal, AirCell, AirPause, AirDone, RejectCatchup,
           TakeLease, ReplayCell, Admit, RevealRaises
  <2>4. QED
    BY <2>1, <2>2, <2>3 DEF Next

\* A retry of a failed catch-up never rewinds what was already replayed.
THEOREM WatermarksAdvance == Spec => WatermarkAdvances
<1>1. IInv /\ [Next]_vars =>
        [\A c \in Conn : c \in pinned /\ c \in pinned'
                           => watermark[c] <= watermark'[c]]_vars
  BY WatermarkStep
<1>2. QED
  BY Invariance, <1>1, PTL DEF Spec, WatermarkAdvances

-----------------------------------------------------------------------------
(* Refinement of TerrainView.                                              *)

\* Every step of the catch-up is a step of TerrainView or leaves it alone.
LEMMA NextView == IInv /\ [Next]_vars => [View!Next]_(View!vars)
<1> SUFFICES ASSUME IInv, [Next]_vars PROVE [View!Next]_(View!vars)
  OBVIOUS
<1> USE DEF terrainVars, journalVars, peerVars, leaseVars, syncVars, revealVars
<1>1. TypeOK /\ TypeOK'
  BY NextTypeOK DEF IInv
<1>2. ASSUME UNCHANGED <<vxl, toPublish, inGame>>,
             \A c \in inGame : view'[c] = view[c]
      PROVE UNCHANGED View!vars
  BY <1>2 DEF View!vars
<1>3. ASSUME NEW cells \in SUBSET Cell, UNCHANGED <<inGame, view>>,
             toPublish' = toPublish \cup cells,
             \A x \in Cell \ cells : vxl'[x] = vxl[x]
      PROVE View!Next
  <2>1. vxl' \in [Cell -> Value]
    BY <1>1 DEF TypeOK, Map
  <2>2. View!Commit(cells, vxl')
    BY <1>3 DEF View!Commit
  <2>3. QED
    BY <2>1, <2>2 DEF View!Next
<1>4. ASSUME NEW x \in Cell, NEW content \in Value, SetBlock(x, content)
      PROVE View!Next
  <2>1. {x} \in SUBSET Cell /\ UNCHANGED <<inGame, view>>
        /\ toPublish' = toPublish \cup {x}
        /\ \A y \in Cell \ {x} : vxl'[y] = vxl[y]
    BY <1>1, <1>4 DEF SetBlock, Quiet, TypeOK, Map
  <2>2. QED
    BY <1>3, <2>1
<1>5. ASSUME NEW cells \in SUBSET Cell, DestroyBlocks(cells)
      PROVE View!Next
  <2>1. UNCHANGED <<inGame, view>> /\ toPublish' = toPublish \cup cells
        /\ \A y \in Cell \ cells : vxl'[y] = vxl[y]
    BY <1>1, <1>5 DEF DestroyBlocks, TypeOK, Map
  <2>2. QED
    BY <1>3, <2>1
<1>6. ASSUME NEW x \in Cell, Publish(x)
      PROVE View!Next
  <2>1. /\ x \in toPublish /\ toPublish' = toPublish \ {x}
        /\ vxl' = vxl /\ inGame' = inGame
        /\ \A c \in inGame : view'[c] = [view[c] EXCEPT ![x] = vxl[x]]
    BY <1>1, <1>6 DEF Publish, Shown, TypeOK
  <2>2. View!Deliver(x)
    BY <2>1 DEF View!Deliver, View!Viewers
  <2>3. QED
    BY <2>2 DEF View!Next
<1>7. ASSUME NEW c \in Conn, Admit(c)
      PROVE View!Next
  <2>1. /\ c \notin inGame /\ toPublish = {} /\ inGame' = inGame \cup {c}
        /\ UNCHANGED <<vxl, toPublish, view>>
    BY <1>7, ConnAssumption DEF Admit, IInv, RevealsAgree
  <2>2. view[c] = vxl
    <3>1. Differs(c) = {}
      BY <1>7, <2>1, NextAdmitted DEF AdmittedSeesCanonical, Differs
    <3>2. QED
      BY <1>1, <3>1 DEF Differs, TypeOK, Map
  <2>3. View!Join(c)
    BY <2>1, <2>2 DEF View!Join, View!Viewers
  <2>4. QED
    BY <2>3 DEF View!Next
<1>8. ASSUME NEW c \in Conn, Disconnect(c)
      PROVE [View!Next]_(View!vars)
  <2>1. /\ inGame' = inGame \ {c} /\ UNCHANGED <<vxl, toPublish>>
        /\ \A d \in inGame \ {c} : view'[d] = view[d]
    BY <1>1, <1>8 DEF Disconnect, DropConnection, TypeOK
  <2>2. CASE c \in inGame
    <3>1. View!Leave(c)
      BY <2>1, <2>2 DEF View!Leave, View!Viewers
    <3>2. QED
      BY <3>1 DEF View!Next
  <2>3. CASE c \notin inGame
    BY <1>2, <2>1, <2>3
  <2>4. QED
    BY <2>2, <2>3
<1>9. ASSUME NEW c \in Conn,
             \/ Connect(c) \/ AbandonMap(c) \/ NewPlayer(c) \/ Kick(c)
             \/ CaptureMap(c)
      PROVE UNCHANGED View!vars
  <2>1. UNCHANGED <<vxl, toPublish, inGame, view>>
    BY <1>9 DEF Connect, AbandonMap, NewPlayer, Kick, CaptureMap
  <2>2. QED
    BY <1>2, <2>1
<1>10. ASSUME NEW c \in Conn, SendPreparedMap(c) \/ SendCompressedMap(c)
       PROVE UNCHANGED View!vars
  <2>1. c \notin inGame
    BY <1>10 DEF SendPreparedMap, SendCompressedMap, IInv, PhasesAgree
  <2>2. /\ UNCHANGED <<vxl, toPublish, inGame>>
        /\ \A d \in inGame : view'[d] = view[d]
    BY <1>1, <1>10, <2>1 DEF SendPreparedMap, SendCompressedMap, TypeOK
  <2>3. QED
    BY <1>2, <2>2
<1>11. ASSUME NEW c \in Conn, Reveal(c) \/ RevealRaises(c), ~Admit(c)
       PROVE UNCHANGED View!vars
  <2>1. c \notin inGame
    BY <1>11, ConnAssumption
       DEF Reveal, StartReveal, AirCell, AirPause, AirDone, RejectCatchup,
           TakeLease, ReplayCell, LeaseDone, RevealRaises, IInv, RevealsAgree
  <2>2. /\ UNCHANGED <<vxl, toPublish, inGame>>
        /\ \A d \in inGame : view'[d] = view[d]
    BY <1>1, <1>11, <2>1
       DEF Reveal, StartReveal, AirCell, AirPause, AirDone, RejectCatchup,
           TakeLease, ReplayCell, LeaseDone, RevealRaises, TypeOK
  <2>3. QED
    BY <1>2, <2>2
<1>12. QED
  <2>1. CASE UNCHANGED vars
    BY <1>2, <2>1 DEF vars
  <2>2. CASE Mutation
    BY <1>4, <1>5, <1>6, <2>2 DEF Mutation
  <2>3. ASSUME NEW c \in Conn, Connect(c) \/ Handshake(c) \/ Departure(c)
        PROVE [View!Next]_(View!vars)
    BY <1>8, <1>9, <1>10, <2>3 DEF Handshake, Departure
  <2>4. ASSUME NEW c \in Conn, Reveal(c) \/ RevealRaises(c)
        PROVE [View!Next]_(View!vars)
    BY <1>7, <1>11, <2>4
  <2>5. QED
    BY <2>1, <2>2, <2>3, <2>4 DEF Next

\* Seen by the live viewers, the whole catch-up is one atomic join.
THEOREM Refinement == Spec => ImplementsTerrainView
<1>1. Init => View!Init
  BY ContentAssumption DEF Init, View!Init
<1>2. QED
  BY Invariance, <1>1, NextView, PTL DEF Spec, ImplementsTerrainView, View!Spec
=============================================================================
