------------------------------ MODULE MatchProofs -------------------------------
(***************************************************************************)
(* Proofs about the change of scene between matches, for any peers and any *)
(* number of worlds, and about the credit of a round, for any accounts,    *)
(* addresses, limits and numbers of points.  The components share nothing  *)
(* but this module: that of SceneTransition comes first, then some numbers *)
(* and queues, then RoundResults.                                          *)
(***************************************************************************)
EXTENDS SceneTransition, RoundResults,
        FiniteSetTheorems, SequenceTheorems, WellFoundedInduction, TLAPS

-----------------------------------------------------------------------------
(* The inductive invariant.  Who is in the live broadcasts is settled by   *)
(* what happened to its join long before: at the gate, while an end        *)
(* sequence is cancelled, at the swap.                                     *)

\* A rollover is past its gate, or reloading.
Gated == \E o \in Op : run[o] \in {"cancelling", "grace"}
Reloading == \E o \in Op : run[o] = "reloading"
Detaching == \E o \in Op : run[o] = "cancelling"

\* What a handshake captured is what the peer was told, a peer that is gone has
\* no join, and only Players, or those they were, take part in broadcasts.
JoinsAgree ==
  /\ loader = scene
  /\ \A c \in Conn : link[c] = "gone" => stage[c] = "none"
  /\ \A c \in inGame : stage[c] \in {"playing", "retired"}

\* The sets of a rollover are empty when none runs.
RollAgrees ==
  /\ ~Gated /\ ~Reloading => present = {} /\ carried = {}
  /\ ~Reloading => toReload = {}
  /\ toReload \subseteq carried /\ carried \subseteq present
  /\ \A o \in Op : run[o] \in {"preparing", "cancelling", "grace"} => world < MaxWorlds

\* A peer that a rollover holds for its reload has gone, or its join was
\* complete at the gate and cannot get a new Player.
Held(c) ==
  /\ \/ Complete(c) /\ stage[c] # "ticket"
     \/ link[c] = "gone"
  /\ stage[c] = "loaded" => c \in armed
  /\ stage[c] = "playing" => Detaching

HeldPeers ==
  /\ Gated => \A c \in carried : Held(c)
  /\ \A c \in toReload : Held(c)

\* Whom it does not carry will not complete the join it has found.
Turned ==
  Gated => \A c \in present \ carried : ~Complete(c) /\ link[c] # "up"

\* Peers past their loader are in the scene of the current world, are about to
\* be reloaded, or had loaded the old world unseen.
Current ==
  \A c \in Conn : Complete(c) => scene[c] = world \/ c \in overlooked \cup toReload

IInv ==
  /\ TypeOK /\ SingleFlight
  /\ JoinsAgree /\ RollAgrees /\ HeldPeers /\ Turned /\ Current

-----------------------------------------------------------------------------
\* Nobody is there.
LEMMA InitInv == Init => IInv
<1> SUFFICES ASSUME Init PROVE IInv
  OBVIOUS
<1> USE DEF Init
<1>1. TypeOK
  <2>1. 0 \in World /\ "idle" \in Step /\ "gone" \in Link /\ "none" \in Stage
    BY WorldAssumption DEF World, Step, Link, Stage
  <2>2. QED
    BY <2>1 DEF TypeOK
<1>2. \A o \in Op : run[o] = "idle"
  OBVIOUS
<1>3. SingleFlight /\ JoinsAgree /\ RollAgrees
  BY <1>2 DEF SingleFlight, JoinsAgree, RollAgrees
<1>4. HeldPeers /\ Turned /\ Current
  BY <1>2 DEF HeldPeers, Turned, Current, Gated, Complete
<1>5. QED
  BY <1>1, <1>3, <1>4 DEF IInv

-----------------------------------------------------------------------------
(* Joins, which leave the server and the rollover alone.                   *)

\* A peer that a rollover holds is not replaced.
LEMMA ConnectInv == ASSUME IInv, NEW c \in Conn, Connect(c) PROVE IInv'
<1> USE DEF Connect, serverVars, rollVars, IInv
<1>1. TypeOK' /\ SingleFlight'
  BY DEF TypeOK, SingleFlight, Link
<1>2. JoinsAgree' /\ RollAgrees' /\ Current'
  BY DEF TypeOK, JoinsAgree, RollAgrees, Current, Complete, Gated, Reloading
<1>3. HeldPeers' /\ Turned'
  BY DEF TypeOK, JoinsAgree, HeldPeers, Turned, Held, Complete, RollAgrees, Gated, Reloading,
         Detaching
<1>4. QED
  BY <1>1, <1>2, <1>3

\* The handshake captures what it tells.
LEMMA TicketInv == ASSUME IInv, NEW c \in Conn, Ticket(c) PROVE IInv'
<1> USE DEF Ticket, serverVars, rollVars, IInv
<1>1. TypeOK' /\ SingleFlight'
  BY DEF TypeOK, SingleFlight, Stage
<1>2. JoinsAgree' /\ RollAgrees' /\ Current'
  BY DEF TypeOK, JoinsAgree, RollAgrees, Current, Complete, Gated, Reloading
<1>3. HeldPeers' /\ Turned'
  BY DEF TypeOK, JoinsAgree, HeldPeers, Turned, Held, Complete, RollAgrees, Gated, Reloading,
         Detaching
<1>4. QED
  BY <1>1, <1>2, <1>3

\* Only a handshake for the current world is completed.
LEMMA MapSentInv == ASSUME IInv, NEW c \in Conn, MapSent(c) PROVE IInv'
<1> USE DEF MapSent, serverVars, rollVars, IInv
<1>1. TypeOK' /\ SingleFlight'
  BY DEF TypeOK, SingleFlight, Stage
<1>2. JoinsAgree' /\ RollAgrees' /\ Current'
  BY DEF TypeOK, JoinsAgree, RollAgrees, Current, Complete, Gated, Reloading
<1>3. HeldPeers' /\ Turned'
  BY DEF TypeOK, JoinsAgree, HeldPeers, Turned, Held, Complete, RollAgrees, Gated, Reloading,
         Detaching
<1>4. QED
  BY <1>1, <1>2, <1>3

\* A handshake that stalls is not complete.
LEMMA MapStaleInv == ASSUME IInv, NEW c \in Conn, MapStale(c) PROVE IInv'
<1> USE DEF MapStale, serverVars, rollVars, IInv
<1>1. TypeOK' /\ SingleFlight'
  BY DEF TypeOK, SingleFlight, Stage
<1>2. JoinsAgree' /\ RollAgrees' /\ Current'
  BY DEF TypeOK, JoinsAgree, RollAgrees, Current, Complete, Gated, Reloading
<1>3. HeldPeers' /\ Turned'
  BY DEF TypeOK, JoinsAgree, HeldPeers, Turned, Held, Complete, RollAgrees, Gated, Reloading,
         Detaching
<1>4. QED
  BY <1>1, <1>2, <1>3

\* Peers that a rollover holds are armed, and get no Player.
LEMMA NewPlayerInv == ASSUME IInv, NEW c \in Conn, NewPlayer(c) PROVE IInv'
<1> USE DEF NewPlayer, serverVars, rollVars, IInv
<1>1. TypeOK' /\ SingleFlight'
  BY DEF TypeOK, SingleFlight, Stage
<1>2. JoinsAgree' /\ RollAgrees' /\ Current'
  BY DEF TypeOK, JoinsAgree, RollAgrees, Current, Complete, Gated, Reloading
<1>3. HeldPeers' /\ Turned'
  BY DEF TypeOK, JoinsAgree, HeldPeers, Turned, Held, Complete, RollAgrees, Gated, Reloading,
         Detaching
<1>4. QED
  BY <1>1, <1>2, <1>3

\* Nor from a lookup that was under way.
LEMMA TicketCheckedInv == ASSUME IInv, NEW c \in Conn, TicketChecked(c) PROVE IInv'
<1> USE DEF TicketChecked, serverVars, rollVars, IInv
<1>1. TypeOK' /\ SingleFlight'
  BY DEF TypeOK, SingleFlight, Stage
<1>2. JoinsAgree' /\ RollAgrees' /\ Current'
  BY DEF TypeOK, JoinsAgree, RollAgrees, Current, Complete, Gated, Reloading
<1>3. HeldPeers' /\ Turned'
  BY DEF TypeOK, JoinsAgree, HeldPeers, Turned, Held, Complete, RollAgrees, Gated, Reloading,
         Detaching
<1>4. QED
  BY <1>1, <1>2, <1>3

\* Whoever becomes live has a Player.
LEMMA ClientDataInv == ASSUME IInv, NEW c \in Conn, ClientData(c) PROVE IInv'
<1> USE DEF ClientData, serverVars, rollVars, IInv
<1>1. TypeOK' /\ SingleFlight'
  BY DEF TypeOK, SingleFlight
<1>2. JoinsAgree' /\ RollAgrees' /\ Current'
  BY DEF TypeOK, JoinsAgree, RollAgrees, Current, Complete, Gated, Reloading
<1>3. HeldPeers' /\ Turned'
  BY DEF TypeOK, JoinsAgree, HeldPeers, Turned, Held, Complete, RollAgrees, Gated, Reloading,
         Detaching
<1>4. QED
  BY <1>1, <1>2, <1>3

\* A lookup is given up, a Player stays.
LEMMA KickInv == ASSUME IInv, NEW c \in Conn, Kick(c) PROVE IInv'
<1> USE DEF Kick, serverVars, rollVars, IInv
<1>1. TypeOK' /\ SingleFlight'
  BY DEF TypeOK, SingleFlight, Link, Stage, GivenUp
<1>2. JoinsAgree' /\ RollAgrees' /\ Current'
  BY DEF TypeOK, JoinsAgree, RollAgrees, Current, Complete, Gated, Reloading, GivenUp
<1>3. HeldPeers' /\ Turned'
  BY DEF TypeOK, JoinsAgree, HeldPeers, Turned, Held, Complete, RollAgrees, Gated, Reloading,
         Detaching, GivenUp
<1>4. QED
  BY <1>1, <1>2, <1>3

\* A peer that has gone has no join.
LEMMA DisconnectInv == ASSUME IInv, NEW c \in Conn, Disconnect(c) PROVE IInv'
<1> USE DEF Disconnect, serverVars, IInv
<1>1. TypeOK' /\ SingleFlight'
  BY DEF TypeOK, SingleFlight, Link, Stage
<1>2. JoinsAgree' /\ RollAgrees' /\ Current'
  BY DEF TypeOK, JoinsAgree, RollAgrees, Current, Complete, Gated, Reloading
<1>3. HeldPeers' /\ Turned'
  BY DEF TypeOK, JoinsAgree, HeldPeers, Turned, Held, Complete, RollAgrees, Gated, Reloading,
         Detaching
<1>4. QED
  BY <1>1, <1>2, <1>3

\* Who runs does so alone.
LEMMA Alone ==
  ASSUME IInv, NEW o \in Op, run[o] # "idle"
  PROVE  \A p \in Op : p # o => run[p] = "idle"
BY DEF IInv, SingleFlight

\* A reloaded peer starts its join again; it had no Player.
LEMMA ReloadSceneInv == ASSUME IInv, NEW c \in Conn, ReloadScene(c) PROVE IInv'
<1>1. Reloading /\ ~Gated /\ ~Detaching
  BY Alone DEF ReloadScene, IInv, RollAgrees, Gated, Reloading, Detaching
<1>2. Held(c) /\ stage[c] # "playing"
  BY <1>1 DEF ReloadScene, IInv, HeldPeers, Held
<1>3. /\ c \in toReload /\ toReload' = toReload \ {c} /\ overlooked' = overlooked \ {c}
      /\ stage' = [stage EXCEPT ![c] = IF link[c] = "gone" THEN @ ELSE "loading"]
      /\ loader' = [loader EXCEPT ![c] = world] /\ scene' = [scene EXCEPT ![c] = world]
      /\ armed' = armed \ {c} /\ inGame' = inGame \ {c}
      /\ UNCHANGED <<serverVars, link, present, carried>>
  BY <1>2 DEF ReloadScene
<1>4. TypeOK' /\ SingleFlight'
  BY <1>3 DEF IInv, TypeOK, SingleFlight, serverVars, Stage
<1>5. JoinsAgree' /\ RollAgrees' /\ Turned'
  BY <1>1, <1>3 DEF IInv, TypeOK, JoinsAgree, RollAgrees, Turned, serverVars, Gated, Reloading
<1>6. HeldPeers'
  BY <1>1, <1>3 DEF IInv, TypeOK, HeldPeers, Held, Complete, serverVars, Gated, Detaching
<1>7. Current'
  BY <1>3 DEF IInv, TypeOK, JoinsAgree, Current, Complete, serverVars
<1>8. QED
  BY <1>4, <1>5, <1>6, <1>7 DEF IInv

-----------------------------------------------------------------------------
(* Lifecycle operations.                                                   *)

\* No operation starts while another runs, and what is loaded fits.
LEMMA StartInv ==
  ASSUME IInv, Request \/ Restart \/ \E o \in Op : Prepare(o) PROVE IInv'
<1>1. PICK o \in Op, step \in {"asked", "preparing", "restarting"} :
        /\ \A p \in Op \ {o} : run[p] = "idle"
        /\ run[o] \in {"idle", "asked"} /\ run' = [run EXCEPT ![o] = step]
        /\ step = "preparing" => world < MaxWorlds
        /\ UNCHANGED <<world, ending, peerVars, rollVars>>
  BY DEF Request, Restart, Prepare, Busy, Become, Op
<1>2. ~Gated /\ ~Reloading /\ ~Gated' /\ ~Reloading'
  BY <1>1 DEF IInv, TypeOK, Gated, Reloading
<1>3. QED
  BY <1>1, <1>2 DEF IInv, TypeOK, Step, SingleFlight, JoinsAgree, RollAgrees, HeldPeers, Held,
     Turned, Current, Complete, peerVars, rollVars

\* An operation that ends before its gate, or restarts the scene, holds nobody.
LEMMA EndInv ==
  ASSUME IInv, Restarted \/ EndSequence \/ \E o \in Op : Refuse(o) PROVE IInv'
<1>1. /\ UNCHANGED <<world, peerVars, rollVars>> /\ ending' \in BOOLEAN
      /\ \/ run' = run
         \/ \E o \in Op : /\ run[o] \in {"asked", "preparing", "restarting"}
                          /\ run' = [run EXCEPT ![o] = "idle"]
  BY DEF Restarted, EndSequence, Refuse, Become, Op, IInv, TypeOK
<1>2. /\ Gated' = Gated /\ Reloading' = Reloading /\ Detaching' = Detaching
  BY <1>1 DEF IInv, TypeOK, Gated, Reloading, Detaching
<1>3. QED
  BY <1>1, <1>2 DEF IInv, TypeOK, Step, SingleFlight, JoinsAgree, RollAgrees, HeldPeers, Held,
     Turned, Current, Complete, peerVars, rollVars

-----------------------------------------------------------------------------
(* Rollovers.                                                              *)

\* The gate: who has completed its join is held, without Player unless an end
\* sequence is to be cancelled first; who has not is turned away.
LEMMA GateInv == ASSUME IInv, NEW o \in Op, Gate(o) PROVE IInv'
<1>1. /\ run[o] = "preparing" /\ ~Gated /\ ~Reloading
      /\ world < MaxWorlds
  BY Alone DEF Gate, IInv, RollAgrees, Gated, Reloading
<1>2. /\ present' = {c \in Conn : link[c] # "gone"}
      /\ carried' = {c \in present' : Complete(c)}
      /\ armed' = armed \cup carried' /\ inGame' = {}
      /\ link' = [c \in Conn |-> IF c \in present' \ carried' THEN "closing" ELSE link[c]]
      /\ UNCHANGED <<world, ending, loader, scene, toReload, overlooked>>
      /\ \/ /\ run' = [run EXCEPT ![o] = "cancelling"]
            /\ stage' = [c \in Conn |-> IF c \in present' /\ stage[c] = "ticket"
                                       THEN "abandoned" ELSE stage[c]]
         \/ /\ run' = [run EXCEPT ![o] = "grace"]
            /\ stage' = [c \in Conn |->
                           IF c \in present' /\ stage[c] = "playing" THEN "retired"
                           ELSE IF c \in present' /\ stage[c] = "ticket" THEN "abandoned"
                           ELSE stage[c]]
  BY DEF Gate, Become, GivenUp, Detached
<1>3. ~Reloading'
  BY <1>1, <1>2 DEF IInv, TypeOK, Reloading
<1>4. toReload' = {}
  BY <1>1, <1>2 DEF IInv, RollAgrees
<1>5. \A c \in Conn : /\ Complete(c)' <=> Complete(c)
                      /\ stage'[c] # "ticket" \/ link[c] = "gone"
                      /\ stage'[c] = "playing" /\ link[c] # "gone" => Detaching'
  BY <1>2 DEF IInv, TypeOK, Complete, Detaching
<1>6. TypeOK' /\ SingleFlight'
  BY <1>1, <1>2, Alone DEF IInv, TypeOK, Step, Stage, Link, SingleFlight
<1>7. JoinsAgree' /\ RollAgrees'
  BY <1>1, <1>2, <1>3, <1>4, Alone DEF IInv, TypeOK, JoinsAgree, RollAgrees, Gated, Reloading
<1>8. HeldPeers' /\ Turned'
  BY <1>2, <1>4, <1>5 DEF IInv, TypeOK, HeldPeers, Held, Turned
<1>9. Current'
  BY <1>2, <1>4, <1>5 DEF IInv, RollAgrees, Current
<1>10. QED
  BY <1>6, <1>7, <1>8, <1>9 DEF IInv

\* Once the end sequence is over no held peer has a Player.
LEMMA DetachInv == ASSUME IInv, NEW o \in Op, Detach(o) PROVE IInv'
<1>1. /\ run[o] = "cancelling" /\ run' = [run EXCEPT ![o] = "grace"]
      /\ stage' = [c \in Conn |->
                     IF c \in present /\ stage[c] = "playing" THEN "retired"
                     ELSE IF c \in present /\ stage[c] = "ticket" THEN "abandoned"
                     ELSE stage[c]]
      /\ UNCHANGED <<world, ending, link, loader, scene, armed, inGame, rollVars>>
  BY DEF Detach, Become, Detached
<1>2. Gated /\ Gated' /\ ~Reloading'
  BY <1>1, Alone DEF IInv, TypeOK, Gated, Reloading
<1>3. \A c \in Conn : Complete(c)' <=> Complete(c)
  BY <1>1 DEF IInv, TypeOK, Complete
<1>4. TypeOK'
  <2>1. run' \in [Op -> Step]
    BY <1>1 DEF IInv, TypeOK, Step
  <2>2. stage' \in [Conn -> Stage]
    BY <1>1 DEF IInv, TypeOK, Stage
  <2>3. QED
    BY <1>1, <2>1, <2>2 DEF IInv, TypeOK, rollVars
<1>5. /\ SingleFlight'
      /\ JoinsAgree' /\ RollAgrees'
  <2>1. SingleFlight'
    BY <1>1, Alone DEF IInv, TypeOK, SingleFlight
  <2>2. JoinsAgree'
    BY <1>1 DEF IInv, TypeOK, JoinsAgree
  <2>3. ~Reloading
    BY <1>1, Alone DEF Reloading
  <2>4. RollAgrees'
    BY <1>1, <1>2, <2>3 DEF IInv, TypeOK, RollAgrees, Gated, rollVars
  <2>5. QED
    BY <2>1, <2>2, <2>4
<1>6. HeldPeers' /\ Turned' /\ Current'
  BY <1>1, <1>2, <1>3
     DEF IInv, TypeOK, RollAgrees, HeldPeers, Held, Turned, Current, rollVars
<1>7. QED
  BY <1>4, <1>5, <1>6 DEF IInv

\* The swap: whoever shows the old world is to be reloaded, or overlooked.
LEMMA SwapInv == ASSUME IInv, NEW o \in Op, Swap(o) PROVE IInv'
<1>1. /\ run[o] = "grace" /\ run' = [run EXCEPT ![o] = "reloading"]
      /\ world' = world + 1 /\ ending' = FALSE /\ toReload' = carried
      /\ overlooked' = overlooked \cup {c \in Conn \ present : Complete(c)}
      /\ UNCHANGED <<peerVars, present, carried>>
  BY DEF Swap, Become
<1>2. Gated /\ ~Detaching /\ ~Gated' /\ Reloading'
  BY <1>1, Alone DEF IInv, TypeOK, Gated, Detaching, Reloading
<1>3. world < MaxWorlds
  BY <1>1 DEF IInv, RollAgrees
<1>4. TypeOK'
  <2>1. run' \in [Op -> Step]
    BY <1>1 DEF IInv, TypeOK, Step
  <2>2. world' \in World
    BY <1>1, <1>3, WorldAssumption DEF IInv, TypeOK, World
  <2>3. QED
    BY <1>1, <2>1, <2>2 DEF IInv, TypeOK, peerVars
<1>5. /\ SingleFlight'
      /\ JoinsAgree' /\ RollAgrees'
  <2>1. SingleFlight'
    BY <1>1, Alone DEF IInv, TypeOK, SingleFlight
  <2>2. JoinsAgree' /\ RollAgrees'
    BY <1>1, <1>2, Alone DEF IInv, TypeOK, JoinsAgree, RollAgrees, peerVars
  <2>3. QED
    BY <2>1, <2>2
<1>6. HeldPeers' /\ Turned' /\ Current'
  BY <1>1, <1>2 DEF IInv, TypeOK, HeldPeers, Held, Complete, Turned, Current, peerVars
<1>7. QED
  BY <1>4, <1>5, <1>6 DEF IInv

\* Nobody is held any more.
LEMMA FinishInv == ASSUME IInv, NEW o \in Op, Finish(o) PROVE IInv'
<1>1. /\ run[o] = "reloading" /\ run' = [run EXCEPT ![o] = "idle"]
      /\ toReload = {} /\ present' = {} /\ carried' = {}
      /\ link' = [c \in Conn |-> IF c \in carried /\ stage[c] = "stalled" /\ link[c] = "up"
                                THEN "closing" ELSE link[c]]
      /\ UNCHANGED <<world, ending, stage, loader, scene, armed, inGame, toReload, overlooked>>
  BY DEF Finish, Become
<1>2. ~Gated' /\ ~Reloading'
  BY <1>1, Alone DEF IInv, TypeOK, Gated, Reloading
<1>3. TypeOK' /\ SingleFlight'
  BY <1>1, Alone DEF IInv, TypeOK, Step, Link, SingleFlight
<1>4. JoinsAgree' /\ RollAgrees'
  BY <1>1, <1>2 DEF IInv, TypeOK, JoinsAgree, RollAgrees
<1>5. HeldPeers' /\ Turned' /\ Current'
  BY <1>1, <1>2 DEF IInv, TypeOK, HeldPeers, Turned, Current, Complete
<1>6. QED
  BY <1>3, <1>4, <1>5 DEF IInv

\* A rollback before the swap leaves everybody in the world they have.
LEMMA RollbackInv == ASSUME IInv, NEW o \in Op, Rollback(o) PROVE IInv'
<1>1. /\ run[o] = "grace" /\ run' = [run EXCEPT ![o] = "idle"]
      /\ ending' = FALSE /\ inGame' = inGame \ present /\ present' = {} /\ carried' = {}
      /\ link' = [c \in Conn |-> IF c \in present /\ link[c] = "up"
                                THEN "closing" ELSE link[c]]
      /\ UNCHANGED <<world, stage, loader, scene, armed, toReload, overlooked>>
  BY DEF Rollback, Become
<1>2. ~Reloading /\ ~Gated' /\ ~Reloading'
  BY <1>1, Alone DEF IInv, TypeOK, Gated, Reloading
<1>3. TypeOK' /\ SingleFlight'
  BY <1>1, Alone DEF IInv, TypeOK, Step, Link, SingleFlight
<1>4. JoinsAgree' /\ RollAgrees' /\ toReload' = {}
  BY <1>1, <1>2 DEF IInv, TypeOK, JoinsAgree, RollAgrees
<1>5. HeldPeers' /\ Turned' /\ Current'
  BY <1>1, <1>2, <1>4 DEF IInv, TypeOK, HeldPeers, Turned, Current, Complete
<1>6. QED
  BY <1>3, <1>4, <1>5 DEF IInv

-----------------------------------------------------------------------------
\* Whatever the network, the clients and the operations do.
LEMMA NextInv == IInv /\ [Next]_vars => IInv'
<1> SUFFICES ASSUME IInv, [Next]_vars PROVE IInv'
  OBVIOUS
<1>1. CASE \E c \in Conn : Connect(c) \/ Join(c) \/ Kick(c) \/ Disconnect(c)
                           \/ ReloadScene(c)
  BY <1>1, ConnectInv, TicketInv, MapSentInv, MapStaleInv, NewPlayerInv, TicketCheckedInv,
     ClientDataInv, KickInv, DisconnectInv, ReloadSceneInv DEF Join
<1>2. CASE EndSequence \/ Request \/ Restart \/ Restarted
  BY <1>2, StartInv, EndInv
<1>3. CASE \E o \in Op : Prepare(o) \/ Refuse(o) \/ Rollover(o)
  BY <1>3, StartInv, EndInv, GateInv, DetachInv, SwapInv, FinishInv, RollbackInv DEF Rollover
<1>4. CASE UNCHANGED vars
  BY <1>4 DEF vars, serverVars, peerVars, rollVars, IInv, TypeOK, SingleFlight, JoinsAgree,
     RollAgrees, HeldPeers, Held, Turned, Current, Complete, Gated, Reloading, Detaching
<1>5. QED
  BY <1>1, <1>2, <1>3, <1>4 DEF Next

\* Every variable keeps its type, and no more worlds are installed than allowed.
THEOREM TypeCorrect == Spec => []TypeOK
<1>1. IInv => TypeOK
  BY DEF IInv
<1>2. QED
  BY InitInv, NextInv, <1>1, PTL DEF Spec

\* Of the map change, the vote and the restart at most one is under way.
THEOREM OperationsAreSingleFlight == Spec => []SingleFlight
<1>1. IInv => SingleFlight
  BY DEF IInv
<1>2. QED
  BY InitInv, NextInv, <1>1, PTL DEF Spec

\* Whoever takes part in the live broadcasts is in the scene of the current
\* world, but for the peers the code overlooks and those about to be reloaded.
THEOREM ScenesSettle == Spec => []SettledScenes
<1>1. IInv => SettledScenes
  BY DEF IInv, TypeOK, JoinsAgree, Current, SettledScenes, Complete
<1>2. QED
  BY InitInv, NextInv, <1>1, PTL DEF Spec

-----------------------------------------------------------------------------
(* Numbers, and induction over a set of them.                              *)

\* A set of finite sets has a member of which no other one is a part.
LEMMA MinimalSubset ==
  ASSUME NEW S, NEW T \in SUBSET FiniteSubsetsOf(S), T # {}
  PROVE  \E x \in T : \A y \in T : ~ (y \subseteq x /\ y # x)
<1>1. \E x \in T : \A y \in T : ~ (<<y, x>> \in StrictSubsetOrdering(S))
  BY FS_StrictSubsetOrderingWellFounded, WFMin
<1>2. \A y, x \in T : y \subseteq x /\ y # x => <<y, x>> \in StrictSubsetOrdering(S)
  BY DEF StrictSubsetOrdering, FiniteSubsetsOf
<1>3. QED
  BY <1>1, <1>2

\* Numbers have a least one.
LEMMA LeastNumber ==
  ASSUME NEW T \in SUBSET Nat, T # {}
  PROVE  \E m \in T : \A k \in T : m <= k
<1> DEFINE Upto == {0..n : n \in T}
<1>1. \A n \in T : 0..n \in FiniteSubsetsOf(Nat)
  BY FS_Interval DEF FiniteSubsetsOf
<1>2. Upto \in SUBSET FiniteSubsetsOf(Nat) /\ Upto # {}
  BY <1>1
<1>3. \E x \in Upto : \A y \in Upto : ~ (y \subseteq x /\ y # x)
  <2> HIDE DEF Upto
  <2> QED
    BY <1>2, MinimalSubset
<1>4. PICK m \in T : \A y \in Upto : ~ (y \subseteq 0..m /\ y # 0..m)
  BY <1>3
<1>5. ASSUME NEW k \in T, k < m PROVE FALSE
  <2>1. 0..k \in Upto
    OBVIOUS
  <2>2. m \in Nat /\ k \in Nat
    OBVIOUS
  <2>3. 0..k \subseteq 0..m /\ m \in 0..m /\ m \notin 0..k
    BY <1>5, <2>2
  <2>4. QED
    BY <1>4, <2>1, <2>3
<1>6. \A k \in T : m <= k
  BY <1>5
<1>7. QED
  BY <1>6

\* A set of numbers that starts at 0 and always goes on has all of them.
LEMMA Induction ==
  ASSUME NEW S \in SUBSET Nat, 0 \in S, \A n \in S : n + 1 \in S
  PROVE  S = Nat
<1>1. SUFFICES ASSUME Nat \ S # {} PROVE FALSE
  OBVIOUS
<1>2. PICK m \in Nat \ S : \A k \in Nat \ S : m <= k
  BY <1>1, LeastNumber
<1>3. m # 0 /\ m - 1 \in Nat
  BY <1>2
<1>4. m - 1 \in S
  BY <1>2, <1>3
<1>5. QED
  BY <1>2, <1>3, <1>4

\* Some numbers up to a bound have a greatest one.
LEMMA MaxIsGreatest ==
  ASSUME NEW T \in SUBSET Nat, T # {}, NEW bound \in Nat, \A k \in T : k <= bound
  PROVE  Max(T) \in T /\ \A k \in T : k <= Max(T)
<1> DEFINE Below == {bound - k : k \in T}
<1>1. Below \in SUBSET Nat /\ Below # {}
  <2>1. \A k \in T : k \in Nat /\ k <= bound
    OBVIOUS
  <2>2. \A k \in T : bound - k \in Nat
    BY <2>1
  <2>3. QED
    BY <2>2
<1>2. \E m \in Below : \A k \in Below : m <= k
  <2> HIDE DEF Below
  <2> QED
    BY <1>1, LeastNumber
<1>3. PICK m \in T : \A k \in T : bound - m <= bound - k
  BY <1>2
<1>4. \A k \in T : m >= k
  BY <1>3
<1>5. Max(T) \in T /\ \A k \in T : Max(T) >= k
  BY <1>4 DEF Max
<1>6. QED
  BY <1>5

-----------------------------------------------------------------------------
(* Sums of points.                                                         *)

Heap(points, S) == {h \in S \X (1 .. MaxScore) : h[2] <= points[h[1]]}

\* Finitely many have finitely many points.
LEMMA PointsType ==
  ASSUME NEW S, IsFiniteSet(S), NEW points
  PROVE  IsFiniteSet(Heap(points, S)) /\ PointsOf(points, S) \in Nat
<1>1. IsFiniteSet(1 .. MaxScore)
  BY ResultAssumption, FS_Interval
<1>2. IsFiniteSet(S \X (1 .. MaxScore))
  BY <1>1, FS_Product
<1>3. Heap(points, S) \in SUBSET (S \X (1 .. MaxScore))
  BY DEF Heap
<1>4. IsFiniteSet(Heap(points, S))
  BY <1>2, <1>3, FS_Subset
<1>5. PointsOf(points, S) = Cardinality(Heap(points, S))
  BY DEF PointsOf, Heap
<1>6. QED
  BY <1>4, <1>5, FS_CardinalityType

\* Where nobody has a point there is none.
LEMMA PointsZero ==
  ASSUME NEW S, NEW points, \A a \in S : points[a] = 0
  PROVE  PointsOf(points, S) = 0
<1>1. Heap(points, S) = {}
  <2>1. \A h \in S \X (1 .. MaxScore) : h[1] \in S /\ h[2] \in 1 .. MaxScore
    OBVIOUS
  <2>2. \A n \in 1 .. MaxScore : ~ (n <= 0)
    BY ResultAssumption
  <2>3. QED
    BY <2>1, <2>2 DEF Heap
<1>2. PointsOf(points, S) = Cardinality(Heap(points, S))
  BY DEF PointsOf, Heap
<1>3. QED
  BY <1>1, <1>2, FS_EmptySet

\* A sum depends on what is summed.
LEMMA PointsSame ==
  ASSUME NEW S, NEW f, NEW g, \A a \in S : f[a] = g[a]
  PROVE  PointsOf(f, S) = PointsOf(g, S)
<1>1. \A h \in S \X (1 .. MaxScore) : f[h[1]] = g[h[1]]
  OBVIOUS
<1>2. {h \in S \X (1 .. MaxScore) : h[2] <= f[h[1]]}
        = {h \in S \X (1 .. MaxScore) : h[2] <= g[h[1]]}
  BY <1>1
<1>3. QED
  BY <1>2 DEF PointsOf

\* One of them apart.
LEMMA PointsSplit ==
  ASSUME NEW S, IsFiniteSet(S), NEW points, NEW a \in S, points[a] \in 0 .. MaxScore
  PROVE  PointsOf(points, S) = PointsOf(points, S \ {a}) + points[a]
<1> DEFINE mine == {a} \X (1 .. points[a])
           rest == Heap(points, S \ {a})
<1>0. points[a] \in Nat /\ points[a] <= MaxScore
  BY ResultAssumption
<1>1. Heap(points, S) = rest \cup mine
  <2>1. ASSUME NEW h \in Heap(points, S) PROVE h \in rest \cup mine
    <3>1. h \in S \X (1 .. MaxScore) /\ h[2] <= points[h[1]]
      BY DEF Heap
    <3>2. h = <<h[1], h[2]>> /\ h[1] \in S /\ h[2] \in 1 .. MaxScore
      BY <3>1
    <3>3. CASE h[1] = a
      <4>1. h[2] \in 1 .. points[a]
        BY <1>0, <3>1, <3>2, <3>3, ResultAssumption
      <4>2. QED
        BY <3>2, <3>3, <4>1
    <3>4. CASE h[1] # a
      BY <3>1, <3>2, <3>4 DEF Heap
    <3>5. QED
      BY <3>3, <3>4
  <2>2. rest \subseteq Heap(points, S)
    BY DEF Heap
  <2>3. ASSUME NEW h \in mine PROVE h \in Heap(points, S)
    <3>1. h = <<h[1], h[2]>> /\ h[1] = a /\ h[2] \in 1 .. points[a]
      OBVIOUS
    <3>2. h[2] \in 1 .. MaxScore /\ h[2] <= points[a]
      BY <1>0, <3>1, ResultAssumption
    <3>3. QED
      BY <3>1, <3>2 DEF Heap
  <2> HIDE DEF mine, rest
  <2>4. QED
    BY <2>1, <2>2, <2>3
<1>2. rest \cap mine = {}
  BY DEF Heap
<1>3. IsFiniteSet(rest)
  BY FS_RemoveElement, PointsType
<1>4. IsFiniteSet(mine) /\ Cardinality(mine) = points[a]
  <2>1. IsFiniteSet({a}) /\ Cardinality({a}) = 1
    BY FS_Singleton
  <2>2. IsFiniteSet(1 .. points[a]) /\ Cardinality(1 .. points[a]) = points[a]
    BY <1>0, FS_Interval, SMTT(30)
  <2>3. IsFiniteSet(mine) /\ Cardinality(mine) = 1 * points[a]
    BY <2>1, <2>2, FS_Product, ZenonT(60)
  <2>4. QED
    BY <1>0, <2>3
<1>5. Cardinality(rest) \in Nat
  BY <1>3, FS_CardinalityType
<1>6. PointsOf(points, S) = Cardinality(Heap(points, S))
      /\ PointsOf(points, S \ {a}) = Cardinality(rest)
  BY DEF PointsOf, Heap
<1> HIDE DEF mine, rest
<1>7. Cardinality(rest \cup mine) = Cardinality(rest) + Cardinality(mine) - Cardinality({})
  BY <1>2, <1>3, <1>4, FS_Union
<1>8. QED
  BY <1>0, <1>1, <1>4, <1>5, <1>6, <1>7, FS_EmptySet

\* Nobody has more than all.
LEMMA PointsOfOne ==
  ASSUME NEW S, IsFiniteSet(S), NEW points, NEW a \in S, points[a] \in 0 .. MaxScore
  PROVE  points[a] <= PointsOf(points, S)
<1>1. IsFiniteSet(S \ {a})
  BY FS_RemoveElement
<1>2. PointsOf(points, S \ {a}) \in Nat /\ points[a] \in Nat
  BY <1>1, PointsType, ResultAssumption
<1>3. QED
  BY <1>2, PointsSplit

-----------------------------------------------------------------------------
(* Queues.                                                                 *)

\* What is kept of an element more.
KeepOne(t, e, S) == IF e \in S THEN t ELSE Append(t, e)

\* What is kept after n elements, from what is kept before the last of them.
LEMMA KeptStep ==
  ASSUME NEW s, NEW S, Len(s) \in Nat
  PROVE  /\ Kept(s, S)[0] = << >>
         /\ \A n \in 1 .. Len(s) : Kept(s, S)[n] = KeepOne(Kept(s, S)[n - 1], s[n], S)
<1> DEFINE Keeps(m, f) ==
             f = [n \in 0 .. m |-> IF n = 0 THEN << >> ELSE KeepOne(f[n - 1], s[n], S)]
           Keepable == {m \in Nat : \E f : Keeps(m, f)}
<1>1. 0 \in Keepable
  <2>1. Keeps(0, [n \in 0 .. 0 |-> << >>])
    OBVIOUS
  <2>2. QED
    BY <2>1
<1>2. ASSUME NEW m \in Keepable PROVE m + 1 \in Keepable
  <2>1. PICK f : Keeps(m, f)
    OBVIOUS
  <2> DEFINE g == [n \in 0 .. (m + 1) |->
                     IF n = m + 1 THEN KeepOne(f[m], s[m + 1], S) ELSE f[n]]
  <2>2. m \in Nat
    OBVIOUS
  <2>3. ASSUME NEW n \in 0 .. (m + 1)
        PROVE  g[n] = IF n = 0 THEN << >> ELSE KeepOne(g[n - 1], s[n], S)
    <3>1. CASE n = 0
      BY <2>1, <2>2, <3>1
    <3>2. CASE n = m + 1
      BY <2>2, <3>2
    <3>3. CASE n # 0 /\ n # m + 1
      <4>1. f[n] = KeepOne(f[n - 1], s[n], S)
        BY <2>1, <2>2, <3>3
      <4>2. n - 1 \in 0 .. (m + 1) /\ n - 1 # m + 1
        BY <2>2, <3>3
      <4>3. QED
        BY <3>3, <4>1, <4>2
    <3>4. QED
      BY <3>1, <3>2, <3>3
  <2>4. Keeps(m + 1, g)
    BY <2>3
  <2>5. m + 1 \in Nat /\ \E h : Keeps(m + 1, h)
    <3> HIDE DEF Keeps
    <3> QED
      BY <2>2, <2>4
  <2>6. QED
    BY <2>5
<1>3. Keepable = Nat
  <2>1. Keepable \in SUBSET Nat
    OBVIOUS
  <2> HIDE DEF Keepable
  <2>2. QED
    BY <1>1, <1>2, <2>1, Induction
<1>4. \E f : Keeps(Len(s), f)
  BY <1>3
<1>5. Keeps(Len(s), Kept(s, S))
  BY <1>4 DEF Kept, KeepOne
<1>6. QED
  BY <1>5

\* What is left of a queue is a shorter queue of the elements not taken out.
LEMMA WithoutIsTheRest ==
  ASSUME NEW E, NEW s \in Seq(E), NEW S
  PROVE  /\ Without(s, S) \in Seq(E)
         /\ Len(Without(s, S)) <= Len(s)
         /\ ToSet(Without(s, S)) = ToSet(s) \ S
<1>1. Len(s) \in Nat /\ \A n \in 1 .. Len(s) : s[n] \in E
  OBVIOUS
<1> DEFINE kept == Kept(s, S)
<1>2. /\ kept[0] = << >>
      /\ \A n \in 1 .. Len(s) : kept[n] = KeepOne(kept[n - 1], s[n], S)
  BY <1>1, KeptStep
<1> HIDE DEF kept
<1> DEFINE Part(n) == /\ kept[n] \in Seq(E) /\ Len(kept[n]) <= n
                      /\ ToSet(kept[n]) = {s[k] : k \in 1 .. n} \ S
           Sound == {n \in Nat : n <= Len(s) => Part(n)}
<1>3. 0 \in Sound
  <2>1. kept[0] \in Seq(E) /\ Len(kept[0]) = 0
    BY <1>2
  <2>2. ToSet(kept[0]) = {} /\ {s[k] : k \in 1 .. 0} = {}
    BY <1>2 DEF ToSet
  <2>3. QED
    BY <2>1, <2>2
<1>4. ASSUME NEW n \in Sound PROVE n + 1 \in Sound
  <2>1. SUFFICES ASSUME n + 1 <= Len(s) PROVE Part(n + 1)
    OBVIOUS
  <2>2. n \in Nat /\ n + 1 \in 1 .. Len(s) /\ n + 1 - 1 = n /\ Part(n)
    BY <1>1, <2>1
  <2>3. kept[n + 1] = IF s[n + 1] \in S THEN kept[n] ELSE Append(kept[n], s[n + 1])
    BY <1>2, <2>2 DEF KeepOne
  <2>4. s[n + 1] \in E
    BY <1>1, <2>2
  <2>5. {s[k] : k \in 1 .. (n + 1)} = {s[k] : k \in 1 .. n} \cup {s[n + 1]}
    <3>1. 1 .. (n + 1) = (1 .. n) \cup {n + 1}
      BY <2>2
    <3>2. QED
      BY <3>1
  <2>6. CASE s[n + 1] \in S
    BY <2>2, <2>3, <2>5, <2>6
  <2>7. CASE s[n + 1] \notin S
    <3> DEFINE t == kept[n]
               longer == Append(t, s[n + 1])
    <3>1. kept[n + 1] = longer
      BY <2>3, <2>7
    <3>2. t \in Seq(E) /\ Len(t) <= n /\ Len(t) \in Nat /\ ToSet(t) = {s[k] : k \in 1 .. n} \ S
      BY <2>2
    <3> HIDE DEF t
    <3>3. longer \in Seq(E) /\ Len(longer) = Len(t) + 1
      BY <2>4, <3>2
    <3>4. ToSet(longer) = ToSet(t) \cup {s[n + 1]}
      <4>1. DOMAIN longer = (1 .. Len(t)) \cup {Len(t) + 1} /\ DOMAIN t = 1 .. Len(t)
        BY <3>2, <3>3
      <4>2. longer[Len(t) + 1] = s[n + 1] /\ \A k \in 1 .. Len(t) : longer[k] = t[k]
        BY <2>4, <3>2
      <4> HIDE DEF longer
      <4>3. QED
        BY <4>1, <4>2 DEF ToSet
    <3>5. QED
      BY <2>2, <2>5, <2>7, <3>1, <3>2, <3>3, <3>4
  <2>8. QED
    BY <2>6, <2>7
<1>5. Sound = Nat
  <2>1. Sound \in SUBSET Nat
    OBVIOUS
  <2> HIDE DEF Sound
  <2>2. QED
    BY <1>3, <1>4, <2>1, Induction
<1>6. Part(Len(s))
  <2> HIDE DEF Part
  <2> QED
    BY <1>1, <1>5
<1>7. ToSet(s) = {s[k] : k \in 1 .. Len(s)}
  BY DEF ToSet
<1>8. QED
  BY <1>6, <1>7 DEF Without, kept

\* The elements of queues put together, cut, and made longer.
LEMMA ElementsOf ==
  ASSUME NEW E, NEW s \in Seq(E)
  PROVE  /\ ToSet(s) \subseteq E /\ ToSet(<< >>) = {}
         /\ \A t \in Seq(E) : s \o t \in Seq(E) /\ Len(s \o t) = Len(s) + Len(t)
                              /\ ToSet(s \o t) = ToSet(s) \cup ToSet(t)
         /\ \A e \in E : Append(s, e) \in Seq(E) /\ Len(Append(s, e)) = Len(s) + 1
                         /\ ToSet(Append(s, e)) = ToSet(s) \cup {e}
         /\ \A n \in 0 .. Len(s) : SubSeq(s, 1, n) \in Seq(E) /\ Len(SubSeq(s, 1, n)) = n
                                   /\ ToSet(SubSeq(s, 1, n)) \subseteq ToSet(s)
         /\ s # << >> => /\ Head(s) \in ToSet(s) /\ Tail(s) \in Seq(E)
                         /\ Len(Tail(s)) = Len(s) - 1 /\ ToSet(Tail(s)) \subseteq ToSet(s)
<1>1. Len(s) \in Nat /\ DOMAIN s = 1 .. Len(s) /\ \A n \in 1 .. Len(s) : s[n] \in E
  OBVIOUS
<1>2. ToSet(s) \subseteq E /\ ToSet(<< >>) = {}
  BY <1>1 DEF ToSet
<1>3. ASSUME NEW t \in Seq(E)
      PROVE  s \o t \in Seq(E) /\ Len(s \o t) = Len(s) + Len(t)
             /\ ToSet(s \o t) = ToSet(s) \cup ToSet(t)
  <2> DEFINE both == s \o t
  <2>1. both \in Seq(E) /\ Len(both) = Len(s) + Len(t) /\ Len(t) \in Nat
    OBVIOUS
  <2>2. DOMAIN both = 1 .. (Len(s) + Len(t)) /\ DOMAIN t = 1 .. Len(t)
    BY <1>1, <2>1
  <2>3. /\ \A n \in 1 .. Len(s) : both[n] = s[n]
        /\ \A n \in 1 .. Len(t) : both[Len(s) + n] = t[n]
    BY <1>1, <2>1
  <2> HIDE DEF both
  <2>4. ASSUME NEW e \in ToSet(both) PROVE e \in ToSet(s) \cup ToSet(t)
    <3>1. PICK n \in 1 .. (Len(s) + Len(t)) : e = both[n]
      BY <2>2 DEF ToSet
    <3>2. CASE n <= Len(s)
      BY <1>1, <2>1, <2>3, <3>1, <3>2 DEF ToSet
    <3>3. CASE ~ (n <= Len(s))
      <4>1. n - Len(s) \in 1 .. Len(t) /\ n = Len(s) + (n - Len(s))
        BY <1>1, <2>1, <3>1, <3>3
      <4>2. e = t[n - Len(s)]
        BY <2>3, <3>1, <4>1
      <4>3. QED
        BY <2>2, <4>1, <4>2 DEF ToSet
    <3>4. QED
      BY <3>2, <3>3
  <2>5. ToSet(s) \subseteq ToSet(both)
    <3>1. 1 .. Len(s) \subseteq 1 .. (Len(s) + Len(t))
      BY <1>1, <2>1
    <3>2. QED
      BY <1>1, <2>2, <2>3, <3>1 DEF ToSet
  <2>6. ToSet(t) \subseteq ToSet(both)
    <3>1. \A n \in 1 .. Len(t) : Len(s) + n \in 1 .. (Len(s) + Len(t))
      BY <1>1, <2>1
    <3>2. QED
      BY <2>2, <2>3, <3>1 DEF ToSet
  <2>7. QED
    BY <2>1, <2>4, <2>5, <2>6 DEF both
<1>4. ASSUME NEW e \in E
      PROVE  Append(s, e) \in Seq(E) /\ Len(Append(s, e)) = Len(s) + 1
             /\ ToSet(Append(s, e)) = ToSet(s) \cup {e}
  <2> DEFINE longer == Append(s, e)
  <2>1. longer \in Seq(E) /\ Len(longer) = Len(s) + 1
    OBVIOUS
  <2>2. DOMAIN longer = (1 .. Len(s)) \cup {Len(s) + 1}
    BY <1>1, <2>1
  <2>3. longer[Len(s) + 1] = e /\ \A n \in 1 .. Len(s) : longer[n] = s[n]
    BY <1>1
  <2> HIDE DEF longer
  <2>4. ToSet(longer) = ToSet(s) \cup {e}
    BY <1>1, <2>2, <2>3 DEF ToSet
  <2>5. QED
    BY <2>1, <2>4 DEF longer
<1>5. ASSUME NEW n \in 0 .. Len(s)
      PROVE  SubSeq(s, 1, n) \in Seq(E) /\ Len(SubSeq(s, 1, n)) = n
             /\ ToSet(SubSeq(s, 1, n)) \subseteq ToSet(s)
  <2> DEFINE part == SubSeq(s, 1, n)
  <2>1. n \in Nat /\ n <= Len(s)
    BY <1>1
  <2>2. part \in Seq(E) /\ Len(part) = n /\ \A k \in 1 .. n : part[k] = s[k]
    BY <1>1, <2>1
  <2>3. DOMAIN part = 1 .. n /\ 1 .. n \subseteq 1 .. Len(s)
    BY <1>1, <2>1, <2>2
  <2> HIDE DEF part
  <2>4. ToSet(part) \subseteq ToSet(s)
    BY <1>1, <2>2, <2>3 DEF ToSet
  <2>5. QED
    BY <2>2, <2>4 DEF part
<1>6. ASSUME s # << >>
      PROVE  /\ Head(s) \in ToSet(s) /\ Tail(s) \in Seq(E)
             /\ Len(Tail(s)) = Len(s) - 1 /\ ToSet(Tail(s)) \subseteq ToSet(s)
  <2>1. Len(s) # 0 /\ Head(s) = s[1]
    BY <1>6
  <2>2. Tail(s) \in Seq(E) /\ Len(Tail(s)) = Len(s) - 1
        /\ \A n \in 1 .. Len(Tail(s)) : Tail(s)[n] = s[n + 1]
    BY <1>6, HeadTailProperties
  <2>3. 1 \in 1 .. Len(s)
    BY <1>1, <2>1
  <2>4. \A n \in 1 .. Len(Tail(s)) : n + 1 \in 1 .. Len(s)
    BY <1>1, <2>2
  <2>5. DOMAIN Tail(s) = 1 .. Len(Tail(s))
    BY <2>2
  <2>6. QED
    BY <1>1, <2>1, <2>2, <2>3, <2>4, <2>5 DEF ToSet
<1>7. QED
  BY <1>2, <1>3, <1>4, <1>5, <1>6

-----------------------------------------------------------------------------
(* Credit.                                                                 *)

\* Events of one kind that credit no more than some of them does, or nothing.
LEMMA CreditIs ==
  ASSUME NEW S \in SUBSET Event, NEW m, NEW p \in Acct, NEW bound \in Nat, NEW kind \in BOOLEAN,
         \A e \in S : e.match = m => e.cumulative = kind,
         \A e \in S : e.match = m /\ p \in DOMAIN e.total => e.total[p] <= bound,
         bound > 0 => \E e \in S : e.match = m /\ p \in DOMAIN e.total /\ e.total[p] = bound
  PROVE  Credit(S, m, p) = bound
<1>1. \A e \in S : p \in DOMAIN e.total => e.total[p] \in Nat
  BY ResultAssumption DEF Event
<1>2. /\ kind = TRUE => Of(S, m, p, FALSE) = {}
      /\ kind = FALSE => Of(S, m, p, TRUE) = {}
  BY DEF Of
<1> DEFINE mine == Of(S, m, p, kind) \cup {0}
<1>3. mine \subseteq Nat /\ bound \in mine /\ \A n \in mine : n <= bound
  BY <1>1 DEF Of
<1>4. Max(mine) = bound
  <2> HIDE DEF mine
  <2>1. Max(mine) \in mine /\ \A n \in mine : n <= Max(mine)
    BY <1>3, MaxIsGreatest
  <2>2. Max(mine) \in Nat /\ Max(mine) <= bound /\ bound <= Max(mine)
    BY <1>3, <2>1
  <2>3. QED
    BY <2>2
<1>5. Max({} \cup {0}) = 0
  BY MaxIsGreatest
<1>6. Credit(S, m, p) = bound + 0
  <2>1. CASE kind = TRUE
    <3>1. Max(Of(S, m, p, TRUE) \cup {0}) = bound /\ Max(Of(S, m, p, FALSE) \cup {0}) = 0
      BY <1>2, <1>4, <1>5, <2>1
    <3>2. QED
      BY <3>1 DEF Credit
  <2>2. CASE kind = FALSE
    <3>1. Max(Of(S, m, p, FALSE) \cup {0}) = bound /\ Max(Of(S, m, p, TRUE) \cup {0}) = 0
      BY <1>2, <1>4, <1>5, <2>2
    <3>2. 0 + bound = bound + 0
      OBVIOUS
    <3>3. QED
      BY <3>1, <3>2 DEF Credit
  <2>3. QED
    BY <2>1, <2>2
<1>7. QED
  BY <1>6

\* Events of one kind credit no more than a bound of each.
LEMMA CreditBelow ==
  ASSUME NEW S \in SUBSET Event, NEW m, NEW p \in Acct, NEW bound \in Nat, NEW kind \in BOOLEAN,
         \A e \in S : e.match = m => e.cumulative = kind,
         \A e \in S : e.match = m /\ p \in DOMAIN e.total => e.total[p] <= bound
  PROVE  Credit(S, m, p) <= bound
<1>1. \A e \in S : p \in DOMAIN e.total => e.total[p] \in Nat
  BY ResultAssumption DEF Event
<1> DEFINE mine == Of(S, m, p, kind) \cup {0}
<1>2. mine \subseteq Nat /\ 0 \in mine /\ \A n \in mine : n <= bound
  BY <1>1 DEF Of
<1>3. Max(mine) \in Nat /\ Max(mine) <= bound /\ Max(mine) \in mine
      /\ \A n \in mine : n <= Max(mine)
  <2> HIDE DEF mine
  <2> QED
    BY <1>2, MaxIsGreatest
<1>4. Max(mine) > 0 => \E e \in S : e.match = m /\ p \in DOMAIN e.total
                                     /\ e.total[p] = Max(mine)
  <2> DEFINE most == Max(mine)
  <2>1. most \in mine
    BY <1>3
  <2> HIDE DEF most
  <2>2. most > 0 => most \in Of(S, m, p, kind)
    BY <2>1
  <2>3. most > 0 => \E e \in S : e.match = m /\ p \in DOMAIN e.total /\ e.total[p] = most
    BY <2>2 DEF Of
  <2>4. QED
    BY <2>3 DEF most
<1>5. \A e \in S : e.match = m /\ p \in DOMAIN e.total => e.total[p] <= Max(mine)
  <2>1. \A e \in S : e.match = m /\ p \in DOMAIN e.total => e.total[p] \in mine
    BY DEF Of
  <2>2. QED
    BY <1>3, <2>1
<1> HIDE DEF mine
<1>6. Credit(S, m, p) = Max(mine)
  BY <1>3, <1>4, <1>5, CreditIs
<1>7. QED
  BY <1>3, <1>6

-----------------------------------------------------------------------------
(* The inductive invariant of the results.  An event is immutable, so what *)
(* it may report later is settled when it is made: by the books of the     *)
(* round, which balance with what has been earned.                         *)

\* Events that count, and those the result task has in hand.
Owned == ToSet(pending) \cup ToSet(outbox) \cup accepted
Events == Owned \cup ToSet(batch)

\* A process that ends is followed by another match.
MatchesRemain == closing \/ ~up => match < MaxMatches

\* A process that is down has nothing in memory.
DownIsFresh ==
  ~up =>
    /\ who = [a \in Addr |-> Free] /\ counter = [a \in Addr |-> 0]
    /\ baseline = [a \in Addr |-> 0]
    /\ ~eligible /\ ~ended /\ ~rolling
    /\ departed = Nothing /\ records = [p \in Acct |-> NoRecord]
    /\ ~completed /\ pending = << >>
    /\ flush = "off" /\ batch = << >> /\ ~closing

\* A baseline is that of the Player at the address, except for Players retired
\* by a rollover, whose baselines the new round drops.
RosterAgrees ==
  \A a \in Addr : /\ who[a] = Free => counter[a] = 0
                  /\ ~rolling => baseline[a] <= counter[a]

\* What the books of the round have of account p.
Known(p) == records[p].total + departed[p] + Due(who, p)

\* The books balance until the round is completed.  Players retired by a
\* rollover take with them what was not captured before.
AccountsAgree ==
  /\ \A m \in Match : m > match => earned[m] = Nothing
  /\ completed => \A p \in Acct : records[p].total = earned[match][p]
  /\ up /\ ~completed =>
       \A p \in Acct : /\ Known(p) <= earned[match][p]
                       /\ ~rolling => Known(p) = earned[match][p]

\* An event is of a match there has been and reports no more than was earned
\* in it, nor than the records of its round.
SoundEvent(e) ==
  /\ e.match <= match
  /\ \A p \in DOMAIN e.total : e.total[p] <= earned[e.match][p]
  /\ up /\ e.match = match =>
       /\ IF e.cumulative THEN eligible ELSE completed
       /\ \A p \in DOMAIN e.total : e.total[p] <= records[p].total

\* A match has checkpoints, or one report without match evidence, never both.
OneKind == \A e, f \in Events : e.match = f.match => e.cumulative = f.cumulative

EventsAreSound == (\A e \in Events : SoundEvent(e)) /\ OneKind

\* Every record is in an event that counts.
Reported ==
  up => \A p \in Acct : records[p].total > 0 =>
          \E e \in Owned : /\ e.match = match /\ p \in DOMAIN e.total
                           /\ e.total[p] = records[p].total

\* What the task has posted it still has in hand.
TaskAgrees ==
  /\ flush \in {"posting", "answered"} => batch # << >>
  /\ flush = "answered" => Head(batch) \in accepted

ResultIInv ==
  /\ ResultTypeOK /\ MatchesRemain /\ DownIsFresh /\ RosterAgrees
  /\ AccountsAgree /\ EventsAreSound /\ Reported /\ TaskAgrees

-----------------------------------------------------------------------------
(* What is due.                                                            *)

Deltas == [a \in Addr |-> Delta(a)]
Those(roster, p) == {a \in Addr : roster[a] = p}

LEMMA DueNow ==
  ASSUME NEW roster, NEW p PROVE Due(roster, p) = PointsOf(Deltas, Those(roster, p))
BY DEF Due, Deltas, Those

LEMMA DueNext ==
  ASSUME NEW p PROVE Due(who, p)' = PointsOf(Deltas', Those(who', p))
BY DEF Due, Deltas, Those

LEMMA ThoseFinite == \A roster, p : IsFiniteSet(Those(roster, p))
<1>1. \A roster, p : Those(roster, p) \in SUBSET Addr
  BY DEF Those
<1>2. QED
  BY <1>1, ResultAssumption, FS_Subset

\* The difference of counter and baseline, now and after a step.
LEMMA DeltasAre ==
  ASSUME ResultTypeOK, counter' \in [Addr -> 0 .. MaxScore],
         baseline' \in [Addr -> 0 .. MaxScore],
         NEW a \in Addr
  PROVE  /\ Deltas[a] = Delta(a) /\ Deltas[a] \in 0 .. MaxScore
         /\ Deltas'[a] = IF counter'[a] > baseline'[a] THEN counter'[a] - baseline'[a] ELSE 0
         /\ Deltas'[a] \in 0 .. MaxScore
<1>1. /\ counter[a] \in 0 .. MaxScore /\ baseline[a] \in 0 .. MaxScore
      /\ counter'[a] \in 0 .. MaxScore /\ baseline'[a] \in 0 .. MaxScore
  BY DEF ResultTypeOK
<1>2. Deltas[a] = Delta(a)
      /\ Deltas'[a] = IF counter'[a] > baseline'[a] THEN counter'[a] - baseline'[a] ELSE 0
  BY DEF Deltas, Delta
<1>3. QED
  BY <1>1, <1>2, ResultAssumption DEF Delta

\* Numbers of points.
LEMMA DueType ==
  ASSUME NEW roster, NEW p PROVE Due(roster, p) \in Nat
BY DueNow, ThoseFinite, PointsType

LEMMA NextDueType == ASSUME NEW p PROVE Due(who, p)' \in Nat
<1>1. IsFiniteSet(Those(who', p))
  BY ThoseFinite
<1>2. PointsOf(Deltas', Those(who', p)) \in Nat
  BY <1>1, PointsType
<1>3. QED
  BY <1>2, DueNext

\* Nothing is due to those who are not there.
LEMMA DueOfNobody ==
  ASSUME NEW roster, NEW p, \A a \in Addr : roster[a] # p PROVE Due(roster, p) = 0
<1>1. Those(roster, p) = {}
  BY DEF Those
<1>2. QED
  BY <1>1, DueNow, PointsZero

\* A Player that leaves takes its own share with it.
LEMMA DueWithout ==
  ASSUME ResultTypeOK, NEW a \in Addr, who[a] # Free, NEW p \in Acct
  PROVE  Due(who, p) = Due([who EXCEPT ![a] = Free], p) + (IF p = who[a] THEN Delta(a) ELSE 0)
<1> DEFINE roster == [who EXCEPT ![a] = Free]
<1>1. Deltas[a] = Delta(a) /\ Deltas[a] \in 0 .. MaxScore
  BY ResultAssumption, SMTT(30) DEF ResultTypeOK, Deltas, Delta
<1>2. CASE p = who[a]
  <2>1. a \in Those(who, p) /\ Those(roster, p) = Those(who, p) \ {a}
    BY <1>2, ResultAssumption DEF Those, ResultTypeOK
  <2>2. PointsOf(Deltas, Those(who, p)) = PointsOf(Deltas, Those(who, p) \ {a}) + Deltas[a]
    BY <1>1, <2>1, PointsSplit, ThoseFinite
  <2> HIDE DEF roster
  <2>3. QED
    BY <1>1, <1>2, <2>1, <2>2, DueNow DEF roster
<1>3. CASE p # who[a]
  <2>1. Those(roster, p) = Those(who, p)
    BY <1>3, ResultAssumption DEF Those, ResultTypeOK
  <2> HIDE DEF roster
  <2>2. Due(who, p) = Due(roster, p) /\ Due(roster, p) \in Nat
    BY <2>1, DueNow, DueType
  <2>3. QED
    BY <1>3, <2>2 DEF roster
<1>4. QED
  BY <1>2, <1>3

\* What is due depends on the counters and baselines of those there.
LEMMA DueKept ==
  ASSUME NEW p,
         \A a \in Addr : who'[a] = p => counter'[a] = counter[a] /\ baseline'[a] = baseline[a]
  PROVE  Due(who, p)' = Due(who', p)
<1>1. \A a \in Those(who', p) : Deltas'[a] = Deltas[a]
  BY DEF Those, Deltas, Delta
<1>2. PointsOf(Deltas', Those(who', p)) = PointsOf(Deltas, Those(who', p))
  BY <1>1, PointsSame
<1>3. QED
  BY <1>2, DueNow, DueNext

\* Nothing is due when baselines are what the counters are.
LEMMA DueSettled ==
  ASSUME ResultTypeOK, counter' \in [Addr -> 0 .. MaxScore],
         baseline' \in [Addr -> 0 .. MaxScore],
         NEW p, \A a \in Addr : who'[a] = p => counter'[a] <= baseline'[a]
  PROVE  Due(who, p)' = 0
<1>1. ASSUME NEW a \in Those(who', p) PROVE Deltas'[a] = 0
  <2>1. a \in Addr /\ who'[a] = p
    BY DEF Those
  <2>2. counter'[a] \in Int /\ baseline'[a] \in Int /\ counter'[a] <= baseline'[a]
    BY <2>1
  <2>3. QED
    BY <2>1, <2>2, DeltasAre
<1>2. PointsOf(Deltas', Those(who', p)) = 0
  BY <1>1, PointsZero
<1>3. QED
  BY <1>2, DueNext

-----------------------------------------------------------------------------
(* Events through the steps.                                               *)

LEMMA EventsTyped ==
  ASSUME ResultTypeOK PROVE Events \subseteq Event /\ Owned \subseteq Events
<1>1. ToSet(pending) \subseteq Event /\ ToSet(outbox) \subseteq Event
      /\ ToSet(batch) \subseteq Event
  BY ElementsOf DEF ResultTypeOK
<1>2. QED
  BY <1>1 DEF Events, Owned, ResultTypeOK

\* Old events stay sound while matches and credit only grow, and the round is
\* another one or only gets further.
LEMMA SoundEventsKept ==
  ASSUME ResultIInv, Events' \subseteq Events,
         match' \in Match, match <= match',
         earned' \in [Match -> [Acct -> 0 .. MaxScore]],
         \A m \in Match, p \in Acct : earned[m][p] <= earned'[m][p],
         up' /\ match' = match =>
           /\ up /\ (eligible => eligible') /\ (completed => completed')
           /\ \A p \in Acct : records[p].total <= records'[p].total
                              /\ records'[p].total \in Nat
  PROVE  EventsAreSound'
<1>1. ASSUME NEW e \in Events' PROVE SoundEvent(e)'
  <2>1. e \in Event /\ SoundEvent(e)
    BY EventsTyped DEF ResultIInv, EventsAreSound
  <2>2. e.match \in Match /\ e.match <= match /\ match \in Match
    BY <2>1 DEF Event, SoundEvent, ResultIInv, ResultTypeOK
  <2>3. e.match \in Int /\ match \in Int /\ match' \in Int
    BY <2>2 DEF Match
  <2>4. ASSUME NEW p \in DOMAIN e.total
        PROVE  /\ p \in Acct /\ e.total[p] <= earned'[e.match][p]
               /\ up' /\ e.match = match' => e.total[p] <= records'[p].total
    <3>1. p \in Acct /\ e.total[p] \in Int /\ e.total[p] <= earned[e.match][p]
      BY <2>1, ResultAssumption DEF Event, SoundEvent
    <3>2. earned[e.match][p] \in Int /\ earned'[e.match][p] \in Int
          /\ earned[e.match][p] <= earned'[e.match][p]
      BY <2>2, <3>1 DEF ResultIInv, ResultTypeOK
    <3>3. ASSUME up', e.match = match' PROVE e.total[p] <= records'[p].total
      <4>1. match' = match /\ up
        BY <2>2, <2>3, <3>3
      <4>2. e.total[p] <= records[p].total /\ records[p].total <= records'[p].total
        BY <2>1, <3>1, <3>3, <4>1 DEF SoundEvent
      <4>3. records[p].total \in Int /\ records'[p].total \in Int
        BY <3>1, <3>3, <4>1 DEF ResultIInv, ResultTypeOK
      <4>4. QED
        BY <3>1, <4>2, <4>3
    <3>4. QED
      BY <3>1, <3>2, <3>3
  <2>5. e.match <= match'
    BY <2>2, <2>3
  <2>6. ASSUME up', e.match = match' PROVE IF e.cumulative THEN eligible' ELSE completed'
    <3>1. match' = match /\ up
      BY <2>2, <2>3, <2>6
    <3>2. QED
      BY <2>1, <2>6, <3>1 DEF SoundEvent
  <2>7. QED
    BY <2>4, <2>5, <2>6 DEF SoundEvent
<1>2. OneKind'
  BY DEF ResultIInv, EventsAreSound, OneKind
<1>3. QED
  BY <1>1, <1>2 DEF EventsAreSound

\* The round's books are left alone.
LEMMA AccountsKept ==
  ASSUME AccountsAgree, UNCHANGED <<rosterVars, roundVars, up, earned>>
  PROVE  AccountsAgree'
<1>1. \A p : Known(p)' = Known(p)
  <2>1. \A p : Due(who, p)' = Due(who, p)
    BY DEF Due, Delta, PointsOf, rosterVars
  <2>2. QED
    BY <2>1 DEF Known, roundVars
<1>2. UNCHANGED <<match, completed, records, rolling, up, earned>>
  BY DEF roundVars
<1>3. QED
  BY <1>1, <1>2 DEF AccountsAgree

\* The result task moves events, and drops none that does not count elsewhere.
LEMMA MovesInv ==
  ASSUME ResultIInv, up, UNCHANGED <<rosterVars, roundVars, closing, up, tallies>>,
         pending' \in Seq(Event), Len(pending') <= MaxPending,
         flush' \in {"off", "writing", "loading", "posting", "answered"},
         batch' \in Seq(Event), outbox' \in Seq(Event), Len(outbox') <= MaxEvents,
         accepted' \in SUBSET Event,
         Owned \subseteq Owned', Events' \subseteq Events, TaskAgrees'
  PROVE  ResultIInv'
<1>1. /\ UNCHANGED <<who, counter, baseline>>
      /\ UNCHANGED <<match, eligible, ended, rolling, departed, records, completed>>
      /\ UNCHANGED <<closing, up, earned, captured, joins>>
  BY DEF rosterVars, roundVars, tallies
<1>2. ResultTypeOK'
  BY <1>1 DEF ResultIInv, ResultTypeOK
<1>3. MatchesRemain' /\ DownIsFresh' /\ RosterAgrees'
  BY <1>1 DEF ResultIInv, MatchesRemain, DownIsFresh, RosterAgrees
<1>4. AccountsAgree'
  BY <1>1, AccountsKept DEF ResultIInv, rosterVars, roundVars
<1>5. EventsAreSound'
  <2>1. match' = match /\ match \in Int /\ match \in Match
    BY <1>1 DEF ResultIInv, ResultTypeOK, Match
  <2>2. earned' \in [Match -> [Acct -> 0 .. MaxScore]]
        /\ \A m \in Match, p \in Acct : earned[m][p] <= earned'[m][p]
    BY <1>1 DEF ResultIInv, ResultTypeOK
  <2>3. \A p \in Acct : records[p].total <= records'[p].total /\ records'[p].total \in Nat
    BY <1>1 DEF ResultIInv, ResultTypeOK
  <2>4. QED
    BY <1>1, <2>1, <2>2, <2>3, SoundEventsKept
<1>6. Reported'
  BY <1>1 DEF ResultIInv, Reported
<1>7. QED
  BY <1>2, <1>3, <1>4, <1>5, <1>6 DEF ResultIInv

\* put_many stores all events, or none.
LEMMA PutManyStores ==
  ASSUME ResultTypeOK, NEW events \in Seq(Event), PutMany(events)
  PROVE  /\ outbox' \in Seq(Event) /\ Len(outbox') <= MaxEvents
         /\ ToSet(outbox') = IF Fits(events) THEN ToSet(outbox) \cup ToSet(events)
                             ELSE ToSet(outbox)
<1>1. outbox \in Seq(Event) /\ Len(outbox) <= MaxEvents
  BY DEF ResultTypeOK
<1>2. Missing(events) \in Seq(Event) /\ ToSet(Missing(events)) = ToSet(events) \ ToSet(outbox)
  BY WithoutIsTheRest DEF Missing
<1>3. CASE Fits(events)
  <2>1. outbox' = outbox \o Missing(events)
    BY <1>3 DEF PutMany
  <2>2. outbox' \in Seq(Event) /\ Len(outbox') = Len(outbox) + Len(Missing(events))
        /\ ToSet(outbox') = ToSet(outbox) \cup ToSet(Missing(events))
    BY <1>1, <1>2, <2>1, ElementsOf
  <2>3. QED
    BY <1>2, <1>3, <2>2 DEF Fits
<1>4. CASE ~Fits(events)
  BY <1>1, <1>4 DEF PutMany
<1>5. QED
  BY <1>3, <1>4

-----------------------------------------------------------------------------
(* The result task.                                                        *)

\* A snapshot of what waits in memory.
LEMMA StartFlushInv == ASSUME ResultIInv, StartFlush PROVE ResultIInv'
<1>1. /\ up /\ batch' = pending /\ flush' \in {"loading", "writing"}
      /\ UNCHANGED <<rosterVars, roundVars, pending, closing, up, storeVars, tallies>>
  BY DEF StartFlush, Persisting
<1>2. UNCHANGED <<pending, outbox, accepted>>
  BY <1>1 DEF storeVars
<1>3. Owned' = Owned /\ Events' \subseteq Events
  BY <1>1, <1>2 DEF Owned, Events
<1>4. TaskAgrees'
  BY <1>1 DEF TaskAgrees
<1>5. QED
  BY <1>1, <1>2, <1>3, <1>4, MovesInv DEF ResultIInv, ResultTypeOK

\* What is on disk leaves the memory.
LEMMA PersistInv == ASSUME ResultIInv, Persist PROVE ResultIInv'
<1>1. /\ up /\ PutMany(batch) /\ batch' = << >>
      /\ pending' = IF Fits(batch) THEN Without(pending, ToSet(batch)) ELSE pending
      /\ flush' \in {"loading", "off"}
      /\ UNCHANGED <<rosterVars, roundVars, closing, up, accepted, tallies>>
  BY DEF Persist
<1>2. pending \in Seq(Event) /\ Len(pending) <= MaxPending /\ batch \in Seq(Event)
      /\ accepted \in SUBSET Event
  BY DEF ResultIInv, ResultTypeOK
<1>3. Without(pending, ToSet(batch)) \in Seq(Event)
      /\ Len(Without(pending, ToSet(batch))) <= Len(pending)
      /\ ToSet(Without(pending, ToSet(batch))) = ToSet(pending) \ ToSet(batch)
  BY <1>2, WithoutIsTheRest
<1>4. outbox' \in Seq(Event) /\ Len(outbox') <= MaxEvents
      /\ ToSet(outbox') = IF Fits(batch) THEN ToSet(outbox) \cup ToSet(batch) ELSE ToSet(outbox)
  BY <1>1, <1>2, PutManyStores DEF ResultIInv
<1>5. pending' \in Seq(Event) /\ Len(pending') <= MaxPending
  <2>1. MaxPending \in Int /\ Len(pending) \in Int
        /\ Len(Without(pending, ToSet(batch))) \in Int
    BY <1>2, <1>3, ResultAssumption
  <2>2. QED
    BY <1>1, <1>2, <1>3, <2>1
<1>6. Owned \subseteq Owned'
  BY <1>1, <1>3, <1>4 DEF Owned
<1>7. Events' \subseteq Events
  <2>1. ToSet(<< >>) = {}
    BY <1>2, ElementsOf
  <2>2. QED
    BY <1>1, <1>3, <1>4, <2>1 DEF Owned, Events
<1>8. TaskAgrees'
  BY <1>1 DEF TaskAgrees
<1>9. << >> \in Seq(Event)
  OBVIOUS
<1>10. QED
  BY <1>1, <1>2, <1>4, <1>5, <1>6, <1>7, <1>8, <1>9, MovesInv

\* The first rows are taken.
LEMMA LoadInv == ASSUME ResultIInv, Load PROVE ResultIInv'
<1> DEFINE first == IF Len(outbox) < BatchLimit THEN Len(outbox) ELSE BatchLimit
<1>1. /\ up /\ batch' = SubSeq(outbox, 1, first)
      /\ flush' = IF outbox = << >> THEN "off" ELSE "posting"
      /\ UNCHANGED <<rosterVars, roundVars, pending, closing, up, storeVars, tallies>>
  BY DEF Load
<1>2. UNCHANGED <<pending, outbox, accepted>>
  BY <1>1 DEF storeVars
<1>3. outbox \in Seq(Event) /\ Len(outbox) \in Nat
  BY DEF ResultIInv, ResultTypeOK
<1>4. first \in 0 .. Len(outbox) /\ (Len(outbox) # 0 => first # 0)
  BY <1>3, ResultAssumption
<1> HIDE DEF first
<1>5. batch' \in Seq(Event) /\ ToSet(batch') \subseteq ToSet(outbox) /\ Len(batch') = first
  BY <1>1, <1>3, <1>4, ElementsOf
<1>6. Owned' = Owned /\ Events' \subseteq Events
  BY <1>2, <1>5 DEF Owned, Events
<1>7. TaskAgrees'
  <2>1. flush' = "posting" => batch' # << >>
    BY <1>1, <1>3, <1>4, <1>5
  <2>2. QED
    BY <1>1, <2>1 DEF TaskAgrees
<1>8. QED
  BY <1>1, <1>2, <1>5, <1>6, <1>7, MovesInv DEF ResultIInv, ResultTypeOK

\* The event in hand reaches the master, whether that is heard of or not.
LEMMA CommitInv ==
  ASSUME ResultIInv, up, flush \in {"posting", "answered"},
         accepted' \in {accepted, accepted \cup {Head(batch)}},
         \/ batch' = batch /\ flush' = "answered" /\ Head(batch) \in accepted'
         \/ batch' = << >> /\ flush' = "off",
         UNCHANGED <<rosterVars, roundVars, pending, closing, up, outbox, tallies>>
  PROVE  ResultIInv'
<1>1. batch \in Seq(Event) /\ batch # << >> /\ accepted \in SUBSET Event
  BY DEF ResultIInv, ResultTypeOK, TaskAgrees
<1>2. Head(batch) \in ToSet(batch) /\ ToSet(batch) \subseteq Event /\ ToSet(<< >>) = {}
  BY <1>1, ElementsOf
<1>3. accepted' \in SUBSET Event /\ Owned \subseteq Owned'
  BY <1>1, <1>2 DEF Owned
<1>4. Events' \subseteq Events
  BY <1>2 DEF Owned, Events
<1>5. TaskAgrees'
  BY <1>1 DEF TaskAgrees
<1>6. batch' \in Seq(Event)
  <2>1. << >> \in Seq(Event)
    OBVIOUS
  <2>2. QED
    BY <1>1, <2>1
<1>7. QED
  BY <1>3, <1>4, <1>5, <1>6, MovesInv DEF ResultIInv, ResultTypeOK

LEMMA DeliverInv == ASSUME ResultIInv, Deliver PROVE ResultIInv'
BY CommitInv DEF Deliver

LEMMA PostFailsInv == ASSUME ResultIInv, PostFails PROVE ResultIInv'
BY CommitInv DEF PostFails

\* The row of an event that was committed is deleted.
LEMMA RowDeleted ==
  ASSUME ResultIInv, flush = "answered", outbox' = Without(outbox, {Head(batch)}),
         UNCHANGED <<pending, accepted>>
  PROVE  /\ outbox' \in Seq(Event) /\ Len(outbox') <= MaxEvents
         /\ ToSet(outbox') = ToSet(outbox) \ {Head(batch)}
         /\ Owned' = Owned
<1>1. outbox \in Seq(Event) /\ Len(outbox) <= MaxEvents /\ Head(batch) \in accepted
  BY DEF ResultIInv, ResultTypeOK, TaskAgrees
<1>2. outbox' \in Seq(Event) /\ Len(outbox') <= Len(outbox)
      /\ ToSet(outbox') = ToSet(outbox) \ {Head(batch)}
  BY <1>1, WithoutIsTheRest
<1>3. Len(outbox') <= MaxEvents
  <2>1. MaxEvents \in Int /\ Len(outbox) \in Int /\ Len(outbox') \in Int
    BY <1>1, <1>2, ResultAssumption
  <2>2. QED
    BY <1>1, <1>2, <2>1
<1>4. QED
  BY <1>1, <1>2, <1>3 DEF Owned

LEMMA AcknowledgeInv == ASSUME ResultIInv, Acknowledge PROVE ResultIInv'
<1>1. /\ up /\ flush = "answered" /\ outbox' = Without(outbox, {Head(batch)})
      /\ UNCHANGED <<rosterVars, roundVars, pending, closing, up, accepted, tallies>>
      /\ \/ flush' = "posting" /\ batch' = Tail(batch) /\ Len(batch) > 1
         \/ flush' \in {"loading", "writing"} /\ batch' = pending
  BY DEF Acknowledge, Persisting
<1>2. outbox' \in Seq(Event) /\ Len(outbox') <= MaxEvents
      /\ ToSet(outbox') = ToSet(outbox) \ {Head(batch)} /\ Owned' = Owned
  BY <1>1, RowDeleted
<1>3. batch \in Seq(Event) /\ batch # << >> /\ pending \in Seq(Event)
  BY <1>1 DEF ResultIInv, ResultTypeOK, TaskAgrees
<1>4. Tail(batch) \in Seq(Event) /\ Len(Tail(batch)) = Len(batch) - 1
      /\ ToSet(Tail(batch)) \subseteq ToSet(batch)
  BY <1>3, ElementsOf
<1>5. batch' \in Seq(Event) /\ Events' \subseteq Events
  BY <1>1, <1>2, <1>3, <1>4 DEF Events, Owned
<1>6. TaskAgrees'
  <2>1. ASSUME Len(batch) > 1 PROVE Tail(batch) # << >>
    <3>1. Len(batch) \in Nat
      BY <1>3
    <3>2. Len(Tail(batch)) # 0
      BY <1>4, <2>1, <3>1, SMTT(30)
    <3>3. Len(<< >>) = 0
      OBVIOUS
    <3>4. QED
      BY <3>2, <3>3
  <2>2. QED
    BY <1>1, <2>1 DEF TaskAgrees
<1>7. QED
  BY <1>1, <1>2, <1>5, <1>6, MovesInv DEF ResultIInv, ResultTypeOK

\* A cancelled task ends what a thread has begun.
LEMMA CancelInv == ASSUME ResultIInv, Cancel PROVE ResultIInv'
<1>1. /\ up /\ flush' = "off" /\ batch' = << >>
      /\ UNCHANGED <<rosterVars, roundVars, pending, closing, up, tallies>>
  BY DEF Cancel
<1>2. /\ pending \in Seq(Event) /\ Len(pending) <= MaxPending /\ batch \in Seq(Event)
      /\ outbox \in Seq(Event) /\ Len(outbox) <= MaxEvents /\ accepted \in SUBSET Event
      /\ << >> \in Seq(Event) /\ ToSet(<< >>) = {}
  BY ElementsOf DEF ResultIInv, ResultTypeOK
<1>3. TaskAgrees'
  BY <1>1 DEF TaskAgrees
<1>4. CASE flush = "writing" /\ PutMany(batch) /\ UNCHANGED accepted
  <2>1. outbox' \in Seq(Event) /\ Len(outbox') <= MaxEvents
        /\ ToSet(outbox) \subseteq ToSet(outbox')
        /\ ToSet(outbox') \subseteq ToSet(outbox) \cup ToSet(batch)
    BY <1>2, <1>4, PutManyStores DEF ResultIInv
  <2>2. Owned \subseteq Owned' /\ Events' \subseteq Events
    BY <1>1, <1>2, <1>4, <2>1 DEF Owned, Events
  <2>3. QED
    BY <1>1, <1>2, <1>3, <1>4, <2>1, <2>2, MovesInv
<1>5. CASE flush = "loading" /\ UNCHANGED storeVars
  <2>1. UNCHANGED <<outbox, accepted>>
    BY <1>5 DEF storeVars
  <2>2. Owned' = Owned /\ Events' \subseteq Events
    BY <1>1, <1>2, <2>1 DEF Owned, Events
  <2>3. QED
    BY <1>1, <1>2, <1>3, <2>1, <2>2, MovesInv
<1>6. CASE flush = "posting" /\ UNCHANGED outbox
           /\ accepted' \in {accepted, accepted \cup {Head(batch)}}
  BY <1>1, <1>6, CommitInv
<1>7. CASE flush = "answered" /\ UNCHANGED accepted /\ outbox' = Without(outbox, {Head(batch)})
  <2>1. outbox' \in Seq(Event) /\ Len(outbox') <= MaxEvents
        /\ ToSet(outbox') = ToSet(outbox) \ {Head(batch)} /\ Owned' = Owned
    BY <1>1, <1>7, RowDeleted
  <2>2. Events' \subseteq Events
    BY <1>1, <1>2, <1>7, <2>1 DEF Owned, Events
  <2>3. QED
    BY <1>1, <1>2, <1>3, <1>7, <2>1, <2>2, MovesInv
<1>8. QED
  BY <1>4, <1>5, <1>6, <1>7 DEF Cancel

-----------------------------------------------------------------------------
(* The round.                                                              *)

\* The events, and the process and its task, are left alone.
LEMMA EventsKept ==
  ASSUME UNCHANGED <<pending, flushVars, storeVars>>
  PROVE  /\ UNCHANGED <<pending, flush, batch, outbox, accepted>>
         /\ Events' = Events /\ Owned' = Owned /\ (TaskAgrees => TaskAgrees')
BY DEF flushVars, storeVars, Events, Owned, TaskAgrees

\* A new Player has earned nothing yet.
LEMMA DueOfJoined ==
  ASSUME ResultTypeOK, NEW a \in Addr, who[a] = Free, NEW q \in Acct, NEW p \in Acct,
         who' = [who EXCEPT ![a] = q], counter' = [counter EXCEPT ![a] = 0],
         baseline' = baseline
  PROVE  Due(who, p)' = Due(who, p)
<1>1. 0 \in 0 .. MaxScore
  BY ResultAssumption
<1>2. counter' \in [Addr -> 0 .. MaxScore] /\ baseline' \in [Addr -> 0 .. MaxScore]
      /\ baseline[a] \in 0 .. MaxScore
  BY <1>1 DEF ResultTypeOK
<1>3. Deltas'[a] = 0
  <2>1. counter'[a] = 0 /\ baseline'[a] = baseline[a] /\ baseline[a] \in Int /\ baseline[a] >= 0
    BY <1>2 DEF ResultTypeOK
  <2>2. QED
    BY <1>2, <2>1, DeltasAre
<1>4. \A b \in Those(who, p) : b # a /\ Deltas'[b] = Deltas[b]
  <2>1. \A b \in Addr : b # a => counter'[b] = counter[b]
    BY DEF ResultTypeOK
  <2>2. \A b \in Those(who, p) : b \in Addr /\ b # a
    BY ResultAssumption DEF Those
  <2>3. QED
    BY <2>1, <2>2 DEF Deltas, Delta
<1>5. PointsOf(Deltas', Those(who, p)) = PointsOf(Deltas, Those(who, p))
  BY <1>4, PointsSame
<1>6. CASE p = q
  <2>1. a \in Those(who', p) /\ Those(who', p) \ {a} = Those(who, p)
    BY <1>6, ResultAssumption DEF Those, ResultTypeOK
  <2>2. PointsOf(Deltas', Those(who', p)) = PointsOf(Deltas', Those(who', p) \ {a}) + Deltas'[a]
    BY <1>1, <1>3, <2>1, PointsSplit, ThoseFinite
  <2>3. PointsOf(Deltas', Those(who', p)) = Due(who, p) + 0
    BY <1>3, <1>5, <2>1, <2>2, DueNow
  <2>4. Due(who, p) \in Nat /\ Due(who, p)' = PointsOf(Deltas', Those(who', p))
    BY DueNext, DueType
  <2>5. QED
    BY <2>3, <2>4
<1>7. CASE p # q
  <2>1. Those(who', p) = Those(who, p)
    BY <1>7, ResultAssumption DEF Those, ResultTypeOK
  <2>2. QED
    BY <1>5, <2>1, DueNow, DueNext
<1>8. QED
  BY <1>6, <1>7

LEMMA JoinRoundInv ==
  ASSUME ResultIInv, NEW a \in Addr, NEW q \in Acct, JoinRound(a, q)
  PROVE  ResultIInv'
<1>1. /\ up /\ who[a] = Free /\ joins < MaxJoins /\ joins' = joins + 1
      /\ who' = [who EXCEPT ![a] = q] /\ counter' = [counter EXCEPT ![a] = 0]
      /\ UNCHANGED <<baseline, roundVars, pending, flushVars, closing, up, storeVars,
                     earned, captured>>
  BY DEF JoinRound
<1>2. /\ UNCHANGED <<match, eligible, ended, rolling, departed, records, completed>>
      /\ UNCHANGED <<pending, flush, batch, outbox, accepted>>
      /\ Events' = Events /\ Owned' = Owned /\ TaskAgrees'
  BY <1>1, EventsKept DEF roundVars, ResultIInv
<1>3. 0 \in 0 .. MaxScore /\ joins + 1 \in 0 .. MaxJoins
  BY <1>1, ResultAssumption DEF ResultIInv, ResultTypeOK
<1>4. ResultTypeOK'
  BY <1>1, <1>2, <1>3 DEF ResultIInv, ResultTypeOK
<1>5. MatchesRemain' /\ DownIsFresh' /\ Reported'
  BY <1>1, <1>2 DEF ResultIInv, MatchesRemain, DownIsFresh, Reported
<1>6. RosterAgrees'
  <2>1. q # Free /\ who'[a] = q /\ counter'[a] = 0 /\ counter[a] = 0
    BY <1>1, ResultAssumption DEF ResultIInv, ResultTypeOK, RosterAgrees
  <2>2. \A b \in Addr : b # a => who'[b] = who[b] /\ counter'[b] = counter[b]
    BY <1>1 DEF ResultIInv, ResultTypeOK
  <2>3. QED
    BY <1>1, <1>2, <2>1, <2>2 DEF ResultIInv, RosterAgrees
<1>7. AccountsAgree'
  <2>1. \A p \in Acct : Known(p)' = Known(p)
    BY <1>1, <1>2, DueOfJoined DEF Known, ResultIInv
  <2>2. QED
    BY <1>1, <1>2, <2>1 DEF ResultIInv, AccountsAgree
<1>8. EventsAreSound'
  BY <1>1, <1>2 DEF ResultIInv, EventsAreSound, SoundEvent, OneKind
<1>9. QED
  BY <1>2, <1>4, <1>5, <1>6, <1>7, <1>8 DEF ResultIInv

\* A point is due to whom it is made by, unless a baseline hides it.
LEMMA DueOfScorer ==
  ASSUME ResultTypeOK, NEW a \in Addr, who[a] # Free, counter[a] < MaxScore, NEW p \in Acct,
         counter' = [counter EXCEPT ![a] = @ + 1], UNCHANGED <<who, baseline>>
  PROVE  /\ p # who[a] => Due(who, p)' = Due(who, p)
         /\ p = who[a] => /\ Due(who, p)' <= Due(who, p) + 1
                          /\ baseline[a] <= counter[a] => Due(who, p)' = Due(who, p) + 1
<1>1. counter' \in [Addr -> 0 .. MaxScore] /\ counter'[a] = counter[a] + 1
      /\ baseline' \in [Addr -> 0 .. MaxScore]
  BY ResultAssumption, SMTT(30) DEF ResultTypeOK
<1>2. counter[a] \in Int /\ baseline[a] \in Int
  BY DEF ResultTypeOK
<1>3. /\ Deltas[a] = Delta(a) /\ Deltas[a] \in 0 .. MaxScore /\ Deltas'[a] \in 0 .. MaxScore
      /\ Deltas'[a] = IF counter'[a] > baseline[a] THEN counter'[a] - baseline[a] ELSE 0
  BY <1>1, DeltasAre
<1>4. \A b \in Addr : b # a => Deltas'[b] = Deltas[b]
  BY DEF Deltas, Delta, ResultTypeOK
<1>5. PointsOf(Deltas', Those(who, p) \ {a}) = PointsOf(Deltas, Those(who, p) \ {a})
  <2>1. \A b \in Those(who, p) \ {a} : Deltas'[b] = Deltas[b]
    BY <1>4 DEF Those
  <2>2. QED
    BY <2>1, PointsSame
<1>6. Due(who, p)' = PointsOf(Deltas', Those(who, p))
      /\ Due(who, p) = PointsOf(Deltas, Those(who, p))
  BY DueNow, DueNext
<1>7. CASE p = who[a]
  <2>1. a \in Those(who, p)
    BY <1>7 DEF Those
  <2>2. /\ PointsOf(Deltas, Those(who, p)) = PointsOf(Deltas, Those(who, p) \ {a}) + Deltas[a]
        /\ PointsOf(Deltas', Those(who, p)) = PointsOf(Deltas', Those(who, p) \ {a}) + Deltas'[a]
    BY <1>3, <2>1, PointsSplit, ThoseFinite
  <2>3. IsFiniteSet(Those(who, p) \ {a})
    BY ThoseFinite, FS_RemoveElement
  <2>4. PointsOf(Deltas, Those(who, p) \ {a}) \in Nat
    BY <2>3, PointsType
  <2>5. Deltas'[a] <= Deltas[a] + 1 /\ (baseline[a] <= counter[a] => Deltas'[a] = Deltas[a] + 1)
        /\ Deltas[a] \in Int /\ Deltas'[a] \in Int
    BY <1>1, <1>2, <1>3 DEF Delta
  <2> DEFINE rest == PointsOf(Deltas, Those(who, p) \ {a})
             d == Deltas[a]
             e == Deltas'[a]
  <2>6. /\ Due(who, p) = rest + d /\ Due(who, p)' = rest + e
        /\ rest \in Int /\ d \in Int /\ e \in Int
        /\ e <= d + 1 /\ (baseline[a] <= counter[a] => e = d + 1)
    BY <1>5, <1>6, <2>2, <2>4, <2>5
  <2> HIDE DEF rest, d, e
  <2>7. QED
    BY <1>7, <2>6
<1>8. CASE p # who[a]
  <2>1. Those(who, p) \ {a} = Those(who, p)
    BY <1>8 DEF Those
  <2>2. QED
    BY <1>5, <1>6, <1>8, <2>1
<1>9. QED
  BY <1>7, <1>8

LEMMA ScoreInv == ASSUME ResultIInv, NEW a \in Addr, Score(a) PROVE ResultIInv'
<1>1. /\ up /\ who[a] # Free /\ counter[a] < MaxScore
      /\ PointsOf(earned[match], Acct) < MaxScore
      /\ counter' = [counter EXCEPT ![a] = @ + 1]
      /\ earned' = IF completed THEN earned ELSE [earned EXCEPT ![match][who[a]] = @ + 1]
      /\ UNCHANGED <<who, baseline, roundVars, pending, flushVars, closing, up,
                     storeVars, captured, joins>>
  BY DEF Score
<1>2. /\ UNCHANGED <<match, eligible, ended, rolling, departed, records, completed>>
      /\ UNCHANGED <<pending, flush, batch, outbox, accepted>>
      /\ Events' = Events /\ Owned' = Owned /\ TaskAgrees'
  BY <1>1, EventsKept DEF roundVars, ResultIInv
<1>3. who[a] \in Acct /\ match \in Match /\ counter[a] \in 0 .. MaxScore
      /\ \A m \in Match, p \in Acct : earned[m][p] \in 0 .. MaxScore
  BY <1>1 DEF ResultIInv, ResultTypeOK
<1>4. earned[match][who[a]] < MaxScore
  <2>1. earned[match][who[a]] <= PointsOf(earned[match], Acct)
    BY <1>3, PointsOfOne, ResultAssumption
  <2>2. earned[match][who[a]] \in Int /\ MaxScore \in Int
        /\ PointsOf(earned[match], Acct) \in Int
    BY <1>3, PointsType, ResultAssumption
  <2>3. QED
    BY <1>1, <2>1, <2>2
<1>5. \A m \in Match, p \in Acct :
        /\ earned'[m][p] = IF ~completed /\ m = match /\ p = who[a] THEN earned[m][p] + 1
                           ELSE earned[m][p]
        /\ earned'[m][p] \in 0 .. MaxScore
  <2>1. \A m \in Match, p \in Acct :
          earned'[m][p] = IF ~completed /\ m = match /\ p = who[a] THEN earned[m][p] + 1
                          ELSE earned[m][p]
    BY <1>1, <1>3 DEF ResultIInv, ResultTypeOK
  <2>2. \A m \in Match, p \in Acct :
          m = match /\ p = who[a] => earned[m][p] + 1 \in 0 .. MaxScore
    BY <1>3, <1>4, ResultAssumption
  <2>3. QED
    BY <1>3, <2>1, <2>2
<1>6. earned' \in [Match -> [Acct -> 0 .. MaxScore]]
  <2>1. earned' \in [Match -> [Acct -> Nat]]
    <3>1. earned \in [Match -> [Acct -> Nat]]
      BY ResultAssumption DEF ResultIInv, ResultTypeOK
    <3>2. QED
      BY <1>1, <1>3, <3>1
  <2>2. QED
    BY <1>5, <2>1
<1>7. counter' \in [Addr -> 0 .. MaxScore]
  BY <1>1, <1>3, ResultAssumption DEF ResultIInv, ResultTypeOK
<1>8. ResultTypeOK'
  BY <1>1, <1>2, <1>6, <1>7 DEF ResultIInv, ResultTypeOK
<1>9. MatchesRemain' /\ DownIsFresh' /\ Reported'
  BY <1>1, <1>2 DEF ResultIInv, MatchesRemain, DownIsFresh, Reported
<1>10. RosterAgrees'
  <2>1. counter'[a] = counter[a] + 1 /\ counter[a] \in Int /\ baseline[a] \in Int
        /\ \A b \in Addr : b # a => counter'[b] = counter[b]
    BY <1>1 DEF ResultIInv, ResultTypeOK
  <2>2. QED
    BY <1>1, <1>2, <2>1 DEF ResultIInv, RosterAgrees
<1>11. AccountsAgree'
  <2>1. \A m \in Match : m > match' => earned'[m] = Nothing
    <3>1. \A m \in Match : m > match => m # match
      BY <1>3 DEF Match
    <3>2. \A m \in Match : m # match => earned'[m] = earned[m]
      BY <1>1 DEF ResultIInv, ResultTypeOK
    <3>3. QED
      BY <1>2, <3>1, <3>2 DEF ResultIInv, AccountsAgree
  <2>2. completed' => \A p \in Acct : records'[p].total = earned'[match'][p]
    BY <1>1, <1>2 DEF ResultIInv, AccountsAgree
  <2>3. ASSUME ~completed, NEW p \in Acct
        PROVE  /\ Known(p)' <= earned'[match][p]
               /\ ~rolling => Known(p)' = earned'[match][p]
    <3>1. /\ p # who[a] => Due(who, p)' = Due(who, p)
          /\ p = who[a] => /\ Due(who, p)' <= Due(who, p) + 1
                           /\ baseline[a] <= counter[a] => Due(who, p)' = Due(who, p) + 1
      BY <1>1, DueOfScorer DEF ResultIInv
    <3>2. Due(who, p)' \in Int /\ Due(who, p) \in Int
      BY DueType, NextDueType
    <3>3. records[p].total \in Int /\ departed[p] \in Int /\ earned[match][p] \in Int
      BY <1>3 DEF ResultIInv, ResultTypeOK
    <3>4. Known(p)' = records[p].total + departed[p] + Due(who, p)'
          /\ Known(p) = records[p].total + departed[p] + Due(who, p)
      BY <1>2 DEF Known
    <3>5. Known(p) <= earned[match][p] /\ (~rolling => Known(p) = earned[match][p])
      BY <1>1, <2>3 DEF ResultIInv, AccountsAgree
    <3>6. ~rolling => baseline[a] <= counter[a]
      BY DEF ResultIInv, RosterAgrees
    <3>7. earned'[match][p] = IF p = who[a] THEN earned[match][p] + 1 ELSE earned[match][p]
      BY <1>3, <1>5, <2>3
    <3>8. CASE p = who[a]
      BY <3>1, <3>2, <3>3, <3>4, <3>5, <3>6, <3>7, <3>8
    <3>9. CASE p # who[a]
      BY <3>1, <3>4, <3>5, <3>7, <3>9
    <3>10. QED
      BY <3>8, <3>9
  <2>4. QED
    BY <1>2, <2>1, <2>2, <2>3 DEF AccountsAgree
<1>12. EventsAreSound'
  <2>1. match' = match /\ match \in Match /\ match <= match
    BY <1>2, <1>3 DEF Match
  <2>2. \A m \in Match, p \in Acct : earned[m][p] <= earned'[m][p]
    BY <1>3, <1>5, ResultAssumption
  <2>3. \A p \in Acct : records[p].total <= records'[p].total /\ records'[p].total \in Nat
    BY <1>2 DEF ResultIInv, ResultTypeOK
  <2>4. QED
    BY <1>1, <1>2, <1>6, <2>1, <2>2, <2>3, SoundEventsKept
<1>13. QED
  BY <1>2, <1>8, <1>9, <1>10, <1>11, <1>12 DEF ResultIInv

\* Match evidence becomes available.
LEMMA BecomeEligibleInv == ASSUME ResultIInv, BecomeEligible PROVE ResultIInv'
<1>1. /\ up /\ eligible' = TRUE
      /\ UNCHANGED <<rosterVars, match, ended, rolling, departed, records, completed,
                     pending, flushVars, closing, up, storeVars, tallies>>
  BY DEF BecomeEligible
<1>2. /\ UNCHANGED <<who, counter, baseline>>
      /\ UNCHANGED <<earned, captured, joins>>
      /\ UNCHANGED <<pending, flush, batch, outbox, accepted>>
      /\ Events' = Events /\ Owned' = Owned /\ TaskAgrees'
  BY <1>1, EventsKept DEF rosterVars, tallies, ResultIInv
<1>3. ResultTypeOK'
  BY <1>1, <1>2 DEF ResultIInv, ResultTypeOK
<1>4. MatchesRemain' /\ DownIsFresh' /\ RosterAgrees' /\ Reported'
  BY <1>1, <1>2 DEF ResultIInv, MatchesRemain, DownIsFresh, RosterAgrees, Reported
<1>5. AccountsAgree'
  <2>1. \A p : Due(who, p)' = Due(who, p)
    BY <1>2 DEF Due, Delta, PointsOf
  <2>2. QED
    BY <1>1, <1>2, <2>1 DEF ResultIInv, AccountsAgree, Known
<1>6. EventsAreSound'
  BY <1>1, <1>2 DEF ResultIInv, EventsAreSound, SoundEvent, OneKind
<1>7. QED
  BY <1>2, <1>3, <1>4, <1>5, <1>6 DEF ResultIInv

\* Retired Players take what is due to them with them.
LEMMA RetirePlayersInv == ASSUME ResultIInv, RetirePlayers PROVE ResultIInv'
<1>1. /\ up /\ who' = [a \in Addr |-> Free] /\ counter' = [a \in Addr |-> 0] /\ rolling' = TRUE
      /\ UNCHANGED <<baseline, match, eligible, ended, departed, records, completed,
                     pending, flushVars, closing, up, storeVars, tallies>>
  BY DEF RetirePlayers
<1>2. /\ UNCHANGED <<earned, captured, joins>>
      /\ UNCHANGED <<pending, flush, batch, outbox, accepted>>
      /\ Events' = Events /\ Owned' = Owned /\ TaskAgrees'
  BY <1>1, EventsKept DEF tallies, ResultIInv
<1>3. 0 \in 0 .. MaxScore
  BY ResultAssumption
<1>4. ResultTypeOK'
  BY <1>1, <1>2, <1>3 DEF ResultIInv, ResultTypeOK
<1>5. MatchesRemain' /\ DownIsFresh' /\ Reported'
  BY <1>1, <1>2 DEF ResultIInv, MatchesRemain, DownIsFresh, Reported
<1>6. RosterAgrees'
  BY <1>1 DEF RosterAgrees
<1>7. AccountsAgree'
  <2>1. ASSUME ~completed, NEW p \in Acct PROVE Known(p)' <= earned[match][p]
    <3>1. \A a \in Addr : who'[a] # p
      BY <1>1, ResultAssumption
    <3>2. Due(who, p)' = 0
      <4>1. Those(who', p) = {}
        BY <3>1 DEF Those
      <4>2. QED
        BY <4>1, DueNext, PointsZero
    <3>3. Known(p)' = records[p].total + departed[p] + 0
      BY <1>1, <3>2 DEF Known
    <3>4. Known(p) = records[p].total + departed[p] + Due(who, p)
          /\ Known(p) <= earned[match][p]
      BY <1>1, <2>1 DEF Known, ResultIInv, AccountsAgree
    <3>5. records[p].total \in Nat /\ departed[p] \in Nat /\ earned[match][p] \in Int
          /\ Due(who, p) \in Nat
      BY DueType DEF ResultIInv, ResultTypeOK
    <3>6. QED
      BY <3>3, <3>4, <3>5
  <2>2. QED
    BY <1>1, <1>2, <2>1 DEF ResultIInv, AccountsAgree
<1>8. EventsAreSound'
  BY <1>1, <1>2 DEF ResultIInv, EventsAreSound, SoundEvent, OneKind
<1>9. QED
  BY <1>2, <1>4, <1>5, <1>6, <1>7, <1>8 DEF ResultIInv

\* Books of a match in which nothing has been earned.
LEMMA NewMatch ==
  ASSUME ResultIInv, match + 1 <= MaxMatches, match' = match + 1, up',
         counter' = [a \in Addr |-> 0], baseline' = [a \in Addr |-> 0],
         departed' = Nothing, records' = [p \in Acct |-> NoRecord],
         completed' = FALSE, rolling' = FALSE, earned' = earned,
         Events' \subseteq Events
  PROVE  /\ match' \in Match
         /\ AccountsAgree' /\ EventsAreSound' /\ Reported' /\ RosterAgrees'
<1>1. match \in Match /\ match \in Int /\ match' \in Match /\ match < match'
  BY ResultAssumption DEF ResultIInv, ResultTypeOK, Match
<1>2. RosterAgrees'
  BY DEF RosterAgrees
<1>3. Reported'
  BY DEF Reported, NoRecord
<1>4. AccountsAgree'
  <2>1. \A m \in Match : m >= match' => earned'[m] = Nothing
    <3>1. \A m \in Match : m >= match' => m > match
      BY <1>1 DEF Match
    <3>2. QED
      BY <3>1 DEF ResultIInv, AccountsAgree
  <2>2. \A m \in Match : m > match' => m >= match'
    BY <1>1 DEF Match
  <2>3. match' >= match'
    BY <1>1 DEF Match
  <2>4. ASSUME NEW p \in Acct PROVE Known(p)' = 0 /\ earned'[match'][p] = 0
    <3>1. \A a \in Addr : counter'[a] = 0 /\ baseline'[a] = 0
      OBVIOUS
    <3>2. counter' \in [Addr -> 0 .. MaxScore] /\ baseline' \in [Addr -> 0 .. MaxScore]
      BY ResultAssumption
    <3>3. Due(who, p)' = 0
      BY <3>1, <3>2, DueSettled DEF ResultIInv
    <3>4. records'[p].total = 0 /\ departed'[p] = 0
      BY DEF NoRecord, Nothing
    <3>5. earned'[match'] = Nothing
      BY <1>1, <2>1, <2>3
    <3>6. QED
      BY <3>3, <3>4, <3>5 DEF Known, Nothing
  <2>5. QED
    BY <2>1, <2>2, <2>4 DEF AccountsAgree
<1>5. EventsAreSound'
  <2>1. earned' \in [Match -> [Acct -> 0 .. MaxScore]]
        /\ \A m \in Match, p \in Acct : earned[m][p] <= earned'[m][p]
    BY DEF ResultIInv, ResultTypeOK
  <2>2. match <= match' /\ match' # match
    BY <1>1 DEF Match
  <2>3. QED
    BY <1>1, <2>1, <2>2, SoundEventsKept
<1>6. QED
  BY <1>1, <1>2, <1>3, <1>4, <1>5

LEMMA BeginRoundInv == ASSUME ResultIInv, BeginRound PROVE ResultIInv'
<1>1. /\ up /\ Room /\ match' = match + 1
      /\ eligible' = FALSE /\ ended' = FALSE /\ rolling' = FALSE /\ completed' = FALSE
      /\ departed' = Nothing /\ records' = [p \in Acct |-> NoRecord]
      /\ counter' = [a \in Addr |-> 0] /\ baseline' = [a \in Addr |-> 0]
      /\ UNCHANGED <<who, pending, flushVars, closing, up, storeVars, tallies>>
  BY DEF BeginRound
<1>2. /\ UNCHANGED <<earned, captured, joins>>
      /\ UNCHANGED <<pending, flush, batch, outbox, accepted>>
      /\ Events' = Events /\ Owned' = Owned /\ TaskAgrees'
  BY <1>1, EventsKept DEF tallies, ResultIInv
<1>3. match \in Int /\ MaxMatches \in Int /\ closing \in BOOLEAN
  BY ResultAssumption DEF ResultIInv, ResultTypeOK, Match
<1>4. match + 1 <= MaxMatches /\ (closing => match + 1 < MaxMatches)
  BY <1>1, <1>3 DEF Room
<1>5. match' \in Match /\ AccountsAgree' /\ EventsAreSound' /\ Reported' /\ RosterAgrees'
  BY <1>1, <1>2, <1>4, NewMatch
<1>6. ResultTypeOK'
  <2>1. 0 \in 0 .. MaxScore /\ 0 \in Nat
    BY ResultAssumption
  <2>2. Nothing \in [Acct -> Nat]
        /\ [p \in Acct |-> NoRecord] \in [Acct -> [total : Nat, connected : BOOLEAN]]
    BY <2>1 DEF Nothing, NoRecord
  <2>3. QED
    BY <1>1, <1>2, <1>5, <2>1, <2>2 DEF ResultIInv, ResultTypeOK
<1>7. MatchesRemain' /\ DownIsFresh'
  BY <1>1, <1>4 DEF MatchesRemain, DownIsFresh
<1>8. QED
  BY <1>2, <1>5, <1>6, <1>7 DEF ResultIInv

-----------------------------------------------------------------------------
(* Shutdown and crash.                                                     *)

\* The memory is gone; rows stay, or more of them are stored.
LEMMA DownInv ==
  ASSUME ResultIInv, up, up' = FALSE, match < MaxMatches, FreshMemory,
         UNCHANGED <<match, accepted, tallies>>,
         outbox' \in Seq(Event), Len(outbox') <= MaxEvents,
         ToSet(outbox') \subseteq ToSet(outbox) \cup ToSet(pending)
  PROVE  ResultIInv'
<1>1. /\ UNCHANGED <<earned, captured, joins>>
      /\ who' = [a \in Addr |-> Free] /\ counter' = [a \in Addr |-> 0]
      /\ baseline' = [a \in Addr |-> 0]
      /\ eligible' = FALSE /\ ended' = FALSE /\ rolling' = FALSE
      /\ departed' = Nothing /\ records' = [p \in Acct |-> NoRecord]
      /\ completed' = FALSE /\ pending' = << >>
      /\ flush' = "off" /\ batch' = << >> /\ closing' = FALSE
  BY DEF FreshMemory, tallies
<1>2. << >> \in Seq(Event) /\ Len(<< >>) = 0 /\ ToSet(<< >>) = {}
  BY ElementsOf DEF ResultIInv, ResultTypeOK
<1>3. ResultTypeOK'
  <2>1. 0 \in 0 .. MaxScore /\ 0 \in Nat /\ 0 <= MaxPending
    BY ResultAssumption
  <2>2. Nothing \in [Acct -> Nat]
        /\ [p \in Acct |-> NoRecord] \in [Acct -> [total : Nat, connected : BOOLEAN]]
    BY <2>1 DEF Nothing, NoRecord
  <2>3. QED
    BY <1>1, <1>2, <2>1, <2>2 DEF ResultIInv, ResultTypeOK
<1>4. MatchesRemain' /\ DownIsFresh' /\ RosterAgrees' /\ Reported' /\ TaskAgrees'
  BY <1>1 DEF MatchesRemain, DownIsFresh, RosterAgrees, Reported, TaskAgrees
<1>5. AccountsAgree'
  BY <1>1 DEF ResultIInv, AccountsAgree
<1>6. Events' \subseteq Events
  BY <1>1, <1>2 DEF Events, Owned
<1>7. EventsAreSound'
  <2>1. match \in Match /\ match <= match
    BY DEF ResultIInv, ResultTypeOK, Match
  <2>2. \A m \in Match, p \in Acct : earned[m][p] <= earned[m][p]
    BY DEF ResultIInv, ResultTypeOK
  <2>3. earned' \in [Match -> [Acct -> 0 .. MaxScore]]
    BY <1>1 DEF ResultIInv, ResultTypeOK
  <2>4. QED
    BY <1>1, <1>6, <2>1, <2>2, <2>3, SoundEventsKept
<1>8. QED
  BY <1>3, <1>4, <1>5, <1>7 DEF ResultIInv

LEMMA ExitInv == ASSUME ResultIInv, Exit PROVE ResultIInv'
<1>1. /\ up /\ closing /\ PutMany(pending) /\ up' = FALSE /\ FreshMemory
      /\ UNCHANGED <<match, accepted, tallies>>
  BY DEF Exit
<1>2. pending \in Seq(Event) /\ match < MaxMatches
  BY <1>1 DEF ResultIInv, ResultTypeOK, MatchesRemain
<1>3. outbox' \in Seq(Event) /\ Len(outbox') <= MaxEvents
      /\ ToSet(outbox') \subseteq ToSet(outbox) \cup ToSet(pending)
  BY <1>1, <1>2, PutManyStores DEF ResultIInv
<1>4. QED
  BY <1>1, <1>2, <1>3, DownInv

LEMMA CrashInv == ASSUME ResultIInv, Crash PROVE ResultIInv'
BY DownInv DEF Crash, storeVars, ResultIInv, ResultTypeOK

\* The next process starts with another match.
LEMMA StartServerInv == ASSUME ResultIInv, StartServer PROVE ResultIInv'
<1>1. /\ ~up /\ up' = TRUE /\ match' = match + 1
      /\ UNCHANGED <<rosterVars, eligible, ended, rolling, departed, records, completed,
                     pending, flushVars, closing, storeVars, tallies>>
  BY DEF StartServer
<1>2. /\ UNCHANGED <<who, counter, baseline>>
      /\ UNCHANGED <<earned, captured, joins>>
      /\ UNCHANGED <<pending, flush, batch, outbox, accepted>>
      /\ Events' = Events /\ Owned' = Owned /\ TaskAgrees'
  BY <1>1, EventsKept DEF rosterVars, tallies, ResultIInv
<1>3. /\ counter = [a \in Addr |-> 0] /\ baseline = [a \in Addr |-> 0]
      /\ ~rolling /\ departed = Nothing /\ records = [p \in Acct |-> NoRecord]
      /\ ~completed /\ ~closing
  BY <1>1 DEF ResultIInv, DownIsFresh
<1>4. match + 1 <= MaxMatches
  <2>1. match < MaxMatches /\ match \in Int /\ MaxMatches \in Int
    BY <1>1, ResultAssumption DEF ResultIInv, ResultTypeOK, MatchesRemain, Match
  <2>2. QED
    BY <2>1
<1>5. completed' = FALSE /\ rolling' = FALSE
  BY <1>1, <1>3 DEF ResultIInv, ResultTypeOK
<1>6. match' \in Match /\ AccountsAgree' /\ EventsAreSound' /\ Reported' /\ RosterAgrees'
  BY <1>1, <1>2, <1>3, <1>4, <1>5, NewMatch
<1>7. ResultTypeOK'
  BY <1>1, <1>2, <1>6 DEF ResultIInv, ResultTypeOK
<1>8. MatchesRemain' /\ DownIsFresh'
  BY <1>1, <1>3 DEF MatchesRemain, DownIsFresh
<1>9. QED
  BY <1>2, <1>6, <1>7, <1>8 DEF ResultIInv

-----------------------------------------------------------------------------
(* Captures.                                                               *)

\* What a capture finds: the roster, and the credit of the departed, after a
\* departure; the counters of those that are still there are not touched.
Finds(finished, roster, left, base) ==
  /\ finished \in BOOLEAN /\ (finished => ~rolling)
  /\ roster \in [Addr -> Acct \cup {Free}] /\ who' = roster
  /\ left \in [Acct -> Nat]
  /\ base \in [Addr -> 0 .. MaxScore]
  /\ counter' \in [Addr -> 0 .. MaxScore]
  /\ \A a \in Addr :
       /\ roster[a] = Free => counter'[a] = 0
       /\ roster[a] # Free => counter'[a] = counter[a] /\ base[a] = baseline[a]
       /\ ~rolling => base[a] <= counter'[a]
  /\ \A p \in Acct : records[p].total + left[p] + Due(roster, p) = Known(p)

\* What it leaves alone, besides counters and roster.
AroundCapture ==
  /\ up /\ ended' \in BOOLEAN /\ closing' \in BOOLEAN /\ (closing' => match < MaxMatches)
  /\ UNCHANGED <<match, eligible, rolling, flushVars, up, storeVars, earned, joins>>

\* Without an event, the credit of the departed is what changes.
LEMMA NothingCaptured ==
  ASSUME ResultIInv, NEW finished, NEW roster, NEW left, NEW base,
         Finds(finished, roster, left, base), AroundCapture,
         departed' = left, baseline' = base, UNCHANGED <<records, pending, captured>>,
         \/ completed' = completed
         \/ /\ completed' = finished /\ ~completed
            /\ finished => \A p \in Acct : records[p].total = Known(p)
  PROVE  ResultIInv'
<1>1. /\ UNCHANGED <<match, eligible, rolling, earned, joins, up, captured>>
      /\ UNCHANGED <<pending, flush, batch, outbox, accepted>>
      /\ Events' = Events /\ Owned' = Owned /\ TaskAgrees'
  BY EventsKept DEF AroundCapture, ResultIInv
<1>2. completed' \in BOOLEAN /\ (completed => completed')
  BY DEF ResultIInv, ResultTypeOK, Finds
<1>3. ResultTypeOK'
  BY <1>1, <1>2 DEF ResultIInv, ResultTypeOK, Finds, AroundCapture
<1>4. MatchesRemain' /\ DownIsFresh'
  BY <1>1 DEF MatchesRemain, DownIsFresh, AroundCapture
<1>5. RosterAgrees'
  BY <1>1 DEF RosterAgrees, Finds
<1>6. Reported'
  BY <1>1 DEF ResultIInv, Reported
<1>7. AccountsAgree'
  <2>1. ASSUME NEW p \in Acct PROVE Known(p)' = Known(p)
    <3>1. \A a \in Addr : who'[a] = p => counter'[a] = counter[a] /\ baseline'[a] = baseline[a]
      BY ResultAssumption DEF Finds
    <3>2. Due(who, p)' = Due(roster, p)
      BY <3>1, DueKept DEF Finds
    <3>3. QED
      BY <3>2 DEF Known, Finds
  <2>2. ASSUME ~completed, completed', NEW p \in Acct PROVE records[p].total = earned[match][p]
    <3>1. records[p].total = Known(p) /\ ~rolling
      BY <2>2 DEF Finds
    <3>2. QED
      BY <2>2, <3>1 DEF ResultIInv, AccountsAgree, AroundCapture
  <2>3. QED
    BY <1>1, <1>2, <2>1, <2>2 DEF ResultIInv, AccountsAgree
<1>8. EventsAreSound'
  <2>1. match \in Match /\ match <= match
    BY DEF ResultIInv, ResultTypeOK, Match
  <2>2. earned' \in [Match -> [Acct -> 0 .. MaxScore]]
        /\ \A m \in Match, p \in Acct : earned[m][p] <= earned'[m][p]
    BY <1>1 DEF ResultIInv, ResultTypeOK
  <2>3. \A p \in Acct : records[p].total <= records'[p].total /\ records'[p].total \in Nat
    BY DEF ResultIInv, ResultTypeOK
  <2>4. QED
    BY <1>1, <1>2, <2>1, <2>2, <2>3, SoundEventsKept
<1>9. QED
  BY <1>1, <1>3, <1>4, <1>5, <1>6, <1>7, <1>8 DEF ResultIInv

\* The books become the records, and what has changed in them an event.
Reports(finished, roster, left, base, all, changed, e) ==
  /\ ~completed /\ Len(pending) < MaxPending
  /\ eligible \/ (finished /\ \A p \in Acct : records[p] = NoRecord)
  /\ all = Combined(roster, left) /\ changed \in SUBSET Acct
  /\ \A p \in Acct \ changed : all[p].total = 0 \/ all[p] = records[p]
  /\ \A p \in changed : all[p].total > 0
  /\ e = [id |-> captured, match |-> match, cumulative |-> eligible,
          total |-> [p \in changed |-> all[p].total]]
  /\ completed' = finished /\ pending' = Append(pending, e) /\ departed' = Nothing
  /\ captured' = captured + 1 /\ records' = all
  /\ baseline' = [a \in Addr |-> IF roster[a] # Free THEN counter[a] ELSE base[a]]

LEMMA EventCaptured ==
  ASSUME ResultIInv, NEW finished, NEW roster, NEW left, NEW base,
         Finds(finished, roster, left, base), AroundCapture, NEW all, NEW changed, NEW e,
         Reports(finished, roster, left, base, all, changed, e)
  PROVE  ResultIInv'
<1> USE DEF Reports
<1>1. /\ UNCHANGED <<match, eligible, rolling, earned, joins, up>>
      /\ UNCHANGED <<flush, batch, outbox, accepted>> /\ up /\ ended' \in BOOLEAN
      /\ closing' \in BOOLEAN /\ (closing' => match < MaxMatches)
  BY DEF AroundCapture, flushVars, storeVars
<1>2. /\ match \in Match /\ match \in Int /\ eligible \in BOOLEAN /\ captured \in Nat
      /\ pending \in Seq(Event) /\ Len(pending) \in Nat
  BY DEF ResultIInv, ResultTypeOK, Match
<1>3. ASSUME NEW p \in Acct
      PROVE  /\ all[p].total = Known(p) /\ all[p].total \in Nat /\ all[p].connected \in BOOLEAN
             /\ all[p] \in [total : Nat, connected : BOOLEAN]
             /\ all[p].total <= earned[match][p] /\ all[p].total <= MaxScore
             /\ records[p].total <= all[p].total /\ records[p].total \in Nat
             /\ ~rolling => all[p].total = earned[match][p]
  <2>1. all[p] = [total |-> records[p].total + left[p] + Due(roster, p),
                  connected |-> \E a \in Addr : roster[a] = p]
    BY DEF Combined
  <2>2. records[p].total \in Nat /\ left[p] \in Nat /\ Due(roster, p) \in Nat
        /\ earned[match][p] \in 0 .. MaxScore
    BY <1>2, DueType DEF ResultIInv, ResultTypeOK, Finds
  <2>3. all[p].total = Known(p)
    BY <2>1 DEF Finds
  <2>4. Known(p) <= earned[match][p] /\ (~rolling => Known(p) = earned[match][p])
    BY <1>1 DEF ResultIInv, AccountsAgree
  <2>5. all[p].total \in Nat /\ records[p].total <= all[p].total
    BY <2>1, <2>2
  <2>6. all[p].total <= MaxScore
    BY <2>2, <2>3, <2>4, <2>5, ResultAssumption
  <2>7. all[p].connected \in BOOLEAN /\ all[p] \in [total : Nat, connected : BOOLEAN]
    <3>1. all[p].connected = (\E a \in Addr : roster[a] = p)
      BY <2>1
    <3>2. (\E a \in Addr : roster[a] = p) \in BOOLEAN
      OBVIOUS
    <3>3. QED
      BY <2>1, <2>5, <3>1, <3>2
  <2>8. QED
    BY <2>2, <2>3, <2>4, <2>5, <2>6, <2>7
<1>4. e \in Event
  <2>1. \A p \in changed : all[p].total \in 1 .. MaxScore
    BY <1>3, ResultAssumption
  <2>2. [p \in changed |-> all[p].total] \in [changed -> 1 .. MaxScore]
    BY <2>1
  <2>3. QED
    BY <1>2, <2>2 DEF Event
<1>5. pending' \in Seq(Event) /\ Len(pending') <= MaxPending
      /\ ToSet(pending') = ToSet(pending) \cup {e}
  <2>1. Append(pending, e) \in Seq(Event) /\ Len(Append(pending, e)) = Len(pending) + 1
        /\ ToSet(Append(pending, e)) = ToSet(pending) \cup {e}
    BY <1>2, <1>4, ElementsOf, SMTT(30)
  <2>2. Len(pending) + 1 <= MaxPending
    BY <1>2, ResultAssumption
  <2>3. QED
    BY <2>1, <2>2
<1>6. Owned' = Owned \cup {e} /\ Events' = Events \cup {e}
  BY <1>1, <1>5 DEF Owned, Events
<1>7. baseline' \in [Addr -> 0 .. MaxScore]
  BY DEF Finds, ResultIInv, ResultTypeOK
<1>8. ResultTypeOK'
  <2>1. departed' \in [Acct -> Nat]
    BY DEF Nothing
  <2>2. records' \in [Acct -> [total : Nat, connected : BOOLEAN]]
    <3>1. DOMAIN all = Acct /\ all = [p \in Acct |-> all[p]]
      BY DEF Combined
    <3>2. QED
      BY <1>3, <3>1
  <2>3. completed' \in BOOLEAN /\ captured' \in Nat
    BY <1>2 DEF Finds
  <2>4. QED
    BY <1>1, <1>5, <1>7, <2>1, <2>2, <2>3 DEF ResultIInv, ResultTypeOK, Finds
<1>9. MatchesRemain' /\ DownIsFresh' /\ TaskAgrees'
  BY <1>1 DEF MatchesRemain, DownIsFresh, TaskAgrees, ResultIInv
<1>10. RosterAgrees'
  <2>1. ASSUME NEW a \in Addr, ~rolling PROVE baseline'[a] <= counter'[a]
    <3>1. roster[a] # Free => baseline'[a] = counter'[a]
      BY DEF Finds
    <3>2. roster[a] = Free => baseline'[a] = base[a]
      OBVIOUS
    <3>3. base[a] <= counter'[a] /\ counter'[a] \in Int
      BY <2>1 DEF Finds
    <3>4. QED
      BY <3>1, <3>2, <3>3
  <2>2. QED
    BY <1>1, <2>1 DEF RosterAgrees, Finds
<1>11. AccountsAgree'
  <2>1. ASSUME NEW p \in Acct PROVE Known(p)' = all[p].total
    <3>1. \A a \in Addr : who'[a] = p => counter'[a] <= baseline'[a]
      <4>1. \A a \in Addr : who'[a] = p => counter'[a] = baseline'[a] /\ counter'[a] \in Int
        BY ResultAssumption DEF Finds
      <4>2. QED
        BY <4>1
    <3>2. Due(who, p)' = 0
      BY <1>7, <3>1, DueSettled DEF ResultIInv, Finds
    <3>3. QED
      BY <1>3, <3>2 DEF Known, Nothing
  <2>2. completed' => ~rolling
    BY DEF Finds
  <2>3. QED
    BY <1>1, <1>3, <2>1, <2>2 DEF ResultIInv, AccountsAgree
<1>12. Reported'
  <2>1. ASSUME NEW p \in Acct, all[p].total > 0
        PROVE  \E f \in Owned' : /\ f.match = match /\ p \in DOMAIN f.total
                                 /\ f.total[p] = all[p].total
    <3>1. CASE p \in changed
      BY <1>6, <3>1
    <3>2. CASE p \notin changed
      <4>1. all[p] = records[p]
        BY <1>3, <2>1, <3>2
      <4>2. \E f \in Owned : f.match = match /\ p \in DOMAIN f.total
                             /\ f.total[p] = records[p].total
        BY <1>1, <2>1, <4>1 DEF ResultIInv, Reported
      <4>3. QED
        BY <1>6, <4>1, <4>2
    <3>3. QED
      BY <3>1, <3>2
  <2>2. QED
    BY <1>1, <2>1 DEF Reported
<1>13. EventsAreSound'
  <2>1. ASSUME NEW f \in Events, f.match = match PROVE f.cumulative /\ eligible
    <3>1. SoundEvent(f) /\ f.cumulative \in BOOLEAN
      BY EventsTyped DEF ResultIInv, EventsAreSound, Event
    <3>2. f.cumulative /\ eligible
      BY <1>1, <2>1, <3>1 DEF SoundEvent
    <3>3. QED
      BY <3>2
  <2>2. OneKind'
    <3>1. ASSUME NEW f \in Events, NEW g \in Events, f.match = g.match
          PROVE  f.cumulative = g.cumulative
      BY <3>1 DEF ResultIInv, EventsAreSound, OneKind
    <3>2. \A f \in Events : f.match = match => f.cumulative = TRUE /\ eligible = TRUE
      <4>1. \A f \in Events : f.cumulative \in BOOLEAN
        BY EventsTyped DEF ResultIInv, Event
      <4>2. QED
        BY <1>2, <2>1, <4>1
    <3>3. e.match = match /\ e.cumulative = eligible
      OBVIOUS
    <3>4. ASSUME NEW f \in Events', NEW g \in Events', f.match = g.match
          PROVE  f.cumulative = g.cumulative
      <4>1. (f \in Events \/ f = e) /\ (g \in Events \/ g = e)
        BY <1>6, <3>4
      <4>2. CASE f \in Events /\ g \in Events
        BY <3>1, <3>4, <4>2
      <4>3. CASE f = e /\ g = e
        BY <4>3
      <4>4. CASE f \in Events /\ g = e
        BY <1>2, <3>2, <3>3, <3>4, <4>4
      <4>5. CASE f = e /\ g \in Events
        BY <1>2, <3>2, <3>3, <3>4, <4>5
      <4>6. QED
        BY <4>1, <4>2, <4>3, <4>4, <4>5
    <3>5. QED
      BY <3>4 DEF OneKind
  <2>3. ASSUME NEW f \in Events PROVE SoundEvent(f)'
    <3>1. SoundEvent(f) /\ f \in Event
      BY EventsTyped DEF ResultIInv, EventsAreSound
    <3>2. ASSUME f.match = match, NEW p \in DOMAIN f.total PROVE f.total[p] <= all[p].total
      <4>1. p \in Acct /\ f.total[p] \in Int
        BY <3>1 DEF Event
      <4>2. f.total[p] <= records[p].total
        BY <1>1, <3>1, <3>2 DEF SoundEvent
      <4>3. QED
        BY <1>3, <4>1, <4>2
    <3>3. f.match = match => f.cumulative /\ eligible
      BY <2>1
    <3>4. QED
      BY <1>1, <3>1, <3>2, <3>3 DEF SoundEvent
  <2>4. SoundEvent(e)'
    <3>1. e.match = match /\ DOMAIN e.total = changed
          /\ \A p \in changed : e.total[p] = all[p].total
      OBVIOUS
    <3>2. match <= match /\ \A p \in changed : all[p].total <= all[p].total
      BY <1>2, <1>3
    <3>3. IF e.cumulative THEN eligible' ELSE completed'
      <4>1. e.cumulative = eligible
        OBVIOUS
      <4>2. eligible \/ completed'
        OBVIOUS
      <4>3. QED
        BY <1>1, <4>1, <4>2
    <3>4. \A p \in DOMAIN e.total : e.total[p] <= earned'[e.match][p]
      BY <1>1, <1>3, <3>1
    <3>5. QED
      BY <1>1, <3>1, <3>2, <3>3, <3>4 DEF SoundEvent
  <2>5. QED
    BY <1>6, <2>2, <2>3, <2>4 DEF EventsAreSound
<1>14. QED
  BY <1>8, <1>9, <1>10, <1>11, <1>12, <1>13 DEF ResultIInv

\* Whatever a capture finds and does.
LEMMA CaptureInv ==
  ASSUME ResultIInv, NEW finished, NEW roster, NEW left, NEW base,
         Finds(finished, roster, left, base), AroundCapture,
         Capture(finished, roster, left, base)
  PROVE  ResultIInv'
<1> DEFINE all == Combined(roster, left)
           changed == {p \in Acct : /\ all[p].total > 0
                                    /\ \/ all[p] # records[p]
                                       \/ finished /\ all[p].connected}
           early == \/ closing \/ completed
                    \/ ~eligible /\ (~finished \/ \E p \in Acct : records[p] # NoRecord)
                    \/ Len(pending) >= MaxPending
           e == [id |-> captured, match |-> match, cumulative |-> eligible,
                 total |-> [p \in changed |-> all[p].total]]
<1>1. CASE early
  <2>1. departed' = left /\ baseline' = base
        /\ UNCHANGED <<records, completed, pending, captured>>
    BY <1>1 DEF Capture
  <2>2. QED
    BY <2>1, NothingCaptured
<1>2. CASE ~early /\ changed = {}
  <2>1. completed' = finished /\ departed' = left /\ baseline' = base
        /\ UNCHANGED <<records, pending, captured>>
    BY <1>2 DEF Capture
  <2>2. ~completed
    BY <1>2
  <2>3. ASSUME NEW p \in Acct PROVE records[p].total = Known(p)
    <3>1. ~ (all[p].total > 0) \/ all[p] = records[p]
      BY <1>2
    <3>2. all[p].total = records[p].total + left[p] + Due(roster, p)
      BY DEF Combined
    <3>3. records[p].total \in Nat /\ left[p] \in Nat /\ Due(roster, p) \in Nat
      BY DueType DEF ResultIInv, ResultTypeOK, Finds
    <3>4. Known(p) = all[p].total
      BY <3>2 DEF Finds
    <3> HIDE DEF all
    <3>5. CASE all[p] = records[p]
      BY <3>4, <3>5
    <3>6. CASE ~ (all[p].total > 0)
      BY <3>2, <3>3, <3>4, <3>6
    <3>7. QED
      BY <3>1, <3>5, <3>6
  <2>4. QED
    BY <2>1, <2>2, <2>3, NothingCaptured
<1>3. CASE ~early /\ changed # {}
  <2>1. /\ completed' = finished /\ pending' = Append(pending, e) /\ departed' = Nothing
        /\ captured' = captured + 1 /\ records' = all
        /\ baseline' = [a \in Addr |-> IF roster[a] # Free THEN counter[a] ELSE base[a]]
    BY <1>3 DEF Capture
  <2>2. /\ ~completed /\ ~ (Len(pending) >= MaxPending)
        /\ eligible \/ (finished /\ \A p \in Acct : records[p] = NoRecord)
    BY <1>3
  <2>3. Len(pending) < MaxPending
    <3>1. Len(pending) \in Int /\ MaxPending \in Int
      BY ResultAssumption DEF ResultIInv, ResultTypeOK
    <3>2. QED
      BY <2>2, <3>1
  <2>4. changed \in SUBSET Acct /\ \A p \in changed : all[p].total > 0
    OBVIOUS
  <2>5. \A p \in Acct \ changed : all[p].total = 0 \/ all[p] = records[p]
    <3>1. \A p \in Acct : all[p].total \in Nat
      <4>1. ASSUME NEW p \in Acct PROVE all[p].total \in Nat
        <5>1. all[p].total = records[p].total + left[p] + Due(roster, p)
          BY DEF Combined
        <5>2. records[p].total \in Nat /\ left[p] \in Nat /\ Due(roster, p) \in Nat
          BY DueType DEF ResultIInv, ResultTypeOK, Finds
        <5> HIDE DEF all
        <5>3. QED
          BY <5>1, <5>2
      <4>2. QED
        BY <4>1
    <3>2. \A p \in Acct \ changed : ~ (all[p].total > 0) \/ all[p] = records[p]
      OBVIOUS
    <3> HIDE DEF all, changed
    <3>3. QED
      BY <3>1, <3>2
  <2>6. all = Combined(roster, left)
        /\ e = [id |-> captured, match |-> match, cumulative |-> eligible,
                total |-> [p \in changed |-> all[p].total]]
    OBVIOUS
  <2> HIDE DEF all, changed, e
  <2>7. Reports(finished, roster, left, base, all, changed, e)
    BY <2>1, <2>2, <2>3, <2>4, <2>5, <2>6 DEF Reports
  <2>8. QED
    BY <2>7, EventCaptured
<1>4. QED
  BY <1>1, <1>2, <1>3

\* A departing Player's share is set aside before it leaves the roster.
LEMMA DepartInv == ASSUME ResultIInv, NEW a \in Addr, Depart(a) PROVE ResultIInv'
<1> DEFINE roster == [who EXCEPT ![a] = Free]
           left == SetAside(a)
           base == [baseline EXCEPT ![a] = 0]
<1>1. /\ up /\ who[a] # Free /\ who' = roster /\ counter' = [counter EXCEPT ![a] = 0]
      /\ UNCHANGED <<match, eligible, rolling, flushVars, closing, up, storeVars, earned, joins>>
  BY DEF Depart
<1>2. PICK endsRound \in BOOLEAN :
        /\ endsRound => ~ended /\ ~rolling
        /\ ended' = (ended \/ endsRound)
        /\ Capture(endsRound, who', SetAside(a), [baseline EXCEPT ![a] = 0])
  BY DEF Depart
<1>3. 0 \in 0 .. MaxScore
  BY ResultAssumption
<1>4. who[a] \in Acct /\ Delta(a) \in Nat
  <2>1. who[a] \in Acct /\ counter[a] \in Int /\ baseline[a] \in Int
    BY <1>1 DEF ResultIInv, ResultTypeOK
  <2>2. QED
    BY <2>1 DEF Delta
<1>5. Finds(endsRound, roster, left, base)
  <2>1. roster \in [Addr -> Acct \cup {Free}] /\ base \in [Addr -> 0 .. MaxScore]
        /\ counter' \in [Addr -> 0 .. MaxScore]
    BY <1>1, <1>3 DEF ResultIInv, ResultTypeOK
  <2>2. left = [departed EXCEPT ![who[a]] = departed[who[a]] + Delta(a)]
    BY DEF SetAside
  <2>3. left \in [Acct -> Nat]
    BY <1>4, <2>2 DEF ResultIInv, ResultTypeOK
  <2>4. ASSUME NEW b \in Addr
        PROVE  /\ roster[b] = Free => counter'[b] = 0
               /\ roster[b] # Free => counter'[b] = counter[b] /\ base[b] = baseline[b]
               /\ ~rolling => base[b] <= counter'[b]
    <3>1. CASE b = a
      BY <1>1, <3>1 DEF ResultIInv, ResultTypeOK
    <3>2. CASE b # a
      BY <1>1, <3>2 DEF ResultIInv, ResultTypeOK, RosterAgrees
    <3>3. QED
      BY <3>1, <3>2
  <2>5. ASSUME NEW p \in Acct PROVE records[p].total + left[p] + Due(roster, p) = Known(p)
    <3>1. Due(who, p) = Due(roster, p) + (IF p = who[a] THEN Delta(a) ELSE 0)
      BY <1>1, DueWithout DEF ResultIInv
    <3>2. left[p] = departed[p] + (IF p = who[a] THEN Delta(a) ELSE 0)
      BY <1>4, <2>2 DEF ResultIInv, ResultTypeOK
    <3>3. records[p].total \in Nat /\ departed[p] \in Nat /\ Due(roster, p) \in Nat
      BY DueType DEF ResultIInv, ResultTypeOK
    <3> HIDE DEF roster, left
    <3>4. QED
      BY <1>4, <3>1, <3>2, <3>3 DEF Known
  <2> HIDE DEF roster, left, base
  <2>6. QED
    BY <1>1, <1>2, <2>1, <2>3, <2>4, <2>5 DEF Finds
<1>6. AroundCapture
  <2>1. ended' \in BOOLEAN
    BY <1>2 DEF ResultIInv, ResultTypeOK
  <2>2. QED
    BY <1>1, <2>1 DEF AroundCapture, ResultIInv, ResultTypeOK, MatchesRemain
<1>7. Capture(endsRound, roster, left, base)
  BY <1>1, <1>2
<1> HIDE DEF roster, left, base
<1>8. QED
  BY <1>5, <1>6, <1>7, CaptureInv

\* Of a capture without a departure.
LEMMA RosterFound ==
  ASSUME ResultIInv, NEW finished \in BOOLEAN, finished => ~rolling, UNCHANGED <<who, counter>>
  PROVE  Finds(finished, who, departed, baseline)
<1>1. /\ who \in [Addr -> Acct \cup {Free}] /\ departed \in [Acct -> Nat]
      /\ baseline \in [Addr -> 0 .. MaxScore] /\ counter' \in [Addr -> 0 .. MaxScore]
  BY DEF ResultIInv, ResultTypeOK
<1>2. \A p \in Acct : records[p].total + departed[p] + Due(who, p) = Known(p)
  BY DEF Known
<1>3. QED
  BY <1>1, <1>2 DEF Finds, ResultIInv, RosterAgrees

LEMMA FinishRoundInv == ASSUME ResultIInv, FinishRound PROVE ResultIInv'
<1>1. /\ up /\ ~rolling /\ ended' = TRUE /\ Capture(TRUE, who, departed, baseline)
      /\ UNCHANGED <<who, counter, match, eligible, rolling, flushVars, closing, up,
                     storeVars, earned, joins>>
  BY DEF FinishRound
<1>2. AroundCapture
  BY <1>1 DEF AroundCapture, ResultIInv, ResultTypeOK, MatchesRemain
<1>3. Finds(TRUE, who, departed, baseline)
  BY <1>1, RosterFound
<1>4. QED
  BY <1>1, <1>2, <1>3, CaptureInv

LEMMA CloseInv == ASSUME ResultIInv, Close PROVE ResultIInv'
<1>1. /\ up /\ match < MaxMatches /\ closing' = TRUE /\ Capture(FALSE, who, departed, baseline)
      /\ UNCHANGED <<who, counter, match, eligible, ended, rolling, flushVars, up,
                     storeVars, earned, joins>>
  BY DEF Close
<1>2. AroundCapture
  BY <1>1 DEF AroundCapture, ResultIInv, ResultTypeOK
<1>3. Finds(FALSE, who, departed, baseline)
  BY <1>1, RosterFound
<1>4. QED
  BY <1>1, <1>2, <1>3, CaptureInv

-----------------------------------------------------------------------------
(* The behaviours.                                                         *)

LEMMA ResultInitInv == ResultInit => ResultIInv
<1> SUFFICES ASSUME ResultInit PROVE ResultIInv
  OBVIOUS
<1>1. 0 \in 0 .. MaxScore /\ 1 \in Match /\ 0 \in 0 .. MaxJoins /\ << >> \in Seq(Event)
      /\ Len(<< >>) = 0 /\ 0 <= MaxPending /\ 0 <= MaxEvents
  BY ResultAssumption DEF Match
<1>2. ResultTypeOK
  <2>1. /\ who \in [Addr -> Acct \cup {Free}]
        /\ counter \in [Addr -> 0 .. MaxScore] /\ baseline \in [Addr -> 0 .. MaxScore]
    BY <1>1 DEF ResultInit
  <2>2. earned \in [Match -> [Acct -> 0 .. MaxScore]] /\ departed \in [Acct -> Nat]
        /\ records \in [Acct -> [total : Nat, connected : BOOLEAN]]
    BY <1>1 DEF ResultInit, Nothing, NoRecord
  <2>3. QED
    BY <1>1, <2>1, <2>2 DEF ResultInit, ResultTypeOK
<1>3. MatchesRemain /\ DownIsFresh /\ RosterAgrees /\ TaskAgrees
  BY <1>1 DEF ResultInit, MatchesRemain, DownIsFresh, RosterAgrees, TaskAgrees
<1>4. Events = {} /\ Owned = {}
  <2>1. << >> \in Seq(Event)
    BY <1>1
  <2>2. ToSet(<< >>) = {}
    BY <2>1, ElementsOf
  <2>3. QED
    BY <2>2 DEF ResultInit, Events, Owned
<1>5. AccountsAgree
  <2>1. ASSUME NEW p \in Acct PROVE Known(p) = 0 /\ earned[match][p] = 0
    <3>1. Due(who, p) = 0
      BY <1>2, <2>1, DueOfNobody, ResultAssumption DEF ResultInit
    <3>2. QED
      BY <1>1, <3>1 DEF Known, ResultInit, Nothing, NoRecord
  <2>2. QED
    BY <2>1 DEF AccountsAgree, ResultInit
<1>6. EventsAreSound /\ Reported
  <2>1. \A p \in Acct : ~ (records[p].total > 0)
    BY DEF ResultInit, NoRecord
  <2>2. QED
    BY <1>4, <2>1 DEF EventsAreSound, OneKind, Reported
<1>7. QED
  BY <1>2, <1>3, <1>5, <1>6 DEF ResultIInv

LEMMA ResultStutterInv == ASSUME ResultIInv, UNCHANGED resultVars PROVE ResultIInv'
<1>1. /\ UNCHANGED <<who, counter, baseline, match, eligible, ended, rolling>>
      /\ UNCHANGED <<departed, records, completed, pending, flush, batch, closing, up>>
      /\ UNCHANGED <<outbox, accepted, earned, captured, joins>>
  BY DEF resultVars, rosterVars, roundVars, flushVars, storeVars, tallies
<1>2. ResultTypeOK' /\ MatchesRemain' /\ DownIsFresh' /\ RosterAgrees'
  BY <1>1 DEF ResultIInv, ResultTypeOK, MatchesRemain, DownIsFresh, RosterAgrees
<1>3. AccountsAgree'
  BY <1>1 DEF ResultIInv, AccountsAgree, Known, Due, Delta
<1>4. EventsAreSound' /\ Reported' /\ TaskAgrees'
  BY <1>1 DEF ResultIInv, EventsAreSound, OneKind, SoundEvent, Reported, TaskAgrees,
              Events, Owned
<1>5. QED
  BY <1>2, <1>3, <1>4 DEF ResultIInv

LEMMA ResultNextInv == ResultIInv /\ [ResultNext]_resultVars => ResultIInv'
<1> SUFFICES ASSUME ResultIInv, [ResultNext]_resultVars PROVE ResultIInv'
  OBVIOUS
<1>1. CASE Round
  <2>1. ASSUME NEW a \in Addr, Score(a) PROVE ResultIInv'
    BY <2>1, ScoreInv
  <2>2. ASSUME NEW a \in Addr, Depart(a) PROVE ResultIInv'
    BY <2>2, DepartInv
  <2>3. ASSUME NEW a \in Addr, NEW p \in Acct, JoinRound(a, p) PROVE ResultIInv'
    BY <2>3, JoinRoundInv
  <2>4. CASE BecomeEligible \/ FinishRound \/ RetirePlayers \/ BeginRound
    BY <2>4, BecomeEligibleInv, FinishRoundInv, RetirePlayersInv, BeginRoundInv
  <2>5. QED
    BY <1>1, <2>1, <2>2, <2>3, <2>4 DEF Round
<1>2. CASE Flush
  BY <1>2, StartFlushInv, PersistInv, LoadInv, DeliverInv, AcknowledgeInv, PostFailsInv
     DEF Flush
<1>3. CASE Process
  BY <1>3, CloseInv, CancelInv, ExitInv, CrashInv, StartServerInv DEF Process
<1>4. CASE UNCHANGED resultVars
  BY <1>4, ResultStutterInv
<1>5. QED
  BY <1>1, <1>2, <1>3, <1>4 DEF ResultNext

LEMMA ResultInvHolds == ResultSpec => []ResultIInv
<1>1. ResultInit => ResultIInv
  BY ResultInitInv
<1>2. ResultIInv /\ [ResultNext]_resultVars => ResultIInv'
  BY ResultNextInv
<1>3. QED
  BY <1>1, <1>2, PTL DEF ResultSpec

\* Every variable of the results keeps to its type, among them that the memory
\* queue and the outbox never hold more events than MAX_PENDING_RESULTS and
\* ResultOutbox.MAX_EVENTS, whatever the batches that put_many stores.
THEOREM ResultsTypeCorrect == ResultSpec => []ResultTypeOK
<1>1. ResultIInv => ResultTypeOK
  BY DEF ResultIInv
<1>2. QED
  BY <1>1, ResultInvHolds, PTL

\* One kind of event only is ever made for a match.
LEMMA OvercreditedNever == ASSUME ResultIInv PROVE NeverOvercredited
<1>1. SUFFICES ASSUME NEW m \in Match, NEW p \in Acct
               PROVE  Credit(accepted, m, p) <= earned[m][p]
  BY DEF NeverOvercredited
<1> DEFINE kind == \A f \in accepted : f.match = m => f.cumulative
<1>2. accepted \in SUBSET Event /\ earned[m][p] \in Nat /\ kind \in BOOLEAN
  BY ResultAssumption DEF ResultIInv, ResultTypeOK
<1>3. \A f \in accepted : f \in Events /\ f.cumulative \in BOOLEAN
  BY <1>2 DEF Events, Owned, Event
<1>4. \A f \in accepted : f.match = m => f.cumulative = kind
  <2>1. \A f, g \in accepted : f.match = m /\ g.match = m => f.cumulative = g.cumulative
    BY <1>3 DEF ResultIInv, EventsAreSound, OneKind
  <2>2. QED
    BY <1>3, <2>1
<1>5. \A f \in accepted : f.match = m /\ p \in DOMAIN f.total => f.total[p] <= earned[m][p]
  BY <1>3 DEF ResultIInv, EventsAreSound, SoundEvent
<1> HIDE DEF kind
<1>6. QED
  BY <1>2, <1>4, <1>5, CreditBelow

\* _capture_round_results: whatever departures, returns, retries, lost answers
\* and crashes, the master never credits anybody with more than was earned in
\* a match.  Of the events of a match, one kind only is ever made, and none
\* reports more than the books had.
THEOREM NobodyIsOvercredited == ResultSpec => []NeverOvercredited
<1>1. ResultIInv => NeverOvercredited
  BY OvercreditedNever
<1>2. QED
  BY <1>1, ResultInvHolds, PTL

\* _round_completed: a match that was completed has reported all that each
\* account earned in it, through any number of departures and returns under
\* other or reused addresses.  The books balance until the last capture.
THEOREM CompletedRoundsAreExact == ResultSpec => []CompletedIsExact
<1>1. ResultIInv => CompletedIsExact
  BY DEF ResultIInv, AccountsAgree, CompletedIsExact
<1>2. QED
  BY <1>1, ResultInvHolds, PTL

\* "The immutable event now owns them": what the records call reported is in
\* an event that is still in memory, stored, or accepted, while the result
\* task moves events from one to the other, fails, and is cancelled.
THEOREM RecordsStayOwned == ResultSpec => []RecordsAreOwned
<1>1. ASSUME ResultIInv PROVE RecordsAreOwned
  <2>1. SUFFICES ASSUME up, NEW p \in Acct PROVE records[p].total = Credit(Owned, match, p)
    BY DEF RecordsAreOwned, Owned
  <2> DEFINE kind == \A f \in Owned : f.match = match => f.cumulative
  <2>2. Owned \in SUBSET Event /\ records[p].total \in Nat /\ kind \in BOOLEAN
    BY <1>1, EventsTyped DEF ResultIInv, ResultTypeOK, Events
  <2>3. \A f \in Owned : f \in Events /\ f.cumulative \in BOOLEAN
    BY <2>2 DEF Events, Event
  <2>4. \A f \in Owned : f.match = match => f.cumulative = kind
    <3>1. \A f, g \in Owned : f.match = match /\ g.match = match => f.cumulative = g.cumulative
      BY <1>1, <2>3 DEF ResultIInv, EventsAreSound, OneKind
    <3>2. QED
      BY <2>3, <3>1
  <2>5. \A f \in Owned : f.match = match /\ p \in DOMAIN f.total
                           => f.total[p] <= records[p].total
    BY <1>1, <2>1, <2>3 DEF ResultIInv, EventsAreSound, SoundEvent
  <2>6. records[p].total > 0 =>
          \E f \in Owned : f.match = match /\ p \in DOMAIN f.total
                           /\ f.total[p] = records[p].total
    BY <1>1, <2>1 DEF ResultIInv, Reported
  <2> HIDE DEF kind
  <2>7. QED
    BY <2>2, <2>4, <2>5, <2>6, CreditIs
<1>2. QED
  BY <1>1, ResultInvHolds, PTL

\* What put_many does leaves every row in place.
LEMMA PutManyKeepsRows ==
  ASSUME ResultTypeOK, NEW events \in Seq(Event), PutMany(events)
  PROVE  ToSet(outbox) \subseteq ToSet(outbox')
BY PutManyStores

\* "An event keeps its original ID and payload until the master acknowledges
\* it": acknowledge deletes the row of an event the master has committed, also
\* when the answer came while the server was shutting down; nothing else
\* deletes a row.
THEOREM RowsAreStoredUntilAcknowledged == ResultSpec => StoredUntilAcknowledged
<1> DEFINE Stored == \A e \in ToSet(outbox) : e \in ToSet(outbox') \/ e \in accepted
<1>1. ASSUME ResultIInv, [ResultNext]_resultVars PROVE Stored
  <2>1. batch \in Seq(Event) /\ pending \in Seq(Event) /\ ResultTypeOK
    BY <1>1 DEF ResultIInv, ResultTypeOK
  <2>2. CASE outbox' = outbox
    BY <2>2
  <2>3. CASE PutMany(batch) \/ PutMany(pending)
    BY <2>1, <2>3, PutManyKeepsRows
  <2>4. CASE flush = "answered" /\ outbox' = Without(outbox, {Head(batch)})
    <3>1. ToSet(outbox') = ToSet(outbox) \ {Head(batch)}
      BY <2>1, <2>4, WithoutIsTheRest DEF ResultTypeOK
    <3>2. Head(batch) \in accepted
      BY <1>1, <2>4 DEF ResultIInv, TaskAgrees
    <3>3. QED
      BY <3>1, <3>2
  <2>5. CASE Round \/ UNCHANGED resultVars
    <3>1. outbox' = outbox
      BY <2>5 DEF Round, Score, Depart, JoinRound, BecomeEligible, FinishRound, RetirePlayers,
                  BeginRound, resultVars, storeVars
    <3>2. QED
      BY <3>1
  <2>6. CASE Flush
    BY <2>2, <2>3, <2>4, <2>6 DEF Flush, StartFlush, Persist, Load, Deliver, Acknowledge,
                                  PostFails, storeVars
  <2>7. CASE Process
    BY <2>2, <2>3, <2>4, <2>7 DEF Process, Close, Cancel, Exit, Crash, StartServer, storeVars
  <2>8. QED
    BY <1>1, <2>5, <2>6, <2>7 DEF ResultNext
<1>2. ASSUME ResultIInv, [ResultNext]_resultVars PROVE [Stored]_resultVars
  BY <1>1, <1>2
<1>3. QED
  BY <1>2, ResultInvHolds, PTL DEF ResultSpec, StoredUntilAcknowledged
-----------------------------------------------------------------------------
(* Refinement of AccountCredit.                                            *)

\* Events more credit no account with less.
LEMMA CreditGrows ==
  ASSUME NEW S \in SUBSET Event, NEW T \in SUBSET Event, S \subseteq T, NEW m, NEW p \in Acct
  PROVE  Credit(S, m, p) \in Int /\ Credit(T, m, p) \in Int
         /\ Credit(S, m, p) <= Credit(T, m, p)
<1> DEFINE least(kind) == Max(Of(S, m, p, kind) \cup {0})
           most(kind) == Max(Of(T, m, p, kind) \cup {0})
           firmLeast == least(TRUE)
           looseLeast == least(FALSE)
           firmMost == most(TRUE)
           looseMost == most(FALSE)
<1>1. ASSUME NEW kind \in BOOLEAN
      PROVE  least(kind) \in Int /\ most(kind) \in Int /\ least(kind) <= most(kind)
  <2>1. \A f \in T : p \in DOMAIN f.total => f.total[p] \in Nat
    BY ResultAssumption DEF Event
  <2> DEFINE few == Of(S, m, p, kind) \cup {0}
             more == Of(T, m, p, kind) \cup {0}
  <2>2. few \subseteq more /\ more \subseteq Nat /\ few # {} /\ 0 \in few /\ 0 \in more
    BY <2>1 DEF Of
  <2>3. MaxScore \in Nat /\ \A n \in more : n <= MaxScore
    <3>1. \A f \in T : p \in DOMAIN f.total => f.total[p] <= MaxScore
      BY ResultAssumption DEF Event
    <3>2. QED
      BY <3>1, ResultAssumption DEF Of
  <2> HIDE DEF few, more
  <2>4. Max(few) \in few /\ Max(more) \in more /\ \A n \in more : n <= Max(more)
    <3>1. few \subseteq Nat /\ \A n \in few : n <= MaxScore
      BY <2>2, <2>3
    <3>2. Max(few) \in few
      BY <2>2, <2>3, <3>1, MaxIsGreatest
    <3>3. Max(more) \in more /\ \A n \in more : n <= Max(more)
      BY <2>2, <2>3, MaxIsGreatest
    <3>4. QED
      BY <3>2, <3>3
  <2>5. Max(few) \in Int /\ Max(more) \in Int /\ Max(few) <= Max(more)
    <3> DEFINE lower == Max(few)
               upper == Max(more)
    <3>1. lower \in few /\ upper \in more /\ \A n \in more : n <= upper
      BY <2>4
    <3> HIDE DEF lower, upper
    <3>2. lower \in Int /\ upper \in Int /\ lower <= upper
      BY <2>2, <3>1
    <3>3. QED
      BY <3>2 DEF lower, upper
  <2>6. QED
    BY <2>5 DEF few, more
<1>2. Credit(S, m, p) = firmLeast + looseLeast /\ Credit(T, m, p) = firmMost + looseMost
  BY DEF Credit
<1>3. /\ firmLeast \in Int /\ firmMost \in Int /\ firmLeast <= firmMost
      /\ looseLeast \in Int /\ looseMost \in Int /\ looseLeast <= looseMost
  <2> HIDE DEF least, most
  <2> QED
    BY <1>1
<1> HIDE DEF firmLeast, looseLeast, firmMost, looseMost
<1>4. QED
  BY <1>2, <1>3

\* An event credits nothing for another match.
LEMMA CreditOfOthers ==
  ASSUME NEW S, NEW e, NEW m, e.match # m, NEW p
  PROVE  Credit(S \cup {e}, m, p) = Credit(S, m, p)
<1>1. \A kind \in BOOLEAN : Of(S \cup {e}, m, p, kind) = Of(S, m, p, kind)
  BY DEF Of
<1>2. QED
  BY <1>1 DEF Credit

\* The credit that AccountCredit speaks of.
Credited == [m \in Match |-> [p \in Acct |-> Credit(accepted, m, p)]]

\* An event that reaches the master is a report on its match.
LEMMA CommitReports ==
  ASSUME ResultIInv, NeverOvercredited', NEW e \in Events, accepted' = accepted \cup {e},
         UNCHANGED <<match, earned>>
  PROVE  \E m \in Match : Credits!Report(m)
<1>1. /\ accepted \in SUBSET Event /\ accepted' \in SUBSET Event /\ e \in Event
      /\ e.match \in Match /\ e.match <= match
      /\ earned \in [Match -> [Acct -> 0 .. MaxScore]]
  BY EventsTyped DEF ResultIInv, ResultTypeOK, EventsAreSound, SoundEvent, Event
<1>2. \A m \in Match \ {e.match}, p \in Acct : Credit(accepted', m, p) = Credit(accepted, m, p)
  BY CreditOfOthers
<1>3. \A p \in Acct : Credited'[e.match][p] \in Credited[e.match][p] .. earned[e.match][p]
  <2>1. SUFFICES ASSUME NEW p \in Acct
                 PROVE  Credit(accepted', e.match, p)
                          \in Credit(accepted, e.match, p) .. earned[e.match][p]
    BY <1>1 DEF Credited
  <2>2. /\ Credit(accepted, e.match, p) \in Int /\ Credit(accepted', e.match, p) \in Int
        /\ Credit(accepted, e.match, p) <= Credit(accepted', e.match, p)
    BY <1>1, CreditGrows
  <2>3. Credit(accepted', e.match, p) <= earned[e.match][p] /\ earned[e.match][p] \in Int
    <3>1. \A m \in Match, q \in Acct : Credit(accepted', m, q) <= earned'[m][q]
      BY DEF NeverOvercredited
    <3>2. Credit(accepted', e.match, p) <= earned'[e.match][p]
      BY <1>1, <3>1
    <3>3. QED
      BY <1>1, <3>2
  <2>4. QED
    BY <2>2, <2>3
<1>4. Credited' = [Credited EXCEPT ![e.match] = Credited'[e.match]]
  <2>1. \A m \in Match \ {e.match} : Credited'[m] = Credited[m]
    BY <1>2 DEF Credited
  <2>2. DOMAIN Credited = Match /\ DOMAIN Credited' = Match
        /\ Credited = [m \in Match |-> Credited[m]]
        /\ Credited' = [m \in Match |-> Credited'[m]]
    BY DEF Credited
  <2> HIDE DEF Credited
  <2>3. QED
    BY <1>1, <2>1, <2>2
<1>5. Credits!Report(e.match)
  BY <1>1, <1>3, <1>4 DEF Credits!Report, Credited
<1>6. QED
  BY <1>1, <1>5

\* Nothing is new to the master, or to the account.
LEMMA CreditStands ==
  ASSUME UNCHANGED <<match, earned, accepted>> PROVE UNCHANGED Credits!vars
BY DEF Credits!vars

LEMMA MasterLearns ==
  ASSUME ResultIInv, NeverOvercredited', flush = "posting",
         accepted' \in {accepted, accepted \cup {Head(batch)}}, UNCHANGED <<match, earned>>
  PROVE  [Credits!Next]_Credits!vars
<1>1. Head(batch) \in Events
  <2>1. batch \in Seq(Event) /\ batch # << >>
    BY DEF ResultIInv, ResultTypeOK, TaskAgrees
  <2>2. Head(batch) \in ToSet(batch)
    BY <2>1, ElementsOf
  <2>3. QED
    BY <2>2 DEF Events
<1>2. CASE accepted' = accepted
  BY <1>2, CreditStands
<1>3. CASE accepted' = accepted \cup {Head(batch)}
  BY <1>1, <1>3, CommitReports DEF Credits!Next
<1>4. QED
  BY <1>2, <1>3

LEMMA NextCredits ==
  ASSUME ResultIInv, ResultIInv', NeverOvercredited', [ResultNext]_resultVars
  PROVE  [Credits!Next]_Credits!vars
<1>1. ASSUME NEW a \in Addr, Score(a) PROVE [Credits!Next]_Credits!vars
  <2>1. who[a] \in Acct
    BY <1>1 DEF Score, ResultIInv, ResultTypeOK
  <2>2. UNCHANGED <<match, accepted>>
    BY <1>1 DEF Score, roundVars, storeVars
  <2>3. CASE completed
    BY <1>1, <2>2, <2>3, CreditStands DEF Score
  <2>4. CASE ~completed
    <3>1. earned' = [earned EXCEPT ![match][who[a]] = @ + 1]
      BY <1>1, <2>4 DEF Score
    <3>2. Credits!Earn(who[a])
      BY <2>2, <3>1 DEF Credits!Earn
    <3>3. QED
      BY <2>1, <3>2 DEF Credits!Next
  <2>5. QED
    BY <2>3, <2>4
<1>2. CASE BeginRound \/ StartServer
  <2>1. match' = match + 1 /\ UNCHANGED <<earned, accepted>>
    BY <1>2 DEF BeginRound, StartServer, storeVars, tallies
  <2>2. match + 1 \in Match
    BY <2>1 DEF ResultIInv, ResultTypeOK
  <2>3. QED
    BY <2>1, <2>2 DEF Credits!Next, Credits!NextMatch
<1>3. ASSUME \/ \E a \in Addr : Depart(a) \/ \E p \in Acct : JoinRound(a, p)
             \/ BecomeEligible \/ FinishRound \/ RetirePlayers
      PROVE  [Credits!Next]_Credits!vars
  <2>1. UNCHANGED <<match, earned, accepted>>
    BY <1>3 DEF Depart, JoinRound, BecomeEligible, FinishRound, RetirePlayers, roundVars,
                storeVars, tallies
  <2>2. QED
    BY <2>1, CreditStands
<1>4. CASE StartFlush \/ Persist \/ Load \/ Acknowledge \/ Close \/ Exit \/ Crash
           \/ UNCHANGED resultVars
  <2>1. UNCHANGED <<match, earned, accepted>>
    BY <1>4 DEF StartFlush, Persist, Load, Acknowledge, Close, Exit, Crash, resultVars,
                roundVars, storeVars, tallies
  <2>2. QED
    BY <2>1, CreditStands
<1>5. CASE Deliver \/ PostFails
  <2>1. flush = "posting" /\ accepted' \in {accepted, accepted \cup {Head(batch)}}
        /\ UNCHANGED <<match, earned>>
    BY <1>5 DEF Deliver, PostFails, roundVars, tallies
  <2>2. QED
    BY <2>1, MasterLearns
<1>6. CASE Cancel
  <2>1. UNCHANGED <<match, earned>>
    BY <1>6 DEF Cancel, roundVars, tallies
  <2>2. \/ accepted' = accepted
        \/ flush = "posting" /\ accepted' \in {accepted, accepted \cup {Head(batch)}}
    BY <1>6 DEF Cancel, storeVars
  <2>3. QED
    BY <2>1, <2>2, CreditStands, MasterLearns
<1>7. QED
  BY <1>1, <1>2, <1>3, <1>4, <1>5, <1>6 DEF ResultNext, Round, Flush, Process

\* The bridge implements AccountCredit: through departures, retries, lost
\* answers, shutdowns and crashes, all that happens to what an account is
\* credited with is that it grows, for one match at a time, and never beyond
\* what was earned in it.
THEOREM CreditRefinement == ResultSpec => ImplementsAccountCredit
<1>1. ResultInit => Credits!Init
  <2>1. SUFFICES ASSUME ResultInit PROVE Credits!Init
    OBVIOUS
  <2>2. ASSUME NEW m \in Match, NEW p \in Acct PROVE Credit({}, m, p) = 0
    <3>1. Of({}, m, p, TRUE) = {} /\ Of({}, m, p, FALSE) = {}
      BY DEF Of
    <3>2. Max({} \cup {0}) = 0
      BY MaxIsGreatest
    <3>3. /\ Max(Of({}, m, p, TRUE) \cup {0}) = 0
          /\ Max(Of({}, m, p, FALSE) \cup {0}) = 0
      BY <3>1, <3>2
    <3>4. Credit({}, m, p) = 0 + 0
      BY <3>3 DEF Credit
    <3>5. QED
      BY <3>4
  <2>3. QED
    BY <2>1, <2>2 DEF ResultInit, Credits!Init, Nothing
<1>2. ResultIInv /\ ResultIInv' /\ NeverOvercredited' /\ [ResultNext]_resultVars
        => [Credits!Next]_Credits!vars
  BY NextCredits
<1>3. QED
  BY <1>1, <1>2, ResultInvHolds, NobodyIsOvercredited, PTL
     DEF ResultSpec, ImplementsAccountCredit, Credits!Spec
=============================================================================
