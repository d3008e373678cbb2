---------------------------- MODULE MCMapCatchup ----------------------------
(* Small instance of MapCatchup: two connection slots, two cells.           *)
EXTENDS MapCatchup, TLC

CONSTANTS c1, c2, x1, x2, red

\* One authored solid cell, one authored empty one.
MCPristine == (x1 :> red) @@ (x2 :> Air)

MCOneSolid == (x1 :> red)

Symmetry == Permutations(Conn)
=============================================================================
