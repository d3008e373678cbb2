----------------------------- MODULE MCPlayerSlots -----------------------------
\* A small server: two or three peers, three ids, one bot.
EXTENDS PlayerSlots, TLC

ConnSymmetry == Permutations(Conn)
=============================================================================
