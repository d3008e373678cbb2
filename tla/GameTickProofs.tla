--------------------------- MODULE GameTickProofs ---------------------------
(***************************************************************************)
(* Proofs about GameTick, for any number of peers, ids, cells and packets  *)
(* and any limits.  The reservations are settled once because a pending    *)
(* edit is counted by its cells, one by one, wherever the queue moves it;  *)
(* the owner of a pending edit stays because whoever frees an id cancels   *)
(* its edits first; and a share is exact as long as there is a queue.      *)
(***************************************************************************)
EXTENDS GameTick, FiniteSetTheorems, FunctionTheorems, SequenceTheorems,
        WellFoundedInduction, TLAPS

\* An edit costs what it takes.
CostsAreCells == \A k \in DOMAIN mutations : mutations[k].cost = Cardinality(mutations[k].cells)

\* A Player and the roster know each other, and its connection is there.
PeersAgree ==
  /\ \A c \in Conn : InGame(c) => c \in online /\ roster[id[c]] = c
  /\ \A i \in Ids : roster[i] # None => id[roster[i]] = i

\* While there is a queue the shares are the rows in it, and no more than allowed.
SharesAreRows ==
  /\ queue # << >> => \A c \in Conn : counts[c] = Rows(c)
  /\ \A c \in Conn : Rows(c) <= ConnectionCap

IInv ==
  /\ TypeOK /\ CostsAreCells /\ PeersAgree
  /\ NothingOutlivesItsOwner /\ ReservationsSettleOnce /\ SharesAreRows

-----------------------------------------------------------------------------
(* Positions, and what is counted over them.                               *)

\* Held, over the edits of a given queue.
Taken(edit, c, S) == {h \in S \X Cells : edit[h[1]].who = c /\ h[2] \in edit[h[1]].cells}

\* The positions of a queue that hold rows of c.
From(rows, c) == {k \in DOMAIN rows : rows[k].from = c}

\* A set of finite sets has a member of which no other one is a part.
LEMMA MinimalSubset ==
  ASSUME NEW S, NEW T \in SUBSET FiniteSubsetsOf(S), T # {}
  PROVE  \E x \in T : \A y \in T : ~ (y \subseteq x /\ y # x)
<1>1. IsWellFoundedOn(StrictSubsetOrdering(S), FiniteSubsetsOf(S))
  BY FS_StrictSubsetOrderingWellFounded
<1>2. \E x \in T : \A y \in T : ~ (<<y, x>> \in StrictSubsetOrdering(S))
  BY <1>1, WFMin
<1>3. \A y, x \in T : y \subseteq x /\ y # x => <<y, x>> \in StrictSubsetOrdering(S)
  BY DEF StrictSubsetOrdering, FiniteSubsetsOf
<1>4. QED
  BY <1>2, <1>3

\* The least element of a set of natural numbers is one of them.
LEMMA MinIsLeast ==
  ASSUME NEW T \in SUBSET Nat, T # {}
  PROVE  Min(T) \in T /\ \A k \in T : Min(T) <= k
<1> DEFINE Upto == {0..n : n \in T}
<1>1. \A n \in T : 0..n \in FiniteSubsetsOf(Nat)
  BY FS_Interval DEF FiniteSubsetsOf
<1>2. Upto \in SUBSET FiniteSubsetsOf(Nat) /\ Upto # {}
  BY <1>1
<1>3. \E x \in Upto : \A y \in Upto : ~ (y \subseteq x /\ y # x)
  <2> HIDE DEF Upto
  <2> QED
    BY <1>2, MinimalSubset
<1>4. PICK m \in T : \A y \in Upto : ~ (y \subseteq 0..m /\ y # 0..m)
  BY <1>3
<1>5. ASSUME NEW k \in T, k < m PROVE FALSE
  <2>1. 0..k \in Upto
    OBVIOUS
  <2>2. m \in Nat /\ k \in Nat
    OBVIOUS
  <2>3. 0..k \subseteq 0..m /\ m \in 0..m /\ m \notin 0..k
    BY <1>5, <2>2
  <2>4. QED
    BY <1>4, <2>1, <2>3
<1>6. \A k \in T : m <= k
  BY <1>5
<1>7. QED
  BY <1>6 DEF Min

\* The first n positions.
LEMMA Interval == ASSUME NEW n \in Nat PROVE IsFiniteSet(1..n) /\ Cardinality(1..n) = n
<1>1. IsFiniteSet(1..n) /\ Cardinality(1..n) = IF 1 > n THEN 0 ELSE n - 1 + 1
  BY FS_Interval
<1>2. QED
  BY <1>1

\* Some positions of a queue make a queue, no longer and of the same members.
LEMMA PickedIsAQueue ==
  ASSUME NEW T, NEW s \in Seq(T), NEW S \in SUBSET DOMAIN s, NEW order \in InOrder(S)
  PROVE  /\ Picked(s, order) \in Seq(T)
         /\ Len(Picked(s, order)) \in Nat /\ Len(Picked(s, order)) <= Len(s)
         /\ Len(Picked(s, order)) = Cardinality(S)
         /\ DOMAIN Picked(s, order) = DOMAIN order
         /\ order \in Bijection(DOMAIN Picked(s, order), S)
         /\ \A k \in DOMAIN Picked(s, order) :
              order[k] \in S /\ Picked(s, order)[k] = s[order[k]]
<1>1. DOMAIN s = 1..Len(s) /\ Len(s) \in Nat
  OBVIOUS
<1>2. IsFiniteSet(DOMAIN s) /\ Cardinality(DOMAIN s) = Len(s)
  BY <1>1, Interval, Zenon
<1>3. IsFiniteSet(S) /\ Cardinality(S) \in Nat /\ Cardinality(S) <= Len(s)
  BY <1>2, FS_Subset, FS_CardinalityType
<1>4. PICK n \in Nat : n = Cardinality(S)
  BY <1>3
<1>5. order \in Bijection(1..n, S)
  BY <1>4 DEF InOrder
<1>6. order \in [1..n -> S]
  BY <1>5 DEF Bijection, Injection
<1>7. Picked(s, order) = [k \in 1..n |-> s[order[k]]]
  BY <1>6 DEF Picked
<1>8. \A k \in 1..n : s[order[k]] \in T
  BY <1>6
<1>9. Picked(s, order) \in Seq(T) /\ Len(Picked(s, order)) = n
  BY <1>7, <1>8
<1>10. QED
  BY <1>3, <1>4, <1>5, <1>6, <1>7, <1>9

\* There are finitely many blocks to give back.
LEMMA TakenCounted ==
  ASSUME NEW edit, NEW c, NEW S, IsFiniteSet(S)
  PROVE  IsFiniteSet(Taken(edit, c, S)) /\ Cardinality(Taken(edit, c, S)) \in Nat
<1>1. IsFiniteSet(S \X Cells)
  BY FS_Product, TickAssumption
<1>2. Taken(edit, c, S) \in SUBSET (S \X Cells)
  BY DEF Taken
<1>3. QED
  BY <1>1, <1>2, FS_Subset, FS_CardinalityType

\* Edits that move in the queue hold what they held.
LEMMA TakenMoves ==
  ASSUME NEW old, NEW new, NEW c, NEW S, NEW T, IsFiniteSet(T), NEW to \in Bijection(T, S),
         \A k \in T : new[k].who = old[to[k]].who /\ new[k].cells = old[to[k]].cells
  PROVE  Cardinality(Taken(new, c, T)) = Cardinality(Taken(old, c, S))
<1> DEFINE F == [h \in Taken(new, c, T) |-> <<to[h[1]], h[2]>>]
<1>1. /\ to \in [T -> S]
      /\ \A a, b \in T : to[a] = to[b] => a = b
      /\ \A t \in S : \E s \in T : to[s] = t
  BY Fun_BijectionProperties
<1>2. ASSUME NEW h \in Taken(new, c, T)
      PROVE  h[1] \in T /\ h[2] \in Cells /\ h = <<h[1], h[2]>>
             /\ new[h[1]].who = c /\ h[2] \in new[h[1]].cells
  BY <1>2 DEF Taken
<1>3. \A h \in Taken(new, c, T) : F[h] \in Taken(old, c, S)
  <2> TAKE h \in Taken(new, c, T)
  <2>1. h[1] \in T /\ h[2] \in Cells /\ new[h[1]].who = c /\ h[2] \in new[h[1]].cells
    BY <1>2
  <2>2. PICK k \in S : k = to[h[1]]
    BY <1>1, <2>1
  <2>3. old[k].who = c /\ h[2] \in old[k].cells
    BY <2>1, <2>2
  <2>4. <<k, h[2]>> \in S \X Cells
    BY <2>1
  <2>5. <<k, h[2]>> \in Taken(old, c, S)
    BY <2>3, <2>4 DEF Taken
  <2>6. QED
    BY <2>2, <2>5
<1>4. F \in [Taken(new, c, T) -> Taken(old, c, S)]
  BY <1>3
<1>5. \A g, h \in Taken(new, c, T) : F[g] = F[h] => g = h
  <2> TAKE g, h \in Taken(new, c, T)
  <2> HAVE F[g] = F[h]
  <2>1. to[g[1]] = to[h[1]] /\ g[2] = h[2]
    OBVIOUS
  <2>2. g[1] = h[1]
    BY <1>1, <1>2, <2>1
  <2>3. g = <<g[1], g[2]>> /\ h = <<h[1], h[2]>>
    BY <1>2
  <2>4. QED
    BY <2>1, <2>2, <2>3
<1>6. \A g \in Taken(old, c, S) : \E h \in Taken(new, c, T) : F[h] = g
  <2> TAKE g \in Taken(old, c, S)
  <2>1. g[1] \in S /\ g[2] \in Cells /\ g = <<g[1], g[2]>>
        /\ old[g[1]].who = c /\ g[2] \in old[g[1]].cells
    BY DEF Taken
  <2>2. PICK k \in T : to[k] = g[1]
    BY <1>1, <2>1
  <2>3. new[k].who = c /\ g[2] \in new[k].cells
    BY <2>1, <2>2
  <2>4. <<k, g[2]>> \in Taken(new, c, T)
    BY <2>1, <2>3 DEF Taken
  <2>5. F[<<k, g[2]>>] = <<to[k], g[2]>>
    BY <2>4
  <2>6. QED
    BY <2>1, <2>2, <2>4, <2>5
<1>7. F \in Bijection(Taken(new, c, T), Taken(old, c, S))
  <2> HIDE DEF F
  <2> QED
    BY <1>4, <1>5, <1>6, Fun_IsBij
<1>8. QED
  <2> HIDE DEF F
  <2>1. ExistsBijection(Taken(new, c, T), Taken(old, c, S))
    BY <1>7 DEF ExistsBijection
  <2>2. QED
    BY <2>1, TakenCounted, FS_Bijection

\* What is held depends on the builder and the cells only.
LEMMA TakenSame ==
  ASSUME NEW old, NEW new, NEW c, NEW S,
         \A k \in S : new[k].who = old[k].who /\ new[k].cells = old[k].cells
  PROVE  Taken(new, c, S) = Taken(old, c, S)
<1>1. ASSUME NEW h \in S \X Cells
      PROVE  new[h[1]].who = old[h[1]].who /\ new[h[1]].cells = old[h[1]].cells
  <2>1. h[1] \in S
    OBVIOUS
  <2>2. QED
    BY <2>1
<1>2. QED
  BY <1>1 DEF Taken

\* What two groups of edits hold adds up.
LEMMA TakenSplits ==
  ASSUME NEW edit, NEW c, NEW S, NEW R, IsFiniteSet(S), IsFiniteSet(R), S \cap R = {}
  PROVE  Cardinality(Taken(edit, c, S \cup R))
           = Cardinality(Taken(edit, c, S)) + Cardinality(Taken(edit, c, R))
<1>1. Taken(edit, c, S \cup R) = Taken(edit, c, S) \cup Taken(edit, c, R)
  BY DEF Taken
<1>2. Taken(edit, c, S) \cap Taken(edit, c, R) = {}
  BY DEF Taken
<1>3. IsFiniteSet(Taken(edit, c, S)) /\ IsFiniteSet(Taken(edit, c, R))
      /\ Cardinality(Taken(edit, c, S)) \in Nat /\ Cardinality(Taken(edit, c, R)) \in Nat
  BY TakenCounted
<1>4. Cardinality(Taken(edit, c, S) \cup Taken(edit, c, R))
        = Cardinality(Taken(edit, c, S)) + Cardinality(Taken(edit, c, R))
          - Cardinality(Taken(edit, c, S) \cap Taken(edit, c, R))
  BY <1>3, FS_Union
<1>5. Cardinality(Taken(edit, c, S) \cap Taken(edit, c, R)) = 0
  BY <1>2, FS_EmptySet
<1>6. PICK a \in Nat, b \in Nat : a = Cardinality(Taken(edit, c, S)) /\ b = Cardinality(Taken(edit, c, R))
  BY <1>3
<1>7. Cardinality(Taken(edit, c, S) \cup Taken(edit, c, R)) = a + b
  BY <1>4, <1>5, <1>6
<1>8. Cardinality(Taken(edit, c, S \cup R)) = a + b
  BY <1>1, <1>7, Zenon
<1>9. QED
  BY <1>6, <1>8

\* One edit holds its cells.
LEMMA TakenOfOne ==
  ASSUME NEW edit, NEW c, NEW k, edit[k].cells \subseteq Cells
  PROVE  Cardinality(Taken(edit, c, {k}))
           = IF edit[k].who = c THEN Cardinality(edit[k].cells) ELSE 0
<1>1. CASE edit[k].who # c
  <2>1. Taken(edit, c, {k}) = {}
    BY <1>1 DEF Taken
  <2>2. QED
    BY <1>1, <2>1, FS_EmptySet
<1>2. CASE edit[k].who = c
  <2> DEFINE F == [x \in edit[k].cells |-> <<k, x>>]
  <2>1. Taken(edit, c, {k}) = {k} \X edit[k].cells
    BY <1>2 DEF Taken
  <2>2. F \in [edit[k].cells -> Taken(edit, c, {k})]
    BY <2>1
  <2>3. \A x, y \in edit[k].cells : F[x] = F[y] => x = y
    OBVIOUS
  <2>4. \A h \in Taken(edit, c, {k}) : \E x \in edit[k].cells : F[x] = h
    BY <2>1
  <2>5. F \in Bijection(edit[k].cells, Taken(edit, c, {k}))
    <3> HIDE DEF F
    <3> QED
      BY <2>2, <2>3, <2>4, Fun_IsBij
  <2>6. ExistsBijection(edit[k].cells, Taken(edit, c, {k}))
    BY <2>5 DEF ExistsBijection
  <2>7. IsFiniteSet(edit[k].cells)
    BY FS_Subset, TickAssumption
  <2>8. QED
    BY <1>2, <2>6, <2>7, FS_Bijection
<1>3. QED
  BY <1>1, <1>2

\* Nothing is held by no edit.
LEMMA TakenOfNone == ASSUME NEW edit, NEW c PROVE Cardinality(Taken(edit, c, {})) = 0
<1>1. Taken(edit, c, {}) = {}
  BY DEF Taken
<1>2. QED
  BY <1>1, FS_EmptySet

\* A peer has finitely many rows in a queue.
LEMMA FromCounted ==
  ASSUME NEW T, NEW rows \in Seq(T), NEW c
  PROVE  IsFiniteSet(From(rows, c)) /\ Cardinality(From(rows, c)) \in Nat
<1>1. IsFiniteSet(DOMAIN rows)
  BY FS_Interval
<1>2. From(rows, c) \in SUBSET DOMAIN rows
  BY DEF From
<1>3. QED
  BY <1>1, <1>2, FS_Subset, FS_CardinalityType

\* A new queue has the rows S of the old one.
Rearranged(old, new, S, to) ==
  /\ to \in Bijection(DOMAIN new, S)
  /\ \A k \in DOMAIN new : new[k] = old[to[k]]

\* Rows that stay, in new places, are as many.
LEMMA FromMoves ==
  ASSUME NEW T, NEW old \in Seq(T), NEW new \in Seq(T), NEW c, NEW S \in SUBSET DOMAIN old,
         NEW to, Rearranged(old, new, S, to)
  PROVE  Cardinality(From(new, c)) = Cardinality(From(old, c) \cap S)
<1> DEFINE F == [k \in From(new, c) |-> to[k]]
<1>1. /\ to \in [DOMAIN new -> S]
      /\ \A a, b \in DOMAIN new : to[a] = to[b] => a = b
      /\ \A t \in S : \E s \in DOMAIN new : to[s] = t
      /\ \A k \in DOMAIN new : new[k] = old[to[k]]
  BY Fun_BijectionProperties DEF Rearranged
<1>2. \A k \in From(new, c) : to[k] \in From(old, c) \cap S
  BY <1>1 DEF From
<1>3. F \in [From(new, c) -> From(old, c) \cap S]
  BY <1>2
<1>4. \A j, k \in From(new, c) : F[j] = F[k] => j = k
  BY <1>1 DEF From
<1>5. \A i \in From(old, c) \cap S : \E k \in From(new, c) : F[k] = i
  BY <1>1 DEF From
<1>6. F \in Bijection(From(new, c), From(old, c) \cap S)
  <2> HIDE DEF F
  <2> QED
    BY <1>3, <1>4, <1>5, Fun_IsBij
<1>7. QED
  <2> HIDE DEF F
  <2>1. ExistsBijection(From(new, c), From(old, c) \cap S)
    BY <1>6 DEF ExistsBijection
  <2>2. QED
    BY <2>1, FromCounted, FS_Bijection

-----------------------------------------------------------------------------
(* The invariant, part by part.                                            *)

\* The operators of the model are those of the lemmas.
LEMMA HeldIsTaken ==
  ASSUME NEW c
  PROVE  /\ \A S : Held(c, S) = Taken(mutations, c, S)
         /\ Reserved(c) = Cardinality(Taken(mutations, c, DOMAIN mutations))
         /\ Reserved(c)' = Cardinality(Taken(mutations', c, DOMAIN mutations'))
         /\ Rows(c) = Cardinality(From(queue, c))
         /\ Rows(c)' = Cardinality(From(queue', c))
  BY DEF Held, Reserved, Taken, Rows, From

\* The positions of the pending edits.
LEMMA Pending ==
  ASSUME TypeOK
  PROVE  /\ DOMAIN mutations = 1..Len(mutations) /\ Len(mutations) \in Nat
         /\ IsFiniteSet(DOMAIN mutations)
         /\ \A S \in SUBSET DOMAIN mutations : IsFiniteSet(S)
         /\ \A k \in DOMAIN mutations : mutations[k] \in EditShape
<1>1. mutations \in Seq(EditShape)
  BY DEF TypeOK
<1>2. DOMAIN mutations = 1..Len(mutations) /\ Len(mutations) \in Nat
      /\ \A k \in DOMAIN mutations : mutations[k] \in EditShape
  BY <1>1
<1>3. IsFiniteSet(DOMAIN mutations)
  BY <1>2, FS_Interval
<1>4. QED
  BY <1>2, <1>3, FS_Subset

\* What a settlement leaves: wallets within bounds, and a debt for the rest.
LEMMA SettleResult ==
  ASSUME IInv, NEW cancelled \in SUBSET DOMAIN mutations, NEW placed \in SUBSET DOMAIN mutations,
         Settle(cancelled, placed)
  PROVE  /\ blocks' \in [Conn -> 0..Wallet] /\ solid' \subseteq Cells
         /\ ledger' \in [Conn -> Int]
         /\ \A c \in Conn :
              ledger'[c] = ledger[c] - Cardinality(Taken(mutations, c, cancelled \cup placed))
<1> USE DEF IInv
<1>1. ASSUME NEW c \in Conn PROVE Refund(c, cancelled) \in 0..Wallet
  <2>1. IsFiniteSet(cancelled)
    BY Pending
  <2>2. IsFiniteSet(Held(c, cancelled))
    BY <2>1, TakenCounted, HeldIsTaken
  <2>3. {h \in Held(c, cancelled) : mutations[h[1]].join = joins[c]} \in SUBSET Held(c, cancelled)
    OBVIOUS
  <2>4. Returned(c, cancelled) \in Nat
    BY <2>2, <2>3, FS_Subset, FS_CardinalityType DEF Returned
  <2>5. blocks[c] \in 0..Wallet /\ Wallet \in Nat
    BY TickAssumption DEF TypeOK
  <2>6. QED
    BY <2>4, <2>5 DEF Refund
<1>2. blocks' \in [Conn -> 0..Wallet]
  BY <1>1 DEF Settle
<1>3. solid' \subseteq Cells
  <2>1. \A k \in placed : mutations[k].cells \subseteq Cells
    BY Pending DEF EditShape
  <2>2. QED
    BY <2>1 DEF Settle, TypeOK
<1>4. ASSUME NEW c \in Conn
      PROVE  /\ Cardinality(Taken(mutations, c, cancelled \cup placed)) \in Nat
             /\ ledger[c] \in Int
  BY Pending, TakenCounted DEF TypeOK
<1>5. ledger' = [c \in Conn |-> ledger[c] - Cardinality(Taken(mutations, c, cancelled \cup placed))]
  BY HeldIsTaken DEF Settle
<1>6. ledger' \in [Conn -> Int]
  BY <1>4, <1>5
<1>7. QED
  BY <1>2, <1>3, <1>5, <1>6

\* The queue after some edits are taken out of it, of whose members the rest are moved.
Remaining(S, to) ==
  /\ mutations' \in Seq(EditShape) /\ Len(mutations') <= MutationLimit
  /\ IsFiniteSet(DOMAIN mutations')
  /\ to \in Bijection(DOMAIN mutations', S)
  /\ \A k \in DOMAIN mutations' : to[k] \in S /\ mutations'[k] = mutations[to[k]]

\* An owner of the remaining edits was one before, and a cost is still a number of cells.
LEMMA RemainingKeeps ==
  ASSUME IInv, NEW S \in SUBSET DOMAIN mutations, NEW to, Remaining(S, to)
  PROVE  /\ CostsAreCells'
         /\ \A c : Reserved(c)' = Cardinality(Taken(mutations, c, S))
<1> USE DEF IInv
<1>1. CostsAreCells'
  BY DEF CostsAreCells, Remaining
<1>2. ASSUME NEW c PROVE Reserved(c)' = Cardinality(Taken(mutations, c, S))
  <2>1. \A k \in DOMAIN mutations' : /\ mutations'[k].who = mutations[to[k]].who
                                     /\ mutations'[k].cells = mutations[to[k]].cells
    BY DEF Remaining
  <2>2. Cardinality(Taken(mutations', c, DOMAIN mutations')) = Cardinality(Taken(mutations, c, S))
    BY <2>1, TakenMoves DEF Remaining
  <2>3. QED
    BY <2>2, HeldIsTaken
<1>3. QED
  BY <1>1, <1>2

\* Edits picked in their order remain.
LEMMA PickedRemains ==
  ASSUME IInv, NEW S \in SUBSET DOMAIN mutations, NEW order \in InOrder(S),
         mutations' = Picked(mutations, order)
  PROVE  Remaining(S, order)
<1> USE DEF IInv
<1>1. mutations \in Seq(EditShape) /\ Len(mutations) <= MutationLimit
      /\ Len(mutations) \in Nat /\ MutationLimit \in Nat
  BY TickAssumption DEF TypeOK
<1>2. /\ mutations' \in Seq(EditShape)
      /\ Len(mutations') \in Nat /\ Len(mutations') <= Len(mutations)
      /\ order \in Bijection(DOMAIN mutations', S)
      /\ \A k \in DOMAIN mutations' : order[k] \in S /\ mutations'[k] = mutations[order[k]]
  BY <1>1, PickedIsAQueue
<1>3. IsFiniteSet(DOMAIN mutations')
  <2>1. DOMAIN mutations' = 1..Len(mutations')
    BY <1>2
  <2>2. IsFiniteSet(1..Len(mutations'))
    BY <1>2, Interval, Zenon
  <2>3. QED
    BY <2>1, <2>2
<1>4. QED
  BY <1>1, <1>2, <1>3 DEF Remaining

\* Some edits are settled, and the others stay in their order.
Settled(cancelled, placed, R) ==
  /\ cancelled \in SUBSET DOMAIN mutations /\ placed \in SUBSET DOMAIN mutations
  /\ Settle(cancelled, placed) /\ lost' = lost
  /\ R = DOMAIN mutations \ (cancelled \cup placed)
  /\ \E order \in InOrder(R) : mutations' = Picked(mutations, order)

\* A settlement is exact: the edits that remain hold what is still owed.
LEMMA SettledRest ==
  ASSUME IInv, NEW cancelled, NEW placed, NEW R, Settled(cancelled, placed, R)
  PROVE  /\ blocks' \in [Conn -> 0..Wallet] /\ solid' \subseteq Cells
         /\ ledger' \in [Conn -> Int]
         /\ mutations' \in Seq(EditShape) /\ Len(mutations') <= MutationLimit
         /\ CostsAreCells' /\ ReservationsSettleOnce'
         /\ \A k \in DOMAIN mutations' : \E j \in R : mutations'[k] = mutations[j]
<1> DEFINE S == cancelled \cup placed
<1>0. /\ cancelled \in SUBSET DOMAIN mutations /\ placed \in SUBSET DOMAIN mutations
      /\ Settle(cancelled, placed) /\ lost' = lost
      /\ R = DOMAIN mutations \ S /\ R \in SUBSET DOMAIN mutations
  BY DEF Settled
<1>1. /\ blocks' \in [Conn -> 0..Wallet] /\ solid' \subseteq Cells
      /\ ledger' \in [Conn -> Int]
      /\ \A c \in Conn : ledger'[c] = ledger[c] - Cardinality(Taken(mutations, c, S))
  BY <1>0, SettleResult
<1>2. PICK order \in InOrder(R) : mutations' = Picked(mutations, order)
  BY DEF Settled
<1>3. Remaining(R, order)
  BY <1>0, <1>2, PickedRemains
<1>4. CostsAreCells' /\ \A c : Reserved(c)' = Cardinality(Taken(mutations, c, R))
  BY <1>0, <1>3, RemainingKeeps
<1>5. ASSUME NEW c \in Conn PROVE ledger'[c] = Reserved(c)' + lost'[c]
  <2>1. IsFiniteSet(S) /\ IsFiniteSet(R) /\ S \cup R = DOMAIN mutations /\ S \cap R = {}
    BY <1>0, Pending DEF IInv
  <2>2. Reserved(c) = Cardinality(Taken(mutations, c, S)) + Cardinality(Taken(mutations, c, R))
    <3> HIDE DEF S
    <3> QED
      BY <2>1, TakenSplits, HeldIsTaken
  <2>3. PICK a \in Nat, b \in Nat : a = Cardinality(Taken(mutations, c, S))
                                    /\ b = Cardinality(Taken(mutations, c, R))
    BY <2>1, TakenCounted
  <2>4. ledger[c] = a + b + lost[c] /\ lost[c] \in Nat
    BY <2>2, <2>3 DEF IInv, ReservationsSettleOnce, TypeOK
  <2>5. ledger'[c] = ledger[c] - a /\ Reserved(c)' = b
    BY <1>1, <1>4, <2>3
  <2>6. QED
    BY <1>0, <2>4, <2>5
<1>6. ReservationsSettleOnce'
  BY <1>5 DEF ReservationsSettleOnce
<1>7. QED
  BY <1>1, <1>3, <1>4, <1>6 DEF Remaining

\* A cancel gives back all that the edits hold, and no other edit is touched.
LEMMA CancelResult ==
  ASSUME IInv, NEW S \in SUBSET DOMAIN mutations, Cancel(S), lost' = lost
  PROVE  /\ blocks' \in [Conn -> 0..Wallet] /\ solid' \subseteq Cells
         /\ ledger' \in [Conn -> Int]
         /\ mutations' \in Seq(EditShape) /\ Len(mutations') <= MutationLimit
         /\ CostsAreCells' /\ ReservationsSettleOnce'
         /\ \A k \in DOMAIN mutations' : \E j \in DOMAIN mutations \ S : mutations'[k] = mutations[j]
<1>1. PICK R : R = DOMAIN mutations \ S
  OBVIOUS
<1>2. Settled(S, {}, R)
  BY <1>1 DEF Cancel, Settled
<1>4. /\ blocks' \in [Conn -> 0..Wallet] /\ solid' \subseteq Cells
      /\ ledger' \in [Conn -> Int]
      /\ mutations' \in Seq(EditShape) /\ Len(mutations') <= MutationLimit
      /\ CostsAreCells' /\ ReservationsSettleOnce'
      /\ \A k \in DOMAIN mutations' : \E j \in R : mutations'[k] = mutations[j]
  BY <1>2, SettledRest
<1>5. QED
  BY <1>1, <1>4

\* What an action that leaves the edits alone keeps.
LEMMA AccountsKept ==
  ASSUME IInv, UNCHANGED <<mutations, ledger, lost>>
  PROVE  CostsAreCells' /\ ReservationsSettleOnce'
  BY DEF IInv, CostsAreCells, ReservationsSettleOnce, Reserved, Held

\* What an action that leaves the queue and its shares alone keeps.
LEMMA SharesKept == ASSUME IInv, UNCHANGED queueVars PROVE SharesAreRows'
  BY DEF IInv, SharesAreRows, Rows, queueVars

\* A queue that is emptied bears no shares.
LEMMA EmptyQueueShares == ASSUME queue' = << >> PROVE SharesAreRows'
<1>1. \A c : From(queue', c) = {}
  BY DEF From
<1>2. \A c : Rows(c)' = 0
  BY <1>1, HeldIsTaken, FS_EmptySet
<1>3. QED
  BY <1>2, TickAssumption DEF SharesAreRows

\* A share is the number of rows, the share of a peer in an empty queue too.
LEMMA SharesCounted ==
  ASSUME IInv, NEW c \in Conn
  PROVE  Shares(c) = Rows(c) /\ Rows(c) \in Nat /\ Rows(c) <= ConnectionCap
<1> USE DEF IInv
<1>1. Rows(c) \in Nat
  BY FromCounted, HeldIsTaken DEF TypeOK
<1>2. CASE queue = << >>
  <2>1. From(queue, c) = {}
    BY <1>2 DEF From
  <2>2. Rows(c) = 0
    BY <2>1, HeldIsTaken, FS_EmptySet
  <2>3. QED
    BY <1>1, <1>2, <2>2 DEF Shares, SharesAreRows
<1>3. CASE queue # << >>
  BY <1>1, <1>3 DEF Shares, SharesAreRows
<1>4. QED
  BY <1>2, <1>3

\* A row that arrives is counted when it is queued, and is refused to a full share only.
LEMMA ReceiveResult ==
  ASSUME IInv, NEW c \in Conn, NEW row \in RowShape, row.from = c, Receive(c, row)
  PROVE  /\ queue' \in Seq(RowShape) /\ Len(queue') <= MaxPending
         /\ counts' \in [Conn -> Nat]
         /\ SharesAreRows'
         /\ \A k \in DOMAIN queue' : (k \in DOMAIN queue /\ queue'[k] = queue[k])
                                     \/ queue'[k].from = c
         /\ queue' = queue => Rows(c) = ConnectionCap \/ Len(queue) = MaxPending
<1> USE DEF IInv
<1>1. queue \in Seq(RowShape) /\ Len(queue) \in Nat /\ Len(queue) <= MaxPending
      /\ ConnectionCap \in Nat /\ MaxPending \in Nat
  BY TickAssumption DEF TypeOK
<1>2. CASE Accepts(c)
  <2>1. queue' = Append(queue, row)
        /\ counts' = [d \in Conn |-> Shares(d) + IF d = c THEN 1 ELSE 0]
    BY <1>2 DEF Receive
  <2>2. /\ queue' \in Seq(RowShape) /\ Len(queue') = Len(queue) + 1 /\ queue' # << >>
        /\ \A k \in 1..Len(queue) : queue'[k] = queue[k]
        /\ queue'[Len(queue) + 1] = row
        /\ DOMAIN queue' = 1..(Len(queue) + 1) /\ DOMAIN queue = 1..Len(queue)
    BY <1>1, <2>1, AppendProperties
  <2>3. Shares(c) < ConnectionCap /\ Len(queue) < MaxPending
    BY <1>2 DEF Accepts
  <2>4. counts' \in [Conn -> Nat]
    BY <2>1, SharesCounted
  <2>5. ASSUME NEW d \in Conn PROVE counts'[d] = Rows(d)' /\ Rows(d)' <= ConnectionCap
    <3>1. Rows(d) \in Nat /\ Shares(d) = Rows(d) /\ Rows(d) <= ConnectionCap
      BY SharesCounted
    <3>2. IsFiniteSet(From(queue, d)) /\ Rows(d) = Cardinality(From(queue, d))
      BY <1>1, FromCounted, HeldIsTaken
    <3>3. CASE d = c
      <4>1. From(queue', d) = From(queue, d) \cup {Len(queue) + 1}
        BY <1>1, <2>2, <3>3 DEF From
      <4>2. Len(queue) + 1 \notin From(queue, d)
        BY <1>1, <2>2 DEF From
      <4>3. Cardinality(From(queue, d) \cup {Len(queue) + 1}) = Cardinality(From(queue, d)) + 1
        BY <3>2, <4>2, FS_AddElement
      <4>4. Rows(d)' = Rows(d) + 1
        BY <3>2, <4>1, <4>3, HeldIsTaken
      <4>5. QED
        BY <1>1, <2>1, <2>3, <3>1, <3>3, <4>4
    <3>4. CASE d # c
      <4>1. From(queue', d) = From(queue, d)
        BY <1>1, <2>2, <3>4 DEF From
      <4>2. Rows(d)' = Rows(d)
        BY <3>2, <4>1, HeldIsTaken
      <4>3. QED
        BY <2>1, <3>1, <3>4, <4>2
    <3>5. QED
      BY <3>3, <3>4
  <2>6. SharesAreRows'
    BY <2>5 DEF SharesAreRows
  <2>7. queue' # queue
    BY <1>1, <2>2
  <2>8. Len(queue') <= MaxPending
    BY <1>1, <2>2, <2>3
  <2>9. \A k \in DOMAIN queue' : (k \in DOMAIN queue /\ queue'[k] = queue[k])
                                 \/ queue'[k].from = c
    BY <1>1, <2>2
  <2>10. QED
    BY <2>2, <2>4, <2>6, <2>7, <2>8, <2>9
<1>3. CASE ~Accepts(c)
  <2>1. queue' = queue /\ counts' = [d \in Conn |-> Shares(d)]
    BY <1>3 DEF Receive
  <2>2. counts' \in [Conn -> Nat]
    BY <2>1, SharesCounted
  <2>3. \A d \in Conn : Rows(d)' = Rows(d)
    BY <2>1 DEF Rows
  <2>4. SharesAreRows'
    BY <2>1, <2>3, SharesCounted DEF SharesAreRows
  <2>5. Rows(c) = ConnectionCap \/ Len(queue) = MaxPending
    BY <1>1, <1>3, SharesCounted DEF Accepts
  <2>6. QED
    BY <1>1, <2>1, <2>2, <2>4, <2>5
<1>4. QED
  BY <1>2, <1>3

-----------------------------------------------------------------------------
(* The invariant, action by action: peers.                                 *)

\* Nobody is there and nothing is queued at the start.
LEMMA InitInv == Init => IInv
<1> SUFFICES ASSUME Init PROVE IInv
  OBVIOUS
<1>1. /\ mutations = << >> /\ queue = << >> /\ batch = << >>
      /\ Len(<< >>) = 0 /\ DOMAIN << >> = {}
      /\ << >> \in Seq(RowShape) /\ << >> \in Seq(EditShape)
  BY DEF Init
<1>2. \A c \in Conn : Reserved(c) = 0 /\ Rows(c) = 0
  <2>1. \A c : From(queue, c) = {}
    BY <1>1 DEF From
  <2>2. \A c : Cardinality(From(queue, c)) = 0
    BY <2>1, FS_EmptySet
  <2>3. \A c : Cardinality(Taken(mutations, c, DOMAIN mutations)) = 0
    BY <1>1, TakenOfNone
  <2>4. QED
    BY <2>2, <2>3, HeldIsTaken
<1>3. TypeOK
  BY <1>1, TickAssumption DEF Init, TypeOK
<1>4. CostsAreCells /\ NothingOutlivesItsOwner
  BY <1>1 DEF CostsAreCells, NothingOutlivesItsOwner
<1>5. PeersAgree
  BY DEF Init, PeersAgree, InGame
<1>6. ReservationsSettleOnce
  BY <1>2 DEF Init, ReservationsSettleOnce
<1>7. SharesAreRows
  BY <1>1, <1>2, TickAssumption DEF SharesAreRows
<1>8. QED
  BY <1>3, <1>4, <1>5, <1>6, <1>7 DEF IInv

\* The connection owns nothing yet.
LEMMA ConnectInv == ASSUME IInv, NEW c \in Conn, Connect(c) PROVE IInv'
<1> USE DEF IInv
<1>1. UNCHANGED <<id, roster, mutations, queue, counts, ledger, lost>>
      /\ joins' = [joins EXCEPT ![c] = 1] /\ online' = online \cup {c} /\ c \notin online
  BY DEF Connect, queueVars, editVars, tallyVars
<1>2. TypeOK'
  BY DEF TypeOK, Connect, clientVars, queueVars, tickVars, bodyVars, editVars, tallyVars
<1>3. CostsAreCells' /\ ReservationsSettleOnce'
  BY <1>1, AccountsKept
<1>4. SharesAreRows'
  BY <1>1, SharesKept DEF queueVars
<1>5. PeersAgree'
  BY <1>1 DEF PeersAgree, InGame
<1>6. NothingOutlivesItsOwner'
  <2>1. ASSUME NEW k \in DOMAIN mutations
        PROVE  joins'[mutations[k].who] = mutations[k].join
    <3>1. mutations[k].owner \in Ids /\ mutations[k].who \in Conn
      BY Pending DEF EditShape
    <3>2. id[mutations[k].who] = mutations[k].owner /\ joins[mutations[k].who] = mutations[k].join
      BY DEF NothingOutlivesItsOwner
    <3>3. mutations[k].who \in online
      BY <3>1, <3>2, TickAssumption DEF PeersAgree, InGame
    <3>4. QED
      BY <1>1, <3>1, <3>2, <3>3 DEF TypeOK
  <2>2. QED
    BY <1>1, <2>1 DEF NothingOutlivesItsOwner
<1>7. QED
  BY <1>2, <1>3, <1>4, <1>5, <1>6

\* The id was free, so no pending edit names it; the peer had no Player, so none is its own.
LEMMA JoinInv == ASSUME IInv, NEW c \in Conn, Join(c) PROVE IInv'
<1> USE DEF IInv
<1>1. UNCHANGED <<online, joins, mutations, queue, counts, ledger, lost>>
      /\ c \in online /\ ~InGame(c)
  BY DEF Join, queueVars, tallyVars
<1>2. PICK i \in Ids : /\ roster[i] = None
                       /\ id' = [id EXCEPT ![c] = i]
                       /\ roster' = [roster EXCEPT ![i] = c]
  BY DEF Join
<1>3. /\ id \in [Conn -> Ids \cup {0}] /\ roster \in [Ids -> Conn \cup {None}]
      /\ 0 \notin Ids /\ None \notin Conn
  BY TickAssumption DEF TypeOK
<1>4. id[c] = 0
  BY <1>1 DEF InGame
<1>5. TypeOK'
  <2>1. id' \in [Conn -> Ids \cup {0}] /\ roster' \in [Ids -> Conn \cup {None}]
    BY <1>2, <1>3
  <2>2. blocks' \in [Conn -> 0..Wallet]
    BY TickAssumption DEF Join, TypeOK
  <2>3. history' \in [Conn -> SUBSET Nat] /\ applied' \in [Conn -> Nat \cup {NoLoop}]
    BY DEF Join, TypeOK
  <2>4. QED
    BY <2>1, <2>2, <2>3 DEF Join, TypeOK, clientVars, queueVars, tickVars, tallyVars
<1>6. CostsAreCells' /\ ReservationsSettleOnce'
  BY <1>1, AccountsKept
<1>7. SharesAreRows'
  BY <1>1, SharesKept DEF queueVars
<1>8. PeersAgree'
  <2>1. ASSUME NEW d \in Conn, id'[d] # 0 PROVE d \in online' /\ roster'[id'[d]] = d
    <3>1. CASE d = c
      BY <1>1, <1>2, <1>3, <3>1
    <3>2. CASE d # c
      <4>1. id'[d] = id[d] /\ id[d] # 0 /\ id[d] \in Ids
        BY <1>2, <1>3, <2>1, <3>2
      <4>2. d \in online /\ roster[id[d]] = d
        BY <4>1 DEF PeersAgree, InGame
      <4>3. id[d] # i
        BY <1>2, <1>3, <4>2
      <4>4. QED
        BY <1>1, <1>2, <1>3, <4>1, <4>2, <4>3
    <3>3. QED
      BY <3>1, <3>2
  <2>2. ASSUME NEW j \in Ids, roster'[j] # None PROVE id'[roster'[j]] = j
    <3>1. CASE j = i
      BY <1>2, <1>3, <3>1
    <3>2. CASE j # i
      <4>1. roster'[j] = roster[j] /\ roster[j] \in Conn
        BY <1>2, <1>3, <2>2, <3>2
      <4>2. id[roster[j]] = j
        BY <2>2, <4>1 DEF PeersAgree
      <4>3. roster[j] # c
        BY <1>3, <1>4, <4>2
      <4>4. QED
        BY <1>2, <1>3, <4>1, <4>2, <4>3
    <3>3. QED
      BY <3>1, <3>2
  <2>3. QED
    BY <2>1, <2>2 DEF PeersAgree, InGame
<1>9. NothingOutlivesItsOwner'
  <2>1. ASSUME NEW k \in DOMAIN mutations
        PROVE  LET m == mutations[k]
               IN  roster'[m.owner] = m.who /\ id'[m.who] = m.owner /\ joins'[m.who] = m.join
    <3>1. PICK m : m = mutations[k]
      OBVIOUS
    <3>2. m.owner \in Ids /\ m.who \in Conn
      BY <3>1, Pending DEF EditShape
    <3>3. roster[m.owner] = m.who /\ id[m.who] = m.owner /\ joins[m.who] = m.join
      BY <3>1 DEF NothingOutlivesItsOwner
    <3>4. m.owner # i /\ m.who # c
      BY <1>2, <1>3, <1>4, <3>2, <3>3
    <3>5. roster'[m.owner] = m.who /\ id'[m.who] = m.owner /\ joins'[m.who] = m.join
      BY <1>1, <1>2, <1>3, <3>2, <3>3, <3>4
    <3>6. QED
      BY <3>1, <3>5
  <2>2. QED
    BY <1>1, <2>1 DEF NothingOutlivesItsOwner
<1>10. QED
  BY <1>5, <1>6, <1>7, <1>8, <1>9

\* The rows of the others stay, each counted once.
LEMMA ForgottenRows ==
  ASSUME IInv, NEW c \in Conn,
         \E order \in InOrder({k \in DOMAIN queue : queue[k].from # c}) :
           queue' = Picked(queue, order),
         counts' = [counts EXCEPT ![c] = 0]
  PROVE  /\ queue' \in Seq(RowShape) /\ Len(queue') <= MaxPending
         /\ counts' \in [Conn -> Nat]
         /\ SharesAreRows'
         /\ \A k \in DOMAIN queue' : \E j \in DOMAIN queue : queue[j].from # c /\ queue'[k] = queue[j]
<1> DEFINE S == {k \in DOMAIN queue : queue[k].from # c}
<1> USE DEF IInv
<1>1. queue \in Seq(RowShape) /\ Len(queue) \in Nat /\ Len(queue) <= MaxPending
      /\ MaxPending \in Nat /\ counts \in [Conn -> Nat]
  BY TickAssumption DEF TypeOK
<1>2. PICK order \in InOrder(S) : queue' = Picked(queue, order)
  OBVIOUS
<1>3. /\ queue' \in Seq(RowShape)
      /\ Len(queue') \in Nat /\ Len(queue') <= Len(queue)
      /\ order \in Bijection(DOMAIN queue', S)
      /\ \A k \in DOMAIN queue' : order[k] \in S /\ queue'[k] = queue[order[k]]
  BY <1>1, <1>2, PickedIsAQueue
<1>4. counts' \in [Conn -> Nat]
  BY <1>1
<1>5. ASSUME NEW d \in Conn PROVE Rows(d)' = IF d = c THEN 0 ELSE Rows(d)
  <2>1. Cardinality(From(queue', d)) = Cardinality(From(queue, d) \cap S)
    <3> HIDE DEF S
    <3>1. S \in SUBSET DOMAIN queue
      BY DEF S
    <3>2. /\ queue \in Seq(RowShape) /\ queue' \in Seq(RowShape)
          /\ Rearranged(queue, queue', S, order)
      BY <1>1, <1>3 DEF Rearranged
    <3>3. QED
      BY <3>1, <3>2, FromMoves
  <2>2. CASE d = c
    <3>1. From(queue, d) \cap S = {}
      BY <2>2 DEF From
    <3>2. QED
      BY <2>1, <2>2, <3>1, FS_EmptySet, HeldIsTaken
  <2>3. CASE d # c
    <3>1. From(queue, d) \cap S = From(queue, d)
      BY <2>3 DEF From
    <3>2. QED
      BY <2>1, <2>3, <3>1, HeldIsTaken
  <2>4. QED
    BY <2>2, <2>3
<1>6. SharesAreRows'
  <2>1. \A d \in Conn : Rows(d)' <= ConnectionCap
    BY <1>5, TickAssumption, SharesCounted
  <2>2. queue' # << >> => queue # << >>
    <3>1. queue = << >> => Len(queue) = 0
      OBVIOUS
    <3>2. queue' # << >> => Len(queue') # 0
      BY <1>3
    <3>3. QED
      BY <1>1, <1>3, <3>1, <3>2
  <2>3. ASSUME NEW d \in Conn, queue' # << >> PROVE counts'[d] = Rows(d)'
    BY <1>1, <1>5, <2>2, <2>3 DEF SharesAreRows
  <2>4. QED
    BY <2>1, <2>3 DEF SharesAreRows
<1>7. QED
  BY <1>1, <1>3, <1>4, <1>6

\* The edits go before the id is free, and the rows with the connection.
LEMMA DisconnectInv == ASSUME IInv, NEW c \in Conn, Disconnect(c) PROVE IInv'
<1> USE DEF IInv
<1> DEFINE S == IF InGame(c) THEN OwnedBy(id[c]) ELSE {}
<1>1. /\ id' = [id EXCEPT ![c] = 0] /\ online' = online \ {c} /\ joins' = joins
      /\ roster' = [i \in Ids |-> IF i = id[c] THEN None ELSE roster[i]]
      /\ Cancel(S) /\ lost' = lost
  BY DEF Disconnect, tallyVars
<1>2. S \in SUBSET DOMAIN mutations
  BY DEF OwnedBy
<1>3. /\ id \in [Conn -> Ids \cup {0}] /\ roster \in [Ids -> Conn \cup {None}]
      /\ 0 \notin Ids /\ None \notin Conn
  BY TickAssumption DEF TypeOK
<1>4. /\ blocks' \in [Conn -> 0..Wallet] /\ solid' \subseteq Cells
      /\ ledger' \in [Conn -> Int]
      /\ mutations' \in Seq(EditShape) /\ Len(mutations') <= MutationLimit
      /\ CostsAreCells' /\ ReservationsSettleOnce'
      /\ \A k \in DOMAIN mutations' : \E j \in DOMAIN mutations \ S : mutations'[k] = mutations[j]
  <2> HIDE DEF S
  <2> QED
    BY <1>1, <1>2, CancelResult
<1>5. /\ queue' \in Seq(RowShape) /\ Len(queue') <= MaxPending
      /\ counts' \in [Conn -> Nat]
      /\ SharesAreRows'
      /\ \A k \in DOMAIN queue' : \E j \in DOMAIN queue : queue[j].from # c /\ queue'[k] = queue[j]
  BY ForgottenRows DEF Disconnect
<1>6. TypeOK'
  <2>1. id' \in [Conn -> Ids \cup {0}] /\ roster' \in [Ids -> Conn \cup {None}]
    BY <1>1, <1>3
  <2>2. online' \subseteq Conn
    BY <1>1 DEF TypeOK
  <2>3. QED
    BY <1>1, <1>4, <1>5, <2>1, <2>2 DEF TypeOK, Disconnect, clientVars, tickVars, bodyVars, tallyVars
<1>7. PeersAgree'
  <2>1. ASSUME NEW d \in Conn, id'[d] # 0 PROVE d \in online' /\ roster'[id'[d]] = d
    <3>1. d # c
      BY <1>1, <1>3, <2>1
    <3>2. id'[d] = id[d] /\ id[d] # 0 /\ id[d] \in Ids
      BY <1>1, <1>3, <2>1, <3>1
    <3>3. d \in online /\ roster[id[d]] = d
      BY <3>2 DEF PeersAgree, InGame
    <3>4. id[d] # id[c]
      <4>1. CASE id[c] = 0
        BY <3>2, <4>1
      <4>2. CASE id[c] # 0
        BY <3>1, <3>3, <4>2 DEF PeersAgree, InGame
      <4>3. QED
        BY <4>1, <4>2
    <3>5. QED
      BY <1>1, <3>1, <3>2, <3>3, <3>4
  <2>2. ASSUME NEW j \in Ids, roster'[j] # None PROVE id'[roster'[j]] = j
    <3>1. j # id[c] /\ roster'[j] = roster[j] /\ roster[j] \in Conn
      BY <1>1, <1>3, <2>2
    <3>2. id[roster[j]] = j
      BY <2>2, <3>1 DEF PeersAgree
    <3>3. roster[j] # c
      BY <3>1, <3>2
    <3>4. QED
      BY <1>1, <1>3, <3>1, <3>2, <3>3
  <2>3. QED
    BY <2>1, <2>2 DEF PeersAgree, InGame
<1>8. NothingOutlivesItsOwner'
  <2>1. ASSUME NEW k \in DOMAIN mutations'
        PROVE  LET m == mutations'[k]
               IN  roster'[m.owner] = m.who /\ id'[m.who] = m.owner /\ joins'[m.who] = m.join
    <3>1. PICK j \in DOMAIN mutations \ S : mutations'[k] = mutations[j]
      BY <1>4
    <3>2. PICK m : m = mutations[j]
      OBVIOUS
    <3>3. m.owner \in Ids /\ m.who \in Conn
      BY <3>1, <3>2, Pending DEF EditShape
    <3>4. roster[m.owner] = m.who /\ id[m.who] = m.owner /\ joins[m.who] = m.join
      BY <3>1, <3>2 DEF NothingOutlivesItsOwner
    <3>5. m.owner # id[c]
      <4>1. CASE id[c] = 0
        BY <1>3, <3>3, <4>1
      <4>2. CASE id[c] # 0
        BY <3>1, <3>2, <4>2 DEF InGame, OwnedBy
      <4>3. QED
        BY <4>1, <4>2
    <3>6. m.who # c
      BY <3>4, <3>5
    <3>7. roster'[m.owner] = m.who /\ id'[m.who] = m.owner /\ joins'[m.who] = m.join
      BY <1>1, <1>3, <3>3, <3>4, <3>5, <3>6
    <3>8. QED
      BY <3>1, <3>2, <3>7
  <2>2. \A k \in DOMAIN queue' : queue'[k].from \in online'
    BY <1>1, <1>5 DEF NothingOutlivesItsOwner
  <2>3. QED
    BY <2>1, <2>2 DEF NothingOutlivesItsOwner
<1>9. QED
  BY <1>4, <1>5, <1>6, <1>7, <1>8

-----------------------------------------------------------------------------
(* The packet queue.                                                       *)

\* What a received row leaves of the invariant, whoever sends it.
LEMMA ReceiveInv ==
  ASSUME IInv, NEW c \in Conn, NEW row \in RowShape, row.from = c, Receive(c, row),
         InGame(c), UNCHANGED <<peerVars, tickVars, bodyVars, editVars, lost>>,
         frame' \in [Conn -> Nat], edits' \in [Conn -> Nat], timeline' = timeline,
         resets' \in Nat, faults' = faults
  PROVE  IInv'
<1> USE DEF IInv
<1>1. UNCHANGED <<online, id, joins, roster, mutations, ledger, lost>>
  BY DEF peerVars, editVars
<1>2. /\ queue' \in Seq(RowShape) /\ Len(queue') <= MaxPending
      /\ counts' \in [Conn -> Nat]
      /\ SharesAreRows'
      /\ \A k \in DOMAIN queue' : (k \in DOMAIN queue /\ queue'[k] = queue[k])
                                  \/ queue'[k].from = c
  BY ReceiveResult
<1>3. TypeOK'
  BY <1>2 DEF TypeOK, peerVars, tickVars, bodyVars, editVars
<1>4. CostsAreCells' /\ ReservationsSettleOnce'
  BY <1>1, AccountsKept
<1>5. PeersAgree'
  BY <1>1 DEF PeersAgree, InGame
<1>6. NothingOutlivesItsOwner'
  <2>1. c \in online
    BY DEF PeersAgree
  <2>2. \A k \in DOMAIN queue' : queue'[k].from \in online'
    BY <1>1, <1>2, <2>1 DEF NothingOutlivesItsOwner
  <2>3. QED
    BY <1>1, <2>2 DEF NothingOutlivesItsOwner
<1>7. QED
  BY <1>2, <1>3, <1>4, <1>5, <1>6

\* A ClientData arrives.
LEMMA SendInputInv == ASSUME IInv, NEW c \in Conn, SendInput(c) PROVE IInv'
<1> DEFINE row == Row(c, "input", frame[c] + 1, {})
<1>1. frame \in [Conn -> Nat] /\ edits \in [Conn -> Nat] /\ timeline \in Nat /\ resets \in Nat
  BY DEF IInv, TypeOK
<1>2. row \in RowShape /\ row.from = c
  BY <1>1 DEF Row, RowShape
<1>3. Receive(c, row) /\ InGame(c) /\ frame' = [frame EXCEPT ![c] = @ + 1]
      /\ UNCHANGED <<edits, peerVars, tickVars, bodyVars, editVars, lost, timeline, resets, faults>>
  BY DEF SendInput, tallyVars
<1>4. frame' \in [Conn -> Nat]
  BY <1>1, <1>3
<1>5. QED
  <2> HIDE DEF row
  <2> QED
    BY <1>1, <1>2, <1>3, <1>4, ReceiveInv

\* A BlockLine arrives.
LEMMA SendLineInv ==
  ASSUME IInv, NEW c \in Conn, NEW cells \in SUBSET Cells, SendLine(c, cells) PROVE IInv'
<1> DEFINE row == Row(c, "line", frame[c] + 1, cells)
<1>1. frame \in [Conn -> Nat] /\ edits \in [Conn -> Nat] /\ timeline \in Nat /\ resets \in Nat
  BY DEF IInv, TypeOK
<1>2. row \in RowShape /\ row.from = c
  BY <1>1 DEF Row, RowShape
<1>3. Receive(c, row) /\ InGame(c) /\ edits' = [edits EXCEPT ![c] = @ + 1]
      /\ UNCHANGED <<frame, peerVars, tickVars, bodyVars, editVars, lost, timeline, resets, faults>>
  BY DEF SendLine, tallyVars
<1>4. edits' \in [Conn -> Nat]
  BY <1>1, <1>3
<1>5. QED
  <2> HIDE DEF row
  <2> QED
    BY <1>1, <1>2, <1>3, <1>4, ReceiveInv

\* A ChatMessage arrives.
LEMMA SendRestartInv == ASSUME IInv, NEW c \in Conn, SendRestart(c) PROVE IInv'
<1> DEFINE row == Row(c, "restart", frame[c] + 1, {})
<1>1. frame \in [Conn -> Nat] /\ edits \in [Conn -> Nat] /\ timeline \in Nat /\ resets \in Nat
  BY DEF IInv, TypeOK
<1>2. row \in RowShape /\ row.from = c
  BY <1>1 DEF Row, RowShape
<1>3. Receive(c, row) /\ InGame(c) /\ resets' = resets + 1
      /\ UNCHANGED <<clientVars, peerVars, tickVars, bodyVars, editVars, lost, timeline, faults>>
  BY DEF SendRestart
<1>4. QED
  <2> HIDE DEF row
  <2> QED
    BY <1>1, <1>2, <1>3, ReceiveInv DEF clientVars

-----------------------------------------------------------------------------
(* The drain.                                                              *)

\* The shares of the rows taken are returned, and those of the rows left are as many.
LEMMA DrawnShares ==
  ASSUME IInv, BeginTick
  PROVE  /\ queue' \in Seq(RowShape) /\ Len(queue') <= MaxPending
         /\ batch' \in Seq(RowShape)
         /\ counts' \in [Conn -> Nat]
         /\ SharesAreRows'
         /\ \A k \in DOMAIN queue' : \E j \in DOMAIN queue : queue'[k] = queue[j]
<1> USE DEF IInv
<1> DEFINE n == IF Len(queue) < DrainBudget THEN Len(queue) ELSE DrainBudget
           taken == SubSeq(queue, 1, n)
           left == SubSeq(queue, n + 1, Len(queue))
           Drawn(c) == Cardinality({k \in DOMAIN taken : taken[k].from = c})
<1>1. /\ batch' = taken /\ queue' = left
      /\ counts' = IF n = 0 THEN counts
                   ELSE [c \in Conn |-> IF left = << >> THEN 0
                                        ELSE IF counts[c] < Drawn(c) THEN 0
                                        ELSE counts[c] - Drawn(c)]
  BY DEF BeginTick
<1>2. queue \in Seq(RowShape) /\ Len(queue) \in Nat /\ Len(queue) <= MaxPending
      /\ MaxPending \in Nat /\ DrainBudget \in Nat \ {0} /\ counts \in [Conn -> Nat]
  BY TickAssumption DEF TypeOK
<1>3. n \in 0..Len(queue) /\ (n = 0 => Len(queue) = 0)
  BY <1>2
<1>4. DOMAIN queue = 1..Len(queue) /\ \A k \in 1..Len(queue) : queue[k] \in RowShape
  BY <1>2
<1>5. /\ taken \in Seq(RowShape) /\ Len(taken) = n /\ DOMAIN taken = 1..n
      /\ \A k \in 1..n : taken[k] = queue[k]
  <2> HIDE DEF n
  <2>1. \A k \in 1..n : queue[k] \in RowShape
    BY <1>3, <1>4
  <2>2. n \in Int /\ 1 \in Int
    BY <1>3
  <2>3. /\ SubSeq(queue, 1, n) \in Seq(RowShape)
        /\ Len(SubSeq(queue, 1, n)) = IF 1 <= n THEN n - 1 + 1 ELSE 0
        /\ \A k \in 1..n-1+1 : SubSeq(queue, 1, n)[k] = queue[1 + k - 1]
    BY <2>1, <2>2, SubSeqProperties
  <2>4. Len(taken) = n
    BY <1>3, <2>3
  <2>5. \A k \in 1..n : taken[k] = queue[k]
    BY <1>3, <2>3
  <2>6. QED
    BY <2>3, <2>4, <2>5
<1>6. /\ left \in Seq(RowShape) /\ Len(left) = Len(queue) - n /\ DOMAIN left = 1..(Len(queue) - n)
      /\ \A k \in 1..(Len(queue) - n) : left[k] = queue[n + k]
  <2> HIDE DEF n
  <2>1. \A k \in (n + 1)..Len(queue) : queue[k] \in RowShape
    BY <1>2, <1>3, <1>4
  <2>2. n + 1 \in Int /\ Len(queue) \in Int
    BY <1>2, <1>3
  <2>3. /\ SubSeq(queue, n + 1, Len(queue)) \in Seq(RowShape)
        /\ Len(SubSeq(queue, n + 1, Len(queue)))
             = IF n + 1 <= Len(queue) THEN Len(queue) - (n + 1) + 1 ELSE 0
        /\ \A k \in 1..Len(queue)-(n + 1)+1 :
             SubSeq(queue, n + 1, Len(queue))[k] = queue[n + 1 + k - 1]
    BY <2>1, <2>2, SubSeqProperties
  <2>4. Len(left) = Len(queue) - n
    BY <1>2, <1>3, <2>3
  <2>5. \A k \in 1..(Len(queue) - n) : left[k] = queue[n + k]
    BY <1>2, <1>3, <2>3
  <2>6. QED
    BY <2>3, <2>4, <2>5
<1>7. ASSUME left # << >>, NEW c \in Conn
      PROVE  Drawn(c) \in Nat /\ counts[c] = Drawn(c) + Rows(c)' /\ Rows(c)' \in Nat
             /\ counts[c] = Rows(c)
  <2> HIDE DEF n, left, taken
  <2> DEFINE S == (n + 1)..Len(queue)
             to == [k \in DOMAIN left |-> n + k]
  <2>1. Rearranged(queue, left, S, to)
    <3>1. to \in [DOMAIN left -> S]
      BY <1>2, <1>3, <1>6
    <3>2. \A j, k \in DOMAIN left : to[j] = to[k] => j = k
      BY <1>2, <1>3, <1>6
    <3>3. \A i \in S : \E k \in DOMAIN left : to[k] = i
      <4> TAKE i \in S
      <4>1. i - n \in DOMAIN left /\ n + (i - n) = i
        BY <1>2, <1>3, <1>6
      <4>2. to[i - n] = i
        BY <4>1
      <4>3. QED
        BY <4>1, <4>2
    <3>4. \A k \in DOMAIN left : left[k] = queue[to[k]]
      BY <1>6
    <3>5. QED
      <4> HIDE DEF S, to
      <4> QED
        BY <3>1, <3>2, <3>3, <3>4, Fun_IsBij DEF Rearranged
  <2>2. S \in SUBSET DOMAIN queue
    BY <1>2, <1>3, <1>4
  <2>3. Cardinality(From(left, c)) = Cardinality(From(queue, c) \cap S)
    <3> HIDE DEF S, to
    <3> QED
      BY <1>2, <1>6, <2>1, <2>2, FromMoves
  <2>4. {k \in DOMAIN taken : taken[k].from = c} = From(queue, c) \cap (1..n)
    BY <1>2, <1>3, <1>4, <1>5 DEF From
  <2>5. Drawn(c) = Cardinality(From(queue, c) \cap (1..n))
    BY <2>4, Zenon
  <2>6. From(queue, c) = (From(queue, c) \cap (1..n)) \cup (From(queue, c) \cap S)
        /\ (From(queue, c) \cap (1..n)) \cap (From(queue, c) \cap S) = {}
    BY <1>2, <1>3, <1>4 DEF From
  <2> DEFINE A == From(queue, c) \cap (1..n)
             B == From(queue, c) \cap S
  <2>7. IsFiniteSet(A) /\ IsFiniteSet(B)
    BY <1>2, FromCounted, FS_Intersection
  <2>8. Cardinality(A) \in Nat /\ Cardinality(B) \in Nat
    BY <2>7, FS_CardinalityType
  <2>9. Cardinality(A \cup B) = Cardinality(A) + Cardinality(B)
    <3> HIDE DEF S, A, B
    <3>1. Cardinality(A \cup B) = Cardinality(A) + Cardinality(B) - Cardinality(A \cap B)
      BY <2>7, FS_Union
    <3>2. Cardinality(A \cap B) = 0
      BY <2>6, FS_EmptySet DEF A, B
    <3>3. PICK a \in Nat, b \in Nat : a = Cardinality(A) /\ b = Cardinality(B)
      BY <2>8
    <3>4. QED
      BY <3>1, <3>2, <3>3
  <2>10. queue # << >>
    <3>1. Len(left) # 0
      BY <1>6, <1>7
    <3>2. queue = << >> => Len(queue) = 0
      OBVIOUS
    <3>3. QED
      BY <1>2, <1>3, <1>6, <3>1, <3>2
  <2>11. counts[c] = Rows(c) /\ Rows(c) = Cardinality(From(queue, c))
    BY <2>10, HeldIsTaken DEF SharesAreRows
  <2>12. Rows(c)' = Cardinality(From(left, c))
    BY <1>1, HeldIsTaken
  <2>13. QED
    BY <2>3, <2>5, <2>6, <2>8, <2>9, <2>11, <2>12
<1>8. counts' \in [Conn -> Nat]
  <2>1. CASE n = 0
    BY <1>1, <1>2, <2>1
  <2>2. CASE n # 0 /\ left = << >>
    BY <1>1, <2>2
  <2>3. CASE n # 0 /\ left # << >>
    <3> HIDE DEF n, left, Drawn
    <3>1. \A c \in Conn : Drawn(c) \in Nat /\ counts[c] \in Nat
      BY <1>2, <1>7, <2>3
    <3>2. counts' = [c \in Conn |-> IF counts[c] < Drawn(c) THEN 0 ELSE counts[c] - Drawn(c)]
      BY <1>1, <2>3
    <3>3. \A c \in Conn : (IF counts[c] < Drawn(c) THEN 0 ELSE counts[c] - Drawn(c)) \in Nat
      BY <3>1
    <3>4. QED
      BY <3>2, <3>3
  <2>4. QED
    BY <2>1, <2>2, <2>3
<1>9. SharesAreRows'
  <2>1. CASE left = << >>
    BY <1>1, <2>1, EmptyQueueShares
  <2>2. CASE left # << >>
    <3> HIDE DEF n, left, Drawn
    <3>1. n # 0
      <4>1. Len(left) # 0
        BY <1>6, <2>2
      <4>2. QED
        BY <1>2, <1>3, <1>6, <4>1
    <3>2. ASSUME NEW c \in Conn PROVE counts'[c] = Rows(c)' /\ Rows(c)' <= ConnectionCap
      <4>1. PICK a \in Nat, b \in Nat : a = Drawn(c) /\ b = Rows(c)' /\ counts[c] = a + b
                                        /\ counts[c] = Rows(c)
        BY <1>7, <2>2
      <4>2. counts'[c] = IF counts[c] < Drawn(c) THEN 0 ELSE counts[c] - Drawn(c)
        BY <1>1, <2>2, <3>1
      <4>3. counts'[c] = b
        BY <4>1, <4>2
      <4>4. a + b <= ConnectionCap /\ ConnectionCap \in Nat
        BY <4>1, SharesCounted, TickAssumption
      <4>5. QED
        BY <4>1, <4>3, <4>4
    <3>3. QED
      BY <3>2 DEF SharesAreRows
  <2>3. QED
    BY <2>1, <2>2
<1>10. Len(queue') <= MaxPending
  <2> HIDE DEF n, left
  <2> QED
    BY <1>1, <1>2, <1>3, <1>6
<1>11. \A k \in DOMAIN queue' : \E j \in DOMAIN queue : queue'[k] = queue[j]
  <2> HIDE DEF n, left
  <2> TAKE k \in DOMAIN queue'
  <2>1. k \in 1..(Len(queue) - n) /\ queue'[k] = left[k]
    BY <1>1, <1>6
  <2>2. n + k \in 1..Len(queue)
    BY <1>2, <1>3, <2>1
  <2>3. queue'[k] = queue[n + k]
    BY <1>6, <2>1
  <2>4. QED
    BY <1>4, <2>2, <2>3
<1>12. QED
  <2> HIDE DEF n, left, taken, Drawn
  <2> QED
    BY <1>1, <1>5, <1>6, <1>8, <1>9, <1>10, <1>11

\* Edits grow older, and nothing else about them changes.
LEMMA BeginTickInv == ASSUME IInv, BeginTick PROVE IInv'
<1> USE DEF IInv
<1>1. /\ UNCHANGED <<online, id, joins, roster, ledger, lost>>
      /\ mutations' = [k \in DOMAIN mutations |->
           [mutations[k] EXCEPT !.age = IF @ < Timeout THEN @ + 1 ELSE @]]
  BY DEF BeginTick, peerVars, tallyVars
<1>2. /\ queue' \in Seq(RowShape) /\ Len(queue') <= MaxPending
      /\ batch' \in Seq(RowShape)
      /\ counts' \in [Conn -> Nat]
      /\ SharesAreRows'
      /\ \A k \in DOMAIN queue' : \E j \in DOMAIN queue : queue'[k] = queue[j]
  BY DrawnShares
<1>3. DOMAIN mutations' = DOMAIN mutations
  BY <1>1
<1>4. ASSUME NEW k \in DOMAIN mutations
      PROVE  /\ mutations'[k] \in EditShape
             /\ mutations'[k].owner = mutations[k].owner /\ mutations'[k].who = mutations[k].who
             /\ mutations'[k].join = mutations[k].join /\ mutations'[k].cells = mutations[k].cells
             /\ mutations'[k].cost = mutations[k].cost
  <2>1. PICK m \in EditShape : m = mutations[k]
    BY Pending
  <2>2. mutations'[k] = [m EXCEPT !.age = IF @ < Timeout THEN @ + 1 ELSE @]
    BY <1>1, <2>1
  <2>3. m.age \in Nat /\ Timeout \in Nat
    BY TickAssumption DEF EditShape
  <2>4. mutations'[k] \in EditShape
    BY <2>2, <2>3 DEF EditShape
  <2>5. QED
    BY <2>1, <2>2, <2>4 DEF EditShape
<1>5. mutations' \in Seq(EditShape) /\ Len(mutations') = Len(mutations)
  <2>1. PICK n \in Nat : n = Len(mutations) /\ DOMAIN mutations = 1..n
    BY Pending
  <2>2. mutations' = [k \in 1..n |-> mutations'[k]] /\ \A k \in 1..n : mutations'[k] \in EditShape
    BY <1>1, <1>4, <2>1
  <2>3. QED
    BY <2>1, <2>2
<1>6. TypeOK'
  BY <1>2, <1>5 DEF TypeOK, BeginTick, peerVars, clientVars, bodyVars, tallyVars
<1>7. CostsAreCells'
  BY <1>3, <1>4 DEF CostsAreCells
<1>8. ReservationsSettleOnce'
  <2>1. ASSUME NEW c
        PROVE  Taken(mutations', c, DOMAIN mutations') = Taken(mutations, c, DOMAIN mutations)
    BY <1>3, <1>4, TakenSame
  <2>2. \A c : Reserved(c)' = Reserved(c)
    BY <2>1, HeldIsTaken
  <2>3. QED
    BY <1>1, <2>2 DEF ReservationsSettleOnce
<1>9. PeersAgree'
  BY <1>1 DEF PeersAgree, InGame
<1>10. NothingOutlivesItsOwner'
  <2>1. \A k \in DOMAIN queue' : queue'[k].from \in online'
    BY <1>1, <1>2 DEF NothingOutlivesItsOwner
  <2>2. ASSUME NEW k \in DOMAIN mutations'
        PROVE  /\ roster'[mutations'[k].owner] = mutations'[k].who
               /\ id'[mutations'[k].who] = mutations'[k].owner
               /\ joins'[mutations'[k].who] = mutations'[k].join
    <3>1. /\ roster[mutations[k].owner] = mutations[k].who
          /\ id[mutations[k].who] = mutations[k].owner
          /\ joins[mutations[k].who] = mutations[k].join
      BY <1>3 DEF NothingOutlivesItsOwner
    <3>2. QED
      BY <1>1, <1>3, <1>4, <3>1
  <2>3. QED
    BY <2>1, <2>2 DEF NothingOutlivesItsOwner
<1>11. QED
  BY <1>2, <1>6, <1>7, <1>8, <1>9, <1>10

\* What an action keeps that touches no peer, no queue and no edit.
LEMMA OwnersKept ==
  ASSUME IInv, UNCHANGED <<online, id, joins, roster, mutations, queue>>
  PROVE  PeersAgree' /\ NothingOutlivesItsOwner'
  BY DEF IInv, PeersAgree, InGame, NothingOutlivesItsOwner

\* The batch grows shorter.
LEMMA RestOfBatch == ASSUME IInv, batch # << >>, batch' = Tail(batch) PROVE batch' \in Seq(RowShape)
  BY HeadTailProperties DEF IInv, TypeOK

\* A row of a peer that has gone is dropped.
LEMMA SkipRowInv == ASSUME IInv, SkipRow PROVE IInv'
<1> USE DEF IInv
<1>1. UNCHANGED <<online, id, joins, roster, queue, counts, mutations, ledger, lost>>
  BY DEF SkipRow, peerVars, queueVars, editVars, tallyVars
<1>2. batch' \in Seq(RowShape)
  BY RestOfBatch DEF SkipRow
<1>3. TypeOK'
  BY <1>2 DEF TypeOK, SkipRow, peerVars, clientVars, queueVars, bodyVars, editVars, tallyVars
<1>4. QED
  BY <1>1, <1>3, AccountsKept, OwnersKept, SharesKept DEF queueVars

\* The row that is handled, and whose it is.
LEMMA HandledRow ==
  ASSUME IInv, NEW kind, Handles(kind)
  PROVE  /\ Row1 \in RowShape /\ Row1.from \in Conn /\ Row1.from \in online
         /\ id[Row1.from] \in Ids /\ roster[id[Row1.from]] = Row1.from
         /\ batch' \in Seq(RowShape)
<1> USE DEF IInv
<1>1. batch \in Seq(RowShape) /\ batch # << >> /\ batch' = Tail(batch)
  BY DEF Handles, TypeOK
<1>2. Row1 \in RowShape
  BY <1>1, HeadTailProperties DEF Row1
<1>3. Row1.from \in Conn
  BY <1>2 DEF RowShape
<1>4. InGame(Row1.from) /\ Row1.from \in online /\ roster[id[Row1.from]] = Row1.from
  BY DEF Handles, Current
<1>5. id[Row1.from] \in Ids
  BY <1>3, <1>4 DEF InGame, TypeOK
<1>6. QED
  BY <1>1, <1>2, <1>3, <1>4, <1>5, RestOfBatch

\* An input row goes into the history of its body.
LEMMA HandleInputInv == ASSUME IInv, HandleInput PROVE IInv'
<1> USE DEF IInv
<1>1. UNCHANGED <<online, id, joins, roster, queue, counts, mutations, ledger, lost>>
  BY DEF HandleInput, peerVars, queueVars, editVars, tallyVars
<1>2. /\ Row1 \in RowShape /\ Row1.from \in Conn
      /\ batch' \in Seq(RowShape)
  BY HandledRow DEF HandleInput
<1>3. history' \in [Conn -> SUBSET Nat]
  <2>1. Row1.loop \in Nat
    BY <1>2 DEF RowShape
  <2>2. history \in [Conn -> SUBSET Nat]
    BY DEF TypeOK
  <2>3. PICK new : new = IF applied[Row1.from] # NoLoop /\ Row1.loop <= applied[Row1.from]
                         THEN history[Row1.from] ELSE history[Row1.from] \cup {Row1.loop}
    OBVIOUS
  <2>4. history' = [history EXCEPT ![Row1.from] = new]
    BY <2>3 DEF HandleInput
  <2>5. new \in SUBSET Nat
    BY <1>2, <2>1, <2>2, <2>3
  <2>6. QED
    BY <1>2, <2>2, <2>4, <2>5
<1>4. TypeOK'
  BY <1>2, <1>3 DEF TypeOK, HandleInput, peerVars, clientVars, queueVars, editVars, tallyVars
<1>5. QED
  BY <1>1, <1>4, AccountsKept, OwnersKept, SharesKept DEF queueVars

\* An edit that is queued holds the cells its owner paid for.
LEMMA HandleLineInv == ASSUME IInv, HandleLine PROVE IInv'
<1> USE DEF IInv
<1> DEFINE c == Row1.from
           cells == Row1.cells \ solid
           cost == Cardinality(cells)
           edit == [owner |-> id[c], who |-> c, join |-> joins[c], loop |-> Row1.loop,
                    cells |-> cells, cost |-> cost, age |-> 0]
<1>1. UNCHANGED <<online, id, joins, roster, queue, counts, lost, solid>>
      /\ UNCHANGED <<peerVars, clientVars, queueVars, phase, bodyVars, tallyVars>>
  BY DEF HandleLine, peerVars, queueVars, tallyVars
<1>2. /\ Row1 \in RowShape /\ c \in Conn /\ c \in online
      /\ id[c] \in Ids /\ roster[id[c]] = c
      /\ batch' \in Seq(RowShape)
  BY HandledRow DEF HandleLine
<1>3. cells \subseteq Cells /\ cost \in Nat
  <2>1. cells \in SUBSET Cells
    BY <1>2 DEF RowShape
  <2>2. QED
    BY <2>1, TickAssumption, FS_Subset, FS_CardinalityType
<1>4. edit \in EditShape /\ edit.cost = Cardinality(edit.cells) /\ edit.who = c
      /\ edit.owner = id[c] /\ edit.join = joins[c] /\ edit.cells = cells /\ edit.cost = cost
  <2>1. Row1.loop \in Nat /\ joins[c] \in Nat
    BY <1>2 DEF RowShape, TypeOK
  <2> HIDE DEF c, cells, cost
  <2>2. edit \in EditShape
    BY <1>2, <1>3, <2>1 DEF EditShape
  <2>3. edit.cells = cells /\ edit.cost = cost
    OBVIOUS
  <2>4. QED
    BY <2>2, <2>3 DEF cost
<1>5. CASE UNCHANGED <<blocks, ledger, mutations>>
  <2>1. TypeOK'
    BY <1>1, <1>2, <1>5 DEF TypeOK, peerVars, clientVars, queueVars, bodyVars, tallyVars
  <2>2. QED
    BY <1>1, <1>5, <2>1, AccountsKept, OwnersKept, SharesKept
<1>6. CASE /\ blocks[c] >= cost /\ Len(mutations) < MutationLimit
           /\ blocks' = [blocks EXCEPT ![c] = @ - cost]
           /\ ledger' = [ledger EXCEPT ![c] = @ + cost]
           /\ mutations' = Append(mutations, edit)
  <2> HIDE DEF c, cells, cost, edit
  <2>1. mutations \in Seq(EditShape) /\ Len(mutations) \in Nat /\ MutationLimit \in Nat
        /\ DOMAIN mutations = 1..Len(mutations)
    BY TickAssumption, Pending DEF TypeOK
  <2>2. PICK n \in Nat : n = Len(mutations)
    BY <2>1
  <2>3. /\ mutations' \in Seq(EditShape) /\ Len(mutations') = n + 1
        /\ \A k \in 1..n : mutations'[k] = mutations[k]
        /\ mutations'[n + 1] = edit
        /\ DOMAIN mutations' = 1..(n + 1) /\ DOMAIN mutations = 1..n
    BY <1>4, <1>6, <2>1, <2>2, AppendProperties
  <2>4. 1..(n + 1) = (1..n) \cup {n + 1} /\ (1..n) \cap {n + 1} = {}
    OBVIOUS
  <2>5. blocks' \in [Conn -> 0..Wallet]
    <3>1. blocks \in [Conn -> 0..Wallet] /\ Wallet \in Nat
      BY TickAssumption DEF TypeOK
    <3>2. blocks[c] - cost \in 0..Wallet
      BY <1>2, <1>3, <1>6, <3>1
    <3>3. QED
      BY <1>6, <3>1, <3>2
  <2>6. ledger' \in [Conn -> Int] /\ \A d \in Conn : ledger'[d] = ledger[d] + IF d = c THEN cost ELSE 0
    <3>1. ledger \in [Conn -> Int]
      BY DEF TypeOK
    <3>2. QED
      BY <1>2, <1>3, <1>6, <3>1
  <2>7. TypeOK'
    <3>1. Len(mutations') <= MutationLimit
      BY <1>6, <2>1, <2>2, <2>3
    <3>2. QED
      BY <1>1, <1>2, <2>3, <2>5, <2>6, <3>1
      DEF TypeOK, peerVars, clientVars, queueVars, bodyVars, tallyVars
  <2>8. CostsAreCells'
    <3>1. ASSUME NEW k \in 1..(n + 1) PROVE mutations'[k].cost = Cardinality(mutations'[k].cells)
      <4>1. CASE k = n + 1
        BY <1>4, <2>3, <4>1
      <4>2. CASE k # n + 1
        <5>1. k \in 1..n
          BY <4>2
        <5>2. QED
          BY <2>3, <5>1 DEF CostsAreCells
      <4>3. QED
        BY <4>1, <4>2
    <3>2. QED
      BY <2>3, <3>1 DEF CostsAreCells
  <2>9. ReservationsSettleOnce'
    <3>1. ASSUME NEW d \in Conn PROVE ledger'[d] = Reserved(d)' + lost'[d]
      <4>1. Taken(mutations', d, 1..n) = Taken(mutations, d, 1..n)
        BY <2>3, TakenSame
      <4>2. Cardinality(Taken(mutations', d, {n + 1})) = IF d = c THEN cost ELSE 0
        <5>1. mutations'[n + 1].cells \subseteq Cells /\ mutations'[n + 1].who = c
              /\ Cardinality(mutations'[n + 1].cells) = cost
          BY <1>3, <1>4, <2>3 DEF cost
        <5>2. QED
          BY <5>1, TakenOfOne
      <4>3. IsFiniteSet(1..n) /\ IsFiniteSet({n + 1})
        <5>1. IsFiniteSet(1..n)
          BY FS_Interval
        <5>2. QED
          BY <5>1, FS_Singleton
      <4>4. Cardinality(Taken(mutations', d, 1..(n + 1)))
              = Cardinality(Taken(mutations', d, 1..n)) + Cardinality(Taken(mutations', d, {n + 1}))
        BY <2>4, <4>3, TakenSplits
      <4>5. PICK a \in Nat : a = Cardinality(Taken(mutations, d, 1..n))
        BY <4>3, TakenCounted
      <4>6. Reserved(d) = a
        BY <2>3, <4>5, HeldIsTaken
      <4>7. Reserved(d)' = a + IF d = c THEN cost ELSE 0
        BY <2>3, <4>1, <4>2, <4>4, <4>5, HeldIsTaken
      <4>8. ledger[d] = a + lost[d] /\ lost[d] \in Nat /\ lost' = lost
        BY <1>1, <4>6 DEF ReservationsSettleOnce, TypeOK
      <4>9. QED
        BY <1>3, <2>6, <4>7, <4>8
    <3>2. QED
      BY <3>1 DEF ReservationsSettleOnce
  <2>10. PeersAgree'
    BY <1>1 DEF PeersAgree, InGame
  <2>11. NothingOutlivesItsOwner'
    <3>1. ASSUME NEW k \in 1..(n + 1)
          PROVE  LET m == mutations'[k]
                 IN  roster[m.owner] = m.who /\ id[m.who] = m.owner /\ joins[m.who] = m.join
      <4>1. CASE k = n + 1
        BY <1>2, <1>4, <2>3, <4>1
      <4>2. CASE k # n + 1
        <5>1. k \in 1..n
          BY <4>2
        <5>2. QED
          BY <2>3, <5>1 DEF NothingOutlivesItsOwner
      <4>3. QED
        BY <4>1, <4>2
    <3>2. \A k \in DOMAIN queue' : queue'[k].from \in online'
      BY <1>1 DEF NothingOutlivesItsOwner
    <3>3. QED
      BY <1>1, <2>3, <3>1, <3>2 DEF NothingOutlivesItsOwner
  <2>12. QED
    BY <1>1, <2>7, <2>8, <2>9, <2>10, <2>11, SharesKept
<1>7. QED
  <2>1. \/ UNCHANGED <<blocks, ledger, mutations>>
        \/ /\ blocks[c] >= cost /\ Len(mutations) < MutationLimit
           /\ blocks' = [blocks EXCEPT ![c] = @ - cost]
           /\ ledger' = [ledger EXCEPT ![c] = @ + cost]
           /\ mutations' = Append(mutations, edit)
    BY DEF HandleLine
  <2> HIDE DEF c, cells, cost, edit
  <2>2. QED
    BY <1>5, <1>6, <2>1

-----------------------------------------------------------------------------
(* Physics and commit.                                                     *)

\* The row a body consumes has the label of a frame.
LEMMA ConsumedType == ASSUME TypeOK, NEW c \in Conn PROVE Consumed(c) \in Nat \cup {NoLoop}
<1> DEFINE rows == {l \in history[c] : applied[c] = NoLoop \/ l > applied[c]}
<1>1. applied[c] \in Nat \cup {NoLoop} /\ history[c] \in SUBSET Nat
  BY DEF TypeOK
<1>2. rows \in SUBSET Nat
  BY <1>1
<1>3. rows # {} => Min(rows) \in Nat
  <2> HIDE DEF rows
  <2> QED
    BY <1>2, MinIsLeast
<1>4. applied[c] # NoLoop => applied[c] + 1 \in Nat
  BY <1>1
<1>5. Consumed(c) = IF ~InGame(c) \/ rows = {} THEN applied[c]
                    ELSE IF applied[c] = NoLoop THEN Min(rows)
                    ELSE applied[c] + 1
  BY DEF Consumed
<1>6. QED
  <2> HIDE DEF rows
  <2> QED
    BY <1>1, <1>3, <1>4, <1>5

\* Physics moves bodies only.
LEMMA SimulateInv == ASSUME IInv, Simulate PROVE IInv'
<1> USE DEF IInv
<1>1. UNCHANGED <<online, id, joins, roster, queue, counts, mutations, ledger, lost>>
  BY DEF Simulate, peerVars, queueVars, editVars, tallyVars
<1>2. applied' \in [Conn -> Nat \cup {NoLoop}]
  BY ConsumedType DEF Simulate
<1>3. history' \in [Conn -> SUBSET Nat]
  <2>1. ASSUME NEW c \in Conn
        PROVE  {l \in history[c] : Consumed(c) = NoLoop \/ l > Consumed(c)} \in SUBSET Nat
    <3>1. history[c] \in SUBSET Nat
      BY DEF TypeOK
    <3>2. QED
      BY <3>1
  <2>2. QED
    BY <2>1 DEF Simulate
<1>4. TypeOK'
  BY <1>2, <1>3 DEF TypeOK, Simulate, peerVars, clientVars, queueVars, editVars, tallyVars
<1>5. QED
  BY <1>1, <1>4, AccountsKept, OwnersKept, SharesKept DEF queueVars

\* The edits that remain have the owners they had.
LEMMA OwnersOfTheRest ==
  ASSUME IInv, UNCHANGED <<online, id, joins, roster, queue>>,
         \A k \in DOMAIN mutations' : \E j \in DOMAIN mutations : mutations'[k] = mutations[j]
  PROVE  PeersAgree' /\ NothingOutlivesItsOwner'
<1> USE DEF IInv
<1>1. PeersAgree'
  BY DEF PeersAgree, InGame
<1>2. ASSUME NEW k \in DOMAIN mutations'
      PROVE  LET m == mutations'[k]
             IN  roster'[m.owner] = m.who /\ id'[m.who] = m.owner /\ joins'[m.who] = m.join
  <2>1. PICK j \in DOMAIN mutations : mutations'[k] = mutations[j]
    OBVIOUS
  <2>2. QED
    BY <2>1 DEF NothingOutlivesItsOwner
<1>3. \A k \in DOMAIN queue' : queue'[k].from \in online'
  BY DEF NothingOutlivesItsOwner
<1>4. QED
  BY <1>1, <1>2, <1>3 DEF NothingOutlivesItsOwner

\* Whatever the scan makes of an edit, it is settled once or it stays.
LEMMA CommitReadyInv == ASSUME IInv, CommitReady PROVE IInv'
<1> USE DEF IInv
<1>1. UNCHANGED <<online, id, joins, roster, queue, counts, lost>>
  BY DEF CommitReady, peerVars, queueVars, tallyVars
<1>2. PICK done \in SUBSET DOMAIN mutations : \E blocked \in SUBSET done :
        /\ Scans(DOMAIN mutations, done, blocked)
        /\ \E order \in InOrder(Kept(DOMAIN mutations, done)) : mutations' = Picked(mutations, order)
  BY DEF CommitReady
<1>3. PICK blocked \in SUBSET done :
        /\ Scans(DOMAIN mutations, done, blocked)
        /\ \E order \in InOrder(Kept(DOMAIN mutations, done)) : mutations' = Picked(mutations, order)
  BY <1>2
<1>4. PICK cancelled : cancelled = {k \in DOMAIN mutations : Expired(mutations[k])} \cup blocked
  OBVIOUS
<1>5. PICK placed : placed = done \ blocked
  OBVIOUS
<1>6. PICK R : R = Kept(DOMAIN mutations, done)
  OBVIOUS
<1>7. Settle(cancelled, placed)
  BY <1>3, <1>4, <1>5 DEF Scans
<1>8. cancelled \in SUBSET DOMAIN mutations /\ placed \in SUBSET DOMAIN mutations
  BY <1>4, <1>5
<1>9. R = DOMAIN mutations \ (cancelled \cup placed)
  BY <1>4, <1>5, <1>6 DEF Kept
<1>10. \E order \in InOrder(R) : mutations' = Picked(mutations, order)
  BY <1>3, <1>6
<1>11. /\ blocks' \in [Conn -> 0..Wallet] /\ solid' \subseteq Cells
       /\ ledger' \in [Conn -> Int]
       /\ mutations' \in Seq(EditShape) /\ Len(mutations') <= MutationLimit
       /\ CostsAreCells' /\ ReservationsSettleOnce'
       /\ \A k \in DOMAIN mutations' : \E j \in R : mutations'[k] = mutations[j]
  <2>1. Settled(cancelled, placed, R)
    BY <1>1, <1>7, <1>8, <1>9, <1>10 DEF Settled
  <2>2. QED
    BY <2>1, SettledRest
<1>12. TypeOK'
  BY <1>11 DEF TypeOK, CommitReady, peerVars, clientVars, queueVars, bodyVars, tallyVars
<1>13. PeersAgree' /\ NothingOutlivesItsOwner'
  <2>1. \A k \in DOMAIN mutations' : \E j \in DOMAIN mutations : mutations'[k] = mutations[j]
    BY <1>9, <1>11
  <2>2. QED
    BY <1>1, <2>1, OwnersOfTheRest
<1>14. QED
  BY <1>1, <1>11, <1>12, <1>13, SharesKept DEF queueVars

\* The rest of a queue behind position k, and then some of those in front of it.
LEMMA Requeued ==
  ASSUME NEW T, NEW old \in Seq(T), NEW n \in Nat, Len(old) = n, NEW k \in 1..n,
         NEW K \in SUBSET (1..(k - 1)), NEW order \in InOrder(K),
         NEW new, new = SubSeq(old, k + 1, n) \o Picked(old, order)
  PROVE  /\ new \in Seq(T) /\ Len(new) \in Nat /\ Len(new) <= n
         /\ \E to : Rearranged(old, new, K \cup ((k + 1)..n), to)
<1> DEFINE back == SubSeq(old, k + 1, n)
           kept == Picked(old, order)
           R == K \cup ((k + 1)..n)
<1>1. DOMAIN old = 1..n /\ \A i \in 1..n : old[i] \in T
  OBVIOUS
<1>3. k \in 1..n /\ n \in Nat
  OBVIOUS
<1>4. /\ back \in Seq(T) /\ Len(back) = n - k
      /\ \A i \in 1..(n - k) : back[i] = old[k + i]
  <2>1. \A i \in (k + 1)..n : old[i] \in T
    BY <1>1, <1>3
  <2>2. k + 1 \in Int /\ n \in Int
    BY <1>3
  <2>3. /\ SubSeq(old, k + 1, n) \in Seq(T)
        /\ Len(SubSeq(old, k + 1, n)) = IF k + 1 <= n THEN n - (k + 1) + 1 ELSE 0
        /\ \A i \in 1..n-(k + 1)+1 : SubSeq(old, k + 1, n)[i] = old[k + 1 + i - 1]
    BY <2>1, <2>2, SubSeqProperties
  <2>4. back = SubSeq(old, k + 1, n)
    OBVIOUS
  <2>5. Len(back) = n - k
    BY <1>3, <2>3, <2>4
  <2>6. ASSUME NEW i \in 1..(n - k) PROVE back[i] = old[k + i]
    <3>1. i \in 1..n-(k + 1)+1 /\ k + 1 + i - 1 = k + i
      BY <1>3
    <3>2. back[i] = old[k + 1 + i - 1]
      BY <2>3, <2>4, <3>1
    <3>3. QED
      BY <3>1, <3>2
  <2>7. QED
    BY <2>3, <2>4, <2>5, <2>6
<1>5. K \in SUBSET DOMAIN old
  BY <1>1
<1>6. /\ kept \in Seq(T) /\ Len(kept) \in Nat /\ Len(kept) = Cardinality(K)
      /\ order \in Bijection(DOMAIN kept, K)
      /\ \A i \in DOMAIN kept : order[i] \in K /\ kept[i] = old[order[i]]
  BY <1>5, PickedIsAQueue
<1>7. Len(kept) <= k - 1
  <2>1. PICK q \in Nat : q = k - 1
    BY <1>3
  <2>2. IsFiniteSet(1..q) /\ Cardinality(1..q) = q
    BY Interval
  <2>3. K \in SUBSET (1..q)
    BY <2>1
  <2>4. Cardinality(K) <= Cardinality(1..q)
    BY <2>2, <2>3, FS_Subset
  <2>5. QED
    BY <1>6, <2>1, <2>2, <2>4
<1>8. PICK m \in Nat : m = Len(kept)
  BY <1>6
<1>9. /\ order \in [1..m -> K]
      /\ \A i, j \in 1..m : order[i] = order[j] => i = j
      /\ \A t \in K : \E i \in 1..m : order[i] = t
      /\ \A i \in 1..m : kept[i] = old[order[i]]
  <2> HIDE DEF kept
  <2>1. DOMAIN kept = 1..m
    BY <1>6, <1>8
  <2>2. order \in Bijection(1..m, K) /\ \A i \in 1..m : kept[i] = old[order[i]]
    BY <1>6, <2>1
  <2>3. QED
    BY <2>2, Fun_BijectionProperties
<1>10. /\ new \in Seq(T) /\ Len(new) = n - k + m
       /\ DOMAIN new = 1..(n - k + m)
       /\ \A i \in 1..(n - k + m) :
            new[i] = IF i <= n - k THEN back[i] ELSE kept[i - (n - k)]
  <2> HIDE DEF back, kept
  <2>1. new = back \o kept
    BY DEF back, kept
  <2>2. back \in Seq(T) /\ kept \in Seq(T)
    BY <1>4, <1>6
  <2>3. /\ new \in Seq(T) /\ Len(new) = Len(back) + Len(kept)
        /\ \A i \in 1..Len(back) + Len(kept) :
             new[i] = IF i <= Len(back) THEN back[i] ELSE kept[i - Len(back)]
    <3>1. /\ back \o kept \in Seq(T) /\ Len(back \o kept) = Len(back) + Len(kept)
          /\ \A i \in 1..Len(back) + Len(kept) :
               (back \o kept)[i] = IF i <= Len(back) THEN back[i] ELSE kept[i - Len(back)]
      BY <2>2, ConcatProperties, Zenon
    <3>2. QED
      BY <2>1, <3>1, Zenon
  <2>4. Len(back) = n - k /\ Len(kept) = m
    BY <1>4, <1>8
  <2>5. /\ new \in Seq(T) /\ Len(new) = n - k + m
        /\ \A i \in 1..(n - k + m) :
             new[i] = IF i <= n - k THEN back[i] ELSE kept[i - (n - k)]
    BY <2>3, <2>4
  <2>6. DOMAIN new = 1..Len(new)
    BY <2>5
  <2>7. QED
    BY <2>5, <2>6
<1> DEFINE to == [i \in 1..(n - k + m) |-> IF i <= n - k THEN k + i ELSE order[i - (n - k)]]
<1> HIDE DEF back, kept
<1>11. ASSUME NEW i \in 1..(n - k + m)
       PROVE  \/ i <= n - k /\ to[i] = k + i /\ k + i \in (k + 1)..n /\ new[i] = old[k + i]
              \/ /\ i > n - k /\ i - (n - k) \in 1..m /\ to[i] = order[i - (n - k)]
                 /\ order[i - (n - k)] \in K /\ new[i] = old[order[i - (n - k)]]
  <2>1. CASE i <= n - k
    <3>1. i \in 1..(n - k) /\ k + i \in (k + 1)..n
      BY <1>3, <2>1
    <3>2. new[i] = old[k + i]
      BY <1>4, <1>10, <2>1, <3>1
    <3>3. QED
      BY <2>1, <3>1, <3>2
  <2>2. CASE ~(i <= n - k)
    <3>1. PICK j \in 1..m : j = i - (n - k)
      BY <1>3, <2>2
    <3>2. new[i] = kept[j] /\ to[i] = order[j]
      BY <1>10, <2>2, <3>1
    <3>3. order[j] \in K /\ kept[j] = old[order[j]]
      BY <1>9
    <3>4. i > n - k
      BY <1>3, <2>2
    <3>5. QED
      BY <3>1, <3>2, <3>3, <3>4
  <2>3. QED
    BY <2>1, <2>2
<1>12. \A i \in 1..(n - k + m) : to[i] \in R /\ new[i] = old[to[i]]
  <2> HIDE DEF to
  <2> QED
    BY <1>11
<1>13. to \in [1..(n - k + m) -> R]
  <2>1. to = [i \in 1..(n - k + m) |-> to[i]]
    OBVIOUS
  <2> HIDE DEF to, R
  <2>2. QED
    BY <1>12, <2>1
<1>14. ASSUME NEW i \in 1..(n - k + m), NEW j \in 1..(n - k + m), to[i] = to[j]
       PROVE  i = j
  <2>1. \A t \in K : t < k
    BY <1>3
  <2>2. CASE i <= n - k /\ j <= n - k
    BY <1>3, <1>14, <2>2
  <2>3. CASE i > n - k /\ j > n - k
    <3> DEFINE p == i - (n - k)
               q == j - (n - k)
    <3>1. ~(i <= n - k) /\ ~(j <= n - k)
      BY <1>3, <2>3
    <3>2. p \in 1..m /\ q \in 1..m
      BY <1>3, <2>3
    <3>3. to[i] = order[p] /\ to[j] = order[q]
      BY <3>1
    <3>4. p = q
      <4> HIDE DEF p, q
      <4> QED
        BY <1>9, <1>14, <3>2, <3>3
    <3>5. QED
      BY <1>3, <3>4
  <2>4. CASE i <= n - k /\ j > n - k
    <3>1. to[i] = k + i /\ to[j] \in K
      <4> HIDE DEF to
      <4>1. ~(j <= n - k) /\ ~(i > n - k)
        BY <1>3, <2>4
      <4>2. QED
        BY <1>11, <4>1
    <3>2. QED
      BY <1>3, <1>14, <2>1, <3>1
  <2>5. CASE i > n - k /\ j <= n - k
    <3>1. to[j] = k + j /\ to[i] \in K
      <4> HIDE DEF to
      <4>1. ~(i <= n - k) /\ ~(j > n - k)
        BY <1>3, <2>5
      <4>2. QED
        BY <1>11, <4>1
    <3>2. QED
      BY <1>3, <1>14, <2>1, <3>1
  <2>6. QED
    BY <1>3, <2>2, <2>3, <2>4, <2>5
<1>15. ASSUME NEW t \in R PROVE \E i \in 1..(n - k + m) : to[i] = t
  <2>1. CASE t \in K
    <3>1. PICK p \in 1..m : order[p] = t
      BY <1>9, <2>1
    <3> DEFINE i == p + (n - k)
    <3>2. i \in 1..(n - k + m)
      BY <1>3
    <3>3. ~(i <= n - k) /\ i - (n - k) = p
      BY <1>3
    <3> HIDE DEF i
    <3>4. to[i] = order[p]
      BY <3>2, <3>3
    <3>5. QED
      BY <3>1, <3>2, <3>4
  <2>2. CASE t \in (k + 1)..n
    <3> DEFINE i == t - k
    <3>1. i \in 1..(n - k + m)
      BY <1>3, <2>2
    <3>2. i <= n - k /\ k + i = t
      BY <1>3, <2>2, <3>1
    <3> HIDE DEF i
    <3>3. to[i] = t
      BY <3>1, <3>2
    <3>4. QED
      BY <3>1, <3>3
  <2>3. QED
    BY <2>1, <2>2
<1>16. to \in Bijection(DOMAIN new, R)
  <2> HIDE DEF to, R
  <2> QED
    BY <1>10, <1>13, <1>14, <1>15, Fun_IsBij
<1>17. Len(new) \in Nat /\ Len(new) <= n
  BY <1>3, <1>7, <1>8, <1>10
<1>18. Rearranged(old, new, R, to)
  <2> HIDE DEF to, R
  <2> QED
    BY <1>10, <1>12, <1>16 DEF Rearranged
<1>19. QED
  BY <1>10, <1>17, <1>18

\* What a commit that raises leaves of the queue.
LEMMA RaisedRest ==
  ASSUME TypeOK, NEW k \in DOMAIN mutations, NEW K \in SUBSET (1..(k - 1)),
         NEW order \in InOrder(K),
         mutations' = SubSeq(mutations, k + 1, Len(mutations)) \o Picked(mutations, order)
  PROVE  \E to : Remaining(K \cup ((k + 1)..Len(mutations)), to)
<1>1. /\ mutations \in Seq(EditShape) /\ Len(mutations) <= MutationLimit
      /\ DOMAIN mutations = 1..Len(mutations) /\ Len(mutations) \in Nat
  BY Pending DEF TypeOK
<1>2. PICK n \in Nat : n = Len(mutations)
  BY <1>1
<1>3. k \in 1..n /\ mutations' = SubSeq(mutations, k + 1, n) \o Picked(mutations, order)
  BY <1>1, <1>2
<1>4. /\ mutations' \in Seq(EditShape) /\ Len(mutations') \in Nat /\ Len(mutations') <= n
      /\ \E to : Rearranged(mutations, mutations', K \cup ((k + 1)..n), to)
  BY <1>1, <1>2, <1>3, Requeued
<1>5. PICK to : Rearranged(mutations, mutations', K \cup ((k + 1)..n), to)
  BY <1>4
<1>6. PICK R : R = K \cup ((k + 1)..n)
  OBVIOUS
<1>7. Rearranged(mutations, mutations', R, to)
  BY <1>5, <1>6
<1>8. to \in [DOMAIN mutations' -> R] /\ to \in Bijection(DOMAIN mutations', R)
      /\ \A i \in DOMAIN mutations' : mutations'[i] = mutations[to[i]]
  BY <1>7, Fun_BijectionProperties DEF Rearranged
<1>9. IsFiniteSet(DOMAIN mutations')
  <2>1. PICK m \in Nat : m = Len(mutations') /\ DOMAIN mutations' = 1..m
    BY <1>4
  <2>2. QED
    BY <2>1, Interval
<1>10. Len(mutations') <= MutationLimit
  BY <1>1, <1>2, <1>4, TickAssumption
<1>11. Remaining(R, to)
  BY <1>4, <1>8, <1>9, <1>10 DEF Remaining
<1>12. QED
  BY <1>2, <1>6, <1>11

\* The edit that raises is lost, and no other.
LEMMA CommitRaisesInv == ASSUME IInv, CommitRaises PROVE IInv'
<1> USE DEF IInv
<1>1. UNCHANGED <<online, id, joins, roster, queue, counts>>
  BY DEF CommitRaises, peerVars, queueVars
<1>2. PICK k \in DOMAIN mutations :
        \E done \in SUBSET (1..(k - 1)) : \E blocked \in SUBSET done :
          /\ Applies(k, done)
          /\ Scans(1..(k - 1), done, blocked)
          /\ lost' = [lost EXCEPT ![mutations[k].who] = @ + mutations[k].cost]
          /\ \E order \in InOrder(Kept(1..(k - 1), done)) :
               mutations' = SubSeq(mutations, k + 1, Len(mutations)) \o Picked(mutations, order)
  BY DEF CommitRaises
<1>3. PICK done \in SUBSET (1..(k - 1)) : \E blocked \in SUBSET done :
        /\ Scans(1..(k - 1), done, blocked)
        /\ lost' = [lost EXCEPT ![mutations[k].who] = @ + mutations[k].cost]
        /\ \E order \in InOrder(Kept(1..(k - 1), done)) :
             mutations' = SubSeq(mutations, k + 1, Len(mutations)) \o Picked(mutations, order)
  BY <1>2
<1>4. PICK blocked \in SUBSET done :
        /\ Scans(1..(k - 1), done, blocked)
        /\ lost' = [lost EXCEPT ![mutations[k].who] = @ + mutations[k].cost]
        /\ \E order \in InOrder(Kept(1..(k - 1), done)) :
             mutations' = SubSeq(mutations, k + 1, Len(mutations)) \o Picked(mutations, order)
  BY <1>3
<1>5. PICK n \in Nat : n = Len(mutations) /\ DOMAIN mutations = 1..n
  BY Pending
<1>6. PICK cancelled : cancelled = {j \in 1..(k - 1) : Expired(mutations[j])} \cup blocked
  OBVIOUS
<1>7. PICK placed : placed = done \ blocked
  OBVIOUS
<1>8. PICK S : S = cancelled \cup placed
  OBVIOUS
<1>9. PICK K : K = Kept(1..(k - 1), done)
  OBVIOUS
<1>10. PICK R : R = K \cup ((k + 1)..n)
  OBVIOUS
<1>11. /\ Settle(cancelled, placed)
       /\ cancelled \in SUBSET DOMAIN mutations /\ placed \in SUBSET DOMAIN mutations
  <2>1. 1..(k - 1) \subseteq DOMAIN mutations
    BY <1>5
  <2>2. cancelled \subseteq 1..(k - 1) /\ placed \subseteq 1..(k - 1)
    BY <1>6, <1>7
  <2>3. Settle(cancelled, placed)
    BY <1>4, <1>6, <1>7 DEF Scans
  <2>4. QED
    BY <2>1, <2>2, <2>3
<1>12. K \in SUBSET (1..(k - 1)) /\ S \in SUBSET (1..(k - 1)) /\ K \cup S = 1..(k - 1) /\ K \cap S = {}
  BY <1>6, <1>7, <1>8, <1>9 DEF Kept
<1>13. PICK order \in InOrder(K) :
         mutations' = SubSeq(mutations, k + 1, Len(mutations)) \o Picked(mutations, order)
  BY <1>4, <1>9
<1>14. PICK to : Remaining(R, to)
  BY <1>5, <1>10, <1>12, <1>13, RaisedRest
<1>15. /\ blocks' \in [Conn -> 0..Wallet] /\ solid' \subseteq Cells
       /\ ledger' \in [Conn -> Int]
       /\ \A c \in Conn : ledger'[c] = ledger[c] - Cardinality(Taken(mutations, c, S))
  BY <1>8, <1>11, SettleResult
<1>16. S \cup {k} \cup R = DOMAIN mutations /\ R \in SUBSET DOMAIN mutations
       /\ S \cap {k} = {} /\ (S \cup {k}) \cap R = {}
  <2>1. k \in 1..n
    BY <1>5
  <2>2. 1..n = (1..(k - 1)) \cup {k} \cup ((k + 1)..n)
    BY <2>1
  <2>3. k \notin 1..(k - 1) /\ k \notin (k + 1)..n /\ (1..(k - 1)) \cap ((k + 1)..n) = {}
    BY <2>1
  <2>4. QED
    BY <1>5, <1>10, <1>12, <2>2, <2>3
<1>17. CostsAreCells' /\ \A c : Reserved(c)' = Cardinality(Taken(mutations, c, R))
  BY <1>14, <1>16, RemainingKeeps
<1>18. PICK who \in Conn, cost \in Nat :
         /\ who = mutations[k].who /\ cost = mutations[k].cost
         /\ cost = Cardinality(mutations[k].cells) /\ mutations[k].cells \subseteq Cells
  BY Pending DEF EditShape, CostsAreCells
<1>19. lost' = [lost EXCEPT ![who] = @ + cost] /\ lost \in [Conn -> Nat]
  BY <1>4, <1>18 DEF TypeOK
<1>20. ASSUME NEW c \in Conn PROVE ledger'[c] = Reserved(c)' + lost'[c]
  <2>1. IsFiniteSet(S) /\ IsFiniteSet({k}) /\ IsFiniteSet(S \cup {k}) /\ IsFiniteSet(R)
    BY <1>16, Pending
  <2>2. Cardinality(Taken(mutations, c, DOMAIN mutations))
          = Cardinality(Taken(mutations, c, S \cup {k})) + Cardinality(Taken(mutations, c, R))
    BY <1>16, <2>1, TakenSplits
  <2>3. Cardinality(Taken(mutations, c, S \cup {k}))
          = Cardinality(Taken(mutations, c, S)) + Cardinality(Taken(mutations, c, {k}))
    BY <1>16, <2>1, TakenSplits
  <2>4. Cardinality(Taken(mutations, c, {k})) = IF who = c THEN cost ELSE 0
    BY <1>18, TakenOfOne
  <2>5. PICK a \in Nat, b \in Nat : a = Cardinality(Taken(mutations, c, S))
                                    /\ b = Cardinality(Taken(mutations, c, R))
    BY <2>1, TakenCounted
  <2>6. Reserved(c) = a + (IF who = c THEN cost ELSE 0) + b
    BY <2>2, <2>3, <2>4, <2>5, HeldIsTaken
  <2>7. ledger[c] = Reserved(c) + lost[c] /\ lost[c] \in Nat
    BY <1>19 DEF ReservationsSettleOnce
  <2>8. ledger'[c] = ledger[c] - a /\ Reserved(c)' = b
    BY <1>15, <1>17, <2>5
  <2>9. lost'[c] = lost[c] + (IF who = c THEN cost ELSE 0)
    BY <1>19
  <2>10. QED
    BY <2>6, <2>7, <2>8, <2>9
<1>21. ReservationsSettleOnce'
  BY <1>20 DEF ReservationsSettleOnce
<1>22. TypeOK'
  <2>1. lost' \in [Conn -> Nat]
    BY <1>19
  <2>2. mutations' \in Seq(EditShape) /\ Len(mutations') <= MutationLimit
    BY <1>14 DEF Remaining
  <2>3. /\ UNCHANGED <<online, id, joins, roster, frame, edits, queue, counts, batch>>
        /\ UNCHANGED <<history, applied, timeline, resets>>
        /\ phase' = "idle" /\ faults' = faults + 1
    BY DEF CommitRaises, peerVars, clientVars, queueVars, bodyVars
  <2>4. /\ online' \subseteq Conn /\ id' \in [Conn -> Ids \cup {0}] /\ joins' \in [Conn -> Nat]
        /\ roster' \in [Ids -> Conn \cup {None}]
        /\ frame' \in [Conn -> Nat] /\ edits' \in [Conn -> Nat]
    BY <2>3 DEF TypeOK
  <2>5. /\ queue' \in Seq(RowShape) /\ batch' \in Seq(RowShape)
        /\ Len(queue') <= MaxPending /\ counts' \in [Conn -> Nat]
    BY <2>3 DEF TypeOK
  <2>6. /\ history' \in [Conn -> SUBSET Nat] /\ applied' \in [Conn -> Nat \cup {NoLoop}]
        /\ phase' \in {"idle", "drain", "commit"}
        /\ timeline' \in Nat /\ resets' \in Nat /\ faults' \in Nat
    BY <2>3 DEF TypeOK
  <2>7. QED
    BY <1>15, <2>1, <2>2, <2>4, <2>5, <2>6 DEF TypeOK
<1>23. PeersAgree' /\ NothingOutlivesItsOwner'
  <2>1. \A j \in DOMAIN mutations' : \E i \in DOMAIN mutations : mutations'[j] = mutations[i]
    BY <1>14, <1>16 DEF Remaining
  <2>2. QED
    BY <1>1, <2>1, OwnersOfTheRest
<1>24. QED
  BY <1>1, <1>17, <1>21, <1>22, <1>23, SharesKept DEF queueVars

-----------------------------------------------------------------------------
(* Lives, rounds and sessions.                                             *)

\* A new body has no frames yet.
LEMMA SpawnedType ==
  ASSUME TypeOK, NEW S, Spawned(S)
  PROVE  history' \in [Conn -> SUBSET Nat] /\ applied' \in [Conn -> Nat \cup {NoLoop}]
<1>1. /\ history' = [c \in Conn |-> IF c \in S THEN {} ELSE history[c]]
      /\ applied' = [c \in Conn |-> IF c \in S THEN NoLoop ELSE applied[c]]
  BY DEF Spawned
<1>2. history \in [Conn -> SUBSET Nat] /\ applied \in [Conn -> Nat \cup {NoLoop}]
  BY DEF TypeOK
<1>3. QED
  BY <1>1, <1>2

\* The edits of the old life stay those of the same Player.
LEMMA RespawnInv == ASSUME IInv, NEW c \in Conn, Respawn(c) PROVE IInv'
<1> USE DEF IInv
<1>1. /\ UNCHANGED <<online, id, joins, roster, queue, counts, mutations, ledger, lost>>
      /\ UNCHANGED <<frame, edits, batch, phase, solid, timeline, faults>>
      /\ blocks' = [blocks EXCEPT ![c] = Wallet] /\ resets' = resets + 1
  BY DEF Respawn, peerVars, clientVars, queueVars, tickVars
<1>2. history' \in [Conn -> SUBSET Nat] /\ applied' \in [Conn -> Nat \cup {NoLoop}]
  BY SpawnedType DEF Respawn
<1>3. blocks' \in [Conn -> 0..Wallet]
  BY <1>1, TickAssumption DEF TypeOK
<1>4. TypeOK'
  BY <1>1, <1>2, <1>3, SMTT(30) DEF TypeOK
<1>5. QED
  BY <1>1, <1>4, AccountsKept, OwnersKept, SharesKept DEF queueVars

\* Nothing is owed for a queue that is dropped with all it holds.
LEMMA RestartRoundInv ==
  ASSUME IInv, RestartRound, batch' \in Seq(RowShape), phase' = phase, resets' \in Nat
  PROVE  IInv'
<1> USE DEF IInv
<1>1. /\ UNCHANGED <<online, id, joins, roster, frame, edits, counts, solid, lost, faults>>
      /\ queue' = << >> /\ mutations' = << >> /\ timeline' = timeline + 1
      /\ ledger' = [c \in Conn |-> ledger[c] - Reserved(c)]
      /\ blocks' = [c \in Conn |-> IF InGame(c) THEN Wallet ELSE blocks[c]]
  BY DEF RestartRound, Reserved, peerVars, clientVars
<1>2. history' \in [Conn -> SUBSET Nat] /\ applied' \in [Conn -> Nat \cup {NoLoop}]
  BY SpawnedType DEF RestartRound
<1>3. blocks' \in [Conn -> 0..Wallet]
  <2>1. blocks \in [Conn -> 0..Wallet] /\ Wallet \in 0..Wallet
    BY TickAssumption DEF TypeOK
  <2>2. QED
    BY <1>1, <2>1
<1>4. ASSUME NEW c \in Conn PROVE ledger'[c] = lost[c] /\ lost[c] \in Nat
  <2>1. Reserved(c) \in Nat
    BY HeldIsTaken, TakenCounted, Pending
  <2>2. ledger[c] = Reserved(c) + lost[c] /\ lost[c] \in Nat
    BY DEF ReservationsSettleOnce, TypeOK
  <2>3. QED
    BY <1>1, <2>1, <2>2
<1>5. ledger' \in [Conn -> Int]
  <2>1. ledger' = [c \in Conn |-> ledger'[c]]
    BY <1>1
  <2>2. \A c \in Conn : ledger'[c] \in Int
    BY <1>4
  <2>3. QED
    BY <2>1, <2>2
<1>6. /\ mutations' \in Seq(EditShape) /\ Len(mutations') <= MutationLimit
      /\ queue' \in Seq(RowShape) /\ Len(queue') <= MaxPending
      /\ DOMAIN mutations' = {} /\ DOMAIN queue' = {}
  BY <1>1, TickAssumption
<1>7. TypeOK'
  BY <1>1, <1>2, <1>3, <1>5, <1>6 DEF TypeOK
<1>8. CostsAreCells' /\ NothingOutlivesItsOwner'
  BY <1>6 DEF CostsAreCells, NothingOutlivesItsOwner
<1>9. PeersAgree'
  BY <1>1 DEF PeersAgree, InGame
<1>10. ReservationsSettleOnce'
  <2>1. \A c : Reserved(c)' = 0
    BY <1>6, HeldIsTaken, TakenOfNone
  <2>2. QED
    BY <1>1, <1>4, <2>1 DEF ReservationsSettleOnce
<1>11. SharesAreRows'
  BY <1>1, EmptyQueueShares
<1>12. QED
  BY <1>7, <1>8, <1>9, <1>10, <1>11

\* The command, inside the drain.
LEMMA HandleRestartInv == ASSUME IInv, HandleRestart PROVE IInv'
<1>1. RestartRound /\ phase' = phase /\ resets' = resets /\ resets \in Nat
  BY DEF HandleRestart, IInv, TypeOK
<1>2. batch' \in Seq(RowShape)
  BY HandledRow DEF HandleRestart
<1>3. QED
  BY <1>1, <1>2, RestartRoundInv

\* The end of a match, in a task of its own.
LEMMA MatchRestartInv == ASSUME IInv, MatchRestart PROVE IInv'
<1>1. RestartRound /\ phase' = phase /\ resets' = resets + 1 /\ resets \in Nat
      /\ batch' = batch /\ batch \in Seq(RowShape)
  BY DEF MatchRestart, tickVars, IInv, TypeOK
<1>2. resets' \in Nat /\ batch' \in Seq(RowShape)
  BY <1>1
<1>3. QED
  BY <1>1, <1>2, RestartRoundInv

\* Every Player goes, and with it every edit.
LEMMA RolloverInv == ASSUME IInv, Rollover PROVE IInv'
<1> USE DEF IInv
<1>1. /\ UNCHANGED <<online, frame, edits, counts, batch, phase, history, applied, lost, faults>>
      /\ id' = [c \in Conn |-> 0] /\ roster' = [i \in Ids |-> None]
      /\ joins' = [c \in Conn |-> IF InGame(c) THEN joins[c] + 1 ELSE joins[c]]
      /\ queue' = << >> /\ timeline' = timeline + 1 /\ resets' = resets + 1
      /\ Cancel(DOMAIN mutations)
  BY DEF Rollover, clientVars, tickVars, bodyVars
<1>2. /\ blocks' \in [Conn -> 0..Wallet] /\ solid' \subseteq Cells
      /\ ledger' \in [Conn -> Int]
      /\ mutations' \in Seq(EditShape) /\ Len(mutations') <= MutationLimit
      /\ CostsAreCells' /\ ReservationsSettleOnce'
      /\ \A k \in DOMAIN mutations' :
           \E j \in DOMAIN mutations \ DOMAIN mutations : mutations'[k] = mutations[j]
  BY <1>1, CancelResult
<1>3. joins' \in [Conn -> Nat]
  BY <1>1 DEF TypeOK
<1>4. /\ queue' \in Seq(RowShape) /\ Len(queue') <= MaxPending /\ DOMAIN queue' = {}
  BY <1>1, TickAssumption
<1>5. TypeOK'
  BY <1>1, <1>2, <1>3, <1>4 DEF TypeOK
<1>6. PeersAgree'
  BY <1>1 DEF PeersAgree, InGame
<1>7. NothingOutlivesItsOwner'
  BY <1>2, <1>4 DEF NothingOutlivesItsOwner
<1>8. SharesAreRows'
  BY <1>1, EmptyQueueShares
<1>9. QED
  BY <1>2, <1>5, <1>6, <1>7, <1>8

-----------------------------------------------------------------------------
(* The theorems.                                                           *)

\* No step leaves the invariant.
LEMMA NextInv == IInv /\ [Next]_vars => IInv'
<1> SUFFICES ASSUME IInv, [Next]_vars PROVE IInv'
  OBVIOUS
<1>1. ASSUME UNCHANGED vars PROVE IInv'
  <2>1. UNCHANGED <<online, id, joins, roster, frame, edits, queue, counts, batch, phase>>
        /\ UNCHANGED <<history, applied, blocks, solid, mutations, ledger, lost>>
        /\ UNCHANGED <<timeline, resets, faults>>
    BY <1>1 DEF vars, peerVars, clientVars, queueVars, tickVars, bodyVars, editVars, tallyVars
  <2>2. TypeOK'
    BY <2>1 DEF IInv, TypeOK
  <2>3. CostsAreCells' /\ ReservationsSettleOnce'
    BY <2>1, AccountsKept
  <2>4. PeersAgree' /\ NothingOutlivesItsOwner'
    BY <2>1, OwnersKept
  <2>5. SharesAreRows'
    BY <2>1, SharesKept DEF queueVars
  <2>6. QED
    BY <2>2, <2>3, <2>4, <2>5 DEF IInv
<1>2. ASSUME NEW c \in Conn, Connect(c) PROVE IInv'
  BY <1>2, ConnectInv
<1>3. ASSUME NEW c \in Conn, Join(c) PROVE IInv'
  BY <1>3, JoinInv
<1>4. ASSUME NEW c \in Conn, Disconnect(c) PROVE IInv'
  BY <1>4, DisconnectInv
<1>5. ASSUME NEW c \in Conn, SendInput(c) PROVE IInv'
  BY <1>5, SendInputInv
<1>6. ASSUME NEW c \in Conn, NEW cells \in (SUBSET Cells) \ {{}}, SendLine(c, cells) PROVE IInv'
  BY <1>6, SendLineInv
<1>7. ASSUME NEW c \in Conn, SendRestart(c) PROVE IInv'
  BY <1>7, SendRestartInv
<1>8. ASSUME NEW c \in Conn, Respawn(c) PROVE IInv'
  BY <1>8, RespawnInv
<1>9. CASE BeginTick
  BY <1>9, BeginTickInv
<1>10. CASE SkipRow
  BY <1>10, SkipRowInv
<1>11. CASE HandleInput
  BY <1>11, HandleInputInv
<1>12. CASE HandleLine
  BY <1>12, HandleLineInv
<1>13. CASE HandleRestart
  BY <1>13, HandleRestartInv
<1>14. CASE Simulate
  BY <1>14, SimulateInv
<1>15. CASE CommitReady
  BY <1>15, CommitReadyInv
<1>16. CASE CommitRaises
  BY <1>16, CommitRaisesInv
<1>17. CASE MatchRestart
  BY <1>17, MatchRestartInv
<1>18. CASE Rollover
  BY <1>18, RolloverInv
<1>19. QED
  BY <1>1, <1>2, <1>3, <1>4, <1>5, <1>6, <1>7, <1>8, <1>9, <1>10, <1>11, <1>12, <1>13,
     <1>14, <1>15, <1>16, <1>17, <1>18 DEF Next

\* The invariant always holds.
LEMMA Inductive == Spec => []IInv
<1>1. QED
  BY InitInv, NextInv, PTL DEF Spec

\* The variables keep their types, the queue of packets and the queue of edits
\* never exceed their limits, and a refund never overfills a wallet.
THEOREM TypeCorrect == Spec => []TypeOK
<1>1. IInv => TypeOK
  BY DEF IInv
<1>2. QED
  BY <1>1, Inductive, PTL

\* Whatever ends a pending edit, the blocks taken for it are placed or given
\* back exactly once, but for an edit whose apply raised.
THEOREM EveryBlockIsSettled == Spec => []ReservationsSettleOnce
<1>1. IInv => ReservationsSettleOnce
  BY DEF IInv
<1>2. QED
  BY <1>1, Inductive, PTL

\* An id that is given to a new player never carries an edit of the one before,
\* and the rows of a peer leave the queue with it.
THEOREM NoEditIsInherited == Spec => []NothingOutlivesItsOwner
<1>1. IInv => NothingOutlivesItsOwner
  BY DEF IInv
<1>2. QED
  BY <1>1, Inductive, PTL

\* A step that sends and leaves the queue as it was is a refusal, for cause.
LEMMA RefusalHasCause ==
  ASSUME IInv, [Next]_vars, NEW c \in Conn,
         frame'[c] # frame[c] \/ edits'[c] # edits[c], queue' = queue
  PROVE  Rows(c) = ConnectionCap \/ Len(queue) = MaxPending
<1>1. ASSUME NEW d \in Conn, SendInput(d) PROVE d = c
  BY <1>1 DEF SendInput, IInv, TypeOK
<1>2. ASSUME NEW d \in Conn, NEW cells, SendLine(d, cells) PROVE d = c
  BY <1>2 DEF SendLine, IInv, TypeOK
<1>3. ASSUME SendInput(c) PROVE Rows(c) = ConnectionCap \/ Len(queue) = MaxPending
  <2>1. PICK row : row = Row(c, "input", frame[c] + 1, {})
    OBVIOUS
  <2>2. frame[c] \in Nat /\ timeline \in Nat
    BY DEF IInv, TypeOK
  <2>3. row \in RowShape /\ row.from = c
    BY <2>1, <2>2 DEF Row, RowShape
  <2>4. Receive(c, row)
    BY <1>3, <2>1 DEF SendInput
  <2>5. QED
    BY <2>3, <2>4, ReceiveResult
<1>4. ASSUME NEW cells \in SUBSET Cells, SendLine(c, cells)
      PROVE  Rows(c) = ConnectionCap \/ Len(queue) = MaxPending
  <2>1. PICK row : row = Row(c, "line", frame[c] + 1, cells)
    OBVIOUS
  <2>2. frame[c] \in Nat /\ timeline \in Nat
    BY DEF IInv, TypeOK
  <2>3. row \in RowShape /\ row.from = c
    BY <2>1, <2>2 DEF Row, RowShape
  <2>4. Receive(c, row)
    BY <1>4, <2>1 DEF SendLine
  <2>5. QED
    BY <2>3, <2>4, ReceiveResult
<1>5. CASE UNCHANGED clientVars
  BY <1>5 DEF clientVars
<1>6. \/ UNCHANGED clientVars
      \/ \E d \in Conn : SendInput(d)
      \/ \E d \in Conn, cells \in SUBSET Cells : SendLine(d, cells)
  <2>1. ASSUME NEW d \in Conn,
               Connect(d) \/ Join(d) \/ Disconnect(d) \/ SendRestart(d) \/ Respawn(d)
        PROVE  UNCHANGED clientVars
    BY <2>1 DEF Connect, Join, Disconnect, SendRestart, Respawn
  <2>2. CASE BeginTick \/ SkipRow \/ HandleInput \/ HandleLine \/ HandleRestart
    BY <2>2 DEF BeginTick, SkipRow, HandleInput, HandleLine, HandleRestart, RestartRound
  <2>3. CASE Simulate \/ CommitReady \/ CommitRaises \/ MatchRestart \/ Rollover
    BY <2>3 DEF Simulate, CommitReady, CommitRaises, MatchRestart, RestartRound, Rollover
  <2>4. CASE UNCHANGED vars
    BY <2>4 DEF vars
  <2>5. QED
    BY <2>1, <2>2, <2>3, <2>4 DEF Next
<1>7. QED
  BY <1>1, <1>2, <1>3, <1>4, <1>5, <1>6

\* A packet is refused to a peer whose share is in the queue, or by a full
\* queue, and never because a share was not returned.
THEOREM NoShareIsLost == Spec => OnlyFloodersAreRefused
<1>1. IInv /\ [Next]_vars =>
        [\A c \in Conn :
           (frame'[c] # frame[c] \/ edits'[c] # edits[c]) /\ queue' = queue
             => Rows(c) = ConnectionCap \/ Len(queue) = MaxPending]_vars
  BY RefusalHasCause
<1>2. QED
  BY <1>1, Inductive, PTL DEF Spec, OnlyFloodersAreRefused
=============================================================================
