-------------------------- MODULE TerrainRepairProofs --------------------------
(***************************************************************************)
(* Proofs about TerrainRepair, for any map, colours, players, delays,      *)
(* batches and limit, and no bound on the run but MaxEdits.                *)
(*                                                                         *)
(* The first part says what the helpers do to a lane and to a book of both *)
(* lanes; the second that every step keeps the types; the third that no    *)
(* wrong cell is forgotten.                                                *)
(***************************************************************************)
EXTENDS TerrainRepair, SequenceTheorems, TLAPS

-----------------------------------------------------------------------------
(* Lanes.                                                                  *)

\* What a lane is, entry by entry.
LEMMA LaneFacts ==
  ASSUME NEW delay \in Nat, NEW lane \in Lane(delay)
  PROVE  /\ lane \in Seq(Entry(delay)) /\ Len(lane) \in Nat
         /\ DOMAIN lane = 1..Len(lane)
         /\ \A k \in 1..Len(lane) :
              lane[k] \in Entry(delay) /\ lane[k].cell \in Cell
              /\ lane[k].wait \in 0..delay
         /\ \A c : c \in Cells(lane) <=> \E k \in 1..Len(lane) : c = lane[k].cell
         /\ \A j, k \in 1..Len(lane) : j <= k => lane[j].wait <= lane[k].wait
         /\ \A j, k \in 1..Len(lane) : lane[j].cell = lane[k].cell => j = k
<1>1. lane \in Seq(Entry(delay)) /\ Sorted(lane) /\ Distinct(lane)
  BY DEF Lane
<1>2. Len(lane) \in Nat /\ DOMAIN lane = 1..Len(lane)
  BY <1>1, LenProperties
<1>3. \A k \in 1..Len(lane) : lane[k] \in Entry(delay)
  BY <1>1, ElementOfSeq
<1>4. \A e \in Entry(delay) : e.cell \in Cell /\ e.wait \in 0..delay
  BY DEF Entry
<1>5. \A c : c \in Cells(lane) <=> \E k \in 1..Len(lane) : c = lane[k].cell
  BY <1>2, Zenon DEF Cells
<1>6. QED
  BY <1>1, <1>2, <1>3, <1>4, <1>5 DEF Sorted, Distinct

\* And what makes a sequence of entries a lane.
LEMMA IsLane ==
  ASSUME NEW delay \in Nat, NEW s \in Seq(Entry(delay)),
         \A j, k \in 1..Len(s) : j <= k => s[j].wait <= s[k].wait,
         \A j, k \in 1..Len(s) : s[j].cell = s[k].cell => j = k
  PROVE  /\ s \in Lane(delay)
         /\ \A c : c \in Cells(s) <=> \E k \in 1..Len(s) : c = s[k].cell
<1>1. DOMAIN s = 1..Len(s)
  BY LenProperties
<1>2. Sorted(s) /\ Distinct(s)
  BY <1>1 DEF Sorted, Distinct
<1>3. s \in Lane(delay)
  BY <1>2 DEF Lane
<1>4. QED
  BY <1>3, LaneFacts

\* Taking a cell out of a lane takes out that cell only and keeps the order.
LEMMA WithoutLane ==
  ASSUME NEW delay \in Nat, NEW lane \in Lane(delay), NEW x
  PROVE  /\ Without(lane, x) \in Lane(delay)
         /\ Cells(Without(lane, x)) = Cells(lane) \ {x}
         /\ Len(Without(lane, x)) = IF x \in Cells(lane) THEN Len(lane) - 1 ELSE Len(lane)
<1> DEFINE L == Len(lane)
<1>1. /\ lane \in Seq(Entry(delay)) /\ L \in Nat /\ DOMAIN lane = 1..L
      /\ \A k \in 1..L : lane[k] \in Entry(delay) /\ lane[k].wait \in 0..delay
      /\ \A c : c \in Cells(lane) <=> \E k \in 1..L : c = lane[k].cell
      /\ \A j, k \in 1..L : j <= k => lane[j].wait <= lane[k].wait
      /\ \A j, k \in 1..L : lane[j].cell = lane[k].cell => j = k
  BY LaneFacts
<1>2. CASE x \notin Cells(lane)
  BY <1>2 DEF Without
<1>3. CASE x \in Cells(lane)
  <2> DEFINE i == CHOOSE k \in DOMAIN lane : lane[k].cell = x
             front == SubSeq(lane, 1, i - 1)
             rest == SubSeq(lane, i + 1, L)
             w == front \o rest
             at(k) == IF k < i THEN k ELSE k + 1
  <2>1. i \in 1..L /\ lane[i].cell = x
    <3>1. \E k \in DOMAIN lane : lane[k].cell = x
      BY <1>1, <1>3
    <3>2. QED
      BY <1>1, <3>1
  <2>2. Without(lane, x) = w
    BY <1>3 DEF Without, RemoveAt
  <2> HIDE DEF i
  <2>3. /\ front \in Seq(Entry(delay)) /\ Len(front) = i - 1
        /\ \A k \in 1..(i - 1) : front[k] = lane[k]
    <3>1. \A k \in 1..(i - 1) : lane[k] \in Entry(delay)
      BY <1>1, <2>1
    <3>2. /\ front \in Seq(Entry(delay))
          /\ Len(front) = IF 1 <= i - 1 THEN i - 1 - 1 + 1 ELSE 0
          /\ \A k \in 1..(i - 1 - 1 + 1) : front[k] = lane[1 + k - 1]
      BY <2>1, <3>1, SubSeqProperties
    <3> HIDE DEF front
    <3>3. QED
      BY <2>1, <3>2
  <2>4. /\ rest \in Seq(Entry(delay)) /\ Len(rest) = L - i
        /\ \A k \in 1..(L - i) : rest[k] = lane[i + k]
    <3>1. \A k \in (i + 1)..L : lane[k] \in Entry(delay)
      BY <1>1, <2>1
    <3>2. /\ rest \in Seq(Entry(delay))
          /\ Len(rest) = IF i + 1 <= L THEN L - (i + 1) + 1 ELSE 0
          /\ \A k \in 1..(L - (i + 1) + 1) : rest[k] = lane[i + 1 + k - 1]
      BY <1>1, <2>1, <3>1, SubSeqProperties
    <3> HIDE DEF rest, L
    <3>3. QED
      BY <1>1, <2>1, <3>2
  <2> HIDE DEF front, rest
  <2>5. /\ w \in Seq(Entry(delay)) /\ Len(w) = Len(front) + Len(rest)
        /\ \A k \in 1..(Len(front) + Len(rest)) :
             w[k] = IF k <= Len(front) THEN front[k] ELSE rest[k - Len(front)]
    BY <2>3, <2>4, ConcatProperties
  <2> HIDE DEF w, L
  <2>6. /\ Len(w) = L - 1
        /\ \A k \in 1..(L - 1) : w[k] = lane[at(k)] /\ at(k) \in 1..L /\ at(k) # i
    BY <1>1, <2>1, <2>3, <2>4, <2>5
  <2>7. \A j, k \in 1..Len(w) : j <= k => w[j].wait <= w[k].wait
    BY <1>1, <2>1, <2>6, SMTT(30)
  <2>8. \A j, k \in 1..Len(w) : w[j].cell = w[k].cell => j = k
    <3> SUFFICES ASSUME NEW j \in 1..Len(w), NEW k \in 1..Len(w), w[j].cell = w[k].cell
                 PROVE  j = k
      OBVIOUS
    <3>1. at(j) = at(k)
      BY <1>1, <2>6
    <3>2. QED
      BY <1>1, <2>1, <2>6, <3>1
  <2>9. \A k \in 1..Len(w) : w[k].cell \in Cells(lane) \ {x}
    BY <1>1, <2>1, <2>6
  <2>10. \A c \in Cells(lane) \ {x} : \E k \in 1..Len(w) : w[k].cell = c
    <3> SUFFICES ASSUME NEW n \in 1..L, n # i
                 PROVE  \E k \in 1..Len(w) : w[k].cell = lane[n].cell
      BY <1>1, <2>1
    <3>1. CASE n < i
      BY <1>1, <2>1, <2>6, <3>1
    <3>2. CASE n > i
      <4>1. n - 1 \in 1..Len(w) /\ w[n - 1] = lane[n]
        BY <1>1, <2>1, <2>6, <3>2
      <4>2. QED
        BY <4>1
    <3>3. QED
      BY <2>1, <3>1, <3>2
  <2>11. w \in Lane(delay) /\ Cells(w) = Cells(lane) \ {x}
    <3>1. /\ w \in Lane(delay)
          /\ \A c : c \in Cells(w) <=> \E k \in 1..Len(w) : c = w[k].cell
      BY <2>5, <2>7, <2>8, IsLane
    <3>2. Cells(w) = Cells(lane) \ {x}
      BY <2>9, <2>10, <3>1
    <3>3. QED
      BY <3>1, <3>2
  <2>12. QED
    BY <1>3, <2>2, <2>6, <2>11 DEF L
<1>4. QED
  BY <1>2, <1>3

\* A new entry, which waits longest, goes to the end.
LEMMA AppendLane ==
  ASSUME NEW delay \in Nat, NEW lane \in Lane(delay), NEW x \in Cell, x \notin Cells(lane)
  PROVE  LET new == Append(lane, [cell |-> x, wait |-> delay])
         IN /\ new \in Lane(delay)
            /\ Cells(new) = Cells(lane) \cup {x}
            /\ Len(new) = Len(lane) + 1
<1> DEFINE e == [cell |-> x, wait |-> delay]
           new == Append(lane, e)
           L == Len(lane)
<1>1. /\ lane \in Seq(Entry(delay)) /\ L \in Nat /\ DOMAIN lane = 1..L
      /\ \A k \in 1..L : lane[k] \in Entry(delay) /\ lane[k].wait \in 0..delay
      /\ \A c : c \in Cells(lane) <=> \E k \in 1..L : c = lane[k].cell
      /\ \A j, k \in 1..L : j <= k => lane[j].wait <= lane[k].wait
      /\ \A j, k \in 1..L : lane[j].cell = lane[k].cell => j = k
  BY LaneFacts
<1>2. e \in Entry(delay) /\ e.cell = x /\ e.wait = delay
  BY DEF Entry
<1> HIDE DEF e
<1>3. /\ new \in Seq(Entry(delay)) /\ Len(new) = L + 1
      /\ new[L + 1] = e /\ \A k \in 1..L : new[k] = lane[k]
  BY <1>1, <1>2, AppendProperties
<1> HIDE DEF new, L
<1>4. \A k \in 1..L : new[k].cell # x
  BY <1>1, <1>3
<1>5. \A j, k \in 1..Len(new) : j <= k => new[j].wait <= new[k].wait
  BY <1>1, <1>2, <1>3
<1>6. \A j, k \in 1..Len(new) : new[j].cell = new[k].cell => j = k
  BY <1>1, <1>2, <1>3, <1>4
<1>7. \A k \in 1..Len(new) : new[k].cell \in Cells(lane) \cup {x}
  BY <1>1, <1>2, <1>3
<1>8. \A c \in Cells(lane) \cup {x} : \E k \in 1..Len(new) : new[k].cell = c
  <2>1. new[L + 1].cell = x /\ L + 1 \in 1..Len(new)
    BY <1>1, <1>2, <1>3
  <2>2. \A k \in 1..L : k \in 1..Len(new) /\ new[k].cell = lane[k].cell
    BY <1>1, <1>3
  <2>3. QED
    BY <1>1, <2>1, <2>2, SMTT(30)
<1>9. new \in Lane(delay) /\ Cells(new) = Cells(lane) \cup {x}
  <2>1. /\ new \in Lane(delay)
        /\ \A c : c \in Cells(new) <=> \E k \in 1..Len(new) : c = new[k].cell
    BY <1>3, <1>5, <1>6, IsLane
  <2>2. Cells(new) = Cells(lane) \cup {x}
    BY <1>7, <1>8, <2>1
  <2>3. QED
    BY <2>1, <2>2
<1>10. QED
  BY <1>3, <1>9 DEF e, new, L

\* A piece of a lane is a lane.
LEMMA SubLane ==
  ASSUME NEW delay \in Nat, NEW lane \in Lane(delay), NEW m \in Nat \ {0}, NEW n \in Nat,
         n <= Len(lane)
  PROVE  /\ SubSeq(lane, m, n) \in Lane(delay)
         /\ Cells(SubSeq(lane, m, n)) = {lane[k].cell : k \in m..n}
         /\ Len(SubSeq(lane, m, n)) = IF m <= n THEN n - m + 1 ELSE 0
<1> DEFINE s == SubSeq(lane, m, n)
           L == Len(lane)
<1>1. /\ lane \in Seq(Entry(delay)) /\ L \in Nat /\ DOMAIN lane = 1..L
      /\ \A k \in 1..L : lane[k] \in Entry(delay) /\ lane[k].wait \in 0..delay
      /\ \A j, k \in 1..L : j <= k => lane[j].wait <= lane[k].wait
      /\ \A j, k \in 1..L : lane[j].cell = lane[k].cell => j = k
  BY LaneFacts
<1>2. /\ s \in Seq(Entry(delay))
      /\ Len(s) = IF m <= n THEN n - m + 1 ELSE 0
      /\ \A k \in 1..(n - m + 1) : s[k] = lane[m + k - 1]
  <2>1. \A k \in m..n : lane[k] \in Entry(delay)
    BY <1>1
  <2>2. QED
    BY <2>1, SubSeqProperties
<1> HIDE DEF s, L
<1>3. \A k \in 1..Len(s) : s[k] = lane[m + k - 1] /\ m + k - 1 \in m..n
  BY <1>2
<1>4. m..n \subseteq 1..L
  BY <1>1 DEF L
<1>5. \A j, k \in 1..Len(s) : j <= k => s[j].wait <= s[k].wait
  <2> SUFFICES ASSUME NEW j \in 1..Len(s), NEW k \in 1..Len(s), j <= k
               PROVE  s[j].wait <= s[k].wait
    OBVIOUS
  <2>1. m + j - 1 \in 1..L /\ m + k - 1 \in 1..L /\ m + j - 1 <= m + k - 1
    BY <1>2, <1>3, <1>4
  <2>2. lane[m + j - 1].wait <= lane[m + k - 1].wait
    BY <1>1, <2>1
  <2>3. QED
    BY <1>3, <2>2
<1>6. \A j, k \in 1..Len(s) : s[j].cell = s[k].cell => j = k
  <2> SUFFICES ASSUME NEW j \in 1..Len(s), NEW k \in 1..Len(s), s[j].cell = s[k].cell
               PROVE  j = k
    OBVIOUS
  <2>1. m + j - 1 = m + k - 1
    BY <1>1, <1>3, <1>4
  <2>2. QED
    BY <1>2, <2>1
<1>7. \A k \in 1..Len(s) : s[k].cell \in {lane[l].cell : l \in m..n}
  BY <1>3
<1>8. \A c \in {lane[l].cell : l \in m..n} : \E k \in 1..Len(s) : s[k].cell = c
  <2> SUFFICES ASSUME NEW l \in m..n PROVE \E k \in 1..Len(s) : s[k].cell = lane[l].cell
    OBVIOUS
  <2>1. l - m + 1 \in 1..Len(s) /\ s[l - m + 1] = lane[l]
    BY <1>2
  <2>2. QED
    BY <2>1
<1>9. s \in Lane(delay) /\ Cells(s) = {lane[k].cell : k \in m..n}
  <2>1. /\ s \in Lane(delay)
        /\ \A c : c \in Cells(s) <=> \E k \in 1..Len(s) : c = s[k].cell
    BY <1>2, <1>5, <1>6, IsLane
  <2>2. \A c : c \in Cells(s) <=> c \in {lane[k].cell : k \in m..n}
    BY <1>7, <1>8, <2>1, ZenonT(30)
  <2>3. Cells(s) = {lane[k].cell : k \in m..n}
    BY Zenon, <2>2
  <2>4. QED
    BY <2>1, <2>3
<1>10. QED
  BY <1>2, <1>9 DEF s

\* Time passes for all entries alike.
LEMMA AgedLane ==
  ASSUME NEW delay \in Nat, NEW lane \in Lane(delay)
  PROVE  /\ Aged(lane) \in Lane(delay)
         /\ Cells(Aged(lane)) = Cells(lane)
         /\ Len(Aged(lane)) = Len(lane)
<1> DEFINE a == Aged(lane)
           L == Len(lane)
<1>1. /\ lane \in Seq(Entry(delay)) /\ L \in Nat /\ DOMAIN lane = 1..L
      /\ \A k \in 1..L : lane[k] \in Entry(delay) /\ lane[k].wait \in 0..delay
      /\ \A c : c \in Cells(lane) <=> \E k \in 1..L : c = lane[k].cell
      /\ \A j, k \in 1..L : j <= k => lane[j].wait <= lane[k].wait
      /\ \A j, k \in 1..L : lane[j].cell = lane[k].cell => j = k
  BY LaneFacts
<1>2. \A k \in 1..L :
        /\ a[k] \in Entry(delay) /\ a[k].cell = lane[k].cell
        /\ a[k].wait = IF lane[k].wait = 0 THEN 0 ELSE lane[k].wait - 1
  BY <1>1 DEF Aged, Entry
<1>3. a \in [1..L -> Entry(delay)]
  <2>1. a = [k \in 1..L |-> a[k]]
    BY <1>1 DEF Aged
  <2> HIDE DEF a
  <2>2. QED
    BY <1>2, <2>1
<1> HIDE DEF a
<1>4. a \in Seq(Entry(delay)) /\ Len(a) = L
  <2>1. a \in Seq(Entry(delay))
    BY <1>1, <1>3, SeqDef
  <2>2. Len(a) \in Nat /\ 1..Len(a) = 1..L
    BY <1>3, <2>1, LenProperties
  <2>3. QED
    BY <1>1, <2>1, <2>2
<1> HIDE DEF L
<1>5. \A j, k \in 1..Len(a) : j <= k => a[j].wait <= a[k].wait
  BY <1>1, <1>2, <1>4
<1>6. \A j, k \in 1..Len(a) : a[j].cell = a[k].cell => j = k
  BY <1>1, <1>2, <1>4
<1>7. \A k \in 1..Len(a) : a[k].cell \in Cells(lane)
  BY <1>1, <1>2, <1>4
<1>8. \A c \in Cells(lane) : \E k \in 1..Len(a) : a[k].cell = c
  BY <1>1, <1>2, <1>4
<1>9. a \in Lane(delay) /\ Cells(a) = Cells(lane)
  <2>1. /\ a \in Lane(delay)
        /\ \A c : c \in Cells(a) <=> \E k \in 1..Len(a) : c = a[k].cell
    BY <1>4, <1>5, <1>6, IsLane
  <2>2. \A c : c \in Cells(a) <=> c \in Cells(lane)
    BY <1>7, <1>8, <2>1
  <2>3. Cells(a) = Cells(lane)
    BY Zenon, <2>2
  <2>4. QED
    BY <2>1, <2>3
<1>10. QED
  BY <1>4, <1>9 DEF a, L

\* What is left of a lane after a batch: nothing is lost between the two.
LEMMA AfterLane ==
  ASSUME NEW delay \in Nat, NEW lane \in Lane(delay), NEW n \in 0..Len(lane)
  PROVE  /\ After(lane, n) \in Lane(delay)
         /\ Cells(lane) = Cells(SubSeq(lane, 1, n)) \cup Cells(After(lane, n))
         /\ Len(After(lane, n)) <= Len(lane) /\ Len(After(lane, n)) \in Nat
<1> DEFINE rest == SubSeq(lane, n + 1, Len(lane))
<1>1. /\ Len(lane) \in Nat
      /\ \A c : c \in Cells(lane) <=> \E k \in 1..Len(lane) : c = lane[k].cell
  BY LaneFacts
<1>2. /\ rest \in Lane(delay)
      /\ Cells(rest) = {lane[k].cell : k \in (n + 1)..Len(lane)}
      /\ Len(rest) = IF n + 1 <= Len(lane) THEN Len(lane) - (n + 1) + 1 ELSE 0
  <2>1. n + 1 \in Nat \ {0} /\ Len(lane) \in Nat /\ Len(lane) <= Len(lane)
    BY <1>1
  <2>2. QED
    BY <2>1, SubLane
<1>3. Cells(SubSeq(lane, 1, n)) = {lane[k].cell : k \in 1..n}
  BY <1>1, SubLane
<1> HIDE DEF rest
<1>4. Cells(lane) = Cells(SubSeq(lane, 1, n)) \cup Cells(rest)
  <2>1. \A k : k \in 1..Len(lane) <=> k \in 1..n \/ k \in (n + 1)..Len(lane)
    BY <1>1
  <2>2. QED
    BY <1>1, <1>2, <1>3, <2>1
<1>5. Len(rest) <= Len(lane) /\ Len(rest) \in Nat
  BY <1>1, <1>2
<1>6. QED
  BY <1>2, <1>4, <1>5, AgedLane DEF After, rest

\* No entries.
LEMMA EmptyLane ==
  ASSUME NEW delay \in Nat
  PROVE  <<>> \in Lane(delay) /\ Cells(<<>>) = {} /\ Len(<<>>) = 0
<1> DEFINE s == <<>>
<1>1. s \in Seq(Entry(delay)) /\ Len(s) = 0
  BY EmptySeq
<1> HIDE DEF s
<1>2. /\ s \in Lane(delay)
      /\ \A c : c \in Cells(s) <=> \E k \in 1..Len(s) : c = s[k].cell
  <2>1. \A k : k \notin 1..Len(s)
    BY <1>1
  <2>2. /\ \A j, k \in 1..Len(s) : j <= k => s[j].wait <= s[k].wait
        /\ \A j, k \in 1..Len(s) : s[j].cell = s[k].cell => j = k
    BY <2>1
  <2>3. QED
    BY <1>1, <2>2, IsLane
<1>3. \A c : c \notin Cells(s)
  BY <1>1, <1>2
<1>4. QED
  BY <1>1, <1>2, <1>3 DEF s

\* The oldest entry goes.
LEMMA TailLane ==
  ASSUME NEW delay \in Nat, NEW lane \in Lane(delay), lane # <<>>
  PROVE  /\ Tail(lane) \in Lane(delay) /\ Len(Tail(lane)) = Len(lane) - 1
         /\ Len(lane) \in Nat \ {0} /\ Head(lane).cell \in Cell
         /\ Cells(lane) = Cells(Tail(lane)) \cup {Head(lane).cell}
<1>1. /\ lane \in Seq(Entry(delay)) /\ Len(lane) \in Nat \ {0}
      /\ \A k \in 1..Len(lane) : lane[k].cell \in Cell
      /\ \A c : c \in Cells(lane) <=> \E k \in 1..Len(lane) : c = lane[k].cell
  BY LaneFacts, EmptySeq
<1>2. Tail(lane) = SubSeq(lane, 2, Len(lane))
  BY <1>1, TailIsSubSeq
<1>3. Head(lane) = lane[1]
  BY <1>1
<1>4. /\ Tail(lane) \in Lane(delay)
      /\ Cells(Tail(lane)) = {lane[k].cell : k \in 2..Len(lane)}
      /\ Len(Tail(lane)) = Len(lane) - 1
  <2> DEFINE L == Len(lane)
             f == SubSeq(lane, 2, L)
  <2>1. /\ f \in Lane(delay) /\ Cells(f) = {lane[k].cell : k \in 2..L}
        /\ Len(f) = IF 2 <= L THEN L - 2 + 1 ELSE 0
    <3>1. 2 \in Nat \ {0} /\ L \in Nat /\ L <= Len(lane)
      BY <1>1
    <3>2. QED
      BY <3>1, SubLane
  <2>2. L \in Nat \ {0}
    BY <1>1
  <2> HIDE DEF f, L
  <2>3. Len(f) = L - 1
    BY <2>1, <2>2
  <2>4. QED
    BY <1>2, <2>1, <2>3 DEF f, L
<1> DEFINE t == Tail(lane)
<1> HIDE DEF t
<1>5. \A c : c \in Cells(lane) <=> c \in Cells(t) \cup {lane[1].cell}
  <2>1. \A k : k \in 1..Len(lane) <=> k = 1 \/ k \in 2..Len(lane)
    BY <1>1
  <2>2. QED
    BY <1>1, <1>4, <2>1 DEF t
<1>6. Cells(lane) = Cells(t) \cup {lane[1].cell}
  BY <1>5
<1>7. QED
  BY <1>1, <1>3, <1>4, <1>6 DEF t

\* The newest entry goes.
LEMMA FrontLane ==
  ASSUME NEW delay \in Nat, NEW lane \in Lane(delay), lane # <<>>
  PROVE  /\ Front(lane) \in Lane(delay) /\ Len(Front(lane)) = Len(lane) - 1
         /\ Len(lane) \in Nat \ {0} /\ Last(lane).cell \in Cell
         /\ Cells(lane) = Cells(Front(lane)) \cup {Last(lane).cell}
<1>1. /\ lane \in Seq(Entry(delay)) /\ Len(lane) \in Nat \ {0}
      /\ \A k \in 1..Len(lane) : lane[k].cell \in Cell
      /\ \A c : c \in Cells(lane) <=> \E k \in 1..Len(lane) : c = lane[k].cell
  BY LaneFacts, EmptySeq
<1> DEFINE L == Len(lane)
           f == SubSeq(lane, 1, L - 1)
<1>2. /\ f \in Lane(delay)
      /\ Cells(f) = {lane[k].cell : k \in 1..(L - 1)}
      /\ Len(f) = IF 1 <= L - 1 THEN L - 1 - 1 + 1 ELSE 0
  <2>1. L - 1 \in Nat /\ L - 1 <= Len(lane)
    BY <1>1
  <2>2. QED
    BY <2>1, SubLane
<1> HIDE DEF f
<1>3. \A c : c \in Cells(lane) <=> c \in Cells(f) \cup {lane[L].cell}
  <2>1. \A k : k \in 1..L <=> k = L \/ k \in 1..(L - 1)
    BY <1>1
  <2>2. QED
    BY <1>1, <1>2, <2>1
<1>4. Cells(lane) = Cells(f) \cup {lane[L].cell}
  BY <1>3
<1>5. QED
  <2>1. Front(lane) = f /\ Last(lane) = lane[L]
    BY DEF Front, Last, f
  <2>2. L \in Nat \ {0} /\ lane[L].cell \in Cell
    BY <1>1
  <2> HIDE DEF L
  <2>3. Len(f) = L - 1
    BY <1>2, <2>2
  <2>4. QED
    BY <1>2, <1>4, <2>1, <2>2, <2>3 DEF L

-----------------------------------------------------------------------------
(* Books.                                                                  *)

BothLanes(P, C) ==
  P \in Lane(Delay) /\ C \in Lane(CollapseDelay) /\ Cells(P) \cap Cells(C) = {}
Orderly(b) ==
  /\ BothLanes(b.pending, b.collapsing) /\ b.dropped \subseteq Cell
  /\ Len(b.pending) + Len(b.collapsing) <= Limit
Known(b) == Cells(b.pending) \cup Cells(b.collapsing) \cup b.dropped

\* One entry too many, and the limit holds again; the cell that goes is known
\* to be dropped.
LEMMA EnforceOrderly ==
  ASSUME NEW P, NEW C, NEW D \in SUBSET Cell, BothLanes(P, C),
         Len(P) + Len(C) <= Limit + 1
  PROVE  LET b == [pending |-> P, collapsing |-> C, dropped |-> D]
         IN Orderly(EnforceLimit(b)) /\ Known(b) \subseteq Known(EnforceLimit(b))
<1> DEFINE b == [pending |-> P, collapsing |-> C, dropped |-> D]
<1>1. /\ P \in Lane(Delay) /\ C \in Lane(CollapseDelay) /\ Cells(P) \cap Cells(C) = {}
      /\ Delay \in Nat /\ CollapseDelay \in Nat /\ Limit \in Nat \ {0}
  BY RepairAssumption DEF BothLanes
<1>2. Len(P) \in Nat /\ Len(C) \in Nat
  BY <1>1, LaneFacts
<1>3. CASE Len(P) + Len(C) <= Limit
  <2>1. EnforceLimit(b) = b
    BY <1>3 DEF EnforceLimit
  <2> HIDE DEF b
  <2>2. b.pending = P /\ b.collapsing = C /\ b.dropped = D
    BY DEF b
  <2>3. Orderly(b)
    BY <1>1, <1>3, <2>2 DEF Orderly, BothLanes
  <2>4. QED
    BY <2>1, <2>3 DEF b
<1>4. CASE ~(Len(P) + Len(C) <= Limit) /\ P # <<>>
  <2>1. EnforceLimit(b) = [pending |-> Tail(P), collapsing |-> C,
                           dropped |-> D \cup {Head(P).cell}]
    BY <1>4 DEF EnforceLimit
  <2>2. /\ Tail(P) \in Lane(Delay) /\ Len(Tail(P)) = Len(P) - 1 /\ Head(P).cell \in Cell
        /\ Cells(P) = Cells(Tail(P)) \cup {Head(P).cell}
    BY <1>1, <1>4, TailLane
  <2>3. Cells(Tail(P)) \cap Cells(C) = {} /\ Len(Tail(P)) + Len(C) <= Limit
    BY <1>1, <1>2, <2>2
  <2>4. QED
    <3> DEFINE n == EnforceLimit(b)
    <3>1. n.pending = Tail(P) /\ n.collapsing = C /\ n.dropped = D \cup {Head(P).cell}
      BY <2>1
    <3> HIDE DEF n
    <3>2. Orderly(n)
      BY <1>1, <2>2, <2>3, <3>1 DEF Orderly, BothLanes
    <3>3. Known(b) \subseteq Known(n)
      BY <2>2, <3>1 DEF Known
    <3>4. QED
      BY <3>2, <3>3 DEF n
<1>5. CASE ~(Len(P) + Len(C) <= Limit) /\ P = <<>>
  <2>1. EnforceLimit(b) = [pending |-> P, collapsing |-> Front(C),
                           dropped |-> D \cup {Last(C).cell}]
    BY <1>5 DEF EnforceLimit
  <2>2. Len(P) = 0 /\ C # <<>>
    BY <1>1, <1>2, <1>5, EmptyLane
  <2>3. /\ Front(C) \in Lane(CollapseDelay) /\ Len(Front(C)) = Len(C) - 1
        /\ Last(C).cell \in Cell /\ Cells(C) = Cells(Front(C)) \cup {Last(C).cell}
    BY <1>1, <2>2, FrontLane
  <2>4. Cells(P) \cap Cells(Front(C)) = {} /\ Len(P) + Len(Front(C)) <= Limit
    BY <1>1, <1>2, <2>2, <2>3
  <2>5. QED
    <3> DEFINE n == EnforceLimit(b)
    <3>1. n.pending = P /\ n.collapsing = Front(C) /\ n.dropped = D \cup {Last(C).cell}
      BY <2>1
    <3> HIDE DEF n
    <3>2. Orderly(n)
      BY <1>1, <2>3, <2>4, <3>1 DEF Orderly, BothLanes
    <3>3. Known(b) \subseteq Known(n)
      BY <2>3, <3>1 DEF Known
    <3>4. QED
      BY <3>2, <3>3 DEF n
<1>6. QED
  BY <1>3, <1>4, <1>5

\* Recording a cell, in either lane: the book stays orderly, forgets nothing
\* and knows the cell.
LEMMA RecordOrderly ==
  ASSUME NEW P, NEW C, NEW D \in SUBSET Cell, NEW x \in Cell,
         LET b == [pending |-> P, collapsing |-> C, dropped |-> D] IN Orderly(b)
  PROVE  LET b == [pending |-> P, collapsing |-> C, dropped |-> D]
         IN /\ Orderly(RecordCell(b, x)) /\ Known(b) \cup {x} \subseteq Known(RecordCell(b, x))
            /\ Orderly(RecordCollapseCell(b, x))
            /\ Known(b) \cup {x} \subseteq Known(RecordCollapseCell(b, x))
<1> DEFINE b == [pending |-> P, collapsing |-> C, dropped |-> D]
           WP == Without(P, x)
           WC == Without(C, x)
           AP == Append(WP, [cell |-> x, wait |-> Delay])
           AC == Append(WC, [cell |-> x, wait |-> CollapseDelay])
<1>1. /\ P \in Lane(Delay) /\ C \in Lane(CollapseDelay) /\ Cells(P) \cap Cells(C) = {}
      /\ Delay \in Nat /\ CollapseDelay \in Nat /\ Limit \in Nat \ {0}
      /\ Len(P) + Len(C) <= Limit
  BY RepairAssumption DEF Orderly, BothLanes
<1>2. Len(P) \in Nat /\ Len(C) \in Nat
  BY <1>1, LaneFacts
<1>3. /\ WP \in Lane(Delay) /\ Cells(WP) = Cells(P) \ {x}
      /\ Len(WP) \in Nat /\ Len(WP) <= Len(P)
  <2>1. /\ WP \in Lane(Delay) /\ Cells(WP) = Cells(P) \ {x}
        /\ Len(WP) = IF x \in Cells(P) THEN Len(P) - 1 ELSE Len(P)
    BY <1>1, WithoutLane
  <2>2. Len(WP) \in Nat
    BY <1>1, <2>1, LaneFacts
  <2> HIDE DEF WP
  <2>3. QED
    BY <1>2, <2>1, <2>2
<1>4. /\ WC \in Lane(CollapseDelay) /\ Cells(WC) = Cells(C) \ {x}
      /\ Len(WC) \in Nat /\ Len(WC) <= Len(C)
  <2>1. /\ WC \in Lane(CollapseDelay) /\ Cells(WC) = Cells(C) \ {x}
        /\ Len(WC) = IF x \in Cells(C) THEN Len(C) - 1 ELSE Len(C)
    BY <1>1, WithoutLane
  <2>2. Len(WC) \in Nat
    BY <1>1, <2>1, LaneFacts
  <2> HIDE DEF WC
  <2>3. QED
    BY <1>2, <2>1, <2>2
<1> HIDE DEF WP, WC
<1>5. AP \in Lane(Delay) /\ Cells(AP) = Cells(P) \cup {x} /\ Len(AP) = Len(WP) + 1
  <2>1. AP \in Lane(Delay) /\ Cells(AP) = Cells(WP) \cup {x} /\ Len(AP) = Len(WP) + 1
    BY <1>1, <1>3, AppendLane
  <2> HIDE DEF AP
  <2>2. QED
    BY <1>3, <2>1
<1>6. AC \in Lane(CollapseDelay) /\ Cells(AC) = Cells(C) \cup {x} /\ Len(AC) = Len(WC) + 1
  <2>1. AC \in Lane(CollapseDelay) /\ Cells(AC) = Cells(WC) \cup {x} /\ Len(AC) = Len(WC) + 1
    BY <1>1, <1>4, AppendLane
  <2> HIDE DEF AC
  <2>2. QED
    BY <1>4, <2>1
<1> HIDE DEF AP, AC
<1>7. Orderly(RecordCell(b, x)) /\ Known(b) \cup {x} \subseteq Known(RecordCell(b, x))
  <2>1. CASE x \in Cells(C) /\ ~Solid(x)
    <3>1. RecordCell(b, x) = b
      BY <2>1 DEF RecordCell
    <3>2. x \in Known(b)
      BY <2>1 DEF Known
    <3>3. QED
      BY <3>1, <3>2
  <2>2. CASE ~(x \in Cells(C) /\ ~Solid(x))
    <3> DEFINE n == [pending |-> AP, collapsing |-> WC, dropped |-> D \ {x}]
    <3>1. RecordCell(b, x) = EnforceLimit(n)
      BY <2>2 DEF RecordCell, AP, WP, WC
    <3>2. BothLanes(AP, WC)
      BY <1>1, <1>4, <1>5 DEF BothLanes
    <3>3. Len(AP) + Len(WC) <= Limit + 1
      BY <1>1, <1>2, <1>3, <1>4, <1>5
    <3>4. Orderly(EnforceLimit(n)) /\ Known(n) \subseteq Known(EnforceLimit(n))
      BY <3>2, <3>3, EnforceOrderly
    <3>5. Known(b) \cup {x} \subseteq Known(n)
      BY <1>4, <1>5 DEF Known
    <3> HIDE DEF n
    <3>6. QED
      BY <3>1, <3>4, <3>5
  <2>3. QED
    BY <2>1, <2>2
<1>8. /\ Orderly(RecordCollapseCell(b, x))
      /\ Known(b) \cup {x} \subseteq Known(RecordCollapseCell(b, x))
  <2> DEFINE n == [pending |-> WP, collapsing |-> AC, dropped |-> D \ {x}]
  <2>1. RecordCollapseCell(b, x) = EnforceLimit(n)
    BY DEF RecordCollapseCell, AC, WP, WC
  <2>2. BothLanes(WP, AC)
    BY <1>1, <1>3, <1>6 DEF BothLanes
  <2>3. Len(WP) + Len(AC) <= Limit + 1
    BY <1>1, <1>2, <1>3, <1>4, <1>6
  <2>4. Orderly(EnforceLimit(n)) /\ Known(n) \subseteq Known(EnforceLimit(n))
    BY <2>2, <2>3, EnforceOrderly
  <2>5. Known(b) \cup {x} \subseteq Known(n)
    BY <1>3, <1>6 DEF Known
  <2> HIDE DEF n
  <2>6. QED
    BY <2>1, <2>4, <2>5
<1>9. QED
  BY <1>7, <1>8

-----------------------------------------------------------------------------
(* The state.  The two invariants are inductive together; they are taken   *)
(* apart differently here, into the scene and the book of both lanes.      *)

Scene ==
  /\ vxl \in Map /\ inGame \subseteq Conn /\ view \in [Conn -> Map]
  /\ falling \subseteq Cell /\ beat \in 0..(Interval - 1) /\ edits \in 0..MaxEdits
Corrected == \A p \in inGame : \A x \in Wrong(p) : x \in Known(Book) \cup falling
IInv == Scene /\ Orderly(Book) /\ Corrected

\* The parts are the runs' invariants.
LEMMA IInvIs == IInv <=> TypeOK /\ WrongCellsAreQueued
<1>1. Book.pending = pending /\ Book.collapsing = collapsing /\ Book.dropped = dismissed
  BY DEF Book
<1> DEFINE b == Book
<1> HIDE DEF b
<1>2. Scene /\ Orderly(b) <=> TypeOK
  BY <1>1 DEF Scene, Orderly, BothLanes, TypeOK, b
<1>3. Corrected <=> WrongCellsAreQueued
  <2>1. Known(b) = Queued \cup dismissed
    BY <1>1 DEF Known, Queued, b
  <2>2. QED
    BY <2>1 DEF Corrected, WrongCellsAreQueued, b
<1>4. QED
  BY <1>2, <1>3 DEF IInv, b

\* What a record operator returns is the book of the next state.
LEMMA KeptBook ==
  ASSUME NEW b, Orderly(b), Keep(b)
  PROVE  Orderly(Book)' /\ Known(Book)' = Known(b)
<1>1. /\ Book'.pending = b.pending /\ Book'.collapsing = b.collapsing
      /\ Book'.dropped = b.dropped
  BY DEF Keep, Book
<1> DEFINE n == Book'
<1> HIDE DEF n
<1>2. Orderly(n) /\ Known(n) = Known(b)
  BY <1>1 DEF Orderly, BothLanes, Known, n
<1>3. QED
  BY <1>2 DEF n, Orderly, BothLanes, Known

\* Init establishes the invariant: everybody is shown the map.
LEMMA InitInv == Init => IInv
<1> SUFFICES ASSUME Init PROVE IInv
  OBVIOUS
<1>1. Scene /\ Corrected
  BY RepairAssumption DEF Init, Scene, Corrected
<1>2. Orderly(Book)
  <2>1. /\ <<>> \in Lane(Delay) /\ <<>> \in Lane(CollapseDelay)
        /\ Cells(<<>>) = {} /\ Len(<<>>) = 0
    BY EmptyLane, RepairAssumption
  <2>2. Book.pending = <<>> /\ Book.collapsing = <<>> /\ Book.dropped = {}
    BY DEF Init, Book
  <2>3. QED
    BY <2>1, <2>2, RepairAssumption DEF Orderly, BothLanes
<1>3. QED
  BY <1>1, <1>2 DEF IInv

\* One more edit stays within the bound.
LEMMA EditBound ==
  ASSUME IInv, edits < MaxEdits, edits' = edits + 1
  PROVE  edits' \in 0..MaxEdits
BY RepairAssumption DEF IInv, Scene

\* A rejection is recorded in the same step.
LEMMA RejectInv ==
  ASSUME IInv, NEW p \in Conn, NEW x \in Cell, NEW shown \in Content, Reject(p, x, shown)
  PROVE  IInv'
<1> DEFINE r == RecordCell(Book, x)
<1>1. Orderly(r) /\ Known(Book) \cup {x} \subseteq Known(r)
  BY RecordOrderly DEF IInv, Orderly, BothLanes, Book
<1> HIDE DEF r
<1>2. Keep(r)
  BY DEF Reject, r
<1>3. Orderly(Book)' /\ Known(Book)' = Known(r)
  BY <1>1, <1>2, KeptBook
<1>4. Scene'
  BY EditBound DEF IInv, Scene, Reject, Edit, Map
<1>5. Corrected'
  <2> SUFFICES ASSUME NEW q \in inGame', NEW y \in Wrong(q)'
               PROVE  y \in Known(Book)' \cup falling'
    BY DEF Corrected
  <2>1. q \in inGame /\ q \in Conn /\ y \in Cell /\ view'[q][y] # vxl'[y]
    BY DEF Reject, Edit, IInv, Scene, Wrong
  <2>2. CASE y = x
    BY <1>1, <1>3, <2>2
  <2>3. CASE y # x
    <3>1. view'[q][y] = view[q][y] /\ vxl' = vxl /\ falling' = falling
      BY <2>1, <2>3 DEF Reject, IInv, Scene, Map
    <3>2. y \in Wrong(q)
      BY <2>1, <3>1 DEF Wrong
    <3>3. y \in Known(Book) \cup falling
      BY <2>1, <3>2 DEF IInv, Corrected
    <3>4. QED
      BY <1>1, <1>3, <3>1, <3>3
  <2>4. QED
    BY <2>2, <2>3
<1>6. QED
  BY <1>3, <1>4, <1>5 DEF IInv

\* Who ignores a build showed something wrong there already.
LEMMA BuildInv ==
  ASSUME IInv, NEW p \in Conn \cup {Air}, NEW x \in Cell, NEW colour \in Colour,
         Build(p, x, colour)
  PROVE  IInv'
<1>1. Book' = Book /\ falling' = falling /\ inGame' = inGame
  BY DEF Build, Edit, Book, lanes
<1>2. Scene'
  BY EditBound DEF IInv, Scene, Build, Edit, Map, Content
<1>3. Orderly(Book)' /\ Known(Book)' = Known(Book)
  BY <1>1 DEF IInv, Orderly, BothLanes, Known, Book
<1>4. Corrected'
  <2> SUFFICES ASSUME NEW q \in inGame', NEW y \in Wrong(q)'
               PROVE  y \in Known(Book)' \cup falling'
    BY DEF Corrected
  <2>1. q \in inGame /\ q \in Conn /\ y \in Cell /\ view'[q][y] # vxl'[y]
    BY <1>1 DEF IInv, Scene, Wrong
  <2>2. vxl'[y] = IF y = x THEN colour ELSE vxl[y]
    BY <2>1 DEF Build, IInv, Scene, Map
  <2>3. vxl[x] = Air
    BY DEF Build, Solid
  <2>4. view'[q] = IF q = p \/ view[q][x] = Air
                   THEN [view[q] EXCEPT ![x] = colour] ELSE view[q]
    BY <2>1 DEF Build
  <2>5. view[q][y] # vxl[y]
    BY <2>1, <2>2, <2>3, <2>4 DEF IInv, Scene, Map
  <2>6. QED
    BY <1>1, <1>3, <2>1, <2>5 DEF IInv, Corrected, Wrong
<1>5. QED
  BY <1>2, <1>3, <1>4 DEF IInv

\* What a client keeps of a collapse is going to be recorded.
LEMMA DigInv ==
  ASSUME IInv, NEW x \in Cell, NEW fallen \in SUBSET Cell,
         NEW kept \in [Conn -> SUBSET fallen], Dig(x, fallen, kept)
  PROVE  IInv'
<1>1. Book' = Book /\ falling = {} /\ falling' = fallen /\ inGame' = inGame
  BY DEF Dig, Edit, Quiet, Book, lanes
<1>2. Scene'
  BY EditBound DEF IInv, Scene, Dig, Edit, Map, Content
<1>3. Orderly(Book)' /\ Known(Book)' = Known(Book)
  BY <1>1 DEF IInv, Orderly, BothLanes, Known, Book
<1>4. Corrected'
  <2> SUFFICES ASSUME NEW q \in inGame', NEW y \in Wrong(q)'
               PROVE  y \in Known(Book)' \cup falling'
    BY DEF Corrected
  <2>1. q \in inGame /\ q \in Conn /\ y \in Cell /\ view'[q][y] # vxl'[y]
    BY <1>1 DEF IInv, Scene, Wrong
  <2>2. vxl'[y] = IF y \in fallen \cup {x} THEN Air ELSE vxl[y]
    BY <2>1 DEF Dig
  <2>3. view'[q][y] = IF y \in (fallen \cup {x}) \ kept[q] THEN Air ELSE view[q][y]
    BY <2>1 DEF Dig
  <2>4. CASE y \in fallen \cup {x}
    BY <1>1, <2>1, <2>2, <2>3, <2>4
  <2>5. CASE y \notin fallen \cup {x}
    <3>1. y \in Wrong(q)
      BY <2>1, <2>2, <2>3, <2>5 DEF Wrong
    <3>2. QED
      BY <1>1, <1>3, <2>1, <3>1 DEF IInv, Corrected
  <2>6. QED
    BY <2>4, <2>5
<1>5. QED
  BY <1>2, <1>3, <1>4 DEF IInv

\* A fallen cell goes from falling to the book.
LEMMA RecordFallenInv ==
  ASSUME IInv, NEW x \in Cell, RecordFallen(x)
  PROVE  IInv'
<1> DEFINE r == RecordCollapseCell(Book, x)
<1>1. Orderly(r) /\ Known(Book) \cup {x} \subseteq Known(r)
  BY RecordOrderly DEF IInv, Orderly, BothLanes, Book
<1> HIDE DEF r
<1>2. Keep(r)
  BY DEF RecordFallen, r
<1>3. Orderly(Book)' /\ Known(Book)' = Known(r)
  BY <1>1, <1>2, KeptBook
<1>4. Scene'
  BY DEF IInv, Scene, RecordFallen, peerVars
<1>5. Corrected'
  BY <1>1, <1>3 DEF IInv, Corrected, RecordFallen, peerVars, Wrong
<1>6. QED
  BY <1>3, <1>4, <1>5 DEF IInv

\* Lanes and history that a step leaves orderly, with all their cells.
LEMMA BookIs ==
  ASSUME NEW P, NEW C, NEW D \in SUBSET Cell, BothLanes(P, C), Len(P) + Len(C) <= Limit,
         pending' = P, collapsing' = C, dismissed' = D
  PROVE  Orderly(Book)' /\ Known(Book)' = Cells(P) \cup Cells(C) \cup D
<1>1. Book'.pending = P /\ Book'.collapsing = C /\ Book'.dropped = D
  BY DEF Book
<1> DEFINE n == Book'
<1> HIDE DEF n
<1>2. Orderly(n) /\ Known(n) = Cells(P) \cup Cells(C) \cup D
  BY <1>1 DEF Orderly, Known, n
<1>3. QED
  BY <1>2 DEF n, Orderly, BothLanes, Known

\* A batch corrects what it takes from the lanes, or discards it as rebuilt.
LEMMA SendInv ==
  ASSUME IInv, NEW m \in 0..Len(collapsing), NEW n \in 0..Len(pending), Send(m, n),
         falling = {}, UNCHANGED <<vxl, inGame, falling, edits>>,
         beat' \in 0..(Interval - 1)
  PROVE  IInv'
<1> DEFINE confirmed == Cells(SubSeq(collapsing, 1, m))
           rebuilt == {x \in confirmed : Solid(x)}
           sent == Cells(SubSeq(pending, 1, n))
           cells == (confirmed \ rebuilt) \cup sent
           P == After(pending, n)
           C == After(collapsing, m)
           D == (dismissed \cup rebuilt) \ cells
<1>1. /\ pending \in Lane(Delay) /\ collapsing \in Lane(CollapseDelay)
      /\ Cells(pending) \cap Cells(collapsing) = {}
      /\ Len(pending) + Len(collapsing) <= Limit /\ dismissed \subseteq Cell
      /\ Delay \in Nat /\ CollapseDelay \in Nat /\ Limit \in Nat
  BY RepairAssumption DEF IInv, Orderly, BothLanes, Book
<1>2. /\ P \in Lane(Delay) /\ Cells(pending) = sent \cup Cells(P)
      /\ Len(P) <= Len(pending) /\ Len(P) \in Nat
  BY <1>1, AfterLane
<1>3. /\ C \in Lane(CollapseDelay) /\ Cells(collapsing) = confirmed \cup Cells(C)
      /\ Len(C) <= Len(collapsing) /\ Len(C) \in Nat
  BY <1>1, AfterLane
<1>4. Len(pending) \in Nat /\ Len(collapsing) \in Nat /\ Cells(collapsing) \subseteq Cell
  BY <1>1, LaneFacts
<1>5. pending' = P /\ collapsing' = C /\ dismissed' = D
  BY DEF Send
<1>6. \A q \in Conn, y \in Cell :
        q \in inGame => view'[q][y] = IF y \in cells THEN vxl[y] ELSE view[q][y]
  BY DEF Send, CanonicalPackets
<1>7. Scene'
  <2>1. view' \in [Conn -> Map]
    BY DEF Send, CanonicalPackets, IInv, Scene, Map
  <2>2. QED
    BY <2>1 DEF IInv, Scene
<1> HIDE DEF sent, confirmed, P, C
<1>8. D \subseteq Cell
  BY <1>1, <1>3, <1>4
<1> HIDE DEF rebuilt, cells
<1>9. BothLanes(P, C)
  BY <1>1, <1>2, <1>3 DEF BothLanes
<1>10. Len(P) + Len(C) <= Limit
  BY <1>1, <1>2, <1>3, <1>4
<1> HIDE DEF D
<1>11. Orderly(Book)' /\ Known(Book)' = Cells(P) \cup Cells(C) \cup D
  BY <1>5, <1>8, <1>9, <1>10, BookIs
<1>12. Corrected'
  <2> SUFFICES ASSUME NEW q \in inGame', NEW y \in Wrong(q)'
               PROVE  y \in Known(Book)' \cup falling'
    BY DEF Corrected
  <2>1. q \in inGame /\ q \in Conn /\ y \in Cell /\ view'[q][y] # vxl[y]
    BY DEF IInv, Scene, Wrong
  <2>2. y \notin cells /\ y \in Wrong(q)
    BY <1>6, <2>1 DEF Wrong
  <2>3. y \in Cells(pending) \cup Cells(collapsing) \cup dismissed
    BY <2>1, <2>2 DEF IInv, Corrected, Known, Book
  <2>4. QED
    BY <1>2, <1>3, <1>11, <2>2, <2>3 DEF cells, rebuilt, D
<1>13. QED
  BY <1>7, <1>11, <1>12 DEF IInv

\* A tick ages the lanes, clears them when nobody is there, or sends.
LEMMA TickInv == ASSUME IInv, Tick PROVE IInv'
<1>1. /\ pending \in Lane(Delay) /\ collapsing \in Lane(CollapseDelay)
      /\ Cells(pending) \cap Cells(collapsing) = {}
      /\ Len(pending) + Len(collapsing) <= Limit /\ dismissed \in SUBSET Cell
      /\ Delay \in Nat /\ CollapseDelay \in Nat /\ Limit \in Nat
  BY RepairAssumption DEF IInv, Orderly, BothLanes, Book
<1>2. beat' \in 0..(Interval - 1)
  BY RepairAssumption DEF Tick, IInv, Scene
<1>3. falling = {} /\ UNCHANGED <<vxl, inGame, falling, edits>>
  BY DEF Tick, Quiet
<1>4. ASSUME UNCHANGED <<view, dismissed>> PROVE Scene'
  BY <1>2, <1>3, <1>4 DEF IInv, Scene
<1>5. CASE /\ pending' = Aged(pending) /\ collapsing' = Aged(collapsing)
           /\ UNCHANGED <<view, dismissed>>
  <2>1. /\ Aged(pending) \in Lane(Delay) /\ Cells(Aged(pending)) = Cells(pending)
        /\ Len(Aged(pending)) = Len(pending)
    BY <1>1, AgedLane
  <2>2. /\ Aged(collapsing) \in Lane(CollapseDelay)
        /\ Cells(Aged(collapsing)) = Cells(collapsing)
        /\ Len(Aged(collapsing)) = Len(collapsing)
    BY <1>1, AgedLane
  <2>3. BothLanes(Aged(pending), Aged(collapsing))
    BY <1>1, <2>1, <2>2 DEF BothLanes
  <2>4. Len(Aged(pending)) + Len(Aged(collapsing)) <= Limit
    BY <1>1, <2>1, <2>2
  <2>5. /\ Orderly(Book)'
        /\ Known(Book)' = Cells(Aged(pending)) \cup Cells(Aged(collapsing)) \cup dismissed
    BY <1>1, <1>5, <2>3, <2>4, BookIs
  <2>6. Known(Book)' = Known(Book)
    BY <2>1, <2>2, <2>5 DEF Known, Book
  <2>7. Corrected'
    BY <1>3, <1>5, <2>6 DEF IInv, Corrected, Wrong
  <2>8. QED
    BY <1>4, <1>5, <2>5, <2>7 DEF IInv
<1>6. CASE /\ inGame = {} /\ pending' = <<>> /\ collapsing' = <<>>
           /\ UNCHANGED <<view, dismissed>>
  <2>1. /\ <<>> \in Lane(Delay) /\ <<>> \in Lane(CollapseDelay)
        /\ Cells(<<>>) = {} /\ Len(<<>>) = 0
    BY <1>1, EmptyLane
  <2>2. BothLanes(<<>>, <<>>) /\ Len(<<>>) + Len(<<>>) <= Limit
    BY <1>1, <2>1 DEF BothLanes
  <2>3. Orderly(Book)'
    BY <1>1, <1>6, <2>2, BookIs
  <2>4. Corrected'
    BY <1>3, <1>6 DEF Corrected
  <2>5. QED
    BY <1>4, <1>6, <2>3, <2>4 DEF IInv
<1>7. CASE \E m \in 0..Len(collapsing), n \in 0..Len(pending) : Send(m, n)
  BY <1>2, <1>3, <1>7, SendInv
<1>8. QED
  BY <1>5, <1>6, <1>7 DEF Tick

\* A newcomer shows the map; who leaves no longer counts.
LEMMA PeerInv ==
  ASSUME IInv, NEW p \in Conn, Join(p) \/ Leave(p) PROVE IInv'
<1>1. Book' = Book /\ falling' = falling /\ vxl' = vxl
  BY DEF Join, Leave, Book, lanes
<1>2. Scene'
  BY DEF IInv, Scene, Join, Leave
<1>3. Orderly(Book)' /\ Known(Book)' = Known(Book)
  BY <1>1 DEF IInv, Orderly, BothLanes, Known, Book
<1>4. Corrected'
  <2> SUFFICES ASSUME NEW q \in inGame', NEW y \in Wrong(q)'
               PROVE  y \in Known(Book)' \cup falling'
    BY DEF Corrected
  <2>1. q \in Conn /\ y \in Cell /\ view'[q][y] # vxl[y]
    BY <1>1, <1>2 DEF Scene, Wrong
  <2>2. q \in inGame /\ view'[q] = view[q]
    BY <2>1 DEF Join, Leave, IInv, Scene
  <2>3. QED
    BY <1>1, <1>3, <2>1, <2>2 DEF IInv, Corrected, Wrong
<1>5. QED
  BY <1>2, <1>3, <1>4 DEF IInv

\* A new world leaves nobody in game, and empty lanes.
LEMMA RolloverInv ==
  ASSUME IInv, NEW world \in Map, Rollover(world) PROVE IInv'
<1>1. Delay \in Nat /\ CollapseDelay \in Nat /\ Limit \in Nat
  BY RepairAssumption
<1>2. /\ <<>> \in Lane(Delay) /\ <<>> \in Lane(CollapseDelay)
      /\ Cells(<<>>) = {} /\ Len(<<>>) = 0
  BY <1>1, EmptyLane
<1>3. BothLanes(<<>>, <<>>) /\ Len(<<>>) + Len(<<>>) <= Limit
  BY <1>1, <1>2 DEF BothLanes
<1>4. pending' = <<>> /\ collapsing' = <<>> /\ dismissed' = {}
  BY DEF Rollover
<1>5. Orderly(Book)'
  BY <1>3, <1>4, BookIs
<1>6. Scene' /\ Corrected'
  BY EditBound DEF IInv, Scene, Corrected, Rollover
<1>7. QED
  BY <1>5, <1>6 DEF IInv

\* Every step keeps the invariant.
LEMMA NextInv == IInv /\ [Next]_vars => IInv'
<1> SUFFICES ASSUME IInv, [Next]_vars PROVE IInv'
  OBVIOUS
<1>1. CASE Tick
  BY <1>1, TickInv
<1>2. ASSUME NEW p \in Conn, Join(p) \/ Leave(p) PROVE IInv'
  BY <1>2, PeerInv
<1>3. ASSUME NEW p \in Conn, NEW x \in Cell, NEW shown \in Content, Reject(p, x, shown)
      PROVE  IInv'
  BY <1>3, RejectInv
<1>4. ASSUME NEW p \in Conn \cup {Air}, NEW x \in Cell, NEW colour \in Colour,
             Build(p, x, colour)
      PROVE  IInv'
  BY <1>4, BuildInv
<1>5. ASSUME NEW x \in Cell, NEW fallen \in SUBSET Cell,
             NEW kept \in [Conn -> SUBSET fallen], Dig(x, fallen, kept)
      PROVE  IInv'
  BY <1>5, DigInv
<1>6. ASSUME NEW x \in falling, RecordFallen(x) PROVE IInv'
  <2>1. x \in Cell
    BY DEF IInv, Scene
  <2>2. QED
    BY <1>6, <2>1, RecordFallenInv
<1>7. ASSUME NEW world \in Map, Rollover(world) PROVE IInv'
  BY <1>7, RolloverInv
<1>8. CASE UNCHANGED vars
  <2>1. Book' = Book
    BY <1>8 DEF vars, lanes, Book
  <2>2. QED
    BY <1>8, <2>1 DEF vars, peerVars, IInv, Scene, Orderly, BothLanes, Corrected, Known, Wrong
<1>9. QED
  BY <1>1, <1>2, <1>3, <1>4, <1>5, <1>6, <1>7, <1>8 DEF Next

-----------------------------------------------------------------------------
\* The two lanes keep within their shared limit, share no cell and stay in the
\* order in which their entries fall due, in every behaviour.
THEOREM TypeCorrect == Spec => []TypeOK
<1>1. IInv => TypeOK
  BY IInvIs
<1>2. QED
  BY InitInv, NextInv, <1>1, PTL DEF Spec

\* No wrong cell of a player in game is ever forgotten: it waits in a lane, is
\* about to be recorded, or was dropped or discarded.
THEOREM NothingWrongIsForgotten == Spec => []WrongCellsAreQueued
<1>1. IInv => WrongCellsAreQueued
  BY IInvIs
<1>2. QED
  BY InitInv, NextInv, <1>1, PTL DEF Spec
=============================================================================
