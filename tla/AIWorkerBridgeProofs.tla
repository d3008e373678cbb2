------------------------ MODULE AIWorkerBridgeProofs ------------------------
(***************************************************************************)
(* Proofs about AIWorkerBridge, for any number of lives, cells and         *)
(* contents and any limits: the child can read its stream to the end,      *)
(* which leaves it with the terrain as it is but for what is pending; the  *)
(* watchdog's clocks run only for what the child owes, or for what it said *)
(* into a full pipe; and the frames of a life stay in order.               *)
(***************************************************************************)
EXTENDS AIWorkerBridge, FiniteSetTheorems, SequenceTheorems, WellFoundedInduction, TLAPS

-----------------------------------------------------------------------------
(* The inductive invariant.                                                *)

Sending == transfer # NoTransfer
Unfinished == Sending /\ transfer.next <= Chunks
Encoded == Sending /\ transfer.next > Chunks

\* What the child will be once it has read its pipe.
AtEnd == ReadAll(inbox)

\* A transfer is under way only where the bridge may leave it; it is the latest
\* one, of this map or an earlier one, and holds what it has captured.
TransferAgrees ==
  /\ at \notin {"top", "snapshot", "receive"} => ~Sending
  /\ ~Sending => transfer.id = 0
  /\ Sending => /\ transfer.id = transfers /\ transfers > 0
                /\ transfer.serial <= serial
                /\ transfer.serial = serial => transfer.version <= version
                /\ \A c \in Cells : transfer.captured[c] # 0 =>
                                      transfer.captured[c] = transfer.cells[c]
  /\ sent <= serial

\* The overlay is the terrain, and so is every change on its way to the child
\* that no later one has replaced.
OverlayIsExact ==
  /\ Over(Authored, overlay) = terrain
  /\ \A c \in Cells : pending[c] # 0 => pending[c] = overlay[c]
  /\ \A c \in Cells : Delta0[c] # 0 /\ pending[c] = 0 => Delta0[c] = overlay[c]
  /\ Sending /\ transfer.serial = serial =>
       Over(Over(Authored, transfer.cells), pending) = terrain
  /\ at = "delta" => /\ hand[1].map <= serial
                     /\ hand[1].map = serial => hand[1].version <= version

\* The stream in the pipe goes as far as the transfer, and no further.
StreamFollowsTransfer ==
  /\ AtEnd.fine
  /\ IF Unfinished /\ transfer.next > 0
     THEN AtEnd.taking = transfer.id /\ AtEnd.next = transfer.next
     ELSE AtEnd.taking = 0
  /\ IF Encoded
     THEN /\ AtEnd.done = transfer.id /\ AtEnd.map = transfer.serial
          /\ AtEnd.version = transfer.version /\ AtEnd.cells = transfer.cells
     ELSE AtEnd.map = sent
  /\ AtEnd.done <= transfers /\ (Unfinished => AtEnd.done < transfer.id)
  /\ AtEnd.map = serial => AtEnd.version <= version
  /\ at = "delta" /\ hand[1].map = AtEnd.map => AtEnd.version <= hand[1].version

\* A chunk that ends its transfer.
EndsTransfer(m) == m.kind = "chunk" /\ m.index >= Chunks

\* Last chunks in the pipe, and the child, are of transfers that were completed.
CompletedBefore ==
  /\ \A m \in ToSet(inbox) : EndsTransfer(m) =>
       m.id <= transfers /\ (Unfinished => m.id < transfer.id)
  /\ Unfinished => child.done < transfer.id

\* The transfer a clock waits for is under way, in the pipe, or read by the
\* child, which has said so.
LeaseHasCause ==
  lease # 0 =>
    /\ (Unfinished /\ transfer.id = lease) \/ AtEnd.done >= lease
    /\ child.done >= lease =>
         (\E m \in ToSet(outbox) : AnswersTransfer(m)) \/ unheard.transfer >= lease

FrameHasCause == awaiting # NoFrame => FrameIsOwed \/ unheard.frame >= awaiting

Stream == worker = "alive" =>
  StreamFollowsTransfer /\ CompletedBefore /\ LeaseHasCause /\ FrameHasCause

\* Frames have ids that were given out; those of the bridge's hand are of
\* different lives.
FramesAreNumbered ==
  /\ \A queue \in {inbox, hand, frames} : \A k \in DOMAIN queue :
       queue[k].kind = "frame" => queue[k].id <= frameId
  /\ at = "put" => \A j, k \in DOMAIN hand : hand[j].bot = hand[k].bot => j = k

IInv ==
  /\ TypeOK /\ TransferAgrees /\ OverlayIsExact /\ StreamEndsCanonical
  /\ Stream /\ FramesAreNumbered /\ Ordered

-----------------------------------------------------------------------------
(* Numbers, and induction over a set of them.                              *)

\* A set of finite sets has a member of which no other one is a part.
LEMMA MinimalSubset ==
  ASSUME NEW S, NEW T \in SUBSET FiniteSubsetsOf(S), T # {}
  PROVE  \E x \in T : \A y \in T : ~ (y \subseteq x /\ y # x)
<1>1. \E x \in T : \A y \in T : ~ (<<y, x>> \in StrictSubsetOrdering(S))
  BY FS_StrictSubsetOrderingWellFounded, WFMin
<1>2. \A y, x \in T : y \subseteq x /\ y # x => <<y, x>> \in StrictSubsetOrdering(S)
  BY DEF StrictSubsetOrdering, FiniteSubsetsOf
<1>3. QED
  BY <1>1, <1>2

\* Numbers have a least one.
LEMMA LeastNumber ==
  ASSUME NEW T \in SUBSET Nat, T # {}
  PROVE  \E m \in T : \A k \in T : m <= k
<1> DEFINE Upto == {0..n : n \in T}
<1>1. \A n \in T : 0..n \in FiniteSubsetsOf(Nat)
  BY FS_Interval DEF FiniteSubsetsOf
<1>2. Upto \in SUBSET FiniteSubsetsOf(Nat) /\ Upto # {}
  BY <1>1
<1>3. \E x \in Upto : \A y \in Upto : ~ (y \subseteq x /\ y # x)
  <2> HIDE DEF Upto
  <2> QED
    BY <1>2, MinimalSubset
<1>4. PICK m \in T : \A y \in Upto : ~ (y \subseteq 0..m /\ y # 0..m)
  BY <1>3
<1>5. ASSUME NEW k \in T, k < m PROVE FALSE
  <2>1. 0..k \in Upto
    OBVIOUS
  <2>2. m \in Nat /\ k \in Nat
    OBVIOUS
  <2>3. 0..k \subseteq 0..m /\ m \in 0..m /\ m \notin 0..k
    BY <1>5, <2>2
  <2>4. QED
    BY <1>4, <2>1, <2>3
<1>6. \A k \in T : m <= k
  BY <1>5
<1>7. QED
  BY <1>6

\* A set of numbers that starts at 0 and always goes on has all of them.
LEMMA Induction ==
  ASSUME NEW S \in SUBSET Nat, 0 \in S, \A n \in S : n + 1 \in S
  PROVE  S = Nat
<1>1. SUFFICES ASSUME Nat \ S # {} PROVE FALSE
  OBVIOUS
<1>2. PICK m \in Nat \ S : \A k \in Nat \ S : m <= k
  BY <1>1, LeastNumber
<1>3. m # 0 /\ m - 1 \in Nat
  BY <1>2
<1>4. m - 1 \in S
  BY <1>2, <1>3
<1>5. QED
  BY <1>2, <1>3, <1>4

\* Some numbers up to a bound have a greatest one.
LEMMA MaxIsGreatest ==
  ASSUME NEW T \in SUBSET Number, T # {}, NEW bound \in Nat, \A k \in T : k <= bound
  PROVE  Max(T) \in T /\ \A k \in T : k <= Max(T)
<1> DEFINE Below == {bound - k : k \in T}
<1>1. Below \in SUBSET Nat /\ Below # {}
  <2>1. \A k \in T : k \in Int /\ k <= bound
    BY DEF Number
  <2>2. \A k \in T : bound - k \in Nat
    BY <2>1
  <2>3. QED
    BY <2>2
<1>2. \E m \in Below : \A k \in Below : m <= k
  <2> HIDE DEF Below
  <2> QED
    BY <1>1, LeastNumber
<1>3. PICK m \in T : \A k \in T : bound - m <= bound - k
  BY <1>2
<1>4. \A k \in T : m >= k
  BY <1>3 DEF Number
<1>5. Max(T) \in T /\ \A k \in T : Max(T) >= k
  BY <1>4 DEF Max
<1>6. QED
  BY <1>5 DEF Number

-----------------------------------------------------------------------------
(* Reading a stream.                                                       *)

\* The child after k records, from the child after k - 1.
LEMMA ReadingsStep ==
  ASSUME NEW s, NEW records, Len(records) \in Nat
  PROVE  /\ Readings(s, records)[0] = s
         /\ \A k \in 1..Len(records) :
              Readings(s, records)[k] = Reads(Readings(s, records)[k - 1], records[k])
<1> DEFINE Reading(n, f) ==
             f = [k \in 0..n |-> IF k = 0 THEN s ELSE Reads(f[k - 1], records[k])]
           Readable == {n \in Nat : \E f : Reading(n, f)}
<1>1. 0 \in Readable
  <2>1. Reading(0, [k \in 0..0 |-> s])
    OBVIOUS
  <2>2. QED
    BY <2>1
<1>2. ASSUME NEW n \in Readable PROVE n + 1 \in Readable
  <2>1. PICK f : Reading(n, f)
    OBVIOUS
  <2> DEFINE g == [k \in 0..(n + 1) |-> IF k = n + 1 THEN Reads(f[n], records[n + 1])
                                        ELSE f[k]]
  <2>2. n \in Nat
    OBVIOUS
  <2>3. ASSUME NEW k \in 0..(n + 1)
        PROVE  g[k] = IF k = 0 THEN s ELSE Reads(g[k - 1], records[k])
    <3>1. CASE k = 0
      BY <2>1, <2>2, <3>1
    <3>2. CASE k = n + 1
      BY <2>2, <3>2
    <3>3. CASE k # 0 /\ k # n + 1
      <4>1. f[k] = Reads(f[k - 1], records[k])
        BY <2>1, <2>2, <3>3
      <4>2. k - 1 \in 0..(n + 1) /\ k - 1 # n + 1
        BY <2>2, <3>3
      <4>3. QED
        BY <3>3, <4>1, <4>2
    <3>4. QED
      BY <3>1, <3>2, <3>3
  <2>4. Reading(n + 1, g)
    BY <2>3
  <2>5. n + 1 \in Nat /\ \E h : Reading(n + 1, h)
    <3> HIDE DEF Reading
    <3> QED
      BY <2>2, <2>4
  <2>6. QED
    BY <2>5
<1>3. Readable = Nat
  <2>1. Readable \in SUBSET Nat
    OBVIOUS
  <2> HIDE DEF Readable
  <2>2. QED
    BY <1>1, <1>2, <2>1, Induction
<1>4. \E f : Reading(Len(records), f)
  BY <1>3
<1>5. Reading(Len(records), Readings(s, records))
  BY <1>4 DEF Readings
<1>6. QED
  BY <1>5

\* A child in state s that has yet to read is like one that started in t and
\* has read d records of the stream, for n records.
Continues(s, read, t, stream, d, n) ==
  /\ Len(read) \in Nat /\ Len(stream) \in Nat /\ d \in Nat /\ n \in Nat
  /\ n <= Len(read) /\ d + n <= Len(stream)
  /\ s = Readings(t, stream)[d]
  /\ \A k \in 1..n : read[k] = stream[d + k]

\* Two children that start alike and read the same are alike.
LEMMA ReadingsAgree ==
  ASSUME NEW s, NEW read, NEW t, NEW stream, NEW d, NEW n,
         Continues(s, read, t, stream, d, n)
  PROVE  \A k \in 0..n : Readings(s, read)[k] = Readings(t, stream)[d + k]
<1>0. /\ Len(read) \in Nat /\ Len(stream) \in Nat /\ d \in Nat /\ n \in Nat
      /\ n <= Len(read) /\ d + n <= Len(stream)
      /\ s = Readings(t, stream)[d]
      /\ \A k \in 1..n : read[k] = stream[d + k]
  BY DEF Continues
<1> DEFINE Alike == {k \in Nat : k <= n =>
                                   Readings(s, read)[k] = Readings(t, stream)[d + k]}
<1>1. 0 \in Alike
  BY <1>0, ReadingsStep
<1>2. ASSUME NEW k \in Alike PROVE k + 1 \in Alike
  <2>1. CASE k + 1 <= n
    <3>1. k \in Nat /\ Readings(s, read)[k] = Readings(t, stream)[d + k]
      BY <1>0, <2>1
    <3>2. k + 1 \in 1..Len(read) /\ (k + 1) - 1 = k
      BY <1>0, <2>1, <3>1
    <3>3. Readings(s, read)[k + 1] = Reads(Readings(s, read)[k], read[k + 1])
      BY <1>0, <3>2, ReadingsStep
    <3>4. d + (k + 1) \in 1..Len(stream) /\ d + (k + 1) - 1 = d + k
      BY <1>0, <2>1, <3>1
    <3>5. Readings(t, stream)[d + (k + 1)]
            = Reads(Readings(t, stream)[d + k], stream[d + (k + 1)])
      BY <1>0, <3>4, ReadingsStep
    <3>6. read[k + 1] = stream[d + (k + 1)]
      BY <1>0, <2>1, <3>1
    <3>7. QED
      BY <3>1, <3>3, <3>5, <3>6
  <2>2. CASE ~ (k + 1 <= n)
    BY <2>2
  <2>3. QED
    BY <2>1, <2>2
<1>3. Alike = Nat
  <2>1. Alike \in SUBSET Nat
    OBVIOUS
  <2> HIDE DEF Alike
  <2>2. QED
    BY <1>1, <1>2, <2>1, Induction
<1>4. \A k \in 0..n : k \in Nat /\ k <= n
  BY <1>0
<1>5. QED
  BY <1>3, <1>4

\* One more record is read last.
LEMMA ReadAppended ==
  ASSUME NEW records \in Seq(RecordShape), NEW m \in RecordShape
  PROVE  ReadAll(Append(records, m)) = Reads(ReadAll(records), m)
<1> DEFINE longer == Append(records, m)
<1>1. /\ longer \in Seq(RecordShape) /\ Len(longer) = Len(records) + 1
      /\ Len(records) \in Nat /\ longer[Len(records) + 1] = m
      /\ \A k \in 1..Len(records) : longer[k] = records[k]
  OBVIOUS
<1> HIDE DEF longer
<1>2. \A k \in 0..Len(records) : Readings(child, records)[k] = Readings(child, longer)[0 + k]
  <2>1. Readings(child, longer)[0] = child /\ \A k \in 1..Len(records) : 0 + k = k
    BY <1>1, ReadingsStep
  <2>2. Continues(child, records, child, longer, 0, Len(records))
    BY <1>1, <2>1 DEF Continues
  <2>3. QED
    BY <2>2, ReadingsAgree
<1>3. Readings(child, longer)[Len(records) + 1]
        = Reads(Readings(child, longer)[Len(records)], m)
  <2>1. Len(records) + 1 \in 1..Len(longer) /\ Len(records) + 1 - 1 = Len(records)
    BY <1>1
  <2>2. QED
    BY <1>1, <2>1, ReadingsStep
<1>4. Readings(child, records)[Len(records)] = Readings(child, longer)[Len(records)]
  BY <1>1, <1>2
<1>5. QED
  BY <1>1, <1>3, <1>4 DEF ReadAll, longer

\* What is left of the pipe is read after what was taken.
LEMMA ReadRest ==
  ASSUME NEW records \in Seq(RecordShape), NEW n \in 0..Len(records)
  PROVE  LET taken == SubSeq(records, 1, n)
             rest == SubSeq(records, n + 1, Len(records))
         IN  Readings(ReadAll(taken), rest)[Len(rest)] = ReadAll(records)
<1> DEFINE taken == SubSeq(records, 1, n)
           rest == SubSeq(records, n + 1, Len(records))
<1>1. /\ Len(records) \in Nat /\ n \in Nat /\ n <= Len(records)
      /\ Len(taken) = n /\ \A k \in 1..n : taken[k] = records[0 + k]
  OBVIOUS
<1>2. /\ Len(rest) = Len(records) - n /\ Len(rest) \in Nat
      /\ \A k \in 1..Len(rest) : rest[k] = records[n + k]
  <2>1. n + 1 \in 1..(Len(records) + 1)
    BY <1>1
  <2>2. QED
    BY <1>1, <2>1, SubSeqProperties
<1> HIDE DEF taken, rest
<1>3. Readings(child, records)[0] = child
  BY <1>1, ReadingsStep
<1>4. ReadAll(taken) = Readings(child, records)[n]
  <2>1. Continues(child, taken, child, records, 0, n)
    BY <1>1, <1>3 DEF Continues
  <2>2. \A k \in 0..n : Readings(child, taken)[k] = Readings(child, records)[0 + k]
    BY <2>1, ReadingsAgree
  <2>3. QED
    BY <1>1, <2>2 DEF ReadAll
<1>5. \A k \in 0..Len(rest) :
        Readings(ReadAll(taken), rest)[k] = Readings(child, records)[n + k]
  <2>1. Continues(ReadAll(taken), rest, child, records, n, Len(rest))
    BY <1>1, <1>2, <1>4 DEF Continues
  <2>2. QED
    BY <2>1, ReadingsAgree
<1>6. n + Len(rest) = Len(records)
  BY <1>1, <1>2
<1>7. QED
  BY <1>2, <1>5, <1>6 DEF ReadAll, taken, rest

\* A record makes a child of a child, and completes no transfer but its own.
LEMMA ReadsResult ==
  ASSUME NEW s \in ChildShape, NEW m \in RecordShape
  PROVE  /\ Reads(s, m) \in ChildShape
         /\ Reads(s, m).done # s.done => EndsTransfer(m) /\ Reads(s, m).done = m.id
<1>1. CASE m.kind = "start"
  <2>1. m.id \in Nat
    BY <1>1 DEF RecordShape, DeltaShape, FrameShape
  <2>2. Reads(s, m) = IF s.taking # 0 \/ m.id <= s.done THEN Raises(s)
                      ELSE [s EXCEPT !.taking = m.id, !.next = 1]
    BY <1>1 DEF Reads
  <2>3. Raises(s) \in ChildShape /\ Raises(s).done = s.done
    BY DEF Raises, ChildShape
  <2>4. ASSUME ~ (s.taking # 0 \/ m.id <= s.done)
        PROVE  /\ [s EXCEPT !.taking = m.id, !.next = 1] \in ChildShape
               /\ [s EXCEPT !.taking = m.id, !.next = 1].done = s.done
    BY <2>1 DEF ChildShape
  <2>5. QED
    BY <2>2, <2>3, <2>4
<1>2. CASE m.kind = "chunk"
  <2>1. m.id \in Nat /\ m.index \in Nat /\ m.map \in Nat /\ m.version \in Nat /\ m.cells \in Changes
    BY <1>2 DEF RecordShape, DeltaShape, FrameShape
  <2>2. Reads(s, m) =
          IF s.taking # m.id \/ s.next # m.index THEN Raises(s)
          ELSE IF m.index < Chunks THEN [s EXCEPT !.next = @ + 1]
          ELSE [s EXCEPT !.taking = 0, !.next = 0, !.done = m.id, !.map = m.map,
                         !.version = m.version, !.cells = m.cells]
    BY <1>2 DEF Reads
  <2> DEFINE next == [s EXCEPT !.next = @ + 1]
             done == [s EXCEPT !.taking = 0, !.next = 0, !.done = m.id, !.map = m.map,
                               !.version = m.version, !.cells = m.cells]
  <2>3. Raises(s) \in ChildShape /\ Raises(s).done = s.done
    BY DEF Raises, ChildShape
  <2>4. next \in ChildShape /\ next.done = s.done
    BY DEF ChildShape
  <2>5. done \in ChildShape /\ done.done = m.id
    BY <2>1 DEF ChildShape, Number
  <2>6. Reads(s, m) = Raises(s) \/ Reads(s, m) = next
          \/ (Reads(s, m) = done /\ ~ (m.index < Chunks))
    BY <2>2
  <2>7. ~ (m.index < Chunks) => EndsTransfer(m)
    BY <1>2, <2>1, BridgeAssumption DEF EndsTransfer
  <2> HIDE DEF next, done
  <2>8. QED
    BY <2>3, <2>4, <2>5, <2>6, <2>7
<1>3. CASE m.kind = "delta"
  <2>1. m.version \in Nat /\ m.cells \in Changes
    BY <1>3 DEF RecordShape, DeltaShape, FrameShape
  <2>2. Over(s.cells, m.cells) \in Changes
    BY <2>1 DEF Over, Changes, ChildShape
  <2>3. Reads(s, m) =
          IF s.taking # 0 THEN Raises(s)
          ELSE IF m.map # s.map \/ m.version < s.version THEN s
          ELSE [s EXCEPT !.version = m.version, !.cells = Over(@, m.cells)]
    BY <1>3 DEF Reads
  <2>4. QED
    BY <2>1, <2>2, <2>3 DEF ChildShape, Raises, Number
<1>4. CASE m.kind = "frame"
  <2>1. Reads(s, m) = IF s.taking # 0 THEN Raises(s) ELSE s
    BY <1>4 DEF Reads
  <2>2. QED
    BY <2>1 DEF ChildShape, Raises
<1>5. QED
  BY <1>1, <1>2, <1>3, <1>4 DEF RecordShape, DeltaShape, FrameShape

\* A stream makes a child of a child, whose last transfer it had or has read.
LEMMA ReadAllResult ==
  ASSUME NEW records \in Seq(RecordShape), child \in ChildShape
  PROVE  /\ ReadAll(records) \in ChildShape
         /\ ReadAll(records).done # child.done =>
              \E m \in ToSet(records) : EndsTransfer(m) /\ ReadAll(records).done = m.id
<1> DEFINE after == Readings(child, records)
           Told(k) == after[k].done # child.done =>
                        \E m \in ToSet(records) : EndsTransfer(m) /\ after[k].done = m.id
           Sound == {k \in Nat : k <= Len(records) => after[k] \in ChildShape /\ Told(k)}
<1>1. Len(records) \in Nat
  OBVIOUS
<1>2. 0 \in Sound
  BY <1>1, ReadingsStep
<1>3. ASSUME NEW k \in Sound PROVE k + 1 \in Sound
  <2>1. k \in Nat
    OBVIOUS
  <2>2. CASE k + 1 <= Len(records)
    <3>1. after[k] \in ChildShape /\ Told(k)
      BY <1>1, <2>1, <2>2
    <3>2. k + 1 \in 1..Len(records) /\ k + 1 - 1 = k
      BY <1>1, <2>1, <2>2
    <3>3. after[k + 1] = Reads(after[k], records[k + 1])
      BY <1>1, <3>2, ReadingsStep
    <3>4. records[k + 1] \in RecordShape /\ records[k + 1] \in ToSet(records)
      BY <1>1, <3>2 DEF ToSet
    <3> HIDE DEF after
    <3>5. after[k + 1] \in ChildShape
      BY <3>1, <3>3, <3>4, ReadsResult
    <3>6. after[k + 1].done # after[k].done =>
            EndsTransfer(records[k + 1]) /\ after[k + 1].done = records[k + 1].id
      BY <3>1, <3>3, <3>4, ReadsResult, SMTT(30)
    <3>7. Told(k + 1)
      BY <3>1, <3>4, <3>6
    <3>8. QED
      BY <2>1, <3>5, <3>7
  <2>3. CASE ~ (k + 1 <= Len(records))
    BY <2>1, <2>3
  <2>4. QED
    BY <2>2, <2>3
<1>4. Sound = Nat
  <2>1. Sound \in SUBSET Nat
    OBVIOUS
  <2> HIDE DEF Sound
  <2>2. QED
    BY <1>2, <1>3, <2>1, Induction
<1>5. QED
  BY <1>1, <1>4 DEF ReadAll

-----------------------------------------------------------------------------
(* The child at the end of its pipe, through the steps.                    *)

LEMMA AtEndKept == ASSUME UNCHANGED <<child, inbox>> PROVE AtEnd' = AtEnd
BY DEF AtEnd, ReadAll

LEMMA AtEndType == ASSUME TypeOK PROVE AtEnd \in ChildShape
BY ReadAllResult DEF TypeOK, AtEnd

LEMMA AtEndAppended ==
  ASSUME TypeOK, NEW m \in RecordShape, child' = child, inbox' = Append(inbox, m)
  PROVE  AtEnd' = Reads(AtEnd, m)
<1>1. inbox \in Seq(RecordShape)
  BY DEF TypeOK
<1>2. ReadAll(Append(inbox, m)) = Reads(ReadAll(inbox), m)
  BY <1>1, ReadAppended
<1>3. AtEnd' = ReadAll(Append(inbox, m))
  BY DEF AtEnd, ReadAll
<1>4. QED
  BY <1>2, <1>3 DEF AtEnd

LEMMA AtEndTaken ==
  ASSUME TypeOK, NEW n \in 0..Len(inbox), child' = ReadAll(SubSeq(inbox, 1, n)),
         inbox' = SubSeq(inbox, n + 1, Len(inbox))
  PROVE  AtEnd' = AtEnd
<1>1. inbox \in Seq(RecordShape)
  BY DEF TypeOK
<1>2. Readings(ReadAll(SubSeq(inbox, 1, n)), SubSeq(inbox, n + 1, Len(inbox)))
        [Len(SubSeq(inbox, n + 1, Len(inbox)))] = ReadAll(inbox)
  BY <1>1, ReadRest
<1>3. AtEnd' = Readings(child', inbox')[Len(inbox')]
  BY DEF AtEnd, ReadAll
<1>4. QED
  BY <1>2, <1>3 DEF AtEnd

LEMMA AtEndFresh == ASSUME child' = NewChild, inbox' = << >> PROVE AtEnd' = NewChild
<1>1. AtEnd' = Readings(NewChild, << >>)[0]
  BY DEF AtEnd, ReadAll
<1>2. Len(<< >>) \in Nat
  OBVIOUS
<1>3. QED
  BY <1>1, <1>2, ReadingsStep

-----------------------------------------------------------------------------
(* The type invariant by owner of the variables.                           *)

GameType ==
  /\ terrain \in [Cells -> Values] /\ topology \in Nat /\ frameId \in Nat
  /\ discarding \in BOOLEAN
TerrainType ==
  /\ serial \in Nat /\ version \in Nat /\ required \in BOOLEAN
  /\ pending \in Changes /\ overlay \in Changes
FramesType ==
  /\ frames \in Seq(FrameShape)
  /\ \A j, k \in DOMAIN frames : frames[j].bot = frames[k].bot => j = k
StatusType ==
  /\ awaiting \in Nat \cup {NoFrame} /\ transfers \in Nat /\ lease \in 0..transfers
BridgeType ==
  /\ at \in {"top", "snapshot", "gate", "terrain", "delta", "order", "frames", "put",
             "receive"}
  /\ sent \in Number
  /\ transfer \in [id : 0..transfers, serial : Nat, version : Nat, cells : Changes,
                   captured : Changes, next : 0..(Chunks + 1)]
HandType ==
  IF at = "delta" THEN hand \in Seq(DeltaShape) /\ Len(hand) = 1
  ELSE hand \in Seq(FrameShape) /\ (at # "put" => hand = << >>)
ChildType ==
  /\ worker \in {"none", "alive", "wedged", "dead"}
  /\ inbox \in Seq(RecordShape) /\ Len(inbox) <= InLimit
  /\ outbox \in Seq(AnswerShape) /\ Len(outbox) <= OutLimit
  /\ child \in ChildShape /\ child.done <= transfers
  /\ unheard \in [frame : Number, transfer : Number]
TallyType == restart \in BOOLEAN /\ events \in 0..MaxEvents /\ troubles \in 0..MaxTroubles

LEMMA TypeParts ==
  TypeOK <=> /\ GameType /\ TerrainType /\ FramesType /\ StatusType /\ BridgeType
             /\ HandType /\ ChildType /\ TallyType
BY DEF TypeOK, GameType, TerrainType, FramesType, StatusType, BridgeType, HandType,
       ChildType, TallyType

LEMMA TypeNext ==
  ASSUME GameType', TerrainType', FramesType', StatusType', BridgeType', HandType',
         ChildType', TallyType'
  PROVE  TypeOK'
BY DEF TypeOK, GameType, TerrainType, FramesType, StatusType, BridgeType, HandType,
       ChildType, TallyType

LEMMA GameKept == ASSUME GameType, UNCHANGED gameVars PROVE GameType'
BY DEF GameType, gameVars
LEMMA TerrainKept == ASSUME TerrainType, UNCHANGED terrainVars PROVE TerrainType'
BY DEF TerrainType, terrainVars
LEMMA FramesKept == ASSUME FramesType, UNCHANGED frames PROVE FramesType'
BY DEF FramesType
LEMMA StatusKept == ASSUME StatusType, UNCHANGED <<statusVars, transfers>> PROVE StatusType'
BY DEF StatusType, statusVars
LEMMA TransferKept ==
  ASSUME BridgeType, UNCHANGED <<at, sent, transfer, transfers>> PROVE BridgeType'
BY DEF BridgeType
LEMMA HandKept == ASSUME HandType, UNCHANGED <<at, hand>> PROVE HandType'
BY DEF HandType
LEMMA ChildKept == ASSUME ChildType, UNCHANGED <<childVars, transfers>> PROVE ChildType'
BY DEF ChildType, childVars
LEMMA TallyKept == ASSUME TallyType, UNCHANGED <<restart, tallyVars>> PROVE TallyType'
BY DEF TallyType, tallyVars

-----------------------------------------------------------------------------
(* What several actions have in common.                                    *)

\* Frames of one life.
SameLife(f, g) == f.kind = "frame" /\ g.kind = "frame" /\ f.bot = g.bot

\* Of each life the older frame is in front; all of s are older than those of t.
Sorted(s) == \A i, j \in DOMAIN s : i < j /\ SameLife(s[i], s[j]) => s[i].id < s[j].id
Before(s, t) ==
  \A i \in DOMAIN s, j \in DOMAIN t : SameLife(s[i], t[j]) => s[i].id < t[j].id
Distinct(s) == \A j, k \in DOMAIN s : s[j].bot = s[k].bot => j = k
Known(s) == \A k \in DOMAIN s : s[k].kind = "frame" => s[k].id <= frameId

\* t has some members of s, as they stand there.
PartOf(t, s) ==
  \E from \in [DOMAIN t -> DOMAIN s] :
    /\ \A j, k \in DOMAIN t : j < k => from[j] < from[k]
    /\ \A k \in DOMAIN t : t[k] = s[from[k]]

\* Places after the first m.
LEMMA PastTheFirst ==
  ASSUME NEW m \in Nat, NEW n \in Nat, NEW i \in 1..(m + n), NEW j \in 1..(m + n),
         i \notin 1..m, i < j
  PROVE  /\ i - m \in 1..n /\ m + (i - m) = i
         /\ j - m \in 1..n /\ m + (j - m) = j
         /\ i - m < j - m
<1>1. m < i /\ m < j /\ i \in Int /\ j \in Int
  OBVIOUS
<1>2. QED
  BY <1>1

\* Two queues in a row are in order if each is, and the first is before the second.
LEMMA SortedRow ==
  ASSUME NEW S, NEW s \in Seq(S), NEW t \in Seq(S)
  PROVE  Sorted(s \o t) <=> Sorted(s) /\ Sorted(t) /\ Before(s, t)
<1> DEFINE st == s \o t
<1>1. /\ Len(s) \in Nat /\ Len(t) \in Nat
      /\ DOMAIN s = 1..Len(s) /\ DOMAIN t = 1..Len(t)
      /\ DOMAIN st = 1..(Len(s) + Len(t))
      /\ \A k \in 1..Len(s) : st[k] = s[k]
      /\ \A k \in 1..Len(t) : st[Len(s) + k] = t[k]
  OBVIOUS
<1> HIDE DEF st
<1>2. ASSUME Sorted(st) PROVE Sorted(s) /\ Sorted(t) /\ Before(s, t)
  <2>1. Sorted(s)
    BY <1>1, <1>2 DEF Sorted
  <2>2. Sorted(t)
    <3> SUFFICES ASSUME NEW i \in DOMAIN t, NEW j \in DOMAIN t, i < j, SameLife(t[i], t[j])
                 PROVE  t[i].id < t[j].id
      BY DEF Sorted
    <3>1. /\ Len(s) + i \in DOMAIN st /\ Len(s) + j \in DOMAIN st
          /\ Len(s) + i < Len(s) + j
          /\ st[Len(s) + i] = t[i] /\ st[Len(s) + j] = t[j]
      BY <1>1
    <3>2. QED
      BY <1>2, <3>1 DEF Sorted
  <2>3. Before(s, t)
    <3> SUFFICES ASSUME NEW i \in DOMAIN s, NEW j \in DOMAIN t, SameLife(s[i], t[j])
                 PROVE  s[i].id < t[j].id
      BY DEF Before
    <3>1. /\ i \in DOMAIN st /\ Len(s) + j \in DOMAIN st /\ i < Len(s) + j
          /\ st[i] = s[i] /\ st[Len(s) + j] = t[j]
      BY <1>1
    <3>2. QED
      BY <1>2, <3>1 DEF Sorted
  <2>4. QED
    BY <2>1, <2>2, <2>3
<1>3. ASSUME Sorted(s), Sorted(t), Before(s, t) PROVE Sorted(st)
  <2> SUFFICES ASSUME NEW i \in DOMAIN st, NEW j \in DOMAIN st, i < j, SameLife(st[i], st[j])
               PROVE  st[i].id < st[j].id
    BY DEF Sorted
  <2>1. CASE j \in DOMAIN s
    <3>1. i \in DOMAIN s /\ st[i] = s[i] /\ st[j] = s[j]
      BY <1>1, <2>1
    <3>2. QED
      BY <1>3, <2>1, <3>1 DEF Sorted
  <2>2. CASE i \in DOMAIN s /\ j \notin DOMAIN s
    <3>1. j - Len(s) \in DOMAIN t /\ Len(s) + (j - Len(s)) = j
      BY <1>1, <2>2
    <3>2. st[i] = s[i] /\ st[j] = t[j - Len(s)]
      BY <1>1, <2>2, <3>1
    <3>3. QED
      BY <1>3, <2>2, <3>1, <3>2 DEF Before
  <2>3. CASE i \notin DOMAIN s
    <3>1. PICK m \in Nat, n \in Nat : m = Len(s) /\ n = Len(t)
      BY <1>1
    <3>2. i \in 1..(m + n) /\ j \in 1..(m + n) /\ i \notin 1..m /\ i < j
      BY <1>1, <2>3, <3>1
    <3>3. /\ i - m \in 1..n /\ m + (i - m) = i
          /\ j - m \in 1..n /\ m + (j - m) = j
          /\ i - m < j - m
      BY <3>2, PastTheFirst, Zenon
    <3>4. st[i] = t[i - m] /\ st[j] = t[j - m] /\ i - m \in DOMAIN t /\ j - m \in DOMAIN t
      BY <1>1, <3>1, <3>3
    <3>5. QED
      BY <1>3, <3>3, <3>4 DEF Sorted
  <2>4. QED
    BY <1>1, <2>1, <2>2, <2>3
<1>4. QED
  BY <1>2, <1>3 DEF st

\* A part of a queue is what the queue is.
LEMMA PartKeeps ==
  ASSUME NEW S, NEW s \in Seq(S), NEW t \in Seq(S), PartOf(t, s)
  PROVE  /\ Sorted(s) => Sorted(t)
         /\ Distinct(s) => Distinct(t)
         /\ Known(s) => Known(t)
         /\ \A u : (Before(s, u) => Before(t, u)) /\ (Before(u, s) => Before(u, t))
         /\ \A b : (\A k \in DOMAIN s : s[k].bot # b) => \A k \in DOMAIN t : t[k].bot # b
         /\ ToSet(t) \subseteq ToSet(s)
<1>1. PICK from \in [DOMAIN t -> DOMAIN s] :
        /\ \A j, k \in DOMAIN t : j < k => from[j] < from[k]
        /\ \A k \in DOMAIN t : t[k] = s[from[k]]
  BY DEF PartOf
<1>2. \A k \in DOMAIN t : from[k] \in DOMAIN s
  BY <1>1
<1>3. Sorted(s) => Sorted(t)
  BY <1>1, <1>2 DEF Sorted
<1>4. Distinct(s) => Distinct(t)
  <2> SUFFICES ASSUME Distinct(s), NEW j \in DOMAIN t, NEW k \in DOMAIN t, t[j].bot = t[k].bot
               PROVE  j = k
    BY DEF Distinct
  <2>1. from[j] = from[k]
    BY <1>1, <1>2 DEF Distinct
  <2>2. DOMAIN s = 1..Len(s) /\ DOMAIN t = 1..Len(t) /\ Len(s) \in Nat /\ Len(t) \in Nat
    OBVIOUS
  <2>3. from[j] \in Nat /\ j \in Nat /\ k \in Nat
    BY <1>2, <2>2
  <2>4. QED
    BY <1>1, <2>1, <2>3
<1>5. Known(s) => Known(t)
  BY <1>1, <1>2 DEF Known
<1>6. \A u : (Before(s, u) => Before(t, u)) /\ (Before(u, s) => Before(u, t))
  BY <1>1, <1>2 DEF Before
<1>7. \A b : (\A k \in DOMAIN s : s[k].bot # b) => \A k \in DOMAIN t : t[k].bot # b
  BY <1>1, <1>2
<1>8. ToSet(t) \subseteq ToSet(s)
  BY <1>1, <1>2 DEF ToSet
<1>9. QED
  BY <1>3, <1>4, <1>5, <1>6, <1>7, <1>8

\* A number that is not less than what bounds it.
LEMMA NoMoreThan ==
  ASSUME NEW n \in Nat, NEW bound \in Nat, n <= bound, ~(n < bound)
  PROVE  bound - n = 0 /\ ~(n + 1 <= bound)
OBVIOUS

\* The end of a queue is a part of it, and so is its beginning.
LEMMA EndIsPart ==
  ASSUME NEW S, NEW s \in Seq(S), NEW n \in 0..Len(s)
  PROVE  /\ SubSeq(s, n + 1, Len(s)) \in Seq(S) /\ PartOf(SubSeq(s, n + 1, Len(s)), s)
         /\ Len(SubSeq(s, n + 1, Len(s))) = Len(s) - n
         /\ \A k \in 1..(Len(s) - n) : SubSeq(s, n + 1, Len(s))[k] = s[n + k]
<1> DEFINE t == SubSeq(s, n + 1, Len(s))
<1>1. Len(s) \in Nat /\ n \in Nat /\ n <= Len(s) /\ DOMAIN s = 1..Len(s)
  OBVIOUS
<1>2. n + 1 \in 1..(Len(s) + 1)
  BY <1>1
<1>3. t \in Seq(S) /\ Len(t) = Len(s) - n /\ \A k \in 1..(Len(s) - n) : t[k] = s[n + k]
  <2>1. /\ n + 1 \in Int /\ Len(s) \in Int /\ Len(s) - (n + 1) + 1 = Len(s) - n
        /\ \A i \in (n + 1)..Len(s) : s[i] \in S
    BY <1>1
  <2>2. /\ t \in Seq(S)
        /\ Len(t) = IF n + 1 <= Len(s) THEN Len(s) - (n + 1) + 1 ELSE 0
        /\ \A k \in 1..(Len(s) - (n + 1) + 1) : t[k] = s[n + 1 + k - 1]
    BY <2>1, SubSeqProperties
  <2> HIDE DEF t
  <2>3. CASE n < Len(s)
    <3>1. n + 1 <= Len(s)
      BY <1>1, <2>3
    <3>2. Len(t) = Len(s) - n
      BY <2>1, <2>2, <3>1, Zenon
    <3>3. ASSUME NEW k \in 1..(Len(s) - n) PROVE t[k] = s[n + k]
      <4>1. n + 1 + k - 1 = n + k
        BY <1>1
      <4>2. t[k] = s[n + 1 + k - 1]
        BY <2>1, <2>2, Zenon
      <4>3. QED
        BY <4>1, <4>2, Zenon
    <3>4. QED
      BY <2>2, <3>2, <3>3
  <2>4. CASE ~(n < Len(s))
    <3>1. Len(s) - n = 0 /\ ~(n + 1 <= Len(s))
      BY <1>1, <2>4, NoMoreThan, Zenon
    <3>2. 1..(Len(s) - n) = {}
      BY <3>1
    <3>3. QED
      BY <2>2, <3>1, <3>2, Zenon
  <2>5. QED
    BY <2>3, <2>4, Zenon
<1> HIDE DEF t
<1>4. DOMAIN t = 1..(Len(s) - n)
  BY <1>3
<1>5. PartOf(t, s)
  <2> DEFINE from == [k \in DOMAIN t |-> n + k]
  <2>1. from \in [DOMAIN t -> DOMAIN s]
    BY <1>1, <1>4
  <2>2. \A j, k \in DOMAIN t : j < k => from[j] < from[k]
    BY <1>1, <1>4
  <2>3. \A k \in DOMAIN t : t[k] = s[from[k]]
    BY <1>3, <1>4
  <2> HIDE DEF from
  <2>4. QED
    BY <2>1, <2>2, <2>3 DEF PartOf
<1>6. QED
  BY <1>3, <1>5 DEF t

LEMMA BeginningIsPart ==
  ASSUME NEW S, NEW s \in Seq(S), NEW n \in 0..Len(s)
  PROVE  /\ SubSeq(s, 1, n) \in Seq(S) /\ PartOf(SubSeq(s, 1, n), s)
         /\ Len(SubSeq(s, 1, n)) = n
         /\ \A k \in 1..n : SubSeq(s, 1, n)[k] = s[k]
<1> DEFINE t == SubSeq(s, 1, n)
<1>1. /\ Len(s) \in Nat /\ n \in Nat /\ n <= Len(s) /\ DOMAIN s = 1..Len(s)
      /\ t \in Seq(S) /\ Len(t) = n /\ DOMAIN t = 1..n /\ \A k \in 1..n : t[k] = s[k]
  OBVIOUS
<1> HIDE DEF t
<1>2. PartOf(t, s)
  <2> DEFINE from == [k \in DOMAIN t |-> k]
  <2>1. from \in [DOMAIN t -> DOMAIN s]
    BY <1>1
  <2>2. \A j, k \in DOMAIN t : j < k => from[j] < from[k]
    OBVIOUS
  <2>3. \A k \in DOMAIN t : t[k] = s[from[k]]
    BY <1>1
  <2> HIDE DEF from
  <2>4. QED
    BY <2>1, <2>2, <2>3 DEF PartOf
<1>3. QED
  BY <1>1, <1>2 DEF t

\* Finitely many numbers are listed in order.
LEMMA OrderIsASeq ==
  ASSUME NEW S, IsFiniteSet(S), NEW order \in InOrder(S)
  PROVE  /\ order \in Seq(S)
         /\ \A j, k \in DOMAIN order : j < k => order[j] < order[k]
<1>1. PICK n \in Nat : n = Cardinality(S)
  BY FS_CardinalityType
<1>2. order \in Bijection(1..n, S) /\ \A j, k \in DOMAIN order : j < k => order[j] < order[k]
  BY <1>1 DEF InOrder
<1>3. order \in [1..n -> S]
  BY <1>2 DEF Bijection, Injection
<1>4. QED
  BY <1>2, <1>3

\* Some positions of a queue make a part of it.
LEMMA PickedIsPart ==
  ASSUME NEW T, NEW s \in Seq(T), NEW S \in SUBSET DOMAIN s, NEW order \in InOrder(S)
  PROVE  /\ Picked(s, order) \in Seq(T) /\ PartOf(Picked(s, order), s)
         /\ \A k \in DOMAIN Picked(s, order) :
              \E j \in S : Picked(s, order)[k] = s[j]
<1>1. DOMAIN s = 1..Len(s) /\ Len(s) \in Nat
  OBVIOUS
<1>2. IsFiniteSet(S)
  <2>1. IsFiniteSet(1..Len(s))
    BY <1>1, FS_Interval
  <2>2. QED
    BY <1>1, <2>1, FS_Subset
<1>3. order \in Seq(S) /\ \A j, k \in DOMAIN order : j < k => order[j] < order[k]
  BY <1>2, OrderIsASeq
<1>4. order \in [1..Len(order) -> S] /\ Len(order) \in Nat /\ DOMAIN order = 1..Len(order)
  BY <1>3
<1>5. Picked(s, order) = [k \in 1..Len(order) |-> s[order[k]]]
  BY <1>4 DEF Picked
<1>6. \A k \in 1..Len(order) : order[k] \in S /\ s[order[k]] \in T
  BY <1>4
<1>7. Picked(s, order) \in Seq(T) /\ DOMAIN Picked(s, order) = DOMAIN order
  BY <1>4, <1>5, <1>6
<1>8. PartOf(Picked(s, order), s)
  <2>1. order \in [DOMAIN Picked(s, order) -> DOMAIN s]
    BY <1>4, <1>7
  <2>2. \A k \in DOMAIN Picked(s, order) : Picked(s, order)[k] = s[order[k]]
    BY <1>5, <1>7, <1>4
  <2>3. QED
    BY <1>3, <1>7, <2>1, <2>2 DEF PartOf
<1>9. QED
  BY <1>4, <1>5, <1>6, <1>7, <1>8

\* The order of the stream, queue by queue.
QueuesInOrder ==
  /\ Sorted(inbox) /\ Sorted(hand) /\ Sorted(frames)
  /\ Before(inbox, hand) /\ Before(inbox, frames) /\ Before(hand, frames)
  /\ Known(inbox) /\ Known(hand) /\ Known(frames)
  /\ at = "put" => Distinct(hand)

\* Three queues in a row.
LEMMA SortedRows ==
  ASSUME NEW S, NEW s \in Seq(S), NEW t \in Seq(S), NEW u \in Seq(S)
  PROVE  Sorted(s \o t \o u) <=> /\ Sorted(s) /\ Sorted(t) /\ Sorted(u)
                                 /\ Before(s, t) /\ Before(s, u) /\ Before(t, u)
<1>1. s \o t \in Seq(S)
  OBVIOUS
<1>2. Sorted((s \o t) \o u) <=> Sorted(s \o t) /\ Sorted(u) /\ Before(s \o t, u)
  BY <1>1, SortedRow
<1>3. Before(s \o t, u) <=> Before(s, u) /\ Before(t, u)
  <2>1. /\ DOMAIN s = 1..Len(s) /\ DOMAIN t = 1..Len(t)
        /\ Len(s) \in Nat /\ Len(t) \in Nat
        /\ DOMAIN (s \o t) = 1..(Len(s) + Len(t))
        /\ \A k \in 1..Len(s) : (s \o t)[k] = s[k]
        /\ \A k \in 1..Len(t) : (s \o t)[Len(s) + k] = t[k]
    OBVIOUS
  <2>2. ASSUME Before(s \o t, u) PROVE Before(s, u) /\ Before(t, u)
    <3>1. \A k \in DOMAIN t : Len(s) + k \in DOMAIN (s \o t)
      BY <2>1
    <3>2. \A k \in DOMAIN s : k \in DOMAIN (s \o t)
      BY <2>1
    <3>3. Before(s, u)
      BY <2>1, <2>2, <3>2 DEF Before
    <3>4. Before(t, u)
      BY <2>1, <2>2, <3>1 DEF Before
    <3>5. QED
      BY <3>3, <3>4
  <2>3. ASSUME Before(s, u), Before(t, u) PROVE Before(s \o t, u)
    <3>1. ASSUME NEW k \in DOMAIN (s \o t)
          PROVE  \/ k \in DOMAIN s /\ (s \o t)[k] = s[k]
                 \/ \E j \in DOMAIN t : (s \o t)[k] = t[j]
      <4>1. CASE k \in DOMAIN s
        BY <2>1, <4>1
      <4>2. CASE k \notin DOMAIN s
        <5>1. k - Len(s) \in DOMAIN t /\ Len(s) + (k - Len(s)) = k
          BY <2>1, <4>2
        <5>2. QED
          BY <2>1, <5>1
      <4>3. QED
        BY <4>1, <4>2
    <3>2. QED
      BY <2>3, <3>1 DEF Before
  <2>4. QED
    BY <2>2, <2>3
<1>4. Sorted(s \o t) <=> Sorted(s) /\ Sorted(t) /\ Before(s, t)
  BY SortedRow
<1>5. QED
  BY <1>2, <1>3, <1>4

LEMMA QueuesOfRecords ==
  Seq(FrameShape) \subseteq Seq(RecordShape) /\ Seq(DeltaShape) \subseteq Seq(RecordShape)
<1>1. FrameShape \subseteq RecordShape /\ DeltaShape \subseteq RecordShape
  BY DEF RecordShape
<1>2. QED
  BY <1>1, SeqMonotonic

\* The order of the stream is that of the queues, now and after a step.
LEMMA QueuesOf ==
  ASSUME TypeOK, FramesAreNumbered, Ordered PROVE QueuesInOrder
<1>1. hand \in Seq(RecordShape) /\ frames \in Seq(RecordShape) /\ inbox \in Seq(RecordShape)
  BY QueuesOfRecords DEF TypeOK
<1>2. Sorted(inbox \o hand \o frames)
  BY DEF Ordered, Sorted, SameLife
<1>3. QED
  BY <1>1, <1>2, SortedRows DEF QueuesInOrder, FramesAreNumbered, Known, Distinct

LEMMA QueuesNext ==
  ASSUME TypeOK', QueuesInOrder' PROVE FramesAreNumbered' /\ Ordered'
<1>1. hand' \in Seq(RecordShape) /\ frames' \in Seq(RecordShape) /\ inbox' \in Seq(RecordShape)
  BY QueuesOfRecords DEF TypeOK
<1>2. Sorted(inbox' \o hand' \o frames')
  BY <1>1, SortedRows DEF QueuesInOrder, Sorted, Before
<1>3. Ordered'
  BY <1>2 DEF Ordered, Sorted, SameLife
<1>4. FramesAreNumbered'
  BY DEF FramesAreNumbered, QueuesInOrder, Known, Distinct
<1>5. QED
  BY <1>3, <1>4

\* The numbers of the frames are still known, and in order.
LEMMA FramesOrdered ==
  ASSUME FramesAreNumbered, Ordered, UNCHANGED <<inbox, hand, frames, frameId>>,
         at' = "put" => at = "put" \/ hand = << >>
  PROVE  FramesAreNumbered' /\ Ordered'
BY DEF FramesAreNumbered, Ordered

\* What the child has been given is unchanged; its clocks go on or stop.
LEMMA StreamKept ==
  ASSUME Stream, UNCHANGED <<child, inbox, outbox, unheard, transfer, transfers, sent, lease>>,
         awaiting' \in {awaiting, NoFrame},
         worker' = "alive" => worker = "alive" /\ (AtEnd.map = serial' => AtEnd.version <= version'),
         at' = "delta" => at = "delta" /\ hand' = hand
  PROVE  Stream'
<1>1. AtEnd' = AtEnd
  BY AtEndKept
<1>2. SUFFICES ASSUME worker = "alive", worker' = "alive" PROVE Stream'
  BY DEF Stream
<1>3. StreamFollowsTransfer /\ CompletedBefore /\ LeaseHasCause /\ FrameHasCause
  BY <1>2 DEF Stream
<1>4. StreamFollowsTransfer'
  BY <1>1, <1>2, <1>3 DEF StreamFollowsTransfer, Sending, Unfinished, Encoded
<1>5. CompletedBefore'
  BY <1>3 DEF CompletedBefore, Sending, Unfinished, EndsTransfer
<1>6. LeaseHasCause'
  BY <1>1, <1>3 DEF LeaseHasCause, Sending, Unfinished, AnswersTransfer
<1>7. FrameHasCause'
  BY <1>3 DEF FrameHasCause, FrameIsOwed, AnswersFrame
<1>8. QED
  BY <1>4, <1>5, <1>6, <1>7 DEF Stream

\* The bridge goes from one place to another with empty hands.
LEMMA MovesInv ==
  ASSUME IInv, hand = << >>,
         at' \in {"top", "snapshot", "gate", "terrain", "order", "frames", "receive"},
         at' \notin {"top", "snapshot", "receive"} => ~Sending,
         UNCHANGED <<gameVars, terrainVars, frames, restart, statusVars, sent, transfer,
                     transfers, hand, childVars, tallyVars>>
  PROVE  IInv'
<1> USE DEF IInv
<1>1. TypeOK'
  <2>1. BridgeType'
    BY TypeParts DEF BridgeType
  <2>2. HandType'
    BY DEF HandType
  <2>3. QED
    BY <2>1, <2>2, TypeParts, TypeNext, GameKept, TerrainKept, FramesKept, StatusKept,
       ChildKept, TallyKept
<1>2. TransferAgrees'
  BY DEF TransferAgrees, Sending, terrainVars
<1>3. OverlayIsExact'
  <2>1. Delta0' = Delta0
    BY DEF Delta0, terrainVars
  <2>2. QED
    BY <2>1 DEF OverlayIsExact, terrainVars, gameVars, Sending
<1>4. StreamEndsCanonical'
  <2>1. Delta0' = Delta0
    BY DEF Delta0, terrainVars
  <2>2. AtEnd' = AtEnd
    BY AtEndKept DEF childVars
  <2>3. QED
    BY <2>1, <2>2 DEF StreamEndsCanonical, AtEnd, terrainVars, gameVars, childVars
<1>5. Stream'
  <2>1. worker = "alive" /\ AtEnd.map = serial => AtEnd.version <= version
    BY DEF Stream, StreamFollowsTransfer
  <2>2. QED
    BY <2>1, StreamKept DEF childVars, terrainVars, statusVars
<1>6. FramesAreNumbered' /\ Ordered'
  BY FramesOrdered DEF childVars, gameVars
<1>7. QED
  BY <1>1, <1>2, <1>3, <1>4, <1>5, <1>6

LEMMA NextRoundInv == ASSUME IInv, NextRound PROVE IInv'
<1>1. hand = << >>
  BY DEF IInv, TypeOK, NextRound
<1>2. QED
  BY <1>1, MovesInv DEF NextRound

LEMMA NoSnapshotDueInv == ASSUME IInv, NoSnapshotDue PROVE IInv'
<1>1. hand = << >>
  BY DEF IInv, TypeOK, NoSnapshotDue
<1>2. QED
  BY <1>1, MovesInv DEF NoSnapshotDue, Goes, OnlyBridge, childVars, Sending

LEMMA PipeIsFullInv == ASSUME IInv, PipeIsFull PROVE IInv'
<1>1. hand = << >>
  BY DEF IInv, TypeOK, PipeIsFull
<1>2. QED
  BY <1>1, MovesInv DEF PipeIsFull, Goes, OnlyBridge, childVars

LEMMA CheckSnapshotInv == ASSUME IInv, CheckSnapshot PROVE IInv'
<1>1. hand = << >> /\ ~Sending
  BY DEF IInv, TypeOK, TransferAgrees, CheckSnapshot
<1>2. QED
  BY <1>1, MovesInv DEF CheckSnapshot, Goes, OnlyBridge, childVars

LEMMA CheckTerrainInv == ASSUME IInv, CheckTerrain PROVE IInv'
<1>1. hand = << >> /\ ~Sending
  BY DEF IInv, TypeOK, TransferAgrees, CheckTerrain
<1>2. QED
  BY <1>1, MovesInv DEF CheckTerrain, Goes, OnlyBridge, childVars

\* Only a delta in the bridge's hand is on its way to the child.
LEMMA NoDelta == ASSUME HandType, at # "delta" PROVE Delta0 = NoChanges
<1>1. hand \in Seq(FrameShape)
  BY DEF HandType
<1>2. hand # << >> => hand[1] \in FrameShape
  BY <1>1
<1>3. QED
  BY <1>2 DEF Delta0, FrameShape

LEMMA DeltaInHand == ASSUME HandType, at = "delta" PROVE hand[1] \in DeltaShape
BY DEF HandType

LEMMA Delta0Type == ASSUME HandType PROVE Delta0 \in Changes
<1>1. CASE at = "delta"
  <2>1. hand[1] \in DeltaShape
    BY <1>1, DeltaInHand
  <2>2. QED
    BY <2>1 DEF Delta0, DeltaShape, NoChanges, Changes
<1>2. CASE at # "delta"
  BY <1>2, NoDelta DEF NoChanges, Changes
<1>3. QED
  BY <1>1, <1>2

\* A stream ends in an earlier map, or in this one as it was or is.
LEMMA EndsInSomeMap ==
  ASSUME IInv, worker = "alive"
  PROVE  AtEnd.map <= serial /\ (AtEnd.map = serial => AtEnd.version <= version)
BY DEF IInv, Stream, StreamFollowsTransfer, TransferAgrees, Encoded, Sending

LEMMA Contents ==
  /\ \A v \in Values : v \in Nat /\ v # 0
  /\ FileContent \in Values
BY BridgeAssumption

LEMMA PublishWorldChangeInv ==
  ASSUME IInv, NEW c \in Cells, NEW v \in Values, PublishWorldChange(c, v) PROVE IInv'
<1> USE DEF IInv
<1>1. /\ topology' = topology + 1
      /\ terrain' = [terrain EXCEPT ![c] = v]
      /\ version' = (IF topology + 1 > version THEN topology + 1 ELSE version)
      /\ overlay' = [overlay EXCEPT ![c] = v] /\ pending' = [pending EXCEPT ![c] = v]
      /\ required' \in BOOLEAN
      /\ events < MaxEvents /\ events' = events + 1
      /\ UNCHANGED <<frameId, discarding, serial, frames, restart, statusVars, bridgeVars,
                     childVars, troubles>>
  BY TypeParts DEF PublishWorldChange, Happens, TerrainType
<1>2. /\ GameType /\ TerrainType /\ FramesType /\ StatusType /\ BridgeType
      /\ HandType /\ ChildType /\ TallyType
  BY TypeParts
<1>3. UNCHANGED <<sent, transfer, transfers, hand, at>> /\ UNCHANGED <<worker, inbox, outbox, child, unheard>>
  BY <1>1 DEF bridgeVars, childVars
<1>4. TypeOK'
  <2>1. GameType'
    BY <1>1, <1>2 DEF GameType
  <2>2. TerrainType'
    BY <1>1, <1>2 DEF TerrainType, GameType, Changes
  <2>3. TallyType'
    BY <1>1, <1>2, BridgeAssumption DEF TallyType
  <2>4. QED
    BY <1>1, <1>2, <1>3, <2>1, <2>2, <2>3, TypeNext, FramesKept, StatusKept, TransferKept,
       HandKept, ChildKept
<1>5. version <= version' /\ version \in Nat /\ version' \in Nat
  BY <1>1, <1>2 DEF GameType, TerrainType
<1>6. TransferAgrees'
  BY <1>1, <1>2, <1>3, <1>5 DEF TransferAgrees, Sending, BridgeType
<1>7. Delta0' = Delta0
  BY <1>1, <1>3 DEF Delta0
<1>8. /\ overlay \in [Cells -> Values \cup {0}] /\ pending \in [Cells -> Values \cup {0}]
      /\ terrain \in [Cells -> Values]
  BY <1>2 DEF TerrainType, GameType, Changes
<1>9. v # 0
  BY Contents
\* A world that was exact but for what is pending still is.
<1>10. ASSUME NEW f, Over(f, pending) = terrain PROVE Over(f, pending') = terrain'
  BY <1>1, <1>8, <1>9, <1>10 DEF Over
<1>11. OverlayIsExact'
  <2>1. Over(Authored, overlay') = terrain'
    BY <1>1, <1>8, <1>9 DEF Over, OverlayIsExact
  <2>2. \A d \in Cells : pending'[d] # 0 => pending'[d] = overlay'[d]
    BY <1>1, <1>8 DEF OverlayIsExact
  <2>3. \A d \in Cells : Delta0'[d] # 0 /\ pending'[d] = 0 => Delta0'[d] = overlay'[d]
    BY <1>1, <1>7, <1>8, <1>9 DEF OverlayIsExact
  <2>4. Sending' /\ transfer'.serial = serial' =>
          Over(Over(Authored, transfer.cells), pending') = terrain'
    BY <1>1, <1>3, <1>10 DEF OverlayIsExact, Sending
  <2>5. at = "delta" => hand[1] \in DeltaShape
    BY <1>2, DeltaInHand
  <2>6. at' = "delta" => /\ hand'[1].map <= serial'
                         /\ hand'[1].map = serial' => hand'[1].version <= version'
    BY <1>1, <1>3, <1>5, <2>5 DEF OverlayIsExact, DeltaShape
  <2>7. Authored' = Authored
    BY DEF Authored
  <2>8. QED
    BY <1>3, <2>1, <2>2, <2>3, <2>4, <2>6, <2>7 DEF OverlayIsExact
<1>12. StreamEndsCanonical'
  <2>1. AtEnd' = AtEnd
    BY <1>3, AtEndKept
  <2>2. QED
    BY <1>1, <1>3, <1>7, <1>10, <2>1 DEF StreamEndsCanonical, AtEnd
<1>13. Stream'
  <2>1. worker = "alive" => (AtEnd.map = serial' => AtEnd.version <= version')
    <3>1. AtEnd.version \in Number
      BY AtEndType DEF ChildShape
    <3>2. QED
      BY <1>1, <1>5, <3>1, EndsInSomeMap DEF Number
  <2>2. QED
    BY <1>1, <1>3, <2>1, StreamKept DEF statusVars
<1>14. FramesAreNumbered' /\ Ordered'
  BY <1>1, <1>3, FramesOrdered
<1>15. QED
  BY <1>4, <1>6, <1>11, <1>12, <1>13, <1>14

\* A new world has no changes, and what is on its way belongs to an earlier one.
LEMMA PublishMapInv == ASSUME IInv, PublishMap PROVE IInv'
<1> USE DEF IInv
<1>1. /\ terrain' = Authored /\ topology' = 0 /\ serial' = serial + 1 /\ version' = 0
      /\ pending' = NoChanges /\ overlay' = NoChanges /\ required' = FALSE
      /\ discarding' = TRUE /\ events < MaxEvents /\ events' = events + 1
      /\ UNCHANGED <<frameId, frames, restart, statusVars, troubles>>
      /\ UNCHANGED <<at, sent, transfer, transfers, hand>>
      /\ UNCHANGED <<worker, inbox, outbox, child, unheard>>
  BY DEF PublishMap, Happens, bridgeVars, childVars
<1>2. /\ GameType /\ TerrainType /\ FramesType /\ StatusType /\ BridgeType
      /\ HandType /\ ChildType /\ TallyType
  BY TypeParts
<1>3. Authored \in [Cells -> Values] /\ NoChanges \in Changes
  BY Contents DEF Authored, NoChanges, Changes
<1>4. TypeOK'
  <2>1. GameType'
    BY <1>1, <1>2, <1>3 DEF GameType
  <2>2. TerrainType'
    <3>1. serial' \in Nat
      BY <1>1, <1>2 DEF TerrainType
    <3>2. pending' \in Changes /\ overlay' \in Changes
      BY <1>1, <1>3
    <3>3. QED
      BY <1>1, <3>1, <3>2 DEF TerrainType
  <2>3. TallyType'
    BY <1>1, <1>2, BridgeAssumption DEF TallyType
  <2>4. QED
    BY <1>1, <1>2, <2>1, <2>2, <2>3, TypeNext, FramesKept, StatusKept, TransferKept, HandKept,
       ChildKept DEF childVars
<1>5. serial \in Nat /\ serial' = serial + 1 /\ sent \in Number /\ transfer.serial \in Nat
  BY <1>1, <1>2 DEF TerrainType, BridgeType
<1>6. sent # serial' /\ sent <= serial'
  BY <1>5 DEF TransferAgrees, Number
<1>7. Sending => transfer.serial <= serial' /\ transfer.serial # serial'
  BY <1>5 DEF TransferAgrees
<1>8. TransferAgrees'
  BY <1>1, <1>6, <1>7 DEF TransferAgrees, Sending
<1>9. at = "delta" => hand[1].map <= serial' /\ hand[1].map # serial'
  <2>1. at = "delta" => hand[1] \in DeltaShape
    BY <1>2, DeltaInHand
  <2>2. QED
    BY <1>5, <2>1 DEF OverlayIsExact, DeltaShape
<1>10. Delta0' = NoChanges
  <2>1. CASE at = "delta"
    BY <1>1, <1>9, <2>1 DEF Delta0
  <2>2. CASE at # "delta"
    <3>1. hand # << >> => hand[1] \in FrameShape
      BY <1>2, <2>2 DEF HandType
    <3>2. QED
      BY <1>1, <3>1 DEF Delta0, FrameShape
  <2>3. QED
    BY <2>1, <2>2
<1>11. OverlayIsExact'
  <2>1. Over(Authored, NoChanges) = Authored
    BY DEF Over, Authored, NoChanges
  <2>2. \A c \in Cells : NoChanges[c] = 0
    BY DEF NoChanges
  <2>3. Authored' = Authored
    BY DEF Authored
  <2>4. QED
    BY <1>1, <1>7, <1>9, <1>10, <2>1, <2>2, <2>3 DEF OverlayIsExact, Sending
<1>12. StreamEndsCanonical'
  <2>1. AtEnd' = AtEnd
    BY <1>1, AtEndKept
  <2>2. worker = "alive" => AtEnd.fine
    BY DEF Stream, StreamFollowsTransfer
  <2>3. QED
    BY <1>1, <1>6, <1>7, <2>1, <2>2 DEF StreamEndsCanonical, AtEnd, Sending
<1>13. Stream'
  <2>1. worker = "alive" => AtEnd.map # serial'
    <3>1. AtEnd.map \in Number
      BY AtEndType DEF ChildShape
    <3>2. QED
      BY <1>5, <3>1, EndsInSomeMap DEF Number
  <2>2. QED
    BY <1>1, <2>1, StreamKept DEF statusVars
<1>14. FramesAreNumbered' /\ Ordered'
  BY <1>1, FramesOrdered
<1>15. QED
  BY <1>4, <1>8, <1>11, <1>12, <1>13, <1>14

\* Frames that wait, and the clock of one, may go at any time.
LEMMA DiscardedInv ==
  ASSUME IInv, Discarded, discarding' \in BOOLEAN, restart' \in BOOLEAN,
         events' = events, troubles' \in 0..MaxTroubles,
         UNCHANGED childVars
  PROVE  IInv'
<1> USE DEF IInv
<1>1. /\ frames' = << >> /\ awaiting' = NoFrame
      /\ UNCHANGED <<terrain, topology, frameId, terrainVars, lease, bridgeVars>>
      /\ UNCHANGED <<at, sent, transfer, transfers, hand>>
      /\ UNCHANGED <<serial, version, pending, overlay, required>>
      /\ UNCHANGED <<worker, inbox, outbox, child, unheard>>
  BY DEF Discarded, bridgeVars, childVars, terrainVars
<1>2. /\ GameType /\ TerrainType /\ FramesType /\ StatusType /\ BridgeType
      /\ HandType /\ ChildType /\ TallyType
  BY TypeParts
<1>3. TypeOK'
  <2>1. GameType'
    BY <1>1, <1>2 DEF GameType
  <2>2. FramesType'
    BY <1>1 DEF FramesType
  <2>3. StatusType'
    BY <1>1, <1>2 DEF StatusType
  <2>4. TallyType'
    BY <1>2 DEF TallyType
  <2>5. QED
    BY <1>1, <1>2, <2>1, <2>2, <2>3, <2>4, TypeNext, TerrainKept, TransferKept, HandKept,
       ChildKept
<1>4. TransferAgrees'
  BY <1>1 DEF TransferAgrees, Sending
<1>5. Delta0' = Delta0 /\ Authored' = Authored
  BY <1>1 DEF Delta0, Authored
<1>6. OverlayIsExact'
  BY <1>1, <1>5 DEF OverlayIsExact, Sending
<1>7. StreamEndsCanonical'
  <2>1. AtEnd' = AtEnd
    BY <1>1, AtEndKept
  <2>2. QED
    BY <1>1, <1>5, <2>1 DEF StreamEndsCanonical, AtEnd
<1>8. Stream'
  BY <1>1, EndsInSomeMap, StreamKept
<1>9. FramesAreNumbered' /\ Ordered'
  <2>1. QueuesInOrder
    BY QueuesOf
  <2>2. QueuesInOrder'
    BY <1>1, <2>1 DEF QueuesInOrder, Sorted, Before, Known, Distinct
  <2>3. QED
    BY <1>3, <2>2, QueuesNext
<1>10. QED
  BY <1>3, <1>4, <1>6, <1>7, <1>8, <1>9

LEMMA FinishPublishInv == ASSUME IInv, FinishPublish PROVE IInv'
<1>1. restart \in BOOLEAN /\ troubles \in 0..MaxTroubles
  BY DEF IInv, TypeOK
<1>2. QED
  BY <1>1, DiscardedInv DEF FinishPublish, Discarded, tallyVars

LEMMA DiscardTimelineInv == ASSUME IInv, DiscardTimeline PROVE IInv'
<1>1. restart \in BOOLEAN /\ discarding \in BOOLEAN /\ troubles \in 0..MaxTroubles
  BY DEF IInv, TypeOK
<1>2. troubles' \in 0..MaxTroubles
  BY <1>1, BridgeAssumption DEF DiscardTimeline
<1>3. restart' \in BOOLEAN /\ discarding' \in BOOLEAN
  BY <1>1 DEF DiscardTimeline
<1>4. UNCHANGED childVars /\ Discarded /\ events' = events
  BY DEF DiscardTimeline, Discarded
<1>5. QED
  BY <1>2, <1>3, <1>4, DiscardedInv

\* Whatever makes room, the queue before a new frame has none of its life.
LEMMA RoomForFrame ==
  ASSUME FramesType, NEW b \in Bots, NEW others \in Waiting(b), NEW kept,
         kept = IF Len(others) < InLimit THEN others ELSE Tail(others)
  PROVE  /\ kept \in Seq(FrameShape)
         /\ \A k \in DOMAIN kept : kept[k].bot # b
         /\ Sorted(frames) => Sorted(kept)
         /\ Distinct(kept) /\ (Known(frames) => Known(kept))
         /\ \A u : Before(u, frames) => Before(u, kept)
         /\ ToSet(kept) \subseteq ToSet(frames)
<1> DEFINE S == {k \in DOMAIN frames : frames[k].bot # b}
<1>1. frames \in Seq(FrameShape) /\ Distinct(frames)
  BY DEF FramesType, Distinct
<1>2. PICK order \in InOrder(S) : others = Picked(frames, order)
  BY DEF Waiting
<1>3. S \in SUBSET DOMAIN frames /\ \A j \in S : frames[j].bot # b
  OBVIOUS
<1> HIDE DEF S
<1>4. /\ others \in Seq(FrameShape) /\ PartOf(others, frames)
      /\ \A k \in DOMAIN others : \E j \in S : others[k] = frames[j]
  BY <1>1, <1>2, <1>3, PickedIsPart
<1>5. \A k \in DOMAIN others : others[k].bot # b
  BY <1>3, <1>4
<1>6. /\ Sorted(frames) => Sorted(others)
      /\ Distinct(others) /\ (Known(frames) => Known(others))
      /\ \A u : Before(u, frames) => Before(u, others)
      /\ ToSet(others) \subseteq ToSet(frames)
  BY <1>1, <1>4, PartKeeps
<1>7. CASE Len(others) < InLimit
  BY <1>4, <1>5, <1>6, <1>7
<1>8. CASE ~ (Len(others) < InLimit)
  <2>1. 1 \in 0..Len(others)
    BY <1>4, <1>8, BridgeAssumption
  <2>2. kept = SubSeq(others, 2, Len(others))
    BY <1>4, <1>8
  <2>3. kept \in Seq(FrameShape) /\ PartOf(kept, others)
    <3>1. 1 + 1 = 2
      OBVIOUS
    <3>2. QED
      BY <1>4, <2>1, <2>2, <3>1, EndIsPart
  <2>4. /\ Sorted(others) => Sorted(kept)
        /\ Distinct(kept) /\ (Known(others) => Known(kept))
        /\ \A u : Before(u, others) => Before(u, kept)
        /\ ToSet(kept) \subseteq ToSet(others)
    BY <1>4, <1>6, <2>3, PartKeeps
  <2>5. \A k \in DOMAIN kept : kept[k].bot # b
    <3>1. \A c : (\A k \in DOMAIN others : others[k].bot # c) =>
                   \A k \in DOMAIN kept : kept[k].bot # c
      BY <1>4, <2>3, PartKeeps
    <3>2. QED
      BY <1>5, <3>1
  <2>6. QED
    BY <1>6, <2>3, <2>4, <2>5
<1>9. QED
  BY <1>7, <1>8

LEMMA SubmitFrameInv == ASSUME IInv, NEW b \in Bots, SubmitFrame(b) PROVE IInv'
<1> USE DEF IInv
<1> DEFINE new == [kind |-> "frame", bot |-> b, id |-> frameId + 1, map |-> serial,
                   top |-> topology]
<1>1. PICK others \in Waiting(b) :
        frames' = Append(IF Len(others) < InLimit THEN others ELSE Tail(others), new)
  BY DEF SubmitFrame
<1> DEFINE kept == IF Len(others) < InLimit THEN others ELSE Tail(others)
<1>2. /\ frameId' = frameId + 1 /\ frames' = Append(kept, new)
      /\ events < MaxEvents /\ events' = events + 1
      /\ UNCHANGED <<terrain, topology, discarding, terrainVars, restart, statusVars, troubles>>
      /\ UNCHANGED <<serial, version, pending, overlay, required, awaiting, lease>>
      /\ UNCHANGED <<at, sent, transfer, transfers, hand>>
      /\ UNCHANGED <<worker, inbox, outbox, child, unheard>>
  BY <1>1 DEF SubmitFrame, Happens, bridgeVars, childVars, terrainVars, statusVars
<1>3. /\ GameType /\ TerrainType /\ FramesType /\ StatusType /\ BridgeType
      /\ HandType /\ ChildType /\ TallyType
  BY TypeParts
<1>4. new \in FrameShape /\ new.id = frameId + 1 /\ new.bot = b /\ frameId \in Nat
  BY <1>3 DEF FrameShape, GameType, TerrainType
<1>5. QueuesInOrder
  BY QueuesOf
<1>6. /\ kept \in Seq(FrameShape)
      /\ \A k \in DOMAIN kept : kept[k].bot # b
      /\ Sorted(kept) /\ Distinct(kept) /\ Known(kept)
      /\ Before(inbox, kept) /\ Before(hand, kept)
  <2>1. kept = IF Len(others) < InLimit THEN others ELSE Tail(others)
    OBVIOUS
  <2> HIDE DEF kept
  <2>2. QED
    BY <1>3, <1>5, <2>1, RoomForFrame DEF QueuesInOrder
<1> HIDE DEF kept, new
<1>7. /\ frames' \in Seq(FrameShape) /\ DOMAIN frames' = 1..(Len(kept) + 1)
      /\ Len(kept) \in Nat /\ DOMAIN kept = 1..Len(kept)
      /\ frames'[Len(kept) + 1] = new /\ \A k \in DOMAIN kept : frames'[k] = kept[k]
  BY <1>2, <1>4, <1>6
<1>8. \A k \in DOMAIN frames' : k \in DOMAIN kept \/ k = Len(kept) + 1
  BY <1>7
<1>9. TypeOK'
  <2>1. GameType'
    BY <1>2, <1>3 DEF GameType
  <2>2. FramesType'
    <3>1. \A j, k \in DOMAIN frames' : frames'[j].bot = frames'[k].bot => j = k
      BY <1>4, <1>6, <1>7, <1>8 DEF Distinct
    <3>2. QED
      BY <1>7, <3>1 DEF FramesType
  <2>3. TallyType'
    BY <1>2, <1>3, BridgeAssumption DEF TallyType
  <2>4. QED
    BY <1>2, <1>3, <2>1, <2>2, <2>3, TypeNext, TerrainKept, StatusKept, TransferKept,
       HandKept, ChildKept DEF childVars
<1>10. TransferAgrees'
  BY <1>2 DEF TransferAgrees, Sending
<1>11. Delta0' = Delta0 /\ Authored' = Authored
  BY <1>2 DEF Delta0, Authored
<1>12. OverlayIsExact'
  BY <1>2, <1>11 DEF OverlayIsExact, Sending
<1>13. StreamEndsCanonical'
  <2>1. AtEnd' = AtEnd
    BY <1>2, AtEndKept
  <2>2. QED
    BY <1>2, <1>11, <2>1 DEF StreamEndsCanonical, AtEnd
<1>14. Stream'
  BY <1>2, EndsInSomeMap, StreamKept
<1>15. QueuesInOrder'
  <2>1. \A queue \in {inbox, hand} :
          \A k \in DOMAIN queue : queue[k].kind = "frame" => queue[k].id \in Nat
    <3>1. inbox \in Seq(RecordShape) /\ hand \in Seq(RecordShape)
      BY QueuesOfRecords DEF TypeOK
    <3>2. \A m \in RecordShape : m.kind = "frame" => m.id \in Nat
      BY DEF RecordShape, DeltaShape, FrameShape
    <3>3. QED
      BY <3>1, <3>2
  <2>2. \A k \in DOMAIN kept : kept[k].id \in Nat /\ kept[k].kind = "frame"
    <3>1. \A k \in DOMAIN kept : kept[k] \in FrameShape
      BY <1>6
    <3>2. QED
      BY <3>1 DEF FrameShape
  <2>3. Sorted(frames)'
    <3> SUFFICES ASSUME NEW i \in DOMAIN frames', NEW j \in DOMAIN frames', i < j,
                        SameLife(frames'[i], frames'[j])
                 PROVE  frames'[i].id < frames'[j].id
      BY DEF Sorted
    <3>1. i \in DOMAIN kept /\ frames'[i] = kept[i]
      BY <1>7
    <3>2. CASE j \in DOMAIN kept
      BY <1>6, <1>7, <3>1, <3>2 DEF Sorted
    <3>3. CASE j = Len(kept) + 1
      BY <1>4, <1>6, <1>7, <3>1, <3>3 DEF SameLife
    <3>4. QED
      BY <1>8, <3>2, <3>3
  <2>4. Known(frames)'
    BY <1>2, <1>4, <1>6, <1>7, <1>8, <2>2 DEF Known
  <2>5. Known(inbox)' /\ Known(hand)'
    BY <1>2, <1>4, <1>5, <2>1 DEF Known, QueuesInOrder
  <2>6. \A queue \in {inbox, hand} : Known(queue) /\ Before(queue, kept) => Before(queue, frames')
    BY <1>4, <1>7, <1>8, <2>1 DEF Known, Before, SameLife
  <2>7. Before(inbox, frames') /\ Before(hand, frames')
    BY <1>5, <1>6, <2>6 DEF QueuesInOrder
  <2>8. QED
    BY <1>2, <1>5, <2>3, <2>4, <2>5, <2>7 DEF QueuesInOrder, Sorted, Before, Distinct
<1>16. FramesAreNumbered' /\ Ordered'
  BY <1>9, <1>15, QueuesNext
<1>17. QED
  BY <1>9, <1>10, <1>12, <1>13, <1>14, <1>16

-----------------------------------------------------------------------------
(* The life of a child.                                                    *)

\* Nothing a child left behind concerns the next one.
LEMMA FreshPipesInv ==
  ASSUME IInv, at = "top", FreshPipes, at' \in {"top", "snapshot"},
         worker' \in {"none", "alive"}, restart' \in BOOLEAN,
         UNCHANGED <<gameVars, terrainVars, frames, transfers, hand, tallyVars>>
  PROVE  IInv'
<1> USE DEF IInv
<1>1. /\ inbox' = << >> /\ outbox' = << >> /\ child' = NewChild /\ sent' = -1
      /\ transfer' = NoTransfer /\ awaiting' = NoFrame /\ lease' = 0
      /\ unheard' = NoneUnheard
      /\ UNCHANGED <<terrain, topology, frameId, discarding>>
      /\ UNCHANGED <<serial, version, pending, overlay, required>>
      /\ UNCHANGED <<events, troubles>>
  BY DEF FreshPipes, gameVars, terrainVars, tallyVars
<1>2. /\ GameType /\ TerrainType /\ FramesType /\ StatusType /\ BridgeType
      /\ HandType /\ ChildType /\ TallyType
  BY TypeParts
<1>3. hand = << >> /\ hand' = << >>
  BY <1>2 DEF HandType
<1>4. NoChanges \in Changes
  BY DEF NoChanges, Changes
<1>5. TypeOK'
  <2>1. StatusType'
    BY <1>1, <1>2 DEF StatusType
  <2>2. BridgeType'
    <3>1. NoTransfer \in [id : 0..transfers, serial : Nat, version : Nat, cells : Changes,
                          captured : Changes, next : 0..(Chunks + 1)]
      BY <1>2, <1>4, BridgeAssumption DEF NoTransfer, StatusType
    <3>2. at' \in {"top", "snapshot", "gate", "terrain", "delta", "order", "frames", "put",
                   "receive"}
      OBVIOUS
    <3>3. QED
      BY <1>1, <3>1, <3>2 DEF BridgeType, Number
  <2>3. HandType'
    BY <1>3 DEF HandType
  <2>4. ChildType'
    <3>1. NewChild \in ChildShape /\ NewChild.done = -1
      BY <1>4 DEF NewChild, ChildShape, Number
    <3>2. NoneUnheard \in [frame : Number, transfer : Number]
      BY DEF NoneUnheard, Number
    <3>3. Len(<< >>) = 0 /\ << >> \in Seq(RecordShape) /\ << >> \in Seq(AnswerShape)
      OBVIOUS
    <3>4. 0 <= InLimit /\ 0 <= OutLimit /\ -1 <= transfers'
      BY <1>2, BridgeAssumption DEF StatusType
    <3>5. QED
      BY <1>1, <3>1, <3>2, <3>3, <3>4 DEF ChildType
  <2>5. TallyType'
    BY <1>1, <1>2 DEF TallyType
  <2>6. QED
    BY <1>1, <1>2, <2>1, <2>2, <2>3, <2>4, <2>5, TypeNext, GameKept, TerrainKept, FramesKept
<1>6. ~Sending' /\ transfer'.id = 0 /\ serial \in Nat
  BY <1>1, <1>2 DEF Sending, NoTransfer, TerrainType
<1>7. TransferAgrees'
  BY <1>1, <1>6 DEF TransferAgrees
<1>8. Delta0 = NoChanges /\ Delta0' = NoChanges /\ Authored' = Authored
  BY <1>3 DEF Delta0, Authored
<1>9. OverlayIsExact'
  BY <1>1, <1>6, <1>8 DEF OverlayIsExact
<1>10. AtEnd' = NewChild
  BY <1>1, AtEndFresh
<1>11. StreamEndsCanonical'
  BY <1>1, <1>6, <1>10 DEF StreamEndsCanonical, AtEnd, NewChild, Sending
<1>12. Stream'
  <2>1. StreamFollowsTransfer'
    <3>1. -1 <= transfers
      BY <1>2 DEF StatusType
    <3>2. QED
      BY <1>1, <1>6, <1>10, <3>1 DEF StreamFollowsTransfer, NewChild, Unfinished, Encoded, Sending
  <2>2. CompletedBefore'
    BY <1>1, <1>6 DEF CompletedBefore, ToSet, Unfinished, Sending
  <2>3. LeaseHasCause' /\ FrameHasCause'
    BY <1>1 DEF LeaseHasCause, FrameHasCause
  <2>4. QED
    BY <2>1, <2>2, <2>3 DEF Stream
<1>13. FramesAreNumbered' /\ Ordered'
  <2>1. QueuesInOrder
    BY QueuesOf
  <2>2. QueuesInOrder'
    BY <1>1, <1>3, <2>1 DEF QueuesInOrder, Sorted, Before, Known, Distinct
  <2>3. QED
    BY <1>5, <2>2, QueuesNext
<1>14. QED
  BY <1>5, <1>7, <1>9, <1>11, <1>12, <1>13

LEMMA RecycleInv == ASSUME IInv, Recycle PROVE IInv'
BY FreshPipesInv DEF Recycle

LEMMA SpawnInv == ASSUME IInv, Spawn PROVE IInv'
<1>1. restart' \in BOOLEAN
  BY DEF IInv, TypeOK, Spawn
<1>2. QED
  BY <1>1, FreshPipesInv DEF Spawn

\* A child that hangs or is dead is owed nothing.
LEMMA LostInv ==
  ASSUME IInv, worker' \in {"wedged", "dead"}, NEW n \in 0..Len(inbox),
         inbox' = SubSeq(inbox, n + 1, Len(inbox)),
         awaiting' \in {awaiting, NoFrame}, lease' \in {lease, 0},
         events' = events, troubles' \in 0..MaxTroubles,
         UNCHANGED <<gameVars, terrainVars, frames, restart, bridgeVars>>,
         UNCHANGED <<outbox, child, unheard>>
  PROVE  IInv'
<1> USE DEF IInv
<1>1. /\ UNCHANGED <<terrain, topology, frameId, discarding>>
      /\ UNCHANGED <<serial, version, pending, overlay, required>>
      /\ UNCHANGED <<at, sent, transfer, transfers, hand>>
  BY DEF gameVars, terrainVars, bridgeVars
<1>2. /\ GameType /\ TerrainType /\ FramesType /\ StatusType /\ BridgeType
      /\ HandType /\ ChildType /\ TallyType
  BY TypeParts
<1>3. /\ inbox \in Seq(RecordShape) /\ Len(inbox) <= InLimit
      /\ inbox' \in Seq(RecordShape) /\ PartOf(inbox', inbox)
      /\ Len(inbox') = Len(inbox) - n
  BY <1>2, EndIsPart DEF ChildType
<1>4. Len(inbox') <= InLimit
  <2>1. Len(inbox) \in Nat /\ n \in Nat
    BY <1>3
  <2>2. QED
    BY <1>3, <2>1, BridgeAssumption
<1>5. TypeOK'
  <2>1. StatusType'
    BY <1>1, <1>2 DEF StatusType
  <2>2. ChildType'
    BY <1>1, <1>2, <1>3, <1>4 DEF ChildType
  <2>3. TallyType'
    BY <1>2 DEF TallyType
  <2>4. QED
    BY <1>1, <1>2, <2>1, <2>2, <2>3, TypeNext, GameKept, TerrainKept, FramesKept,
       TransferKept, HandKept
<1>6. TransferAgrees'
  BY <1>1 DEF TransferAgrees, Sending
<1>7. Delta0' = Delta0 /\ Authored' = Authored
  BY <1>1 DEF Delta0, Authored
<1>8. OverlayIsExact'
  BY <1>1, <1>7 DEF OverlayIsExact, Sending
<1>9. StreamEndsCanonical' /\ Stream'
  BY DEF StreamEndsCanonical, Stream
<1>10. FramesAreNumbered' /\ Ordered'
  <2>1. QueuesInOrder
    BY QueuesOf
  <2>2. /\ Sorted(inbox') /\ Known(inbox')
        /\ Before(inbox', hand) /\ Before(inbox', frames)
    <3>1. /\ Sorted(inbox) /\ Known(inbox)
          /\ Before(inbox, hand) /\ Before(inbox, frames)
      BY <2>1 DEF QueuesInOrder
    <3> DEFINE rest == SubSeq(inbox, n + 1, Len(inbox))
    <3>2. rest \in Seq(RecordShape) /\ PartOf(rest, inbox) /\ inbox' = rest
      BY <1>3
    <3> HIDE DEF rest
    <3>3. /\ Sorted(inbox) => Sorted(rest)
          /\ Known(inbox) => Known(rest)
          /\ \A u : Before(inbox, u) => Before(rest, u)
      BY <1>3, <3>2, PartKeeps
    <3>4. QED
      BY <3>1, <3>2, <3>3
  <2>3. QueuesInOrder'
    BY <1>1, <2>1, <2>2 DEF QueuesInOrder, Sorted, Before, Known, Distinct
  <2>4. QED
    BY <1>5, <2>3, QueuesNext
<1>11. QED
  BY <1>5, <1>6, <1>8, <1>9, <1>10

\* A pipe of which nothing is taken.
LEMMA NothingTaken ==
  ASSUME TypeOK PROVE 0 \in 0..Len(inbox) /\ SubSeq(inbox, 0 + 1, Len(inbox)) = inbox
<1>1. inbox \in Seq(RecordShape)
  BY DEF TypeOK
<1>2. QED
  BY <1>1

LEMMA KillInv ==
  ASSUME IInv, Kill, events' = events, troubles' \in 0..MaxTroubles PROVE IInv'
<1>1. 0 \in 0..Len(inbox) /\ inbox' = SubSeq(inbox, 0 + 1, Len(inbox))
  BY NothingTaken DEF IInv, Kill
<1>2. QED
  BY <1>1, LostInv DEF Kill

LEMMA KillSilentInv == ASSUME IInv, KillSilent PROVE IInv'
<1>1. Kill /\ events' = events /\ troubles' \in 0..MaxTroubles
  BY DEF KillSilent, tallyVars, IInv, TypeOK
<1>2. QED
  BY <1>1, KillInv

LEMMA KillSlowInv == ASSUME IInv, KillSlow PROVE IInv'
<1>1. troubles \in 0..MaxTroubles
  BY DEF IInv, TypeOK
<1>2. Kill /\ events' = events /\ troubles' \in 0..MaxTroubles
  BY <1>1, BridgeAssumption DEF KillSlow
<1>3. QED
  BY <1>2, KillInv

LEMMA HangsInv == ASSUME IInv, NEW n \in 1..Len(inbox), Hangs(n) PROVE IInv'
<1>1. troubles \in 0..MaxTroubles /\ inbox \in Seq(RecordShape)
  BY DEF IInv, TypeOK
<1>2. troubles' \in 0..MaxTroubles
  BY <1>1, BridgeAssumption DEF Hangs
<1>3. n \in 0..Len(inbox)
  BY <1>1
<1>4. awaiting' = awaiting /\ lease' = lease
  BY DEF Hangs, statusVars
<1>5. QED
  BY <1>2, <1>3, <1>4, LostInv DEF Hangs

LEMMA DiesInv == ASSUME IInv, Dies PROVE IInv'
<1>1. troubles \in 0..MaxTroubles
  BY DEF IInv, TypeOK
<1>2. troubles' \in 0..MaxTroubles
  BY <1>1, BridgeAssumption DEF Dies
<1>3. 0 \in 0..Len(inbox) /\ inbox' = SubSeq(inbox, 0 + 1, Len(inbox))
  BY NothingTaken DEF IInv, Dies
<1>4. awaiting' = awaiting /\ lease' = lease
  BY DEF Dies, statusVars
<1>5. QED
  BY <1>2, <1>3, <1>4, LostInv DEF Dies

-----------------------------------------------------------------------------
(* Answers.                                                                *)

\* The members of the beginning and of the end of a queue.
LEMMA MembersOf ==
  ASSUME NEW S, NEW s \in Seq(S), NEW n \in 0..Len(s)
  PROVE  /\ ToSet(s) \subseteq S
         /\ ToSet(s) = ToSet(SubSeq(s, 1, n)) \cup ToSet(SubSeq(s, n + 1, Len(s)))
         /\ \A m \in ToSet(SubSeq(s, 1, n)) : \E k \in 1..n : m = s[k]
         /\ \A k \in 1..n : s[k] \in ToSet(s)
<1> DEFINE head == SubSeq(s, 1, n)
           rest == SubSeq(s, n + 1, Len(s))
<1>1. /\ Len(s) \in Nat /\ n \in Nat /\ n <= Len(s) /\ DOMAIN s = 1..Len(s)
  OBVIOUS
<1>2. /\ head \in Seq(S) /\ Len(head) = n /\ \A k \in 1..n : head[k] = s[k]
  BY BeginningIsPart
<1>3. /\ rest \in Seq(S) /\ Len(rest) = Len(s) - n
      /\ \A k \in 1..(Len(s) - n) : rest[k] = s[n + k]
  BY EndIsPart
<1> HIDE DEF head, rest
<1>4. DOMAIN head = 1..n /\ DOMAIN rest = 1..(Len(s) - n)
  BY <1>2, <1>3
<1>5. ToSet(s) \subseteq S
  BY DEF ToSet
<1>6. ToSet(head) \subseteq ToSet(s) /\ \A k \in 1..n : s[k] \in ToSet(s)
  BY <1>1, <1>2, <1>4 DEF ToSet
<1>7. ToSet(rest) \subseteq ToSet(s)
  <2> SUFFICES ASSUME NEW k \in DOMAIN rest PROVE rest[k] \in ToSet(s)
    BY DEF ToSet
  <2>1. n + k \in DOMAIN s /\ rest[k] = s[n + k]
    BY <1>1, <1>3, <1>4
  <2>2. QED
    BY <2>1 DEF ToSet
<1>8. ToSet(s) \subseteq ToSet(head) \cup ToSet(rest)
  <2> SUFFICES ASSUME NEW k \in DOMAIN s PROVE s[k] \in ToSet(head) \cup ToSet(rest)
    BY DEF ToSet
  <2>1. CASE k <= n
    <3>1. k \in DOMAIN head /\ head[k] = s[k]
      BY <1>1, <1>2, <1>4, <2>1
    <3>2. QED
      BY <3>1 DEF ToSet
  <2>2. CASE ~ (k <= n)
    <3>1. k - n \in DOMAIN rest /\ n + (k - n) = k
      BY <1>1, <1>4, <2>2
    <3>2. rest[k - n] = s[k]
      BY <1>3, <1>4, <3>1
    <3>3. QED
      BY <3>1, <3>2 DEF ToSet
  <2>3. QED
    BY <2>1, <2>2
<1>9. \A m \in ToSet(head) : \E k \in 1..n : m = s[k]
  BY <1>2, <1>4 DEF ToSet
<1>10. QED
  BY <1>5, <1>6, <1>7, <1>8, <1>9 DEF head, rest

LEMMA ReceiveIntentsInv ==
  ASSUME IInv, NEW n \in 0..Len(outbox), ReceiveIntents(n) PROVE IInv'
<1> USE DEF IInv
<1>1. /\ at = "receive" /\ at' = "top"
      /\ awaiting' = (IF awaiting # NoFrame /\ \E k \in 1..n : AnswersFrame(outbox[k])
                      THEN NoFrame ELSE awaiting)
      /\ lease' = (IF \E k \in 1..n : AnswersTransfer(outbox[k]) THEN 0 ELSE lease)
      /\ outbox' = SubSeq(outbox, n + 1, Len(outbox))
      /\ UNCHANGED <<gameVars, terrainVars, frames, restart, sent, transfer, transfers,
                     hand, worker, inbox, child, unheard, tallyVars>>
  BY DEF ReceiveIntents
<1>2. /\ UNCHANGED <<terrain, topology, frameId, discarding>>
      /\ UNCHANGED <<serial, version, pending, overlay, required>>
  BY <1>1 DEF gameVars, terrainVars
<1>3. /\ GameType /\ TerrainType /\ FramesType /\ StatusType /\ BridgeType
      /\ HandType /\ ChildType /\ TallyType
  BY TypeParts
<1>4. /\ outbox \in Seq(AnswerShape) /\ outbox' \in Seq(AnswerShape)
      /\ Len(outbox') = Len(outbox) - n /\ Len(outbox) <= OutLimit
  BY <1>1, <1>3, EndIsPart DEF ChildType
<1>5. Len(outbox') <= OutLimit
  <2>1. Len(outbox) \in Nat /\ n \in Nat
    BY <1>4
  <2>2. QED
    BY <1>4, <2>1, BridgeAssumption
<1>6. hand = << >> /\ hand' = << >>
  BY <1>1, <1>3 DEF HandType
<1>7. TypeOK'
  <2>1. StatusType'
    BY <1>1, <1>3 DEF StatusType
  <2>2. BridgeType'
    BY <1>1, <1>3 DEF BridgeType
  <2>3. HandType'
    BY <1>1, <1>6 DEF HandType
  <2>4. ChildType'
    BY <1>1, <1>3, <1>4, <1>5 DEF ChildType
  <2>5. QED
    BY <1>1, <1>2, <1>3, <2>1, <2>2, <2>3, <2>4, TypeNext, GameKept, TerrainKept, FramesKept,
       TallyKept
<1>8. TransferAgrees'
  BY <1>1, <1>2 DEF TransferAgrees, Sending
<1>9. Delta0' = Delta0 /\ Authored' = Authored
  BY <1>6 DEF Delta0, Authored
<1>10. OverlayIsExact'
  BY <1>1, <1>2, <1>9 DEF OverlayIsExact, Sending
<1>11. AtEnd' = AtEnd
  BY <1>1, AtEndKept
<1>12. StreamEndsCanonical'
  BY <1>1, <1>2, <1>9, <1>11 DEF StreamEndsCanonical, AtEnd
<1>13. Stream'
  <2> SUFFICES ASSUME worker = "alive" PROVE Stream'
    BY <1>1 DEF Stream
  <2>1. StreamFollowsTransfer /\ CompletedBefore /\ LeaseHasCause /\ FrameHasCause
    BY DEF Stream
  <2>2. StreamFollowsTransfer'
    BY <1>1, <1>2, <1>11, <2>1 DEF StreamFollowsTransfer, Sending, Unfinished, Encoded
  <2>3. CompletedBefore'
    BY <1>1, <2>1 DEF CompletedBefore, Unfinished, Sending, EndsTransfer
  <2>4. ToSet(outbox) = ToSet(SubSeq(outbox, 1, n)) \cup ToSet(outbox')
        /\ \A m \in ToSet(SubSeq(outbox, 1, n)) : \E k \in 1..n : m = outbox[k]
    BY <1>1, <1>4, MembersOf
  <2>5. LeaseHasCause'
    <3> SUFFICES ASSUME lease' # 0 PROVE LeaseHasCause'
      BY DEF LeaseHasCause
    <3>1. lease' = lease /\ \A k \in 1..n : ~AnswersTransfer(outbox[k])
      BY <1>1
    <3>2. \A m : AnswersTransfer(m)' <=> AnswersTransfer(m)
      BY <3>1 DEF AnswersTransfer
    <3>3. (\E m \in ToSet(outbox) : AnswersTransfer(m)) =>
            \E m \in ToSet(outbox') : AnswersTransfer(m)
      BY <2>4, <3>1
    <3>4. QED
      BY <1>1, <1>11, <2>1, <3>1, <3>2, <3>3 DEF LeaseHasCause, Unfinished, Sending
  <2>6. FrameHasCause'
    <3> SUFFICES ASSUME awaiting' # NoFrame PROVE FrameHasCause'
      BY DEF FrameHasCause
    <3>1. awaiting' = awaiting /\ \A k \in 1..n : ~AnswersFrame(outbox[k])
      BY <1>1
    <3>2. \A m : AnswersFrame(m)' <=> AnswersFrame(m)
      BY <3>1 DEF AnswersFrame
    <3>3. (\E m \in ToSet(outbox) : AnswersFrame(m)) => \E m \in ToSet(outbox') : AnswersFrame(m)
      BY <2>4, <3>1
    <3>4. QED
      BY <1>1, <2>1, <3>1, <3>2, <3>3 DEF FrameHasCause, FrameIsOwed
  <2>7. QED
    BY <2>2, <2>3, <2>5, <2>6 DEF Stream
<1>14. FramesAreNumbered' /\ Ordered'
  BY <1>1, <1>2, FramesOrdered
<1>15. QED
  BY <1>7, <1>8, <1>10, <1>12, <1>13, <1>14

LEMMA MaxOfTwo ==
  ASSUME NEW a \in Number, NEW b \in Number
  PROVE  Max({a, b}) \in Number /\ a <= Max({a, b}) /\ b <= Max({a, b})
<1> DEFINE bound == IF a <= b THEN IF b = -1 THEN 0 ELSE b ELSE a
<1>1. bound \in Nat /\ a <= bound /\ b <= bound
  BY DEF Number
<1> HIDE DEF bound
<1>2. {a, b} \in SUBSET Number /\ {a, b} # {} /\ \A k \in {a, b} : k <= bound
  BY <1>1
<1>3. Max({a, b}) \in {a, b} /\ \A k \in {a, b} : k <= Max({a, b})
  BY <1>1, <1>2, MaxIsGreatest
<1>4. QED
  BY <1>3

\* The newest frame of some records is as new as each of them.
LEMMA NewestIsNewest ==
  ASSUME NEW records \in Seq(RecordShape), Known(records), frameId \in Nat
  PROVE  /\ Newest(FramesIn(records)) \in Number
         /\ \A f \in FramesIn(records) : f.id \in Nat /\ f.id <= Newest(FramesIn(records))
<1>1. \A f \in FramesIn(records) : f.id \in Nat /\ f.id <= frameId
  <2> SUFFICES ASSUME NEW k \in DOMAIN records, records[k].kind = "frame"
               PROVE  records[k].id \in Nat /\ records[k].id <= frameId
    BY DEF FramesIn, ToSet
  <2>1. records[k] \in RecordShape
    OBVIOUS
  <2>2. records[k].id \in Nat
    BY <2>1 DEF RecordShape, DeltaShape, FrameShape
  <2>3. QED
    BY <2>2 DEF Known
<1> DEFINE ids == {f.id : f \in FramesIn(records)}
<1>2. CASE FramesIn(records) = {}
  BY <1>2 DEF Newest, Number
<1>3. CASE FramesIn(records) # {}
  <2>1. Newest(FramesIn(records)) = Max(ids)
    BY <1>3 DEF Newest
  <2>2. ids \in SUBSET Number /\ ids # {} /\ \A k \in ids : k <= frameId
    BY <1>1, <1>3 DEF Number
  <2>3. \A f \in FramesIn(records) : f.id \in ids
    OBVIOUS
  <2> HIDE DEF ids
  <2>4. Max(ids) \in ids /\ \A k \in ids : k <= Max(ids)
    BY <2>2, MaxIsGreatest
  <2>5. QED
    BY <1>1, <2>1, <2>2, <2>3, <2>4
<1>4. QED
  BY <1>2, <1>3

\* A child in this state answers, with intents of these frames in this order.
Answering(newest, state, ids, order, beat, answers, room) ==
  /\ newest \in Number /\ state \in ChildShape
  /\ ids \in SUBSET Nat /\ IsFiniteSet(ids) /\ order \in InOrder(ids)
  /\ beat = [kind |-> "heartbeat", frame |-> newest, transfer |-> state.done]
  /\ answers = <<beat>> \o [k \in DOMAIN order |-> [kind |-> "intent", frame |-> order[k]]]
  /\ room = OutLimit - Len(outbox)
  /\ outbox' = outbox \o SubSeq(answers, 1, IF room < Len(answers) THEN room ELSE Len(answers))

\* It says how far it has come, if the pipe has room for that.
LEMMA AnswersOf ==
  ASSUME ChildType, NEW newest, NEW state, NEW ids, NEW order, NEW beat, NEW answers, NEW room,
         Answering(newest, state, ids, order, beat, answers, room)
  PROVE  /\ outbox' \in Seq(AnswerShape) /\ Len(outbox') <= OutLimit
         /\ ToSet(outbox) \subseteq ToSet(outbox')
         /\ room > 0 => beat \in ToSet(outbox')
<1>0. /\ newest \in Number /\ state \in ChildShape
      /\ ids \in SUBSET Nat /\ IsFiniteSet(ids) /\ order \in InOrder(ids)
      /\ beat = [kind |-> "heartbeat", frame |-> newest, transfer |-> state.done]
      /\ answers = <<beat>> \o [k \in DOMAIN order |-> [kind |-> "intent", frame |-> order[k]]]
      /\ room = OutLimit - Len(outbox)
      /\ outbox' = outbox \o SubSeq(answers, 1, IF room < Len(answers) THEN room
                                               ELSE Len(answers))
  BY DEF Answering
<1> DEFINE intents == [k \in DOMAIN order |-> [kind |-> "intent", frame |-> order[k]]]
<1>1. order \in Seq(ids)
  BY <1>0, OrderIsASeq
<1>2. PICK m \in Nat : m = Len(order)
  BY <1>1
<1>3. DOMAIN order = 1..m /\ \A k \in 1..m : order[k] \in Nat
  <2>1. order \in [1..m -> ids]
    BY <1>1, <1>2
  <2>2. QED
    BY <1>0, <2>1
<1>4. \A k \in 1..m : [kind |-> "intent", frame |-> order[k]] \in AnswerShape
  BY <1>3 DEF AnswerShape
<1>5. intents \in Seq(AnswerShape)
  BY <1>3, <1>4
<1>6. beat \in AnswerShape
  BY <1>0 DEF AnswerShape, ChildShape
<1> HIDE DEF intents
<1>7. answers \in Seq(AnswerShape) /\ Len(answers) = 1 + Len(intents) /\ answers[1] = beat
      /\ Len(intents) \in Nat
  <2>1. answers = <<beat>> \o intents
    BY <1>0 DEF intents
  <2>2. QED
    BY <1>5, <1>6, <2>1
<1>8. outbox \in Seq(AnswerShape) /\ Len(outbox) \in Nat /\ Len(outbox) <= OutLimit
      /\ OutLimit \in Nat
  BY BridgeAssumption DEF ChildType
<1> DEFINE n == IF room < Len(answers) THEN room ELSE Len(answers)
<1>9. n \in 0..Len(answers) /\ n <= room /\ (room > 0 => n >= 1)
  BY <1>0, <1>7, <1>8
<1> HIDE DEF n
<1>10. PICK said : said = SubSeq(answers, 1, n)
  OBVIOUS
<1>11. said \in Seq(AnswerShape) /\ Len(said) = n /\ \A k \in 1..n : said[k] = answers[k]
  BY <1>7, <1>9, <1>10, BeginningIsPart
<1>12. outbox' = outbox \o said
  BY <1>0, <1>10 DEF n
<1>13. /\ outbox' \in Seq(AnswerShape) /\ Len(outbox') = Len(outbox) + n
       /\ DOMAIN outbox' = 1..(Len(outbox) + n)
       /\ \A k \in 1..Len(outbox) : outbox'[k] = outbox[k]
       /\ \A k \in 1..n : outbox'[Len(outbox) + k] = said[k]
  <2>1. PICK size \in Nat : size = Len(outbox)
    BY <1>8
  <2>2. n \in Nat
    BY <1>7, <1>9
  <2>3. /\ outbox \o said \in Seq(AnswerShape) /\ Len(outbox \o said) = size + n
        /\ DOMAIN (outbox \o said) = 1..(size + n)
        /\ \A k \in 1..size : (outbox \o said)[k] = outbox[k]
        /\ \A k \in 1..n : (outbox \o said)[size + k] = said[k]
    <3>1. /\ outbox \o said \in Seq(AnswerShape)
          /\ Len(outbox \o said) = Len(outbox) + Len(said)
          /\ DOMAIN (outbox \o said) = 1..(Len(outbox) + Len(said))
          /\ \A k \in 1..Len(outbox) : (outbox \o said)[k] = outbox[k]
          /\ \A k \in 1..Len(said) : (outbox \o said)[Len(outbox) + k] = said[k]
      <4>1. outbox \in Seq(AnswerShape) /\ said \in Seq(AnswerShape)
        BY <1>8, <1>11
      <4>2. QED
        BY <4>1
    <3>2. Len(outbox) = size /\ Len(said) = n
      BY <1>11, <2>1
    <3>3. QED
      BY <3>1, <3>2, Zenon
  <2>4. QED
    BY <1>12, <2>1, <2>2, <2>3
<1>14. Len(outbox') <= OutLimit
  BY <1>0, <1>8, <1>9, <1>13
<1>15. ToSet(outbox) \subseteq ToSet(outbox')
  <2> SUFFICES ASSUME NEW k \in DOMAIN outbox PROVE outbox[k] \in ToSet(outbox')
    BY DEF ToSet
  <2>1. k \in DOMAIN outbox' /\ outbox'[k] = outbox[k]
    BY <1>8, <1>9, <1>13
  <2>2. QED
    BY <2>1 DEF ToSet
<1>16. ASSUME room > 0 PROVE beat \in ToSet(outbox')
  <2>1. 1 \in 1..n
    BY <1>9, <1>16
  <2>2. Len(outbox) + 1 \in DOMAIN outbox' /\ outbox'[Len(outbox) + 1] = beat
    BY <1>7, <1>8, <1>9, <1>11, <1>13, <2>1
  <2>3. QED
    BY <2>2 DEF ToSet
<1>17. QED
  BY <1>13, <1>14, <1>15, <1>16

\* The pipe without the records that the child takes is in order as before.
LEMMA TakenOrdered ==
  ASSUME QueuesInOrder, TypeOK, NEW n \in 0..Len(inbox),
         inbox' = SubSeq(inbox, n + 1, Len(inbox)),
         UNCHANGED <<hand, frames, at, frameId>>
  PROVE  QueuesInOrder'
<1>1. inbox \in Seq(RecordShape)
  BY DEF TypeOK
<1>2. /\ Sorted(inbox) /\ Known(inbox)
      /\ Before(inbox, hand) /\ Before(inbox, frames)
  BY DEF QueuesInOrder
<1> DEFINE rest == SubSeq(inbox, n + 1, Len(inbox))
<1>3. rest \in Seq(RecordShape) /\ PartOf(rest, inbox) /\ inbox' = rest
  BY <1>1, EndIsPart
<1> HIDE DEF rest
<1>4. /\ Sorted(inbox) => Sorted(rest)
      /\ Known(inbox) => Known(rest)
      /\ \A u : Before(inbox, u) => Before(rest, u)
  BY <1>1, <1>3, PartKeeps
<1>5. Sorted(inbox') /\ Known(inbox') /\ Before(inbox', hand) /\ Before(inbox', frames)
  BY <1>2, <1>3, <1>4
<1>6. QED
  BY <1>5 DEF QueuesInOrder, Sorted, Before, Known, Distinct

LEMMA AnswerBatchInv ==
  ASSUME IInv, NEW n \in 1..Len(inbox), AnswerBatch(n) PROVE IInv'
<1> USE DEF IInv
<1> DEFINE batch == SubSeq(inbox, 1, n)
           rest == SubSeq(inbox, n + 1, Len(inbox))
           state == ReadAll(batch)
           newest == Newest(FramesIn(batch))
           decided == {f \in Live(batch) : f.map = state.map /\ f.top <= state.version}
           room == OutLimit - Len(outbox)
           beat == [kind |-> "heartbeat", frame |-> newest, transfer |-> state.done]
<1>1. /\ worker = "alive" /\ inbox' = rest
      /\ UNCHANGED <<awaiting, lease>>
      /\ UNCHANGED <<gameVars, terrainVars, frames, restart, bridgeVars>>
      /\ UNCHANGED <<events, troubles>>
  BY DEF AnswerBatch, statusVars, tallyVars
<1>2. CASE state.fine
  <2>1. /\ child' = state /\ worker' = "alive"
        /\ unheard' = (IF room > 0 THEN unheard
                       ELSE [frame |-> Max({unheard.frame, newest}), transfer |-> state.done])
    BY <1>1, <1>2 DEF AnswerBatch
  <2>2. PICK order \in InOrder({f.id : f \in decided}) :
          LET answers == <<beat>> \o [k \in DOMAIN order |->
                                        [kind |-> "intent", frame |-> order[k]]]
          IN  outbox' = outbox \o SubSeq(answers, 1,
                           IF room < Len(answers) THEN room ELSE Len(answers))
    BY <1>2 DEF AnswerBatch
  <2> DEFINE answers == <<beat>> \o [k \in DOMAIN order |->
                                       [kind |-> "intent", frame |-> order[k]]]
  <2>3. /\ GameType /\ TerrainType /\ FramesType /\ StatusType /\ BridgeType
        /\ HandType /\ ChildType /\ TallyType
    BY TypeParts
  <2>4. /\ UNCHANGED <<terrain, topology, frameId, discarding>>
        /\ UNCHANGED <<serial, version, pending, overlay, required>>
        /\ UNCHANGED <<at, sent, transfer, transfers, hand>>
    BY <1>1 DEF gameVars, terrainVars, bridgeVars
  <2>5. inbox \in Seq(RecordShape) /\ n \in 0..Len(inbox) /\ Len(inbox) \in Nat
    BY <2>3 DEF ChildType
  <2>6. /\ batch \in Seq(RecordShape) /\ PartOf(batch, inbox)
        /\ rest \in Seq(RecordShape) /\ Len(rest) = Len(inbox) - n
    BY <2>5, BeginningIsPart, EndIsPart
  <2>7. ToSet(inbox) = ToSet(batch) \cup ToSet(rest)
    BY <2>5, MembersOf
  <2>8. AtEnd' = AtEnd
    BY <1>1, <2>1, <2>5, AtEndTaken
  <2>9. QueuesInOrder
    BY QueuesOf
  <2>10. Known(batch)
    <3> HIDE DEF batch
    <3>1. Known(inbox)
      BY <2>9 DEF QueuesInOrder
    <3>2. QED
      BY <2>5, <2>6, <3>1, PartKeeps
  <2>11. StreamFollowsTransfer /\ CompletedBefore /\ LeaseHasCause /\ FrameHasCause
    BY <1>1 DEF Stream
  <2>12. /\ newest \in Number
         /\ \A f \in FramesIn(batch) : f.id \in Nat /\ f.id <= newest
    <3> HIDE DEF batch
    <3>1. frameId \in Nat
      BY <2>3 DEF GameType
    <3>2. QED
      BY <2>6, <2>10, <3>1, NewestIsNewest
  <2>13. /\ state \in ChildShape
         /\ state.done # child.done => \E m \in ToSet(batch) : EndsTransfer(m) /\ state.done = m.id
    <3>1. child \in ChildShape
      BY <2>3 DEF ChildType
    <3> HIDE DEF batch
    <3>2. QED
      BY <2>6, <3>1, ReadAllResult
  <2>14. {f.id : f \in decided} \in SUBSET Nat /\ IsFiniteSet({f.id : f \in decided})
    <3> DEFINE ids == {f.id : f \in decided}
    <3>1. decided \subseteq FramesIn(batch)
      BY DEF Live, FramesIn, ToSet
    <3>2. ASSUME NEW f \in FramesIn(batch) PROVE f.id \in 0..frameId
      <4>1. PICK k \in DOMAIN batch : f = batch[k] /\ f.kind = "frame"
        BY DEF FramesIn, ToSet
      <4>2. f.id <= frameId
        BY <2>10, <4>1 DEF Known
      <4>3. frameId \in Nat
        BY <2>3 DEF GameType
      <4>4. QED
        BY <2>12, <4>2, <4>3
    <3>3. ids \subseteq 0..frameId
      BY <3>1, <3>2
    <3>4. frameId \in Nat
      BY <2>3 DEF GameType
    <3>5. IsFiniteSet(0..frameId) /\ 0..frameId \subseteq Nat
      BY <3>4, FS_Interval
    <3> HIDE DEF ids
    <3>6. ids \in SUBSET Nat /\ IsFiniteSet(ids)
      BY <3>3, <3>5, FS_Subset
    <3>7. QED
      BY <3>6 DEF ids
  <2>15. outbox' = outbox \o SubSeq(answers, 1,
                     IF room < Len(answers) THEN room ELSE Len(answers))
    BY <2>2
  <2> DEFINE ids == {f.id : f \in decided}
  <2>16. ids \in SUBSET Nat /\ IsFiniteSet(ids) /\ order \in InOrder(ids)
    BY <2>2, <2>14
  <2>17. /\ beat = [kind |-> "heartbeat", frame |-> newest, transfer |-> state.done]
         /\ answers = <<beat>> \o [k \in DOMAIN order |->
                                       [kind |-> "intent", frame |-> order[k]]]
         /\ room = OutLimit - Len(outbox)
    OBVIOUS
  <2> HIDE DEF batch, rest, state, newest, decided, room, beat, answers, ids
  <2>18. /\ outbox' \in Seq(AnswerShape) /\ Len(outbox') <= OutLimit
         /\ ToSet(outbox) \subseteq ToSet(outbox')
         /\ room > 0 => beat \in ToSet(outbox')
    <3>1. Answering(newest, state, ids, order, beat, answers, room)
      BY <2>12, <2>13, <2>15, <2>16, <2>17 DEF Answering
    <3>2. QED
      BY <2>3, <3>1, AnswersOf
  <2>19. beat.kind = "heartbeat" /\ beat.frame = newest /\ beat.transfer = state.done
    BY <2>17
  <2>20. /\ unheard.frame \in Number /\ unheard.transfer \in Number
         /\ unheard \in [frame : Number, transfer : Number]
    BY <2>3 DEF ChildType
\* What the child could not say.
  <2>21. ~ (room > 0) =>
           /\ unheard' \in [frame : Number, transfer : Number]
           /\ unheard'.frame \in Number /\ unheard'.transfer = state.done
           /\ unheard.frame <= unheard'.frame /\ newest <= unheard'.frame
    <3>1. /\ Max({unheard.frame, newest}) \in Number
          /\ unheard.frame <= Max({unheard.frame, newest})
          /\ newest <= Max({unheard.frame, newest})
      BY <2>12, <2>20, MaxOfTwo
    <3>2. state.done \in Number
      BY <2>13 DEF ChildShape
    <3>3. QED
      BY <2>1, <3>1, <3>2
  <2>22. state.done <= transfers /\ (Unfinished => state.done < transfer.id)
    <3>1. child.done <= transfers /\ (Unfinished => child.done < transfer.id)
      BY <2>3, <2>11 DEF ChildType, CompletedBefore
    <3>2. \A m \in ToSet(inbox) : EndsTransfer(m) =>
            m.id <= transfers /\ (Unfinished => m.id < transfer.id)
      BY <2>11 DEF CompletedBefore
    <3>3. QED
      BY <2>7, <2>13, <3>1, <3>2
  <2>23. TypeOK'
    <3>1. ChildType'
      <4>1. Len(rest) <= InLimit
        BY <2>3, <2>5, <2>6, BridgeAssumption DEF ChildType
      <4>2. unheard' \in [frame : Number, transfer : Number]
        BY <2>1, <2>20, <2>21
      <4>3. child' \in ChildShape /\ child'.done <= transfers'
        BY <2>1, <2>4, <2>13, <2>22
      <4>4. QED
        BY <1>1, <2>1, <2>6, <2>18, <4>1, <4>2, <4>3 DEF ChildType
    <3>2. UNCHANGED <<statusVars, tallyVars>>
      BY <1>1 DEF statusVars, tallyVars
    <3>3. QED
      BY <1>1, <2>3, <2>4, <3>1, <3>2, TypeNext, GameKept, TerrainKept, FramesKept,
         StatusKept, TransferKept, HandKept, TallyKept
  <2>24. TransferAgrees'
    BY <2>4 DEF TransferAgrees, Sending
  <2>25. Delta0' = Delta0 /\ Authored' = Authored
    BY <2>4 DEF Delta0, Authored
  <2>26. OverlayIsExact'
    BY <2>4, <2>25 DEF OverlayIsExact, Sending
  <2>27. StreamEndsCanonical'
    BY <1>1, <2>1, <2>4, <2>8, <2>25 DEF StreamEndsCanonical, AtEnd
  <2>28. StreamFollowsTransfer'
    BY <2>4, <2>8, <2>11 DEF StreamFollowsTransfer, Sending, Unfinished, Encoded
  <2>29. CompletedBefore'
    <3>1. \A m \in ToSet(rest) : EndsTransfer(m) =>
            m.id <= transfers /\ (Unfinished => m.id < transfer.id)
      BY <2>7, <2>11 DEF CompletedBefore
    <3>2. QED
      BY <1>1, <2>1, <2>4, <2>22, <3>1 DEF CompletedBefore, Unfinished, Sending, EndsTransfer
  <2>30. LeaseHasCause'
    <3> SUFFICES ASSUME lease # 0 PROVE LeaseHasCause'
      BY <1>1 DEF LeaseHasCause
    <3>1. (Unfinished /\ transfer.id = lease) \/ AtEnd.done >= lease
      BY <2>11 DEF LeaseHasCause
    <3>2. state.done >= lease =>
            (\E m \in ToSet(outbox') : AnswersTransfer(m)) \/ unheard'.transfer >= lease
      <4>1. CASE room > 0
        BY <2>18, <2>19, <4>1 DEF AnswersTransfer
      <4>2. CASE ~ (room > 0)
        BY <2>21, <4>2
      <4>3. QED
        BY <4>1, <4>2
    <3>3. \A m : AnswersTransfer(m)' <=> AnswersTransfer(m)
      BY <1>1 DEF AnswersTransfer
    <3>4. Unfinished' <=> Unfinished
      BY <2>4 DEF Unfinished, Sending
    <3>5. QED
      BY <1>1, <2>1, <2>4, <2>8, <3>1, <3>2, <3>3, <3>4 DEF LeaseHasCause
  <2>31. FrameHasCause'
    <3> SUFFICES ASSUME awaiting # NoFrame PROVE FrameHasCause'
      BY <1>1 DEF FrameHasCause
    <3>1. FrameIsOwed \/ unheard.frame >= awaiting
      BY <2>11 DEF FrameHasCause
    <3>2. awaiting \in Nat /\ awaiting' = awaiting /\ newest \in Int
      BY <1>1, <2>3, <2>12 DEF StatusType, Number
    <3>3. \A m : AnswersFrame(m)' <=> AnswersFrame(m)
      BY <1>1 DEF AnswersFrame
    <3>4. (\E m \in ToSet(outbox') : AnswersFrame(m)) => FrameHasCause'
      BY <3>3 DEF FrameHasCause, FrameIsOwed
    <3>5. unheard'.frame >= awaiting => FrameHasCause'
      BY <3>2 DEF FrameHasCause
    <3>6. newest >= awaiting => FrameHasCause'
      <4>1. CASE room > 0
        BY <2>18, <2>19, <3>4, <4>1 DEF AnswersFrame
      <4>2. CASE ~ (room > 0)
        <5>1. unheard'.frame \in Int /\ newest <= unheard'.frame
          BY <2>21, <4>2 DEF Number
        <5>2. QED
          BY <3>2, <3>5, <5>1
      <4>3. QED
        BY <4>1, <4>2
    <3>7. ASSUME NEW f \in FramesIn(inbox), f.id >= awaiting PROVE FrameHasCause'
      <4>1. CASE f \in FramesIn(batch)
        BY <2>12, <3>2, <3>6, <3>7, <4>1
      <4>2. CASE f \notin FramesIn(batch)
        <5>1. f \in FramesIn(inbox')
          BY <1>1, <2>7, <4>2 DEF FramesIn
        <5>2. QED
          BY <3>2, <3>7, <5>1 DEF FrameHasCause, FrameIsOwed, FramesIn
      <4>3. QED
        BY <4>1, <4>2
    <3>8. (\E m \in ToSet(outbox) : AnswersFrame(m)) => FrameHasCause'
      BY <2>18, <3>4
    <3>9. unheard.frame >= awaiting => FrameHasCause'
      <4>1. CASE room > 0
        BY <2>1, <3>5, <4>1
      <4>2. CASE ~ (room > 0)
        <5>1. unheard'.frame \in Int /\ unheard.frame \in Int /\ unheard.frame <= unheard'.frame
          BY <2>20, <2>21, <4>2 DEF Number
        <5>2. QED
          BY <3>2, <3>5, <5>1
      <4>3. QED
        BY <4>1, <4>2
    <3>10. QED
      BY <3>1, <3>7, <3>8, <3>9 DEF FrameIsOwed
  <2>32. FramesAreNumbered' /\ Ordered'
    <3>1. inbox' = SubSeq(inbox, n + 1, Len(inbox))
      BY <1>1 DEF rest
    <3>2. QueuesInOrder'
      BY <1>1, <2>4, <2>5, <2>9, <3>1, TakenOrdered
    <3>3. QED
      BY <2>23, <3>2, QueuesNext
  <2>33. QED
    BY <2>23, <2>24, <2>26, <2>27, <2>28, <2>29, <2>30, <2>31, <2>32 DEF Stream
<1>3. CASE ~ state.fine
  <2>1. worker' = "dead" /\ UNCHANGED <<child, outbox, unheard>>
    BY <1>3 DEF AnswerBatch
  <2>2. n \in 0..Len(inbox) /\ troubles \in 0..MaxTroubles
    BY DEF TypeOK
  <2>3. QED
    BY <1>1, <2>1, <2>2, LostInv
<1>4. QED
  BY <1>2, <1>3

-----------------------------------------------------------------------------
(* Snapshots.                                                              *)

\* A record that comes last is in order if no later one of its life is before it.
LEMMA AppendedIsOrdered ==
  ASSUME NEW S, NEW s \in Seq(S), NEW m \in S
  PROVE  /\ Append(s, m) \in Seq(S) /\ Len(Append(s, m)) = Len(s) + 1
         /\ ToSet(Append(s, m)) = ToSet(s) \cup {m}
         /\ Sorted(s) /\ (\A i \in DOMAIN s : SameLife(s[i], m) => s[i].id < m.id)
              => Sorted(Append(s, m))
         /\ \A t : Before(s, t) /\ (\A j \in DOMAIN t : SameLife(m, t[j]) => m.id < t[j].id)
                     => Before(Append(s, m), t)
         /\ Known(s) /\ (m.kind = "frame" => m.id <= frameId) => Known(Append(s, m))
<1> DEFINE longer == Append(s, m)
<1>1. /\ longer \in Seq(S) /\ Len(longer) = Len(s) + 1 /\ Len(s) \in Nat
      /\ DOMAIN longer = 1..(Len(s) + 1) /\ DOMAIN s = 1..Len(s)
      /\ longer[Len(s) + 1] = m /\ \A k \in 1..Len(s) : longer[k] = s[k]
  OBVIOUS
<1> HIDE DEF longer
<1>2. \A k \in DOMAIN longer : (k \in DOMAIN s /\ longer[k] = s[k]) \/ (k = Len(s) + 1 /\ longer[k] = m)
  BY <1>1
<1>3. \A k \in DOMAIN s : k \in DOMAIN longer /\ k < Len(s) + 1
  BY <1>1
<1>4. Len(s) + 1 \in DOMAIN longer
  BY <1>1
<1>5. ToSet(longer) = ToSet(s) \cup {m}
  <2>1. ToSet(longer) \subseteq ToSet(s) \cup {m}
    BY <1>2 DEF ToSet
  <2>2. ToSet(s) \subseteq ToSet(longer)
    BY <1>1, <1>3 DEF ToSet
  <2>3. m \in ToSet(longer)
    BY <1>1, <1>4 DEF ToSet
  <2>4. QED
    BY <2>1, <2>2, <2>3
<1>6. ASSUME Sorted(s), \A i \in DOMAIN s : SameLife(s[i], m) => s[i].id < m.id
      PROVE  Sorted(longer)
  <2> SUFFICES ASSUME NEW i \in DOMAIN longer, NEW j \in DOMAIN longer, i < j,
                      SameLife(longer[i], longer[j])
               PROVE  longer[i].id < longer[j].id
    BY DEF Sorted
  <2>1. i \in DOMAIN s /\ longer[i] = s[i]
    BY <1>1
  <2>2. CASE j \in DOMAIN s /\ longer[j] = s[j]
    BY <1>6, <2>1, <2>2 DEF Sorted
  <2>3. CASE longer[j] = m
    BY <1>6, <2>1, <2>3
  <2>4. QED
    BY <1>2, <2>2, <2>3
<1>7. \A t : Before(s, t) /\ (\A j \in DOMAIN t : SameLife(m, t[j]) => m.id < t[j].id)
               => Before(longer, t)
  BY <1>2 DEF Before
<1>8. Known(s) /\ (m.kind = "frame" => m.id <= frameId) => Known(longer)
  BY <1>2 DEF Known
<1>9. QED
  BY <1>1, <1>5, <1>6, <1>7, <1>8 DEF longer

\* What is no frame may be put at any time.
LEMMA PutOrdered ==
  ASSUME TypeOK, QueuesInOrder, NEW m \in RecordShape, m.kind # "frame",
         inbox' = Append(inbox, m), hand' \in {hand, << >>}, at' = "put" => at = "put",
         UNCHANGED <<frames, frameId>>
  PROVE  QueuesInOrder'
<1>1. inbox \in Seq(RecordShape)
  BY DEF TypeOK
<1>2. /\ Sorted(inbox) /\ Sorted(hand) /\ Sorted(frames)
      /\ Before(inbox, hand) /\ Before(inbox, frames) /\ Before(hand, frames)
      /\ Known(inbox) /\ Known(hand) /\ Known(frames)
      /\ at = "put" => Distinct(hand)
  BY DEF QueuesInOrder
<1>3. \A f : ~SameLife(m, f) /\ ~SameLife(f, m)
  BY DEF SameLife
<1> DEFINE longer == Append(inbox, m)
<1>4. /\ Sorted(longer) /\ Known(longer) /\ Before(longer, hand) /\ Before(longer, frames)
  BY <1>1, <1>2, <1>3, AppendedIsOrdered
<1>5. inbox' = longer
  OBVIOUS
<1> HIDE DEF longer
<1>6. Sorted(<< >>) /\ Before(longer, << >>) /\ Before(<< >>, frames) /\ Known(<< >>) /\ Distinct(<< >>)
  BY DEF Sorted, Before, Known, Distinct
<1>7. /\ Sorted(hand') /\ Before(longer, hand') /\ Before(hand', frames)
      /\ Known(hand') /\ (at' = "put" => Distinct(hand'))
  BY <1>2, <1>4, <1>6
<1>8. Sorted(inbox') /\ Sorted(frames')
  BY <1>2, <1>4, <1>5
<1>9. Before(inbox', hand') /\ Before(inbox', frames') /\ Before(hand', frames')
  BY <1>4, <1>5, <1>7
<1>10. Known(inbox)' /\ Known(hand)' /\ Known(frames)'
  BY <1>2, <1>4, <1>5, <1>7 DEF Known
<1>11. QED
  BY <1>7, <1>8, <1>9, <1>10 DEF QueuesInOrder, Sorted, Before, Distinct

\* What is captured is the terrain as it is: the overlay, with what is pending.
LEMMA ComposeSnapshotInv == ASSUME IInv, ComposeSnapshot PROVE IInv'
<1> USE DEF IInv
<1> DEFINE new == [id |-> transfers + 1, serial |-> serial, version |-> version,
                   cells |-> overlay, captured |-> pending, next |-> 0]
<1>1. /\ at = "snapshot" /\ ~Sending /\ at' = at
      /\ transfers' = transfers + 1 /\ transfer' = new
      /\ UNCHANGED <<gameVars, restart, worker, outbox, child, unheard, tallyVars>>
      /\ UNCHANGED <<terrainVars, frames, statusVars, sent, hand, inbox>>
  BY DEF ComposeSnapshot, OnlyBridge, Sending
<1>2. /\ UNCHANGED <<terrain, topology, frameId, discarding>>
      /\ UNCHANGED <<serial, version, pending, overlay, required, awaiting, lease>>
  BY <1>1 DEF gameVars, terrainVars, statusVars
<1>3. /\ GameType /\ TerrainType /\ FramesType /\ StatusType /\ BridgeType
      /\ HandType /\ ChildType /\ TallyType
  BY TypeParts
<1>4. transfers \in Nat /\ serial \in Nat /\ version \in Nat /\ Chunks \in Nat /\ Chunks > 0
  BY <1>3, BridgeAssumption DEF TerrainType, StatusType
<1>5. Sending' /\ transfer'.id = transfers' /\ transfer'.next = 0 /\ Unfinished'
  <2>1. new.id # NoTransfer.id
    BY <1>4 DEF NoTransfer
  <2>2. QED
    BY <1>1, <1>4, <2>1 DEF Sending, Unfinished
<1>6. TypeOK'
  <2>1. StatusType'
    <3>1. lease \in 0..transfers
      BY <1>3 DEF StatusType
    <3>2. lease \in 0..(transfers + 1)
      BY <1>4, <3>1
    <3>3. QED
      BY <1>1, <1>2, <1>3, <1>4, <3>2 DEF StatusType
  <2>2. BridgeType'
    <3>1. new \in [id : 0..(transfers + 1), serial : Nat, version : Nat, cells : Changes,
                   captured : Changes, next : 0..(Chunks + 1)]
      BY <1>3, <1>4 DEF TerrainType
    <3>2. QED
      BY <1>1, <1>3, <3>1 DEF BridgeType
  <2>3. ChildType'
    <3>1. child.done <= transfers /\ child.done \in Int
      BY <1>3 DEF ChildType, ChildShape, Number
    <3>2. child.done <= transfers + 1
      BY <1>4, <3>1
    <3>3. QED
      BY <1>1, <1>3, <3>2 DEF ChildType
  <2>4. QED
    BY <1>1, <1>3, <2>1, <2>2, <2>3, TypeNext, GameKept, TerrainKept, FramesKept, HandKept,
       TallyKept
<1>7. TransferAgrees'
  BY <1>1, <1>2, <1>4, <1>5 DEF TransferAgrees, OverlayIsExact
<1>8. Delta0' = Delta0 /\ Authored' = Authored
  BY <1>1, <1>2 DEF Delta0, Authored
<1>9. Over(Over(Authored, overlay), pending) = terrain
  <2>1. terrain \in [Cells -> Values] /\ overlay \in Changes /\ pending \in Changes
    BY <1>3 DEF GameType, TerrainType
  <2>2. Over(Authored, overlay) = terrain
    BY DEF OverlayIsExact
  <2>3. ASSUME NEW c \in Cells PROVE (IF pending[c] # 0 THEN pending[c] ELSE terrain[c]) = terrain[c]
    BY <2>2 DEF OverlayIsExact, Over
  <2>4. QED
    BY <2>1, <2>2, <2>3 DEF Over
<1>10. OverlayIsExact'
  BY <1>1, <1>2, <1>8, <1>9 DEF OverlayIsExact
<1>11. AtEnd' = AtEnd
  BY <1>1, AtEndKept
<1>12. Stream'
  <2> SUFFICES ASSUME worker = "alive" PROVE Stream'
    BY <1>1 DEF Stream
  <2>1. StreamFollowsTransfer /\ CompletedBefore /\ LeaseHasCause /\ FrameHasCause
    BY DEF Stream
  <2>2. ~Unfinished /\ ~Encoded /\ ~Encoded'
    BY <1>1, <1>4, <1>5 DEF Unfinished, Encoded
  <2>3. StreamFollowsTransfer'
    <3>1. AtEnd.done \in Int
      BY AtEndType DEF ChildShape, Number
    <3>2. AtEnd.done <= transfers' /\ AtEnd.done < transfer'.id
      BY <1>1, <1>4, <1>5, <2>1, <3>1 DEF StreamFollowsTransfer
    <3>3. QED
      BY <1>1, <1>2, <1>5, <1>11, <2>1, <2>2, <3>2 DEF StreamFollowsTransfer
  <2>4. CompletedBefore'
    <3>1. \A m \in ToSet(inbox) : EndsTransfer(m) => m.id \in Nat
      <4>1. \A m \in RecordShape : m.kind = "chunk" => m.id \in Nat
        BY DEF RecordShape, DeltaShape, FrameShape
      <4>2. QED
        BY <1>3, <4>1 DEF ChildType, EndsTransfer, ToSet
    <3>2. child.done <= transfers /\ child.done \in Int
      BY <1>3 DEF ChildType, ChildShape, Number
    <3>3. QED
      BY <1>1, <1>4, <1>5, <2>1, <3>1, <3>2 DEF CompletedBefore, EndsTransfer
  <2>5. LeaseHasCause'
    BY <1>1, <1>2, <1>11, <2>1, <2>2 DEF LeaseHasCause, AnswersTransfer
  <2>6. FrameHasCause'
    BY <1>1, <1>2, <2>1 DEF FrameHasCause, FrameIsOwed, AnswersFrame
  <2>7. QED
    BY <2>3, <2>4, <2>5, <2>6 DEF Stream
<1>13. StreamEndsCanonical'
  <2>1. worker = "alive" => AtEnd.fine
    BY DEF Stream, StreamFollowsTransfer
  <2>2. transfer' # NoTransfer'
    BY <1>5 DEF Sending
  <2>3. Over(Over(Authored, transfer'.cells), pending') = terrain'
    BY <1>1, <1>2, <1>9
  <2>4. QED
    BY <1>1, <1>8, <1>11, <2>1, <2>2, <2>3 DEF StreamEndsCanonical, AtEnd
<1>14. FramesAreNumbered' /\ Ordered'
  BY <1>1, <1>2, FramesOrdered
<1>15. QED
  BY <1>6, <1>7, <1>10, <1>12, <1>13, <1>14

\* The record that the bridge puts is the one that the stream lacks.
LEMMA PutRecordInv == ASSUME IInv, PutRecord PROVE IInv'
<1> USE DEF IInv
<1> DEFINE m == IF transfer.next = 0 THEN Header ELSE Chunk
<1>1. /\ at = "snapshot" /\ Sending /\ transfer.next <= Chunks /\ Len(inbox) < InLimit
      /\ inbox' = Append(inbox, m)
      /\ transfer' = [transfer EXCEPT !.next = @ + 1]
      /\ lease' = (IF transfer.next = 0 THEN transfer.id ELSE lease)
      /\ UNCHANGED <<gameVars, restart, worker, outbox, child, unheard, tallyVars>>
      /\ UNCHANGED <<terrainVars, frames, awaiting, at, sent, transfers, hand>>
  BY DEF PutRecord, OnlyBridge, Sending, Room
<1>2. /\ UNCHANGED <<terrain, topology, frameId, discarding>>
      /\ UNCHANGED <<serial, version, pending, overlay, required>>
  BY <1>1 DEF gameVars, terrainVars
<1>3. /\ GameType /\ TerrainType /\ FramesType /\ StatusType /\ BridgeType
      /\ HandType /\ ChildType /\ TallyType
  BY TypeParts
<1>4. /\ transfers \in Nat /\ transfer.id \in Nat /\ transfer.id <= transfers
      /\ transfer.serial \in Nat /\ transfer.version \in Nat
      /\ transfer.cells \in Changes /\ transfer.captured \in Changes
      /\ transfer.next \in 0..(Chunks + 1) /\ Chunks \in Nat /\ Chunks > 0
  BY <1>3, BridgeAssumption DEF StatusType, BridgeType
<1>5. /\ transfer'.id = transfer.id /\ transfer'.serial = transfer.serial
      /\ transfer'.version = transfer.version /\ transfer'.cells = transfer.cells
      /\ transfer'.captured = transfer.captured /\ transfer'.next = transfer.next + 1
      /\ transfer' \in [id : 0..transfers, serial : Nat, version : Nat, cells : Changes,
                        captured : Changes, next : 0..(Chunks + 1)]
  <2>1. transfer.next + 1 \in 0..(Chunks + 1)
    BY <1>1, <1>4
  <2>2. transfer \in [id : 0..transfers, serial : Nat, version : Nat, cells : Changes,
                      captured : Changes, next : 0..(Chunks + 1)]
    BY <1>3 DEF BridgeType
  <2>3. QED
    BY <1>1, <2>1, <2>2
<1>6. transfer.id = transfers /\ transfers > 0
  BY <1>1 DEF TransferAgrees
<1>7. Sending'
  BY <1>4, <1>5, <1>6 DEF Sending, NoTransfer
<1>8. m \in RecordShape /\ m.kind # "frame" /\ m.id = transfer.id
  <2>1. Header \in RecordShape /\ Header.kind # "frame" /\ Header.id = transfer.id
    BY <1>4 DEF Header, RecordShape
  <2>2. Chunk \in RecordShape /\ Chunk.kind # "frame" /\ Chunk.id = transfer.id
    <3>1. transfer.next \in Nat
      BY <1>4
    <3>2. QED
      BY <1>4, <3>1 DEF Chunk, RecordShape
  <2>3. QED
    BY <2>1, <2>2
<1>9. transfer.next = 0 => m = [kind |-> "start", id |-> transfer.id]
  BY DEF Header
<1>10. transfer.next # 0 =>
         m = [kind |-> "chunk", id |-> transfer.id, index |-> transfer.next,
              map |-> transfer.serial, version |-> transfer.version, cells |-> transfer.cells]
  BY DEF Chunk
<1> HIDE DEF m
<1>11. /\ inbox \in Seq(RecordShape) /\ inbox' \in Seq(RecordShape)
       /\ Len(inbox') = Len(inbox) + 1
       /\ ToSet(inbox') = ToSet(inbox) \cup {m}
  <2>1. inbox \in Seq(RecordShape)
    BY <1>3 DEF ChildType
  <2>2. QED
    BY <1>1, <1>8, <2>1, AppendedIsOrdered
<1>12. TypeOK'
  <2>1. StatusType'
    <3>1. lease \in 0..transfers /\ transfer.id \in 0..transfers
      BY <1>3, <1>4 DEF StatusType
    <3>2. QED
      BY <1>1, <1>3, <3>1 DEF StatusType
  <2>2. BridgeType'
    BY <1>1, <1>3, <1>5 DEF BridgeType
  <2>3. ChildType'
    <3>1. Len(inbox') <= InLimit
      <4>1. Len(inbox) \in Nat /\ InLimit \in Nat
        BY <1>11, BridgeAssumption
      <4>2. QED
        BY <1>1, <1>11, <4>1
    <3>2. QED
      BY <1>1, <1>3, <1>11, <3>1 DEF ChildType
  <2>4. QED
    BY <1>1, <1>3, <2>1, <2>2, <2>3, TypeNext, GameKept, TerrainKept, FramesKept, HandKept,
       TallyKept
<1>13. TransferAgrees'
  BY <1>1, <1>2, <1>5, <1>7 DEF TransferAgrees
<1>14. Delta0' = Delta0 /\ Authored' = Authored
  BY <1>1, <1>2 DEF Delta0, Authored
<1>15. OverlayIsExact'
  BY <1>1, <1>2, <1>5, <1>7, <1>14 DEF OverlayIsExact
<1>16. Unfinished /\ ~Encoded
  BY <1>1, <1>4 DEF Unfinished, Encoded
<1>17. (Unfinished' <=> transfer.next + 1 <= Chunks) /\ (Encoded' <=> ~ (transfer.next + 1 <= Chunks))
  BY <1>4, <1>5, <1>7 DEF Unfinished, Encoded
<1>18. AtEnd' = Reads(AtEnd, m) /\ AtEnd \in ChildShape
  BY <1>1, <1>8, AtEndAppended, AtEndType
<1>19. ASSUME worker = "alive"
       PROVE  /\ StreamFollowsTransfer'
              /\ AtEnd'.done = AtEnd.done \/ (Encoded' /\ AtEnd'.done = transfer.id)
  <2>1. StreamFollowsTransfer
    BY <1>19 DEF Stream
  <2>2. AtEnd.done < transfer.id /\ AtEnd.fine /\ AtEnd.map = sent /\ AtEnd.done <= transfers
    BY <1>16, <2>1 DEF StreamFollowsTransfer
  <2>3. AtEnd.done \in Int
    BY <1>18 DEF ChildShape, Number
  <2>4. CASE transfer.next = 0
    <3>1. AtEnd.taking = 0
      BY <1>4, <2>1, <2>4 DEF StreamFollowsTransfer
    <3>2. AtEnd' = [AtEnd EXCEPT !.taking = transfer.id, !.next = 1]
      <4>1. m.kind = "start" /\ m.id = transfer.id
        BY <1>9, <2>4
      <4>2. ~ (AtEnd.taking # 0 \/ m.id <= AtEnd.done)
        BY <1>4, <2>2, <2>3, <3>1, <4>1
      <4>3. Reads(AtEnd, m) = [AtEnd EXCEPT !.taking = m.id, !.next = 1]
        BY <4>1, <4>2 DEF Reads
      <4>4. QED
        BY <1>18, <4>1, <4>3
    <3>3. /\ AtEnd'.taking = transfer.id /\ AtEnd'.next = 1 /\ AtEnd'.fine = AtEnd.fine
          /\ AtEnd'.done = AtEnd.done /\ AtEnd'.map = AtEnd.map
          /\ AtEnd'.version = AtEnd.version
      BY <1>18, <3>2 DEF ChildShape
    <3>4. Unfinished' /\ ~Encoded' /\ transfer'.next = 1
      BY <1>4, <1>5, <1>17, <2>4
    <3>5. QED
      BY <1>1, <1>2, <1>5, <2>1, <2>2, <3>3, <3>4 DEF StreamFollowsTransfer
  <2>5. CASE transfer.next # 0
    <3>1. AtEnd.taking = transfer.id /\ AtEnd.next = transfer.next
      BY <1>4, <1>16, <2>1, <2>5 DEF StreamFollowsTransfer
    <3>2. /\ m.kind = "chunk" /\ m.index = transfer.next /\ m.map = transfer.serial
          /\ m.version = transfer.version /\ m.cells = transfer.cells
      BY <1>10, <2>5
    <3>3. CASE transfer.next < Chunks
      <4>1. AtEnd' = [AtEnd EXCEPT !.next = @ + 1]
        BY <1>8, <1>18, <3>1, <3>2, <3>3 DEF Reads
      <4>2. /\ AtEnd'.taking = transfer.id /\ AtEnd'.next = transfer.next + 1
            /\ AtEnd'.fine = AtEnd.fine /\ AtEnd'.done = AtEnd.done
            /\ AtEnd'.map = AtEnd.map /\ AtEnd'.version = AtEnd.version
        BY <1>18, <3>1, <4>1 DEF ChildShape
      <4>3. Unfinished' /\ ~Encoded' /\ transfer'.next > 0
        BY <1>4, <1>5, <1>17, <3>3
      <4>4. QED
        BY <1>1, <1>2, <1>5, <2>1, <2>2, <4>2, <4>3 DEF StreamFollowsTransfer
    <3>4. CASE ~ (transfer.next < Chunks)
      <4>1. AtEnd' = [AtEnd EXCEPT !.taking = 0, !.next = 0, !.done = transfer.id,
                                   !.map = transfer.serial, !.version = transfer.version,
                                   !.cells = transfer.cells]
        BY <1>8, <1>18, <3>1, <3>2, <3>4 DEF Reads
      <4>2. /\ AtEnd'.taking = 0 /\ AtEnd'.fine = AtEnd.fine /\ AtEnd'.done = transfer.id
            /\ AtEnd'.map = transfer.serial /\ AtEnd'.version = transfer.version
            /\ AtEnd'.cells = transfer.cells
        BY <1>18, <4>1 DEF ChildShape
      <4>3. ~Unfinished' /\ Encoded'
        BY <1>4, <1>17, <3>4
      <4>4. transfer.serial = serial => transfer.version <= version
        BY <1>1 DEF TransferAgrees
      <4>5. QED
        BY <1>1, <1>2, <1>4, <1>5, <2>1, <2>2, <4>2, <4>3, <4>4 DEF StreamFollowsTransfer
    <3>5. QED
      BY <3>3, <3>4
  <2>6. QED
    BY <2>4, <2>5
<1>20. Stream'
  <2> SUFFICES ASSUME worker = "alive" PROVE Stream'
    BY <1>1 DEF Stream
  <2>1. StreamFollowsTransfer /\ CompletedBefore /\ LeaseHasCause /\ FrameHasCause
    BY DEF Stream
  <2>2. CompletedBefore'
    <3>1. EndsTransfer(m) => m.id <= transfers /\ ~Unfinished'
      <4>1. CASE transfer.next = 0
        BY <1>9, <4>1 DEF EndsTransfer
      <4>2. CASE transfer.next # 0
        BY <1>4, <1>8, <1>10, <1>17, <4>2 DEF EndsTransfer
      <4>3. QED
        BY <4>1, <4>2
    <3>2. \A k \in ToSet(inbox) : EndsTransfer(k) => k.id <= transfers /\ k.id < transfer.id
      BY <1>16, <2>1 DEF CompletedBefore
    <3>3. child.done < transfer.id
      BY <1>16, <2>1 DEF CompletedBefore
    <3>4. QED
      BY <1>1, <1>5, <1>11, <3>1, <3>2, <3>3 DEF CompletedBefore, EndsTransfer
  <2>3. LeaseHasCause'
    <3>1. AtEnd.done \in Int /\ child.done \in Int /\ child.done < transfer.id
      BY <1>3, <1>16, <1>18, <2>1 DEF ChildType, ChildShape, Number, CompletedBefore
    <3>2. \A a : lease' = lease => (AnswersTransfer(a)' <=> AnswersTransfer(a))
      BY DEF AnswersTransfer
    <3>3. CASE transfer.next = 0
      <4>1. Unfinished' /\ lease' = transfer.id
        BY <1>1, <1>4, <1>17, <3>3
      <4>2. QED
        BY <1>1, <1>4, <1>5, <3>1, <4>1, SMTT(30) DEF LeaseHasCause
    <3>4. CASE transfer.next # 0
      <4>1. lease' = lease /\ lease \in Nat
        BY <1>1, <1>3, <3>4 DEF StatusType
      <4>2. SUFFICES ASSUME lease # 0 PROVE LeaseHasCause'
        BY <4>1 DEF LeaseHasCause
      <4>3. (Unfinished' /\ transfer'.id = lease) \/ AtEnd'.done >= lease
        <5>1. transfer.id = lease \/ AtEnd.done >= lease
          BY <2>1, <4>2 DEF LeaseHasCause
        <5>2. AtEnd.done < transfer.id
          BY <1>16, <2>1 DEF StreamFollowsTransfer
        <5>3. AtEnd'.done = AtEnd.done \/ (Encoded' /\ AtEnd'.done = transfer.id)
          BY <1>19
        <5>4. Unfinished' \/ (Encoded' /\ AtEnd'.done = transfer.id)
          <6>1. Encoded' => AtEnd'.done = transfer.id
            BY <1>1, <1>5, <1>19 DEF StreamFollowsTransfer
          <6>2. QED
            BY <1>17, <6>1
        <5>5. QED
          BY <1>4, <1>5, <3>1, <4>1, <5>1, <5>2, <5>3, <5>4
      <4>4. child.done >= lease =>
              (\E a \in ToSet(outbox) : AnswersTransfer(a)) \/ unheard.transfer >= lease
        BY <2>1, <4>2 DEF LeaseHasCause
      <4>5. QED
        BY <1>1, <3>2, <4>1, <4>3, <4>4 DEF LeaseHasCause
    <3>5. QED
      BY <3>3, <3>4
  <2>4. FrameHasCause'
    <3>1. FramesIn(inbox) \subseteq FramesIn(inbox')
      BY <1>11 DEF FramesIn
    <3>2. QED
      BY <1>1, <2>1, <3>1 DEF FrameHasCause, FrameIsOwed, AnswersFrame, FramesIn
  <2>5. QED
    BY <1>1, <1>19, <2>2, <2>3, <2>4 DEF Stream
<1>21. StreamEndsCanonical'
  <2>1. worker' = "alive" => AtEnd'.fine
    BY <1>20 DEF Stream, StreamFollowsTransfer
  <2>2. transfer' # NoTransfer' /\ transfer # NoTransfer
    BY <1>1, <1>7 DEF Sending
  <2>3. QED
    BY <1>1, <1>2, <1>5, <1>14, <2>1, <2>2 DEF StreamEndsCanonical, AtEnd
<1>22. FramesAreNumbered' /\ Ordered'
  <2>1. QueuesInOrder
    BY QueuesOf
  <2>2. QueuesInOrder'
    BY <1>1, <1>2, <1>8, <2>1, PutOrdered
  <2>3. QED
    BY <1>12, <2>2, QueuesNext
<1>23. QED
  BY <1>12, <1>13, <1>15, <1>20, <1>21, <1>22

\* What the snapshot holds need not be sent; the rest stays pending.
LEMMA FinishTransferInv == ASSUME IInv, FinishTransfer PROVE IInv'
<1> USE DEF IInv
<1> DEFINE held == {c \in Changed(transfer.captured) : pending[c] = transfer.captured[c]}
<1>1. /\ at = "snapshot" /\ Sending /\ transfer.next > Chunks /\ at' = "gate"
      /\ pending' = Without(pending, held)
      /\ required' = (Cardinality(Changed(pending')) >= Threshold)
      /\ sent' = transfer.serial /\ transfer' = NoTransfer
      /\ UNCHANGED <<gameVars, restart, worker, outbox, child, unheard, tallyVars>>
      /\ UNCHANGED <<serial, version, overlay, frames, statusVars, transfers, hand, inbox>>
  BY DEF FinishTransfer, OnlyBridge, Sending
<1>2. UNCHANGED <<terrain, topology, frameId, discarding, awaiting, lease>>
  BY <1>1 DEF gameVars, statusVars
<1>3. /\ GameType /\ TerrainType /\ FramesType /\ StatusType /\ BridgeType
      /\ HandType /\ ChildType /\ TallyType
  BY TypeParts
<1>4. /\ transfers \in Nat /\ transfer.serial \in Nat /\ serial \in Nat /\ transfer.cells \in Changes
      /\ pending \in Changes /\ transfer.captured \in Changes
  BY <1>3 DEF StatusType, BridgeType, TerrainType
<1>5. ASSUME NEW c \in Cells
      PROVE  \/ pending'[c] = pending[c]
             \/ pending'[c] = 0 /\ pending[c] # 0 /\ pending[c] = transfer.cells[c]
  <2>1. CASE c \in held
    <3>1. transfer.captured[c] # 0 => transfer.captured[c] = transfer.cells[c]
      BY <1>1 DEF TransferAgrees
    <3>2. QED
      BY <1>1, <2>1, <3>1 DEF Without, Changed
  <2>2. CASE c \notin held
    BY <1>1, <2>2 DEF Without
  <2>3. QED
    BY <2>1, <2>2
<1>6. pending' \in Changes
  BY <1>1, <1>4 DEF Without, Changes
<1> HIDE DEF held
<1>7. ~Sending' /\ transfer'.id = 0 /\ ~Unfinished' /\ ~Encoded'
  BY <1>1 DEF Sending, Unfinished, Encoded, NoTransfer
<1>8. TypeOK'
  <2>1. TerrainType'
    BY <1>1, <1>3, <1>6 DEF TerrainType
  <2>2. BridgeType'
    <3>1. NoTransfer \in [id : 0..transfers, serial : Nat, version : Nat, cells : Changes,
                          captured : Changes, next : 0..(Chunks + 1)]
      BY <1>4, BridgeAssumption DEF NoTransfer, NoChanges, Changes
    <3>2. transfer.serial \in Number
      BY <1>4 DEF Number
    <3>3. QED
      BY <1>1, <3>1, <3>2 DEF BridgeType
  <2>3. HandType'
    BY <1>1, <1>3 DEF HandType
  <2>5. UNCHANGED <<childVars, transfers>> /\ UNCHANGED <<statusVars, transfers>>
    BY <1>1 DEF childVars
  <2>6. QED
    BY <1>1, <1>3, <2>1, <2>2, <2>3, <2>5, TypeNext, GameKept, FramesKept, StatusKept,
       ChildKept, TallyKept
<1>9. TransferAgrees'
  BY <1>1, <1>7 DEF TransferAgrees
<1>10. hand = << >> /\ Delta0' = NoChanges /\ Delta0 = NoChanges /\ Authored' = Authored
  BY <1>1, <1>3 DEF HandType, Delta0, Authored
<1>11. OverlayIsExact'
  <2>1. \A c \in Cells : pending'[c] # 0 => pending'[c] = overlay[c]
    BY <1>5 DEF OverlayIsExact
  <2>2. QED
    BY <1>1, <1>2, <1>7, <1>10, <2>1 DEF OverlayIsExact, NoChanges
<1>12. AtEnd' = AtEnd
  BY <1>1, AtEndKept
<1>13. Encoded /\ ~Unfinished
  BY <1>1, <1>3, BridgeAssumption DEF Encoded, Unfinished, BridgeType
<1>14. Stream'
  <2> SUFFICES ASSUME worker = "alive" PROVE Stream'
    BY <1>1 DEF Stream
  <2>1. StreamFollowsTransfer /\ CompletedBefore /\ LeaseHasCause /\ FrameHasCause
    BY DEF Stream
  <2>2. StreamFollowsTransfer'
    BY <1>1, <1>7, <1>12, <1>13, <2>1 DEF StreamFollowsTransfer
  <2>3. CompletedBefore'
    BY <1>1, <1>7, <2>1 DEF CompletedBefore, EndsTransfer
  <2>4. LeaseHasCause'
    BY <1>1, <1>2, <1>7, <1>12, <1>13, <2>1 DEF LeaseHasCause, AnswersTransfer
  <2>5. FrameHasCause'
    BY <1>1, <1>2, <2>1 DEF FrameHasCause, FrameIsOwed, AnswersFrame
  <2>6. QED
    BY <2>2, <2>3, <2>4, <2>5 DEF Stream
<1>15. StreamEndsCanonical'
  <2> SUFFICES ASSUME worker = "alive" PROVE StreamEndsCanonical'
    BY <1>1 DEF StreamEndsCanonical
  <2>1. AtEnd.fine /\ AtEnd.map = transfer.serial /\ AtEnd.cells = transfer.cells
    BY <1>13 DEF Stream, StreamFollowsTransfer
  <2>2. ASSUME transfer.serial = serial
        PROVE  Over(Over(Over(Authored, transfer.cells), NoChanges), pending') = terrain
    <3>1. Over(Over(Authored, transfer.cells), pending) = terrain
      BY <1>1, <2>2 DEF OverlayIsExact
    <3>2. \A c \in Cells : Over(Over(Over(Authored, transfer.cells), NoChanges), pending')[c]
                             = Over(Over(Authored, transfer.cells), pending)[c]
      BY <1>5 DEF Over, NoChanges
    <3>3. QED
      BY <3>1, <3>2 DEF Over
  <2>3. QED
    BY <1>1, <1>2, <1>7, <1>10, <1>12, <2>1, <2>2 DEF StreamEndsCanonical, AtEnd, Sending
<1>16. FramesAreNumbered' /\ Ordered'
  BY <1>1, <1>2, FramesOrdered
<1>17. QED
  BY <1>8, <1>9, <1>11, <1>14, <1>15, <1>16

-----------------------------------------------------------------------------
(* Terrain.                                                                *)

\* With no transfer under way the stream is between two, in the map last sent.
LEMMA BetweenTransfers ==
  ASSUME IInv, ~Sending, worker = "alive"
  PROVE  /\ AtEnd.fine /\ AtEnd.taking = 0 /\ AtEnd.map = sent
         /\ ~Unfinished /\ ~Encoded
BY DEF IInv, Stream, StreamFollowsTransfer, Unfinished, Encoded

\* A change that is taken is in the bridge's hand instead of pending.
LEMMA TakeTerrainInv == ASSUME IInv, TakeTerrain PROVE IInv'
<1> USE DEF IInv
<1>1. at = "terrain" /\ hand = << >> /\ ~Sending
  BY DEF TakeTerrain, TypeOK, TransferAgrees
<1>2. CASE Goes("order")
  <2>1. /\ at' = "order"
        /\ UNCHANGED <<gameVars, restart, worker, outbox, child, unheard, tallyVars>>
        /\ UNCHANGED <<terrainVars, frames, statusVars, sent, transfer, transfers, hand, inbox>>
    BY <1>2 DEF Goes, OnlyBridge
  <2>2. UNCHANGED childVars
    BY <2>1 DEF childVars
  <2>3. QED
    BY <1>1, <2>1, <2>2, MovesInv
<1>3. CASE ~Goes("order")
  <2>1. PICK S \in SUBSET Changed(pending) :
          hand' = <<Delta(S)>> /\ pending' = Without(pending, S)
    BY <1>3 DEF TakeTerrain
  <2>2. /\ at' = "delta"
        /\ UNCHANGED <<gameVars, restart, worker, outbox, child, unheard, tallyVars>>
        /\ UNCHANGED <<serial, version, overlay, required, frames, statusVars, sent, transfer,
                       transfers, inbox>>
    BY <1>3 DEF TakeTerrain, OnlyBridge
  <2>3. UNCHANGED <<terrain, topology, frameId, discarding, awaiting, lease>>
    BY <2>2 DEF gameVars, statusVars
  <2>4. /\ GameType /\ TerrainType /\ FramesType /\ StatusType /\ BridgeType
        /\ HandType /\ ChildType /\ TallyType
    BY TypeParts
  <2>5. serial \in Nat /\ version \in Nat /\ pending \in Changes
    BY <2>4 DEF TerrainType
  <2> DEFINE taken == [c \in Cells |-> IF c \in S THEN pending[c] ELSE 0]
  <2>6. /\ hand'[1].kind = "delta" /\ hand'[1].map = serial /\ hand'[1].version = version
        /\ hand'[1].cells = taken /\ hand' # << >> /\ Len(hand') = 1
        /\ DOMAIN hand' = {1}
    BY <2>1 DEF Delta
  <2>7. taken \in Changes /\ pending' \in Changes
    BY <2>1, <2>5 DEF Without, Changes
  <2>8. Delta(S) \in DeltaShape
    BY <2>5, <2>7 DEF Delta, DeltaShape
  <2>9. \A c \in Cells : \/ taken[c] = pending[c] /\ pending'[c] = 0
                         \/ taken[c] = 0 /\ pending'[c] = pending[c]
    BY <2>1 DEF Without
  <2> HIDE DEF taken
  <2>10. TypeOK'
    <3>1. TerrainType'
      BY <2>2, <2>4, <2>7 DEF TerrainType
    <3>2. BridgeType'
      BY <2>2, <2>4 DEF BridgeType
    <3>3. HandType'
      BY <2>1, <2>2, <2>6, <2>8 DEF HandType
    <3>4. UNCHANGED childVars
      BY <2>2 DEF childVars
    <3>5. QED
      BY <2>2, <2>4, <3>1, <3>2, <3>3, <3>4, TypeNext, GameKept, FramesKept, StatusKept,
         ChildKept, TallyKept
  <2>11. TransferAgrees' /\ ~Sending'
    BY <1>1, <2>2 DEF TransferAgrees, Sending
  <2>12. Delta0 = NoChanges /\ Delta0' = taken /\ Authored' = Authored
    BY <1>1, <2>2, <2>6 DEF Delta0, Authored
  <2>13. OverlayIsExact'
    <3>1. \A c \in Cells : pending[c] # 0 => pending[c] = overlay[c]
      BY DEF OverlayIsExact
    <3>2. \A c \in Cells : pending'[c] # 0 => pending'[c] = overlay[c]
      BY <2>9, <3>1
    <3>3. \A c \in Cells : taken[c] # 0 /\ pending'[c] = 0 => taken[c] = overlay[c]
      BY <2>9, <3>1
    <3>4. hand'[1].map <= serial /\ hand'[1].version <= version
      BY <2>5, <2>6
    <3>5. QED
      BY <2>2, <2>3, <2>11, <2>12, <3>2, <3>3, <3>4 DEF OverlayIsExact
  <2>14. AtEnd' = AtEnd
    BY <2>2, AtEndKept
  <2>15. StreamEndsCanonical'
    <3> SUFFICES ASSUME worker = "alive" PROVE StreamEndsCanonical'
      BY <2>2 DEF StreamEndsCanonical
    <3>1. AtEnd.fine /\ AtEnd.map = sent
      BY <1>1, BetweenTransfers
    <3>2. ASSUME sent = serial
          PROVE  Over(Over(Over(Authored, AtEnd.cells), taken), pending') = terrain
      <4>1. Over(Over(Over(Authored, AtEnd.cells), NoChanges), pending) = terrain
        BY <1>1, <2>12, <3>2 DEF StreamEndsCanonical, AtEnd, Sending
      <4>2. \A c \in Cells : Over(Over(Over(Authored, AtEnd.cells), taken), pending')[c]
                               = Over(Over(Over(Authored, AtEnd.cells), NoChanges), pending)[c]
        BY <2>9 DEF Over, NoChanges
      <4>3. QED
        BY <4>1, <4>2 DEF Over
    <3>3. QED
      BY <2>2, <2>3, <2>11, <2>12, <2>14, <3>1, <3>2 DEF StreamEndsCanonical, AtEnd, Sending
  <2>16. Stream'
    <3> SUFFICES ASSUME worker = "alive" PROVE Stream'
      BY <2>2 DEF Stream
    <3>1. StreamFollowsTransfer /\ CompletedBefore /\ LeaseHasCause /\ FrameHasCause
      BY DEF Stream
    <3>2. StreamFollowsTransfer'
      <4>1. AtEnd.map = serial => AtEnd.version <= version
        BY <3>1 DEF StreamFollowsTransfer
      <4>2. QED
        BY <2>2, <2>6, <2>14, <3>1, <4>1 DEF StreamFollowsTransfer, Unfinished, Encoded, Sending
    <3>3. CompletedBefore'
      BY <2>2, <3>1 DEF CompletedBefore, EndsTransfer, Unfinished, Sending
    <3>4. LeaseHasCause'
      BY <2>2, <2>3, <2>14, <3>1 DEF LeaseHasCause, AnswersTransfer, Unfinished, Sending
    <3>5. FrameHasCause'
      BY <2>2, <2>3, <3>1 DEF FrameHasCause, FrameIsOwed, AnswersFrame
    <3>6. QED
      BY <3>2, <3>3, <3>4, <3>5 DEF Stream
  <2>17. FramesAreNumbered' /\ Ordered'
    <3>1. QueuesInOrder
      BY QueuesOf
    <3>2. Sorted(hand') /\ Known(hand') /\ Before(inbox, hand') /\ Before(hand', frames)
      BY <2>6 DEF Sorted, Known, Before, SameLife
    <3>3. QueuesInOrder'
      BY <2>2, <2>3, <3>1, <3>2 DEF QueuesInOrder, Sorted, Known, Before, Distinct
    <3>4. QED
      BY <2>10, <3>3, QueuesNext
  <2>18. QED
    BY <2>10, <2>11, <2>13, <2>15, <2>16, <2>17
<1>4. QED
  BY <1>2, <1>3

\* A delta reaches the pipe, or is pending again where nothing newer is.
LEMMA PutTerrainInv == ASSUME IInv, PutTerrain PROVE IInv'
<1> USE DEF IInv
<1>1. /\ at = "delta" /\ at' = "order" /\ ~Sending /\ hand' = << >>
      /\ inbox' = (IF Room THEN Append(inbox, hand[1]) ELSE inbox)
      /\ pending' = (IF Room \/ hand[1].map # serial THEN pending
                     ELSE Over(hand[1].cells, pending))
      /\ UNCHANGED <<gameVars, restart, worker, outbox, child, unheard, tallyVars>>
      /\ UNCHANGED <<serial, version, overlay, required, frames, statusVars, sent, transfer,
                     transfers>>
  BY DEF PutTerrain, OnlyBridge, TransferAgrees
<1>2. UNCHANGED <<terrain, topology, frameId, discarding, awaiting, lease>>
  BY <1>1 DEF gameVars, statusVars
<1>3. /\ GameType /\ TerrainType /\ FramesType /\ StatusType /\ BridgeType
      /\ HandType /\ ChildType /\ TallyType
  BY TypeParts
<1>4. PICK m \in DeltaShape : m = hand[1]
  BY <1>1, <1>3, DeltaInHand
<1>5. /\ m \in RecordShape /\ m.kind = "delta" /\ m.map \in Nat /\ m.version \in Nat
      /\ m.cells \in Changes
  BY DEF DeltaShape, RecordShape
<1>6. pending \in Changes /\ serial \in Nat /\ version \in Nat
  BY <1>3 DEF TerrainType
<1>7. pending' \in Changes
  BY <1>1, <1>4, <1>5, <1>6 DEF Over, Changes
<1>8. ~Sending' /\ TransferAgrees'
  BY <1>1 DEF TransferAgrees, Sending
<1>9. hand # << >>
  <2>1. Len(hand) = 1
    BY <1>1, <1>3 DEF HandType
  <2>2. Len(<< >>) = 0
    OBVIOUS
  <2>3. QED
    BY <2>1, <2>2
<1>10. /\ Delta0 = (IF m.map = serial THEN m.cells ELSE NoChanges)
       /\ Delta0' = NoChanges /\ Authored' = Authored
  BY <1>1, <1>4, <1>5, <1>9 DEF Delta0, Authored
\* Over a full pipe the changes of this map are merged back.
<1>11. ASSUME ~Room
       PROVE  \A c \in Cells : pending'[c] = IF pending[c] # 0 THEN pending[c] ELSE Delta0[c]
  BY <1>1, <1>4, <1>6, <1>10, <1>11 DEF Over, NoChanges, Changes
<1>12. Room => pending' = pending
  BY <1>1
<1>13. inbox \in Seq(RecordShape) /\ Len(inbox) <= InLimit
  BY <1>3 DEF ChildType
<1>14. inbox' \in Seq(RecordShape) /\ Len(inbox') <= InLimit
  <2>1. Room => Len(Append(inbox, m)) = Len(inbox) + 1 /\ Append(inbox, m) \in Seq(RecordShape)
    BY <1>5, <1>13
  <2>2. InLimit \in Nat /\ Len(inbox) \in Nat
    BY <1>13, BridgeAssumption
  <2>3. QED
    BY <1>1, <1>4, <1>13, <2>1, <2>2 DEF Room
<1>15. TypeOK'
  <2>1. TerrainType'
    BY <1>1, <1>3, <1>7 DEF TerrainType
  <2>2. BridgeType'
    BY <1>1, <1>3 DEF BridgeType
  <2>3. HandType'
    BY <1>1 DEF HandType
  <2>4. ChildType'
    BY <1>1, <1>3, <1>14 DEF ChildType
  <2>5. QED
    BY <1>1, <1>3, <2>1, <2>2, <2>3, <2>4, TypeNext, GameKept, FramesKept, StatusKept,
       TallyKept
<1>16. OverlayIsExact'
  <2>1. /\ \A c \in Cells : pending[c] # 0 => pending[c] = overlay[c]
        /\ \A c \in Cells : Delta0[c] # 0 /\ pending[c] = 0 => Delta0[c] = overlay[c]
    BY DEF OverlayIsExact
  <2>2. \A c \in Cells : pending'[c] # 0 => pending'[c] = overlay[c]
    BY <1>11, <1>12, <2>1
  <2>3. QED
    BY <1>1, <1>2, <1>8, <1>10, <2>2 DEF OverlayIsExact, NoChanges
\* The child takes a delta of its map on top of what it has.
<1>17. ASSUME worker = "alive", Room
       PROVE  AtEnd' = IF m.map # AtEnd.map THEN AtEnd
                       ELSE [AtEnd EXCEPT !.version = m.version, !.cells = Over(@, m.cells)]
  <2>1. AtEnd' = Reads(AtEnd, m)
    BY <1>1, <1>4, <1>5, <1>17, AtEndAppended
  <2>2. AtEnd.taking = 0
    BY <1>1, <1>17, BetweenTransfers
  <2>3. AtEnd.version \in Int
    BY AtEndType DEF ChildShape, Number
  <2>4. m.map = AtEnd.map => ~ (m.version < AtEnd.version)
    BY <1>1, <1>4, <1>5, <1>17, <2>3 DEF Stream, StreamFollowsTransfer
  <2>5. QED
    BY <1>5, <2>1, <2>2, <2>4 DEF Reads
<1>18. ~Room => AtEnd' = AtEnd
  BY <1>1, AtEndKept
<1>19. AtEnd \in ChildShape
  BY AtEndType
<1>20. ASSUME worker = "alive"
       PROVE  /\ AtEnd'.fine = AtEnd.fine /\ AtEnd'.taking = AtEnd.taking
              /\ AtEnd'.next = AtEnd.next /\ AtEnd'.done = AtEnd.done /\ AtEnd'.map = AtEnd.map
              /\ \/ AtEnd'.version = AtEnd.version
                 \/ AtEnd'.version = m.version /\ m.map = AtEnd.map
              /\ AtEnd'.cells = IF Room /\ m.map = AtEnd.map THEN Over(AtEnd.cells, m.cells)
                                ELSE AtEnd.cells
  <2>1. CASE Room /\ m.map = AtEnd.map
    <3>1. AtEnd' = [AtEnd EXCEPT !.version = m.version, !.cells = Over(@, m.cells)]
      BY <1>17, <1>20, <2>1
    <3>2. QED
      BY <1>19, <2>1, <3>1 DEF ChildShape
  <2>2. CASE ~ (Room /\ m.map = AtEnd.map)
    <3>1. AtEnd' = AtEnd
      BY <1>17, <1>18, <1>20, <2>2
    <3>2. QED
      BY <2>2, <3>1
  <2>3. QED
    BY <2>1, <2>2
<1>21. StreamEndsCanonical'
  <2> SUFFICES ASSUME worker = "alive" PROVE StreamEndsCanonical'
    BY <1>1 DEF StreamEndsCanonical
  <2>1. AtEnd.fine /\ AtEnd.map = sent
    BY <1>1, BetweenTransfers
  <2>2. ASSUME sent = serial
        PROVE  Over(Over(Over(Authored, AtEnd'.cells), NoChanges), pending') = terrain
    <3>1. Over(Over(Over(Authored, AtEnd.cells), Delta0), pending) = terrain
      BY <1>1, <2>2 DEF StreamEndsCanonical, AtEnd, Sending
    <3>2. \A c \in Cells : Over(Over(Over(Authored, AtEnd'.cells), NoChanges), pending')[c]
                             = Over(Over(Over(Authored, AtEnd.cells), Delta0), pending)[c]
      <4>1. CASE Room
        <5>1. pending' = pending
          BY <1>12, <4>1
        <5>2. CASE m.map = serial
          <6>1. AtEnd'.cells = Over(AtEnd.cells, Delta0)
            BY <1>10, <1>20, <2>1, <2>2, <4>1, <5>2
          <6>2. QED
            BY <5>1, <6>1 DEF Over, NoChanges
        <5>3. CASE m.map # serial
          <6>1. AtEnd'.cells = AtEnd.cells /\ Delta0 = NoChanges
            BY <1>10, <1>20, <2>1, <2>2, <5>3
          <6>2. QED
            BY <5>1, <6>1
        <5>4. QED
          BY <5>2, <5>3
      <4>2. CASE ~Room
        <5>1. AtEnd'.cells = AtEnd.cells
          BY <1>20, <4>2
        <5>2. QED
          BY <1>11, <4>2, <5>1 DEF Over, NoChanges
      <4>3. QED
        BY <4>1, <4>2
    <3>3. Over(Over(Over(Authored, AtEnd'.cells), NoChanges), pending')
            = Over(Over(Over(Authored, AtEnd.cells), Delta0), pending)
      BY <3>2 DEF Over
    <3>4. QED
      BY <3>1, <3>3
  <2>3. AtEnd'.fine /\ AtEnd'.map = sent
    BY <1>20, <2>1
  <2>4. QED
    BY <1>1, <1>2, <1>8, <1>10, <2>2, <2>3 DEF StreamEndsCanonical, AtEnd, Sending
<1>22. Stream'
  <2> SUFFICES ASSUME worker = "alive" PROVE Stream'
    BY <1>1 DEF Stream
  <2>1. StreamFollowsTransfer /\ CompletedBefore /\ LeaseHasCause /\ FrameHasCause
    BY DEF Stream
  <2>2. ToSet(inbox') \subseteq ToSet(inbox) \cup {m}
    <3>1. ToSet(Append(inbox, m)) = ToSet(inbox) \cup {m}
      BY <1>5, <1>13, AppendedIsOrdered
    <3>2. QED
      BY <1>1, <1>4, <3>1
  <2>3. StreamFollowsTransfer'
    <3>1. AtEnd.map = serial => AtEnd.version <= version
      BY <2>1 DEF StreamFollowsTransfer
    <3>2. m.map = serial => m.version <= version
      BY <1>1, <1>4 DEF OverlayIsExact
    <3>3. AtEnd'.map = serial => AtEnd'.version <= version
      BY <1>20, <3>1, <3>2
    <3>4. QED
      BY <1>1, <1>20, <2>1, <3>3 DEF StreamFollowsTransfer, Unfinished, Encoded, Sending
  <2>4. CompletedBefore'
    BY <1>1, <1>5, <2>1, <2>2 DEF CompletedBefore, EndsTransfer, Unfinished, Sending
  <2>5. LeaseHasCause'
    BY <1>1, <1>2, <1>20, <2>1 DEF LeaseHasCause, AnswersTransfer, Unfinished, Sending
  <2>6. FrameHasCause'
    <3>1. FramesIn(inbox) \subseteq FramesIn(inbox')
      <4>1. ToSet(Append(inbox, m)) = ToSet(inbox) \cup {m}
        BY <1>5, <1>13, AppendedIsOrdered
      <4>2. QED
        BY <1>1, <1>4, <4>1 DEF FramesIn
    <3>2. QED
      BY <1>1, <1>2, <2>1, <3>1 DEF FrameHasCause, FrameIsOwed, AnswersFrame, FramesIn
  <2>7. QED
    BY <2>3, <2>4, <2>5, <2>6 DEF Stream
<1>23. FramesAreNumbered' /\ Ordered'
  <2>1. QueuesInOrder
    BY QueuesOf
  <2>2. CASE Room
    <3>1. QueuesInOrder'
      BY <1>1, <1>2, <1>4, <1>5, <2>1, <2>2, PutOrdered
    <3>2. QED
      BY <1>15, <3>1, QueuesNext
  <2>3. CASE ~Room
    <3>1. Sorted(<< >>) /\ Before(inbox, << >>) /\ Before(<< >>, frames) /\ Known(<< >>)
      BY DEF Sorted, Before, Known
    <3>2. QueuesInOrder'
      BY <1>1, <1>2, <2>1, <2>3, <3>1 DEF QueuesInOrder, Sorted, Before, Known, Distinct
    <3>3. QED
      BY <1>15, <3>2, QueuesNext
  <2>4. QED
    BY <2>2, <2>3
<1>24. QED
  BY <1>8, <1>15, <1>16, <1>21, <1>22, <1>23

-----------------------------------------------------------------------------
(* Frames.                                                                 *)

\* The bridge moves frames; terrain, transfer and what the child was told stay.
LEMMA FramesMoveInv ==
  ASSUME IInv, TypeOK', QueuesInOrder', ~Sending, Delta0 = NoChanges, Delta0' = NoChanges,
         at' # "delta",
         UNCHANGED <<gameVars, terrainVars, restart, worker, outbox, child, unheard, tallyVars>>,
         UNCHANGED <<sent, transfer, transfers, lease>>,
         worker = "alive" => AtEnd' = AtEnd,
         worker = "alive" => FrameHasCause',
         \A m \in ToSet(inbox') : EndsTransfer(m) => m \in ToSet(inbox)
  PROVE  IInv'
<1> USE DEF IInv
<1>1. /\ UNCHANGED <<terrain, topology, frameId, discarding>>
      /\ UNCHANGED <<serial, version, pending, overlay, required>>
  BY DEF gameVars, terrainVars
<1>2. TransferAgrees' /\ ~Sending'
  BY <1>1 DEF TransferAgrees, Sending
<1>3. Authored' = Authored
  BY DEF Authored
<1>4. OverlayIsExact'
  BY <1>1, <1>2, <1>3 DEF OverlayIsExact
<1>5. StreamEndsCanonical'
  BY <1>1, <1>3 DEF StreamEndsCanonical, AtEnd
<1>6. Stream'
  <2> SUFFICES ASSUME worker = "alive" PROVE Stream'
    BY DEF Stream
  <2>1. StreamFollowsTransfer /\ CompletedBefore /\ LeaseHasCause
    BY DEF Stream
  <2>2. StreamFollowsTransfer'
    BY <1>1, <2>1 DEF StreamFollowsTransfer, Unfinished, Encoded, Sending
  <2>3. CompletedBefore'
    BY <2>1 DEF CompletedBefore, EndsTransfer, Unfinished, Sending
  <2>4. LeaseHasCause'
    BY <2>1 DEF LeaseHasCause, AnswersTransfer, Unfinished, Sending
  <2>5. QED
    BY <2>2, <2>3, <2>4 DEF Stream
<1>7. FramesAreNumbered' /\ Ordered'
  BY QueuesNext
<1>8. QED
  BY <1>2, <1>4, <1>5, <1>6, <1>7

\* A clock that runs on while nothing is taken from the pipes has its cause.
LEMMA CauseKept ==
  ASSUME FrameHasCause, awaiting' = awaiting, UNCHANGED <<inbox, outbox, unheard>>
  PROVE  FrameHasCause'
BY DEF FrameHasCause, FrameIsOwed, AnswersFrame

LEMMA NoDeltaNext == ASSUME HandType', at' # "delta" PROVE Delta0' = NoChanges
<1>1. hand' \in Seq(FrameShape)
  BY DEF HandType
<1>2. hand' # << >> => hand'[1] \in FrameShape
  BY <1>1
<1>3. NoChanges' = NoChanges
  BY DEF NoChanges
<1>4. QED
  BY <1>2, <1>3 DEF Delta0, FrameShape

LEMMA TakeFramesInv == ASSUME IInv, TakeFrames PROVE IInv'
<1> USE DEF IInv
<1> DEFINE n == IF Len(frames) < FrameBatch THEN Len(frames) ELSE FrameBatch
           front == SubSeq(frames, 1, n)
           back == SubSeq(frames, n + 1, Len(frames))
<1>1. /\ at = "frames" /\ ~Sending
      /\ hand' = front /\ frames' = back
      /\ at' = (IF frames = << >> THEN "receive" ELSE "put")
      /\ UNCHANGED <<gameVars, restart, worker, outbox, child, unheard, tallyVars>>
      /\ UNCHANGED <<terrainVars, statusVars, sent, transfer, transfers, inbox>>
  BY DEF TakeFrames, OnlyBridge, TransferAgrees
<1>2. UNCHANGED <<frameId, awaiting, lease>>
  BY <1>1 DEF gameVars, statusVars
<1>3. /\ GameType /\ TerrainType /\ FramesType /\ StatusType /\ BridgeType
      /\ HandType /\ ChildType /\ TallyType
  BY TypeParts
<1>4. frames \in Seq(FrameShape) /\ Distinct(frames) /\ Len(frames) \in Nat
  BY <1>3 DEF FramesType, Distinct
<1>5. n \in 0..Len(frames)
  BY <1>4, BridgeAssumption
<1> HIDE DEF n
<1>6. /\ front \in Seq(FrameShape) /\ PartOf(front, frames) /\ Len(front) = n
      /\ \A k \in 1..n : front[k] = frames[k]
  BY <1>4, <1>5, BeginningIsPart
<1>7. /\ back \in Seq(FrameShape) /\ PartOf(back, frames) /\ Len(back) = Len(frames) - n
      /\ \A k \in 1..(Len(frames) - n) : back[k] = frames[n + k]
  BY <1>4, <1>5, EndIsPart
<1>8. QueuesInOrder
  BY QueuesOf
<1> HIDE DEF front, back
<1>9. /\ Sorted(frames) /\ Known(frames) /\ Before(inbox, frames)
      /\ Sorted(inbox) /\ Known(inbox)
  BY <1>8 DEF QueuesInOrder
<1>10. Sorted(front) /\ Distinct(front) /\ Known(front) /\ Before(inbox, front)
  BY <1>4, <1>6, <1>9, PartKeeps
<1>11. Sorted(back) /\ Distinct(back) /\ Known(back) /\ Before(inbox, back)
  BY <1>4, <1>7, <1>9, PartKeeps
<1>12. Before(front, back)
  <2> SUFFICES ASSUME NEW i \in DOMAIN front, NEW j \in DOMAIN back, SameLife(front[i], back[j])
               PROVE  front[i].id < back[j].id
    BY DEF Before
  <2>1. i \in 1..n /\ j \in 1..(Len(frames) - n)
    BY <1>6, <1>7
  <2>2. /\ i \in DOMAIN frames /\ n + j \in DOMAIN frames /\ i < n + j
        /\ front[i] = frames[i] /\ back[j] = frames[n + j]
    <3>1. PICK l \in Nat : l = Len(frames)
      BY <1>4
    <3>2. n \in 0..l /\ i \in 1..n /\ j \in 1..(l - n) /\ DOMAIN frames = 1..l
      BY <1>4, <1>5, <2>1, <3>1
    <3>3. i \in 1..l /\ n + j \in 1..l /\ i < n + j
      BY <3>2
    <3>4. QED
      BY <1>6, <1>7, <2>1, <3>2, <3>3
  <2>3. QED
    BY <1>9, <2>2 DEF Sorted
<1>13. TypeOK'
  <2>1. FramesType'
    BY <1>1, <1>7, <1>11 DEF FramesType, Distinct
  <2>2. BridgeType'
    BY <1>1, <1>3 DEF BridgeType
  <2>3. HandType'
    <3>1. CASE frames = << >>
      <4>1. n = 0
        BY <1>5, <3>1
      <4>2. front = << >>
        BY <1>6, <4>1
      <4>3. QED
        BY <1>1, <3>1, <4>2 DEF HandType
    <3>2. CASE frames # << >>
      BY <1>1, <1>6, <3>2 DEF HandType
    <3>3. QED
      BY <3>1, <3>2
  <2>4. UNCHANGED childVars
    BY <1>1 DEF childVars
  <2>5. QED
    BY <1>1, <1>3, <2>1, <2>2, <2>3, <2>4, TypeNext, GameKept, TerrainKept, StatusKept,
       ChildKept, TallyKept
<1>14. QueuesInOrder'
  <2>1. Sorted(hand') /\ Known(hand') /\ Distinct(hand') /\ Before(inbox, hand')
    BY <1>1, <1>10
  <2>2. Sorted(frames') /\ Known(frames') /\ Before(inbox, frames') /\ Before(hand', frames')
    BY <1>1, <1>11, <1>12
  <2>3. QED
    BY <1>1, <1>2, <1>9, <2>1, <2>2 DEF QueuesInOrder, Sorted, Known, Before, Distinct
<1>15. Delta0 = NoChanges /\ Delta0' = NoChanges
  <2>1. HandType' /\ at' # "delta" /\ at # "delta"
    BY <1>1, <1>13 DEF HandType, TypeOK
  <2>2. QED
    BY <1>3, <2>1, NoDelta, NoDeltaNext
<1>16. AtEnd' = AtEnd
  BY <1>1, AtEndKept
<1>17. worker = "alive" => FrameHasCause'
  BY <1>1, <1>2, CauseKept DEF Stream
<1>18. QED
  <2>1. at' # "delta" /\ inbox' = inbox
    BY <1>1
  <2>2. QED
    BY <1>1, <1>2, <1>13, <1>14, <1>15, <1>16, <1>17, <2>1, FramesMoveInv

LEMMA PutFrameInv == ASSUME IInv, PutFrame PROVE IInv'
<1> USE DEF IInv
<1> DEFINE m == Head(hand)
           left == Tail(hand)
<1>1. /\ at = "put" /\ ~Sending /\ hand # << >> /\ Len(inbox) < InLimit
      /\ inbox' = Append(inbox, m) /\ hand' = left
      /\ awaiting' = (IF awaiting = NoFrame THEN m.id ELSE awaiting)
      /\ UNCHANGED <<gameVars, restart, worker, outbox, child, unheard, tallyVars>>
      /\ UNCHANGED <<terrainVars, frames, lease, at, sent, transfer, transfers>>
  BY DEF PutFrame, OnlyBridge, TransferAgrees, Room
<1>2. frameId' = frameId
  BY <1>1 DEF gameVars
<1>3. /\ GameType /\ TerrainType /\ FramesType /\ StatusType /\ BridgeType
      /\ HandType /\ ChildType /\ TallyType
  BY TypeParts
<1>4. hand \in Seq(FrameShape) /\ inbox \in Seq(RecordShape) /\ frames \in Seq(FrameShape)
  BY <1>1, <1>3 DEF HandType, ChildType, FramesType
<1>5. /\ m \in FrameShape /\ m = hand[1] /\ 1 \in DOMAIN hand /\ Len(hand) \in Nat /\ Len(hand) >= 1
      /\ left = SubSeq(hand, 1 + 1, Len(hand))
  BY <1>1, <1>4
<1>6. 1 \in 0..Len(hand)
  BY <1>5
<1>7. /\ left \in Seq(FrameShape) /\ PartOf(left, hand)
      /\ Len(left) = Len(hand) - 1 /\ \A k \in 1..(Len(hand) - 1) : left[k] = hand[1 + k]
  <2> DEFINE rest == SubSeq(hand, 1 + 1, Len(hand))
  <2>1. /\ rest \in Seq(FrameShape) /\ PartOf(rest, hand)
        /\ Len(rest) = Len(hand) - 1 /\ \A k \in 1..(Len(hand) - 1) : rest[k] = hand[1 + k]
    BY <1>4, <1>6, EndIsPart
  <2>2. left = rest
    BY <1>5
  <2> HIDE DEF rest, left
  <2>3. QED
    BY <2>1, <2>2
<1> HIDE DEF left, m
<1>8. QueuesInOrder
  BY QueuesOf
<1>9. /\ Sorted(inbox) /\ Sorted(hand) /\ Sorted(frames)
      /\ Before(inbox, hand) /\ Before(inbox, frames) /\ Before(hand, frames)
      /\ Known(inbox) /\ Known(hand) /\ Known(frames) /\ Distinct(hand)
  BY <1>1, <1>8 DEF QueuesInOrder
<1>10. /\ Sorted(left) /\ Distinct(left) /\ Known(left)
       /\ Before(inbox, left) /\ Before(left, frames)
  BY <1>4, <1>7, <1>9, PartKeeps
<1>11. m \in RecordShape /\ m.kind = "frame" /\ m.id \in Nat /\ m.id <= frameId
  BY <1>5, <1>9 DEF RecordShape, FrameShape, Known
<1>12. \A i \in DOMAIN inbox : SameLife(inbox[i], m) => inbox[i].id < m.id
  BY <1>5, <1>9 DEF Before
<1>13. \A j \in DOMAIN frames : SameLife(m, frames[j]) => m.id < frames[j].id
  BY <1>5, <1>9 DEF Before
<1>14. \A j \in DOMAIN left : SameLife(m, left[j]) => m.id < left[j].id
  <2> SUFFICES ASSUME NEW j \in DOMAIN left, SameLife(m, left[j]) PROVE m.id < left[j].id
    OBVIOUS
  <2>1. j \in 1..(Len(hand) - 1)
    BY <1>7
  <2>2. 1 + j \in DOMAIN hand /\ 1 < 1 + j /\ left[j] = hand[1 + j]
    BY <1>4, <1>5, <1>7, <2>1
  <2>3. QED
    BY <1>5, <1>9, <2>2 DEF Sorted
<1> DEFINE longer == Append(inbox, m)
<1>15. /\ longer \in Seq(RecordShape) /\ Len(longer) = Len(inbox) + 1
       /\ ToSet(longer) = ToSet(inbox) \cup {m}
       /\ Sorted(longer) /\ Known(longer)
       /\ Before(longer, frames) /\ Before(longer, left)
  BY <1>4, <1>9, <1>10, <1>11, <1>12, <1>13, <1>14, AppendedIsOrdered
<1>16. inbox' = longer
  BY <1>1
<1> HIDE DEF longer
<1>17. TypeOK'
  <2>1. StatusType'
    BY <1>1, <1>3, <1>11 DEF StatusType
  <2>2. HandType'
    BY <1>1, <1>7 DEF HandType
  <2>3. ChildType'
    <3>1. Len(longer) <= InLimit
      <4>1. Len(inbox) \in Nat /\ InLimit \in Nat
        BY <1>4, BridgeAssumption
      <4>2. QED
        BY <1>1, <1>15, <4>1
    <3>2. QED
      BY <1>1, <1>3, <1>15, <1>16, <3>1 DEF ChildType
  <2>4. QED
    BY <1>1, <1>3, <2>1, <2>2, <2>3, TypeNext, GameKept, TerrainKept, FramesKept, TransferKept,
       TallyKept
<1>18. QueuesInOrder'
  <2>1. Sorted(hand') /\ Known(hand') /\ Distinct(hand') /\ Before(longer, hand')
        /\ Before(hand', frames)
    BY <1>1, <1>10, <1>15
  <2>2. QED
    BY <1>1, <1>2, <1>9, <1>15, <1>16, <2>1 DEF QueuesInOrder, Sorted, Known, Before, Distinct
<1>19. Delta0 = NoChanges /\ Delta0' = NoChanges
  <2>1. HandType' /\ at' # "delta" /\ at # "delta"
    BY <1>1, <1>17 DEF HandType, TypeOK
  <2>2. QED
    BY <1>3, <2>1, NoDelta, NoDeltaNext
<1>20. ASSUME worker = "alive" PROVE AtEnd' = AtEnd
  <2>1. AtEnd' = Reads(AtEnd, m)
    BY <1>1, <1>11, AtEndAppended
  <2>2. AtEnd.taking = 0
    BY <1>1, <1>20, BetweenTransfers
  <2>3. QED
    BY <1>11, <2>1, <2>2 DEF Reads
<1>21. ASSUME worker = "alive" PROVE FrameHasCause'
  <2>1. m \in FramesIn(inbox') /\ FramesIn(inbox) \subseteq FramesIn(inbox')
    BY <1>11, <1>15, <1>16 DEF FramesIn
  <2>2. CASE awaiting = NoFrame
    <3>1. awaiting' = m.id /\ m.id >= m.id
      BY <1>1, <1>11, <2>2
    <3>2. QED
      BY <2>1, <3>1 DEF FrameHasCause, FrameIsOwed, FramesIn
  <2>3. CASE awaiting # NoFrame
    <3>1. awaiting' = awaiting /\ FrameHasCause
      BY <1>1, <1>21, <2>3 DEF Stream
    <3>2. QED
      BY <1>1, <2>1, <3>1 DEF FrameHasCause, FrameIsOwed, AnswersFrame, FramesIn
  <2>4. QED
    BY <2>2, <2>3
<1>22. QED
  <2>1. at' # "delta"
    BY <1>1
  <2>2. \A k \in ToSet(inbox') : EndsTransfer(k) => k \in ToSet(inbox)
    BY <1>11, <1>15, <1>16 DEF EndsTransfer
  <2>3. QED
    BY <1>1, <1>17, <1>18, <1>19, <1>20, <1>21, <2>1, <2>2, FramesMoveInv

\* What is put back is of other lives than what came since.
LEMMA EndFramesInv == ASSUME IInv, EndFrames PROVE IInv'
<1> USE DEF IInv
<1> DEFINE S == {k \in DOMAIN hand : \A f \in ToSet(frames) : f.bot # hand[k].bot}
<1>1. /\ at = "put" /\ ~Sending /\ frames' \in PutBack(hand, frames)
      /\ hand' = << >> /\ at' = "receive"
      /\ UNCHANGED <<gameVars, restart, worker, outbox, child, unheard, tallyVars>>
      /\ UNCHANGED <<terrainVars, statusVars, sent, transfer, transfers, inbox>>
  BY DEF EndFrames, OnlyBridge, TransferAgrees
<1>2. PICK order \in InOrder(S) : frames' = frames \o Picked(hand, order)
  BY <1>1 DEF PutBack
<1>3. /\ GameType /\ TerrainType /\ FramesType /\ StatusType /\ BridgeType
      /\ HandType /\ ChildType /\ TallyType
  BY TypeParts
<1>4. hand \in Seq(FrameShape) /\ frames \in Seq(FrameShape) /\ Distinct(frames)
  BY <1>1, <1>3 DEF HandType, FramesType, Distinct
<1>5. S \in SUBSET DOMAIN hand /\ \A j \in S : \A k \in DOMAIN frames : frames[k].bot # hand[j].bot
  BY DEF ToSet
<1> HIDE DEF S
<1> DEFINE back == Picked(hand, order)
<1>6. /\ back \in Seq(FrameShape) /\ PartOf(back, hand)
      /\ \A k \in DOMAIN back : \E j \in S : back[k] = hand[j]
  BY <1>4, <1>5, PickedIsPart
<1>7. frames' = frames \o back
  BY <1>2
<1> HIDE DEF back
<1>8. QueuesInOrder
  BY QueuesOf
<1>9. /\ Sorted(inbox) /\ Sorted(hand) /\ Sorted(frames)
      /\ Before(inbox, hand) /\ Before(inbox, frames)
      /\ Known(inbox) /\ Known(hand) /\ Known(frames) /\ Distinct(hand)
  BY <1>1, <1>8 DEF QueuesInOrder
<1>10. Sorted(back) /\ Distinct(back) /\ Known(back) /\ Before(inbox, back)
  BY <1>4, <1>6, <1>9, PartKeeps
<1>11. \A i \in DOMAIN frames, k \in DOMAIN back : frames[i].bot # back[k].bot
  BY <1>5, <1>6
<1>12. Before(frames, back)
  BY <1>11 DEF Before, SameLife
<1>13. Sorted(frames \o back)
  BY <1>4, <1>6, <1>9, <1>10, <1>12, SortedRow
<1>14. /\ frames \o back \in Seq(FrameShape)
       /\ DOMAIN (frames \o back) = 1..(Len(frames) + Len(back))
       /\ \A k \in 1..Len(frames) : (frames \o back)[k] = frames[k]
       /\ \A k \in 1..Len(back) : (frames \o back)[Len(frames) + k] = back[k]
       /\ Len(frames) \in Nat /\ Len(back) \in Nat
       /\ DOMAIN frames = 1..Len(frames) /\ DOMAIN back = 1..Len(back)
  BY <1>4, <1>6
<1>15. ASSUME NEW k \in DOMAIN (frames \o back)
       PROVE  \/ k \in DOMAIN frames /\ (frames \o back)[k] = frames[k]
              \/ \E j \in DOMAIN back : k = Len(frames) + j /\ (frames \o back)[k] = back[j]
  <2>1. CASE k \in DOMAIN frames
    BY <1>14, <2>1
  <2>2. CASE k \notin DOMAIN frames
    <3>1. k - Len(frames) \in DOMAIN back /\ k = Len(frames) + (k - Len(frames))
      BY <1>14, <2>2
    <3>2. QED
      BY <1>14, <3>1
  <2>3. QED
    BY <2>1, <2>2
<1> DEFINE all == frames \o back
<1>16. all = frames \o back
  OBVIOUS
<1> HIDE DEF all
<1>17. Distinct(all)
  <2> SUFFICES ASSUME NEW j \in DOMAIN all, NEW k \in DOMAIN all, all[j].bot = all[k].bot
               PROVE  j = k
    BY DEF Distinct
  <2>1. CASE j \in DOMAIN frames /\ all[j] = frames[j]
    BY <1>4, <1>11, <1>15, <1>16, <2>1 DEF Distinct
  <2>2. CASE \E i \in DOMAIN back : j = Len(frames) + i /\ all[j] = back[i]
    BY <1>10, <1>11, <1>15, <1>16, <2>2 DEF Distinct
  <2>3. QED
    BY <1>15, <1>16, <2>1, <2>2
<1>18. Known(all) /\ Before(inbox, all)
  BY <1>9, <1>10, <1>15, <1>16 DEF Known, Before
<1>19. frames' = all /\ all \in Seq(FrameShape) /\ Sorted(all)
  BY <1>7, <1>13, <1>14, <1>16
<1>20. UNCHANGED <<frameId, awaiting, lease>>
  BY <1>1 DEF gameVars, statusVars
<1>21. TypeOK'
  <2>1. FramesType'
    BY <1>17, <1>19 DEF FramesType, Distinct
  <2>2. BridgeType'
    BY <1>1, <1>3 DEF BridgeType
  <2>3. HandType'
    BY <1>1 DEF HandType
  <2>4. UNCHANGED childVars
    BY <1>1 DEF childVars
  <2>5. QED
    BY <1>1, <1>3, <2>1, <2>2, <2>3, <2>4, TypeNext, GameKept, TerrainKept, StatusKept,
       ChildKept, TallyKept
<1>22. QueuesInOrder'
  <2>1. /\ Sorted(<< >>) /\ Before(inbox, << >>) /\ Before(<< >>, all) /\ Known(<< >>)
    BY DEF Sorted, Before, Known
  <2>2. QED
    BY <1>1, <1>9, <1>18, <1>19, <1>20, <2>1 DEF QueuesInOrder, Sorted, Known, Before, Distinct
<1>23. Delta0 = NoChanges /\ Delta0' = NoChanges
  <2>1. HandType' /\ at' # "delta" /\ at # "delta"
    BY <1>1, <1>21 DEF HandType, TypeOK
  <2>2. QED
    BY <1>3, <2>1, NoDelta, NoDeltaNext
<1>24. AtEnd' = AtEnd
  BY <1>1, AtEndKept
<1>25. worker = "alive" => FrameHasCause'
  BY <1>1, <1>20, CauseKept DEF Stream
<1>26. QED
  <2>1. at' # "delta" /\ inbox' = inbox
    BY <1>1
  <2>2. QED
    BY <1>1, <1>20, <1>21, <1>22, <1>23, <1>24, <1>25, <2>1, FramesMoveInv

-----------------------------------------------------------------------------
(* The theorems.                                                           *)

LEMMA InitInv == ASSUME Init PROVE IInv
<1> USE DEF Init
<1>1. TypeOK
  <2>1. Authored \in [Cells -> Values] /\ NoChanges \in Changes
    BY Contents DEF Authored, NoChanges, Changes
  <2>2. GameType /\ TerrainType
    BY <2>1 DEF GameType, TerrainType
  <2>3. FramesType /\ HandType /\ StatusType
    BY DEF FramesType, HandType, StatusType
  <2>4. BridgeType
    <3>1. NoTransfer \in [id : 0..0, serial : Nat, version : Nat, cells : Changes,
                          captured : Changes, next : 0..(Chunks + 1)]
      BY <2>1, BridgeAssumption DEF NoTransfer
    <3>2. QED
      BY <3>1 DEF BridgeType, Number
  <2>5. ChildType
    <3>1. NewChild \in ChildShape /\ NewChild.done <= 0
      BY <2>1 DEF NewChild, ChildShape, Number
    <3>2. NoneUnheard \in [frame : Number, transfer : Number]
      BY DEF NoneUnheard, Number
    <3>3. Len(<< >>) = 0 /\ << >> \in Seq(RecordShape) /\ << >> \in Seq(AnswerShape)
      OBVIOUS
    <3>4. 0 <= InLimit /\ 0 <= OutLimit
      BY BridgeAssumption
    <3>5. QED
      BY <3>1, <3>2, <3>3, <3>4 DEF ChildType
  <2>6. TallyType
    <3>1. 0 \in 0..MaxEvents /\ 0 \in 0..MaxTroubles
      BY BridgeAssumption
    <3>2. QED
      BY <3>1 DEF TallyType
  <2>7. QED
    BY <2>2, <2>3, <2>4, <2>5, <2>6, TypeParts
<1>2. ~Sending /\ TransferAgrees
  BY DEF TransferAgrees, Sending, NoTransfer
<1>3. OverlayIsExact
  <2>1. Delta0 = NoChanges
    BY DEF Delta0
  <2>2. QED
    BY <1>2, <2>1 DEF OverlayIsExact, Over, Authored, NoChanges
<1>4. StreamEndsCanonical /\ Stream
  BY DEF StreamEndsCanonical, Stream
<1>5. FramesAreNumbered
  BY DEF FramesAreNumbered
<1>6. Ordered
  <2>1. << >> \o << >> \o << >> = << >>
    OBVIOUS
  <2>2. QED
    BY <2>1 DEF Ordered
<1>7. QED
  BY <1>1, <1>2, <1>3, <1>4, <1>5, <1>6 DEF IInv

\* Nothing of the invariant is about more than the variables.
LEMMA StutterInv == ASSUME IInv, UNCHANGED vars PROVE IInv'
<1>1. /\ UNCHANGED <<gameVars, terrainVars, frames, restart, statusVars, bridgeVars,
                     childVars, tallyVars>>
      /\ UNCHANGED <<terrain, topology, frameId, discarding>>
      /\ UNCHANGED <<serial, version, pending, overlay, required, awaiting, lease>>
      /\ UNCHANGED <<at, sent, transfer, transfers, hand>>
      /\ UNCHANGED <<worker, inbox, outbox, child, unheard>>
  BY DEF vars, gameVars, terrainVars, statusVars, bridgeVars, childVars, tallyVars
<1> USE DEF IInv
<1>2. TypeOK'
  BY <1>1, TypeParts, TypeNext, GameKept, TerrainKept, FramesKept, StatusKept, TransferKept,
     HandKept, ChildKept, TallyKept
<1>3. TransferAgrees'
  BY <1>1 DEF TransferAgrees, Sending
<1>4. Delta0' = Delta0 /\ Authored' = Authored
  BY <1>1 DEF Delta0, Authored
<1>5. OverlayIsExact'
  BY <1>1, <1>4 DEF OverlayIsExact, Sending
<1>6. StreamEndsCanonical'
  <2>1. AtEnd' = AtEnd
    BY <1>1, AtEndKept
  <2>2. QED
    BY <1>1, <1>4, <2>1 DEF StreamEndsCanonical, AtEnd
<1>7. Stream'
  BY <1>1, EndsInSomeMap, StreamKept
<1>8. FramesAreNumbered' /\ Ordered'
  BY <1>1, FramesOrdered
<1>9. QED
  BY <1>2, <1>3, <1>5, <1>6, <1>7, <1>8

LEMMA NextInv == ASSUME IInv, [Next]_vars PROVE IInv'
<1>1. ASSUME NEW c \in Cells, NEW v \in Values, PublishWorldChange(c, v) PROVE IInv'
  BY <1>1, PublishWorldChangeInv
<1>2. CASE PublishMap \/ FinishPublish \/ DiscardTimeline
  BY <1>2, PublishMapInv, FinishPublishInv, DiscardTimelineInv
<1>3. ASSUME NEW b \in Bots, SubmitFrame(b) PROVE IInv'
  BY <1>3, SubmitFrameInv
<1>4. CASE Recycle \/ Spawn \/ NextRound
  BY <1>4, RecycleInv, SpawnInv, NextRoundInv
<1>5. CASE NoSnapshotDue \/ ComposeSnapshot \/ PutRecord \/ PipeIsFull \/ FinishTransfer
  BY <1>5, NoSnapshotDueInv, ComposeSnapshotInv, PutRecordInv, PipeIsFullInv,
     FinishTransferInv
<1>6. CASE CheckSnapshot \/ TakeTerrain \/ PutTerrain \/ CheckTerrain
  BY <1>6, CheckSnapshotInv, TakeTerrainInv, PutTerrainInv, CheckTerrainInv
<1>7. CASE TakeFrames \/ PutFrame \/ EndFrames
  BY <1>7, TakeFramesInv, PutFrameInv, EndFramesInv
<1>8. ASSUME NEW n \in 0..Len(outbox), ReceiveIntents(n) PROVE IInv'
  BY <1>8, ReceiveIntentsInv
<1>9. CASE KillSilent \/ KillSlow \/ Dies
  BY <1>9, KillSilentInv, KillSlowInv, DiesInv
<1>10. ASSUME NEW n \in 1..Len(inbox), AnswerBatch(n) PROVE IInv'
  BY <1>10, AnswerBatchInv
<1>11. ASSUME NEW n \in 1..Len(inbox), Hangs(n) PROVE IInv'
  BY <1>11, HangsInv
<1>12. CASE UNCHANGED vars
  BY <1>12, StutterInv
<1>13. QED
  BY <1>1, <1>2, <1>3, <1>4, <1>5, <1>6, <1>7, <1>8, <1>9, <1>10, <1>11, <1>12 DEF Next

\* The invariant holds in every state of a behaviour.
THEOREM Inductive == Spec => []IInv
<1>1. QED
  BY InitInv, NextInv, PTL DEF Spec

\* The variables keep their types, the pipes to the child and from it never
\* exceed their limits, and no life has two frames waiting.
THEOREM TypeCorrect == Spec => []TypeOK
<1>1. IInv => TypeOK
  BY DEF IInv
<1>2. QED
  BY <1>1, Inductive, PTL

\* A child that is alive can read its pipe to the end, which leaves it with the
\* map and the terrain last sent, but for what is in the bridge's hand or pending.
THEOREM StreamIsCanonical == Spec => []StreamEndsCanonical
<1>1. IInv => StreamEndsCanonical
  BY DEF IInv
<1>2. QED
  BY <1>1, Inductive, PTL

\* The transfer a clock runs for is under way, in the pipe, or was answered.
LEMMA LeaseIsOwed ==
  ASSUME IInv, worker = "alive", lease # 0
  PROVE  TransferIsOwed \/ unheard.transfer >= lease
<1>1. LeaseHasCause
  BY DEF IInv, Stream
<1>2. CASE Unfinished /\ transfer.id = lease
  BY <1>2 DEF TransferIsOwed
<1>3. CASE AtEnd.done >= lease /\ AtEnd.done = child.done
  BY <1>1, <1>3 DEF LeaseHasCause, TransferIsOwed
<1>4. CASE AtEnd.done >= lease /\ AtEnd.done # child.done
  <2>1. inbox \in Seq(RecordShape) /\ child \in ChildShape
    BY DEF IInv, TypeOK
  <2>2. PICK m \in ToSet(inbox) : EndsTransfer(m) /\ AtEnd.done = m.id
    BY <1>4, <2>1, ReadAllResult DEF AtEnd
  <2>3. m \in ToSet(inbox) /\ m.kind = "chunk" /\ m.id >= lease
    BY <1>4, <2>2 DEF EndsTransfer
  <2>4. QED
    BY <2>3 DEF TransferIsOwed
<1>5. QED
  BY <1>1, <1>2, <1>3, <1>4 DEF LeaseHasCause

\* No child that is healthy is killed for what it does not owe, or has said into
\* a pipe with room: the clocks run only for this child's frames and transfers.
THEOREM ClocksHaveCause == Spec => []WatchdogHasCause
<1>1. IInv => WatchdogHasCause
  <2> SUFFICES ASSUME IInv, worker = "alive" PROVE WatchdogHasCause
    BY DEF WatchdogHasCause
  <2>1. awaiting # NoFrame => FrameIsOwed \/ unheard.frame >= awaiting
    BY DEF IInv, Stream, FrameHasCause
  <2>2. lease # 0 => TransferIsOwed \/ unheard.transfer >= lease
    BY LeaseIsOwed
  <2>3. QED
    BY <2>1, <2>2 DEF WatchdogHasCause
<1>2. QED
  BY <1>1, Inductive, PTL

\* A frame that waits, or may be followed by a frame of its own life.
GivesWay(fs, gs) == \A f \in ToSet(fs), g \in ToSet(gs) : f.bot = g.bot => f.id <= g.id

LEMMA FramesStay ==
  ASSUME FramesType, ToSet(frames') \subseteq ToSet(frames)
  PROVE  GivesWay(frames, frames')
<1> SUFFICES ASSUME NEW i \in DOMAIN frames, NEW g \in ToSet(frames'), frames[i].bot = g.bot
             PROVE  frames[i].id <= g.id
  BY DEF GivesWay, ToSet
<1>1. PICK j \in DOMAIN frames : g = frames[j]
  BY DEF ToSet
<1>2. i = j
  BY <1>1 DEF FramesType
<1>3. frames[i] \in FrameShape
  BY DEF FramesType
<1>4. frames[i].id \in Nat
  BY <1>3 DEF FrameShape
<1>5. QED
  BY <1>1, <1>2, <1>4

\* A waiting frame makes room only for a newer one of its life.
LEMMA StepGivesWay == ASSUME IInv, [Next]_vars PROVE GivesWay(frames, frames')
<1>1. FramesType /\ frames \in Seq(FrameShape)
  BY TypeParts DEF IInv, FramesType
<1>2. frames' = frames => GivesWay(frames, frames')
  BY <1>1, FramesStay
<1>3. frames' = << >> => GivesWay(frames, frames')
  BY DEF GivesWay, ToSet
<1>4. ASSUME NEW b \in Bots, SubmitFrame(b) PROVE GivesWay(frames, frames')
  <2> DEFINE new == [kind |-> "frame", bot |-> b, id |-> frameId + 1, map |-> serial,
                     top |-> topology]
  <2>0. new.id = frameId + 1 /\ new.bot = b
    OBVIOUS
  <2>1. PICK others \in Waiting(b) :
          frames' = Append(IF Len(others) < InLimit THEN others ELSE Tail(others), new)
    BY <1>4 DEF SubmitFrame
  <2> HIDE DEF new
  <2> DEFINE kept == IF Len(others) < InLimit THEN others ELSE Tail(others)
  <2>2. kept = IF Len(others) < InLimit THEN others ELSE Tail(others)
    OBVIOUS
  <2>3. frames' = Append(kept, new)
    BY <2>1
  <2> HIDE DEF kept
  <2>4. kept \in Seq(FrameShape) /\ ToSet(kept) \subseteq ToSet(frames)
    BY <1>1, <2>2, RoomForFrame
  <2>5. ToSet(frames') = ToSet(kept) \cup {new}
    <3>1. kept \in Seq(ToSet(kept) \cup {new}) /\ new \in ToSet(kept) \cup {new}
      BY <2>4 DEF ToSet
    <3>2. QED
      BY <2>3, <3>1, AppendedIsOrdered
  <2>6. Known(frames) /\ frameId \in Nat
    BY QueuesOf DEF QueuesInOrder, IInv, TypeOK
  <2>7. ASSUME NEW f \in ToSet(frames) PROVE f.id <= new.id
    <3>1. PICK k \in DOMAIN frames : f = frames[k]
      BY DEF ToSet
    <3>2. f \in FrameShape
      BY <1>1, <3>1
    <3>3. f.id \in Nat /\ f.id <= frameId
      BY <2>6, <3>1, <3>2 DEF FrameShape, Known
    <3>4. QED
      BY <2>0, <2>6, <3>3
  <2>8. ASSUME NEW f \in ToSet(frames), NEW g \in ToSet(frames), f.bot = g.bot PROVE f.id <= g.id
    <3>1. PICK i \in DOMAIN frames, j \in DOMAIN frames : f = frames[i] /\ g = frames[j]
      BY DEF ToSet
    <3>2. f = g /\ f \in FrameShape
      BY <1>1, <2>8, <3>1 DEF FramesType
    <3>3. QED
      BY <3>2 DEF FrameShape
  <2>9. QED
    BY <2>4, <2>5, <2>7, <2>8 DEF GivesWay
<1>5. CASE TakeFrames
  <2> DEFINE n == IF Len(frames) < FrameBatch THEN Len(frames) ELSE FrameBatch
             back == SubSeq(frames, n + 1, Len(frames))
  <2>1. frames' = back
    BY <1>5 DEF TakeFrames
  <2>2. n \in 0..Len(frames)
    BY <1>1, BridgeAssumption
  <2>3. back \in Seq(FrameShape) /\ PartOf(back, frames)
    <3> HIDE DEF n
    <3>1. QED
      BY <1>1, <2>2, EndIsPart
  <2> HIDE DEF back
  <2>4. ToSet(frames') \subseteq ToSet(frames)
    BY <1>1, <2>1, <2>3, PartKeeps
  <2>5. QED
    BY <1>1, <2>4, FramesStay
<1>6. CASE EndFrames
  <2> DEFINE S == {k \in DOMAIN hand : \A f \in ToSet(frames) : f.bot # hand[k].bot}
  <2>1. PICK order \in InOrder(S) : frames' = frames \o Picked(hand, order)
    BY <1>6 DEF EndFrames, PutBack
  <2>2. hand \in Seq(FrameShape)
    BY <1>6 DEF EndFrames, IInv, TypeOK
  <2>3. S \in SUBSET DOMAIN hand /\ \A j \in S : \A f \in ToSet(frames) : f.bot # hand[j].bot
    OBVIOUS
  <2> HIDE DEF S
  <2> DEFINE back == Picked(hand, order)
  <2>4. back \in Seq(FrameShape) /\ \A k \in DOMAIN back : \E j \in S : back[k] = hand[j]
    BY <2>2, <2>3, PickedIsPart
  <2>5. frames' = frames \o back
    BY <2>1
  <2> HIDE DEF back
  <2>6. \A g \in ToSet(back) : \A f \in ToSet(frames) : f.bot # g.bot
    BY <2>3, <2>4 DEF ToSet
  <2>7. ToSet(frames') \subseteq ToSet(frames) \cup ToSet(back)
    <3>1. /\ DOMAIN (frames \o back) = 1..(Len(frames) + Len(back))
          /\ \A k \in 1..Len(frames) : (frames \o back)[k] = frames[k]
          /\ \A k \in 1..Len(back) : (frames \o back)[Len(frames) + k] = back[k]
          /\ Len(frames) \in Nat /\ Len(back) \in Nat
          /\ DOMAIN frames = 1..Len(frames) /\ DOMAIN back = 1..Len(back)
      BY <1>1, <2>4
    <3> SUFFICES ASSUME NEW k \in DOMAIN (frames \o back)
                 PROVE  (frames \o back)[k] \in ToSet(frames) \cup ToSet(back)
      BY <2>5 DEF ToSet
    <3>2. CASE k \in DOMAIN frames
      BY <3>1, <3>2 DEF ToSet
    <3>3. CASE k \notin DOMAIN frames
      <4>1. k - Len(frames) \in DOMAIN back /\ Len(frames) + (k - Len(frames)) = k
        BY <3>1, <3>3
      <4>2. (frames \o back)[k] = back[k - Len(frames)]
        BY <3>1, <4>1
      <4>3. QED
        BY <4>1, <4>2 DEF ToSet
    <3>4. QED
      BY <3>2, <3>3
  <2>8. ASSUME NEW f \in ToSet(frames), NEW g \in ToSet(frames), f.bot = g.bot PROVE f.id <= g.id
    <3>1. PICK i \in DOMAIN frames, j \in DOMAIN frames : f = frames[i] /\ g = frames[j]
      BY DEF ToSet
    <3>2. f = g /\ f \in FrameShape
      BY <1>1, <2>8, <3>1 DEF FramesType
    <3>3. QED
      BY <3>2 DEF FrameShape
  <2>9. QED
    BY <2>6, <2>7, <2>8 DEF GivesWay
<1>7. ASSUME NEW c \in Cells, NEW v \in Values, PublishWorldChange(c, v) PROVE frames' = frames
  BY <1>7 DEF PublishWorldChange
<1>8. CASE FinishPublish \/ DiscardTimeline
  BY <1>3, <1>8 DEF FinishPublish, DiscardTimeline, Discarded
<1>9. CASE PublishMap \/ Recycle \/ Spawn \/ NextRound \/ KillSilent \/ KillSlow \/ Dies
  BY <1>2, <1>9 DEF PublishMap, Recycle, Spawn, NextRound, KillSilent, KillSlow, Kill, Dies
<1>10. CASE NoSnapshotDue \/ ComposeSnapshot \/ PutRecord \/ PipeIsFull \/ FinishTransfer
  BY <1>2, <1>10 DEF NoSnapshotDue, ComposeSnapshot, PutRecord, PipeIsFull, FinishTransfer, Goes
<1>11. CASE CheckSnapshot \/ TakeTerrain \/ PutTerrain \/ CheckTerrain \/ PutFrame
  BY <1>2, <1>11 DEF CheckSnapshot, TakeTerrain, PutTerrain, CheckTerrain, PutFrame, Goes
<1>12. ASSUME NEW n \in 0..Len(outbox), ReceiveIntents(n) PROVE frames' = frames
  BY <1>12 DEF ReceiveIntents
<1>13. ASSUME NEW n \in 1..Len(inbox), AnswerBatch(n) \/ Hangs(n) PROVE frames' = frames
  BY <1>13 DEF AnswerBatch, Hangs
<1>14. CASE UNCHANGED vars
  BY <1>2, <1>14 DEF vars
<1>15. QED
  BY <1>2, <1>4, <1>5, <1>6, <1>7, <1>8, <1>9, <1>10, <1>11, <1>12, <1>13, <1>14 DEF Next

\* Frames of a life are decided in the order they were made, and one that was
\* put back over a full pipe never takes the place of a newer one.
THEOREM FramesKeepTheirOrder == Spec => FramesInOrder
<1>1. IInv /\ IInv' /\ [Next]_vars =>
        [/\ Ordered'
         /\ \A f \in ToSet(frames), g \in ToSet(frames') : f.bot = g.bot => f.id <= g.id]_vars
  BY StepGivesWay DEF IInv, GivesWay
<1>2. QED
  BY <1>1, Inductive, PTL DEF Spec, FramesInOrder
=============================================================================
