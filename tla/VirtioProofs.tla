---------------------------- MODULE VirtioProofs ----------------------------
(***************************************************************************)
(* Proofs about VirtioService, for every ring size that divides the range  *)
(* of the indices and every bound.                                         *)
(*                                                                         *)
(* Arithmetic first: with 16-bit indices that wrap, a stretch of at most   *)
(* QueueSize entries has pairwise different slots, and grows at one end    *)
(* and shrinks at the other like a sequence (Extended, Shortened).  From   *)
(* it, the type of every state: Shape says what the registers hold, that   *)
(* what the driver gave and has not got back (Held) has its descriptors in *)
(* use and no identifier twice, so that by the pigeonhole principle (Room) *)
(* a driver with a free descriptor has a free slot.  On it stand the       *)
(* refinement of BufferQueue, step by step; that returns are signalled;    *)
(* that packets stay in order (OrderInv) and are lost only for want of a   *)
(* buffer; that a frame is sent exactly once (SendInv and NoChain); that   *)
(* the graphics device, which runs all the commands that wait in one call, *)
(* ends where the driver believes it is (GpuInv speaks of the states its   *)
(* loop passes through, by induction on the number of commands); and that  *)
(* the driver's own accesses are never refused (InStep, over the places of *)
(* its set-up).                                                            *)
(***************************************************************************)
EXTENDS VirtioService, FiniteSetTheorems, SequenceTheorems, WellFoundedInduction, TLAPS

-----------------------------------------------------------------------------
(* Indices that wrap. *)

Idx == 0..(IdxMod - 1)

\* The slot an index points to.
At(i) == i % QueueSize

LEMMA Sizes ==
  /\ QueueSize \in Nat /\ QueueSize > 0
  /\ IdxMod \in Nat /\ QueueSize < IdxMod
  /\ \A n \in 0..QueueSize : n \in Nat /\ n < IdxMod
BY QueueSizeAssumption, IdxModAssumption

LEMMA Division ==
  ASSUME NEW n \in Nat, n > 0, NEW x \in Nat
  PROVE  \E k \in Nat : \E r \in 0..(n - 1) : r = x % n /\ x = k * n + r
<1>1. x % n \in 0..(n - 1) /\ x \div n \in Nat
  OBVIOUS
<1>2. PICK k \in Nat, r \in 0..(n - 1) : k = x \div n /\ r = x % n
  BY <1>1
<1>3. x = k * n + r
  BY <1>2
<1> QED
  BY <1>2, <1>3

\* A larger factor makes a product larger by at least the other factor.
LEMMA ProductsOrdered ==
  ASSUME NEW n \in Nat, NEW a \in Nat, NEW b \in Nat, a < b
  PROVE  a * n + n <= b * n
<1>1. PICK k \in Nat : b = a + 1 + k
  <2>1. b - a - 1 \in Nat /\ b = a + 1 + (b - a - 1)
    OBVIOUS
  <2> QED
    BY <2>1
<1>2. b * n = a * n + n + k * n
  BY <1>1, SMT
<1>3. k * n \in Nat /\ a * n \in Nat
  BY SMT
<1> QED
  BY <1>2, <1>3

\* Quotient and remainder are unique.
LEMMA Remainder ==
  ASSUME NEW n \in Nat, n > 0, NEW k \in Nat, NEW r \in 0..(n - 1)
  PROVE  (k * n + r) % n = r
<1> DEFINE x == k * n + r
<1>1. x \in Nat /\ k * n \in Nat
  BY SMT
<1>2. PICK j \in Nat, s \in 0..(n - 1) : s = x % n /\ x = j * n + s
  BY <1>1, Division
<1>3. j * n \in Nat
  BY SMT
<1>4. ~(k < j)
  <2> SUFFICES ASSUME k < j PROVE FALSE
    OBVIOUS
  <2>1. k * n + n <= j * n
    BY ProductsOrdered
  <2> QED
    BY <1>1, <1>2, <1>3, <2>1
<1>5. ~(j < k)
  <2> SUFFICES ASSUME j < k PROVE FALSE
    OBVIOUS
  <2>1. j * n + n <= k * n
    BY ProductsOrdered
  <2> QED
    BY <1>1, <1>2, <1>3, <2>1
<1>6. j = k
  BY <1>4, <1>5
<1> QED
  BY <1>1, <1>2, <1>3, <1>6

\* An index sum below twice the modulus wraps at most once.
LEMMA Wraps ==
  ASSUME NEW a \in Idx, NEW n \in Idx
  PROVE  Plus(a, n) = IF a + n < IdxMod THEN a + n ELSE a + n - IdxMod
<1>1. CASE a + n < IdxMod
  BY <1>1, Sizes DEF Plus, Idx
<1>2. CASE a + n >= IdxMod
  <2>1. a + n - IdxMod \in 0..(IdxMod - 1)
    BY <1>2, Sizes DEF Idx
  <2>2. (1 * IdxMod + (a + n - IdxMod)) % IdxMod = a + n - IdxMod
    BY <2>1, Sizes, Remainder
  <2>3. 1 * IdxMod + (a + n - IdxMod) = a + n
    BY Sizes DEF Idx
  <2> QED
    BY <1>2, <2>2, <2>3, Sizes DEF Plus, Idx
<1> QED
  BY <1>1, <1>2, Sizes DEF Idx

\* The distance of two indices, and that it leads from the one to the other.
LEMMA Distance ==
  ASSUME NEW a \in Idx, NEW b \in Idx
  PROVE  /\ Diff(b, a) \in Idx
         /\ Plus(a, Diff(b, a)) = b
         /\ Diff(b, a) = IF a <= b THEN b - a ELSE b - a + IdxMod
<1>1. Diff(b, a) = IF a <= b THEN b - a ELSE b - a + IdxMod
  BY Sizes DEF Diff, Idx
<1>2. Diff(b, a) \in Idx
  BY <1>1, Sizes DEF Idx
<1> QED
  BY <1>1, <1>2, Wraps, Sizes DEF Idx

LEMMA DistanceOfSum ==
  ASSUME NEW a \in Idx, NEW n \in Idx
  PROVE  Plus(a, n) \in Idx /\ Diff(Plus(a, n), a) = n
<1>1. PICK p \in Idx : p = Plus(a, n) /\ p = IF a + n < IdxMod THEN a + n ELSE a + n - IdxMod
  BY Wraps, Sizes DEF Idx
<1>2. Diff(p, a) = IF a <= p THEN p - a ELSE p - a + IdxMod
  BY Distance
<1>3. Diff(p, a) = n
  BY <1>1, <1>2, Sizes DEF Idx
<1> QED
  BY <1>1, <1>3

LEMMA SumOfSums ==
  ASSUME NEW a \in Idx, NEW m \in Nat, NEW n \in Nat, m + n < IdxMod
  PROVE  Plus(Plus(a, m), n) = Plus(a, m + n)
<1>1. m \in Idx /\ n \in Idx /\ m + n \in Idx
  BY Sizes DEF Idx
<1>2. Plus(a, m) \in Idx
  BY <1>1, DistanceOfSum
<1> QED
  BY <1>1, <1>2, Wraps, Sizes DEF Idx

\* The slots do not notice the wrap, because the ring divides the range of
\* the indices.
LEMMA SlotOfSum ==
  ASSUME NEW a \in Nat, NEW n \in Nat
  PROVE  At(Plus(a, n)) = At(a + n)
<1>1. PICK j \in Nat, p \in 0..(IdxMod - 1) : p = Plus(a, n) /\ a + n = j * IdxMod + p
  BY Division, Sizes DEF Plus
<1>2. PICK c \in Nat : IdxMod = c * QueueSize
  <2>1. PICK c \in Nat, z \in 0..(QueueSize - 1) :
          z = IdxMod % QueueSize /\ IdxMod = c * QueueSize + z
    BY Division, Sizes
  <2>2. z = 0
    BY <2>1, IdxModAssumption
  <2>3. c * QueueSize \in Nat
    BY Sizes, SMT
  <2> QED
    BY <2>1, <2>2, <2>3
<1>3. PICK u \in Nat, v \in 0..(QueueSize - 1) : v = p % QueueSize /\ p = u * QueueSize + v
  BY Division, Sizes
<1>4. a + n = (j * c + u) * QueueSize + v
  BY <1>1, <1>2, <1>3, Sizes, SMT
<1>5. j * c + u \in Nat
  BY SMT
<1>6. (a + n) % QueueSize = v
  BY <1>4, <1>5, Remainder, Sizes
<1> QED
  BY <1>1, <1>3, <1>6 DEF At

\* Within a ring's length of each other, indices have different slots.
LEMMA SlotsDiffer ==
  ASSUME NEW x \in Nat, NEW y \in Nat, x < y, y - x < QueueSize
  PROVE  At(x) # At(y)
<1> SUFFICES ASSUME At(x) = At(y) PROVE FALSE
  OBVIOUS
<1>1. PICK j \in Nat, r \in 0..(QueueSize - 1) : r = At(x) /\ x = j * QueueSize + r
  BY Division, Sizes DEF At
<1>2. PICK k \in Nat, s \in 0..(QueueSize - 1) : s = At(y) /\ y = k * QueueSize + s
  BY Division, Sizes DEF At
<1>3. j * QueueSize \in Nat /\ k * QueueSize \in Nat
  BY Sizes, SMT
<1>4. j < k \/ k <= j
  OBVIOUS
<1>5. CASE j < k
  <2>1. j * QueueSize + QueueSize <= k * QueueSize
    BY <1>5, ProductsOrdered, Sizes
  <2> QED
    BY <1>1, <1>2, <1>3, <2>1, Sizes
<1>6. CASE k < j
  <2>1. k * QueueSize + QueueSize <= j * QueueSize
    BY <1>6, ProductsOrdered, Sizes
  <2> QED
    BY <1>1, <1>2, <1>3, <2>1, Sizes
<1>7. CASE j = k
  BY <1>1, <1>2, <1>3, <1>7
<1> QED
  BY <1>4, <1>5, <1>6, <1>7

LEMMA SlotInRing ==
  ASSUME NEW i \in Nat
  PROVE  At(i) \in Slots
BY Sizes DEF At, Slots

-----------------------------------------------------------------------------
(* The part of a ring between two indices. *)

LEMMA BetweenIs ==
  ASSUME NEW ring, NEW from \in Idx, NEW n \in 0..QueueSize
  PROVE  Between(ring, from, Plus(from, n)) = [k \in 1..n |-> ring[At(from + k - 1)]]
<1>1. Diff(Plus(from, n), from) = n
  BY DistanceOfSum, Sizes DEF Idx
<1>2. ASSUME NEW k \in 1..n PROVE Plus(from, k - 1) % QueueSize = At(from + k - 1)
  <2>1. k - 1 \in Nat /\ from \in Nat
    BY Sizes DEF Idx
  <2>2. from + (k - 1) = from + k - 1
    BY <2>1
  <2> QED
    BY <2>1, <2>2, SlotOfSum DEF At
<1> QED
  BY <1>1, <1>2 DEF Between

\* It is a sequence of slot numbers.
LEMMA BetweenType ==
  ASSUME NEW ring \in [Slots -> Slots], NEW from \in Idx, NEW n \in 0..QueueSize
  PROVE  /\ Between(ring, from, Plus(from, n)) \in Seq(Slots)
         /\ Len(Between(ring, from, Plus(from, n))) = n
         /\ \A k \in 1..n : Between(ring, from, Plus(from, n))[k] = ring[At(from + k - 1)]
<1> DEFINE s == [k \in 1..n |-> ring[At(from + k - 1)]]
<1>1. ASSUME NEW k \in 1..n PROVE ring[At(from + k - 1)] \in Slots
  BY SlotInRing, Sizes DEF Idx
<1>2. s \in [1..n -> Slots] /\ n \in Nat
  BY <1>1, Sizes
<1>3. s \in Seq(Slots) /\ Len(s) = n
  BY <1>2
<1>4. \A k \in 1..n : s[k] = ring[At(from + k - 1)]
  OBVIOUS
<1>5. Between(ring, from, Plus(from, n)) = s
  BY BetweenIs
<1> HIDE DEF s
<1> QED
  BY <1>3, <1>4, <1>5

\* Offering a buffer: the part up to the driver's index grows by it.
LEMMA Extended ==
  ASSUME NEW ring \in [Slots -> Slots], NEW from \in Idx, NEW n \in 0..(QueueSize - 1),
         NEW id \in Slots
  PROVE  Between([ring EXCEPT ![Plus(from, n) % QueueSize] = id],
                 from, Plus(Plus(from, n), 1))
         = Append(Between(ring, from, Plus(from, n)), id)
<1> DEFINE next == [ring EXCEPT ![At(from + n)] = id]
           old  == Between(ring, from, Plus(from, n))
           new  == Between(next, from, Plus(from, n + 1))
<1>1. Plus(from, n) % QueueSize = At(from + n)
  BY SlotOfSum, Sizes DEF At, Idx
<1>2. Plus(Plus(from, n), 1) = Plus(from, n + 1)
  BY SumOfSums, Sizes
<1>3. n \in 0..QueueSize /\ n + 1 \in 0..QueueSize /\ n \in Nat /\ from \in Nat
  BY Sizes DEF Idx
<1>4. At(from + n) \in Slots /\ next \in [Slots -> Slots]
  BY <1>3, SlotInRing
<1>10. next[At(from + n)] = id /\ \A s \in Slots \ {At(from + n)} : next[s] = ring[s]
  BY <1>4
<1> HIDE DEF next
<1>5. /\ old \in Seq(Slots) /\ Len(old) = n
      /\ \A k \in 1..n : old[k] = ring[At(from + k - 1)]
  BY <1>3, BetweenType
<1>6. /\ new \in Seq(Slots) /\ Len(new) = n + 1
      /\ \A k \in 1..(n + 1) : new[k] = next[At(from + k - 1)]
  BY <1>3, <1>4, BetweenType
<1>7. ASSUME NEW k \in 1..(n + 1) PROVE new[k] = Append(old, id)[k]
  <2>1. CASE k = n + 1
    <3>1. from + k - 1 = from + n
      BY <1>3, <2>1
    <3>2. new[k] = id
      BY <1>10, <1>6, <3>1
    <3> QED
      BY <1>5, <2>1, <3>2, AppendProperties
  <2>2. CASE k <= n
    <3>1. from + k - 1 \in Nat /\ At(from + k - 1) \in Slots
      BY <1>3, SlotInRing
    <3>2. At(from + k - 1) # At(from + n)
      BY <1>3, <2>2, <3>1, SlotsDiffer, Sizes
    <3>3. new[k] = ring[At(from + k - 1)]
      BY <1>10, <1>6, <3>1, <3>2
    <3> QED
      BY <1>3, <1>5, <2>2, <3>3, AppendProperties
  <2>3. k = n + 1 \/ k <= n
    BY <1>3
  <2> QED
    BY <2>1, <2>2, <2>3
<1>8. Append(old, id) \in Seq(Slots) /\ Len(Append(old, id)) = n + 1
  BY <1>5, AppendProperties
<1>9. new = Append(old, id)
  <2> HIDE DEF new, old
  <2> QED
    BY <1>6, <1>7, <1>8, SeqEqual
<1> QED
  BY <1>1, <1>2, <1>9 DEF next

\* Moving the index it starts at: the part shrinks from its front.
LEMMA Shortened ==
  ASSUME NEW ring \in [Slots -> Slots], NEW from \in Idx, NEW n \in 0..QueueSize,
         NEW m \in 0..n
  PROVE  Between(ring, Plus(from, m), Plus(from, n))
         = SubSeq(Between(ring, from, Plus(from, n)), m + 1, n)
<1> DEFINE old == Between(ring, from, Plus(from, n))
           new == Between(ring, Plus(from, m), Plus(Plus(from, m), n - m))
<1>1. /\ m \in Nat /\ n - m \in 0..QueueSize /\ from \in Nat /\ m < IdxMod
      /\ m + (n - m) = n /\ n < IdxMod
  BY Sizes DEF Idx
<1>2. Plus(from, m) \in Idx
  BY <1>1, Sizes, DistanceOfSum DEF Idx
<1>3. Plus(Plus(from, m), n - m) = Plus(from, n)
  BY <1>1, SumOfSums
<1>4. /\ old \in Seq(Slots) /\ Len(old) = n
      /\ \A k \in 1..n : old[k] = ring[At(from + k - 1)]
  BY BetweenType
<1>5. /\ new \in Seq(Slots) /\ Len(new) = n - m
      /\ \A k \in 1..(n - m) : new[k] = ring[At(Plus(from, m) + k - 1)]
  BY <1>1, <1>2, BetweenType
<1> HIDE DEF old, new
<1>6. /\ SubSeq(old, m + 1, n) \in Seq(Slots)
      /\ Len(SubSeq(old, m + 1, n)) = n - m
      /\ \A k \in 1..(n - m) : SubSeq(old, m + 1, n)[k] = old[m + k]
  <2>1. \A i \in (m + 1)..n : old[i] \in Slots
    BY <1>1, <1>4, ElementOfSeq
  <2>2. m + 1 \in Int /\ n \in Int
    BY <1>1
  <2>3. /\ SubSeq(old, m + 1, n) \in Seq(Slots)
        /\ Len(SubSeq(old, m + 1, n)) = IF m + 1 <= n THEN n - (m + 1) + 1 ELSE 0
        /\ \A i \in 1..(n - (m + 1) + 1) : SubSeq(old, m + 1, n)[i] = old[m + 1 + i - 1]
    BY <2>1, <2>2, SubSeqProperties
  <2>4. /\ (IF m + 1 <= n THEN n - (m + 1) + 1 ELSE 0) = n - m
        /\ n - (m + 1) + 1 = n - m
        /\ \A i \in 1..(n - m) : m + 1 + i - 1 = m + i
    BY <1>1
  <2> QED
    BY <2>3, <2>4
<1>7. ASSUME NEW k \in 1..(n - m) PROVE new[k] = old[m + k]
  <2>1. /\ k - 1 \in Nat /\ m + k \in 1..n /\ from + m + (k - 1) = from + (m + k) - 1
        /\ Plus(from, m) \in Nat /\ Plus(from, m) + (k - 1) = Plus(from, m) + k - 1
    BY <1>1, <1>2 DEF Idx
  <2>2. At(Plus(from, m) + (k - 1)) = At(from + m + (k - 1))
    <3>1. PICK z \in Nat : z = m + (k - 1) /\ z < IdxMod
      BY <1>1, <2>1, Sizes
    <3>2. Plus(Plus(from, m), k - 1) = Plus(from, z)
      BY <1>1, <2>1, <3>1, SumOfSums
    <3>3. from + z = from + m + (k - 1)
      BY <1>1, <2>1, <3>1
    <3> QED
      BY <1>1, <2>1, <3>1, <3>2, <3>3, SlotOfSum
  <2> QED
    BY <1>4, <1>5, <2>1, <2>2
<1>8. new = SubSeq(old, m + 1, n)
  BY <1>5, <1>6, <1>7, SeqEqual
<1> QED
  BY <1>3, <1>8 DEF old, new

\* The device's ring after it returned the next n of the driver's.
Filled(elems, ring, last, n) ==
  [s \in Slots |-> IF \E k \in 1..n : Plus(last, k - 1) % QueueSize = s
                   THEN ring[s] ELSE elems[s]]

\* The slots it fills.
Taken(last, n) == {At(last + i - 1) : i \in 1..n}

LEMMA FilledType ==
  ASSUME NEW ring \in [Slots -> Slots], NEW elems \in [Slots -> Slots],
         NEW last \in Idx, NEW n \in Nat
  PROVE  /\ Filled(elems, ring, last, n) \in [Slots -> Slots]
         /\ \A i \in 1..n : Filled(elems, ring, last, n)[At(last + i - 1)] = ring[At(last + i - 1)]
<1>1. ASSUME NEW k \in 1..n
      PROVE  /\ Plus(last, k - 1) % QueueSize = At(last + k - 1)
             /\ At(last + k - 1) \in Slots
  <2>1. k - 1 \in Nat /\ last \in Nat /\ last + (k - 1) = last + k - 1 /\ last + k - 1 \in Nat
    BY Sizes DEF Idx
  <2> QED
    BY <2>1, SlotOfSum, SlotInRing DEF At
<1>2. Filled(elems, ring, last, n) =
        [s \in Slots |-> IF \E k \in 1..n : At(last + k - 1) = s
                         THEN ring[s] ELSE elems[s]]
  BY <1>1 DEF Filled
<1> QED
  BY <1>1, <1>2

LEMMA FilledElsewhere ==
  ASSUME NEW ring \in [Slots -> Slots], NEW elems \in [Slots -> Slots],
         NEW last \in Idx, NEW n \in Nat, NEW s \in Slots \ Taken(last, n)
  PROVE  Filled(elems, ring, last, n)[s] = elems[s]
<1>1. ASSUME NEW k \in 1..n PROVE Plus(last, k - 1) % QueueSize # s
  <2>1. k - 1 \in Nat /\ last \in Nat /\ last + (k - 1) = last + k - 1
    BY Sizes DEF Idx
  <2> QED
    BY <2>1, SlotOfSum DEF At, Taken
<1> QED
  BY <1>1 DEF Filled

\* A sequence followed by the first n of another.
Moved(old, wait, n) == old \o SubSeq(wait, 1, n)

\* Returning buffers: what the driver may collect grows by the first of those
\* that waited.
LEMMA ReturnedNext ==
  ASSUME NEW ring \in [Slots -> Slots], NEW elems \in [Slots -> Slots],
         NEW from \in Idx, NEW r \in Nat, NEW w \in Nat, r + w <= QueueSize,
         NEW n \in 0..w
  PROVE  Between(Filled(elems, ring, Plus(from, r), n), from, Plus(Plus(from, r), n))
         = Moved(Between(elems, from, Plus(from, r)),
                 Between(ring, Plus(from, r), Plus(Plus(from, r), w)), n)
<1>0. PICK last \in Idx : last = Plus(from, r)
  <2>1. r \in Idx
    BY Sizes DEF Idx
  <2> QED
    BY <2>1, DistanceOfSum
<1> DEFINE next == Filled(elems, ring, last, n)
           new  == Between(next, from, Plus(from, r + n))
           old  == Between(elems, from, last)
           wait == Between(ring, last, Plus(last, w))
           front == SubSeq(wait, 1, n)
<1>1. /\ n \in Nat /\ r + n \in 0..QueueSize /\ r \in 0..QueueSize /\ w \in 0..QueueSize
      /\ from \in Nat /\ last \in Nat /\ r + n < IdxMod
  BY Sizes DEF Idx
<1>2. Plus(last, n) = Plus(from, r + n)
  BY <1>0, <1>1, SumOfSums
<1>3. /\ next \in [Slots -> Slots]
      /\ \A i \in 1..n : next[At(last + i - 1)] = ring[At(last + i - 1)]
      /\ \A s \in Slots \ Taken(last, n) : next[s] = elems[s]
  <2>1. n \in Nat
    BY <1>1
  <2>2. next \in [Slots -> Slots]
    BY <2>1, FilledType
  <2>3. \A i \in 1..n : next[At(last + i - 1)] = ring[At(last + i - 1)]
    BY <2>1, FilledType
  <2>4. \A s \in Slots \ Taken(last, n) : next[s] = elems[s]
    BY <2>1, FilledElsewhere
  <2> QED
    BY <2>2, <2>3, <2>4
<1> HIDE DEF next
<1>4. /\ new \in Seq(Slots) /\ Len(new) = r + n
      /\ \A k \in 1..(r + n) : new[k] = next[At(from + k - 1)]
  BY <1>1, <1>3, BetweenType
<1>5. /\ old \in Seq(Slots) /\ Len(old) = r
      /\ \A k \in 1..r : old[k] = elems[At(from + k - 1)]
  BY <1>0, <1>1, BetweenType
<1>6. /\ wait \in Seq(Slots) /\ Len(wait) = w
      /\ \A k \in 1..w : wait[k] = ring[At(last + k - 1)]
  BY <1>1, BetweenType
<1> HIDE DEF new, old, wait
<1>7. /\ front \in Seq(Slots) /\ Len(front) = n
      /\ \A k \in 1..n : front[k] = wait[k]
  <2>1. \A i \in 1..n : wait[i] \in Slots
    BY <1>1, <1>6, ElementOfSeq
  <2>2. /\ front \in Seq(Slots)
        /\ Len(front) = IF 1 <= n THEN n - 1 + 1 ELSE 0
        /\ \A i \in 1..(n - 1 + 1) : front[i] = wait[1 + i - 1]
    BY <1>1, <2>1, SubSeqProperties
  <2>3. /\ (IF 1 <= n THEN n - 1 + 1 ELSE 0) = n
        /\ n - 1 + 1 = n /\ \A i \in 1..n : 1 + i - 1 = i
    BY <1>1
  <2> QED
    BY <2>2, <2>3
<1> HIDE DEF front
<1>8. /\ old \o front \in Seq(Slots) /\ Len(old \o front) = r + n
      /\ \A i \in 1..(r + n) : (old \o front)[i] = IF i <= r THEN old[i] ELSE front[i - r]
  BY <1>5, <1>7, ConcatProperties
<1>9. ASSUME NEW k \in 1..(r + n) PROVE new[k] = (old \o front)[k]
  <2>1. CASE k <= r
    <3>1. k \in 1..r /\ from + k - 1 \in Nat
      BY <1>1, <2>1
    <3>2. ASSUME NEW i \in 1..n PROVE At(last + i - 1) # At(from + k - 1)
      <4>1. /\ i - 1 \in Nat /\ last + (i - 1) = last + i - 1
            /\ r + (i - 1) \in Nat /\ from + r + (i - 1) \in Nat
            /\ from + (r + (i - 1)) = from + r + (i - 1)
            /\ r + (i - 1) < IdxMod
        BY <1>1, Sizes
      <4>2. At(last + i - 1) = At(from + r + (i - 1))
        <5>1. Plus(last, i - 1) = Plus(from, r + (i - 1))
          BY <1>0, <4>1, SumOfSums
        <5> QED
          BY <1>1, <4>1, <5>1, SlotOfSum
      <4>3. PICK x \in Nat, y \in Nat : x = from + k - 1 /\ y = from + r + (i - 1)
        BY <3>1, <4>1
      <4>4. At(x) # At(y)
        <5>1. k \in Nat /\ i \in Nat /\ k >= 1 /\ i >= 1 /\ i <= n /\ r + n <= QueueSize
          BY <1>1, <3>1, Sizes
        <5>2. x < y /\ y - x < QueueSize
          BY <1>1, <2>1, <4>3, <5>1, Sizes
        <5> QED
          BY <5>2, SlotsDiffer
      <4> QED
        BY <4>2, <4>3, <4>4
    <3>3. next[At(from + k - 1)] = elems[At(from + k - 1)]
      BY <1>3, <3>1, <3>2, SlotInRing DEF Taken
    <3> QED
      BY <1>4, <1>5, <1>8, <2>1, <3>1, <3>3
  <2>2. CASE k > r
    <3>1. PICK i \in 1..n : i = k - r
      BY <1>1, <2>2
    <3>2. /\ i - 1 \in Nat /\ last + (i - 1) = last + i - 1 /\ i \in 1..w
          /\ r + (i - 1) \in Nat /\ from + (r + (i - 1)) = from + k - 1
          /\ r + (i - 1) < IdxMod
      BY <1>1, <3>1, <2>2, Sizes
    <3>3. At(last + i - 1) = At(from + k - 1)
      <4>1. Plus(last, i - 1) = Plus(from, r + (i - 1))
        BY <1>0, <3>2, SumOfSums
      <4>2. At(Plus(last, i - 1)) = At(last + (i - 1))
        BY <1>1, <3>2, SlotOfSum
      <4>3. At(Plus(from, r + (i - 1))) = At(from + (r + (i - 1)))
        BY <1>1, <3>2, SlotOfSum
      <4> QED
        BY <3>2, <4>1, <4>2, <4>3
    <3>4. new[k] = wait[i]
      BY <1>3, <1>4, <1>6, <3>1, <3>2, <3>3
    <3> QED
      BY <1>7, <1>8, <2>2, <3>1, <3>4
  <2>3. k <= r \/ k > r
    BY <1>1
  <2> QED
    BY <2>1, <2>2, <2>3
<1>10. new = old \o front
  BY <1>4, <1>8, <1>9, SeqEqual
<1> QED
  BY <1>0, <1>2, <1>10 DEF new, old, wait, front, next, Moved

-----------------------------------------------------------------------------
(* The two rings of a queue. *)

\* Indices in range, rings of slot numbers; what the device returned and what
\* it has to serve fit into a ring together.
RingShape ==
  /\ avail \in [Queues -> [idx : Idx, ring : [Slots -> Slots]]]
  /\ used  \in [Queues -> [idx : Idx, elems : [Slots -> Slots]]]
  /\ last_idxes \in [Queues -> Idx]
  /\ seen \in [Queues -> Idx]
  /\ \A q \in Queues : used[q].idx = last_idxes[q]
  /\ \A q \in Queues : Len(Returned(q)) + Len(Waiting(q)) <= QueueSize

\* The buffers of a queue that the driver gave and has not got back.
Held(q) == Returned(q) \o Waiting(q)

\* Two indices delimit a sequence of slot numbers of their distance.
LEMMA Delimited ==
  ASSUME NEW ring \in [Slots -> Slots], NEW from \in Idx, NEW to \in Idx,
         Len(Between(ring, from, to)) <= QueueSize
  PROVE  /\ Between(ring, from, to) \in Seq(Slots)
         /\ Len(Between(ring, from, to)) \in 0..QueueSize
         /\ to = Plus(from, Len(Between(ring, from, to)))
<1>1. PICK n \in Idx : n = Diff(to, from) /\ Plus(from, n) = to /\ n \in Nat
  BY Distance, Sizes DEF Idx
<1>2. Len(Between(ring, from, to)) = n
  BY <1>1 DEF Between
<1>3. n \in 0..QueueSize
  BY <1>1, <1>2, Sizes
<1> QED
  BY <1>1, <1>2, <1>3, BetweenType

LEMMA QueueFacts ==
  ASSUME RingShape, NEW q \in Queues
  PROVE  /\ Returned(q) \in Seq(Slots) /\ Len(Returned(q)) \in 0..QueueSize
         /\ Waiting(q) \in Seq(Slots) /\ Len(Waiting(q)) \in 0..QueueSize
         /\ last_idxes[q] = Plus(seen[q], Len(Returned(q)))
         /\ avail[q].idx = Plus(last_idxes[q], Len(Waiting(q)))
         /\ avail[q].ring \in [Slots -> Slots] /\ used[q].elems \in [Slots -> Slots]
         /\ last_idxes[q] \in Idx /\ seen[q] \in Idx /\ avail[q].idx \in Idx
         /\ used[q].idx = last_idxes[q]
<1>1. /\ avail[q].ring \in [Slots -> Slots] /\ used[q].elems \in [Slots -> Slots]
      /\ last_idxes[q] \in Idx /\ seen[q] \in Idx
      /\ avail[q].idx \in Idx /\ used[q].idx \in Idx
      /\ used[q].idx = last_idxes[q]
  BY DEF RingShape
<1>2. /\ Len(Returned(q)) \in Nat /\ Len(Waiting(q)) \in Nat
  <2>1. /\ Diff(used[q].idx, seen[q]) \in Idx
        /\ Diff(avail[q].idx, last_idxes[q]) \in Idx
    BY <1>1, Distance
  <2>2. /\ Diff(used[q].idx, seen[q]) \in Nat
        /\ Diff(avail[q].idx, last_idxes[q]) \in Nat
    BY <2>1, Sizes DEF Idx
  <2> QED
    BY <2>2 DEF Returned, Waiting, Between
<1>3. Len(Returned(q)) <= QueueSize /\ Len(Waiting(q)) <= QueueSize
  <2>1. Len(Returned(q)) + Len(Waiting(q)) <= QueueSize
    BY DEF RingShape
  <2> QED
    BY <1>2, <2>1, Sizes
<1>4. /\ Returned(q) \in Seq(Slots) /\ Len(Returned(q)) \in 0..QueueSize
      /\ used[q].idx = Plus(seen[q], Len(Returned(q)))
  BY <1>1, <1>3, Delimited DEF Returned
<1>5. /\ Waiting(q) \in Seq(Slots) /\ Len(Waiting(q)) \in 0..QueueSize
      /\ avail[q].idx = Plus(last_idxes[q], Len(Waiting(q)))
  BY <1>1, <1>3, Delimited DEF Waiting
<1> QED
  BY <1>1, <1>4, <1>5

\* A queue whose indices and rings stay is as it was.
LEMMA QueueStays ==
  ASSUME NEW q \in Queues, avail'[q] = avail[q], used'[q] = used[q],
         last_idxes'[q] = last_idxes[q], seen'[q] = seen[q]
  PROVE  Returned(q)' = Returned(q) /\ Waiting(q)' = Waiting(q)
BY DEF Returned, Waiting

\* Offering appends to what waits.
LEMMA OfferEffect ==
  ASSUME RingShape, NEW q \in Queues, NEW id \in Slots, NEW content,
         Offer(q, id, content), Len(Held(q)) < QueueSize
  PROVE  /\ Waiting(q)' = Append(Waiting(q), id) /\ Returned(q)' = Returned(q)
         /\ \A p \in Queues \ {q} :
              Returned(p)' = Returned(p) /\ Waiting(p)' = Waiting(p)
<1>1. UNCHANGED <<used, last_idxes, seen>>
  BY DEF Offer
<1>2. /\ avail'[q].idx = Plus(avail[q].idx, 1)
      /\ avail'[q].ring = [avail[q].ring EXCEPT ![avail[q].idx % QueueSize] = id]
      /\ \A p \in Queues \ {q} : avail'[p] = avail[p]
  <2>1. DOMAIN avail = Queues
    BY DEF RingShape
  <2> QED
    BY <2>1 DEF Offer
<1>3. Len(Waiting(q)) \in 0..(QueueSize - 1)
  <2>1. Len(Held(q)) = Len(Returned(q)) + Len(Waiting(q))
    BY QueueFacts, ConcatProperties DEF Held
  <2> QED
    BY <2>1, QueueFacts, Sizes
<1>4. Waiting(q)' = Append(Waiting(q), id)
  <2> DEFINE w == Len(Waiting(q))
  <2>1. /\ avail[q].idx = Plus(last_idxes[q], w)
        /\ avail[q].ring \in [Slots -> Slots] /\ last_idxes[q] \in Idx
    BY QueueFacts
  <2>2. Between([avail[q].ring EXCEPT ![Plus(last_idxes[q], w) % QueueSize] = id],
                last_idxes[q], Plus(Plus(last_idxes[q], w), 1))
        = Append(Between(avail[q].ring, last_idxes[q], Plus(last_idxes[q], w)), id)
    BY <1>3, <2>1, Extended
  <2> HIDE DEF w
  <2> QED
    BY <1>1, <1>2, <2>1, <2>2 DEF Waiting
<1> QED
  BY <1>1, <1>2, <1>4, QueueStays DEF Returned

\* Serving moves the first n of what waits to what is returned.
LEMMA ServeEffect ==
  ASSUME RingShape, NEW q \in Queues, NEW n \in 0..Len(Waiting(q)),
         Serve(q, n), UNCHANGED <<avail, seen>>
  PROVE  /\ Returned(q)' = Returned(q) \o SubSeq(Waiting(q), 1, n)
         /\ Waiting(q)' = SubSeq(Waiting(q), n + 1, Len(Waiting(q)))
         /\ Held(q)' = Held(q)
         /\ \A p \in Queues \ {q} :
              Returned(p)' = Returned(p) /\ Waiting(p)' = Waiting(p)
         /\ used'[q].idx = last_idxes'[q]
<1> DEFINE r == Len(Returned(q))
           w == Len(Waiting(q))
           last == last_idxes[q]
<1>1. /\ avail[q].ring \in [Slots -> Slots] /\ used[q].elems \in [Slots -> Slots]
      /\ seen[q] \in Idx /\ last \in Idx /\ r \in Nat /\ w \in Nat /\ w \in 0..QueueSize
      /\ last = Plus(seen[q], r) /\ avail[q].idx = Plus(last, w)
      /\ used[q].idx = last
      /\ Returned(q) \in Seq(Slots) /\ Waiting(q) \in Seq(Slots)
  BY QueueFacts
<1>2. r + w <= QueueSize
  BY DEF RingShape
<1>3. /\ used'[q].idx = Plus(last, n)
      /\ used'[q].elems = Filled(used[q].elems, avail[q].ring, last, n)
      /\ last_idxes'[q] = Plus(last, n)
      /\ \A p \in Queues \ {q} : used'[p] = used[p] /\ last_idxes'[p] = last_idxes[p]
  <2>1. DOMAIN used = Queues /\ DOMAIN last_idxes = Queues
    BY DEF RingShape
  <2> QED
    BY <1>1, <2>1 DEF Serve, Filled
<1>4. Returned(q)' = Returned(q) \o SubSeq(Waiting(q), 1, n)
  <2>1. Between(Filled(used[q].elems, avail[q].ring, last, n), seen[q], Plus(last, n))
        = Moved(Between(used[q].elems, seen[q], last),
                Between(avail[q].ring, last, Plus(last, w)), n)
    <3> HIDE DEF last, r, w
    <3>1. PICK f \in Idx, i \in Nat, j \in Nat :
            f = seen[q] /\ i = r /\ j = w /\ i + j <= QueueSize /\ n \in 0..j
      BY <1>1, <1>2 DEF w
    <3>2. PICK ring \in [Slots -> Slots], elems \in [Slots -> Slots] :
            ring = avail[q].ring /\ elems = used[q].elems
      BY <1>1
    <3>3. Between(Filled(elems, ring, Plus(f, i), n), f, Plus(Plus(f, i), n))
          = Moved(Between(elems, f, Plus(f, i)),
                  Between(ring, Plus(f, i), Plus(Plus(f, i), j)), n)
      BY <3>1, ReturnedNext
    <3>4. last = Plus(f, i)
      BY <1>1, <3>1
    <3> QED
      BY <3>1, <3>2, <3>3, <3>4
  <2> HIDE DEF last, r, w
  <2> QED
    BY <1>1, <1>3, <2>1 DEF Returned, Waiting, last, Moved
<1>5. Waiting(q)' = SubSeq(Waiting(q), n + 1, w)
  <2>1. Between(avail[q].ring, Plus(last, n), Plus(last, w))
        = SubSeq(Between(avail[q].ring, last, Plus(last, w)), n + 1, w)
    <3> HIDE DEF last, r, w
    <3>1. n \in 0..w
      BY DEF w
    <3> QED
      BY <1>1, <3>1, Shortened
  <2> HIDE DEF last, r, w
  <2> QED
    BY <1>1, <1>3, <2>1 DEF Waiting, last
<1>6. Held(q)' = Held(q)
  <2> DEFINE wait == Waiting(q)
  <2>0. n \in Nat /\ 1 \in Int /\ w = Len(wait) /\ wait \in Seq(Slots)
    BY <1>1
  <2>1. SubSeq(wait, 1, n) \o SubSeq(wait, n + 1, w) = SubSeq(wait, 1, w)
    <3>1. 1 \in 1..Len(wait) + 1 /\ n \in (1 - 1)..Len(wait) /\ w \in n..Len(wait)
      BY <2>0
    <3> HIDE DEF wait, w
    <3> QED
      BY <2>0, <3>1, ConcatAdjacentSubSeq
  <2>2. SubSeq(wait, 1, w) = wait
    BY <2>0, SubSeqFull
  <2>3. SubSeq(wait, 1, n) \in Seq(Slots) /\ SubSeq(wait, n + 1, w) \in Seq(Slots)
    <3>1. /\ \A i \in 1..n : wait[i] \in Slots
          /\ \A i \in (n + 1)..w : wait[i] \in Slots
      BY <2>0, ElementOfSeq
    <3> HIDE DEF wait, w
    <3> QED
      BY <2>0, <3>1, <1>1, SubSeqProperties
  <2>4. (Returned(q) \o SubSeq(wait, 1, n)) \o SubSeq(wait, n + 1, w)
        = Returned(q) \o (SubSeq(wait, 1, n) \o SubSeq(wait, n + 1, w))
    <3>1. PICK a \in Seq(Slots), b \in Seq(Slots), c \in Seq(Slots) :
            a = Returned(q) /\ b = SubSeq(wait, 1, n) /\ c = SubSeq(wait, n + 1, w)
      BY <1>1, <2>3
    <3>2. (a \o b) \o c = a \o (b \o c)
      BY ConcatAssociative
    <3> HIDE DEF wait, w
    <3> QED
      BY <3>1, <3>2
  <2> QED
    BY <1>4, <1>5, <2>1, <2>2, <2>4 DEF Held
<1> QED
  BY <1>3, <1>4, <1>5, <1>6, QueueStays

\* Collecting drops the first of what is returned.
LEMMA CollectEffect ==
  ASSUME RingShape, NEW q \in Queues, Returned(q) # <<>>,
         seen' = [seen EXCEPT ![q] = Plus(@, 1)], UNCHANGED <<avail, used, last_idxes>>
  PROVE  /\ Returned(q)' = Tail(Returned(q)) /\ Waiting(q)' = Waiting(q)
         /\ \A p \in Queues \ {q} :
              Returned(p)' = Returned(p) /\ Waiting(p)' = Waiting(p)
<1> DEFINE r == Len(Returned(q))
<1>1. /\ used[q].elems \in [Slots -> Slots] /\ seen[q] \in Idx /\ r \in 0..QueueSize
      /\ used[q].idx = Plus(seen[q], r) /\ Returned(q) \in Seq(Slots)
  BY QueueFacts
<1>2. 1 \in 0..r
  BY <1>1, EmptySeq
<1>3. seen'[q] = Plus(seen[q], 1) /\ \A p \in Queues \ {q} : seen'[p] = seen[p]
  BY DEF RingShape
<1>4. Between(used[q].elems, Plus(seen[q], 1), Plus(seen[q], r))
      = SubSeq(Between(used[q].elems, seen[q], Plus(seen[q], r)), 1 + 1, r)
  <2> HIDE DEF r
  <2> QED
    BY <1>1, <1>2, Shortened
<1>5. Returned(q)' = SubSeq(Returned(q), 2, r)
  <2> HIDE DEF r
  <2> QED
    BY <1>1, <1>3, <1>4 DEF Returned
<1>6. Tail(Returned(q)) = SubSeq(Returned(q), 2, r)
  BY <1>1, TailIsSubSeq
<1> QED
  BY <1>3, <1>5, <1>6, QueueStays DEF Waiting

-----------------------------------------------------------------------------
(* The driver's set-up, place by place. *)

Prologue ==
  << W("AddStatus", ACKNOWLEDGE), W("AddStatus", DRIVER),
     W("DeviceFeaturesSel", 1), W("Read", "DeviceFeatures"),
     W("DriverFeaturesSel", 1), W("DriverFeatures", TRUE),
     W("DriverFeaturesSel", 0), W("DriverFeatures", TRUE),
     W("AddStatus", FEATURES_OK) >>

Shared == << W("ShmSel", 1), W("Read", "Shm") >>

\* How many accesses come before the queues.
Before == IF IsNet THEN 9 ELSE 11

\* The element of a concatenation at a place, whatever the elements are.
Cat(s, t) == s \o t
Has(s, n) == n \in Nat /\ Len(s) = n

LEMMA ConcatAt ==
  ASSUME NEW s, NEW t, NEW m \in Nat, NEW n \in Nat, Has(s, m), Has(t, n)
  PROVE  /\ Has(Cat(s, t), m + n)
         /\ \A i \in 1..m : Cat(s, t)[i] = s[i]
         /\ \A i \in 1..n : Cat(s, t)[m + i] = t[i]
<1>1. Len(Cat(s, t)) = Len(s) + Len(t)
  BY DEF Cat, Has
<1>2. \A i \in 1..m : Cat(s, t)[i] = s[i]
  BY DEF Cat, Has
<1>3. \A i \in 1..n : Cat(s, t)[m + i] = t[i]
  BY DEF Cat, Has
<1>4. Len(Cat(s, t)) = m + n /\ m + n \in Nat
  BY <1>1 DEF Has
<1> QED
  BY <1>2, <1>3, <1>4 DEF Has

LEMMA SetUpPlaces ==
  /\ Before \in {9, 11}
  /\ Len(SetUp) = Before + 17
  /\ \A i \in 1..9 : SetUp[i] = Prologue[i]
  /\ ~IsNet => \A i \in 1..2 : SetUp[9 + i] = Shared[i]
  /\ \A i \in 1..8 : SetUp[Before + i] = SetUpQueue(0)[i]
  /\ \A i \in 1..8 : SetUp[Before + 8 + i] = SetUpQueue(1)[i]
  /\ SetUp[Before + 17] = W("AddStatus", DRIVER_OK)
<1> DEFINE middle == IF IsNet THEN <<>> ELSE Shared
           last == << W("AddStatus", DRIVER_OK) >>
           q0 == SetUpQueue(0)
           q1 == SetUpQueue(1)
           a == Cat(Prologue, middle)
           b == Cat(a, q0)
           c == Cat(b, q1)
           m == Before - 9
<1>1. SetUp = Cat(c, last)
  BY DEF SetUp, Prologue, Shared, Cat
<1>2. /\ Has(Prologue, 9) /\ Has(q0, 8) /\ Has(q1, 8) /\ Has(last, 1)
      /\ last[1] = W("AddStatus", DRIVER_OK)
  BY DEF Prologue, SetUpQueue, Has
<1>3. /\ Before \in {9, 11} /\ m \in Nat /\ Has(middle, m)
      /\ ~IsNet => m = 2 /\ middle = Shared
  BY DEF Before, Shared, Has
<1>13. a = Cat(Prologue, middle) /\ b = Cat(a, q0) /\ c = Cat(b, q1)
  OBVIOUS
<1> HIDE DEF middle, last, q0, q1, m, a, b, c
<1>4. /\ Has(a, 9 + m)
      /\ \A i \in 1..9 : a[i] = Prologue[i]
      /\ \A i \in 1..m : a[9 + i] = middle[i]
  BY <1>2, <1>3, <1>13, ConcatAt
<1>5. /\ Has(b, 9 + m + 8)
      /\ \A i \in 1..(9 + m) : b[i] = a[i]
      /\ \A i \in 1..8 : b[9 + m + i] = q0[i]
  <2>1. 9 + m \in Nat
    BY <1>3
  <2> QED
    BY <2>1, <1>2, <1>4, <1>13, ConcatAt
<1>6. /\ Has(c, 9 + m + 8 + 8)
      /\ \A i \in 1..(9 + m + 8) : c[i] = b[i]
      /\ \A i \in 1..8 : c[9 + m + 8 + i] = q1[i]
  <2>1. 9 + m + 8 \in Nat
    BY <1>3
  <2> QED
    BY <2>1, <1>2, <1>5, <1>13, ConcatAt
<1>7. /\ Has(SetUp, 9 + m + 8 + 8 + 1)
      /\ \A i \in 1..(9 + m + 8 + 8) : SetUp[i] = c[i]
      /\ SetUp[9 + m + 8 + 8 + 1] = last[1]
  <2>1. 9 + m + 8 + 8 \in Nat
    BY <1>3
  <2> QED
    BY <2>1, <1>1, <1>2, <1>6, ConcatAt
<1>8. 9 + m = Before /\ Before \in Nat
  BY <1>3 DEF m
<1>9. /\ \A i \in 1..9 : SetUp[i] = Prologue[i]
      /\ \A i \in 1..m : SetUp[9 + i] = middle[i]
  <2>1. ASSUME NEW i \in 1..(9 + m) PROVE SetUp[i] = a[i]
    <3>1. i \in 1..(9 + m + 8) /\ i \in 1..(9 + m + 8 + 8)
      BY <1>8
    <3> QED
      BY <3>1, <1>5, <1>6, <1>7
  <2>2. /\ \A i \in 1..9 : i \in 1..(9 + m)
        /\ \A i \in 1..m : 9 + i \in 1..(9 + m)
    BY <1>3
  <2> QED
    BY <1>4, <2>1, <2>2
<1>10. \A i \in 1..8 : SetUp[Before + i] = q0[i]
  <2> SUFFICES ASSUME NEW i \in 1..8 PROVE SetUp[Before + i] = q0[i]
    OBVIOUS
  <2>1. Before + i \in 1..(9 + m + 8) /\ Before + i \in 1..(9 + m + 8 + 8)
    BY <1>8
  <2> QED
    BY <1>5, <1>6, <1>7, <1>8, <2>1
<1>11. \A i \in 1..8 : SetUp[Before + 8 + i] = q1[i]
  <2> SUFFICES ASSUME NEW i \in 1..8 PROVE SetUp[Before + 8 + i] = q1[i]
    OBVIOUS
  <2>1. Before + 8 + i \in 1..(9 + m + 8 + 8)
    BY <1>8
  <2> QED
    BY <1>6, <1>7, <1>8, <2>1
<1>12. Len(SetUp) = Before + 17 /\ SetUp[Before + 17] = W("AddStatus", DRIVER_OK)
  <2>1. 9 + m + 8 + 8 + 1 = Before + 17
    BY <1>8
  <2> QED
    BY <1>2, <1>7, <2>1 DEF Has
<1> QED
  BY <1>3, <1>9, <1>10, <1>11, <1>12 DEF q0, q1

\* So every place is one of these.
LEMMA Places ==
  ASSUME NEW p \in 1..Len(SetUp)
  PROVE  \/ p \in 1..9 /\ SetUp[p] = Prologue[p]
         \/ ~IsNet /\ Before = 11 /\ \E i \in 1..2 : p = 9 + i /\ SetUp[p] = Shared[i]
         \/ \E i \in 1..8 : p = Before + i /\ SetUp[p] = SetUpQueue(0)[i]
         \/ \E i \in 1..8 : p = Before + 8 + i /\ SetUp[p] = SetUpQueue(1)[i]
         \/ p = Before + 17 /\ SetUp[p] = W("AddStatus", DRIVER_OK)
<1>1. Before \in Nat /\ Len(SetUp) = Before + 17 /\ p \in Nat
  BY SetUpPlaces
<1>2. CASE p \in 1..9
  BY <1>2, SetUpPlaces
<1>3. CASE p > 9 /\ p <= Before
  <2>1. ~IsNet /\ Before = 11
    BY <1>3 DEF Before
  <2>2. PICK i \in 1..2 : p = 9 + i
    <3>1. p - 9 \in 1..2 /\ p = 9 + (p - 9)
      BY <1>1, <1>3, <2>1
    <3> QED
      BY <3>1
  <2> QED
    BY <2>1, <2>2, SetUpPlaces
<1>4. CASE p > Before /\ p <= Before + 8
  <2>1. PICK i \in 1..8 : p = Before + i
    <3>1. p - Before \in 1..8 /\ p = Before + (p - Before)
      BY <1>1, <1>4
    <3> QED
      BY <3>1
  <2> QED
    BY <2>1, SetUpPlaces
<1>5. CASE p > Before + 8 /\ p <= Before + 16
  <2>1. PICK i \in 1..8 : p = Before + 8 + i
    <3>1. p - Before - 8 \in 1..8 /\ p = Before + 8 + (p - Before - 8)
      BY <1>1, <1>5
    <3> QED
      BY <3>1
  <2> QED
    BY <2>1, SetUpPlaces
<1>6. CASE p = Before + 17
  BY <1>6, SetUpPlaces
<1>7. \/ p \in 1..9 \/ (p > 9 /\ p <= Before)
      \/ (p > Before /\ p <= Before + 8)
      \/ (p > Before + 8 /\ p <= Before + 16) \/ p = Before + 17
  BY <1>1
<1> QED
  BY <1>2, <1>3, <1>4, <1>5, <1>6, <1>7

-----------------------------------------------------------------------------
(* The registers. *)

Statuses == {ACKNOWLEDGE, DRIVER, DRIVER_OK, FEATURES_OK, FAILED}

\* The register file while the driver is at its allocation g.
Registers(g) ==
  [device_type : {"Network", "Gpu"}, status : SUBSET Statuses, features_sel : Nat,
   driver_features_sel : Nat, driver_features : SUBSET Nat, queue_sel : Queues \cup {2},
   readies : [Queues -> BOOLEAN], desc_addrs : [Queues -> 0..g],
   driver_addrs : [Queues -> 0..g], device_addrs : [Queues -> 0..g], shm_sel : Nat]

\* A value a write may carry to a register; Low(reg) are the addresses.
Selects   == {"DeviceFeaturesSel", "DriverFeaturesSel", "ShmSel"}
Addresses == {"DescLow", "DriverLow", "DeviceLow"}

Fits(reg, value, g) ==
  /\ reg \in Selects => value \in Nat
  /\ reg = "QueueSel" => value \in Queues \cup {2}
  /\ reg \in Addresses => value \in 0..g
  /\ reg = "Status" => value \in SUBSET Statuses

LEMMA WrittenFits ==
  ASSUME NEW g \in Nat, NEW v \in Registers(g), NEW reg, NEW value, Fits(reg, value, g)
  PROVE  /\ Written(v, reg, value) \in Registers(g)
         /\ Written(v, reg, value).device_type = v.device_type
<1>1. CASE reg \in Selects
  BY <1>1 DEF Written, Registers, Fits, Selects
<1>2. CASE reg = "DriverFeatures"
  <2>1. FAILED \in Statuses
    BY DEF Statuses
  <2> QED
    BY <1>2, <2>1 DEF Written, Registers, SetFailed
<1>3. CASE reg = "QueueSel"
  BY <1>3 DEF Written, Registers, Fits
<1>4. CASE reg = "QueueReady"
  <2>1. (value = 1) \in BOOLEAN
    OBVIOUS
  <2>2. Written(v, reg, value) = [v EXCEPT !.readies[v.queue_sel] = (value = 1)]
    BY <1>4 DEF Written
  <2> HIDE DEF Written
  <2>3. PICK b \in BOOLEAN : b = (value = 1)
    BY <2>1
  <2>4. [v.readies EXCEPT ![v.queue_sel] = b] \in [Queues -> BOOLEAN]
    BY DEF Registers
  <2> QED
    BY <2>2, <2>3, <2>4 DEF Registers
<1>5. CASE reg = "Status"
  BY <1>5 DEF Written, Registers, Fits
<1>6. CASE reg = "DescLow"
  BY <1>6 DEF Written, Registers, Fits, Addresses
<1>7. CASE reg = "DriverLow"
  BY <1>7 DEF Written, Registers, Fits, Addresses
<1>8. CASE reg = "DeviceLow"
  BY <1>8 DEF Written, Registers, Fits, Addresses
<1>9. CASE reg \notin Selects \cup Addresses
               \cup {"DriverFeatures", "QueueSel", "QueueReady", "Status"}
  BY <1>9 DEF Written, Selects, Addresses
<1> QED
  BY <1>1, <1>2, <1>3, <1>4, <1>5, <1>6, <1>7, <1>8, <1>9 DEF Addresses

LEMMA NewFits ==
  ASSUME NEW g \in Nat, NEW type \in {"Network", "Gpu"}
  PROVE  New(type) \in Registers(g) /\ New(type).device_type = type
BY DEF New, Registers, Unset, Queues

LEMMA StatusFits == AcceptedStatus \subseteq SUBSET Statuses
BY DEF AcceptedStatus, Statuses

\* Every access of the set-up fits.
LEMMA SetUpFits ==
  ASSUME NEW p \in 1..Len(SetUp), gen \in Nat
  PROVE  /\ SetUp[p].reg \notin {"Read", "CheckReady", "AddStatus"} =>
              Fits(SetUp[p].reg, SetUp[p].value, gen) /\ SetUp[p].reg # "Status"
         /\ SetUp[p].reg = "AddStatus" => SetUp[p].value \in Statuses
<1> DEFINE Good(step) ==
             /\ step.reg \notin {"Read", "CheckReady", "AddStatus"} =>
                  Fits(step.reg, step.value, gen) /\ step.reg # "Status"
             /\ step.reg = "AddStatus" => step.value \in Statuses
<1>1. \A i \in 1..9 : Good(Prologue[i])
  BY DEF Prologue, W, Fits, Selects, Addresses, Statuses
<1>2. \A i \in 1..2 : Good(Shared[i])
  BY DEF Shared, W, Fits, Selects, Addresses
<1>3. ASSUME NEW q \in Queues, NEW i \in 1..8 PROVE Good(SetUpQueue(q)[i])
  BY <1>3 DEF SetUpQueue, W, Fits, Selects, Addresses, Queues
<1>4. Good(W("AddStatus", DRIVER_OK))
  BY DEF W, Statuses
<1>5. 0 \in Queues /\ 1 \in Queues
  BY DEF Queues
<1> HIDE DEF Good
<1>6. Good(SetUp[p])
  BY <1>1, <1>2, <1>3, <1>4, <1>5, Places
<1> QED
  BY <1>6 DEF Good

\* The registers hold what they can hold, and the driver has an allocation
\* once it began.
RegisterShape ==
  /\ gen \in Nat /\ pos \in Nat
  /\ pos > 0 => gen > 0
  /\ virtio \in Registers(gen)

\* What no access to a register changes.
beside == <<last_idxes, memory, channels, irq>>

LEMMA WriteEffect ==
  ASSUME RegisterShape, NEW reg, NEW value, WriteRegister(reg, value),
         Fits(reg, value, gen) \/ reg = "Status"
  PROVE  /\ UNCHANGED beside
         /\ virtio' \in Registers(gen) /\ virtio'.device_type = virtio.device_type
         /\ \/ WriteAccepted(virtio, reg, value) /\ virtio' = Written(virtio, reg, value)
               /\ panic' = panic
            \/ ~WriteAccepted(virtio, reg, value) /\ panic' = "access"
<1>1. CASE ~WriteAccepted(virtio, reg, value)
  <2>1. panic' = "access" /\ UNCHANGED <<virtio, beside>>
    BY <1>1 DEF WriteRegister, Stop, beside
  <2> QED
    BY <1>1, <2>1 DEF RegisterShape
<1>2. CASE WriteAccepted(virtio, reg, value)
  <2>1. UNCHANGED <<beside, panic>> /\ virtio' = Written(virtio, reg, value)
    BY <1>2 DEF WriteRegister, beside
  <2>2. Fits(reg, value, gen)
    <3>1. reg = "Status" => value \in AcceptedStatus
      BY <1>2 DEF WriteAccepted
    <3>2. CASE reg = "Status"
      BY <3>1, <3>2, StatusFits DEF Fits, Selects, Addresses
    <3> QED
      BY <3>2
  <2>3. /\ Written(virtio, reg, value) \in Registers(gen)
        /\ Written(virtio, reg, value).device_type = virtio.device_type
    BY <2>2, WrittenFits DEF RegisterShape
  <2> QED
    BY <1>2, <2>1, <2>3
<1> QED
  BY <1>1, <1>2

LEMMA ReadEffect ==
  ASSUME NEW reg, ReadRegister(reg)
  PROVE  /\ UNCHANGED <<virtio, beside>>
         /\ \/ ~ReadPanics(virtio, reg) /\ panic' = panic
            \/ ReadPanics(virtio, reg) /\ panic' = "access"
BY DEF ReadRegister, Stop, beside, queueVars

\* An access of the set-up moves the driver on and touches the registers only.
LEMMA AccessEffect ==
  ASSUME RegisterShape, Access
  PROVE  /\ UNCHANGED <<beside, resources, kick, seen, handling, backing, current,
                        astray, counts>>
         /\ pos' = pos + 1 /\ pos \in 1..Len(SetUp)
         /\ virtio' \in Registers(gen) /\ virtio'.device_type = virtio.device_type
         /\ panic' \in {panic, "access"}
<1> DEFINE step == SetUp[pos]
<1>1. /\ UNCHANGED <<resources, kick, seen, handling, backing, current, astray, counts>>
      /\ pos' = pos + 1 /\ pos \in 1..Len(SetUp)
  BY DEF Access
<1>2. /\ step.reg = "Read" => ReadRegister(step.value)
      /\ step.reg = "CheckReady" => ReadRegister("QueueReady")
      /\ step.reg = "AddStatus" => WriteRegister("Status", virtio.status \cup {step.value})
      /\ step.reg \notin {"Read", "CheckReady", "AddStatus"} =>
           WriteRegister(step.reg, step.value)
  BY DEF Access
<1>3. step.reg \notin {"Read", "CheckReady", "AddStatus"} => Fits(step.reg, step.value, gen)
  BY <1>1, SetUpFits DEF RegisterShape
<1> HIDE DEF step
<1>4. /\ UNCHANGED beside
      /\ virtio' \in Registers(gen) /\ virtio'.device_type = virtio.device_type
      /\ panic' \in {panic, "access"}
  <2>1. CASE step.reg \in {"Read", "CheckReady"}
    BY <1>2, <2>1, ReadEffect DEF RegisterShape
  <2>2. CASE step.reg = "AddStatus"
    BY <1>2, <2>2, WriteEffect
  <2>3. CASE step.reg \notin {"Read", "CheckReady", "AddStatus"}
    BY <1>2, <1>3, <2>3, WriteEffect
  <2> QED
    BY <2>1, <2>2, <2>3
<1> QED
  BY <1>1, <1>4

\* So is an access that goes astray, if it is one to a register.
LEMMA AstrayEffect ==
  ASSUME RegisterShape, GoAstray
  PROVE  /\ UNCHANGED <<pos, seen, handling, backing, current, counts>>
         /\ astray' = TRUE /\ ~astray /\ panic = "none"
         /\ \/ /\ UNCHANGED <<beside, resources, kick>>
               /\ virtio' \in Registers(gen) /\ virtio'.device_type = virtio.device_type
               /\ panic' \in {panic, "access"}
            \/ \E q \in Queues \cup {2} : DeviceNotify(q) /\ UNCHANGED kick
<1>1. /\ UNCHANGED <<pos, seen, handling, backing, current, counts>>
      /\ astray' = TRUE /\ ~astray /\ panic = "none" /\ pos > 0
  BY DEF GoAstray, Running
<1> DEFINE Touched == /\ UNCHANGED beside
                      /\ virtio' \in Registers(gen) /\ virtio'.device_type = virtio.device_type
                      /\ panic' \in {panic, "access"}
<1>2. ASSUME NEW k \in DOMAIN WildWrites,
             WriteRegister(WildWrites[k].reg, WildWrites[k].value)
      PROVE  Touched
  <2>1. \/ Fits(WildWrites[k].reg, WildWrites[k].value, gen)
        \/ WildWrites[k].reg = "Status"
    BY DEF WildWrites, W, Fits, Selects, Addresses
  <2> QED
    BY <1>2, <2>1, WriteEffect
<1>3. ASSUME NEW reg, ReadRegister(reg) PROVE Touched
  BY <1>3, ReadEffect DEF RegisterShape
<1>4. ASSUME Unplaced PROVE Touched
  <2>1. PICK q \in Queues, reg \in Addresses :
          virtio' = Written(Written(virtio, "QueueSel", q), reg, gen - 1)
    BY <1>4 DEF Unplaced, Addresses
  <2>2. UNCHANGED <<beside, panic>>
    BY <1>4 DEF Unplaced, beside
  <2>3. gen \in Nat /\ gen - 1 \in 0..gen /\ virtio \in Registers(gen)
    BY <1>1 DEF RegisterShape
  <2>4. PICK v \in Registers(gen) :
          v = Written(virtio, "QueueSel", q) /\ v.device_type = virtio.device_type
    <3>1. Fits("QueueSel", q, gen)
      BY DEF Fits, Selects, Addresses
    <3> QED
      BY <2>3, <3>1, WrittenFits
  <2>5. Fits(reg, gen - 1, gen)
    BY <2>3 DEF Fits, Selects, Addresses
  <2> QED
    BY <2>1, <2>2, <2>3, <2>4, <2>5, WrittenFits
<1>5. \/ Touched /\ UNCHANGED <<resources, kick>>
      \/ \E q \in Queues \cup {2} : DeviceNotify(q) /\ UNCHANGED kick
  <2> HIDE DEF Touched
  <2> QED
    BY <1>2, <1>3, <1>4 DEF GoAstray
<1> QED
  BY <1>1, <1>5

-----------------------------------------------------------------------------
(* What the driver gave and has not got back. *)

BufferContents  == {Nothing} \cup [op : {"Buffer"}, n : 0..MaxPackets]
FrameContents   == {Nothing, Chained} \cup [op : {"Frame"}, n : 1..MaxFrames]
CommandContents == {Nothing} \cup Commands \cup Unsupported

Kept(q) ==
  IF ~IsNet THEN CommandContents
  ELSE IF q = RECEIVE THEN BufferContents ELSE FrameContents

DescShape ==
  /\ desc = [q \in Queues |-> desc[q]]
  /\ \A q \in Queues : desc[q] \in [Slots -> Kept(q)]

\* No buffer is held twice, and none that is held is free.
HeldOnce ==
  \A q \in Queues :
    /\ \A i, j \in 1..Len(Held(q)) : Held(q)[i] = Held(q)[j] => i = j
    /\ \A i \in 1..Len(Held(q)) : desc[q][Held(q)[i]] # Nothing

QueueInv == RingShape /\ DescShape /\ HeldOnce

LEMMA HeldType ==
  ASSUME RingShape, NEW q \in Queues
  PROVE  /\ Held(q) \in Seq(Slots)
         /\ Len(Held(q)) = Len(Returned(q)) + Len(Waiting(q))
         /\ Len(Held(q)) \in 0..QueueSize
         /\ \A i \in 1..Len(Held(q)) : Held(q)[i] \in Slots
         /\ \A i \in 1..Len(Returned(q)) : Held(q)[i] = Returned(q)[i]
         /\ \A i \in 1..Len(Waiting(q)) : Held(q)[Len(Returned(q)) + i] = Waiting(q)[i]
<1> DEFINE r == Returned(q)
           w == Waiting(q)
<1>1. r \in Seq(Slots) /\ w \in Seq(Slots)
  BY QueueFacts
<1> HIDE DEF r, w
<1>2. /\ r \o w \in Seq(Slots) /\ Len(r \o w) = Len(r) + Len(w)
      /\ \A i \in 1..(Len(r) + Len(w)) :
           (r \o w)[i] = IF i <= Len(r) THEN r[i] ELSE w[i - Len(r)]
  BY <1>1, ConcatProperties
<1>3. /\ \A i \in 1..Len(r) : (r \o w)[i] = r[i]
      /\ \A i \in 1..Len(w) : (r \o w)[Len(r) + i] = w[i]
  BY <1>1, <1>2
<1>4. Len(r) + Len(w) <= QueueSize /\ Len(r) \in Nat /\ Len(w) \in Nat
  BY <1>1 DEF RingShape, r, w
<1>5. \A i \in 1..Len(r \o w) : (r \o w)[i] \in Slots
  BY <1>2, ElementOfSeq
<1>6. Held(q) = r \o w
  BY DEF Held, r, w
<1>7. Len(r \o w) \in 0..QueueSize
  BY <1>2, <1>4, Sizes
<1> QED
  BY <1>2, <1>3, <1>5, <1>6, <1>7 DEF r, w

\* While a descriptor is free the queue is not full: the buffers held are
\* different ones among the others.
LEMMA Room ==
  ASSUME QueueInv, NEW q \in Queues, NEW id \in Slots, desc[q][id] = Nothing
  PROVE  /\ Len(Held(q)) < QueueSize
         /\ \A i \in 1..Len(Held(q)) : Held(q)[i] # id
<1> DEFINE h == Held(q)
           n == Len(h)
<1>1. h \in Seq(Slots) /\ n \in 0..QueueSize /\ n \in Nat /\ n <= QueueSize
  BY HeldType, Sizes DEF QueueInv
<1>2. \A i \in 1..n : h[i] # id
  BY DEF QueueInv, HeldOnce
<1>3. \A i, j \in 1..n : h[i] = h[j] => i = j
  BY DEF QueueInv, HeldOnce
<1> HIDE DEF h
<1>4. ASSUME n = QueueSize PROVE FALSE
  <2>1. h \in [1..n -> Slots]
    BY <1>1, LenProperties
  <2>2. h \in Injection(1..n, Slots)
    BY <1>3, <2>1 DEF Injection, IsInjective
  <2>3. IsFiniteSet(Slots) /\ Cardinality(Slots) = QueueSize
    <3>1. 0 \in Int /\ QueueSize - 1 \in Int /\ ~(0 > QueueSize - 1)
          /\ QueueSize - 1 - 0 + 1 = QueueSize
      BY Sizes
    <3> QED
      BY <3>1, FS_Interval DEF Slots
  <2>4. Cardinality(1..n) = QueueSize
    <3>1. 1 \in Int /\ n \in Int /\ ~(1 > n) /\ n - 1 + 1 = QueueSize
      BY <1>1, <1>4, Sizes
    <3> QED
      BY <3>1, FS_Interval
  <2>5. h \in Surjection(1..n, Slots)
    BY <2>2, <2>3, <2>4, FS_Injection
  <2>6. \E i \in 1..n : h[i] = id
    BY <2>5 DEF Surjection
  <2> QED
    BY <1>2, <2>6
<1>5. n < QueueSize
  BY <1>1, <1>4, Sizes
<1> QED
  BY <1>2, <1>5 DEF h

\* If what is held of a queue stays held, it is still held once.
LEMMA HeldStays ==
  ASSUME HeldOnce, NEW q \in Queues, Held(q)' = Held(q), RingShape,
         \A s \in Slots : desc[q][s] # Nothing => desc'[q][s] # Nothing
  PROVE  /\ \A i, j \in 1..Len(Held(q)') : Held(q)'[i] = Held(q)'[j] => i = j
         /\ \A i \in 1..Len(Held(q)') : desc'[q][Held(q)'[i]] # Nothing
<1> DEFINE h == Held(q)
<1>1. /\ \A i, j \in 1..Len(h) : h[i] = h[j] => i = j
      /\ \A i \in 1..Len(h) : desc[q][h[i]] # Nothing /\ h[i] \in Slots
  BY HeldType DEF HeldOnce
<1>2. Held(q)' = h
  OBVIOUS
<1> HIDE DEF h
<1>3. \A i \in 1..Len(h) : desc'[q][h[i]] # Nothing
  BY <1>1
<1> QED
  BY <1>1, <1>2, <1>3

LEMMA OfferKeeps ==
  ASSUME QueueInv, NEW q \in Queues, NEW id \in Slots, NEW content \in Kept(q),
         content # Nothing, Offer(q, id, content)
  PROVE  QueueInv' /\ Held(q)' = Append(Held(q), id)
<1>1. /\ UNCHANGED <<virtio, used, last_idxes, seen>>
      /\ desc[q][id] = Nothing
      /\ desc' = [desc EXCEPT ![q][id] = content]
      /\ avail' = [avail EXCEPT ![q] =
           [idx |-> Plus(@.idx, 1), ring |-> [@.ring EXCEPT ![avail[q].idx % QueueSize] = id]]]
  BY DEF Offer
<1>2. Len(Held(q)) < QueueSize /\ \A i \in 1..Len(Held(q)) : Held(q)[i] # id
  BY <1>1, Room
<1>3. /\ Waiting(q)' = Append(Waiting(q), id) /\ Returned(q)' = Returned(q)
      /\ \A p \in Queues \ {q} : Returned(p)' = Returned(p) /\ Waiting(p)' = Waiting(p)
  BY <1>2, OfferEffect DEF QueueInv
<1>4. RingShape'
  <2>1. avail' \in [Queues -> [idx : Idx, ring : [Slots -> Slots]]]
    <3>1. Plus(avail[q].idx, 1) \in Idx
      <4>1. avail[q].idx \in Idx /\ 1 \in Idx
        BY Sizes DEF QueueInv, RingShape, Idx
      <4> QED
        BY <4>1, DistanceOfSum
    <3> QED
      BY <1>1, <3>1 DEF QueueInv, RingShape
  <2>2. Len(Returned(q)') + Len(Waiting(q)') <= QueueSize
    <3>1. Len(Append(Waiting(q), id)) = Len(Waiting(q)) + 1
      BY QueueFacts, AppendProperties DEF QueueInv
    <3>2. /\ Len(Held(q)) = Len(Returned(q)) + Len(Waiting(q))
          /\ Len(Returned(q)) \in Nat /\ Len(Waiting(q)) \in Nat
      BY HeldType, QueueFacts, Sizes DEF QueueInv
    <3> QED
      BY <1>2, <1>3, <3>1, <3>2, Sizes
  <2>3. ASSUME NEW p \in Queues PROVE Len(Returned(p)') + Len(Waiting(p)') <= QueueSize
    BY <1>3, <2>2 DEF QueueInv, RingShape
  <2> QED
    BY <1>1, <2>1, <2>3 DEF QueueInv, RingShape
<1>5. /\ desc' = [p \in Queues |-> desc'[p]]
      /\ desc'[q] = [desc[q] EXCEPT ![id] = content]
      /\ \A p \in Queues \ {q} : desc'[p] = desc[p]
  BY <1>1 DEF QueueInv, DescShape
<1>6. DescShape'
  BY <1>1, <1>5 DEF QueueInv, DescShape, Kept, IsNet
<1>7. Held(q)' = Append(Held(q), id)
  <2> DEFINE r == Returned(q)
             w == Waiting(q)
  <2>1. r \in Seq(Slots) /\ w \in Seq(Slots)
    BY QueueFacts DEF QueueInv
  <2> HIDE DEF r, w
  <2>2. r \o Append(w, id) = Append(r \o w, id)
    BY <2>1
  <2> QED
    BY <1>3, <2>2 DEF Held, r, w
<1>8. ASSUME NEW p \in Queues
      PROVE  /\ \A i, j \in 1..Len(Held(p)') : Held(p)'[i] = Held(p)'[j] => i = j
             /\ \A i \in 1..Len(Held(p)') : desc'[p][Held(p)'[i]] # Nothing
  <2>1. CASE p # q
    <3>1. Held(p)' = Held(p) /\ desc'[p] = desc[p]
      BY <1>3, <1>5, <2>1 DEF Held
    <3> QED
      BY <3>1, HeldStays DEF QueueInv
  <2>2. CASE p = q
    <3> DEFINE h == Held(q)
    <3>1. h \in Seq(Slots) /\ \A i \in 1..Len(h) : h[i] \in Slots
      BY HeldType DEF QueueInv
    <3>2. /\ \A i, j \in 1..Len(h) : h[i] = h[j] => i = j
          /\ \A i \in 1..Len(h) : desc[q][h[i]] # Nothing /\ h[i] # id
      BY <1>2 DEF QueueInv, HeldOnce
    <3>3. Held(q)' = Append(h, id)
      BY <1>7
    <3> HIDE DEF h
    <3>4. /\ Len(Append(h, id)) = Len(h) + 1 /\ Append(h, id)[Len(h) + 1] = id
          /\ \A i \in 1..Len(h) : Append(h, id)[i] = h[i]
          /\ Len(h) \in Nat
      BY <3>1, AppendProperties
    <3>5. \A i \in 1..(Len(h) + 1) : i \in 1..Len(h) \/ i = Len(h) + 1
      BY <3>4
    <3>6. /\ \A i, j \in 1..(Len(h) + 1) : Append(h, id)[i] = Append(h, id)[j] => i = j
          /\ \A i \in 1..(Len(h) + 1) : desc'[q][Append(h, id)[i]] # Nothing
      <4>1. desc[q] \in [Slots -> Kept(q)]
        BY DEF QueueInv, DescShape
      <4> QED
        BY <1>5, <3>1, <3>2, <3>4, <3>5, <4>1
    <3> QED
      BY <2>2, <3>3, <3>4, <3>6
  <2> QED
    BY <2>1, <2>2
<1> QED
  BY <1>4, <1>6, <1>7, <1>8 DEF QueueInv, HeldOnce

LEMMA ServeKeeps ==
  ASSUME QueueInv, NEW q \in Queues, NEW n \in 0..Len(Waiting(q)), Serve(q, n),
         UNCHANGED <<avail, seen>>, DescShape',
         \A p \in Queues, s \in Slots : desc[p][s] # Nothing => desc'[p][s] # Nothing
  PROVE  QueueInv' /\ \A p \in Queues : Held(p)' = Held(p)
<1>1. /\ Held(q)' = Held(q) /\ used'[q].idx = last_idxes'[q]
      /\ Returned(q)' = Returned(q) \o SubSeq(Waiting(q), 1, n)
      /\ Waiting(q)' = SubSeq(Waiting(q), n + 1, Len(Waiting(q)))
      /\ \A p \in Queues \ {q} : Returned(p)' = Returned(p) /\ Waiting(p)' = Waiting(p)
  BY ServeEffect DEF QueueInv
<1>2. \A p \in Queues : Held(p)' = Held(p)
  BY <1>1 DEF Held
<1>3. n \in Nat /\ Plus(last_idxes[q], n) \in Idx
  <2>1. Len(Waiting(q)) \in 0..QueueSize /\ last_idxes[q] \in Idx
    BY QueueFacts DEF QueueInv
  <2>2. n \in Nat /\ n \in Idx
    BY <2>1, Sizes DEF Idx
  <2> QED
    BY <2>1, <2>2, DistanceOfSum
<1>4. /\ last_idxes' = [last_idxes EXCEPT ![q] = Plus(last_idxes[q], n)]
      /\ used' = [used EXCEPT ![q] =
           [idx |-> Plus(used[q].idx, n),
            elems |-> Filled(used[q].elems, avail[q].ring, last_idxes[q], n)]]
      /\ used[q].idx = last_idxes[q]
  BY DEF Serve, Filled, QueueInv, RingShape
<1>5. Filled(used[q].elems, avail[q].ring, last_idxes[q], n) \in [Slots -> Slots]
  BY <1>3, FilledType, QueueFacts DEF QueueInv
<1>6. /\ used' \in [Queues -> [idx : Idx, elems : [Slots -> Slots]]]
      /\ last_idxes' \in [Queues -> Idx]
      /\ \A p \in Queues : used'[p].idx = last_idxes'[p]
  BY <1>1, <1>3, <1>4, <1>5 DEF QueueInv, RingShape
<1>7. ASSUME NEW p \in Queues PROVE Len(Returned(p)') + Len(Waiting(p)') <= QueueSize
  <2>1. CASE p # q
    BY <1>1, <2>1 DEF QueueInv, RingShape
  <2>2. CASE p = q
    <3> DEFINE r == Returned(q)
               w == Waiting(q)
    <3>1. /\ r \in Seq(Slots) /\ w \in Seq(Slots) /\ n <= Len(w)
          /\ Len(r) + Len(w) <= QueueSize /\ Len(r) \in Nat /\ Len(w) \in Nat
      BY QueueFacts DEF QueueInv, RingShape
    <3>2. Returned(q)' = r \o SubSeq(w, 1, n) /\ Waiting(q)' = SubSeq(w, n + 1, Len(w))
      BY <1>1
    <3> HIDE DEF r, w
    <3>3. Len(r \o SubSeq(w, 1, n)) + Len(SubSeq(w, n + 1, Len(w))) = Len(r) + Len(w)
      <4>1. /\ \A i \in 1..n : w[i] \in Slots
            /\ \A i \in (n + 1)..Len(w) : w[i] \in Slots
        BY <1>3, <3>1, ElementOfSeq
      <4>2. /\ SubSeq(w, 1, n) \in Seq(Slots)
            /\ Len(SubSeq(w, 1, n)) = IF 1 <= n THEN n - 1 + 1 ELSE 0
            /\ Len(SubSeq(w, n + 1, Len(w))) =
                 IF n + 1 <= Len(w) THEN Len(w) - (n + 1) + 1 ELSE 0
        BY <1>3, <3>1, <4>1, SubSeqProperties
      <4>3. /\ Len(SubSeq(w, 1, n)) = n
            /\ Len(SubSeq(w, n + 1, Len(w))) = Len(w) - n
        BY <1>3, <3>1, <4>2
      <4>4. Len(r \o SubSeq(w, 1, n)) = Len(r) + Len(SubSeq(w, 1, n))
        BY <3>1, <4>2, ConcatProperties
      <4>5. PICK x \in Nat : x = Len(r \o SubSeq(w, 1, n)) /\ x = Len(r) + n
        BY <1>3, <3>1, <4>3, <4>4
      <4>6. PICK y \in Nat : y = Len(SubSeq(w, n + 1, Len(w))) /\ y = Len(w) - n
        BY <1>3, <3>1, <4>3
      <4>7. x + y = Len(r) + Len(w)
        <5>1. PICK a \in Nat, b \in Nat : a = Len(r) /\ b = Len(w)
          BY <3>1
        <5>2. x = a + n /\ y = b - n
          BY <4>5, <4>6, <5>1, Zenon
        <5>3. x + y = a + b
          BY <1>3, <5>2
        <5> QED
          BY <5>1, <5>3, Zenon
      <4> QED
        BY <4>5, <4>6, <4>7, Zenon
    <3> QED
      BY <2>2, <3>1, <3>2, <3>3
  <2> QED
    BY <2>1, <2>2
<1>8. RingShape'
  BY <1>6, <1>7 DEF QueueInv, RingShape
<1>9. HeldOnce'
  BY <1>2, HeldStays DEF QueueInv, HeldOnce
<1> QED
  BY <1>2, <1>8, <1>9 DEF QueueInv

LEMMA CollectKeeps ==
  ASSUME QueueInv, Collect
  PROVE  /\ QueueInv'
         /\ \E q \in Queues : /\ Returned(q) # <<>>
                              /\ Returned(q)' = Tail(Returned(q)) /\ Waiting(q)' = Waiting(q)
                              /\ desc' = [desc EXCEPT ![q][Returned(q)[1]] = Nothing]
                              /\ \A p \in Queues \ {q} :
                                   Returned(p)' = Returned(p) /\ Waiting(p)' = Waiting(p)
                              /\ got' = IF IsNet /\ q = RECEIVE
                                        THEN desc[q][Returned(q)[1]].n ELSE got
<1>1. PICK q \in Queues :
        /\ Returned(q) # <<>>
        /\ desc' = [desc EXCEPT ![q][Returned(q)[1]] = Nothing]
        /\ seen' = [seen EXCEPT ![q] = Plus(@, 1)]
        /\ got' = IF IsNet /\ q = RECEIVE THEN desc[q][Returned(q)[1]].n ELSE got
  BY DEF Collect
<1>2. UNCHANGED <<virtio, last_idxes, avail, used>>
  BY DEF Collect
<1>3. /\ Returned(q)' = Tail(Returned(q)) /\ Waiting(q)' = Waiting(q)
      /\ \A p \in Queues \ {q} : Returned(p)' = Returned(p) /\ Waiting(p)' = Waiting(p)
  BY <1>1, <1>2, CollectEffect DEF QueueInv
<1> DEFINE r == Returned(q)
           w == Waiting(q)
           h == Held(q)
<1>4. /\ r \in Seq(Slots) /\ w \in Seq(Slots) /\ r # <<>> /\ h = r \o w
      /\ Len(r) \in Nat /\ Len(w) \in Nat /\ Len(r) + Len(w) <= QueueSize
  BY <1>1, QueueFacts DEF QueueInv, RingShape, Held
<1>5. /\ h \in Seq(Slots) /\ Len(h) = Len(r) + Len(w)
      /\ \A i \in 1..Len(h) : h[i] \in Slots
      /\ \A i \in 1..Len(r) : h[i] = r[i]
  BY HeldType DEF QueueInv
<1>6. Len(r) >= 1 /\ h[1] = r[1] /\ r[1] \in Slots
  <2>1. Len(r) \in Nat \ {0}
    BY <1>4, EmptySeq
  <2>2. 1 \in 1..Len(r) /\ 1 \in 1..Len(h)
    BY <1>4, <1>5, <2>1
  <2> QED
    BY <1>5, <2>1, <2>2
<1>7. RingShape'
  <2>1. Plus(seen[q], 1) \in Idx
    <3>1. seen[q] \in Idx /\ 1 \in Idx
      BY Sizes DEF QueueInv, RingShape, Idx
    <3> QED
      BY <3>1, DistanceOfSum
  <2>2. seen' \in [Queues -> Idx]
    BY <1>1, <2>1 DEF QueueInv, RingShape
  <2>3. Len(Returned(q)') + Len(Waiting(q)') <= QueueSize
    <3>1. Len(Tail(r)) = Len(r) - 1
      BY <1>4, HeadTailProperties
    <3> HIDE DEF r, w, h
    <3>2. PICK a \in Nat, b \in Nat : a = Len(r) /\ b = Len(w) /\ a + b <= QueueSize
      BY <1>4
    <3>3. (a - 1) + b <= QueueSize
      BY <3>2, Sizes
    <3>4. Returned(q)' = Tail(r) /\ Waiting(q)' = w
      BY <1>3 DEF r, w
    <3> QED
      BY <3>1, <3>2, <3>3, <3>4
  <2>4. \A p \in Queues : Len(Returned(p)') + Len(Waiting(p)') <= QueueSize
    BY <1>3, <2>3 DEF QueueInv, RingShape
  <2> QED
    BY <1>2, <2>2, <2>4 DEF QueueInv, RingShape
<1>8. /\ desc' = [p \in Queues |-> desc'[p]]
      /\ desc'[q] = [desc[q] EXCEPT ![r[1]] = Nothing]
      /\ \A p \in Queues \ {q} : desc'[p] = desc[p]
  BY <1>1 DEF QueueInv, DescShape
<1>9. DescShape'
  <2>1. \A p \in Queues : Nothing \in Kept(p)
    BY DEF Kept, CommandContents, BufferContents, FrameContents
  <2>2. \A p \in Queues : Kept(p)' = Kept(p)
    BY <1>2 DEF Kept, IsNet
  <2> HIDE DEF r
  <2> QED
    BY <1>8, <2>1, <2>2 DEF QueueInv, DescShape
<1>10. ASSUME NEW p \in Queues
       PROVE  /\ \A i, j \in 1..Len(Held(p)') : Held(p)'[i] = Held(p)'[j] => i = j
              /\ \A i \in 1..Len(Held(p)') : desc'[p][Held(p)'[i]] # Nothing
  <2>1. CASE p # q
    <3>1. Held(p)' = Held(p) /\ desc'[p] = desc[p]
      BY <1>3, <1>8, <2>1 DEF Held
    <3> QED
      BY <3>1, HeldStays DEF QueueInv
  <2>2. CASE p = q
    <3>1. Held(q)' = Tail(r) \o w
      BY <1>3 DEF Held
    <3>2. /\ \A i, j \in 1..Len(h) : h[i] = h[j] => i = j
          /\ \A i \in 1..Len(h) : desc[q][h[i]] # Nothing
      BY DEF QueueInv, HeldOnce
    <3>3. desc[q] \in [Slots -> Kept(q)]
      BY DEF QueueInv, DescShape
    <3> HIDE DEF r, w, h
    <3>4. h # <<>>
      BY <1>4, <1>5, <1>6
    <3>5. Tail(r) \o w = Tail(h)
      BY <1>4, <1>6
    <3>6. /\ Len(Tail(h)) = Len(h) - 1
          /\ \A i \in 1..Len(Tail(h)) : Tail(h)[i] = h[i + 1]
      BY <1>5, <3>4, HeadTailProperties
    <3>7. \A i \in 1..Len(Tail(h)) : i + 1 \in 1..Len(h) /\ h[i + 1] # h[1] /\ 1 \in 1..Len(h)
      <4>1. PICK n \in Nat : n = Len(h) /\ n >= 1 /\ Len(Tail(h)) = n - 1
        BY <1>4, <1>5, <1>6, <3>6
      <4>2. \A i \in 1..(n - 1) : i + 1 \in 1..n /\ 1 \in 1..n /\ i + 1 # 1
        BY <4>1
      <4> QED
        BY <3>2, <4>1, <4>2
    <3>8. \A i, j \in 1..Len(Tail(h)) : Tail(h)[i] = Tail(h)[j] => i = j
      BY <3>2, <3>6, <3>7
    <3>9. \A i \in 1..Len(Tail(h)) : desc'[q][Tail(h)[i]] # Nothing
      BY <1>5, <1>6, <1>8, <3>2, <3>3, <3>6, <3>7
    <3>10. PICK t : t = Tail(h)
      OBVIOUS
    <3>11. /\ \A i, j \in 1..Len(t) : t[i] = t[j] => i = j
           /\ \A i \in 1..Len(t) : desc'[q][t[i]] # Nothing
      BY <3>8, <3>9, <3>10
    <3>12. Held(p)' = t
      BY <2>2, <3>1, <3>5, <3>10, Zenon
    <3> QED
      BY <2>2, <3>11, <3>12
  <2> QED
    BY <2>1, <2>2
<1> QED
  BY <1>1, <1>3, <1>7, <1>9, <1>10 DEF QueueInv, HeldOnce

\* Zeroed rings and indices hold nothing.
LEMMA FreshEmpty ==
  ASSUME NEW ring \in [Slots -> Slots]
  PROVE  Between(ring, 0, 0) = <<>> /\ Len(Between(ring, 0, 0)) = 0
<1>1. 0 \in Idx /\ 0 \in 0..QueueSize
  BY Sizes DEF Idx
<1>2. Plus(0, 0) = 0
  BY <1>1, Wraps, Sizes
<1>3. Between(ring, 0, Plus(0, 0)) \in Seq(Slots) /\ Len(Between(ring, 0, Plus(0, 0))) = 0
  BY <1>1, BetweenType
<1> QED
  BY <1>2, <1>3, EmptySeq

FreshQueues ==
  /\ avail = FreshAvail /\ used = FreshUsed /\ desc = FreshDesc
  /\ last_idxes = Zero /\ seen = Zero

LEMMA FreshHolds ==
  FreshQueues => QueueInv /\ \A q \in Queues : Returned(q) = <<>> /\ Waiting(q) = <<>>
<1> SUFFICES ASSUME FreshQueues
             PROVE  QueueInv /\ \A q \in Queues : Returned(q) = <<>> /\ Waiting(q) = <<>>
  OBVIOUS
<1> DEFINE zeros == [s \in Slots |-> 0]
<1>1. zeros \in [Slots -> Slots] /\ 0 \in Idx /\ 0 <= QueueSize
  BY Sizes DEF Slots, Idx
<1>2. \A q \in Queues : Returned(q) = <<>> /\ Waiting(q) = <<>>
  BY <1>1, FreshEmpty DEF FreshQueues, Returned, Waiting, FreshAvail, FreshUsed, Zero
<1>3. RingShape
  <2>1. /\ FreshAvail \in [Queues -> [idx : Idx, ring : [Slots -> Slots]]]
        /\ FreshUsed \in [Queues -> [idx : Idx, elems : [Slots -> Slots]]]
        /\ Zero \in [Queues -> Idx]
        /\ \A q \in Queues : FreshUsed[q].idx = Zero[q]
    BY <1>1 DEF FreshAvail, FreshUsed, Zero
  <2>2. ASSUME NEW q \in Queues PROVE Len(Returned(q)) + Len(Waiting(q)) <= QueueSize
    <3>1. Len(Returned(q)) = 0 /\ Len(Waiting(q)) = 0
      <4>1. Returned(q) = <<>> /\ Waiting(q) = <<>>
        BY <1>2
      <4> QED
        BY <4>1, EmptySeq
    <3> QED
      BY <1>1, <3>1
  <2> QED
    BY <2>1, <2>2 DEF FreshQueues, RingShape
<1>4. DescShape
  BY DEF FreshQueues, DescShape, FreshDesc, Kept, CommandContents, BufferContents,
         FrameContents
<1>5. HeldOnce
  <2>1. <<>> \o <<>> = <<>> /\ 1..Len(<<>>) = {}
    OBVIOUS
  <2>2. \A q \in Queues : Held(q) = <<>>
    BY <1>2, <2>1, Zenon DEF Held
  <2> QED
    BY <2>1, <2>2 DEF HeldOnce
<1> QED
  BY <1>2, <1>3, <1>4, <1>5 DEF QueueInv

LEMMA FreshKeeps ==
  ASSUME avail' = FreshAvail, used' = FreshUsed, desc' = FreshDesc,
         last_idxes' = Zero, seen' = Zero
  PROVE  QueueInv' /\ \A q \in Queues : Returned(q)' = <<>> /\ Waiting(q)' = <<>>
<1>1. FreshQueues'
  BY DEF FreshQueues
<1>2. (FreshQueues => QueueInv /\ \A q \in Queues : Returned(q) = <<>> /\ Waiting(q) = <<>>)'
  BY FreshHolds, PTL
<1> QED
  BY <1>1, <1>2

LEMMA QueueKeeps ==
  ASSUME QueueInv, UNCHANGED <<last_idxes, avail, used, desc, seen>>,
         virtio'.device_type = virtio.device_type
  PROVE  QueueInv' /\ \A q \in Queues : Returned(q)' = Returned(q) /\ Waiting(q)' = Waiting(q)
<1>1. \A q \in Queues : Returned(q)' = Returned(q) /\ Waiting(q)' = Waiting(q)
  BY QueueStays
<1>2. \A q \in Queues : Kept(q)' = Kept(q) /\ Held(q)' = Held(q)
  BY <1>1 DEF Kept, IsNet, Held
<1>3. RingShape'
  BY <1>1 DEF QueueInv, RingShape
<1>4. DescShape'
  BY <1>2 DEF QueueInv, DescShape
<1>5. HeldOnce'
  BY <1>2, HeldStays DEF QueueInv, HeldOnce
<1> QED
  BY <1>1, <1>3, <1>4, <1>5 DEF QueueInv

-----------------------------------------------------------------------------
(* What the device does to the queues. *)

Stops == {"none", "access", "ring", "packet", "chain", "command", "host"}

\* Packets, frames and flags.
PacketShape ==
  /\ arrived \in 0..MaxPackets /\ offers \in Nat
  /\ inbox \in Seq(1..MaxPackets)
  /\ IsNet => /\ outbox \in Seq(1..MaxFrames)
              /\ resources = <<>> /\ offers <= MaxFrames
  /\ panic \in Stops
  /\ irq \in BOOLEAN /\ handling \in BOOLEAN /\ astray \in BOOLEAN
  /\ kick \in [Queues -> BOOLEAN]

Shape == RegisterShape /\ QueueInv /\ PacketShape

\* A queue with buffers waiting has one, and the indices say so.
LEMMA WaitingLength ==
  ASSUME RingShape, NEW q \in Queues
  PROVE  /\ Len(Waiting(q)) \in Nat
         /\ Waiting(q) = <<>> <=> avail[q].idx = last_idxes[q]
         /\ Waiting(q) # <<>> => Len(Waiting(q)) >= 1
<1> DEFINE w == Waiting(q)
<1>1. /\ w \in Seq(Slots) /\ Len(w) \in Nat /\ Len(w) \in Idx
      /\ avail[q].idx = Plus(last_idxes[q], Len(w)) /\ last_idxes[q] \in Idx
  BY QueueFacts, Sizes DEF Idx
<1>2. w = <<>> <=> Len(w) = 0
  BY <1>1, EmptySeq
<1> HIDE DEF w
<1>3. PICK n \in Idx, l \in Idx : n = Len(w) /\ l = last_idxes[q]
  BY <1>1
<1>4. Plus(l, n) = l <=> n = 0
  BY Wraps, Sizes DEF Idx
<1> QED
  BY <1>1, <1>2, <1>3, <1>4 DEF w

\* What is held is in use.
LEMMA InUse ==
  ASSUME QueueInv, NEW q \in Queues
  PROVE  /\ \A i \in 1..Len(Returned(q)) :
              Returned(q)[i] \in Slots /\ desc[q][Returned(q)[i]] \in Kept(q) \ {Nothing}
         /\ \A i \in 1..Len(Waiting(q)) :
              Waiting(q)[i] \in Slots /\ desc[q][Waiting(q)[i]] \in Kept(q) \ {Nothing}
<1> DEFINE r == Returned(q)
           w == Waiting(q)
           h == Held(q)
<1>1. /\ Len(h) = Len(r) + Len(w) /\ Len(r) \in Nat /\ Len(w) \in Nat
      /\ \A i \in 1..Len(h) : h[i] \in Slots
      /\ \A i \in 1..Len(r) : h[i] = r[i]
      /\ \A i \in 1..Len(w) : h[Len(r) + i] = w[i]
  BY HeldType, QueueFacts DEF QueueInv
<1>2. \A i \in 1..Len(h) : desc[q][h[i]] # Nothing
  BY DEF QueueInv, HeldOnce
<1>3. desc[q] \in [Slots -> Kept(q)]
  BY DEF QueueInv, DescShape
<1> HIDE DEF r, w, h
<1>4. /\ \A i \in 1..Len(r) : i \in 1..Len(h)
      /\ \A i \in 1..Len(w) : Len(r) + i \in 1..Len(h)
  BY <1>1
<1>5. \A i \in 1..Len(r) : r[i] \in Slots /\ desc[q][r[i]] # Nothing
  BY <1>1, <1>2, <1>4
<1>6. \A i \in 1..Len(w) : w[i] \in Slots /\ desc[q][w[i]] # Nothing
  BY <1>1, <1>2, <1>4
<1> QED
  BY <1>3, <1>5, <1>6 DEF r, w

\* The buffers of the transmit queue that wait are frames or chains.
LEMMA FramesWait ==
  ASSUME Shape, IsNet, Chained \notin Range(Contents(TRANSMIT, Waiting(TRANSMIT)))
  PROVE  Numbers(TRANSMIT, Waiting(TRANSMIT)) \in Seq(1..MaxFrames)
<1> DEFINE w == Waiting(TRANSMIT)
<1>1. TRANSMIT \in Queues /\ TRANSMIT # RECEIVE
  BY DEF TRANSMIT, RECEIVE, Queues
<1>2. /\ w \in Seq(Slots) /\ Len(w) \in Nat /\ DOMAIN w = 1..Len(w)
      /\ \A i \in 1..Len(w) : w[i] \in Slots
  BY <1>1, QueueFacts, LenProperties, ElementOfSeq DEF Shape, QueueInv
<1>3. desc[TRANSMIT] \in [Slots -> FrameContents]
  BY <1>1 DEF Shape, QueueInv, DescShape, Kept
<1>4. ASSUME NEW i \in 1..Len(w) PROVE desc[TRANSMIT][w[i]].n \in 1..MaxFrames
  <2>1. desc[TRANSMIT][w[i]] # Chained
    BY <1>2 DEF Range, Contents
  <2>2. desc[TRANSMIT][w[i]] # Nothing
    BY <1>1, InUse DEF Shape
  <2>3. desc[TRANSMIT][w[i]] \in FrameContents
    BY <1>2, <1>3
  <2> QED
    BY <2>1, <2>2, <2>3 DEF FrameContents
<1>5. Numbers(TRANSMIT, w) = [i \in 1..Len(w) |-> desc[TRANSMIT][w[i]].n]
  BY <1>2 DEF Numbers
<1>6. Numbers(TRANSMIT, w) \in [1..Len(w) -> 1..MaxFrames]
  BY <1>4, <1>5
<1>7. PICK n \in Nat : n = Len(w)
  BY <1>2
<1>8. PICK s \in [1..n -> 1..MaxFrames] : s = Numbers(TRANSMIT, w)
  BY <1>6, <1>7
<1>9. s \in Seq(1..MaxFrames)
  BY SeqDef
<1> QED
  BY <1>8, <1>9

\* A notification: the device does nothing, stops, or serves all that waits.
NotifyServes(q) ==
  /\ q \in Queues /\ Waiting(q) # <<>> /\ Serve(q, Len(Waiting(q)))
  /\ irq' = TRUE /\ panic' = panic
  /\ IsNet => /\ q = TRANSMIT /\ UNCHANGED resources
              /\ Chained \notin Range(Contents(q, Waiting(q)))
              /\ outbox' = outbox \o Numbers(q, Waiting(q))

LEMMA NotifyEffect ==
  ASSUME NEW q \in Queues \cup {2}, DeviceNotify(q)
  PROVE  /\ UNCHANGED <<virtio, gen, avail, desc, inbox, host>>
         /\ \/ /\ UNCHANGED <<last_idxes, used, outbox, irq, resources>>
               /\ panic' \in {panic, "access", "ring", "chain", "command", "host"}
            \/ NotifyServes(q)
<1>1. CASE IsNet /\ NetNotify(q) /\ UNCHANGED resources
  <2>1. CASE NetNotifyIdle(q)
    BY <1>1, <2>1 DEF NetNotifyIdle, queueVars, memory, channels
  <2>2. CASE NetNotifyPanic(q)
    BY <1>1, <2>2 DEF NetNotifyPanic, Stop, memory, channels
  <2>3. CASE NetTransmit(q)
    <3>1. /\ q = TRANSMIT /\ Waiting(q) # <<>>
          /\ Chained \notin Range(Contents(q, Waiting(q)))
          /\ outbox' = outbox \o Numbers(q, Waiting(q))
          /\ Serve(q, Len(Waiting(q))) /\ irq' = TRUE
          /\ UNCHANGED <<virtio, gen, avail, desc, inbox, host, panic>>
      BY <2>3 DEF NetTransmit, ToTransmit, Numbers, Interrupting
    <3> QED
      BY <1>1, <3>1 DEF NotifyServes, TRANSMIT, Queues
  <2> QED
    BY <1>1, <2>1, <2>2, <2>3 DEF NetNotify
<1>2. CASE ~IsNet /\ GpuNotify(q)
  <2>1. CASE GpuNotifyIdle(q)
    BY <2>1 DEF GpuNotifyIdle, queueVars, memory, channels
  <2>2. CASE GpuNotifyPanic(q)
    BY <2>2 DEF GpuNotifyPanic, Stop, memory, channels
  <2>3. CASE GpuServe(q)
    <3>1. /\ q = CONTROL /\ Waiting(q) # <<>>
          /\ Serve(q, Len(Waiting(q))) /\ irq' = TRUE
          /\ UNCHANGED <<virtio, gen, avail, desc, inbox, host, panic>>
      BY <2>3 DEF GpuServe, Interrupting
    <3> QED
      BY <1>2, <3>1 DEF NotifyServes, CONTROL, Queues
  <2> QED
    BY <1>2, <2>1, <2>2, <2>3 DEF GpuNotify
<1> QED
  BY <1>1, <1>2 DEF DeviceNotify

LEMMA NotifyKeeps ==
  ASSUME Shape, NEW q \in Queues \cup {2}, DeviceNotify(q), UNCHANGED seen
  PROVE  /\ QueueInv' /\ \A p \in Queues : Held(p)' = Held(p)
         /\ IsNet => outbox' \in Seq(1..MaxFrames) /\ UNCHANGED resources
         /\ irq' \in BOOLEAN /\ panic' \in Stops
         /\ UNCHANGED <<virtio, gen, avail, desc, inbox, host>>
<1>1. UNCHANGED <<virtio, gen, avail, desc, inbox, host>>
  BY NotifyEffect
<1>2. CASE /\ UNCHANGED <<last_idxes, used, outbox, irq, resources>>
           /\ panic' \in {panic, "access", "ring", "chain", "command", "host"}
  <2>1. QueueInv' /\ \A p \in Queues : Held(p)' = Held(p)
    BY <1>1, <1>2, QueueKeeps DEF Shape, Held
  <2>2. panic' \in Stops
    BY <1>2 DEF Shape, PacketShape, Stops
  <2> QED
    BY <1>1, <1>2, <2>1, <2>2 DEF Shape, PacketShape
<1>3. CASE NotifyServes(q)
  <2>1. /\ q \in Queues /\ Serve(q, Len(Waiting(q))) /\ irq' = TRUE /\ panic' = panic
        /\ Len(Waiting(q)) \in 0..Len(Waiting(q))
    <3>1. q \in Queues /\ Serve(q, Len(Waiting(q))) /\ irq' = TRUE /\ panic' = panic
      BY <1>3 DEF NotifyServes
    <3>2. Len(Waiting(q)) \in Nat
      BY <3>1, WaitingLength DEF Shape, QueueInv
    <3> QED
      BY <3>1, <3>2
  <2>2. DescShape'
    BY <1>1 DEF Shape, QueueInv, DescShape, Kept, IsNet
  <2>3. QueueInv' /\ \A p \in Queues : Held(p)' = Held(p)
    BY <1>1, <2>1, <2>2, ServeKeeps DEF Shape
  <2>4. IsNet => outbox' \in Seq(1..MaxFrames) /\ UNCHANGED resources
    <3> SUFFICES ASSUME IsNet PROVE outbox' \in Seq(1..MaxFrames) /\ UNCHANGED resources
      OBVIOUS
    <3>1. Numbers(TRANSMIT, Waiting(TRANSMIT)) \in Seq(1..MaxFrames)
      BY <1>3, FramesWait DEF NotifyServes
    <3>2. outbox \in Seq(1..MaxFrames)
      BY DEF Shape, PacketShape
    <3>3. PICK s \in Seq(1..MaxFrames), t \in Seq(1..MaxFrames) :
            s = outbox /\ t = Numbers(TRANSMIT, Waiting(TRANSMIT))
      BY <3>1, <3>2
    <3>4. s \o t \in Seq(1..MaxFrames)
      BY ConcatProperties
    <3>5. outbox' = outbox \o Numbers(TRANSMIT, Waiting(TRANSMIT)) /\ UNCHANGED resources
      BY <1>3 DEF NotifyServes
    <3> QED
      BY <3>3, <3>4, <3>5
  <2> QED
    BY <1>1, <2>1, <2>3, <2>4 DEF Shape, PacketShape
<1> QED
  BY <1>2, <1>3, NotifyEffect

\* A packet that is delivered goes into the first buffer that waits.
LEMMA DeliverEffect ==
  ASSUME Shape, IsNet, NetDeliver, UNCHANGED seen
  PROVE  /\ QueueInv' /\ \A q \in Queues : Held(q)' = Held(q)
         /\ Waiting(RECEIVE) # <<>> /\ inbox # <<>>
         /\ Waiting(RECEIVE)[1] \in Slots
         /\ desc'[RECEIVE] = [desc[RECEIVE] EXCEPT ![Waiting(RECEIVE)[1]].n = Head(inbox)]
         /\ \A q \in Queues \ {RECEIVE} : desc'[q] = desc[q]
         /\ Returned(RECEIVE)' = Append(Returned(RECEIVE), Waiting(RECEIVE)[1])
         /\ Waiting(RECEIVE)' = Tail(Waiting(RECEIVE))
         /\ \A q \in Queues \ {RECEIVE} :
              Returned(q)' = Returned(q) /\ Waiting(q)' = Waiting(q)
<1> DEFINE w == Waiting(RECEIVE)
           r == Returned(RECEIVE)
<1>1. /\ inbox # <<>> /\ avail[RECEIVE].idx # last_idxes[RECEIVE]
      /\ desc' = [desc EXCEPT ![RECEIVE][w[1]].n = Head(inbox)]
      /\ Serve(RECEIVE, 1)
      /\ UNCHANGED <<virtio, avail>>
  BY DEF NetDeliver, NetTickable, NextPacket
<1>2. RECEIVE \in Queues
  BY DEF RECEIVE, Queues
<1>3. w # <<>> /\ Len(w) >= 1 /\ w \in Seq(Slots) /\ r \in Seq(Slots)
  BY <1>1, <1>2, WaitingLength, QueueFacts DEF Shape, QueueInv
<1>4. 1 \in 1..Len(w) /\ 1 \in 0..Len(w) /\ Len(w) \in Nat
  BY <1>3
<1>5. Head(inbox) \in 0..MaxPackets
  <2>1. inbox \in Seq(1..MaxPackets)
    BY DEF Shape, PacketShape
  <2>2. Head(inbox) \in 1..MaxPackets
    BY <1>1, <2>1, HeadTailProperties
  <2> QED
    BY <2>2, BoundsAssumption
<1>6. /\ desc'[RECEIVE] = [desc[RECEIVE] EXCEPT ![w[1]].n = Head(inbox)]
      /\ \A q \in Queues \ {RECEIVE} : desc'[q] = desc[q]
      /\ desc' = [q \in Queues |-> desc'[q]]
  BY <1>1, <1>2 DEF Shape, QueueInv, DescShape
<1>7. w[1] \in Slots /\ desc[RECEIVE][w[1]] \in [op : {"Buffer"}, n : 0..MaxPackets]
  <2>1. w[1] \in Slots /\ desc[RECEIVE][w[1]] \in Kept(RECEIVE) \ {Nothing}
    BY <1>2, <1>4, InUse DEF Shape
  <2> HIDE DEF w
  <2> QED
    BY <2>1 DEF Kept, BufferContents
<1>8. \A q \in Queues : desc[q] \in [Slots -> Kept(q)]
  BY DEF Shape, QueueInv, DescShape
<1>9. Kept(RECEIVE) = BufferContents /\ \A q \in Queues : Kept(q)' = Kept(q)
  BY <1>1 DEF Kept, IsNet
<1> HIDE DEF w
<1>10. [desc[RECEIVE][w[1]] EXCEPT !.n = Head(inbox)] \in [op : {"Buffer"}, n : 0..MaxPackets]
  BY <1>5, <1>7
<1>11. desc'[RECEIVE] = [desc[RECEIVE] EXCEPT ![w[1]] =
                           [desc[RECEIVE][w[1]] EXCEPT !.n = Head(inbox)]]
  BY <1>6
<1>12. DescShape'
  <2>1. desc'[RECEIVE] \in [Slots -> Kept(RECEIVE)]
    <3>1. [desc[RECEIVE][w[1]] EXCEPT !.n = Head(inbox)] \in Kept(RECEIVE)
      BY <1>9, <1>10 DEF BufferContents
    <3> QED
      BY <1>2, <1>8, <1>11, <3>1
  <2>2. \A q \in Queues : desc'[q] \in [Slots -> Kept(q)]
    BY <1>6, <1>8, <2>1
  <2> QED
    BY <1>6, <1>9, <2>2 DEF DescShape
<1>13. ASSUME NEW q \in Queues, NEW s \in Slots, desc[q][s] # Nothing
       PROVE  desc'[q][s] # Nothing
  <2>1. CASE q = RECEIVE /\ s = w[1]
    <3>1. desc'[q][s] \in [op : {"Buffer"}, n : 0..MaxPackets]
      BY <1>7, <1>8, <1>10, <1>11, <2>1
    <3>2. desc'[q][s].op = "Buffer" /\ Nothing.op = "None"
      BY <3>1 DEF Nothing
    <3> QED
      BY <3>2
  <2>2. CASE q = RECEIVE /\ s # w[1]
    BY <1>8, <1>11, <1>13, <2>2
  <2>3. CASE q # RECEIVE
    BY <1>6, <1>13, <2>3
  <2> QED
    BY <2>1, <2>2, <2>3
<1>14. QueueInv' /\ \A q \in Queues : Held(q)' = Held(q)
  BY <1>1, <1>2, <1>4, <1>12, <1>13, ServeKeeps DEF Shape, w
<1>15. /\ Returned(RECEIVE)' = r \o SubSeq(w, 1, 1)
       /\ Waiting(RECEIVE)' = SubSeq(w, 1 + 1, Len(w))
       /\ \A q \in Queues \ {RECEIVE} : Returned(q)' = Returned(q) /\ Waiting(q)' = Waiting(q)
  BY <1>1, <1>2, <1>4, ServeEffect DEF Shape, QueueInv, w
<1>16. SubSeq(w, 1, 1) = <<w[1]>> /\ SubSeq(w, 1 + 1, Len(w)) = Tail(w)
  <2>1. SubSeq(w, 1 + 1, Len(w)) = Tail(w)
    BY <1>3, TailIsSubSeq
  <2>2. SubSeq(w, 1, 1) = <<w[1]>>
    <3>1. /\ SubSeq(w, 1, 1) \in Seq(Slots) /\ Len(SubSeq(w, 1, 1)) = 1
          /\ SubSeq(w, 1, 1)[1] = w[1]
      <4>1. \A i \in 1..1 : w[i] \in Slots
        BY <1>7
      <4>2. /\ SubSeq(w, 1, 1) \in Seq(Slots)
            /\ Len(SubSeq(w, 1, 1)) = IF 1 <= 1 THEN 1 - 1 + 1 ELSE 0
            /\ \A i \in 1..(1 - 1 + 1) : SubSeq(w, 1, 1)[i] = w[1 + i - 1]
        BY <1>3, <4>1, SubSeqProperties
      <4> QED
        BY <4>2
    <3>2. PICK s \in Seq(Slots) : s = SubSeq(w, 1, 1)
      BY <3>1
    <3>3. <<w[1]>> \in Seq(Slots) /\ Len(<<w[1]>>) = 1 /\ <<w[1]>>[1] = w[1]
      BY <1>7
    <3>4. s = <<w[1]>>
      <4>1. Len(s) = 1 /\ s[1] = w[1]
        BY <3>1, <3>2
      <4> QED
        BY <3>3, <4>1, SeqEqual
    <3> QED
      BY <3>2, <3>4
  <2> QED
    BY <2>1, <2>2
<1>17. r \o <<w[1]>> = Append(r, w[1])
  BY <1>3, <1>7, AppendIsConcat
<1> QED
  BY <1>1, <1>3, <1>6, <1>7, <1>14, <1>15, <1>16, <1>17 DEF w, r

-----------------------------------------------------------------------------
(* Every step keeps the shape. *)

\* What the driver puts into a descriptor is one of the contents kept.
LEMMA ContentsFit ==
  /\ IsNet => EmptyBuffer \in Kept(RECEIVE) \ {Nothing}
  /\ IsNet => Chained \in Kept(TRANSMIT) \ {Nothing}
  /\ IsNet /\ offers \in Nat /\ offers < MaxFrames =>
       Frame(offers + 1) \in Kept(TRANSMIT) \ {Nothing}
  /\ ~IsNet => \A cmd \in Commands \cup Unsupported : cmd \in Kept(CONTROL) \ {Nothing}
<1>1. EmptyBuffer \in BufferContents \ {Nothing}
  <2>1. EmptyBuffer.op = "Buffer" /\ Nothing.op = "None"
    BY DEF EmptyBuffer, Nothing
  <2>2. EmptyBuffer \in BufferContents
    BY BoundsAssumption DEF EmptyBuffer, BufferContents
  <2>3. EmptyBuffer # Nothing
    BY <2>1
  <2> QED
    BY <2>2, <2>3
<1>2. Chained \in FrameContents \ {Nothing}
  <2>1. Chained.op = "Chained" /\ Nothing.op = "None"
    BY DEF Chained, Nothing
  <2>2. Chained # Nothing
    BY <2>1
  <2> QED
    BY <2>2 DEF FrameContents
<1>3. ASSUME offers \in Nat, offers < MaxFrames
      PROVE  Frame(offers + 1) \in FrameContents \ {Nothing}
  <2>1. Frame(offers + 1).op = "Frame" /\ Nothing.op = "None"
    BY DEF Frame, Nothing
  <2>2. Frame(offers + 1) # Nothing
    BY <2>1
  <2>3. offers + 1 \in 1..MaxFrames
    BY <1>3, BoundsAssumption
  <2> QED
    BY <2>2, <2>3 DEF Frame, FrameContents
<1>4. ASSUME NEW cmd \in Commands \cup Unsupported
      PROVE  cmd \in CommandContents \ {Nothing}
  <2>1. cmd.op # "None"
    BY <1>4 DEF Commands, Unsupported, GetDisplayInfo, Create2D, Attach, SetScanout,
                Transfer, Flush
  <2>2. Nothing.op = "None"
    BY DEF Nothing
  <2>3. cmd # Nothing
    BY <2>1, <2>2
  <2> QED
    BY <1>4, <2>3 DEF CommandContents
<1>5. TRANSMIT # RECEIVE
  BY DEF TRANSMIT, RECEIVE
<1> QED
  BY <1>1, <1>2, <1>3, <1>4, <1>5 DEF Kept

\* What the parts of the shape depend on beside the queues.
LEMMA PacketsKeep ==
  ASSUME PacketShape, virtio'.device_type = virtio.device_type,
         UNCHANGED <<inbox, outbox, resources, offers, arrived, irq, handling, kick>>,
         panic' \in Stops, astray' \in BOOLEAN
  PROVE  PacketShape'
BY DEF PacketShape, IsNet

LEMMA InitShape == Init => Shape
<1> SUFFICES ASSUME Init PROVE Shape
  OBVIOUS
<1>1. FreshQueues
  BY DEF Init, FreshQueues
<1>2. QueueInv
  BY <1>1, FreshHolds
<1>3. RegisterShape
  BY NewFits DEF Init, RegisterShape
<1>4. PacketShape
  <2>1. arrived \in 0..MaxPackets /\ offers \in Nat /\ offers <= MaxFrames
    BY BoundsAssumption DEF Init
  <2>2. inbox \in Seq(1..MaxPackets) /\ outbox \in Seq(1..MaxFrames)
    <3>1. <<>> \in Seq(1..MaxPackets) /\ <<>> \in Seq(1..MaxFrames)
      OBVIOUS
    <3> QED
      BY <3>1 DEF Init
  <2>3. /\ irq \in BOOLEAN /\ handling \in BOOLEAN /\ astray \in BOOLEAN
        /\ kick \in [Queues -> BOOLEAN]
    BY DEF Init
  <2>4. panic \in Stops /\ resources = <<>>
    BY DEF Init, Stops
  <2> QED
    BY <2>1, <2>2, <2>3, <2>4 DEF PacketShape
<1> QED
  BY <1>2, <1>3, <1>4 DEF Shape

LEMMA RegistersKeep ==
  ASSUME RegisterShape, UNCHANGED <<gen, pos, virtio>>
  PROVE  RegisterShape'
BY DEF RegisterShape

LEMMA AccessShape ==
  ASSUME Shape, Access
  PROVE  Shape' /\ virtio'.device_type = virtio.device_type
<1>1. /\ UNCHANGED <<beside, resources, kick, seen, handling, backing, current, astray, counts>>
      /\ pos' = pos + 1 /\ pos \in 1..Len(SetUp)
      /\ virtio' \in Registers(gen) /\ virtio'.device_type = virtio.device_type
      /\ panic' \in {panic, "access"}
  BY AccessEffect DEF Shape
<1>2. QueueInv'
  BY <1>1, QueueKeeps DEF Shape, beside, memory
<1>3. RegisterShape'
  <2>1. gen' = gen /\ gen \in Nat /\ pos \in Nat /\ (pos > 0 => gen > 0)
    BY <1>1 DEF Shape, RegisterShape, beside, memory
  <2>2. pos \in Nat /\ pos > 0 /\ pos' \in Nat
    BY <1>1, <2>1
  <2> QED
    BY <1>1, <2>1, <2>2 DEF RegisterShape
<1>4. PacketShape'
  <2>1. panic' \in Stops /\ astray' \in BOOLEAN
    BY <1>1 DEF Shape, PacketShape, Stops
  <2> QED
    BY <1>1, <2>1, PacketsKeep DEF Shape, beside, channels, counts
<1> QED
  BY <1>1, <1>2, <1>3, <1>4 DEF Shape

\* A reset builds the register file of the same device anew.
LEMMA ResetEffect ==
  ASSUME RegisterShape, Reset
  PROVE  /\ virtio' = New(virtio.device_type) /\ last_idxes' = Zero
         /\ avail' = FreshAvail /\ used' = FreshUsed /\ desc' = FreshDesc /\ seen' = Zero
         /\ gen' = gen + 1 /\ pos' = 1 /\ astray' = FALSE
         /\ kick' = [q \in Queues |-> FALSE]
         /\ ~handling
         /\ IsNet => UNCHANGED resources
         /\ UNCHANGED <<channels, irq, panic, handling, counts>>
         /\ virtio'.device_type = virtio.device_type
<1>1. virtio.device_type \in {"Network", "Gpu"}
  BY DEF RegisterShape, Registers
<1>2. virtio' = New(virtio.device_type) /\ last_idxes' = Zero
  BY <1>1 DEF Reset, NetReset, GpuReset, IsNet
<1>3. virtio'.device_type = virtio.device_type
  BY <1>1, <1>2, NewFits DEF RegisterShape
<1> QED
  BY <1>2, <1>3 DEF Reset

LEMMA ResetShape ==
  ASSUME Shape, Reset
  PROVE  Shape' /\ virtio'.device_type = virtio.device_type
<1>1. /\ virtio' = New(virtio.device_type) /\ last_idxes' = Zero
      /\ avail' = FreshAvail /\ used' = FreshUsed /\ desc' = FreshDesc /\ seen' = Zero
      /\ gen' = gen + 1 /\ pos' = 1 /\ astray' = FALSE
      /\ kick' = [q \in Queues |-> FALSE]
      /\ IsNet => UNCHANGED resources
      /\ UNCHANGED <<channels, irq, panic, handling, counts>>
      /\ virtio'.device_type = virtio.device_type
  BY ResetEffect DEF Shape
<1>2. QueueInv'
  BY <1>1, FreshKeeps
<1>3. RegisterShape'
  <2>1. gen' \in Nat /\ gen' > 0 /\ pos' \in Nat
    BY <1>1 DEF Shape, RegisterShape
  <2>2. virtio.device_type \in {"Network", "Gpu"}
    BY DEF Shape, RegisterShape, Registers
  <2>3. virtio' \in Registers(gen')
    BY <1>1, <2>1, <2>2, NewFits
  <2> QED
    BY <2>1, <2>3 DEF RegisterShape
<1>4. PacketShape'
  BY <1>1 DEF Shape, PacketShape, IsNet, channels, counts
<1> QED
  BY <1>1, <1>2, <1>3, <1>4 DEF Shape

LEMMA OfferShape ==
  ASSUME Shape, NEW q \in Queues, NEW id \in Slots, NEW content \in Kept(q) \ {Nothing},
         Offer(q, id, content), offers' \in Nat, IsNet => offers' <= MaxFrames,
         astray' \in BOOLEAN
  PROVE  Shape' /\ virtio'.device_type = virtio.device_type
<1>1. /\ UNCHANGED <<virtio, gen, pos, channels, irq, panic, resources, handling, arrived>>
      /\ kick' = [kick EXCEPT ![q] = ~IsNet \/ q = TRANSMIT]
  BY DEF Offer
<1>2. QueueInv'
  BY OfferKeeps DEF Shape
<1>3. RegisterShape'
  BY <1>1, RegistersKeep DEF Shape
<1>4. kick' \in [Queues -> BOOLEAN]
  <2>1. kick \in [Queues -> BOOLEAN] /\ (~IsNet \/ q = TRANSMIT) \in BOOLEAN
    BY DEF Shape, PacketShape
  <2>2. PICK b \in BOOLEAN : b = (~IsNet \/ q = TRANSMIT)
    BY <2>1
  <2> QED
    BY <1>1, <2>1, <2>2
<1>5. PacketShape'
  BY <1>1, <1>4 DEF Shape, PacketShape, IsNet, channels
<1> QED
  BY <1>1, <1>2, <1>3, <1>5 DEF Shape

LEMMA OffersShape ==
  ASSUME Shape, OfferReceive \/ OfferTransmit \/ OfferCommand \/ OfferAstray
  PROVE  Shape' /\ virtio'.device_type = virtio.device_type
<1>1. RECEIVE \in Queues /\ TRANSMIT \in Queues /\ CONTROL \in Queues
  BY DEF RECEIVE, TRANSMIT, CONTROL, Queues
<1>2. /\ offers \in Nat /\ MaxFrames \in Nat /\ astray \in BOOLEAN
      /\ IsNet => offers <= MaxFrames
  BY BoundsAssumption DEF Shape, PacketShape
<1>3. CASE OfferReceive
  <2>1. IsNet /\ offers' = offers /\ astray' = astray
    BY <1>3 DEF OfferReceive
  <2>2. PICK id \in Slots : Offer(RECEIVE, id, EmptyBuffer)
    BY <1>3 DEF OfferReceive
  <2> QED
    BY <1>1, <1>2, <2>1, <2>2, ContentsFit, OfferShape
<1>4. CASE OfferTransmit
  <2>1. IsNet /\ offers < MaxFrames /\ offers' = offers + 1 /\ astray' = astray
    BY <1>4 DEF OfferTransmit
  <2>2. PICK id \in Slots : Offer(TRANSMIT, id, Frame(offers + 1))
    BY <1>4 DEF OfferTransmit
  <2>3. offers' \in Nat /\ offers' <= MaxFrames
    BY <1>2, <2>1
  <2> QED
    BY <1>1, <1>2, <2>1, <2>2, <2>3, ContentsFit, OfferShape
<1>5. CASE OfferCommand
  <2>1. ~IsNet /\ offers' = offers + 1 /\ astray' = astray
    BY <1>5 DEF OfferCommand
  <2>2. PICK id \in Slots, cmd \in Commands : Offer(CONTROL, id, cmd)
    BY <1>5 DEF OfferCommand
  <2>3. offers' \in Nat
    BY <1>2, <2>1
  <2> QED
    BY <1>1, <1>2, <2>1, <2>2, <2>3, ContentsFit, OfferShape
<1>6. CASE OfferAstray
  <2>1. /\ offers' = offers + 1 /\ astray' = TRUE
        /\ offers < IF IsNet THEN MaxFrames ELSE MaxCommands
    BY <1>6 DEF OfferAstray
  <2>2. offers' \in Nat /\ (IsNet => offers' <= MaxFrames)
    BY <1>2, <2>1
  <2>3. PICK id \in Slots :
          \/ IsNet /\ Offer(TRANSMIT, id, Chained)
          \/ ~IsNet /\ \E cmd \in Unsupported \cup {Transfer(r) : r \in Resources \ DOMAIN backing} :
               Offer(CONTROL, id, cmd)
    BY <1>6 DEF OfferAstray
  <2>4. CASE IsNet /\ Offer(TRANSMIT, id, Chained)
    BY <1>1, <2>1, <2>2, <2>4, ContentsFit, OfferShape
  <2>5. CASE ~IsNet /\ \E cmd \in Unsupported \cup {Transfer(r) : r \in Resources \ DOMAIN backing} :
               Offer(CONTROL, id, cmd)
    <3>1. PICK cmd \in Commands \cup Unsupported : Offer(CONTROL, id, cmd)
      BY <2>5 DEF Commands
    <3> QED
      BY <1>1, <2>1, <2>2, <2>5, <3>1, ContentsFit, OfferShape
  <2> QED
    BY <2>3, <2>4, <2>5
<1> QED
  BY <1>3, <1>4, <1>5, <1>6

\* Both ways a notification comes about.
LEMMA NotifyShape ==
  ASSUME Shape, NEW q \in Queues \cup {2}, DeviceNotify(q),
         UNCHANGED <<pos, seen, handling, counts>>,
         kick' \in [Queues -> BOOLEAN], astray' \in BOOLEAN
  PROVE  Shape' /\ virtio'.device_type = virtio.device_type
<1>1. /\ QueueInv'
      /\ IsNet => outbox' \in Seq(1..MaxFrames) /\ UNCHANGED resources
      /\ irq' \in BOOLEAN /\ panic' \in Stops
      /\ UNCHANGED <<virtio, gen, avail, desc, inbox, host>>
  BY NotifyKeeps
<1>2. RegisterShape'
  BY <1>1, RegistersKeep DEF Shape
<1>3. PacketShape'
  BY <1>1 DEF Shape, PacketShape, IsNet, counts
<1> QED
  BY <1>1, <1>2, <1>3 DEF Shape

LEMMA NotifyActionShape ==
  ASSUME Shape, Notify
  PROVE  Shape' /\ virtio'.device_type = virtio.device_type
<1>1. PICK q \in Queues : DeviceNotify(q) /\ kick' = [kick EXCEPT ![q] = FALSE]
  BY DEF Notify
<1>2. UNCHANGED <<pos, seen, handling, counts, astray>>
  BY DEF Notify
<1>3. kick' \in [Queues -> BOOLEAN] /\ astray' \in BOOLEAN
  BY <1>1, <1>2 DEF Shape, PacketShape
<1> QED
  BY <1>1, <1>2, <1>3, NotifyShape

LEMMA HandlerShape ==
  ASSUME Shape, Interrupted \/ Collect \/ HandlerEnds
  PROVE  Shape' /\ virtio'.device_type = virtio.device_type
<1>1. /\ UNCHANGED <<virtio, gen, pos, inbox, outbox, resources, offers, arrived, panic,
                     astray, kick>>
      /\ irq' \in BOOLEAN /\ handling' \in BOOLEAN
  <2>1. irq \in BOOLEAN /\ handling \in BOOLEAN
    BY DEF Shape, PacketShape
  <2>2. CASE Interrupted
    BY <2>2 DEF Interrupted, memory, channels, counts
  <2>3. CASE Collect
    BY <2>1, <2>3 DEF Collect, channels
  <2>4. CASE HandlerEnds
    BY <2>1, <2>4 DEF HandlerEnds, queueVars, memory, channels, counts
  <2> QED
    BY <2>2, <2>3, <2>4
<1>2. QueueInv'
  <2>1. CASE Interrupted
    BY <2>1, QueueKeeps DEF Shape, Interrupted, memory
  <2>2. CASE Collect
    BY <2>2, CollectKeeps DEF Shape
  <2>3. CASE HandlerEnds
    BY <2>3, QueueKeeps DEF Shape, HandlerEnds, queueVars, memory
  <2> QED
    BY <2>1, <2>2, <2>3
<1>3. RegisterShape'
  BY <1>1, RegistersKeep DEF Shape
<1>4. PacketShape'
  BY <1>1 DEF Shape, PacketShape, IsNet
<1> QED
  BY <1>1, <1>2, <1>3, <1>4 DEF Shape

LEMMA GoAstrayShape ==
  ASSUME Shape, GoAstray
  PROVE  Shape' /\ virtio'.device_type = virtio.device_type
<1>1. UNCHANGED <<pos, seen, handling, counts>> /\ astray' = TRUE
  BY AstrayEffect DEF Shape
<1>2. CASE /\ UNCHANGED <<beside, resources, kick>>
           /\ virtio' \in Registers(gen) /\ virtio'.device_type = virtio.device_type
           /\ panic' \in {panic, "access"}
  <2>1. QueueInv'
    BY <1>1, <1>2, QueueKeeps DEF Shape, beside, memory
  <2>2. RegisterShape'
    BY <1>1, <1>2 DEF Shape, RegisterShape, beside, memory
  <2>3. panic' \in Stops /\ astray' \in BOOLEAN
    BY <1>1, <1>2 DEF Shape, PacketShape, Stops
  <2>4. PacketShape'
    BY <1>1, <1>2, <2>3, PacketsKeep DEF Shape, beside, channels, counts
  <2> QED
    BY <1>2, <2>1, <2>2, <2>4 DEF Shape
<1>3. CASE \E q \in Queues \cup {2} : DeviceNotify(q) /\ UNCHANGED kick
  <2>1. kick' \in [Queues -> BOOLEAN] /\ astray' \in BOOLEAN
    BY <1>1, <1>3 DEF Shape, PacketShape
  <2> QED
    BY <1>1, <1>3, <2>1, NotifyShape
<1> QED
  BY <1>2, <1>3, AstrayEffect DEF Shape

\* A tick drops the oldest packet, stops, or delivers it.
LEMMA TickEffect ==
  ASSUME Shape, Tick
  PROVE  /\ IsNet /\ panic = "none"
         /\ UNCHANGED <<virtio, gen, avail, outbox, host, resources, driver, counts>>
         /\ \/ /\ Waiting(RECEIVE) = <<>> \/ panic' # panic
               /\ panic' \in {panic, "ring", "packet"}
               /\ inbox' = IF panic' = panic THEN Tail(inbox) ELSE inbox
               /\ inbox # <<>>
               /\ UNCHANGED <<last_idxes, used, desc, irq>>
            \/ NetDeliver
<1>1. IsNet /\ panic = "none" /\ NetTick /\ UNCHANGED <<resources, driver, counts>>
  BY DEF Tick, Running
<1>2. CASE NetDrop
  <2>1. Waiting(RECEIVE) = <<>>
    <3>1. RECEIVE \in Queues
      BY DEF RECEIVE, Queues
    <3> QED
      BY <1>2, <3>1, WaitingLength DEF NetDrop, Shape, QueueInv
  <2> QED
    BY <1>1, <1>2, <2>1 DEF NetDrop, NetTickable, memory
<1>3. CASE NetTickPanic
  BY <1>1, <1>3 DEF NetTickPanic, NetTickable, Stop, memory, channels
<1>4. CASE NetDeliver
  BY <1>1, <1>4 DEF NetDeliver
<1> QED
  BY <1>1, <1>2, <1>3, <1>4 DEF NetTick

LEMMA TickShape ==
  ASSUME Shape, Tick
  PROVE  Shape' /\ virtio'.device_type = virtio.device_type
<1>1. /\ IsNet
      /\ UNCHANGED <<virtio, gen, avail, outbox, host, resources, driver, counts>>
  BY TickEffect
<1>2. inbox \in Seq(1..MaxPackets)
  BY <1>1 DEF Shape, PacketShape
<1>3. /\ QueueInv' /\ inbox # <<>> /\ inbox' \in {inbox, Tail(inbox)}
      /\ irq' \in BOOLEAN /\ panic' \in Stops
  <2>1. irq \in BOOLEAN /\ panic \in Stops
    BY DEF Shape, PacketShape
  <2>2. CASE /\ panic' \in {panic, "ring", "packet"}
             /\ inbox' = IF panic' = panic THEN Tail(inbox) ELSE inbox
             /\ inbox # <<>>
             /\ UNCHANGED <<last_idxes, used, desc, irq>>
    <3>1. QueueInv'
      BY <1>1, <2>2, QueueKeeps DEF Shape, driver
    <3> QED
      BY <2>1, <2>2, <3>1 DEF Stops
  <2>3. CASE NetDeliver
    <3>1. QueueInv' /\ inbox # <<>>
      BY <1>1, <2>3, DeliverEffect DEF driver
    <3> QED
      BY <2>1, <2>3, <3>1 DEF NetDeliver, Interrupting
  <2> QED
    BY <2>2, <2>3, TickEffect
<1>4. inbox' \in Seq(1..MaxPackets)
  <2>1. Tail(inbox) \in Seq(1..MaxPackets)
    BY <1>2, <1>3, HeadTailProperties
  <2> QED
    BY <1>2, <1>3, <2>1
<1>5. RegisterShape'
  BY <1>1, RegistersKeep DEF Shape, driver
<1>6. PacketShape'
  BY <1>1, <1>3, <1>4 DEF Shape, PacketShape, IsNet, driver, counts
<1> QED
  BY <1>1, <1>3, <1>5, <1>6 DEF Shape

LEMMA HostShape ==
  ASSUME Shape, HostSends \/ HostEnds
  PROVE  Shape' /\ virtio'.device_type = virtio.device_type
<1>1. UNCHANGED <<virtio, last_idxes, memory, outbox, irq, panic, resources, driver,
                  offers, got>>
  BY DEF HostSends, HostEnds, counts
<1>2. QueueInv'
  BY <1>1, QueueKeeps DEF Shape, memory, driver
<1>3. RegisterShape'
  BY <1>1, RegistersKeep DEF Shape, memory, driver
<1>4. arrived' \in 0..MaxPackets /\ inbox' \in Seq(1..MaxPackets)
  <2>1. arrived \in 0..MaxPackets /\ inbox \in Seq(1..MaxPackets)
    BY DEF Shape, PacketShape
  <2>2. CASE HostSends
    <3>1. arrived + 1 \in 1..MaxPackets /\ arrived + 1 \in 0..MaxPackets
      BY <2>1, <2>2, BoundsAssumption DEF HostSends
    <3>2. IsNet /\ inbox' = Append(inbox, arrived + 1) /\ arrived' = arrived + 1
      BY <2>2 DEF HostSends
    <3>3. Append(inbox, arrived + 1) \in Seq(1..MaxPackets)
      BY <2>1, <3>1, <3>2, AppendProperties
    <3> QED
      BY <3>1, <3>2, <3>3
  <2>3. CASE HostEnds
    BY <2>1, <2>3 DEF HostEnds, counts
  <2> QED
    BY <2>2, <2>3
<1>5. PacketShape'
  BY <1>1, <1>4 DEF Shape, PacketShape, IsNet, driver
<1> QED
  BY <1>1, <1>2, <1>3, <1>5 DEF Shape

LEMMA NextShape ==
  ASSUME Shape, [Next]_vars
  PROVE  Shape' /\ virtio'.device_type = virtio.device_type
<1>1. CASE UNCHANGED vars
  <2>1. QueueInv' /\ UNCHANGED <<virtio, gen, pos>>
    BY <1>1, QueueKeeps DEF Shape, vars, queueVars, memory, driver
  <2>2. PacketShape'
    BY <1>1 DEF Shape, PacketShape, IsNet, vars, queueVars, channels, driver, counts
  <2> QED
    BY <2>1, <2>2, RegistersKeep DEF Shape
<1>2. CASE Next
  BY <1>2, AccessShape, ResetShape, OffersShape, NotifyActionShape, HandlerShape,
     GoAstrayShape, TickShape, HostShape DEF Next
<1> QED
  BY <1>1, <1>2

LEMMA ShapeHolds == Spec => []Shape
<1>1. Init => Shape
  BY InitShape
<1>2. Shape /\ [Next]_vars => Shape'
  BY NextShape
<1> QED
  BY <1>1, <1>2, PTL DEF Spec

-----------------------------------------------------------------------------
\* Type correctness of a device and its driver: the registers hold what they
\* can hold, also after accesses the device does not expect; the indices of the
\* rings keep within 16 bits, and what the driver can collect and what the
\* device can take never exceed the ring.
THEOREM VirtioTypeCorrect == Spec => []TypeOK
<1>1. Shape => TypeOK
  <2> SUFFICES ASSUME Shape PROVE TypeOK
    OBVIOUS
  <2>1. gen \in Nat /\ virtio \in Registers(gen)
    BY DEF Shape, RegisterShape
  <2>2. /\ virtio.status \subseteq {ACKNOWLEDGE, DRIVER, DRIVER_OK, FEATURES_OK, FAILED}
        /\ virtio.queue_sel \in Queues \cup {2}
        /\ virtio.readies \in [Queues -> BOOLEAN]
        /\ \A q \in Queues : {virtio.desc_addrs[q], virtio.driver_addrs[q],
                              virtio.device_addrs[q]} \subseteq 0..gen
    BY <2>1 DEF Registers, Statuses
  <2>3. ASSUME NEW q \in Queues
        PROVE  /\ {last_idxes[q], avail[q].idx, used[q].idx, seen[q]} \subseteq 0..(IdxMod - 1)
               /\ avail[q].ring \in [Slots -> Slots]
               /\ used[q].elems \in [Slots -> Slots]
               /\ Len(Waiting(q)) + Len(Returned(q)) <= QueueSize
    <3>1. /\ {last_idxes[q], avail[q].idx, used[q].idx, seen[q]} \subseteq Idx
          /\ avail[q].ring \in [Slots -> Slots] /\ used[q].elems \in [Slots -> Slots]
      BY DEF Shape, QueueInv, RingShape
    <3>2. Len(Waiting(q)) + Len(Returned(q)) <= QueueSize
      <4>1. /\ Len(Waiting(q)) \in Nat /\ Len(Returned(q)) \in Nat
            /\ Len(Returned(q)) + Len(Waiting(q)) <= QueueSize
        BY QueueFacts DEF Shape, QueueInv, RingShape
      <4>2. PICK a \in Nat, b \in Nat : a = Len(Waiting(q)) /\ b = Len(Returned(q))
        BY <4>1
      <4>3. a + b = b + a
        OBVIOUS
      <4> QED
        BY <4>1, <4>2, <4>3
    <3> QED
      BY <3>1, <3>2 DEF Idx
  <2>4. /\ IsNet => /\ inbox \in Seq(1..MaxPackets)
                    /\ outbox \in Seq(1..MaxFrames)
                    /\ resources = <<>>
        /\ panic \in {"none", "access", "ring", "packet", "chain", "command", "host"}
    BY DEF Shape, PacketShape, Stops
  <2> QED
    BY <2>2, <2>3, <2>4 DEF TypeOK
<1> QED
  BY <1>1, ShapeHolds, PTL

-----------------------------------------------------------------------------
(* What a step does to the queues, whoever takes it. *)

Stays(q) == Returned(q)' = Returned(q) /\ Waiting(q)' = Waiting(q)
OthersStay(q) == \A p \in Queues \ {q} : Stays(p)

Emptied == \A q \in Queues : Returned(q)' = <<>> /\ Waiting(q)' = <<>>

Given(q, id) ==
  /\ \A i \in 1..Len(Held(q)) : Held(q)[i] # id
  /\ Waiting(q)' = Append(Waiting(q), id) /\ Returned(q)' = Returned(q)
  /\ OthersStay(q)

Served(q, n) ==
  /\ Returned(q)' = Returned(q) \o SubSeq(Waiting(q), 1, n)
  /\ Waiting(q)' = SubSeq(Waiting(q), n + 1, Len(Waiting(q)))
  /\ OthersStay(q)

Collected(q) ==
  /\ Returned(q) # <<>>
  /\ Returned(q)' = Tail(Returned(q)) /\ Waiting(q)' = Waiting(q)
  /\ OthersStay(q)

LEMMA OfferSteps ==
  ASSUME QueueInv, NEW q \in Queues, NEW id \in Slots, NEW content, Offer(q, id, content)
  PROVE  Given(q, id)
<1>1. /\ Len(Held(q)) < QueueSize
      /\ \A i \in 1..Len(Held(q)) : Held(q)[i] # id
  BY Room DEF Offer
<1> QED
  BY <1>1, OfferEffect DEF QueueInv, Given, OthersStay, Stays

LEMMA NotifySteps ==
  ASSUME Shape, NEW q \in Queues \cup {2}, DeviceNotify(q), UNCHANGED seen
  PROVE  \/ \A p \in Queues : Stays(p)
         \/ q \in Queues /\ irq' = TRUE /\ \E n \in 1..Len(Waiting(q)) : Served(q, n)
<1>1. UNCHANGED <<virtio, avail, desc>>
  BY NotifyEffect
<1>2. CASE UNCHANGED <<last_idxes, used>>
  BY <1>1, <1>2, QueueStays DEF Stays
<1>3. CASE NotifyServes(q)
  <2>1. q \in Queues /\ Serve(q, Len(Waiting(q))) /\ Waiting(q) # <<>> /\ irq' = TRUE
    BY <1>3 DEF NotifyServes
  <2>2. Len(Waiting(q)) \in 0..Len(Waiting(q)) /\ Len(Waiting(q)) \in 1..Len(Waiting(q))
    BY <2>1, WaitingLength DEF Shape, QueueInv
  <2>3. Served(q, Len(Waiting(q)))
    BY <1>1, <2>1, <2>2, ServeEffect DEF Shape, QueueInv, Served, OthersStay, Stays
  <2> QED
    BY <2>1, <2>2, <2>3
<1> QED
  BY <1>2, <1>3, NotifyEffect

LEMMA TickSteps ==
  ASSUME Shape, Tick
  PROVE  \/ \A p \in Queues : Stays(p)
         \/ irq' = TRUE /\ \E n \in 1..Len(Waiting(RECEIVE)) : Served(RECEIVE, n)
<1>1. IsNet /\ UNCHANGED <<avail, seen>>
  BY TickEffect DEF driver
<1>2. CASE UNCHANGED <<last_idxes, used>>
  BY <1>1, <1>2, QueueStays DEF Stays
<1>3. CASE NetDeliver
  <2>1. RECEIVE \in Queues
    BY DEF RECEIVE, Queues
  <2>2. avail[RECEIVE].idx # last_idxes[RECEIVE] /\ Serve(RECEIVE, 1) /\ irq' = TRUE
    BY <1>3 DEF NetDeliver, Interrupting
  <2>3. 1 \in 0..Len(Waiting(RECEIVE)) /\ 1 \in 1..Len(Waiting(RECEIVE))
    <3>1. Len(Waiting(RECEIVE)) \in Nat /\ Len(Waiting(RECEIVE)) >= 1
      BY <2>1, <2>2, WaitingLength DEF Shape, QueueInv
    <3> QED
      BY <3>1
  <2>4. Served(RECEIVE, 1)
    BY <1>1, <2>1, <2>2, <2>3, ServeEffect DEF Shape, QueueInv, Served, OthersStay, Stays
  <2> QED
    BY <2>2, <2>3, <2>4
<1> QED
  BY <1>2, <1>3, TickEffect

LEMMA QueueSteps ==
  ASSUME Shape, [Next]_vars
  PROVE  \/ \A q \in Queues : Stays(q)
         \/ Emptied
         \/ \E q \in Queues : \/ \E id \in Slots : Given(q, id)
                              \/ \E n \in 1..Len(Waiting(q)) : Served(q, n)
                              \/ Collected(q)
<1>1. RECEIVE \in Queues /\ TRANSMIT \in Queues /\ CONTROL \in Queues
  BY DEF RECEIVE, TRANSMIT, CONTROL, Queues
<1>2. CASE UNCHANGED <<last_idxes, avail, used, seen>>
  BY <1>2, QueueStays DEF Stays
<1>3. CASE Access
  BY <1>2, <1>3, AccessEffect DEF Shape, beside, memory
<1>4. CASE Reset
  BY <1>4, ResetEffect, FreshKeeps DEF Shape, Emptied
<1>5. CASE OfferReceive \/ OfferTransmit \/ OfferCommand \/ OfferAstray
  <2>1. \E q \in Queues, id \in Slots : \E content : Offer(q, id, content)
    BY <1>1, <1>5 DEF OfferReceive, OfferTransmit, OfferCommand, OfferAstray
  <2> QED
    BY <2>1, OfferSteps DEF Shape
<1>6. CASE Notify
  <2>1. PICK q \in Queues : DeviceNotify(q)
    BY <1>6 DEF Notify
  <2>2. UNCHANGED seen
    BY <1>6 DEF Notify
  <2> QED
    BY <2>1, <2>2, NotifySteps
<1>7. CASE Interrupted \/ HandlerEnds
  BY <1>2, <1>7 DEF Interrupted, HandlerEnds, queueVars, memory
<1>8. CASE Collect
  BY <1>8, CollectKeeps DEF Shape, Collected, OthersStay, Stays
<1>9. CASE GoAstray
  <2>1. CASE UNCHANGED beside
    BY <1>2, <1>9, <2>1, AstrayEffect DEF Shape, beside, memory
  <2>2. CASE \E q \in Queues \cup {2} : DeviceNotify(q)
    BY <1>9, <2>2, AstrayEffect, NotifySteps DEF Shape
  <2> QED
    BY <1>9, <2>1, <2>2, AstrayEffect DEF Shape
<1>10. CASE Tick
  BY <1>1, <1>10, TickSteps
<1>11. CASE HostSends \/ HostEnds
  BY <1>2, <1>11 DEF HostSends, HostEnds, memory, driver
<1>12. CASE UNCHANGED vars
  BY <1>2, <1>12 DEF vars, queueVars, memory, driver
<1> QED
  BY <1>3, <1>4, <1>5, <1>6, <1>7, <1>8, <1>9, <1>10, <1>11, <1>12 DEF Next

\* A step of BufferQueue, of queue q as the driver sees it.
Seen(q) == {OfferedTo(q)[k] : k \in DOMAIN OfferedTo(q)}
           \cup {CompletedBy(q)[k] : k \in DOMAIN CompletedBy(q)}

BufferStep(q) ==
  \/ \E b \in Slots : /\ b \notin Seen(q)
                      /\ OfferedTo(q)' = Append(OfferedTo(q), b)
                      /\ UNCHANGED CompletedBy(q)
  \/ \E n \in 1..Len(OfferedTo(q)) :
       /\ CompletedBy(q)' = CompletedBy(q) \o SubSeq(OfferedTo(q), 1, n)
       /\ OfferedTo(q)' = SubSeq(OfferedTo(q), n + 1, Len(OfferedTo(q)))
  \/ /\ CompletedBy(q) # <<>>
     /\ CompletedBy(q)' = Tail(CompletedBy(q))
     /\ UNCHANGED OfferedTo(q)
  \/ OfferedTo(q)' = <<>> /\ CompletedBy(q)' = <<>>
  \/ UNCHANGED <<OfferedTo(q), CompletedBy(q)>>

\* Only a reset ends what went astray.
LEMMA AstrayLasts ==
  ASSUME Shape, [Next]_vars, astray, ~astray'
  PROVE  Emptied
<1>1. ~Access /\ ~Notify
  BY DEF Access, Notify
<1>2. ~(OfferReceive \/ OfferTransmit \/ OfferCommand \/ OfferAstray)
  BY DEF OfferReceive, OfferTransmit, OfferCommand, OfferAstray
<1>3. ~(Interrupted \/ Collect \/ HandlerEnds \/ GoAstray)
  BY DEF Interrupted, Collect, HandlerEnds, GoAstray
<1>4. ~(Tick \/ HostSends \/ HostEnds) /\ ~UNCHANGED vars
  BY DEF Tick, HostSends, HostEnds, driver, vars
<1>5. Reset
  BY <1>1, <1>2, <1>3, <1>4 DEF Next
<1> QED
  BY <1>5, ResetEffect, FreshKeeps DEF Shape, Emptied

LEMMA StepIsBufferStep ==
  ASSUME Shape, [Next]_vars, NEW q \in Queues
  PROVE  BufferStep(q)
<1>1. CASE astray'
  BY <1>1 DEF BufferStep, OfferedTo, CompletedBy
<1>2. CASE astray /\ ~astray'
  <2>1. Emptied
    BY <1>2, AstrayLasts
  <2> QED
    BY <1>2, <2>1 DEF Emptied, BufferStep, OfferedTo, CompletedBy
<1>3. CASE ~astray /\ ~astray'
  <2>1. /\ OfferedTo(q) = Waiting(q) /\ OfferedTo(q)' = Waiting(q)'
        /\ CompletedBy(q) = Returned(q) /\ CompletedBy(q)' = Returned(q)'
    BY <1>3 DEF OfferedTo, CompletedBy
  <2>2. CASE Stays(q)
    BY <2>1, <2>2 DEF Stays, BufferStep
  <2>3. CASE Emptied
    BY <2>1, <2>3 DEF Emptied, BufferStep
  <2>4. ASSUME NEW id \in Slots, Given(q, id) PROVE BufferStep(q)
    <3>1. id \notin Seen(q)
      <4> DEFINE h == Held(q)
                 r == Returned(q)
                 w == Waiting(q)
      <4>1. /\ Len(h) = Len(r) + Len(w) /\ r \in Seq(Slots) /\ w \in Seq(Slots)
            /\ Len(r) \in Nat /\ Len(w) \in Nat
            /\ \A i \in 1..Len(r) : h[i] = r[i]
            /\ \A i \in 1..Len(w) : h[Len(r) + i] = w[i]
        BY HeldType, QueueFacts DEF Shape, QueueInv
      <4>2. \A i \in 1..Len(h) : h[i] # id
        BY <2>4 DEF Given
      <4> HIDE DEF h, r, w
      <4>3. /\ \A i \in 1..Len(r) : i \in 1..Len(h)
            /\ \A i \in 1..Len(w) : Len(r) + i \in 1..Len(h)
        BY <4>1
      <4>4. \A i \in 1..Len(r) : r[i] # id
        BY <4>1, <4>2, <4>3
      <4>5. \A i \in 1..Len(w) : w[i] # id
        BY <4>1, <4>2, <4>3
      <4>6. DOMAIN r = 1..Len(r) /\ DOMAIN w = 1..Len(w)
        BY <4>1, LenProperties
      <4>7. OfferedTo(q) = w /\ CompletedBy(q) = r
        BY <2>1 DEF r, w
      <4> QED
        BY <4>4, <4>5, <4>6, <4>7 DEF Seen
    <3> QED
      BY <2>1, <2>4, <3>1 DEF Given, BufferStep
  <2>5. ASSUME NEW n \in 1..Len(Waiting(q)), Served(q, n) PROVE BufferStep(q)
    BY <2>1, <2>5 DEF Served, BufferStep
  <2>6. CASE Collected(q)
    BY <2>1, <2>6 DEF Collected, BufferStep
  <2>7. ASSUME NEW p \in Queues \ {q}, OthersStay(p) PROVE BufferStep(q)
    BY <2>2, <2>7 DEF OthersStay
  <2> QED
    BY <2>2, <2>3, <2>4, <2>5, <2>6, <2>7, QueueSteps DEF Given, Served, Collected
<1>4. astray \in BOOLEAN /\ astray' \in BOOLEAN
  BY NextShape DEF Shape, PacketShape
<1> QED
  BY <1>1, <1>2, <1>3, <1>4

LEMMA InitIsBufferInit ==
  ASSUME Init, NEW q \in Queues
  PROVE  OfferedTo(q) = <<>> /\ CompletedBy(q) = <<>>
<1>1. FreshQueues
  BY DEF Init, FreshQueues
<1> QED
  BY <1>1, FreshHolds DEF OfferedTo, CompletedBy

\* Each queue of a device, as its driver sees it, behaves as a BufferQueue: the
\* buffers are served in the order offered, each once, and come back in that
\* order, whatever the size of the ring, across every wrap of the indices, and a
\* reset gives all of them back at once.
THEOREM QueuesAreBufferQueues == Spec => QueuesImplement
<1>1. 0 \in Queues /\ 1 \in Queues
  BY DEF Queues
<1>2. Init => Queue0!Init /\ Queue1!Init
  BY <1>1, InitIsBufferInit DEF Queue0!Init, Queue1!Init
<1>3. Shape /\ [Next]_vars => [Queue0!Next]_(Queue0!vars)
  <2> SUFFICES ASSUME Shape, [Next]_vars PROVE [Queue0!Next]_(Queue0!vars)
    OBVIOUS
  <2>1. BufferStep(0)
    BY <1>1, StepIsBufferStep
  <2> QED
    BY <2>1 DEF BufferStep, Seen, Queue0!Next, Queue0!Offer, Queue0!Serve,
                Queue0!Collect, Queue0!Reset, Queue0!vars, Queue0!Held
<1>4. Shape /\ [Next]_vars => [Queue1!Next]_(Queue1!vars)
  <2> SUFFICES ASSUME Shape, [Next]_vars PROVE [Queue1!Next]_(Queue1!vars)
    OBVIOUS
  <2>1. BufferStep(1)
    BY <1>1, StepIsBufferStep
  <2> QED
    BY <2>1 DEF BufferStep, Seen, Queue1!Next, Queue1!Offer, Queue1!Serve,
                Queue1!Collect, Queue1!Reset, Queue1!vars, Queue1!Held
<1> QED
  BY <1>2, <1>3, <1>4, ShapeHolds, PTL DEF Spec, QueuesImplement, Queue0!Spec, Queue1!Spec

\* Nothing the device returned stays unnoticed: while the driver has buffers to
\* collect an interrupt is on the way or its handler runs.
THEOREM ReturnsAreSignalled == Spec => []ReturnIsSignalled
<1>1. Init => ReturnIsSignalled
  <2> SUFFICES ASSUME Init PROVE ReturnIsSignalled
    OBVIOUS
  <2>1. \A q \in Queues : Returned(q) = <<>>
    <3>1. FreshQueues
      BY DEF Init, FreshQueues
    <3> QED
      BY <3>1, FreshHolds
  <2> QED
    BY <2>1 DEF ReturnIsSignalled
<1>2. ReturnIsSignalled /\ Shape /\ [Next]_vars => ReturnIsSignalled'
  <2> SUFFICES ASSUME ReturnIsSignalled, Shape, [Next]_vars,
                      ~astray', NEW q \in Queues, Returned(q)' # <<>>
               PROVE  irq' \/ handling'
    BY DEF ReturnIsSignalled
  <2>1. ~astray
    <3>1. ~Emptied
      BY DEF Emptied
    <3> QED
      BY <3>1, AstrayLasts
  <2>2. CASE (\A p \in Queues : Stays(p)) /\ UNCHANGED <<irq, handling>>
    BY <2>1, <2>2 DEF ReturnIsSignalled, Stays
  <2>3. ASSUME UNCHANGED <<last_idxes, avail, used, seen, irq, handling>>
        PROVE  irq' \/ handling'
    BY <2>2, <2>3, QueueStays DEF Stays
  <2>4. CASE Access
    BY <2>3, <2>4, AccessEffect DEF Shape, beside, memory
  <2>5. CASE Reset
    BY <2>5, ResetEffect, FreshKeeps DEF Shape
  <2>6. CASE OfferReceive \/ OfferTransmit \/ OfferCommand \/ OfferAstray
    <3>1. RECEIVE \in Queues /\ TRANSMIT \in Queues /\ CONTROL \in Queues
      BY DEF RECEIVE, TRANSMIT, CONTROL, Queues
    <3>2. PICK p \in Queues, id \in Slots : \E content : Offer(p, id, content)
      BY <2>6, <3>1 DEF OfferReceive, OfferTransmit, OfferCommand, OfferAstray
    <3>3. UNCHANGED <<irq, handling>>
      BY <3>2 DEF Offer
    <3>4. Given(p, id)
      BY <3>2, OfferSteps DEF Shape
    <3>5. Returned(q)' = Returned(q)
      BY <3>4 DEF Given, OthersStay, Stays
    <3> QED
      BY <2>1, <3>3, <3>5 DEF ReturnIsSignalled
  <2>7. CASE Notify
    <3>1. PICK p \in Queues : DeviceNotify(p)
      BY <2>7 DEF Notify
    <3>2. UNCHANGED <<seen, handling>>
      BY <2>7 DEF Notify
    <3>3. CASE irq' = TRUE
      BY <3>3
    <3>4. CASE UNCHANGED <<last_idxes, used, irq>>
      BY <2>3, <3>1, <3>2, <3>4, NotifyEffect
    <3> QED
      BY <3>1, <3>3, <3>4, NotifyEffect DEF NotifyServes
  <2>8. CASE Interrupted
    BY <2>8 DEF Interrupted
  <2>9. CASE Collect
    BY <2>9 DEF Collect
  <2>10. CASE HandlerEnds
    <3>1. Stays(q) /\ Returned(q) = <<>>
      BY <2>10, QueueStays DEF HandlerEnds, queueVars, memory, Stays
    <3> QED
      BY <3>1 DEF Stays
  <2>11. CASE GoAstray
    BY <2>11 DEF GoAstray
  <2>12. CASE Tick
    <3>1. CASE UNCHANGED <<last_idxes, used, irq>>
      BY <2>3, <2>12, <3>1, TickEffect DEF driver
    <3>2. CASE NetDeliver
      BY <3>2 DEF NetDeliver, Interrupting
    <3> QED
      BY <2>12, <3>1, <3>2, TickEffect
  <2>13. CASE HostSends \/ HostEnds
    BY <2>3, <2>13 DEF HostSends, HostEnds, memory, driver
  <2>14. CASE UNCHANGED vars
    BY <2>3, <2>14 DEF vars, queueVars, memory, driver
  <2> QED
    BY <2>4, <2>5, <2>6, <2>7, <2>8, <2>9, <2>10, <2>11, <2>12, <2>13, <2>14 DEF Next
<1> QED
  BY <1>1, <1>2, ShapeHolds, PTL DEF Spec

-----------------------------------------------------------------------------
(* Packets. *)

\* What takes a packet off the channel is a tick that drops it or delivers it.
LEMMA InboxStep ==
  ASSUME Shape, [Next]_vars
  PROVE  \/ UNCHANGED inbox
         \/ HostSends
         \/ Tick /\ NetDeliver /\ inbox' = Tail(inbox)
         \/ /\ Tick /\ inbox' = Tail(inbox) /\ inbox # <<>> /\ Waiting(RECEIVE) = <<>>
            /\ UNCHANGED <<last_idxes, used, desc, avail, seen>>
<1>1. CASE Access
  BY <1>1, AccessEffect DEF Shape, beside, channels
<1>2. CASE Reset
  BY <1>2, ResetEffect DEF Shape, channels
<1>3. CASE OfferReceive \/ OfferTransmit \/ OfferCommand \/ OfferAstray
  BY <1>3 DEF OfferReceive, OfferTransmit, OfferCommand, OfferAstray, Offer, channels
<1>4. CASE Notify
  BY <1>4, NotifyEffect DEF Notify
<1>5. CASE Interrupted \/ Collect \/ HandlerEnds
  BY <1>5 DEF Interrupted, Collect, HandlerEnds, queueVars, channels
<1>6. CASE GoAstray
  BY <1>6, AstrayEffect, NotifyEffect DEF Shape, beside, channels
<1>7. CASE Tick
  <2>1. CASE NetDeliver
    BY <1>7, <2>1 DEF NetDeliver
  <2>2. CASE /\ Waiting(RECEIVE) = <<>> \/ panic' # panic
             /\ inbox' = IF panic' = panic THEN Tail(inbox) ELSE inbox
             /\ inbox # <<>>
             /\ UNCHANGED <<last_idxes, used, desc, irq>>
    BY <1>7, <2>2, TickEffect DEF driver
  <2> QED
    BY <1>7, <2>1, <2>2, TickEffect
<1>8. CASE HostEnds
  BY <1>8 DEF HostEnds
<1>9. CASE UNCHANGED vars
  BY <1>9 DEF vars, queueVars, channels
<1> QED
  BY <1>1, <1>2, <1>3, <1>4, <1>5, <1>6, <1>7, <1>8, <1>9 DEF Next

\* A packet taken off the channel is lost only if the driver has no buffer
\* waiting for it; otherwise it is among those the driver will collect.
THEOREM OnlyUnbufferedIsLost == Spec => LostOnlyWithoutBuffer
<1>1. ASSUME Shape, [Next]_vars, Len(inbox') < Len(inbox), Waiting(RECEIVE) # <<>>
      PROVE  Head(inbox) \in Range(Numbers(RECEIVE, Returned(RECEIVE)))'
  <2>1. inbox \in Seq(1..MaxPackets) /\ Len(inbox) \in Nat
    BY <1>1 DEF Shape, PacketShape
  <2>2. ~UNCHANGED inbox
    <3> SUFFICES ASSUME UNCHANGED inbox PROVE FALSE
      OBVIOUS
    <3>1. PICK n \in Nat : n = Len(inbox)
      BY <2>1
    <3>2. Len(inbox') = n
      BY <3>1
    <3> QED
      BY <1>1, <3>1, <3>2
  <2>3. ~HostSends
    <3> SUFFICES ASSUME HostSends PROVE FALSE
      OBVIOUS
    <3>1. Len(Append(inbox, arrived + 1)) = Len(inbox) + 1
      BY <2>1
    <3>2. inbox' = Append(inbox, arrived + 1)
      BY DEF HostSends
    <3>3. PICK n \in Nat : n = Len(inbox)
      BY <2>1
    <3>4. Len(inbox') = n + 1
      BY <3>1, <3>2, <3>3
    <3> QED
      BY <1>1, <3>3, <3>4
  <2>4. Tick /\ NetDeliver
    BY <1>1, <2>2, <2>3, InboxStep
  <2>5. IsNet /\ UNCHANGED seen
    BY <1>1, <2>4, TickEffect DEF driver
  <2> DEFINE r == Returned(RECEIVE)
             b == Waiting(RECEIVE)[1]
  <2>6. /\ Returned(RECEIVE)' = Append(r, b) /\ b \in Slots
        /\ desc'[RECEIVE] = [desc[RECEIVE] EXCEPT ![b].n = Head(inbox)]
    BY <1>1, <2>4, <2>5, DeliverEffect
  <2>7. RECEIVE \in Queues
    BY DEF RECEIVE, Queues
  <2>8. r \in Seq(Slots) /\ desc[RECEIVE] \in [Slots -> Kept(RECEIVE)]
        /\ desc[RECEIVE][b] \in Kept(RECEIVE) \ {Nothing}
    <3>1. 1 \in 1..Len(Waiting(RECEIVE))
      <4>1. Len(Waiting(RECEIVE)) \in Nat /\ Len(Waiting(RECEIVE)) >= 1
        BY <1>1, <2>7, WaitingLength DEF Shape, QueueInv
      <4> QED
        BY <4>1
    <3> QED
      BY <1>1, <2>7, <3>1, QueueFacts, InUse DEF Shape, QueueInv, DescShape
  <2> HIDE DEF r, b
  <2>9. desc'[RECEIVE][b].n = Head(inbox)
    <3>1. desc[RECEIVE][b] \in [op : {"Buffer"}, n : 0..MaxPackets]
      BY <2>5, <2>8 DEF Kept, BufferContents
    <3> QED
      BY <2>6, <2>8, <3>1
  <2>10. PICK s \in Seq(Slots) : s = Append(r, b)
    BY <2>6, <2>8, AppendProperties
  <2>11. Len(s) \in DOMAIN s /\ s[Len(s)] = b
    BY <2>8, <2>6, <2>10, AppendProperties
  <2>12. Numbers(RECEIVE, Returned(RECEIVE))' = [k \in DOMAIN s |-> desc'[RECEIVE][s[k]].n]
    BY <2>6, <2>10 DEF Numbers
  <2> QED
    BY <2>9, <2>11, <2>12 DEF Range
<1>2. Shape /\ [Next]_vars =>
        [Len(inbox') < Len(inbox) =>
           \/ Waiting(RECEIVE) = <<>>
           \/ Head(inbox) \in Range(Numbers(RECEIVE, Returned(RECEIVE)))']_vars
  BY <1>1
<1> QED
  BY <1>2, ShapeHolds, PTL DEF Spec, LostOnlyWithoutBuffer

\* Two increasing sequences, the first below the second.
LEMMA IncreasingConcat ==
  ASSUME NEW s \in Seq(Nat), NEW t \in Seq(Nat), Increasing(s), Increasing(t),
         \A i \in 1..Len(s), j \in 1..Len(t) : s[i] < t[j]
  PROVE  Cat(s, t) \in Seq(Nat) /\ Increasing(Cat(s, t))
<1>0. PICK a \in Nat, b \in Nat : a = Len(s) /\ b = Len(t)
  OBVIOUS
<1>1. DOMAIN s = 1..a /\ DOMAIN t = 1..b
  BY <1>0, LenProperties
<1>2. PICK c \in Seq(Nat) : c = s \o t
  BY ConcatProperties
<1>3. /\ Len(c) = a + b /\ DOMAIN c = 1..(a + b)
      /\ \A i \in 1..a : c[i] = s[i]
      /\ \A i \in 1..b : c[a + i] = t[i]
  <2>1. /\ Len(c) = a + b
        /\ \A i \in 1..(a + b) : c[i] = IF i <= a THEN s[i] ELSE t[i - a]
    BY <1>0, <1>2, ConcatProperties
  <2>2. /\ \A i \in 1..a : i \in 1..(a + b) /\ i <= a
        /\ \A i \in 1..b : a + i \in 1..(a + b) /\ ~(a + i <= a) /\ (a + i) - a = i
    OBVIOUS
  <2>3. DOMAIN c = 1..(a + b)
    BY <2>1, LenProperties
  <2> QED
    BY <2>1, <2>2, <2>3
<1>4. \A i \in 1..(a + b) : i \in 1..a \/ \E k \in 1..b : i = a + k
  <2> SUFFICES ASSUME NEW i \in 1..(a + b), i \notin 1..a PROVE \E k \in 1..b : i = a + k
    OBVIOUS
  <2>1. i - a \in 1..b /\ i = a + (i - a)
    OBVIOUS
  <2> QED
    BY <2>1
<1>5. ASSUME NEW i \in DOMAIN c, NEW j \in DOMAIN c, i < j PROVE c[i] < c[j]
  <2>1. CASE i \in 1..a /\ j \in 1..a
    BY <1>1, <1>3, <1>5, <2>1 DEF Increasing
  <2>2. CASE i \in 1..a /\ \E k \in 1..b : j = a + k
    BY <1>0, <1>3, <2>2
  <2>3. ASSUME NEW k \in 1..b, NEW l \in 1..b, i = a + k, j = a + l PROVE c[i] < c[j]
    <3>1. k < l
      BY <1>5, <2>3
    <3> QED
      BY <1>1, <1>3, <2>3, <3>1 DEF Increasing
  <2>4. ASSUME NEW k \in 1..b, i = a + k, j \in 1..a PROVE FALSE
    BY <1>5, <2>4
  <2> QED
    BY <1>3, <1>4, <2>1, <2>2, <2>3, <2>4
<1>6. Increasing(c)
  BY <1>5 DEF Increasing
<1> QED
  BY <1>2, <1>6 DEF Cat

\* The packets, in the order the host sent them: the last one received, those
\* in the buffers to be collected, those in the channel.
Stored(i) == desc[RECEIVE][Returned(RECEIVE)[i]].n

OrderInv ==
  IsNet =>
    /\ got \in 0..arrived
    /\ \A i \in 1..Len(Returned(RECEIVE)) : Stored(i) \in (got + 1)..arrived
    /\ \A i, j \in 1..Len(Returned(RECEIVE)) : i < j => Stored(i) < Stored(j)
    /\ \A i \in 1..Len(inbox) : inbox[i] \in (got + 1)..arrived
    /\ \A i, j \in 1..Len(inbox) : i < j => inbox[i] < inbox[j]
    /\ \A i \in 1..Len(Returned(RECEIVE)), j \in 1..Len(inbox) : Stored(i) < inbox[j]

LEMMA OrderIsOrder ==
  ASSUME Shape, OrderInv PROVE ReceivedInOrder
<1> SUFFICES ASSUME IsNet
             PROVE  Increasing(<<got>> \o Numbers(RECEIVE, Returned(RECEIVE)) \o inbox)
  BY DEF ReceivedInOrder
<1> DEFINE r == Returned(RECEIVE)
           m == Numbers(RECEIVE, r)
<1>1. RECEIVE \in Queues /\ arrived \in Nat /\ got \in Nat
  BY DEF RECEIVE, Queues, Shape, PacketShape, OrderInv
<1>2. r \in Seq(Slots) /\ Len(r) \in Nat /\ DOMAIN r = 1..Len(r)
  BY <1>1, QueueFacts, LenProperties DEF Shape, QueueInv
<1>3. inbox \in Seq(Nat) /\ DOMAIN inbox = 1..Len(inbox) /\ Len(inbox) \in Nat
  <2>1. inbox \in Seq(1..MaxPackets)
    BY DEF Shape, PacketShape
  <2>2. 1..MaxPackets \subseteq Nat
    OBVIOUS
  <2>3. inbox \in Seq(Nat)
    BY <2>1, <2>2, SeqMonotonic
  <2> QED
    BY <2>3, LenProperties
<1>4. \A i \in 1..Len(r) : Stored(i) \in Nat /\ got < Stored(i)
  BY <1>1 DEF OrderInv
<1>5. PICK n \in Nat : n = Len(r)
  BY <1>2
<1>6. m = [i \in 1..n |-> Stored(i)]
  BY <1>2, <1>5 DEF Numbers, Stored
<1>7. m \in [1..n -> Nat]
  BY <1>4, <1>5, <1>6
<1>8. m \in Seq(Nat) /\ DOMAIN m = 1..n /\ Len(m) = n /\ \A i \in 1..n : m[i] = Stored(i)
  <2>1. m \in Seq(Nat)
    BY <1>7, SeqDef
  <2>2. DOMAIN m = 1..n
    BY <1>6
  <2> HIDE DEF m
  <2> QED
    BY <1>6, <2>1, <2>2, LenProperties
<1> HIDE DEF m, r
<1>9. Increasing(m) /\ Increasing(inbox)
  <2>1. \A i, j \in 1..n : i < j => Stored(i) < Stored(j)
    BY <1>5 DEF OrderInv, r
  <2>2. Increasing(m)
    BY <1>8, <2>1 DEF Increasing
  <2>3. Increasing(inbox)
    BY <1>3 DEF OrderInv, Increasing
  <2> QED
    BY <2>2, <2>3
<1>10. PICK g \in Seq(Nat) : g = <<got>> /\ Len(g) = 1 /\ g[1] = got
  <2>1. <<got>> \in Seq(Nat) /\ Len(<<got>>) = 1 /\ <<got>>[1] = got
    BY <1>1
  <2> QED
    BY <2>1, Zenon
<1>11. Increasing(g)
  <2>1. DOMAIN g = 1..1
    BY <1>10, LenProperties
  <2> QED
    BY <2>1 DEF Increasing
<1>12. Cat(g, m) \in Seq(Nat) /\ Increasing(Cat(g, m))
  <2>1. \A i \in 1..Len(g), j \in 1..Len(m) : g[i] < m[j]
    BY <1>4, <1>5, <1>8, <1>10
  <2> QED
    BY <1>8, <1>9, <1>11, <2>1, IncreasingConcat
<1>13. PICK c \in Seq(Nat) : c = Cat(g, m)
  BY <1>12
<1>14. \A i \in 1..Len(c), j \in 1..Len(inbox) : c[i] < inbox[j]
  <2>1. Has(g, 1) /\ Has(m, n)
    BY <1>8, <1>10 DEF Has
  <2>2. /\ Has(c, 1 + n)
        /\ \A i \in 1..1 : c[i] = g[i]
        /\ \A i \in 1..n : c[1 + i] = m[i]
    BY <1>13, <2>1, ConcatAt
  <2> SUFFICES ASSUME NEW i \in 1..Len(c), NEW j \in 1..Len(inbox) PROVE c[i] < inbox[j]
    OBVIOUS
  <2>3. inbox[j] \in Nat /\ got < inbox[j]
    BY <1>1 DEF OrderInv
  <2>4. i \in 1..(1 + n)
    BY <2>2 DEF Has
  <2>5. CASE i = 1
    BY <1>10, <2>2, <2>3, <2>5
  <2>6. CASE i # 1
    <3>1. PICK k \in 1..n : i = 1 + k
      <4>1. i - 1 \in 1..n /\ i = 1 + (i - 1)
        BY <2>4, <2>6
      <4> QED
        BY <4>1
    <3>2. c[i] = Stored(k)
      BY <1>8, <2>2, <3>1
    <3>3. Stored(k) < inbox[j]
      <4>1. k \in 1..Len(Returned(RECEIVE))
        BY <1>5 DEF r
      <4> QED
        BY <4>1 DEF OrderInv
    <3> QED
      BY <3>2, <3>3
  <2> QED
    BY <2>5, <2>6
<1>15. Increasing(Cat(c, inbox))
  <2>1. Increasing(c)
    BY <1>12, <1>13
  <2> QED
    BY <1>3, <1>9, <1>14, <2>1, IncreasingConcat
<1> QED
  BY <1>10, <1>13, <1>15 DEF Cat, m, r

\* A step that leaves the packets the driver will collect.
LEMMA OrderStays ==
  ASSUME OrderInv, IsNet' = IsNet, UNCHANGED <<got, inbox, arrived>>,
         Returned(RECEIVE)' = Returned(RECEIVE),
         IsNet => \A i \in 1..Len(Returned(RECEIVE)) :
                    desc'[RECEIVE][Returned(RECEIVE)[i]] = desc[RECEIVE][Returned(RECEIVE)[i]]
  PROVE  OrderInv'
<1> SUFFICES ASSUME IsNet' PROVE OrderInv'
  BY DEF OrderInv
<1>1. IsNet
  OBVIOUS
<1>2. \A i \in 1..Len(Returned(RECEIVE)) : Stored(i)' = Stored(i)
  BY <1>1 DEF Stored
<1> QED
  BY <1>1, <1>2 DEF OrderInv

LEMMA OrderDrops ==
  ASSUME Shape, OrderInv, IsNet, IsNet', inbox # <<>>, inbox' = Tail(inbox),
         UNCHANGED <<got, arrived, desc>>, Returned(RECEIVE)' = Returned(RECEIVE)
  PROVE  OrderInv'
<1>1. inbox \in Seq(1..MaxPackets)
  BY DEF Shape, PacketShape
<1>2. PICK n \in Nat : n = Len(inbox)
  BY <1>1
<1>3. n > 0 /\ Len(inbox') = n - 1 /\ \A i \in 1..(n - 1) : inbox'[i] = inbox[i + 1]
  BY <1>1, <1>2, HeadTailProperties, EmptySeq
<1>4. \A i \in 1..(n - 1) : i + 1 \in 1..n
  OBVIOUS
<1>5. \A i \in 1..Len(Returned(RECEIVE)) : Stored(i)' = Stored(i)
  BY DEF Stored
<1>6. \A i \in 1..Len(inbox') : inbox'[i] \in (got + 1)..arrived
  BY <1>2, <1>3, <1>4 DEF OrderInv
<1>7. ASSUME NEW i \in 1..Len(inbox'), NEW j \in 1..Len(inbox'), i < j
      PROVE  inbox'[i] < inbox'[j]
  <2>1. i + 1 < j + 1 /\ i \in 1..(n - 1) /\ j \in 1..(n - 1)
    BY <1>3, <1>7
  <2> QED
    BY <1>2, <1>3, <1>4, <2>1 DEF OrderInv
<1>8. \A i \in 1..Len(Returned(RECEIVE)), j \in 1..Len(inbox') : Stored(i) < inbox'[j]
  BY <1>2, <1>3, <1>4 DEF OrderInv
<1> QED
  BY <1>5, <1>6, <1>7, <1>8 DEF OrderInv

LEMMA OrderDelivers ==
  ASSUME Shape, OrderInv, IsNet, IsNet', NetDeliver, UNCHANGED <<seen, got, arrived>>
  PROVE  OrderInv'
<1> DEFINE r == Returned(RECEIVE)
           b == Waiting(RECEIVE)[1]
<1>1. /\ Returned(RECEIVE)' = Append(r, b) /\ b \in Slots /\ inbox # <<>>
      /\ Waiting(RECEIVE) # <<>>
      /\ desc'[RECEIVE] = [desc[RECEIVE] EXCEPT ![b].n = Head(inbox)]
      /\ inbox' = Tail(inbox)
  BY DeliverEffect DEF NetDeliver
<1>2. RECEIVE \in Queues
  BY DEF RECEIVE, Queues
<1>3. inbox \in Seq(1..MaxPackets) /\ r \in Seq(Slots)
  BY <1>2, QueueFacts DEF Shape, PacketShape, QueueInv
<1>4. PICK n \in Nat, m \in Nat : n = Len(inbox) /\ m = Len(r)
  BY <1>3
<1>5. /\ n > 0 /\ Len(inbox') = n - 1 /\ Head(inbox) = inbox[1]
      /\ \A i \in 1..(n - 1) : inbox'[i] = inbox[i + 1]
  BY <1>1, <1>3, <1>4, HeadTailProperties, EmptySeq
<1>6. \A i \in 1..m : r[i] # b /\ r[i] \in Slots
  <2> DEFINE h == Held(RECEIVE)
             w == Waiting(RECEIVE)
  <2>1. /\ Len(h) = m + Len(w) /\ Len(w) \in Nat /\ Len(w) >= 1
        /\ \A i \in 1..m : h[i] = r[i]
        /\ \A i \in 1..Len(w) : h[m + i] = w[i]
        /\ \A i \in 1..Len(h) : h[i] \in Slots
    BY <1>1, <1>2, <1>4, HeldType, WaitingLength DEF Shape, QueueInv
  <2>2. \A i, j \in 1..Len(h) : h[i] = h[j] => i = j
    BY <1>2 DEF Shape, QueueInv, HeldOnce
  <2> HIDE DEF h, w
  <2>3. /\ \A i \in 1..m : i \in 1..Len(h) /\ i # m + 1
        /\ m + 1 \in 1..Len(h) /\ 1 \in 1..Len(w)
    BY <2>1
  <2>4. h[m + 1] = w[1]
    BY <2>1, <2>3
  <2>5. \A i \in 1..m : r[i] # w[1] /\ r[i] \in Slots
    BY <2>1, <2>2, <2>3, <2>4
  <2> QED
    BY <2>5 DEF w
<1>7. desc[RECEIVE] \in [Slots -> BufferContents]
      /\ desc[RECEIVE][b] \in [op : {"Buffer"}, n : 0..MaxPackets]
  <2>1. 1 \in 1..Len(Waiting(RECEIVE))
    <3>1. Len(Waiting(RECEIVE)) \in Nat /\ Len(Waiting(RECEIVE)) >= 1
      BY <1>1, <1>2, WaitingLength DEF Shape, QueueInv
    <3> QED
      BY <3>1
  <2>2. desc[RECEIVE][b] \in Kept(RECEIVE) \ {Nothing}
    BY <1>2, <2>1, InUse DEF Shape
  <2>3. desc[RECEIVE] \in [Slots -> Kept(RECEIVE)]
    BY <1>2 DEF Shape, QueueInv, DescShape
  <2> HIDE DEF b
  <2> QED
    BY <2>2, <2>3 DEF Kept, BufferContents
<1> HIDE DEF r, b
<1>8. /\ desc'[RECEIVE][b].n = inbox[1]
      /\ \A s \in Slots : s # b => desc'[RECEIVE][s] = desc[RECEIVE][s]
  BY <1>1, <1>5, <1>7
<1>9. /\ Len(Append(r, b)) = m + 1 /\ Append(r, b)[m + 1] = b
      /\ \A i \in 1..m : Append(r, b)[i] = r[i]
  BY <1>1, <1>3, <1>4, AppendProperties
<1>10. PICK t : t = Append(r, b)
  OBVIOUS
<1>11. /\ Stored(m + 1)' = inbox[1]
       /\ \A i \in 1..m : Stored(i)' = Stored(i)
       /\ Len(Returned(RECEIVE)') = m + 1
  <2>1. Returned(RECEIVE)' = t /\ Len(t) = m + 1 /\ t[m + 1] = b /\ \A i \in 1..m : t[i] = r[i]
    BY <1>1, <1>9, <1>10
  <2> QED
    BY <1>6, <1>8, <2>1 DEF Stored, r
<1>12. \A i \in 1..(m + 1) : i \in 1..m \/ i = m + 1
  OBVIOUS
<1>13. /\ \A i \in 1..m : Stored(i) \in (got + 1)..arrived
       /\ \A i, j \in 1..m : i < j => Stored(i) < Stored(j)
       /\ \A i \in 1..n : inbox[i] \in (got + 1)..arrived
       /\ \A i, j \in 1..n : i < j => inbox[i] < inbox[j]
       /\ \A i \in 1..m, j \in 1..n : Stored(i) < inbox[j]
       /\ got \in 0..arrived
  BY <1>4 DEF OrderInv, r
<1>14. 1 \in 1..n /\ \A i \in 1..(n - 1) : i + 1 \in 1..n /\ 1 < i + 1
  BY <1>5
<1>15. \A i \in 1..(m + 1) : Stored(i)' \in (got + 1)..arrived
  BY <1>11, <1>12, <1>13, <1>14
<1>16. ASSUME NEW i \in 1..(m + 1), NEW j \in 1..(m + 1), i < j
       PROVE  Stored(i)' < Stored(j)'
  <2>1. i \in 1..m /\ (j \in 1..m \/ j = m + 1)
    BY <1>16
  <2> QED
    BY <1>11, <1>13, <1>14, <1>16, <2>1
<1>17. \A i \in 1..(n - 1) : inbox'[i] \in (got + 1)..arrived
  BY <1>5, <1>13, <1>14
<1>18. ASSUME NEW i \in 1..(n - 1), NEW j \in 1..(n - 1), i < j
       PROVE  inbox'[i] < inbox'[j]
  <2>1. i + 1 < j + 1
    BY <1>18
  <2> QED
    BY <1>5, <1>13, <1>14, <2>1
<1>19. \A i \in 1..(m + 1), j \in 1..(n - 1) : Stored(i)' < inbox'[j]
  BY <1>5, <1>11, <1>12, <1>13, <1>14
<1> QED
  BY <1>5, <1>11, <1>13, <1>15, <1>16, <1>17, <1>18, <1>19 DEF OrderInv

\* Before a collection: where the other buffers returned are.
LEMMA ReturnedOnce ==
  ASSUME QueueInv, NEW q \in Queues
  PROVE  \A i, j \in 1..Len(Returned(q)) : Returned(q)[i] = Returned(q)[j] => i = j
<1> DEFINE h == Held(q)
           r == Returned(q)
<1>1. PICK m \in Nat, n \in Nat : m = Len(r) /\ n = Len(Waiting(q))
  BY QueueFacts DEF QueueInv
<1>2. Len(h) = m + n /\ \A i \in 1..m : h[i] = r[i]
  BY <1>1, HeldType DEF QueueInv
<1>3. \A i, j \in 1..Len(h) : h[i] = h[j] => i = j
  BY DEF QueueInv, HeldOnce
<1> HIDE DEF h, r
<1>4. \A i \in 1..m : i \in 1..(m + n)
  OBVIOUS
<1> QED
  BY <1>1, <1>2, <1>3, <1>4 DEF r

LEMMA OrderCollects ==
  ASSUME Shape, OrderInv, Collect
  PROVE  OrderInv'
<1>1. PICK q \in Queues :
        /\ Returned(q) # <<>>
        /\ Returned(q)' = Tail(Returned(q)) /\ Waiting(q)' = Waiting(q)
        /\ desc' = [desc EXCEPT ![q][Returned(q)[1]] = Nothing]
        /\ \A p \in Queues \ {q} : Returned(p)' = Returned(p) /\ Waiting(p)' = Waiting(p)
        /\ got' = IF IsNet /\ q = RECEIVE THEN desc[q][Returned(q)[1]].n ELSE got
  BY CollectKeeps DEF Shape
<1>2. UNCHANGED <<virtio, inbox, arrived>> /\ RECEIVE \in Queues
  BY DEF Collect, channels, RECEIVE, Queues
<1>3. DOMAIN desc = Queues /\ \A p \in Queues : DOMAIN desc[p] = Slots
  BY DEF Shape, QueueInv, DescShape
<1>4. CASE q # RECEIVE
  <2>1. desc'[RECEIVE] = desc[RECEIVE]
    BY <1>1, <1>2, <1>3, <1>4
  <2> QED
    BY <1>1, <1>2, <1>4, <2>1, OrderStays DEF IsNet
<1>5. CASE q = RECEIVE
  <2> SUFFICES ASSUME IsNet PROVE OrderInv'
    BY <1>2 DEF OrderInv, IsNet
  <2> DEFINE r == Returned(RECEIVE)
  <2>1. r \in Seq(Slots) /\ r # <<>>
    BY <1>1, <1>2, <1>5, QueueFacts DEF Shape, QueueInv
  <2>2. PICK m \in Nat : m = Len(r)
    BY <2>1
  <2>3. PICK t : t = Returned(RECEIVE)' /\ t = Tail(r)
    BY <1>1, <1>5
  <2>4. m > 0 /\ Len(t) = m - 1 /\ \A i \in 1..(m - 1) : t[i] = r[i + 1]
    BY <2>1, <2>2, <2>3, HeadTailProperties, EmptySeq
  <2>5. 1 \in 1..m /\ \A i \in 1..(m - 1) : i + 1 \in 1..m /\ i + 1 # 1 /\ 1 < i + 1
    BY <2>4
  <2>6. \A i, j \in 1..m : r[i] = r[j] => i = j
    BY <1>2, <2>2, ReturnedOnce DEF Shape
  <2>7. \A i \in 1..m : r[i] \in Slots
    BY <2>1, <2>2, ElementOfSeq
  <2>8. \A i \in 1..(m - 1) : desc'[RECEIVE][t[i]].n = Stored(i + 1)
    <3>1. \A s \in Slots : s # r[1] => desc'[RECEIVE][s] = desc[RECEIVE][s]
      BY <1>1, <1>2, <1>3, <1>5
    <3> HIDE DEF r
    <3>2. \A i \in 1..(m - 1) : t[i] \in Slots /\ t[i] # r[1] /\ t[i] = r[i + 1]
      BY <2>4, <2>5, <2>6, <2>7
    <3>3. \A i \in 1..(m - 1) : desc'[RECEIVE][t[i]] = desc[RECEIVE][r[i + 1]]
      BY <3>1, <3>2
    <3> QED
      BY <3>3 DEF Stored, r
  <2>9. \A i \in 1..(m - 1) : Stored(i)' = Stored(i + 1)
    BY <2>3, <2>8 DEF Stored
  <2>10. got' = Stored(1)
    BY <1>1, <1>5 DEF Stored
  <2>11. /\ got \in 0..arrived
         /\ \A i \in 1..m : Stored(i) \in (got + 1)..arrived
         /\ \A i, j \in 1..m : i < j => Stored(i) < Stored(j)
         /\ \A i \in 1..Len(inbox) : inbox[i] \in (got + 1)..arrived
         /\ \A i, j \in 1..Len(inbox) : i < j => inbox[i] < inbox[j]
         /\ \A i \in 1..m, j \in 1..Len(inbox) : Stored(i) < inbox[j]
    BY <2>2 DEF OrderInv
  <2>12. arrived \in Nat
    BY DEF Shape, PacketShape
  <2> HIDE DEF r
  <2>13. got' \in 0..arrived
    BY <2>5, <2>10, <2>11, <2>12
  <2>14. \A i \in 1..(m - 1) : Stored(i)' \in (got' + 1)..arrived
    BY <2>5, <2>9, <2>10, <2>11, <2>12
  <2>15. ASSUME NEW i \in 1..(m - 1), NEW j \in 1..(m - 1), i < j
         PROVE  Stored(i)' < Stored(j)'
    <3>1. i + 1 < j + 1
      BY <2>15
    <3> QED
      BY <2>5, <2>9, <2>11, <3>1
  <2>16. \A i \in 1..Len(inbox) : inbox[i] \in (got' + 1)..arrived
    BY <2>5, <2>10, <2>11, <2>12
  <2>17. \A i \in 1..(m - 1), j \in 1..Len(inbox) : Stored(i)' < inbox[j]
    BY <2>5, <2>9, <2>11
  <2>18. Len(Returned(RECEIVE)') = m - 1
    BY <2>3, <2>4
  <2> QED
    BY <1>2, <2>11, <2>13, <2>14, <2>15, <2>16, <2>17, <2>18 DEF OrderInv
<1> QED
  BY <1>4, <1>5

LEMMA OrderSends ==
  ASSUME Shape, OrderInv, HostSends
  PROVE  OrderInv'
<1>1. /\ UNCHANGED <<last_idxes, used, avail, seen, desc, got, virtio>>
      /\ arrived' = arrived + 1 /\ inbox' = Append(inbox, arrived + 1)
      /\ IsNet
  BY DEF HostSends, memory, driver
<1>2. Returned(RECEIVE)' = Returned(RECEIVE)
  BY <1>1 DEF Returned
<1>3. inbox \in Seq(Nat) /\ arrived \in Nat
  <2>1. inbox \in Seq(1..MaxPackets) /\ arrived \in Nat
    BY DEF Shape, PacketShape
  <2>2. 1..MaxPackets \subseteq Nat
    OBVIOUS
  <2> QED
    BY <2>1, <2>2, SeqMonotonic
<1>4. PICK n \in Nat : n = Len(inbox)
  BY <1>3
<1>5. /\ Len(inbox') = n + 1 /\ inbox'[n + 1] = arrived + 1
      /\ \A i \in 1..n : inbox'[i] = inbox[i]
  BY <1>1, <1>3, <1>4, AppendProperties
<1>6. \A i \in 1..(n + 1) : i \in 1..n \/ i = n + 1
  OBVIOUS
<1>7. \A i \in 1..Len(Returned(RECEIVE)) : Stored(i)' = Stored(i)
  BY <1>1, <1>2 DEF Stored
<1>8. /\ got \in 0..arrived
      /\ \A i \in 1..Len(Returned(RECEIVE)) : Stored(i) \in (got + 1)..arrived
      /\ \A i, j \in 1..Len(Returned(RECEIVE)) : i < j => Stored(i) < Stored(j)
      /\ \A i \in 1..n : inbox[i] \in (got + 1)..arrived
      /\ \A i, j \in 1..n : i < j => inbox[i] < inbox[j]
      /\ \A i \in 1..Len(Returned(RECEIVE)), j \in 1..n : Stored(i) < inbox[j]
  BY <1>1, <1>4 DEF OrderInv
<1>9. got' \in 0..arrived'
  BY <1>1, <1>3, <1>8
<1>10. \A i \in 1..Len(Returned(RECEIVE)) : Stored(i) \in (got + 1)..(arrived + 1)
  <2> SUFFICES ASSUME NEW i \in 1..Len(Returned(RECEIVE))
               PROVE  Stored(i) \in (got + 1)..(arrived + 1)
    OBVIOUS
  <2>1. PICK g \in Nat : g = got
    BY <1>3, <1>8
  <2>2. PICK x \in (g + 1)..arrived : x = Stored(i)
    BY <1>8, <2>1
  <2>3. x \in (g + 1)..(arrived + 1)
    BY <1>3
  <2> QED
    BY <2>1, <2>2, <2>3
<1>11. \A i \in 1..(n + 1) : inbox'[i] \in (got + 1)..(arrived + 1)
  <2> SUFFICES ASSUME NEW i \in 1..(n + 1)
               PROVE  inbox'[i] \in (got + 1)..(arrived + 1)
    OBVIOUS
  <2>1. PICK g \in Nat : g = got /\ g <= arrived
    BY <1>3, <1>8
  <2>2. CASE i \in 1..n
    <3>1. PICK x \in (g + 1)..arrived : x = inbox[i]
      BY <1>8, <2>1, <2>2
    <3>2. x \in (g + 1)..(arrived + 1)
      BY <1>3
    <3> QED
      BY <1>5, <2>1, <2>2, <3>1, <3>2
  <2>3. CASE i = n + 1
    <3>1. arrived + 1 \in (g + 1)..(arrived + 1)
      BY <1>3, <2>1
    <3> QED
      BY <1>5, <2>1, <2>3, <3>1
  <2> QED
    BY <1>6, <2>2, <2>3
<1>12. ASSUME NEW i \in 1..(n + 1), NEW j \in 1..(n + 1), i < j
       PROVE  inbox'[i] < inbox'[j]
  <2>1. i \in 1..n /\ (j \in 1..n \/ j = n + 1)
    BY <1>12
  <2>2. inbox[i] \in Nat /\ inbox[i] <= arrived
    BY <1>3, <1>8, <2>1
  <2> QED
    BY <1>3, <1>5, <1>8, <1>12, <2>1, <2>2
<1>13. \A i \in 1..Len(Returned(RECEIVE)), j \in 1..(n + 1) : Stored(i) < inbox'[j]
  <2> SUFFICES ASSUME NEW i \in 1..Len(Returned(RECEIVE)), NEW j \in 1..(n + 1)
               PROVE  Stored(i) < inbox'[j]
    OBVIOUS
  <2>1. Stored(i) < arrived + 1
    BY <1>3, <1>8
  <2> QED
    BY <1>5, <1>6, <1>8, <2>1
<1> QED
  BY <1>1, <1>2, <1>5, <1>7, <1>8, <1>9, <1>10, <1>11, <1>12, <1>13 DEF OrderInv

LEMMA OrderOffers ==
  ASSUME Shape, OrderInv, NEW q \in Queues, NEW id \in Slots, NEW content,
         Offer(q, id, content)
  PROVE  OrderInv'
<1>1. /\ UNCHANGED <<virtio, inbox, got, arrived>>
      /\ desc' = [desc EXCEPT ![q][id] = content]
  BY DEF Offer, channels
<1>2. RECEIVE \in Queues
  BY DEF RECEIVE, Queues
<1>3. Given(q, id)
  BY OfferSteps DEF Shape
<1>4. Returned(RECEIVE)' = Returned(RECEIVE)
  BY <1>2, <1>3 DEF Given, OthersStay, Stays
<1>5. DOMAIN desc = Queues /\ \A p \in Queues : DOMAIN desc[p] = Slots
  BY DEF Shape, QueueInv, DescShape
<1>6. ASSUME NEW i \in 1..Len(Returned(RECEIVE))
      PROVE  desc'[RECEIVE][Returned(RECEIVE)[i]] = desc[RECEIVE][Returned(RECEIVE)[i]]
  <2>1. CASE q # RECEIVE
    BY <1>1, <1>2, <1>5, <2>1
  <2>2. CASE q = RECEIVE
    <3>1. desc[q][id] = Nothing
      BY DEF Offer
    <3>2. /\ Returned(RECEIVE)[i] \in Slots
          /\ desc[RECEIVE][Returned(RECEIVE)[i]] # Nothing
      BY <1>2, InUse DEF Shape
    <3> QED
      BY <1>1, <1>2, <1>5, <2>2, <3>1, <3>2
  <2> QED
    BY <2>1, <2>2
<1> QED
  BY <1>1, <1>4, <1>6, OrderStays DEF IsNet

LEMMA NextOrder ==
  ASSUME Shape, OrderInv, [Next]_vars
  PROVE  OrderInv'
<1>1. RECEIVE \in Queues /\ TRANSMIT \in Queues /\ CONTROL \in Queues
  BY DEF RECEIVE, TRANSMIT, CONTROL, Queues
<1>2. ASSUME UNCHANGED <<last_idxes, avail, used, seen, desc, got, inbox, arrived>>
      PROVE  OrderInv'
  <2>1. Returned(RECEIVE)' = Returned(RECEIVE)
    BY <1>2 DEF Returned
  <2>2. IsNet' = IsNet
    BY NextShape DEF IsNet
  <2> QED
    BY <1>2, <2>1, <2>2, OrderStays
<1>3. CASE Access
  BY <1>2, <1>3, AccessEffect DEF Shape, beside, memory, channels, counts
<1>4. CASE Reset
  <2>1. /\ UNCHANGED <<inbox, got, arrived>>
        /\ Returned(RECEIVE)' = <<>> /\ virtio'.device_type = virtio.device_type
    BY <1>1, <1>4, ResetEffect, FreshKeeps DEF Shape, channels, counts
  <2>2. 1..Len(Returned(RECEIVE)') = {}
    <3>1. 1..Len(<<>>) = {}
      OBVIOUS
    <3> QED
      BY <2>1, <3>1
  <2> QED
    BY <2>1, <2>2 DEF OrderInv, IsNet
<1>5. CASE OfferReceive \/ OfferTransmit \/ OfferCommand \/ OfferAstray
  <2>1. \E q \in Queues, id \in Slots : \E content : Offer(q, id, content)
    BY <1>1, <1>5 DEF OfferReceive, OfferTransmit, OfferCommand, OfferAstray
  <2> QED
    BY <2>1, OrderOffers
<1>6. ASSUME NEW q \in Queues \cup {2}, DeviceNotify(q), UNCHANGED <<seen, counts>>
      PROVE  OrderInv'
  <2>1. UNCHANGED <<virtio, avail, desc, inbox, got, arrived>>
    BY <1>6, NotifyEffect DEF counts
  <2>2. CASE UNCHANGED <<last_idxes, used>>
    BY <1>2, <1>6, <2>1, <2>2
  <2>3. CASE NotifyServes(q) /\ IsNet
    <3>1. q \in Queues /\ q # RECEIVE
      BY <2>3 DEF NotifyServes, TRANSMIT, RECEIVE, Queues
    <3>2. Returned(RECEIVE)' = Returned(RECEIVE)
      BY <1>1, <1>6, <3>1, NotifySteps DEF Served, OthersStay, Stays
    <3> QED
      BY <2>1, <3>2, OrderStays DEF IsNet
  <2>4. CASE ~IsNet
    BY <2>1, <2>4 DEF OrderInv, IsNet
  <2> QED
    BY <1>6, <2>2, <2>3, <2>4, NotifyEffect
<1>7. CASE Notify
  BY <1>6, <1>7 DEF Notify
<1>8. CASE Interrupted \/ HandlerEnds
  BY <1>2, <1>8 DEF Interrupted, HandlerEnds, queueVars, memory, channels, counts
<1>9. CASE Collect
  BY <1>9, OrderCollects
<1>10. CASE GoAstray
  <2>1. CASE UNCHANGED beside
    BY <1>2, <1>10, <2>1, AstrayEffect DEF Shape, beside, memory, channels, counts
  <2>2. CASE \E q \in Queues \cup {2} : DeviceNotify(q)
    BY <1>6, <1>10, <2>2, AstrayEffect DEF Shape
  <2> QED
    BY <1>10, <2>1, <2>2, AstrayEffect DEF Shape
<1>11. CASE Tick
  <2>1. IsNet /\ UNCHANGED <<virtio, avail, seen, got, arrived>>
    BY <1>11, TickEffect DEF driver, counts
  <2>2. IsNet'
    BY <2>1 DEF IsNet
  <2>3. CASE NetDeliver
    BY <2>1, <2>2, <2>3, OrderDelivers
  <2>4. CASE /\ inbox' = IF panic' = panic THEN Tail(inbox) ELSE inbox
             /\ inbox # <<>>
             /\ UNCHANGED <<last_idxes, used, desc>>
    <3>1. CASE panic' = panic
      <4>1. Returned(RECEIVE)' = Returned(RECEIVE)
        BY <2>1, <2>4 DEF Returned
      <4> QED
        BY <2>1, <2>2, <2>4, <3>1, <4>1, OrderDrops
    <3>2. CASE panic' # panic
      BY <1>2, <2>1, <2>4, <3>2
    <3> QED
      BY <3>1, <3>2
  <2> QED
    BY <1>11, <2>3, <2>4, TickEffect
<1>12. CASE HostSends
  BY <1>12, OrderSends
<1>13. CASE HostEnds
  BY <1>2, <1>13 DEF HostEnds, memory, driver, counts
<1>14. CASE UNCHANGED vars
  BY <1>2, <1>14 DEF vars, queueVars, memory, channels, driver, counts
<1> QED
  BY <1>3, <1>4, <1>5, <1>7, <1>8, <1>9, <1>10, <1>11, <1>12, <1>13, <1>14 DEF Next

\* The driver receives packets in the order the host sent them and none twice,
\* whatever was dropped between them and across resets.
THEOREM PacketsInOrder == Spec => []ReceivedInOrder
<1>1. Init => OrderInv
  <2> SUFFICES ASSUME Init PROVE OrderInv
    OBVIOUS
  <2>1. FreshQueues /\ RECEIVE \in Queues
    BY DEF Init, FreshQueues, RECEIVE, Queues
  <2>2. Returned(RECEIVE) = <<>>
    BY <2>1, FreshHolds
  <2>3. 1..Len(<<>>) = {}
    OBVIOUS
  <2>4. 1..Len(Returned(RECEIVE)) = {} /\ 1..Len(inbox) = {}
    BY <2>2, <2>3, Zenon DEF Init
  <2>5. got \in 0..arrived
    BY DEF Init
  <2> QED
    BY <2>4, <2>5 DEF OrderInv
<1>2. Shape /\ OrderInv /\ [Next]_vars => OrderInv'
  BY NextOrder
<1>3. Shape /\ OrderInv => ReceivedInOrder
  BY OrderIsOrder
<1> QED
  BY <1>1, <1>2, <1>3, ShapeHolds, PTL DEF Spec

-----------------------------------------------------------------------------
(* Frames. *)

WaitingFrame(i)  == desc[TRANSMIT][Waiting(TRANSMIT)[i]]
ReturnedFrame(i) == desc[TRANSMIT][Returned(TRANSMIT)[i]]

\* The frames sent are in the order they were offered; those that wait come
\* after them, in that order; those returned are among those sent.
SendInv ==
  IsNet =>
    /\ \A i \in 1..Len(outbox) : outbox[i] \in 1..offers
    /\ \A i, j \in 1..Len(outbox) : i < j => outbox[i] < outbox[j]
    /\ \A i \in 1..Len(Waiting(TRANSMIT)) : WaitingFrame(i) # Chained =>
         /\ WaitingFrame(i).n \in 1..offers
         /\ \A k \in 1..Len(outbox) : outbox[k] < WaitingFrame(i).n
    /\ \A i, j \in 1..Len(Waiting(TRANSMIT)) :
         i < j /\ WaitingFrame(i) # Chained /\ WaitingFrame(j) # Chained =>
           WaitingFrame(i).n < WaitingFrame(j).n
    /\ \A i \in 1..Len(Returned(TRANSMIT)) :
         \E k \in 1..Len(outbox) : outbox[k] = ReturnedFrame(i).n

\* A driver that keeps to the protocol offers no chain.
NoChain ==
  IsNet /\ ~astray =>
    \A i \in 1..Len(Waiting(TRANSMIT)) : WaitingFrame(i) # Chained

\* What is returned and what waits are different buffers.
LEMMA HeldApart ==
  ASSUME QueueInv, NEW q \in Queues
  PROVE  \A i \in 1..Len(Returned(q)), j \in 1..Len(Waiting(q)) : Returned(q)[i] # Waiting(q)[j]
<1> DEFINE h == Held(q)
           r == Returned(q)
           w == Waiting(q)
<1>1. PICK m \in Nat, n \in Nat : m = Len(r) /\ n = Len(w)
  BY QueueFacts DEF QueueInv
<1>2. Len(h) = m + n /\ (\A i \in 1..m : h[i] = r[i]) /\ \A i \in 1..n : h[m + i] = w[i]
  BY <1>1, HeldType DEF QueueInv
<1>3. \A i, j \in 1..Len(h) : h[i] = h[j] => i = j
  BY DEF QueueInv, HeldOnce
<1> HIDE DEF h, r, w
<1>4. \A i \in 1..m, j \in 1..n : i \in 1..(m + n) /\ m + j \in 1..(m + n) /\ i # m + j
  OBVIOUS
<1>5. \A i \in 1..m, j \in 1..n : r[i] # w[j]
  BY <1>2, <1>3, <1>4
<1> QED
  BY <1>1, <1>5 DEF r, w

LEMMA SendStays ==
  ASSUME SendInv, IsNet' => IsNet, UNCHANGED outbox, offers \in Nat, offers' \in {offers, offers + 1},
         Stays(TRANSMIT),
         IsNet => \A i \in 1..Len(Returned(TRANSMIT)) :
                    desc'[TRANSMIT][Returned(TRANSMIT)[i]] = ReturnedFrame(i),
         IsNet => \A i \in 1..Len(Waiting(TRANSMIT)) :
                    desc'[TRANSMIT][Waiting(TRANSMIT)[i]] = WaitingFrame(i)
  PROVE  SendInv'
<1> SUFFICES ASSUME IsNet' PROVE SendInv'
  BY DEF SendInv
<1>1. /\ \A i \in 1..Len(Returned(TRANSMIT)) : ReturnedFrame(i)' = ReturnedFrame(i)
      /\ \A i \in 1..Len(Waiting(TRANSMIT)) : WaitingFrame(i)' = WaitingFrame(i)
  BY DEF ReturnedFrame, WaitingFrame, Stays
<1>2. \A x \in 1..offers : x \in 1..offers'
  OBVIOUS
<1>3. Returned(TRANSMIT)' = Returned(TRANSMIT) /\ Waiting(TRANSMIT)' = Waiting(TRANSMIT)
  BY DEF Stays
<1> QED
  BY <1>1, <1>2, <1>3 DEF SendInv

\* The same, when the driver's buffers for packets are the only ones touched.
LEMMA SendBeside ==
  ASSUME SendInv, IsNet' => IsNet, UNCHANGED outbox, offers \in Nat, offers' \in {offers, offers + 1},
         Stays(TRANSMIT), desc'[TRANSMIT] = desc[TRANSMIT]
  PROVE  SendInv'
BY SendStays DEF ReturnedFrame, WaitingFrame

\* The driver offers a frame, or a chain.
LEMMA SendOffers ==
  ASSUME Shape, SendInv, IsNet, NEW id \in Slots, NEW content,
         content \in {Chained, Frame(offers + 1)},
         Offer(TRANSMIT, id, content), offers' = offers + 1
  PROVE  /\ SendInv'
         /\ \A i \in 1..Len(Waiting(TRANSMIT)') :
              \/ WaitingFrame(i)' = content
              \/ i \in 1..Len(Waiting(TRANSMIT)) /\ WaitingFrame(i)' = WaitingFrame(i)
<1> DEFINE r == Returned(TRANSMIT)
           w == Waiting(TRANSMIT)
<1>1. TRANSMIT \in Queues /\ offers \in Nat
  BY DEF TRANSMIT, Queues, Shape, PacketShape
<1>2. r \in Seq(Slots) /\ w \in Seq(Slots)
  BY <1>1, QueueFacts DEF Shape, QueueInv
<1>3. PICK m \in Nat, n \in Nat : m = Len(r) /\ n = Len(w)
  BY <1>2
<1>4. Given(TRANSMIT, id)
  BY <1>1, OfferSteps DEF Shape
<1>5. Returned(TRANSMIT)' = r /\ Waiting(TRANSMIT)' = Append(w, id)
  BY <1>4 DEF Given
<1>6. /\ desc'[TRANSMIT][id] = content
      /\ \A s \in Slots : s # id => desc'[TRANSMIT][s] = desc[TRANSMIT][s]
      /\ desc[TRANSMIT][id] = Nothing
      /\ UNCHANGED <<virtio, outbox>>
  <2>1. DOMAIN desc = Queues /\ DOMAIN desc[TRANSMIT] = Slots
    BY <1>1 DEF Shape, QueueInv, DescShape
  <2> QED
    BY <1>1, <2>1 DEF Offer, channels
<1>7. /\ \A i \in 1..m : r[i] \in Slots /\ r[i] # id
      /\ \A i \in 1..n : w[i] \in Slots /\ w[i] # id
  BY <1>1, <1>3, <1>6, InUse DEF Shape
<1>8. PICK t : t = Append(w, id)
  OBVIOUS
<1>9. Len(t) = n + 1 /\ t[n + 1] = id /\ \A i \in 1..n : t[i] = w[i]
  BY <1>2, <1>3, <1>8, AppendProperties
<1>10. \A i \in 1..m : ReturnedFrame(i)' = ReturnedFrame(i)
  BY <1>5, <1>6, <1>7 DEF ReturnedFrame
<1>11. /\ \A i \in 1..n : WaitingFrame(i)' = WaitingFrame(i)
       /\ WaitingFrame(n + 1)' = content
       /\ Len(Waiting(TRANSMIT)') = n + 1
  <2>1. Waiting(TRANSMIT)' = t
    BY <1>5, <1>8
  <2> QED
    BY <1>6, <1>7, <1>9, <2>1 DEF WaitingFrame
<1> HIDE DEF r, w
<1>12. /\ \A i \in 1..Len(outbox) : outbox[i] \in 1..offers
       /\ \A i, j \in 1..Len(outbox) : i < j => outbox[i] < outbox[j]
       /\ \A i \in 1..n : WaitingFrame(i) # Chained =>
            /\ WaitingFrame(i).n \in 1..offers
            /\ \A k \in 1..Len(outbox) : outbox[k] < WaitingFrame(i).n
       /\ \A i, j \in 1..n :
            i < j /\ WaitingFrame(i) # Chained /\ WaitingFrame(j) # Chained =>
              WaitingFrame(i).n < WaitingFrame(j).n
       /\ \A i \in 1..m : \E k \in 1..Len(outbox) : outbox[k] = ReturnedFrame(i).n
  BY <1>3 DEF SendInv, r, w
<1>13. /\ \A x \in 1..offers : x \in 1..(offers + 1) /\ x < offers + 1
       /\ offers + 1 \in 1..(offers + 1)
       /\ \A i \in 1..(n + 1) : i \in 1..n \/ i = n + 1
  BY <1>1
<1>14. content # Chained => content.n = offers + 1
  BY DEF Frame
<1>15. ASSUME NEW i \in 1..(n + 1), WaitingFrame(i)' # Chained
       PROVE  /\ WaitingFrame(i)'.n \in 1..(offers + 1)
              /\ \A k \in 1..Len(outbox) : outbox[k] < WaitingFrame(i)'.n
  BY <1>11, <1>12, <1>13, <1>14, <1>15
<1>16. ASSUME NEW i \in 1..(n + 1), NEW j \in 1..(n + 1), i < j,
              WaitingFrame(i)' # Chained, WaitingFrame(j)' # Chained
       PROVE  WaitingFrame(i)'.n < WaitingFrame(j)'.n
  <2>1. i \in 1..n /\ (j \in 1..n \/ j = n + 1)
    BY <1>16
  <2> QED
    BY <1>11, <1>12, <1>13, <1>14, <1>16, <2>1
<1>17. Len(Returned(TRANSMIT)') = m
  BY <1>3, <1>5
<1>18. \A i \in 1..Len(Waiting(TRANSMIT)') :
         \/ WaitingFrame(i)' = content
         \/ i \in 1..Len(Waiting(TRANSMIT)) /\ WaitingFrame(i)' = WaitingFrame(i)
  <2>1. \A i \in 1..(n + 1) :
          \/ WaitingFrame(i)' = content
          \/ i \in 1..n /\ WaitingFrame(i)' = WaitingFrame(i)
    BY <1>11, <1>13
  <2>2. n = Len(Waiting(TRANSMIT))
    BY <1>3 DEF w
  <2> QED
    BY <1>11, <2>1, <2>2
<1>19. SendInv'
  BY <1>6, <1>10, <1>11, <1>12, <1>13, <1>15, <1>16, <1>17 DEF SendInv
<1> QED
  BY <1>18, <1>19

\* A notification served takes all that waits.
LEMMA ServesAll ==
  ASSUME Shape, NEW q \in Queues, NotifyServes(q), UNCHANGED <<avail, seen>>
  PROVE  /\ Returned(q)' = Cat(Returned(q), Waiting(q)) /\ Waiting(q)' = <<>>
         /\ OthersStay(q)
<1> DEFINE w == Waiting(q)
<1>1. w \in Seq(Slots) /\ Len(w) \in Nat /\ Len(w) \in 0..Len(w) /\ Serve(q, Len(w))
  BY QueueFacts DEF Shape, QueueInv, NotifyServes
<1>2. /\ Returned(q)' = Returned(q) \o SubSeq(w, 1, Len(w))
      /\ Waiting(q)' = SubSeq(w, Len(w) + 1, Len(w))
      /\ OthersStay(q)
  BY <1>1, ServeEffect DEF Shape, QueueInv, OthersStay, Stays
<1> HIDE DEF w
<1>3. SubSeq(w, 1, Len(w)) = w
  BY <1>1, SubSeqFull
<1>4. SubSeq(w, Len(w) + 1, Len(w)) = <<>>
  BY <1>1, SubSeqEmpty
<1> QED
  BY <1>2, <1>3, <1>4 DEF Cat, w

\* The frames that wait are sent, and their buffers returned.
LEMMA SendTransmits ==
  ASSUME Shape, SendInv, IsNet, NEW q \in Queues, NotifyServes(q),
         UNCHANGED <<avail, seen, desc, offers>>
  PROVE  SendInv'
<1> DEFINE r == Returned(TRANSMIT)
           w == Waiting(TRANSMIT)
           f == Numbers(TRANSMIT, w)
<1>1. /\ q = TRANSMIT /\ Chained \notin Range(Contents(TRANSMIT, w))
      /\ outbox' = Cat(outbox, f)
  BY DEF NotifyServes, Cat
<1>2. Returned(TRANSMIT)' = Cat(r, w) /\ Waiting(TRANSMIT)' = <<>>
  BY <1>1, ServesAll
<1>3. r \in Seq(Slots) /\ w \in Seq(Slots)
  BY <1>1, QueueFacts DEF Shape, QueueInv
<1>4. PICK m \in Nat, n \in Nat, l \in Nat : m = Len(r) /\ n = Len(w) /\ l = Len(outbox)
  <2>1. outbox \in Seq(1..MaxFrames)
    BY DEF Shape, PacketShape
  <2>2. Len(outbox) \in Nat /\ Len(r) \in Nat /\ Len(w) \in Nat
    BY <1>3, <2>1
  <2> HIDE DEF r, w
  <2> QED
    BY <2>2
<1>5. DOMAIN w = 1..n
  BY <1>3, <1>4, LenProperties
<1>6. \A i \in 1..n : WaitingFrame(i) # Chained
  BY <1>1, <1>5 DEF Range, Contents, WaitingFrame
<1>7. Len(f) = n /\ \A i \in 1..n : f[i] = WaitingFrame(i).n
  BY <1>5 DEF Numbers, WaitingFrame
<1> HIDE DEF f
<1>8. PICK o, t : o = Cat(outbox, f) /\ t = Cat(r, w)
  OBVIOUS
<1>9. /\ Len(o) = l + n
      /\ \A i \in 1..l : o[i] = outbox[i]
      /\ \A i \in 1..n : o[l + i] = f[i]
  <2>1. Has(outbox, l) /\ Has(f, n)
    BY <1>4, <1>7 DEF Has
  <2> QED
    BY <1>8, <2>1, ConcatAt DEF Has
<1>10. /\ Len(t) = m + n
       /\ \A i \in 1..m : t[i] = r[i]
       /\ \A i \in 1..n : t[m + i] = w[i]
  <2>1. Has(r, m) /\ Has(w, n)
    BY <1>4 DEF Has
  <2> HIDE DEF r, w
  <2> QED
    BY <1>8, <2>1, ConcatAt DEF Has
<1>11. outbox' = o /\ Returned(TRANSMIT)' = t
  BY <1>1, <1>2, <1>8
<1>12. /\ \A i \in 1..m : ReturnedFrame(i)' = ReturnedFrame(i)
       /\ \A i \in 1..n : ReturnedFrame(m + i)' = WaitingFrame(i)
  BY <1>10, <1>11 DEF ReturnedFrame, WaitingFrame
<1>13. /\ \A i \in 1..l : outbox[i] \in 1..offers
       /\ \A i, j \in 1..l : i < j => outbox[i] < outbox[j]
       /\ \A i \in 1..n : /\ WaitingFrame(i).n \in 1..offers
                          /\ \A k \in 1..l : outbox[k] < WaitingFrame(i).n
       /\ \A i, j \in 1..n : i < j => WaitingFrame(i).n < WaitingFrame(j).n
       /\ \A i \in 1..m : \E k \in 1..l : outbox[k] = ReturnedFrame(i).n
  BY <1>4, <1>6 DEF SendInv
<1> HIDE DEF r, w
<1>14. /\ \A i \in 1..(l + n) : i \in 1..l \/ \E k \in 1..n : i = l + k
       /\ \A i \in 1..(m + n) : i \in 1..m \/ \E k \in 1..n : i = m + k
       /\ \A i \in 1..l : i \in 1..(l + n)
       /\ \A i \in 1..n : l + i \in 1..(l + n)
  <2>1. ASSUME NEW i \in 1..(l + n), i \notin 1..l PROVE \E k \in 1..n : i = l + k
    <3>1. i - l \in 1..n /\ i = l + (i - l)
      BY <2>1
    <3> QED
      BY <3>1
  <2>2. ASSUME NEW i \in 1..(m + n), i \notin 1..m PROVE \E k \in 1..n : i = m + k
    <3>1. i - m \in 1..n /\ i = m + (i - m)
      BY <2>2
    <3> QED
      BY <3>1
  <2>3. /\ \A i \in 1..l : i \in 1..(l + n)
        /\ \A i \in 1..n : l + i \in 1..(l + n)
    OBVIOUS
  <2> QED
    BY <2>1, <2>2, <2>3
<1>15. \A i \in 1..(l + n) : o[i] \in 1..offers
  BY <1>7, <1>9, <1>13, <1>14
<1>16. ASSUME NEW i \in 1..(l + n), NEW j \in 1..(l + n), i < j PROVE o[i] < o[j]
  <2>1. CASE i \in 1..l /\ j \in 1..l
    BY <1>9, <1>13, <1>16, <2>1
  <2>2. ASSUME NEW k \in 1..n, j = l + k, i \in 1..l PROVE o[i] < o[j]
    BY <1>7, <1>9, <1>13, <2>2
  <2>3. ASSUME NEW k \in 1..n, NEW p \in 1..n, i = l + k, j = l + p PROVE o[i] < o[j]
    <3>1. k < p
      BY <1>16, <2>3
    <3> QED
      BY <1>7, <1>9, <1>13, <2>3, <3>1
  <2>4. ASSUME NEW k \in 1..n, i = l + k, j \in 1..l PROVE FALSE
    BY <1>16, <2>4
  <2> QED
    BY <1>14, <2>1, <2>2, <2>3, <2>4
<1>17. ASSUME NEW i \in 1..(m + n) PROVE \E k \in 1..(l + n) : o[k] = ReturnedFrame(i)'.n
  <2>1. CASE i \in 1..m
    <3>1. PICK k \in 1..l : outbox[k] = ReturnedFrame(i).n
      BY <1>13, <2>1
    <3> QED
      BY <1>9, <1>12, <1>14, <2>1, <3>1
  <2>2. ASSUME NEW p \in 1..n, i = m + p PROVE \E k \in 1..(l + n) : o[k] = ReturnedFrame(i)'.n
    <3>1. o[l + p] = ReturnedFrame(i)'.n /\ l + p \in 1..(l + n)
      BY <1>7, <1>9, <1>12, <1>14, <2>2
    <3> QED
      BY <3>1
  <2> QED
    BY <1>14, <2>1, <2>2
<1>18. 1..Len(Waiting(TRANSMIT)') = {}
  <2>1. 1..Len(<<>>) = {}
    OBVIOUS
  <2> QED
    BY <1>2, <2>1
<1>19. Len(outbox') = l + n /\ Len(Returned(TRANSMIT)') = m + n
  BY <1>9, <1>10, <1>11
<1> QED
  BY <1>11, <1>15, <1>16, <1>17, <1>18, <1>19 DEF SendInv

LEMMA SendCollects ==
  ASSUME Shape, SendInv, Collect
  PROVE  SendInv'
<1>1. PICK q \in Queues :
        /\ Returned(q) # <<>>
        /\ Returned(q)' = Tail(Returned(q)) /\ Waiting(q)' = Waiting(q)
        /\ desc' = [desc EXCEPT ![q][Returned(q)[1]] = Nothing]
        /\ \A p \in Queues \ {q} : Returned(p)' = Returned(p) /\ Waiting(p)' = Waiting(p)
  BY CollectKeeps DEF Shape
<1>2. UNCHANGED <<virtio, outbox, offers>> /\ TRANSMIT \in Queues /\ offers \in Nat
  BY DEF Collect, channels, TRANSMIT, Queues, Shape, PacketShape
<1>3. DOMAIN desc = Queues /\ \A p \in Queues : DOMAIN desc[p] = Slots
  BY DEF Shape, QueueInv, DescShape
<1>4. CASE q # TRANSMIT
  <2>1. desc'[TRANSMIT] = desc[TRANSMIT] /\ Stays(TRANSMIT)
    BY <1>1, <1>2, <1>3, <1>4 DEF Stays
  <2> QED
    BY <1>2, <2>1, SendBeside DEF IsNet
<1>5. CASE q = TRANSMIT
  <2> SUFFICES ASSUME IsNet PROVE SendInv'
    BY <1>2 DEF SendInv, IsNet
  <2> DEFINE r == Returned(TRANSMIT)
             w == Waiting(TRANSMIT)
  <2>1. r \in Seq(Slots) /\ r # <<>> /\ w \in Seq(Slots)
    BY <1>1, <1>2, <1>5, QueueFacts DEF Shape, QueueInv
  <2>2. PICK m \in Nat, n \in Nat : m = Len(r) /\ n = Len(w)
    BY <2>1
  <2>3. PICK t : t = Returned(TRANSMIT)' /\ t = Tail(r)
    BY <1>1, <1>5
  <2>4. m > 0 /\ Len(t) = m - 1 /\ \A i \in 1..(m - 1) : t[i] = r[i + 1]
    BY <2>1, <2>2, <2>3, HeadTailProperties, EmptySeq
  <2>5. 1 \in 1..m /\ \A i \in 1..(m - 1) : i + 1 \in 1..m /\ i + 1 # 1
    BY <2>4
  <2>6. \A i, j \in 1..m : r[i] = r[j] => i = j
    BY <1>2, <2>2, ReturnedOnce DEF Shape
  <2>7. /\ \A i \in 1..m : r[i] \in Slots
        /\ \A i \in 1..n : w[i] \in Slots
    BY <1>2, <2>2, InUse DEF Shape
  <2>8. \A i \in 1..n : w[i] # r[1]
    BY <1>2, <2>2, <2>5, HeldApart DEF Shape
  <2>9. \A s \in Slots : s # r[1] => desc'[TRANSMIT][s] = desc[TRANSMIT][s]
    BY <1>1, <1>2, <1>3, <1>5
  <2>10. Waiting(TRANSMIT)' = w
    BY <1>1, <1>5
  <2> HIDE DEF r, w
  <2>11. \A i \in 1..(m - 1) : desc'[TRANSMIT][t[i]] = desc[TRANSMIT][r[i + 1]]
    BY <2>4, <2>5, <2>6, <2>7, <2>9
  <2>12. \A i \in 1..n : desc'[TRANSMIT][w[i]] = desc[TRANSMIT][w[i]]
    BY <2>7, <2>8, <2>9
  <2>13. \A i \in 1..(m - 1) : ReturnedFrame(i)' = ReturnedFrame(i + 1)
    BY <2>3, <2>11 DEF ReturnedFrame, r
  <2>14. \A i \in 1..n : WaitingFrame(i)' = WaitingFrame(i)
    BY <2>10, <2>12 DEF WaitingFrame, w
  <2>15. \A i \in 1..(m - 1) : \E k \in 1..Len(outbox) : outbox[k] = ReturnedFrame(i)'.n
    BY <2>2, <2>5, <2>13 DEF SendInv, r
  <2>16. Len(Returned(TRANSMIT)') = m - 1 /\ Len(Waiting(TRANSMIT)') = n /\ n = Len(Waiting(TRANSMIT))
    BY <2>2, <2>3, <2>4, <2>10 DEF w
  <2> QED
    BY <1>2, <2>14, <2>15, <2>16 DEF SendInv
<1> QED
  BY <1>4, <1>5

\* A step that leaves the frames.
LEMMA FramesStay ==
  ASSUME Shape, SendInv, NoChain, virtio'.device_type = virtio.device_type,
         UNCHANGED <<outbox, offers>>, astray' \in {astray, TRUE}, Stays(TRANSMIT),
         desc'[TRANSMIT] = desc[TRANSMIT]
  PROVE  SendInv' /\ NoChain'
<1>1. offers \in Nat
  BY DEF Shape, PacketShape
<1>2. \A i \in 1..Len(Waiting(TRANSMIT)) : WaitingFrame(i)' = WaitingFrame(i)
  BY DEF WaitingFrame, Stays
<1>3. SendInv'
  BY <1>1, SendBeside DEF IsNet
<1>4. NoChain'
  BY <1>2 DEF NoChain, IsNet, Stays
<1> QED
  BY <1>3, <1>4

\* A step after which nothing waits to be sent.
LEMMA NoneWaiting ==
  ASSUME Waiting(TRANSMIT)' = <<>>
  PROVE  NoChain' /\ 1..Len(Waiting(TRANSMIT)') = {}
<1>1. 1..Len(<<>>) = {}
  OBVIOUS
<1> QED
  BY <1>1 DEF NoChain

LEMMA NextFrames ==
  ASSUME Shape, SendInv, NoChain, [Next]_vars
  PROVE  SendInv' /\ NoChain'
<1>1. /\ RECEIVE \in Queues /\ TRANSMIT \in Queues /\ CONTROL \in Queues
      /\ RECEIVE # TRANSMIT /\ offers \in Nat
  BY DEF RECEIVE, TRANSMIT, CONTROL, Queues, Shape, PacketShape
<1>2. DOMAIN desc = Queues /\ \A p \in Queues : DOMAIN desc[p] = Slots
  BY DEF Shape, QueueInv, DescShape
<1>3. virtio'.device_type = virtio.device_type
  BY NextShape
<1>4. CASE ~IsNet
  BY <1>3, <1>4 DEF SendInv, NoChain, IsNet
<1>5. CASE IsNet
  <2>1. ASSUME UNCHANGED <<last_idxes, avail, used, seen, desc, outbox, offers>>,
               astray' \in {astray, TRUE}
        PROVE  SendInv' /\ NoChain'
    <3>1. Stays(TRANSMIT)
      BY <1>1, <2>1, QueueStays DEF Stays
    <3> QED
      BY <1>3, <2>1, <3>1, FramesStay
  <2>2. CASE Access
    BY <2>1, <2>2, AccessEffect DEF Shape, beside, memory, channels, counts
  <2>3. CASE Reset
    <3>1. UNCHANGED <<outbox, offers>>
          /\ Returned(TRANSMIT)' = <<>> /\ Waiting(TRANSMIT)' = <<>>
      BY <1>1, <2>3, ResetEffect, FreshKeeps DEF Shape, channels, counts
    <3>2. 1..Len(Returned(TRANSMIT)') = {}
      <4>1. 1..Len(<<>>) = {}
        OBVIOUS
      <4> QED
        BY <3>1, <4>1
    <3> QED
      BY <1>5, <3>1, <3>2, NoneWaiting DEF SendInv
  <2>4. CASE OfferReceive
    <3>1. PICK id \in Slots : Offer(RECEIVE, id, EmptyBuffer)
      BY <2>4 DEF OfferReceive
    <3>2. Given(RECEIVE, id)
      BY <1>1, <3>1, OfferSteps DEF Shape
    <3>3. Stays(TRANSMIT)
      BY <1>1, <3>2 DEF Given, OthersStay
    <3>4. desc'[TRANSMIT] = desc[TRANSMIT] /\ outbox' = outbox
      BY <1>1, <1>2, <3>1 DEF Offer, channels
    <3> QED
      BY <1>3, <2>4, <3>3, <3>4, FramesStay DEF OfferReceive
  <2>5. ASSUME NEW id \in Slots, NEW content \in {Chained, Frame(offers + 1)},
               Offer(TRANSMIT, id, content), offers' = offers + 1,
               astray' = TRUE \/ (~astray /\ content = Frame(offers + 1))
        PROVE  SendInv' /\ NoChain'
    <3>1. /\ SendInv'
          /\ \A i \in 1..Len(Waiting(TRANSMIT)') :
               \/ WaitingFrame(i)' = content
               \/ i \in 1..Len(Waiting(TRANSMIT)) /\ WaitingFrame(i)' = WaitingFrame(i)
      BY <1>5, <2>5, SendOffers
    <3>2. Frame(offers + 1) # Chained
      <4>1. Frame(offers + 1).op = "Frame" /\ Chained.op = "Chained"
        BY DEF Frame, Chained
      <4> QED
        BY <4>1
    <3>3. CASE astray' = TRUE
      BY <3>1, <3>3 DEF NoChain
    <3>4. CASE ~astray /\ content = Frame(offers + 1)
      <4>1. \A i \in 1..Len(Waiting(TRANSMIT)) : WaitingFrame(i) # Chained
        BY <1>5, <3>4 DEF NoChain
      <4> QED
        BY <3>1, <3>2, <3>4, <4>1 DEF NoChain
    <3> QED
      BY <2>5, <3>3, <3>4
  <2>6. CASE OfferTransmit
    <3>1. PICK id \in Slots : Offer(TRANSMIT, id, Frame(offers + 1))
      BY <2>6 DEF OfferTransmit
    <3>2. ~astray /\ offers' = offers + 1
      BY <2>6 DEF OfferTransmit
    <3> QED
      BY <2>5, <3>1, <3>2
  <2>7. CASE OfferAstray
    <3>1. PICK id \in Slots : Offer(TRANSMIT, id, Chained)
      BY <1>5, <2>7 DEF OfferAstray
    <3>2. astray' = TRUE /\ offers' = offers + 1
      BY <2>7 DEF OfferAstray
    <3> QED
      BY <2>5, <3>1, <3>2
  <2>8. ASSUME NEW q \in Queues \cup {2}, DeviceNotify(q), UNCHANGED <<seen, counts>>,
               astray' \in {astray, TRUE}
        PROVE  SendInv' /\ NoChain'
    <3>1. UNCHANGED <<virtio, avail, desc, offers>>
      BY <2>8, NotifyEffect DEF counts
    <3>2. CASE UNCHANGED <<last_idxes, used, outbox>>
      BY <2>1, <2>8, <3>1, <3>2
    <3>3. CASE NotifyServes(q)
      <4>1. q \in Queues /\ q = TRANSMIT
        BY <1>5, <3>3 DEF NotifyServes
      <4>2. SendInv'
        BY <1>5, <2>8, <3>1, <3>3, <4>1, SendTransmits
      <4>3. Waiting(TRANSMIT)' = <<>>
        BY <2>8, <3>1, <3>3, <4>1, ServesAll
      <4> QED
        BY <4>2, <4>3, NoneWaiting
    <3> QED
      BY <2>8, <3>2, <3>3, NotifyEffect
  <2>9. CASE Notify
    BY <2>8, <2>9 DEF Notify
  <2>10. CASE Interrupted \/ HandlerEnds
    BY <2>1, <2>10 DEF Interrupted, HandlerEnds, queueVars, memory, channels, counts
  <2>11. CASE Collect
    <3>1. SendInv'
      BY <2>11, SendCollects
    <3>2. PICK q \in Queues :
            /\ Returned(q) # <<>>
            /\ Waiting(q)' = Waiting(q)
            /\ desc' = [desc EXCEPT ![q][Returned(q)[1]] = Nothing]
            /\ \A p \in Queues \ {q} : Waiting(p)' = Waiting(p)
      BY <2>11, CollectKeeps DEF Shape
    <3>3. 1 \in 1..Len(Returned(q)) /\ Waiting(TRANSMIT)' = Waiting(TRANSMIT)
      <4>1. Returned(q) \in Seq(Slots)
        BY QueueFacts DEF Shape, QueueInv
      <4>2. Len(Returned(q)) \in Nat /\ Len(Returned(q)) # 0
        BY <3>2, <4>1, EmptySeq
      <4> QED
        BY <1>1, <3>2, <4>2
    <3>4. ASSUME NEW i \in 1..Len(Waiting(TRANSMIT))
          PROVE  desc'[TRANSMIT][Waiting(TRANSMIT)[i]] = desc[TRANSMIT][Waiting(TRANSMIT)[i]]
      <4>1. Waiting(TRANSMIT)[i] \in Slots
        BY <1>1, InUse DEF Shape
      <4>2. q = TRANSMIT => Waiting(TRANSMIT)[i] # Returned(q)[1]
        BY <1>1, <3>3, HeldApart DEF Shape
      <4> QED
        BY <1>1, <1>2, <3>2, <4>1, <4>2
    <3>5. \A i \in 1..Len(Waiting(TRANSMIT)) : WaitingFrame(i)' = WaitingFrame(i)
      BY <3>3, <3>4 DEF WaitingFrame
    <3>6. astray' = astray
      BY <2>11 DEF Collect
    <3>7. NoChain'
      BY <1>3, <3>3, <3>5, <3>6 DEF NoChain, IsNet
    <3> QED
      BY <3>1, <3>7
  <2>12. CASE GoAstray
    <3>1. CASE UNCHANGED beside
      BY <2>1, <2>12, <3>1, AstrayEffect DEF Shape, beside, memory, channels, counts
    <3>2. CASE \E q \in Queues \cup {2} : DeviceNotify(q)
      BY <2>8, <2>12, <3>2, AstrayEffect DEF Shape
    <3> QED
      BY <2>12, <3>1, <3>2, AstrayEffect DEF Shape
  <2>13. CASE Tick
    <3>1. UNCHANGED <<avail, seen, outbox, offers, astray>>
      BY <2>13, TickEffect DEF driver, counts
    <3>2. CASE NetDeliver
      <4>1. Stays(TRANSMIT) /\ desc'[TRANSMIT] = desc[TRANSMIT]
        BY <1>1, <1>5, <3>1, <3>2, DeliverEffect DEF Stays
      <4> QED
        BY <1>3, <3>1, <4>1, FramesStay
    <3>3. CASE UNCHANGED <<last_idxes, used, desc>>
      BY <2>1, <3>1, <3>3
    <3> QED
      BY <2>13, <3>2, <3>3, TickEffect
  <2>14. CASE HostSends \/ HostEnds
    BY <2>1, <2>14 DEF HostSends, HostEnds, memory, driver, counts
  <2>15. CASE UNCHANGED vars
    BY <2>1, <2>15 DEF vars, queueVars, memory, channels, driver, counts
  <2>16. ~OfferCommand
    BY <1>5 DEF OfferCommand
  <2> QED
    BY <2>2, <2>3, <2>4, <2>6, <2>7, <2>9, <2>10, <2>11, <2>12, <2>13, <2>14, <2>15, <2>16
       DEF Next
<1> QED
  BY <1>4, <1>5

LEMMA SendIsOnce ==
  ASSUME Shape, SendInv, NoChain PROVE TransmittedOnce
<1> SUFFICES ASSUME IsNet, ~astray
             PROVE  /\ Increasing(outbox)
                    /\ Range(Numbers(TRANSMIT, Returned(TRANSMIT))) \subseteq Range(outbox)
                    /\ Range(Numbers(TRANSMIT, Waiting(TRANSMIT))) \cap Range(outbox) = {}
  BY DEF TransmittedOnce
<1>1. TRANSMIT \in Queues /\ offers \in Nat
  BY DEF TRANSMIT, Queues, Shape, PacketShape
<1>2. DOMAIN outbox = 1..Len(outbox)
  <2>1. outbox \in Seq(1..MaxFrames)
    BY DEF Shape, PacketShape
  <2> QED
    BY <2>1, LenProperties
<1>3. /\ DOMAIN Returned(TRANSMIT) = 1..Len(Returned(TRANSMIT))
      /\ DOMAIN Waiting(TRANSMIT) = 1..Len(Waiting(TRANSMIT))
  BY <1>1, QueueFacts, LenProperties DEF Shape, QueueInv
<1>4. Increasing(outbox)
  BY <1>2 DEF SendInv, Increasing
<1>5. Range(Numbers(TRANSMIT, Returned(TRANSMIT))) \subseteq Range(outbox)
  <2> SUFFICES ASSUME NEW i \in DOMAIN Returned(TRANSMIT)
               PROVE  ReturnedFrame(i).n \in Range(outbox)
    BY DEF Range, Numbers, ReturnedFrame
  <2>1. PICK k \in 1..Len(outbox) : outbox[k] = ReturnedFrame(i).n
    BY <1>3 DEF SendInv
  <2> QED
    BY <1>2, <2>1 DEF Range
<1>6. Range(Numbers(TRANSMIT, Waiting(TRANSMIT))) \cap Range(outbox) = {}
  <2> SUFFICES ASSUME NEW i \in DOMAIN Waiting(TRANSMIT), NEW k \in DOMAIN outbox
               PROVE  WaitingFrame(i).n # outbox[k]
    BY DEF Range, Numbers, WaitingFrame
  <2>1. /\ WaitingFrame(i).n \in 1..offers /\ outbox[k] \in 1..offers
        /\ outbox[k] < WaitingFrame(i).n
    BY <1>2, <1>3 DEF SendInv, NoChain
  <2> QED
    BY <2>1
<1> QED
  BY <1>4, <1>5, <1>6

LEMMA FramesHold == Spec => [](SendInv /\ NoChain)
<1>1. Init => SendInv /\ NoChain
  <2> SUFFICES ASSUME Init PROVE SendInv /\ NoChain
    OBVIOUS
  <2>1. FreshQueues /\ TRANSMIT \in Queues
    BY DEF Init, FreshQueues, TRANSMIT, Queues
  <2>2. Returned(TRANSMIT) = <<>> /\ Waiting(TRANSMIT) = <<>>
    BY <2>1, FreshHolds
  <2>3. 1..Len(<<>>) = {}
    OBVIOUS
  <2>4. /\ 1..Len(Returned(TRANSMIT)) = {} /\ 1..Len(Waiting(TRANSMIT)) = {}
        /\ 1..Len(outbox) = {}
    BY <2>2, <2>3, Zenon DEF Init
  <2> QED
    BY <2>4 DEF SendInv, NoChain
<1>2. Shape /\ SendInv /\ NoChain /\ [Next]_vars => SendInv' /\ NoChain'
  BY NextFrames
<1> QED
  BY <1>1, <1>2, ShapeHolds, PTL DEF Spec

\* A frame goes to the host exactly once and in order: never before the device
\* took its buffer, and always by the time the driver may reuse it.
THEOREM FramesSentOnce == Spec => []TransmittedOnce
<1>1. Shape /\ SendInv /\ NoChain => TransmittedOnce
  BY SendIsOnce
<1> QED
  BY <1>1, ShapeHolds, FramesHold, PTL

-----------------------------------------------------------------------------
(* Induction over the natural numbers, and the loop over the commands. *)

LEMMA LeastNumber ==
  ASSUME NEW T \in SUBSET Nat, T # {}
  PROVE  \E x \in T : \A y \in T : ~(y < x)
<1>1. IsWellFoundedOn(OpToRel(<, Nat), Nat)
  BY NatLessThanWellFounded
<1>2. \E x \in T : \A y \in T : ~(<<y, x>> \in OpToRel(<, Nat))
  BY <1>1, WFMin
<1> QED
  BY <1>2 DEF OpToRel

LEMMA CountingUp ==
  ASSUME NEW n \in Nat, NEW T, 0 \in T,
         \A k \in 0..n : k < n /\ k \in T => k + 1 \in T
  PROVE  \A k \in 0..n : k \in T
<1> SUFFICES ASSUME NEW k \in 0..n, k \notin T PROVE FALSE
  OBVIOUS
<1>1. k \in (0..n) \ T /\ (0..n) \ T \in SUBSET Nat
  OBVIOUS
<1>2. PICK x \in (0..n) \ T : \A y \in (0..n) \ T : ~(y < x)
  BY <1>1, LeastNumber
<1>3. x # 0 /\ x - 1 \in 0..n /\ x - 1 < n /\ x - 1 < x /\ (x - 1) + 1 = x
  BY <1>2
<1>4. x - 1 \in T
  BY <1>2, <1>3
<1> QED
  BY <1>2, <1>3, <1>4

LEMMA MaxIs ==
  ASSUME NEW S \in SUBSET Int, NEW x \in S, \A y \in S : x >= y
  PROVE  Max(S) = x
<1>1. Max(S) \in S /\ \A y \in S : Max(S) >= y
  BY DEF Max
<1>2. PICK m \in S : m = Max(S) /\ m >= x
  BY <1>1
<1>3. m \in Int /\ x \in Int /\ x >= m
  BY <1>2
<1> QED
  BY <1>2, <1>3

LEMMA MaxBelow ==
  ASSUME NEW n \in Nat, NEW S \in SUBSET (1..n), S # {}
  PROVE  Max(S) \in S /\ \A y \in S : Max(S) >= y
<1> DEFINE T == {n - x : x \in S}
<1>1. T \in SUBSET Nat /\ T # {}
  <2>1. \A x \in S : n - x \in Nat
    OBVIOUS
  <2> QED
    BY <2>1
<1>2. PICK t \in T : \A y \in T : ~(y < t)
  BY <1>1, LeastNumber
<1>3. PICK x \in S : t = n - x
  BY <1>2
<1>4. \A y \in S : x >= y
  <2> TAKE y \in S
  <2>1. ~(n - y < n - x) /\ x \in Int /\ y \in Int
    BY <1>2, <1>3
  <2> QED
    BY <2>1
<1> QED
  BY <1>4 DEF Max

\* A function that the fold over the commands cmds is taken from.
Folds(f, D, cmds) ==
  f = [s \in SUBSET D |-> IF s = {} THEN Begin
                          ELSE Executed(f[s \ {Max(s)}], cmds[Max(s)])]

LEMMA RunIsFold ==
  ASSUME NEW cmds
  PROVE  Run(cmds) = (CHOOSE f : Folds(f, DOMAIN cmds, cmds))[DOMAIN cmds]
BY DEF Run, FoldLeft, MapThenFoldSet, Folds

LEMMA FoldGrows ==
  ASSUME NEW n \in Nat, NEW cmds, NEW f, Folds(f, 1..n, cmds)
  PROVE  \E g : Folds(g, 1..(n + 1), cmds)
<1> DEFINE D == SUBSET (1..(n + 1))
           last == n + 1
           g == [s \in D |-> IF last \in s THEN Executed(f[s \ {last}], cmds[last]) ELSE f[s]]
<1>1. ASSUME NEW s \in D
      PROVE  g[s] = IF s = {} THEN Begin ELSE Executed(g[s \ {Max(s)}], cmds[Max(s)])
  <2>1. CASE last \in s
    <3>1. Max(s) = last
      BY <2>1, MaxIs
    <3>2. s \ {last} \in D /\ last \notin s \ {last}
      OBVIOUS
    <3>3. g[s \ {last}] = f[s \ {last}] /\ g[s] = Executed(f[s \ {last}], cmds[last])
      BY <2>1, <3>2
    <3> HIDE DEF g
    <3> QED
      BY <2>1, <3>1, <3>3
  <2>2. CASE last \notin s
    <3>1. s \in SUBSET (1..n) /\ g[s] = f[s]
      BY <2>2
    <3>2. f[s] = IF s = {} THEN Begin ELSE Executed(f[s \ {Max(s)}], cmds[Max(s)])
      BY <3>1 DEF Folds
    <3>3. s \ {Max(s)} \in D /\ last \notin s \ {Max(s)}
      BY <2>2
    <3>4. g[s \ {Max(s)}] = f[s \ {Max(s)}]
      BY <3>3
    <3> HIDE DEF g
    <3> QED
      BY <3>1, <3>2, <3>4
  <2> QED
    BY <2>1, <2>2
<1>2. Folds(g, 1..(n + 1), cmds)
  <2>1. g = [s \in D |-> g[s]]
    OBVIOUS
  <2> HIDE DEF g
  <2> QED
    BY <1>1, <2>1 DEF Folds
<1> QED
  BY <1>2

\* The loop: R[k] is the state after k commands.
LEMMA RunStates ==
  ASSUME NEW n \in Nat, NEW cmds, DOMAIN cmds = 1..n
  PROVE  \E R : /\ R[0] = Begin
                /\ \A k \in 1..n : R[k] = Executed(R[k - 1], cmds[k])
                /\ Run(cmds) = R[n]
<1>1. \A k \in 0..n : \E f : Folds(f, 1..k, cmds)
  <2> DEFINE T == {k \in 0..n : \E f : Folds(f, 1..k, cmds)}
  <2>1. 0 \in T
    <3> DEFINE f == [s \in {{}} |-> Begin]
    <3>1. SUBSET (1..0) = {{}}
      OBVIOUS
    <3>2. Folds(f, 1..0, cmds)
      BY <3>1 DEF Folds
    <3> QED
      BY <3>2
  <2>2. \A k \in 0..n : k < n /\ k \in T => k + 1 \in T
    BY FoldGrows
  <2> HIDE DEF T
  <2>3. \A k \in 0..n : k \in T
    BY <2>1, <2>2, CountingUp
  <2> QED
    BY <2>3 DEF T
<1> DEFINE f == CHOOSE f : Folds(f, DOMAIN cmds, cmds)
<1>2. Folds(f, 1..n, cmds)
  BY <1>1
<1>3. Run(cmds) = f[1..n]
  BY RunIsFold
<1> HIDE DEF f
<1> DEFINE R == [k \in 0..n |-> f[1..k]]
<1>4. R[0] = Begin
  BY <1>2 DEF Folds
<1>5. ASSUME NEW k \in 1..n PROVE R[k] = Executed(R[k - 1], cmds[k])
  <2>1. Max(1..k) = k
    <3>1. 1..k \in SUBSET Int /\ k \in 1..k /\ \A y \in 1..k : k >= y
      OBVIOUS
    <3> QED
      BY <3>1, MaxIs
  <2>2. (1..k) \ {k} = 1..(k - 1) /\ 1..k # {} /\ 1..k \in SUBSET (1..n)
    OBVIOUS
  <2>3. f[1..k] = Executed(f[1..(k - 1)], cmds[k])
    BY <1>2, <2>1, <2>2 DEF Folds
  <2> QED
    BY <2>3
<1>6. Run(cmds) = R[n]
  BY <1>3
<1> QED
  BY <1>4, <1>5, <1>6

-----------------------------------------------------------------------------
(* What the host shows. *)

Message ==
  [op : {"Copy"}, res : Resources, pages : Seq(Nat)]
  \cup [op : {"Flush"}, res : Resources] \cup {[op |-> "Disable", res |-> 0]}

Filling(messages) == {k \in DOMAIN messages : messages[k].op # "Flush"}

LEMMA HostAfter ==
  ASSUME NEW m \in Seq(Message), NEW x \in Message
  PROVE  HostResource(Append(m, x)) = IF x.op = "Flush" THEN HostResource(m) ELSE x.res
<1>1. PICK n \in Nat : n = Len(m)
  BY LenProperties
<1>2. DOMAIN m = 1..n
  BY <1>1, LenProperties
<1>3. PICK t : t = Append(m, x)
  OBVIOUS
<1>4. DOMAIN t = 1..(n + 1) /\ t[n + 1] = x /\ \A k \in 1..n : t[k] = m[k]
  <2>1. /\ t \in Seq(Message) /\ Len(t) = n + 1
        /\ t[n + 1] = x /\ \A k \in 1..n : t[k] = m[k]
    BY <1>1, <1>3, AppendProperties
  <2> QED
    BY <2>1, LenProperties
<1>5. HostResource(t) = IF Filling(t) = {} THEN 0 ELSE t[Max(Filling(t))].res
  BY DEF HostResource, Filling
<1>6. HostResource(m) = IF Filling(m) = {} THEN 0 ELSE m[Max(Filling(m))].res
  BY DEF HostResource, Filling
<1>7. CASE x.op = "Flush"
  <2>1. Filling(t) = Filling(m)
    BY <1>2, <1>4, <1>7 DEF Filling
  <2>2. CASE Filling(m) = {}
    BY <1>3, <1>5, <1>6, <1>7, <2>1, <2>2
  <2>3. CASE Filling(m) # {}
    <3>1. Filling(m) \in SUBSET (1..n)
      BY <1>2 DEF Filling
    <3>2. Max(Filling(m)) \in 1..n
      BY <2>3, <3>1, MaxBelow
    <3>3. t[Max(Filling(m))] = m[Max(Filling(m))]
      BY <1>4, <3>2
    <3> QED
      BY <1>3, <1>5, <1>6, <1>7, <2>1, <2>3, <3>3
  <2> QED
    BY <2>2, <2>3
<1>8. CASE x.op # "Flush"
  <2>1. Filling(t) \in SUBSET Int /\ n + 1 \in Filling(t) /\ \A y \in Filling(t) : n + 1 >= y
    BY <1>4, <1>8 DEF Filling
  <2>2. Max(Filling(t)) = n + 1
    BY <2>1, MaxIs
  <2> QED
    BY <1>3, <1>4, <1>5, <1>8, <2>1, <2>2
<1> QED
  BY <1>7, <1>8

LEMMA FlushesAfter ==
  ASSUME NEW m \in Seq(Message), NEW x \in Message, FlushesShown(m),
         x.op = "Flush" => x.res = HostResource(m)
  PROVE  FlushesShown(Append(m, x))
<1>1. PICK n \in Nat : n = Len(m)
  BY LenProperties
<1>2. PICK t : t = Append(m, x)
  OBVIOUS
<1>3. /\ DOMAIN t = 1..(n + 1) /\ t[n + 1] = x /\ DOMAIN m = 1..n
      /\ \A k \in 1..n : t[k] = m[k]
  <2>1. /\ t \in Seq(Message) /\ Len(t) = n + 1
        /\ t[n + 1] = x /\ \A k \in 1..n : t[k] = m[k]
    BY <1>1, <1>2, AppendProperties
  <2> QED
    BY <1>1, <2>1, LenProperties
<1>4. ASSUME NEW k \in 1..n
      PROVE  SubSeq(t, 1, k - 1) = SubSeq(m, 1, k - 1) /\ SubSeq(t, 1, n) = m
  <2>1. /\ SubSeq(t, 1, k - 1) = [i \in 1..(k - 1) |-> t[i]]
        /\ SubSeq(m, 1, k - 1) = [i \in 1..(k - 1) |-> m[i]]
        /\ SubSeq(t, 1, n) = [i \in 1..n |-> t[i]]
    OBVIOUS
  <2> QED
    BY <1>3, <2>1
<1>5. SubSeq(t, 1, n) = m
  <2>1. SubSeq(t, 1, n) = [i \in 1..n |-> t[i]]
    OBVIOUS
  <2>2. m = [i \in 1..n |-> m[i]]
    BY <1>3
  <2> QED
    BY <1>3, <2>1, <2>2
<1>6. ASSUME NEW k \in 1..(n + 1), t[k].op = "Flush"
      PROVE  t[k].res = HostResource(SubSeq(t, 1, k - 1))
  <2>1. CASE k \in 1..n
    <3>1. m[k].res = HostResource(SubSeq(m, 1, k - 1))
      BY <1>3, <1>6, <2>1 DEF FlushesShown
    <3> QED
      BY <1>3, <1>4, <2>1, <3>1
  <2>2. CASE k = n + 1
    <3>1. k - 1 = n
      BY <2>2
    <3>2. x.op = "Flush"
      BY <1>3, <1>6, <2>2
    <3> QED
      BY <1>3, <1>5, <2>2, <3>1, <3>2
  <2> QED
    BY <2>1, <2>2
<1>7. FlushesShown(t)
  BY <1>3, <1>6 DEF FlushesShown
<1> QED
  BY <1>2, <1>7


-----------------------------------------------------------------------------
(* What commands do. *)

\* Resources with their pages, and how far a run over commands has come.
Books  == UNION {[D -> Seq(Nat)] : D \in SUBSET Resources}
States == [known : Books, sent : Seq(Message)]

After(s, cmd) ==
  [known |-> Changed(s.known, cmd), sent |-> s.sent \o Messages(s.known, cmd)]

\* S[k] is the state after k commands, none of the first m being refused.
Follows(S, cmds, m) ==
  /\ S[0] = [known |-> resources, sent |-> <<>>]
  /\ \A k \in 0..m : S[k] \in States
  /\ \A k \in 1..m : ~Refused(cmds[k], S[k - 1].known) /\ S[k] = After(S[k - 1], cmds[k])

LEMMA BookShape ==
  ASSUME NEW known \in Books
  PROVE  /\ DOMAIN known \subseteq Resources
         /\ known \in [DOMAIN known -> Seq(Nat)]
BY DEF Books

LEMMA BookIs ==
  ASSUME NEW D \in SUBSET Resources, NEW known \in [D -> Seq(Nat)]
  PROVE  known \in Books
BY DEF Books

LEMMA CutType ==
  ASSUME NEW pages \in Seq(Nat)
  PROVE  Cut(pages) \in Seq(Nat)
<1>1. Len(pages) \in Nat /\ FrameSize \in Nat
  BY FrameSizeAssumption, LenProperties
<1>2. PICK n \in Nat : n = (IF Len(pages) < FrameSize THEN Len(pages) ELSE FrameSize)
                       /\ n <= Len(pages)
  BY <1>1
<1>3. Cut(pages) = SubSeq(pages, 1, n)
  BY <1>2 DEF Cut
<1>4. SubSeq(pages, 1, n) \in Seq(Nat)
  BY <1>1, <1>2, SubSeqProperties
<1> QED
  BY <1>3, <1>4

\* A command that is not refused leads from resources to resources, and sends
\* at most one message: what it copies, flushes or disables.
LEMMA CommandEffect ==
  ASSUME NEW known \in Books, NEW cmd \in Commands, ~Refused(cmd, known),
         cmd.op = "AttachBacking" => known[cmd.res] = <<>>
  PROVE  /\ Changed(known, cmd) \in Books
         /\ Changed(known, cmd) =
              CASE cmd.op = "Create2D" -> Created(known, cmd)
                [] cmd.op = "AttachBacking" -> [known EXCEPT ![cmd.res] = cmd.pages]
                [] OTHER -> known
         /\ \/ /\ Messages(known, cmd) = <<>>
               /\ cmd.op \notin {"Transfer", "Flush"} /\ ~(cmd.op = "SetScanout" /\ cmd.res = 0)
            \/ \E x \in Message :
                 /\ Messages(known, cmd) = <<x>>
                 /\ \/ cmd.op = "Transfer" /\ x.op = "Copy" /\ x.res = cmd.res
                    \/ cmd.op = "Flush" /\ x.op = "Flush" /\ x.res = cmd.res
                    \/ cmd.op = "SetScanout" /\ cmd.res = 0 /\ x.op = "Disable"
<1>1. known \in [DOMAIN known -> Seq(Nat)] /\ DOMAIN known \subseteq Resources
  BY BookShape
<1>2. CASE cmd.op = "Create2D"
  <2>1. cmd.res \in Resources
    BY <1>2 DEF Commands, GetDisplayInfo, Create2D, SetScanout, Transfer, Flush, Attach
  <2>2. Changed(known, cmd) = Created(known, cmd)
    BY <1>2 DEF Changed
  <2>3. Created(known, cmd) =
          [r \in DOMAIN known \cup {cmd.res} |-> IF r = cmd.res THEN <<>> ELSE known[r]]
    BY DEF Created
  <2>4. Created(known, cmd) \in [DOMAIN known \cup {cmd.res} -> Seq(Nat)]
    <3>1. <<>> \in Seq(Nat)
      OBVIOUS
    <3> QED
      BY <1>1, <2>3, <3>1
  <2>5. Changed(known, cmd) \in Books
    BY <1>1, <2>1, <2>2, <2>4, BookIs
  <2>6. Messages(known, cmd) = <<>>
    BY <1>2 DEF Messages
  <2> QED
    BY <1>2, <2>2, <2>5, <2>6
<1>3. CASE cmd.op = "AttachBacking"
  <2>1. cmd.res \in Resources /\ cmd.pages \in Seq(Nat)
    BY <1>3, PageListsAssumption
       DEF Commands, GetDisplayInfo, Create2D, SetScanout, Transfer, Flush, Attach
  <2>2. cmd.res \in DOMAIN known /\ known[cmd.res] = <<>>
    BY <1>3 DEF Refused
  <2>3. <<>> \o cmd.pages = cmd.pages
    BY <2>1, ConcatEmptySeq
  <2>4. Changed(known, cmd) = [known EXCEPT ![cmd.res] = cmd.pages]
    BY <1>3, <2>2, <2>3 DEF Changed, Attached
  <2>5. Changed(known, cmd) \in Books
    <3>1. [known EXCEPT ![cmd.res] = cmd.pages] \in [DOMAIN known -> Seq(Nat)]
      BY <1>1, <2>1
    <3> QED
      BY <1>1, <2>4, <3>1, BookIs
  <2>6. Messages(known, cmd) = <<>>
    BY <1>3 DEF Messages
  <2> QED
    BY <1>3, <2>4, <2>5, <2>6
<1>4. CASE cmd.op \notin {"Create2D", "AttachBacking"}
  <2>1. Changed(known, cmd) = known
    BY <1>4 DEF Changed
  <2>2. CASE cmd.op = "Transfer"
    <3>1. cmd.res \in Resources /\ cmd.res \in DOMAIN known
      BY <2>2 DEF Refused, Commands, GetDisplayInfo, Create2D, SetScanout, Transfer, Flush, Attach
    <3>2. known[cmd.res] \in Seq(Nat)
      BY <1>1, <3>1
    <3> DEFINE x == [op |-> "Copy", res |-> cmd.res, pages |-> Cut(known[cmd.res])]
    <3>3. x \in Message /\ x.op = "Copy" /\ x.res = cmd.res
      BY <3>1, <3>2, CutType DEF Message
    <3>4. Messages(known, cmd) = <<x>>
      BY <2>2 DEF Messages
    <3> HIDE DEF x
    <3> QED
      BY <1>4, <2>1, <2>2, <3>3, <3>4
  <2>3. CASE cmd.op = "Flush"
    <3>1. cmd.res \in Resources
      BY <2>3 DEF Commands, GetDisplayInfo, Create2D, SetScanout, Transfer, Flush, Attach
    <3> DEFINE x == [op |-> "Flush", res |-> cmd.res]
    <3>3. x \in Message /\ x.op = "Flush" /\ x.res = cmd.res
      BY <3>1 DEF Message
    <3>4. Messages(known, cmd) = <<x>>
      BY <2>3 DEF Messages
    <3> HIDE DEF x
    <3> QED
      BY <1>4, <2>1, <2>3, <3>3, <3>4
  <2>4. CASE cmd.op = "SetScanout" /\ cmd.res = 0
    <3> DEFINE x == [op |-> "Disable", res |-> 0]
    <3>3. x \in Message /\ x.op = "Disable"
      BY DEF Message
    <3>4. Messages(known, cmd) = <<x>>
      BY <2>4 DEF Messages
    <3> HIDE DEF x
    <3> QED
      BY <1>4, <2>1, <2>4, <3>3, <3>4
  <2>5. CASE cmd.op \notin {"Transfer", "Flush"} /\ ~(cmd.op = "SetScanout" /\ cmd.res = 0)
    <3>1. Messages(known, cmd) = <<>>
      BY <2>5 DEF Messages
    <3> QED
      BY <1>4, <2>1, <2>5, <3>1
  <2> QED
    BY <2>2, <2>3, <2>4, <2>5
<1> QED
  BY <1>2, <1>3, <1>4

-----------------------------------------------------------------------------
(* The device's loop over commands, against the states S. *)

\* R[k] is where the loop stands after k of the n commands.
Loops(R, cmds, n) ==
  R[0] = Begin /\ \A k \in 1..n : R[k] = Executed(R[k - 1], cmds[k])

LEMMA LoopAlong ==
  ASSUME NEW n \in Nat, NEW cmds, NEW m \in 0..n, NEW S, Follows(S, cmds, m),
         NEW R, Loops(R, cmds, n)
  PROVE  \/ R[m] = [known |-> S[m].known, sent |-> S[m].sent, stop |-> "none"]
         \/ host = "gone" /\ R[m].stop = "host"
<1> DEFINE Same(k) == R[k] = [known |-> S[k].known, sent |-> S[k].sent, stop |-> "none"]
           T == {k \in 0..m : Same(k) \/ (host = "gone" /\ R[k].stop = "host")}
<1>1. 0 \in T
  <2>1. Same(0)
    BY DEF Follows, Loops, Begin
  <2> QED
    BY <2>1
<1>2. ASSUME NEW k \in 0..m, k < m, k \in T PROVE k + 1 \in T
  <2>1. k + 1 \in 1..m /\ k + 1 \in 1..n /\ (k + 1) - 1 = k /\ k + 1 \in 0..m
    BY <1>2
  <2>2. /\ R[k + 1] = Executed(R[k], cmds[k + 1])
        /\ ~Refused(cmds[k + 1], S[k].known) /\ S[k + 1] = After(S[k], cmds[k + 1])
    BY <2>1 DEF Follows, Loops
  <2>3. CASE host = "gone" /\ R[k].stop = "host"
    <3>1. R[k + 1] = R[k]
      BY <2>2, <2>3 DEF Executed
    <3> QED
      BY <2>1, <2>3, <3>1
  <2>4. CASE Same(k)
    <3>1. R[k].stop = "none" /\ R[k].known = S[k].known /\ R[k].sent = S[k].sent
      BY <2>4
    <3>2. CASE host = "gone" /\ Messages(S[k].known, cmds[k + 1]) # <<>>
      <4>1. R[k + 1] = [R[k] EXCEPT !.stop = "host"]
        BY <2>2, <3>1, <3>2 DEF Executed
      <4>2. R[k + 1].stop = "host"
        BY <2>4, <4>1
      <4> QED
        BY <2>1, <3>2, <4>2
    <3>3. CASE ~(host = "gone" /\ Messages(S[k].known, cmds[k + 1]) # <<>>)
      <4>1. R[k + 1] = [known |-> Changed(S[k].known, cmds[k + 1]),
                        sent  |-> S[k].sent \o Messages(S[k].known, cmds[k + 1]),
                        stop  |-> "none"]
        BY <2>2, <3>1, <3>3 DEF Executed
      <4>2. Same(k + 1)
        BY <2>2, <4>1 DEF After
      <4> QED
        BY <2>1, <4>2
    <3> QED
      BY <3>2, <3>3
  <2> QED
    BY <1>2, <2>3, <2>4
<1>3. m \in Nat /\ m \in 0..m
  OBVIOUS
<1> HIDE DEF T
<1>4. m \in T
  BY <1>1, <1>2, <1>3, CountingUp
<1> QED
  BY <1>4 DEF T

LEMMA LoopFollows ==
  ASSUME NEW n \in Nat, NEW cmds, DOMAIN cmds = 1..n, NEW S, Follows(S, cmds, n)
  PROVE  \/ Run(cmds) = [known |-> S[n].known, sent |-> S[n].sent, stop |-> "none"]
         \/ host = "gone" /\ Run(cmds).stop = "host"
<1>1. PICK R : Loops(R, cmds, n) /\ Run(cmds) = R[n]
  BY RunStates DEF Loops
<1>2. n \in 0..n
  OBVIOUS
<1> QED
  BY <1>1, <1>2, LoopAlong

LEMMA LoopRefuses ==
  ASSUME NEW n \in Nat, n >= 1, NEW cmds, DOMAIN cmds = 1..n, NEW S,
         Follows(S, cmds, n - 1), Refused(cmds[n], S[n - 1].known)
  PROVE  Run(cmds).stop # "none"
<1>1. PICK R : Loops(R, cmds, n) /\ Run(cmds) = R[n]
  BY RunStates DEF Loops
<1>2. n - 1 \in 0..n /\ n \in 1..n
  OBVIOUS
<1>3. \/ R[n - 1] = [known |-> S[n - 1].known, sent |-> S[n - 1].sent, stop |-> "none"]
      \/ host = "gone" /\ R[n - 1].stop = "host"
  BY <1>1, <1>2, LoopAlong
<1>4. R[n] = Executed(R[n - 1], cmds[n])
  BY <1>1, <1>2 DEF Loops
<1>5. CASE R[n - 1].stop = "host"
  <2>1. R[n] = R[n - 1]
    BY <1>4, <1>5 DEF Executed
  <2> QED
    BY <1>1, <1>5, <2>1
<1>6. CASE R[n - 1] = [known |-> S[n - 1].known, sent |-> S[n - 1].sent, stop |-> "none"]
  <2>1. R[n - 1].stop = "none" /\ R[n - 1].known = S[n - 1].known
    BY <1>6
  <2>2. R[n] = [R[n - 1] EXCEPT !.stop = "command"]
    BY <1>4, <2>1 DEF Executed
  <2>3. R[n].stop = "command"
    BY <1>6, <2>2
  <2> QED
    BY <1>1, <2>3
<1> QED
  BY <1>3, <1>5, <1>6

-----------------------------------------------------------------------------
(* The graphics device keeps up with its driver. *)

Asked == Len(Waiting(CONTROL))

HostShows(messages) ==
  /\ FlushesShown(messages)
  /\ current # 0 => HostResource(messages) = current

ShownAfter(sent) == host = "running" => HostShows(outbox \o sent)

\* What waits leads from the device's resources to the driver's, and what is
\* sent by then shows on the host what the driver transferred last; or it ends
\* with the command of a driver that went astray.
Obeyed(S) ==
  /\ Follows(S, WaitingCommands, Asked)
  /\ S[Asked].known = backing
  /\ ShownAfter(S[Asked].sent)

Doomed(S) ==
  /\ astray /\ Asked >= 1
  /\ Follows(S, WaitingCommands, Asked - 1)
  /\ Refused(WaitingCommands[Asked], S[Asked - 1].known)

GpuInv ==
  ~IsNet =>
    /\ backing \in Books /\ outbox \in Seq(Message)
    /\ host = "running" => FlushesShown(outbox)
    /\ \E S : Obeyed(S) \/ Doomed(S)

LEMMA AskedIs ==
  ASSUME Shape
  PROVE  /\ Asked \in Nat /\ DOMAIN WaitingCommands = 1..Asked
         /\ \A i \in 1..Asked : /\ Waiting(CONTROL)[i] \in Slots
                                /\ WaitingCommands[i] = desc[CONTROL][Waiting(CONTROL)[i]]
<1>1. CONTROL \in Queues
  BY DEF CONTROL, Queues
<1>2. Waiting(CONTROL) \in Seq(Slots)
  BY <1>1, QueueFacts DEF Shape, QueueInv
<1>3. Asked \in Nat /\ DOMAIN Waiting(CONTROL) = 1..Asked
  BY <1>2, LenProperties DEF Asked
<1>4. \A i \in 1..Asked : Waiting(CONTROL)[i] \in Slots
  BY <1>1, InUse DEF Shape, Asked
<1> QED
  BY <1>3, <1>4 DEF WaitingCommands, Contents

LEMMA FollowsAgain ==
  ASSUME NEW S, NEW cmds, NEW more, NEW m \in Nat, Follows(S, cmds, m),
         \A k \in 1..m : more[k] = cmds[k]
  PROVE  Follows(S, more, m)
BY DEF Follows

\* Steps that leave the commands that wait and what they work on.
LEMMA CommandsStay ==
  ASSUME Shape, GpuInv, virtio'.device_type = virtio.device_type,
         UNCHANGED <<resources, backing, current, outbox>>,
         host' \in {host, "gone"}, astray' \in {astray, TRUE},
         Waiting(CONTROL)' = Waiting(CONTROL),
         \A i \in 1..Asked : desc'[CONTROL][Waiting(CONTROL)[i]] =
                               desc[CONTROL][Waiting(CONTROL)[i]]
  PROVE  GpuInv'
<1> SUFFICES ASSUME ~IsNet PROVE GpuInv'
  BY DEF GpuInv, IsNet
<1>1. PICK S : Obeyed(S) \/ Doomed(S)
  BY DEF GpuInv
<1>2. PICK n \in Nat : n = Asked
  BY AskedIs
<1>3. Asked' = n
  BY <1>2 DEF Asked
<1>4. \A i \in 1..n : WaitingCommands'[i] = WaitingCommands[i]
  <2>1. DOMAIN Waiting(CONTROL) = 1..n
    <3>1. CONTROL \in Queues
      BY DEF CONTROL, Queues
    <3>2. Waiting(CONTROL) \in Seq(Slots)
      BY <3>1, QueueFacts DEF Shape, QueueInv
    <3> QED
      BY <1>2, <3>2, LenProperties DEF Asked
  <2> QED
    BY <1>2, <2>1 DEF WaitingCommands, Contents
<1>5. host' = "running" => host = "running"
  OBVIOUS
<1>6. CASE Obeyed(S)
  <2>1. Follows(S, WaitingCommands, n) /\ S[n].known = backing
        /\ ShownAfter(S[n].sent)
    BY <1>2, <1>6 DEF Obeyed
  <2>2. Follows(S, WaitingCommands', n)
    BY <1>4, <2>1, FollowsAgain
  <2>3. Follows(S, WaitingCommands, n)'
    BY <2>2 DEF Follows
  <2>4. ShownAfter(S[n].sent)'
    BY <1>5, <2>1 DEF ShownAfter, HostShows
  <2>5. Obeyed(S)'
    BY <1>3, <2>1, <2>3, <2>4 DEF Obeyed
  <2> QED
    BY <1>5, <2>5 DEF GpuInv
<1>7. CASE Doomed(S)
  <2>1. /\ astray /\ n >= 1 /\ Follows(S, WaitingCommands, n - 1)
        /\ Refused(WaitingCommands[n], S[n - 1].known)
    BY <1>2, <1>7 DEF Doomed
  <2>2. n - 1 \in Nat /\ n \in 1..n /\ \A k \in 1..(n - 1) : k \in 1..n
    BY <2>1
  <2>3. Follows(S, WaitingCommands', n - 1)
    BY <1>4, <2>1, <2>2, FollowsAgain
  <2>4. Follows(S, WaitingCommands, n - 1)'
    BY <2>3 DEF Follows
  <2>5. astray' /\ Refused(WaitingCommands'[n], S[n - 1].known)
    BY <1>4, <2>1, <2>2
  <2>6. Refused(WaitingCommands[n], S[n - 1].known)'
    BY <2>5 DEF Refused
  <2>7. Doomed(S)'
    BY <1>3, <2>1, <2>4, <2>5, <2>6 DEF Doomed
  <2> QED
    BY <1>5, <2>7 DEF GpuInv
<1> QED
  BY <1>1, <1>6, <1>7

\* What the driver offers comes last.
LEMMA CommandsGrow ==
  ASSUME Shape, NEW id \in Slots, NEW content, Offer(CONTROL, id, content)
  PROVE  /\ Asked' = Asked + 1
         /\ WaitingCommands'[Asked + 1] = content
         /\ \A i \in 1..Asked : WaitingCommands'[i] = WaitingCommands[i]
<1>1. CONTROL \in Queues
  BY DEF CONTROL, Queues
<1> DEFINE w == Waiting(CONTROL)
<1>2. w \in Seq(Slots)
  BY <1>1, QueueFacts DEF Shape, QueueInv
<1>3. PICK n \in Nat : n = Len(w) /\ n = Asked
  BY <1>2, AskedIs DEF Asked
<1>4. /\ desc'[CONTROL][id] = content
      /\ \A s \in Slots : s # id => desc'[CONTROL][s] = desc[CONTROL][s]
      /\ desc[CONTROL][id] = Nothing
  <2>1. DOMAIN desc = Queues /\ DOMAIN desc[CONTROL] = Slots
    BY <1>1 DEF Shape, QueueInv, DescShape
  <2> QED
    BY <1>1, <2>1 DEF Offer
<1>5. Waiting(CONTROL)' = Append(w, id)
  BY <1>1, OfferSteps DEF Shape, Given
<1>6. \A i \in 1..n : w[i] \in Slots /\ w[i] # id
  BY <1>1, <1>3, <1>4, InUse DEF Shape
<1>7. PICK t : t = Append(w, id)
  OBVIOUS
<1>8. /\ Len(t) = n + 1 /\ t[n + 1] = id
      /\ \A i \in 1..n : t[i] = w[i]
  <2>1. PICK s \in Seq(Slots) : s = w
    BY <1>2
  <2>2. /\ Len(Append(s, id)) = Len(s) + 1 /\ Append(s, id)[Len(s) + 1] = id
        /\ \A i \in 1..Len(s) : Append(s, id)[i] = s[i]
    BY AppendProperties
  <2>3. n = Len(s) /\ t = Append(s, id)
    BY <1>3, <1>7, <2>1
  <2> HIDE DEF w
  <2> QED
    BY <2>1, <2>2, <2>3
<1>9. DOMAIN t = 1..(n + 1)
  <2>1. t \in Seq(Slots)
    BY <1>2, <1>7, AppendProperties
  <2> QED
    BY <1>8, <2>1, LenProperties
<1>10. /\ Asked' = n + 1
       /\ WaitingCommands' = [k \in 1..(n + 1) |-> desc'[CONTROL][t[k]]]
  BY <1>5, <1>7, <1>8, <1>9 DEF Asked, WaitingCommands, Contents
<1>11. /\ WaitingCommands'[n + 1] = desc'[CONTROL][id]
       /\ \A i \in 1..n : WaitingCommands'[i] = desc'[CONTROL][w[i]]
  <2>1. n + 1 \in 1..(n + 1) /\ \A i \in 1..n : i \in 1..(n + 1)
    OBVIOUS
  <2> QED
    BY <1>8, <1>10, <2>1
<1>12. \A i \in 1..n : WaitingCommands[i] = desc[CONTROL][w[i]]
  BY <1>3, AskedIs
<1>13. \A i \in 1..n : WaitingCommands'[i] = WaitingCommands[i]
  BY <1>4, <1>6, <1>11, <1>12
<1>14. WaitingCommands'[n + 1] = content
  BY <1>4, <1>11
<1> QED
  BY <1>3, <1>10, <1>13, <1>14

\* What a command sends, as CommandEffect has it.
Sends(cmd, messages) ==
  \/ /\ messages = <<>>
     /\ cmd.op \notin {"Transfer", "Flush"} /\ ~(cmd.op = "SetScanout" /\ cmd.res = 0)
  \/ \E x \in Message :
       /\ messages = <<x>>
       /\ \/ cmd.op = "Transfer" /\ x.op = "Copy" /\ x.res = cmd.res
          \/ cmd.op = "Flush" /\ x.op = "Flush" /\ x.res = cmd.res
          \/ cmd.op = "SetScanout" /\ cmd.res = 0 /\ x.op = "Disable"

\* The resource of the driver's last transfer, after a command.
Transferred(cmd) ==
  CASE cmd.op = "Transfer" -> cmd.res
    [] cmd.op = "SetScanout" /\ cmd.res = 0 -> 0
    [] OTHER -> current

LEMMA ShowsAfter ==
  ASSUME NEW m \in Seq(Message), HostShows(m), NEW cmd, NEW messages,
         Sends(cmd, messages), cmd.op = "Flush" => cmd.res = current /\ current # 0
  PROVE  /\ m \o messages \in Seq(Message)
         /\ FlushesShown(m \o messages)
         /\ Transferred(cmd) # 0 => HostResource(m \o messages) = Transferred(cmd)
<1>1. CASE /\ messages = <<>> /\ cmd.op \notin {"Transfer", "Flush"}
           /\ ~(cmd.op = "SetScanout" /\ cmd.res = 0)
  <2>1. m \o messages = m
    BY <1>1, ConcatEmptySeq
  <2>2. Transferred(cmd) = current
    BY <1>1 DEF Transferred
  <2> QED
    BY <2>1, <2>2 DEF HostShows
<1>2. ASSUME NEW x \in Message, messages = <<x>>,
             \/ cmd.op = "Transfer" /\ x.op = "Copy" /\ x.res = cmd.res
             \/ cmd.op = "Flush" /\ x.op = "Flush" /\ x.res = cmd.res
             \/ cmd.op = "SetScanout" /\ cmd.res = 0 /\ x.op = "Disable"
      PROVE  /\ m \o messages \in Seq(Message)
             /\ FlushesShown(m \o messages)
             /\ Transferred(cmd) # 0 => HostResource(m \o messages) = Transferred(cmd)
  <2>1. m \o messages = Append(m, x)
    BY <1>2, AppendIsConcat
  <2>2. Append(m, x) \in Seq(Message)
    BY AppendProperties
  <2>3. x.op = "Flush" => x.res = current /\ current # 0 /\ cmd.op = "Flush"
    BY <1>2
  <2>4. x.op = "Flush" => x.res = HostResource(m)
    BY <2>3 DEF HostShows
  <2>5. FlushesShown(Append(m, x))
    BY <2>4, FlushesAfter DEF HostShows
  <2>6. HostResource(Append(m, x)) = IF x.op = "Flush" THEN HostResource(m) ELSE x.res
    BY HostAfter
  <2>7. Transferred(cmd) # 0 => HostResource(Append(m, x)) = Transferred(cmd)
    <3>1. CASE cmd.op = "Transfer" /\ x.op = "Copy" /\ x.res = cmd.res
      BY <2>6, <3>1 DEF Transferred
    <3>2. CASE cmd.op = "Flush" /\ x.op = "Flush" /\ x.res = cmd.res
      <4>1. Transferred(cmd) = current
        BY <3>2 DEF Transferred
      <4> QED
        BY <2>6, <3>2, <4>1 DEF HostShows
    <3>3. CASE cmd.op = "SetScanout" /\ cmd.res = 0 /\ x.op = "Disable"
      BY <3>3 DEF Transferred
    <3> QED
      BY <1>2, <3>1, <3>2, <3>3
  <2> QED
    BY <2>1, <2>2, <2>5, <2>7
<1> QED
  BY <1>1, <1>2 DEF Sends

LEMMA FollowsFurther ==
  ASSUME NEW n \in Nat, NEW S, NEW cmds, Follows(S, cmds, n),
         ~Refused(cmds[n + 1], S[n].known), After(S[n], cmds[n + 1]) \in States
  PROVE  \E Z : /\ Follows(Z, cmds, n + 1)
                /\ Z[n + 1] = After(S[n], cmds[n + 1])
<1> DEFINE Z == [k \in 0..(n + 1) |-> IF k = n + 1 THEN After(S[n], cmds[n + 1]) ELSE S[k]]
<1>1. \A k \in 0..n : Z[k] = S[k]
  BY SMT
<1>2. Z[n + 1] = After(S[n], cmds[n + 1])
  OBVIOUS
<1> HIDE DEF Z
<1>3. /\ 0 \in 0..n /\ n \in 0..n /\ (n + 1) - 1 = n
      /\ \A k \in 0..(n + 1) : k \in 0..n \/ k = n + 1
      /\ \A k \in 1..(n + 1) : k \in 1..n \/ k = n + 1
      /\ \A k \in 1..n : k \in 0..n /\ k - 1 \in 0..n
  OBVIOUS
<1>4. Z[0] = [known |-> resources, sent |-> <<>>]
  BY <1>1, <1>3 DEF Follows
<1>5. \A k \in 0..(n + 1) : Z[k] \in States
  BY <1>1, <1>2, <1>3 DEF Follows
<1>6. \A k \in 1..(n + 1) : ~Refused(cmds[k], Z[k - 1].known) /\ Z[k] = After(Z[k - 1], cmds[k])
  <2> TAKE k \in 1..(n + 1)
  <2>1. CASE k \in 1..n
    BY <1>1, <1>3, <2>1 DEF Follows
  <2>2. CASE k = n + 1
    BY <1>1, <1>2, <1>3, <2>2
  <2> QED
    BY <1>3, <2>1, <2>2
<1>7. Follows(Z, cmds, n + 1)
  BY <1>4, <1>5, <1>6 DEF Follows
<1> QED
  BY <1>2, <1>7

LEMMA CommandOffered ==
  ASSUME Shape, GpuInv, OfferCommand PROVE GpuInv'
<1>1. PICK id \in Slots, cmd \in Commands :
        /\ Command(cmd) /\ Offer(CONTROL, id, cmd)
        /\ backing' = CASE cmd.op = "Create2D" -> Created(backing, cmd)
                        [] cmd.op = "AttachBacking" -> [backing EXCEPT ![cmd.res] = cmd.pages]
                        [] OTHER -> backing
        /\ current' = CASE cmd.op = "Transfer" -> cmd.res
                        [] cmd.op = "SetScanout" /\ cmd.res = 0 -> 0
                        [] OTHER -> current
  BY DEF OfferCommand
<1>2. /\ ~IsNet /\ ~astray /\ UNCHANGED <<resources, outbox, host, astray, virtio>>
  BY <1>1 DEF OfferCommand, Offer, channels
<1>3. PICK S : Obeyed(S)
  BY <1>2 DEF GpuInv, Doomed
<1>4. PICK n \in Nat : n = Asked
  BY AskedIs
<1>5. Follows(S, WaitingCommands, n) /\ S[n].known = backing /\ ShownAfter(S[n].sent)
  BY <1>3, <1>4 DEF Obeyed
<1>6. /\ Asked' = n + 1 /\ WaitingCommands'[n + 1] = cmd
      /\ \A i \in 1..n : WaitingCommands'[i] = WaitingCommands[i]
  BY <1>1, <1>4, CommandsGrow
<1>7. backing \in Books /\ outbox \in Seq(Message) /\ (host = "running" => FlushesShown(outbox))
  BY <1>2 DEF GpuInv
<1>8. /\ ~Refused(cmd, backing)
      /\ cmd.op = "AttachBacking" => backing[cmd.res] = <<>>
      /\ cmd.op = "Flush" => cmd.res = current /\ current # 0
  BY <1>1 DEF Refused, Command, Commands, GetDisplayInfo, Create2D, SetScanout, Transfer,
              Flush, Attach
<1>9. /\ Changed(backing, cmd) \in Books /\ backing' = Changed(backing, cmd)
      /\ Sends(cmd, Messages(backing, cmd))
  BY <1>1, <1>7, <1>8, CommandEffect DEF Sends
<1>10. current' = Transferred(cmd)
  BY <1>1 DEF Transferred
<1>11. S[n] \in States /\ S[n].sent \in Seq(Message)
  <2>1. n \in 0..n
    OBVIOUS
  <2> QED
    BY <1>5, <2>1 DEF Follows, States
<1> DEFINE s == After(S[n], cmd)
<1>12. s.known = backing' /\ s.sent = S[n].sent \o Messages(backing, cmd)
  BY <1>5, <1>9 DEF After
<1>13. Messages(backing, cmd) \in Seq(Message)
  <2>1. \A x \in Message : <<x>> \in Seq(Message)
    OBVIOUS
  <2>2. <<>> \in Seq(Message)
    OBVIOUS
  <2> QED
    BY <1>9, <2>1, <2>2, Zenon DEF Sends
<1>14. s \in States
  <2>1. S[n].sent \o Messages(backing, cmd) \in Seq(Message)
    BY <1>11, <1>13, ConcatProperties
  <2> QED
    BY <1>5, <1>9, <2>1 DEF After, States
<1> HIDE DEF s
<1>15. Follows(S, WaitingCommands', n)
  BY <1>5, <1>6, FollowsAgain
<1>16. PICK Z : Follows(Z, WaitingCommands', n + 1) /\ Z[n + 1] = s
  BY <1>5, <1>6, <1>8, <1>14, <1>15, FollowsFurther DEF s
<1>17. Follows(Z, WaitingCommands, n + 1)'
  BY <1>2, <1>16 DEF Follows
<1>18. ShownAfter(Z[n + 1].sent)'
  <2> SUFFICES ASSUME host = "running"
               PROVE  /\ FlushesShown(outbox \o s.sent)
                      /\ current' # 0 => HostResource(outbox \o s.sent) = current'
    BY <1>2, <1>16 DEF ShownAfter, HostShows
  <2>1. PICK m : m = outbox \o S[n].sent
    OBVIOUS
  <2>2. m \in Seq(Message)
    BY <1>7, <1>11, <2>1, ConcatProperties
  <2>3. HostShows(m)
    BY <1>5, <2>1 DEF ShownAfter
  <2>4. outbox \o s.sent = m \o Messages(backing, cmd)
    <3>1. PICK a \in Seq(Message), b \in Seq(Message), c \in Seq(Message) :
            a = outbox /\ b = S[n].sent /\ c = Messages(backing, cmd)
      BY <1>7, <1>11, <1>13
    <3>2. (a \o b) \o c = a \o (b \o c)
      BY ConcatAssociative
    <3> QED
      BY <1>12, <2>1, <3>1, <3>2, Zenon
  <2>5. /\ FlushesShown(m \o Messages(backing, cmd))
        /\ Transferred(cmd) # 0 => HostResource(m \o Messages(backing, cmd)) = Transferred(cmd)
    BY <1>8, <1>9, <2>2, <2>3, ShowsAfter
  <2> QED
    BY <1>10, <2>4, <2>5
<1>19. Obeyed(Z)'
  BY <1>6, <1>12, <1>16, <1>17, <1>18 DEF Obeyed
<1>20. backing' \in Books /\ outbox' \in Seq(Message) /\ (host' = "running" => FlushesShown(outbox'))
  BY <1>2, <1>7, <1>9
<1> QED
  BY <1>19, <1>20 DEF GpuInv

LEMMA CommandAstray ==
  ASSUME Shape, GpuInv, OfferAstray PROVE GpuInv'
<1> SUFFICES ASSUME ~IsNet PROVE GpuInv'
  BY DEF GpuInv, IsNet, OfferAstray, Offer
<1>1. PICK id \in Slots,
           cmd \in Unsupported \cup {Transfer(r) : r \in Resources \ DOMAIN backing} :
        Offer(CONTROL, id, cmd)
  BY DEF OfferAstray
<1>2. ~astray /\ astray' /\ UNCHANGED <<resources, outbox, host, backing, current, virtio>>
  BY <1>1 DEF OfferAstray, Offer, channels
<1>3. PICK S : Obeyed(S)
  BY <1>2 DEF GpuInv, Doomed
<1>4. PICK n \in Nat : n = Asked
  BY AskedIs
<1>5. Follows(S, WaitingCommands, n) /\ S[n].known = backing
  BY <1>3, <1>4 DEF Obeyed
<1>6. /\ Asked' = n + 1 /\ WaitingCommands'[n + 1] = cmd
      /\ \A i \in 1..n : WaitingCommands'[i] = WaitingCommands[i]
  BY <1>1, <1>4, CommandsGrow
<1>7. Refused(cmd, backing)
  BY <1>1 DEF Refused, Unsupported, Create2D, SetScanout, Transfer
<1>8. Follows(S, WaitingCommands', n)
  BY <1>5, <1>6, FollowsAgain
<1>9. Follows(S, WaitingCommands, n)'
  BY <1>2, <1>8 DEF Follows
<1>10. Refused(WaitingCommands[n + 1], S[n].known)'
  BY <1>5, <1>6, <1>7 DEF Refused
<1>11. (n + 1) - 1 = n /\ n + 1 >= 1
  OBVIOUS
<1>12. Doomed(S)'
  BY <1>2, <1>6, <1>9, <1>10, <1>11 DEF Doomed
<1> QED
  BY <1>2, <1>12 DEF GpuInv

\* Nothing waits, and device and driver agree.
Agreed ==
  /\ Waiting(CONTROL) = <<>> /\ resources = backing
  /\ backing \in Books /\ outbox \in Seq(Message)
  /\ host = "running" => HostShows(outbox)

LEMMA AgreedKeeps == Agreed => GpuInv
<1> SUFFICES ASSUME Agreed PROVE GpuInv
  OBVIOUS
<1> DEFINE s == [known |-> resources, sent |-> <<>>]
           S == [k \in {0} |-> s]
<1>1. Asked = 0
  BY DEF Agreed, Asked
<1>2. s \in States
  <2>1. <<>> \in Seq(Message)
    OBVIOUS
  <2> QED
    BY <2>1 DEF Agreed, States
<1>3. S[0] = s /\ s.known = backing /\ s.sent = <<>>
  BY DEF Agreed
<1>4. Follows(S, WaitingCommands, 0)
  <2>1. (\A k \in 0..0 : k = 0) /\ 1..0 = {}
    OBVIOUS
  <2> HIDE DEF S
  <2> QED
    BY <1>2, <1>3, <2>1 DEF Follows
<1>5. ShownAfter(<<>>)
  <2>1. outbox \o <<>> = outbox
    BY ConcatEmptySeq DEF Agreed
  <2> QED
    BY <2>1 DEF Agreed, ShownAfter
<1> HIDE DEF S, s
<1>6. Obeyed(S)
  BY <1>1, <1>3, <1>4, <1>5 DEF Obeyed
<1> QED
  BY <1>6 DEF GpuInv, Agreed, HostShows

LEMMA AgreedNext ==
  ASSUME Agreed' PROVE GpuInv'
<1>1. (Agreed => GpuInv)'
  BY AgreedKeeps, PTL
<1> QED
  BY <1>1

LEMMA NoResources == <<>> \in Books
<1>1. <<>> \in [{} -> Seq(Nat)] /\ {} \in SUBSET Resources
  OBVIOUS
<1> QED
  BY <1>1, BookIs

\* What the loop over the commands that wait comes to.
LEMMA RunAgrees ==
  ASSUME Shape, NEW S, Obeyed(S)
  PROVE  \/ Run(WaitingCommands) = [known |-> backing, sent |-> S[Asked].sent, stop |-> "none"]
         \/ host = "gone" /\ Run(WaitingCommands).stop = "host"
<1>1. Asked \in Nat /\ DOMAIN WaitingCommands = 1..Asked
  BY AskedIs
<1>2. Follows(S, WaitingCommands, Asked) /\ S[Asked].known = backing
  BY DEF Obeyed
<1>3. \/ Run(WaitingCommands) =
           [known |-> S[Asked].known, sent |-> S[Asked].sent, stop |-> "none"]
      \/ host = "gone" /\ Run(WaitingCommands).stop = "host"
  BY <1>1, <1>2, LoopFollows
<1> QED
  BY <1>2, <1>3

LEMMA RunStops ==
  ASSUME Shape, NEW S, Doomed(S)
  PROVE  Run(WaitingCommands).stop # "none"
<1>1. Asked \in Nat /\ DOMAIN WaitingCommands = 1..Asked /\ Asked >= 1
  BY AskedIs DEF Doomed
<1>2. Follows(S, WaitingCommands, Asked - 1) /\ Refused(WaitingCommands[Asked], S[Asked - 1].known)
  BY DEF Doomed
<1> QED
  BY <1>1, <1>2, LoopRefuses

LEMMA CommandsServed ==
  ASSUME Shape, GpuInv, ~IsNet, NEW q \in Queues \cup {2}, GpuServe(q),
         UNCHANGED <<seen, backing, current>>
  PROVE  GpuInv'
<1>1. /\ q = CONTROL /\ q \in Queues /\ Run(WaitingCommands).stop = "none"
      /\ resources' = Run(WaitingCommands).known
      /\ outbox' = outbox \o Run(WaitingCommands).sent
      /\ UNCHANGED <<avail, desc, host>>
  BY DEF GpuServe, CONTROL, Queues
<1>2. PICK S : Obeyed(S)
  BY <1>1, RunStops DEF GpuInv
<1>3. Run(WaitingCommands) = [known |-> backing, sent |-> S[Asked].sent, stop |-> "none"]
  BY <1>1, <1>2, RunAgrees
<1>4. resources' = backing /\ outbox' = outbox \o S[Asked].sent
  BY <1>1, <1>3
<1>5. Waiting(CONTROL)' = <<>>
  <2>1. NotifyServes(q)
    BY <1>1 DEF GpuServe, NotifyServes, Interrupting
  <2> QED
    BY <1>1, <2>1, ServesAll
<1>6. backing \in Books /\ outbox \in Seq(Message)
  BY DEF GpuInv
<1>7. S[Asked].sent \in Seq(Message)
  <2>1. Asked \in 0..Asked
    BY AskedIs
  <2> QED
    BY <1>2, <2>1 DEF Obeyed, Follows, States
<1>8. outbox' \in Seq(Message)
  BY <1>4, <1>6, <1>7, ConcatProperties
<1>9. host = "running" => HostShows(outbox)'
  BY <1>2, <1>4 DEF Obeyed, ShownAfter, HostShows
<1>10. Agreed'
  BY <1>1, <1>4, <1>5, <1>6, <1>8, <1>9 DEF Agreed
<1> QED
  BY <1>10, AgreedNext

LEMMA CommandsReset ==
  ASSUME Shape, GpuInv, ~IsNet, Reset PROVE GpuInv'
<1>1. Waiting(CONTROL)' = <<>>
  BY ResetEffect, FreshKeeps DEF Shape, CONTROL, Queues
<1>2. resources' = <<>> /\ backing' = <<>> /\ current' = 0 /\ UNCHANGED <<outbox, host>>
  BY DEF Reset, GpuReset, channels
<1>3. host = "running" => HostShows(outbox)'
  BY <1>2 DEF GpuInv, HostShows
<1>4. Agreed'
  BY <1>1, <1>2, <1>3, NoResources DEF GpuInv, Agreed
<1> QED
  BY <1>4, AgreedNext

LEMMA CommandsNotified ==
  ASSUME Shape, GpuInv, ~IsNet, virtio'.device_type = virtio.device_type,
         NEW q \in Queues \cup {2}, DeviceNotify(q),
         UNCHANGED <<seen, backing, current>>, astray' \in {astray, TRUE}
  PROVE  GpuInv'
<1>1. UNCHANGED <<avail, desc, host>>
  BY NotifyEffect
<1>2. CASE GpuServe(q)
  BY <1>2, CommandsServed
<1>3. CASE GpuNotifyIdle(q) \/ GpuNotifyPanic(q)
  <2>1. UNCHANGED <<last_idxes, used, outbox, resources>>
    BY <1>3 DEF GpuNotifyIdle, GpuNotifyPanic, Stop, queueVars, memory, channels
  <2>2. Waiting(CONTROL)' = Waiting(CONTROL)
    BY <1>1, <2>1, QueueStays DEF CONTROL, Queues
  <2> QED
    BY <1>1, <2>1, <2>2, CommandsStay
<1> QED
  BY <1>2, <1>3 DEF DeviceNotify, GpuNotify

LEMMA NextCommands ==
  ASSUME Shape, GpuInv, [Next]_vars PROVE GpuInv'
<1>1. virtio'.device_type = virtio.device_type
  BY NextShape
<1>2. CONTROL \in Queues
  BY DEF CONTROL, Queues
<1> SUFFICES ASSUME ~IsNet PROVE GpuInv'
  BY <1>1 DEF GpuInv, IsNet
<1>3. ASSUME UNCHANGED <<last_idxes, avail, used, seen, desc, outbox, resources, backing, current>>,
             host' \in {host, "gone"}, astray' \in {astray, TRUE}
      PROVE  GpuInv'
  <2>1. Waiting(CONTROL)' = Waiting(CONTROL)
    BY <1>2, <1>3, QueueStays
  <2> QED
    BY <1>1, <1>3, <2>1, CommandsStay
<1>4. CASE Access
  <2>1. UNCHANGED <<beside, resources, seen, backing, current, astray>>
    BY <1>4, AccessEffect DEF Shape, Access
  <2> QED
    BY <1>3, <2>1 DEF beside, memory, channels
<1>5. CASE Reset
  BY <1>5, CommandsReset
<1>6. CASE OfferCommand
  BY <1>6, CommandOffered
<1>7. CASE OfferAstray
  BY <1>7, CommandAstray
<1>8. CASE Notify
  <2>1. PICK q \in Queues : DeviceNotify(q)
    BY <1>8 DEF Notify
  <2> QED
    BY <1>1, <1>8, <2>1, CommandsNotified DEF Notify
<1>9. CASE Interrupted \/ HandlerEnds
  BY <1>3, <1>9 DEF Interrupted, HandlerEnds, queueVars, memory, channels
<1>10. CASE Collect
  <2>1. UNCHANGED <<resources, backing, current, outbox, host, astray>>
    BY <1>10 DEF Collect, channels
  <2>2. PICK q \in Queues :
          /\ Returned(q) # <<>>
          /\ Waiting(q)' = Waiting(q)
          /\ desc' = [desc EXCEPT ![q][Returned(q)[1]] = Nothing]
          /\ \A p \in Queues \ {q} : Waiting(p)' = Waiting(p)
    BY <1>10, CollectKeeps DEF Shape
  <2>3. 1 \in 1..Len(Returned(q)) /\ Waiting(CONTROL)' = Waiting(CONTROL)
    <3>1. Returned(q) \in Seq(Slots)
      BY QueueFacts DEF Shape, QueueInv
    <3>2. Len(Returned(q)) \in Nat /\ Len(Returned(q)) # 0
      BY <2>2, <3>1, EmptySeq
    <3> QED
      BY <1>2, <2>2, <3>2
  <2>4. ASSUME NEW i \in 1..Asked
        PROVE  desc'[CONTROL][Waiting(CONTROL)[i]] = desc[CONTROL][Waiting(CONTROL)[i]]
    <3>1. Waiting(CONTROL)[i] \in Slots
      BY AskedIs
    <3>2. q = CONTROL => Waiting(CONTROL)[i] # Returned(q)[1]
      BY <1>2, <2>3, HeldApart DEF Shape, Asked
    <3>3. DOMAIN desc = Queues /\ DOMAIN desc[q] = Slots
      BY DEF Shape, QueueInv, DescShape
    <3> QED
      BY <1>2, <2>2, <3>1, <3>2, <3>3
  <2> QED
    BY <1>1, <2>1, <2>3, <2>4, CommandsStay
<1>11. CASE GoAstray
  <2>1. UNCHANGED <<seen, backing, current>> /\ astray' = TRUE
    BY <1>11, AstrayEffect DEF Shape
  <2>2. CASE UNCHANGED <<beside, resources>>
    BY <1>3, <2>1, <2>2 DEF beside, memory, channels
  <2>3. CASE \E q \in Queues \cup {2} : DeviceNotify(q)
    BY <1>1, <2>1, <2>3, CommandsNotified
  <2> QED
    BY <1>11, <2>2, <2>3, AstrayEffect DEF Shape
<1>12. CASE HostEnds
  BY <1>3, <1>12 DEF HostEnds, memory, driver
<1>13. CASE UNCHANGED vars
  BY <1>3, <1>13 DEF vars, queueVars, memory, channels, driver
<1>14. ~OfferReceive /\ ~OfferTransmit /\ ~Tick /\ ~HostSends
  BY DEF OfferReceive, OfferTransmit, Tick, HostSends
<1> QED
  BY <1>4, <1>5, <1>6, <1>7, <1>8, <1>9, <1>10, <1>11, <1>12, <1>13, <1>14 DEF Next

LEMMA GpuKeepsUp == Spec => []GpuInv
<1>1. Init => GpuInv
  <2> SUFFICES ASSUME Init PROVE GpuInv
    OBVIOUS
  <2>1. FreshQueues /\ CONTROL \in Queues
    BY DEF Init, FreshQueues, CONTROL, Queues
  <2>2. Waiting(CONTROL) = <<>>
    BY <2>1, FreshHolds
  <2>3. resources = <<>> /\ backing = <<>> /\ current = 0 /\ outbox = <<>>
    BY DEF Init
  <2>4. <<>> \in Seq(Message) /\ DOMAIN <<>> = {}
    OBVIOUS
  <2>5. HostShows(<<>>)
    BY <2>3, <2>4 DEF HostShows, FlushesShown
  <2>6. Agreed
    BY <2>2, <2>3, <2>4, <2>5, NoResources DEF Agreed
  <2> QED
    BY <2>6, AgreedKeeps
<1>2. Shape /\ GpuInv /\ [Next]_vars => GpuInv'
  BY NextCommands
<1> QED
  BY <1>1, <1>2, ShapeHolds, PTL DEF Spec

\* The commands that wait are executed without one being refused, after them the
\* device holds the resources and pages the driver believes it has, and every
\* flush reaches the host while it shows the resource flushed.
THEOREM DeviceKeepsUp == Spec => []DeviceFollowsDriver
<1>1. Shape /\ GpuInv => DeviceFollowsDriver
  <2> SUFFICES ASSUME Shape, GpuInv, ~IsNet, ~astray, host = "running"
               PROVE  /\ Run(WaitingCommands).stop = "none"
                      /\ Run(WaitingCommands).known = backing
                      /\ FlushesShown(outbox \o Run(WaitingCommands).sent)
    BY DEF DeviceFollowsDriver
  <2>1. PICK S : Obeyed(S)
    BY DEF GpuInv, Doomed
  <2>2. Run(WaitingCommands) = [known |-> backing, sent |-> S[Asked].sent, stop |-> "none"]
    BY <2>1, RunAgrees
  <2>3. FlushesShown(outbox \o S[Asked].sent)
    BY <2>1 DEF Obeyed, ShownAfter, HostShows
  <2> QED
    BY <2>2, <2>3
<1> QED
  BY <1>1, ShapeHolds, GpuKeepsUp, PTL

-----------------------------------------------------------------------------
(* The driver's way through its set-up. *)

\* Bits the driver set before it is at place p; b accesses come before the
\* queues.
StatusAt(p, b) ==
  CASE p <= 1 -> {}
    [] p = 2 -> {ACKNOWLEDGE}
    [] p \in 3..9 -> {ACKNOWLEDGE, DRIVER}
    [] p \in 10..(b + 17) -> {ACKNOWLEDGE, DRIVER, FEATURES_OK}
    [] OTHER -> {ACKNOWLEDGE, DRIVER, FEATURES_OK, DRIVER_OK}

\* The accesses before those of a queue.
First(q, b) == IF q = 0 THEN b ELSE b + 8

\* The registers v when the driver kept to the set-up of allocation g until
\* place p.
KeptTo(v, p, b, g) ==
  /\ {v.features_sel, v.driver_features_sel, v.shm_sel} \subseteq {0, 1}
  /\ v.status = StatusAt(p, b)
  /\ v.queue_sel = IF p > b + 9 THEN 1 ELSE 0
  /\ \A q \in Queues :
       /\ p > First(q, b) + 4 => v.desc_addrs[q] = g
       /\ p > First(q, b) + 6 => v.driver_addrs[q] = g
       /\ p > First(q, b) + 7 => v.device_addrs[q] = g
       /\ v.readies[q] => p > First(q, b) + 8

\* The queue the driver notifies.
Notified == IF IsNet THEN TRANSMIT ELSE CONTROL

\* What a panic can be while the driver keeps to the protocol.
Blameless == {"none", "host", "packet"}

InStep ==
  ~astray =>
    /\ pos <= Before + 18
    /\ KeptTo(virtio, pos, Before, gen)
    /\ \A q \in Queues : kick[q] => pos = Before + 18 /\ q = Notified
    /\ panic \in Blameless

\* The access step made at place p is not refused, and the driver has kept to
\* the set-up after it.
Moves(v, step, p, b, g) ==
  /\ step.reg = "Read" => ~ReadPanics(v, step.value) /\ KeptTo(v, p + 1, b, g)
  /\ step.reg = "CheckReady" => ~ReadPanics(v, "QueueReady") /\ KeptTo(v, p + 1, b, g)
  /\ step.reg = "AddStatus" =>
       /\ WriteAccepted(v, "Status", v.status \cup {step.value})
       /\ KeptTo(Written(v, "Status", v.status \cup {step.value}), p + 1, b, g)
  /\ step.reg \notin {"Read", "CheckReady", "AddStatus"} =>
       /\ WriteAccepted(v, step.reg, step.value)
       /\ KeptTo(Written(v, step.reg, step.value), p + 1, b, g)

LEMMA StatusSteps ==
  ASSUME NEW b \in {9, 11}
  PROVE  /\ StatusAt(1, b) = {} /\ StatusAt(2, b) = {ACKNOWLEDGE}
         /\ StatusAt(3, b) = {ACKNOWLEDGE, DRIVER}
         /\ \A p \in 3..8 : StatusAt(p + 1, b) = StatusAt(p, b)
         /\ StatusAt(9, b) = {ACKNOWLEDGE, DRIVER}
         /\ StatusAt(10, b) = {ACKNOWLEDGE, DRIVER, FEATURES_OK}
         /\ \A p \in 10..(b + 16) : StatusAt(p + 1, b) = StatusAt(p, b)
         /\ StatusAt(b + 17, b) = {ACKNOWLEDGE, DRIVER, FEATURES_OK}
         /\ StatusAt(b + 18, b) = {ACKNOWLEDGE, DRIVER, FEATURES_OK, DRIVER_OK}
<1>1. /\ StatusAt(1, b) = {} /\ StatusAt(2, b) = {ACKNOWLEDGE}
      /\ StatusAt(b + 18, b) = {ACKNOWLEDGE, DRIVER, FEATURES_OK, DRIVER_OK}
  BY DEF StatusAt
<1>2. ASSUME NEW p \in 3..9 PROVE StatusAt(p, b) = {ACKNOWLEDGE, DRIVER}
  BY DEF StatusAt
<1>3. ASSUME NEW p \in 10..(b + 17) PROVE StatusAt(p, b) = {ACKNOWLEDGE, DRIVER, FEATURES_OK}
  BY DEF StatusAt
<1>4. ASSUME NEW p \in 3..8 PROVE StatusAt(p + 1, b) = StatusAt(p, b)
  <2>1. p \in 3..9 /\ p + 1 \in 3..9
    OBVIOUS
  <2> QED
    BY <1>2, <2>1
<1>5. ASSUME NEW p \in 10..(b + 16) PROVE StatusAt(p + 1, b) = StatusAt(p, b)
  <2>1. p \in 10..(b + 17) /\ p + 1 \in 10..(b + 17)
    OBVIOUS
  <2> QED
    BY <1>3, <2>1
<1>6. 10 \in 10..(b + 17) /\ b + 17 \in 10..(b + 17)
  OBVIOUS
<1> QED
  BY <1>1, <1>2, <1>3, <1>4, <1>5, <1>6

\* An access outside those of the queues leaves what these set.
LEMMA KeptBeside ==
  ASSUME NEW b \in {9, 11}, NEW g \in Nat, NEW p \in Nat, p <= b \/ p = b + 17,
         NEW v, NEW w, KeptTo(v, p, b, g),
         {w.features_sel, w.driver_features_sel, w.shm_sel} \subseteq {0, 1},
         w.status = StatusAt(p + 1, b),
         w.queue_sel = v.queue_sel, w.readies = v.readies,
         w.desc_addrs = v.desc_addrs, w.driver_addrs = v.driver_addrs,
         w.device_addrs = v.device_addrs
  PROVE  KeptTo(w, p + 1, b, g)
<1>1. w.queue_sel = IF p + 1 > b + 9 THEN 1 ELSE 0
  BY DEF KeptTo
<1>2. ASSUME NEW q \in Queues
      PROVE  /\ p + 1 > First(q, b) + 4 => w.desc_addrs[q] = g
             /\ p + 1 > First(q, b) + 6 => w.driver_addrs[q] = g
             /\ p + 1 > First(q, b) + 7 => w.device_addrs[q] = g
             /\ w.readies[q] => p + 1 > First(q, b) + 8
  <2>1. First(q, b) \in {b, b + 8}
    BY DEF First
  <2>2. /\ p + 1 > First(q, b) + 4 => p > First(q, b) + 4
        /\ p + 1 > First(q, b) + 6 => p > First(q, b) + 6
        /\ p + 1 > First(q, b) + 7 => p > First(q, b) + 7
        /\ p > First(q, b) + 8 => p + 1 > First(q, b) + 8
    BY <2>1
  <2> QED
    BY <2>2 DEF KeptTo
<1> QED
  BY <1>1, <1>2 DEF KeptTo

LEMMA PlainMoves ==
  ASSUME NEW v, NEW reg, NEW value, NEW p, NEW b, NEW g,
         reg \notin {"Read", "CheckReady", "AddStatus"},
         WriteAccepted(v, reg, value), KeptTo(Written(v, reg, value), p + 1, b, g)
  PROVE  Moves(v, W(reg, value), p, b, g)
BY DEF Moves, W

LEMMA SelectorWrites ==
  ASSUME NEW v, NEW value
  PROVE  /\ Written(v, "DeviceFeaturesSel", value) = [v EXCEPT !.features_sel = value]
         /\ Written(v, "DriverFeaturesSel", value) = [v EXCEPT !.driver_features_sel = value]
         /\ Written(v, "ShmSel", value) = [v EXCEPT !.shm_sel = value]
         /\ WriteAccepted(v, "DeviceFeaturesSel", value)
         /\ WriteAccepted(v, "DriverFeaturesSel", value)
         /\ WriteAccepted(v, "ShmSel", value)
BY DEF Written, WriteAccepted

LEMMA FeatureMoves ==
  ASSUME NEW v, NEW value, NEW p, NEW b, NEW g, v.driver_features_sel \in Words,
         KeptTo(Written(v, "DriverFeatures", value), p + 1, b, g)
  PROVE  Moves(v, W("DriverFeatures", value), p, b, g)
<1>1. WriteAccepted(v, "DriverFeatures", value)
  BY DEF WriteAccepted
<1> QED
  BY <1>1, PlainMoves

\* A change of a register that no queue reads.
LEMMA SelectorMoves ==
  ASSUME NEW b \in {9, 11}, NEW g \in Nat, NEW p \in Nat, p \in 3..b, p # 9,
         NEW v \in Registers(g), KeptTo(v, p, b, g),
         NEW w \in Registers(g),
         \E x \in {0, 1}, f \in SUBSET Nat :
           w \in {v, [v EXCEPT !.features_sel = x], [v EXCEPT !.driver_features_sel = x],
                  [v EXCEPT !.shm_sel = x], [v EXCEPT !.driver_features = f]}
  PROVE  KeptTo(w, p + 1, b, g)
<1>1. /\ {w.features_sel, w.driver_features_sel, w.shm_sel} \subseteq {0, 1}
      /\ w.status = v.status
      /\ w.queue_sel = v.queue_sel /\ w.readies = v.readies
      /\ w.desc_addrs = v.desc_addrs /\ w.driver_addrs = v.driver_addrs
      /\ w.device_addrs = v.device_addrs
  BY DEF Registers, KeptTo
<1>2. StatusAt(p + 1, b) = StatusAt(p, b)
  <2>1. p \in 3..8 \/ p \in 10..(b + 16)
    OBVIOUS
  <2> QED
    BY <2>1, StatusSteps
<1>3. v.status = StatusAt(p, b)
  BY DEF KeptTo
<1> QED
  BY <1>1, <1>2, <1>3, KeptBeside

LEMMA StatusMoves ==
  ASSUME NEW b \in {9, 11}, NEW g \in Nat, NEW p \in {1, 2, 9, b + 17},
         NEW v \in Registers(g), KeptTo(v, p, b, g),
         NEW bit, StatusAt(p + 1, b) = StatusAt(p, b) \cup {bit},
         StatusAt(p + 1, b) \in AcceptedStatus
  PROVE  Moves(v, W("AddStatus", bit), p, b, g)
<1> DEFINE s == v.status \cup {bit}
           w == Written(v, "Status", s)
<1>1. s = StatusAt(p + 1, b)
  BY DEF KeptTo
<1>2. WriteAccepted(v, "Status", s)
  BY <1>1 DEF WriteAccepted
<1>3. w = [v EXCEPT !.status = s]
  BY DEF Written
<1>4. /\ {w.features_sel, w.driver_features_sel, w.shm_sel} \subseteq {0, 1}
      /\ w.status = s
      /\ w.queue_sel = v.queue_sel /\ w.readies = v.readies
      /\ w.desc_addrs = v.desc_addrs /\ w.driver_addrs = v.driver_addrs
      /\ w.device_addrs = v.device_addrs
  BY <1>3 DEF Registers, KeptTo
<1>5. KeptTo(w, p + 1, b, g)
  <2>1. p \in Nat /\ (p <= b \/ p = b + 17)
    OBVIOUS
  <2> HIDE DEF w, s
  <2> QED
    BY <1>1, <1>4, <2>1, KeptBeside
<1> QED
  BY <1>2, <1>5 DEF Moves, W

LEMMA PrologueMoves ==
  ASSUME NEW b \in {9, 11}, NEW g \in Nat, NEW p \in 1..9,
         NEW v \in Registers(g), KeptTo(v, p, b, g)
  PROVE  Moves(v, Prologue[p], p, b, g)
<1>1. /\ {v.features_sel, v.driver_features_sel, v.shm_sel} \subseteq {0, 1}
      /\ v.driver_features \in SUBSET Nat
  BY DEF KeptTo, Registers
<1>4. v.driver_features_sel \in {0, 1}
  BY <1>1
<1>2. CASE p \in {1, 2, 9}
  <2>1. /\ StatusAt(1 + 1, b) = StatusAt(1, b) \cup {ACKNOWLEDGE}
        /\ StatusAt(2 + 1, b) = StatusAt(2, b) \cup {DRIVER}
        /\ StatusAt(9 + 1, b) = StatusAt(9, b) \cup {FEATURES_OK}
    BY StatusSteps
  <2>2. /\ StatusAt(1 + 1, b) \in AcceptedStatus /\ StatusAt(2 + 1, b) \in AcceptedStatus
        /\ StatusAt(9 + 1, b) \in AcceptedStatus
    BY StatusSteps DEF AcceptedStatus
  <2>3. /\ Prologue[1] = W("AddStatus", ACKNOWLEDGE) /\ Prologue[2] = W("AddStatus", DRIVER)
        /\ Prologue[9] = W("AddStatus", FEATURES_OK)
    BY DEF Prologue
  <2>4. CASE p = 1
    BY <2>1, <2>2, <2>3, <2>4, StatusMoves
  <2>5. CASE p = 2
    BY <2>1, <2>2, <2>3, <2>5, StatusMoves
  <2>6. CASE p = 9
    BY <2>1, <2>2, <2>3, <2>6, StatusMoves
  <2> QED
    BY <1>2, <2>4, <2>5, <2>6
<1>3. CASE p \in 3..8
  <2>1. p \in Nat /\ p \in 3..b /\ p # 9
    BY <1>3
  <2>2. KeptTo(v, p + 1, b, g)
    BY <2>1, SelectorMoves
  <2>3. ASSUME NEW x \in {0, 1}
        PROVE  /\ KeptTo([v EXCEPT !.features_sel = x], p + 1, b, g)
               /\ KeptTo([v EXCEPT !.driver_features_sel = x], p + 1, b, g)
    <3>1. /\ [v EXCEPT !.features_sel = x] \in Registers(g)
          /\ [v EXCEPT !.driver_features_sel = x] \in Registers(g)
      BY DEF Registers
    <3> QED
      BY <2>1, <3>1, SelectorMoves
  <2>4. KeptTo(Written(v, "DriverFeatures", TRUE), p + 1, b, g)
    <3>1. PICK f \in SUBSET Nat : f = v.driver_features \cup {v.driver_features_sel}
      <4>1. v.driver_features \cup {v.driver_features_sel} \in SUBSET Nat
        BY DEF Registers
      <4> QED
        BY <4>1
    <3>2. Written(v, "DriverFeatures", TRUE) = [v EXCEPT !.driver_features = f]
      BY <3>1 DEF Written
    <3>3. [v EXCEPT !.driver_features = f] \in Registers(g)
      BY DEF Registers
    <3> QED
      BY <2>1, <3>2, <3>3, SelectorMoves
  <2>5. CASE p = 3
    <3>1. Prologue[p] = W("DeviceFeaturesSel", 1)
      BY <2>5 DEF Prologue
    <3> QED
      BY <2>3, <3>1, SelectorWrites, PlainMoves
  <2>6. CASE p = 4
    <3>1. Prologue[p] = W("Read", "DeviceFeatures")
      BY <2>6 DEF Prologue
    <3> QED
      BY <1>1, <2>2, <3>1 DEF Moves, W, ReadPanics, Words
  <2>7. CASE p = 5
    <3>1. Prologue[p] = W("DriverFeaturesSel", 1)
      BY <2>7 DEF Prologue
    <3> QED
      BY <2>3, <3>1, SelectorWrites, PlainMoves
  <2>8. CASE p = 7
    <3>1. Prologue[p] = W("DriverFeaturesSel", 0)
      BY <2>8 DEF Prologue
    <3> QED
      BY <2>3, <3>1, SelectorWrites, PlainMoves
  <2>9. CASE p \in {6, 8}
    <3>1. Prologue[p] = W("DriverFeatures", TRUE)
      <4>1. /\ Prologue[6] = W("DriverFeatures", TRUE)
            /\ Prologue[8] = W("DriverFeatures", TRUE)
        BY DEF Prologue
      <4> QED
        BY <2>9, <4>1
    <3>2. v.driver_features_sel \in Words
      BY <1>4 DEF Words
    <3>3. Moves(v, W("DriverFeatures", TRUE), p, b, g)
      <4>1. \A value : KeptTo(Written(v, "DriverFeatures", value), p + 1, b, g)
                         => Moves(v, W("DriverFeatures", value), p, b, g)
        BY <3>2, FeatureMoves
      <4> QED
        BY <2>4, <4>1, Zenon
    <3> QED
      BY <3>1, <3>3
  <2> QED
    BY <1>3, <2>5, <2>6, <2>7, <2>8, <2>9
<1> QED
  BY <1>2, <1>3

LEMMA SharedMoves ==
  ASSUME NEW g \in Nat, NEW i \in 1..2, NEW v \in Registers(g), KeptTo(v, 9 + i, 11, g)
  PROVE  Moves(v, Shared[i], 9 + i, 11, g)
<1>1. v.shm_sel \in {0, 1}
  BY DEF KeptTo
<1>2. 9 + i \in Nat /\ 9 + i \in 3..11 /\ 9 + i # 9 /\ 11 \in {9, 11}
  OBVIOUS
<1>3. KeptTo(v, 9 + i + 1, 11, g)
  BY <1>2, SelectorMoves
<1>4. KeptTo([v EXCEPT !.shm_sel = 1], 9 + i + 1, 11, g)
  <2>1. [v EXCEPT !.shm_sel = 1] \in Registers(g)
    BY DEF Registers
  <2> QED
    BY <1>2, <2>1, SelectorMoves
<1>5. CASE i = 1
  <2>1. Shared[i] = W("ShmSel", 1)
    BY <1>5 DEF Shared
  <2> QED
    BY <1>4, <2>1, SelectorWrites, PlainMoves
<1>6. CASE i = 2
  <2>1. Shared[i] = W("Read", "Shm")
    BY <1>6 DEF Shared
  <2> QED
    BY <1>1, <1>3, <2>1 DEF Moves, W, ReadPanics, Shms
<1> QED
  BY <1>5, <1>6

\* An access to the registers of queue q, the i-th of its eight.
LEMMA KeptQueue ==
  ASSUME NEW b \in {9, 11}, NEW g \in Nat, NEW q \in Queues, NEW i \in 1..8,
         NEW v, NEW w, KeptTo(v, First(q, b) + i, b, g),
         w.features_sel = v.features_sel, w.driver_features_sel = v.driver_features_sel,
         w.shm_sel = v.shm_sel, w.status = v.status, w.queue_sel = q,
         \A r \in Queues : r # q \/ i # 4 => w.desc_addrs[r] = v.desc_addrs[r],
         \A r \in Queues : r # q \/ i # 6 => w.driver_addrs[r] = v.driver_addrs[r],
         \A r \in Queues : r # q \/ i # 7 => w.device_addrs[r] = v.device_addrs[r],
         \A r \in Queues : r # q \/ i # 8 => w.readies[r] = v.readies[r],
         i = 4 => w.desc_addrs[q] = g, i = 6 => w.driver_addrs[q] = g,
         i = 7 => w.device_addrs[q] = g
  PROVE  KeptTo(w, First(q, b) + i + 1, b, g)
<1>1. PICK f \in {b, b + 8} : f = First(q, b) /\ (f = b <=> q = 0)
  BY DEF First
<1>2. PICK p \in Nat : p = f + i
  OBVIOUS
<1>3. KeptTo(v, p, b, g)
  BY <1>1, <1>2
<1>4. w.status = StatusAt(p + 1, b)
  <2>1. p \in 10..(b + 16)
    BY <1>1, <1>2
  <2> QED
    BY <1>3, <2>1, StatusSteps DEF KeptTo
<1>5. w.queue_sel = IF p + 1 > b + 9 THEN 1 ELSE 0
  <2>1. q = IF p + 1 > b + 9 THEN 1 ELSE 0
    BY <1>1, <1>2 DEF Queues
  <2> QED
    BY <2>1
<1>6. ASSUME NEW r \in Queues
      PROVE  /\ p + 1 > First(r, b) + 4 => w.desc_addrs[r] = g
             /\ p + 1 > First(r, b) + 6 => w.driver_addrs[r] = g
             /\ p + 1 > First(r, b) + 7 => w.device_addrs[r] = g
             /\ w.readies[r] => p + 1 > First(r, b) + 8
  <2>1. /\ p > First(r, b) + 4 => v.desc_addrs[r] = g
        /\ p > First(r, b) + 6 => v.driver_addrs[r] = g
        /\ p > First(r, b) + 7 => v.device_addrs[r] = g
        /\ v.readies[r] => p > First(r, b) + 8
    BY <1>3 DEF KeptTo
  <2>2. CASE r = q
    <3>1. First(r, b) = f
      BY <1>1, <2>2
    <3>2. /\ p + 1 > f + 4 => i = 4 \/ p > f + 4
          /\ p + 1 > f + 6 => i = 6 \/ p > f + 6
          /\ p + 1 > f + 7 => i = 7 \/ p > f + 7
          /\ p > f + 8 => p + 1 > f + 8
          /\ i = 8 => p + 1 > f + 8
      BY <1>2
    <3>3. /\ i # 4 => w.desc_addrs[q] = v.desc_addrs[q]
          /\ i # 6 => w.driver_addrs[q] = v.driver_addrs[q]
          /\ i # 7 => w.device_addrs[q] = v.device_addrs[q]
          /\ i # 8 => w.readies[q] = v.readies[q]
      OBVIOUS
    <3>4. /\ p + 1 > f + 4 => w.desc_addrs[q] = g
          /\ p + 1 > f + 6 => w.driver_addrs[q] = g
          /\ p + 1 > f + 7 => w.device_addrs[q] = g
      BY <2>1, <2>2, <3>1, <3>2, <3>3
    <3>5. w.readies[q] => p + 1 > f + 8
      <4>1. CASE i = 8
        BY <3>2, <4>1
      <4>2. CASE i # 8
        BY <2>1, <2>2, <3>1, <3>2, <3>3, <4>2
      <4> QED
        BY <4>1, <4>2
    <3> QED
      BY <2>2, <3>1, <3>4, <3>5
  <2>3. CASE r # q
    <3>1. /\ w.desc_addrs[r] = v.desc_addrs[r] /\ w.driver_addrs[r] = v.driver_addrs[r]
          /\ w.device_addrs[r] = v.device_addrs[r] /\ w.readies[r] = v.readies[r]
      BY <2>3
    <3>2. PICK k \in {b, b + 8} : k = First(r, b) /\ k # f
      <4>1. (q = 0 /\ r = 1) \/ (q = 1 /\ r = 0)
        BY <2>3 DEF Queues
      <4> QED
        BY <1>1, <4>1 DEF First
    <3>3. /\ p + 1 > k + 4 => p > k + 4
          /\ p + 1 > k + 6 => p > k + 6
          /\ p + 1 > k + 7 => p > k + 7
          /\ p > k + 8 => p + 1 > k + 8
      BY <1>1, <1>2, <3>2
    <3> QED
      BY <2>1, <3>1, <3>2, <3>3
  <2> QED
    BY <2>2, <2>3
<1>7. KeptTo(w, p + 1, b, g)
  BY <1>3, <1>4, <1>5, <1>6 DEF KeptTo
<1> QED
  BY <1>1, <1>2, <1>7

LEMMA QueueWrites ==
  ASSUME NEW v, NEW value, v.queue_sel \in Queues
  PROVE  /\ Written(v, "QueueNum", value) = v
         /\ Written(v, "DescLow", value) = [v EXCEPT !.desc_addrs[v.queue_sel] = value]
         /\ Written(v, "DriverLow", value) = [v EXCEPT !.driver_addrs[v.queue_sel] = value]
         /\ Written(v, "DeviceLow", value) = [v EXCEPT !.device_addrs[v.queue_sel] = value]
         /\ Written(v, "QueueSel", value) = [v EXCEPT !.queue_sel = value]
         /\ Written(v, "AddressHigh", value) = v
         /\ WriteAccepted(v, "QueueNum", value) /\ WriteAccepted(v, "DescLow", value)
         /\ WriteAccepted(v, "DriverLow", value) /\ WriteAccepted(v, "DeviceLow", value)
         /\ WriteAccepted(v, "QueueSel", value) /\ WriteAccepted(v, "AddressHigh", 0)
         /\ WriteAccepted(v, "QueueReady", 1)
BY DEF Written, WriteAccepted

LEMMA QueueMoves ==
  ASSUME NEW b \in {9, 11}, gen \in Nat, NEW q \in Queues, NEW i \in 1..8,
         NEW v \in Registers(gen), KeptTo(v, First(q, b) + i, b, gen)
  PROVE  Moves(v, SetUpQueue(q)[i], First(q, b) + i, b, gen)
<1> DEFINE Onward(w) == KeptTo(w, First(q, b) + i + 1, b, gen)
<1>1. i # 1 => v.queue_sel = q
  <2>1. First(q, b) = IF q = 0 THEN b ELSE b + 8
    BY DEF First
  <2>2. v.queue_sel = IF First(q, b) + i > b + 9 THEN 1 ELSE 0
    BY DEF KeptTo
  <2> QED
    BY <2>1, <2>2 DEF Queues
<1>2. v.queue_sel \in Queues
  BY DEF KeptTo, Queues
<1>3. CASE i = 1
  <2>1. SetUpQueue(q)[i] = W("QueueSel", q)
    BY <1>3 DEF SetUpQueue
  <2>2. Onward([v EXCEPT !.queue_sel = q])
    <3> DEFINE w == [v EXCEPT !.queue_sel = q]
    <3>1. /\ w.features_sel = v.features_sel /\ w.shm_sel = v.shm_sel
          /\ w.driver_features_sel = v.driver_features_sel
          /\ w.status = v.status /\ w.queue_sel = q
          /\ w.desc_addrs = v.desc_addrs /\ w.driver_addrs = v.driver_addrs
          /\ w.device_addrs = v.device_addrs /\ w.readies = v.readies
      BY DEF Registers
    <3> HIDE DEF w
    <3>2. Onward(w)
      BY <1>3, <3>1, KeptQueue
    <3> QED
      BY <3>2 DEF w
  <2> QED
    BY <1>2, <2>1, <2>2, QueueWrites, PlainMoves
<1>4. CASE i \in {2, 3, 5}
  <2>1. Onward(v)
    BY <1>1, <1>4, KeptQueue
  <2>2. CASE i = 2
    <3>1. SetUpQueue(q)[i] = W("CheckReady", 0)
      BY <2>2 DEF SetUpQueue
    <3> QED
      BY <1>2, <2>1, <3>1 DEF Moves, W, ReadPanics
  <2>3. CASE i = 3
    <3>1. SetUpQueue(q)[i] = W("QueueNum", QueueSize)
      BY <2>3 DEF SetUpQueue
    <3> QED
      BY <1>2, <2>1, <3>1, QueueWrites, PlainMoves
  <2>4. CASE i = 5
    <3>1. SetUpQueue(q)[i] = W("AddressHigh", 0)
      BY <2>4 DEF SetUpQueue
    <3> QED
      BY <1>2, <2>1, <3>1, QueueWrites, PlainMoves
  <2> QED
    BY <1>4, <2>2, <2>3, <2>4
<1>5. CASE i = 4
  <2>1. SetUpQueue(q)[i] = W("DescLow", gen)
    BY <1>5 DEF SetUpQueue
  <2>2. Onward([v EXCEPT !.desc_addrs[q] = gen])
    <3> DEFINE w == [v EXCEPT !.desc_addrs[q] = gen]
    <3>1. /\ w.features_sel = v.features_sel /\ w.shm_sel = v.shm_sel
          /\ w.driver_features_sel = v.driver_features_sel
          /\ w.status = v.status /\ w.queue_sel = v.queue_sel
          /\ w.desc_addrs[q] = gen
          /\ \A r \in Queues \ {q} : w.desc_addrs[r] = v.desc_addrs[r]
          /\ w.driver_addrs = v.driver_addrs
          /\ w.device_addrs = v.device_addrs /\ w.readies = v.readies
      BY DEF Registers
    <3> HIDE DEF w
    <3>2. Onward(w)
      BY <1>1, <1>5, <3>1, KeptQueue
    <3> QED
      BY <3>2 DEF w
  <2> QED
    BY <1>1, <1>2, <1>5, <2>1, <2>2, QueueWrites, PlainMoves
<1>6. CASE i = 6
  <2>1. SetUpQueue(q)[i] = W("DriverLow", gen)
    BY <1>6 DEF SetUpQueue
  <2>2. Onward([v EXCEPT !.driver_addrs[q] = gen])
    <3> DEFINE w == [v EXCEPT !.driver_addrs[q] = gen]
    <3>1. /\ w.features_sel = v.features_sel /\ w.shm_sel = v.shm_sel
          /\ w.driver_features_sel = v.driver_features_sel
          /\ w.status = v.status /\ w.queue_sel = v.queue_sel
          /\ w.driver_addrs[q] = gen
          /\ \A r \in Queues \ {q} : w.driver_addrs[r] = v.driver_addrs[r]
          /\ w.desc_addrs = v.desc_addrs
          /\ w.device_addrs = v.device_addrs /\ w.readies = v.readies
      BY DEF Registers
    <3> HIDE DEF w
    <3>2. Onward(w)
      BY <1>1, <1>6, <3>1, KeptQueue
    <3> QED
      BY <3>2 DEF w
  <2> QED
    BY <1>1, <1>2, <1>6, <2>1, <2>2, QueueWrites, PlainMoves
<1>7. CASE i = 7
  <2>1. SetUpQueue(q)[i] = W("DeviceLow", gen)
    BY <1>7 DEF SetUpQueue
  <2>2. Onward([v EXCEPT !.device_addrs[q] = gen])
    <3> DEFINE w == [v EXCEPT !.device_addrs[q] = gen]
    <3>1. /\ w.features_sel = v.features_sel /\ w.shm_sel = v.shm_sel
          /\ w.driver_features_sel = v.driver_features_sel
          /\ w.status = v.status /\ w.queue_sel = v.queue_sel
          /\ w.device_addrs[q] = gen
          /\ \A r \in Queues \ {q} : w.device_addrs[r] = v.device_addrs[r]
          /\ w.desc_addrs = v.desc_addrs
          /\ w.driver_addrs = v.driver_addrs /\ w.readies = v.readies
      BY DEF Registers
    <3> HIDE DEF w
    <3>2. Onward(w)
      BY <1>1, <1>7, <3>1, KeptQueue
    <3> QED
      BY <3>2 DEF w
  <2> QED
    BY <1>1, <1>2, <1>7, <2>1, <2>2, QueueWrites, PlainMoves
<1>8. CASE i = 8
  <2>1. SetUpQueue(q)[i] = W("QueueReady", 1)
    BY <1>8 DEF SetUpQueue
  <2>2. Onward(Written(v, "QueueReady", 1))
    <3>1. Written(v, "QueueReady", 1) = [v EXCEPT !.readies[v.queue_sel] = (1 = 1)]
      BY DEF Written
    <3>2. PICK t \in BOOLEAN : t = (1 = 1)
      OBVIOUS
    <3> DEFINE w == [v EXCEPT !.readies[q] = t]
    <3>3. Written(v, "QueueReady", 1) = w
      BY <1>1, <1>8, <3>1, <3>2
    <3>4. /\ w.features_sel = v.features_sel /\ w.shm_sel = v.shm_sel
          /\ w.driver_features_sel = v.driver_features_sel
          /\ w.status = v.status /\ w.queue_sel = v.queue_sel
          /\ \A r \in Queues \ {q} : w.readies[r] = v.readies[r]
          /\ w.desc_addrs = v.desc_addrs
          /\ w.driver_addrs = v.driver_addrs /\ w.device_addrs = v.device_addrs
      BY DEF Registers
    <3> HIDE DEF w
    <3>5. Onward(w)
      BY <1>1, <1>8, <3>4, KeptQueue
    <3> QED
      BY <3>3, <3>5
  <2> QED
    BY <1>2, <2>1, <2>2, QueueWrites, PlainMoves
<1> QED
  BY <1>3, <1>4, <1>5, <1>6, <1>7, <1>8

\* No access of the set-up is refused.
LEMMA SetUpMoves ==
  ASSUME RegisterShape, pos \in 1..Len(SetUp), KeptTo(virtio, pos, Before, gen)
  PROVE  Moves(virtio, SetUp[pos], pos, Before, gen)
<1>1. Before \in {9, 11} /\ Len(SetUp) = Before + 17
  BY SetUpPlaces
<1>2. gen \in Nat /\ virtio \in Registers(gen)
  BY DEF RegisterShape
<1>3. PICK b \in {9, 11} : b = Before
  BY <1>1
<1>11. PICK p \in 1..(b + 17) : p = pos
  BY <1>1, <1>3
<1>4. p \in 1..Len(SetUp) /\ KeptTo(virtio, p, b, gen)
  BY <1>3, <1>11
<1> SUFFICES Moves(virtio, SetUp[p], p, b, gen)
  BY <1>3, <1>11
<1>5. CASE p \in 1..9 /\ SetUp[p] = Prologue[p]
  BY <1>2, <1>4, <1>5, PrologueMoves
<1>6. CASE ~IsNet /\ Before = 11 /\ \E i \in 1..2 : p = 9 + i /\ SetUp[p] = Shared[i]
  <2>1. PICK i \in 1..2 : p = 9 + i /\ SetUp[p] = Shared[i]
    BY <1>6
  <2>2. Moves(virtio, Shared[i], 9 + i, 11, gen)
    BY <1>2, <1>3, <1>4, <1>6, <2>1, SharedMoves
  <2> QED
    BY <1>3, <1>6, <2>1, <2>2
<1>7. CASE \E i \in 1..8 : p = Before + i /\ SetUp[p] = SetUpQueue(0)[i]
  <2>1. PICK i \in 1..8 : p = b + i /\ SetUp[p] = SetUpQueue(0)[i]
    BY <1>3, <1>7
  <2>2. 0 \in Queues /\ First(0, b) = b
    BY DEF Queues, First
  <2> QED
    BY <1>2, <1>4, <2>1, <2>2, QueueMoves
<1>8. CASE \E i \in 1..8 : p = Before + 8 + i /\ SetUp[p] = SetUpQueue(1)[i]
  <2>1. PICK i \in 1..8 : p = b + 8 + i /\ SetUp[p] = SetUpQueue(1)[i]
    BY <1>3, <1>8
  <2>2. 1 \in Queues /\ First(1, b) = b + 8
    BY DEF Queues, First
  <2> QED
    BY <1>2, <1>4, <2>1, <2>2, QueueMoves
<1>9. CASE p = Before + 17 /\ SetUp[p] = W("AddStatus", DRIVER_OK)
  <2>1. /\ StatusAt(b + 17 + 1, b) = StatusAt(b + 17, b) \cup {DRIVER_OK}
        /\ StatusAt(b + 17 + 1, b) \in AcceptedStatus
    <3>1. b + 17 + 1 = b + 18
      OBVIOUS
    <3> QED
      BY <3>1, StatusSteps DEF AcceptedStatus
  <2>2. p = b + 17 /\ p \in Nat
    BY <1>3, <1>9
  <2> QED
    BY <1>2, <1>4, <1>9, <2>1, <2>2, StatusMoves
<1> QED
  BY <1>4, <1>5, <1>6, <1>7, <1>8, <1>9, Places

LEMMA AccessInStep ==
  ASSUME Shape, InStep, Access, ~astray PROVE InStep'
<1> DEFINE step == SetUp[pos]
<1>1. /\ UNCHANGED <<beside, kick, astray>>
      /\ pos' = pos + 1 /\ pos \in 1..Len(SetUp)
      /\ virtio' \in Registers(gen) /\ virtio'.device_type = virtio.device_type
      /\ gen' = gen /\ RegisterShape
  BY AccessEffect DEF Shape, beside, memory
<1>2. /\ Before' = Before /\ Blameless' = Blameless
      /\ Before \in {9, 11} /\ Len(SetUp) = Before + 17
  BY <1>1, SetUpPlaces DEF Before, IsNet, Blameless
<1>3. Moves(virtio, step, pos, Before, gen)
  BY <1>1, SetUpMoves DEF InStep
<1>4. /\ step.reg = "Read" => ReadRegister(step.value)
      /\ step.reg = "CheckReady" => ReadRegister("QueueReady")
      /\ step.reg = "AddStatus" => WriteRegister("Status", virtio.status \cup {step.value})
      /\ step.reg \notin {"Read", "CheckReady", "AddStatus"} =>
           WriteRegister(step.reg, step.value)
  BY DEF Access
<1> HIDE DEF step
<1>5. panic' = panic /\ KeptTo(virtio', pos + 1, Before, gen)
  <2>1. CASE step.reg = "Read"
    BY <1>3, <1>4, <2>1, ReadEffect DEF Moves
  <2>2. CASE step.reg = "CheckReady"
    BY <1>3, <1>4, <2>2, ReadEffect DEF Moves
  <2>3. CASE step.reg = "AddStatus"
    BY <1>3, <1>4, <2>3 DEF Moves, WriteRegister
  <2>4. CASE step.reg \notin {"Read", "CheckReady", "AddStatus"}
    BY <1>3, <1>4, <2>4 DEF Moves, WriteRegister
  <2> QED
    BY <2>1, <2>2, <2>3, <2>4
<1>6. KeptTo(virtio', pos', Before', gen')
  BY <1>1, <1>2, <1>5
<1>7. pos' <= Before' + 18 /\ \A q \in Queues : ~kick'[q]
  <2>1. pos # Before + 18 /\ pos + 1 <= Before + 18
    BY <1>1, <1>2
  <2> QED
    BY <1>1, <1>2, <2>1 DEF InStep
<1> QED
  BY <1>1, <1>2, <1>5, <1>6, <1>7 DEF InStep

LEMMA FreshKept ==
  ASSUME NEW b \in {9, 11}, NEW g \in Nat, NEW p \in {0, 1}, NEW type
  PROVE  KeptTo(New(type), p, b, g)
<1>1. StatusAt(p, b) = {}
  BY DEF StatusAt
<1>2. /\ New(type).features_sel = 0 /\ New(type).driver_features_sel = 0
      /\ New(type).shm_sel = 0 /\ New(type).status = {} /\ New(type).queue_sel = 0
      /\ \A q \in Queues : ~New(type).readies[q]
  BY DEF New
<1>3. \A q \in Queues : First(q, b) \in {b, b + 8}
  BY DEF First
<1>4. ~(p > b + 9) /\ \A q \in Queues : \A n \in {4, 6, 7} : ~(p > First(q, b) + n)
  BY <1>3
<1> QED
  BY <1>1, <1>2, <1>4 DEF KeptTo

LEMMA ResetInStep ==
  ASSUME Shape, Reset PROVE InStep'
<1>1. /\ virtio' = New(virtio.device_type) /\ virtio'.device_type = virtio.device_type
      /\ gen' = gen + 1 /\ pos' = 1
      /\ kick' = [q \in Queues |-> FALSE] /\ UNCHANGED panic
  BY ResetEffect DEF Shape
<1>2. Before' \in {9, 11} /\ gen' \in Nat /\ panic = "none"
  BY <1>1 DEF Before, Shape, RegisterShape, Reset, Running
<1>3. KeptTo(virtio', pos', Before', gen')
  <2>1. KeptTo(New(virtio.device_type), 1, Before', gen')
    BY <1>2, FreshKept
  <2> QED
    BY <1>1, <2>1
<1>4. pos' <= Before' + 18
  <2>1. \A b \in {9, 11} : 1 <= b + 18
    OBVIOUS
  <2> QED
    BY <1>1, <1>2, <2>1
<1>5. \A q \in Queues : ~kick'[q]
  BY <1>1
<1> QED
  BY <1>1, <1>2, <1>3, <1>4, <1>5 DEF InStep, Blameless

\* Where the driver notifies a queue or the device finds it ready, the queue is
\* where the driver put it.
LEMMA QueuesPlaced ==
  ASSUME InStep, ~astray, pos \in Nat, NEW q \in Queues,
         kick[q] \/ virtio.readies[q]
  PROVE  RingsAt(q) /\ DescriptorsAt(q)
<1>1. PICK b \in {9, 11} : b = Before
  BY DEF Before
<1>2. First(q, b) \in {b, b + 8}
  BY DEF First
<1>3. KeptTo(virtio, pos, b, gen) /\ (kick[q] => pos = b + 18)
  BY <1>1 DEF InStep
<1>4. pos > First(q, b) + 8
  BY <1>2, <1>3 DEF KeptTo
<1>5. pos > First(q, b) + 4 /\ pos > First(q, b) + 6 /\ pos > First(q, b) + 7
  BY <1>2, <1>4
<1> QED
  BY <1>3, <1>5 DEF KeptTo, RingsAt, DescriptorsAt

\* A step that leaves the registers and the driver's place.
LEMMA StaysInStep ==
  ASSUME InStep, ~astray, UNCHANGED <<virtio, gen, pos>>,
         panic' \in Blameless,
         \A q \in Queues : kick'[q] => kick[q] \/ (pos = Before + 18 /\ q = Notified)
  PROVE  InStep'
<1>1. /\ Before' = Before /\ IsNet' = IsNet /\ Notified' = Notified
      /\ Blameless' = Blameless
  BY DEF Before, IsNet, Notified, Blameless
<1>2. KeptTo(virtio', pos', Before', gen') /\ pos' <= Before' + 18
  BY <1>1 DEF InStep
<1> QED
  BY <1>1, <1>2 DEF InStep

LEMMA NotifyInStep ==
  ASSUME Shape, InStep, NoChain, GpuInv, Notify, ~astray PROVE InStep'
<1>1. PICK q \in Queues :
        kick[q] /\ DeviceNotify(q) /\ kick' = [kick EXCEPT ![q] = FALSE]
  BY DEF Notify
<1>2. UNCHANGED <<pos, astray>> /\ panic = "none" /\ pos \in Nat
  BY DEF Notify, Running, Shape, RegisterShape
<1>3. UNCHANGED <<virtio, gen>>
  BY <1>1, NotifyEffect
<1>4. q = Notified /\ RingsAt(q) /\ DescriptorsAt(q)
  BY <1>1, <1>2, QueuesPlaced DEF InStep
<1>5. panic' \in Blameless
  <2>1. CASE panic' = "none"
    BY <2>1 DEF Blameless
  <2>2. CASE IsNet /\ NetNotifyPanic(q)
    <3>1. q = TRANSMIT
      BY <1>4, <2>2 DEF Notified
    <3>2. Chained \notin Range(Contents(q, Waiting(q)))
      <4>1. DOMAIN Waiting(q) = 1..Len(Waiting(q))
        BY QueueFacts, LenProperties DEF Shape, QueueInv
      <4>2. \A i \in DOMAIN Waiting(q) : desc[q][Waiting(q)[i]] # Chained
        BY <2>2, <3>1, <4>1 DEF NoChain, WaitingFrame
      <4> QED
        BY <4>2 DEF Range, Contents
    <3>3. panic' = "host"
      BY <1>4, <2>2, <3>1, <3>2 DEF NetNotifyPanic, Stop
    <3> QED
      BY <3>3 DEF Blameless
  <2>3. CASE ~IsNet /\ GpuNotifyPanic(q)
    <3>1. q = CONTROL /\ virtio.driver_addrs[q] = gen
      BY <1>4, <2>3 DEF Notified, RingsAt
    <3>2. PICK S : Obeyed(S)
      BY <2>3 DEF GpuInv, Doomed
    <3>3. Run(WaitingCommands).stop \in {"none", "host"}
      BY <3>2, RunAgrees
    <3>4. panic' = "host"
      BY <1>4, <2>3, <3>1, <3>3 DEF GpuNotifyPanic, Stop
    <3> QED
      BY <3>4 DEF Blameless
  <2>4. CASE IsNet /\ (NetNotifyIdle(q) \/ NetTransmit(q))
    BY <1>2, <2>1, <2>4 DEF NetNotifyIdle, NetTransmit, queueVars
  <2>5. CASE ~IsNet /\ (GpuNotifyIdle(q) \/ GpuServe(q))
    BY <1>2, <2>1, <2>5 DEF GpuNotifyIdle, GpuServe, queueVars
  <2> QED
    BY <1>1, <2>2, <2>3, <2>4, <2>5 DEF DeviceNotify, NetNotify, GpuNotify
<1>6. \A p \in Queues : kick'[p] => kick[p]
  BY <1>1 DEF Shape, PacketShape
<1> QED
  BY <1>2, <1>3, <1>5, <1>6, StaysInStep

LEMMA TickInStep ==
  ASSUME Shape, InStep, Tick, ~astray PROVE InStep'
<1>1. /\ IsNet /\ panic = "none" /\ UNCHANGED <<virtio, gen, pos, kick>>
      /\ RECEIVE \in Queues /\ pos \in Nat
  BY TickEffect DEF driver, RECEIVE, Queues, Shape, RegisterShape
<1>2. panic' \in {"none", "packet"}
  <2>1. CASE NetTickPanic
    <3>1. RingsAt(RECEIVE) /\ DescriptorsAt(RECEIVE)
      BY <1>1, <2>1, QueuesPlaced DEF NetTickPanic, NetTickable
    <3> QED
      BY <2>1, <3>1 DEF NetTickPanic, Stop
  <2>2. CASE NetDrop \/ NetDeliver
    BY <1>1, <2>2 DEF NetDrop, NetDeliver
  <2> QED
    BY <2>1, <2>2 DEF Tick, NetTick
<1> QED
  BY <1>1, <1>2, StaysInStep DEF Blameless

LEMMA OffersInStep ==
  ASSUME Shape, InStep, OfferReceive \/ OfferTransmit \/ OfferCommand PROVE InStep'
<1>1. /\ RECEIVE \in Queues /\ TRANSMIT \in Queues /\ CONTROL \in Queues
      /\ RECEIVE # TRANSMIT
  BY DEF RECEIVE, TRANSMIT, CONTROL, Queues
<1>2. PICK q \in Queues : /\ \E id \in Slots : \E content : Offer(q, id, content)
                          /\ q = Notified \/ (IsNet /\ q # TRANSMIT)
  <2>1. CASE OfferReceive
    BY <1>1, <2>1 DEF OfferReceive
  <2>2. CASE OfferTransmit
    BY <1>1, <2>2 DEF OfferTransmit, Notified
  <2>3. CASE OfferCommand
    BY <1>1, <2>3 DEF OfferCommand, Notified
  <2> QED
    BY <2>1, <2>2, <2>3
<1>3. /\ UNCHANGED <<virtio, gen, pos, panic>> /\ ~astray /\ Live
      /\ kick' = [kick EXCEPT ![q] = ~IsNet \/ q = TRANSMIT]
  BY <1>2 DEF Offer, OfferReceive, OfferTransmit, OfferCommand
<1>4. pos = Before + 18
  BY <1>3, SetUpPlaces DEF Live
<1>5. \A p \in Queues : kick'[p] => kick[p] \/ p = Notified
  <2>1. kick \in [Queues -> BOOLEAN]
    BY DEF Shape, PacketShape
  <2>2. \A p \in Queues : p # q => kick'[p] = kick[p]
    BY <1>3, <2>1
  <2>3. kick'[q] = (~IsNet \/ q = TRANSMIT)
    BY <1>3, <2>1
  <2>4. kick'[q] => q = Notified
    BY <1>2, <2>3
  <2> QED
    BY <2>2, <2>4
<1> QED
  BY <1>3, <1>4, <1>5, StaysInStep DEF InStep

LEMMA NextInStep ==
  ASSUME Shape, NoChain, GpuInv, InStep, [Next]_vars PROVE InStep'
<1>1. CASE astray'
  BY <1>1 DEF InStep
<1>2. CASE Reset
  BY <1>2, ResetInStep
<1>3. CASE ~astray' /\ ~Reset
  <2>1. ~GoAstray /\ ~OfferAstray
    BY <1>3 DEF GoAstray, OfferAstray
  <2>2. ASSUME UNCHANGED <<virtio, gen, pos, kick, panic, astray>> PROVE InStep'
    BY <1>3, <2>2, StaysInStep DEF InStep
  <2>3. CASE Access
    BY <1>3, <2>3, AccessInStep DEF Access
  <2>4. CASE OfferReceive \/ OfferTransmit \/ OfferCommand
    BY <2>4, OffersInStep
  <2>5. CASE Notify
    BY <1>3, <2>5, NotifyInStep DEF Notify
  <2>6. CASE Interrupted \/ Collect \/ HandlerEnds
    BY <2>2, <2>6 DEF Interrupted, Collect, HandlerEnds, queueVars, memory
  <2>7. CASE Tick
    BY <1>3, <2>7, TickEffect, TickInStep DEF driver
  <2>8. CASE HostSends \/ HostEnds
    BY <2>2, <2>8 DEF HostSends, HostEnds, memory, driver
  <2>9. CASE UNCHANGED vars
    BY <2>2, <2>9 DEF vars, queueVars, memory, driver
  <2> QED
    BY <1>3, <2>1, <2>3, <2>4, <2>5, <2>6, <2>7, <2>8, <2>9 DEF Next
<1> QED
  BY <1>1, <1>2, <1>3

LEMMA InStepHolds == Spec => []InStep
<1>1. Init => InStep
  <2> SUFFICES ASSUME Init PROVE InStep
    OBVIOUS
  <2>1. PICK type \in {"Network", "Gpu"} : virtio = New(type)
    BY DEF Init
  <2>2. /\ gen = 0 /\ pos = 0 /\ panic = "none" /\ \A q \in Queues : ~kick[q]
        /\ Before \in {9, 11}
    BY DEF Init, Before
  <2>3. KeptTo(virtio, pos, Before, gen)
    BY <2>1, <2>2, FreshKept
  <2> QED
    BY <2>2, <2>3 DEF InStep, Blameless
<1>2. Shape /\ SendInv /\ NoChain /\ GpuInv /\ InStep /\ [Next]_vars => InStep'
  BY NextInStep
<1> QED
  BY <1>1, <1>2, ShapeHolds, FramesHold, GpuKeepsUp, PTL DEF Spec

\* A driver that keeps to the protocol, at its first set-up or after a reset,
\* makes neither device panic by any access: not one of the registers, rings,
\* chains and commands it uses is refused. What is left is a host thread that
\* ended and a packet larger than its buffer.
THEOREM DriverIsNeverRefused == Spec => []DriverNeverPanics
<1>1. InStep => DriverNeverPanics
  BY DEF InStep, DriverNeverPanics, Blameless
<1> QED
  BY <1>1, InStepHolds, PTL
=============================================================================
