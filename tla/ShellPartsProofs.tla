--------------------------- MODULE ShellPartsProofs ---------------------------
(***************************************************************************)
(* Proofs about mysh and the menu.  The block cache of mysh's file system, *)
(* for every device, FAT layout and number of slots: it implements         *)
(* BlockStore, and the copies of the FAT stay equal.  A session of         *)
(* commands on a volume: what a sync has covered stays.  The menu: it is   *)
(* what the indentation of the file means.                                 *)
(***************************************************************************)
EXTENDS ShellParts, Sequences, FiniteSetTheorems, SequenceTheorems, WellFoundedInduction, TLAPS

\* A set of numbers that is not empty has a least one.
LEMMA LeastNat ==
  ASSUME NEW T, T \subseteq Nat, T # {}
  PROVE  \E x \in T : \A y \in T : x <= y
  <1>1. PICK x \in T : \A y \in T : ~ (<<y, x>> \in OpToRel(<, Nat))
    BY NatLessThanWellFounded, WFMin
  <1>2. \A y \in T : ~ (y < x)
    BY <1>1 DEF OpToRel
  <1> QED
    BY <1>2

\* The least of a set of numbers is one of them.
LEMMA MinIn ==
  ASSUME NEW T, T \subseteq Nat, T # {}
  PROVE  Cache!Min(T) \in T
  BY LeastNat DEF Cache!Min

\* The greatest of a set of slots is one of them.
LEMMA MaxIn ==
  ASSUME NEW T, T \subseteq Cache!Slots, T # {}
  PROVE  Cache!Max(T) \in T
  <1> DEFINE n == CacheSlots
             U == {n - x : x \in T}
  <1>1. n \in Nat /\ \A x \in T : x \in Nat /\ x < n
    BY CacheAssumption DEF CacheAssumption, Cache!Slots
  <1>2. U \subseteq Nat /\ U # {}
    BY <1>1
  <1>3. \E u \in U : \A y \in U : u <= y
    <2> HIDE DEF U
    <2> QED
      BY <1>2, LeastNat
  <1>4. PICK m \in T : \A y \in T : n - m <= n - y
    BY <1>3
  <1>5. \A y \in T : m >= y
    BY <1>1, <1>4
  <1> QED
    BY <1>5 DEF Cache!Max

\* Multiples.
LEMMA TimesMono ==
  ASSUME NEW a \in Nat, NEW b \in Nat, NEW c \in Nat, a <= b
  PROVE  a * c <= b * c /\ a * c \in Nat /\ b * c \in Nat
  <1>1. PICK d \in Nat : b = a + d
    <2>1. b - a \in Nat /\ b = a + (b - a)
      OBVIOUS
    <2> QED
      BY <2>1
  <1>2. (a + d) * c = a * c + d * c
    OBVIOUS
  <1>3. d * c \in Nat /\ a * c \in Nat
    OBVIOUS
  <1> QED
    BY <1>1, <1>2, <1>3

\* Where the copies of a block of the FAT are.
LEMMA MirrorAt ==
  ASSUME NEW b, NEW c \in Cache!Mirrors(b)
  PROVE  /\ b \in Nat /\ b >= FatStart /\ b < FatStart + FatSize
         /\ \E k \in Nat : /\ k >= 1 /\ c = b + k * FatSize /\ c \in Nat /\ c >= FatStart + FatSize
                           /\ k * FatSize + FatSize <= FatSize * FatCount
         /\ c < FatStart + FatSize * FatCount
  <1>0. FatSize \in Nat /\ FatCount \in Nat /\ FatStart \in Nat
    BY CacheAssumption DEF CacheAssumption
  <1>1. b \in FatStart .. FatStart + FatSize - 1
    BY DEF Cache!Mirrors
  <1>2. PICK k \in 1 .. FatCount - 1 : c = b + k * FatSize
    BY <1>1 DEF Cache!Mirrors
  <1>3. b \in Nat /\ b >= FatStart /\ b < FatStart + FatSize
    BY <1>0, <1>1
  <1>4. k \in Nat /\ k >= 1 /\ k + 1 <= FatCount /\ k + 1 \in Nat
    BY <1>0, <1>2
  <1>5. k * FatSize \in Nat /\ FatSize <= k * FatSize
    <2>1. 1 * FatSize <= k * FatSize /\ k * FatSize \in Nat
      BY <1>0, <1>4, TimesMono
    <2> QED
      BY <1>0, <2>1
  <1>6. k * FatSize + FatSize <= FatSize * FatCount
    <2>1. (k + 1) * FatSize <= FatCount * FatSize
      BY <1>0, <1>4, TimesMono
    <2>2. (k + 1) * FatSize = k * FatSize + FatSize
      BY <1>0, <1>4
    <2>3. FatCount * FatSize = FatSize * FatCount
      BY <1>0
    <2> QED
      BY <2>1, <2>2, <2>3
  <1>7. FatSize * FatCount \in Nat
    BY <1>0
  <1>8. PICK m \in Nat : m = k * FatSize
    BY <1>5
  <1>9. PICK z \in Nat : z = FatSize * FatCount
    BY <1>7
  <1>10. c \in Nat /\ c >= FatStart + FatSize /\ c < FatStart + z
    BY <1>0, <1>2, <1>3, <1>5, <1>6, <1>8, <1>9
  <1> QED
    BY <1>2, <1>3, <1>4, <1>6, <1>9, <1>10

\* The copies are blocks of the device, past the first FAT, and no block is
\* a copy of two.
LEMMA MirrorFacts ==
  /\ \A b : Cache!Mirrors(b) \subseteq Cache!Blocks
  /\ \A b : \A c \in Cache!Mirrors(b) : Cache!Mirrors(c) = {}
  /\ \A a, b : \A c \in Cache!Mirrors(b) : c \in Cache!Mirrors(a) => a = b
  /\ \A b : \A c \in Cache!Mirrors(b) : b \in Cache!Blocks /\ c # b
  <1>0. /\ FatSize \in Nat /\ FatCount \in Nat /\ FatStart \in Nat /\ DevBlocks \in Nat
        /\ FatStart + FatSize * FatCount <= DevBlocks /\ FatSize * FatCount \in Nat
    BY CacheAssumption DEF CacheAssumption
  <1>1. ASSUME NEW b, NEW c \in Cache!Mirrors(b)
        PROVE  c \in Cache!Blocks /\ Cache!Mirrors(c) = {} /\ b \in Cache!Blocks /\ c # b
    <2>1. /\ c \in Nat /\ c >= FatStart + FatSize /\ c < FatStart + FatSize * FatCount
          /\ b \in Nat /\ b < FatStart + FatSize
      BY MirrorAt
    <2>2. c < DevBlocks /\ b < DevBlocks /\ c # b
      BY <1>0, <2>1
    <2>3. c \in Cache!Blocks /\ b \in Cache!Blocks
      BY <1>0, <2>1, <2>2 DEF Cache!Blocks
    <2>4. c \notin FatStart .. FatStart + FatSize - 1
      BY <1>0, <2>1
    <2> QED
      BY <2>2, <2>3, <2>4 DEF Cache!Mirrors
  <1>2. ASSUME NEW a, NEW b, NEW c \in Cache!Mirrors(b), c \in Cache!Mirrors(a)
        PROVE  a = b
    <2>1. b \in Nat /\ b >= FatStart /\ b < FatStart + FatSize /\ a \in Nat /\ a >= FatStart /\ a < FatStart + FatSize
      BY <1>2, MirrorAt
    <2>2. PICK k \in Nat : c = b + k * FatSize
      BY MirrorAt
    <2>3. PICK j \in Nat : c = a + j * FatSize
      BY <1>2, MirrorAt
    <2>4. ASSUME NEW x \in Nat, NEW y \in Nat, x < y PROVE x * FatSize + FatSize <= y * FatSize /\ x * FatSize \in Nat /\ y * FatSize \in Nat
      <3>1. (x + 1) * FatSize <= y * FatSize /\ y * FatSize \in Nat
        BY <1>0, <2>4, TimesMono
      <3>2. (x + 1) * FatSize = x * FatSize + FatSize
        BY <1>0
      <3> QED
        BY <1>0, <3>1, <3>2
    <2>5. CASE k < j
      <3>1. k * FatSize + FatSize <= j * FatSize /\ k * FatSize \in Nat /\ j * FatSize \in Nat
        BY <2>4, <2>5
      <3>2. PICK p \in Nat, q \in Nat : p = k * FatSize /\ q = j * FatSize
        BY <3>1
      <3> QED
        BY <1>0, <2>1, <2>2, <2>3, <3>1, <3>2
    <2>6. CASE j < k
      <3>1. j * FatSize + FatSize <= k * FatSize /\ k * FatSize \in Nat /\ j * FatSize \in Nat
        BY <2>4, <2>6
      <3>2. PICK p \in Nat, q \in Nat : p = k * FatSize /\ q = j * FatSize
        BY <3>1
      <3> QED
        BY <1>0, <2>1, <2>2, <2>3, <3>1, <3>2
    <2>7. CASE k = j
      <3>1. PICK p \in Nat : p = k * FatSize
        BY <1>0
      <3> QED
        BY <2>1, <2>2, <2>3, <2>7, <3>1
    <2> QED
      BY <2>5, <2>6, <2>7
  <1>3. \A b : Cache!Mirrors(b) \subseteq Cache!Blocks
    BY <1>1
  <1>4. \A b : \A c \in Cache!Mirrors(b) : Cache!Mirrors(c) = {} /\ b \in Cache!Blocks /\ c # b
    BY <1>1
  <1> QED
    BY <1>2, <1>3, <1>4

\* What the layers above use.
LEMMA HomeFacts ==
  /\ Cache!Home \subseteq Cache!Blocks /\ 0 \in Cache!Home /\ Cache!DataBlocks \subseteq Cache!Home
  /\ \A b : \A c \in Cache!Mirrors(b) : c \notin Cache!Home
  /\ \A b \in Cache!DataBlocks : Cache!Mirrors(b) = {}
  <1>0. /\ FatSize \in Nat /\ FatCount \in Nat /\ FatStart \in Nat \ {0} /\ DevBlocks \in Nat
        /\ FatStart + FatSize * FatCount <= DevBlocks /\ FatSize * FatCount \in Nat
    BY CacheAssumption DEF CacheAssumption
  <1>1. \A b : \A c \in Cache!Mirrors(b) : c \notin Cache!Home
    BY MirrorFacts DEF Cache!Home
  <1>2. 0 \in Cache!Home
    <2>1. 0 \in Cache!Blocks
      BY <1>0 DEF Cache!Blocks
    <2>2. ASSUME NEW b, 0 \in Cache!Mirrors(b) PROVE FALSE
      BY <1>0, <2>2, MirrorAt
    <2> QED
      BY <2>1, <2>2 DEF Cache!Home
  <1>3. ASSUME NEW d \in Cache!DataBlocks PROVE d \in Cache!Home /\ Cache!Mirrors(d) = {}
    <2>1. d \in Cache!Blocks /\ d >= FatStart + FatSize * FatCount /\ d \in Int
      BY DEF Cache!DataBlocks, Cache!Blocks
    <2>2. ASSUME NEW b, d \in Cache!Mirrors(b) PROVE FALSE
      <3>1. d < FatStart + FatSize * FatCount
        BY <2>2, MirrorAt
      <3>2. PICK z \in Nat : z = FatSize * FatCount
        BY <1>0
      <3> QED
        BY <1>0, <2>1, <3>1, <3>2
    <2>3. ASSUME NEW c \in Cache!Mirrors(d) PROVE FALSE
      <3>1. PICK k \in Nat : k >= 1 /\ c = d + k * FatSize /\ k * FatSize + FatSize <= FatSize * FatCount
        BY MirrorAt
      <3>2. c < FatStart + FatSize * FatCount /\ k * FatSize \in Nat
        BY <1>0, MirrorAt
      <3>3. PICK z \in Nat, m \in Nat : z = FatSize * FatCount /\ m = k * FatSize
        BY <1>0, <3>2
      <3> QED
        BY <1>0, <2>1, <3>1, <3>2, <3>3
    <2> QED
      BY <2>1, <2>2, <2>3 DEF Cache!Home
  <1>4. Cache!Home \subseteq Cache!Blocks
    BY DEF Cache!Home
  <1> QED
    BY <1>1, <1>2, <1>3, <1>4

-----------------------------------------------------------------------------
(* A device v, slots d and missed copies m.                                *)

SlotRec == [present : BOOLEAN, dirty : BOOLEAN, index : Cache!Blocks, data : CacheValues]
Shaped(v, d) == v \in [Cache!Blocks -> CacheValues] /\ d \in [Cache!Slots -> SlotRec]

\* No block is in two slots, and no copy of the FAT is in any.
Single(d) ==
    /\ \A l \in Cache!Slots : d[l].present => d[l].index \in Cache!Home
    /\ \A l, j \in Cache!Slots :
          d[l].present /\ d[j].present /\ d[l].index = d[j].index => l = j

\* A slot that is not dirty has what the device has.
Clean(v, d) == \A l \in Cache!Slots : d[l].present => d[l].dirty \/ d[l].data = v[d[l].index]

\* The copies of the FAT follow the first one.
Follow(v, m) ==
    /\ m \subseteq Cache!AllMirrors
    /\ \A b \in Cache!Blocks : \A c \in Cache!Mirrors(b) : c \in m \/ v[c] = v[b]

Sound(v, d) == Shaped(v, d) /\ Single(d) /\ Clean(v, d)

\* What the memory of the store is at a block, in a slot or not.
LEMMA MemAt ==
  ASSUME NEW v, NEW d, Single(d)
  PROVE  /\ \A l \in Cache!Slots : d[l].present => Cache!Mem(v, d)[d[l].index] = d[l].data
         /\ \A b \in Cache!Home : (\A l \in Cache!Slots : d[l].present => d[l].index # b)
                                     => Cache!Mem(v, d)[b] = v[b]
  <1>1. ASSUME NEW l \in Cache!Slots, d[l].present
        PROVE  Cache!Mem(v, d)[d[l].index] = d[l].data
    <2>1. PICK b \in Cache!Home : b = d[l].index
      BY <1>1 DEF Single
    <2>2. l \in Cache!Cached(d, b) /\ \A j \in Cache!Cached(d, b) : j = l
      BY <1>1, <2>1 DEF Cache!Cached, Single
    <2>3. (CHOOSE j \in Cache!Cached(d, b) : TRUE) = l
      BY <2>2
    <2> QED
      BY <2>1, <2>2, <2>3 DEF Cache!Mem
  <1>2. ASSUME NEW b \in Cache!Home, \A l \in Cache!Slots : d[l].present => d[l].index # b
        PROVE  Cache!Mem(v, d)[b] = v[b]
    <2>1. Cache!Cached(d, b) = {}
      BY <1>2 DEF Cache!Cached
    <2> QED
      BY <2>1 DEF Cache!Mem
  <1> QED
    BY <1>1, <1>2

\* A memory is a function on the blocks.
LEMMA MemFun ==
  ASSUME NEW v, NEW d
  PROVE  Cache!Mem(v, d) = [b \in Cache!Home |-> Cache!Mem(v, d)[b]]
  BY DEF Cache!Mem

\* Two states with the same memory at every block have the same memory.
LEMMA MemSame ==
  ASSUME NEW v, NEW d, NEW v2, NEW d2,
         \A b \in Cache!Home : Cache!Mem(v2, d2)[b] = Cache!Mem(v, d)[b]
  PROVE  Cache!Mem(v2, d2) = Cache!Mem(v, d)
  <1>1. PICK M : M = Cache!Mem(v, d)
    OBVIOUS
  <1>2. PICK M2 : M2 = Cache!Mem(v2, d2)
    OBVIOUS
  <1>3. M = [b \in Cache!Home |-> M[b]] /\ M2 = [b \in Cache!Home |-> M2[b]]
    BY <1>1, <1>2, MemFun
  <1>4. \A b \in Cache!Home : M2[b] = M[b]
    BY <1>1, <1>2
  <1>5. M = M2
    BY <1>3, <1>4
  <1> QED
    BY <1>1, <1>2, <1>5

\* Block b is going to be in slot l: it is there, or it is nowhere and the
\* slot can be given up.
Ready(d, l, b) ==
    \/ d[l].present /\ d[l].index = b
    \/ /\ \A j \in Cache!Slots : d[j].present => d[j].index # b
       /\ d[l].present => ~d[l].dirty

\* Block b comes into slot l: the memory changes at b only.
LEMMA PutsSound ==
  ASSUME NEW v, NEW d, Sound(v, d), NEW l \in Cache!Slots, NEW b \in Cache!Home, Ready(d, l, b),
         NEW d2 \in [Cache!Slots -> SlotRec], \A j \in Cache!Slots : j # l => d2[j] = d[j],
         d2[l].present, d2[l].index = b, d2[l].dirty \/ d2[l].data = v[b]
  PROVE  /\ Sound(v, d2) /\ Cache!Mem(v, d2)[b] = d2[l].data
         /\ \A x \in Cache!Home : x # b => Cache!Mem(v, d2)[x] = Cache!Mem(v, d)[x]
  <1>0. Single(d) /\ Clean(v, d) /\ Shaped(v, d)
    BY DEF Sound
  <1>1. \A j \in Cache!Slots : j # l /\ d[j].present => d[j].index # b
    BY <1>0 DEF Ready, Single
  <1>2. Single(d2)
    BY <1>0, <1>1 DEF Single
  <1>3. Clean(v, d2)
    BY <1>0 DEF Clean
  <1>4. Sound(v, d2)
    BY <1>0, <1>2, <1>3 DEF Sound, Shaped
  <1>5. Cache!Mem(v, d2)[b] = d2[l].data
    BY <1>2, MemAt
  <1>6. ASSUME NEW x \in Cache!Home, x # b
        PROVE  Cache!Mem(v, d2)[x] = Cache!Mem(v, d)[x]
    <2>1. CASE \E j \in Cache!Slots : j # l /\ d[j].present /\ d[j].index = x
      <3>1. PICK j \in Cache!Slots : j # l /\ d[j].present /\ d[j].index = x
        BY <2>1
      <3>2. d2[j] = d[j]
        BY <3>1
      <3>3. Cache!Mem(v, d)[x] = d[j].data
        BY <1>0, <3>1, MemAt
      <3>4. Cache!Mem(v, d2)[x] = d[j].data
        BY <1>2, <3>1, <3>2, MemAt
      <3> QED
        BY <3>3, <3>4
    <2>2. CASE ~ \E j \in Cache!Slots : j # l /\ d[j].present /\ d[j].index = x
      <3>1. \A j \in Cache!Slots : d2[j].present => d2[j].index # x
        BY <1>6, <2>2
      <3>2. Cache!Mem(v, d2)[x] = v[x]
        BY <1>2, <1>6, <3>1, MemAt
      <3>3. CASE d[l].present /\ d[l].index = x
        <4>1. ~d[l].dirty
          BY <1>6, <3>3 DEF Ready
        <4>2. d[l].data = v[x]
          BY <1>0, <3>3, <4>1 DEF Clean
        <4>3. Cache!Mem(v, d)[x] = d[l].data
          BY <1>0, <3>3, MemAt
        <4> QED
          BY <3>2, <4>2, <4>3
      <3>4. CASE ~(d[l].present /\ d[l].index = x)
        <4>1. \A j \in Cache!Slots : d[j].present => d[j].index # x
          BY <2>2, <3>4
        <4> QED
          BY <1>0, <1>6, <3>2, <4>1, MemAt
      <3> QED
        BY <3>3, <3>4
    <2> QED
      BY <2>1, <2>2
  <1> QED
    BY <1>4, <1>5, <1>6

\* Slots J are given up: the memory changes only at blocks whose slot was
\* dirty, to what the device has.
GivenUp(v, d, J, d2) ==
    /\ Sound(v, d2)
    /\ \A x \in Cache!Home :
          Cache!Mem(v, d2)[x] = IF \E l \in Cache!Slots : l \in J /\ d[l].present /\ d[l].index = x
                                THEN v[x] ELSE Cache!Mem(v, d)[x]
    /\ \A l \in Cache!Slots :
          d[l].present /\ ~d[l].dirty => Cache!Mem(v, d)[d[l].index] = v[d[l].index]

\* That is so.
LEMMA DropsSound ==
  ASSUME NEW v, NEW d, Sound(v, d), NEW J, NEW d2 \in [Cache!Slots -> SlotRec],
         \A l \in Cache!Slots : (l \in J => ~d2[l].present) /\ (l \notin J => d2[l] = d[l])
  PROVE  GivenUp(v, d, J, d2)
  <1>0. Single(d) /\ Clean(v, d) /\ Shaped(v, d)
    BY DEF Sound
  <1>1. \A l \in Cache!Slots : d2[l].present => l \notin J /\ d2[l] = d[l]
    OBVIOUS
  <1>2. Single(d2)
    BY <1>0, <1>1 DEF Single
  <1>3. Clean(v, d2)
    BY <1>0, <1>1 DEF Clean
  <1>4. Sound(v, d2)
    BY <1>0, <1>2, <1>3 DEF Sound, Shaped
  <1>5. ASSUME NEW x \in Cache!Home
        PROVE  Cache!Mem(v, d2)[x] = IF \E l \in Cache!Slots : l \in J /\ d[l].present /\ d[l].index = x
                                     THEN v[x] ELSE Cache!Mem(v, d)[x]
    <2>1. CASE \E l \in Cache!Slots : d[l].present /\ d[l].index = x
      <3>1. PICK l \in Cache!Slots : d[l].present /\ d[l].index = x
        BY <2>1
      <3>2. \A j \in Cache!Slots : d[j].present /\ d[j].index = x => j = l
        BY <1>0, <3>1 DEF Single
      <3>3. CASE l \in J
        <4>1. \A j \in Cache!Slots : d2[j].present => d2[j].index # x
          BY <1>1, <3>2, <3>3
        <4>2. Cache!Mem(v, d2)[x] = v[x]
          BY <1>2, <4>1, MemAt
        <4> QED
          BY <3>1, <3>3, <4>2
      <3>4. CASE l \notin J
        <4>1. d2[l] = d[l] /\ ~ \E j \in Cache!Slots : j \in J /\ d[j].present /\ d[j].index = x
          BY <3>2, <3>4
        <4>2. Cache!Mem(v, d2)[x] = d[l].data
          BY <1>2, <3>1, <4>1, MemAt
        <4>3. Cache!Mem(v, d)[x] = d[l].data
          BY <1>0, <3>1, MemAt
        <4> QED
          BY <4>1, <4>2, <4>3
      <3> QED
        BY <3>3, <3>4
    <2>2. CASE ~ \E l \in Cache!Slots : d[l].present /\ d[l].index = x
      <3>1. Cache!Mem(v, d)[x] = v[x]
        BY <1>0, <2>2, MemAt
      <3>2. \A j \in Cache!Slots : d2[j].present => d2[j].index # x
        BY <1>1, <2>2
      <3>3. Cache!Mem(v, d2)[x] = v[x]
        BY <1>2, <3>2, MemAt
      <3> QED
        BY <2>2, <3>1, <3>3
    <2> QED
      BY <2>1, <2>2
  <1>6. ASSUME NEW l \in Cache!Slots, d[l].present, ~d[l].dirty
        PROVE  Cache!Mem(v, d)[d[l].index] = v[d[l].index]
    <2>1. d[l].data = v[d[l].index]
      BY <1>0, <1>6 DEF Clean
    <2>2. Cache!Mem(v, d)[d[l].index] = d[l].data
      BY <1>0, <1>6, MemAt
    <2> QED
      BY <2>1, <2>2
  <1> QED
    BY <1>4, <1>5, <1>6 DEF GivenUp

\* The device has, block by block, what it had or what the memory has.
Lags(v, v2, M) == \A b \in Cache!Home : v2[b] = v[b] \/ v2[b] = M[b]

\* Who writes a block of the layers above, or a copy of one.
WritersKnown(d, I, bad) ==
    /\ \A b \in Cache!Home : \A l : l \in Cache!Writers(d, I, bad, b) <=>
                                     (l \in Cache!Dirty(d, I) /\ d[l].index = b)
    /\ \A b \in Cache!Home : \A c \in Cache!Mirrors(b) : \A l : l \in Cache!Writers(d, I, bad, c) <=>
                                     (l \in Cache!Dirty(d, I) /\ d[l].index = b /\ c \notin bad)
    /\ \A l \in Cache!Dirty(d, I) : l \in I /\ l \in Cache!Slots /\ d[l].present /\ d[l].dirty
                                       /\ d[l].index \in Cache!Home

\* The slots I that are dirty and hold the block write it.
LEMMA WritersAre ==
  ASSUME NEW d, Single(d), NEW I, I \subseteq Cache!Slots, NEW bad
  PROVE  WritersKnown(d, I, bad)
  <1>1. \A l \in Cache!Dirty(d, I) : l \in I /\ l \in Cache!Slots /\ d[l].present /\ d[l].dirty
                                        /\ d[l].index \in Cache!Home
    BY DEF Cache!Dirty, Single
  <1>2. ASSUME NEW b \in Cache!Home
        PROVE  \A l : l \in Cache!Writers(d, I, bad, b) <=> (l \in Cache!Dirty(d, I) /\ d[l].index = b)
    BY HomeFacts DEF Cache!Writers
  <1>3. ASSUME NEW b \in Cache!Home, NEW c \in Cache!Mirrors(b)
        PROVE  \A l : l \in Cache!Writers(d, I, bad, c) <=>
                    (l \in Cache!Dirty(d, I) /\ d[l].index = b /\ c \notin bad)
    <2>1. \A l \in Cache!Dirty(d, I) : d[l].index # c
      BY <1>1, HomeFacts
    <2>2. \A l \in Cache!Dirty(d, I) : (c \in Cache!Mirrors(d[l].index)) <=> (d[l].index = b)
      BY MirrorFacts
    <2> QED
      BY <2>1, <2>2 DEF Cache!Writers
  <1> QED
    BY <1>1, <1>2, <1>3 DEF WritersKnown

\* Slots I are written back: the memory stays as it is.
WrittenBack(v, d, I, v2, d2, m2) ==
    /\ Sound(v2, d2) /\ Follow(v2, m2) /\ Cache!Mem(v2, d2) = Cache!Mem(v, d)
    /\ Lags(v, v2, Cache!Mem(v, d))
    /\ \A l \in Cache!Slots : /\ d2[l].present = d[l].present /\ d2[l].index = d[l].index
                              /\ (l \in I => ~d2[l].dirty)
    /\ \A b \in Cache!Home :
          (\A l \in I : ~(d[l].present /\ d[l].dirty /\ d[l].index = b)) => v2[b] = v[b]

\* Slots I are written back, mirror writes to bad fail.
LEMMA FlushSound ==
  ASSUME NEW v, NEW d, NEW m, Sound(v, d), Follow(v, m), NEW I, I \subseteq Cache!Slots, NEW bad,
         NEW v2, v2 = [b \in Cache!Blocks |-> IF Cache!Writers(d, I, bad, b) = {} THEN v[b]
                                              ELSE d[Cache!Min(Cache!Writers(d, I, bad, b))].data],
         NEW d2, d2 = [l \in Cache!Slots |-> IF l \in I THEN [d[l] EXCEPT !.dirty = FALSE] ELSE d[l]],
         NEW m2, m2 = (m \ Cache!Copies(d, I)) \cup (bad \cap Cache!Copies(d, I))
  PROVE  WrittenBack(v, d, I, v2, d2, m2)
  <1>0. Single(d) /\ Clean(v, d) /\ Shaped(v, d) /\ Cache!Slots \subseteq Nat
    BY CacheAssumption DEF Sound, Cache!Slots, CacheAssumption
  <1>15. WritersKnown(d, I, bad)
    BY <1>0, WritersAre
  <1>1. \A l \in Cache!Slots : /\ d2[l] \in SlotRec
                               /\ (d2[l].present <=> d[l].present) /\ d2[l].present = d[l].present
                               /\ d2[l].index = d[l].index
                               /\ d2[l].data = d[l].data /\ (l \in I => ~d2[l].dirty)
                               /\ (l \notin I => d2[l] = d[l])
    <2>1. \A l \in Cache!Slots : d[l] \in SlotRec
      BY <1>0 DEF Shaped
    <2>2. ASSUME NEW l \in Cache!Slots, l \in I
          PROVE  /\ d2[l] \in SlotRec /\ (d2[l].present <=> d[l].present) /\ d2[l].present = d[l].present
                 /\ d2[l].index = d[l].index /\ d2[l].data = d[l].data /\ ~d2[l].dirty
      <3>1. d2[l] = [d[l] EXCEPT !.dirty = FALSE] /\ d[l] \in SlotRec
        BY <2>1, <2>2
      <3> QED
        BY <3>1 DEF SlotRec
    <2>3. ASSUME NEW l \in Cache!Slots, l \notin I PROVE d2[l] = d[l]
      BY <2>3
    <2> QED
      BY <2>1, <2>2, <2>3
  <1>2. \A l \in Cache!Dirty(d, I) : l \in I /\ l \in Cache!Slots /\ d[l].present /\ d[l].dirty
                                        /\ d[l].index \in Cache!Home
    BY <1>15 DEF WritersKnown
  <1>14. \A b \in Cache!Home : \A j : j \in Cache!Writers(d, I, bad, b) <=>
                                      (j \in Cache!Dirty(d, I) /\ d[j].index = b)
    BY <1>15 DEF WritersKnown
  <1>3. ASSUME NEW l \in Cache!Dirty(d, I)
        PROVE  /\ v2[d[l].index] = d[l].data
               /\ \A c \in Cache!Mirrors(d[l].index) : c \notin bad => v2[c] = d[l].data
    <2>1. PICK b \in Cache!Home : b = d[l].index
      BY <1>2
    <2>2. \A j \in Cache!Dirty(d, I) : d[j].index = b => j = l
      BY <1>0, <1>2, <2>1 DEF Single
    <2>3. ASSUME NEW W, l \in W, \A j \in W : j = l
          PROVE  W # {} /\ Cache!Min(W) = l
      <3>1. W \subseteq Nat
        BY <1>0, <1>2, <2>3
      <3> QED
        BY <2>3, <3>1, MinIn
    <2>4. /\ b \in Cache!Blocks /\ l \in Cache!Writers(d, I, bad, b)
          /\ \A j \in Cache!Writers(d, I, bad, b) : j = l
      <3>1. \A j : j \in Cache!Writers(d, I, bad, b) <=> (j \in Cache!Dirty(d, I) /\ d[j].index = b)
        BY <1>14
      <3> QED
        BY <2>1, <2>2, <3>1, HomeFacts
    <2>5. v2[b] = d[l].data
      <3>1. Cache!Writers(d, I, bad, b) # {} /\ Cache!Min(Cache!Writers(d, I, bad, b)) = l
        BY <2>3, <2>4
      <3> QED
        BY <2>4, <3>1
    <2>6. ASSUME NEW c \in Cache!Mirrors(b), c \notin bad PROVE v2[c] = d[l].data
      <3>1. /\ c \in Cache!Blocks /\ l \in Cache!Writers(d, I, bad, c)
            /\ \A j \in Cache!Writers(d, I, bad, c) : j = l
        BY <1>15, <2>1, <2>2, <2>6, MirrorFacts DEF WritersKnown
      <3>2. Cache!Writers(d, I, bad, c) # {} /\ Cache!Min(Cache!Writers(d, I, bad, c)) = l
        BY <2>3, <3>1
      <3> QED
        BY <3>1, <3>2
    <2> QED
      BY <2>1, <2>5, <2>6
  <1>4. ASSUME NEW b \in Cache!Home, \A l \in Cache!Dirty(d, I) : d[l].index # b
        PROVE  v2[b] = v[b] /\ \A c \in Cache!Mirrors(b) : v2[c] = v[c] /\ c \notin Cache!Copies(d, I)
    <2>1. Cache!Writers(d, I, bad, b) = {} /\ b \in Cache!Blocks
      <3>1. \A j : j \in Cache!Writers(d, I, bad, b) <=> (j \in Cache!Dirty(d, I) /\ d[j].index = b)
        BY <1>14
      <3> QED
        BY <1>4, <3>1, HomeFacts
    <2>2. ASSUME NEW c \in Cache!Mirrors(b)
          PROVE  v2[c] = v[c] /\ c \notin Cache!Copies(d, I)
      <3>1. Cache!Writers(d, I, bad, c) = {} /\ c \in Cache!Blocks
        BY <1>15, <1>4, MirrorFacts DEF WritersKnown
      <3>2. c \notin Cache!Copies(d, I)
        BY <1>4, MirrorFacts DEF Cache!Copies
      <3> QED
        BY <3>1, <3>2
    <2> QED
      BY <2>1, <2>2
  <1>5. Single(d2)
    BY <1>0, <1>1 DEF Single
  <1>6. v2 \in [Cache!Blocks -> CacheValues]
    <2>1. ASSUME NEW b \in Cache!Blocks PROVE v2[b] \in CacheValues
      <3>1. CASE Cache!Writers(d, I, bad, b) = {}
        BY <1>0, <3>1 DEF Shaped
      <3>2. CASE Cache!Writers(d, I, bad, b) # {}
        <4>1. Cache!Writers(d, I, bad, b) \subseteq Cache!Slots
          BY <1>2 DEF Cache!Writers
        <4>2. Cache!Min(Cache!Writers(d, I, bad, b)) \in Cache!Slots
          BY <1>0, <3>2, <4>1, MinIn
        <4> QED
          BY <1>0, <3>2, <4>2 DEF Shaped, SlotRec
      <3> QED
        BY <3>1, <3>2
    <2> QED
      BY <2>1
  <1>7. Clean(v2, d2)
    <2> SUFFICES ASSUME NEW l \in Cache!Slots, d2[l].present, ~d2[l].dirty
                 PROVE  d2[l].data = v2[d2[l].index]
      BY DEF Clean
    <2>1. CASE l \in Cache!Dirty(d, I)
      <3>1. v2[d[l].index] = d[l].data
        BY <1>3, <2>1
      <3>2. d2[l].index = d[l].index /\ d2[l].data = d[l].data
        BY <1>1
      <3> QED
        BY <3>1, <3>2
    <2>2. CASE l \notin Cache!Dirty(d, I)
      <3>1. d[l].present /\ d[l].index \in Cache!Home
        BY <1>0, <1>1 DEF Single
      <3>2. ~d[l].dirty
        BY <1>1, <2>2, <3>1 DEF Cache!Dirty
      <3>3. d[l].data = v[d[l].index]
        BY <1>0, <3>1, <3>2 DEF Clean
      <3>4. \A j \in Cache!Dirty(d, I) : d[j].index # d[l].index
        BY <1>0, <1>2, <2>2, <3>1 DEF Single
      <3>5. v2[d[l].index] = v[d[l].index]
        BY <1>4, <3>1, <3>4
      <3> QED
        BY <1>1, <3>3, <3>5
    <2> QED
      BY <2>1, <2>2
  <1>8. Follow(v2, m2)
    <2>1. m2 \subseteq Cache!AllMirrors
      <3>1. Cache!Copies(d, I) \subseteq Cache!AllMirrors
        BY <1>2, HomeFacts DEF Cache!Copies, Cache!AllMirrors
      <3> QED
        BY <3>1 DEF Follow
    <2>2. ASSUME NEW b \in Cache!Blocks, NEW c \in Cache!Mirrors(b)
          PROVE  c \in m2 \/ v2[c] = v2[b]
      <3>1. b \in Cache!Home
        BY MirrorFacts DEF Cache!Home
      <3>2. CASE \E l \in Cache!Dirty(d, I) : d[l].index = b
        <4>1. PICK l \in Cache!Dirty(d, I) : d[l].index = b
          BY <3>2
        <4>2. c \in Cache!Copies(d, I)
          BY <4>1 DEF Cache!Copies
        <4>3. CASE c \in bad
          BY <4>2, <4>3
        <4>4. CASE c \notin bad
          BY <1>3, <4>1, <4>4
        <4> QED
          BY <4>3, <4>4
      <3>3. CASE \A l \in Cache!Dirty(d, I) : d[l].index # b
        <4>1. v2[b] = v[b] /\ v2[c] = v[c] /\ c \notin Cache!Copies(d, I)
          BY <1>4, <3>1, <3>3
        <4>2. c \in m \/ v[c] = v[b]
          BY DEF Follow
        <4> QED
          BY <4>1, <4>2
      <3> QED
        BY <3>2, <3>3
    <2> QED
      BY <2>1, <2>2 DEF Follow
  <1>9. \A b \in Cache!Home : Cache!Mem(v2, d2)[b] = Cache!Mem(v, d)[b]
    <2> TAKE b \in Cache!Home
    <2>1. CASE \E l \in Cache!Slots : d[l].present /\ d[l].index = b
      <3>1. PICK l \in Cache!Slots : d[l].present /\ d[l].index = b
        BY <2>1
      <3>2. Cache!Mem(v, d)[b] = d[l].data
        BY <1>0, <3>1, MemAt
      <3>3. d2[l].present /\ d2[l].index = b /\ l \in Cache!Slots
        BY <1>1, <3>1
      <3>4. Cache!Mem(v2, d2)[b] = d2[l].data
        BY ONLY <1>5, <3>3, MemAt
      <3> QED
        BY <1>1, <3>2, <3>4
    <2>2. CASE \A l \in Cache!Slots : d[l].present => d[l].index # b
      <3>1. Cache!Mem(v, d)[b] = v[b]
        BY <1>0, <2>2, MemAt
      <3>2. \A l \in Cache!Slots : d2[l].present => d2[l].index # b
        BY <1>1, <2>2
      <3>3. Cache!Mem(v2, d2)[b] = v2[b]
        <4>1. b \in Cache!Home
          OBVIOUS
        <4> QED
          BY ONLY <1>5, <3>2, <4>1, MemAt
      <3>4. v2[b] = v[b]
        BY <1>2, <1>4, <2>2
      <3> QED
        BY <3>1, <3>3, <3>4
    <2> QED
      BY <2>1, <2>2
  <1>10. \A b \in Cache!Home : (\A l \in I : ~(d[l].present /\ d[l].dirty /\ d[l].index = b)) => v2[b] = v[b]
    BY <1>2, <1>4
  <1>11. Lags(v, v2, Cache!Mem(v, d))
    <2> SUFFICES ASSUME NEW b \in Cache!Home
                 PROVE  v2[b] = v[b] \/ v2[b] = Cache!Mem(v, d)[b]
      BY DEF Lags
    <2>1. CASE \E l \in Cache!Dirty(d, I) : d[l].index = b
      <3>1. PICK l \in Cache!Dirty(d, I) : d[l].index = b
        BY <2>1
      <3>2. Cache!Mem(v, d)[b] = d[l].data
        BY <1>0, <1>2, <3>1, MemAt
      <3> QED
        BY <1>3, <3>1, <3>2
    <2>2. CASE \A l \in Cache!Dirty(d, I) : d[l].index # b
      BY <1>4, <2>2
    <2> QED
      BY <2>1, <2>2
  <1>12. Cache!Mem(v2, d2) = Cache!Mem(v, d)
    BY <1>9, MemSame
  <1>13. Sound(v2, d2)
    <2>1. d2 \in [Cache!Slots -> SlotRec]
      BY <1>1
    <2> QED
      BY <1>5, <1>6, <1>7, <2>1 DEF Sound, Shaped
  <1> QED
    BY <1>1, <1>8, <1>10, <1>11, <1>12, <1>13 DEF WrittenBack

-----------------------------------------------------------------------------
(* The state of the cache as a record, and what a call makes of it.        *)

CState == [ok : BOOLEAN, dev : [Cache!Blocks -> CacheValues], desc : [Cache!Slots -> SlotRec],
           order : [1 .. CacheSlots -> Cache!Slots], missed : SUBSET Cache!AllMirrors,
           slot : Cache!Slots]

Good(s) == s \in CState /\ Sound(s.dev, s.desc) /\ Follow(s.dev, s.missed)

\* The cache in state f has the memory of s, above a device that has got
\* some of it.
After(s, f) ==
    /\ Good(f) /\ Cache!Mem(f.dev, f.desc) = Cache!Mem(s.dev, s.desc)
    /\ Lags(s.dev, f.dev, Cache!Mem(s.dev, s.desc))

\* A call that fails.
LEMMA FailedIs ==
  ASSUME NEW s, Good(s), NEW f, f = Cache!Failed(s)
  PROVE  /\ After(s, f) /\ ~f.ok
         /\ f.dev = s.dev /\ f.desc = s.desc /\ f.order = s.order /\ f.missed = s.missed
  <1>1. f = [s EXCEPT !.ok = FALSE] /\ s \in CState
    BY DEF Cache!Failed, Good
  <1>2. /\ f \in CState /\ ~f.ok /\ f.dev = s.dev /\ f.desc = s.desc
        /\ f.order = s.order /\ f.missed = s.missed
    BY <1>1 DEF CState
  <1>3. Good(f)
    BY <1>2 DEF Good
  <1> QED
    BY <1>2, <1>3 DEF After, Lags

\* Writing back is no change of the memory.
LEMMA FlushedIs ==
  ASSUME NEW s, Good(s), NEW I, I \subseteq Cache!Slots, NEW bad, NEW f, f = Cache!Flushed(s, I, bad)
  PROVE  /\ After(s, f) /\ f.ok = s.ok /\ f.order = s.order
         /\ WrittenBack(s.dev, s.desc, I, f.dev, f.desc, f.missed)
  <1>1. PICK v : v = s.dev
    OBVIOUS
  <1>2. PICK d : d = s.desc
    OBVIOUS
  <1>3. PICK m : m = s.missed
    OBVIOUS
  <1>4. PICK v2 : v2 = [b \in Cache!Blocks |-> IF Cache!Writers(d, I, bad, b) = {} THEN v[b]
                                              ELSE d[Cache!Min(Cache!Writers(d, I, bad, b))].data]
    OBVIOUS
  <1>5. PICK d2 : d2 = [l \in Cache!Slots |-> IF l \in I THEN [d[l] EXCEPT !.dirty = FALSE] ELSE d[l]]
    OBVIOUS
  <1>6. PICK m2 : m2 = (m \ Cache!Copies(d, I)) \cup (bad \cap Cache!Copies(d, I))
    OBVIOUS
  <1>7. f = [s EXCEPT !.dev = v2, !.desc = d2, !.missed = m2]
    BY <1>1, <1>2, <1>3, <1>4, <1>5, <1>6 DEF Cache!Flushed
  <1>8. s \in CState /\ Sound(v, d) /\ Follow(v, m) /\ I \subseteq Cache!Slots
    BY <1>1, <1>2, <1>3 DEF Good
  <1>9. WrittenBack(v, d, I, v2, d2, m2)
    BY ONLY <1>4, <1>5, <1>6, <1>8, FlushSound
  <1>10. /\ f.dev = v2 /\ f.desc = d2 /\ f.missed = m2 /\ f.ok = s.ok /\ f.order = s.order /\ f.slot = s.slot
         /\ f = [ok |-> s.ok, dev |-> v2, desc |-> d2, order |-> s.order, missed |-> m2, slot |-> s.slot]
    BY <1>7, <1>8 DEF CState
  <1>11. f \in CState
    BY <1>8, <1>9, <1>10 DEF CState, Sound, Shaped, Follow, WrittenBack
  <1>12. After(s, f)
    BY <1>1, <1>2, <1>9, <1>10, <1>11 DEF After, Good, WrittenBack
  <1> QED
    BY <1>1, <1>2, <1>3, <1>9, <1>10, <1>12

\* cache_flush of one slot.
LEMMA FlushIs ==
  ASSUME NEW s, Good(s), s.ok, NEW l \in Cache!Slots, NEW f \in Cache!cache_flush(s, l)
  PROVE  /\ After(s, f) /\ f.order = s.order
         /\ f.ok /\ f.desc[l].present => ~f.desc[l].dirty
         /\ \A j \in Cache!Slots : f.desc[j].present = s.desc[j].present /\ f.desc[j].index = s.desc[j].index
         /\ \A b \in Cache!Home : ~(s.desc[l].present /\ s.desc[l].index = b) => f.dev[b] = s.dev[b]
  <1>1. CASE ~(s.desc[l].dirty /\ s.desc[l].present)
    <2>1. f = s
      BY <1>1 DEF Cache!cache_flush
    <2>2. After(s, s)
      BY DEF After, Lags
    <2> QED
      BY <1>1, <2>1, <2>2
  <1>2. CASE s.desc[l].dirty /\ s.desc[l].present
    <2>1. f = Cache!Failed(s) \/ \E bad : f = Cache!Flushed(s, {l}, bad)
      BY <1>2 DEF Cache!cache_flush
    <2>2. CASE f = Cache!Failed(s)
      BY <2>2, FailedIs
    <2>3. CASE \E bad : f = Cache!Flushed(s, {l}, bad)
      <3>1. PICK bad : f = Cache!Flushed(s, {l}, bad)
        BY <2>3
      <3>2. {l} \subseteq Cache!Slots
        OBVIOUS
      <3>3. After(s, f) /\ f.order = s.order /\ WrittenBack(s.dev, s.desc, {l}, f.dev, f.desc, f.missed)
        BY <3>1, <3>2, FlushedIs
      <3> QED
        BY <3>3 DEF WrittenBack
    <2> QED
      BY <2>1, <2>2, <2>3
  <1> QED
    BY <1>1, <1>2

\* The slot used last.
LEMMA TouchedIs ==
  ASSUME NEW s \in CState, NEW l \in Cache!Slots, NEW f, f = Cache!Touched(s, l)
  PROVE  /\ f \in CState /\ f.ok = s.ok /\ f.dev = s.dev /\ f.desc = s.desc /\ f.missed = s.missed
         /\ f.slot = l
  <1>1. PICK o : o = Cache!Newest(s.order, l)
    OBVIOUS
  <1>2. o \in [1 .. CacheSlots -> Cache!Slots]
    <2>1. PICK p : p = CHOOSE q \in 1 .. CacheSlots : s.order[q] = l
      OBVIOUS
    <2>2. o = [k \in 1 .. CacheSlots |-> IF k < p THEN s.order[k] ELSE IF k = CacheSlots THEN l ELSE s.order[k + 1]]
      BY <1>1, <2>1 DEF Cache!Newest
    <2>3. s.order \in [1 .. CacheSlots -> Cache!Slots]
      BY DEF CState
    <2>4. \A k \in 1 .. CacheSlots : k # CacheSlots => k + 1 \in 1 .. CacheSlots
      <3>1. CacheSlots \in Nat
        BY CacheAssumption DEF CacheAssumption
      <3> QED
        BY ONLY <3>1
    <2>5. ASSUME NEW k \in 1 .. CacheSlots PROVE o[k] \in Cache!Slots
      <3>1. s.order[k] \in Cache!Slots /\ (k # CacheSlots => s.order[k + 1] \in Cache!Slots)
        BY <2>3, <2>4
      <3>2. o[k] = s.order[k] \/ o[k] = l \/ (k # CacheSlots /\ o[k] = s.order[k + 1])
        BY <2>2
      <3> QED
        BY <3>1, <3>2
    <2>6. o = [k \in 1 .. CacheSlots |-> o[k]]
      BY <2>2
    <2> QED
      BY <2>5, <2>6
  <1>3. f = [s EXCEPT !.order = o, !.slot = l]
    BY <1>1 DEF Cache!Touched
  <1>4. f = [ok |-> s.ok, dev |-> s.dev, desc |-> s.desc, order |-> o, missed |-> s.missed, slot |-> l]
    BY <1>3 DEF CState
  <1> QED
    BY <1>2, <1>4 DEF CState

\* A block that is read into a slot.
InSlot(s, f, l, b, v) ==
    /\ f \in CState /\ f.ok = s.ok /\ f.dev = s.dev /\ f.missed = s.missed /\ f.slot = l
    /\ \A j \in Cache!Slots : j # l => f.desc[j] = s.desc[j]
    /\ f.desc[l].present /\ ~f.desc[l].dirty /\ f.desc[l].index = b /\ f.desc[l].data = v

\* Filled does that.
LEMMA FilledIs ==
  ASSUME NEW s \in CState, NEW l \in Cache!Slots, NEW b \in Cache!Blocks, NEW v \in CacheValues,
         NEW f, f = Cache!Filled(s, l, b, v)
  PROVE  InSlot(s, f, l, b, v)
  <1>1. PICK e : e = [present |-> TRUE, dirty |-> FALSE, index |-> b, data |-> v]
    OBVIOUS
  <1>2. e \in SlotRec /\ e.present /\ ~e.dirty /\ e.index = b /\ e.data = v
    BY <1>1 DEF SlotRec
  <1>3. PICK d2 : d2 = [s.desc EXCEPT ![l] = e]
    OBVIOUS
  <1>4. s.desc \in [Cache!Slots -> SlotRec]
    BY DEF CState
  <1>5. d2 \in [Cache!Slots -> SlotRec] /\ d2[l] = e /\ \A j \in Cache!Slots : j # l => d2[j] = s.desc[j]
    BY <1>2, <1>3, <1>4
  <1>6. PICK g : g = [s EXCEPT !.desc = d2]
    OBVIOUS
  <1>7. g = [ok |-> s.ok, dev |-> s.dev, desc |-> d2, order |-> s.order, missed |-> s.missed, slot |-> s.slot]
    BY <1>6 DEF CState
  <1>8. g \in CState /\ g.desc = d2 /\ g.ok = s.ok /\ g.dev = s.dev /\ g.missed = s.missed
    BY <1>5, <1>7 DEF CState
  <1>9. f = Cache!Touched(g, l)
    <2>1. [s EXCEPT !.desc[l] = e] = [s EXCEPT !.desc = d2]
      BY <1>3
    <2> QED
      BY <1>1, <1>6, <2>1 DEF Cache!Filled
  <1>10. /\ f \in CState /\ f.ok = g.ok /\ f.dev = g.dev /\ f.desc = g.desc /\ f.missed = g.missed
         /\ f.slot = l
    BY <1>8, <1>9, TouchedIs
  <1> QED
    BY <1>2, <1>5, <1>8, <1>10 DEF InSlot

\* Slots that are dropped.
LEMMA DroppedIs ==
  ASSUME NEW s \in CState, NEW I, NEW f, f = Cache!Dropped(s, I)
  PROVE  /\ f \in CState /\ f.ok = s.ok /\ f.dev = s.dev /\ f.missed = s.missed /\ f.order = s.order
         /\ \A j \in Cache!Slots : (j \in I => ~f.desc[j].present) /\ (j \notin I => f.desc[j] = s.desc[j])
  <1>1. Cache!NoSlot \in SlotRec /\ ~Cache!NoSlot.present
    BY HomeFacts, CacheAssumption DEF Cache!NoSlot, SlotRec, CacheAssumption
  <1>2. PICK d2 : d2 = [l \in Cache!Slots |-> IF l \in I THEN Cache!NoSlot ELSE s.desc[l]]
    OBVIOUS
  <1>3. s.desc \in [Cache!Slots -> SlotRec]
    BY DEF CState
  <1>4. /\ d2 \in [Cache!Slots -> SlotRec]
        /\ \A j \in Cache!Slots : (j \in I => d2[j] = Cache!NoSlot) /\ (j \notin I => d2[j] = s.desc[j])
    BY <1>1, <1>2, <1>3
  <1>5. f = [s EXCEPT !.desc = d2]
    BY <1>2 DEF Cache!Dropped
  <1>6. f = [ok |-> s.ok, dev |-> s.dev, desc |-> d2, order |-> s.order, missed |-> s.missed, slot |-> s.slot]
    BY <1>5 DEF CState
  <1> QED
    BY <1>1, <1>4, <1>6 DEF CState

\* A block is open in slot r.slot: as a state f with the old memory, but for
\* what the slot has, which is the block unless reading it was skipped.
Opens(s, f, r, b, skip) ==
    /\ After(s, f) /\ r.dev = f.dev /\ r.missed = f.missed /\ r.slot \in Cache!Slots
    /\ Ready(f.desc, r.slot, b)
    /\ \A j \in Cache!Slots : j # r.slot => r.desc[j] = f.desc[j]
    /\ r.desc[r.slot].present /\ r.desc[r.slot].index = b
    /\ ~skip => /\ r.desc[r.slot].dirty \/ r.desc[r.slot].data = r.dev[b]
                /\ r.desc[r.slot].data = Cache!Mem(s.dev, s.desc)[b]

\* ufat_cache_open: the block is in the cache, or it gets the slot of
\* another one, which is written back first; both can fail.
LEMMA OpenIs ==
  ASSUME NEW s, Good(s), s.ok, NEW b \in Cache!Home, NEW skip \in BOOLEAN,
         NEW r \in Cache!ufat_cache_open(s, b, skip)
  PROVE  /\ r \in CState
         /\ ~r.ok => After(s, r)
         /\ r.ok => \E f : Opens(s, f, r, b, skip)
  <1>0. /\ s \in CState /\ Sound(s.dev, s.desc) /\ Single(s.desc) /\ Clean(s.dev, s.desc)
        /\ Cache!Slots \subseteq Nat /\ After(s, s) /\ b \in Cache!Blocks
    BY HomeFacts, CacheAssumption DEF Good, Sound, After, Lags, Cache!Slots, CacheAssumption
  <1>3. s \in CState /\ b \in Cache!Blocks
    BY <1>0
  <1>4. Single(s.desc)
    BY <1>0
  <1>1. CASE Cache!Holds(s, b) # {}
    <2>1. PICK l : l = Cache!Min(Cache!Holds(s, b))
      OBVIOUS
    <2>2. l \in Cache!Slots /\ s.desc[l].present /\ s.desc[l].index = b
      <3>1. Cache!Holds(s, b) \subseteq Nat
        BY <1>0 DEF Cache!Holds, Cache!Cached
      <3>2. l \in Cache!Holds(s, b)
        BY <1>1, <2>1, <3>1, MinIn
      <3> QED
        BY <3>2 DEF Cache!Holds, Cache!Cached
    <2>3. r = Cache!Touched(s, l)
      BY <1>1, <2>1 DEF Cache!ufat_cache_open
    <2>4. /\ r \in CState /\ r.ok = s.ok /\ r.dev = s.dev /\ r.desc = s.desc /\ r.missed = s.missed
          /\ r.slot = l
      BY ONLY <1>3, <2>2, <2>3, TouchedIs
    <2>5. s.desc[l].dirty \/ s.desc[l].data = s.dev[b]
      BY <1>0, <2>2 DEF Clean
    <2>6. s.desc[l].data = Cache!Mem(s.dev, s.desc)[b]
      <3>1. Cache!Mem(s.dev, s.desc)[s.desc[l].index] = s.desc[l].data
        BY ONLY <1>4, <2>2, MemAt
      <3> QED
        BY <2>2, <3>1
    <2>7. Ready(s.desc, l, b)
      BY <2>2 DEF Ready
    <2>8. Opens(s, s, r, b, skip)
      BY <1>0, <2>2, <2>4, <2>5, <2>6, <2>7 DEF Opens
    <2> QED
      BY <2>4, <2>8
  <1>2. CASE Cache!Holds(s, b) = {}
    <2>1. PICK l : l = Cache!Victim(s)
      OBVIOUS
    <2>2. l \in Cache!Slots
      <3>1. CASE Cache!LastFree(s) # {}
        <4>1. Cache!LastFree(s) \subseteq Cache!Slots
          BY DEF Cache!LastFree
        <4> QED
          BY <2>1, <3>1, <4>1, MaxIn DEF Cache!Victim
      <3>2. CASE Cache!LastFree(s) = {}
        BY <1>0, <2>1, <3>2, CacheAssumption DEF Cache!Victim, CState, CacheAssumption
      <3> QED
        BY <3>1, <3>2
    <2>3. PICK g \in Cache!cache_flush(s, l) :
             r \in IF ~g.ok THEN {g}
                   ELSE IF skip THEN {Cache!Filled(g, l, b, 0)}
                   ELSE {Cache!Filled(g, l, b, g.dev[b]), Cache!Failed([g EXCEPT !.desc[l] = Cache!NoSlot])}
      BY <1>2, <2>1 DEF Cache!ufat_cache_open
    <2>4. /\ After(s, g)
          /\ g.ok /\ g.desc[l].present => ~g.desc[l].dirty
          /\ \A j \in Cache!Slots : g.desc[j].present = s.desc[j].present /\ g.desc[j].index = s.desc[j].index
      BY <2>2, FlushIs
    <2>5. Good(g) /\ g \in CState /\ Sound(g.dev, g.desc) /\ Single(g.desc) /\ Shaped(g.dev, g.desc)
      BY <2>4 DEF After, Good, Sound
    <2>6. \A j \in Cache!Slots : g.desc[j].present => g.desc[j].index # b
      BY <1>2, <2>4 DEF Cache!Holds, Cache!Cached
    <2>7. g.dev[b] \in CacheValues /\ 0 \in CacheValues
      BY <1>0, <2>5, CacheAssumption DEF Shaped, CacheAssumption
    <2>8. Cache!Mem(s.dev, s.desc)[b] = g.dev[b]
      <3>1. Cache!Mem(g.dev, g.desc)[b] = g.dev[b]
        BY <2>5, <2>6, MemAt
      <3> QED
        BY <2>4, <3>1 DEF After
    <2>9. CASE ~g.ok
      BY <2>3, <2>4, <2>5, <2>9
    <2>10. ASSUME g.ok, NEW v \in CacheValues, r = Cache!Filled(g, l, b, v), skip \/ v = g.dev[b]
           PROVE  r \in CState /\ r.ok /\ Opens(s, g, r, b, skip)
      <3>1. /\ r \in CState /\ r.ok = g.ok /\ r.dev = g.dev /\ r.missed = g.missed /\ r.slot = l
            /\ \A j \in Cache!Slots : j # l => r.desc[j] = g.desc[j]
            /\ r.desc[l].present /\ ~r.desc[l].dirty /\ r.desc[l].index = b /\ r.desc[l].data = v
        <4>1. g \in CState
          BY <2>5
        <4>2. v \in CacheValues
          OBVIOUS
        <4>3. r = Cache!Filled(g, l, b, v)
          BY <2>10
        <4>4. InSlot(g, r, l, b, v)
          BY ONLY <1>3, <2>2, <4>1, <4>2, <4>3, FilledIs
        <4> QED
          BY <4>4 DEF InSlot
      <3>2. Ready(g.desc, l, b)
        BY <2>4, <2>6, <2>10 DEF Ready
      <3> QED
        BY <2>2, <2>4, <2>8, <2>10, <3>1, <3>2 DEF Opens
    <2>11. CASE g.ok /\ r = Cache!Failed([g EXCEPT !.desc[l] = Cache!NoSlot])
      <3>1. PICK h : h = Cache!Dropped(g, {l})
        OBVIOUS
      <3>2. [g EXCEPT !.desc[l] = Cache!NoSlot] = h
        <4>1. [g.desc EXCEPT ![l] = Cache!NoSlot] =
                 [j \in Cache!Slots |-> IF j \in {l} THEN Cache!NoSlot ELSE g.desc[j]]
          BY <2>2, <2>5 DEF Shaped
        <4>2. [g EXCEPT !.desc[l] = Cache!NoSlot] = [g EXCEPT !.desc = [g.desc EXCEPT ![l] = Cache!NoSlot]]
          OBVIOUS
        <4> QED
          BY <3>1, <4>1, <4>2 DEF Cache!Dropped
      <3>3. /\ h \in CState /\ h.ok = g.ok /\ h.dev = g.dev /\ h.missed = g.missed
            /\ \A j \in Cache!Slots : (j \in {l} => ~h.desc[j].present) /\ (j \notin {l} => h.desc[j] = g.desc[j])
        BY <2>5, <3>1, DroppedIs
      <3>4. h.desc \in [Cache!Slots -> SlotRec]
        BY <3>3 DEF CState
      <3>5. GivenUp(g.dev, g.desc, {l}, h.desc)
        BY ONLY <2>5, <3>3, <3>4, DropsSound
      <3>6. \A x \in Cache!Home : Cache!Mem(h.dev, h.desc)[x] = Cache!Mem(g.dev, g.desc)[x]
        BY <2>2, <2>4, <2>11, <3>3, <3>5 DEF GivenUp
      <3>7. Cache!Mem(h.dev, h.desc) = Cache!Mem(g.dev, g.desc)
        BY <3>6, MemSame
      <3>8. Good(h)
        BY <2>5, <3>3, <3>5 DEF Good, GivenUp
      <3>9. After(s, h)
        BY <2>4, <3>3, <3>7, <3>8 DEF After
      <3>10. After(h, r) /\ ~r.ok /\ r.dev = h.dev
        BY <2>11, <3>2, <3>8, FailedIs
      <3> QED
        BY <3>9, <3>10 DEF After, Good
    <2> QED
      BY <2>3, <2>7, <2>9, <2>10, <2>11
  <1> QED
    BY <1>1, <1>2

-----------------------------------------------------------------------------
(* The calls of the layers above, each a step of the store.                *)

\* The invariant of the cache.
CacheInv == Sound(dev, desc) /\ Follow(dev, missed) /\ order \in [1 .. CacheSlots -> Cache!Slots]

\* The record of the present state.
LEMMA StateGood ==
  ASSUME CacheInv
  PROVE  /\ Good(Cache!State) /\ Cache!State.ok
         /\ Cache!State.dev = dev /\ Cache!State.desc = desc /\ Cache!State.missed = missed
         /\ Cache!State.order = order
  <1>1. 0 \in Cache!Slots
    BY CacheAssumption DEF CacheAssumption, Cache!Slots
  <1>2. Cache!State = [ok |-> TRUE, dev |-> dev, desc |-> desc, order |-> order, missed |-> missed, slot |-> 0]
    BY DEF Cache!State
  <1>3. Cache!State \in CState
    BY <1>1, <1>2 DEF CState, CacheInv, Sound, Shaped, Follow
  <1> QED
    BY <1>2, <1>3 DEF Good, CacheInv

\* The state that a call leaves.
LEMMA BecomesIs ==
  ASSUME NEW r, Good(r), NEW result, Cache!Becomes(r, result)
  PROVE  CacheInv' /\ dev' = r.dev /\ desc' = r.desc /\ got' = IF r.ok THEN result ELSE <<>>
  <1>1. /\ dev' = r.dev /\ desc' = r.desc /\ order' = r.order /\ missed' = r.missed
        /\ got' = IF r.ok THEN result ELSE <<>>
    BY DEF Cache!Becomes
  <1>2. r.order \in [1 .. CacheSlots -> Cache!Slots] /\ Sound(r.dev, r.desc) /\ Follow(r.dev, r.missed)
    BY DEF Good, CState
  <1> QED
    BY <1>1, <1>2 DEF CacheInv

\* Some blocks reach the disk.
LEMMA Settles ==
  ASSUME Lags(dev, dev', Cache!Mem(dev, desc))
  PROVE  Cache!Abstract!Settle
  <1>1. PICK M : M = Cache!Mem(dev, desc)
    OBVIOUS
  <1>2. \A b \in Cache!Home : dev'[b] = dev[b] \/ dev'[b] = M[b]
    BY <1>1 DEF Lags
  <1>3. PICK S \in SUBSET Cache!Home : \A b \in Cache!Home : (b \in S) <=> (dev'[b] = M[b])
    <2>1. PICK S : S = {b \in Cache!Home : dev'[b] = M[b]}
      OBVIOUS
    <2> QED
      BY <2>1
  <1>4. [b \in Cache!Home |-> dev'[b]] = [b \in Cache!Home |-> IF b \in S THEN M[b] ELSE [x \in Cache!Home |-> dev[x]][b]]
    BY <1>2, <1>3
  <1> QED
    BY <1>1, <1>4 DEF Cache!Abstract!Settle, Cache!Disk

\* A call that fails.
LEMMA Fails ==
  ASSUME CacheInv, NEW r, After(Cache!State, r), ~r.ok, NEW result, Cache!Becomes(r, result)
  PROVE  CacheInv' /\ Cache!Abstract!StoreNext
  <1>1. /\ Good(r) /\ Cache!Mem(r.dev, r.desc) = Cache!Mem(dev, desc)
        /\ Lags(dev, r.dev, Cache!Mem(dev, desc))
    BY StateGood DEF After
  <1>2. CacheInv' /\ dev' = r.dev /\ desc' = r.desc /\ got' = <<>>
    BY <1>1, BecomesIs
  <1>3. Cache!Abstract!Settle
    BY <1>1, <1>2, Settles
  <1>4. Cache!Abstract!Fail
    BY <1>1, <1>2, <1>3 DEF Cache!Abstract!Fail
  <1> QED
    BY <1>2, <1>4 DEF Cache!Abstract!StoreNext

\* A call that reads block b.
LEMMA Gets ==
  ASSUME CacheInv, NEW b \in Cache!Home, NEW r, After(Cache!State, r), r.ok, NEW x,
         x = Cache!Mem(dev, desc)[b], Cache!Becomes(r, <<b, x>>)
  PROVE  CacheInv' /\ Cache!Abstract!StoreNext
  <1>1. /\ Good(r) /\ Cache!Mem(r.dev, r.desc) = Cache!Mem(dev, desc)
        /\ Lags(dev, r.dev, Cache!Mem(dev, desc))
    BY StateGood DEF After
  <1>2. CacheInv' /\ dev' = r.dev /\ desc' = r.desc /\ got' = <<b, x>>
    BY <1>1, BecomesIs
  <1>3. Cache!Abstract!Settle
    BY <1>1, <1>2, Settles
  <1>4. Cache!Abstract!Get(b)
    BY <1>1, <1>2, <1>3 DEF Cache!Abstract!Get
  <1> QED
    BY <1>2, <1>4 DEF Cache!Abstract!StoreNext

\* An open block changes the memory there, to what its slot has.
HasPut(s, r, b, d2) ==
    /\ Sound(r.dev, d2) /\ Follow(r.dev, r.missed)
    /\ Lags(s.dev, r.dev, Cache!Mem(s.dev, s.desc))
    /\ Cache!Mem(r.dev, d2)[b] = d2[r.slot].data
    /\ \A x \in Cache!Home : x # b => Cache!Mem(r.dev, d2)[x] = Cache!Mem(s.dev, s.desc)[x]

\* What an open block makes of the memory.
LEMMA OpenPuts ==
  ASSUME NEW s, NEW f, NEW r, NEW b \in Cache!Home, NEW skip, Opens(s, f, r, b, skip),
         NEW d2 \in [Cache!Slots -> SlotRec], \A j \in Cache!Slots : j # r.slot => d2[j] = r.desc[j],
         d2[r.slot].present, d2[r.slot].index = b, d2[r.slot].dirty \/ d2[r.slot].data = r.dev[b]
  PROVE  HasPut(s, r, b, d2)
  <1>1. PICK l \in Cache!Slots : l = r.slot
    BY DEF Opens
  <1>2. /\ Sound(f.dev, f.desc) /\ Follow(f.dev, f.missed) /\ Cache!Mem(f.dev, f.desc) = Cache!Mem(s.dev, s.desc)
        /\ Lags(s.dev, f.dev, Cache!Mem(s.dev, s.desc)) /\ r.dev = f.dev /\ r.missed = f.missed
    BY DEF Opens, After, Good
  <1>3. Ready(f.desc, l, b) /\ \A j \in Cache!Slots : j # l => d2[j] = f.desc[j]
    BY <1>1 DEF Opens
  <1>4. d2[l].present /\ d2[l].index = b /\ (d2[l].dirty \/ d2[l].data = f.dev[b])
    BY <1>1, <1>2
  <1>5. d2 \in [Cache!Slots -> SlotRec] /\ b \in Cache!Home /\ l \in Cache!Slots
    OBVIOUS
  <1>6. /\ Sound(f.dev, d2) /\ Cache!Mem(f.dev, d2)[b] = d2[l].data
        /\ \A x \in Cache!Home : x # b => Cache!Mem(f.dev, d2)[x] = Cache!Mem(f.dev, f.desc)[x]
    BY ONLY <1>2, <1>3, <1>4, <1>5, PutsSound
  <1> QED
    BY <1>1, <1>2, <1>6 DEF HasPut

\* Opening a block to read it.
LEMMA OpenReads ==
  ASSUME NEW s, Good(s), s.ok, NEW b \in Cache!Home, NEW r \in Cache!ufat_cache_open(s, b, FALSE)
  PROVE  After(s, r) /\ (r.ok => r.desc[r.slot].data = Cache!Mem(s.dev, s.desc)[b])
  <1>3. /\ r \in CState /\ (~r.ok => After(s, r))
        /\ r.ok => \E f : Opens(s, f, r, b, FALSE)
    BY OpenIs
  <1>4. CASE ~r.ok
    BY <1>3, <1>4
  <1>5. CASE r.ok
    <2>1. PICK f : Opens(s, f, r, b, FALSE)
      BY <1>3, <1>5
    <2>2. PICK d2 \in [Cache!Slots -> SlotRec] : d2 = r.desc
      BY <1>3 DEF CState
    <2>3. /\ d2[r.slot].present /\ d2[r.slot].index = b /\ (d2[r.slot].dirty \/ d2[r.slot].data = r.dev[b])
          /\ d2[r.slot].data = Cache!Mem(s.dev, s.desc)[b]
          /\ \A j \in Cache!Slots : j # r.slot => d2[j] = r.desc[j]
      BY <2>1, <2>2 DEF Opens
    <2>4. HasPut(s, r, b, d2)
      BY <2>1, <2>3, OpenPuts
    <2>5. \A x \in Cache!Home : Cache!Mem(r.dev, d2)[x] = Cache!Mem(s.dev, s.desc)[x]
      BY <2>3, <2>4 DEF HasPut
    <2>6. Cache!Mem(r.dev, d2) = Cache!Mem(s.dev, s.desc)
      BY <2>5, MemSame
    <2>7. After(s, r)
      BY <1>3, <2>2, <2>4, <2>6 DEF After, Good, HasPut
    <2> QED
      BY <2>2, <2>3, <2>7
  <1> QED
    BY <1>4, <1>5

\* Reading a block.
LEMMA ReadSteps ==
  ASSUME CacheInv, NEW b \in Cache!Home, Cache!ReadBlock(b)
  PROVE  CacheInv' /\ Cache!Abstract!StoreNext
  <1>0. PICK s : s = Cache!State
    OBVIOUS
  <1>1. Good(s) /\ s.ok /\ s.dev = dev /\ s.desc = desc
    BY <1>0, StateGood
  <1>2. PICK r \in Cache!ufat_cache_open(s, b, FALSE) : Cache!Becomes(r, <<b, r.desc[r.slot].data>>)
    BY <1>0 DEF Cache!ReadBlock
  <1>3. After(s, r) /\ (r.ok => r.desc[r.slot].data = Cache!Mem(s.dev, s.desc)[b])
    BY <1>1, <1>2, OpenReads
  <1>4. CASE ~r.ok
    BY <1>0, <1>2, <1>3, <1>4, Fails
  <1>5. CASE r.ok
    <2>1. PICK x : x = r.desc[r.slot].data
      OBVIOUS
    <2>2. x = Cache!Mem(dev, desc)[b] /\ Cache!Becomes(r, <<b, x>>)
      BY <1>1, <1>2, <1>3, <1>5, <2>1
    <2> QED
      BY <1>0, <1>3, <1>5, <2>2, Gets
  <1> QED
    BY <1>4, <1>5

\* Opening a block and changing it.
LEMMA ChangeSteps ==
  ASSUME CacheInv, NEW b \in Cache!Home, NEW v \in CacheValues, NEW skip \in BOOLEAN,
         \E r \in Cache!ufat_cache_open(Cache!State, b, skip) : Cache!Becomes(Cache!Modified(r, v), <<>>)
  PROVE  CacheInv' /\ Cache!Abstract!StoreNext
  <1>0. PICK s : s = Cache!State
    OBVIOUS
  <1>1. Good(s) /\ s.ok /\ s.dev = dev /\ s.desc = desc
    BY <1>0, StateGood
  <1>2. PICK r \in Cache!ufat_cache_open(s, b, skip) : Cache!Becomes(Cache!Modified(r, v), <<>>)
    BY <1>0
  <1>3. /\ r \in CState /\ (~r.ok => After(s, r))
        /\ r.ok => \E f : Opens(s, f, r, b, skip)
    BY <1>1, <1>2, OpenIs
  <1>4. CASE ~r.ok
    <2>1. Cache!Modified(r, v) = r
      BY <1>4 DEF Cache!Modified
    <2>2. Cache!Becomes(r, <<>>)
      BY <1>2, <2>1
    <2> QED
      BY <1>0, <1>3, <1>4, <2>2, Fails
  <1>5. CASE r.ok
    <2>1. PICK f : Opens(s, f, r, b, skip)
      BY <1>3, <1>5
    <2>2. PICK l \in Cache!Slots : l = r.slot
      BY <2>1 DEF Opens
    <2>3. PICK e : e = [present |-> r.desc[l].present, dirty |-> TRUE, index |-> r.desc[l].index, data |-> v]
      OBVIOUS
    <2>4. PICK d2 : d2 = [r.desc EXCEPT ![l] = e]
      OBVIOUS
    <2>5. r.desc \in [Cache!Slots -> SlotRec] /\ r.desc[l] \in SlotRec
      BY <1>3, <2>2 DEF CState
    <2>6. e \in SlotRec /\ e.present = r.desc[l].present /\ e.dirty /\ e.index = r.desc[l].index /\ e.data = v
      BY <2>3, <2>5 DEF SlotRec
    <2>7. d2 \in [Cache!Slots -> SlotRec] /\ d2[l] = e /\ \A j \in Cache!Slots : j # l => d2[j] = r.desc[j]
      BY <2>4, <2>5, <2>6
    <2>8. PICK q : q = [ok |-> r.ok, dev |-> r.dev, desc |-> d2, order |-> r.order, missed |-> r.missed, slot |-> r.slot]
      OBVIOUS
    <2>9. Cache!Modified(r, v) = q
      <3>1. Cache!Modified(r, v) = [r EXCEPT !.desc[r.slot].dirty = TRUE, !.desc[r.slot].data = v]
        BY <1>5 DEF Cache!Modified
      <3>2. PICK d1 : d1 = [r.desc EXCEPT ![l].dirty = TRUE]
        OBVIOUS
      <3>3. PICK q1 : q1 = [r EXCEPT !.desc = d1]
        OBVIOUS
      <3>4. Cache!Modified(r, v) = [q1 EXCEPT !.desc = [d1 EXCEPT ![l].data = v]]
        BY <1>3, <2>2, <3>1, <3>2, <3>3 DEF CState
      <3>5. [d1 EXCEPT ![l].data = v] = d2
        <4>1. PICK a : a = [r.desc[l] EXCEPT !.dirty = TRUE]
          OBVIOUS
        <4>2. d1 = [r.desc EXCEPT ![l] = a]
          BY <3>2, <4>1
        <4>3. [a EXCEPT !.data = v] = e
          <5>1. PICK z \in SlotRec : z = r.desc[l]
            BY <2>5
          <5>2. a = [present |-> z.present, dirty |-> TRUE, index |-> z.index, data |-> z.data]
            BY <4>1, <5>1 DEF SlotRec
          <5>3. a \in SlotRec /\ a.present = z.present /\ a.dirty = TRUE /\ a.index = z.index
            BY <5>1, <5>2 DEF SlotRec
          <5>4. [a EXCEPT !.data = v] = [present |-> a.present, dirty |-> a.dirty, index |-> a.index, data |-> v]
            BY <5>3 DEF SlotRec
          <5> QED
            BY <2>3, <5>1, <5>3, <5>4
        <4>4. d1[l] = a
          BY <2>5, <4>2
        <4>5. [d1 EXCEPT ![l].data = v] = [d1 EXCEPT ![l] = [d1[l] EXCEPT !.data = v]]
          OBVIOUS
        <4>6. [d1 EXCEPT ![l].data = v] = [d1 EXCEPT ![l] = e]
          BY <4>3, <4>4, <4>5
        <4>7. [d1 EXCEPT ![l] = e] = d2
          BY <2>4, <2>5, <4>2
        <4> QED
          BY <4>6, <4>7
      <3> QED
        BY <1>3, <2>8, <3>3, <3>4, <3>5 DEF CState
    <2>10. q \in CState /\ q.ok /\ q.dev = r.dev /\ q.desc = d2 /\ q.missed = r.missed
      BY <1>3, <1>5, <2>7, <2>8 DEF CState
    <2>11. d2[r.slot].present /\ d2[r.slot].index = b /\ d2[r.slot].dirty /\ d2[r.slot].data = v
      BY <2>1, <2>2, <2>6, <2>7 DEF Opens
    <2>12. \A j \in Cache!Slots : j # r.slot => d2[j] = r.desc[j]
      BY <2>2, <2>7
    <2>13. HasPut(s, r, b, d2)
      <3>1. d2 \in [Cache!Slots -> SlotRec]
        BY <2>7
      <3>2. b \in Cache!Home
        OBVIOUS
      <3> QED
        BY ONLY <2>1, <2>11, <2>12, <3>1, <3>2, OpenPuts
    <2>14. Good(q)
      BY <2>10, <2>13 DEF Good, HasPut
    <2>15. CacheInv' /\ dev' = r.dev /\ desc' = d2 /\ got' = <<>>
      <3>1. Cache!Becomes(q, <<>>)
        BY <1>2, <2>9
      <3> QED
        BY <2>10, <2>14, <3>1, BecomesIs
    <2>16. Cache!Abstract!Settle
      BY <1>1, <2>13, <2>15, Settles DEF HasPut
    <2>17. Cache!Mem(dev', desc') = [Cache!Mem(dev, desc) EXCEPT ![b] = Cache!Mem(dev', desc')[b]]
      <3>1. PICK M : M = Cache!Mem(dev, desc)
        OBVIOUS
      <3>2. PICK N : N = Cache!Mem(dev', desc')
        OBVIOUS
      <3>3. M = [x \in Cache!Home |-> M[x]] /\ N = [x \in Cache!Home |-> N[x]]
        BY <3>1, <3>2, MemFun
      <3>4. \A x \in Cache!Home : x # b => N[x] = M[x]
        BY <1>1, <2>13, <2>15, <3>1, <3>2 DEF HasPut
      <3>5. N = [M EXCEPT ![b] = N[b]]
        BY <3>3, <3>4
      <3> QED
        BY <3>1, <3>2, <3>5
    <2>18. Cache!Abstract!StoreNext
      BY <2>15, <2>16, <2>17 DEF Cache!Abstract!Put, Cache!Abstract!StoreNext
    <2> QED
      BY <2>15, <2>18
  <1> QED
    BY <1>4, <1>5

\* Reading past the cache, which writes the block back and drops it first.
LEMMA EvictIs ==
  ASSUME NEW s, Good(s), s.ok, NEW b \in Cache!Home, NEW r \in Cache!ufat_cache_evict(s, b)
  PROVE  After(s, r) /\ (r.ok => r.dev[b] = Cache!Mem(s.dev, s.desc)[b])
  <1>0. /\ s \in CState /\ Single(s.desc) /\ Cache!Slots \subseteq Nat /\ After(s, s)
    BY CacheAssumption DEF Good, Sound, After, Lags, Cache!Slots, CacheAssumption
  <1>1. CASE Cache!Holds(s, b) = {}
    <2>1. r = s
      BY <1>1 DEF Cache!ufat_cache_evict
    <2>2. \A l \in Cache!Slots : s.desc[l].present => s.desc[l].index # b
      BY <1>1 DEF Cache!Holds, Cache!Cached
    <2>3. Cache!Mem(s.dev, s.desc)[b] = s.dev[b]
      BY <1>0, <2>2, MemAt
    <2> QED
      BY <1>0, <2>1, <2>3
  <1>2. CASE Cache!Holds(s, b) # {}
    <2>0. PICK J : J = Cache!Holds(s, b)
      OBVIOUS
    <2>1. PICK l : l = Cache!Min(J)
      OBVIOUS
    <2>2. l \in Cache!Slots /\ s.desc[l].present /\ s.desc[l].index = b
      <3>1. J \subseteq Nat /\ J # {}
        BY <1>0, <1>2, <2>0 DEF Cache!Holds, Cache!Cached
      <3>2. l \in J
        BY <2>1, <3>1, MinIn
      <3> QED
        BY <2>0, <3>2 DEF Cache!Holds, Cache!Cached
    <2>3. \A j \in Cache!Slots : (j \in J) <=> (j = l)
      BY <1>0, <2>0, <2>2 DEF Cache!Holds, Cache!Cached, Single
    <2>4. PICK g \in Cache!cache_flush(s, l) : r = IF g.ok THEN Cache!Dropped(g, J) ELSE g
      BY <1>2, <2>0, <2>1 DEF Cache!ufat_cache_evict
    <2>5. /\ After(s, g) /\ (g.ok /\ g.desc[l].present => ~g.desc[l].dirty)
          /\ \A j \in Cache!Slots : g.desc[j].present = s.desc[j].present /\ g.desc[j].index = s.desc[j].index
      BY <2>2, FlushIs
    <2>6. Good(g) /\ g \in CState /\ Sound(g.dev, g.desc) /\ Single(g.desc)
      BY <2>5 DEF After, Good, Sound
    <2>7. CASE ~g.ok
      BY <2>4, <2>5, <2>7
    <2>8. CASE g.ok
      <3>1. r = Cache!Dropped(g, J)
        BY <2>4, <2>8
      <3>2. /\ r \in CState /\ r.ok = g.ok /\ r.dev = g.dev /\ r.missed = g.missed
            /\ \A j \in Cache!Slots : (j \in J => ~r.desc[j].present) /\ (j \notin J => r.desc[j] = g.desc[j])
        BY <2>6, <3>1, DroppedIs
      <3>3. r.desc \in [Cache!Slots -> SlotRec]
        BY <3>2 DEF CState
      <3>4. GivenUp(g.dev, g.desc, J, r.desc)
        BY ONLY <2>6, <3>2, <3>3, DropsSound
      <3>5. g.desc[l].present /\ g.desc[l].index = b /\ ~g.desc[l].dirty
        BY <2>2, <2>5, <2>8
      <3>6. Cache!Mem(g.dev, g.desc)[b] = g.dev[b]
        BY <2>2, <3>4, <3>5 DEF GivenUp
      <3>7. \A x \in Cache!Home : Cache!Mem(r.dev, r.desc)[x] = Cache!Mem(g.dev, g.desc)[x]
        <4> TAKE x \in Cache!Home
        <4>1. Cache!Mem(g.dev, r.desc)[x] =
                 IF \E j \in Cache!Slots : j \in J /\ g.desc[j].present /\ g.desc[j].index = x
                 THEN g.dev[x] ELSE Cache!Mem(g.dev, g.desc)[x]
          BY <3>4 DEF GivenUp
        <4>2. CASE x = b
          BY <3>2, <3>6, <4>1, <4>2
        <4>3. CASE x # b
          BY <2>3, <3>2, <3>5, <4>1, <4>3
        <4> QED
          BY <4>2, <4>3
      <3>8. Cache!Mem(r.dev, r.desc) = Cache!Mem(g.dev, g.desc)
        BY <3>7, MemSame
      <3>9. Good(r)
        BY <2>6, <3>2, <3>4 DEF Good, GivenUp
      <3>10. After(s, r)
        BY <2>5, <3>2, <3>8, <3>9 DEF After
      <3>11. r.dev[b] = Cache!Mem(s.dev, s.desc)[b]
        BY <2>5, <3>2, <3>6 DEF After
      <3> QED
        BY <3>10, <3>11
    <2> QED
      BY <2>7, <2>8
  <1> QED
    BY <1>1, <1>2

\* read_blocks.
LEMMA ReadThroughSteps ==
  ASSUME CacheInv, NEW b \in Cache!Home, Cache!ReadThrough(b)
  PROVE  CacheInv' /\ Cache!Abstract!StoreNext
  <1>0. PICK s : s = Cache!State
    OBVIOUS
  <1>1. Good(s) /\ s.ok /\ s.dev = dev /\ s.desc = desc
    BY <1>0, StateGood
  <1>2. PICK r \in Cache!ufat_cache_evict(s, b) :
           Cache!Becomes(r, <<b, r.dev[b]>>) \/ Cache!Becomes(Cache!Failed(r), <<>>)
    BY <1>0 DEF Cache!ReadThrough
  <1>3. After(s, r) /\ (r.ok => r.dev[b] = Cache!Mem(dev, desc)[b])
    BY <1>1, <1>2, EvictIs
  <1>4. CASE Cache!Becomes(r, <<b, r.dev[b]>>)
    <2>1. CASE r.ok
      <3>1. PICK x : x = r.dev[b]
        OBVIOUS
      <3> QED
        BY <1>0, <1>3, <1>4, <2>1, <3>1, Gets
    <2>2. CASE ~r.ok
      BY <1>0, <1>3, <1>4, <2>2, Fails
    <2> QED
      BY <2>1, <2>2
  <1>5. CASE Cache!Becomes(Cache!Failed(r), <<>>)
    <2>1. PICK q : q = Cache!Failed(r)
      OBVIOUS
    <2>2. After(r, q) /\ ~q.ok /\ q.dev = r.dev /\ q.desc = r.desc
      BY <1>3, <2>1, FailedIs DEF After
    <2>3. After(Cache!State, q)
      BY <1>0, <1>3, <2>2 DEF After
    <2> QED
      BY <1>5, <2>1, <2>2, <2>3, Fails
  <1> QED
    BY <1>2, <1>4, <1>5

\* write_blocks, past the cache: a write that fails leaves what the disk had.
LEMMA WriteThroughSteps ==
  ASSUME CacheInv, NEW b \in Cache!DataBlocks, NEW w \in CacheValues, Cache!WriteThrough(b, w)
  PROVE  CacheInv' /\ Cache!Abstract!StoreNext
  <1>0. PICK s : s = Cache!State
    OBVIOUS
  <1>1. Good(s) /\ s.ok /\ s.dev = dev /\ s.desc = desc /\ s.missed = missed /\ s \in CState
    BY <1>0, StateGood DEF Good
  <1>2. b \in Cache!Home /\ b \in Cache!Blocks /\ Cache!Mirrors(b) = {}
    BY HomeFacts
  <1>3. PICK J : J = Cache!Holds(s, b)
    OBVIOUS
  <1>4. PICK h : h = Cache!Dropped(s, J)
    OBVIOUS
  <1>5. /\ h \in CState /\ h.ok = s.ok /\ h.dev = s.dev /\ h.missed = s.missed /\ h.order = s.order
        /\ \A j \in Cache!Slots : (j \in J => ~h.desc[j].present) /\ (j \notin J => h.desc[j] = s.desc[j])
    <2>1. s \in CState
      BY <1>1
    <2> QED
      BY ONLY <1>4, <2>1, DroppedIs
  <1>6. h.desc \in [Cache!Slots -> SlotRec] /\ Sound(s.dev, s.desc) /\ Follow(s.dev, s.missed)
    BY <1>1, <1>5 DEF CState, Good
  <1>7. GivenUp(s.dev, s.desc, J, h.desc)
    BY ONLY <1>5, <1>6, DropsSound
  <1>8. Sound(dev, h.desc) /\ Good(h) /\ Single(h.desc)
    BY <1>1, <1>5, <1>6, <1>7 DEF GivenUp, Good, Sound
  <1>9. \A l \in Cache!Slots : h.desc[l].present => h.desc[l].index # b
    BY <1>3, <1>5 DEF Cache!Holds, Cache!Cached
  <1>10. \A v : Cache!Mem(v, h.desc)[b] = v[b]
    BY <1>2, <1>8, <1>9, MemAt
  <1>11. \A x \in Cache!Home : x # b => Cache!Mem(dev, h.desc)[x] = Cache!Mem(dev, desc)[x]
    <2> TAKE x \in Cache!Home
    <2> HAVE x # b
    <2>1. Cache!Mem(s.dev, h.desc)[x] =
             IF \E j \in Cache!Slots : j \in J /\ s.desc[j].present /\ s.desc[j].index = x
             THEN s.dev[x] ELSE Cache!Mem(s.dev, s.desc)[x]
      BY <1>7 DEF GivenUp
    <2>2. ~ \E j \in Cache!Slots : j \in J /\ s.desc[j].present /\ s.desc[j].index = x
      BY <1>3 DEF Cache!Holds, Cache!Cached
    <2> QED
      BY <1>1, <2>1, <2>2
  <1>12. PICK M : M = Cache!Mem(dev, desc)
    OBVIOUS
  <1>13. M = [x \in Cache!Home |-> M[x]]
    BY <1>12, MemFun
  <1>14. h = Cache!ufat_cache_invalidate(s, b)
    BY <1>3, <1>4 DEF Cache!ufat_cache_invalidate
  <1>15. \/ Cache!Becomes([h EXCEPT !.dev[b] = w], <<>>)
         \/ Cache!Becomes(Cache!Failed(h), <<>>)
    BY <1>0, <1>14 DEF Cache!WriteThrough
  <1>16. CASE Cache!Becomes([h EXCEPT !.dev[b] = w], <<>>)
    <2>1. PICK v2 : v2 = [dev EXCEPT ![b] = w]
      OBVIOUS
    <2>2. dev \in [Cache!Blocks -> CacheValues]
      BY <1>8 DEF Sound, Shaped
    <2>3. /\ v2 \in [Cache!Blocks -> CacheValues] /\ v2[b] = w
          /\ \A x \in Cache!Blocks : x # b => v2[x] = dev[x]
      BY <1>2, <2>1, <2>2
    <2>4. PICK q : q = [h EXCEPT !.dev = v2]
      OBVIOUS
    <2>5. [h EXCEPT !.dev[b] = w] = q
      BY <1>1, <1>5, <2>1, <2>4
    <2>6. q = [ok |-> h.ok, dev |-> v2, desc |-> h.desc, order |-> h.order, missed |-> h.missed, slot |-> h.slot]
      BY <1>5, <2>4 DEF CState
    <2>7. q \in CState /\ q.dev = v2 /\ q.desc = h.desc /\ q.missed = missed /\ q.ok
      BY <1>1, <1>5, <2>3, <2>6 DEF CState
    <2>8. Clean(v2, h.desc)
      <3>1. \A l \in Cache!Slots : h.desc[l].present => h.desc[l].index \in Cache!Blocks /\ h.desc[l].index # b
        BY <1>8, <1>9, HomeFacts DEF Single
      <3>2. Clean(dev, h.desc)
        BY <1>8 DEF Sound
      <3> QED
        BY <2>3, <3>1, <3>2 DEF Clean
    <2>9. Follow(v2, missed)
      <3>1. Follow(dev, missed)
        BY <1>1, <1>6
      <3>2. ASSUME NEW x \in Cache!Blocks, NEW c \in Cache!Mirrors(x) PROVE c \in missed \/ v2[c] = v2[x]
        <4>1. x # b /\ c # b /\ c \in Cache!Blocks
          BY <1>2, MirrorFacts, HomeFacts
        <4>2. v2[x] = dev[x] /\ v2[c] = dev[c]
          BY <2>3, <4>1
        <4> QED
          BY <3>1, <4>2 DEF Follow
      <3> QED
        BY <3>1, <3>2 DEF Follow
    <2>10. Good(q)
      BY <1>8, <2>3, <2>7, <2>8, <2>9 DEF Good, Sound, Shaped
    <2>11. CacheInv' /\ dev' = v2 /\ desc' = h.desc /\ got' = <<>>
      <3>1. Cache!Becomes(q, <<>>)
        BY <1>16, <2>5
      <3> QED
        BY <2>7, <2>10, <3>1, BecomesIs
    <2>12. PICK N : N = Cache!Mem(dev', desc')
      OBVIOUS
    <2>13. N = [x \in Cache!Home |-> N[x]]
      BY <2>12, MemFun
    <2>14. N[b] = w
      BY <1>10, <2>3, <2>11, <2>12
    <2>15. \A x \in Cache!Home : x # b => N[x] = M[x]
      <3> TAKE x \in Cache!Home
      <3> HAVE x # b
      <3>1. Cache!Mem(v2, h.desc)[x] = Cache!Mem(dev, h.desc)[x]
        <4>1. v2[x] = dev[x]
          BY <2>3, HomeFacts
        <4> QED
          BY <4>1 DEF Cache!Mem
      <3> QED
        BY <1>11, <1>12, <2>11, <2>12, <3>1
    <2>16. N = [M EXCEPT ![b] = N[b]]
      BY <1>13, <2>13, <2>15
    <2>17. Cache!Disk(dev') = [Cache!Disk(dev) EXCEPT ![b] = N[b]]
      <3>1. [x \in Cache!Home |-> v2[x]] = [[x \in Cache!Home |-> dev[x]] EXCEPT ![b] = w]
        BY <1>2, <2>3, HomeFacts
      <3> QED
        BY <2>11, <2>14, <3>1 DEF Cache!Disk
    <2>18. Cache!Abstract!StoreNext
      <3>1. Cache!Abstract!PutThrough(b, Cache!Mem(dev', desc')[b])
        BY <1>12, <2>11, <2>12, <2>16, <2>17 DEF Cache!Abstract!PutThrough
      <3> QED
        BY <1>2, <3>1 DEF Cache!Abstract!StoreNext
    <2> QED
      BY <2>11, <2>18
  <1>17. CASE Cache!Becomes(Cache!Failed(h), <<>>)
    <2>1. PICK q : q = Cache!Failed(h)
      OBVIOUS
    <2>2. After(h, q) /\ ~q.ok /\ q.dev = dev /\ q.desc = h.desc
      BY <1>1, <1>5, <1>8, <2>1, FailedIs
    <2>3. CacheInv' /\ dev' = dev /\ desc' = h.desc /\ got' = <<>>
      <3>1. Good(q) /\ Cache!Becomes(q, <<>>)
        BY <1>17, <2>1, <2>2 DEF After
      <3> QED
        BY <2>2, <3>1, BecomesIs
    <2>4. PICK N : N = Cache!Mem(dev', desc')
      OBVIOUS
    <2>5. N = [x \in Cache!Home |-> N[x]]
      BY <2>4, MemFun
    <2>6. N[b] = dev[b] /\ \A x \in Cache!Home : x # b => N[x] = M[x]
      BY <1>10, <1>11, <1>12, <2>3, <2>4
    <2>7. N = [M EXCEPT ![b] = dev[b]]
      BY <1>13, <2>5, <2>6
    <2>8. Cache!Disk(dev)[b] = dev[b] /\ Cache!Disk(dev') = Cache!Disk(dev)
      BY <1>2, <2>3 DEF Cache!Disk
    <2>9. Cache!Abstract!Spoil(b)
      BY <1>12, <2>3, <2>4, <2>7, <2>8 DEF Cache!Abstract!Spoil
    <2> QED
      BY <1>2, <2>3, <2>9 DEF Cache!Abstract!StoreNext
  <1> QED
    BY <1>15, <1>16, <1>17

\* ufat_sync: all slots are written back, or the call reports that it failed.
LEMMA SyncSteps ==
  ASSUME CacheInv, Cache!ufat_sync
  PROVE  CacheInv' /\ Cache!Abstract!StoreNext
  <1>0. PICK s : s = Cache!State
    OBVIOUS
  <1>1. Good(s) /\ s.ok /\ s.dev = dev /\ s.desc = desc
    BY <1>0, StateGood
  <1>2. PICK bad \in SUBSET Cache!AllMirrors, I \in SUBSET Cache!Slots :
           Cache!Becomes([Cache!Flushed(s, I, bad) EXCEPT !.ok = (I = Cache!Slots)], <<"sync">>)
    BY <1>0 DEF Cache!ufat_sync
  <1>3. PICK f : f = Cache!Flushed(s, I, bad)
    OBVIOUS
  <1>4. After(s, f) /\ WrittenBack(s.dev, s.desc, I, f.dev, f.desc, f.missed)
    <2>1. I \subseteq Cache!Slots /\ Good(s)
      BY <1>1
    <2> QED
      BY ONLY <1>3, <2>1, FlushedIs
  <1>5. PICK t \in BOOLEAN : t = (I = Cache!Slots)
    OBVIOUS
  <1>6. PICK q : q = [f EXCEPT !.ok = t]
    OBVIOUS
  <1>7. Cache!Becomes(q, <<"sync">>)
    BY <1>2, <1>3, <1>5, <1>6
  <1>8. f \in CState
    BY <1>4 DEF After, Good
  <1>9. /\ q \in CState /\ q.ok = t /\ q.dev = f.dev /\ q.desc = f.desc /\ q.missed = f.missed
    BY <1>5, <1>6, <1>8 DEF CState
  <1>10. After(s, q)
    BY <1>4, <1>9 DEF After, Good
  <1>11. CASE I # Cache!Slots
    <2>1. ~q.ok
      BY <1>5, <1>9, <1>11
    <2> QED
      BY <1>0, <1>7, <1>10, <2>1, Fails
  <1>12. CASE I = Cache!Slots
    <2>1. q.ok
      BY <1>5, <1>9, <1>12
    <2>2. CacheInv' /\ dev' = q.dev /\ desc' = q.desc /\ got' = <<"sync">>
      BY <1>7, <1>10, <2>1, BecomesIs DEF After
    <2>3. Cache!Mem(dev', desc') = Cache!Mem(dev, desc)
      BY <1>1, <1>10, <2>2 DEF After
    <2>4. \A l \in Cache!Slots : ~q.desc[l].dirty
      BY <1>4, <1>9, <1>12 DEF WrittenBack
    <2>5. Single(q.desc) /\ Clean(q.dev, q.desc)
      BY <1>10 DEF After, Good, Sound
    <2>6. ASSUME NEW b \in Cache!Home PROVE Cache!Mem(q.dev, q.desc)[b] = q.dev[b]
      <3>1. CASE \E l \in Cache!Slots : q.desc[l].present /\ q.desc[l].index = b
        <4>1. PICK l \in Cache!Slots : q.desc[l].present /\ q.desc[l].index = b
          BY <3>1
        <4>2. q.desc[l].data = q.dev[b]
          BY <2>4, <2>5, <4>1 DEF Clean
        <4>3. Cache!Mem(q.dev, q.desc)[q.desc[l].index] = q.desc[l].data
          BY ONLY <2>5, <4>1, MemAt
        <4> QED
          BY <4>1, <4>2, <4>3
      <3>2. CASE ~ \E l \in Cache!Slots : q.desc[l].present /\ q.desc[l].index = b
        <4>1. \A l \in Cache!Slots : q.desc[l].present => q.desc[l].index # b
          BY <3>2
        <4>2. b \in Cache!Home
          OBVIOUS
        <4> QED
          BY ONLY <2>5, <4>1, <4>2, MemAt
      <3> QED
        BY <3>1, <3>2
    <2>7. PICK M : M = Cache!Mem(q.dev, q.desc)
      OBVIOUS
    <2>8. M = [b \in Cache!Home |-> M[b]]
      BY <2>7, MemFun
    <2>9. [b \in Cache!Home |-> q.dev[b]] = M
      BY <2>6, <2>7, <2>8
    <2>10. Cache!Disk(dev') = Cache!Mem(dev, desc)
      BY <2>2, <2>3, <2>7, <2>9 DEF Cache!Disk
    <2>11. Cache!Abstract!Sync
      BY <2>2, <2>3, <2>10 DEF Cache!Abstract!Sync
    <2> QED
      BY <2>2, <2>11 DEF Cache!Abstract!StoreNext
  <1> QED
    BY <1>11, <1>12

\* ufat_open: what was not written back is gone.
LEMMA OpenSteps ==
  ASSUME CacheInv, Cache!ufat_open
  PROVE  CacheInv' /\ Cache!Abstract!StoreNext
  <1>0. PICK s : s = Cache!State
    OBVIOUS
  <1>1. s \in CState /\ s.ok /\ s.dev = dev /\ s.desc = desc /\ s.missed = missed
    BY <1>0, StateGood DEF Good
  <1>2. PICK d2 : d2 = [l \in Cache!Slots |-> Cache!NoSlot]
    OBVIOUS
  <1>3. PICK o : o = [l \in 1 .. CacheSlots |-> l - 1]
    OBVIOUS
  <1>4. PICK e : e = [s EXCEPT !.desc = d2, !.order = o]
    OBVIOUS
  <1>5. PICK r \in Cache!ufat_cache_open(e, 0, FALSE) : Cache!Becomes(r, <<>>)
    BY <1>0, <1>2, <1>3, <1>4 DEF Cache!ufat_open
  <1>6. Cache!NoSlot \in SlotRec /\ ~Cache!NoSlot.present
    BY HomeFacts, CacheAssumption DEF Cache!NoSlot, SlotRec, CacheAssumption
  <1>7. d2 \in [Cache!Slots -> SlotRec] /\ \A l \in Cache!Slots : ~d2[l].present
    BY <1>2, <1>6
  <1>8. o \in [1 .. CacheSlots -> Cache!Slots]
    <2>1. CacheSlots \in Nat
      BY CacheAssumption DEF CacheAssumption
    <2>2. \A l \in 1 .. CacheSlots : l - 1 \in 0 .. CacheSlots - 1
      BY ONLY <2>1
    <2> QED
      BY <1>3, <2>2 DEF Cache!Slots
  <1>9. e = [ok |-> s.ok, dev |-> s.dev, desc |-> d2, order |-> o, missed |-> s.missed, slot |-> s.slot]
    BY <1>1, <1>4 DEF CState
  <1>10. e \in CState /\ e.ok /\ e.dev = dev /\ e.desc = d2 /\ e.missed = missed
    BY <1>1, <1>7, <1>8, <1>9 DEF CState
  <1>11. Single(d2) /\ Clean(dev, d2)
    BY <1>7 DEF Single, Clean
  <1>12. Good(e)
    BY <1>7, <1>10, <1>11 DEF Good, Sound, Shaped, CacheInv
  <1>13. 0 \in Cache!Home
    BY HomeFacts
  <1>14. After(e, r)
    BY <1>5, <1>10, <1>12, <1>13, OpenReads
  <1>15. PICK M : M = Cache!Mem(dev, d2)
    OBVIOUS
  <1>16. \A b \in Cache!Home : M[b] = dev[b]
    BY <1>7, <1>11, <1>15, MemAt
  <1>17. M = [b \in Cache!Home |-> M[b]]
    BY <1>15, MemFun
  <1>18. M = Cache!Disk(dev)
    BY <1>16, <1>17 DEF Cache!Disk
  <1>19. CacheInv' /\ dev' = r.dev /\ desc' = r.desc /\ got' = <<>>
    BY <1>5, <1>14, BecomesIs DEF After
  <1>20. Cache!Mem(dev', desc') = Cache!Disk(dev)
    BY <1>10, <1>14, <1>15, <1>18, <1>19 DEF After
  <1>21. \A b \in Cache!Home : dev'[b] = dev[b]
    BY <1>10, <1>14, <1>15, <1>16, <1>19 DEF After, Lags
  <1>22. Cache!Disk(dev') = Cache!Disk(dev)
    BY <1>21 DEF Cache!Disk
  <1>23. Cache!Abstract!Crash
    BY <1>19, <1>20, <1>22 DEF Cache!Abstract!Crash
  <1> QED
    BY <1>19, <1>23 DEF Cache!Abstract!StoreNext

\* At the start the device has zeros and the cache nothing.
LEMMA CacheInitInv == Cache!CacheInit => CacheInv /\ Cache!Abstract!StoreInit
  <1> SUFFICES ASSUME Cache!CacheInit PROVE CacheInv /\ Cache!Abstract!StoreInit
    OBVIOUS
  <1>1. /\ dev = [b \in Cache!Blocks |-> 0] /\ missed = {} /\ got = <<>>
        /\ desc = [l \in Cache!Slots |-> Cache!NoSlot] /\ order = [l \in 1 .. CacheSlots |-> l - 1]
    BY DEF Cache!CacheInit
  <1>2. Cache!NoSlot \in SlotRec /\ ~Cache!NoSlot.present
    BY HomeFacts, CacheAssumption DEF Cache!NoSlot, SlotRec, CacheAssumption
  <1>3. desc \in [Cache!Slots -> SlotRec] /\ \A l \in Cache!Slots : ~desc[l].present
    BY <1>1, <1>2
  <1>4. order \in [1 .. CacheSlots -> Cache!Slots]
    <2>1. CacheSlots \in Nat
      BY CacheAssumption DEF CacheAssumption
    <2>2. \A l \in 1 .. CacheSlots : l - 1 \in 0 .. CacheSlots - 1
      BY ONLY <2>1
    <2> QED
      BY <1>1, <2>2 DEF Cache!Slots
  <1>5. dev \in [Cache!Blocks -> CacheValues]
    BY <1>1, CacheAssumption DEF CacheAssumption
  <1>6. Single(desc) /\ Clean(dev, desc)
    BY <1>3 DEF Single, Clean
  <1>7. Follow(dev, missed)
    <2>1. \A b \in Cache!Blocks : \A c \in Cache!Mirrors(b) : dev[c] = dev[b]
      BY <1>1, MirrorFacts
    <2> QED
      BY <1>1, <2>1 DEF Follow
  <1>8. CacheInv
    BY <1>3, <1>4, <1>5, <1>6, <1>7 DEF CacheInv, Sound, Shaped
  <1>9. PICK M : M = Cache!Mem(dev, desc)
    OBVIOUS
  <1>10. \A b \in Cache!Home : M[b] = dev[b]
    BY <1>3, <1>6, <1>9, MemAt
  <1>11. M = [b \in Cache!Home |-> M[b]]
    BY <1>9, MemFun
  <1>12. M = Cache!Disk(dev)
    BY <1>10, <1>11 DEF Cache!Disk
  <1>13. Cache!Disk(dev) = [b \in Cache!Home |-> 0]
    BY <1>1, HomeFacts DEF Cache!Disk
  <1>14. Cache!Abstract!StoreInit
    BY <1>1, <1>9, <1>12, <1>13 DEF Cache!Abstract!StoreInit
  <1> QED
    BY <1>8, <1>14

\* Every step of the cache keeps the invariant and is a step of the store.
LEMMA CacheStep ==
  ASSUME CacheInv, Cache!CacheNext
  PROVE  CacheInv' /\ Cache!Abstract!StoreNext
  <1>1. CASE \E b \in Cache!Home : Cache!ReadBlock(b)
    BY <1>1, ReadSteps
  <1>2. CASE \E b \in Cache!Home \ {0}, v \in CacheValues : Cache!WriteBlock(b, v)
    <2>1. PICK b \in Cache!Home, v \in CacheValues : Cache!WriteBlock(b, v)
      BY <1>2
    <2> QED
      BY <2>1, ChangeSteps DEF Cache!WriteBlock
  <1>3. CASE \E b \in Cache!DataBlocks : Cache!ZeroBlock(b)
    <2>1. PICK b \in Cache!Home : Cache!ZeroBlock(b)
      BY <1>3, HomeFacts
    <2>2. 0 \in CacheValues
      BY CacheAssumption DEF CacheAssumption
    <2> QED
      BY <2>1, <2>2, ChangeSteps DEF Cache!ZeroBlock
  <1>4. CASE \E b \in Cache!DataBlocks : Cache!ReadThrough(b)
    BY <1>4, ReadThroughSteps, HomeFacts
  <1>5. CASE \E b \in Cache!DataBlocks, v \in CacheValues : Cache!WriteThrough(b, v)
    BY <1>5, WriteThroughSteps
  <1>6. CASE Cache!ufat_sync \/ Cache!ufat_open
    BY <1>6, SyncSteps, OpenSteps
  <1> QED
    BY <1>1, <1>2, <1>3, <1>4, <1>5, <1>6 DEF Cache!CacheNext

\* The cache runs alone, or not at all.
LEMMA CacheRuns == [PartsNext]_partVars => [Cache!CacheNext]_cachev
  <1> SUFFICES ASSUME [PartsNext]_partVars PROVE [Cache!CacheNext]_cachev
    OBVIOUS
  <1>1. CASE UNCHANGED partVars
    BY <1>1 DEF partVars
  <1>2. CASE PartsNext /\ which = "cache"
    BY <1>2 DEF PartsNext
  <1>3. CASE PartsNext /\ which # "cache"
    BY <1>3 DEF PartsNext, PartsKept
  <1> QED
    BY <1>1, <1>2, <1>3

\* A step of the whole keeps the invariant and is a step of the store, or
\* leaves it as it is.
LEMMA CacheKeeps ==
  ASSUME CacheInv, [PartsNext]_partVars
  PROVE  CacheInv' /\ [Cache!Abstract!StoreNext]_(Cache!Abstract!Store)
  <1>1. CASE UNCHANGED cachev
    <2>1. UNCHANGED <<dev, desc, order, missed, got>>
      BY <1>1 DEF cachev
    <2>2. CacheInv'
      BY <2>1 DEF CacheInv
    <2>3. UNCHANGED Cache!Abstract!Store
      BY <2>1 DEF Cache!Abstract!Store
    <2> QED
      BY <2>2, <2>3
  <1>2. CASE Cache!CacheNext
    BY <1>2, CacheStep
  <1> QED
    BY <1>1, <1>2, CacheRuns

\* For every device, layout of the FAT and number of slots: the block cache
\* implements a store that reads back the last write of each block and that
\* a ufat_sync that reports success makes durable, whichever slots are
\* evicted, whichever device calls fail, and also when writes go past it.
THEOREM StoreCorrect == PartsSpec => StoreRefined
  <1>1. PartsInit => CacheInv /\ Cache!Abstract!StoreInit
    BY CacheInitInv DEF PartsInit
  <1>2. CacheInv /\ [PartsNext]_partVars => CacheInv' /\ [Cache!Abstract!StoreNext]_(Cache!Abstract!Store)
    BY CacheKeeps
  <1> QED
    BY <1>1, <1>2, PTL DEF PartsSpec, StoreRefined, Cache!StoreRefined, Cache!Abstract!StoreSpec

\* cache_flush keeps every further copy of the FAT equal to the first one,
\* except where the last write of the copy failed.
THEOREM MirrorsCorrect == PartsSpec => []MirrorsFollow
  <1>1. PartsInit => CacheInv
    BY CacheInitInv DEF PartsInit
  <1>2. CacheInv /\ [PartsNext]_partVars => CacheInv'
    BY CacheKeeps
  <1>3. CacheInv => MirrorsFollow
    BY DEF CacheInv, Follow, MirrorsFollow, Cache!MirrorsFollow
  <1> QED
    BY <1>1, <1>2, <1>3, PTL DEF PartsSpec

-----------------------------------------------------------------------------
(* A session of commands on the volume.  What a sync covers stays because  *)
(* an open volume differs from its image by dirty blocks only, as long as  *)
(* nobody has formatted under it.                                          *)

SessionShape ==
    /\ disk.gen \in Int /\ disk = [gen |-> disk.gen, items |-> disk.items, mixed |-> disk.mixed]
    /\ disk.mixed \in BOOLEAN
    /\ uf = [dev |-> uf.dev, gen |-> uf.gen, items |-> uf.items, dirty |-> uf.dirty]
    /\ uf.gen \in Nat /\ opens \in Nat
    /\ proc \in {"running", "exited", "crashed", "overrun"} /\ keywords_cnt \in Nat

\* As long as there is an image, no volume is younger than it, and one that
\* is older has been formatted under the open session.
Generations ==
    disk.gen # -2 => /\ uf.gen <= disk.gen \/ uf.gen = 0
                     /\ opens > 0 /\ uf.gen # disk.gen => formatted

\* What the cache knows and the image does not is dirty.
DirtyCovers ==
    ~disk.mixed /\ opens > 0 /\ uf.gen = disk.gen => uf.items \subseteq disk.items \cup uf.dirty

SessionInv == /\ SessionShape /\ Generations /\ DirtyCovers
              /\ Session!SyncedKept /\ Session!PathRight /\ Session!CrashExplained /\ Session!KeywordsFit

\* The shell has started on an image that nobody has formatted with it.
LEMMA SessionInitInv == Session!SessionInit => SessionInv
  <1> SUFFICES ASSUME Session!SessionInit PROVE SessionInv
    OBVIOUS
  <1> USE DEF Session!SessionInit, Session!Closed
  <1>1. SessionShape
    <2>1. /\ disk.gen \in {-2, 0, -1, 1} /\ disk.mixed = FALSE
          /\ disk = [gen |-> disk.gen, items |-> disk.items, mixed |-> disk.mixed]
      OBVIOUS
    <2>2. uf = [dev |-> uf.dev, gen |-> uf.gen, items |-> uf.items, dirty |-> uf.dirty] /\ uf.gen = 0
      OBVIOUS
    <2>3. disk.mixed \in BOOLEAN
      BY <2>1, Zenon
    <2> QED
      BY <2>1, <2>2, <2>3, KeywordAssumption DEF SessionShape
  <1>2. Generations /\ DirtyCovers
    BY DEF Generations, DirtyCovers
  <1>3. Session!SyncedKept /\ Session!PathRight /\ Session!CrashExplained /\ Session!KeywordsFit
    BY KeywordAssumption
       DEF Session!SyncedKept, Session!PathRight, Session!CrashExplained, Session!KeywordsFit
  <1> QED
    BY <1>1, <1>2, <1>3 DEF SessionInv

\* Only a session that went on after a format mixes two volumes, or one
\* that has written behind its keywords.
Unmixed == (disk'.mixed /\ ~disk.mixed) => (formatted /\ uf.gen # disk.gen) \/ proc = "overrun"

\* What WriteBack does to the volume of a session that has opened it.
LEMMA WriteBackIs ==
  ASSUME SessionInv, NEW items, NEW dirty, NEW W, Session!WriteBack(items, dirty, W),
         uf.items \subseteq items, uf.dirty \subseteq dirty, items \subseteq uf.items \cup dirty,
         opens > 0, opens' = opens, formatted' = formatted
  PROVE  /\ SessionShape' = (opens' \in Nat /\ keywords_cnt' \in Nat
                             /\ proc' \in {"running", "exited", "crashed", "overrun"})
         /\ Generations' /\ DirtyCovers' /\ Unmixed
         /\ uf'.items = items /\ uf'.dirty = dirty \ W /\ uf'.gen = uf.gen /\ uf'.dev = uf.dev
         /\ disk'.gen = disk.gen
         /\ ~disk'.mixed => /\ ~disk.mixed /\ disk.items \subseteq disk'.items
                            /\ ~Session!Stale => W \subseteq disk'.items
  <1>1. /\ uf' = [uf EXCEPT !.items = items, !.dirty = dirty \ W]
        /\ uf = [dev |-> uf.dev, gen |-> uf.gen, items |-> uf.items, dirty |-> uf.dirty]
        /\ disk = [gen |-> disk.gen, items |-> disk.items, mixed |-> disk.mixed]
        /\ disk.mixed \in BOOLEAN /\ disk.gen \in Int /\ uf.gen \in Nat
    BY DEF Session!WriteBack, SessionInv, SessionShape
  <1>2. uf' = [dev |-> uf.dev, gen |-> uf.gen, items |-> items, dirty |-> dirty \ W]
    BY <1>1
  <1>3. /\ uf'.items = items /\ uf'.dirty = dirty \ W /\ uf'.gen = uf.gen /\ uf'.dev = uf.dev
    BY <1>2
  <1>4. \/ W = {} /\ disk' = disk
        \/ W # {} /\ Session!Stale /\ disk' = [gen |-> disk.gen, items |-> disk.items, mixed |-> TRUE]
        \/ W # {} /\ ~Session!Stale /\ disk' = [gen |-> disk.gen, items |-> disk.items \cup W, mixed |-> disk.mixed]
    <2>1. disk' = IF W = {} THEN disk
               ELSE IF Session!Stale THEN [disk EXCEPT !.mixed = TRUE] ELSE [disk EXCEPT !.items = disk.items \cup W]
      BY DEF Session!WriteBack
    <2> QED
      BY <1>1, <2>1
  <1>5. /\ disk'.gen = disk.gen /\ disk'.mixed \in BOOLEAN
        /\ disk' = [gen |-> disk'.gen, items |-> disk'.items, mixed |-> disk'.mixed]
    <2>1. /\ disk'.gen = disk.gen
          /\ disk' = [gen |-> disk'.gen, items |-> disk'.items, mixed |-> disk'.mixed]
      BY <1>1, <1>4
    <2>2. disk'.mixed = TRUE \/ disk'.mixed = disk.mixed
      BY <1>4
    <2>3. disk'.mixed \in BOOLEAN
      BY <1>1, <2>2, Zenon
    <2> QED
      BY <2>1, <2>3
  <1>6. ~disk'.mixed => /\ ~disk.mixed /\ disk.items \subseteq disk'.items
                        /\ ~Session!Stale => W \subseteq disk'.items
    BY <1>4
  <1>11. Session!Missing => W = {}
    BY DEF Session!WriteBack
  <1>7. Generations'
    BY <1>3, <1>5 DEF SessionInv, Generations
  <1>8. DirtyCovers'
    BY <1>3, <1>4, <1>5, <1>6, <1>11 DEF SessionInv, DirtyCovers, Session!Stale, Session!Missing
  <1>9. Unmixed
    BY <1>4 DEF Unmixed, SessionInv, Generations, Session!Stale, Session!Missing
  <1>10. SessionShape' = (opens' \in Nat /\ keywords_cnt' \in Nat
                             /\ proc' \in {"running", "exited", "crashed", "overrun"})
    BY <1>1, <1>2, <1>5 DEF SessionShape
  <1> QED
    BY <1>3, <1>5, <1>6, <1>7, <1>8, <1>9, <1>10

\* A command that writes some blocks back and does nothing else to the
\* session keeps what was synced.
LEMMA WorksOnInv ==
  ASSUME SessionInv, NEW items, NEW dirty, NEW W, Session!WriteBack(items, dirty, W),
         uf.items \subseteq items, uf.dirty \subseteq dirty, items \subseteq uf.items \cup dirty,
         opens > 0, proc = "running", UNCHANGED <<proc, keywords_cnt, opens, formatted, safe>>, Session!PathRight'
  PROVE  SessionInv' /\ Unmixed
  <1>1. /\ SessionShape' = (opens' \in Nat /\ keywords_cnt' \in Nat
                             /\ proc' \in {"running", "exited", "crashed", "overrun"})
        /\ Generations' /\ DirtyCovers' /\ Unmixed
        /\ uf'.items = items /\ uf'.gen = uf.gen /\ disk'.gen = disk.gen
        /\ ~disk'.mixed => /\ ~disk.mixed /\ disk.items \subseteq disk'.items
    BY WriteBackIs
  <1>2. SessionShape'
    BY <1>1 DEF SessionInv, SessionShape
  <1>3. Session!SyncedKept'
    BY <1>1 DEF SessionInv, Session!SyncedKept
  <1>4. Session!CrashExplained' /\ Session!KeywordsFit'
    BY DEF SessionInv, Session!CrashExplained, Session!KeywordsFit
  <1> QED
    BY <1>1, <1>2, <1>3, <1>4 DEF SessionInv

\* touch and mkdir.
LEMMA CreateInv ==
  ASSUME SessionInv, NEW n \in EntryNames, NEW isdir, Session!Create(n, isdir)
  PROVE  SessionInv' /\ Unmixed
  <1>1. /\ opens > 0 /\ proc = "running" /\ UNCHANGED <<proc, keywords_cnt, opens, formatted, safe>>
        /\ UNCHANGED <<dir, cur_dir_full, limited>>
    BY DEF Session!Create, Session!OnVolume, Session!PathOnly, Session!History
  <1>2. Session!PathRight'
    BY <1>1 DEF SessionInv, Session!PathRight
  <1>3. CASE \E W \in SUBSET uf.dirty : Session!WriteBack(uf.items, uf.dirty, W)
    BY <1>1, <1>2, <1>3, WorksOnInv
  <1>4. ASSUME NEW W, NEW new, Session!WriteBack(uf.items \cup new, uf.dirty \cup new, W)
        PROVE  SessionInv' /\ Unmixed
    BY <1>1, <1>2, <1>4, WorksOnInv
  <1>5. CASE UNCHANGED <<uf, disk>>
    BY <1>1, <1>2, <1>5 DEF SessionInv, SessionShape, Generations, DirtyCovers, Unmixed,
       Session!SyncedKept, Session!CrashExplained, Session!KeywordsFit
  <1> QED
    BY <1>3, <1>4, <1>5 DEF Session!Create, Session!NoWriteBack

\* sync: what the volume has is on the image afterwards.
LEMMA SyncInv ==
  ASSUME SessionInv, Session!sync_func
  PROVE  SessionInv' /\ Unmixed
  <1>1. /\ opens > 0 /\ proc = "running" /\ UNCHANGED <<proc, keywords_cnt, opens, formatted>>
        /\ UNCHANGED <<dir, cur_dir_full, limited>>
        /\ Session!WriteBack(uf.items, uf.dirty, uf.dirty)
        /\ safe' = IF Session!Stale \/ Session!Missing THEN safe ELSE uf.items
    BY DEF Session!sync_func, Session!OnVolume, Session!PathOnly
  <1>2. /\ SessionShape' = (opens' \in Nat /\ keywords_cnt' \in Nat
                             /\ proc' \in {"running", "exited", "crashed", "overrun"})
        /\ Generations' /\ DirtyCovers' /\ Unmixed
        /\ uf'.items = uf.items /\ uf'.dirty = uf.dirty \ uf.dirty
        /\ uf'.gen = uf.gen /\ disk'.gen = disk.gen
        /\ ~disk'.mixed => /\ ~disk.mixed /\ disk.items \subseteq disk'.items
                           /\ ~Session!Stale => uf.dirty \subseteq disk'.items
    BY <1>1, WriteBackIs
  <1>3. SessionShape'
    BY <1>1, <1>2 DEF SessionInv, SessionShape
  <1>4. Session!SyncedKept'
    <2>1. CASE Session!Stale \/ Session!Missing
      BY <1>1, <1>2, <2>1 DEF SessionInv, Session!SyncedKept
    <2>2. CASE ~Session!Stale /\ ~Session!Missing
      BY <1>1, <1>2, <2>2 DEF SessionInv, Session!SyncedKept, DirtyCovers, Session!Stale
    <2> QED
      BY <2>1, <2>2
  <1>5. Session!PathRight' /\ Session!CrashExplained' /\ Session!KeywordsFit'
    BY <1>1 DEF SessionInv, Session!PathRight, Session!CrashExplained, Session!KeywordsFit
  <1> QED
    BY <1>2, <1>3, <1>4, <1>5 DEF SessionInv

\* ls and the two forms of cd.
LEMMA BrowseInv ==
  ASSUME SessionInv, Session!ls_func \/ Session!cd_up \/ \E n \in EntryNames : Session!cd_func(n)
  PROVE  SessionInv' /\ Unmixed
  <1>1. /\ opens > 0 /\ proc = "running" /\ UNCHANGED <<proc, keywords_cnt, opens, formatted, safe>>
        /\ \E W \in SUBSET uf.dirty : Session!WriteBack(uf.items, uf.dirty, W)
    BY DEF Session!ls_func, Session!cd_up, Session!cd_func, Session!OnVolume, Session!History
  <1>2. dir = cur_dir_full \/ limited
    BY <1>1 DEF SessionInv, Session!PathRight
  <1>3. dir' = cur_dir_full' \/ limited'
    <2>1. CASE Session!ls_func
      BY <1>2, <2>1 DEF Session!ls_func, Session!PathOnly
    <2>2. CASE Session!cd_up
      BY <1>2, <2>2 DEF Session!cd_up, Session!Parent
    <2>3. ASSUME NEW n \in EntryNames, Session!cd_func(n) PROVE dir' = cur_dir_full' \/ limited'
      <3>1. CASE /\ dir' = Append(dir, n) /\ cur_dir_full' = Session!Entered(cur_dir_full, n)
                 /\ limited' = (limited \/ cur_dir_full' = cur_dir_full)
        <4>1. CASE limited \/ cur_dir_full' = cur_dir_full
          BY <3>1, <4>1, Zenon
        <4>2. CASE ~limited /\ cur_dir_full' # cur_dir_full
          BY <1>2, <3>1, <4>2 DEF Session!Entered
        <4> QED
          BY <4>1, <4>2
      <3>2. CASE UNCHANGED <<dir, cur_dir_full, limited>> \/ limited' = TRUE
        BY <1>2, <3>2
      <3> QED
        BY <2>3, <3>1, <3>2 DEF Session!cd_func, Session!PathOnly
    <2> QED
      BY <2>1, <2>2, <2>3
  <1>4. Session!PathRight'
    BY <1>3 DEF Session!PathRight
  <1> QED
    BY <1>1, <1>4, WorksOnInv

\* A format under an open session makes its volume an old one.
LEMMA FormatInv ==
  ASSUME SessionInv, Session!ufat_format
  PROVE  SessionInv' /\ Unmixed
  <1>1. /\ proc = "running" /\ UNCHANGED <<uf, proc, keywords_cnt, opens, dir, cur_dir_full, limited>>
        /\ safe' = {} /\ formatted' = TRUE /\ disk.gen # -2
        /\ disk' = [gen |-> IF disk.gen < 1 THEN 1 ELSE disk.gen + 1, items |-> {}, mixed |-> FALSE]
    BY DEF Session!ufat_format, Session!PathOnly, SessionInv, SessionShape
  <1>2. /\ disk'.gen = (IF disk.gen < 1 THEN 1 ELSE disk.gen + 1) /\ disk'.mixed = FALSE
        /\ disk' = [gen |-> disk'.gen, items |-> disk'.items, mixed |-> disk'.mixed]
    BY <1>1
  <1>3. disk'.mixed \in BOOLEAN
    BY <1>2, Zenon
  <1>4. SessionShape'
    BY <1>1, <1>2, <1>3 DEF SessionInv, SessionShape
  <1>5. Generations' /\ uf'.gen # disk'.gen
    BY <1>1, <1>2 DEF SessionInv, SessionShape, Generations
  <1>6. DirtyCovers' /\ Session!SyncedKept' /\ Unmixed
    BY <1>1, <1>2, <1>5 DEF DirtyCovers, Session!SyncedKept, Unmixed
  <1>7. Session!PathRight' /\ Session!CrashExplained' /\ Session!KeywordsFit'
    BY <1>1 DEF SessionInv, Session!PathRight, Session!CrashExplained, Session!KeywordsFit
  <1> QED
    BY <1>4, <1>5, <1>6, <1>7 DEF SessionInv

\* A crash leaves all but the process as it is.
LEMMA CrashInv ==
  ASSUME SessionInv, Session!Crash, Session!Missing \/ disk.gen = 0 \/ (uf.dev /\ opens = 0)
  PROVE  SessionInv' /\ Unmixed
  <1>1. /\ proc' = "crashed"
        /\ UNCHANGED <<uf, disk, dir, cur_dir_full, limited, keywords_cnt, opens, formatted, safe>>
    BY DEF Session!Crash, Session!NoWriteBack, Session!PathOnly, Session!History
  <1>2. Session!CrashExplained'
    BY <1>1 DEF Session!CrashExplained, Session!Missing
  <1>3. SessionShape' /\ Generations' /\ DirtyCovers' /\ Unmixed
    BY <1>1 DEF SessionInv, SessionShape, Generations, DirtyCovers, Unmixed
  <1>4. Session!SyncedKept' /\ Session!PathRight' /\ Session!KeywordsFit'
    BY <1>1 DEF SessionInv, Session!SyncedKept, Session!PathRight, Session!KeywordsFit
  <1> QED
    BY <1>2, <1>3, <1>4 DEF SessionInv

\* A name that finds room in its place leaves the count within the table.
LEMMA RoomIs ==
  ASSUME NEW slot \in Nat, NEW n \in EntryNames, Session!Room(slot, n)
  PROVE  slot + 1 <= MAX_KEY_WORD_CNT
  <1>1. /\ MAX_KEY_WORD_CNT \in Nat /\ MAX_KEY_WORD_SIZE \in Nat /\ NameLen[n] \in Nat \ {0}
    BY KeywordAssumption
  <1>2. /\ slot * MAX_KEY_WORD_SIZE \in Nat /\ MAX_KEY_WORD_CNT * MAX_KEY_WORD_SIZE \in Nat
        /\ slot * MAX_KEY_WORD_SIZE + NameLen[n] <= MAX_KEY_WORD_CNT * MAX_KEY_WORD_SIZE
    BY <1>1, TimesMono DEF Session!Room
  <1>3. CASE MAX_KEY_WORD_CNT <= slot
    <2>1. MAX_KEY_WORD_CNT * MAX_KEY_WORD_SIZE <= slot * MAX_KEY_WORD_SIZE
      BY <1>1, <1>3, TimesMono
    <2> QED
      BY <1>1, <1>2, <2>1
  <1> QED
    BY <1>1, <1>3

\* What shell_add_keyword does to the table for the names of a root directory.
LEMMA AddKeywordsIs ==
  ASSUME SessionInv, proc = "running", NEW k \in Nat, NEW names \in [1 .. k -> EntryNames],
         Session!AddKeywords(names), opens' > 0
  PROVE  /\ proc' \in {"running", "overrun"} /\ keywords_cnt' \in Nat
         /\ Session!KeywordsFit'
  <1>1. keywords_cnt \in Nat /\ keywords_cnt <= MAX_KEY_WORD_CNT /\ MAX_KEY_WORD_CNT \in Nat
    BY KeywordAssumption DEF SessionInv, SessionShape, Session!KeywordsFit
  <1>2. DOMAIN names = 1 .. k /\ Len(names) = k
    OBVIOUS
  <1>3. CASE /\ \A i \in 1 .. k : Session!Room(keywords_cnt + i - 1, names[i])
             /\ keywords_cnt' = keywords_cnt + k /\ proc' = proc
    <2>1. CASE k = 0
      BY <1>1, <1>3, <2>1 DEF Session!KeywordsFit
    <2>2. CASE k > 0
      <3>1. names[k] \in EntryNames /\ keywords_cnt + k - 1 \in Nat
        BY <1>1, <2>2
      <3>2. keywords_cnt + k - 1 + 1 <= MAX_KEY_WORD_CNT
        <4> HIDE DEF Session!Room
        <4>1. Session!Room(keywords_cnt + k - 1, names[k])
          BY <1>3, <2>2
        <4> QED
          BY <3>1, <4>1, RoomIs
      <3> QED
        BY <1>1, <1>3, <3>2 DEF Session!KeywordsFit
    <2> QED
      BY <2>1, <2>2
  <1>4. ASSUME NEW i \in 1 .. k, ~Session!Room(keywords_cnt + i - 1, names[i]),
               keywords_cnt' = keywords_cnt + i - 1, proc' = "overrun"
        PROVE  /\ proc' \in {"running", "overrun"} /\ keywords_cnt' \in Nat
               /\ Session!KeywordsFit'
    <2>1. names[i] \in EntryNames /\ keywords_cnt' \in Nat
      BY <1>1, <1>4
    <2>2. ~Session!Room(keywords_cnt', names[i])
      BY <1>4
    <2> QED
      BY <1>4, <2>1, <2>2 DEF Session!KeywordsFit, Session!Room
  <1> QED
    BY <1>2, <1>3, <1>4 DEF Session!AddKeywords

\* ufat open succeeds, finds no volume, or dies on an image of zeros
\* or on none.
LEMMA OpenInv ==
  ASSUME SessionInv, Session!ufat_open
  PROVE  SessionInv' /\ Unmixed
  <1>1. CASE (disk.gen = 0 \/ Session!Missing) /\ Session!Crash
    BY <1>1, CrashInv
  <1>2. CASE /\ disk.gen = -1 \/ disk.mixed
             /\ uf' = [uf EXCEPT !.dev = TRUE, !.dirty = {}]
             /\ UNCHANGED <<disk, dir, cur_dir_full, limited, proc, keywords_cnt, opens, formatted, safe>>
    <2>1. uf' = [dev |-> TRUE, gen |-> uf.gen, items |-> uf.items, dirty |-> {}]
      BY <1>2 DEF SessionInv, SessionShape
    <2>2. /\ uf'.gen = uf.gen /\ uf'.items = uf.items
          /\ uf' = [dev |-> uf'.dev, gen |-> uf'.gen, items |-> uf'.items, dirty |-> uf'.dirty]
      BY <2>1
    <2>3. SessionShape' /\ Generations' /\ DirtyCovers' /\ Unmixed
      BY <1>2, <2>2 DEF SessionInv, SessionShape, Generations, DirtyCovers, Unmixed
    <2>4. Session!SyncedKept' /\ Session!PathRight' /\ Session!KeywordsFit'
      BY <1>2, <2>2 DEF SessionInv, Session!SyncedKept, Session!PathRight, Session!KeywordsFit
    <2>5. Session!CrashExplained'
      BY <1>2 DEF Session!ufat_open, Session!CrashExplained
    <2> QED
      BY <2>3, <2>4, <2>5 DEF SessionInv
  <1>3. CASE /\ disk.gen > 0
             /\ uf' = Session!OpenedUf /\ dir' = <<>> /\ cur_dir_full' = <<>>
             /\ \E k \in 0 .. MaxEntries : \E names \in [1 .. k -> EntryNames] :
                   Session!Listed(names) /\ Session!AddKeywords(names)
             /\ opens' = opens + 1 /\ limited' = FALSE /\ formatted' = FALSE
             /\ UNCHANGED <<disk, safe>>
    <2>1. /\ uf'.gen = disk.gen /\ uf'.items = disk.items
          /\ uf' = [dev |-> uf'.dev, gen |-> uf'.gen, items |-> uf'.items, dirty |-> uf'.dirty]
      BY <1>3 DEF Session!OpenedUf
    <2>5. /\ proc' \in {"running", "overrun"} /\ keywords_cnt' \in Nat
          /\ Session!KeywordsFit'
      <3>1. proc = "running" /\ opens' > 0
        BY <1>3 DEF Session!ufat_open, SessionInv, SessionShape
      <3>2. PICK k \in 0 .. MaxEntries : \E names \in [1 .. k -> EntryNames] : Session!AddKeywords(names)
        BY <1>3
      <3>3. k \in Nat
        OBVIOUS
      <3> QED
        BY <3>1, <3>2, <3>3, AddKeywordsIs
    <2>2. SessionShape' /\ Generations' /\ DirtyCovers' /\ Unmixed
      BY <1>3, <2>1, <2>5 DEF SessionInv, SessionShape, Generations, DirtyCovers, Unmixed
    <2>3. Session!SyncedKept' /\ Session!PathRight'
      BY <1>3, <2>1 DEF SessionInv, Session!SyncedKept, Session!PathRight
    <2>4. Session!CrashExplained'
      BY <2>5 DEF Session!CrashExplained
    <2> QED
      BY <2>2, <2>3, <2>4, <2>5 DEF SessionInv
  <1> QED
    BY <1>1, <1>2, <1>3 DEF Session!ufat_open, Session!PathOnly, Session!History

\* The shell ends without a close, and starts again on the image there is.
LEMMA RestartInv ==
  ASSUME SessionInv, Session!exit_func \/ Session!main
  PROVE  SessionInv' /\ Unmixed
  <1>1. CASE Session!exit_func
    BY <1>1 DEF Session!exit_func, Session!NoWriteBack, Session!PathOnly, Session!History,
       SessionInv, SessionShape, Generations, DirtyCovers, Unmixed,
       Session!SyncedKept, Session!PathRight, Session!CrashExplained, Session!KeywordsFit
  <1>2. CASE Session!main
    <2>1. /\ uf' = Session!Closed /\ proc' = "running" /\ opens' = 0 /\ safe' = safe
          /\ keywords_cnt' = cmd_tbl_items
      BY <1>2 DEF Session!main, Session!Started
    <2>2. /\ uf'.gen = 0
          /\ uf' = [dev |-> uf'.dev, gen |-> uf'.gen, items |-> uf'.items, dirty |-> uf'.dirty]
      BY <2>1 DEF Session!Closed
    <2>3. \/ disk' = disk
          \/ disk' = [gen |-> 0, items |-> disk.items, mixed |-> disk.mixed]
          \/ proc = "overrun" /\ disk' = [gen |-> disk.gen, items |-> disk.items, mixed |-> TRUE]
      BY <1>2 DEF Session!main, SessionInv, SessionShape
    <2>4. /\ disk'.gen \in Int /\ disk'.items = disk.items
          /\ disk' = [gen |-> disk'.gen, items |-> disk'.items, mixed |-> disk'.mixed]
      BY <2>3 DEF SessionInv, SessionShape
    <2>5. \/ disk'.mixed = disk.mixed
          \/ proc = "overrun" /\ disk'.mixed = TRUE
      BY <2>3
    <2>6. disk'.mixed \in BOOLEAN
      BY <2>5, Zenon DEF SessionInv, SessionShape
    <2>7. SessionShape' /\ Session!KeywordsFit'
      BY <2>1, <2>2, <2>4, <2>6, KeywordAssumption DEF SessionShape, Session!KeywordsFit
    <2>8. Generations' /\ DirtyCovers'
      BY <2>1, <2>2 DEF Generations, DirtyCovers
    <2>9. Unmixed
      BY <2>5 DEF Unmixed
    <2>10. Session!SyncedKept'
      BY <2>1, <2>4, <2>5 DEF SessionInv, Session!SyncedKept
    <2>11. Session!PathRight' /\ Session!CrashExplained'
      BY <2>1 DEF Session!PathRight, Session!CrashExplained
    <2> QED
      BY <2>7, <2>8, <2>9, <2>10, <2>11 DEF SessionInv
  <1> QED
    BY <1>1, <1>2

\* Without an image there is nothing to keep.
LEMMA RemovedInv ==
  ASSUME SessionInv, Session!ImageRemoved
  PROVE  SessionInv' /\ Unmixed
  <1>1. /\ UNCHANGED <<uf, dir, cur_dir_full, limited, keywords_cnt, proc, opens, formatted>>
        /\ safe' = {} /\ disk' = [gen |-> -2, items |-> {}, mixed |-> FALSE]
    BY DEF Session!ImageRemoved, Session!PathOnly
  <1>2. /\ disk'.gen = -2 /\ disk'.mixed = FALSE
        /\ disk' = [gen |-> disk'.gen, items |-> disk'.items, mixed |-> disk'.mixed]
    BY <1>1
  <1>3. disk'.mixed \in BOOLEAN
    BY <1>2, Zenon
  <1>4. SessionShape'
    BY <1>1, <1>2, <1>3 DEF SessionInv, SessionShape
  <1>5. Generations' /\ DirtyCovers' /\ Unmixed
    BY <1>1, <1>2 DEF SessionInv, SessionShape, Generations, DirtyCovers, Unmixed
  <1>6. Session!SyncedKept' /\ Session!PathRight' /\ Session!CrashExplained' /\ Session!KeywordsFit'
    BY <1>1, <1>2 DEF SessionInv, Session!SyncedKept, Session!PathRight, Session!CrashExplained,
       Session!KeywordsFit, Session!Missing
  <1> QED
    BY <1>4, <1>5, <1>6 DEF SessionInv

\* A step of the session, or of another part.
LEMMA SessionStep ==
  ASSUME SessionInv, [PartsNext]_partVars
  PROVE  SessionInv' /\ (Unmixed \/ UNCHANGED sessionv)
  <1>1. CASE Session!SessionNext
    BY <1>1, CreateInv, SyncInv, BrowseInv, FormatInv, OpenInv, CrashInv, RestartInv, RemovedInv
       DEF Session!SessionNext, Session!NullDirectory, Session!ImageGone, Session!FormatNowhere, Session!OnVolume, Session!CHECK_FS_OPEN,
           Session!touch_func, Session!mkdir_func
  <1>2. CASE UNCHANGED sessionv
    BY <1>2 DEF sessionv, SessionInv, SessionShape, Generations, DirtyCovers,
       Session!SyncedKept, Session!PathRight, Session!CrashExplained, Session!KeywordsFit,
       Session!Missing
  <1> QED
    BY <1>1, <1>2 DEF PartsNext, PartsKept, partVars

\* SessionSound: for any names, depth, length of the path and number of
\* entries, formats and opens, and every size of the keyword table, what a
\* sync of vfat.c has covered stays through every exit, crash and restart until
\* the next format or the removal of the image; two volumes get mixed only
\* through a format under an open session or after a keyword overrun; the
\* prompt is right; the crashes of block.c and the overrun of
\* shell_add_keyword happen only as CrashExplained and KeywordsFit say.
THEOREM SessionCorrect == PartsSpec => SessionSound
  <1>1. PartsInit => SessionInv
    BY SessionInitInv DEF PartsInit
  <1>2. SessionInv /\ [PartsNext]_partVars => SessionInv' /\ (Unmixed \/ UNCHANGED sessionv)
    BY SessionStep
  <1>3. SessionInv => (which = "session" =>
            Session!SyncedKept /\ Session!PathRight /\ Session!CrashExplained /\ Session!KeywordsFit)
    BY DEF SessionInv
  <1>4. Unmixed \/ UNCHANGED sessionv =>
          [(disk'.mixed /\ ~disk.mixed) => (formatted /\ uf.gen # disk.gen) \/ proc = "overrun"]_(Session!sessionVars)
    BY DEF Unmixed, sessionv, Session!sessionVars
  <1> QED
    BY <1>1, <1>2, <1>3, <1>4, PTL DEF PartsSpec, SessionSound, Session!OneVolume

-----------------------------------------------------------------------------
(* The menu.  Lines and levels.                                            *)

\* The greatest of a set of numbers up to n.
LEMMA GreatestIs ==
  ASSUME NEW n \in Nat, NEW T, T \subseteq 0..n, T # {}
  PROVE  Menus!Max(T) \in T /\ \A y \in T : y <= Menus!Max(T)
  <1> DEFINE U == {n - x : x \in T}
  <1>0. \A x \in T : x \in Nat /\ n - x \in Nat
    OBVIOUS
  <1>1. U \subseteq Nat /\ U # {}
    BY <1>0
  <1>2. \E u \in U : \A y \in U : u <= y
    <2> HIDE DEF U
    <2> QED
      BY <1>1, LeastNat
  <1>3. PICK x \in T : \A y \in U : n - x <= y
    BY <1>2
  <1>4. ASSUME NEW y \in T PROVE x >= y
    <2>1. n - x <= n - y
      BY <1>3
    <2>2. x \in Nat /\ y \in Nat
      BY <1>0
    <2> HIDE DEF U
    <2> QED
      BY <2>1, <2>2
  <1> QED
    BY <1>0, <1>4 DEF Menus!Max

\* The last line before k whose level is below L, or 0.
Over(k, L) == Menus!Max({0} \cup {j \in 1 .. k - 1 : config[j].level < L})

\* It is a line before k.
LEMMA OverIs ==
  ASSUME NEW k \in Nat \ {0}, NEW L
  PROVE  Over(k, L) \in 0 .. k - 1
  <1>1. k - 1 \in Nat
    OBVIOUS
  <1>2. PICK T : T = {0} \cup {j \in 1 .. k - 1 : config[j].level < L}
    OBVIOUS
  <1>3. T \subseteq 0 .. k - 1 /\ T # {}
    BY <1>2
  <1>4. Menus!Max(T) \in T
    BY ONLY <1>1, <1>3, GreatestIs
  <1> QED
    BY <1>2, <1>3, <1>4 DEF Over

\* The line before, when its level is below.
LEMMA OverPrevious ==
  ASSUME NEW k \in Nat \ {0}, k > 1, NEW L, config[k - 1].level < L
  PROVE  Over(k, L) = k - 1
  <1>1. k - 1 \in Nat /\ k - 1 \in 1 .. k - 1
    OBVIOUS
  <1>2. PICK T : T = {0} \cup {j \in 1 .. k - 1 : config[j].level < L}
    OBVIOUS
  <1>3. T \subseteq 0 .. k - 1 /\ T # {} /\ k - 1 \in T
    BY <1>1, <1>2
  <1>4. Menus!Max(T) \in T /\ \A y \in T : y <= Menus!Max(T)
    BY ONLY <1>1, <1>3, GreatestIs
  <1> QED
    BY <1>2, <1>3, <1>4 DEF Over

\* A line that is not below L changes nothing.
LEMMA OverStays ==
  ASSUME NEW k \in Nat \ {0}, NEW L, ~(config[k].level < L)
  PROVE  Over(k + 1, L) = Over(k, L)
  <1>1. {j \in 1 .. (k + 1) - 1 : config[j].level < L} = {j \in 1 .. k - 1 : config[j].level < L}
    <2>1. 1 .. (k + 1) - 1 = (1 .. k - 1) \cup {k}
      OBVIOUS
    <2> QED
      BY <2>1
  <1> QED
    BY <1>1 DEF Over

\* The parent of a line comes before it.
LEMMA ParentBefore ==
  ASSUME NEW k \in Nat \ {0}
  PROVE  Menus!ParentLine(k) = Over(k, config[k].level) /\ Menus!ParentLine(k) \in 0 .. k - 1
  <1>1. Menus!ParentLine(k) = Over(k, config[k].level)
    BY DEF Menus!ParentLine, Over
  <1> QED
    BY <1>1, OverIs

\* Quotient and remainder.
LEMMA DivRem ==
  ASSUME NEW n \in Nat, NEW w \in Nat, w > 0
  PROVE  /\ n \div w \in Nat /\ n % w \in Nat /\ n % w < w
         /\ n = w * (n \div w) + (n % w)
  OBVIOUS

\* A product is bounded by another one.
LEMMA TimesLess ==
  ASSUME NEW F \in Nat \ {0}, NEW a \in Nat, NEW b \in Nat
  PROVE  (F * a < F * b <=> a < b) /\ (F * a = F * b <=> a = b)
  <1>1. ASSUME a < b PROVE F * a < F * b
    <2>1. PICK c \in Nat : b = a + 1 + c
      <3>1. b - a - 1 \in Nat /\ b = a + 1 + (b - a - 1)
        BY <1>1
      <3> QED
        BY <3>1
    <2>2. F * b = F * a + F + F * c /\ F * c \in Nat /\ F * a \in Nat
      BY <2>1
    <2> QED
      BY <2>2
  <1>2. ASSUME b < a PROVE F * b < F * a
    <2>1. PICK c \in Nat : a = b + 1 + c
      <3>1. a - b - 1 \in Nat /\ a = b + 1 + (a - b - 1)
        BY <1>2
      <3> QED
        BY <3>1
    <2>2. F * a = F * b + F + F * c /\ F * c \in Nat /\ F * b \in Nat
      BY <2>1
    <2> QED
      BY <2>2
  <1>3. F * a \in Nat /\ F * b \in Nat
    OBVIOUS
  <1> QED
    BY <1>1, <1>2, <1>3

\* Levels are whole numbers of FACTOR.
LEMMA WholeLevels ==
  ASSUME NEW F \in Nat \ {0}, NEW a \in Nat, NEW b \in Nat, b <= a
  PROVE  (F * a - F * b) \div F = a - b
  <1>1. PICK c \in Nat : a = b + c
    <2>1. a - b \in Nat /\ a = b + (a - b)
      OBVIOUS
    <2> QED
      BY <2>1
  <1>2. F * a - F * b = F * c /\ F * c \in Nat
    BY <1>1
  <1>3. PICK n \in Nat : n = F * c
    BY <1>2
  <1>4. PICK q \in Nat, r \in Nat : q = n \div F /\ r < F /\ n = F * q + r
    BY DivRem
  <1>5. q = c
    <2>1. CASE q < c
      <3>1. PICK d \in Nat : c = q + 1 + d
        <4>1. c - q - 1 \in Nat /\ c = q + 1 + (c - q - 1)
          BY <2>1
        <4> QED
          BY <4>1
      <3>2. F * c = F * q + F + F * d /\ F * d \in Nat /\ F * q \in Nat
        BY <3>1
      <3> QED
        BY <1>3, <1>4, <3>2
    <2>2. CASE c < q
      <3>1. F * c < F * q
        BY <2>2, TimesLess
      <3>2. F * q \in Nat
        OBVIOUS
      <3> QED
        BY <1>3, <1>4, <3>1, <3>2
    <2> QED
      BY <2>1, <2>2
  <1> QED
    BY <1>1, <1>2, <1>3, <1>4, <1>5

-----------------------------------------------------------------------------
(* The menu.  Frames and their items.                                      *)

ItemSet == [line : Nat, lower : Nat]
FrameSet == [cnt : Nat, items : Seq(ItemSet), up : Nat]

\* A frame is a record of its fields.
LEMMA FrameIs ==
  ASSUME NEW S, NEW fr \in [cnt : Nat, items : S, up : Nat], NEW c \in Nat, NEW its \in S
  PROVE  /\ [fr EXCEPT !.items = its] = [cnt |-> fr.cnt, items |-> its, up |-> fr.up]
         /\ [fr EXCEPT !.items = its, !.cnt = c] = [cnt |-> c, items |-> its, up |-> fr.up]
         /\ [cnt |-> fr.cnt, items |-> its, up |-> fr.up] \in [cnt : Nat, items : S, up : Nat]
         /\ [cnt |-> c, items |-> its, up |-> fr.up] \in [cnt : Nat, items : S, up : Nat]
  <1>1. fr = [cnt |-> fr.cnt, items |-> fr.items, up |-> fr.up] /\ fr.cnt \in Nat /\ fr.up \in Nat
    OBVIOUS
  <1>2. PICK a, b, d : a = fr.cnt /\ b = fr.items /\ d = fr.up /\ fr = [cnt |-> a, items |-> b, up |-> d]
    BY <1>1
  <1>3. [fr EXCEPT !.items = its] = [cnt |-> a, items |-> its, up |-> d]
    BY ONLY <1>2
  <1>4. [fr EXCEPT !.items = its, !.cnt = c] = [cnt |-> c, items |-> its, up |-> d]
    <2>1. [[cnt |-> a, items |-> its, up |-> d] EXCEPT !.cnt = c] = [cnt |-> c, items |-> its, up |-> d]
      OBVIOUS
    <2>2. [fr EXCEPT !.items = its, !.cnt = c] = [[fr EXCEPT !.items = its] EXCEPT !.cnt = c]
      BY ONLY Zenon
    <2> QED
      BY ONLY <1>3, <2>1, <2>2
  <1> QED
    BY <1>1, <1>2, <1>3, <1>4

\* gs is fs with the last item of frame f complete.
ItemDone(fs, f, l, gs) ==
    /\ gs \in Seq(FrameSet) /\ Len(gs) = Len(fs) /\ \A g \in 1..Len(fs) : g # f => gs[g] = fs[g]
    /\ gs[f].cnt = fs[f].cnt + 1 /\ gs[f].up = fs[f].up /\ Len(gs[f].items) = Len(fs[f].items)
    /\ \A n \in 1..Len(fs[f].items) :
          /\ gs[f].items[n].line = fs[f].items[n].line
          /\ gs[f].items[n].lower = IF n = fs[f].cnt + 1 THEN l ELSE fs[f].items[n].lower

\* Complete does that.
LEMMA CompleteIs ==
  ASSUME NEW fs \in Seq(FrameSet), NEW f \in 1..Len(fs), NEW l \in Nat,
         Len(fs[f].items) = fs[f].cnt + 1
  PROVE  ItemDone(fs, f, l, Menus!Complete(fs, f, l))
  <1>1. PICK fr \in FrameSet : fr = fs[f]
    OBVIOUS
  <1>2. fr.cnt \in Nat /\ fr.items \in Seq(ItemSet) /\ fr.up \in Nat /\ Len(fr.items) = fr.cnt + 1
    BY <1>1 DEF FrameSet
  <1>3. PICK c \in 1..Len(fr.items) : c = fr.cnt + 1
    BY <1>2
  <1>4. PICK it \in ItemSet : it = fr.items[c]
    BY <1>2
  <1>5. PICK nit : nit = [it EXCEPT !.lower = l]
    OBVIOUS
  <1>6. nit \in ItemSet /\ nit.line = it.line /\ nit.lower = l
    BY <1>5 DEF ItemSet
  <1>7. PICK its : its = [fr.items EXCEPT ![c] = nit]
    OBVIOUS
  <1>8. /\ its \in Seq(ItemSet) /\ Len(its) = Len(fr.items) /\ its[c] = nit
        /\ \A n \in 1..Len(fr.items) : n # c => its[n] = fr.items[n]
    <2>1. PICK S, b : S = ItemSet /\ b = fr.items
      OBVIOUS
    <2>2. b \in Seq(S) /\ nit \in S /\ c \in 1..Len(b) /\ its = [b EXCEPT ![c] = nit]
      BY <1>2, <1>6, <1>7, <2>1
    <2>3. /\ its \in Seq(S) /\ Len(its) = Len(b)
          /\ \A n \in 1..Len(b) : its[n] = IF n = c THEN nit ELSE b[n]
      BY ONLY <2>2, ExceptSeq
    <2> QED
      BY <2>1, <2>2, <2>3
  <1>9. PICK nfr : nfr = [fr EXCEPT !.items = its, !.cnt = fr.cnt + 1]
    OBVIOUS
  <1>10. nfr \in FrameSet /\ nfr.items = its /\ nfr.cnt = fr.cnt + 1 /\ nfr.up = fr.up
    <2>1. nfr = [cnt |-> fr.cnt + 1, items |-> its, up |-> fr.up] /\ nfr \in FrameSet
      <3>1. PICK S, d : S = Seq(ItemSet) /\ d = fr.cnt + 1 /\ d \in Nat
        BY <1>2
      <3>2. fr \in [cnt : Nat, items : S, up : Nat] /\ its \in S /\ nfr = [fr EXCEPT !.items = its, !.cnt = d]
        BY <1>8, <1>9, <3>1 DEF FrameSet
      <3>3. nfr = [cnt |-> d, items |-> its, up |-> fr.up] /\ nfr \in [cnt : Nat, items : S, up : Nat]
        BY ONLY <3>1, <3>2, FrameIs
      <3> QED
        BY <3>1, <3>3 DEF FrameSet
    <2> QED
      BY <2>1
  <1>11. PICK gs : gs = [fs EXCEPT ![f] = nfr]
    OBVIOUS
  <1>12. /\ gs \in Seq(FrameSet) /\ Len(gs) = Len(fs) /\ gs[f] = nfr
         /\ \A g \in 1..Len(fs) : g # f => gs[g] = fs[g]
    BY <1>10, <1>11, ExceptSeq
  <1>13. Menus!Complete(fs, f, l) = gs
    <2>1. PICK x : x = [fs EXCEPT ![f].items[fs[f].cnt + 1].lower = l]
      OBVIOUS
    <2>2. Menus!Complete(fs, f, l) = [x EXCEPT ![f].cnt = @ + 1]
      BY <2>1 DEF Menus!Complete
    <2>3. PICK mfr : mfr = [fr EXCEPT !.items = its]
      OBVIOUS
    <2>4. x = [fs EXCEPT ![f] = mfr]
      BY <1>1, <1>3, <1>4, <1>5, <1>7, <2>1, <2>3
    <2>5. mfr \in FrameSet /\ x[f] = mfr /\ DOMAIN x = DOMAIN fs /\ mfr.cnt = fr.cnt
      <3>1. mfr = [cnt |-> fr.cnt, items |-> its, up |-> fr.up] /\ mfr \in FrameSet
        BY <1>2, <1>8, <2>3, FrameIs DEF FrameSet
      <3> QED
        BY <2>4, <3>1
    <2>6. [mfr EXCEPT !.cnt = @ + 1] = nfr
      <3>1. mfr = [cnt |-> fr.cnt, items |-> its, up |-> fr.up]
        BY <1>2, <1>8, <2>3, FrameIs DEF FrameSet
      <3>2. nfr = [cnt |-> fr.cnt + 1, items |-> its, up |-> fr.up]
        <4>1. PICK S, d : S = Seq(ItemSet) /\ d = fr.cnt + 1 /\ d \in Nat
          BY <1>2
        <4>2. fr \in [cnt : Nat, items : S, up : Nat] /\ its \in S /\ nfr = [fr EXCEPT !.items = its, !.cnt = d]
          BY <1>8, <1>9, <4>1 DEF FrameSet
        <4> QED
          BY ONLY <4>1, <4>2, FrameIs
      <3> QED
        BY <3>1, <3>2
    <2>7. [x EXCEPT ![f].cnt = @ + 1] = [x EXCEPT ![f] = nfr]
      BY <2>5, <2>6
    <2>8. [x EXCEPT ![f] = nfr] = gs
      BY <1>11, <2>4
    <2> QED
      BY <2>2, <2>7, <2>8
  <1>14. \A n \in 1..Len(fr.items) : its[n].line = fr.items[n].line /\ its[n].lower = IF n = c THEN l ELSE fr.items[n].lower
    BY <1>4, <1>6, <1>8
  <1> QED
    BY <1>1, <1>3, <1>8, <1>10, <1>12, <1>13, <1>14 DEF ItemDone

\* gs is fs with one more item in frame f.
ItemAdded(fs, f, k, gs) ==
    /\ gs \in Seq(FrameSet) /\ Len(gs) = Len(fs) /\ \A g \in 1..Len(fs) : g # f => gs[g] = fs[g]
    /\ gs[f].cnt = fs[f].cnt /\ gs[f].up = fs[f].up /\ Len(gs[f].items) = Len(fs[f].items) + 1
    /\ \A n \in 1..Len(fs[f].items) : gs[f].items[n] = fs[f].items[n]
    /\ gs[f].items[Len(fs[f].items) + 1].line = k

\* SetItem does that behind complete items.
LEMMA SetItemIs ==
  ASSUME NEW fs \in Seq(FrameSet), NEW f \in 1..Len(fs), NEW k \in Nat,
         Len(fs[f].items) = fs[f].cnt
  PROVE  ItemAdded(fs, f, k, Menus!SetItem(fs, f, Menus!Item(k)))
  <1>1. PICK fr \in FrameSet : fr = fs[f]
    OBVIOUS
  <1>2. fr.cnt \in Nat /\ fr.items \in Seq(ItemSet) /\ fr.up \in Nat /\ Len(fr.items) = fr.cnt
    BY <1>1 DEF FrameSet
  <1>3. PICK it : it = Menus!Item(k)
    OBVIOUS
  <1>4. it \in ItemSet /\ it.line = k
    BY <1>3 DEF Menus!Item, ItemSet
  <1>5. PICK its : its = SubSeq(fr.items, 1, fr.cnt) \o <<it>>
    OBVIOUS
  <1>6. /\ its \in Seq(ItemSet) /\ Len(its) = fr.cnt + 1 /\ its[fr.cnt + 1] = it
        /\ \A n \in 1..fr.cnt : its[n] = fr.items[n]
    <2>1. SubSeq(fr.items, 1, fr.cnt) = fr.items
      BY <1>2, SubSeqFull
    <2>2. its = Append(fr.items, it)
      BY <1>2, <1>4, <1>5, <2>1, AppendIsConcat
    <2> QED
      BY <1>2, <1>4, <2>2
  <1>7. PICK nfr : nfr = [fr EXCEPT !.items = its]
    OBVIOUS
  <1>8. nfr \in FrameSet /\ nfr.items = its /\ nfr.cnt = fr.cnt /\ nfr.up = fr.up
    BY <1>2, <1>6, <1>7 DEF FrameSet
  <1>9. PICK gs : gs = [fs EXCEPT ![f] = nfr]
    OBVIOUS
  <1>10. /\ gs \in Seq(FrameSet) /\ Len(gs) = Len(fs) /\ gs[f] = nfr
         /\ \A g \in 1..Len(fs) : g # f => gs[g] = fs[g]
    BY <1>8, <1>9, ExceptSeq
  <1>11. Menus!SetItem(fs, f, it) = gs
    BY <1>1, <1>5, <1>7, <1>9 DEF Menus!SetItem
  <1> QED
    BY <1>1, <1>2, <1>3, <1>4, <1>6, <1>8, <1>10, <1>11 DEF ItemAdded

-----------------------------------------------------------------------------
(* The menu.  The tree after the first K lines: own names the line whose   *)
(* menu a frame is, 0 for the top.                                         *)

\* The lines up to K whose parent is p.
Kin(K, p) == {j \in 1..K : Menus!ParentLine(j) = p}

\* One more line.
LEMMA KinGrows ==
  ASSUME NEW K \in Nat, NEW p
  PROVE  Kin(K + 1, p) = IF Menus!ParentLine(K + 1) = p THEN Kin(K, p) \cup {K + 1} ELSE Kin(K, p)
  <1>1. 1..(K + 1) = (1..K) \cup {K + 1}
    OBVIOUS
  <1> QED
    BY <1>1 DEF Kin

\* The lines of a frame.
LineSet(fr) == {fr.items[n].line : n \in 1..Len(fr.items)}

\* A frame has the lines of one parent, in order.
FrameOk(fr, N, K, p) ==
    /\ fr.up \in 0..N /\ fr.cnt <= Len(fr.items) /\ 1 <= Len(fr.items)
    /\ LineSet(fr) = Kin(K, p)
    /\ \A m, n \in 1..Len(fr.items) : m < n => fr.items[m].line < fr.items[n].line

\* The menu below a complete item is the frame of its line.
LowerOk(fs, own, f, n) ==
    IF fs[f].items[n].lower = 0 THEN \A g \in 1..Len(fs) : own[g] # fs[f].items[n].line
    ELSE /\ fs[f].items[n].lower \in 1..Len(fs)
         /\ own[fs[f].items[n].lower] = fs[f].items[n].line
         /\ fs[fs[f].items[n].lower].up = f

Tree(fs, K, own) ==
    /\ fs \in Seq(FrameSet) /\ K \in Nat
    /\ \A f \in 1..Len(fs) : own[f] \in 0 .. K - 1
    /\ \A f, g \in 1..Len(fs) : own[f] = own[g] => f = g
    /\ \A f \in 1..Len(fs) : FrameOk(fs[f], Len(fs), K, own[f])
    /\ \A f \in 1..Len(fs) : \A n \in 1..fs[f].cnt : LowerOk(fs, own, f, n)
    /\ \A j \in 1..K : \E g \in 1..Len(fs) : own[g] = Menus!ParentLine(j)
    /\ fs # <<>> => own[1] = 0

\* Every item is complete.
AllDone(fs) == \A f \in 1..Len(fs) : Len(fs[f].items) = fs[f].cnt

\* Every item but the last one of frame t is complete, and that one is of line K.
AllButOne(fs, t, K) ==
    /\ t \in 1..Len(fs) /\ \A f \in 1..Len(fs) : f # t => Len(fs[f].items) = fs[f].cnt
    /\ Len(fs[t].items) = fs[t].cnt + 1 /\ fs[t].items[fs[t].cnt + 1].line = K
    /\ \A f \in 1..Len(fs) : \A n \in 1..fs[f].cnt : fs[f].items[n].line < K

\* The fields of a frame.
LEMMA FieldsOf ==
  ASSUME NEW fs \in Seq(FrameSet), NEW f \in 1..Len(fs)
  PROVE  /\ fs[f] \in FrameSet /\ fs[f].cnt \in Nat /\ fs[f].up \in Nat
         /\ fs[f].items \in Seq(ItemSet) /\ Len(fs[f].items) \in Nat
         /\ \A n \in 1..Len(fs[f].items) : fs[f].items[n].line \in Nat /\ fs[f].items[n].lower \in Nat
  <1>1. fs[f] \in FrameSet
    OBVIOUS
  <1>2. fs[f].cnt \in Nat /\ fs[f].up \in Nat /\ fs[f].items \in Seq(ItemSet)
    BY <1>1 DEF FrameSet
  <1>3. \A n \in 1..Len(fs[f].items) : fs[f].items[n] \in ItemSet
    BY <1>2
  <1>4. \A it \in ItemSet : it.line \in Nat /\ it.lower \in Nat
    BY DEF ItemSet
  <1> QED
    BY <1>1, <1>2, <1>3, <1>4

\* The last item of frame t is complete: it has no lower frame.
LEMMA DoneTree ==
  ASSUME NEW fs, NEW K \in Nat, NEW own, Tree(fs, K, own), NEW t, AllButOne(fs, t, K),
         NEW gs, ItemDone(fs, t, 0, gs)
  PROVE  Tree(gs, K, own) /\ AllDone(gs) /\ Len(gs) = Len(fs)
  <1>1. fs \in Seq(FrameSet) /\ gs \in Seq(FrameSet) /\ Len(gs) = Len(fs) /\ t \in 1..Len(fs)
    BY DEF Tree, ItemDone, AllButOne
  <1>2. /\ fs[t].cnt \in Nat /\ Len(fs[t].items) = fs[t].cnt + 1 /\ fs[t].items[fs[t].cnt + 1].line = K
        /\ gs[t].cnt = fs[t].cnt + 1 /\ gs[t].up = fs[t].up /\ Len(gs[t].items) = Len(fs[t].items)
        /\ \A f \in 1..Len(fs) : f # t => gs[f] = fs[f] /\ Len(fs[f].items) = fs[f].cnt
    BY <1>1, FieldsOf DEF AllButOne, ItemDone
  <1>3. \A n \in 1..Len(fs[t].items) : gs[t].items[n].line = fs[t].items[n].line
    BY DEF ItemDone
  <1>4. \A f \in 1..Len(fs) : gs[f].up = fs[f].up
    BY <1>2
  <1>5. AllDone(gs)
    BY <1>1, <1>2 DEF AllDone
  <1>6. ASSUME NEW f \in 1..Len(fs) PROVE FrameOk(gs[f], Len(gs), K, own[f])
    <2>1. FrameOk(fs[f], Len(fs), K, own[f])
      BY DEF Tree
    <2>2. CASE f # t
      BY <1>1, <1>2, <2>1, <2>2
    <2>3. CASE f = t
      <3>1. LineSet(gs[t]) = LineSet(fs[t])
        BY <1>2, <1>3 DEF LineSet
      <3>2. gs[t].cnt <= Len(gs[t].items)
        BY <1>2
      <3> QED
        BY <1>1, <1>2, <1>3, <2>1, <2>3, <3>1, <3>2 DEF FrameOk
    <2> QED
      BY <2>2, <2>3
  <1>7. ASSUME NEW f \in 1..Len(fs), NEW n \in 1..gs[f].cnt PROVE LowerOk(gs, own, f, n)
    <2>1. CASE f # t
      <3>1. gs[f] = fs[f] /\ n \in 1..fs[f].cnt
        BY <1>2, <2>1
      <3>2. LowerOk(fs, own, f, n)
        BY <3>1 DEF Tree
      <3> QED
        BY <1>1, <1>4, <3>1, <3>2 DEF LowerOk
    <2>2. CASE f = t /\ n # fs[t].cnt + 1
      <3>1. n \in 1..fs[t].cnt /\ n \in 1..Len(fs[t].items)
        BY <1>2, <2>2
      <3>2. LowerOk(fs, own, t, n)
        BY <1>1, <3>1 DEF Tree
      <3>3. gs[t].items[n].line = fs[t].items[n].line /\ gs[t].items[n].lower = fs[t].items[n].lower
        BY <2>2, <3>1 DEF ItemDone
      <3> QED
        BY <1>1, <1>4, <2>2, <3>2, <3>3 DEF LowerOk
    <2>3. CASE f = t /\ n = fs[t].cnt + 1
      <3>1. n \in 1..Len(fs[t].items)
        BY <1>2, <2>3
      <3>2. gs[t].items[n].line = K /\ gs[t].items[n].lower = 0
        BY <1>2, <2>3, <3>1 DEF ItemDone
      <3>3. \A g \in 1..Len(fs) : own[g] # K
        <4>1. \A g \in 1..Len(fs) : own[g] \in 0 .. K - 1
          BY DEF Tree
        <4> QED
          BY <4>1
      <3> QED
        BY <1>1, <2>3, <3>2, <3>3 DEF LowerOk
    <2> QED
      BY <2>1, <2>2, <2>3
  <1>8. Tree(gs, K, own)
    <2>1. gs # <<>> => fs # <<>>
      BY <1>1
    <2>2. /\ \A f \in 1..Len(gs) : own[f] \in 0 .. K - 1
          /\ \A f, g \in 1..Len(gs) : own[f] = own[g] => f = g
          /\ \A j \in 1..K : \E g \in 1..Len(gs) : own[g] = Menus!ParentLine(j)
          /\ gs # <<>> => own[1] = 0
      BY <1>1, <2>1 DEF Tree
    <2> QED
      BY <1>1, <1>6, <1>7, <2>2 DEF Tree
  <1> QED
    BY <1>1, <1>5, <1>8

\* A line joins the frame of its parent.
LEMMA AddTree ==
  ASSUME NEW fs, NEW K \in Nat, NEW own, Tree(fs, K, own), AllDone(fs),
         NEW t \in 1..Len(fs), own[t] = Menus!ParentLine(K + 1),
         NEW gs, ItemAdded(fs, t, K + 1, gs)
  PROVE  Tree(gs, K + 1, own) /\ AllButOne(gs, t, K + 1) /\ Len(gs) = Len(fs)
  <1>1. fs \in Seq(FrameSet) /\ gs \in Seq(FrameSet) /\ Len(gs) = Len(fs)
    BY DEF Tree, ItemAdded
  <1>2. PICK c \in Nat : c = fs[t].cnt
    BY <1>1, FieldsOf
  <1>3. /\ Len(fs[t].items) = c /\ gs[t].cnt = c /\ gs[t].up = fs[t].up /\ Len(gs[t].items) = c + 1
        /\ gs[t].items[c + 1].line = K + 1 /\ \A n \in 1..c : gs[t].items[n] = fs[t].items[n]
        /\ \A f \in 1..Len(fs) : f # t => gs[f] = fs[f]
    BY <1>1, <1>2 DEF AllDone, ItemAdded
  <1>4. \A f \in 1..Len(fs) : gs[f].up = fs[f].up /\ gs[f].cnt = fs[f].cnt
    BY <1>2, <1>3
  <1>5. \A f \in 1..Len(fs) : FrameOk(fs[f], Len(fs), K, own[f]) /\ own[f] \in 0 .. K - 1
    BY DEF Tree
  <1>6. \A f \in 1..Len(fs) : f # t => own[f] # own[t]
    BY DEF Tree
  <1>7. ASSUME NEW f \in 1..Len(fs), NEW n \in 1..Len(fs[f].items) PROVE fs[f].items[n].line \in 1..K
    <2>1. fs[f].items[n].line \in LineSet(fs[f])
      BY DEF LineSet
    <2> QED
      BY <1>5, <2>1 DEF FrameOk, Kin
  <1>8. ASSUME NEW f \in 1..Len(fs), f # t PROVE FrameOk(gs[f], Len(gs), K + 1, own[f])
    <2>1. Kin(K + 1, own[f]) = Kin(K, own[f])
      BY <1>6, <1>8, KinGrows
    <2> QED
      BY <1>1, <1>3, <1>5, <1>8, <2>1 DEF FrameOk
  <1>9. FrameOk(gs[t], Len(gs), K + 1, own[t])
    <2>1. Kin(K + 1, own[t]) = Kin(K, own[t]) \cup {K + 1}
      BY KinGrows
    <2>2. LineSet(fs[t]) = {fs[t].items[n].line : n \in 1..c}
      BY <1>3 DEF LineSet
    <2>3. LineSet(gs[t]) = {gs[t].items[n].line : n \in 1..(c + 1)}
      BY <1>3 DEF LineSet
    <2>4. 1..(c + 1) = (1..c) \cup {c + 1}
      OBVIOUS
    <2>5. LineSet(gs[t]) = LineSet(fs[t]) \cup {K + 1}
      <3>1. {gs[t].items[n].line : n \in 1..c} = {fs[t].items[n].line : n \in 1..c}
        BY <1>3
      <3>2. {gs[t].items[n].line : n \in (1..c) \cup {c + 1}}
              = {gs[t].items[n].line : n \in 1..c} \cup {gs[t].items[c + 1].line}
        OBVIOUS
      <3> QED
        BY <1>3, <2>2, <2>3, <2>4, <3>1, <3>2
    <2>6. ASSUME NEW m \in 1..(c + 1), NEW n \in 1..(c + 1), m < n
          PROVE  gs[t].items[m].line < gs[t].items[n].line
      <3>1. m \in 1..c
        BY <2>6
      <3>2. gs[t].items[m].line = fs[t].items[m].line /\ fs[t].items[m].line \in 1..K
        BY <1>3, <1>7, <3>1
      <3>3. CASE n = c + 1
        BY <1>3, <3>2, <3>3
      <3>4. CASE n # c + 1
        <4>1. n \in 1..c
          BY <3>4
        <4> QED
          BY <1>3, <1>5, <2>6, <3>1, <4>1 DEF FrameOk
      <3> QED
        BY <3>3, <3>4
    <2>7. gs[t].up \in 0..Len(gs) /\ gs[t].cnt <= Len(gs[t].items) /\ 1 <= Len(gs[t].items)
      BY <1>1, <1>3, <1>5 DEF FrameOk
    <2> QED
      BY <1>3, <1>5, <2>1, <2>5, <2>6, <2>7 DEF FrameOk
  <1>10. ASSUME NEW f \in 1..Len(fs), NEW n \in 1..gs[f].cnt PROVE LowerOk(gs, own, f, n) /\ gs[f].items[n].line < K + 1
    <2>1. n \in 1..fs[f].cnt /\ Len(fs[f].items) = fs[f].cnt
      BY <1>4 DEF AllDone
    <2>2. gs[f].items[n] = fs[f].items[n]
      <3>1. CASE f = t
        BY <1>2, <1>3, <2>1, <3>1
      <3>2. CASE f # t
        BY <1>3, <3>2
      <3> QED
        BY <3>1, <3>2
    <2>3. LowerOk(fs, own, f, n)
      BY <2>1 DEF Tree
    <2>4. gs[f].items[n].line \in 1..K
      BY <1>7, <2>1, <2>2
    <2>5. LowerOk(gs, own, f, n)
      BY <1>1, <1>4, <2>2, <2>3 DEF LowerOk
    <2> QED
      BY <2>4, <2>5
  <1>11. Tree(gs, K + 1, own)
    <2>1. gs # <<>> => fs # <<>>
      BY <1>1
    <2>2. \A f \in 1..Len(gs) : own[f] \in 0 .. (K + 1) - 1
      BY <1>1, <1>5
    <2>3. \A f, g \in 1..Len(gs) : own[f] = own[g] => f = g
      BY <1>1 DEF Tree
    <2>4. \A j \in 1..(K + 1) : \E g \in 1..Len(gs) : own[g] = Menus!ParentLine(j)
      <3>1. \A j \in 1..K : \E g \in 1..Len(gs) : own[g] = Menus!ParentLine(j)
        BY <1>1 DEF Tree
      <3>2. 1..(K + 1) = (1..K) \cup {K + 1}
        OBVIOUS
      <3> QED
        BY <1>1, <3>1, <3>2
    <2>5. gs # <<>> => own[1] = 0
      BY <2>1 DEF Tree
    <2>6. \A f \in 1..Len(gs) : FrameOk(gs[f], Len(gs), K + 1, own[f])
      BY <1>1, <1>8, <1>9
    <2>7. K + 1 \in Nat
      OBVIOUS
    <2> QED
      BY <1>1, <1>10, <2>2, <2>3, <2>4, <2>5, <2>6, <2>7 DEF Tree
  <1>12. AllButOne(gs, t, K + 1)
    BY <1>1, <1>3, <1>10 DEF AllButOne, AllDone
  <1> QED
    BY <1>1, <1>11, <1>12

\* own with the new frame, which is of line K.
Owned(own, N, K) == [g \in 1..(N + 1) |-> IF g = N + 1 THEN K ELSE own[g]]

\* A new frame.
FirstItem(k, up) == [cnt |-> 0, items |-> <<Menus!Item(k)>>, up |-> up]

\* Its fields.
LEMMA FirstItemIs ==
  ASSUME NEW k \in Nat, NEW up \in Nat
  PROVE  /\ FirstItem(k, up) \in FrameSet /\ FirstItem(k, up).cnt = 0 /\ FirstItem(k, up).up = up
         /\ Len(FirstItem(k, up).items) = 1 /\ FirstItem(k, up).items[1].line = k
  <1>1. PICK it : it = Menus!Item(k)
    OBVIOUS
  <1>2. it \in ItemSet /\ it.line = k
    BY <1>1 DEF Menus!Item, ItemSet
  <1>3. PICK its : its = <<it>>
    OBVIOUS
  <1>4. its \in Seq(ItemSet) /\ Len(its) = 1 /\ its[1] = it
    BY <1>2, <1>3
  <1>5. FirstItem(k, up) = [cnt |-> 0, items |-> its, up |-> up]
    BY <1>1, <1>3 DEF FirstItem
  <1>6. FirstItem(k, up) \in FrameSet
    BY <1>4, <1>5 DEF FrameSet
  <1> QED
    BY <1>2, <1>4, <1>5, <1>6

\* A frame of the one line K + 1.
LEMMA FirstItemOk ==
  ASSUME NEW K \in Nat, NEW N \in Nat, NEW fr, fr.up \in 0..N, fr.cnt = 0, Len(fr.items) = 1,
         fr.items[1].line = K + 1, Menus!ParentLine(K + 1) = K
  PROVE  FrameOk(fr, N, K + 1, K)
  <1>1. LineSet(fr) = {K + 1}
    <2>1. 1..1 = {1}
      OBVIOUS
    <2> QED
      BY <2>1 DEF LineSet
  <1>2. Kin(K, K) = {}
    <2> SUFFICES ASSUME NEW j \in 1..K, Menus!ParentLine(j) = K PROVE FALSE
      BY DEF Kin
    <2>1. j \in Nat \ {0}
      OBVIOUS
    <2>2. Menus!ParentLine(j) \in 0 .. j - 1
      BY <2>1, ParentBefore
    <2> QED
      BY <2>2
  <1>3. Kin(K + 1, K) = {K + 1}
    BY <1>2, KinGrows
  <1>4. fr.cnt <= Len(fr.items) /\ 1 <= Len(fr.items) /\ \A m, n \in 1..Len(fr.items) : ~(m < n)
    OBVIOUS
  <1> QED
    BY <1>1, <1>3, <1>4 DEF FrameOk

\* The first line of the file.
LEMMA FirstTree ==
  ASSUME Menus!ParentLine(1) = 0, NEW own, NEW gs, gs = Append(<<>>, FirstItem(1, 0))
  PROVE  Tree(gs, 1, Owned(own, 0, 0)) /\ AllButOne(gs, 1, 1) /\ Len(gs) = 1
  <1>1. PICK fr : fr = FirstItem(1, 0)
    OBVIOUS
  <1>2. fr \in FrameSet /\ fr.cnt = 0 /\ fr.up = 0 /\ Len(fr.items) = 1 /\ fr.items[1].line = 1
    BY <1>1, FirstItemIs
  <1>3. gs = <<fr>> /\ gs \in Seq(FrameSet) /\ Len(gs) = 1 /\ gs[1] = fr
    BY <1>1, <1>2
  <1>4. 1..Len(gs) = {1}
    BY <1>3
  <1>5. FrameOk(fr, 1, 0 + 1, 0)
    <2>1. fr.up \in 0..1 /\ 0 \in Nat /\ 1 \in Nat /\ fr.items[1].line = 0 + 1 /\ Menus!ParentLine(0 + 1) = 0
      BY <1>2
    <2> QED
      BY ONLY <1>2, <2>1, FirstItemOk
  <1>6. Owned(own, 0, 0)[1] = 0
    BY DEF Owned
  <1>7. \A f \in 1..Len(gs) : FrameOk(gs[f], Len(gs), 1, Owned(own, 0, 0)[f])
    BY <1>3, <1>4, <1>5, <1>6
  <1>8. \A f \in 1..Len(gs) : \A n \in 1..gs[f].cnt : FALSE
    BY <1>2, <1>3, <1>4
  <1>9. \A j \in 1..1 : j = 1
    OBVIOUS
  <1>10. Tree(gs, 1, Owned(own, 0, 0))
    BY <1>3, <1>4, <1>6, <1>7, <1>8, <1>9 DEF Tree
  <1>11. AllButOne(gs, 1, 1)
    <2>1. Len(fr.items) = fr.cnt + 1 /\ fr.items[fr.cnt + 1].line = 1 /\ 1 \in 1..Len(gs)
      BY <1>2, <1>4
    <2>2. \A f \in 1..Len(gs) : f = 1
      BY <1>4
    <2> QED
      BY <1>3, <1>8, <2>1, <2>2 DEF AllButOne
  <1> QED
    BY <1>3, <1>10, <1>11

\* A line goes one level below line K: the frame for it is the one after the N frames there are.
Pushing(fs, K, own, t, N, hs, gs) ==
    /\ K \in Nat \ {0} /\ N \in Nat /\ N = Len(fs) /\ hs = Append(fs, FirstItem(K + 1, t))
    /\ Tree(fs, K, own) /\ AllButOne(fs, t, K) /\ Menus!ParentLine(K + 1) = K /\ ItemDone(hs, t, N + 1, gs)

\* A line below the one before opens a frame.
LEMMA PushTree ==
  ASSUME NEW fs, NEW K, NEW own, NEW t, NEW N, NEW hs, NEW gs, Pushing(fs, K, own, t, N, hs, gs)
  PROVE  Tree(gs, K + 1, Owned(own, N, K)) /\ AllButOne(gs, N + 1, K + 1) /\ Len(gs) = N + 1
  <1> K \in Nat \ {0} /\ N \in Nat /\ N = Len(fs) /\ hs = Append(fs, FirstItem(K + 1, t))
    BY DEF Pushing
  <1> Tree(fs, K, own) /\ AllButOne(fs, t, K) /\ Menus!ParentLine(K + 1) = K /\ ItemDone(hs, t, N + 1, gs)
    BY DEF Pushing
  <1> DEFINE nown == Owned(own, N, K)
  <1>0. /\ \A f \in 1..N : nown[f] = own[f] /\ f # N + 1 /\ f \in 1..(N + 1)
        /\ nown[N + 1] = K /\ N + 1 \in 1..(N + 1)
        /\ \A f \in 1..(N + 1) : f \in 1..N \/ f = N + 1
    BY DEF Owned
  <1> HIDE DEF nown
  <1>1. fs \in Seq(FrameSet) /\ t \in 1..N /\ t \in Nat /\ K + 1 \in Nat
    BY DEF Tree, AllButOne
  <1>2. PICK fr : fr = FirstItem(K + 1, t)
    OBVIOUS
  <1>3. fr \in FrameSet /\ fr.cnt = 0 /\ fr.up = t /\ Len(fr.items) = 1 /\ fr.items[1].line = K + 1
    BY <1>1, <1>2, FirstItemIs
  <1>4. hs \in Seq(FrameSet) /\ Len(hs) = N + 1 /\ hs[N + 1] = fr /\ \A f \in 1..N : hs[f] = fs[f]
    BY <1>1, <1>2, <1>3, AppendProperties
  <1>5. PICK c \in Nat : c = fs[t].cnt
    BY <1>1, FieldsOf
  <1>6. /\ Len(fs[t].items) = c + 1 /\ fs[t].items[c + 1].line = K
        /\ \A f \in 1..N : f # t => Len(fs[f].items) = fs[f].cnt
        /\ \A f \in 1..N : \A n \in 1..fs[f].cnt : fs[f].items[n].line < K
    BY <1>5 DEF AllButOne
  <1>7. /\ gs \in Seq(FrameSet) /\ Len(gs) = N + 1 /\ gs[N + 1] = fr
        /\ \A f \in 1..N : f # t => gs[f] = fs[f]
        /\ gs[t].cnt = c + 1 /\ gs[t].up = fs[t].up /\ Len(gs[t].items) = c + 1
        /\ \A n \in 1..(c + 1) : /\ gs[t].items[n].line = fs[t].items[n].line
                                 /\ gs[t].items[n].lower = IF n = c + 1 THEN N + 1 ELSE fs[t].items[n].lower
    <2>1. hs[t] = fs[t] /\ t # N + 1 /\ t \in 1..(N + 1)
      BY <1>0, <1>1, <1>4
    <2> QED
      BY <1>0, <1>4, <1>5, <1>6, <2>1 DEF ItemDone
  <1>8. \A f \in 1..N : gs[f].up = fs[f].up
    BY <1>7
  <1>9. \A f \in 1..N : FrameOk(fs[f], N, K, own[f]) /\ own[f] \in 0 .. K - 1
    BY DEF Tree
  <1>10. ASSUME NEW f \in 1..N PROVE FrameOk(gs[f], N + 1, K + 1, own[f])
    <2>1. Kin(K + 1, own[f]) = Kin(K, own[f])
      <3>1. own[f] # K /\ K \in Nat
        BY <1>9
      <3> QED
        BY <3>1, KinGrows
    <2>2. fs[f].up \in 0..(N + 1)
      BY <1>9 DEF FrameOk
    <2>3. CASE f # t
      BY <1>7, <1>9, <2>1, <2>2, <2>3 DEF FrameOk
    <2>4. CASE f = t
      <3>1. LineSet(gs[t]) = LineSet(fs[t])
        <4>1. {gs[t].items[n].line : n \in 1..(c + 1)} = {fs[t].items[n].line : n \in 1..(c + 1)}
          <5>1. \A n \in 1..(c + 1) : gs[t].items[n].line = fs[t].items[n].line
            BY <1>7
          <5> QED
            BY ONLY <5>1
        <4> QED
          BY <1>6, <1>7, <4>1 DEF LineSet
      <3>2. gs[t].cnt <= Len(gs[t].items) /\ 1 <= Len(gs[t].items)
        BY <1>7
      <3>3. \A m, n \in 1..(c + 1) : m < n => gs[t].items[m].line < gs[t].items[n].line
        BY <1>1, <1>6, <1>7, <1>9 DEF FrameOk
      <3> QED
        BY <1>1, <1>7, <1>9, <2>1, <2>2, <2>4, <3>1, <3>2, <3>3 DEF FrameOk
    <2> QED
      BY <2>3, <2>4
  <1>11. FrameOk(fr, N + 1, K + 1, K)
    <2>1. fr.up \in 0..(N + 1) /\ K \in Nat /\ N + 1 \in Nat
      BY <1>1, <1>3
    <2> QED
      BY <1>3, <2>1, FirstItemOk
  <1>12. ASSUME NEW f \in 1..N, NEW n \in 1..gs[f].cnt
         PROVE  LowerOk(gs, nown, f, n) /\ gs[f].items[n].line < K + 1
    <2>1. CASE f # t \/ n # c + 1
      <3>1. n \in 1..fs[f].cnt /\ fs[f].cnt \in Nat
        <4>1. CASE f # t
          BY <1>1, <1>7, <4>1, FieldsOf
        <4>2. CASE f = t
          BY <1>5, <1>7, <2>1, <4>2
        <4> QED
          BY <4>1, <4>2
      <3>2. gs[f].items[n].line = fs[f].items[n].line /\ gs[f].items[n].lower = fs[f].items[n].lower
        <4>1. CASE f # t
          BY <1>7, <4>1
        <4>2. CASE f = t
          BY <1>7, <2>1, <4>2
        <4> QED
          BY <4>1, <4>2
      <3>3. LowerOk(fs, own, f, n)
        BY <3>1 DEF Tree
      <3>4. fs[f].items[n].line < K
        BY <1>6, <3>1
      <3>5. fs[f].items[n].line \in Nat
        <4>1. n \in 1..Len(fs[f].items)
          <5>1. fs[f].cnt <= Len(fs[f].items)
            BY <1>9 DEF FrameOk
          <5>2. Len(fs[f].items) \in Nat
            BY <1>1, FieldsOf
          <5> QED
            BY <3>1, <5>1, <5>2
        <4> QED
          BY <1>1, <4>1, FieldsOf
      <3>6. gs[f].items[n].line < K + 1
        BY <3>2, <3>4, <3>5
      <3>7. CASE fs[f].items[n].lower = 0
        <4>1. \A g \in 1..N : own[g] # fs[f].items[n].line
          BY <3>3, <3>7 DEF LowerOk
        <4>2. \A g \in 1..(N + 1) : nown[g] # fs[f].items[n].line
          BY <1>0, <3>4, <3>5, <4>1
        <4> QED
          BY <1>7, <3>2, <3>6, <3>7, <4>2 DEF LowerOk
      <3>8. CASE fs[f].items[n].lower # 0
        <4>1. PICK w : w = fs[f].items[n].lower
          OBVIOUS
        <4>2. w \in 1..N /\ own[w] = fs[f].items[n].line /\ fs[w].up = f
          BY <3>3, <3>8, <4>1 DEF LowerOk
        <4>3. w \in 1..(N + 1) /\ nown[w] = gs[f].items[n].line /\ gs[w].up = f
          BY <1>0, <1>8, <3>2, <4>2
        <4> QED
          BY <1>7, <3>2, <3>6, <3>8, <4>1, <4>3 DEF LowerOk
      <3> QED
        BY <3>7, <3>8
    <2>2. CASE f = t /\ n = c + 1
      <3>1. gs[f].items[n].line = K /\ gs[f].items[n].lower = N + 1 /\ c + 1 \in 1..(c + 1)
        BY <1>6, <1>7, <2>2
      <3>2. N + 1 # 0 /\ K < K + 1
        OBVIOUS
      <3> QED
        BY <1>0, <1>3, <1>7, <2>2, <3>1, <3>2 DEF LowerOk
    <2> QED
      BY <2>1, <2>2
  <1>13. \A n \in 1..gs[N + 1].cnt : FALSE
    BY <1>3, <1>7
  <1>14. Tree(gs, K + 1, nown)
    <2>1. \A f \in 1..(N + 1) : nown[f] \in 0 .. (K + 1) - 1
      BY <1>0, <1>9
    <2>2. \A f, g \in 1..(N + 1) : nown[f] = nown[g] => f = g
      <3>1. \A f, g \in 1..N : own[f] = own[g] => f = g
        BY DEF Tree
      <3>2. \A f \in 1..N : own[f] # K
        BY <1>9
      <3> QED
        BY <1>0, <3>1, <3>2
    <2>3. \A f \in 1..(N + 1) : FrameOk(gs[f], N + 1, K + 1, nown[f])
      BY <1>0, <1>7, <1>10, <1>11
    <2>4. \A f \in 1..(N + 1) : \A n \in 1..gs[f].cnt : LowerOk(gs, nown, f, n)
      BY <1>0, <1>12, <1>13
    <2>5. \A j \in 1..(K + 1) : \E g \in 1..(N + 1) : nown[g] = Menus!ParentLine(j)
      <3>1. \A j \in 1..K : \E g \in 1..N : own[g] = Menus!ParentLine(j)
        BY DEF Tree
      <3>2. \A j \in 1..(K + 1) : j \in 1..K \/ j = K + 1
        OBVIOUS
      <3> QED
        BY <1>0, <3>1, <3>2
    <2>6. nown[1] = 0
      <3>1. 1 \in 1..N /\ fs # <<>>
        BY <1>1
      <3>2. own[1] = 0
        BY <3>1 DEF Tree
      <3> QED
        BY <1>0, <3>1, <3>2
    <2> QED
      BY <1>1, <1>7, <2>1, <2>2, <2>3, <2>4, <2>5, <2>6 DEF Tree
  <1>15. AllButOne(gs, N + 1, K + 1)
    <2>1. \A f \in 1..N : Len(gs[f].items) = gs[f].cnt
      BY <1>6, <1>7
    <2>2. \A f \in 1..(N + 1) : \A n \in 1..gs[f].cnt : gs[f].items[n].line < K + 1
      BY <1>0, <1>12, <1>13
    <2>3. Len(fr.items) = fr.cnt + 1 /\ fr.items[fr.cnt + 1].line = K + 1
      BY <1>3
    <2> QED
      BY <1>0, <1>7, <2>1, <2>2, <2>3 DEF AllButOne
  <1> QED
    BY <1>7, <1>14, <1>15 DEF nown

-----------------------------------------------------------------------------
(* The menu.  The stack: the frames of the lines that a next line may be   *)
(* indented below.                                                         *)

StackOk(st, K, own, N) ==
    /\ st \in Seq(1..N) /\ K \in Nat
    /\ K = 0 => st = <<>>
    /\ K # 0 => st # <<>> /\ config[K].level = FACTOR * Len(st)
    /\ \A m \in 1..Len(st) : own[st[m]] = Over(K + 1, FACTOR * m)

\* The next line is one level deeper.
LEMMA StackPush ==
  ASSUME NEW st, NEW K \in Nat, NEW own, NEW N \in Nat, StackOk(st, K, own, N),
         config[K + 1].level = FACTOR * (Len(st) + 1)
  PROVE  /\ Menus!ParentLine(K + 1) = K
         /\ StackOk(Append(st, N + 1), K + 1, Owned(own, N, K), N + 1)
  <1>1. FACTOR \in Nat \ {0}
    BY MenuAssumption DEF MenuAssumption
  <1>2. st \in Seq(1..N) /\ Len(st) \in Nat
    BY DEF StackOk
  <1>3. PICK d \in Nat : d = Len(st)
    BY <1>2
  <1>4. K + 1 \in Nat \ {0} /\ (K + 1) - 1 = K
    OBVIOUS
  <1>5. Menus!ParentLine(K + 1) = Over(K + 1, FACTOR * (d + 1)) /\ Menus!ParentLine(K + 1) \in 0..K
    BY <1>3, <1>4, ParentBefore
  <1>6. Menus!ParentLine(K + 1) = K
    <2>1. CASE K = 0
      BY <1>5, <2>1
    <2>2. CASE K # 0
      <3>1. config[K].level = FACTOR * d
        BY <1>3, <2>2 DEF StackOk
      <3>2. FACTOR * d < FACTOR * (d + 1)
        BY <1>1, TimesLess
      <3>3. config[(K + 1) - 1].level < FACTOR * (d + 1) /\ K + 1 > 1
        BY <1>4, <2>2, <3>1, <3>2
      <3> QED
        BY <1>4, <1>5, <3>3, OverPrevious
    <2> QED
      BY <2>1, <2>2
  <1>7. PICK ns : ns = Append(st, N + 1)
    OBVIOUS
  <1>8. /\ ns \in Seq(1..(N + 1)) /\ Len(ns) = d + 1 /\ ns # <<>> /\ ns[d + 1] = N + 1
        /\ \A m \in 1..d : ns[m] = st[m] /\ st[m] \in 1..N
    <2>1. \A m \in 1..d : st[m] \in 1..N
      BY <1>2, <1>3
    <2>2. st \in Seq(1..(N + 1)) /\ N + 1 \in 1..(N + 1)
      <3>1. \A m \in 1..Len(st) : st[m] \in 1..(N + 1)
        BY <1>3, <2>1
      <3> QED
        BY <1>2, <3>1
    <2> QED
      BY <1>3, <1>7, <2>1, <2>2, AppendProperties
  <1>9. \A m \in 1..d : ~(config[K + 1].level < FACTOR * m)
    <2> SUFFICES ASSUME NEW m \in 1..d PROVE ~(FACTOR * (d + 1) < FACTOR * m)
      BY <1>3
    <2>1. m \in Nat /\ d + 1 \in Nat /\ ~(d + 1 < m)
      OBVIOUS
    <2> QED
      BY <1>1, <2>1, TimesLess
  <1>10. ASSUME NEW m \in 1..(d + 1)
         PROVE  Owned(own, N, K)[ns[m]] = Over((K + 1) + 1, FACTOR * m)
    <2>1. CASE m = d + 1
      <3>1. Owned(own, N, K)[ns[m]] = K
        BY <1>8, <2>1 DEF Owned
      <3>2. ~(config[K + 1].level < FACTOR * (d + 1))
        <4>1. FACTOR * (d + 1) \in Nat
          BY <1>1
        <4> QED
          BY <1>3, <4>1
      <3>3. Over((K + 1) + 1, FACTOR * (d + 1)) = Over(K + 1, FACTOR * (d + 1))
        BY <1>4, <3>2, OverStays
      <3> QED
        BY <1>5, <1>6, <2>1, <3>1, <3>3
    <2>2. CASE m \in 1..d
      <3>1. Owned(own, N, K)[ns[m]] = own[st[m]]
        BY <1>8, <2>2 DEF Owned
      <3>2. own[st[m]] = Over(K + 1, FACTOR * m)
        BY <1>3, <2>2 DEF StackOk
      <3>3. Over((K + 1) + 1, FACTOR * m) = Over(K + 1, FACTOR * m)
        BY <1>4, <1>9, <2>2, OverStays
      <3> QED
        BY <3>1, <3>2, <3>3
    <2> QED
      BY <2>1, <2>2
  <1>11. StackOk(ns, K + 1, Owned(own, N, K), N + 1)
    BY <1>3, <1>4, <1>8, <1>10 DEF StackOk
  <1> QED
    BY <1>6, <1>7, <1>11

\* The next line is at the level of a frame of the stack.
LEMMA StackCut ==
  ASSUME NEW st, NEW K \in Nat, NEW own, NEW N \in Nat, StackOk(st, K, own, N),
         NEW e \in 1..Len(st), config[K + 1].level = FACTOR * e
  PROVE  /\ own[st[e]] = Menus!ParentLine(K + 1)
         /\ StackOk(SubSeq(st, 1, e), K + 1, own, N)
         /\ Len(SubSeq(st, 1, e)) = e /\ SubSeq(st, 1, e)[e] = st[e] /\ st[e] \in 1..N
  <1>1. FACTOR \in Nat \ {0}
    BY MenuAssumption DEF MenuAssumption
  <1>2. st \in Seq(1..N) /\ Len(st) \in Nat /\ e \in Nat /\ e <= Len(st) /\ e # 0 /\ st[e] \in 1..N
    BY DEF StackOk
  <1>3. K + 1 \in Nat \ {0} /\ K + 1 # 0
    OBVIOUS
  <1>4. own[st[e]] = Menus!ParentLine(K + 1)
    BY <1>3, ParentBefore DEF StackOk
  <1>5. PICK ns : ns = SubSeq(st, 1, e)
    OBVIOUS
  <1>6. ns \in Seq(1..N) /\ Len(ns) = e /\ \A m \in 1..e : ns[m] = st[m]
    BY <1>2, <1>5, SubSeqProperties
  <1>7. ns # <<>>
    BY <1>2, <1>6
  <1>8. ASSUME NEW m \in 1..e PROVE own[ns[m]] = Over((K + 1) + 1, FACTOR * m)
    <2>1. m \in Nat /\ ~(e < m) /\ m \in 1..Len(st)
      BY <1>2
    <2>2. ~(FACTOR * e < FACTOR * m)
      BY <1>1, <1>2, <2>1, TimesLess
    <2>3. Over((K + 1) + 1, FACTOR * m) = Over(K + 1, FACTOR * m)
      BY <1>3, <2>2, OverStays
    <2>4. own[st[m]] = Over(K + 1, FACTOR * m)
      BY <2>1 DEF StackOk
    <2> QED
      BY <1>6, <2>3, <2>4
  <1>9. StackOk(ns, K + 1, own, N)
    BY <1>3, <1>6, <1>7, <1>8 DEF StackOk
  <1> QED
    BY <1>2, <1>4, <1>5, <1>6, <1>9

-----------------------------------------------------------------------------
(* The menu.  The invariant.                                               *)

\* The file does not change while it is read.
FileOk == /\ \E n \in Nat : config \in [1..n -> Menus!MenuLines]
          /\ config # <<>> /\ lineNo \in Nat \ {0}

\* Reading: the lines before lineNo are in the tree.
Reading(own) ==
    LET K == lineNo - 1
    IN  /\ K <= Len(config) /\ s32Level = FACTOR * Len(stack)
        /\ Tree(frames, K, own) /\ StackOk(stack, K, own, Len(frames))
        /\ K = 0 => frames = <<>>
        /\ K # 0 => AllButOne(frames, stack[Len(stack)], K)

\* Afterwards: the lines up to K are, all of them unless the frames were too few.
Built(K, own) ==
    /\ K <= Len(config) /\ Tree(frames, K, own)
    /\ Len(frames) + 1 < FRAMES_MAX => K = Len(config) /\ AllDone(frames)

MenuFine ==
    /\ pTopUIFrame = IF frames = <<>> THEN 0 ELSE 1
    /\ phase = "parse" => \E own : Reading(own)
    /\ phase = "failed" => Len(frames) + 1 >= FRAMES_MAX
    /\ phase \in {"failed", "run", "quit"} => \E K \in Nat : \E own : Built(K, own)
    /\ phase = "run" => here \in 1..Len(frames)
    /\ Menus!OverrunExplained /\ Menus!QuitExplained

MenuInv == FileOk /\ (Menus!WellFormed => MenuFine)

\* The lines of the file.
LEMMA FileIs ==
  ASSUME FileOk
  PROVE  /\ Len(config) \in Nat \ {0} /\ DOMAIN config = 1..Len(config)
         /\ \A k \in 1..Len(config) : config[k].level \in Nat
  <1>1. PICK n \in Nat : config \in [1..n -> Menus!MenuLines]
    BY DEF FileOk
  <1>2. config \in Seq(Menus!MenuLines) /\ Len(config) = n /\ n # 0
    BY <1>1 DEF FileOk
  <1>3. \A x \in Menus!MenuLines : x.level \in Nat
    BY MenuAssumption DEF MenuAssumption, Menus!MenuLines
  <1> QED
    BY <1>1, <1>2, <1>3

\* The level of a line of a well-formed file.
LEMMA LevelIs ==
  ASSUME FileOk, Menus!WellFormed, NEW k \in 1..Len(config)
  PROVE  /\ \E d \in Nat \ {0} : config[k].level = FACTOR * d
         /\ config[k].level <= (IF k = 1 THEN 0 ELSE config[k - 1].level) + FACTOR
  <1>1. FACTOR \in Nat \ {0}
    BY MenuAssumption DEF MenuAssumption
  <1>2. PICK v \in Nat : v = config[k].level
    BY FileIs
  <1>3. v % FACTOR = 0 /\ v \in FACTOR .. (IF k = 1 THEN 0 ELSE config[k - 1].level) + FACTOR
    BY <1>2, FileIs DEF Menus!WellFormed
  <1>4. v = FACTOR * (v \div FACTOR) /\ v \div FACTOR \in Nat
    BY <1>1, <1>3, DivRem
  <1>5. PICK p \in Nat : p = IF k = 1 THEN 0 ELSE config[k - 1].level
    <2>1. CASE k = 1
      BY <2>1
    <2>2. CASE k # 1
      <3>1. k - 1 \in 1..Len(config)
        BY <2>2, FileIs
      <3> QED
        BY <2>2, <3>1, FileIs
    <2> QED
      BY <2>1, <2>2
  <1>6. v >= FACTOR /\ v <= p + FACTOR
    BY <1>1, <1>3, <1>5
  <1>7. v \div FACTOR # 0
    <2>1. FACTOR * 0 = 0
      BY <1>1
    <2> QED
      BY <1>1, <1>4, <1>6, <2>1
  <1> QED
    BY <1>2, <1>4, <1>5, <1>6, <1>7

\* Where the next line goes: one level deeper, or to a frame of the stack.
LEMMA NextLevel ==
  ASSUME FileOk, Menus!WellFormed, NEW own, Reading(own), lineNo <= Len(config)
  PROVE  /\ config[lineNo].level > s32Level =>
              config[(lineNo - 1) + 1].level = FACTOR * (Len(stack) + 1)
         /\ config[lineNo].level <= s32Level =>
              \E e \in 1..Len(stack) :
                 /\ config[(lineNo - 1) + 1].level = FACTOR * e
                 /\ config[lineNo].level = s32Level => e = Len(stack)
                 /\ config[lineNo].level < s32Level =>
                      e < Len(stack) /\ (s32Level - config[lineNo].level) \div FACTOR = Len(stack) - e
  <1>1. FACTOR \in Nat \ {0}
    BY MenuAssumption DEF MenuAssumption
  <1>2. lineNo \in Nat \ {0} /\ (lineNo - 1) + 1 = lineNo /\ lineNo \in 1..Len(config)
    BY FileIs DEF FileOk
  <1>3. PICK e \in Nat \ {0} : config[lineNo].level = FACTOR * e
    BY <1>2, LevelIs
  <1>4. PICK d \in Nat : d = Len(stack) /\ s32Level = FACTOR * d
    BY DEF Reading, StackOk
  <1>5. e <= d + 1
    <2>1. (IF lineNo = 1 THEN 0 ELSE config[lineNo - 1].level) = FACTOR * d
      <3>1. CASE lineNo = 1
        <4>1. stack = <<>>
          BY <3>1 DEF Reading, StackOk
        <4>2. d = 0 /\ FACTOR * 0 = 0
          BY <1>1, <1>4, <4>1
        <4> QED
          BY <3>1, <4>2
      <3>2. CASE lineNo # 1
        <4>1. lineNo - 1 # 0
          BY <1>2, <3>2
        <4> QED
          BY <1>4, <3>2, <4>1 DEF Reading, StackOk
      <3> QED
        BY <3>1, <3>2
    <2>2. config[lineNo].level <= (IF lineNo = 1 THEN 0 ELSE config[lineNo - 1].level) + FACTOR
      BY <1>2, LevelIs
    <2>3. FACTOR * e <= FACTOR * d + FACTOR
      BY <1>3, <2>1, <2>2
    <2>4. FACTOR * (d + 1) = FACTOR * d + FACTOR /\ FACTOR * (d + 1) \in Nat /\ FACTOR * e \in Nat
      BY <1>1
    <2>5. ~(FACTOR * (d + 1) < FACTOR * e)
      BY <2>3, <2>4
    <2>6. d + 1 \in Nat
      OBVIOUS
    <2>7. ~(d + 1 < e)
      BY <1>1, <2>5, <2>6, TimesLess
    <2> QED
      BY <2>7
  <1>6. /\ (FACTOR * d < FACTOR * e <=> d < e) /\ (FACTOR * e < FACTOR * d <=> e < d)
        /\ (FACTOR * e = FACTOR * d <=> e = d) /\ FACTOR * e \in Nat /\ FACTOR * d \in Nat
    BY <1>1, TimesLess
  <1>7. e < d => (FACTOR * d - FACTOR * e) \div FACTOR = d - e
    BY <1>1, WholeLevels
  <1>8. CASE config[lineNo].level > s32Level
    <2>1. e = d + 1
      BY <1>3, <1>4, <1>5, <1>6, <1>8
    <2>2. ~(config[lineNo].level <= s32Level)
      BY <1>3, <1>4, <1>6, <1>8
    <2> QED
      BY <1>2, <1>3, <1>4, <2>1, <2>2
  <1>9. CASE config[lineNo].level <= s32Level
    <2>1. e <= d
      BY <1>3, <1>4, <1>6, <1>9
    <2>2. e \in 1..d /\ ~(config[lineNo].level > s32Level)
      BY <1>3, <1>4, <1>6, <1>9, <2>1
    <2>3. /\ config[lineNo].level = s32Level => e = d
          /\ config[lineNo].level < s32Level => e < d
      BY <1>3, <1>4, <1>6
    <2> QED
      BY <1>2, <1>3, <1>4, <1>7, <2>2, <2>3
  <1> QED
    BY <1>3, <1>4, <1>6, <1>8, <1>9

\* The parents do not change while the file does not.
LEMMA SameParents ==
  ASSUME config' = config
  PROVE  \A j : Menus!ParentLine(j)' = Menus!ParentLine(j)
  <1> SUFFICES ASSUME NEW j PROVE Menus!ParentLine(j)' = Menus!ParentLine(j)
    OBVIOUS
  <1>1. PICK S, T : /\ S = {0} \cup {b \in 1 .. j - 1 : config'[b].level < config'[j].level}
                    /\ T = {0} \cup {b \in 1 .. j - 1 : config[b].level < config[j].level}
    OBVIOUS
  <1>2. S = T
    BY <1>1
  <1>3. Menus!ParentLine(j)' = Menus!Max(S)
    BY <1>1 DEF Menus!ParentLine, Menus!Max
  <1>4. Menus!ParentLine(j) = Menus!Max(T)
    BY <1>1 DEF Menus!ParentLine
  <1> QED
    BY <1>2, <1>3, <1>4

\* Nor does the tree.
LEMMA TreeNext ==
  ASSUME config' = config, NEW own, NEW K, Tree(frames', K, own), K = lineNo' - 1
  PROVE  Tree(frames, lineNo - 1, own)'
  <1>1. \A j : Menus!ParentLine(j)' = Menus!ParentLine(j)
    BY SameParents
  <1>2. \A p : Kin(lineNo - 1, p)' = Kin(K, p)
    BY <1>1 DEF Kin
  <1>3. \A f \in 1..Len(frames') : FrameOk(frames[f], Len(frames), lineNo - 1, own[f])'
    BY <1>2 DEF Tree, FrameOk, LineSet
  <1> QED
    BY <1>1, <1>3 DEF Tree, LowerOk

\* Nor does it while the frames stay.
LEMMA TreeKept ==
  ASSUME config' = config, NEW own, NEW K, Tree(frames', K, own)
  PROVE  Tree(frames, K, own)'
  <1>1. \A j : Menus!ParentLine(j)' = Menus!ParentLine(j)
    BY SameParents
  <1>2. \A p : Kin(K, p)' = Kin(K, p)
    BY <1>1 DEF Kin
  <1>3. \A f \in 1..Len(frames') : FrameOk(frames[f], Len(frames), K, own[f])'
    BY <1>2 DEF Tree, FrameOk, LineSet
  <1> QED
    BY <1>1, <1>3 DEF Tree, LowerOk

\* Nor do the lines that are looked back for.
LEMMA SameOver ==
  ASSUME config' = config
  PROVE  \A k, L : Over(k, L)' = Over(k, L)
  <1> SUFFICES ASSUME NEW k, NEW L PROVE Over(k, L)' = Over(k, L)
    OBVIOUS
  <1>1. PICK S, T : /\ S = {0} \cup {b \in 1 .. k - 1 : config'[b].level < L}
                    /\ T = {0} \cup {b \in 1 .. k - 1 : config[b].level < L}
    OBVIOUS
  <1>2. S = T
    BY <1>1
  <1>3. Over(k, L)' = Menus!Max(S)
    BY <1>1 DEF Over, Menus!Max
  <1>4. Over(k, L) = Menus!Max(T)
    BY <1>1 DEF Over
  <1> QED
    BY <1>2, <1>3, <1>4

\* Nor does what the stack stands for.
LEMMA StackNext ==
  ASSUME config' = config, NEW own, NEW K \in Nat, StackOk(stack', K, own, Len(frames')), K = lineNo' - 1
  PROVE  StackOk(stack, lineNo - 1, own, Len(frames))'
  <1>1. \A k, L : Over(k, L)' = Over(k, L)
    BY SameOver
  <1>2. lineNo' - 1 + 1 = K + 1
    OBVIOUS
  <1>3. \A m \in 1..Len(stack') : own[stack'[m]] = Over(K + 1, FACTOR * m)'
    BY <1>1 DEF StackOk
  <1>4. \A m \in 1..Len(stack') : own[stack'[m]] = Over(lineNo - 1 + 1, FACTOR * m)'
    BY <1>2, <1>3 DEF Over
  <1> QED
    BY <1>4 DEF StackOk

\* Reading goes on.
LEMMA ReadingNext ==
  ASSUME config' = config, NEW own, NEW K \in Nat \ {0}, K = lineNo' - 1, K <= Len(config),
         s32Level' = FACTOR * Len(stack'), Tree(frames', K, own), StackOk(stack', K, own, Len(frames')),
         AllButOne(frames', stack'[Len(stack')], K)
  PROVE  Reading(own)'
  <1>1. Tree(frames, lineNo - 1, own)' /\ StackOk(stack, lineNo - 1, own, Len(frames))'
    BY TreeNext, StackNext
  <1>2. AllButOne(frames, stack[Len(stack)], lineNo - 1)'
    BY DEF AllButOne
  <1> QED
    BY <1>1, <1>2 DEF Reading

\* What the file says does not change.
LEMMA SameFile ==
  ASSUME config' = config
  PROVE  /\ (Menus!WellFormed' <=> Menus!WellFormed) /\ \A k : Menus!Children(k)' = Menus!Children(k)
         /\ (lineNo' \in Nat \ {0} /\ FileOk => FileOk')
  <1>1. \A j : Menus!ParentLine(j)' = Menus!ParentLine(j)
    BY SameParents
  <1>2. \A k : Menus!Children(k)' = Menus!Children(k)
    BY <1>1 DEF Menus!Children
  <1>3. Menus!WellFormed' <=> Menus!WellFormed
    BY DEF Menus!WellFormed
  <1>4. lineNo' \in Nat \ {0} /\ FileOk => FileOk'
    BY DEF FileOk, Menus!MenuLines
  <1> QED
    BY <1>2, <1>3, <1>4

\* The file is read to its end.
LEMMA ReadyNext ==
  ASSUME config' = config, NEW own, NEW K \in Nat, K <= Len(config), Tree(frames', K, own),
         Len(frames') + 1 < FRAMES_MAX => K = Len(config) /\ AllDone(frames')
  PROVE  Built(K, own)'
  <1>1. Tree(frames, K, own)'
    BY TreeKept
  <1>2. AllDone(frames') => AllDone(frames)'
    BY DEF AllDone
  <1> QED
    BY <1>1, <1>2 DEF Built
-----------------------------------------------------------------------------
(* The menu.  Its steps.                                                   *)

\* At first nothing is read.
LEMMA MenuInitInv ==
  ASSUME Menus!MenuInit
  PROVE  MenuInv
  <1>1. FileOk
    <2>1. PICK n \in 1..MaxLines : config \in [1..n -> Menus!MenuLines]
      BY DEF Menus!MenuInit
    <2>2. n \in Nat /\ n # 0
      BY MenuAssumption DEF MenuAssumption
    <2>3. config # <<>>
      BY <2>1, <2>2
    <2> QED
      BY <2>1, <2>2, <2>3 DEF Menus!MenuInit, FileOk
  <1>2. PICK own : own = <<>>
    OBVIOUS
  <1>3. lineNo - 1 = 0 /\ frames = <<>> /\ stack = <<>> /\ s32Level = 0 /\ phase = "parse" /\ pTopUIFrame = 0
    BY DEF Menus!MenuInit
  <1>4. Tree(<<>>, 0, own)
    BY DEF Tree
  <1>5. StackOk(<<>>, 0, own, 0)
    BY DEF StackOk
  <1>6. Reading(own)
    <2>1. FACTOR * 0 = 0 /\ Len(<<>>) = 0 /\ 0 <= Len(config)
      BY <1>1, MenuAssumption, FileIs DEF MenuAssumption
    <2> QED
      BY <1>3, <1>4, <1>5, <2>1 DEF Reading
  <1>7. MenuFine
    BY <1>3, <1>6 DEF MenuFine, Menus!OverrunExplained, Menus!QuitExplained
  <1> QED
    BY <1>1, <1>7 DEF MenuInv

\* The lesser of two numbers.
LEMMA LesserIs ==
  ASSUME NEW a \in Nat, NEW b \in Nat
  PROVE  Menus!Min({a, b}) = IF a < b THEN a ELSE b
  BY DEF Menus!Min

\* The greater of two numbers.
LEMMA GreaterIs ==
  ASSUME NEW a \in Nat, NEW b \in Nat
  PROVE  Menus!Max({a, b}) = IF a < b THEN b ELSE a
  BY DEF Menus!Max

\* The last element of a sequence.
LEMMA LastIs ==
  ASSUME NEW s
  PROVE  Menus!Last(s) = s[Len(s)]
  BY DEF Menus!Last

\* The line is read.
LEMMA LineRead ==
  ASSUME FileOk, NEW own, Reading(own), lineNo <= Len(config), Menus!WellFormed
  PROVE  /\ lineNo \in Nat \ {0} /\ lineNo - 1 \in Nat /\ lineNo = (lineNo - 1) + 1
         /\ lineNo \in 1..Len(config) /\ config[lineNo].level \in Nat /\ s32Level \in Nat
         /\ stack \in Seq(1..Len(frames)) /\ frames \in Seq(FrameSet) /\ Len(frames) \in Nat
         /\ Len(stack) \in Nat
  <1>1. lineNo \in Nat \ {0}
    BY DEF FileOk
  <1>2. lineNo \in 1..Len(config) /\ config[lineNo].level \in Nat
    BY <1>1, FileIs
  <1>3. stack \in Seq(1..Len(frames)) /\ frames \in Seq(FrameSet)
    BY DEF Reading, StackOk, Tree
  <1>4. Len(stack) \in Nat /\ Len(frames) \in Nat
    BY <1>3
  <1>5. s32Level \in Nat
    <2>1. FACTOR \in Nat
      BY MenuAssumption DEF MenuAssumption
    <2> QED
      BY <1>4, <2>1 DEF Reading
  <1> QED
    BY <1>1, <1>2, <1>3, <1>4, <1>5

\* A line one level deeper opens a frame.
LEMMA DeeperStep ==
  ASSUME FileOk, Menus!WellFormed, NEW own, Reading(own), lineNo <= Len(config),
         config[lineNo].level > s32Level, Menus!Deeper(lineNo), Menus!bufGet, phase = "parse",
         pTopUIFrame = IF frames = <<>> THEN 0 ELSE 1, config' = config,
         s32Level' = config[lineNo].level, lineNo' = lineNo + 1
  PROVE  phase' = "parse" /\ pTopUIFrame' = 1 /\ frames' # <<>> /\ \E nown : Reading(nown)'
  <1>1. PICK K \in Nat : K = lineNo - 1 /\ lineNo = K + 1 /\ K + 1 \in Nat \ {0}
    BY LineRead
  <1>2. PICK N \in Nat : N = Len(frames)
    BY LineRead
  <1>3. Tree(frames, K, own) /\ StackOk(stack, K, own, N) /\ frames \in Seq(FrameSet) /\ stack \in Seq(1..N)
    BY <1>1, <1>2, LineRead DEF Reading
  <1>4. config[K + 1].level = FACTOR * (Len(stack) + 1)
    BY <1>1, NextLevel
  <1>5. Menus!ParentLine(K + 1) = K /\ StackOk(Append(stack, N + 1), K + 1, Owned(own, N, K), N + 1)
    BY <1>3, <1>4, StackPush
  <1>6. PICK up : up = IF stack = <<>> THEN 0 ELSE stack[Len(stack)]
    OBVIOUS
  <1>7. PICK hs : hs = Append(frames, FirstItem(K + 1, up))
    OBVIOUS
  <1>8. /\ pTopUIFrame' = (IF up = 0 THEN N + 1 ELSE pTopUIFrame) /\ phase' = phase
        /\ frames' = (IF up = 0 THEN hs ELSE Menus!Complete(hs, up, N + 1))
        /\ stack' = Append(stack, N + 1)
    BY <1>1, <1>2, <1>6, <1>7, LastIs DEF Menus!Deeper, Menus!Step, FirstItem
  <1>9. Len(stack') = Len(stack) + 1 /\ stack'[Len(stack')] = N + 1 /\ s32Level' = FACTOR * Len(stack')
    BY <1>1, <1>3, <1>4, <1>8
  <1>10. K + 1 = lineNo' - 1 /\ K + 1 <= Len(config)
    BY <1>1
  <1>11. ASSUME Tree(frames', K + 1, Owned(own, N, K)), AllButOne(frames', N + 1, K + 1), Len(frames') = N + 1
         PROVE  frames' # <<>> /\ \E nown : Reading(nown)'
    <2>1. StackOk(stack', K + 1, Owned(own, N, K), Len(frames')) /\ AllButOne(frames', stack'[Len(stack')], K + 1)
      BY <1>5, <1>8, <1>9, <1>11
    <2>2. Reading(Owned(own, N, K))'
      <3>1. PICK nown : nown = Owned(own, N, K)
        OBVIOUS
      <3>2. Reading(nown)'
        BY <1>1, <1>9, <1>10, <1>11, <2>1, <3>1, ReadingNext
      <3> QED
        BY <3>1, <3>2
    <2>3. frames' # <<>>
      BY <1>11
    <2> QED
      BY <2>2, <2>3
  <1>12. CASE K = 0
    <2>1. stack = <<>> /\ frames = <<>> /\ N = 0 /\ up = 0
      BY <1>1, <1>2, <1>3, <1>6, <1>12 DEF StackOk, Reading
    <2>2. frames' = Append(<<>>, FirstItem(1, 0))
      BY <1>7, <1>8, <1>12, <2>1
    <2>3. Menus!ParentLine(1) = 0
      BY <1>5, <1>12
    <2>4. Tree(frames', 1, Owned(own, 0, 0)) /\ AllButOne(frames', 1, 1) /\ Len(frames') = 1
      BY <2>2, <2>3, FirstTree
    <2> QED
      BY <1>8, <1>11, <1>12, <2>1, <2>4
  <1>13. CASE K # 0
    <2>1. stack # <<>> /\ Len(stack) \in Nat /\ Len(stack) # 0
      BY <1>3, <1>13 DEF StackOk
    <2>2. up = stack[Len(stack)] /\ up \in 1..N /\ up # 0
      BY <1>3, <1>6, <2>1
    <2>3. AllButOne(frames, up, K)
      BY <1>1, <1>13, <2>2 DEF Reading
    <2>4. hs \in Seq(FrameSet) /\ Len(hs) = N + 1 /\ \A f \in 1..N : hs[f] = frames[f]
      <3>1. up \in Nat /\ K + 1 \in Nat /\ N \in Nat
        BY ONLY <2>2, K \in Nat, N \in Nat
      <3>2. PICK fr : fr = FirstItem(K + 1, up)
        OBVIOUS
      <3>3. fr \in FrameSet
        BY ONLY <3>1, <3>2, FirstItemIs, K \in Nat
      <3>4. hs = Append(frames, fr) /\ frames \in Seq(FrameSet) /\ N = Len(frames)
        BY ONLY <1>2, <1>3, <1>7, <3>2
      <3> QED
        BY ONLY <3>3, <3>4, AppendProperties
    <2>5. up \in 1..Len(hs) /\ Len(hs[up].items) = hs[up].cnt + 1 /\ N + 1 \in Nat
      BY <2>2, <2>3, <2>4 DEF AllButOne
    <2>6. ItemDone(hs, up, N + 1, frames')
      BY <1>8, <2>2, <2>4, <2>5, CompleteIs
    <2>7. Tree(frames', K + 1, Owned(own, N, K)) /\ AllButOne(frames', N + 1, K + 1) /\ Len(frames') = N + 1
      <3>1. PICK fs, gs : fs = frames /\ gs = frames'
        OBVIOUS
      <3>2. Pushing(fs, K, own, up, N, hs, gs)
        BY <1>2, <1>3, <1>5, <1>7, <1>13, <2>3, <2>6, <3>1 DEF Pushing
      <3>3. Tree(gs, K + 1, Owned(own, N, K)) /\ AllButOne(gs, N + 1, K + 1) /\ Len(gs) = N + 1
        BY ONLY <3>2, PushTree
      <3> QED
        BY <3>1, <3>3
    <2>8. pTopUIFrame' = 1
      <3>1. frames # <<>>
        BY <1>2, <1>3, <2>2
      <3> QED
        BY <1>8, <2>2, <3>1
    <2> QED
      BY <1>8, <1>11, <2>7, <2>8
  <1> QED
    BY <1>12, <1>13

\* A frame with more lines than ITEMS_MAX is of a menu with more lines.
LEMMA ManyLines ==
  ASSUME FileOk, NEW fs, NEW K \in Nat, NEW own, K <= Len(config), Tree(fs, K, own), NEW t \in 1..Len(fs),
         Len(fs[t].items) > ITEMS_MAX
  PROVE  \E k \in 0..Len(config) : Menus!Cardinality(Menus!Children(k)) > ITEMS_MAX
  <1>1. fs \in Seq(FrameSet) /\ own[t] \in 0..(K - 1) /\ FrameOk(fs[t], Len(fs), K, own[t])
    BY DEF Tree
  <1>2. PICK c \in Nat : c = Len(fs[t].items)
    BY <1>1, FieldsOf
  <1>3. Len(config) \in Nat /\ DOMAIN config = 1..Len(config) /\ ITEMS_MAX \in Nat
    BY FileIs, MenuAssumption DEF MenuAssumption
  <1>4. PICK C : C = Menus!Children(own[t])
    OBVIOUS
  <1>5. PICK F : F = [n \in 1..c |-> fs[t].items[n].line]
    OBVIOUS
  <1>6. \A n \in 1..c : fs[t].items[n].line \in Nat
    BY <1>1, <1>2, FieldsOf
  <1>7. \A n \in 1..c : fs[t].items[n].line \in C
    <2> SUFFICES ASSUME NEW n \in 1..c PROVE fs[t].items[n].line \in C
      OBVIOUS
    <2>1. fs[t].items[n].line \in Kin(K, own[t])
      BY <1>1, <1>2 DEF FrameOk, LineSet
    <2>2. fs[t].items[n].line \in 1..K /\ Menus!ParentLine(fs[t].items[n].line) = own[t]
      BY <2>1 DEF Kin
    <2>3. fs[t].items[n].line \in DOMAIN config
      BY <1>3, <2>2
    <2> QED
      BY <1>4, <2>2, <2>3 DEF Menus!Children
  <1>8. \A m, n \in 1..c : m < n => fs[t].items[m].line < fs[t].items[n].line
    BY <1>1, <1>2 DEF FrameOk
  <1>9. \A m, n \in 1..c : m # n => F[m] # F[n]
    <2> SUFFICES ASSUME NEW m \in 1..c, NEW n \in 1..c, m < n
                 PROVE  F[m] # F[n]
      OBVIOUS
    <2>1. fs[t].items[m].line < fs[t].items[n].line
      BY <1>8
    <2> QED
      BY <1>5, <1>6, <2>1
  <1>10. F \in Injection(1..c, C)
    <2>1. F \in [1..c -> C]
      BY <1>5, <1>7
    <2> QED
      BY <1>9, <2>1 DEF Injection, IsInjective
  <1>11. IsFiniteSet(C)
    <2>1. C \subseteq 1..Len(config)
      BY <1>3, <1>4 DEF Menus!Children
    <2>2. IsFiniteSet(1..Len(config))
      BY <1>3, FS_Interval
    <2> QED
      BY <2>1, <2>2, FS_Subset
  <1>12. Cardinality(1..c) = c
    BY FS_Interval
  <1>13. Cardinality(1..c) <= Cardinality(C) /\ Cardinality(C) \in Nat
    BY <1>10, <1>11, FS_Injection, FS_CardinalityType
  <1>14. Menus!Cardinality(C) = Cardinality(C)
    BY DEF Menus!Cardinality, Cardinality
  <1>15. own[t] \in 0..Len(config)
    BY <1>1, <1>3
  <1>16. Menus!Cardinality(Menus!Children(own[t])) > ITEMS_MAX
    BY <1>2, <1>3, <1>4, <1>12, <1>13, <1>14
  <1> QED
    BY <1>15, <1>16

\* A line at the level of a frame of the stack joins that frame.
LEMMA JoinStep ==
  ASSUME FileOk, Menus!WellFormed, NEW own, Reading(own), lineNo <= Len(config),
         NEW e \in 1..Len(stack), config[(lineNo - 1) + 1].level = FACTOR * e,
         NEW fs, fs = Menus!Complete(frames, stack[Len(stack)], 0),
         frames' = Menus!SetItem(fs, stack[e], Menus!Item(lineNo)), stack' = SubSeq(stack, 1, e),
         config' = config, s32Level' = config[lineNo].level, lineNo' = lineNo + 1
  PROVE  /\ Reading(own)' /\ frames # <<>> /\ frames' # <<>>
         /\ fs[stack[e]].cnt >= ITEMS_MAX =>
              \E k \in 0..Len(config) : Menus!Cardinality(Menus!Children(k)) > ITEMS_MAX
  <1>1. PICK K \in Nat : K = lineNo - 1 /\ lineNo = K + 1 /\ K + 1 \in Nat \ {0}
    BY LineRead
  <1>2. PICK N \in Nat : N = Len(frames)
    BY LineRead
  <1>3. Tree(frames, K, own) /\ StackOk(stack, K, own, N) /\ frames \in Seq(FrameSet) /\ stack \in Seq(1..N)
    BY <1>1, <1>2, LineRead DEF Reading
  <1>4. Len(stack) \in Nat /\ Len(stack) # 0 /\ stack # <<>> /\ K # 0
    BY <1>3 DEF StackOk
  <1>5. PICK top : top = stack[Len(stack)] /\ top \in 1..N
    BY <1>3, <1>4
  <1>6. AllButOne(frames, top, K)
    BY <1>1, <1>4, <1>5 DEF Reading
  <1>7. ItemDone(frames, top, 0, fs)
    <2>1. Len(frames[top].items) = frames[top].cnt + 1
      BY <1>6 DEF AllButOne
    <2> QED
      BY <1>2, <1>3, <1>5, <2>1, CompleteIs
  <1>8. Tree(fs, K, own) /\ AllDone(fs) /\ Len(fs) = N
    <2>1. PICK gs : gs = frames
      OBVIOUS
    <2>2. Tree(gs, K, own) /\ AllButOne(gs, top, K) /\ ItemDone(gs, top, 0, fs)
      BY <1>3, <1>6, <1>7, <2>1
    <2>3. Tree(fs, K, own) /\ AllDone(fs) /\ Len(fs) = Len(gs)
      BY ONLY <2>2, DoneTree, K \in Nat
    <2> QED
      BY <1>2, <2>1, <2>3
  <1>9. PICK t : t = stack[e]
    OBVIOUS
  <1>10. /\ own[t] = Menus!ParentLine(K + 1) /\ t \in 1..N
         /\ StackOk(SubSeq(stack, 1, e), K + 1, own, N)
         /\ Len(SubSeq(stack, 1, e)) = e /\ SubSeq(stack, 1, e)[e] = t
    <2>1. config[K + 1].level = FACTOR * e
      BY <1>1
    <2>2. PICK st : st = stack
      OBVIOUS
    <2>3. StackOk(st, K, own, N) /\ e \in 1..Len(st) /\ t = st[e]
      BY <1>3, <1>9, <2>2
    <2>4. /\ own[st[e]] = Menus!ParentLine(K + 1)
          /\ StackOk(SubSeq(st, 1, e), K + 1, own, N)
          /\ Len(SubSeq(st, 1, e)) = e /\ SubSeq(st, 1, e)[e] = st[e] /\ st[e] \in 1..N
      BY ONLY <2>1, <2>3, StackCut, K \in Nat, N \in Nat
    <2> QED
      BY <2>2, <2>3, <2>4
  <1>11. PICK gs : gs = frames'
    OBVIOUS
  <1>12. ItemAdded(fs, t, K + 1, gs)
    <2>1. fs \in Seq(FrameSet) /\ t \in 1..Len(fs) /\ Len(fs[t].items) = fs[t].cnt
      BY <1>8, <1>10 DEF Tree, AllDone
    <2> QED
      BY <1>1, <1>9, <1>11, <2>1, SetItemIs
  <1>13. Tree(gs, K + 1, own) /\ AllButOne(gs, t, K + 1) /\ Len(gs) = N
    <2>1. t \in 1..Len(fs) /\ K \in Nat
      BY <1>8, <1>10
    <2>2. own[t] = Menus!ParentLine(K + 1)
      BY <1>10
    <2> QED
      BY ONLY <1>8, <1>12, <2>1, <2>2, AddTree
  <1>14. Reading(own)'
    <2>1. /\ K + 1 \in Nat \ {0} /\ K + 1 = lineNo' - 1 /\ K + 1 <= Len(config)
          /\ s32Level' = FACTOR * Len(stack') /\ Tree(frames', K + 1, own)
          /\ StackOk(stack', K + 1, own, Len(frames')) /\ AllButOne(frames', stack'[Len(stack')], K + 1)
      BY <1>1, <1>10, <1>11, <1>13
    <2> QED
      BY <2>1, ReadingNext
  <1>15. frames # <<>> /\ frames' # <<>>
    BY <1>2, <1>10, <1>11, <1>13
  <1>16. ASSUME fs[stack[e]].cnt >= ITEMS_MAX
         PROVE  \E k \in 0..Len(config) : Menus!Cardinality(Menus!Children(k)) > ITEMS_MAX
    <2>1. fs \in Seq(FrameSet) /\ t \in 1..Len(fs) /\ Len(fs[t].items) = fs[t].cnt
      BY <1>8, <1>10 DEF Tree, AllDone
    <2>2. Len(gs[t].items) = fs[t].cnt + 1 /\ fs[t].cnt \in Nat
      BY <1>12, <2>1, FieldsOf DEF ItemAdded
    <2>a. ITEMS_MAX \in Nat
      BY MenuAssumption DEF MenuAssumption
    <2>b. Len(gs[t].items) > ITEMS_MAX
      BY <1>9, <1>16, <2>2, <2>a
    <2>3. Len(gs[t].items) > ITEMS_MAX /\ t \in 1..Len(gs) /\ K + 1 <= Len(config) /\ K + 1 \in Nat
      BY <1>1, <1>10, <1>13, <2>b
    <2> QED
      BY <1>13, <2>3, ManyLines
  <1> QED
    BY <1>14, <1>15, <1>16

\* The explanation of an overrun stands while the file does.
LEMMA OverrunNext ==
  ASSUME config' = config, phase' = "overrun" => Menus!OverrunExplained' \/
           \E k \in 0..Len(config) : Menus!Cardinality(Menus!Children(k)) > ITEMS_MAX
  PROVE  Menus!OverrunExplained'
  <1>1. \A k : Menus!Children(k)' = Menus!Children(k)
    BY SameFile
  <1>2. ASSUME NEW k PROVE Menus!Cardinality(Menus!Children(k))' = Menus!Cardinality(Menus!Children(k))
    BY <1>1 DEF Menus!Cardinality
  <1>3. ASSUME \E k \in 0..Len(config) : Menus!Cardinality(Menus!Children(k)) > ITEMS_MAX
        PROVE  Menus!OverrunExplained'
    <2>1. PICK k \in 0..Len(config) : Menus!Cardinality(Menus!Children(k)) > ITEMS_MAX
      BY <1>3
    <2>2. Menus!Cardinality(Menus!Children(k))' > ITEMS_MAX /\ k \in 0..Len(config')
      BY <1>2, <2>1
    <2> QED
      BY <2>2 DEF Menus!OverrunExplained
  <1>4. phase' # "overrun" => Menus!OverrunExplained'
    BY DEF Menus!OverrunExplained
  <1> QED
    BY <1>3, <1>4

\* Nothing is left while the file is read.
LEMMA QuitNext ==
  ASSUME phase' # "quit"
  PROVE  Menus!QuitExplained'
  BY DEF Menus!QuitExplained

\* A line is read.
LEMMA MenuParse ==
  ASSUME MenuInv, Menus!parseMenuConfig
  PROVE  MenuInv'
  <1>1. /\ phase = "parse" /\ lineNo <= Len(config) /\ s32Level' = config[lineNo].level
        /\ lineNo' = lineNo + 1 /\ config' = config
    BY DEF Menus!parseMenuConfig
  <1>2. FileOk /\ FileOk' /\ (Menus!WellFormed' <=> Menus!WellFormed)
    <2>1. FileOk /\ lineNo' \in Nat \ {0}
      BY <1>1 DEF MenuInv, FileOk
    <2> QED
      BY <1>1, <2>1, SameFile
  <1>3. SUFFICES ASSUME Menus!WellFormed PROVE MenuFine'
    BY <1>2 DEF MenuInv
  <1>4. MenuFine
    BY <1>3 DEF MenuInv
  <1>5. PICK own : Reading(own)
    BY <1>1, <1>4 DEF MenuFine
  <1>6. PICK K \in Nat : K = lineNo - 1 /\ lineNo = K + 1 /\ K <= Len(config) /\ Tree(frames, K, own)
    BY <1>1, <1>2, <1>3, <1>5, LineRead DEF Reading
  <1>7. pTopUIFrame = IF frames = <<>> THEN 0 ELSE 1
    BY <1>4 DEF MenuFine
  <1>8. CASE config[lineNo].level > s32Level /\ Menus!Deeper(lineNo)
    <2>1. CASE ~Menus!bufGet
      <3>1. phase' = "failed" /\ frames' = frames /\ pTopUIFrame' = pTopUIFrame
        BY <1>8, <2>1 DEF Menus!Deeper, Menus!NoFrames
      <3>2. Len(frames) \in Nat /\ FRAMES_MAX \in Nat
        BY <1>1, <1>2, <1>3, <1>5, LineRead, MenuAssumption DEF MenuAssumption
      <3>3. Len(frames') + 1 >= FRAMES_MAX /\ ~(Len(frames') + 1 < FRAMES_MAX)
        BY <2>1, <3>1, <3>2 DEF Menus!bufGet
      <3>4. Built(K, own)'
        <4>1. Tree(frames', K, own)
          BY <1>6, <3>1
        <4> QED
          BY <1>1, <1>6, <3>3, <4>1, ReadyNext
      <3>5. Menus!OverrunExplained' /\ Menus!QuitExplained'
        BY <1>1, <3>1, OverrunNext, QuitNext
      <3> QED
        BY <1>7, <3>1, <3>3, <3>4, <3>5 DEF MenuFine
    <2>2. CASE Menus!bufGet
      <3>1. phase' = "parse" /\ pTopUIFrame' = 1 /\ frames' # <<>> /\ \E nown : Reading(nown)'
        BY <1>1, <1>2, <1>3, <1>5, <1>7, <1>8, <2>2, DeeperStep
      <3>2. Menus!OverrunExplained' /\ Menus!QuitExplained'
        BY <1>1, <3>1, OverrunNext, QuitNext
      <3> QED
        BY <3>1, <3>2 DEF MenuFine
    <2> QED
      BY <2>1, <2>2
  <1>9. ASSUME pTopUIFrame' = pTopUIFrame, NEW e \in 1..Len(stack),
               config[(lineNo - 1) + 1].level = FACTOR * e, stack' = SubSeq(stack, 1, e),
               NEW fs, fs = Menus!Complete(frames, stack[Len(stack)], 0),
               frames' = Menus!SetItem(fs, stack[e], Menus!Item(lineNo)),
               phase' = IF fs[stack[e]].cnt >= ITEMS_MAX THEN "overrun" ELSE "parse"
        PROVE  MenuFine'
    <2>1. /\ Reading(own)' /\ frames # <<>> /\ frames' # <<>>
          /\ fs[stack[e]].cnt >= ITEMS_MAX =>
               \E k \in 0..Len(config) : Menus!Cardinality(Menus!Children(k)) > ITEMS_MAX
      BY <1>1, <1>2, <1>3, <1>5, <1>9, JoinStep
    <2>2. phase' \in {"overrun", "parse"} /\ (phase' = "overrun" => fs[stack[e]].cnt >= ITEMS_MAX)
      BY <1>9
    <2>3. Menus!OverrunExplained' /\ Menus!QuitExplained'
      BY <1>1, <2>1, <2>2, OverrunNext, QuitNext
    <2> QED
      BY <1>7, <1>9, <2>1, <2>2, <2>3 DEF MenuFine
  <1>10. CASE config[lineNo].level < s32Level /\ Menus!Shallower(lineNo)
    <2>1. PICK e \in 1..Len(stack) :
             /\ config[(lineNo - 1) + 1].level = FACTOR * e /\ e < Len(stack)
             /\ (s32Level - config[lineNo].level) \div FACTOR = Len(stack) - e
      <3>1. config[lineNo].level <= s32Level
        BY <1>1, <1>2, <1>3, <1>5, <1>10, LineRead
      <3> QED
        BY <1>1, <1>2, <1>3, <1>5, <1>10, <3>1, NextLevel
    <2>2. PICK a \in Nat : a = Len(stack) /\ e \in Nat /\ e < a /\ e # 0 /\ stack # <<>>
      BY <1>1, <1>2, <1>3, <1>5, <2>1, LineRead
    <2>3. Menus!Pops(s32Level, config[lineNo].level) = a - e
      <3>1. a - e \in Nat /\ a - e >= 1 /\ (1 < a - e \/ a - e = 1)
        BY <2>2
      <3> QED
        BY <2>1, <2>2, <3>1, GreaterIs DEF Menus!Pops
    <2>4. Len(stack) - Menus!Min({Len(stack), Menus!Pops(s32Level, config[lineNo].level)}) = e
      <3>1. a - e \in Nat /\ ~(a < a - e) /\ a - (a - e) = e
        BY <2>2
      <3> QED
        BY <2>2, <2>3, <3>1, LesserIs
    <2>5. PICK st : st = SubSeq(stack, 1, e)
      OBVIOUS
    <2>6. st # <<>> /\ Len(st) = e /\ st[Len(st)] = stack[e]
      <3>1. stack \in Seq(1..Len(frames)) /\ e \in 1..Len(stack)
        BY <1>1, <1>2, <1>3, <1>5, LineRead
      <3> QED
        BY <2>2, <2>5, <3>1, SubSeqProperties
    <2>7. PICK fs : fs = Menus!Complete(frames, stack[Len(stack)], 0)
      OBVIOUS
    <2>8. /\ pTopUIFrame' = pTopUIFrame /\ stack' = st /\ frames' = Menus!SetItem(fs, stack[e], Menus!Item(lineNo))
          /\ phase' = IF Menus!Full(fs, stack[e]) THEN "overrun" ELSE phase
      <3>1. Menus!Last(stack) = stack[Len(stack)] /\ Menus!Last(st) = stack[e]
        BY <2>6, LastIs
      <3> QED
        BY <1>10, <2>2, <2>4, <2>5, <2>6, <2>7, <3>1 DEF Menus!Shallower, Menus!Step
    <2> QED
      BY <1>1, <1>9, <2>1, <2>5, <2>7, <2>8 DEF Menus!Full
  <1>11. CASE config[lineNo].level = s32Level /\ Menus!Sibling(lineNo)
    <2>1. PICK e \in 1..Len(stack) : config[(lineNo - 1) + 1].level = FACTOR * e /\ e = Len(stack)
      <3>1. config[lineNo].level <= s32Level
        BY <1>1, <1>2, <1>3, <1>5, <1>11, LineRead
      <3> QED
        BY <1>1, <1>2, <1>3, <1>5, <1>11, <3>1, NextLevel
    <2>2. stack \in Seq(1..Len(frames)) /\ stack # <<>> /\ stack = SubSeq(stack, 1, e)
      <3>1. stack \in Seq(1..Len(frames))
        BY <1>1, <1>2, <1>3, <1>5, LineRead
      <3> QED
        BY <2>1, <3>1, SubSeqFull
    <2>3. PICK fs : fs = Menus!Complete(frames, stack[Len(stack)], 0)
      OBVIOUS
    <2>4. /\ pTopUIFrame' = pTopUIFrame /\ stack' = stack /\ frames' = Menus!SetItem(fs, stack[e], Menus!Item(lineNo))
          /\ phase' = IF Menus!Full(fs, stack[e]) THEN "overrun" ELSE phase
      BY <1>11, <2>1, <2>2, <2>3, LastIs DEF Menus!Sibling
    <2> QED
      BY <1>1, <1>9, <2>1, <2>2, <2>3, <2>4 DEF Menus!Full
  <1> QED
    BY <1>8, <1>10, <1>11 DEF Menus!parseMenuConfig

\* The end of the file.
LEMMA MenuParsed ==
  ASSUME MenuInv, Menus!Parsed
  PROVE  MenuInv'
  <1>1. /\ config' = config /\ lineNo' = lineNo /\ pTopUIFrame' = pTopUIFrame /\ here' = pTopUIFrame
        /\ phase' = IF pTopUIFrame = 0 THEN "crash" ELSE "run"
    BY DEF Menus!Parsed
  <1>2. FileOk /\ FileOk' /\ (Menus!WellFormed' <=> Menus!WellFormed)
    <2>1. FileOk /\ lineNo' \in Nat \ {0}
      BY <1>1 DEF MenuInv, FileOk
    <2> QED
      BY <1>1, <2>1, SameFile
  <1>3. SUFFICES ASSUME Menus!WellFormed PROVE MenuFine'
    BY <1>2 DEF MenuInv
  <1>4. pTopUIFrame = IF frames = <<>> THEN 0 ELSE 1
    BY <1>3 DEF MenuInv, MenuFine
  <1>5. phase' \in {"crash", "run"}
    BY <1>1
  <1>6. Menus!OverrunExplained' /\ Menus!QuitExplained'
    BY <1>1, <1>5, OverrunNext, QuitNext
  <1>7. ASSUME NEW K \in Nat, NEW own, Built(K, own)', frames' = <<>> <=> frames = <<>>, frames' \in Seq(FrameSet)
        PROVE  MenuFine'
    <2>1. phase' = "run" => here' \in 1..Len(frames')
      <3>1. CASE frames = <<>>
        BY <1>1, <1>4, <3>1
      <3>2. CASE frames # <<>>
        BY <1>1, <1>4, <1>7, <3>2
      <3> QED
        BY <3>1, <3>2
    <2>2. pTopUIFrame' = IF frames' = <<>> THEN 0 ELSE 1
      BY <1>1, <1>4, <1>7
    <2> QED
      BY <1>5, <1>6, <1>7, <2>1, <2>2 DEF MenuFine
  <1>8. CASE phase = "parse" /\ lineNo > Len(config) /\ frames' = IF stack = <<>> THEN frames ELSE Menus!Complete(frames, Menus!Last(stack), 0)
    <2>1. PICK own : Reading(own)
      BY <1>3, <1>8 DEF MenuInv, MenuFine
    <2>2. PICK K \in Nat : K = lineNo - 1 /\ K <= Len(config) /\ Len(config) \in Nat \ {0}
      <3>1. lineNo - 1 \in Nat
        BY <1>2 DEF FileOk
      <3> QED
        BY <1>2, <2>1, <3>1, FileIs DEF Reading
    <2>3. K = Len(config) /\ K # 0
      <3>1. lineNo \in Nat
        BY <1>2 DEF FileOk
      <3> QED
        BY <1>8, <2>2, <3>1
    <2>4. PICK fs, top : fs = frames /\ top = stack[Len(stack)]
      OBVIOUS
    <2>5. Tree(fs, K, own) /\ AllButOne(fs, top, K) /\ stack # <<>>
      BY <2>1, <2>2, <2>3, <2>4 DEF Reading, StackOk
    <2>6. PICK gs : gs = frames' /\ gs = Menus!Complete(fs, top, 0)
      BY <1>8, <2>4, <2>5, LastIs
    <2>7. ItemDone(fs, top, 0, gs)
      <3>1. fs \in Seq(FrameSet) /\ top \in 1..Len(fs) /\ Len(fs[top].items) = fs[top].cnt + 1 /\ 0 \in Nat
        BY <2>5 DEF Tree, AllButOne
      <3> QED
        BY <2>6, <3>1, CompleteIs
    <2>8. Tree(gs, K, own) /\ AllDone(gs) /\ Len(gs) = Len(fs)
      BY <2>5, <2>7, DoneTree
    <2>9. Built(K, own)'
      BY <1>1, <2>2, <2>3, <2>6, <2>8, ReadyNext
    <2>10. (frames' = <<>> <=> frames = <<>>) /\ frames' \in Seq(FrameSet)
      BY <2>4, <2>5, <2>6, <2>8 DEF Tree
    <2> QED
      BY <1>7, <2>9, <2>10
  <1>9. CASE phase = "failed" /\ frames' = frames
    <2>1. PICK K \in Nat : \E own : Built(K, own)
      BY <1>3, <1>9 DEF MenuInv, MenuFine
    <2>a. PICK own : Built(K, own)
      BY <2>1
    <2>2. K <= Len(config) /\ Tree(frames', K, own) /\ (Len(frames') + 1 < FRAMES_MAX => K = Len(config) /\ AllDone(frames'))
      BY <1>9, <2>a DEF Built
    <2>3. Built(K, own)'
      BY <1>1, <2>2, ReadyNext
    <2>4. (frames' = <<>> <=> frames = <<>>) /\ frames' \in Seq(FrameSet)
      BY <1>9, <2>2 DEF Tree
    <2> QED
      BY <1>7, <2>3, <2>4
  <1> QED
    BY <1>8, <1>9 DEF Menus!Parsed

\* The walk changes nothing of the menus.
LEMMA WalkStep ==
  ASSUME MenuInv, UNCHANGED Menus!MenuFixed, phase = "run", phase' \in {"run", "quit"},
         Menus!WellFormed => (phase' = "run" => here' \in 1..Len(frames)) /\ Menus!QuitExplained'
  PROVE  MenuInv'
  <1>1. /\ config' = config /\ lineNo' = lineNo /\ pTopUIFrame' = pTopUIFrame /\ frames' = frames
    BY DEF Menus!MenuFixed
  <1>2. FileOk' /\ (Menus!WellFormed' <=> Menus!WellFormed)
    <2>1. FileOk /\ lineNo' \in Nat \ {0}
      BY <1>1 DEF MenuInv, FileOk
    <2> QED
      BY <1>1, <2>1, SameFile
  <1>3. SUFFICES ASSUME Menus!WellFormed PROVE MenuFine'
    BY <1>2 DEF MenuInv
  <1>4. PICK K \in Nat : \E own : Built(K, own)
    BY <1>3 DEF MenuInv, MenuFine
  <1>a. PICK own : Built(K, own)
    BY <1>4
  <1>5. K <= Len(config) /\ Tree(frames', K, own) /\ (Len(frames') + 1 < FRAMES_MAX => K = Len(config) /\ AllDone(frames'))
    BY <1>1, <1>a DEF Built
  <1>6. Built(K, own)'
    BY <1>1, <1>5, ReadyNext
  <1>7. Menus!OverrunExplained' /\ Menus!QuitExplained'
    BY <1>1, <1>3, OverrunNext
  <1>8. pTopUIFrame' = IF frames' = <<>> THEN 0 ELSE 1
    BY <1>1, <1>3 DEF MenuInv, MenuFine
  <1>9. phase' = "run" => here' \in 1..Len(frames')
    BY <1>1, <1>3
  <1> QED
    BY <1>6, <1>7, <1>8, <1>9 DEF MenuFine

\* The frame shown is one of the tree.
LEMMA Here ==
  ASSUME MenuInv, Menus!WellFormed, phase = "run"
  PROVE  here \in 1..Len(frames) /\ \E K \in Nat : \E own : K <= Len(config) /\ Tree(frames, K, own)
  <1>1. MenuFine
    BY DEF MenuInv
  <1>2. PICK K \in Nat : \E own : Built(K, own)
    BY <1>1 DEF MenuFine
  <1> QED
    BY <1>1, <1>2 DEF MenuFine, Built

\* An item is picked.
LEMMA MenuPick ==
  ASSUME MenuInv, NEW n \in 1..ITEMS_MAX, Menus!Pick(n)
  PROVE  MenuInv'
  <1>1. PICK it : it = frames[here].items[n]
    OBVIOUS
  <1>2. /\ phase = "run" /\ n \in 1..frames[here].cnt /\ picked' = it.line /\ UNCHANGED Menus!MenuFixed
        /\ IF it.lower = 0 THEN phase' = phase /\ here' = here
           ELSE IF config[it.line].func THEN phase' = "quit" /\ here' = here
           ELSE here' = it.lower /\ phase' = phase
    BY <1>1 DEF Menus!Pick, Menus!Leaves
  <1>3. phase' \in {"run", "quit"} /\ config' = config
    BY <1>2 DEF Menus!MenuFixed
  <1>4. ASSUME Menus!WellFormed
        PROVE  (phase' = "run" => here' \in 1..Len(frames)) /\ Menus!QuitExplained'
    <2>1. here \in 1..Len(frames) /\ \E K \in Nat : \E own : K <= Len(config) /\ Tree(frames, K, own)
      BY <1>2, <1>4, Here
    <2>2. PICK K, own : K \in Nat /\ K <= Len(config) /\ Tree(frames, K, own)
      BY <2>1
    <2>3. LowerOk(frames, own, here, n)
      BY <1>2, <2>1, <2>2 DEF Tree
    <2>4. CASE it.lower = 0
      <3>1. phase' # "quit"
        BY <1>2, <2>4
      <3> QED
        BY <1>2, <2>1, <2>4, <3>1, QuitNext
    <2>5. CASE it.lower # 0
      <3>1. PICK w : w = it.lower /\ w \in 1..Len(frames) /\ own[w] = it.line
        BY <1>1, <2>3, <2>5 DEF LowerOk
      <3>2. FrameOk(frames[w], Len(frames), K, it.line)
        BY <2>2, <3>1 DEF Tree
      <3>3. Len(frames[w].items) \in Nat
        BY <2>2, <3>1, FieldsOf DEF Tree
      <3>4. frames[w].items[1].line \in Kin(K, it.line)
        <4>1. 1 \in 1..Len(frames[w].items)
          BY <3>2, <3>3 DEF FrameOk
        <4> QED
          BY <3>2, <4>1 DEF FrameOk, LineSet
      <3>5. frames[w].items[1].line \in Menus!Children(it.line)
        <4>1. frames[w].items[1].line \in 1..K /\ Menus!ParentLine(frames[w].items[1].line) = it.line
          BY <3>4 DEF Kin
        <4>2. FileOk
          BY DEF MenuInv
        <4>3. frames[w].items[1].line \in DOMAIN config
          BY <2>2, <4>1, <4>2, FileIs
        <4> QED
          BY <4>1, <4>3 DEF Menus!Children
      <3>6. Menus!Children(picked)' # {}
        <4>1. \A k : Menus!Children(k)' = Menus!Children(k)
          BY <1>3, SameFile
        <4>2. Menus!Children(picked)' = {j \in DOMAIN config' : Menus!ParentLine(j)' = picked'}
          BY DEF Menus!Children
        <4>3. Menus!Children(it.line)' = {j \in DOMAIN config' : Menus!ParentLine(j)' = it.line}
          BY DEF Menus!Children
        <4> QED
          BY <1>2, <3>5, <4>1, <4>2, <4>3
      <3>7. CASE config[it.line].func
        <4>1. config'[picked'].func
          BY <1>2, <1>3, <3>7
        <4>2. Menus!QuitExplained'
          BY <3>6, <4>1 DEF Menus!QuitExplained
        <4>3. phase' # "run"
          BY <1>2, <2>5, <3>7
        <4> QED
          BY <4>2, <4>3
      <3>8. CASE ~config[it.line].func
        <4>1. here' = w /\ phase' # "quit"
          BY <1>2, <2>5, <3>1, <3>8
        <4> QED
          BY <3>1, <4>1, QuitNext
      <3> QED
        BY <3>7, <3>8
    <2> QED
      BY <2>4, <2>5
  <1> QED
    BY <1>2, <1>3, <1>4, WalkStep

\* Back, or out.
LEMMA MenuBack ==
  ASSUME MenuInv, Menus!Back \/ Menus!Quit
  PROVE  MenuInv'
  <1>1. phase = "run" /\ picked' = 0 /\ UNCHANGED Menus!MenuFixed /\ phase' \in {"run", "quit"}
    BY DEF Menus!Back, Menus!Quit, Menus!Leaves
  <1>2. Menus!QuitExplained'
    BY <1>1 DEF Menus!QuitExplained
  <1>3. ASSUME Menus!WellFormed, phase' = "run" PROVE here' \in 1..Len(frames)
    <2>1. here \in 1..Len(frames) /\ \E K \in Nat : \E own : K <= Len(config) /\ Tree(frames, K, own)
      BY <1>1, <1>3, Here
    <2>2. PICK K, own : K \in Nat /\ K <= Len(config) /\ Tree(frames, K, own)
      BY <2>1
    <2>3. frames[here].up \in 0..Len(frames)
      BY <2>1, <2>2 DEF Tree, FrameOk
    <2>4. here' = here \/ (frames[here].up # 0 /\ here' = frames[here].up)
      BY <1>3 DEF Menus!Back, Menus!Quit, Menus!Leaves
    <2>5. CASE here' = here
      BY <2>1, <2>5
    <2>6. CASE frames[here].up # 0 /\ here' = frames[here].up
      BY <2>3, <2>6
    <2> QED
      BY <2>4, <2>5, <2>6
  <1> QED
    BY <1>1, <1>2, <1>3, WalkStep

\* What is shown of a frame is what is below its line.
LEMMA ShownIs ==
  ASSUME FileOk, NEW own, Tree(frames, Len(config), own), AllDone(frames), NEW f \in 1..Len(frames)
  PROVE  Menus!Range(Menus!Shown(f)) = Menus!Children(own[f])
  <1>1. frames \in Seq(FrameSet) /\ LineSet(frames[f]) = Kin(Len(config), own[f])
    BY DEF Tree, FrameOk
  <1>2. Len(frames[f].items) = frames[f].cnt
    BY DEF AllDone
  <1>3. Menus!Range(Menus!Shown(f)) = LineSet(frames[f])
    BY <1>2 DEF Menus!Range, Menus!Shown, LineSet
  <1>4. Kin(Len(config), own[f]) = Menus!Children(own[f])
    BY FileIs DEF Kin, Menus!Children
  <1> QED
    BY <1>1, <1>3, <1>4

\* The menus are those of the file.
LEMMA MenusAre ==
  ASSUME MenuInv
  PROVE  Menus!MenuMatchesFile
  <1> SUFFICES ASSUME phase \in {"run", "quit"}, Menus!WellFormed, lineNo > Len(config), Len(frames) + 1 < FRAMES_MAX
               PROVE  /\ Menus!Range(Menus!Shown(pTopUIFrame)) = Menus!Children(0)
                      /\ \A f \in DOMAIN frames :
                          /\ \A m, n \in 1 .. frames[f].cnt : m < n => frames[f].items[m].line < frames[f].items[n].line
                          /\ \A n \in 1 .. frames[f].cnt :
                                LET it == frames[f].items[n] IN
                                IF it.lower = 0 THEN Menus!Children(it.line) = {}
                                ELSE /\ Menus!Range(Menus!Shown(it.lower)) = Menus!Children(it.line)
                                     /\ frames[it.lower].up = f
    BY DEF Menus!MenuMatchesFile
  <1>1. FileOk /\ MenuFine
    BY DEF MenuInv
  <1>2. PICK K \in Nat : \E own : Built(K, own)
    BY <1>1 DEF MenuFine
  <1>3. PICK own : Built(K, own)
    BY <1>2
  <1>4. Tree(frames, Len(config), own) /\ AllDone(frames) /\ Len(config) \in Nat \ {0} /\ DOMAIN config = 1..Len(config)
    BY <1>1, <1>3, FileIs DEF Built
  <1>5. frames \in Seq(FrameSet) /\ DOMAIN frames = 1..Len(frames)
    BY <1>4 DEF Tree
  <1>6. frames # <<>> /\ 1 \in 1..Len(frames)
    <2>1. 1 \in 1..Len(config)
      BY <1>4
    <2>2. \E g \in 1..Len(frames) : own[g] = Menus!ParentLine(1)
      BY <1>4, <2>1 DEF Tree
    <2> QED
      BY <1>5, <2>2
  <1>7. Menus!Range(Menus!Shown(pTopUIFrame)) = Menus!Children(0)
    <2>1. pTopUIFrame = 1 /\ own[1] = 0
      BY <1>1, <1>4, <1>6 DEF MenuFine, Tree
    <2> QED
      BY <1>1, <1>4, <1>6, <2>1, ShownIs
  <1>8. ASSUME NEW f \in 1..Len(frames)
        PROVE  \A m, n \in 1 .. frames[f].cnt : m < n => frames[f].items[m].line < frames[f].items[n].line
    BY <1>4 DEF Tree, FrameOk, AllDone
  <1>9. ASSUME NEW f \in 1..Len(frames), NEW n \in 1..frames[f].cnt
        PROVE  LET it == frames[f].items[n] IN
               IF it.lower = 0 THEN Menus!Children(it.line) = {}
               ELSE /\ Menus!Range(Menus!Shown(it.lower)) = Menus!Children(it.line)
                    /\ frames[it.lower].up = f
    <2>1. LowerOk(frames, own, f, n)
      BY <1>4 DEF Tree
    <2>2. CASE frames[f].items[n].lower = 0
      <3>1. \A g \in 1..Len(frames) : own[g] # frames[f].items[n].line
        BY <2>1, <2>2 DEF LowerOk
      <3>2. \A j \in 1..Len(config) : \E g \in 1..Len(frames) : own[g] = Menus!ParentLine(j)
        BY <1>4 DEF Tree
      <3>3. Menus!Children(frames[f].items[n].line) = {}
        BY <1>4, <3>1, <3>2 DEF Menus!Children
      <3> QED
        BY <2>2, <3>3
    <2>3. CASE frames[f].items[n].lower # 0
      <3>1. PICK w : w = frames[f].items[n].lower
        OBVIOUS
      <3>2. w \in 1..Len(frames) /\ own[w] = frames[f].items[n].line /\ frames[w].up = f
        BY <2>1, <2>3, <3>1 DEF LowerOk
      <3>3. Menus!Range(Menus!Shown(w)) = Menus!Children(own[w])
        BY <1>1, <1>4, <3>2, ShownIs
      <3> QED
        BY <2>3, <3>1, <3>2, <3>3
    <2> QED
      BY <2>2, <2>3
  <1> QED
    BY <1>5, <1>7, <1>8, <1>9

\* Every step keeps the invariant.
LEMMA MenuKeeps ==
  ASSUME MenuInv, [PartsNext]_partVars
  PROVE  MenuInv'
  <1>1. CASE which = "menu" /\ Menus!MenuNext
    BY <1>1, MenuParse, MenuParsed, MenuPick, MenuBack DEF Menus!MenuNext
  <1>2. CASE UNCHANGED menuv
    <2>1. /\ config' = config /\ lineNo' = lineNo /\ pTopUIFrame' = pTopUIFrame /\ frames' = frames
          /\ s32Level' = s32Level /\ stack' = stack /\ phase' = phase /\ here' = here /\ picked' = picked
      BY <1>2 DEF menuv, Menus!menuVars
    <2>2. FileOk' /\ (Menus!WellFormed' <=> Menus!WellFormed) /\ \A k : Menus!Children(k)' = Menus!Children(k)
      <3>1. FileOk /\ lineNo' \in Nat \ {0}
        BY <2>1 DEF MenuInv, FileOk
      <3> QED
        BY <2>1, <3>1, SameFile
    <2>3. SUFFICES ASSUME Menus!WellFormed PROVE MenuFine'
      BY <2>2 DEF MenuInv
    <2>4. MenuFine /\ FileOk
      BY <2>3 DEF MenuInv
    <2>5. phase' = "parse" => \E own : Reading(own)'
      <3>1. SUFFICES ASSUME phase = "parse" PROVE \E own : Reading(own)'
        BY <2>1
      <3>2. PICK own : Reading(own)
        BY <2>4, <3>1 DEF MenuFine
      <3>3. PICK K \in Nat : K = lineNo - 1 /\ K = lineNo' - 1 /\ lineNo' - 1 = K
        BY <2>1, <2>4 DEF FileOk
      <3>4. Tree(frames, lineNo - 1, own)'
        BY <2>1, <3>2, <3>3, TreeNext DEF Reading
      <3>5. StackOk(stack, lineNo - 1, own, Len(frames))'
        <4>1. StackOk(stack', K, own, Len(frames'))
          BY <2>1, <3>2, <3>3 DEF Reading
        <4> QED
          BY <2>1, <3>3, <4>1, StackNext
      <3>6. lineNo' - 1 # 0 => AllButOne(frames, stack[Len(stack)], lineNo - 1)'
        BY <2>1, <3>2 DEF Reading, AllButOne
      <3>7. Reading(own)'
        BY <2>1, <3>2, <3>4, <3>5, <3>6 DEF Reading
      <3> QED
        BY <3>7
    <2>6. phase' \in {"failed", "run", "quit"} => \E K \in Nat : \E own : Built(K, own)'
      <3>1. SUFFICES ASSUME phase \in {"failed", "run", "quit"}
                     PROVE  \E K \in Nat : \E own : Built(K, own)'
        BY <2>1
      <3>2. PICK K \in Nat : \E own : Built(K, own)
        BY <2>4, <3>1 DEF MenuFine
      <3>3. PICK own : Built(K, own)
        BY <3>2
      <3>4. K <= Len(config) /\ Tree(frames', K, own) /\ (Len(frames') + 1 < FRAMES_MAX => K = Len(config) /\ AllDone(frames'))
        BY <2>1, <3>3 DEF Built
      <3>5. Built(K, own)'
        BY <2>1, <3>4, ReadyNext
      <3> QED
        BY <3>5
    <2>7. Menus!OverrunExplained'
      <3>1. phase = "overrun" => \E k \in 0..Len(config) : Menus!Cardinality(Menus!Children(k)) > ITEMS_MAX
        BY <2>3, <2>4 DEF MenuFine, Menus!OverrunExplained
      <3> QED
        BY <2>1, <3>1, OverrunNext
    <2>8. Menus!QuitExplained'
      <3>1. phase = "quit" => picked = 0 \/ (config[picked].func /\ Menus!Children(picked) # {})
        BY <2>3, <2>4 DEF MenuFine, Menus!QuitExplained
      <3>2. Menus!Children(picked)' = Menus!Children(picked)
        <4>1. \A j : Menus!ParentLine(j)' = Menus!ParentLine(j)
          BY <2>1, SameParents
        <4> QED
          BY <2>1, <4>1 DEF Menus!Children
      <3> QED
        BY <2>1, <3>1, <3>2 DEF Menus!QuitExplained
    <2> QED
      BY <2>1, <2>4, <2>5, <2>6, <2>7, <2>8 DEF MenuFine
  <1>3. (which = "menu" /\ Menus!MenuNext) \/ UNCHANGED menuv
    <2>1. CASE PartsNext
      BY <2>1 DEF PartsNext, PartsKept
    <2>2. CASE UNCHANGED partVars
      BY <2>2 DEF partVars, menuv
    <2> QED
      BY <2>1, <2>2
  <1> QED
    BY <1>1, <1>2, <1>3

\* parseMenuConfig builds the menus that the indentation of a well-formed
\* file means, writes past the items of a frame only for a menu of too many
\* lines, and getInputAndProcess leaves only as it should.
THEOREM MenuCorrect == PartsSpec => []MenuSound
  <1>1. PartsInit => MenuInv
    BY MenuInitInv DEF PartsInit
  <1>2. MenuInv /\ [PartsNext]_partVars => MenuInv'
    BY MenuKeeps
  <1>3. MenuInv => MenuSound
    <2> SUFFICES ASSUME MenuInv PROVE Menus!MenuMatchesFile /\ Menus!OverrunExplained /\ Menus!QuitExplained
      BY DEF MenuSound
    <2>1. Menus!WellFormed => Menus!OverrunExplained /\ Menus!QuitExplained
      BY DEF MenuInv, MenuFine
    <2>2. ~Menus!WellFormed => Menus!OverrunExplained /\ Menus!QuitExplained
      BY DEF Menus!OverrunExplained, Menus!QuitExplained
    <2> QED
      BY <2>1, <2>2, MenusAre
  <1> QED
    BY <1>1, <1>2, <1>3, PTL DEF PartsSpec
=============================================================================
