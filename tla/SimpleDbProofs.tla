--------------------------- MODULE SimpleDbProofs ---------------------------
(***************************************************************************)
(* Proofs about SimpleDb, for any ids in any order, any number of rows and *)
(* of cells in a page, and whatever the padding byte and the words that    *)
(* nobody wrote hold: RowsKept and FileMatchesSaved.  Neither needs the    *)
(* keys: a damaged key or a wrong child sends a search to a wrong place,   *)
(* and the argument is that every row survives at whatever place.          *)
(***************************************************************************)
EXTENDS SimpleDb, SequenceTheorems, FiniteSetTheorems, FunctionTheorems,
        WellFoundedInduction, NaturalsInduction, TLAPS

\* A set of naturals that is not empty has a least element.
LEMMA LeastNat ==
  ASSUME NEW T, T \subseteq Nat, T # {}
  PROVE  \E x \in T : \A y \in T : x <= y
  <1>1. PICK x \in T : \A y \in T : ~ (<<y, x>> \in OpToRel(<, Nat))
    BY NatLessThanWellFounded, WFMin
  <1>2. \A y \in T : ~ (y < x)
    BY <1>1 DEF OpToRel
  <1> QED
    BY <1>2

-----------------------------------------------------------------------------
(* Counting.                                                               *)

\* How often v is in the sequence s.
Occ(s, v) == Cardinality({i \in DOMAIN s : s[i] = v})

\* An element occurs in a sequence a natural number of times.
LEMMA OccType ==
  ASSUME NEW S, NEW s \in Seq(S), NEW v
  PROVE  IsFiniteSet({i \in DOMAIN s : s[i] = v}) /\ Occ(s, v) \in 0..Len(s)
  <1>1. PICK n \in Nat : n = Len(s)
    OBVIOUS
  <1>2. DOMAIN s = 1..n
    BY <1>1
  <1>3. IsFiniteSet(1..n) /\ Cardinality(1..n) = n
    BY FS_Interval
  <1>4. {i \in DOMAIN s : s[i] = v} \in SUBSET (1..n)
    BY <1>2
  <1>5. IsFiniteSet({i \in DOMAIN s : s[i] = v}) /\ Cardinality({i \in DOMAIN s : s[i] = v}) <= n
    BY <1>3, <1>4, FS_Subset
  <1>6. Cardinality({i \in DOMAIN s : s[i] = v}) \in Nat
    BY <1>5, FS_CardinalityType
  <1> QED
    BY <1>1, <1>5, <1>6 DEF Occ

\* The occurrences in two sequences add up.
LEMMA OccCat ==
  ASSUME NEW S, NEW s \in Seq(S), NEW t \in Seq(S), NEW v
  PROVE  Occ(s \o t, v) = Occ(s, v) + Occ(t, v)
  <1>1. PICK n \in Nat : n = Len(s)
    OBVIOUS
  <1>2. PICK m \in Nat : m = Len(t)
    OBVIOUS
  <1>3. PICK u : u = s \o t
    OBVIOUS
  <1>4. /\ DOMAIN u = 1..n + m
        /\ \A i \in 1..n + m : u[i] = IF i <= n THEN s[i] ELSE t[i - n]
    BY <1>1, <1>2, <1>3, ConcatProperties
  <1> DEFINE A == {i \in DOMAIN s : s[i] = v}
             B == {i \in DOMAIN t : t[i] = v}
             C == {i \in DOMAIN u : u[i] = v}
             D == {i \in n + 1..n + m : t[i - n] = v}
             f == [i \in B |-> i + n]
  <1>5. A \subseteq 1..n /\ B \subseteq 1..m
    BY <1>1, <1>2
  <1>6. C = A \cup D
    <2>1. \A i \in C : i \in A \/ i \in D
      BY <1>1, <1>2, <1>4
    <2>2. \A i \in A : i \in C
      BY <1>1, <1>2, <1>4
    <2>3. \A i \in D : i \in C
      BY <1>4
    <2> HIDE DEF A, C, D
    <2> QED
      BY <2>1, <2>2, <2>3
  <1>7. A \cap D = {}
    <2>1. D \subseteq n + 1..n + m
      OBVIOUS
    <2> HIDE DEF A, D
    <2> QED
      BY <1>5, <2>1
  <1>8. f \in Bijection(B, D)
    <2>1. \A i \in B : i + n \in D
      BY <1>2
    <2>2. \A d \in D : d - n \in B /\ (d - n) + n = d
      BY <1>2
    <2>3. f \in [B -> D]
      BY <2>1
    <2>4. \A i, j \in B : f[i] = f[j] => i = j
      BY <1>5
    <2>5. \A d \in D : \E i \in B : f[i] = d
      BY <2>2
    <2> QED
      BY <2>3, <2>4, <2>5 DEF Bijection, Injection, Surjection, IsInjective
  <1>9. IsFiniteSet(A) /\ IsFiniteSet(B)
    BY OccType
  <1>10. IsFiniteSet(D) /\ Cardinality(D) = Cardinality(B)
    <2> HIDE DEF f, B, D
    <2> QED
      BY <1>8, <1>9, FS_Bijection DEF ExistsBijection
  <1>11. Cardinality(A) \in Nat /\ Cardinality(D) \in Nat
    BY <1>9, <1>10, FS_CardinalityType
  <1>12. Cardinality(A \cup D) = Cardinality(A) + Cardinality(D) - Cardinality(A \cap D)
    <2> HIDE DEF A, D
    <2> QED
      BY <1>9, <1>10, FS_Union
  <1>13. Cardinality(A \cap D) = 0
    BY <1>7, FS_EmptySet
  <1>14. Cardinality(C) = Cardinality(A) + Cardinality(B)
    <2> HIDE DEF A, B, C, D
    <2> QED
      BY <1>6, <1>10, <1>11, <1>12, <1>13
  <1> QED
    BY <1>3, <1>14 DEF Occ

\* The sum of g over T: the numbers g[n], each at most a full leaf, as pairs.
SumOver(g, T) ==
    Cardinality({x \in T \X (1..LEAF_NODE_MAX_CELLS) : x[2] <= g[x[1]]})

\* The sum over no page.
LEMMA SumEmpty == ASSUME NEW g PROVE SumOver(g, {}) = 0
  <1>1. {x \in {} \X (1..LEAF_NODE_MAX_CELLS) : x[2] <= g[x[1]]} = {}
    OBVIOUS
  <1> QED
    BY <1>1, FS_EmptySet DEF SumOver

\* The sum depends on the numbers alone.
LEMMA SumSame ==
  ASSUME NEW g, NEW h, NEW T, \A n \in T : g[n] = h[n]
  PROVE  SumOver(g, T) = SumOver(h, T)
  <1>1. {x \in T \X (1..LEAF_NODE_MAX_CELLS) : x[2] <= g[x[1]]}
          = {x \in T \X (1..LEAF_NODE_MAX_CELLS) : x[2] <= h[x[1]]}
    OBVIOUS
  <1> QED
    BY <1>1 DEF SumOver

\* One more page adds its number to the sum.
LEMMA SumAdd ==
  ASSUME NEW g, NEW T, IsFiniteSet(T), NEW y, y \notin T,
         g[y] \in 0..LEAF_NODE_MAX_CELLS
  PROVE  /\ SumOver(g, T) \in Nat
         /\ SumOver(g, T \cup {y}) = SumOver(g, T) + g[y]
  <1>0. LEAF_NODE_MAX_CELLS \in Nat
    BY DbAssumption DEF DbAssumption
  <1> DEFINE M == 1..LEAF_NODE_MAX_CELLS
             A == {x \in T \X M : x[2] <= g[x[1]]}
             B == {x \in {y} \X M : x[2] <= g[x[1]]}
             C == {x \in (T \cup {y}) \X M : x[2] <= g[x[1]]}
             f == [i \in 1..g[y] |-> <<y, i>>]
  <1>1. C = A \cup B
    OBVIOUS
  <1>2. A \cap B = {}
    OBVIOUS
  <1>3. IsFiniteSet(A)
    <2>1. IsFiniteSet(M)
      BY <1>0, FS_Interval
    <2>2. IsFiniteSet(T \X M)
      <3> HIDE DEF M
      <3> QED
        BY <2>1, FS_Product
    <2>3. A \in SUBSET (T \X M)
      OBVIOUS
    <2> QED
      <3> HIDE DEF A, M
      <3> QED
        BY <2>2, <2>3, FS_Subset
  <1>4. f \in Bijection(1..g[y], B)
    <2>1. f \in [1..g[y] -> B]
      BY <1>0
    <2>2. \A i, j \in 1..g[y] : f[i] = f[j] => i = j
      OBVIOUS
    <2>3. \A b \in B : \E i \in 1..g[y] : f[i] = b
      <3> SUFFICES ASSUME NEW b \in B PROVE \E i \in 1..g[y] : f[i] = b
        OBVIOUS
      <3>1. b[1] = y /\ b[2] \in 1..LEAF_NODE_MAX_CELLS /\ b[2] <= g[y] /\ b = <<b[1], b[2]>>
        OBVIOUS
      <3>2. b[2] \in 1..g[y]
        BY <1>0, <3>1
      <3> QED
        BY <3>1, <3>2
    <2> QED
      BY <2>1, <2>2, <2>3 DEF Bijection, Injection, Surjection, IsInjective
  <1>5. IsFiniteSet(1..g[y]) /\ Cardinality(1..g[y]) = g[y]
    <2>1. PICK z \in Nat : z = g[y]
      BY <1>0
    <2>2. IsFiniteSet(1..z) /\ Cardinality(1..z) = z
      BY FS_Interval
    <2> QED
      BY <2>1, <2>2
  <1>6. IsFiniteSet(B) /\ Cardinality(B) = g[y]
    <2> HIDE DEF f, B
    <2> QED
      BY <1>4, <1>5, FS_Bijection DEF ExistsBijection
  <1>7. Cardinality(A) \in Nat
    BY <1>3, FS_CardinalityType
  <1>8. Cardinality(C) = Cardinality(A) + g[y]
    <2>1. Cardinality(A \cup B) = Cardinality(A) + Cardinality(B) - Cardinality(A \cap B)
      <3> HIDE DEF A, B
      <3> QED
        BY <1>3, <1>6, FS_Union
    <2>2. Cardinality(A \cap B) = 0
      BY <1>2, FS_EmptySet
    <2> QED
      <3> HIDE DEF A, B, C
      <3> QED
        BY <1>0, <1>1, <1>6, <1>7, <2>1, <2>2
  <1> QED
    BY <1>7, <1>8 DEF SumOver

-----------------------------------------------------------------------------
(* The binary search of leaf_node_find ends at a place of the leaf,        *)
(* whatever the keys are.                                                  *)

\* What the search does with the bounds lo and hi, W being the search.
Looks(leaf, key, W, lo, hi) ==
    LET m == (lo + hi) \div 2
        at == leaf.cells[m + 1].key
    IN  IF lo >= hi THEN lo
        ELSE IF key = at THEN m
        ELSE IF key < at THEN W[<<lo, m>>] ELSE W[<<m + 1, hi>>]

\* W is the search between bounds at most d apart.
SearchUpTo(leaf, key, n, W, d) ==
    \A lo, hi \in 0..n : hi - lo <= d => W[<<lo, hi>>] = Looks(leaf, key, W, lo, hi)

\* The middle of two bounds is between them.
LEMMA Middle ==
  ASSUME NEW lo \in Nat, NEW hi \in Nat, lo < hi
  PROVE  (lo + hi) \div 2 \in lo..hi - 1
  OBVIOUS

\* V and W are the same search between bounds less than d apart.
SameUpTo(V, W, n, d) ==
    \A lo, hi \in 0..n : hi - lo < d => V[<<lo, hi>>] = W[<<lo, hi>>]

\* A step of the search stays in the leaf.
LEMMA LooksRange ==
  ASSUME NEW leaf, NEW key, NEW n \in Nat, NEW W,
         \A lo, hi \in 0..n : W[<<lo, hi>>] \in 0..n,
         NEW lo \in 0..n, NEW hi \in 0..n
  PROVE  Looks(leaf, key, W, lo, hi) \in 0..n
  <1>1. CASE lo >= hi
    BY <1>1 DEF Looks
  <1>2. CASE ~(lo >= hi)
    <2>1. PICK m \in Int : m = (lo + hi) \div 2
      OBVIOUS
    <2>2. m \in lo..hi - 1
      BY <1>2, <2>1, Middle
    <2>3. m \in 0..n /\ m + 1 \in 0..n
      BY <2>2
    <2>4. W[<<lo, m>>] \in 0..n
      BY <2>3
    <2>5. W[<<m + 1, hi>>] \in 0..n
      BY <2>3
    <2>6. Looks(leaf, key, W, lo, hi) \in {m, W[<<lo, m>>], W[<<m + 1, hi>>]}
      BY <1>2, <2>1 DEF Looks
    <2> QED
      BY <2>3, <2>4, <2>5, <2>6
  <1> QED
    BY <1>1, <1>2

\* A step of the search depends on closer bounds alone.
LEMMA LooksSame ==
  ASSUME NEW leaf, NEW key, NEW n \in Nat, NEW V, NEW W,
         NEW lo \in 0..n, NEW hi \in 0..n, SameUpTo(V, W, n, hi - lo)
  PROVE  Looks(leaf, key, V, lo, hi) = Looks(leaf, key, W, lo, hi)
  <1>1. CASE lo >= hi
    BY <1>1 DEF Looks
  <1>2. CASE ~(lo >= hi)
    <2>1. PICK m \in Int : m = (lo + hi) \div 2
      OBVIOUS
    <2>2. m \in lo..hi - 1
      BY <1>2, <2>1, Middle
    <2>3. m \in 0..n /\ m + 1 \in 0..n /\ m - lo < hi - lo /\ hi - (m + 1) < hi - lo
      BY <2>2
    <2>4. V[<<lo, m>>] = W[<<lo, m>>]
      BY <2>3 DEF SameUpTo
    <2>5. V[<<m + 1, hi>>] = W[<<m + 1, hi>>]
      BY <2>3 DEF SameUpTo
    <2> QED
      BY <1>2, <2>1, <2>4, <2>5 DEF Looks
  <1> QED
    BY <1>1, <1>2

\* W is the search of leaf_node_find.
IsSearch(leaf, key, n, W) ==
    W = [r \in (0..n) \X (0..n) |-> Looks(leaf, key, W, r[1], r[2])]

\* The search is defined for all bounds.
LEMMA SearchExists ==
  ASSUME NEW leaf, NEW key, NEW n \in Nat
  PROVE  \E W : IsSearch(leaf, key, n, W)
  <1> DEFINE D == (0..n) \X (0..n)
             Good(d) == \E W \in [D -> 0..n] : SearchUpTo(leaf, key, n, W, d)
             Bad == {d \in Nat : ~Good(d)}
  <1>1. Good(0)
    <2> DEFINE W0 == [r \in D |-> r[1]]
    <2>1. W0 \in [D -> 0..n] /\ \A lo, hi \in 0..n : W0[<<lo, hi>>] = lo
      OBVIOUS
    <2>2. SearchUpTo(leaf, key, n, W0, 0)
      BY <2>1 DEF SearchUpTo, Looks
    <2> QED
      BY <2>1, <2>2
  <1>2. ASSUME NEW d \in Nat, Good(d) PROVE Good(d + 1)
    <2>1. PICK W \in [D -> 0..n] : SearchUpTo(leaf, key, n, W, d)
      BY <1>2
    <2> DEFINE V == [r \in D |-> IF r[2] - r[1] <= d THEN W[r]
                                 ELSE Looks(leaf, key, W, r[1], r[2])]
    <2>2. \A lo, hi \in 0..n : W[<<lo, hi>>] \in 0..n /\ Looks(leaf, key, W, lo, hi) \in 0..n
      <3>1. \A lo, hi \in 0..n : W[<<lo, hi>>] \in 0..n
        BY <2>1
      <3>2. \A lo, hi \in 0..n : Looks(leaf, key, W, lo, hi) \in 0..n
        BY <3>1, LooksRange
      <3> QED
        BY <3>1, <3>2
    <2>3. V \in [D -> 0..n]
      BY <2>2
    <2>4. \A lo, hi \in 0..n : V[<<lo, hi>>] = IF hi - lo <= d THEN W[<<lo, hi>>]
                                            ELSE Looks(leaf, key, W, lo, hi)
      OBVIOUS
    <2> HIDE DEF V
    <2>5. SearchUpTo(leaf, key, n, V, d + 1)
      <3> SUFFICES ASSUME NEW lo \in 0..n, NEW hi \in 0..n, hi - lo <= d + 1
                   PROVE  V[<<lo, hi>>] = Looks(leaf, key, V, lo, hi)
        BY DEF SearchUpTo
      <3>1. SameUpTo(V, W, n, hi - lo)
        BY <2>4 DEF SameUpTo
      <3>2. Looks(leaf, key, V, lo, hi) = Looks(leaf, key, W, lo, hi)
        BY <3>1, LooksSame
      <3>3. V[<<lo, hi>>] = Looks(leaf, key, W, lo, hi)
        BY <2>1, <2>4 DEF SearchUpTo
      <3> QED
        BY <3>2, <3>3
    <2> QED
      BY <2>3, <2>5
  <1>3. \A d \in Nat : Good(d)
    <2> HIDE DEF Good
    <2> SUFFICES ASSUME Bad # {} PROVE FALSE
      OBVIOUS
    <2>1. PICK d \in Bad : \A e \in Bad : d <= e
      BY LeastNat
    <2>2. d \in Nat /\ ~Good(d) /\ d # 0
      BY <1>1
    <2>3. d - 1 \in Nat
      BY <2>2
    <2>4. Good(d - 1)
      BY <2>1, <2>2, <2>3
    <2>5. Good((d - 1) + 1)
      BY <1>2, <2>3, <2>4
    <2>6. (d - 1) + 1 = d
      BY <2>2
    <2> QED
      BY <2>2, <2>5, <2>6
  <1>4. PICK W \in [D -> 0..n] : SearchUpTo(leaf, key, n, W, n)
    BY <1>3
  <1>5. \A lo, hi \in 0..n : W[<<lo, hi>>] = Looks(leaf, key, W, lo, hi)
    <2> SUFFICES ASSUME NEW lo \in 0..n, NEW hi \in 0..n
                 PROVE  W[<<lo, hi>>] = Looks(leaf, key, W, lo, hi)
      OBVIOUS
    <2>1. hi - lo <= n
      OBVIOUS
    <2> QED
      BY <1>4, <2>1 DEF SearchUpTo
  <1>6. \A r \in D : W[r] = Looks(leaf, key, W, r[1], r[2])
    BY <1>5
  <1>7. IsSearch(leaf, key, n, W)
    BY <1>4, <1>6 DEF IsSearch
  <1> QED
    BY <1>7

\* The search from any bounds that do not cross ends between them.
LEMMA SearchEnds ==
  ASSUME NEW leaf, NEW key, NEW n \in Nat, NEW F,
         IsSearch(leaf, key, n, F)
  PROVE  F[<<0, n>>] \in 0..n
  <1> DEFINE Good(d) == \A lo, hi \in 0..n : hi - lo <= d => F[<<lo, hi>>] \in 0..n
             Bad == {d \in Nat : ~Good(d)}
  <1>0. \A lo, hi \in 0..n : F[<<lo, hi>>] = Looks(leaf, key, F, lo, hi)
    <2> DEFINE G == [r \in (0..n) \X (0..n) |-> Looks(leaf, key, F, r[1], r[2])]
    <2>1. \A lo, hi \in 0..n : G[<<lo, hi>>] = Looks(leaf, key, F, lo, hi)
      OBVIOUS
    <2>2. F = G
      BY DEF IsSearch
    <2> HIDE DEF G
    <2> QED
      BY <2>1, <2>2
  <1>1. \A d \in Nat : Good(d)
    <2> SUFFICES ASSUME Bad # {} PROVE FALSE
      OBVIOUS
    <2>1. PICK d \in Bad : \A e \in Bad : d <= e
      <3> HIDE DEF Good
      <3> QED
        BY LeastNat
    <2>2. d \in Nat /\ ~Good(d)
      OBVIOUS
    <2>3. PICK lo \in 0..n, hi \in 0..n : hi - lo <= d /\ ~(F[<<lo, hi>>] \in 0..n)
      BY <2>2
    <2>4. F[<<lo, hi>>] = Looks(leaf, key, F, lo, hi)
      BY <1>0
    <2>5. CASE lo >= hi
      BY <2>3, <2>4, <2>5 DEF Looks
    <2>6. CASE ~(lo >= hi)
      <3>1. PICK m \in Int : m = (lo + hi) \div 2
        OBVIOUS
      <3>2. m \in lo..hi - 1
        BY <2>6, <3>1, Middle
      <3>3. /\ m \in 0..n /\ m + 1 \in 0..n
            /\ m - lo <= d - 1 /\ hi - (m + 1) <= d - 1 /\ d - 1 \in Nat
        BY <2>2, <2>3, <2>6, <3>2
      <3>4. Good(d - 1)
        <4> HIDE DEF Good
        <4> QED
          BY <2>1, <2>2, <3>3
      <3>5. F[<<lo, m>>] \in 0..n
        BY <3>3, <3>4
      <3>6. F[<<m + 1, hi>>] \in 0..n
        BY <3>3, <3>4
      <3>7. Looks(leaf, key, F, lo, hi) \in {m, F[<<lo, m>>], F[<<m + 1, hi>>]}
        BY <2>6, <3>1 DEF Looks
      <3> QED
        BY <2>3, <2>4, <3>3, <3>5, <3>6, <3>7
    <2> QED
      BY <2>5, <2>6
  <1>2. Good(n) /\ n - 0 <= n
    BY <1>1
  <1> QED
    BY <1>2

\* The cursor of leaf_node_find is at a cell or behind the last.
LEMMA FindRange ==
  ASSUME NEW leaf, NEW key, NEW n \in Nat, n = Len(leaf.cells)
  PROVE  LeafFind(leaf, key) \in 0..n
  <1> DEFINE F == CHOOSE W : IsSearch(leaf, key, n, W)
  <1>1. IsSearch(leaf, key, n, F)
    BY SearchExists
  <1>2. F[<<0, n>>] \in 0..n
    <2> HIDE DEF F
    <2> QED
      BY <1>1, SearchEnds
  <1>3. LeafFind(leaf, key) = F[<<0, n>>]
    BY DEF LeafFind, Looks, IsSearch
  <1> QED
    BY <1>2, <1>3

-----------------------------------------------------------------------------
(* The cells of a leaf.                                                    *)

\* What a cell holds: the key may be damaged, the row is a row.
Cell == [key : Nat, row : Keys]

\* How many cells hold the row of k.
RowCount(cells, k) == Cardinality({i \in DOMAIN cells : cells[i].row = k})

\* The rows of the cells.
CellRows(cells) == [i \in 1..Len(cells) |-> cells[i].row]

\* Counting the cells of a row is counting the row among the rows.
LEMMA RowCountOcc ==
  ASSUME NEW cells \in Seq(Cell), NEW k
  PROVE  /\ CellRows(cells) \in Seq(Keys) /\ Len(CellRows(cells)) = Len(cells)
         /\ \A i \in 1..Len(cells) : CellRows(cells)[i] = cells[i].row
         /\ RowCount(cells, k) = Occ(CellRows(cells), k)
         /\ RowCount(cells, k) \in 0..Len(cells)
  <1>1. PICK n \in Nat : n = Len(cells)
    OBVIOUS
  <1>2. DOMAIN cells = 1..n /\ \A i \in 1..n : cells[i].row \in Keys
    <2>1. \A i \in 1..n : cells[i] \in Cell
      BY <1>1
    <2>2. \A c \in Cell : c.row \in Keys
      BY DEF Cell
    <2> QED
      BY <1>1, <2>1, <2>2
  <1>3. PICK s : s = CellRows(cells)
    OBVIOUS
  <1>4. s \in [1..n -> Keys] /\ \A i \in 1..n : s[i] = cells[i].row
    BY <1>1, <1>2, <1>3 DEF CellRows
  <1>5. s \in Seq(Keys) /\ Len(s) = n /\ DOMAIN s = 1..n
    BY <1>4
  <1>6. {i \in DOMAIN cells : cells[i].row = k} = {i \in DOMAIN s : s[i] = k}
    BY <1>2, <1>4, <1>5
  <1>7. RowCount(cells, k) = Occ(s, k)
    BY <1>6 DEF RowCount, Occ
  <1>8. Occ(s, k) \in 0..Len(s)
    BY <1>5, OccType
  <1> QED
    BY <1>1, <1>3, <1>4, <1>5, <1>7, <1>8

\* The rows of two pieces add up.
LEMMA RowCat ==
  ASSUME NEW s \in Seq(Cell), NEW t \in Seq(Cell), NEW k
  PROVE  RowCount(s \o t, k) = RowCount(s, k) + RowCount(t, k)
  <1>1. PICK u : u = s \o t
    OBVIOUS
  <1>2. /\ u \in Seq(Cell) /\ Len(u) = Len(s) + Len(t)
        /\ \A i \in 1..Len(s) + Len(t) : u[i] = IF i <= Len(s) THEN s[i] ELSE t[i - Len(s)]
    BY <1>1, ConcatProperties
  <1>3. PICK a : a = CellRows(s)
    OBVIOUS
  <1>4. PICK b : b = CellRows(t)
    OBVIOUS
  <1>5. /\ a \in Seq(Keys) /\ Len(a) = Len(s) /\ \A i \in 1..Len(s) : a[i] = s[i].row
        /\ RowCount(s, k) = Occ(a, k)
    BY <1>3, RowCountOcc
  <1>6. /\ b \in Seq(Keys) /\ Len(b) = Len(t) /\ \A i \in 1..Len(t) : b[i] = t[i].row
        /\ RowCount(t, k) = Occ(b, k)
    BY <1>4, RowCountOcc
  <1>7. PICK c : c = CellRows(u)
    OBVIOUS
  <1>8. /\ c \in Seq(Keys) /\ Len(c) = Len(u) /\ \A i \in 1..Len(u) : c[i] = u[i].row
        /\ RowCount(u, k) = Occ(c, k)
    BY <1>2, <1>7, RowCountOcc
  <1>9. PICK n \in Nat : n = Len(s) /\ n = Len(a)
    BY <1>5
  <1>10. PICK m \in Nat : m = Len(t) /\ m = Len(b)
    BY <1>6
  <1>11. a \in Seq(Keys) /\ b \in Seq(Keys)
    BY <1>5, <1>6
  <1>12. PICK d : d = a \o b
    OBVIOUS
  <1>13. /\ d \in Seq(Keys) /\ Len(d) = n + m
         /\ \A i \in 1..n + m : d[i] = IF i <= n THEN a[i] ELSE b[i - n]
    BY ONLY <1>9, <1>10, <1>11, <1>12, ConcatProperties
  <1>14. c = d
    <2>1. c \in Seq(Keys) /\ Len(c) = n + m
      BY <1>2, <1>8, <1>9, <1>10
    <2>2. \A i \in 1..n + m : c[i] = u[i].row
      BY <1>2, <1>8, <1>9, <1>10
    <2>3. \A i \in 1..n + m : u[i] = IF i <= n THEN s[i] ELSE t[i - n]
      BY <1>2, <1>9, <1>10
    <2>4. (\A i \in 1..n : a[i] = s[i].row) /\ (\A i \in 1..m : b[i] = t[i].row)
      BY <1>5, <1>6, <1>9, <1>10
    <2>5. \A i \in 1..n + m : c[i] = d[i]
      <3> SUFFICES ASSUME NEW i \in 1..n + m PROVE c[i] = d[i]
        OBVIOUS
      <3>1. /\ c[i] = u[i].row /\ u[i] = (IF i <= n THEN s[i] ELSE t[i - n])
            /\ d[i] = IF i <= n THEN a[i] ELSE b[i - n]
        BY <1>13, <2>2, <2>3
      <3>2. CASE i <= n
        <4>1. i \in 1..n
          BY <3>2
        <4>2. a[i] = s[i].row
          BY <2>4, <4>1
        <4> QED
          BY ONLY <3>1, <3>2, <4>2
      <3>3. CASE ~(i <= n)
        <4>1. i - n \in 1..m
          BY <3>3
        <4>2. b[i - n] = t[i - n].row
          BY <2>4, <4>1
        <4> QED
          BY ONLY <3>1, <3>3, <4>2
      <3> QED
        BY <3>2, <3>3
    <2> QED
      BY ONLY <1>13, <2>1, <2>5, SeqEqual
  <1>15. Occ(d, k) = Occ(a, k) + Occ(b, k)
    BY <1>11, <1>12, OccCat
  <1> QED
    BY <1>1, <1>5, <1>6, <1>8, <1>14, <1>15

\* One cell holds one row.
LEMMA RowOne ==
  ASSUME NEW c \in Cell, NEW k
  PROVE  /\ <<c>> \in Seq(Cell) /\ Len(<<c>>) = 1
         /\ RowCount(<<c>>, k) = IF c.row = k THEN 1 ELSE 0
  <1>1. PICK s : s = <<c>>
    OBVIOUS
  <1>2. s \in Seq(Cell) /\ Len(s) = 1 /\ DOMAIN s = {1} /\ s[1] = c
    BY <1>1
  <1>3. CASE c.row = k
    <2>1. {i \in DOMAIN s : s[i].row = k} = {1}
      BY <1>2, <1>3
    <2> QED
      BY <1>1, <1>2, <1>3, <2>1, FS_Singleton DEF RowCount
  <1>4. CASE c.row # k
    <2>1. {i \in DOMAIN s : s[i].row = k} = {}
      BY <1>2, <1>4
    <2> QED
      BY <1>1, <1>2, <1>4, <2>1, FS_EmptySet DEF RowCount
  <1> QED
    BY <1>3, <1>4

\* Cells whose rows agree hold each row equally often.
LEMMA RowSame ==
  ASSUME NEW s \in Seq(Cell), NEW t \in Seq(Cell), Len(s) = Len(t),
         \A i \in 1..Len(s) : s[i].row = t[i].row, NEW k
  PROVE  RowCount(s, k) = RowCount(t, k)
  <1>1. {i \in DOMAIN s : s[i].row = k} = {i \in DOMAIN t : t[i].row = k}
    OBVIOUS
  <1> QED
    BY <1>1 DEF RowCount

\* The overwritten cell keeps its row.
LEMMA ClobberRow ==
  ASSUME NEW c \in Cell, NEW p \in 0..255
  PROVE  Clobber(c, p) \in Cell /\ Clobber(c, p).row = c.row
  <1>1. PICK x \in Nat : x = c.key
    BY DEF Cell
  <1>2. x \div 256 \in Nat
    OBVIOUS
  <1>3. 256 * (x \div 256) + p \in Nat
    BY <1>2
  <1> QED
    BY <1>1, <1>3 DEF Cell, Clobber

\* The cells up to a place and the cells from there.
LEMMA Cut ==
  ASSUME NEW cells \in Seq(Cell), NEW i \in 0..Len(cells)
  PROVE  /\ SubSeq(cells, 1, i) \in Seq(Cell) /\ Len(SubSeq(cells, 1, i)) = i
         /\ SubSeq(cells, i + 1, Len(cells)) \in Seq(Cell)
         /\ Len(SubSeq(cells, i + 1, Len(cells))) = Len(cells) - i
         /\ cells = SubSeq(cells, 1, i) \o SubSeq(cells, i + 1, Len(cells))
  <1>1. PICK n \in Nat : n = Len(cells)
    OBVIOUS
  <1>2. PICK a : a = SubSeq(cells, 1, i)
    OBVIOUS
  <1>3. PICK b : b = SubSeq(cells, i + 1, n)
    OBVIOUS
  <1>4. \A j \in 1..n : cells[j] \in Cell
    BY <1>1
  <1>5. /\ a \in Seq(Cell) /\ Len(a) = IF 1 <= i THEN i - 1 + 1 ELSE 0
        /\ \A j \in 1..i - 1 + 1 : a[j] = cells[1 + j - 1]
    BY <1>1, <1>2, <1>4, SubSeqProperties
  <1>6. /\ b \in Seq(Cell) /\ Len(b) = IF i + 1 <= n THEN n - (i + 1) + 1 ELSE 0
        /\ \A j \in 1..n - (i + 1) + 1 : b[j] = cells[i + 1 + j - 1]
    BY <1>1, <1>3, <1>4, SubSeqProperties
  <1>7. Len(a) = i /\ Len(b) = n - i
    BY <1>1, <1>5, <1>6
  <1>8. PICK c : c = a \o b
    OBVIOUS
  <1>9. /\ c \in Seq(Cell) /\ Len(c) = Len(a) + Len(b)
        /\ \A j \in 1..Len(a) + Len(b) : c[j] = IF j <= Len(a) THEN a[j] ELSE b[j - Len(a)]
    BY <1>5, <1>6, <1>8, ConcatProperties
  <1>10. \A j \in 1..n : c[j] = cells[j]
    <2> SUFFICES ASSUME NEW j \in 1..n PROVE c[j] = cells[j]
      OBVIOUS
    <2>1. CASE j <= i
      BY <1>1, <1>5, <1>7, <1>9, <2>1
    <2>2. CASE ~(j <= i)
      <3>1. j - i \in 1..n - (i + 1) + 1 /\ i + 1 + (j - i) - 1 = j
        BY <1>1, <2>2
      <3>2. b[j - i] = cells[j]
        BY <1>6, <3>1
      <3> QED
        BY <1>1, <1>7, <1>9, <2>2, <3>2
    <2> QED
      BY <2>1, <2>2
  <1>11. DOMAIN c = 1..n /\ DOMAIN cells = 1..n
    BY <1>1, <1>7, <1>9
  <1>12. c = [j \in DOMAIN c |-> c[j]] /\ cells = [j \in DOMAIN cells |-> cells[j]]
    BY <1>9
  <1>13. c = cells
    BY <1>10, <1>11, <1>12
  <1> QED
    BY <1>1, <1>2, <1>3, <1>5, <1>6, <1>7, <1>8, <1>13

\* What an insert makes of the cells: one more row of key.
Inserted(new, cells, key) ==
    /\ new \in Seq(Cell) /\ Len(new) = Len(cells) + 1
    /\ \A k : RowCount(new, k) = RowCount(cells, k) + IF key = k THEN 1 ELSE 0

\* An insert adds one row and, whatever the padding byte damages, keeps the
\* others.
LEMMA SplicedFacts ==
  ASSUME NEW cells \in Seq(Cell), NEW i \in 0..Len(cells), NEW key \in Keys,
         NEW p \in 0..255, NEW boundary
  PROVE  Inserted(Spliced(cells, i, key, p, boundary), cells, key)
  <1>1. PICK a : a = SubSeq(cells, 1, i)
    OBVIOUS
  <1>2. PICK b : b = SubSeq(cells, i + 1, Len(cells))
    OBVIOUS
  <1>3. /\ a \in Seq(Cell) /\ Len(a) = i /\ b \in Seq(Cell) /\ Len(b) = Len(cells) - i
        /\ cells = a \o b
    BY <1>1, <1>2, Cut
  <1>4. PICK c \in Cell : c = [key |-> key, row |-> key]
    BY DbAssumption DEF DbAssumption, Cell
  <1>5. PICK d : d = IF b = <<>> \/ i + 1 = boundary THEN b
                     ELSE <<Clobber(Head(b), p)>> \o Tail(b)
    OBVIOUS
  <1>6. /\ d \in Seq(Cell) /\ Len(d) = Len(b)
        /\ \A j \in 1..Len(b) : d[j].row = b[j].row
    <2>1. CASE b = <<>> \/ i + 1 = boundary
      BY <1>3, <1>5, <2>1
    <2>2. CASE ~(b = <<>> \/ i + 1 = boundary)
      <3>1. PICK h : h = Head(b)
        OBVIOUS
      <3>2. PICK t : t = Tail(b)
        OBVIOUS
      <3>3. /\ h \in Cell /\ t \in Seq(Cell) /\ Len(t) = Len(b) - 1 /\ Len(b) \in Nat
            /\ h = b[1] /\ \A j \in 1..Len(t) : t[j] = b[j + 1]
        BY <1>3, <2>2, <3>1, <3>2, HeadTailProperties
      <3>4. PICK e \in Cell : e = Clobber(h, p) /\ e.row = h.row
        BY <3>3, ClobberRow
      <3>5. PICK q : q = <<e>>
        OBVIOUS
      <3>6. q \in Seq(Cell) /\ Len(q) = 1 /\ q[1] = e
        BY <3>5
      <3>7. /\ d \in Seq(Cell) /\ Len(d) = Len(b)
            /\ \A j \in 1..Len(b) : d[j] = IF j <= 1 THEN e ELSE t[j - 1]
        <4>1. d = q \o t
          BY <1>5, <2>2, <3>1, <3>2, <3>4, <3>5
        <4>2. PICK z \in Nat : z = Len(b) /\ Len(t) = z - 1
          BY <3>3
        <4>3. q \in Seq(Cell) /\ t \in Seq(Cell)
          BY <3>3, <3>6
        <4>4. /\ d \in Seq(Cell) /\ Len(d) = Len(q) + Len(t)
              /\ \A j \in 1..Len(q) + Len(t) : d[j] =
                    IF j <= Len(q) THEN q[j] ELSE t[j - Len(q)]
          BY ONLY <4>1, <4>3, ConcatProperties
        <4>5. Len(q) + Len(t) = z /\ Len(q) = 1
          BY ONLY <3>6, <4>2
        <4>6. \A j \in 1..z : d[j] = IF j <= 1 THEN q[j] ELSE t[j - 1]
          BY ONLY <4>4, <4>5
        <4>7. ASSUME NEW j \in 1..z PROVE d[j] = IF j <= 1 THEN e ELSE t[j - 1]
          <5>1. j <= 1 => j = 1
            OBVIOUS
          <5> QED
            BY <3>6, <4>6, <5>1
        <4> QED
          BY ONLY <4>2, <4>4, <4>5, <4>7
      <3>8. ASSUME NEW j \in 1..Len(b) PROVE d[j].row = b[j].row
        <4>1. PICK z \in Nat : z = Len(b) /\ Len(t) = z - 1
          BY <3>3
        <4>2. d[j] = IF j <= 1 THEN e ELSE t[j - 1]
          BY <3>7
        <4>3. CASE j = 1
          BY <3>3, <3>4, <4>2, <4>3
        <4>4. CASE j # 1
          <5>1. j - 1 \in 1..Len(t) /\ ~(j <= 1) /\ (j - 1) + 1 = j
            BY <4>1, <4>4
          <5>2. t[j - 1] = b[j]
            BY <3>3, <5>1
          <5> QED
            BY <4>2, <5>1, <5>2
        <4> QED
          BY <4>3, <4>4
      <3> QED
        BY <3>7, <3>8
    <2> QED
      BY <2>1, <2>2
  <1>7. PICK s : s = <<c>>
    OBVIOUS
  <1>8. s \in Seq(Cell) /\ Len(s) = 1
    BY <1>7
  <1>9. PICK as : as = a \o s
    OBVIOUS
  <1>10. as \in Seq(Cell) /\ Len(as) = i + 1
    <2>1. a \in Seq(Cell) /\ s \in Seq(Cell)
      BY <1>3, <1>8
    <2>2. as \in Seq(Cell) /\ Len(as) = Len(a) + Len(s)
      BY ONLY <1>9, <2>1, ConcatProperties
    <2> QED
      BY <1>3, <1>8, <2>2
  <1>11. Spliced(cells, i, key, p, boundary) = as \o d
    BY <1>1, <1>2, <1>4, <1>5, <1>7, <1>9 DEF Spliced
  <1>12. as \o d \in Seq(Cell) /\ Len(as \o d) = Len(as) + Len(d)
    BY <1>6, <1>10, ConcatProperties
  <1>13. ASSUME NEW k
         PROVE  RowCount(as \o d, k) = RowCount(cells, k) + IF key = k THEN 1 ELSE 0
    <2>1. RowCount(as \o d, k) = RowCount(as, k) + RowCount(d, k)
      BY <1>6, <1>10, RowCat
    <2>2. RowCount(as, k) = RowCount(a, k) + RowCount(s, k)
      BY <1>3, <1>8, <1>9, RowCat
    <2>3. RowCount(s, k) = IF key = k THEN 1 ELSE 0
      BY <1>4, <1>7, RowOne
    <2>4. RowCount(d, k) = RowCount(b, k)
      BY <1>3, <1>6, RowSame
    <2>5. RowCount(cells, k) = RowCount(a, k) + RowCount(b, k)
      BY <1>3, RowCat
    <2>6. RowCount(a, k) \in Nat /\ RowCount(b, k) \in Nat
      BY <1>3, RowCountOcc
    <2> QED
      BY <2>1, <2>2, <2>3, <2>4, <2>5, <2>6
  <1>14. Len(as) + Len(d) = Len(cells) + 1
    <2>1. PICK n \in Nat : n = Len(cells)
      OBVIOUS
    <2>2. Len(d) = n - i /\ Len(as) = i + 1
      BY <1>3, <1>6, <1>10, <2>1
    <2> QED
      BY <2>1, <2>2
  <1> QED
    BY ONLY <1>11, <1>12, <1>13, <1>14 DEF Inserted

-----------------------------------------------------------------------------
(* The pages of a table: one leaf, or a root above a chain of leaves.      *)

\* What a leaf's page holds.
LeafPage == [type : {"leaf"}, root : BOOLEAN, parent : {0}, cells : Seq(Cell), next : Nat]

\* What is known of an internal root: its words may hold anything.
IsRootNode(r) ==
    /\ r = [x \in DOMAIN r |-> r[x]]
    /\ "type" \in DOMAIN r /\ "root" \in DOMAIN r
    /\ r.type = "internal" /\ r.root = TRUE

\* A leaf below the root.
IsChild(r) == r \in LeafPage /\ r.root = FALSE /\ Len(r.cells) <= LEAF_NODE_MAX_CELLS

\* A leaf that is the whole tree.
IsOnlyLeaf(r) == r \in LeafPage /\ r.root = TRUE /\ Len(r.cells) <= LEAF_NODE_MAX_CELLS

\* The pages are numbered from 0.
Numbered(pg, L) == pg = [n \in 0..L - 1 |-> pg[n]]

\* L pages: the root and its children.
PagesOk(pg, L) ==
    /\ L \in Nat \ {0}
    /\ Numbered(pg, L)
    /\ IsRootNode(pg[0]) \/ (L = 1 /\ IsOnlyLeaf(pg[0]))
    /\ \A n \in 1..L - 1 : IsChild(pg[n])

\* The leaves T are one chain of N: pos[n] leaves are left from n on.
Chained(pg, T, pos, N) ==
    /\ pos \in [T -> 1..N]
    /\ \A m, n \in T : pos[m] = pos[n] => m = n
    /\ \A j \in 1..N : \E n \in T : pos[n] = j
    /\ \A n \in T : IF pos[n] = 1 THEN pg[n].next = 0
                    ELSE /\ pg[n].next \in T /\ pg[n].next # 0
                         /\ pos[pg[n].next] = pos[n] - 1

\* How many cells of each page hold the row of k.
RowCounts(pg, k) == [n \in PageLeaves(pg) |-> RowCount(pg[n].cells, k)]

\* The leaves hold the row of each id as often as count says.
Counted(pg, count) ==
    \A k \in Keys : SumOver(RowCounts(pg, k), PageLeaves(pg)) = count[k]

\* The pages are a table whose rows are those of count.
TreeOk(pg, count) ==
    \E L \in Nat, N \in Nat : \E pos :
        /\ PagesOk(pg, L) /\ N \in 1..L
        /\ Chained(pg, PageLeaves(pg), pos, N)
        /\ Counted(pg, count)

\* The leaves of the pages are the only leaf, or all pages but the root.
LEMMA LeavesAre ==
  ASSUME NEW pg, NEW L, PagesOk(pg, L)
  PROVE  /\ L \in Nat /\ L >= 1 /\ DOMAIN pg = 0..L - 1
         /\ IsFiniteSet(0..L - 1) /\ Cardinality(0..L - 1) = L
         /\ IsFiniteSet(PageLeaves(pg))
         /\ \/ PageLeaves(pg) = 1..L - 1 /\ IsRootNode(pg[0])
            \/ PageLeaves(pg) = {0} /\ L = 1 /\ IsOnlyLeaf(pg[0])
  <1>1. L \in Nat /\ L >= 1 /\ DOMAIN pg = 0..L - 1
    BY DEF PagesOk, Numbered
  <1>2. IsFiniteSet(0..L - 1) /\ Cardinality(0..L - 1) = L
    <2>1. PICK z \in Int : z = L - 1
      BY <1>1
    <2>2. IsFiniteSet(0..z) /\ Cardinality(0..z) = IF 0 > z THEN 0 ELSE z - 0 + 1
      BY FS_Interval
    <2> QED
      BY <1>1, <2>1, <2>2
  <1>3. PageLeaves(pg) \in SUBSET (0..L - 1)
    BY <1>1 DEF PageLeaves
  <1>4. IsFiniteSet(PageLeaves(pg))
    BY <1>2, <1>3, FS_Subset
  <1>5. \A n \in 1..L - 1 : pg[n].type = "leaf"
    BY DEF PagesOk, IsChild, LeafPage
  <1>6. CASE IsRootNode(pg[0])
    <2>1. pg[0].type # "leaf"
      BY <1>6 DEF IsRootNode
    <2>2. \A n \in 0..L - 1 : n \in 1..L - 1 \/ n = 0
      BY <1>1
    <2>3. \A n \in 1..L - 1 : n \in 0..L - 1
      BY <1>1
    <2>4. PageLeaves(pg) = 1..L - 1
      BY ONLY <1>1, <1>5, <2>1, <2>2, <2>3 DEF PageLeaves
    <2> QED
      BY <1>1, <1>2, <1>4, <1>6, <2>4
  <1>7. CASE L = 1 /\ IsOnlyLeaf(pg[0])
    <2>1. pg[0].type = "leaf" /\ 0..L - 1 = {0}
      BY <1>7 DEF IsOnlyLeaf, LeafPage
    <2>2. PageLeaves(pg) = {0}
      BY ONLY <1>1, <2>1 DEF PageLeaves
    <2> QED
      BY <1>1, <1>2, <1>4, <1>7, <2>2
  <1> QED
    BY <1>6, <1>7 DEF PagesOk

\* Every leaf's page is a leaf.
LEMMA LeafIs ==
  ASSUME NEW pg, NEW L, PagesOk(pg, L), NEW n \in PageLeaves(pg)
  PROVE  /\ pg[n] \in LeafPage /\ pg[n].cells \in Seq(Cell)
         /\ Len(pg[n].cells) <= LEAF_NODE_MAX_CELLS
         /\ pg[n].next \in Nat /\ pg[n].parent = 0 /\ (pg[n].root <=> n = 0)
         /\ \A k : RowCount(pg[n].cells, k) \in 0..LEAF_NODE_MAX_CELLS
  <1>0. LEAF_NODE_MAX_CELLS \in Nat
    BY DbAssumption DEF DbAssumption
  <1>1. /\ pg[n] \in LeafPage /\ Len(pg[n].cells) <= LEAF_NODE_MAX_CELLS
        /\ pg[n].root \in BOOLEAN /\ (pg[n].root <=> n = 0)
    <2>1. CASE PageLeaves(pg) = 1..L - 1
      <3>1. n \in 1..L - 1 /\ n # 0
        BY <2>1, LeavesAre
      <3>2. IsChild(pg[n])
        BY <3>1 DEF PagesOk
      <3> QED
        BY <3>1, <3>2 DEF IsChild
    <2>2. CASE PageLeaves(pg) = {0} /\ IsOnlyLeaf(pg[0])
      BY <2>2 DEF IsOnlyLeaf
    <2> QED
      BY <2>1, <2>2, LeavesAre
  <1>2. pg[n].cells \in Seq(Cell) /\ pg[n].next \in Nat /\ pg[n].parent = 0
    BY <1>1 DEF LeafPage
  <1>3. ASSUME NEW k PROVE RowCount(pg[n].cells, k) \in 0..LEAF_NODE_MAX_CELLS
    <2>1. PICK c \in Seq(Cell) : c = pg[n].cells
      BY <1>2
    <2>2. PICK z \in Nat : z = Len(c)
      OBVIOUS
    <2>3. RowCount(c, k) \in 0..Len(c)
      BY RowCountOcc
    <2>4. z <= LEAF_NODE_MAX_CELLS
      BY <1>1, <2>1, <2>2
    <2> QED
      BY <1>0, <2>1, <2>2, <2>3, <2>4
  <1> QED
    BY <1>1, <1>2, <1>3

\* A new table is one empty leaf.
LEMMA EmptyTree == TreeOk([n \in {0} |-> Leaf(TRUE, <<>>, 0)], NoIds)
  <1> DEFINE pg == [n \in {0} |-> Leaf(TRUE, <<>>, 0)]
             pos == [n \in {0} |-> 1]
  <1>0. LEAF_NODE_MAX_CELLS \in Nat
    BY DbAssumption DEF DbAssumption
  <1>1. <<>> \in Seq(Cell) /\ Len(<<>>) = 0 /\ DOMAIN <<>> = {}
    OBVIOUS
  <1>2. pg[0] = Leaf(TRUE, <<>>, 0)
    OBVIOUS
  <1>3. /\ pg[0] \in LeafPage /\ pg[0].root = TRUE /\ pg[0].cells = <<>>
        /\ pg[0].next = 0 /\ pg[0].type = "leaf"
    BY <1>1 DEF Leaf, LeafPage
  <1>4. IsOnlyLeaf(pg[0])
    <2> HIDE DEF pg
    <2>1. Len(pg[0].cells) <= LEAF_NODE_MAX_CELLS
      BY ONLY <1>0, <1>1, <1>3
    <2> QED
      BY <1>3, <2>1 DEF IsOnlyLeaf
  <1>5. pg = [n \in 0..0 |-> pg[n]]
    OBVIOUS
  <1>6. PageLeaves(pg) = {0}
    BY <1>3 DEF PageLeaves
  <1> HIDE DEF pg
  <1>7. PagesOk(pg, 1)
    <2>1. 1 \in Nat \ {0} /\ 1 - 1 = 0 /\ 1..0 = {}
      OBVIOUS
    <2> QED
      BY <1>4, <1>5, <2>1 DEF PagesOk, Numbered
  <1>8. Chained(pg, PageLeaves(pg), pos, 1)
    <2>1. pos \in [{0} -> 1..1] /\ pos[0] = 1
      OBVIOUS
    <2> QED
      BY <1>3, <1>6, <2>1 DEF Chained
  <1>9. Counted(pg, NoIds)
    <2> SUFFICES ASSUME NEW k \in Keys PROVE SumOver(RowCounts(pg, k), {0}) = NoIds[k]
      BY <1>6 DEF Counted
    <2>1. RowCount(pg[0].cells, k) = 0
      <3>1. {i \in DOMAIN <<>> : <<>>[i].row = k} = {}
        BY <1>1
      <3> QED
        BY <1>3, <3>1, FS_EmptySet DEF RowCount
    <2>2. RowCounts(pg, k)[0] = 0
      BY <1>6, <2>1 DEF RowCounts
    <2>3. SumOver(RowCounts(pg, k), {} \cup {0}) = SumOver(RowCounts(pg, k), {}) + 0
      BY <1>0, <2>2, SumAdd, FS_EmptySet
    <2>4. SumOver(RowCounts(pg, k), {}) = 0
      BY SumEmpty
    <2>5. {} \cup {0} = {0}
      OBVIOUS
    <2> QED
      BY <2>3, <2>4, <2>5 DEF NoIds
  <1> QED
    BY <1>7, <1>8, <1>9 DEF TreeOk

\* The sum over the leaves is the sum over the others and the number of p.
LEMMA SumWithout ==
  ASSUME NEW pg, NEW L, PagesOk(pg, L), NEW p \in PageLeaves(pg), NEW k
  PROVE  LET T == PageLeaves(pg) \ {p}
         IN  /\ SumOver(RowCounts(pg, k), T) \in Nat
             /\ SumOver(RowCounts(pg, k), PageLeaves(pg))
                  = SumOver(RowCounts(pg, k), T) + RowCount(pg[p].cells, k)
  <1> DEFINE T == PageLeaves(pg) \ {p}
  <1>1. IsFiniteSet(T)
    BY LeavesAre, FS_RemoveElement
  <1>2. RowCounts(pg, k)[p] = RowCount(pg[p].cells, k)
    BY DEF RowCounts
  <1>3. RowCount(pg[p].cells, k) \in 0..LEAF_NODE_MAX_CELLS
    BY LeafIs
  <1>4. p \notin T /\ T \cup {p} = PageLeaves(pg)
    OBVIOUS
  <1>5. /\ SumOver(RowCounts(pg, k), T) \in Nat
        /\ SumOver(RowCounts(pg, k), T \cup {p})
             = SumOver(RowCounts(pg, k), T) + RowCounts(pg, k)[p]
    <2> HIDE DEF T
    <2> QED
      BY <1>1, <1>2, <1>3, <1>4, SumAdd
  <1> QED
    BY <1>2, <1>4, <1>5

\* One more row of key.
OneMore(count, key) == [count EXCEPT ![key] = @ + 1]

\* q are the pages after an insert into leaf p, which has room.
IsInsert(pg, q, count, p, i, key, b) ==
    /\ count \in [Keys -> Nat] /\ TreeOk(pg, count) /\ p \in PageLeaves(pg)
    /\ i \in 0..Len(pg[p].cells) /\ Len(pg[p].cells) < LEAF_NODE_MAX_CELLS
    /\ key \in Keys /\ b \in 0..255 /\ q = InsertIntoLeaf(pg, p, i, key, b)

\* An insert into a leaf with room keeps the table and adds the row.
LEMMA InsertKeeps ==
  ASSUME NEW pg, NEW q, NEW count, NEW p, NEW i, NEW key, NEW b,
         IsInsert(pg, q, count, p, i, key, b)
  PROVE  TreeOk(q, OneMore(count, key)) /\ DOMAIN q = DOMAIN pg
  <1> USE DEF IsInsert
  <1>0. PICK L \in Nat, N \in Nat : \E pos :
          /\ PagesOk(pg, L) /\ N \in 1..L
          /\ Chained(pg, PageLeaves(pg), pos, N)
          /\ Counted(pg, count)
    BY DEF TreeOk
  <1>1. PICK pos :
          /\ PagesOk(pg, L) /\ N \in 1..L
          /\ Chained(pg, PageLeaves(pg), pos, N)
          /\ Counted(pg, count)
    BY <1>0
  <1>2. PICK cells : cells = Spliced(pg[p].cells, i, key, b, -1)
    OBVIOUS
  <1>3. PICK old \in Seq(Cell) : old = pg[p].cells
    BY <1>1, LeafIs
  <1>4. PICK boundary : boundary = -1
    OBVIOUS
  <1>5. /\ cells \in Seq(Cell) /\ Len(cells) = Len(old) + 1
        /\ \A k : RowCount(cells, k) = RowCount(old, k) + IF key = k THEN 1 ELSE 0
    <2>1. cells = Spliced(old, i, key, b, boundary) /\ i \in 0..Len(old)
      BY <1>2, <1>3, <1>4
    <2>2. Inserted(cells, old, key)
      BY <2>1, SplicedFacts
    <2> QED
      BY ONLY <2>2 DEF Inserted
  <1>6. q = [pg EXCEPT ![p].cells = cells]
    BY <1>2 DEF InsertIntoLeaf
  <1>8. /\ DOMAIN pg = 0..L - 1 /\ L \in Nat /\ p \in 0..L - 1
        /\ pg = [n \in 0..L - 1 |-> pg[n]]
    BY <1>1, LeavesAre DEF PageLeaves, PagesOk, Numbered
  <1>9. /\ q = [n \in 0..L - 1 |-> q[n]]
        /\ q[p] = [pg[p] EXCEPT !.cells = cells]
        /\ \A n \in 0..L - 1 : n # p => q[n] = pg[n]
    BY <1>6, <1>8
  <1>10. pg[p] \in LeafPage /\ Len(old) < LEAF_NODE_MAX_CELLS
    BY <1>1, <1>3, LeafIs
  <1>11. /\ q[p] \in LeafPage /\ q[p].cells = cells /\ q[p].next = pg[p].next
         /\ q[p].root = pg[p].root /\ q[p].type = "leaf" /\ pg[p].type = "leaf"
    BY <1>5, <1>9, <1>10 DEF LeafPage
  <1>12. Len(q[p].cells) <= LEAF_NODE_MAX_CELLS
    <2>1. PICK z \in Nat : z = Len(old)
      OBVIOUS
    <2>2. LEAF_NODE_MAX_CELLS \in Nat
      BY DbAssumption DEF DbAssumption
    <2>3. z + 1 <= LEAF_NODE_MAX_CELLS
      BY <1>10, <2>1, <2>2
    <2> QED
      BY <1>5, <1>11, <2>1, <2>3
  <1>13. PagesOk(q, L)
    <2>1. \A n \in 1..L - 1 : IsChild(q[n])
      <3> SUFFICES ASSUME NEW n \in 1..L - 1 PROVE IsChild(q[n])
        OBVIOUS
      <3>0. n \in 0..L - 1
        BY <1>8
      <3>1. IsChild(pg[n])
        BY <1>1 DEF PagesOk
      <3>2. CASE n # p
        BY <1>9, <3>0, <3>1, <3>2
      <3>3. CASE n = p
        BY <1>11, <1>12, <3>1, <3>3 DEF IsChild
      <3> QED
        BY <3>2, <3>3
    <2>0. L \in Nat \ {0}
      BY <1>8
    <2>2. 0 \in 0..L - 1
      BY <1>8
    <2>5. Numbered(q, L)
      BY <1>9 DEF Numbered
    <2>3. CASE IsRootNode(pg[0])
      <3>1. p # 0
        BY <1>11, <2>3 DEF IsRootNode
      <3>2. IsRootNode(q[0])
        BY <1>9, <2>2, <2>3, <3>1
      <3> QED
        <4>1. IsRootNode(q[0]) \/ (L = 1 /\ IsOnlyLeaf(q[0]))
          BY <3>2
        <4> QED
          BY ONLY <2>0, <2>1, <2>5, <4>1 DEF PagesOk
    <2>4. CASE L = 1 /\ IsOnlyLeaf(pg[0])
      <3>1. p = 0
        BY <1>8, <2>4
      <3>2. IsOnlyLeaf(q[0])
        BY <1>11, <1>12, <2>4, <3>1 DEF IsOnlyLeaf
      <3> QED
        BY ONLY <2>0, <2>1, <2>4, <2>5, <3>2 DEF PagesOk
    <2> QED
      BY <1>1, <2>3, <2>4 DEF PagesOk
  <1>14. DOMAIN q = 0..L - 1
    BY <1>9
  <1>15. PageLeaves(q) = PageLeaves(pg)
    <2>1. \A n \in 0..L - 1 : q[n].type = pg[n].type
      BY <1>9, <1>11
    <2> QED
      BY ONLY <1>8, <1>14, <2>1 DEF PageLeaves
  <1>16. \A n \in PageLeaves(pg) : n \in 0..L - 1 /\ q[n].next = pg[n].next
    BY <1>8, <1>9, <1>11 DEF PageLeaves
  <1>17. Chained(q, PageLeaves(q), pos, N)
    <2>1. PICK T : T = PageLeaves(pg)
      OBVIOUS
    <2> QED
      BY ONLY <1>1, <1>15, <1>16, <2>1 DEF Chained
  <1>18. Counted(q, OneMore(count, key))
    <2> SUFFICES ASSUME NEW k \in Keys
                 PROVE  SumOver(RowCounts(q, k), PageLeaves(q)) = OneMore(count, key)[k]
      BY DEF Counted
    <2> DEFINE T == PageLeaves(pg) \ {p}
    <2>1. /\ SumOver(RowCounts(pg, k), T) \in Nat
          /\ SumOver(RowCounts(pg, k), PageLeaves(pg))
               = SumOver(RowCounts(pg, k), T) + RowCount(old, k)
      BY <1>1, <1>3, SumWithout
    <2>2. SumOver(RowCounts(q, k), PageLeaves(q))
            = SumOver(RowCounts(q, k), T) + RowCount(cells, k)
      <3>1. p \in PageLeaves(q)
        BY <1>15
      <3>2. SumOver(RowCounts(q, k), PageLeaves(q))
              = SumOver(RowCounts(q, k), PageLeaves(q) \ {p}) + RowCount(q[p].cells, k)
        BY <1>13, <3>1, SumWithout
      <3> QED
        BY <1>11, <1>15, <3>2
    <2>3. SumOver(RowCounts(q, k), T) = SumOver(RowCounts(pg, k), T)
      <3>1. \A n \in T : RowCounts(q, k)[n] = RowCounts(pg, k)[n]
        <4> SUFFICES ASSUME NEW n \in T PROVE RowCounts(q, k)[n] = RowCounts(pg, k)[n]
          OBVIOUS
        <4>1. q[n] = pg[n] /\ n \in PageLeaves(pg)
          BY <1>9, <1>16
        <4> QED
          BY <1>15, <4>1 DEF RowCounts
      <3> HIDE DEF T
      <3> QED
        BY <3>1, SumSame
    <2>4. RowCount(cells, k) = RowCount(old, k) + IF key = k THEN 1 ELSE 0
      BY <1>5
    <2>5. RowCount(old, k) \in Nat
      BY RowCountOcc
    <2>6. SumOver(RowCounts(pg, k), PageLeaves(pg)) = count[k]
      BY <1>1 DEF Counted
    <2>7. OneMore(count, key)[k] = count[k] + IF key = k THEN 1 ELSE 0
      BY DEF OneMore
    <2> HIDE DEF T
    <2> QED
      BY <2>1, <2>2, <2>3, <2>4, <2>5, <2>6, <2>7
  <1>19. TreeOk(q, OneMore(count, key))
    BY <1>1, <1>13, <1>17, <1>18 DEF TreeOk
  <1> QED
    BY <1>8, <1>14, <1>19

\* A chain into which a leaf new is put behind the leaf p is a chain.
LEMMA ChainGrows ==
  ASSUME NEW pg, NEW q, NEW T, NEW pos, NEW N \in Nat, N >= 1, Chained(pg, T, pos, N),
         NEW p \in T, NEW new, new \notin T, new # 0,
         q[p].next = new, q[new].next = pg[p].next,
         \A n \in T : n # p => q[n].next = pg[n].next
  PROVE  \E ps : Chained(q, T \cup {new}, ps, N + 1)
  <1> DEFINE U == T \cup {new}
             ps == [n \in U |-> IF n = new THEN pos[p]
                                ELSE IF pos[n] >= pos[p] THEN pos[n] + 1 ELSE pos[n]]
  <1>1. /\ pos \in [T -> 1..N]
        /\ \A m, n \in T : pos[m] = pos[n] => m = n
        /\ \A j \in 1..N : \E n \in T : pos[n] = j
    BY DEF Chained
  <1>2. \A n \in T : IF pos[n] = 1 THEN pg[n].next = 0
                     ELSE /\ pg[n].next \in T /\ pg[n].next # 0
                          /\ pos[pg[n].next] = pos[n] - 1
    BY DEF Chained
  <1>3. PICK at \in 1..N : at = pos[p]
    BY <1>1
  <1>4. \A n \in T : pos[n] \in 1..N /\ n \in U /\ n # new
    BY <1>1
  <1>5. \A n \in T : ps[n] = IF pos[n] >= at THEN pos[n] + 1 ELSE pos[n]
    BY <1>3, <1>4
  <1>6. ps[new] = at /\ new \in U /\ ps[p] = at + 1
    BY <1>3, <1>5
  <1>7. ps = [n \in U |-> ps[n]]
    OBVIOUS
  <1> HIDE DEF ps
  <1>8. ps \in [U -> 1..N + 1]
    <2>1. ASSUME NEW n \in U PROVE ps[n] \in 1..N + 1
      <3>1. CASE n = new
        BY <1>6, <3>1
      <3>2. CASE n \in T
        BY <1>4, <1>5, <3>2
      <3> QED
        BY <3>1, <3>2
    <2> HIDE DEF U
    <2> QED
      BY <1>7, <2>1
  <1>9. ASSUME NEW m \in U, NEW n \in U, ps[m] = ps[n] PROVE m = n
    <2>1. CASE m \in T /\ n \in T
      <3>1. pos[m] = pos[n]
        BY <1>3, <1>4, <1>5, <1>9, <2>1
      <3> QED
        BY <1>1, <2>1, <3>1
    <2>2. \A x \in T : ps[x] # at
      BY <1>3, <1>4, <1>5
    <2> QED
      BY <1>6, <1>9, <2>1, <2>2
  <1>10. ASSUME NEW j \in 1..N + 1 PROVE \E n \in U : ps[n] = j
    <2>1. CASE j = at
      BY <1>6, <2>1
    <2>2. CASE j < at
      <3>1. PICK n \in T : pos[n] = j
        BY <1>1, <1>3, <2>2
      <3>2. ps[n] = j
        BY <1>3, <1>5, <2>2, <3>1
      <3> QED
        BY <1>4, <3>2
    <2>3. CASE j > at
      <3>1. j - 1 \in 1..N
        BY <1>3, <2>3
      <3>2. PICK n \in T : pos[n] = j - 1
        BY <1>1, <3>1
      <3>3. ps[n] = j
        BY <1>3, <1>5, <2>3, <3>2
      <3> QED
        BY <1>4, <3>3
    <2> QED
      BY <1>3, <2>1, <2>2, <2>3
  <1>11. ASSUME NEW n \in U
         PROVE  IF ps[n] = 1 THEN q[n].next = 0
                ELSE /\ q[n].next \in U /\ q[n].next # 0
                     /\ ps[q[n].next] = ps[n] - 1
    <2>1. CASE n = new
      <3>1. CASE at = 1
        BY <1>2, <1>3, <1>6, <2>1, <3>1
      <3>2. CASE at # 1
        <4>1. PICK m \in T : m = pg[p].next /\ m # 0 /\ pos[m] = at - 1
          BY <1>2, <1>3, <3>2
        <4>2. ps[m] = at - 1
          BY <1>3, <1>5, <4>1
        <4> QED
          BY <1>4, <1>6, <2>1, <3>2, <4>1, <4>2
      <3> QED
        BY <3>1, <3>2
    <2>2. CASE n = p
      <3>1. ps[n] = at + 1 /\ ps[n] # 1 /\ ps[n] - 1 = at
        BY <1>3, <1>6, <2>2
      <3> QED
        BY <1>6, <2>2, <3>1
    <2>3. CASE n \in T /\ n # p
      <3>1. q[n].next = pg[n].next /\ pos[n] # at
        BY <1>1, <1>3, <2>3
      <3>2. CASE pos[n] = 1
        <4>1. ps[n] = 1
          BY <1>3, <1>5, <2>3, <3>1, <3>2
        <4> QED
          BY <1>2, <2>3, <3>1, <3>2, <4>1
      <3>3. CASE pos[n] # 1
        <4>1. PICK m \in T : m = pg[n].next /\ m # 0 /\ pos[m] = pos[n] - 1
          BY <1>2, <2>3, <3>3
        <4>2. ps[m] = ps[n] - 1 /\ ps[n] # 1
          BY <1>3, <1>4, <1>5, <2>3, <3>1, <3>3, <4>1
        <4> QED
          BY <1>4, <3>1, <4>1, <4>2
      <3> QED
        BY <3>2, <3>3
    <2> QED
      BY <2>1, <2>2, <2>3
  <1>12. Chained(q, U, ps, N + 1)
    <2> HIDE DEF U
    <2> QED
      BY ONLY <1>8, <1>9, <1>10, <1>11 DEF Chained
  <1> QED
    BY <1>12

\* The halves of a split: the cells of a full leaf and the new one, cut.
Halves(old, left, right, key) ==
    /\ left \in Seq(Cell) /\ Len(left) <= LEAF_NODE_MAX_CELLS
    /\ right \in Seq(Cell) /\ Len(right) <= LEAF_NODE_MAX_CELLS
    /\ \A k : RowCount(left, k) + RowCount(right, k)
                = RowCount(old, k) + IF key = k THEN 1 ELSE 0

\* A split leaves no half too large and no row out.
LEMMA SplitHalves ==
  ASSUME NEW old \in Seq(Cell), Len(old) = LEAF_NODE_MAX_CELLS,
         NEW i \in 0..Len(old), NEW key \in Keys, NEW b \in 0..255, NEW all,
         all = Spliced(old, i, key, b, LEFT_SPLIT_COUNT)
  PROVE  Halves(old, SubSeq(all, 1, LEFT_SPLIT_COUNT),
                SubSeq(all, LEFT_SPLIT_COUNT + 1, Len(all)), key)
  <1>1. PICK boundary : boundary = LEFT_SPLIT_COUNT
    OBVIOUS
  <1>2. Inserted(all, old, key)
    BY <1>1, SplicedFacts
  <1>3. PICK M \in Nat : M = LEAF_NODE_MAX_CELLS /\ M >= 1
    BY DbAssumption DEF DbAssumption
  <1>4. PICK r \in Int : r = (M + 1) \div 2
    OBVIOUS
  <1>5. 1 <= r /\ r <= M
    BY <1>3, <1>4
  <1>6. boundary = (M + 1) - r
    BY <1>1, <1>3, <1>4 DEF LEFT_SPLIT_COUNT, RIGHT_SPLIT_COUNT
  <1>7. all \in Seq(Cell) /\ Len(all) = M + 1
    BY <1>2, <1>3 DEF Inserted
  <1>8. boundary \in 0..Len(all) /\ boundary <= M /\ M + 1 - boundary <= M
    BY <1>5, <1>6, <1>7
  <1>9. PICK left : left = SubSeq(all, 1, boundary)
    OBVIOUS
  <1>10. PICK right : right = SubSeq(all, boundary + 1, Len(all))
    OBVIOUS
  <1>11. /\ left \in Seq(Cell) /\ Len(left) = boundary
         /\ right \in Seq(Cell) /\ Len(right) = Len(all) - boundary
         /\ all = left \o right
    BY <1>7, <1>8, <1>9, <1>10, Cut
  <1>12. ASSUME NEW k
         PROVE  RowCount(left, k) + RowCount(right, k)
                  = RowCount(old, k) + IF key = k THEN 1 ELSE 0
    <2>1. RowCount(all, k) = RowCount(left, k) + RowCount(right, k)
      BY <1>11, RowCat
    <2>2. RowCount(all, k) = RowCount(old, k) + IF key = k THEN 1 ELSE 0
      BY <1>2 DEF Inserted
    <2> QED
      BY <2>1, <2>2
  <1>13. Len(left) <= LEAF_NODE_MAX_CELLS /\ Len(right) <= LEAF_NODE_MAX_CELLS
    BY <1>3, <1>7, <1>8, <1>11
  <1>14. Halves(old, left, right, key)
    BY <1>11, <1>12, <1>13 DEF Halves
  <1> QED
    BY <1>1, <1>9, <1>10, <1>14

\* A page that holds these cells and points to that leaf.
IsLeaf(r, cells, next) == IsChild(r) /\ r.cells = cells /\ r.next = next

\* The pages are a table whose N leaves, in the order pos, hold these rows.
IsTable(pg, count, L, N, pos) ==
    /\ count \in [Keys -> Nat] /\ PagesOk(pg, L) /\ N \in Nat /\ N \in 1..L
    /\ Chained(pg, PageLeaves(pg), pos, N) /\ Counted(pg, count) /\ IsRootNode(pg[0])

\* q are the pages after leaf p, with key, was parted in left and right.
IsParted(pg, q, L, p, key, left, right) ==
    /\ p \in PageLeaves(pg) /\ key \in Keys /\ Halves(pg[p].cells, left, right, key)
    /\ Numbered(q, L + 1) /\ IsRootNode(q[0])
    /\ \A n \in 1..L - 1 : n # p => q[n] = pg[n]
    /\ IsLeaf(q[p], left, L) /\ IsLeaf(q[L], right, pg[p].next)

\* A leaf below the root splits: the table keeps its rows and has one more.
LEMMA LeafSplitKeeps ==
  ASSUME NEW pg, NEW q, NEW count, NEW L, NEW N, NEW pos, NEW p, NEW key, NEW left, NEW right,
         IsTable(pg, count, L, N, pos), IsParted(pg, q, L, p, key, left, right)
  PROVE  TreeOk(q, OneMore(count, key))
  <1> USE DEF IsTable, IsParted
  <1> DEFINE T == PageLeaves(pg)
  <1>1. /\ L \in Nat /\ L >= 1 /\ T = 1..L - 1 /\ IsFiniteSet(T)
    <2>1. pg[0].type # "leaf"
      BY DEF IsRootNode
    <2>2. ~IsOnlyLeaf(pg[0])
      BY <2>1 DEF IsOnlyLeaf, LeafPage
    <2> QED
      BY <2>2, LeavesAre
  <1>2. PagesOk(q, L + 1)
    <2>1. \A n \in 1..(L + 1) - 1 : IsChild(q[n])
      <3> SUFFICES ASSUME NEW n \in 1..(L + 1) - 1 PROVE IsChild(q[n])
        OBVIOUS
      <3>1. n = L \/ n = p \/ (n \in 1..L - 1 /\ n # p)
        BY <1>1
      <3>2. n \in 1..L - 1 => IsChild(pg[n])
        BY DEF PagesOk
      <3> QED
        BY <3>1, <3>2 DEF IsLeaf
    <2>2. L + 1 \in Nat \ {0}
      BY <1>1
    <2> QED
      BY <2>1, <2>2 DEF PagesOk
  <1>3. PageLeaves(q) = T \cup {L}
    <2>1. PageLeaves(q) = 1..(L + 1) - 1
      <3>1. q[0].type # "leaf"
        BY DEF IsRootNode
      <3>2. ~IsOnlyLeaf(q[0])
        BY <3>1 DEF IsOnlyLeaf, LeafPage
      <3> QED
        BY <1>2, <3>2, LeavesAre
    <2> QED
      BY <1>1, <2>1
  <1>4. p \in T /\ L \notin T /\ L # 0 /\ p # L
    BY <1>1
  <1>5. \E ps : Chained(q, T \cup {L}, ps, N + 1)
    <2>1. q[p].next = L /\ q[L].next = pg[p].next
      BY DEF IsLeaf
    <2>2. \A n \in T : n # p => q[n].next = pg[n].next
      BY <1>1
    <2>3. N >= 1
      BY <1>1
    <2> HIDE DEF T
    <2>4. Chained(pg, T, pos, N)
      BY DEF T
    <2> QED
      BY <1>4, <2>1, <2>2, <2>3, <2>4, ChainGrows
  <1>6. Counted(q, OneMore(count, key))
    <2> SUFFICES ASSUME NEW k \in Keys
                 PROVE  SumOver(RowCounts(q, k), PageLeaves(q)) = OneMore(count, key)[k]
      BY DEF Counted
    <2> DEFINE R == T \ {p}
               g == RowCounts(pg, k)
               h == RowCounts(q, k)
    <2>1. SumOver(g, R) \in Nat /\ SumOver(g, T) = SumOver(g, R) + RowCount(pg[p].cells, k)
      BY SumWithout
    <2>2. L \in PageLeaves(q) /\ PageLeaves(q) \ {L} = T
      BY <1>3, <1>4
    <2>3. SumOver(h, PageLeaves(q)) = SumOver(h, PageLeaves(q) \ {L}) + RowCount(q[L].cells, k)
      BY <1>2, <2>2, SumWithout
    <2>4. IsFiniteSet(R) /\ p \notin R /\ R \cup {p} = T
      <3> HIDE DEF T
      <3>1. IsFiniteSet(T)
        BY <1>1
      <3>2. IsFiniteSet(R)
        BY ONLY <3>1, FS_RemoveElement
      <3> QED
        BY <1>4, <3>2
    <2>5. h[p] = RowCount(q[p].cells, k) /\ h[p] \in 0..LEAF_NODE_MAX_CELLS
      <3>1. p \in PageLeaves(q)
        BY <1>3, <1>4
      <3>2. RowCount(q[p].cells, k) \in 0..LEAF_NODE_MAX_CELLS
        BY <1>2, <3>1, LeafIs
      <3> QED
        BY <3>1, <3>2 DEF RowCounts
    <2>6. SumOver(h, R \cup {p}) = SumOver(h, R) + h[p]
      <3> HIDE DEF R, h
      <3> QED
        BY <2>4, <2>5, SumAdd
    <2>7. SumOver(h, R) = SumOver(g, R)
      <3>1. \A n \in R : h[n] = g[n]
        <4> SUFFICES ASSUME NEW n \in R PROVE h[n] = g[n]
          OBVIOUS
        <4>1. q[n] = pg[n] /\ n \in PageLeaves(pg) /\ n \in PageLeaves(q)
          BY <1>1, <1>3
        <4> QED
          BY <4>1 DEF RowCounts
      <3> HIDE DEF R, g, h
      <3> QED
        BY <3>1, SumSame
    <2>8. q[p].cells = left /\ q[L].cells = right
      BY DEF IsLeaf
    <2>9. RowCount(left, k) + RowCount(right, k)
            = RowCount(pg[p].cells, k) + IF key = k THEN 1 ELSE 0
      BY DEF Halves
    <2>10. /\ RowCount(left, k) \in Nat /\ RowCount(right, k) \in Nat
           /\ RowCount(pg[p].cells, k) \in Nat
      <3>1. left \in Seq(Cell) /\ right \in Seq(Cell)
        BY DEF Halves
      <3>2. pg[p].cells \in Seq(Cell)
        BY LeafIs
      <3>3. PICK c \in Seq(Cell) : c = pg[p].cells
        BY <3>2
      <3>4. RowCount(left, k) \in 0..Len(left) /\ RowCount(right, k) \in 0..Len(right)
        BY <3>1, RowCountOcc
      <3>5. RowCount(c, k) \in 0..Len(c)
        BY RowCountOcc
      <3> QED
        BY <3>1, <3>3, <3>4, <3>5
    <2>11. SumOver(g, T) = count[k] /\ count[k] \in Nat
      BY DEF Counted
    <2>12. OneMore(count, key)[k] = count[k] + IF key = k THEN 1 ELSE 0
      BY DEF OneMore
    <2>13. SumOver(RowCounts(q, k), PageLeaves(q)) = SumOver(h, PageLeaves(q))
      OBVIOUS
    <2> HIDE DEF g, h, R, T
    <2> QED
      <3>1. SumOver(h, PageLeaves(q)) = SumOver(h, T) + RowCount(right, k)
        BY ONLY <2>2, <2>3, <2>8
      <3>2. SumOver(h, T) = SumOver(g, R) + RowCount(left, k)
        BY ONLY <2>4, <2>5, <2>6, <2>7, <2>8
      <3>3. SumOver(h, PageLeaves(q)) = count[k] + IF key = k THEN 1 ELSE 0
        BY ONLY <2>1, <2>9, <2>10, <2>11, <3>1, <3>2
      <3> QED
        BY ONLY <2>12, <2>13, <3>3
  <1>7. N + 1 \in Nat /\ N + 1 \in 1..L + 1 /\ L + 1 \in Nat
    BY <1>1
  <1> QED
    BY <1>2, <1>3, <1>5, <1>6, <1>7 DEF TreeOk

\* A leaf's page with these fields.
IsPage(r, root, cells, next) ==
    /\ r \in LeafPage /\ r.root = root /\ r.cells = cells /\ r.next = next

\* The pages after leaf_node_split_and_insert has cut leaf p in two.
IsSplit(pg, q, L, p, left, right) ==
    /\ Numbered(q, L + 1)
    /\ \A n \in 0..L - 1 : n # p => q[n] = pg[n]
    /\ IsPage(q[p], pg[p].root, left, L)
    /\ IsPage(q[L], FALSE, right, pg[p].next)

\* What leaf_node_split_and_insert makes of the pages before it turns to the
\* parent.
LEMMA SplitLeafIs ==
  ASSUME NEW pg, NEW L, PagesOk(pg, L), NEW p \in PageLeaves(pg),
         ~(Len(pg[p].cells) < LEAF_NODE_MAX_CELLS),
         NEW i \in 0..Len(pg[p].cells), NEW key \in Keys, NEW b \in 0..255
  PROVE  \E left, right :
           /\ Halves(pg[p].cells, left, right, key)
           /\ IsSplit(pg, SplitLeaf(pg, p, i, key, b), L, p, left, right)
  <1>1. PICK M \in Nat : M = LEAF_NODE_MAX_CELLS
    BY DbAssumption DEF DbAssumption
  <1>2. PICK old \in Seq(Cell) : old = pg[p].cells
    BY LeafIs
  <1>3. Len(old) = LEAF_NODE_MAX_CELLS
    <2>1. PICK z \in Nat : z = Len(old)
      OBVIOUS
    <2>2. z <= M /\ ~(z < M)
      BY <1>1, <1>2, <2>1, LeafIs
    <2> QED
      BY <1>1, <2>1, <2>2
  <1>4. PICK all : all = Spliced(old, i, key, b, LEFT_SPLIT_COUNT)
    OBVIOUS
  <1>5. PICK left : left = SubSeq(all, 1, LEFT_SPLIT_COUNT)
    OBVIOUS
  <1>6. PICK right : right = SubSeq(all, LEFT_SPLIT_COUNT + 1, Len(all))
    OBVIOUS
  <1>7. Halves(old, left, right, key)
    BY <1>2, <1>3, <1>4, <1>5, <1>6, SplitHalves
  <1>8. left \in Seq(Cell) /\ right \in Seq(Cell)
    BY <1>7 DEF Halves
  <1>9. /\ L \in Nat /\ L >= 1 /\ DOMAIN pg = 0..L - 1 /\ Cardinality(DOMAIN pg) = L
        /\ p \in 0..L - 1
    BY LeavesAre DEF PageLeaves
  <1>10. PICK q : q = SplitLeaf(pg, p, i, key, b)
    OBVIOUS
  <1>11. q = [n \in 0..L |->
           IF n = L
           THEN [Leaf(FALSE, right, pg[p].next) EXCEPT !.parent = pg[p].parent]
           ELSE IF n = p THEN [pg[p] EXCEPT !.cells = left, !.next = L]
           ELSE pg[n]]
    BY <1>2, <1>4, <1>5, <1>6, <1>9, <1>10 DEF SplitLeaf
  <1>12. /\ DOMAIN q = 0..L /\ q[L] = [Leaf(FALSE, right, pg[p].next) EXCEPT !.parent = pg[p].parent]
         /\ q[p] = [pg[p] EXCEPT !.cells = left, !.next = L]
         /\ \A n \in 0..L - 1 : n # p => q[n] = pg[n]
    <2>1. 0..L = (0..L - 1) \cup {L} /\ L \in 0..L /\ p \in 0..L /\ p # L
      BY <1>9
    <2>2. DOMAIN q = 0..L
      BY <1>11
    <2>3. q[L] = [Leaf(FALSE, right, pg[p].next) EXCEPT !.parent = pg[p].parent]
      BY ONLY <1>11, <2>1
    <2>4. q[p] = [pg[p] EXCEPT !.cells = left, !.next = L]
      BY ONLY <1>11, <2>1
    <2>5. ASSUME NEW n \in 0..L - 1, n # p PROVE q[n] = pg[n]
      <3>1. n \in 0..L /\ n # L
        BY <1>9
      <3> QED
        BY ONLY <1>11, <2>5, <3>1
    <2> QED
      BY <2>2, <2>3, <2>4, <2>5
  <1>13. pg[p] \in LeafPage /\ pg[p].next \in Nat /\ pg[p].parent = 0
    BY LeafIs
  <1>14. IsPage(q[L], FALSE, right, pg[p].next)
    BY <1>8, <1>12, <1>13 DEF IsPage, LeafPage, Leaf
  <1>15. IsPage(q[p], pg[p].root, left, L)
    BY <1>8, <1>9, <1>12, <1>13 DEF IsPage, LeafPage
  <1>16. Numbered(q, L + 1)
    <2>1. (L + 1) - 1 = L
      BY <1>9
    <2>2. q = [n \in 0..L |-> q[n]]
      BY <1>11
    <2> QED
      BY <2>1, <2>2 DEF Numbered
  <1>17. IsSplit(pg, q, L, p, left, right)
    BY <1>12, <1>14, <1>15, <1>16 DEF IsSplit
  <1> QED
    BY <1>2, <1>7, <1>10, <1>17

\* What update_internal_node_key and internal_node_insert write, they write
\* into the words of a node that stays one.
LEMMA NodeStays ==
  ASSUME NEW r, IsRootNode(r)
  PROVE  /\ \A a, b : IsRootNode(UpdateKey(r, a, b))
         /\ \A q, c : IsRootNode(InternalInsert(q, r, c))
  <1>1. \A v : IsRootNode([r EXCEPT !.word = v])
    BY DEF IsRootNode
  <1>2. \A v : IsRootNode([r EXCEPT !.num = v])
    BY DEF IsRootNode
  <1>3. ASSUME NEW s, IsRootNode(s), NEW v PROVE IsRootNode([s EXCEPT !.right = v])
    BY <1>3 DEF IsRootNode
  <1>4. ASSUME NEW s, IsRootNode(s), NEW w, NEW v PROVE IsRootNode([s EXCEPT !.word[w] = v])
    BY <1>4 DEF IsRootNode
  <1>5. ASSUME NEW s, IsRootNode(s), NEW v PROVE IsRootNode([s EXCEPT !.word = v])
    BY <1>5 DEF IsRootNode
  <1>6. ASSUME NEW a, NEW b PROVE IsRootNode(UpdateKey(r, a, b))
    BY <1>4 DEF UpdateKey
  <1>7. ASSUME NEW q, NEW c PROVE IsRootNode(InternalInsert(q, r, c))
    <2> DEFINE grown == [r EXCEPT !.num = r.num + 1]
    <2>1. IsRootNode(grown)
      BY <1>2
    <2>2. PICK index : index = FindChild(r, MaxKey(q[c]))
      OBVIOUS
    <2> DEFINE moved == [grown EXCEPT !.word =
                           [w \in Words |-> IF w \in (2 * index + 2)..(2 * r.num + 1)
                                            THEN grown.word[w - 2] ELSE grown.word[w]]]
    <2>3. IsRootNode(moved)
      <3> HIDE DEF grown
      <3> QED
        BY <1>5, <2>1
    <2>4. PICK m : m = MaxKey(q[r.right])
      OBVIOUS
    <2>5. IsRootNode([grown EXCEPT !.word[2 * r.num] = r.right, !.word[KeyWord(r.num)] = m,
                                   !.right = c])
      <3> HIDE DEF grown
      <3> QED
        BY <2>1 DEF IsRootNode
    <2>6. IsRootNode([moved EXCEPT !.word[2 * index] = c, !.word[KeyWord(index)] = MaxKey(q[c])])
      <3> HIDE DEF moved
      <3> QED
        BY <2>3 DEF IsRootNode
    <2> QED
      BY <2>2, <2>4, <2>5, <2>6 DEF InternalInsert
  <1> QED
    BY <1>6, <1>7

\* Leaf p of the table is full, and key is to be inserted at its place i.
IsFullLeaf(pg, count, p, i, key, b) ==
    /\ count \in [Keys -> Nat] /\ TreeOk(pg, count) /\ p \in PageLeaves(pg)
    /\ i \in 0..Len(pg[p].cells) /\ ~(Len(pg[p].cells) < LEAF_NODE_MAX_CELLS)
    /\ key \in Keys /\ b \in 0..255

\* q are the pages after leaf p was split and the root became r.
IsLeafSplit(pg, q, count, p, i, key, b, r) ==
    /\ IsFullLeaf(pg, count, p, i, key, b) /\ p # 0
    /\ IsRootNode(pg[0]) => IsRootNode(r)
    /\ q = [SplitLeaf(pg, p, i, key, b) EXCEPT ![0] = r]

\* The split of a leaf below the root, with what it writes into the root.
LEMMA SplitBelowRoot ==
  ASSUME NEW pg, NEW q, NEW count, NEW p, NEW i, NEW key, NEW b, NEW r,
         IsLeafSplit(pg, q, count, p, i, key, b, r)
  PROVE  TreeOk(q, OneMore(count, key)) /\ DOMAIN pg \subseteq DOMAIN q
  <1> USE DEF IsLeafSplit, IsFullLeaf
  <1>0. PICK L \in Nat, N \in Nat : \E pos :
          /\ PagesOk(pg, L) /\ N \in 1..L
          /\ Chained(pg, PageLeaves(pg), pos, N)
          /\ Counted(pg, count)
    BY DEF TreeOk
  <1>1. PICK pos :
          /\ PagesOk(pg, L) /\ N \in 1..L
          /\ Chained(pg, PageLeaves(pg), pos, N)
          /\ Counted(pg, count)
    BY <1>0
  <1>2. PICK left, right :
          /\ Halves(pg[p].cells, left, right, key)
          /\ IsSplit(pg, SplitLeaf(pg, p, i, key, b), L, p, left, right)
    BY <1>1, SplitLeafIs
  <1>3. PICK s : s = SplitLeaf(pg, p, i, key, b)
    OBVIOUS
  <1>4. /\ Numbered(s, L + 1)
        /\ \A n \in 0..L - 1 : n # p => s[n] = pg[n]
        /\ IsPage(s[p], pg[p].root, left, L)
        /\ IsPage(s[L], FALSE, right, pg[p].next)
    BY <1>2, <1>3 DEF IsSplit
  <1>5. q = [s EXCEPT ![0] = r]
    BY <1>3
  <1>6. L \in Nat /\ L >= 1 /\ DOMAIN pg = 0..L - 1 /\ p \in 1..L - 1 /\ IsRootNode(pg[0])
    <2>1. /\ L \in Nat /\ L >= 1 /\ DOMAIN pg = 0..L - 1
          /\ \/ PageLeaves(pg) = 1..L - 1 /\ IsRootNode(pg[0])
             \/ PageLeaves(pg) = {0}
      BY <1>1, LeavesAre
    <2> QED
      BY <2>1
  <1>7. /\ DOMAIN s = 0..L /\ s = [n \in 0..L |-> s[n]]
    <2>1. (L + 1) - 1 = L
      BY <1>6
    <2>2. s = [n \in 0..L |-> s[n]]
      BY <1>4, <2>1 DEF Numbered
    <2> QED
      BY <2>2
  <1>8. /\ q = [n \in 0..L |-> q[n]] /\ q[0] = r
        /\ \A n \in 1..L : q[n] = s[n]
    <2>1. 0 \in 0..L /\ \A n \in 1..L : n \in 0..L /\ n # 0
      BY <1>6
    <2>2. q = [n \in 0..L |-> q[n]]
      BY ONLY <1>5, <1>7
    <2>3. q[0] = r
      BY ONLY <1>5, <1>7, <2>1
    <2>4. \A n \in 1..L : q[n] = s[n]
      BY ONLY <1>5, <1>7, <2>1
    <2> QED
      BY <2>2, <2>3, <2>4
  <1>9. pg[p].root = FALSE
    BY <1>1, LeafIs
  <1>10. IsLeaf(q[p], left, L) /\ IsLeaf(q[L], right, pg[p].next)
    <2>1. Len(left) <= LEAF_NODE_MAX_CELLS /\ Len(right) <= LEAF_NODE_MAX_CELLS
      BY <1>2 DEF Halves
    <2>2. q[p] = s[p] /\ q[L] = s[L]
      <3>1. p \in 1..L /\ L \in 1..L
        BY <1>6
      <3> QED
        BY ONLY <1>8, <3>1
    <2> QED
      BY <1>4, <1>9, <2>1, <2>2 DEF IsLeaf, IsChild, IsPage
  <1>11. \A n \in 1..L - 1 : n # p => q[n] = pg[n]
    <2>1. \A n \in 1..L - 1 : n \in 1..L /\ n \in 0..L - 1
      BY <1>6
    <2> QED
      BY ONLY <1>4, <1>8, <2>1
  <1>12. Numbered(q, L + 1)
    <2>1. (L + 1) - 1 = L
      BY <1>6
    <2> QED
      BY <1>8, <2>1 DEF Numbered
  <1>13. IsRootNode(q[0])
    BY <1>6, <1>8
  <1>14. TreeOk(q, OneMore(count, key))
    <2>1. IsTable(pg, count, L, N, pos)
      BY <1>1, <1>6 DEF IsTable
    <2>2. IsParted(pg, q, L, p, key, left, right)
      BY <1>2, <1>10, <1>11, <1>12, <1>13 DEF IsParted
    <2> QED
      BY <2>1, <2>2, LeafSplitKeeps
  <1>15. DOMAIN pg \subseteq DOMAIN q
    BY <1>6, <1>8
  <1> QED
    BY <1>3, <1>5, <1>14, <1>15

\* q are the pages after the only leaf was split below a new root.
IsRootSplit(pg, q, count, i, key, b, junk) ==
    /\ IsFullLeaf(pg, count, 0, i, key, b)
    /\ q = NewRoot(SplitLeaf(pg, 0, i, key, b), Cardinality(DOMAIN pg), junk)

\* The split of the only leaf, which create_new_root moves to page 2.
LEMMA SplitOfRoot ==
  ASSUME NEW pg, NEW q, NEW count, NEW i, NEW key, NEW b, NEW junk,
         IsRootSplit(pg, q, count, i, key, b, junk)
  PROVE  TreeOk(q, OneMore(count, key)) /\ DOMAIN pg \subseteq DOMAIN q
  <1> USE DEF IsRootSplit, IsFullLeaf
  <1>0. PICK L \in Nat, N \in Nat : \E pos :
          /\ PagesOk(pg, L) /\ N \in 1..L
          /\ Chained(pg, PageLeaves(pg), pos, N)
          /\ Counted(pg, count)
    BY DEF TreeOk
  <1>1. PICK pos :
          /\ PagesOk(pg, L) /\ N \in 1..L
          /\ Chained(pg, PageLeaves(pg), pos, N)
          /\ Counted(pg, count)
    BY <1>0
  <1>2. PICK left, right :
          /\ Halves(pg[0].cells, left, right, key)
          /\ IsSplit(pg, SplitLeaf(pg, 0, i, key, b), L, 0, left, right)
    BY <1>1, SplitLeafIs
  <1>3. PICK s : s = SplitLeaf(pg, 0, i, key, b)
    OBVIOUS
  <1>4. /\ L = 1 /\ PageLeaves(pg) = {0} /\ IsOnlyLeaf(pg[0])
        /\ DOMAIN pg = {0} /\ Cardinality(DOMAIN pg) = 1
    <2>1. ~(0 \in 1..L - 1)
      OBVIOUS
    <2>2. L = 1 /\ PageLeaves(pg) = {0} /\ IsOnlyLeaf(pg[0])
      BY <1>1, <2>1, LeavesAre
    <2>3. DOMAIN pg = 0..L - 1 /\ Cardinality(0..L - 1) = L
      BY <1>1, LeavesAre
    <2> QED
      BY <2>2, <2>3
  <1>5. /\ Numbered(s, L + 1)
        /\ IsPage(s[0], pg[0].root, left, L)
        /\ IsPage(s[L], FALSE, right, pg[0].next)
    BY <1>2, <1>3 DEF IsSplit
  <1>6. IsPage(s[0], TRUE, left, 1) /\ IsPage(s[1], FALSE, right, pg[0].next)
    BY <1>4, <1>5 DEF IsOnlyLeaf
  <1>7. DOMAIN s = 0..1 /\ Cardinality(DOMAIN s) = 2
    <2>1. s = [n \in 0..1 |-> s[n]]
      BY <1>4, <1>5 DEF Numbered
    <2>2. DOMAIN s = 0..1
      BY <2>1
    <2>3. Cardinality(0..1) = 2
      <3>1. PICK z \in Int : z = 1
        OBVIOUS
      <3>2. Cardinality(0..z) = IF 0 > z THEN 0 ELSE z - 0 + 1
        BY FS_Interval
      <3> QED
        BY <3>1, <3>2
    <2> QED
      BY <2>2, <2>3
  <1>8. PICK two : two = Cardinality(DOMAIN s)
    OBVIOUS
  <1>9. PICK top : top = [type |-> "internal", root |-> TRUE, num |-> 1, right |-> 1,
                          word |-> [w \in Words |->
                             CASE w = 0 -> two [] w = KeyWord(0) -> MaxKey(s[0])
                               [] OTHER -> junk]]
    OBVIOUS
  <1>10. IsRootNode(top)
    BY <1>9 DEF IsRootNode
  <1>11. q = [n \in 0..2 |-> IF n = 2 THEN [s[0] EXCEPT !.root = FALSE, !.parent = 0]
                            ELSE IF n = 1 THEN [s[1] EXCEPT !.parent = 0]
                            ELSE IF n = 0 THEN top ELSE s[n]]
    <2>1. q = NewRoot(s, 1, junk)
      BY <1>3, <1>4
    <2>2. q = [n \in 0..two |-> IF n = two THEN [s[0] EXCEPT !.root = FALSE, !.parent = 0]
                               ELSE IF n = 1 THEN [s[1] EXCEPT !.parent = 0]
                               ELSE IF n = 0 THEN top ELSE s[n]]
      BY ONLY <1>8, <1>9, <2>1 DEF NewRoot
    <2>3. two = 2
      BY <1>7, <1>8
    <2> QED
      BY ONLY <2>2, <2>3
  <1>12. /\ DOMAIN q = 0..2 /\ q = [n \in 0..2 |-> q[n]]
         /\ q[2] = [s[0] EXCEPT !.root = FALSE, !.parent = 0]
         /\ q[1] = [s[1] EXCEPT !.parent = 0] /\ q[0] = top
    BY <1>11
  <1>13. pg[0].next = 0
    <2>1. pos[0] = 1
      <3>1. \E n \in {0} : pos[n] = 1
        BY <1>1, <1>4 DEF Chained
      <3> QED
        BY <3>1
    <2> QED
      BY <1>1, <1>4, <2>1 DEF Chained
  <1>14. IsPage(q[2], FALSE, left, 1) /\ IsPage(q[1], FALSE, right, 0)
    <2>1. ASSUME NEW r \in LeafPage
          PROVE  /\ [r EXCEPT !.root = FALSE, !.parent = 0] \in LeafPage
                 /\ [r EXCEPT !.root = FALSE, !.parent = 0].root = FALSE
                 /\ [r EXCEPT !.root = FALSE, !.parent = 0].cells = r.cells
                 /\ [r EXCEPT !.root = FALSE, !.parent = 0].next = r.next
                 /\ [r EXCEPT !.parent = 0] \in LeafPage
                 /\ [r EXCEPT !.parent = 0].root = r.root
                 /\ [r EXCEPT !.parent = 0].cells = r.cells
                 /\ [r EXCEPT !.parent = 0].next = r.next
      BY DEF LeafPage
    <2>2. s[0] \in LeafPage /\ s[1] \in LeafPage
      BY <1>6 DEF IsPage
    <2>3. IsPage(q[2], FALSE, left, 1)
      <3>1. PICK r \in LeafPage : r = s[0] /\ q[2] = [r EXCEPT !.root = FALSE, !.parent = 0]
        BY <1>12, <2>2
      <3>2. /\ q[2] \in LeafPage /\ q[2].root = FALSE /\ q[2].cells = r.cells
            /\ q[2].next = r.next
        BY ONLY <2>1, <3>1
      <3> QED
        BY ONLY <1>6, <3>1, <3>2 DEF IsPage
    <2>4. IsPage(q[1], FALSE, right, 0)
      <3>1. PICK r \in LeafPage : r = s[1] /\ q[1] = [r EXCEPT !.parent = 0]
        BY <1>12, <2>2
      <3>2. /\ q[1] \in LeafPage /\ q[1].root = r.root /\ q[1].cells = r.cells
            /\ q[1].next = r.next
        BY ONLY <2>1, <3>1
      <3> QED
        BY ONLY <1>6, <1>13, <3>1, <3>2 DEF IsPage
    <2> QED
      BY <2>3, <2>4
  <1>15. IsChild(q[1]) /\ IsChild(q[2])
    BY <1>2, <1>14 DEF Halves, IsPage, IsChild
  <1>16. PagesOk(q, 3)
    <2>1. 3 \in Nat \ {0} /\ 3 - 1 = 2 /\ 1..2 = {1, 2}
      OBVIOUS
    <2>2. \A n \in 1..3 - 1 : IsChild(q[n])
      BY <1>15, <2>1
    <2>3. Numbered(q, 3)
      BY <1>12, <2>1 DEF Numbered
    <2> QED
      BY <1>10, <1>12, <2>1, <2>2, <2>3 DEF PagesOk
  <1>17. PageLeaves(q) = {1, 2}
    <2>1. PageLeaves(q) = 1..3 - 1
      <3>1. 3 # 1
        OBVIOUS
      <3> QED
        BY <1>16, <3>1, LeavesAre
    <2> QED
      BY <2>1
  <1> DEFINE ps == [n \in {1, 2} |-> n]
  <1>18. Chained(q, {1, 2}, ps, 2)
    <2>1. ps \in [{1, 2} -> 1..2] /\ ps[1] = 1 /\ ps[2] = 2
      OBVIOUS
    <2>2. q[1].next = 0 /\ q[2].next = 1
      BY <1>14 DEF IsPage
    <2>3. \A m, n \in {1, 2} : ps[m] = ps[n] => m = n
      BY <2>1
    <2>4. \A j \in 1..2 : \E n \in {1, 2} : ps[n] = j
      BY <2>1
    <2>5. \A n \in {1, 2} : IF ps[n] = 1 THEN q[n].next = 0
                            ELSE /\ q[n].next \in {1, 2} /\ q[n].next # 0
                                 /\ ps[q[n].next] = ps[n] - 1
      BY <2>1, <2>2
    <2> HIDE DEF ps
    <2> QED
      BY <2>1, <2>3, <2>4, <2>5 DEF Chained
  <1>19. Counted(q, OneMore(count, key))
    <2> SUFFICES ASSUME NEW k \in Keys
                 PROVE  SumOver(RowCounts(q, k), {1, 2}) = OneMore(count, key)[k]
      BY <1>17 DEF Counted
    <2>1. PICK h : h = RowCounts(q, k)
      OBVIOUS
    <2>2. /\ h[1] = RowCount(right, k) /\ h[2] = RowCount(left, k)
          /\ h[1] \in 0..LEAF_NODE_MAX_CELLS /\ h[2] \in 0..LEAF_NODE_MAX_CELLS
      <3>1. 1 \in PageLeaves(q) /\ 2 \in PageLeaves(q)
        BY <1>17
      <3>2. h[1] = RowCount(q[1].cells, k) /\ h[2] = RowCount(q[2].cells, k)
        BY <2>1, <3>1 DEF RowCounts
      <3>3. RowCount(q[1].cells, k) \in 0..LEAF_NODE_MAX_CELLS
        BY <1>16, <3>1, LeafIs
      <3>4. RowCount(q[2].cells, k) \in 0..LEAF_NODE_MAX_CELLS
        BY <1>16, <3>1, LeafIs
      <3> QED
        BY <1>14, <3>2, <3>3, <3>4 DEF IsPage
    <2>3. IsFiniteSet({}) /\ IsFiniteSet({1})
      BY FS_EmptySet, FS_Singleton
    <2>4. SumOver(h, {}) = 0
      BY SumEmpty
    <2>5. SumOver(h, {} \cup {1}) = SumOver(h, {}) + h[1]
      BY <2>2, <2>3, SumAdd
    <2>6. SumOver(h, {1} \cup {2}) = SumOver(h, {1}) + h[2]
      <3>1. 2 \notin {1}
        OBVIOUS
      <3> QED
        BY <2>2, <2>3, <3>1, SumAdd
    <2>7. {} \cup {1} = {1} /\ {1} \cup {2} = {1, 2}
      OBVIOUS
    <2>8. SumOver(h, {1, 2}) = RowCount(left, k) + RowCount(right, k)
      <3>1. LEAF_NODE_MAX_CELLS \in Nat
        BY DbAssumption DEF DbAssumption
      <3>2. SumOver(h, {1}) = h[1]
        <4>1. SumOver(h, {1}) = 0 + h[1]
          BY ONLY <2>4, <2>5, <2>7
        <4> QED
          BY ONLY <2>2, <3>1, <4>1
      <3>3. SumOver(h, {1, 2}) = h[1] + h[2]
        BY ONLY <2>6, <2>7, <3>2
      <3>4. h[1] \in Int /\ h[2] \in Int
        BY <2>2, <3>1
      <3> QED
        BY ONLY <2>2, <3>3, <3>4
    <2>9. count[k] = RowCount(pg[0].cells, k)
      <3>1. SumOver(RowCounts(pg, k), PageLeaves(pg))
              = SumOver(RowCounts(pg, k), PageLeaves(pg) \ {0}) + RowCount(pg[0].cells, k)
        BY <1>1, SumWithout
      <3>2. PageLeaves(pg) \ {0} = {}
        BY <1>4
      <3>3. SumOver(RowCounts(pg, k), {}) = 0
        BY SumEmpty
      <3>4. SumOver(RowCounts(pg, k), PageLeaves(pg)) = count[k]
        BY <1>1 DEF Counted
      <3>5. RowCount(pg[0].cells, k) \in 0..LEAF_NODE_MAX_CELLS
        BY <1>1, LeafIs
      <3>6. RowCount(pg[0].cells, k) \in Int
        BY <3>5, DbAssumption DEF DbAssumption
      <3>7. count[k] = 0 + RowCount(pg[0].cells, k)
        BY ONLY <3>1, <3>2, <3>3, <3>4
      <3> QED
        BY ONLY <3>6, <3>7
    <2>10. RowCount(left, k) + RowCount(right, k)
             = RowCount(pg[0].cells, k) + IF key = k THEN 1 ELSE 0
      BY <1>2 DEF Halves
    <2>11. OneMore(count, key)[k] = count[k] + IF key = k THEN 1 ELSE 0
      BY DEF OneMore
    <2> QED
      BY <2>1, <2>8, <2>9, <2>10, <2>11
  <1>20. 3 \in Nat /\ 2 \in Nat /\ 2 \in 1..3
    OBVIOUS
  <1>21. TreeOk(q, OneMore(count, key))
    <2> HIDE DEF ps
    <2> QED
      BY <1>16, <1>17, <1>18, <1>19, <1>20 DEF TreeOk
  <1> QED
    BY <1>4, <1>12, <1>21

-----------------------------------------------------------------------------
(* What select reads: the rows along the chain.                            *)

\* The rows of a leaf.
LEMMA LeafRowsAre ==
  ASSUME NEW pg, NEW L, PagesOk(pg, L), NEW n \in PageLeaves(pg), NEW k
  PROVE  /\ LeafRows(pg[n]) \in Seq(Keys)
         /\ Occ(LeafRows(pg[n]), k) = RowCount(pg[n].cells, k)
  <1>1. PICK c \in Seq(Cell) : c = pg[n].cells
    BY LeafIs
  <1>2. LeafRows(pg[n]) = CellRows(c)
    BY <1>1 DEF LeafRows, CellRows
  <1> QED
    BY <1>1, <1>2, RowCountOcc

\* What Follow returns at leaf n with this fuel, W being Follow.
Follows(pg, W, n, fuel) ==
    IF fuel = 0 THEN <<>>
    ELSE LeafRows(pg[n])
         \o (IF pg[n].next = 0 THEN <<>> ELSE W[<<pg[n].next, fuel - 1>>])

\* W is Follow.
IsFollow(pg, L, W) ==
    W = [r \in PageLeaves(pg) \X (0..L) |-> Follows(pg, W, r[1], r[2])]

\* W is Follow for a fuel up to f.
FollowUpTo(pg, L, W, f) ==
    \A n \in PageLeaves(pg), g \in 0..L :
        g <= f => W[<<n, g>>] = Follows(pg, W, n, g)

\* Every leaf points to a leaf or to none.
Points(pg) == \A n \in PageLeaves(pg) : pg[n].next # 0 => pg[n].next \in PageLeaves(pg)

\* Follow is defined.
LEMMA FollowExists ==
  ASSUME NEW pg, NEW L \in Nat, Points(pg)
  PROVE  \E W : IsFollow(pg, L, W)
  <1> DEFINE T == PageLeaves(pg)
             D == T \X (0..L)
             Good(f) == \E W : W = [r \in D |-> W[r]] /\ FollowUpTo(pg, L, W, f)
             Bad == {f \in Nat : ~Good(f)}
  <1>1. Good(0)
    <2> DEFINE W0 == [r \in D |-> <<>>]
    <2>1. W0 = [r \in D |-> W0[r]] /\ \A n \in T, g \in 0..L : W0[<<n, g>>] = <<>>
      OBVIOUS
    <2>2. FollowUpTo(pg, L, W0, 0)
      <3> SUFFICES ASSUME NEW n \in T, NEW g \in 0..L, g <= 0
                   PROVE  W0[<<n, g>>] = Follows(pg, W0, n, g)
        BY DEF FollowUpTo
      <3>1. g = 0
        OBVIOUS
      <3> QED
        BY <2>1, <3>1 DEF Follows
    <2> HIDE DEF W0
    <2> QED
      BY <2>1, <2>2
  <1>2. ASSUME NEW f \in Nat, Good(f) PROVE Good(f + 1)
    <2>1. PICK W : FollowUpTo(pg, L, W, f)
      BY <1>2
    <2> DEFINE V == [r \in D |-> IF r[2] <= f THEN W[r] ELSE Follows(pg, W, r[1], r[2])]
    <2>2. \A n \in T, g \in 0..L :
            V[<<n, g>>] = IF g <= f THEN W[<<n, g>>] ELSE Follows(pg, W, n, g)
      OBVIOUS
    <2>3. V = [r \in D |-> V[r]]
      OBVIOUS
    <2> HIDE DEF V
    <2>4. FollowUpTo(pg, L, V, f + 1)
      <3> SUFFICES ASSUME NEW n \in T, NEW g \in 0..L, g <= f + 1
                   PROVE  V[<<n, g>>] = Follows(pg, V, n, g)
        BY DEF FollowUpTo
      <3>1. Follows(pg, V, n, g) = Follows(pg, W, n, g)
        <4>1. CASE g = 0 \/ pg[n].next = 0
          BY <4>1 DEF Follows
        <4>2. CASE g # 0 /\ pg[n].next # 0
          <5>1. PICK m \in T : m = pg[n].next
            BY <4>2 DEF Points
          <5>2. g - 1 \in 0..L /\ g - 1 <= f
            BY <4>2
          <5>3. V[<<m, g - 1>>] = W[<<m, g - 1>>]
            BY <2>2, <5>2
          <5> QED
            BY <4>2, <5>1, <5>3 DEF Follows
        <4> QED
          BY <4>1, <4>2
      <3>2. V[<<n, g>>] = Follows(pg, W, n, g)
        BY <2>1, <2>2 DEF FollowUpTo
      <3> QED
        BY <3>1, <3>2
    <2> QED
      BY <2>3, <2>4
  <1>3. Good(L)
    <2> HIDE DEF Good
    <2> SUFFICES ASSUME Bad # {} PROVE FALSE
      OBVIOUS
    <2>1. PICK d \in Bad : \A e \in Bad : d <= e
      BY LeastNat
    <2>2. d \in Nat /\ ~Good(d) /\ d # 0
      BY <1>1
    <2>3. d - 1 \in Nat
      BY <2>2
    <2>4. Good(d - 1)
      BY <2>1, <2>2, <2>3
    <2>5. Good((d - 1) + 1)
      BY <1>2, <2>3, <2>4
    <2>6. (d - 1) + 1 = d
      BY <2>2
    <2> QED
      BY <2>2, <2>5, <2>6
  <1>4. PICK W : W = [r \in D |-> W[r]] /\ FollowUpTo(pg, L, W, L)
    BY <1>3
  <1>5. \A r \in D : W[r] = Follows(pg, W, r[1], r[2])
    <2> SUFFICES ASSUME NEW n \in T, NEW g \in 0..L
                 PROVE  W[<<n, g>>] = Follows(pg, W, n, g)
      OBVIOUS
    <2>1. g <= L
      OBVIOUS
    <2> QED
      BY <1>4, <2>1 DEF FollowUpTo
  <1>6. IsFollow(pg, L, W)
    <2> DEFINE F == [r \in D |-> Follows(pg, W, r[1], r[2])]
    <2>1. [r \in D |-> W[r]] = F
      BY <1>5
    <2> QED
      BY <1>4, <2>1 DEF IsFollow
  <1> QED
    BY <1>6

\* The leaves of which at most j are left in the chain.
Lower(T, pos, j) == {m \in T : pos[m] <= j}

\* s holds exactly the rows of the leaves in S.
HoldsRows(pg, s, S) ==
    s \in Seq(Keys) /\ \A k \in Keys : Occ(s, k) = SumOver(RowCounts(pg, k), S)

\* The rows of one more leaf in front.
LEMMA RowsInFront ==
  ASSUME NEW pg, NEW L, PagesOk(pg, L), NEW S, S \subseteq PageLeaves(pg), NEW s,
         HoldsRows(pg, s, S), NEW n \in PageLeaves(pg), n \notin S
  PROVE  HoldsRows(pg, LeafRows(pg[n]) \o s, S \cup {n})
  <1>1. PICK a : a = LeafRows(pg[n])
    OBVIOUS
  <1>2. a \in Seq(Keys) /\ s \in Seq(Keys)
    BY <1>1, LeafRowsAre DEF HoldsRows
  <1>3. a \o s \in Seq(Keys)
    BY ONLY <1>2, ConcatProperties
  <1>4. ASSUME NEW k \in Keys
        PROVE  Occ(a \o s, k) = SumOver(RowCounts(pg, k), S \cup {n})
    <2>1. Occ(a \o s, k) = Occ(a, k) + Occ(s, k)
      BY <1>2, OccCat
    <2>2. Occ(s, k) = SumOver(RowCounts(pg, k), S)
      BY DEF HoldsRows
    <2>3. Occ(a, k) = RowCount(pg[n].cells, k)
      BY <1>1, LeafRowsAre
    <2>4. RowCounts(pg, k)[n] = RowCount(pg[n].cells, k)
      BY DEF RowCounts
    <2>5. RowCount(pg[n].cells, k) \in 0..LEAF_NODE_MAX_CELLS
      BY LeafIs
    <2>6. IsFiniteSet(S)
      BY LeavesAre, FS_Subset
    <2>7. /\ SumOver(RowCounts(pg, k), S) \in Nat
          /\ SumOver(RowCounts(pg, k), S \cup {n}) = SumOver(RowCounts(pg, k), S) + RowCounts(pg, k)[n]
      BY <2>4, <2>5, <2>6, SumAdd
    <2>8. RowCount(pg[n].cells, k) \in Nat
      BY <2>5, DbAssumption DEF DbAssumption
    <2> QED
      BY ONLY <2>1, <2>2, <2>3, <2>4, <2>7, <2>8
  <1> QED
    BY <1>1, <1>3, <1>4 DEF HoldsRows

\* No leaf, no row.
LEMMA NoRows == ASSUME NEW pg PROVE HoldsRows(pg, <<>>, {})
  <1>1. <<>> \in Seq(Keys) /\ DOMAIN <<>> = {}
    OBVIOUS
  <1>2. ASSUME NEW k \in Keys PROVE Occ(<<>>, k) = SumOver(RowCounts(pg, k), {})
    <2>1. {i \in DOMAIN <<>> : <<>>[i] = k} = {}
      BY <1>1
    <2> QED
      BY <2>1, FS_EmptySet, SumEmpty DEF Occ
  <1> QED
    BY <1>1, <1>2 DEF HoldsRows

\* With enough fuel, Follow returns the rows of a leaf and of those behind it.
LEMMA FollowHolds ==
  ASSUME NEW pg, NEW L, PagesOk(pg, L), NEW T, T = PageLeaves(pg), NEW pos, NEW N \in Nat,
         Chained(pg, T, pos, N), NEW F, IsFollow(pg, L, F)
  PROVE  \A j \in 1..N : \A n \in T : \A g \in j..L :
            pos[n] = j => HoldsRows(pg, F[<<n, g>>], Lower(T, pos, j))
  <1> DEFINE Good(j) == \A n \in T : \A g \in j..L :
                          pos[n] = j => HoldsRows(pg, F[<<n, g>>], Lower(T, pos, j))
             Bad == {j \in 1..N : ~Good(j)}
  <1>1. L \in Nat
    BY LeavesAre
  <1>2. \A n \in T : pos[n] \in 1..N /\ \A m \in T : pos[m] = pos[n] => m = n
    BY DEF Chained
  <1>3. \A n \in T, g \in 0..L : F[<<n, g>>] = Follows(pg, F, n, g)
    <2> DEFINE D == T \X (0..L)
               G == [r \in D |-> Follows(pg, F, r[1], r[2])]
    <2>1. \A n \in T, g \in 0..L : G[<<n, g>>] = Follows(pg, F, n, g)
      OBVIOUS
    <2>2. F = G
      BY DEF IsFollow
    <2> HIDE DEF G
    <2> QED
      BY <2>1, <2>2
  <1>4. ASSUME Bad # {} PROVE FALSE
    <2>1. PICK j \in Bad : \A e \in Bad : j <= e
      <3>1. Bad \subseteq Nat
        OBVIOUS
      <3> HIDE DEF Bad
      <3> QED
        BY <1>4, <3>1, LeastNat
    <2>2. j \in 1..N /\ ~Good(j)
      OBVIOUS
    <2>3. PICK n \in T, g \in j..L : pos[n] = j /\ ~HoldsRows(pg, F[<<n, g>>], Lower(T, pos, j))
      BY <2>2
    <2>4. g \in 0..L /\ g # 0
      BY <1>1, <2>2
    <2>5. F[<<n, g>>] = LeafRows(pg[n])
                        \o (IF pg[n].next = 0 THEN <<>> ELSE F[<<pg[n].next, g - 1>>])
      BY <1>3, <2>4 DEF Follows
    <2>6. CASE j = 1
      <3>1. pg[n].next = 0
        BY <2>3, <2>6 DEF Chained
      <3>2. Lower(T, pos, j) = {} \cup {n}
        BY <1>2, <2>3, <2>6 DEF Lower
      <3>3. HoldsRows(pg, LeafRows(pg[n]) \o <<>>, {} \cup {n})
        BY NoRows, RowsInFront
      <3>4. F[<<n, g>>] = LeafRows(pg[n]) \o <<>>
        BY <2>5, <3>1
      <3> QED
        BY <2>3, <3>2, <3>3, <3>4
    <2>7. CASE j # 1
      <3>1. PICK m \in T : m = pg[n].next /\ m # 0 /\ pos[m] = j - 1
        BY <2>3, <2>7 DEF Chained
      <3>2. j - 1 \in 1..N /\ g - 1 \in (j - 1)..L
        BY <1>1, <2>2, <2>7
      <3>3. Good(j - 1)
        <4>1. ~(j <= j - 1)
          BY <2>2
        <4> HIDE DEF Good
        <4> QED
          BY <2>1, <3>2, <4>1
      <3>4. HoldsRows(pg, F[<<m, g - 1>>], Lower(T, pos, j - 1))
        BY <3>1, <3>2, <3>3
      <3>5. Lower(T, pos, j) = Lower(T, pos, j - 1) \cup {n} /\ n \notin Lower(T, pos, j - 1)
        <4>1. \A x \in T : pos[x] <= j <=> (pos[x] <= j - 1 \/ x = n)
          BY <1>2, <2>2, <2>3
        <4>2. ~(pos[n] <= j - 1)
          BY <2>2, <2>3
        <4> QED
          BY <4>1, <4>2 DEF Lower
      <3>6. Lower(T, pos, j - 1) \subseteq PageLeaves(pg)
        BY DEF Lower
      <3>7. PICK s : s = F[<<m, g - 1>>]
        OBVIOUS
      <3>8. HoldsRows(pg, LeafRows(pg[n]) \o s, Lower(T, pos, j - 1) \cup {n})
        BY <3>4, <3>5, <3>6, <3>7, RowsInFront
      <3>9. F[<<n, g>>] = LeafRows(pg[n]) \o s
        BY <2>5, <3>1, <3>7
      <3> QED
        BY <2>3, <3>5, <3>8, <3>9
    <2> QED
      BY <2>6, <2>7
  <1> QED
    BY <1>4

\* A table whose rows are those of count has one first leaf, from which
\* select reads exactly these rows.
LEMMA TreeReads ==
  ASSUME NEW pg, NEW count, TreeOk(pg, count)
  PROVE  \E first \in PageLeaves(pg) :
           /\ \A n \in PageLeaves(pg) :
                (\A m \in PageLeaves(pg) : pg[m].next # n \/ n = 0) <=> n = first
           /\ RowsFrom(pg, first) \in Seq(Keys)
           /\ \A k \in Keys : Occ(RowsFrom(pg, first), k) = count[k]
  <1>0. PICK L \in Nat, N \in Nat : \E pos :
          /\ PagesOk(pg, L) /\ N \in 1..L
          /\ Chained(pg, PageLeaves(pg), pos, N)
          /\ Counted(pg, count)
    BY DEF TreeOk
  <1>1. PICK pos :
          /\ PagesOk(pg, L) /\ N \in 1..L
          /\ Chained(pg, PageLeaves(pg), pos, N)
          /\ Counted(pg, count)
    BY <1>0
  <1>2. PICK T : T = PageLeaves(pg)
    OBVIOUS
  <1>3. /\ pos \in [T -> 1..N]
        /\ \A m, n \in T : pos[m] = pos[n] => m = n
        /\ \A j \in 1..N : \E n \in T : pos[n] = j
    BY <1>1, <1>2 DEF Chained
  <1>4. \A n \in T : IF pos[n] = 1 THEN pg[n].next = 0
                     ELSE /\ pg[n].next \in T /\ pg[n].next # 0
                          /\ pos[pg[n].next] = pos[n] - 1
    BY <1>1, <1>2 DEF Chained
  <1>5. N \in 1..N
    BY <1>1
  <1>6. PICK first \in T : pos[first] = N
    BY <1>3, <1>5
  <1>7. ASSUME NEW n \in T
        PROVE  (\A m \in T : pg[m].next # n \/ n = 0) <=> n = first
    <2>1. CASE n = first
      <3> SUFFICES ASSUME NEW m \in T, pg[m].next = n, n # 0 PROVE FALSE
        BY <2>1
      <3>1. pos[m] # 1 /\ pos[n] = pos[m] - 1
        BY <1>4
      <3>2. pos[m] \in 1..N
        BY <1>3
      <3> QED
        BY <1>6, <2>1, <3>1, <3>2
    <2>2. CASE n # first
      <3>1. pos[n] \in 1..N /\ pos[n] # N
        BY <1>3, <1>6, <2>2
      <3>2. pos[n] + 1 \in 1..N
        BY <3>1
      <3>3. PICK m \in T : pos[m] = pos[n] + 1
        BY <1>3, <3>2
      <3>4. pg[m].next \in T /\ pg[m].next # 0 /\ pos[pg[m].next] = pos[n]
        <4>1. pos[m] # 1 /\ pos[m] - 1 = pos[n]
          BY <3>1, <3>3
        <4> QED
          BY <1>4, <4>1
      <3>5. pg[m].next = n /\ n # 0
        BY <1>3, <3>4
      <3> QED
        BY <2>2, <3>5
    <2> QED
      BY <2>1, <2>2
  <1>8. L \in Nat /\ Cardinality(DOMAIN pg) = L
    BY <1>1, LeavesAre
  <1>9. Points(pg)
    BY <1>2, <1>4 DEF Points
  <1> DEFINE F == CHOOSE W : IsFollow(pg, L, W)
  <1>10. IsFollow(pg, L, F)
    BY <1>8, <1>9, FollowExists
  <1>11. RowsFrom(pg, first) = F[<<first, L>>]
    BY <1>8 DEF RowsFrom, IsFollow, Follows
  <1>12. HoldsRows(pg, F[<<first, L>>], Lower(T, pos, N))
    <2> HIDE DEF F
    <2>1. L \in N..L
      BY <1>1
    <2>2. \A j \in 1..N : \A n \in T : \A g \in j..L :
            pos[n] = j => HoldsRows(pg, F[<<n, g>>], Lower(T, pos, j))
      BY <1>1, <1>2, <1>10, FollowHolds
    <2> QED
      BY <1>5, <1>6, <2>1, <2>2
  <1>13. Lower(T, pos, N) = T
    <2>1. \A n \in T : pos[n] <= N
      BY <1>3
    <2> QED
      BY <2>1 DEF Lower
  <1>14. RowsFrom(pg, first) \in Seq(Keys)
    BY <1>11, <1>12 DEF HoldsRows
  <1>15. ASSUME NEW k \in Keys PROVE Occ(RowsFrom(pg, first), k) = count[k]
    <2> HIDE DEF F
    <2> QED
      BY <1>1, <1>2, <1>11, <1>12, <1>13 DEF HoldsRows, Counted
  <1> HIDE DEF F
  <1> QED
    BY <1>2, <1>7, <1>14, <1>15

\* What FoldSet does with the leaves S, W being the fold.
Sums(pg, k, W, S) ==
    IF S = {} THEN 0
    ELSE LET n == CHOOSE n \in S : TRUE IN W[S \ {n}] + RowCount(pg[n].cells, k)

\* W is the fold over the leaves of the pages.
IsFold(pg, k, W) == W = [S \in SUBSET PageLeaves(pg) |-> Sums(pg, k, W, S)]

\* n is one of the leaves S.
SomeLeaf(pg, S, n) == S \subseteq PageLeaves(pg) /\ n \in S

\* The sum over the leaves S without the one that the fold takes first.
LEMMA SumOfChosen ==
  ASSUME NEW pg, NEW L, PagesOk(pg, L), NEW k, NEW S, NEW n, SomeLeaf(pg, S, n)
  PROVE  SumOver(RowCounts(pg, k), S)
           = SumOver(RowCounts(pg, k), S \ {n}) + RowCount(pg[n].cells, k)
  <1>0. S \subseteq PageLeaves(pg) /\ n \in S
    BY DEF SomeLeaf
  <1> DEFINE R == S \ {n}
             g == RowCounts(pg, k)
  <1>1. IsFiniteSet(PageLeaves(pg))
    BY LeavesAre
  <1>2. R \in SUBSET PageLeaves(pg)
    BY <1>0
  <1>3. IsFiniteSet(R)
    <2> HIDE DEF R
    <2> QED
      BY <1>1, <1>2, FS_Subset
  <1>4. g[n] = RowCount(pg[n].cells, k)
    BY <1>0 DEF RowCounts
  <1>5. RowCount(pg[n].cells, k) \in 0..LEAF_NODE_MAX_CELLS
    <2>1. n \in PageLeaves(pg)
      BY <1>0
    <2> QED
      BY <2>1, LeafIs
  <1>6. n \notin R /\ R \cup {n} = S
    BY <1>0
  <1>7. SumOver(g, R \cup {n}) = SumOver(g, R) + g[n]
    <2> HIDE DEF R, g
    <2> QED
      BY <1>3, <1>4, <1>5, <1>6, SumAdd
  <1> QED
    BY <1>4, <1>6, <1>7

\* The fold is defined.
LEMMA FoldExists ==
  ASSUME NEW pg, NEW L, PagesOk(pg, L), NEW k
  PROVE  \E W : IsFold(pg, k, W)
  <1> DEFINE W == [S \in SUBSET PageLeaves(pg) |-> SumOver(RowCounts(pg, k), S)]
  <1>1. ASSUME NEW S \in SUBSET PageLeaves(pg)
        PROVE  W[S] = Sums(pg, k, W, S)
    <2>1. W[S] = SumOver(RowCounts(pg, k), S)
      OBVIOUS
    <2>2. CASE S = {}
      BY <2>1, <2>2, SumEmpty DEF Sums
    <2>3. CASE S # {}
      <3>1. PICK n \in S : n = CHOOSE m \in S : TRUE
        BY <2>3
      <3>2. S \ {n} \in SUBSET PageLeaves(pg)
        OBVIOUS
      <3>3. W[S \ {n}] = SumOver(RowCounts(pg, k), S \ {n})
        BY <3>2
      <3>4. SumOver(RowCounts(pg, k), S)
              = SumOver(RowCounts(pg, k), S \ {n}) + RowCount(pg[n].cells, k)
        <4>1. SomeLeaf(pg, S, n)
          BY DEF SomeLeaf
        <4>2. PagesOk(pg, L)
          OBVIOUS
        <4> QED
          BY ONLY <4>1, <4>2, SumOfChosen
      <3> HIDE DEF W
      <3>5. Sums(pg, k, W, S) = W[S \ {n}] + RowCount(pg[n].cells, k)
        BY <2>3, <3>1 DEF Sums
      <3> QED
        BY ONLY <2>1, <3>3, <3>4, <3>5
    <2> QED
      BY <2>2, <2>3
  <1>2. W = [S \in SUBSET PageLeaves(pg) |-> W[S]]
    OBVIOUS
  <1> HIDE DEF W
  <1>3. IsFold(pg, k, W)
    <2> DEFINE G == [S \in SUBSET PageLeaves(pg) |-> Sums(pg, k, W, S)]
    <2>1. [S \in SUBSET PageLeaves(pg) |-> W[S]] = G
      BY <1>1
    <2> QED
      BY <1>2, <2>1 DEF IsFold
  <1> QED
    BY <1>3

\* The fold over any leaves is their sum.
LEMMA FoldIsSum ==
  ASSUME NEW pg, NEW L, PagesOk(pg, L), NEW k, NEW F, IsFold(pg, k, F)
  PROVE  F[PageLeaves(pg)] = SumOver(RowCounts(pg, k), PageLeaves(pg))
  <1> DEFINE T == PageLeaves(pg)
             Good(c) == \A S \in SUBSET T :
                          Cardinality(S) = c => F[S] = SumOver(RowCounts(pg, k), S)
             Bad == {c \in Nat : ~Good(c)}
  <1>1. IsFiniteSet(T)
    BY LeavesAre
  <1>2. \A S \in SUBSET T : IsFiniteSet(S) /\ Cardinality(S) \in Nat
    <2> HIDE DEF T
    <2> QED
      BY <1>1, FS_Subset, FS_CardinalityType
  <1>3. \A S \in SUBSET T : F[S] = Sums(pg, k, F, S)
    <2> DEFINE G == [S \in SUBSET T |-> Sums(pg, k, F, S)]
    <2>1. \A S \in SUBSET T : G[S] = Sums(pg, k, F, S)
      OBVIOUS
    <2>2. F = G
      BY DEF IsFold
    <2> HIDE DEF G
    <2> QED
      BY <2>1, <2>2
  <1>4. ASSUME Bad # {} PROVE FALSE
    <2>1. PICK c \in Bad : \A e \in Bad : c <= e
      <3>1. Bad \subseteq Nat
        OBVIOUS
      <3> HIDE DEF Bad
      <3> QED
        BY <1>4, <3>1, LeastNat
    <2>2. c \in Nat /\ ~Good(c)
      OBVIOUS
    <2>3. PICK S \in SUBSET T : Cardinality(S) = c /\ F[S] # SumOver(RowCounts(pg, k), S)
      BY <2>2
    <2>4. F[S] = Sums(pg, k, F, S)
      BY <1>3
    <2>5. CASE S = {}
      BY <2>3, <2>4, <2>5, SumEmpty DEF Sums
    <2>6. CASE S # {}
      <3>1. PICK n \in S : n = CHOOSE m \in S : TRUE
        BY <2>6
      <3>2. F[S] = F[S \ {n}] + RowCount(pg[n].cells, k)
        BY <2>4, <2>6, <3>1 DEF Sums
      <3>3. PICK R \in SUBSET T : R = S \ {n}
        OBVIOUS
      <3>4. Cardinality(R) = c - 1
        BY <1>2, <2>3, <3>3, FS_RemoveElement
      <3>5. c - 1 \in Nat
        BY <1>2, <3>4
      <3>6. Good(c - 1)
        <4>1. ~(c <= c - 1)
          BY <2>2
        <4> HIDE DEF Good
        <4> QED
          BY <2>1, <3>5, <4>1
      <3>7. F[R] = SumOver(RowCounts(pg, k), R)
        BY <3>4, <3>6
      <3>8. SumOver(RowCounts(pg, k), S)
              = SumOver(RowCounts(pg, k), S \ {n}) + RowCount(pg[n].cells, k)
        <4>1. SomeLeaf(pg, S, n)
          BY DEF SomeLeaf
        <4>2. PagesOk(pg, L)
          OBVIOUS
        <4> QED
          BY ONLY <4>1, <4>2, SumOfChosen
      <3> QED
        BY ONLY <2>3, <3>2, <3>3, <3>7, <3>8
    <2> QED
      BY <2>5, <2>6
  <1>5. Good(Cardinality(T))
    <2>1. Cardinality(T) \in Nat
      BY <1>2
    <2> HIDE DEF Good
    <2> QED
      BY <1>4, <2>1
  <1> QED
    BY <1>5

\* Folding the leaves of the pages counts the cells that hold the row of k.
LEMMA FoldCounts ==
  ASSUME NEW pg, NEW L, PagesOk(pg, L), NEW k
  PROVE  FoldSet(LAMBDA n, sum : sum + Cardinality({i \in DOMAIN pg[n].cells :
                                                      pg[n].cells[i].row = k}),
                 0, PageLeaves(pg)) = SumOver(RowCounts(pg, k), PageLeaves(pg))
  <1> DEFINE F == CHOOSE W : IsFold(pg, k, W)
  <1>1. IsFold(pg, k, F)
    BY FoldExists
  <1>2. FoldSet(LAMBDA n, sum : sum + Cardinality({i \in DOMAIN pg[n].cells :
                                                      pg[n].cells[i].row = k}),
                0, PageLeaves(pg)) = F[PageLeaves(pg)]
    BY DEF FoldSet, MapThenFoldSet, IsFold, Sums, RowCount
  <1>3. F[PageLeaves(pg)] = SumOver(RowCounts(pg, k), PageLeaves(pg))
    <2> HIDE DEF F
    <2> QED
      BY <1>1, FoldIsSum
  <1> QED
    BY <1>2, <1>3

-----------------------------------------------------------------------------
(* The inductive invariant.                                                *)

\* The file holds no page, or a table whose rows are those of count.
FileOk(f, count) == (f = NoPages /\ count = NoIds) \/ TreeOk(f, count)

\* db_close has written the pages below m; what else the file holds are
\* pages that db_close is about to write over.
Written(pg, f, m) ==
    /\ m \in DOMAIN pg /\ DOMAIN f \subseteq DOMAIN pg
    /\ \A n \in 0..m - 1 : n \in DOMAIN f /\ f[n] = pg[n]

\* The pages and the file are tables with the rows of the histories, and
\* the file never has a page more than the cache.
DbInv ==
    /\ pad \in Pads
    /\ accepted \in [Keys -> Nat] /\ savedIds \in [Keys -> Nat]
    /\ status \in {"up", "closing"} => TreeOk(pages, accepted)
    /\ status \in {"down", "up"} => flushed = 0 /\ FileOk(file, savedIds)
    /\ status = "up" => DOMAIN file \subseteq DOMAIN pages
    /\ status = "closing" =>
         /\ Written(pages, file, flushed)
         /\ flushed = 0 => FileOk(file, savedIds)

\* The pages of a table are numbered from 0.
LEMMA TreeDomain ==
  ASSUME NEW pg, NEW count, TreeOk(pg, count)
  PROVE  \E L \in Nat : /\ PagesOk(pg, L) /\ L >= 1 /\ DOMAIN pg = 0..L - 1
                        /\ Cardinality(DOMAIN pg) = L /\ 0 \in DOMAIN pg
  <1>1. PICK L \in Nat : PagesOk(pg, L)
    BY DEF TreeOk
  <1>2. L >= 1 /\ DOMAIN pg = 0..L - 1 /\ Cardinality(0..L - 1) = L
    BY <1>1, LeavesAre
  <1>3. 0 \in 0..L - 1
    BY <1>2
  <1> QED
    BY <1>1, <1>2, <1>3

\* A statement that finds a leaf finds a place in it.
LEMMA Cursor ==
  ASSUME TreeOk(pages, accepted), NEW k, InTree(k)
  PROVE  /\ CursorPage(k) \in PageLeaves(pages)
         /\ CursorCell(k) \in 0..Len(pages[CursorPage(k)].cells)
         /\ Full(k) <=> ~(Len(pages[CursorPage(k)].cells) < LEAF_NODE_MAX_CELLS)
         /\ pages[CursorPage(k)].root <=> CursorPage(k) = 0
  <1>1. PICK p : p = CursorPage(k)
    OBVIOUS
  <1>2. p \in PageLeaves(pages)
    BY <1>1 DEF InTree, PageLeaves
  <1>3. PICK L : PagesOk(pages, L)
    BY DEF TreeOk
  <1>4. PICK c \in Seq(Cell) : c = pages[p].cells
    BY <1>2, <1>3, LeafIs
  <1>5. PICK n \in Nat : n = Len(c)
    OBVIOUS
  <1>6. LeafFind(pages[p], k) \in 0..n
    BY <1>4, <1>5, FindRange
  <1>7. CursorCell(k) = LeafFind(pages[p], k)
    BY <1>1 DEF CursorCell
  <1>8. CursorCell(k) \in 0..Len(pages[p].cells)
    BY <1>4, <1>5, <1>6, <1>7
  <1>9. LEAF_NODE_MAX_CELLS \in Nat
    BY DbAssumption DEF DbAssumption
  <1>10. Full(k) <=> ~(Len(pages[p].cells) < LEAF_NODE_MAX_CELLS)
    <2>1. Full(k) <=> n >= LEAF_NODE_MAX_CELLS
      BY <1>1, <1>4, <1>5 DEF Full
    <2> QED
      BY ONLY <2>1, <1>4, <1>5, <1>9
  <1>11. pages[p].root <=> p = 0
    BY <1>2, <1>3, LeafIs
  <1> QED
    BY <1>1, <1>2, <1>8, <1>10, <1>11

\* An insert that keeps the table and drops no page keeps the invariant.
LEMMA InsertKeepsInv ==
  ASSUME DbInv, status = "up", NEW k \in Keys,
         TreeOk(pages', OneMore(accepted, k)), DOMAIN pages \subseteq DOMAIN pages',
         accepted' = [accepted EXCEPT ![k] = @ + 1],
         UNCHANGED <<status, flushed, file, pad, savedIds>>
  PROVE  DbInv'
  <1>1. accepted' = OneMore(accepted, k) /\ accepted' \in [Keys -> Nat]
    BY DEF DbInv, OneMore
  <1>2. TreeOk(pages', accepted')
    BY <1>1
  <1>3. flushed' = 0 /\ FileOk(file', savedIds')
    BY DEF DbInv
  <1>4. DOMAIN file' \subseteq DOMAIN pages'
    BY DEF DbInv
  <1>5. status' = "up" /\ pad' \in Pads /\ savedIds' \in [Keys -> Nat]
    BY DEF DbInv
  <1> QED
    BY <1>1, <1>2, <1>3, <1>4, <1>5 DEF DbInv

\* The inserts keep the invariant.
LEMMA Inserting ==
  ASSUME DbInv, NEW k \in Keys,
         InsertFits(k) \/ InsertSplitsRoot(k) \/ InsertSplitsLeaf(k)
  PROVE  DbInv'
  <1>1. status = "up" /\ InTree(k) /\ TreeOk(pages, accepted) /\ accepted \in [Keys -> Nat]
    BY DEF InsertFits, InsertSplitsRoot, InsertSplitsLeaf, Wanted, DbInv
  <1>2. PICK p : p = CursorPage(k)
    OBVIOUS
  <1>3. PICK i : i = CursorCell(k)
    OBVIOUS
  <1>4. /\ p \in PageLeaves(pages) /\ i \in 0..Len(pages[p].cells)
        /\ Full(k) <=> ~(Len(pages[p].cells) < LEAF_NODE_MAX_CELLS)
        /\ pages[p].root <=> p = 0
    BY <1>1, <1>2, <1>3, Cursor
  <1>5. pad \in 0..255
    BY DbAssumption DEF DbAssumption, DbInv
  <1>6. /\ accepted' = [accepted EXCEPT ![k] = @ + 1]
        /\ UNCHANGED <<status, flushed, file, pad, savedIds>>
    BY DEF InsertFits, InsertSplitsRoot, InsertSplitsLeaf
  <1>7. TreeOk(pages', OneMore(accepted, k)) /\ DOMAIN pages \subseteq DOMAIN pages'
    <2>1. CASE InsertFits(k)
      <3>1. ~Full(k) /\ pages' = InsertIntoLeaf(pages, p, i, k, pad)
        BY <2>1, <1>2, <1>3 DEF InsertFits
      <3>2. Len(pages[p].cells) < LEAF_NODE_MAX_CELLS
        BY <1>4, <3>1
      <3>3. IsInsert(pages, pages', accepted, p, i, k, pad)
        BY <1>1, <1>4, <1>5, <3>1, <3>2 DEF IsInsert
      <3>4. TreeOk(pages', OneMore(accepted, k)) /\ DOMAIN pages' = DOMAIN pages
        BY <3>3, InsertKeeps
      <3> QED
        BY <3>4
    <2>2. CASE InsertSplitsRoot(k)
      <3>1. PICK junk \in Junk : /\ Full(k) /\ pages[p].root
                                 /\ pages' = NewRoot(SplitLeaf(pages, p, i, k, pad),
                                                     Cardinality(DOMAIN pages), junk)
        BY <2>2, <1>2, <1>3 DEF InsertSplitsRoot
      <3>2. p = 0
        BY <1>4, <3>1
      <3>3. IsRootSplit(pages, pages', accepted, i, k, pad, junk)
        BY <1>1, <1>4, <1>5, <3>1, <3>2 DEF IsRootSplit, IsFullLeaf
      <3> QED
        BY <3>3, SplitOfRoot
    <2>3. CASE InsertSplitsLeaf(k)
      <3> DEFINE split == SplitLeaf(pages, p, i, k, pad)
                 node  == UpdateKey(pages[0], MaxKey(pages[p]), MaxKey(split[p]))
                 r     == InternalInsert(split, node, Cardinality(DOMAIN pages))
      <3>1. Full(k) /\ ~pages[p].root /\ pages' = [split EXCEPT ![0] = r]
        BY <2>3, <1>2, <1>3 DEF InsertSplitsLeaf
      <3>2. p # 0
        BY <1>4, <3>1
      <3>3. ASSUME IsRootNode(pages[0]) PROVE IsRootNode(r)
        <4>1. IsRootNode(node)
          BY <3>3, NodeStays
        <4> HIDE DEF node
        <4> QED
          BY <4>1, NodeStays
      <3> HIDE DEF r
      <3>4. IsLeafSplit(pages, pages', accepted, p, i, k, pad, r)
        BY <1>1, <1>4, <1>5, <3>1, <3>2, <3>3 DEF IsLeafSplit, IsFullLeaf
      <3> QED
        BY <3>4, SplitBelowRoot
    <2> QED
      BY <2>1, <2>2, <2>3
  <1> QED
    BY <1>1, <1>6, <1>7, InsertKeepsInv

\* A table is not the file before the first .exit.
LEMMA Opening ==
  ASSUME DbInv, Open
  PROVE  DbInv'
  <1>1. /\ status = "down" /\ flushed = 0 /\ FileOk(file, savedIds)
        /\ savedIds \in [Keys -> Nat]
    BY DEF Open, DbInv
  <1>2. /\ status' = "up" /\ accepted' = savedIds /\ pad' \in Pads
        /\ UNCHANGED <<flushed, file, savedIds>>
    BY DEF Open
  <1>3. TreeOk(pages', savedIds) /\ DOMAIN file \subseteq DOMAIN pages'
    <2>1. CASE file = NoPages
      <3>1. pages' = [n \in {0} |-> Leaf(TRUE, <<>>, 0)]
        BY <2>1 DEF Open
      <3>2. DOMAIN file = {}
        BY <2>1 DEF NoPages
      <3>3. ~TreeOk(file, savedIds)
        BY <3>2, TreeDomain
      <3>4. savedIds = NoIds
        BY <1>1, <3>3 DEF FileOk
      <3> QED
        BY <3>1, <3>2, <3>4, EmptyTree
    <2>2. CASE file # NoPages
      BY <1>1, <2>2 DEF Open, FileOk
    <2> QED
      BY <2>1, <2>2
  <1>4. TreeOk(pages', accepted')
    BY <1>2, <1>3
  <1>5. FileOk(file', savedIds')
    BY <1>1, <1>2
  <1> QED
    BY <1>1, <1>2, <1>3, <1>4, <1>5 DEF DbInv

\* The process ends and leaves the file of the last complete .exit.
LEMMA Leaving ==
  ASSUME DbInv, Gone, UNCHANGED <<file, pad, savedIds>>,
         FileOk(file, savedIds) \/ status' \in {"torn", "undefined"},
         status' \in {"down", "torn", "undefined"}
  PROVE  DbInv'
  <1>1. accepted' \in [Keys -> Nat] /\ flushed' = 0
    BY DEF Gone, NoIds
  <1>2. pad' \in Pads /\ savedIds' \in [Keys -> Nat]
    BY DEF DbInv
  <1>3. status' = "down" => FileOk(file', savedIds')
    OBVIOUS
  <1> QED
    BY <1>1, <1>2, <1>3 DEF DbInv

\* A page more that db_close writes.
LEMMA Flushing ==
  ASSUME DbInv, Flush
  PROVE  DbInv'
  <1>1. /\ status = "closing" /\ TreeOk(pages, accepted) /\ Written(pages, file, flushed)
        /\ accepted \in [Keys -> Nat] /\ savedIds \in [Keys -> Nat]
    BY DEF Flush, DbInv
  <1>2. PICK L \in Nat : /\ PagesOk(pages, L) /\ L >= 1 /\ DOMAIN pages = 0..L - 1
                         /\ Cardinality(DOMAIN pages) = L
    BY <1>1, TreeDomain
  <1>3. PICK m \in 0..L - 1 : m = flushed
    BY <1>1, <1>2 DEF Written
  <1>4. /\ DOMAIN file \subseteq 0..L - 1
        /\ \A n \in 0..m - 1 : n \in DOMAIN file /\ file[n] = pages[n]
    BY <1>1, <1>2, <1>3 DEF Written
  <1>5. file' = [n \in DOMAIN file \cup {m} |-> IF n = m THEN pages[n] ELSE file[n]]
    BY <1>3 DEF Flush
  <1>6. DOMAIN file' = DOMAIN file \cup {m} /\ pad' = pad
    BY <1>5 DEF Flush
  <1>7. \A n \in 0..m : n \in DOMAIN file' /\ file'[n] = pages[n]
    <2> SUFFICES ASSUME NEW n \in 0..m PROVE n \in DOMAIN file' /\ file'[n] = pages[n]
      OBVIOUS
    <2>1. CASE n = m
      BY <1>5, <1>6, <2>1
    <2>2. CASE n # m
      <3>1. n \in 0..m - 1
        BY <2>2
      <3> QED
        BY <1>4, <1>5, <1>6, <2>2, <3>1
    <2> QED
      BY <2>1, <2>2
  <1>8. CASE m + 1 < L
    <2>1. /\ flushed' = m + 1
          /\ UNCHANGED <<status, pages, accepted, savedIds>>
      BY <1>2, <1>3, <1>8 DEF Flush
    <2>2. m + 1 \in 0..L - 1 /\ (m + 1) - 1 = m /\ m + 1 # 0
      BY <1>8
    <2>3. DOMAIN file' \subseteq 0..L - 1
      BY <1>4, <1>6
    <2>4. Written(pages, file', m + 1)
      BY <1>2, <1>7, <2>2, <2>3 DEF Written
    <2>5. Written(pages', file', flushed') /\ TreeOk(pages', accepted') /\ flushed' # 0
      BY <1>1, <2>1, <2>2, <2>4
    <2>6. status' = "closing" /\ accepted' \in [Keys -> Nat] /\ savedIds' \in [Keys -> Nat]
      BY <1>1, <2>1
    <2> QED
      BY <1>6, <2>5, <2>6 DEF DbInv
  <1>9. CASE ~(m + 1 < L)
    <2>1. status' = "down" /\ savedIds' = accepted /\ Gone
      BY <1>2, <1>3, <1>9 DEF Flush
    <2>2. m = L - 1
      BY <1>9
    <2>3. DOMAIN file' = 0..L - 1
      BY <1>4, <1>6, <1>7, <2>2
    <2>4. file' = pages
      <3>1. pages = [n \in 0..L - 1 |-> pages[n]]
        BY <1>2 DEF PagesOk, Numbered
      <3>2. file' = [n \in 0..L - 1 |-> IF n = m THEN pages[n] ELSE file[n]]
        BY <1>5, <1>6, <2>3
      <3>3. \A n \in 0..L - 1 : (IF n = m THEN pages[n] ELSE file[n]) = pages[n]
        BY <1>4, <2>2
      <3>4. file' = [n \in 0..L - 1 |-> pages[n]]
        BY <3>2, <3>3
      <3> QED
        BY <3>1, <3>4
    <2>5. FileOk(file', savedIds')
      BY <1>1, <2>1, <2>4 DEF FileOk
    <2>6. flushed' = 0 /\ accepted' \in [Keys -> Nat] /\ savedIds' \in [Keys -> Nat]
      BY <1>1, <2>1 DEF Gone, NoIds
    <2> QED
      BY <1>6, <2>1, <2>5, <2>6 DEF DbInv
  <1> QED
    BY <1>8, <1>9

\* The invariant holds at first.
LEMMA DbStart == ASSUME Init PROVE DbInv
  <1>1. NoIds \in [Keys -> Nat]
    BY DEF NoIds
  <1>2. FileOk(NoPages, NoIds)
    BY DEF FileOk
  <1> QED
    BY <1>1, <1>2 DEF Init, DbInv

\* Every step keeps the invariant.
LEMMA DbStep == ASSUME DbInv, [Next]_vars PROVE DbInv'
  <1>1. CASE Open
    BY <1>1, Opening
  <1>2. CASE Select
    <2>1. UNCHANGED <<status, pages, flushed, file, pad, accepted, savedIds>>
      BY <1>2 DEF Select
    <2> QED
      BY <2>1 DEF DbInv
  <1>3. CASE Exit
    <2>1. /\ status = "up" /\ status' = "closing"
          /\ UNCHANGED <<pages, flushed, file, pad, accepted, savedIds>>
      BY <1>3 DEF Exit
    <2>2. /\ TreeOk(pages, accepted) /\ flushed = 0 /\ DOMAIN file \subseteq DOMAIN pages
          /\ FileOk(file, savedIds)
      BY <2>1 DEF DbInv
    <2>3. 0 \in DOMAIN pages /\ 0..0 - 1 = {}
      BY <2>2, TreeDomain
    <2>4. Written(pages, file, flushed)
      BY <2>2, <2>3 DEF Written
    <2>5. TreeOk(pages', accepted') /\ Written(pages', file', flushed') /\ FileOk(file', savedIds')
      BY <2>1, <2>2, <2>4
    <2> QED
      BY <2>1, <2>5 DEF DbInv
  <1>4. CASE Flush
    BY <1>4, Flushing
  <1>5. CASE Eof
    BY <1>5, Leaving DEF Eof, DbInv
  <1>6. CASE KillClosing
    BY <1>6, Leaving DEF KillClosing, DbInv
  <1>7. ASSUME NEW k \in Keys, InsertDuplicate(k) PROVE DbInv'
    <2>1. UNCHANGED <<status, pages, flushed, file, pad, accepted, savedIds>>
      BY <1>7 DEF InsertDuplicate
    <2> QED
      BY <2>1 DEF DbInv
  <1>8. ASSUME NEW k \in Keys,
               InsertFits(k) \/ InsertSplitsRoot(k) \/ InsertSplitsLeaf(k)
        PROVE  DbInv'
    BY <1>8, Inserting
  <1>9. ASSUME NEW k \in Keys, InsertExits(k) PROVE DbInv'
    BY <1>9, Leaving DEF InsertExits, Wanted, DbInv
  <1>10. ASSUME NEW k \in Keys, InsertAstray(k) PROVE DbInv'
    BY <1>10, Leaving DEF InsertAstray
  <1>11. CASE UNCHANGED vars
    <2>1. UNCHANGED <<status, pages, flushed, file, pad, accepted, savedIds>>
      BY <1>11 DEF vars
    <2> QED
      BY <2>1 DEF DbInv
  <1> QED
    BY <1>1, <1>2, <1>3, <1>4, <1>5, <1>6, <1>7, <1>8, <1>9, <1>10, <1>11 DEF Next

-----------------------------------------------------------------------------
(* What the invariant says of the table and of the file.                   *)

\* A table loses, doubles and strands no row.
LEMMA TableKept == ASSUME DbInv PROVE RowsKept
  <1> SUFFICES ASSUME status \in {"up", "closing"} PROVE RowsKept
    BY DEF RowsKept, WellFormed, RowsConserved
  <1>1. TreeOk(pages, accepted)
    BY DEF DbInv
  <1>0. PICK L \in Nat, N \in Nat : \E pos :
          PagesOk(pages, L) /\ Chained(pages, PageLeaves(pages), pos, N)
    BY <1>1 DEF TreeOk
  <1>2. PICK pos : PagesOk(pages, L) /\ Chained(pages, PageLeaves(pages), pos, N)
    BY <1>0
  <1>3. L >= 1 /\ DOMAIN pages = 0..L - 1 /\ Cardinality(0..L - 1) = L
    BY <1>2, LeavesAre
  <1>4. pages[0].root
    <2>1. CASE IsRootNode(pages[0])
      BY <2>1 DEF IsRootNode
    <2>2. CASE IsOnlyLeaf(pages[0])
      BY <2>2 DEF IsOnlyLeaf
    <2> QED
      BY <1>2, <2>1, <2>2 DEF PagesOk
  <1>5. ASSUME NEW n \in DOMAIN pages \ {0} PROVE ~pages[n].root
    <2>1. n \in 1..L - 1
      BY <1>3
    <2>2. IsChild(pages[n])
      BY <1>2, <2>1 DEF PagesOk
    <2> QED
      BY <2>2 DEF IsChild
  <1>6. ASSUME NEW n \in Leaves
        PROVE  /\ Len(pages[n].cells) <= LEAF_NODE_MAX_CELLS
               /\ pages[n].next \in Leaves \cup {0}
    <2>1. n \in PageLeaves(pages)
      BY DEF Leaves
    <2>2. Len(pages[n].cells) <= LEAF_NODE_MAX_CELLS
      BY <1>2, <2>1, LeafIs
    <2>3. pages[n].next = 0 \/ pages[n].next \in PageLeaves(pages)
      BY <1>2, <2>1 DEF Chained
    <2> QED
      BY <2>2, <2>3 DEF Leaves
  <1>7. WellFormed
    BY <1>3, <1>4, <1>5, <1>6 DEF WellFormed
  <1>8. PICK first \in PageLeaves(pages) :
          /\ \A n \in PageLeaves(pages) :
               (\A m \in PageLeaves(pages) : pages[m].next # n \/ n = 0) <=> n = first
          /\ \A k \in Keys : Occ(RowsFrom(pages, first), k) = accepted[k]
    BY <1>1, TreeReads
  <1>9. FirstLeaves = {first}
    BY <1>8 DEF FirstLeaves, Leaves
  <1>10. \A k \in Keys :
           Cardinality({i \in DOMAIN RowsFrom(pages, first) : RowsFrom(pages, first)[i] = k})
             = accepted[k]
    BY <1>8 DEF Occ
  <1>11. RowsConserved
    BY <1>9, <1>10 DEF RowsConserved
  <1> QED
    BY <1>7, <1>11 DEF RowsKept

\* The pages hold no leaf.
NoLeaves(pg) == PageLeaves(pg) = {}

\* Folding no leaf counts nothing.
LEMMA FoldOfNone ==
  ASSUME NEW pg, NoLeaves(pg), NEW k
  PROVE  FoldSet(LAMBDA n, sum : sum + Cardinality({i \in DOMAIN pg[n].cells :
                                                      pg[n].cells[i].row = k}),
                 0, PageLeaves(pg)) = SumOver(RowCounts(pg, k), PageLeaves(pg))
  <1> DEFINE F == CHOOSE W : IsFold(pg, k, W)
             Z == [S \in SUBSET PageLeaves(pg) |-> 0]
  <1>1. IsFold(pg, k, Z)
    <2>1. \A S \in SUBSET PageLeaves(pg) : S = {} /\ Sums(pg, k, Z, S) = 0
      BY DEF Sums, NoLeaves
    <2> QED
      BY <2>1 DEF IsFold
  <1>2. IsFold(pg, k, F)
    <2> HIDE DEF Z
    <2> QED
      BY <1>1
  <1>3. FoldSet(LAMBDA n, sum : sum + Cardinality({i \in DOMAIN pg[n].cells :
                                                      pg[n].cells[i].row = k}),
                0, PageLeaves(pg)) = F[PageLeaves(pg)]
    BY DEF FoldSet, MapThenFoldSet, IsFold, Sums, RowCount
  <1>4. F[{}] = 0
    <2> HIDE DEF F
    <2>1. F[{}] = Sums(pg, k, F, {})
      BY <1>2 DEF IsFold
    <2> QED
      BY <2>1 DEF Sums
  <1>5. F[PageLeaves(pg)] = 0
    BY <1>4 DEF NoLeaves
  <1>6. SumOver(RowCounts(pg, k), PageLeaves(pg)) = 0
    BY SumEmpty DEF NoLeaves
  <1> HIDE DEF F
  <1> QED
    BY <1>3, <1>5, <1>6

\* The file holds the rows of the last complete .exit.
LEMMA FileKept == ASSUME DbInv PROVE FileMatchesSaved
  <1> DEFINE Fold(k) == FoldSet(LAMBDA n, sum : sum +
                            Cardinality({i \in DOMAIN file[n].cells :
                                           file[n].cells[i].row = k}),
                          0, PageLeaves(file))
  <1> SUFFICES ASSUME status \in {"down", "up"}, NEW k \in Keys
               PROVE  Fold(k) = savedIds[k]
    BY DEF FileMatchesSaved
  <1>1. FileOk(file, savedIds)
    BY DEF DbInv
  <1>2. CASE TreeOk(file, savedIds)
    <2>1. PICK L : PagesOk(file, L) /\ Counted(file, savedIds)
      BY <1>2 DEF TreeOk
    <2>2. Fold(k) = SumOver(RowCounts(file, k), PageLeaves(file))
      BY <2>1, FoldCounts
    <2>3. SumOver(RowCounts(file, k), PageLeaves(file)) = savedIds[k]
      BY <2>1 DEF Counted
    <2> HIDE DEF Fold
    <2> QED
      BY <2>2, <2>3
  <1>3. CASE file = NoPages /\ savedIds = NoIds
    <2>1. NoLeaves(file)
      BY <1>3 DEF NoPages, NoLeaves, PageLeaves
    <2>2. savedIds[k] = 0
      BY <1>3 DEF NoIds
    <2>3. Fold(k) = SumOver(RowCounts(file, k), PageLeaves(file))
      BY <2>1, FoldOfNone
    <2>4. SumOver(RowCounts(file, k), PageLeaves(file)) = 0
      BY <2>1, SumEmpty DEF NoLeaves
    <2> HIDE DEF Fold
    <2> QED
      BY <2>2, <2>3, <2>4
  <1> QED
    BY <1>1, <1>2, <1>3 DEF FileOk

\* The invariant holds always.
LEMMA DbAlways == Spec => []DbInv
  <1>1. Init => DbInv
    BY DbStart
  <1>2. DbInv /\ [Next]_vars => DbInv'
    BY DbStep
  <1> QED
    BY <1>1, <1>2, PTL DEF Spec

\* Whatever ids come in whatever order, with any number of cells in a page,
\* no insert and no split of leaf_node_split_and_insert breaks the pages or
\* loses, doubles or strands a row (node_btree.c:39-89).
THEOREM RowsKeptCorrect == Spec => []RowsKept
  <1>1. DbInv => RowsKept
    BY TableKept
  <1> QED
    BY <1>1, DbAlways, PTL

\* Outside db_close the file holds exactly the rows of the last complete
\* .exit, however the process ends (table.c:74-81, inputs.c:17).
THEOREM FileCorrect == Spec => []FileMatchesSaved
  <1>1. DbInv => FileMatchesSaved
    BY FileKept
  <1> QED
    BY <1>1, DbAlways, PTL
=============================================================================
