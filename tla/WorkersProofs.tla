--------------------------- MODULE WorkersProofs ----------------------------
(***************************************************************************)
(* Proofs about the worker threads.  ListOps: what the operations of       *)
(* workthread/list.h do to a list of any length.  WorkThread: the types,   *)
(* and the links of gManager's unlocked list.  WorkerControl: the types,   *)
(* and NoCreditLeft for a patient controller, for any number of commands.  *)
(* WorkerDemo, workthread/main.c: LinksSound for its two workers.          *)
(***************************************************************************)
EXTENDS WorkerControl, WorkerDemo, SequenceTheorems, TLAPS

-----------------------------------------------------------------------------
(* The operations of list.h.                                               *)

\* Memory over the nodes N whose fields have values in V: nodes, or what a
\* node that is in no list has there.
Memory(N, V) == [next : [N -> V], prev : [N -> V]]

\* The nodes of a ring are all different.
Distinct(r) == \A i, j \in 1 .. Len(r) : r[i] = r[j] => i = j

\* The head is the first node of the ring, the items follow in order.
LEMMA RingFacts ==
    ASSUME NEW N, NEW h \in N, NEW s \in Seq(N)
    PROVE  /\ Ring(h, s) \in Seq(N) /\ Len(Ring(h, s)) = Len(s) + 1
           /\ Len(s) \in Nat
           /\ Ring(h, s)[1] = h
           /\ \A k \in 2 .. Len(s) + 1 : Ring(h, s)[k] = s[k - 1]
PROOF
<1>1. <<h>> \in Seq(N) /\ Len(<<h>>) = 1 /\ <<h>>[1] = h
    OBVIOUS
<1>2. QED BY <1>1, SMT DEF Ring

\* What a ring of h and the items s looks like.
IsRing(r, h, s) ==
    /\ Len(r) = Len(s) + 1 /\ r[1] = h
    /\ \A k \in 2 .. Len(s) + 1 : r[k] = s[k - 1]

\* RingFacts in one word.
LEMMA RingIs ==
    ASSUME NEW N, NEW h \in N, NEW s \in Seq(N)
    PROVE  IsRing(Ring(h, s), h, s)
BY RingFacts DEF IsRing

\* The ring after an item was appended.
LEMMA RingAppend ==
    ASSUME NEW N, NEW h \in N, NEW s \in Seq(N), NEW item \in N
    PROVE  /\ Append(s, item) \in Seq(N)
           /\ Len(Ring(h, Append(s, item))) = Len(Ring(h, s)) + 1
           /\ \A k \in 1 .. Len(Ring(h, s)) :
                  Ring(h, Append(s, item))[k] = Ring(h, s)[k]
           /\ Ring(h, Append(s, item))[Len(Ring(h, s)) + 1] = item
PROOF
<1>1. Append(s, item) \in Seq(N) /\ Len(Append(s, item)) = Len(s) + 1
    OBVIOUS
<1>2. \A k \in 1 .. Len(s) : Append(s, item)[k] = s[k]
    OBVIOUS
<1>3. Append(s, item)[Len(s) + 1] = item
    OBVIOUS
<1> DEFINE r == Ring(h, s)
           q == Ring(h, Append(s, item))
<1>4. /\ Len(r) = Len(s) + 1 /\ Len(s) \in Nat /\ r[1] = h
      /\ \A k \in 2 .. Len(s) + 1 : r[k] = s[k - 1]
    BY RingFacts
<1>5. /\ Len(q) = Len(s) + 2 /\ q[1] = h
      /\ \A k \in 2 .. Len(s) + 2 : q[k] = Append(s, item)[k - 1]
  <2> DEFINE a == Append(s, item)
  <2>1. a \in Seq(N) /\ Len(a) = Len(s) + 1
      BY <1>1
  <2> HIDE DEF a
  <2>2. /\ Len(Ring(h, a)) = Len(a) + 1 /\ Ring(h, a)[1] = h
        /\ \A k \in 2 .. Len(a) + 1 : Ring(h, a)[k] = a[k - 1]
    <3>1. ASSUME NEW u \in Seq(N)
          PROVE  /\ Len(Ring(h, u)) = Len(u) + 1 /\ Ring(h, u)[1] = h
                 /\ \A k \in 2 .. Len(u) + 1 : Ring(h, u)[k] = u[k - 1]
        BY RingFacts
    <3>2. QED BY <3>1, <2>1, Zenon
  <2>3. Len(a) + 1 = Len(s) + 2
      BY <2>1, <1>4
  <2>4. QED BY <2>2, <2>3 DEF a
<1> HIDE DEF r, q
<1>6. \A k \in 1 .. Len(r) : q[k] = r[k]
  <2> TAKE k \in 1 .. Len(r)
  <2>1. CASE k = 1
      BY <2>1, <1>4, <1>5
  <2>2. CASE k # 1
      BY <2>2, <1>2, <1>4, <1>5
  <2>3. QED BY <2>1, <2>2
<1>7. QED BY <1>1, <1>3, <1>4, <1>5, <1>6 DEF r, q

\* ListAddTail "Insert a new entry before the specified head": a list that
\* held the items s, of any number, then holds s followed by the item, and
\* both directions of the ring agree.
THEOREM AddTailCorrect ==
    ASSUME NEW N, NEW V, NEW m \in Memory(N, V), NEW h \in N, NEW s \in Seq(N),
           NEW item \in N,
           Distinct(Ring(h, s)),
           \A k \in 1 .. Len(Ring(h, s)) : Ring(h, s)[k] # item,
           Linked(m, h, s)
    PROVE  Linked(ListAddTail(m, h, item), h, Append(s, item))
PROOF
<1> DEFINE r == Ring(h, s)
           q == Ring(h, Append(s, item))
           n == Len(r)
           t == r[n]
<1>1. r \in Seq(N) /\ n \in Nat \ {0} /\ r[1] = h
    BY RingFacts
<1>2. /\ Len(q) = n + 1 /\ q[n + 1] = item
      /\ \A k \in 1 .. n : q[k] = r[k]
    BY RingAppend
<1>3. \A k \in 1 .. n : r[k] \in N /\ r[k] # item
    BY <1>1
<1>4. m.prev[h] = t /\ h # item /\ t \in N /\ t # item
    BY <1>1, <1>3 DEF Linked, After
<1> DEFINE z == ListAddTail(m, h, item)
<1>5. /\ z.next = [[m.next EXCEPT ![item] = h] EXCEPT ![t] = item]
      /\ z.prev = [[m.prev EXCEPT ![item] = t] EXCEPT ![h] = item]
    BY <1>4 DEF ListAddTail, SetNext, SetPrev, Memory
<1>6. /\ z.next[item] = h /\ z.next[t] = item
      /\ \A x \in N : x # item /\ x # t => z.next[x] = m.next[x]
      /\ z.prev[item] = t /\ z.prev[h] = item
      /\ \A x \in N : x # item /\ x # h => z.prev[x] = m.prev[x]
    BY <1>4, <1>5 DEF Memory
<1> HIDE DEF z
<1>7. ASSUME NEW k \in 1 .. n + 1
      PROVE  z.next[q[k]] = q[After(k, n + 1)] /\ z.prev[q[After(k, n + 1)]] = q[k]
  <2>1. CASE k = n + 1
      BY <2>1, <1>1, <1>2, <1>6 DEF After
  <2>2. CASE k = n
      BY <2>2, <1>1, <1>2, <1>6 DEF After
  <2>3. CASE k < n
    <3>1. k \in 1 .. n /\ k + 1 \in 1 .. n /\ After(k, n) = k + 1 /\ After(k, n + 1) = k + 1
        BY <2>3, <1>1 DEF After
    <3>2. m.next[r[k]] = r[k + 1] /\ m.prev[r[k + 1]] = r[k]
        BY <3>1 DEF Linked
    <3>3. r[k] # t /\ r[k + 1] # h
        BY <3>1, <2>3, <1>1 DEF Distinct
    <3>4. QED BY <3>1, <3>2, <3>3, <1>2, <1>3, <1>6
  <2>4. QED BY <2>1, <2>2, <2>3, <1>1
<1>8. QED BY <1>7, <1>2 DEF Linked, z

-----------------------------------------------------------------------------
\* The items without the one at place i.
Without(s, i) == [k \in 1 .. Len(s) - 1 |-> IF k < i THEN s[k] ELSE s[k + 1]]

\* The ring without the node at place i + 1.
LEMMA RingWithout ==
    ASSUME NEW N, NEW h \in N, NEW s \in Seq(N), NEW i \in 1 .. Len(s)
    PROVE  /\ Len(Ring(h, Without(s, i))) = Len(s)
           /\ \A k \in 1 .. i : Ring(h, Without(s, i))[k] = Ring(h, s)[k]
           /\ \A k \in i + 1 .. Len(s) :
                  Ring(h, Without(s, i))[k] = Ring(h, s)[k + 1]
PROOF
<1> DEFINE a == Without(s, i)
           r == Ring(h, s)
           q == Ring(h, a)
<1>1. /\ Len(s) \in Nat \ {0} /\ i \in Nat \ {0}
      /\ \A k \in 1 .. Len(s) : s[k] \in N
    OBVIOUS
<1>2. /\ a \in Seq(N) /\ Len(a) = Len(s) - 1
      /\ \A k \in 1 .. Len(s) - 1 : a[k] = IF k < i THEN s[k] ELSE s[k + 1]
  <2>1. \A k \in 1 .. Len(s) - 1 : (IF k < i THEN s[k] ELSE s[k + 1]) \in N
      BY <1>1
  <2>2. a \in [1 .. Len(s) - 1 -> N]
      BY <2>1 DEF Without
  <2>3. Len(s) - 1 \in Nat
      BY <1>1
  <2>4. QED BY <2>2, <2>3 DEF Without
<1>3. /\ r[1] = h
      /\ \A k \in 2 .. Len(s) + 1 : r[k] = s[k - 1]
    BY RingFacts
<1> HIDE DEF a
<1>4. /\ Len(q) = Len(a) + 1 /\ q[1] = h
      /\ \A k \in 2 .. Len(a) + 1 : q[k] = a[k - 1]
  <2>1. ASSUME NEW u \in Seq(N)
        PROVE  /\ Len(Ring(h, u)) = Len(u) + 1 /\ Ring(h, u)[1] = h
               /\ \A k \in 2 .. Len(u) + 1 : Ring(h, u)[k] = u[k - 1]
      BY RingFacts
  <2>2. QED BY <2>1, <1>2, Zenon
<1> HIDE DEF r, q
<1>5. ASSUME NEW k \in 1 .. i
      PROVE  q[k] = r[k]
  <2>1. CASE k = 1
      BY <2>1, <1>3, <1>4
  <2>2. CASE k # 1
    <3>1. k \in 2 .. Len(a) + 1 /\ k - 1 \in 1 .. Len(s) - 1 /\ k - 1 < i
          /\ k \in 2 .. Len(s) + 1
        BY <2>2, <1>1, <1>2
    <3>2. q[k] = a[k - 1] /\ r[k] = s[k - 1] /\ a[k - 1] = s[k - 1]
        BY <3>1, <1>2, <1>3, <1>4
    <3>3. QED BY <3>2
  <2>3. QED BY <2>1, <2>2
<1>6. ASSUME NEW k \in i + 1 .. Len(s)
      PROVE  q[k] = r[k + 1]
  <2>1. k \in 2 .. Len(a) + 1 /\ k - 1 \in 1 .. Len(s) - 1 /\ ~(k - 1 < i)
        /\ k + 1 \in 2 .. Len(s) + 1 /\ (k - 1) + 1 = k /\ (k + 1) - 1 = k
      BY <1>1, <1>2
  <2>2. q[k] = a[k - 1] /\ a[k - 1] = s[k] /\ r[k + 1] = s[k]
      BY <2>1, <1>2, <1>3, <1>4
  <2>3. QED BY <2>2
<1>7. Len(q) = Len(s)
    BY <1>1, <1>2, <1>4
<1>8. QED BY <1>5, <1>6, <1>7 DEF a, r, q

\* ListRemove of the item at any place of a list of any length leaves the
\* list without that item, linked in both directions.
THEOREM RemoveCorrect ==
    ASSUME NEW N, NEW V, NEW m \in Memory(N, V), NEW h \in N, NEW s \in Seq(N),
           NEW i \in 1 .. Len(s),
           Distinct(Ring(h, s)),
           Linked(m, h, s)
    PROVE  Linked(ListRemove(m, s[i]), h, Without(s, i))
PROOF
<1> DEFINE r == Ring(h, s)
           q == Ring(h, Without(s, i))
           n == Len(r)
           pred == r[i]
           item == r[i + 1]
           succ == r[After(i + 1, n)]
           z == ListRemove(m, s[i])
<1>1. /\ r \in Seq(N) /\ n = Len(s) + 1 /\ Len(s) \in Nat \ {0}
      /\ i \in Nat \ {0} /\ i + 1 \in 2 .. n /\ s[i] = item
  <2> HIDE DEF q, z, pred, item, succ
  <2>1. /\ r \in Seq(N) /\ n = Len(s) + 1 /\ Len(s) \in Nat
        /\ \A k \in 2 .. Len(s) + 1 : r[k] = s[k - 1]
      BY ONLY h \in N, s \in Seq(N), RingFacts
  <2>2. i + 1 \in 2 .. Len(s) + 1 /\ (i + 1) - 1 = i /\ i \in Nat \ {0}
        /\ Len(s) \in Nat \ {0}
      BY <2>1
  <2>3. r[i + 1] = s[i]
      BY <2>1, <2>2
  <2>4. QED BY <2>1, <2>2, <2>3 DEF item
<1>2. /\ Len(q) = n - 1
      /\ \A k \in 1 .. i : q[k] = r[k]
      /\ \A k \in i + 1 .. n - 1 : q[k] = r[k + 1]
  <2>1. /\ Len(q) = Len(s)
        /\ \A k \in 1 .. i : q[k] = r[k]
        /\ \A k \in i + 1 .. Len(s) : q[k] = r[k + 1]
      BY RingWithout
  <2>2. n - 1 = Len(s)
      BY <1>1
  <2>3. QED BY <2>1, <2>2
<1> HIDE DEF q
<1>3. \A k \in 1 .. n : /\ r[k] \in N /\ After(k, n) \in 1 .. n
                        /\ m.next[r[k]] = r[After(k, n)]
                        /\ m.prev[r[After(k, n)]] = r[k]
  <2>1. \A k \in 1 .. n : m.next[r[k]] = r[After(k, n)] /\ m.prev[r[After(k, n)]] = r[k]
      BY DEF Linked
  <2>2. \A k \in 1 .. n : r[k] \in N /\ After(k, n) \in 1 .. n
    <3> HIDE DEF r, q, z
    <3>1. QED BY ONLY <1>1 DEF After
  <2>3. QED BY <2>1, <2>2
<1>4. \A j, k \in 1 .. n : r[j] = r[k] => j = k
    BY DEF Distinct
<1> HIDE DEF r
<1>5. /\ pred \in N /\ item \in N /\ succ \in N
      /\ m.next[item] = succ /\ m.prev[item] = pred /\ succ # item
  <2>1. i \in 1 .. n /\ i + 1 \in 1 .. n /\ After(i, n) = i + 1
        /\ After(i + 1, n) \in 1 .. n /\ After(i + 1, n) # i + 1
      BY <1>1 DEF After
  <2>2. m.next[item] = succ /\ m.prev[item] = pred
      BY <2>1, <1>3
  <2>3. QED BY <2>1, <2>2, <1>3, <1>4
<1>6. /\ z.prev = [m.prev EXCEPT ![succ] = pred]
      /\ z.next = [m.next EXCEPT ![pred] = succ]
    BY <1>1, <1>5 DEF ListRemove, SetNext, SetPrev, Memory
<1>7. /\ z.next[pred] = succ /\ z.prev[succ] = pred
      /\ \A x \in N : x # pred => z.next[x] = m.next[x]
      /\ \A x \in N : x # succ => z.prev[x] = m.prev[x]
    BY <1>5, <1>6 DEF Memory
<1> HIDE DEF z
<1>8. ASSUME NEW k \in 1 .. n - 1
      PROVE  /\ z.next[q[k]] = q[After(k, n - 1)]
             /\ z.prev[q[After(k, n - 1)]] = q[k]
  <2>1. CASE k < i
    <3>1. /\ k \in 1 .. i /\ k + 1 \in 1 .. i /\ After(k, n - 1) = k + 1
          /\ k \in 1 .. n /\ i \in 1 .. n /\ k + 1 \in 1 .. n /\ k # i
          /\ After(k, n) = k + 1 /\ After(i + 1, n) \in 1 .. n
          /\ After(i + 1, n) # k + 1
        BY ONLY <2>1, <1>1, k \in 1 .. n - 1 DEF After
    <3>2. q[k] = r[k] /\ q[k + 1] = r[k + 1]
        BY <3>1, <1>2
    <3>3. r[k] # pred /\ r[k + 1] # succ /\ r[k] \in N /\ r[k + 1] \in N
        BY <3>1, <1>3, <1>4
    <3>4. m.next[r[k]] = r[k + 1] /\ m.prev[r[k + 1]] = r[k]
        BY <3>1, <1>3
    <3>5. QED BY <3>1, <3>2, <3>3, <3>4, <1>7
  <2>2. CASE k = i
    <3>1. i \in 1 .. i /\ 1 \in 1 .. i
        BY <1>1
    <3>2. CASE i = n - 1
      <4>1. After(k, n - 1) = 1 /\ After(i + 1, n) = 1
          BY <2>2, <3>2, <1>1 DEF After
      <4>2. QED BY <4>1, <3>1, <2>2, <1>2, <1>7
    <3>3. CASE i # n - 1
      <4>1. /\ After(k, n - 1) = i + 1 /\ After(i + 1, n) = (i + 1) + 1
            /\ i + 1 \in i + 1 .. n - 1
          BY <2>2, <3>3, <1>1 DEF After
      <4>2. QED BY <4>1, <3>1, <2>2, <1>2, <1>7
    <3>4. QED BY <3>2, <3>3
  <2>3. CASE k > i
    <3>1. /\ k \in i + 1 .. n - 1 /\ k + 1 \in 1 .. n /\ i \in 1 .. n
          /\ k + 1 # i /\ After(i + 1, n) = i + 2
          /\ After(k + 1, n) # i + 2 /\ i + 2 \in 1 .. n
          /\ After(k + 1, n) \in 1 .. n
        BY <2>3, <1>1 DEF After
    <3>2. q[k] = r[k + 1]
        BY <3>1, <1>2
    <3>3. q[After(k, n - 1)] = r[After(k + 1, n)]
      <4>1. CASE k = n - 1
        <5>1. After(k, n - 1) = 1 /\ After(k + 1, n) = 1 /\ 1 \in 1 .. i
            BY <4>1, <1>1 DEF After
        <5>2. QED BY <5>1, <1>2
      <4>2. CASE k # n - 1
        <5>1. /\ After(k, n - 1) = k + 1 /\ After(k + 1, n) = (k + 1) + 1
              /\ k + 1 \in i + 1 .. n - 1
            BY <4>2, <2>3, <1>1 DEF After
        <5>2. QED BY <5>1, <1>2
      <4>3. QED BY <4>1, <4>2
    <3>4. r[k + 1] # pred /\ r[After(k + 1, n)] # succ
        BY <3>1, <1>4
    <3>5. /\ m.next[r[k + 1]] = r[After(k + 1, n)]
          /\ m.prev[r[After(k + 1, n)]] = r[k + 1]
          /\ r[k + 1] \in N /\ r[After(k + 1, n)] \in N
        BY <3>1, <1>3
    <3>6. QED BY <3>2, <3>3, <3>4, <3>5, <1>7
  <2>4. QED BY <2>1, <2>2, <2>3, <1>1
<1>9. QED BY <1>8, <1>2 DEF Linked, z, q

-----------------------------------------------------------------------------
\* The ring after an item was put in front.
LEMMA RingPrepend ==
    ASSUME NEW N, NEW h \in N, NEW s \in Seq(N), NEW item \in N
    PROVE  /\ Len(Ring(h, <<item>> \o s)) = Len(Ring(h, s)) + 1
           /\ Ring(h, <<item>> \o s)[1] = h
           /\ Ring(h, <<item>> \o s)[2] = item
           /\ \A k \in 2 .. Len(Ring(h, s)) :
                  Ring(h, <<item>> \o s)[k + 1] = Ring(h, s)[k]
PROOF
<1> DEFINE a == <<item>> \o s
           r == Ring(h, s)
           q == Ring(h, a)
<1>1. <<item>> \in Seq(N) /\ Len(<<item>>) = 1 /\ <<item>>[1] = item /\ Len(s) \in Nat
    OBVIOUS
<1>2. /\ a \in Seq(N) /\ Len(a) = Len(s) + 1 /\ a[1] = item
      /\ \A k \in 1 .. Len(s) : a[k + 1] = s[k]
    BY <1>1
<1>3. /\ Len(r) = Len(s) + 1
      /\ \A k \in 2 .. Len(s) + 1 : r[k] = s[k - 1]
    BY RingFacts
<1> HIDE DEF a
<1>4. /\ Len(q) = Len(a) + 1 /\ q[1] = h
      /\ \A k \in 2 .. Len(a) + 1 : q[k] = a[k - 1]
  <2>1. ASSUME NEW u \in Seq(N)
        PROVE  /\ Len(Ring(h, u)) = Len(u) + 1 /\ Ring(h, u)[1] = h
               /\ \A k \in 2 .. Len(u) + 1 : Ring(h, u)[k] = u[k - 1]
      BY RingFacts
  <2>2. QED BY <2>1, <1>2, Zenon
<1> HIDE DEF r, q
<1>5. ASSUME NEW k \in 2 .. Len(r)
      PROVE  q[k + 1] = r[k]
  <2>1. /\ k + 1 \in 2 .. Len(a) + 1 /\ (k + 1) - 1 = k /\ k \in 2 .. Len(s) + 1
        /\ k - 1 \in 1 .. Len(s) /\ (k - 1) + 1 = k
      BY <1>1, <1>2, <1>3
  <2>2. q[k + 1] = a[k] /\ r[k] = s[k - 1]
      BY <2>1, <1>3, <1>4
  <2>3. a[k] = s[k - 1]
      BY <2>1, <1>2
  <2>4. QED BY <2>2, <2>3
<1>6. q[2] = item
  <2>1. 2 \in 2 .. Len(a) + 1
      BY <1>1, <1>2
  <2>2. QED BY <2>1, <1>2, <1>4
<1>7. QED BY <1>1, <1>2, <1>3, <1>4, <1>5, <1>6 DEF a, r, q

\* ListAddHead "Insert a new entry after the specified head": a list that
\* held the items s then holds the item followed by s, linked in both
\* directions.
THEOREM AddHeadCorrect ==
    ASSUME NEW N, NEW V, NEW m \in Memory(N, V), NEW h \in N, NEW s \in Seq(N),
           NEW item \in N,
           Distinct(Ring(h, s)),
           \A k \in 1 .. Len(Ring(h, s)) : Ring(h, s)[k] # item,
           Linked(m, h, s)
    PROVE  Linked(ListAddHead(m, h, item), h, <<item>> \o s)
PROOF
<1> DEFINE r == Ring(h, s)
           q == Ring(h, <<item>> \o s)
           n == Len(r)
           first == r[After(1, n)]
           z == ListAddHead(m, h, item)
<1>1. r \in Seq(N) /\ n \in Nat \ {0} /\ r[1] = h
    BY RingFacts
<1>2. /\ Len(q) = n + 1 /\ q[1] = h /\ q[2] = item
      /\ \A k \in 2 .. n : q[k + 1] = r[k]
    BY RingPrepend
<1> HIDE DEF q
<1>3. \A k \in 1 .. n : /\ r[k] \in N /\ r[k] # item /\ After(k, n) \in 1 .. n
                        /\ m.next[r[k]] = r[After(k, n)]
                        /\ m.prev[r[After(k, n)]] = r[k]
    BY <1>1 DEF Linked, After
<1>4. \A j, k \in 1 .. n : r[j] = r[k] => j = k
    BY DEF Distinct
<1>len. n \in Nat \ {0}
    BY <1>1
<1> HIDE DEF r, n
<1>5. /\ m.next[h] = first /\ h # item /\ first \in N /\ first # item
  <2>1. 1 \in 1 .. n
      BY <1>1
  <2>2. QED BY <2>1, <1>1, <1>3
<1>6. /\ z.next = [[m.next EXCEPT ![item] = first] EXCEPT ![h] = item]
      /\ z.prev = [[m.prev EXCEPT ![item] = h] EXCEPT ![first] = item]
    BY <1>5 DEF ListAddHead, SetNext, SetPrev, Memory
<1>7. /\ z.next[item] = first /\ z.next[h] = item
      /\ z.prev[item] = h /\ z.prev[first] = item
      /\ \A x \in N : x # item /\ x # h => z.next[x] = m.next[x]
      /\ \A x \in N : x # item /\ x # first => z.prev[x] = m.prev[x]
    BY <1>5, <1>6 DEF Memory
<1> HIDE DEF z
<1>8. ASSUME NEW k \in 1 .. n + 1
      PROVE  z.next[q[k]] = q[After(k, n + 1)] /\ z.prev[q[After(k, n + 1)]] = q[k]
  <2>1. CASE k = 1
    <3>1. After(k, n + 1) = 2
        BY <2>1, <1>1 DEF After
    <3>2. QED BY <3>1, <2>1, <1>2, <1>7
  <2>2. CASE k = 2
    <3>1. q[After(2, n + 1)] = first
      <4>1. CASE n = 1
        <5>1. After(2, n + 1) = 1 /\ After(1, n) = 1
            BY <4>1 DEF After
        <5>2. QED BY <5>1, <1>1, <1>2
      <4>2. CASE n # 1
        <5>1. After(2, n + 1) = 2 + 1 /\ After(1, n) = 2 /\ 2 \in 2 .. n
            BY <4>2, <1>len DEF After
        <5>2. QED BY <5>1, <1>2
      <4>3. QED BY <4>1, <4>2
    <3>2. QED BY <3>1, <2>2, <1>2, <1>7
  <2>3. CASE k > 2
    <3> DEFINE j == k - 1
    <3>1. /\ j \in 2 .. n /\ j \in 1 .. n /\ k = j + 1 /\ 1 \in 1 .. n /\ j # 1
          /\ After(1, n) = 2 /\ 2 \in 1 .. n /\ After(j, n) # 2
          /\ After(j, n) \in 1 .. n
        BY <2>3, <1>len DEF After
    <3>2. q[k] = r[j]
        BY <3>1, <1>2
    <3>3. q[After(k, n + 1)] = r[After(j, n)]
      <4>1. CASE k = n + 1
        <5>1. After(k, n + 1) = 1 /\ After(j, n) = 1
            BY <4>1, <1>1 DEF After
        <5>2. QED BY <5>1, <1>1, <1>2
      <4>2. CASE k # n + 1
        <5>1. After(k, n + 1) = k + 1 /\ After(j, n) = k /\ k \in 2 .. n
            BY <4>2, <2>3, <1>1 DEF After
        <5>2. QED BY <5>1, <1>2
      <4>3. QED BY <4>1, <4>2
    <3> HIDE DEF j
    <3>4. r[j] # h /\ r[After(j, n)] # first
        BY <3>1, <1>1, <1>4
    <3>5. /\ m.next[r[j]] = r[After(j, n)] /\ m.prev[r[After(j, n)]] = r[j]
          /\ r[j] \in N /\ r[j] # item
          /\ r[After(j, n)] \in N /\ r[After(j, n)] # item
        BY <3>1, <1>3
    <3>6. QED BY <3>2, <3>3, <3>4, <3>5, <1>7
  <2>4. k = 1 \/ k = 2 \/ k > 2
      OBVIOUS
  <2>5. QED BY <2>1, <2>2, <2>3, <2>4, Zenon
<1>9. QED BY <1>8, <1>2 DEF Linked, z, q, n, r

-----------------------------------------------------------------------------
\* The ring of two lists one after the other.
LEMMA RingConcat ==
    ASSUME NEW N, NEW h \in N, NEW s \in Seq(N), NEW t \in Seq(N)
    PROVE  /\ Len(Ring(h, s \o t)) = Len(Ring(h, s)) + Len(t)
           /\ \A k \in 1 .. Len(Ring(h, s)) :
                  Ring(h, s \o t)[k] = Ring(h, s)[k]
           /\ \A k \in 1 .. Len(t) :
                  Ring(h, s \o t)[Len(Ring(h, s)) + k] = t[k]
PROOF
<1> DEFINE a == s \o t
           r == Ring(h, s)
           q == Ring(h, a)
<1>1. Len(s) \in Nat /\ Len(t) \in Nat
    OBVIOUS
<1>2. /\ a \in Seq(N) /\ Len(a) = Len(s) + Len(t)
      /\ \A k \in 1 .. Len(s) : a[k] = s[k]
      /\ \A k \in 1 .. Len(t) : a[Len(s) + k] = t[k]
    OBVIOUS
<1>3. /\ Len(r) = Len(s) + 1 /\ r[1] = h
      /\ \A k \in 2 .. Len(s) + 1 : r[k] = s[k - 1]
    BY RingFacts
<1> HIDE DEF a
<1>4. /\ Len(q) = Len(a) + 1 /\ q[1] = h
      /\ \A k \in 2 .. Len(a) + 1 : q[k] = a[k - 1]
  <2>1. ASSUME NEW u \in Seq(N)
        PROVE  /\ Len(Ring(h, u)) = Len(u) + 1 /\ Ring(h, u)[1] = h
               /\ \A k \in 2 .. Len(u) + 1 : Ring(h, u)[k] = u[k - 1]
    <3>1. h \in N /\ u \in Seq(N)
        OBVIOUS
    <3>2. IsRing(Ring(h, u), h, u)
        BY ONLY <3>1, RingIs
    <3>3. QED BY <3>2 DEF IsRing
  <2>2. QED BY <2>1, <1>2, Zenon
<1> HIDE DEF r, q
<1>5. ASSUME NEW k \in 1 .. Len(r)
      PROVE  q[k] = r[k]
  <2>1. CASE k = 1
      BY <2>1, <1>3, <1>4
  <2>2. CASE k # 1
    <3>1. k \in 2 .. Len(a) + 1 /\ k \in 2 .. Len(s) + 1 /\ k - 1 \in 1 .. Len(s)
        BY <2>2, <1>1, <1>2, <1>3
    <3>2. q[k] = a[k - 1] /\ r[k] = s[k - 1] /\ a[k - 1] = s[k - 1]
        BY <3>1, <1>2, <1>3, <1>4
    <3>3. QED BY <3>2
  <2>3. QED BY <2>1, <2>2
<1>6. ASSUME NEW k \in 1 .. Len(t)
      PROVE  q[Len(r) + k] = t[k]
  <2>1. Len(r) + k \in 2 .. Len(a) + 1 /\ (Len(r) + k) - 1 = Len(s) + k
      BY <1>1, <1>2, <1>3
  <2>2. q[Len(r) + k] = a[Len(s) + k]
      BY <2>1, <1>4
  <2>3. QED BY <2>2, <1>2
<1>7. QED BY <1>1, <1>2, <1>3, <1>4, <1>5, <1>6 DEF a, r, q

\* ListAppend "let list2(head2) append to the tail of list1(head1)": with a
\* second list that is not empty the first list then holds its own items
\* followed by those of the second, linked in both directions.  The
\* condition is needed: with an empty second list head1->prev becomes head2
\* (list.h:101-104).
THEOREM AppendCorrect ==
    ASSUME NEW N, NEW V, NEW m \in Memory(N, V), NEW h \in N, NEW g \in N,
           NEW s \in Seq(N), NEW t \in Seq(N),
           Distinct(Ring(h, s)), Distinct(Ring(g, t)),
           \A j \in 1 .. Len(Ring(h, s)), k \in 1 .. Len(Ring(g, t)) :
               Ring(h, s)[j] # Ring(g, t)[k],
           Len(t) > 0,
           Linked(m, h, s), Linked(m, g, t)
    PROVE  Linked(ListAppend(m, h, g), h, s \o t)
PROOF
<1> DEFINE a == Ring(h, s)
           b == Ring(g, t)
           q == Ring(h, s \o t)
           n == Len(a)
           p == Len(b)
           z == ListAppend(m, h, g)
<1>1. /\ a \in Seq(N) /\ n \in Nat \ {0} /\ a[1] = h
    BY RingFacts
<1>2. /\ b \in Seq(N) /\ p = Len(t) + 1 /\ p \in Nat /\ p > 1 /\ b[1] = g
      /\ \A k \in 1 .. p - 1 : b[k + 1] = t[k]
  <2>1. /\ b \in Seq(N) /\ p = Len(t) + 1 /\ Len(t) \in Nat /\ b[1] = g
        /\ \A k \in 2 .. Len(t) + 1 : b[k] = t[k - 1]
      BY RingFacts
  <2>2. ASSUME NEW k \in 1 .. p - 1
        PROVE  b[k + 1] = t[k]
    <3>1. k + 1 \in 2 .. Len(t) + 1 /\ (k + 1) - 1 = k
        BY <2>1
    <3>2. QED BY <3>1, <2>1
  <2>3. QED BY <2>1, <2>2
<1>3. /\ Len(q) = n + (p - 1)
      /\ \A k \in 1 .. n : q[k] = a[k]
      /\ \A k \in 1 .. p - 1 : q[n + k] = b[k + 1]
  <2>1. /\ Len(q) = n + Len(t)
        /\ \A k \in 1 .. n : q[k] = a[k]
        /\ \A k \in 1 .. Len(t) : q[n + k] = t[k]
      BY RingConcat, SMTT(60)
  <2>2. p - 1 = Len(t)
      BY <1>2
  <2>3. QED BY <2>1, <2>2, <1>2
<1>4. \A k \in 1 .. n : /\ a[k] \in N /\ After(k, n) \in 1 .. n
                        /\ m.next[a[k]] = a[After(k, n)]
                        /\ m.prev[a[After(k, n)]] = a[k]
    BY <1>1 DEF Linked, After
<1>5. \A k \in 1 .. p : /\ b[k] \in N /\ After(k, p) \in 1 .. p
                        /\ m.next[b[k]] = b[After(k, p)]
                        /\ m.prev[b[After(k, p)]] = b[k]
    BY <1>2 DEF Linked, After
<1>6. /\ \A j, k \in 1 .. n : a[j] = a[k] => j = k
      /\ \A j, k \in 1 .. p : b[j] = b[k] => j = k
      /\ \A j \in 1 .. n, k \in 1 .. p : a[j] # b[k]
    BY DEF Distinct
<1>len. n \in Nat \ {0} /\ p \in Nat /\ p > 1
    BY <1>1, <1>2
<1>head. a[1] = h /\ b[1] = g
    BY <1>1, <1>2
<1> HIDE DEF a, b, q, n, p
<1>7. /\ m.prev[h] = a[n] /\ m.prev[g] = b[p] /\ m.next[g] = b[2]
      /\ a[n] \in N /\ b[p] \in N /\ b[2] \in N
      /\ b[p] # g /\ b[2] # g /\ b[2] # h /\ a[n] # g /\ b[p] # a[n] /\ b[p] # h
      /\ h # g
  <2>1. /\ 1 \in 1 .. n /\ n \in 1 .. n /\ After(n, n) = 1
        /\ 1 \in 1 .. p /\ 2 \in 1 .. p /\ p \in 1 .. p
        /\ After(p, p) = 1 /\ After(1, p) = 2 /\ p # 1
      BY <1>1, <1>2 DEF After
  <2>2. m.prev[a[1]] = a[n] /\ m.prev[b[1]] = b[p] /\ m.next[b[1]] = b[2]
      BY <2>1, <1>4, <1>5
  <2>3. /\ b[p] # b[1] /\ b[2] # b[1] /\ b[2] # a[1] /\ a[n] # b[1]
        /\ b[p] # a[n] /\ b[p] # a[1] /\ a[1] # b[1]
      BY <2>1, <1>6
  <2>4. QED BY <2>1, <2>2, <2>3, <1>1, <1>2, <1>4, <1>5
<1>8. /\ z.next = [[[m.next EXCEPT ![b[p]] = h] EXCEPT ![a[n]] = b[2]]
                       EXCEPT ![g] = g]
      /\ z.prev = [[[m.prev EXCEPT ![b[2]] = a[n]] EXCEPT ![h] = b[p]]
                       EXCEPT ![g] = g]
    BY <1>7 DEF ListAppend, ListInit, SetNext, SetPrev, Memory
<1>9. /\ z.next[b[p]] = h /\ z.next[a[n]] = b[2]
      /\ z.prev[b[2]] = a[n] /\ z.prev[h] = b[p]
      /\ \A x \in N : x # b[p] /\ x # a[n] /\ x # g => z.next[x] = m.next[x]
      /\ \A x \in N : x # b[2] /\ x # h /\ x # g => z.prev[x] = m.prev[x]
    BY <1>7, <1>8 DEF Memory
<1> HIDE DEF z
<1>10. ASSUME NEW k \in 1 .. n + (p - 1)
       PROVE  /\ z.next[q[k]] = q[After(k, n + (p - 1))]
              /\ z.prev[q[After(k, n + (p - 1))]] = q[k]
  <2>1. CASE k < n
    <3>1. /\ k \in 1 .. n /\ k + 1 \in 1 .. n /\ n \in 1 .. n /\ 1 \in 1 .. n
          /\ After(k, n) = k + 1 /\ After(k, n + (p - 1)) = k + 1
          /\ k # n /\ k + 1 # 1 /\ p \in 1 .. p /\ 1 \in 1 .. p /\ 2 \in 1 .. p
        BY <2>1, <1>len DEF After
    <3>2. /\ a[k] # b[p] /\ a[k] # a[n] /\ a[k] # b[1]
          /\ a[k + 1] # b[2] /\ a[k + 1] # a[1] /\ a[k + 1] # b[1]
        BY <3>1, <1>6
    <3>3. /\ m.next[a[k]] = a[k + 1] /\ m.prev[a[k + 1]] = a[k]
          /\ a[k] \in N /\ a[k + 1] \in N
        BY <3>1, <1>4
    <3>4. q[k] = a[k] /\ q[k + 1] = a[k + 1]
        BY <3>1, <1>3
    <3>5. z.next[a[k]] = a[k + 1] /\ z.prev[a[k + 1]] = a[k]
        BY <3>2, <3>3, <1>head, <1>9
    <3>6. QED BY <3>1, <3>4, <3>5
  <2>2. CASE k = n
    <3>1. /\ k \in 1 .. n /\ 1 \in 1 .. p - 1 /\ After(k, n + (p - 1)) = n + 1
        BY <2>2, <1>len DEF After
    <3>2. q[k] = a[n] /\ q[n + 1] = b[2]
        BY <3>1, <2>2, <1>3
    <3>3. QED BY <3>1, <3>2, <1>9
  <2>3. CASE k > n /\ k < n + (p - 1)
    <3> DEFINE j == k - n
    <3>1. /\ j \in 1 .. p - 1 /\ j + 1 \in 1 .. p - 1 /\ n + j = k
          /\ n + (j + 1) = k + 1 /\ After(k, n + (p - 1)) = k + 1
          /\ j + 1 \in 1 .. p /\ (j + 1) + 1 \in 1 .. p
          /\ After(j + 1, p) = (j + 1) + 1 /\ j + 1 # p /\ j + 1 # 1
          /\ (j + 1) + 1 # 2 /\ (j + 1) + 1 # 1
          /\ n \in 1 .. n /\ 1 \in 1 .. n /\ p \in 1 .. p /\ 1 \in 1 .. p
          /\ 2 \in 1 .. p
        BY <2>3, <1>len DEF After
    <3> HIDE DEF j
    <3>2. q[k] = b[j + 1] /\ q[k + 1] = b[(j + 1) + 1]
        BY <3>1, <1>3
    <3>3. /\ b[j + 1] # b[p] /\ b[j + 1] # a[n] /\ b[j + 1] # b[1]
          /\ b[(j + 1) + 1] # b[2] /\ b[(j + 1) + 1] # a[1]
          /\ b[(j + 1) + 1] # b[1]
        BY <3>1, <1>6
    <3>4. /\ m.next[b[j + 1]] = b[(j + 1) + 1]
          /\ m.prev[b[(j + 1) + 1]] = b[j + 1]
          /\ b[j + 1] \in N /\ b[(j + 1) + 1] \in N
        BY <3>1, <1>5
    <3>5. /\ z.next[b[j + 1]] = b[(j + 1) + 1]
          /\ z.prev[b[(j + 1) + 1]] = b[j + 1]
        BY <3>3, <3>4, <1>head, <1>9
    <3>6. QED BY <3>1, <3>2, <3>5
  <2>4. CASE k = n + (p - 1)
    <3>1. /\ p - 1 \in 1 .. p - 1 /\ (p - 1) + 1 = p /\ 1 \in 1 .. n
          /\ After(k, n + (p - 1)) = 1
        BY <2>4, <1>len DEF After
    <3>2. q[k] = b[p] /\ q[1] = a[1]
        BY <3>1, <2>4, <1>3
    <3>3. QED BY <3>1, <3>2, <1>1, <1>9
  <2>5. k < n \/ k = n \/ (k > n /\ k < n + (p - 1)) \/ k = n + (p - 1)
      BY <1>len
  <2>6. QED BY <2>1, <2>2, <2>3, <2>4, <2>5, Zenon
<1>11. QED BY <1>10, <1>3 DEF Linked, z, q, n, a

-----------------------------------------------------------------------------
(* Types.                                                                  *)

Hands == {"no", "enter", "waiting", "woken", "leave"}

\* The fields of the nodes, as Memory has them.
LinkFields == [Nodes -> Nodes \cup {NULL}]

\* Assignments to the fields of list nodes.
LEMMA SetTypes ==
  ASSUME NEW m \in [next : LinkFields, prev : LinkFields], NEW x, NEW y \in Nodes \cup {NULL}
  PROVE  /\ SetNext(m, x, y) \in [next : LinkFields, prev : LinkFields]
         /\ SetPrev(m, x, y) \in [next : LinkFields, prev : LinkFields]
  BY DEF SetNext, SetPrev, LinkFields

\* What a link leads to.
LEMMA LinkTypes ==
  ASSUME NEW m \in [next : LinkFields, prev : LinkFields], NEW x \in Nodes
  PROVE  m.next[x] \in Nodes \cup {NULL} /\ m.prev[x] \in Nodes \cup {NULL}
  BY DEF LinkFields

\* gManager zeroed.
LEMMA InitTypes == WorkInit => WorkTypeOK
  <1> SUFFICES ASSUME WorkInit PROVE WorkTypeOK
    OBVIOUS
  <1>1. mem \in [next : [Nodes -> Nodes \cup {NULL}], prev : [Nodes -> Nodes \cup {NULL}]]
    BY DEF WorkInit
  <1>2. /\ pend \in [Workers -> BOOLEAN] /\ stale \in [Workers -> BOOLEAN]
        /\ handler \in BOOLEAN /\ bInit \in BOOLEAN
    BY DEF WorkInit
  <1>3. life \in [Workers -> Lives] /\ v \in [Workers -> Nat] /\ num \in Int /\ saw \in [Workers -> Int]
    BY DEF WorkInit, Lives
  <1>4. /\ hand \in [Workers -> {"no", "enter", "waiting", "woken", "leave"}]
        /\ process \in {"running", "killed", "undefined"}
    BY DEF WorkInit
  <1> QED
    BY <1>1, <1>2, <1>3, <1>4 DEF WorkTypeOK

\* workerCreate
LEMMA CreateTypes ==
  ASSUME WorkTypeOK, NEW w \in Workers, Create(w)
  PROVE  WorkTypeOK'
  <1>1. mem \in [next : LinkFields, prev : LinkFields] /\ w \in Nodes
    BY DEF WorkTypeOK, LinkFields, Nodes
  <1>2. ListInit(mem, w) \in [next : LinkFields, prev : LinkFields]
    BY <1>1, SetTypes DEF ListInit
  <1> QED
    BY <1>2 DEF Create, WorkTypeOK, Lives, LinkFields

\* The statements of workerDo up to the user function and after it.
LEMMA GoesTypes ==
  ASSUME WorkTypeOK, NEW w \in Workers, NEW from, NEW to \in Lives, Goes(w, from, to),
         mem' \in [next : LinkFields, prev : LinkFields],
         bInit' \in BOOLEAN, num' \in Int, saw' \in [Workers -> Int]
  PROVE  WorkTypeOK'
  BY DEF Goes, semVars, WorkTypeOK, LinkFields

\* workerDo enters the list.
LEMMA RegisterTypes ==
  ASSUME WorkTypeOK, NEW w \in Workers, Register(w)
  PROVE  WorkTypeOK'
  <1>1. /\ mem \in [next : LinkFields, prev : LinkFields] /\ w \in Nodes /\ LinkHead \in Nodes
        /\ bInit \in BOOLEAN /\ num \in Int /\ saw \in [Workers -> Int]
    BY DEF WorkTypeOK, LinkFields, Nodes
  <1>2. CASE CheckInit(w)
    BY <1>1, <1>2, GoesTypes DEF CheckInit, Links, Lives
  <1>3. CASE SetUp(w)
    <2>1. CASE Links(w, "headNext", "headPrev", SetNext(mem, LinkHead, LinkHead))
      BY <1>1, <2>1, GoesTypes, SetTypes DEF Links, Lives
    <2>2. CASE Links(w, "headPrev", "zero", SetPrev(mem, LinkHead, LinkHead))
      BY <1>1, <2>2, GoesTypes, SetTypes DEF Links, Lives
    <2>3. CASE Goes(w, "zero", "flag") /\ num' = 0 /\ UNCHANGED <<mem, bInit, saw>>
      BY <1>1, <2>3, GoesTypes DEF Lives
    <2>4. CASE Goes(w, "flag", "itemPrev") /\ bInit' = TRUE /\ UNCHANGED <<mem, num, saw>>
      BY <1>1, <2>4, GoesTypes DEF Lives
    <2> QED
      BY <1>3, <2>1, <2>2, <2>3, <2>4 DEF SetUp
  <1>4. CASE AddTail(w)
    <2>1. CASE Links(w, "itemPrev", "tailNext",
                     SetPrev(SetNext(mem, w, LinkHead), w, mem.prev[LinkHead]))
      <3>1. SetPrev(SetNext(mem, w, LinkHead), w, mem.prev[LinkHead]) \in [next : LinkFields, prev : LinkFields]
        BY <1>1, SetTypes, LinkTypes
      <3> QED
        BY <1>1, <2>1, <3>1, GoesTypes DEF Links, Lives
    <2>2. CASE Links(w, "tailNext", "headTail", SetNext(mem, mem.prev[LinkHead], w))
      BY <1>1, <2>2, GoesTypes, SetTypes DEF Links, Lives
    <2>3. CASE Links(w, "headTail", "incRead", SetPrev(mem, LinkHead, w))
      BY <1>1, <2>3, GoesTypes, SetTypes DEF Links, Lives
    <2> QED
      BY <1>4, <2>1, <2>2, <2>3 DEF AddTail
  <1>5. CASE CountIn(w)
    BY <1>1, <1>5, GoesTypes DEF CountIn, ReadNum, WriteNum, Lives
  <1> QED
    BY <1>2, <1>3, <1>4, <1>5 DEF Register

\* workerDo leaves the list.
LEMMA EndTypes ==
  ASSUME WorkTypeOK, NEW w \in Workers, Remove(w) \/ CountOut(w)
  PROVE  WorkTypeOK'
  <1>1. /\ mem \in [next : LinkFields, prev : LinkFields] /\ w \in Nodes /\ LinkHead \in Nodes
        /\ bInit \in BOOLEAN /\ num \in Int /\ saw \in [Workers -> Int]
    BY DEF WorkTypeOK, LinkFields, Nodes
  <1>2. CASE Links(w, "user", "prevNext", SetPrev(mem, mem.next[w], mem.prev[w]))
    <2>1. SetPrev(mem, mem.next[w], mem.prev[w]) \in [next : LinkFields, prev : LinkFields]
      BY <1>1, SetTypes, LinkTypes
    <2> QED
      BY <1>1, <1>2, <2>1, GoesTypes DEF Links, Lives
  <1>3. CASE Links(w, "prevNext", "decRead", SetNext(mem, mem.prev[w], mem.next[w]))
    <2>1. SetNext(mem, mem.prev[w], mem.next[w]) \in [next : LinkFields, prev : LinkFields]
      BY <1>1, SetTypes, LinkTypes
    <2> QED
      BY <1>1, <1>3, <2>1, GoesTypes DEF Links, Lives
  <1>4. CASE ReadNum(w, "decRead", "decWrite")
    BY <1>1, <1>4, GoesTypes DEF ReadNum, Lives
  <1>5. CASE /\ life' = [life EXCEPT ![w] = "exited"] /\ num' = saw[w] - 1
             /\ pend' = [pend EXCEPT ![w] = FALSE]
             /\ UNCHANGED <<hand, v, stale, handler, process, mem, bInit, saw>>
    BY <1>5 DEF WorkTypeOK, Lives
  <1> QED
    BY <1>2, <1>3, <1>4, <1>5 DEF Remove, CountOut

\* sigaction, the signal and its handler, and what the controller does.
LEMMA SignalTypes ==
  ASSUME WorkTypeOK, NEW w \in Workers,
         \/ Install(w) \/ Deliver(w) \/ Wait(w) \/ Wake(w) \/ Return(w)
         \/ Reset(w) \/ Kill(w) \/ Post(w)
  PROVE  WorkTypeOK'
  <1>1. CASE Install(w)
    BY <1>1 DEF Install, WorkTypeOK, Lives, listVars
  <1>2. CASE Deliver(w)
    BY <1>2 DEF Deliver, WorkTypeOK, listVars
  <1>3. CASE TryTake(w)
    <2>1. CASE v[w] = 0
      BY <1>3, <2>1 DEF TryTake, WorkTypeOK, listVars
    <2>2. CASE v[w] # 0
      <3>1. v' = [v EXCEPT ![w] = v[w] - 1] /\ v \in [Workers -> Nat]
        BY <1>3, <2>2 DEF TryTake, WorkTypeOK
      <3>2. v[w] - 1 \in Nat
        BY <2>2, <3>1
      <3>3. v' \in [Workers -> Nat]
        BY <3>1, <3>2
      <3> QED
        BY <1>3, <2>2, <3>3 DEF TryTake, WorkTypeOK, listVars
    <2> QED
      BY <2>1, <2>2
  <1>4. CASE Return(w)
    BY <1>4 DEF Return, WorkTypeOK, listVars
  <1>5. CASE Reset(w)
    <2>1. stale' \in [Workers -> BOOLEAN]
      BY <1>5 DEF Reset, WorkTypeOK
    <2> QED
      BY <1>5, <2>1 DEF Reset, WorkTypeOK, listVars
  <1>6. CASE Kill(w)
    <2>1. pend' \in [Workers -> BOOLEAN]
      BY <1>6 DEF Kill, WorkTypeOK, Alive
    <2> QED
      BY <1>6, <2>1 DEF Kill, WorkTypeOK, listVars
  <1>7. CASE Post(w)
    <2>1. Signalled(w) \subseteq Hands
      BY DEF Signalled, Hands, WorkTypeOK
    <2>2. v' \in [Workers -> Nat] /\ hand' \in [Workers -> Hands]
      BY <1>7, <2>1 DEF Post, WorkTypeOK, Hands
    <2> QED
      BY <1>7, <2>2 DEF Post, WorkTypeOK, listVars, Hands
  <1> QED
    BY <1>1, <1>2, <1>3, <1>4, <1>5, <1>6, <1>7 DEF Wait, Wake

-----------------------------------------------------------------------------
(* Without a lock on gManager's list the workers may lose each other, but  *)
(* no link is ever NULL where one is followed.                             *)

NextSet(x) == mem.next[x] # NULL
PrevSet(x) == mem.prev[x] # NULL

\* w is past the assignment to the head's next, or prev, link or has seen
\* bInit.
NeedsNext(w) == life[w] \notin {"none", "checkInit", "headNext"}
NeedsPrev(w) == life[w] \notin {"none", "checkInit", "headNext", "headPrev"}

\* LinksSound is not inductive: it does not tell what a worker in the midst
\* of ListInit has already linked.
LinksInv ==
    /\ \A w \in Workers : life[w] # "none" => NextSet(w) /\ PrevSet(w)
    /\ \A w \in Workers : NeedsNext(w) => NextSet(LinkHead)
    /\ \A w \in Workers : NeedsPrev(w) => PrevSet(LinkHead)
    /\ bInit => NextSet(LinkHead) /\ PrevSet(LinkHead)

\* gManager is zeroed and no worker exists.
LEMMA LinksInit == WorkInit => LinksInv
  BY DEF WorkInit, LinksInv, NeedsNext, NeedsPrev

\* The invariant gives the property.
LEMMA LinksInvSound == LinksInv => LinksSound
  BY DEF LinksInv, LinksSound, Entered, NextSet, PrevSet, NeedsNext, NeedsPrev

\* An assignment of something other than NULL to a link unsets none.
LEMMA SetsLink ==
  ASSUME NEW m \in [next : LinkFields, prev : LinkFields],
         NEW x \in Nodes, NEW y \in Nodes, NEW z \in Nodes
  PROVE  /\ SetNext(m, x, y).next[z] = IF z = x THEN y ELSE m.next[z]
         /\ SetNext(m, x, y).prev[z] = m.prev[z]
         /\ SetPrev(m, x, y).prev[z] = IF z = x THEN y ELSE m.prev[z]
         /\ SetPrev(m, x, y).next[z] = m.next[z]
         /\ y # NULL
  BY WorkersAssumption DEF SetNext, SetPrev, LinkFields, Nodes, WorkersAssumption

\* A worker goes on to its next statement.
LEMMA LinksMove ==
  ASSUME LinksInv, WorkTypeOK, NEW w \in Workers, NEW to, life' = [life EXCEPT ![w] = to],
         \A x \in Nodes : (NextSet(x) => NextSet(x)') /\ (PrevSet(x) => PrevSet(x)'),
         NextSet(w)' /\ PrevSet(w)',
         NeedsNext(w)' => NextSet(LinkHead)', NeedsPrev(w)' => PrevSet(LinkHead)',
         bInit' => bInit \/ (NextSet(LinkHead)' /\ PrevSet(LinkHead)')
  PROVE  LinksInv'
  <1>1. \A y \in Workers \ {w} : life'[y] = life[y]
    BY DEF WorkTypeOK
  <1>2. \A y \in Workers \ {w} : NeedsNext(y)' = NeedsNext(y) /\ NeedsPrev(y)' = NeedsPrev(y)
    BY <1>1 DEF NeedsNext, NeedsPrev
  <1>3. LinkHead \in Nodes /\ Workers \subseteq Nodes
    BY DEF Nodes
  <1>4. \A y \in Workers : life'[y] # "none" => NextSet(y)' /\ PrevSet(y)'
    BY <1>1, <1>3 DEF LinksInv
  <1>5. \A y \in Workers : NeedsNext(y)' => NextSet(LinkHead)'
    BY <1>2, <1>3 DEF LinksInv
  <1>6. \A y \in Workers : NeedsPrev(y)' => PrevSet(LinkHead)'
    BY <1>2, <1>3 DEF LinksInv
  <1>7. bInit' => NextSet(LinkHead)' /\ PrevSet(LinkHead)'
    BY <1>3 DEF LinksInv
  <1> QED
    BY <1>4, <1>5, <1>6, <1>7 DEF LinksInv

\* What the links lead to while LinksInv holds.
LEMMA LinkLeads ==
  ASSUME LinksInv, WorkTypeOK, NEW w \in Workers, life[w] # "none"
  PROVE  /\ mem.next[w] \in Nodes /\ mem.prev[w] \in Nodes
         /\ NeedsPrev(w) => mem.prev[LinkHead] \in Nodes
  <1>1. mem \in [next : LinkFields, prev : LinkFields] /\ w \in Nodes /\ LinkHead \in Nodes
    BY DEF WorkTypeOK, LinkFields, Nodes
  <1>2. mem.next[w] # NULL /\ mem.prev[w] # NULL
    BY DEF LinksInv, NextSet, PrevSet
  <1>3. NeedsPrev(w) => mem.prev[LinkHead] # NULL
    BY DEF LinksInv, PrevSet
  <1> QED
    BY <1>1, <1>2, <1>3, LinkTypes

\* w goes on to some statement.
Moves(w) == life[w] # "none" /\ \E to : life' = [life EXCEPT ![w] = to]

\* A statement that sets one link to something other than NULL, or none.
Assigns == \E x, y \in Nodes : \/ mem' = mem
                                \/ mem' = SetNext(mem, x, y)
                                \/ mem' = SetPrev(mem, x, y)

\* Such a statement keeps the invariant.
LEMMA LinksAssign ==
  ASSUME LinksInv, WorkTypeOK, NEW w \in Workers, Moves(w), Assigns,
         NeedsNext(w)' => NextSet(LinkHead)', NeedsPrev(w)' => PrevSet(LinkHead)',
         bInit' => bInit \/ (NextSet(LinkHead)' /\ PrevSet(LinkHead)')
  PROVE  LinksInv'
  <1>1. mem \in [next : LinkFields, prev : LinkFields] /\ w \in Nodes
    BY DEF WorkTypeOK, LinkFields, Nodes
  <1>2. \A z \in Nodes : (NextSet(z) => NextSet(z)') /\ (PrevSet(z) => PrevSet(z)')
    <2>0. PICK x \in Nodes, y \in Nodes : \/ mem' = mem \/ mem' = SetNext(mem, x, y)
                                         \/ mem' = SetPrev(mem, x, y)
      BY DEF Assigns
    <2>1. CASE mem' = mem
      BY <2>1 DEF NextSet, PrevSet
    <2>2. CASE mem' = SetNext(mem, x, y)
      BY <1>1, <2>2, SetsLink DEF NextSet, PrevSet
    <2>3. CASE mem' = SetPrev(mem, x, y)
      BY <1>1, <2>3, SetsLink DEF NextSet, PrevSet
    <2> QED
      BY <2>0, <2>1, <2>2, <2>3
  <1>3. NextSet(w)' /\ PrevSet(w)'
    BY <1>1, <1>2 DEF LinksInv, Moves
  <1>4. PICK to : life' = [life EXCEPT ![w] = to]
    BY DEF Moves
  <1> QED
    BY <1>2, <1>3, <1>4, LinksMove

\* workerCreate links the new worker to itself.
LEMMA LinksCreate ==
  ASSUME LinksInv, WorkTypeOK, NEW w \in Workers, Create(w)
  PROVE  LinksInv'
  <1>1. mem \in [next : LinkFields, prev : LinkFields] /\ w \in Nodes /\ LinkHead \in Nodes /\ w # LinkHead
    BY WorkersAssumption DEF WorkTypeOK, LinkFields, Nodes, WorkersAssumption
  <1>2. SetNext(mem, w, w) \in [next : LinkFields, prev : LinkFields]
    BY <1>1, SetTypes
  <1>3. \A z \in Nodes : /\ ListInit(mem, w).next[z] = IF z = w THEN w ELSE mem.next[z]
                         /\ ListInit(mem, w).prev[z] = IF z = w THEN w ELSE mem.prev[z]
    BY <1>1, <1>2, SetsLink DEF ListInit
  <1>4. w # NULL /\ mem' = ListInit(mem, w) /\ life' = [life EXCEPT ![w] = "checkInit"] /\ bInit' = bInit
    BY WorkersAssumption DEF Create, WorkersAssumption
  <1>5. life'[w] = "checkInit"
    BY <1>4 DEF WorkTypeOK
  <1>6. NextSet(w)' /\ PrevSet(w)'
    BY <1>1, <1>3, <1>4 DEF NextSet, PrevSet
  <1>7. \A z \in Nodes : (NextSet(z) => NextSet(z)') /\ (PrevSet(z) => PrevSet(z)')
    BY <1>3, <1>4 DEF NextSet, PrevSet
  <1> QED
    BY <1>4, <1>5, <1>6, <1>7, LinksMove DEF NeedsNext, NeedsPrev

\* The test of bInit and the initialisation of the list.
LEMMA LinksSetUp ==
  ASSUME LinksInv, WorkTypeOK, NEW w \in Workers, CheckInit(w) \/ SetUp(w)
  PROVE  LinksInv'
  <1>0. mem \in [next : LinkFields, prev : LinkFields] /\ LinkHead \in Nodes /\ life \in [Workers -> Lives]
    BY DEF WorkTypeOK, LinkFields, Nodes
  <1>1. CASE CheckInit(w)
    <2>1. /\ life[w] = "checkInit" /\ mem' = mem /\ bInit' = bInit
          /\ life' = [life EXCEPT ![w] = IF bInit THEN "itemPrev" ELSE "headNext"]
      BY <1>1 DEF CheckInit, Links, Goes
    <2>2. life'[w] = IF bInit THEN "itemPrev" ELSE "headNext"
      BY <1>0, <2>1
    <2>3. bInit => NextSet(LinkHead)' /\ PrevSet(LinkHead)'
      BY <2>1 DEF LinksInv, NextSet, PrevSet
    <2>4. (NeedsNext(w)' => NextSet(LinkHead)') /\ (NeedsPrev(w)' => PrevSet(LinkHead)')
      BY <2>2, <2>3 DEF NeedsNext, NeedsPrev
    <2>5. Moves(w) /\ Assigns
      BY <1>0, <2>1 DEF Moves, Assigns
    <2> QED
      BY <2>1, <2>4, <2>5, LinksAssign
  <1>2. CASE Links(w, "headNext", "headPrev", SetNext(mem, LinkHead, LinkHead))
    <2>1. /\ life[w] = "headNext" /\ mem' = SetNext(mem, LinkHead, LinkHead) /\ bInit' = bInit
          /\ life' = [life EXCEPT ![w] = "headPrev"]
      BY <1>2 DEF Links, Goes
    <2>2. life'[w] = "headPrev"
      BY <1>0, <2>1
    <2>3. NextSet(LinkHead)'
      BY <1>0, <2>1, SetsLink DEF NextSet
    <2>4. ~NeedsPrev(w)'
      BY <2>2 DEF NeedsPrev
    <2>5. Moves(w) /\ Assigns
      BY <1>0, <2>1 DEF Moves, Assigns
    <2> QED
      BY <2>1, <2>3, <2>4, <2>5, LinksAssign
  <1>3. CASE Links(w, "headPrev", "zero", SetPrev(mem, LinkHead, LinkHead))
    <2>1. /\ life[w] = "headPrev" /\ mem' = SetPrev(mem, LinkHead, LinkHead) /\ bInit' = bInit
          /\ life' = [life EXCEPT ![w] = "zero"]
      BY <1>3 DEF Links, Goes
    <2>2. NeedsNext(w)
      BY <2>1 DEF NeedsNext
    <2>3. NextSet(LinkHead)' /\ PrevSet(LinkHead)'
      BY <1>0, <2>1, <2>2, SetsLink DEF LinksInv, NextSet, PrevSet
    <2>4. Moves(w) /\ Assigns
      BY <1>0, <2>1 DEF Moves, Assigns
    <2> QED
      BY <2>1, <2>3, <2>4, LinksAssign
  <1>4. CASE /\ \/ Goes(w, "zero", "flag") /\ UNCHANGED bInit
                \/ Goes(w, "flag", "itemPrev") /\ bInit' = TRUE
             /\ mem' = mem
    <2>1. NeedsNext(w) /\ NeedsPrev(w) /\ life[w] # "none"
      BY <1>4 DEF Goes, NeedsNext, NeedsPrev
    <2>2. NextSet(LinkHead)' /\ PrevSet(LinkHead)'
      BY <1>4, <2>1 DEF LinksInv, NextSet, PrevSet
    <2>3. life' = [life EXCEPT ![w] = "flag"] \/ life' = [life EXCEPT ![w] = "itemPrev"]
      BY <1>4 DEF Goes
    <2>4. Moves(w) /\ Assigns
      BY <1>0, <1>4, <2>1, <2>3 DEF Moves, Assigns
    <2> QED
      BY <2>2, <2>4, LinksAssign
  <1> QED
    BY <1>1, <1>2, <1>3, <1>4 DEF SetUp

\* A statement of a worker that needs the head's links already.
LEMMA LinksLater ==
  ASSUME LinksInv, WorkTypeOK, NEW w \in Workers, NeedsNext(w), NeedsPrev(w),
         Moves(w), Assigns, bInit' = bInit
  PROVE  LinksInv'
  <1>1. mem \in [next : LinkFields, prev : LinkFields] /\ LinkHead \in Nodes
    BY DEF WorkTypeOK, LinkFields, Nodes
  <1>2. NextSet(LinkHead) /\ PrevSet(LinkHead)
    BY DEF LinksInv
  <1>3. NextSet(LinkHead)' /\ PrevSet(LinkHead)'
    <2>0. PICK x \in Nodes, y \in Nodes : \/ mem' = mem \/ mem' = SetNext(mem, x, y)
                                         \/ mem' = SetPrev(mem, x, y)
      BY DEF Assigns
    <2>1. CASE mem' = mem
      BY <1>2, <2>1 DEF NextSet, PrevSet
    <2>2. CASE mem' = SetNext(mem, x, y)
      BY <1>1, <1>2, <2>2, SetsLink DEF NextSet, PrevSet
    <2>3. CASE mem' = SetPrev(mem, x, y)
      BY <1>1, <1>2, <2>3, SetsLink DEF NextSet, PrevSet
    <2> QED
      BY <2>0, <2>1, <2>2, <2>3
  <1> QED
    BY <1>3, LinksAssign

\* ListAddTail, threadsNum++, sigaction, ListRemove, threadsNum--.
LEMMA LinksWorker ==
  ASSUME LinksInv, WorkTypeOK, NEW w \in Workers,
         AddTail(w) \/ CountIn(w) \/ Install(w) \/ Remove(w) \/ CountOut(w)
  PROVE  LinksInv'
  <1>0. LinkHead \in Nodes /\ w \in Nodes /\ mem \in [next : LinkFields, prev : LinkFields]
    BY DEF Nodes, WorkTypeOK, LinkFields
  <1>1. NeedsNext(w) /\ NeedsPrev(w) /\ life[w] # "none" /\ bInit' = bInit
    BY DEF AddTail, CountIn, Install, Remove, CountOut, Links, ReadNum, WriteNum, Goes, listVars,
           NeedsNext, NeedsPrev
  <1>2. mem.next[w] \in Nodes /\ mem.prev[w] \in Nodes /\ mem.prev[LinkHead] \in Nodes
    BY <1>1, LinkLeads
  <1>3. Moves(w)
    BY <1>1 DEF Moves, AddTail, CountIn, Install, Remove, CountOut, Links, ReadNum, WriteNum, Goes
  <1>4. CASE Links(w, "itemPrev", "tailNext",
                   SetPrev(SetNext(mem, w, LinkHead), w, mem.prev[LinkHead]))
    <2>1. life' = [life EXCEPT ![w] = "tailNext"]
          /\ mem' = SetPrev(SetNext(mem, w, LinkHead), w, mem.prev[LinkHead])
      BY <1>4 DEF Links, Goes
    <2>2. SetNext(mem, w, LinkHead) \in [next : LinkFields, prev : LinkFields]
      BY <1>0, SetTypes
    <2>3. \A z \in Nodes : /\ mem'.next[z] = IF z = w THEN LinkHead ELSE mem.next[z]
                           /\ mem'.prev[z] = IF z = w THEN mem.prev[LinkHead] ELSE mem.prev[z]
      BY <1>0, <1>2, <2>1, <2>2, SetsLink
    <2>4. LinkHead # NULL /\ mem.prev[LinkHead] # NULL
      BY <1>0, <1>2, SetsLink
    <2>5. \A z \in Nodes : (NextSet(z) => NextSet(z)') /\ (PrevSet(z) => PrevSet(z)')
      BY <2>3, <2>4 DEF NextSet, PrevSet
    <2>6. NextSet(w) /\ PrevSet(w) /\ NextSet(LinkHead) /\ PrevSet(LinkHead)
      BY <1>1 DEF LinksInv
    <2> QED
      BY <1>0, <1>1, <2>1, <2>5, <2>6, LinksMove
  <1>5. CASE Links(w, "tailNext", "headTail", SetNext(mem, mem.prev[LinkHead], w))
    <2>1. Assigns
      BY <1>0, <1>2, <1>5 DEF Links, Assigns
    <2> QED
      BY <1>1, <1>3, <2>1, LinksLater
  <1>6. CASE Links(w, "headTail", "incRead", SetPrev(mem, LinkHead, w))
    <2>1. Assigns
      BY <1>0, <1>6 DEF Links, Assigns
    <2> QED
      BY <1>1, <1>3, <2>1, LinksLater
  <1>7. CASE Links(w, "user", "prevNext", SetPrev(mem, mem.next[w], mem.prev[w]))
    <2>1. Assigns
      BY <1>2, <1>7 DEF Links, Assigns
    <2> QED
      BY <1>1, <1>3, <2>1, LinksLater
  <1>8. CASE Links(w, "prevNext", "decRead", SetNext(mem, mem.prev[w], mem.next[w]))
    <2>1. Assigns
      BY <1>2, <1>8 DEF Links, Assigns
    <2> QED
      BY <1>1, <1>3, <2>1, LinksLater
  <1>9. CASE CountIn(w) \/ Install(w) \/ CountOut(w)
    <2>1. Assigns
      BY <1>0, <1>9 DEF CountIn, Install, CountOut, ReadNum, WriteNum, listVars, Assigns
    <2> QED
      BY <1>1, <1>3, <2>1, LinksLater
  <1> QED
    BY <1>4, <1>5, <1>6, <1>7, <1>8, <1>9 DEF AddTail, Remove

\* What leaves workerDo and the list alone.
LEMMA LinksKept ==
  ASSUME LinksInv, UNCHANGED <<life, mem, bInit>>
  PROVE  LinksInv'
  BY DEF LinksInv, NextSet, PrevSet, NeedsNext, NeedsPrev

\* The signal, its handler, and what a controller does leave the list alone.
LEMMA LinksSignals ==
  ASSUME LinksInv, NEW w \in Workers,
         \/ Deliver(w) \/ Wait(w) \/ Wake(w) \/ Return(w) \/ Reset(w) \/ Kill(w) \/ Post(w)
  PROVE  LinksInv'
  BY LinksKept DEF Deliver, Wait, Wake, TryTake, Return, Reset, Kill, Post, listVars

-----------------------------------------------------------------------------
(* The programs that use workThread.c.                                    *)

\* Every step keeps the types.
LEMMA StepTypes == WorkTypeOK /\ [ControlNext]_controlVars => WorkTypeOK'
  <1> SUFFICES ASSUME WorkTypeOK, [ControlNext]_controlVars PROVE WorkTypeOK'
    OBVIOUS
  <1>0. Worker \in Workers
    BY ControlAssumption DEF ControlAssumption
  <1>1. CASE UNCHANGED controlVars
    BY <1>1 DEF controlVars, workVars, semVars, listVars, WorkTypeOK
  <1>2. CASE CreateWorker
    BY <1>0, <1>2, CreateTypes DEF CreateWorker
  <1>3. CASE PauseReset \/ PauseKill \/ ResumePost
    BY <1>0, <1>3, SignalTypes DEF PauseReset, PauseKill, ResumePost
  <1>4. CASE WorkerRuns
    BY <1>0, <1>4, RegisterTypes, SignalTypes DEF WorkerRuns
  <1>5. CASE WorkerEnds
    BY <1>0, <1>5, EndTypes DEF WorkerEnds
  <1> QED
    BY <1>1, <1>2, <1>3, <1>4, <1>5 DEF ControlNext

\* The worker, its semaphore and the list's memory keep their types for any
\* controller: stBinarySem.v is never negative (bsem_wait decrements it only
\* when it is not zero), and no link leaves the nodes.
THEOREM TypeCorrect == ControlSpec => []WorkTypeOK
  <1>1. ControlInit => WorkTypeOK
    BY InitTypes DEF ControlInit
  <1> QED
    BY <1>1, StepTypes, PTL DEF ControlSpec

-----------------------------------------------------------------------------
(* No credit is left.  NoCreditLeft alone is not inductive: what a post    *)
(* leaves in the semaphore depends on where the signal and the handler are *)
(* after each command.                                                     *)

\* Where the handler, SIGUSR1 and the semaphore are after each command of a
\* patient controller.
CreditInv ==
    /\ mid \in BOOLEAN /\ cmd \in {"none", "pause", "resume"}
    /\ patient =>
        /\ v[Worker] \in {0, 1} /\ ~stale[Worker]
        /\ pend[Worker] => hand[Worker] = "no" /\ cmd = "pause"
        /\ (hand[Worker] = "no" /\ ~pend[Worker]) \/ cmd # "none"
        /\ mid => v[Worker] = 0 /\ hand[Worker] = "no" /\ ~pend[Worker] /\ cmd # "pause"
        /\ cmd = "pause" => v[Worker] = 0 /\ hand[Worker] \in {"no", "enter", "waiting"}
        /\ cmd = "resume" => \/ hand[Worker] = "woken" /\ v[Worker] = 1
                             \/ hand[Worker] \in {"leave", "no"} /\ v[Worker] = 0
        /\ life[Worker] = "none" => cmd = "none" /\ ~mid

\* What a controller leaves alone while the worker does something else.
LEMMA CreditKept ==
  ASSUME CreditInv, UNCHANGED <<v, stale, hand, pend, cmd, mid, patient>>, life'[Worker] # "none"
  PROVE  CreditInv'
  BY DEF CreditInv

\* No command has been given.
LEMMA CreditInit == ControlInit => CreditInv
  BY ControlAssumption DEF ControlInit, WorkInit, CreditInv, ControlAssumption

\* A step of the worker outside the handler.
LEMMA CreditGoes ==
  ASSUME CreditInv, WorkTypeOK, Register(Worker) \/ Install(Worker) \/ Remove(Worker),
         UNCHANGED <<patient, cmd, mid, ncmds>>
  PROVE  CreditInv'
  <1>1. UNCHANGED <<v, stale, hand, pend>> /\ life'[Worker] # "none"
    <2>0. Worker \in Workers /\ life \in [Workers -> Lives]
      BY ControlAssumption DEF ControlAssumption, WorkTypeOK
    <2>1. ASSUME NEW from, NEW to, to # "none", Goes(Worker, from, to)
          PROVE  UNCHANGED <<v, stale, hand, pend>> /\ life'[Worker] # "none"
      BY <2>0, <2>1 DEF Goes, semVars
    <2>2. CASE Install(Worker)
      BY <2>0, <2>2 DEF Install
    <2>3. CASE Register(Worker)
      <3>1. CASE CheckInit(Worker)
        BY <2>1, <3>1 DEF CheckInit, Links
      <3>2. CASE SetUp(Worker)
        BY <2>1, <3>2 DEF SetUp, Links
      <3>3. CASE AddTail(Worker)
        BY <2>1, <3>3 DEF AddTail, Links
      <3>4. CASE CountIn(Worker)
        BY <2>1, <3>4 DEF CountIn, ReadNum, WriteNum
      <3> QED
        BY <2>3, <3>1, <3>2, <3>3, <3>4 DEF Register
    <2>4. CASE Remove(Worker)
      BY <2>1, <2>4 DEF Remove, Links
    <2> QED
      BY <2>2, <2>3, <2>4
  <1> QED
    BY <1>1, CreditKept

\* A step of the handler, or the end of the worker.
LEMMA CreditHandler ==
  ASSUME CreditInv, WorkTypeOK,
         \/ Deliver(Worker) \/ Wait(Worker) \/ Wake(Worker) \/ Return(Worker) \/ CountOut(Worker),
         UNCHANGED <<patient, cmd, mid, ncmds>>
  PROVE  CreditInv'
  <1>0. /\ Worker \in Workers /\ life \in [Workers -> Lives] /\ v \in [Workers -> Nat]
        /\ hand \in [Workers -> Hands] /\ pend \in [Workers -> BOOLEAN]
        /\ stale \in [Workers -> BOOLEAN]
    BY ControlAssumption DEF ControlAssumption, WorkTypeOK, Hands
  <1>1. CASE Deliver(Worker)
    <2>1. pend[Worker] /\ hand[Worker] = "no" /\ life[Worker] # "none"
      BY <1>1 DEF Deliver, Executes, Alive
    <2>2. /\ pend'[Worker] = FALSE /\ hand'[Worker] \in {"no", "enter"}
          /\ UNCHANGED <<life, v, stale>>
      BY <1>0, <1>1, <2>1 DEF Deliver
    <2> QED
      BY <2>1, <2>2 DEF CreditInv
  <1>2. CASE Wait(Worker) \/ Wake(Worker)
    <2>1. hand[Worker] \in {"enter", "woken"} /\ UNCHANGED <<life, pend>>
      BY <1>2 DEF Wait, Wake, TryTake
    <2>2. CASE v[Worker] = 0
      <3>1. hand'[Worker] = "waiting" /\ UNCHANGED <<v, stale>>
        BY <1>0, <1>2, <2>2 DEF Wait, Wake, TryTake
      <3> QED
        BY <2>1, <2>2, <3>1 DEF CreditInv
    <2>3. CASE v[Worker] # 0
      <3>1. hand'[Worker] = "leave" /\ v'[Worker] = v[Worker] - 1 /\ ~stale'[Worker]
        BY <1>0, <1>2, <2>3 DEF Wait, Wake, TryTake
      <3> QED
        BY <2>1, <2>3, <3>1 DEF CreditInv
    <2> QED
      BY <2>2, <2>3
  <1>3. CASE Return(Worker)
    <2>1. hand[Worker] = "leave" /\ hand'[Worker] = "no" /\ UNCHANGED <<life, pend, v, stale>>
      BY <1>0, <1>3 DEF Return
    <2> QED
      BY <2>1 DEF CreditInv
  <1>4. CASE CountOut(Worker)
    <2>1. CASE ReadNum(Worker, "decRead", "decWrite")
      <3>1. UNCHANGED <<v, stale, hand, pend>> /\ life'[Worker] # "none"
        BY <1>0, <2>1 DEF ReadNum, Goes, semVars
      <3> QED
        BY <3>1, CreditKept
    <2>2. CASE ~ReadNum(Worker, "decRead", "decWrite")
      <3>1. UNCHANGED <<v, hand, stale>> /\ life'[Worker] # "none" /\ pend'[Worker] = FALSE
        BY <1>0, <1>4, <2>2 DEF CountOut
      <3> QED
        BY <3>1 DEF CreditInv
    <2> QED
      BY <2>1, <2>2
  <1> QED
    BY <1>1, <1>2, <1>3, <1>4

\* A command.
LEMMA CreditCommand ==
  ASSUME CreditInv, WorkTypeOK, PauseReset \/ PauseKill \/ ResumePost
  PROVE  CreditInv'
  <1>0. /\ Worker \in Workers /\ life \in [Workers -> Lives] /\ v \in [Workers -> Nat]
        /\ hand \in [Workers -> Hands] /\ pend \in [Workers -> BOOLEAN]
        /\ stale \in [Workers -> BOOLEAN]
    BY ControlAssumption DEF ControlAssumption, WorkTypeOK, Hands
  <1>1. CASE PauseReset
    <2>1. /\ UNCHANGED <<life, hand, pend, patient, cmd>> /\ v'[Worker] = 0 /\ mid' = TRUE
          /\ patient => ~stale'[Worker]
          /\ life[Worker] # "none"
          /\ patient => cmd # "pause" /\ hand[Worker] = "no" /\ ~pend[Worker]
      BY <1>0, <1>1 DEF PauseReset, Reset, MayPause, IsRunning, Created
    <2> QED
      BY <2>1 DEF CreditInv
  <1>2. CASE PauseKill
    <2>1. /\ UNCHANGED <<life, hand, v, stale, patient>> /\ mid /\ mid' = FALSE /\ cmd' = "pause"
          /\ life[Worker] # "none"
      BY <1>2 DEF PauseKill, Kill, Created
    <2> QED
      BY <2>1 DEF CreditInv
  <1>3. CASE ResumePost
    <2>1. /\ UNCHANGED <<life, pend, stale, patient, mid>> /\ ~mid /\ cmd' = "resume"
          /\ life[Worker] # "none" /\ v'[Worker] = v[Worker] + 1
          /\ patient => cmd = "pause" /\ hand[Worker] = "waiting"
      BY <1>0, <1>3 DEF ResumePost, Post, MayResume, IsPaused, Created
    <2>2. patient => hand'[Worker] = "woken"
      BY <1>0, <1>3, <2>1 DEF ResumePost, Post, Signalled, CreditInv
    <2> QED
      BY <2>1, <2>2 DEF CreditInv
  <1> QED
    BY <1>1, <1>2, <1>3

\* Every step keeps it.
LEMMA CreditStep == CreditInv /\ WorkTypeOK /\ [ControlNext]_controlVars => CreditInv'
  <1> SUFFICES ASSUME CreditInv, WorkTypeOK, [ControlNext]_controlVars PROVE CreditInv'
    OBVIOUS
  <1>1. CASE UNCHANGED controlVars
    BY <1>1 DEF controlVars, workVars, semVars, CreditInv
  <1>2. CASE CreateWorker
    <2>1. /\ life[Worker] = "none" /\ life'[Worker] = "checkInit" /\ v'[Worker] = 1
          /\ UNCHANGED <<hand, pend, stale, patient, cmd, mid>>
      BY <1>2, ControlAssumption DEF CreateWorker, Create, WorkTypeOK, ControlAssumption
    <2> QED
      BY <2>1 DEF CreditInv
  <1>3. CASE PauseReset \/ PauseKill \/ ResumePost
    BY <1>3, CreditCommand
  <1>4. CASE WorkerRuns
    BY <1>4, CreditGoes, CreditHandler DEF WorkerRuns
  <1>5. CASE WorkerEnds
    BY <1>5, CreditGoes, CreditHandler DEF WorkerEnds
  <1> QED
    BY <1>1, <1>2, <1>3, <1>4, <1>5 DEF ControlNext

\* For any number of commands of a patient controller: stBinarySem.v is 0 or
\* 1, a paused worker is held by 0, and a resumed one has used up the post,
\* so the next workerPause holds it again.
THEOREM CreditCorrect == ControlSpec => []NoCreditLeft
  <1>1. CreditInv => NoCreditLeft
    BY DEF CreditInv, NoCreditLeft, IsPaused, IsRunning
  <1> QED
    BY <1>1, TypeCorrect, CreditInit, CreditStep, PTL DEF ControlSpec

-----------------------------------------------------------------------------
(* workthread/main.c.                                                      *)

\* What a step of main.c does to the workers, their semaphores and the list
\* is a step of workThread.c, or nothing.
LEMMA DemoSteps ==
  ASSUME [Next]_vars
  PROVE  \/ UNCHANGED workVars
         \/ \E w \in Workers :
              \/ Create(w) \/ Register(w) \/ Remove(w) \/ CountOut(w)
              \/ Install(w) \/ Deliver(w) \/ Wait(w) \/ Wake(w) \/ Return(w)
              \/ Reset(w) \/ Kill(w) \/ Post(w)
  <1>0. Process \in Workers /\ Input \in Workers
    BY DemoAssumption DEF DemoAssumption
  <1>1. CASE UNCHANGED vars \/ Returned \/ Tick
    BY <1>1 DEF vars, Returned, Tick
  <1>2. CASE MainStep
    BY <1>0, <1>2 DEF MainStep, MainCreates, MainRound, MainPauses, MainResumes, MainStops, MainJoins
  <1>3. CASE ControlsInput
    BY <1>0, <1>3 DEF ControlsInput
  <1>4. ASSUME NEW w \in Workers, WorkerStep(w)
        PROVE  \/ UNCHANGED workVars
               \/ Register(w) \/ Remove(w) \/ CountOut(w)
               \/ Install(w) \/ Deliver(w) \/ Wait(w) \/ Wake(w) \/ Return(w)
    BY <1>4 DEF WorkerStep, Starts, SaysHello, ChecksStop, PrintsCount, SaysBye, Ends,
                Interrupted, Holds, Wakes, Resumes, Lock, Unlock
  <1> QED
    BY <1>1, <1>2, <1>3, <1>4 DEF Next

\* The inductive step, whatever the two workers do at the same time.
LEMMA DemoLinksStep == WorkTypeOK /\ LinksInv /\ [Next]_vars => (WorkTypeOK /\ LinksInv)'
  <1> SUFFICES ASSUME WorkTypeOK, LinksInv, [Next]_vars PROVE (WorkTypeOK /\ LinksInv)'
    OBVIOUS
  <1>1. CASE UNCHANGED workVars
    <2>1. WorkTypeOK'
      BY <1>1 DEF workVars, semVars, listVars, WorkTypeOK
    <2>2. LinksInv'
      BY <1>1, LinksKept DEF workVars, listVars
    <2> QED
      BY <2>1, <2>2
  <1>2. ASSUME NEW w \in Workers, Create(w) PROVE (WorkTypeOK /\ LinksInv)'
    BY <1>2, CreateTypes, LinksCreate
  <1>3. ASSUME NEW w \in Workers, Register(w) \/ Remove(w) \/ CountOut(w)
        PROVE  (WorkTypeOK /\ LinksInv)'
    BY <1>3, RegisterTypes, EndTypes, LinksSetUp, LinksWorker DEF Register
  <1>4. ASSUME NEW w \in Workers, Install(w) PROVE (WorkTypeOK /\ LinksInv)'
    BY <1>4, SignalTypes, LinksWorker
  <1>5. ASSUME NEW w \in Workers,
               \/ Deliver(w) \/ Wait(w) \/ Wake(w) \/ Return(w)
               \/ Reset(w) \/ Kill(w) \/ Post(w)
        PROVE  (WorkTypeOK /\ LinksInv)'
    BY <1>5, SignalTypes, LinksSignals
  <1> QED
    BY <1>1, <1>2, <1>3, <1>4, <1>5, DemoSteps

\* Whatever the workers do to the list at the same time, no link that
\* ListAddTail, ListRemove or ListForEach follows is NULL.
THEOREM LinksCorrect == Spec => []LinksSound
  <1>1. Init => WorkTypeOK /\ LinksInv
    BY InitTypes, LinksInit DEF Init
  <1>2. WorkTypeOK /\ LinksInv /\ [Next]_vars => (WorkTypeOK /\ LinksInv)'
    BY DemoLinksStep
  <1> QED
    BY <1>1, <1>2, LinksInvSound, PTL DEF Spec
=============================================================================
