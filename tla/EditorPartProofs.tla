------------------------- MODULE EditorPartProofs --------------------------
(***************************************************************************)
(* The line editor of mysh: its two buffers and its ring implement         *)
(* LineEditor, for every size of the line and the ring, every keyboard and *)
(* every set of keywords.                                                  *)
(***************************************************************************)
EXTENDS EditorPart, FiniteSetTheorems, SequenceTheorems, WellFoundedInduction, TLAPS

\* A set of numbers that is not empty has a least one.
LEMMA LeastNat ==
  ASSUME NEW T, T \subseteq Nat, T # {}
  PROVE  \E x \in T : \A y \in T : x <= y
  <1>1. PICK x \in T : \A y \in T : ~ (<<y, x>> \in OpToRel(<, Nat))
    BY NatLessThanWellFounded, WFMin
  <1>2. \A y \in T : ~ (y < x)
    BY <1>1 DEF OpToRel
  <1> QED
    BY <1>2

\* A line has room for a character and its end.
LEMMA SizeIs == COMMAND_BUF_SIZE \in Nat /\ COMMAND_BUF_SIZE >= 2
  BY LineAssumption DEF LineAssumption

\* The remainder of a number that is at most one modulus away.
LEMMA ModNear ==
  ASSUME NEW w \in Nat \ {0}, NEW n \in Int, n < w, -w <= n
  PROVE  n % w = IF n < 0 THEN n + w ELSE n
  <1>1. CASE n < 0
    <2>1. PICK x \in Int : x = n % w
      OBVIOUS
    <2>2. PICK q \in Int : q = n \div w
      OBVIOUS
    <2>3. n = w * q + x /\ 0 <= x /\ x < w
      BY <2>1, <2>2
    <2>4. q < 0
      <3>1. ASSUME q >= 0 PROVE w * q >= 0
        BY <3>1
      <3> QED
        BY <1>1, <2>3, <3>1
    <2>5. ~(q <= -2)
      <3>1. ASSUME q <= -2 PROVE FALSE
        <4>1. PICK d \in Nat : q = -2 - d
          <5>1. -2 - q \in Nat /\ q = -2 - (-2 - q)
            BY <3>1
          <5> QED
            BY <5>1
        <4>2. w * q = -w - w - w * d /\ w * d \in Nat
          BY <4>1
        <4> QED
          BY <2>3, <4>2
      <3> QED
        BY <3>1
    <2>6. q = -1
      BY <2>4, <2>5
    <2>7. w * q = -w
      BY <2>6
    <2> QED
      BY <1>1, <2>1, <2>3, <2>7
  <1>2. CASE n >= 0
    BY <1>2
  <1> QED
    BY <1>1, <1>2

\* The lesser and the greater of two numbers.
LEMMA TwoOfLine ==
  ASSUME NEW a \in Int, NEW b \in Int
  PROVE  /\ Line!Min({a, b}) = IF a <= b THEN a ELSE b
         /\ Line!Max({a, b}) = IF a <= b THEN b ELSE a
         /\ Line!Ed!Min({a, b}) = IF a <= b THEN a ELSE b
         /\ Line!Ed!Max({a, b}) = IF a <= b THEN b ELSE a
  BY DEF Line!Min, Line!Max, Line!Ed!Min, Line!Ed!Max

\* Two sequences are equal when their elements are.
LEMMA SameSeq ==
  ASSUME NEW S, NEW T, NEW s \in Seq(S), NEW t \in Seq(T), Len(s) = Len(t),
         \A k \in 1..Len(s) : s[k] = t[k]
  PROVE  s = t
  OBVIOUS

\* What is in a line.
Letter == Int \ {0}

\* r is l with m in place of what is between a and b.
Spliced(r, l, a, m, b) ==
    /\ r \in Seq(Letter) /\ Len(r) = a + Len(m) + (Len(l) - b)
    /\ \A k \in 1..(a + Len(m) + (Len(l) - b)) :
          r[k] = IF k <= a THEN l[k] ELSE IF k <= a + Len(m) THEN m[k - a] ELSE l[k - a - Len(m) + b]

\* r is l without what is between a and b.
CutOut(r, l, a, b) ==
    /\ r \in Seq(Letter) /\ Len(r) = a + (Len(l) - b)
    /\ \A k \in 1..(a + (Len(l) - b)) : r[k] = IF k <= a THEN l[k] ELSE l[k - a + b]

Splice(l, a, m, b) == SubSeq(l, 1, a) \o m \o SubSeq(l, b + 1, Len(l))
Cut(l, a, b) == SubSeq(l, 1, a) \o SubSeq(l, b + 1, Len(l))

\* A line with a part in the middle replaced.
LEMMA SpliceIs ==
  ASSUME NEW l \in Seq(Letter), NEW m \in Seq(Letter), NEW a \in Nat, NEW b \in Nat, a <= Len(l), b <= Len(l)
  PROVE  Spliced(Splice(l, a, m, b), l, a, m, b)
  <1>1. PICK c \in Nat : c = Len(l)
    OBVIOUS
  <1>2. PICK h : h = SubSeq(l, 1, a)
    OBVIOUS
  <1>3. h \in Seq(Letter) /\ Len(h) = a /\ \A k \in 1..a : h[k] = l[k]
    BY <1>1, <1>2, SubSeqProperties
  <1>4. PICK r : r = SubSeq(l, b + 1, c)
    OBVIOUS
  <1>5. r \in Seq(Letter) /\ Len(r) = c - b /\ \A k \in 1..(c - b) : r[k] = l[b + k]
    <2>1. \A k \in (b + 1)..c : l[k] \in Letter
      BY <1>1
    <2>2. PICK s \in Int : s = b + 1
      OBVIOUS
    <2>3. r = SubSeq(l, s, c) /\ c \in Int /\ \A k \in s..c : l[k] \in Letter
      BY <1>1, <1>4, <2>1, <2>2
    <2>4. /\ r \in Seq(Letter) /\ Len(r) = IF s <= c THEN c - s + 1 ELSE 0
          /\ \A k \in 1..(c - s + 1) : r[k] = l[s + k - 1]
      BY <2>2, <2>3, SubSeqProperties
    <2>5. \A k \in 1..(c - b) : s + k - 1 = b + k
      BY <1>1, <2>2
    <2> QED
      BY <1>1, <2>2, <2>4, <2>5
  <1>6. PICK x : x = h \o m
    OBVIOUS
  <1>7. PICK d \in Nat : d = Len(m)
    OBVIOUS
  <1>8. x \in Seq(Letter) /\ Len(x) = a + d /\ \A k \in 1..(a + d) : x[k] = IF k <= a THEN h[k] ELSE m[k - a]
    BY <1>3, <1>6, <1>7, ConcatProperties
  <1>9. PICK y : y = x \o r
    OBVIOUS
  <1>10. /\ y \in Seq(Letter) /\ Len(y) = a + d + (c - b)
         /\ \A k \in 1..(a + d + (c - b)) : y[k] = IF k <= a + d THEN x[k] ELSE r[k - (a + d)]
    <2>1. x \in Seq(Letter) /\ r \in Seq(Letter) /\ y = x \o r
      BY <1>5, <1>8, <1>9
    <2>2. /\ y \in Seq(Letter) /\ Len(y) = Len(x) + Len(r)
          /\ \A k \in 1..(Len(x) + Len(r)) : y[k] = IF k <= Len(x) THEN x[k] ELSE r[k - Len(x)]
      BY ONLY <2>1, ConcatProperties
    <2>3. Len(x) = a + d /\ Len(r) = c - b
      BY <1>5, <1>8
    <2> QED
      BY <2>2, <2>3
  <1>11. ASSUME NEW k \in 1..(a + d + (c - b))
         PROVE  y[k] = IF k <= a THEN l[k] ELSE IF k <= a + d THEN m[k - a] ELSE l[k - a - d + b]
    <2>1. CASE k <= a + d
      <3>1. y[k] = x[k] /\ k \in 1..(a + d)
        BY <1>10, <2>1
      <3> QED
        BY ONLY <1>3, <1>8, <2>1, <3>1
    <2>2. CASE ~(k <= a + d)
      <3>1. y[k] = r[k - (a + d)] /\ k - (a + d) \in 1..(c - b) /\ ~(k <= a)
        BY ONLY <1>1, <1>10, <2>2
      <3>2. b + (k - (a + d)) = k - a - d + b
        BY <1>1
      <3> QED
        BY <1>5, <2>2, <3>1, <3>2
    <2> QED
      BY <2>1, <2>2
  <1>12. Splice(l, a, m, b) = y
    BY <1>1, <1>2, <1>4, <1>6, <1>9 DEF Splice
  <1> QED
    BY <1>1, <1>7, <1>10, <1>11, <1>12 DEF Spliced

\* A line with a part cut out.
LEMMA CutIs ==
  ASSUME NEW l \in Seq(Letter), NEW a \in Nat, NEW b \in Nat, a <= Len(l), b <= Len(l)
  PROVE  CutOut(Cut(l, a, b), l, a, b)
  <1>1. PICK c \in Nat : c = Len(l)
    OBVIOUS
  <1>2. PICK x : x = SubSeq(l, 1, a)
    OBVIOUS
  <1>3. x \in Seq(Letter) /\ Len(x) = a /\ \A k \in 1..a : x[k] = l[k]
    BY <1>1, <1>2, SubSeqProperties
  <1>4. PICK r : r = SubSeq(l, b + 1, c)
    OBVIOUS
  <1>5. r \in Seq(Letter) /\ Len(r) = c - b /\ \A k \in 1..(c - b) : r[k] = l[b + k]
    <2>1. \A k \in (b + 1)..c : l[k] \in Letter
      BY <1>1
    <2>2. PICK s \in Int : s = b + 1
      OBVIOUS
    <2>3. r = SubSeq(l, s, c) /\ c \in Int /\ \A k \in s..c : l[k] \in Letter
      BY <1>1, <1>4, <2>1, <2>2
    <2>4. /\ r \in Seq(Letter) /\ Len(r) = IF s <= c THEN c - s + 1 ELSE 0
          /\ \A k \in 1..(c - s + 1) : r[k] = l[s + k - 1]
      BY <2>2, <2>3, SubSeqProperties
    <2>5. \A k \in 1..(c - b) : s + k - 1 = b + k
      BY <1>1, <2>2
    <2> QED
      BY <1>1, <2>2, <2>4, <2>5
  <1>6. PICK y : y = x \o r
    OBVIOUS
  <1>7. /\ y \in Seq(Letter) /\ Len(y) = a + (c - b)
        /\ \A k \in 1..(a + (c - b)) : y[k] = IF k <= a THEN x[k] ELSE r[k - a]
    <2>1. x \in Seq(Letter) /\ r \in Seq(Letter) /\ y = x \o r
      BY <1>3, <1>5, <1>6
    <2>2. /\ y \in Seq(Letter) /\ Len(y) = Len(x) + Len(r)
          /\ \A k \in 1..(Len(x) + Len(r)) : y[k] = IF k <= Len(x) THEN x[k] ELSE r[k - Len(x)]
      BY ONLY <2>1, ConcatProperties
    <2>3. Len(x) = a /\ Len(r) = c - b
      BY <1>3, <1>5
    <2> QED
      BY <2>2, <2>3
  <1>8. ASSUME NEW k \in 1..(a + (c - b)) PROVE y[k] = IF k <= a THEN l[k] ELSE l[k - a + b]
    <2>1. CASE k <= a
      BY <1>3, <1>7, <2>1
    <2>2. CASE ~(k <= a)
      <3>1. y[k] = r[k - a] /\ k - a \in 1..(c - b)
        BY <1>1, <1>7, <2>2
      <3>2. b + (k - a) = k - a + b
        BY <1>1
      <3> QED
        BY <1>5, <2>2, <3>1, <3>2
    <2> QED
      BY <2>1, <2>2
  <1>9. Cut(l, a, b) = y
    BY <1>1, <1>2, <1>4, <1>6 DEF Cut
  <1> QED
    BY <1>1, <1>7, <1>8, <1>9 DEF CutOut

\* The buffers: the text before the cursor, and the
\* text after it at the end of the second one.
Holds(inp, c, exp, e) ==
    /\ inp \in [0 .. COMMAND_BUF_SIZE - 1 -> Int] /\ exp \in [0 .. COMMAND_BUF_SIZE - 1 -> Int]
    /\ c \in 0 .. COMMAND_BUF_SIZE /\ e \in -1 .. COMMAND_BUF_SIZE - 2
    /\ \A k \in 0 .. c - 1 : inp[k] # 0
    /\ \A k \in e + 1 .. COMMAND_BUF_SIZE - 2 : exp[k] > 0
    /\ exp[COMMAND_BUF_SIZE - 1] = 0

\* The line they hold.
TextOf(inp, c, exp, e) ==
    [k \in 1 .. c + (COMMAND_BUF_SIZE - 2 - e) |-> IF k <= c THEN inp[k - 1] ELSE exp[e + k - c]]

\* It is a line.
LEMMA TextIs ==
  ASSUME NEW inp, NEW c, NEW exp, NEW e, Holds(inp, c, exp, e)
  PROVE  /\ c \in Nat /\ e \in Int /\ COMMAND_BUF_SIZE - 2 - e \in Nat /\ c <= COMMAND_BUF_SIZE
         /\ TextOf(inp, c, exp, e) \in Seq(Letter)
         /\ Len(TextOf(inp, c, exp, e)) = c + (COMMAND_BUF_SIZE - 2 - e)
         /\ \A k \in 1 .. c + (COMMAND_BUF_SIZE - 2 - e) :
               TextOf(inp, c, exp, e)[k] = IF k <= c THEN inp[k - 1] ELSE exp[e + k - c]
  <1>1. PICK N \in Nat : N = COMMAND_BUF_SIZE /\ N >= 2
    BY LineAssumption DEF LineAssumption
  <1>2. c \in Nat /\ e \in Int /\ N - 2 - e \in Nat /\ c <= N
    BY <1>1 DEF Holds
  <1>3. PICK n \in Nat : n = c + (N - 2 - e)
    BY <1>2
  <1>4. \A k \in 1..n : (IF k <= c THEN inp[k - 1] ELSE exp[e + k - c]) \in Letter
    <2>1. SUFFICES ASSUME NEW k \in 1..n PROVE (IF k <= c THEN inp[k - 1] ELSE exp[e + k - c]) \in Letter
      OBVIOUS
    <2>2. CASE k <= c
      <3>1. k - 1 \in 0..(c - 1) /\ k - 1 \in 0..(N - 1)
        BY <1>2, <2>2
      <3>2. inp[k - 1] # 0 /\ inp[k - 1] \in Int
        BY <1>1, <3>1 DEF Holds
      <3> QED
        BY <2>2, <3>2 DEF Letter
    <2>3. CASE ~(k <= c)
      <3>1. e + k - c \in (e + 1)..(N - 2) /\ e + k - c \in 0..(N - 1)
        BY <1>1, <1>2, <1>3, <2>3 DEF Holds
      <3>2. exp[e + k - c] > 0 /\ exp[e + k - c] \in Int
        BY <1>1, <3>1 DEF Holds
      <3>3. exp[e + k - c] # 0
        BY <3>2
      <3> QED
        BY <2>3, <3>2, <3>3 DEF Letter
    <2> QED
      BY <2>2, <2>3
  <1>5. PICK l : l = TextOf(inp, c, exp, e)
    OBVIOUS
  <1>6. l = [k \in 1..n |-> IF k <= c THEN inp[k - 1] ELSE exp[e + k - c]]
    BY <1>1, <1>3, <1>5 DEF TextOf
  <1>7. l \in Seq(Letter) /\ Len(l) = n
    BY <1>4, <1>6
  <1> QED
    BY <1>1, <1>2, <1>3, <1>5, <1>6, <1>7

\* The text after the cursor ends at the end of the buffer.
LEMMA StopIs ==
  ASSUME NEW inp, NEW c, NEW exp, NEW e, Holds(inp, c, exp, e)
  PROVE  Line!Min({k \in Line!Cells : k > e /\ exp[k] <= 0}) = COMMAND_BUF_SIZE - 1
  <1>1. PICK N \in Nat : N = COMMAND_BUF_SIZE /\ N >= 2
    BY LineAssumption DEF LineAssumption
  <1>2. PICK T : T = {k \in Line!Cells : k > e /\ exp[k] <= 0}
    OBVIOUS
  <1>3. N - 1 \in T
    BY <1>1, <1>2 DEF Holds, Line!Cells
  <1>4. ASSUME NEW k \in T PROVE k = N - 1
    <2>1. k \in 0..(N - 1) /\ k > e /\ exp[k] <= 0
      BY <1>1, <1>2 DEF Line!Cells
    <2>2. e \in Int
      BY TextIs
    <2>3. ~(k \in (e + 1)..(N - 2))
      <3>1. k \in (e + 1)..(N - 2) => exp[k] > 0 /\ exp[k] \in Int
        BY <1>1, <2>1 DEF Holds
      <3> QED
        BY <2>1, <3>1
    <2> QED
      BY <1>1, <2>1, <2>2, <2>3
  <1>5. T = {N - 1}
    BY <1>3, <1>4
  <1>6. Line!Min({N - 1}) = N - 1
    BY <1>1 DEF Line!Min
  <1> QED
    BY <1>1, <1>2, <1>5, <1>6

\* The parts of the line.
Ahead(inp, c) == [k \in 1 .. c |-> inp[k - 1]]
Behind(exp, e) == [k \in 1 .. COMMAND_BUF_SIZE - 2 - e |-> exp[e + k]]

\* They make it up.
LEMMA JoinIs ==
  ASSUME NEW inp, NEW c, NEW exp, NEW e, Holds(inp, c, exp, e)
  PROVE  /\ Ahead(inp, c) \in Seq(Letter) /\ Len(Ahead(inp, c)) = c
         /\ Behind(exp, e) \in Seq(Letter) /\ Len(Behind(exp, e)) = COMMAND_BUF_SIZE - 2 - e
         /\ Ahead(inp, c) \o Behind(exp, e) = TextOf(inp, c, exp, e)
  <1>1. PICK N \in Nat : N = COMMAND_BUF_SIZE /\ N >= 2
    BY LineAssumption DEF LineAssumption
  <1>2. PICK d \in Nat : d = N - 2 - e /\ c \in Nat /\ e \in Int /\ c <= N
    BY <1>1, TextIs
  <1>3. PICK x : x = Ahead(inp, c)
    OBVIOUS
  <1>4. x \in Seq(Letter) /\ Len(x) = c /\ \A k \in 1..c : x[k] = inp[k - 1]
    <2>1. x = [k \in 1..c |-> inp[k - 1]]
      BY <1>3 DEF Ahead
    <2>2. \A k \in 1..c : inp[k - 1] \in Letter
      <3>1. \A k \in 1..c : k - 1 \in 0..(c - 1) /\ k - 1 \in 0..(N - 1)
        BY <1>2
      <3> QED
        BY <1>1, <3>1 DEF Holds, Letter
    <2> QED
      BY <1>2, <2>1, <2>2
  <1>5. PICK y : y = Behind(exp, e)
    OBVIOUS
  <1>6. y \in Seq(Letter) /\ Len(y) = d /\ \A k \in 1..d : y[k] = exp[e + k]
    <2>1. y = [k \in 1..d |-> exp[e + k]]
      BY <1>1, <1>2, <1>5 DEF Behind
    <2>2. \A k \in 1..d : exp[e + k] \in Letter
      <3>1. ASSUME NEW k \in 1..d PROVE exp[e + k] \in Letter
        <4>1. e + k \in (e + 1)..(N - 2) /\ e + k \in 0..(N - 1)
          BY <1>1, <1>2 DEF Holds
        <4>2. exp[e + k] > 0 /\ exp[e + k] \in Int
          BY <1>1, <4>1 DEF Holds
        <4>3. exp[e + k] # 0
          BY <4>2
        <4> QED
          BY <4>2, <4>3 DEF Letter
      <3> QED
        BY <3>1
    <2> QED
      BY <1>2, <2>1, <2>2
  <1>7. PICK z : z = x \o y
    OBVIOUS
  <1>8. z \in Seq(Letter) /\ Len(z) = c + d /\ \A k \in 1..(c + d) : z[k] = IF k <= c THEN x[k] ELSE y[k - c]
    <2>1. x \in Seq(Letter) /\ y \in Seq(Letter) /\ z = x \o y
      BY <1>4, <1>6, <1>7
    <2>2. /\ z \in Seq(Letter) /\ Len(z) = Len(x) + Len(y)
          /\ \A k \in 1..(Len(x) + Len(y)) : z[k] = IF k <= Len(x) THEN x[k] ELSE y[k - Len(x)]
      BY ONLY <2>1, ConcatProperties
    <2> QED
      BY <1>4, <1>6, <2>2
  <1>9. PICK l : l = TextOf(inp, c, exp, e)
    OBVIOUS
  <1>10. l \in Seq(Letter) /\ Len(l) = c + d /\ \A k \in 1..(c + d) : l[k] = IF k <= c THEN inp[k - 1] ELSE exp[e + k - c]
    <2>1. /\ l \in Seq(Letter) /\ Len(l) = c + (COMMAND_BUF_SIZE - 2 - e)
          /\ \A k \in 1..(c + (COMMAND_BUF_SIZE - 2 - e)) : l[k] = IF k <= c THEN inp[k - 1] ELSE exp[e + k - c]
      BY <1>9, TextIs
    <2>2. d = COMMAND_BUF_SIZE - 2 - e
      BY <1>1, <1>2
    <2> QED
      BY ONLY <2>1, <2>2
  <1>11. \A k \in 1..Len(z) : z[k] = l[k]
    <2>1. SUFFICES ASSUME NEW k \in 1..(c + d) PROVE z[k] = l[k]
      BY <1>8
    <2>2. CASE k <= c
      <3>1. k \in 1..c
        BY <1>2, <2>2
      <3> QED
        BY <1>4, <1>8, <1>10, <2>2, <3>1
    <2>3. CASE ~(k <= c)
      <3>1. k - c \in 1..d /\ e + (k - c) = e + k - c
        BY <1>2, <2>3
      <3> QED
        BY <1>6, <1>8, <1>10, <2>3, <3>1
    <2> QED
      BY <2>2, <2>3
  <1>12. z = l
    BY <1>8, <1>10, <1>11, SameSeq
  <1> QED
    BY <1>1, <1>2, <1>3, <1>4, <1>5, <1>6, <1>7, <1>9, <1>12

\* t is the line they hold.
IsText(t, inp, c, exp, e) ==
    /\ t \in Seq(Letter) /\ Len(t) = c + (COMMAND_BUF_SIZE - 2 - e)
    /\ \A k \in 1 .. c + (COMMAND_BUF_SIZE - 2 - e) : t[k] = IF k <= c THEN inp[k - 1] ELSE exp[e + k - c]

\* The line is that.
LEMMA TextText ==
  ASSUME NEW inp, NEW c, NEW exp, NEW e, Holds(inp, c, exp, e)
  PROVE  IsText(TextOf(inp, c, exp, e), inp, c, exp, e)
  BY TextIs DEF IsText

\* What an ordinary character does.
Types(inp, c, exp, e, l, ch, in2) ==
    l = TextOf(inp, c, exp, e) /\ c < COMMAND_BUF_SIZE /\ ch \in Letter /\ in2 = [inp EXCEPT ![c] = ch]

\* An ordinary character is put before the cursor.
LEMMA TypeText ==
  ASSUME NEW inp, NEW c, NEW exp, NEW e, Holds(inp, c, exp, e),
         NEW l, NEW ch, NEW in2, Types(inp, c, exp, e, l, ch, in2)
  PROVE  /\ Holds(in2, c + 1, exp, e)
         /\ TextOf(in2, c + 1, exp, e) = Splice(l, c, <<ch>>, c)
  <1>0. l = TextOf(inp, c, exp, e) /\ c < COMMAND_BUF_SIZE /\ ch \in Letter /\ in2 = [inp EXCEPT ![c] = ch]
    BY DEF Types
  <1> USE <1>0
  <1>1. PICK N \in Nat : N = COMMAND_BUF_SIZE /\ N >= 2
    BY LineAssumption DEF LineAssumption
  <1>2. c \in Nat /\ e \in Int /\ N - 2 - e \in Nat /\ c < N /\ c \in 0..(N - 1) /\ ch \in Int /\ ch # 0
    BY <1>1, TextIs DEF Letter
  <1>3. in2 \in [0..(N - 1) -> Int] /\ in2[c] = ch /\ \A k \in 0..(N - 1) : k # c => in2[k] = inp[k]
    BY <1>1, <1>2 DEF Holds
  <1>4. Holds(in2, c + 1, exp, e)
    <2>1. \A k \in 0..c : in2[k] # 0
      <3>1. ASSUME NEW k \in 0..c PROVE in2[k] # 0
        <4>1. k \in 0..(N - 1) /\ (k # c => k \in 0..(c - 1))
          BY <1>2
        <4> QED
          BY <1>2, <1>3, <4>1 DEF Holds
      <3> QED
        BY <3>1
    <2>2. c + 1 \in 0..N /\ (c + 1) - 1 = c
      BY <1>2
    <2> QED
      BY <1>1, <1>3, <2>1, <2>2 DEF Holds
  <1>5. PICK d \in Nat : d = N - 2 - e
    BY <1>2
  <1>6. l \in Seq(Letter) /\ Len(l) = c + d /\ \A k \in 1..(c + d) : l[k] = IF k <= c THEN inp[k - 1] ELSE exp[e + k - c]
    BY <1>1, <1>5, TextText DEF IsText
  <1>7. PICK t : t = TextOf(in2, c + 1, exp, e)
    OBVIOUS
  <1>8. /\ t \in Seq(Letter) /\ Len(t) = c + 1 + d
        /\ \A k \in 1..(c + 1 + d) : t[k] = IF k <= c + 1 THEN in2[k - 1] ELSE exp[e + k - (c + 1)]
    <2>1. IsText(t, in2, c + 1, exp, e)
      BY <1>4, <1>7, TextText
    <2> QED
      BY <1>1, <1>5, <2>1 DEF IsText
  <1>9. PICK r, m : m = <<ch>> /\ r = Splice(l, c, m, c)
    OBVIOUS
  <1>10. m \in Seq(Letter) /\ Len(m) = 1 /\ m[1] = ch
    BY <1>9
  <1>11. /\ r \in Seq(Letter) /\ Len(r) = c + 1 + d
         /\ \A k \in 1..(c + 1 + d) : r[k] = IF k <= c THEN l[k] ELSE IF k <= c + 1 THEN m[k - c] ELSE l[k - c - 1 + c]
    <2>1. Spliced(r, l, c, m, c)
      <3>1. l \in Seq(Letter) /\ m \in Seq(Letter) /\ c \in Nat /\ c <= Len(l) /\ r = Splice(l, c, m, c)
        BY <1>2, <1>6, <1>9, <1>10
      <3> QED
        BY ONLY <3>1, SpliceIs
    <2>2. Len(m) = 1 /\ Len(l) - c = d
      BY <1>2, <1>6, <1>10
    <2> QED
      BY <2>1, <2>2 DEF Spliced
  <1>12. ASSUME NEW k \in 1..(c + 1 + d) PROVE t[k] = r[k]
    <2>1. CASE k <= c
      <3>1. k \in 1..(c + d) /\ k <= c + 1 /\ k - 1 \in 0..(N - 1) /\ k - 1 # c
        BY <1>2, <2>1
      <3> QED
        BY <1>3, <1>6, <1>8, <1>11, <2>1, <3>1
    <2>2. CASE k = c + 1
      <3>1. ~(k <= c) /\ k - c = 1 /\ k - 1 = c /\ k <= c + 1
        BY <1>2, <2>2
      <3> QED
        BY <1>3, <1>8, <1>10, <1>11, <3>1
    <2>3. CASE k > c + 1
      <3>1. /\ ~(k <= c) /\ ~(k <= c + 1) /\ k - c - 1 + c = k - 1 /\ k - 1 \in 1..(c + d)
            /\ ~(k - 1 <= c) /\ e + (k - 1) - c = e + k - (c + 1)
        BY <1>2, <2>3
      <3> QED
        BY <1>6, <1>8, <1>11, <3>1
    <2> QED
      BY <1>2, <2>1, <2>2, <2>3
  <1>13. t = r
    BY <1>8, <1>11, <1>12, SameSeq
  <1> QED
    BY <1>4, <1>7, <1>9, <1>13

\* What backspace does.
Backs(inp, c, exp, e, l, in2) ==
    l = TextOf(inp, c, exp, e) /\ c > 0 /\ c < COMMAND_BUF_SIZE /\ in2 = [inp EXCEPT ![c] = 0]

\* Backspace.
LEMMA BackText ==
  ASSUME NEW inp, NEW c, NEW exp, NEW e, Holds(inp, c, exp, e),
         NEW l, NEW in2, Backs(inp, c, exp, e, l, in2)
  PROVE  Holds(in2, c - 1, exp, e) /\ TextOf(in2, c - 1, exp, e) = Cut(l, c - 1, c)
  <1>0. l = TextOf(inp, c, exp, e) /\ c > 0 /\ c < COMMAND_BUF_SIZE /\ in2 = [inp EXCEPT ![c] = 0]
    BY DEF Backs
  <1> USE <1>0
  <1>1. PICK N \in Nat : N = COMMAND_BUF_SIZE /\ N >= 2
    BY LineAssumption DEF LineAssumption
  <1>2. c \in Nat /\ e \in Int /\ N - 2 - e \in Nat /\ c <= N
    BY <1>1, TextIs
  <1>3. PICK d \in Nat : d = N - 2 - e
    BY <1>2
  <1>4. /\ c > 0 /\ c < N /\ in2 \in [0..(N - 1) -> Int] /\ \A k \in 0..(N - 1) : k # c => in2[k] = inp[k]
    BY <1>1 DEF Holds
  <1>5. Holds(in2, c - 1, exp, e)
    <2>1. \A k \in 0..((c - 1) - 1) : k \in 0..(N - 1) /\ k # c /\ k \in 0..(c - 1)
      BY <1>2
    <2>2. \A k \in 0..((c - 1) - 1) : in2[k] # 0
      BY <1>4, <2>1 DEF Holds
    <2>3. c - 1 \in 0..N
      BY <1>2, <1>4
    <2> QED
      BY <1>1, <1>4, <2>2, <2>3 DEF Holds
  <1>6. l \in Seq(Letter) /\ Len(l) = c + d /\ \A k \in 1..(c + d) : l[k] = IF k <= c THEN inp[k - 1] ELSE exp[e + k - c]
    <2>1. d = COMMAND_BUF_SIZE - 2 - e
      BY <1>1, <1>3
    <2> QED
      BY <2>1, TextText DEF IsText
  <1>7. PICK t : t = TextOf(in2, c - 1, exp, e)
    OBVIOUS
  <1>8. /\ t \in Seq(Letter) /\ Len(t) = c - 1 + d
        /\ \A k \in 1..(c - 1 + d) : t[k] = IF k <= c - 1 THEN in2[k - 1] ELSE exp[e + k - (c - 1)]
    <2>1. IsText(t, in2, c - 1, exp, e)
      BY <1>5, <1>7, TextText
    <2>2. (c - 1) + (COMMAND_BUF_SIZE - 2 - (e)) = c - 1 + d
      BY <1>1, <1>2, <1>3
    <2> QED
      BY ONLY <2>1, <2>2 DEF IsText
  <1>9. PICK r : r = Cut(l, c - 1, c)
    OBVIOUS
  <1>10. r \in Seq(Letter) /\ Len(r) = c - 1 + d /\ \A k \in 1..(c - 1 + d) : r[k] = IF k <= c - 1 THEN l[k] ELSE l[k - (c - 1) + (c)]
    <2>1. CutOut(r, l, c - 1, c)
      <3>1. l \in Seq(Letter) /\ c - 1 \in Nat /\ c \in Nat /\ c - 1 <= Len(l) /\ c <= Len(l) /\ r = Cut(l, c - 1, c)
        BY <1>2, <1>3, <1>6, <1>9, <1>4
      <3> QED
        BY ONLY <3>1, CutIs
    <2>2. (c - 1) + (Len(l) - (c)) = c - 1 + d
      BY <1>2, <1>3, <1>6
    <2> QED
      BY ONLY <2>1, <2>2 DEF CutOut
  <1>11. ASSUME NEW k \in 1..(c - 1 + d) PROVE t[k] = r[k]
    <2>1. CASE k <= c - 1
      <3>1. k \in 1..(c + d) /\ k <= c /\ k - 1 \in 0..(N - 1) /\ k - 1 # c
        BY <1>2, <1>3, <1>4, <2>1
      <3> QED
        BY <1>4, <1>6, <1>8, <1>10, <2>1, <3>1
    <2>2. CASE ~(k <= c - 1)
      <3>1. k - (c - 1) + c = k + 1 /\ k + 1 \in 1..(c + d) /\ ~(k + 1 <= c) /\ e + (k + 1) - c = e + k - (c - 1)
        BY <1>2, <1>3, <1>4, <2>2
      <3> QED
        BY <1>6, <1>8, <1>10, <2>2, <3>1
    <2> QED
      BY <1>2, <1>3, <2>1, <2>2
  <1>12. t = r
    BY <1>8, <1>10, <1>11, SameSeq
  <1> QED
    BY <1>5, <1>7, <1>9, <1>12

\* What del does.
Dels(inp, c, exp, e, l, in2, ex2) ==
    /\ l = TextOf(inp, c, exp, e) /\ c + 1 < COMMAND_BUF_SIZE /\ e < COMMAND_BUF_SIZE - 2
    /\ in2 = [inp EXCEPT ![c] = exp[e + 1], ![c + 1] = 0] /\ ex2 = [exp EXCEPT ![e + 1] = 0]

\* Delete.
LEMMA DeleteText ==
  ASSUME NEW inp, NEW c, NEW exp, NEW e, Holds(inp, c, exp, e),
         NEW l, NEW in2, NEW ex2, Dels(inp, c, exp, e, l, in2, ex2)
  PROVE  Holds(in2, c, ex2, e + 1) /\ TextOf(in2, c, ex2, e + 1) = Cut(l, c, c + 1)
  <1>0. /\ l = TextOf(inp, c, exp, e) /\ c + 1 < COMMAND_BUF_SIZE /\ e < COMMAND_BUF_SIZE - 2
        /\ in2 = [inp EXCEPT ![c] = exp[e + 1], ![c + 1] = 0] /\ ex2 = [exp EXCEPT ![e + 1] = 0]
    BY DEF Dels
  <1> USE <1>0
  <1>1. PICK N \in Nat : N = COMMAND_BUF_SIZE /\ N >= 2
    BY LineAssumption DEF LineAssumption
  <1>2. c \in Nat /\ e \in Int /\ N - 2 - e \in Nat /\ c <= N
    BY <1>1, TextIs
  <1>3. PICK d \in Nat : d = N - 2 - e
    BY <1>2
  <1>4. /\ c < N /\ d > 0 /\ in2 \in [0..(N - 1) -> Int] /\ ex2 \in [0..(N - 1) -> Int]
        /\ \A k \in 0..(N - 1) : k # e + 1 => ex2[k] = exp[k]
        /\ \A k \in 0..(N - 1) : k < c => in2[k] = inp[k]
    <2>1. c \in 0..(N - 1) /\ e + 1 \in 0..(N - 2) /\ e + 1 \in 0..(N - 1) /\ e + 1 \in (e + 1)..(N - 2)
      BY <1>1, <1>2, <1>3 DEF Holds
    <2>2. exp[e + 1] \in Int /\ exp[e + 1] > 0
      BY <1>1, <2>1 DEF Holds
    <2> QED
      BY <1>1, <1>2, <1>3, <2>1, <2>2 DEF Holds
  <1>5. Holds(in2, c, ex2, e + 1)
    <2>1. \A k \in 0..(c - 1) : k \in 0..(N - 1) /\ k < c
      BY <1>2
    <2>2. \A k \in 0..(c - 1) : in2[k] # 0
      BY <1>4, <2>1 DEF Holds
    <2>3. \A k \in ((e + 1) + 1)..(N - 2) : k \in (e + 1)..(N - 2) /\ k \in 0..(N - 1) /\ k # e + 1
      BY <1>1, <1>2 DEF Holds
    <2>4. \A k \in ((e + 1) + 1)..(N - 2) : ex2[k] > 0
      BY <1>1, <1>4, <2>3 DEF Holds
    <2>5. ex2[N - 1] = 0
      <3>1. N - 1 \in 0..(N - 1) /\ N - 1 # e + 1
        BY <1>1, <1>2, <1>3, <1>4
      <3> QED
        BY <1>1, <1>4, <3>1 DEF Holds
    <2>6. e + 1 \in -1..(N - 2)
      BY <1>1, <1>2, <1>3, <1>4 DEF Holds
    <2> QED
      BY <1>1, <1>4, <2>2, <2>4, <2>5, <2>6 DEF Holds
  <1>6. l \in Seq(Letter) /\ Len(l) = c + d /\ \A k \in 1..(c + d) : l[k] = IF k <= c THEN inp[k - 1] ELSE exp[e + k - c]
    <2>1. d = COMMAND_BUF_SIZE - 2 - e
      BY <1>1, <1>3
    <2> QED
      BY <2>1, TextText DEF IsText
  <1>7. PICK t : t = TextOf(in2, c, ex2, e + 1)
    OBVIOUS
  <1>8. /\ t \in Seq(Letter) /\ Len(t) = c + d - 1
        /\ \A k \in 1..(c + d - 1) : t[k] = IF k <= c THEN in2[k - 1] ELSE ex2[e + 1 + k - (c)]
    <2>1. IsText(t, in2, c, ex2, e + 1)
      BY <1>5, <1>7, TextText
    <2>2. (c) + (COMMAND_BUF_SIZE - 2 - (e + 1)) = c + d - 1
      BY <1>1, <1>2, <1>3
    <2> QED
      BY ONLY <2>1, <2>2 DEF IsText
  <1>9. PICK r : r = Cut(l, c, c + 1)
    OBVIOUS
  <1>10. r \in Seq(Letter) /\ Len(r) = c + d - 1 /\ \A k \in 1..(c + d - 1) : r[k] = IF k <= c THEN l[k] ELSE l[k - (c) + (c + 1)]
    <2>1. CutOut(r, l, c, c + 1)
      <3>1. l \in Seq(Letter) /\ c \in Nat /\ c + 1 \in Nat /\ c <= Len(l) /\ c + 1 <= Len(l) /\ r = Cut(l, c, c + 1)
        BY <1>2, <1>3, <1>6, <1>9, <1>4
      <3> QED
        BY ONLY <3>1, CutIs
    <2>2. (c) + (Len(l) - (c + 1)) = c + d - 1
      BY <1>2, <1>3, <1>6
    <2> QED
      BY ONLY <2>1, <2>2 DEF CutOut
  <1>11. ASSUME NEW k \in 1..(c + d - 1) PROVE t[k] = r[k]
    <2>1. CASE k <= c
      <3>1. k \in 1..(c + d) /\ k - 1 \in 0..(N - 1) /\ k - 1 < c
        BY <1>2, <1>3, <1>4, <2>1
      <3> QED
        BY <1>4, <1>6, <1>8, <1>10, <2>1, <3>1
    <2>2. CASE ~(k <= c)
      <3>1. /\ k - c + (c + 1) = k + 1 /\ k + 1 \in 1..(c + d) /\ ~(k + 1 <= c) /\ e + (k + 1) - c = (e + 1) + k - c
            /\ (e + 1) + k - c \in 0..(N - 1) /\ (e + 1) + k - c # e + 1
        BY <1>2, <1>3, <1>4, <2>2
      <3> QED
        BY <1>4, <1>6, <1>8, <1>10, <2>2, <3>1
    <2> QED
      BY <1>2, <1>3, <2>1, <2>2
  <1>12. t = r
    BY <1>8, <1>10, <1>11, SameSeq
  <1> QED
    BY <1>5, <1>7, <1>9, <1>12

\* What right does.
Rights(inp, c, exp, e, l, in2, ex2) ==
    /\ l = TextOf(inp, c, exp, e) /\ c < COMMAND_BUF_SIZE /\ e < COMMAND_BUF_SIZE - 2
    /\ in2 = [inp EXCEPT ![c] = exp[e + 1]] /\ ex2 = [exp EXCEPT ![e + 1] = 0]

\* The cursor moves right.
LEMMA RightText ==
  ASSUME NEW inp, NEW c, NEW exp, NEW e, Holds(inp, c, exp, e),
         NEW l, NEW in2, NEW ex2, Rights(inp, c, exp, e, l, in2, ex2)
  PROVE  Holds(in2, c + 1, ex2, e + 1) /\ TextOf(in2, c + 1, ex2, e + 1) = l
  <1>0. /\ l = TextOf(inp, c, exp, e) /\ c < COMMAND_BUF_SIZE /\ e < COMMAND_BUF_SIZE - 2
        /\ in2 = [inp EXCEPT ![c] = exp[e + 1]] /\ ex2 = [exp EXCEPT ![e + 1] = 0]
    BY DEF Rights
  <1> USE <1>0
  <1>1. PICK N \in Nat : N = COMMAND_BUF_SIZE /\ N >= 2
    BY LineAssumption DEF LineAssumption
  <1>2. c \in Nat /\ e \in Int /\ N - 2 - e \in Nat /\ c <= N
    BY <1>1, TextIs
  <1>3. PICK d \in Nat : d = N - 2 - e
    BY <1>2
  <1>4. /\ c < N /\ d > 0 /\ in2 \in [0..(N - 1) -> Int] /\ ex2 \in [0..(N - 1) -> Int]
        /\ \A k \in 0..(N - 1) : k # e + 1 => ex2[k] = exp[k]
        /\ (\A k \in 0..(N - 1) : k # c => in2[k] = inp[k]) /\ in2[c] = exp[e + 1] /\ exp[e + 1] > 0 /\ exp[e + 1] \in Int
    <2>1. c \in 0..(N - 1) /\ e + 1 \in 0..(N - 2) /\ e + 1 \in 0..(N - 1) /\ e + 1 \in (e + 1)..(N - 2)
      BY <1>1, <1>2, <1>3 DEF Holds
    <2>2. exp[e + 1] \in Int /\ exp[e + 1] > 0
      BY <1>1, <2>1 DEF Holds
    <2> QED
      BY <1>1, <1>2, <1>3, <2>1, <2>2 DEF Holds
  <1>5. Holds(in2, c + 1, ex2, e + 1)
    <2>1. \A k \in 0..((c + 1) - 1) : k \in 0..(N - 1) /\ (k = c \/ (k # c /\ k \in 0..(c - 1)))
      BY <1>2, <1>4
    <2>a. in2[c] # 0
      BY <1>4
    <2>2. \A k \in 0..((c + 1) - 1) : in2[k] # 0
      BY <1>4, <2>1, <2>a DEF Holds
    <2>b. c + 1 \in 0..N
      BY <1>2, <1>4
    <2>3. \A k \in ((e + 1) + 1)..(N - 2) : k \in (e + 1)..(N - 2) /\ k \in 0..(N - 1) /\ k # e + 1
      BY <1>1, <1>2 DEF Holds
    <2>4. \A k \in ((e + 1) + 1)..(N - 2) : ex2[k] > 0
      BY <1>1, <1>4, <2>3 DEF Holds
    <2>5. ex2[N - 1] = 0
      <3>1. N - 1 \in 0..(N - 1) /\ N - 1 # e + 1
        BY <1>1, <1>2, <1>3, <1>4
      <3> QED
        BY <1>1, <1>4, <3>1 DEF Holds
    <2>6. e + 1 \in -1..(N - 2)
      BY <1>1, <1>2, <1>3, <1>4 DEF Holds
    <2> QED
      BY <1>1, <1>4, <2>b, <2>2, <2>4, <2>5, <2>6 DEF Holds
  <1>6. l \in Seq(Letter) /\ Len(l) = c + d /\ \A k \in 1..(c + d) : l[k] = IF k <= c THEN inp[k - 1] ELSE exp[e + k - c]
    <2>1. d = COMMAND_BUF_SIZE - 2 - e
      BY <1>1, <1>3
    <2> QED
      BY <2>1, TextText DEF IsText
  <1>7. PICK t : t = TextOf(in2, c + 1, ex2, e + 1)
    OBVIOUS
  <1>8. /\ t \in Seq(Letter) /\ Len(t) = c + d
        /\ \A k \in 1..(c + d) : t[k] = IF k <= c + 1 THEN in2[k - 1] ELSE ex2[e + 1 + k - (c + 1)]
    <2>1. IsText(t, in2, c + 1, ex2, e + 1)
      BY <1>5, <1>7, TextText
    <2>2. (c + 1) + (COMMAND_BUF_SIZE - 2 - (e + 1)) = c + d
      BY <1>1, <1>2, <1>3
    <2> QED
      BY ONLY <2>1, <2>2 DEF IsText
  <1>9. ASSUME NEW k \in 1..(c + d) PROVE t[k] = l[k]
    <2>1. CASE k <= c
      <3>1. k \in 1..(c + d) /\ k - 1 \in 0..(N - 1) /\ k - 1 # c /\ k <= c + 1
        BY <1>2, <1>3, <1>4, <2>1
      <3> QED
        BY <1>4, <1>6, <1>8, <2>1, <3>1
    <2>2. CASE k = c + 1
      <3>1. k \in 1..(c + d) /\ k - 1 = c /\ k <= c + 1 /\ ~(k <= c) /\ e + k - c = e + 1
        BY <1>2, <1>3, <1>4, <2>2
      <3> QED
        BY <1>4, <1>6, <1>8, <2>2, <3>1
    <2>3. CASE k > c + 1
      <3>1. /\ ~(k <= c) /\ ~(k <= c + 1) /\ e + k - c = (e + 1) + k - (c + 1)
            /\ (e + 1) + k - (c + 1) \in 0..(N - 1) /\ (e + 1) + k - (c + 1) # e + 1
        BY <1>2, <1>3, <1>4, <2>3
      <3> QED
        BY <1>4, <1>6, <1>8, <2>3, <3>1
    <2> QED
      BY <1>2, <1>3, <2>1, <2>2, <2>3
  <1>10. t = l
    <2>1. Len(l) = Len(t) /\ \A k \in 1..Len(t) : t[k] = l[k]
      BY <1>2, <1>3, <1>6, <1>8, <1>9
    <2> QED
      BY <1>6, <1>8, <2>1, SameSeq
  <1> QED
    BY <1>5, <1>7, <1>10

\* What left does.
Lefts(inp, c, exp, e, l, in2, ex2) ==
    /\ l = TextOf(inp, c, exp, e) /\ c > 0 /\ e >= 0 /\ inp[c - 1] >= 0
    /\ in2 = [inp EXCEPT ![c - 1] = 0] /\ ex2 = [exp EXCEPT ![e] = inp[c - 1]]

\* The cursor moves left.
LEMMA LeftText ==
  ASSUME NEW inp, NEW c, NEW exp, NEW e, Holds(inp, c, exp, e),
         NEW l, NEW in2, NEW ex2, Lefts(inp, c, exp, e, l, in2, ex2)
  PROVE  Holds(in2, c - 1, ex2, e - 1) /\ TextOf(in2, c - 1, ex2, e - 1) = l
  <1>0. /\ l = TextOf(inp, c, exp, e) /\ c > 0 /\ e >= 0 /\ inp[c - 1] >= 0
        /\ in2 = [inp EXCEPT ![c - 1] = 0] /\ ex2 = [exp EXCEPT ![e] = inp[c - 1]]
    BY DEF Lefts
  <1> USE <1>0
  <1>1. PICK N \in Nat : N = COMMAND_BUF_SIZE /\ N >= 2
    BY LineAssumption DEF LineAssumption
  <1>2. c \in Nat /\ e \in Int /\ N - 2 - e \in Nat /\ c <= N
    BY <1>1, TextIs
  <1>3. PICK d \in Nat : d = N - 2 - e
    BY <1>2
  <1>4. /\ c > 0 /\ e >= 0 /\ in2 \in [0..(N - 1) -> Int] /\ ex2 \in [0..(N - 1) -> Int]
        /\ \A k \in 0..(N - 1) : k # e => ex2[k] = exp[k]
        /\ \A k \in 0..(N - 1) : k # c - 1 => in2[k] = inp[k]
        /\ ex2[e] = inp[c - 1] /\ inp[c - 1] > 0
    <2>1. c - 1 \in 0..(N - 1) /\ e \in 0..(N - 1) /\ c - 1 \in 0..(c - 1)
      BY <1>1, <1>2, <1>3 DEF Holds
    <2>2. inp[c - 1] \in Int /\ inp[c - 1] # 0
      BY <1>1, <2>1 DEF Holds
    <2>3. inp[c - 1] > 0
      BY <2>2
    <2> QED
      BY <1>1, <1>2, <1>3, <2>1, <2>2, <2>3 DEF Holds
  <1>5. Holds(in2, c - 1, ex2, e - 1)
    <2>1. \A k \in 0..((c - 1) - 1) : k \in 0..(N - 1) /\ k # c - 1 /\ k \in 0..(c - 1)
      BY <1>2, <1>4
    <2>2. \A k \in 0..((c - 1) - 1) : in2[k] # 0
      BY <1>4, <2>1 DEF Holds
    <2>3. \A k \in ((e - 1) + 1)..(N - 2) : k \in 0..(N - 1) /\ (k = e \/ (k # e /\ k \in (e + 1)..(N - 2)))
      BY <1>1, <1>2, <1>4
    <2>4. \A k \in ((e - 1) + 1)..(N - 2) : ex2[k] > 0
      BY <1>1, <1>4, <2>3 DEF Holds
    <2>5. ex2[N - 1] = 0
      <3>1. N - 1 \in 0..(N - 1) /\ N - 1 # e
        BY <1>1, <1>2, <1>3, <1>4
      <3> QED
        BY <1>1, <1>4, <3>1 DEF Holds
    <2>6. e - 1 \in -1..(N - 2) /\ c - 1 \in 0..N
      BY <1>1, <1>2, <1>3, <1>4
    <2> QED
      BY <1>1, <1>4, <2>2, <2>4, <2>5, <2>6 DEF Holds
  <1>6. l \in Seq(Letter) /\ Len(l) = c + d /\ \A k \in 1..(c + d) : l[k] = IF k <= c THEN inp[k - 1] ELSE exp[e + k - c]
    <2>1. d = COMMAND_BUF_SIZE - 2 - e
      BY <1>1, <1>3
    <2> QED
      BY <2>1, TextText DEF IsText
  <1>7. PICK t : t = TextOf(in2, c - 1, ex2, e - 1)
    OBVIOUS
  <1>8. /\ t \in Seq(Letter) /\ Len(t) = c + d
        /\ \A k \in 1..(c + d) : t[k] = IF k <= c - 1 THEN in2[k - 1] ELSE ex2[e - 1 + k - (c - 1)]
    <2>1. IsText(t, in2, c - 1, ex2, e - 1)
      BY <1>5, <1>7, TextText
    <2>2. (c - 1) + (COMMAND_BUF_SIZE - 2 - (e - 1)) = c + d
      BY <1>1, <1>2, <1>3
    <2> QED
      BY ONLY <2>1, <2>2 DEF IsText
  <1>9. ASSUME NEW k \in 1..(c + d) PROVE t[k] = l[k]
    <2>1. CASE k <= c - 1
      <3>1. k \in 1..(c + d) /\ k - 1 \in 0..(N - 1) /\ k - 1 # c - 1 /\ k <= c
        BY <1>2, <1>3, <1>4, <2>1
      <3> QED
        BY <1>4, <1>6, <1>8, <2>1, <3>1
    <2>2. CASE k = c
      <3>1. k \in 1..(c + d) /\ ~(k <= c - 1) /\ k <= c /\ (e - 1) + k - (c - 1) = e
        BY <1>2, <1>3, <1>4, <2>2
      <3> QED
        BY <1>4, <1>6, <1>8, <2>2, <3>1
    <2>3. CASE k > c
      <3>1. /\ ~(k <= c) /\ ~(k <= c - 1) /\ (e - 1) + k - (c - 1) = e + k - c
            /\ e + k - c \in 0..(N - 1) /\ e + k - c # e
        BY <1>2, <1>3, <1>4, <2>3
      <3> QED
        BY <1>4, <1>6, <1>8, <2>3, <3>1
    <2> QED
      BY <1>2, <1>3, <2>1, <2>2, <2>3
  <1>10. t = l
    <2>1. Len(l) = Len(t) /\ \A k \in 1..Len(t) : t[k] = l[k]
      BY <1>2, <1>3, <1>6, <1>8, <1>9
    <2> QED
      BY <1>6, <1>8, <2>1, SameSeq
  <1> QED
    BY <1>5, <1>7, <1>10

\* What tab does without a completion.
Clears(inp, c, exp, e, l, in2) ==
    l = TextOf(inp, c, exp, e) /\ c < COMMAND_BUF_SIZE /\ in2 = [inp EXCEPT ![c] = 0]

\* The cell at the cursor is cleared.
LEMMA ClearText ==
  ASSUME NEW inp, NEW c, NEW exp, NEW e, Holds(inp, c, exp, e),
         NEW l, NEW in2, Clears(inp, c, exp, e, l, in2)
  PROVE  Holds(in2, c, exp, e) /\ TextOf(in2, c, exp, e) = l
  <1>0. l = TextOf(inp, c, exp, e) /\ c < COMMAND_BUF_SIZE /\ in2 = [inp EXCEPT ![c] = 0]
    BY DEF Clears
  <1> USE <1>0
  <1>1. PICK N \in Nat : N = COMMAND_BUF_SIZE /\ N >= 2
    BY LineAssumption DEF LineAssumption
  <1>2. c \in Nat /\ e \in Int /\ N - 2 - e \in Nat /\ c <= N
    BY <1>1, TextIs
  <1>3. PICK d \in Nat : d = N - 2 - e
    BY <1>2
  <1>4. /\ c < N /\ in2 \in [0..(N - 1) -> Int] /\ \A k \in 0..(N - 1) : k # c => in2[k] = inp[k]
    BY <1>1 DEF Holds
  <1>5. Holds(in2, c, exp, e)
    <2>1. \A k \in 0..(c - 1) : k \in 0..(N - 1) /\ k # c
      BY <1>2
    <2>2. \A k \in 0..(c - 1) : in2[k] # 0
      BY <1>4, <2>1 DEF Holds
    <2> QED
      BY <1>1, <1>4, <2>2 DEF Holds
  <1>6. l \in Seq(Letter) /\ Len(l) = c + d /\ \A k \in 1..(c + d) : l[k] = IF k <= c THEN inp[k - 1] ELSE exp[e + k - c]
    <2>1. d = COMMAND_BUF_SIZE - 2 - e
      BY <1>1, <1>3
    <2> QED
      BY <2>1, TextText DEF IsText
  <1>7. PICK t : t = TextOf(in2, c, exp, e)
    OBVIOUS
  <1>8. /\ t \in Seq(Letter) /\ Len(t) = c + d
        /\ \A k \in 1..(c + d) : t[k] = IF k <= c THEN in2[k - 1] ELSE exp[e + k - (c)]
    <2>1. IsText(t, in2, c, exp, e)
      BY <1>5, <1>7, TextText
    <2>2. (c) + (COMMAND_BUF_SIZE - 2 - (e)) = c + d
      BY <1>1, <1>2, <1>3
    <2> QED
      BY ONLY <2>1, <2>2 DEF IsText
  <1>9. ASSUME NEW k \in 1..(c + d) PROVE t[k] = l[k]
    <2>1. CASE k <= c
      <3>1. k - 1 \in 0..(N - 1) /\ k - 1 # c
        BY <1>2, <1>3, <1>4, <2>1
      <3> QED
        BY <1>4, <1>6, <1>8, <2>1, <3>1
    <2>2. CASE ~(k <= c)
      <3>1. k \in 1..(c + d)
        BY <1>2, <1>3, <1>4, <2>2
      <3> QED
        BY <1>6, <1>8, <2>2, <3>1
    <2> QED
      BY <1>2, <1>3, <2>1, <2>2
  <1>10. t = l
    <2>1. Len(l) = Len(t) /\ \A k \in 1..Len(t) : t[k] = l[k]
      BY <1>2, <1>3, <1>6, <1>8, <1>9
    <2> QED
      BY <1>6, <1>8, <2>1, SameSeq
  <1> QED
    BY <1>5, <1>7, <1>10

\* What tab does with a completion.
Completes(inp, c, exp, e, l, w, n, end, in2) ==
    /\ l = TextOf(inp, c, exp, e) /\ w \in Seq(Nat \ {0}) /\ n \in 0..Len(w)
    /\ end = c + Len(w) - n /\ end < COMMAND_BUF_SIZE
    /\ in2 = [k \in 0 .. COMMAND_BUF_SIZE - 1 |->
                 IF k \in c .. end - 1 THEN w[n + k - c + 1] ELSE IF k = end THEN 0 ELSE inp[k]]

\* A word is completed.
LEMMA CompleteText ==
  ASSUME NEW inp, NEW c, NEW exp, NEW e, Holds(inp, c, exp, e),
         NEW l, NEW w, NEW n, NEW end, NEW in2, Completes(inp, c, exp, e, l, w, n, end, in2)
  PROVE  Holds(in2, end, exp, e) /\ TextOf(in2, end, exp, e) = Splice(l, c, SubSeq(w, n + 1, Len(w)), c)
  <1>0. /\ l = TextOf(inp, c, exp, e) /\ w \in Seq(Nat \ {0}) /\ n \in 0..Len(w)
        /\ end = c + Len(w) - n /\ end < COMMAND_BUF_SIZE
        /\ in2 = [k \in 0 .. COMMAND_BUF_SIZE - 1 |->
                     IF k \in c .. end - 1 THEN w[n + k - c + 1] ELSE IF k = end THEN 0 ELSE inp[k]]
    BY DEF Completes
  <1> USE <1>0
  <1>1. PICK N \in Nat : N = COMMAND_BUF_SIZE /\ N >= 2
    BY LineAssumption DEF LineAssumption
  <1>2. c \in Nat /\ e \in Int /\ N - 2 - e \in Nat /\ c <= N
    BY <1>1, TextIs
  <1>3. PICK d \in Nat : d = N - 2 - e
    BY <1>2
  <1>a. PICK m : m = SubSeq(w, n + 1, Len(w))
    OBVIOUS
  <1>b. PICK p \in Nat : p = Len(w) - n /\ n \in Nat /\ Len(w) \in Nat /\ end = c + p
    <2>1. PICK v \in Nat : v = Len(w) /\ n \in 0..v /\ end = c + v - n
      OBVIOUS
    <2>2. v - n \in Nat /\ end = c + (v - n) /\ n \in Nat
      BY ONLY <2>1, <1>2
    <2> QED
      BY <2>1, <2>2
  <1>c. m \in Seq(Letter) /\ Len(m) = p /\ \A k \in 1..p : m[k] = w[n + k] /\ m[k] \in Letter
    <2>1. \A k \in (n + 1)..Len(w) : w[k] \in Letter
      BY <1>b DEF Letter
    <2>2. /\ m \in Seq(Letter) /\ Len(m) = IF n + 1 <= Len(w) THEN Len(w) - (n + 1) + 1 ELSE 0
          /\ \A k \in 1..(Len(w) - (n + 1) + 1) : m[k] = w[n + 1 + k - 1]
      BY <1>a, <1>b, <2>1, SubSeqProperties
    <2>3. Len(m) = p /\ \A k \in 1..p : m[k] = w[n + k]
      BY <1>b, <2>2
    <2>4. \A k \in 1..p : m[k] \in Letter
      BY <2>2, <2>3
    <2> QED
      BY <2>2, <2>3, <2>4
  <1>4. /\ in2 \in [0..(N - 1) -> Int] /\ \A k \in 0..(c - 1) : in2[k] = inp[k]
        /\ \A k \in c..(end - 1) : in2[k] = m[k - c + 1]
    <2>1. \A k \in 0..(N - 1) : in2[k] = IF k \in c .. end - 1 THEN w[n + k - c + 1] ELSE IF k = end THEN 0 ELSE inp[k]
      BY <1>1
    <2>2. \A k \in c..(end - 1) : k \in 0..(N - 1) /\ k - c + 1 \in 1..p /\ n + (k - c + 1) = n + k - c + 1
      BY <1>1, <1>2, <1>b
    <2>3. \A k \in c..(end - 1) : in2[k] = m[k - c + 1]
      BY <1>c, <2>1, <2>2
    <2>4. \A k \in 0..(c - 1) : in2[k] = inp[k]
      <3>1. \A k \in 0..(c - 1) : k \in 0..(N - 1) /\ k \notin c..(end - 1) /\ k # end
        BY <1>2, <1>b
      <3> QED
        BY <2>1, <3>1
    <2>5. \A k \in 0..(N - 1) : in2[k] \in Int
      <3>1. ASSUME NEW k \in 0..(N - 1) PROVE in2[k] \in Int
        <4>1. CASE k \in c..(end - 1)
          BY <1>c, <2>2, <2>3, <4>1 DEF Letter
        <4>2. CASE k \notin c..(end - 1)
          BY <1>1, <2>1, <4>2 DEF Holds
        <4> QED
          BY <4>1, <4>2
      <3> QED
        BY <3>1
    <2>6. in2 \in [0..(N - 1) -> Int]
      BY <1>1, <2>5
    <2> QED
      BY <2>3, <2>4, <2>6
  <1>5. Holds(in2, end, exp, e)
    <2>1. ASSUME NEW k \in 0..(end - 1) PROVE in2[k] # 0
      <3>1. CASE k \in 0..(c - 1)
        BY <1>4, <3>1 DEF Holds
      <3>2. CASE k \in c..(end - 1)
        <4>1. k - c + 1 \in 1..p
          BY <1>2, <1>b, <3>2
        <4> QED
          BY <1>4, <1>c, <3>2, <4>1 DEF Letter
      <3> QED
        BY <1>2, <1>b, <3>1, <3>2
    <2>2. end \in 0..N
      BY <1>1, <1>2, <1>b
    <2> QED
      BY <1>1, <1>4, <2>1, <2>2 DEF Holds
  <1>6. l \in Seq(Letter) /\ Len(l) = c + d /\ \A k \in 1..(c + d) : l[k] = IF k <= c THEN inp[k - 1] ELSE exp[e + k - c]
    <2>1. d = COMMAND_BUF_SIZE - 2 - e
      BY <1>1, <1>3
    <2> QED
      BY <2>1, TextText DEF IsText
  <1>7. PICK t : t = TextOf(in2, end, exp, e)
    OBVIOUS
  <1>8. /\ t \in Seq(Letter) /\ Len(t) = c + p + d
        /\ \A k \in 1..(c + p + d) : t[k] = IF k <= c + p THEN in2[k - 1] ELSE exp[e + k - (c + p)]
    <2>1. IsText(t, in2, end, exp, e)
      BY <1>5, <1>7, TextText
    <2>2. end = c + p /\ d = COMMAND_BUF_SIZE - 2 - e
      BY <1>1, <1>3, <1>b
    <2> QED
      BY ONLY <2>1, <2>2 DEF IsText
  <1>9. PICK r : r = Splice(l, c, m, c)
    OBVIOUS
  <1>10. /\ r \in Seq(Letter) /\ Len(r) = c + p + d
         /\ \A k \in 1..(c + p + d) : r[k] = IF k <= c THEN l[k] ELSE IF k <= c + p THEN m[k - c] ELSE l[k - c - p + c]
    <2>1. Spliced(r, l, c, m, c)
      <3>1. l \in Seq(Letter) /\ m \in Seq(Letter) /\ c \in Nat /\ c <= Len(l) /\ r = Splice(l, c, m, c)
        BY <1>2, <1>6, <1>9, <1>c
      <3> QED
        BY ONLY <3>1, SpliceIs
    <2>2. Len(m) = p /\ Len(l) - c = d
      BY <1>2, <1>6, <1>c
    <2> QED
      BY <2>1, <2>2 DEF Spliced
  <1>11. ASSUME NEW k \in 1..(c + p + d) PROVE t[k] = r[k]
    <2>1. CASE k <= c
      <3>1. k \in 1..(c + d) /\ k <= c + p /\ k - 1 \in 0..(c - 1)
        BY <1>2, <2>1
      <3> QED
        BY <1>4, <1>6, <1>8, <1>10, <2>1, <3>1
    <2>2. CASE ~(k <= c) /\ k <= c + p
      <3>1. k - 1 \in c..(end - 1) /\ (k - 1) - c + 1 = k - c
        BY <1>2, <1>b, <2>2
      <3> QED
        BY <1>4, <1>8, <1>10, <2>2, <3>1
    <2>3. CASE ~(k <= c + p)
      <3>1. /\ ~(k <= c) /\ k - c - p + c = k - p /\ k - p \in 1..(c + d) /\ ~(k - p <= c)
            /\ e + (k - p) - c = e + k - (c + p)
        BY <1>2, <2>3
      <3> QED
        BY <1>6, <1>8, <1>10, <2>3, <3>1
    <2> QED
      BY <2>1, <2>2, <2>3
  <1>12. t = r
    BY <1>8, <1>10, <1>11, SameSeq
  <1> QED
    BY <1>5, <1>7, <1>9, <1>12, <1>a

\* The buffers hold the line l alone.
Shows(l, in2, ex2, e) ==
    /\ l \in Seq(Letter) /\ Len(l) < COMMAND_BUF_SIZE /\ e = COMMAND_BUF_SIZE - 2
    /\ in2 = [k \in 0 .. COMMAND_BUF_SIZE - 1 |-> IF k < Len(l) THEN l[k + 1] ELSE 0]
    /\ ex2 = [k \in 0 .. COMMAND_BUF_SIZE - 1 |-> 0]

\* A line is shown, with the cursor at its end.
LEMMA ShowText ==
  ASSUME NEW l, NEW in2, NEW ex2, NEW e, Shows(l, in2, ex2, e)
  PROVE  Holds(in2, Len(l), ex2, e) /\ TextOf(in2, Len(l), ex2, e) = l
  <1>a. l \in Seq(Letter) /\ Len(l) < COMMAND_BUF_SIZE /\ e = COMMAND_BUF_SIZE - 2
    BY DEF Shows
  <1>b. /\ in2 = [k \in 0 .. COMMAND_BUF_SIZE - 1 |-> IF k < Len(l) THEN l[k + 1] ELSE 0]
        /\ ex2 = [k \in 0 .. COMMAND_BUF_SIZE - 1 |-> 0]
    BY DEF Shows
  <1>1. PICK N \in Nat : N = COMMAND_BUF_SIZE /\ N >= 2 /\ e = N - 2
    BY ONLY <1>a, SizeIs
  <1>2. PICK c \in Nat : c = Len(l) /\ c < N
    BY <1>1, <1>a
  <1>3. \A k \in 0..(N - 1) : in2[k] = (IF k < c THEN l[k + 1] ELSE 0) /\ ex2[k] = 0
    BY <1>1, <1>2, <1>b
  <1>4. \A k \in 0..(c - 1) : k \in 0..(N - 1) /\ k < c /\ k + 1 \in 1..c /\ l[k + 1] \in Letter
    BY <1>2, <1>a
  <1>5. Holds(in2, c, ex2, e)
    <2>1. \A k \in 0..(c - 1) : in2[k] \in Letter
      BY ONLY <1>3, <1>4
    <2>2. in2 \in [0..(N - 1) -> Int]
      <3>1. ASSUME NEW k \in 0..(N - 1) PROVE in2[k] \in Int
        <4>1. CASE k < c
          <5>1. k \in 0..(c - 1)
            BY <4>1
          <5> QED
            BY ONLY <2>1, <5>1 DEF Letter
        <4>2. CASE ~(k < c)
          <5>1. in2[k] = 0
            BY ONLY <1>3, <4>2
          <5> QED
            BY ONLY <5>1
        <4> QED
          BY <4>1, <4>2
      <3>2. in2 = [k \in 0..(N - 1) |-> in2[k]]
        BY <1>1, <1>b
      <3> QED
        BY ONLY <3>1, <3>2
    <2>3. ex2 \in [0..(N - 1) -> Int] /\ ex2[N - 1] = 0
      BY <1>1, <1>3, <1>b
    <2>4. c \in 0..N /\ e \in -1..(N - 2) /\ \A k \in (e + 1)..(N - 2) : ex2[k] > 0
      BY <1>1, <1>2
    <2>5. \A k \in 0..(c - 1) : in2[k] # 0
      BY ONLY <2>1 DEF Letter
    <2> QED
      BY <1>1, <2>2, <2>3, <2>4, <2>5 DEF Holds
  <1>6. PICK t : t = TextOf(in2, c, ex2, e)
    OBVIOUS
  <1>7. t \in Seq(Letter) /\ Len(t) = c /\ \A k \in 1..c : t[k] = in2[k - 1]
    <2>1. IsText(t, in2, c, ex2, e)
      BY <1>5, <1>6, TextText
    <2>2. c + (COMMAND_BUF_SIZE - 2 - e) = c
      BY ONLY <1>1, c \in Nat
    <2>3. t \in Seq(Letter) /\ Len(t) = c /\ \A k \in 1..c : t[k] = IF k <= c THEN in2[k - 1] ELSE ex2[e + k - c]
      BY ONLY <2>1, <2>2 DEF IsText
    <2> QED
      BY ONLY <2>3, c \in Nat
  <1>8. \A k \in 1..c : t[k] = l[k]
    <2>1. \A k \in 1..c : k - 1 \in 0..(N - 1) /\ k - 1 < c /\ (k - 1) + 1 = k
      BY <1>2
    <2> QED
      BY <1>3, <1>7, <2>1
  <1>9. t = l
    BY <1>2, <1>7, <1>8, <1>a, SameSeq
  <1> QED
    BY <1>2, <1>5, <1>6, <1>9

\* The ring of the commands: the slots before idx are filled first.
RingOk(idx, lv, buf) ==
    /\ idx \in 0 .. HISTORY_MAXITEMS - 1 /\ lv \in 0 .. HISTORY_MAXITEMS
    /\ buf \in [0 .. HISTORY_MAXITEMS - 1 -> Seq(Letter)]
    /\ \A s \in 0 .. HISTORY_MAXITEMS - 1 : Len(buf[s]) < COMMAND_BUF_SIZE
    /\ \/ \A s \in 0 .. HISTORY_MAXITEMS - 1 : buf[s] # <<>>
       \/ \A s \in 0 .. HISTORY_MAXITEMS - 1 : (buf[s] # <<>> <=> s < idx)

\* The k-th command back.
At(idx, buf, k) == buf[(idx - k) % HISTORY_MAXITEMS]

\* The commands there are, newest first.
PastOf(idx, buf) ==
    [k \in {n \in 1 .. HISTORY_MAXITEMS : \A m \in 1 .. n : At(idx, buf, m) # <<>>} |-> At(idx, buf, k)]

\* The slot of a command.
LEMMA AtIs ==
  ASSUME NEW idx, NEW lv, NEW buf, RingOk(idx, lv, buf), NEW k \in 1 .. HISTORY_MAXITEMS
  PROVE  /\ At(idx, buf, k) = IF k <= idx THEN buf[idx - k] ELSE buf[idx - k + HISTORY_MAXITEMS]
         /\ At(idx, buf, k) \in Seq(Letter)
  <1>1. PICK H \in Nat \ {0} : H = HISTORY_MAXITEMS
    BY LineAssumption DEF LineAssumption
  <1>2. idx \in 0..(H - 1) /\ k \in 1..H
    BY <1>1 DEF RingOk
  <1>3. PICK n \in Int : n = idx - k
    BY <1>2
  <1>4. n < H /\ -H <= n /\ (n < 0 <=> ~(k <= idx))
    BY <1>2, <1>3
  <1>5. n % H = IF n < 0 THEN n + H ELSE n
    BY <1>4, ModNear
  <1>6. n % H \in 0..(H - 1)
    BY <1>2, <1>3, <1>4, <1>5
  <1>7. At(idx, buf, k) = buf[n % H]
    BY <1>1, <1>3 DEF At
  <1>8. At(idx, buf, k) \in Seq(Letter)
    BY <1>1, <1>6, <1>7 DEF RingOk
  <1>9. CASE k <= idx
    BY <1>1, <1>3, <1>4, <1>5, <1>7, <1>8, <1>9
  <1>10. CASE ~(k <= idx)
    BY <1>1, <1>3, <1>4, <1>5, <1>7, <1>8, <1>10
  <1> QED
    BY <1>9, <1>10

\* How many there are.
Count(idx, buf) == IF \A s \in 0 .. HISTORY_MAXITEMS - 1 : buf[s] # <<>> THEN HISTORY_MAXITEMS ELSE idx

\* The commands there are, as a sequence.
LEMMA PastIs ==
  ASSUME NEW idx, NEW lv, NEW buf, RingOk(idx, lv, buf)
  PROVE  /\ Count(idx, buf) \in 0 .. HISTORY_MAXITEMS
         /\ \A k \in 1 .. HISTORY_MAXITEMS : k <= Count(idx, buf) <=> \A m \in 1 .. k : At(idx, buf, m) # <<>>
         /\ PastOf(idx, buf) = [k \in 1 .. Count(idx, buf) |-> At(idx, buf, k)]
         /\ PastOf(idx, buf) \in Seq(Seq(Letter)) /\ Len(PastOf(idx, buf)) = Count(idx, buf)
  <1>1. PICK H \in Nat \ {0} : H = HISTORY_MAXITEMS
    BY LineAssumption DEF LineAssumption
  <1>2. idx \in 0..(H - 1)
    BY <1>1 DEF RingOk
  <1>3. PICK C : C = Count(idx, buf)
    OBVIOUS
  <1>4. C \in 0..H
    BY <1>1, <1>2, <1>3 DEF Count
  <1>5. \A k \in 1..H : k <= C <=> \A m \in 1..k : At(idx, buf, m) # <<>>
    <2>1. CASE \A s \in 0..(H - 1) : buf[s] # <<>>
      <3>1. C = H
        BY <1>1, <1>3, <2>1 DEF Count
      <3>2. \A m \in 1..H : At(idx, buf, m) # <<>>
        <4>1. ASSUME NEW m \in 1..H PROVE At(idx, buf, m) # <<>>
          <5>1. /\ At(idx, buf, m) = IF m <= idx THEN buf[idx - m] ELSE buf[idx - m + H]
                /\ (m <= idx => idx - m \in 0..(H - 1)) /\ (~(m <= idx) => idx - m + H \in 0..(H - 1))
            BY <1>1, <1>2, AtIs
          <5> QED
            BY <2>1, <5>1
        <4> QED
          BY <4>1
      <3>3. \A k \in 1..H : \A m \in 1..k : m \in 1..H
        OBVIOUS
      <3> QED
        BY <3>1, <3>2, <3>3
    <2>2. CASE ~(\A s \in 0..(H - 1) : buf[s] # <<>>)
      <3>1. C = idx
        BY <1>1, <1>3, <2>2 DEF Count
      <3>2. \A s \in 0..(H - 1) : (buf[s] # <<>> <=> s < idx)
        BY <1>1, <2>2 DEF RingOk
      <3>3. ASSUME NEW m \in 1..H, m <= idx PROVE At(idx, buf, m) # <<>>
        <4>1. At(idx, buf, m) = buf[idx - m] /\ idx - m \in 0..(H - 1) /\ idx - m < idx
          BY <1>1, <1>2, <3>3, AtIs
        <4> QED
          BY <3>2, <4>1
      <3>4. ASSUME NEW k \in 1..H, k > idx PROVE \E m \in 1..k : At(idx, buf, m) = <<>>
        <4>1. idx + 1 \in 1..H /\ idx + 1 \in 1..k /\ ~(idx + 1 <= idx)
          BY <1>2, <3>4
        <4>2. At(idx, buf, idx + 1) = buf[idx - (idx + 1) + H]
          BY <1>1, <4>1, AtIs
        <4>3. idx - (idx + 1) + H = H - 1 /\ H - 1 \in 0..(H - 1) /\ ~(H - 1 < idx)
          BY <1>2
        <4>4. buf[H - 1] = <<>>
          BY <3>2, <4>3
        <4> QED
          BY <4>1, <4>2, <4>3, <4>4
      <3>5. ASSUME NEW k \in 1..H PROVE k <= idx <=> \A m \in 1..k : At(idx, buf, m) # <<>>
        <4>1. CASE k <= idx
          <5>1. \A m \in 1..k : m \in 1..H /\ m <= idx
            BY <1>2, <4>1
          <5> QED
            BY <3>3, <4>1, <5>1
        <4>2. CASE ~(k <= idx)
          <5>1. k > idx
            BY <1>2, <4>2
          <5> QED
            BY <3>4, <4>2, <5>1
        <4> QED
          BY <4>1, <4>2
      <3> QED
        BY <3>1, <3>5
    <2> QED
      BY <2>1, <2>2
  <1>6. {n \in 1..H : \A m \in 1..n : At(idx, buf, m) # <<>>} = 1..C
    <2>1. \A n \in 1..C : n \in 1..H /\ n <= C
      BY <1>4
    <2>2. \A n \in 1..H : n <= C => n \in 1..C
      BY <1>4
    <2> QED
      BY <1>5, <2>1, <2>2
  <1>7. PICK P : P = PastOf(idx, buf)
    OBVIOUS
  <1>8. P = [k \in 1..C |-> At(idx, buf, k)]
    BY <1>1, <1>6, <1>7 DEF PastOf
  <1>9. \A k \in 1..C : At(idx, buf, k) \in Seq(Letter)
    <2>1. \A k \in 1..C : k \in 1..H
      BY <1>4
    <2> QED
      BY <1>1, <2>1, AtIs
  <1>10. P \in Seq(Seq(Letter)) /\ Len(P) = C
    BY <1>4, <1>8, <1>9
  <1> QED
    BY <1>1, <1>3, <1>4, <1>5, <1>7, <1>8, <1>10

\* The command shown for b is in its slot, and fits.
SlotShown(P, idx, buf, b) ==
    /\ (IF b = 0 THEN IF Len(P) = HISTORY_MAXITEMS THEN P[HISTORY_MAXITEMS] ELSE <<>> ELSE P[b]) = buf[idx - b]
    /\ buf[idx - b] \in Seq(Letter) /\ Len(buf[idx - b]) < COMMAND_BUF_SIZE

\* What is shown for a command that is not past the start of the ring.
LEMMA ShownAt ==
  ASSUME NEW idx, NEW lv, NEW buf, RingOk(idx, lv, buf), NEW b \in 0..idx
  PROVE  SlotShown(PastOf(idx, buf), idx, buf, b)
  <1>0. PICK P : P = PastOf(idx, buf)
    OBVIOUS
  <1>1. PICK H \in Nat \ {0} : H = HISTORY_MAXITEMS
    BY LineAssumption DEF LineAssumption
  <1>2. idx \in 0..(H - 1) /\ b \in 0..(H - 1) /\ idx - b \in 0..(H - 1)
    BY <1>1 DEF RingOk
  <1>3. PICK C : C = Count(idx, buf)
    OBVIOUS
  <1>4. P = [k \in 1..C |-> At(idx, buf, k)] /\ C \in 0..H /\ Len(P) = C
    BY <1>0, <1>1, <1>3, PastIs
  <1>5. buf[idx - b] \in Seq(Letter) /\ Len(buf[idx - b]) < COMMAND_BUF_SIZE
    BY <1>1, <1>2 DEF RingOk
  <1>6. CASE b = 0
    <2>1. CASE C = H
      <3>1. H \in 1..H /\ ~(H <= idx) /\ idx - H + H = idx
        BY <1>2
      <3>2. At(idx, buf, H) = buf[idx]
        BY <1>1, <3>1, AtIs
      <3>3. idx - b = idx /\ P[H] = buf[idx]
        BY <1>2, <1>4, <1>6, <2>1, <3>1, <3>2
      <3> QED
        BY <1>0, <1>1, <1>4, <1>5, <1>6, <2>1, <3>3 DEF SlotShown
    <2>2. CASE C # H
      <3>1. ~(\A s \in 0..(H - 1) : buf[s] # <<>>)
        BY <1>1, <1>3, <2>2 DEF Count
      <3>2. \A s \in 0..(H - 1) : (buf[s] # <<>> <=> s < idx)
        BY <1>1, <3>1 DEF RingOk
      <3>3. idx - b = idx /\ buf[idx] = <<>>
        BY <1>2, <1>6, <3>2
      <3> QED
        BY <1>0, <1>1, <1>4, <1>5, <1>6, <2>2, <3>3 DEF SlotShown
    <2> QED
      BY <2>1, <2>2
  <1>7. CASE b # 0
    <2>1. b \in 1..H /\ b <= idx
      BY <1>2, <1>7
    <2>2. At(idx, buf, b) = buf[idx - b]
      BY <1>1, <2>1, AtIs
    <2>3. b \in 1..C
      <3>1. CASE \A s \in 0..(H - 1) : buf[s] # <<>>
        BY <1>1, <1>3, <2>1, <3>1 DEF Count
      <3>2. CASE ~(\A s \in 0..(H - 1) : buf[s] # <<>>)
        BY <1>1, <1>2, <1>3, <2>1, <3>2 DEF Count
      <3> QED
        BY <3>1, <3>2
    <2> QED
      BY <1>0, <1>4, <1>5, <1>7, <2>2, <2>3 DEF SlotShown
  <1> QED
    BY <1>0, <1>6, <1>7 DEF SlotShown

\* The remainder of the next number.
LEMMA ModNext ==
  ASSUME NEW w \in Nat \ {0}, NEW n \in 0..(w - 1)
  PROVE  (n + 1) % w = IF n + 1 = w THEN 0 ELSE n + 1
  <1>1. CASE n + 1 < w
    <2>1. PICK m \in Int : m = n + 1
      OBVIOUS
    <2>2. m < w /\ -w <= m /\ ~(m < 0)
      BY <1>1, <2>1
    <2>3. m % w = m
      BY <2>2, ModNear
    <2> QED
      BY <1>1, <2>1, <2>3
  <1>2. CASE n + 1 = w
    <2>1. PICK x \in Int : x = w % w
      OBVIOUS
    <2>2. PICK q \in Int : q = w \div w
      OBVIOUS
    <2>3. w = w * q + x /\ 0 <= x /\ x < w
      BY <2>1, <2>2
    <2>4. ~(q <= 0)
      <3>1. ASSUME q <= 0 PROVE FALSE
        <4>1. PICK d \in Nat : q = 0 - d
          <5>1. 0 - q \in Nat /\ q = 0 - (0 - q)
            BY <3>1
          <5> QED
            BY <5>1
        <4>2. w * q = 0 - w * d /\ w * d \in Nat
          BY <4>1
        <4> QED
          BY <2>3, <4>2
      <3> QED
        BY <3>1
    <2>5. ~(q >= 2)
      <3>1. ASSUME q >= 2 PROVE FALSE
        <4>1. PICK d \in Nat : q = 2 + d
          <5>1. q - 2 \in Nat /\ q = 2 + (q - 2)
            BY <3>1
          <5> QED
            BY <5>1
        <4>2. w * q = w + w + w * d /\ w * d \in Nat
          BY <4>1
        <4> QED
          BY <2>3, <4>2
      <3> QED
        BY <3>1
    <2>6. q = 1
      BY <2>4, <2>5
    <2>7. w * q = w
      BY <2>6
    <2> QED
      BY <1>2, <2>1, <2>3, <2>7
  <1>3. n + 1 < w \/ n + 1 = w
    OBVIOUS
  <1> QED
    BY <1>1, <1>2, <1>3

\* The ring with a command more.
Adds(idx, buf, l, id2, bu2) == id2 = (idx + 1) % HISTORY_MAXITEMS /\ bu2 = [buf EXCEPT ![idx] = l]

\* The commands it has then.
Added(idx, buf, l, id2, bu2) ==
    /\ Count(id2, bu2) = IF Count(idx, buf) < HISTORY_MAXITEMS THEN Count(idx, buf) + 1 ELSE HISTORY_MAXITEMS
    /\ \A k \in 1 .. HISTORY_MAXITEMS : At(id2, bu2, k) = IF k = 1 THEN l ELSE At(idx, buf, k - 1)

\* The slot a new command fills is the first of the empty ones.
LEMMA RingFills ==
  ASSUME NEW idx, NEW lv, NEW buf, RingOk(idx, lv, buf),
         NEW l \in Seq(Letter), l # <<>>, Len(l) < COMMAND_BUF_SIZE,
         NEW id2, NEW bu2, Adds(idx, buf, l, id2, bu2), NEW lv2 \in 0 .. HISTORY_MAXITEMS
  PROVE  RingOk(id2, lv2, bu2) /\ Added(idx, buf, l, id2, bu2)
  <1>1. PICK H \in Nat \ {0} : H = HISTORY_MAXITEMS
    BY LineAssumption DEF LineAssumption
  <1>2. idx \in 0..(H - 1) /\ lv2 \in 0..H /\ buf \in [0..(H - 1) -> Seq(Letter)]
    BY <1>1 DEF RingOk
  <1>3. id2 = IF idx + 1 = H THEN 0 ELSE idx + 1
    BY <1>1, <1>2, ModNext DEF Adds
  <1>4. id2 \in 0..(H - 1)
    BY <1>2, <1>3
  <1>5. /\ bu2 \in [0..(H - 1) -> Seq(Letter)] /\ bu2[idx] = l
        /\ \A s \in 0..(H - 1) : s # idx => bu2[s] = buf[s]
    BY <1>2 DEF Adds
  <1>6. \A s \in 0..(H - 1) : Len(bu2[s]) < COMMAND_BUF_SIZE
    <2>1. ASSUME NEW s \in 0..(H - 1) PROVE Len(bu2[s]) < COMMAND_BUF_SIZE
      <3>1. CASE s = idx
        BY <1>5, <3>1
      <3>2. CASE s # idx
        BY <1>1, <1>5, <3>2 DEF RingOk
      <3> QED
        BY <3>1, <3>2
    <2> QED
      BY <2>1
  <1>7. /\ \/ \A s \in 0..(H - 1) : bu2[s] # <<>>
           \/ \A s \in 0..(H - 1) : (bu2[s] # <<>> <=> s < id2)
        /\ Count(id2, bu2) = IF Count(idx, buf) < H THEN Count(idx, buf) + 1 ELSE H
    <2>1. CASE \A s \in 0..(H - 1) : buf[s] # <<>>
      <3>1. \A s \in 0..(H - 1) : bu2[s] # <<>>
        BY <1>5, <2>1
      <3>2. Count(id2, bu2) = H /\ Count(idx, buf) = H
        BY <1>1, <2>1, <3>1 DEF Count
      <3> QED
        BY <3>1, <3>2
    <2>2. CASE ~(\A s \in 0..(H - 1) : buf[s] # <<>>)
      <3>1. \A s \in 0..(H - 1) : (buf[s] # <<>> <=> s < idx)
        BY <1>1, <2>2 DEF RingOk
      <3>2. \A s \in 0..(H - 1) : (bu2[s] # <<>> <=> s <= idx)
        <4>1. ASSUME NEW s \in 0..(H - 1) PROVE bu2[s] # <<>> <=> s <= idx
          <5>1. CASE s = idx
            BY <1>2, <1>5, <5>1
          <5>2. CASE s # idx
            <6>1. bu2[s] = buf[s] /\ (buf[s] # <<>> <=> s < idx)
              BY ONLY <1>5, <3>1, <5>2
            <6>2. s < idx <=> s <= idx
              BY <1>2, <5>2
            <6> QED
              BY ONLY <6>1, <6>2
          <5> QED
            BY <5>1, <5>2
        <4> QED
          BY <4>1
      <3>3. Count(idx, buf) = idx
        BY <1>1, <2>2 DEF Count
      <3>4. CASE idx + 1 = H
        <4>1. \A s \in 0..(H - 1) : bu2[s] # <<>>
          <5>1. \A s \in 0..(H - 1) : s <= idx
            BY <1>2, <3>4
          <5> QED
            BY ONLY <3>2, <5>1
        <4>2. Count(id2, bu2) = H
          BY <1>1, <4>1 DEF Count
        <4> QED
          BY <1>2, <3>3, <3>4, <4>1, <4>2
      <3>5. CASE idx + 1 # H
        <4>1. \A s \in 0..(H - 1) : (s <= idx <=> s < id2)
          BY <1>2, <1>3, <3>5
        <4>2. \A s \in 0..(H - 1) : (bu2[s] # <<>> <=> s < id2)
          BY <3>2, <4>1
        <4>3. ~(\A s \in 0..(H - 1) : bu2[s] # <<>>)
          <5>1. H - 1 \in 0..(H - 1) /\ ~(H - 1 <= idx)
            BY <1>2, <3>5
          <5> QED
            BY <3>2, <5>1
        <4>4. Count(id2, bu2) = id2
          BY <1>1, <4>3 DEF Count
        <4> QED
          BY <1>2, <1>3, <3>3, <3>5, <4>2, <4>4
      <3> QED
        BY <3>4, <3>5
    <2> QED
      BY <2>1, <2>2
  <1>8. RingOk(id2, lv2, bu2)
    BY <1>1, <1>2, <1>4, <1>5, <1>6, <1>7 DEF RingOk
  <1>9. ASSUME NEW k \in 1..H PROVE At(id2, bu2, k) = IF k = 1 THEN l ELSE At(idx, buf, k - 1)
    <2>1. At(id2, bu2, k) = IF k <= id2 THEN bu2[id2 - k] ELSE bu2[id2 - k + H]
      BY <1>1, <1>8, AtIs
    <2>2. CASE k = 1
      <3>1. (IF k <= id2 THEN id2 - k ELSE id2 - k + H) = idx
        BY <1>2, <1>3, <2>2
      <3>2. At(id2, bu2, k) = bu2[idx]
        BY <2>1, <3>1
      <3> QED
        BY <1>5, <2>2, <3>2
    <2>3. CASE k # 1
      <3>1. k - 1 \in 1..H
        BY <2>3
      <3>2. At(idx, buf, k - 1) = IF k - 1 <= idx THEN buf[idx - (k - 1)] ELSE buf[idx - (k - 1) + H]
        BY <1>1, <3>1, AtIs
      <3>3. CASE k - 1 <= idx
        <4>1. (IF k <= id2 THEN id2 - k ELSE id2 - k + H) = idx - (k - 1)
          BY <1>2, <1>3, <3>3
        <4>2. idx - (k - 1) \in 0..(H - 1) /\ idx - (k - 1) # idx
          BY <1>2, <2>3, <3>3
        <4>3. At(id2, bu2, k) = bu2[idx - (k - 1)]
          BY <2>1, <4>1
        <4> QED
          BY <1>5, <2>3, <3>2, <3>3, <4>2, <4>3
      <3>4. CASE ~(k - 1 <= idx)
        <4>1. (IF k <= id2 THEN id2 - k ELSE id2 - k + H) = idx - (k - 1) + H
          <5>1. id2 = idx + 1 /\ ~(k <= id2)
            BY <1>2, <1>3, <3>4
          <5> QED
            BY <1>2, <5>1
        <4>2. idx - (k - 1) + H \in 0..(H - 1) /\ idx - (k - 1) + H # idx
          BY <1>2, <2>3, <3>4
        <4>3. At(id2, bu2, k) = bu2[idx - (k - 1) + H]
          BY <2>1, <4>1
        <4> QED
          BY <1>5, <2>3, <3>2, <3>4, <4>2, <4>3
      <3> QED
        BY <3>3, <3>4
    <2> QED
      BY <2>2, <2>3
  <1> QED
    BY <1>1, <1>7, <1>8, <1>9 DEF Added

\* Q is P with l in front, cut at n.
Prefixed(Q, l, P, n) ==
    n <= Len(P) + 1 /\ Len(Q) = n /\ \A k \in 1..n : Q[k] = IF k = 1 THEN l ELSE P[k - 1]

\* What a list becomes when an element is put in front and the list is cut at n.
LEMMA PutFirst ==
  ASSUME NEW S, NEW P \in Seq(S), NEW l \in S, NEW n \in Nat, NEW Q \in Seq(S), Prefixed(Q, l, P, n)
  PROVE  Q = SubSeq(<<l>> \o P, 1, n)
  <1>1. PICK c \in Nat : c = Len(P) /\ n <= c + 1 /\ Len(Q) = n /\ \A k \in 1..n : Q[k] = IF k = 1 THEN l ELSE P[k - 1]
    BY DEF Prefixed
  <1>2. PICK x : x = <<l>>
    OBVIOUS
  <1>3. x \in Seq(S) /\ Len(x) = 1 /\ x[1] = l
    BY <1>2
  <1>4. PICK y : y = x \o P
    OBVIOUS
  <1>5. y \in Seq(S) /\ Len(y) = 1 + c /\ \A k \in 1..(1 + c) : y[k] = IF k <= 1 THEN x[k] ELSE P[k - 1]
    <2>1. x \in Seq(S) /\ P \in Seq(S) /\ y = x \o P
      BY <1>3, <1>4
    <2>2. /\ y \in Seq(S) /\ Len(y) = Len(x) + Len(P)
          /\ \A k \in 1..(Len(x) + Len(P)) : y[k] = IF k <= Len(x) THEN x[k] ELSE P[k - Len(x)]
      BY ONLY <2>1, ConcatProperties
    <2> QED
      BY <1>1, <1>3, <2>2
  <1>6. PICK z : z = SubSeq(y, 1, n)
    OBVIOUS
  <1>7. z \in Seq(S) /\ Len(z) = n /\ \A k \in 1..n : z[k] = y[k]
    BY <1>1, <1>5, <1>6, SubSeqProperties
  <1>8. \A k \in 1..n : Q[k] = z[k]
    <2>1. SUFFICES ASSUME NEW k \in 1..n PROVE Q[k] = z[k]
      OBVIOUS
    <2>2. k \in 1..(1 + c) /\ (k <= 1 <=> k = 1)
      BY <1>1
    <2> QED
      BY <1>1, <1>3, <1>5, <1>7, <2>2
  <1>9. Q = z
    BY <1>1, <1>7, <1>8, SameSeq
  <1> QED
    BY <1>2, <1>4, <1>6, <1>9

\* A command is recorded.
Enters(idx, lv, buf, l, id2, lv2, bu2) ==
    /\ l \in Seq(Letter) /\ l # <<>> /\ Len(l) < COMMAND_BUF_SIZE
    /\ Adds(idx, buf, l, id2, bu2) /\ lv2 = Line!Min({lv + 1, HISTORY_MAXITEMS})

\* What the editor's commands become then.
Entered(idx, lv, buf, l, id2, lv2, bu2) ==
    /\ lv2 = Line!Ed!Min({HISTORY_MAXITEMS, lv + 1})
    /\ PastOf(id2, bu2) = SubSeq(<<l>> \o PastOf(idx, buf), 1,
                                 Line!Ed!Min({HISTORY_MAXITEMS, Len(PastOf(idx, buf)) + 1}))

\* A command that is recorded is the newest one.
LEMMA RecordedIs ==
  ASSUME NEW idx, NEW lv, NEW buf, RingOk(idx, lv, buf), NEW l, NEW id2, NEW lv2, NEW bu2,
         Enters(idx, lv, buf, l, id2, lv2, bu2)
  PROVE  RingOk(id2, lv2, bu2) /\ Entered(idx, lv, buf, l, id2, lv2, bu2)
  <1>a. l \in Seq(Letter) /\ l # <<>> /\ Len(l) < COMMAND_BUF_SIZE
    BY DEF Enters
  <1>b. Adds(idx, buf, l, id2, bu2) /\ lv2 = Line!Min({lv + 1, HISTORY_MAXITEMS})
    BY DEF Enters
  <1>c. PICK P : P = PastOf(idx, buf)
    OBVIOUS
  <1> USE <1>a, <1>b, <1>c
  <1>1. PICK H \in Nat \ {0} : H = HISTORY_MAXITEMS
    BY LineAssumption DEF LineAssumption
  <1>2. lv \in 0..H
    BY <1>1 DEF RingOk
  <1>3. lv2 = (IF lv + 1 <= H THEN lv + 1 ELSE H) /\ lv2 = Line!Ed!Min({H, lv + 1})
    <2>1. PICK lw \in Int : lw = lv + 1
      BY <1>2
    <2>2. Line!Min({lw, H}) = (IF lw <= H THEN lw ELSE H) /\ Line!Ed!Min({H, lw}) = (IF H <= lw THEN H ELSE lw)
      BY DEF Line!Min, Line!Ed!Min
    <2> QED
      BY <1>1, <2>1, <2>2
  <1>4. lv2 \in 0..H
    BY <1>2, <1>3
  <1>5. PICK C : C = Count(idx, buf) /\ C \in 0..H /\ P \in Seq(Seq(Letter)) /\ Len(P) = C
                 /\ P = [k \in 1..C |-> At(idx, buf, k)]
    BY <1>1, PastIs
  <1>6. /\ RingOk(id2, lv2, bu2) /\ Count(id2, bu2) = IF C < H THEN C + 1 ELSE H
        /\ \A k \in 1..H : At(id2, bu2, k) = IF k = 1 THEN l ELSE At(idx, buf, k - 1)
    <2>1. lv2 \in 0 .. HISTORY_MAXITEMS
      BY <1>1, <1>4
    <2>2. RingOk(id2, lv2, bu2) /\ Added(idx, buf, l, id2, bu2)
      BY <2>1, RingFills
    <2> QED
      BY <1>1, <1>5, <2>2 DEF Added
  <1>7. PICK n \in Nat : n = Count(id2, bu2)
    BY <1>1, <1>5, <1>6
  <1>8. n <= C + 1 /\ n <= H /\ n = Line!Ed!Min({H, C + 1})
    <2>1. PICK c1 \in Int : c1 = C + 1
      BY <1>5
    <2>2. Line!Ed!Min({H, c1}) = IF H <= c1 THEN H ELSE c1
      BY DEF Line!Ed!Min
    <2> QED
      BY <2>1, <2>2, <1>5, <1>6, <1>7, <2>1
  <1>9. PICK Q : Q = PastOf(id2, bu2)
    OBVIOUS
  <1>12. Q \in Seq(Seq(Letter)) /\ Len(Q) = n /\ Q = [k \in 1..n |-> At(id2, bu2, k)]
    <2>1. RingOk(id2, lv2, bu2)
      BY <1>6
    <2>2. /\ PastOf(id2, bu2) = [k \in 1 .. Count(id2, bu2) |-> At(id2, bu2, k)]
          /\ PastOf(id2, bu2) \in Seq(Seq(Letter)) /\ Len(PastOf(id2, bu2)) = Count(id2, bu2)
      BY ONLY <2>1, PastIs
    <2> QED
      BY ONLY <1>7, <1>9, <2>2
  <1>10. \A k \in 1..n : Q[k] = IF k = 1 THEN l ELSE P[k - 1]
    <2>1. SUFFICES ASSUME NEW k \in 1..n PROVE Q[k] = IF k = 1 THEN l ELSE P[k - 1]
      OBVIOUS
    <2>2. k \in 1..H /\ (k # 1 => k - 1 \in 1..C)
      BY <1>5, <1>8
    <2>3. Q[k] = IF k = 1 THEN l ELSE At(idx, buf, k - 1)
      BY <1>6, <1>12, <2>2
    <2> QED
      BY <1>5, <2>2, <2>3
  <1>11. Q = SubSeq(<<l>> \o P, 1, n)
    <2>1. P \in Seq(Seq(Letter)) /\ l \in Seq(Letter) /\ n \in Nat /\ Q \in Seq(Seq(Letter))
      BY <1>5, <1>12
    <2>2. Prefixed(Q, l, P, n)
      BY <1>5, <1>8, <1>10, <1>12 DEF Prefixed
    <2> QED
      BY ONLY <2>1, <2>2, PutFirst
  <1> QED
    BY <1>1, <1>3, <1>5, <1>6, <1>8, <1>9, <1>11 DEF Entered

\* The editor that the buffers and the ring stand for.
EdLine == IF Line!Hidden THEN <<>> ELSE Line!Before \o Line!After
EdCur == IF Line!Hidden THEN 0 ELSE i
EdBack == IF Line!Hidden THEN 0 ELSE -offset
EdPast == IF Line!Hidden THEN <<>> ELSE [k \in Line!Given |-> Line!Newest(k)]
EdLevel == IF Line!Hidden THEN 0 ELSE cmd_records.level
EdSlot == IF Line!Hidden THEN 0 ELSE cmd_records.cmd_idx
EdRecords == <<EdPast, EdLevel, EdSlot>>

\* As long as the program is within its buffers, they hold a line and the commands.
LineInv ==
    ~Line!Hidden => /\ Holds(input, i, expand_buf, ie) /\ offset \in Int /\ offset <= 0
                    /\ RingOk(cmd_records.cmd_idx, cmd_records.level, cmd_records.cmd_buf)
                    /\ cmd_records = [cmd_idx |-> cmd_records.cmd_idx, level |-> cmd_records.level,
                                      cmd_buf |-> cmd_records.cmd_buf]

\* What the editor is then.
View ==
    /\ EdLine = TextOf(input, i, expand_buf, ie) /\ EdCur = i /\ EdBack = -offset
    /\ EdPast = PastOf(cmd_records.cmd_idx, cmd_records.cmd_buf)
    /\ EdLevel = cmd_records.level /\ EdSlot = cmd_records.cmd_idx
    /\ Line!Before = Ahead(input, i) /\ Line!After = Behind(expand_buf, ie)

\* The line of the model is the one the buffers hold, its commands those of the ring.
LEMMA ViewNow == LineInv /\ ~Line!Hidden => View
  <1> SUFFICES ASSUME LineInv, ~Line!Hidden PROVE View
    OBVIOUS
  <1>1. Holds(input, i, expand_buf, ie)
    BY DEF LineInv
  <1>2. Line!Before = Ahead(input, i)
    BY DEF Line!Before, Ahead
  <1>3. Line!After = Behind(expand_buf, ie)
    <2>1. PICK N \in Nat : N = COMMAND_BUF_SIZE
      BY LineAssumption DEF LineAssumption
    <2>2. Line!Min({k \in Line!Cells : k > ie /\ expand_buf[k] <= 0}) = N - 1
      BY <1>1, <2>1, StopIs
    <2>3. ie \in Int
      BY <1>1, TextIs
    <2>4. Line!After = [k \in 1 .. N - 1 - ie - 1 |-> expand_buf[ie + k]]
      BY <2>2 DEF Line!After
    <2>5. N - 1 - ie - 1 = N - 2 - ie
      BY <2>3
    <2> QED
      BY <2>1, <2>4, <2>5 DEF Behind
  <1>4. Line!Before \o Line!After = TextOf(input, i, expand_buf, ie)
    BY <1>1, <1>2, <1>3, JoinIs
  <1>5. [k \in Line!Given |-> Line!Newest(k)] = PastOf(cmd_records.cmd_idx, cmd_records.cmd_buf)
    BY DEF Line!Given, Line!Newest, PastOf, At
  <1> QED
    BY <1>2, <1>3, <1>4, <1>5 DEF View, EdLine, EdCur, EdBack, EdPast, EdLevel, EdSlot

\* The same of the state after a step.
LEMMA ViewNext == LineInv' /\ ~Line!Hidden' => View'
  BY ViewNow, PTL

\* A step to this line, this place and this command shown.
Becomes(l, c, b) == ~Line!Hidden' /\ EdLine' = l /\ EdCur' = c /\ EdBack' = b

\* The steps of the editor, in these terms.
LEMMA EditInsert ==
  ASSUME ~Line!Hidden, NEW ch \in Typed, EdRecords' = EdRecords,
         Becomes(Splice(EdLine, EdCur, <<ch>>, EdCur), EdCur + 1, EdBack)
  PROVE  Line!Ed!Edit
  <1>0. Line!Hidden = FALSE /\ Line!Hidden' = FALSE
    BY DEF Line!Hidden, Becomes
  <1>1. Line!Ed!Insert
    BY <1>0 DEF Becomes, EdLine, EdCur, EdBack, Splice, Line!Ed!Insert, Line!Ed!Replace, Line!Ed!Head0, Line!Ed!Rest
  <1>2. UNCHANGED Line!Ed!Records
    BY DEF EdRecords, EdPast, EdLevel, EdSlot, Line!Ed!Records
  <1> QED
    BY <1>1, <1>2 DEF Line!Ed!Edit

\* The character before the cursor goes.
LEMMA EditBackspace ==
  ASSUME ~Line!Hidden, EdRecords' = EdRecords, EdCur > 0,
         Becomes(Cut(EdLine, EdCur - 1, EdCur), EdCur - 1, EdBack)
  PROVE  Line!Ed!Edit
  <1>0. Line!Hidden = FALSE /\ Line!Hidden' = FALSE
    BY DEF Line!Hidden, Becomes
  <1>1. Line!Ed!Backspace
    BY <1>0 DEF Becomes, EdLine, EdCur, EdBack, Cut, Line!Ed!Backspace, Line!Ed!Replace, Line!Ed!Head0, Line!Ed!Rest
  <1>2. UNCHANGED Line!Ed!Records
    BY DEF EdRecords, EdPast, EdLevel, EdSlot, Line!Ed!Records
  <1> QED
    BY <1>1, <1>2 DEF Line!Ed!Edit

\* The character at the cursor goes.
LEMMA EditDelete ==
  ASSUME ~Line!Hidden, EdRecords' = EdRecords, EdCur < Len(EdLine),
         Becomes(Cut(EdLine, EdCur, EdCur + 1), EdCur, EdBack)
  PROVE  Line!Ed!Edit
  <1>0. Line!Hidden = FALSE /\ Line!Hidden' = FALSE
    BY DEF Line!Hidden, Becomes
  <1>1. Line!Ed!Delete
    BY <1>0 DEF Becomes, EdLine, EdCur, EdBack, Cut, Line!Ed!Delete, Line!Ed!Replace, Line!Ed!Head0, Line!Ed!Rest
  <1>2. UNCHANGED Line!Ed!Records
    BY DEF EdRecords, EdPast, EdLevel, EdSlot, Line!Ed!Records
  <1> QED
    BY <1>1, <1>2 DEF Line!Ed!Edit

\* The cursor moves by one.
LEMMA EditMove ==
  ASSUME ~Line!Hidden, EdRecords' = EdRecords, NEW c \in {EdCur - 1, EdCur + 1} \cap 0 .. Len(EdLine),
         Becomes(EdLine, c, EdBack)
  PROVE  Line!Ed!Edit
  <1>0. Line!Hidden = FALSE /\ Line!Hidden' = FALSE
    BY DEF Line!Hidden, Becomes
  <1>1. Line!Ed!Move
    BY <1>0 DEF Becomes, EdLine, EdCur, EdBack, Line!Ed!Move, Line!Ed!Replace
  <1>2. UNCHANGED Line!Ed!Records
    BY DEF EdRecords, EdPast, EdLevel, EdSlot, Line!Ed!Records
  <1> QED
    BY <1>1, <1>2 DEF Line!Ed!Edit

\* The rest of a keyword is put before the cursor.
LEMMA EditComplete ==
  ASSUME ~Line!Hidden, EdRecords' = EdRecords, NEW w \in Line!Range(Keywords), NEW n \in 1 .. Len(w),
         Becomes(Splice(EdLine, EdCur, SubSeq(w, n, Len(w)), EdCur), EdCur + Len(w) - n + 1, EdBack)
  PROVE  Line!Ed!Edit
  <1>0. Line!Hidden = FALSE /\ Line!Hidden' = FALSE
    BY DEF Line!Hidden, Becomes
  <1>1. Line!Ed!Complete
    BY <1>0 DEF Becomes, EdLine, EdCur, EdBack, Splice, Line!Ed!Complete, Line!Ed!Replace, Line!Ed!Head0, Line!Ed!Rest
  <1>2. UNCHANGED Line!Ed!Records
    BY DEF EdRecords, EdPast, EdLevel, EdSlot, Line!Ed!Records
  <1> QED
    BY <1>1, <1>2 DEF Line!Ed!Edit

\* What is shown for b.
EdShown(b) == IF b = 0 THEN IF Len(EdPast) = HISTORY_MAXITEMS THEN EdPast[HISTORY_MAXITEMS] ELSE <<>> ELSE EdPast[b]

\* An older or a newer command is shown.
LEMMA EditRecall ==
  ASSUME ~Line!Hidden, EdRecords' = EdRecords, NEW b, b <= EdSlot, NEW l, l = EdShown(b),
         \/ b = Line!Ed!Min({EdBack + 1, EdLevel})
         \/ b = Line!Ed!Max({EdBack - 1, 1}),
         Becomes(l, Len(l), b)
  PROVE  Line!Ed!Edit
  <1>0. Line!Hidden = FALSE /\ Line!Hidden' = FALSE
    BY DEF Line!Hidden, Becomes
  <1>1. Line!Ed!Recall(b)
    BY <1>0 DEF Becomes, EdLine, EdCur, EdBack, EdSlot, EdPast, EdShown, Line!Ed!Recall, Line!Ed!Replace, Line!Ed!Shown
  <1>2. b = Line!Ed!Older \/ b = Line!Ed!Newer
    BY DEF EdBack, EdLevel, Line!Ed!Older, Line!Ed!Newer
  <1>3. UNCHANGED Line!Ed!Records
    BY DEF EdRecords, EdPast, EdLevel, EdSlot, Line!Ed!Records
  <1> QED
    BY <1>1, <1>2, <1>3 DEF Line!Ed!Edit

\* A line without room is dropped.
LEMMA EditReject ==
  ASSUME ~Line!Hidden, EdRecords' = EdRecords, EdCur >= COMMAND_BUF_SIZE, Becomes(<<>>, 0, 0)
  PROVE  Line!Ed!Edit
  <1>0. Line!Hidden = FALSE /\ Line!Hidden' = FALSE
    BY DEF Line!Hidden, Becomes
  <1>1. Line!Ed!Reject
    BY <1>0 DEF Becomes, EdLine, EdCur, EdBack, EdRecords, EdPast, EdLevel, EdSlot,
           Line!Ed!Reject, Line!Ed!Fresh, Line!Ed!Records
  <1> QED
    BY <1>1 DEF Line!Ed!Edit

\* A command is entered.
LEMMA EditEnter ==
  ASSUME ~Line!Hidden, Becomes(<<>>, 0, 0),
         \/ EdRecords' = EdRecords
         \/ EdLevel' = 0 /\ EdPast' = EdPast /\ EdSlot' = EdSlot
         \/ /\ EdPast' = SubSeq(<<EdLine>> \o EdPast, 1, Line!Ed!Min({HISTORY_MAXITEMS, Len(EdPast) + 1}))
            /\ EdLevel' = Line!Ed!Min({HISTORY_MAXITEMS, EdLevel + 1}) /\ EdSlot' = (EdSlot + 1) % HISTORY_MAXITEMS
  PROVE  Line!Ed!Edit
  <1>0. Line!Hidden = FALSE /\ Line!Hidden' = FALSE
    BY DEF Line!Hidden, Becomes
  <1>1. Line!Ed!Enter
    BY <1>0 DEF Becomes, EdLine, EdCur, EdBack, EdRecords, EdPast, EdLevel, EdSlot,
           Line!Ed!Enter, Line!Ed!Fresh, Line!Ed!Records
  <1> QED
    BY <1>1 DEF Line!Ed!Edit

\* The program leaves its buffers.
LEMMA EditBreaks ==
  ASSUME ~Line!Hidden, Line!Hidden',
         \/ Len(EdLine) >= COMMAND_BUF_SIZE
         \/ \E n \in 1 .. Len(EdLine) : EdLine[n] < 0
         \/ \E w \in Line!Range(Keywords) : EdCur + Len(w) >= COMMAND_BUF_SIZE
         \/ Line!Ed!Min({EdBack + 1, EdLevel}) > EdSlot
         \/ Line!Ed!Max({EdBack - 1, 1}) > EdSlot
         \/ EdLevel > EdSlot
  PROVE  Line!Ed!Edit
  <1>0. Line!Hidden = FALSE /\ Line!Hidden' = TRUE
    BY DEF Line!Hidden
  <1>1. Line!Ed!Breaks
    BY <1>0 DEF EdLine, EdCur, EdBack, EdPast, EdLevel, EdSlot,
           Line!Ed!Breaks, Line!Ed!Fresh, Line!Ed!Older, Line!Ed!Newer
  <1> QED
    BY <1>1 DEF Line!Ed!Edit

\* The editor does nothing.
LEMMA EditSame ==
  ASSUME \/ Line!Hidden /\ Line!Hidden'
         \/ ~Line!Hidden /\ EdRecords' = EdRecords /\ Becomes(EdLine, EdCur, EdBack)
  PROVE  UNCHANGED Line!Ed!editorVars
  <1>1. Line!Hidden \in BOOLEAN /\ Line!Hidden' \in BOOLEAN
    BY DEF Line!Hidden
  <1> QED
    BY <1>1 DEF Becomes, EdLine, EdCur, EdBack, EdRecords, EdPast, EdLevel, EdSlot, Line!Ed!editorVars

\* A step that stays in the buffers and leaves the ring alone.
LEMMA StepStays ==
  ASSUME LineInv, ~Line!Hidden, ~Line!Hidden', cmd_records' = cmd_records,
         Holds(input', i', expand_buf', ie'), offset' \in Int, offset' <= 0,
         NEW l, NEW c, NEW b, TextOf(input', i', expand_buf', ie') = l, i' = c, -offset' = b
  PROVE  LineInv' /\ EdRecords' = EdRecords /\ Becomes(l, c, b)
  <1>1. LineInv'
    BY DEF LineInv
  <1>2. View /\ View'
    BY <1>1, ViewNow, ViewNext
  <1>3. Becomes(l, c, b)
    BY <1>2 DEF View, Becomes
  <1>4. EdRecords' = EdRecords
    BY <1>2 DEF View, EdRecords
  <1> QED
    BY <1>1, <1>3, <1>4

\* What the program is before a key, as long as it is in its buffers.
LEMMA LineNow ==
  ASSUME LineInv, ~Line!Hidden
  PROVE  /\ Holds(input, i, expand_buf, ie) /\ offset \in Int /\ offset <= 0
         /\ EdLine = TextOf(input, i, expand_buf, ie) /\ EdCur = i /\ EdBack = -offset
         /\ EdLevel = cmd_records.level /\ EdSlot = cmd_records.cmd_idx
         /\ EdPast = PastOf(cmd_records.cmd_idx, cmd_records.cmd_buf)
         /\ RingOk(cmd_records.cmd_idx, cmd_records.level, cmd_records.cmd_buf)
         /\ i \in Nat /\ ie \in Int /\ COMMAND_BUF_SIZE - 2 - ie \in Nat /\ i <= COMMAND_BUF_SIZE /\ ie >= -1
         /\ COMMAND_BUF_SIZE \in Nat /\ COMMAND_BUF_SIZE >= 2
         /\ EdLine \in Seq(Letter) /\ Len(EdLine) = i + (COMMAND_BUF_SIZE - 2 - ie)
  <1>1. Holds(input, i, expand_buf, ie) /\ offset \in Int /\ offset <= 0
    BY DEF LineInv
  <1>2. RingOk(cmd_records.cmd_idx, cmd_records.level, cmd_records.cmd_buf)
    BY DEF LineInv
  <1>3. View
    BY ViewNow
  <1>4. COMMAND_BUF_SIZE \in Nat /\ COMMAND_BUF_SIZE >= 2
    BY LineAssumption DEF LineAssumption
  <1>5. /\ i \in Nat /\ ie \in Int /\ COMMAND_BUF_SIZE - 2 - ie \in Nat /\ i <= COMMAND_BUF_SIZE
        /\ TextOf(input, i, expand_buf, ie) \in Seq(Letter)
        /\ Len(TextOf(input, i, expand_buf, ie)) = i + (COMMAND_BUF_SIZE - 2 - ie)
    BY <1>1, TextIs
  <1>6. ie >= -1
    BY <1>1, <1>4 DEF Holds
  <1> QED
    BY <1>1, <1>2, <1>3, <1>4, <1>5, <1>6 DEF View

\* What there is after the cursor.
LEMMA AfterIs ==
  ASSUME LineInv, ~Line!Hidden, Line!After # <<>>
  PROVE  ie < COMMAND_BUF_SIZE - 2
  <1>1. Line!After = Behind(expand_buf, ie) /\ Holds(input, i, expand_buf, ie)
    BY ViewNow, LineNow DEF View
  <1>2. Behind(expand_buf, ie) \in Seq(Letter) /\ Len(Behind(expand_buf, ie)) = COMMAND_BUF_SIZE - 2 - ie
    BY <1>1, JoinIs
  <1>3. COMMAND_BUF_SIZE - 2 - ie # 0
    BY <1>1, <1>2
  <1> QED
    BY <1>3, LineNow

\* No step ends the model's ignorance of what a wild or lossy program does.
LEMMA HiddenStays ==
  ASSUME Line!LineNext, Line!Hidden
  PROVE  Line!Hidden'
  <1>1. ~wild /\ lost
    BY DEF Line!LineNext, Line!Hidden
  <1>2. lost'
    <2>1. ASSUME Line!shell_execute PROVE lost'
      BY <1>1, <2>1 DEF Line!shell_execute, Line!Wild, Line!FreshLine
    <2>2. ASSUME Line!auto_complete PROVE lost'
      BY <1>1, <2>2 DEF Line!auto_complete, Line!Wild
    <2>3. ASSUME NEW off, Line!history_process(off) PROVE lost'
      BY <1>1, <2>3 DEF Line!history_process, Line!Wild
    <2>4. ASSUME NEW ch, Line!typed_char(ch) PROVE lost'
      BY <1>1, <2>4 DEF Line!typed_char, Line!FreshLine
    <2>5. ASSUME Line!key_backspace_process \/ Line!key_right_process \/ Line!key_del_process PROVE lost'
      BY <1>1, <2>5 DEF Line!key_backspace_process, Line!key_right_process, Line!key_del_process, Line!Wild
    <2>6. ASSUME Line!key_left_process PROVE lost'
      BY <1>1, <2>6 DEF Line!key_left_process, Line!Wild
    <2> QED
      BY <2>1, <2>2, <2>3, <2>4, <2>5, <2>6 DEF Line!LineNext, Line!key_up, Line!key_down
  <1> QED
    BY <1>1, <1>2 DEF Line!Hidden

\* backspace is Backspace.
LEMMA DoBackspace ==
  ASSUME LineInv, ~Line!Hidden, Line!key_backspace_process
  PROVE  LineInv' /\ Line!Ed!Edit
  <1>1. i > 0
    BY DEF Line!key_backspace_process
  <1>2. CASE i \notin Line!Cells /\ Line!Wild
    <2>1. Line!Hidden' /\ LineInv'
      BY <1>2 DEF Line!Wild, Line!Hidden, LineInv
    <2>2. Len(EdLine) >= COMMAND_BUF_SIZE
      BY <1>2, LineNow DEF Line!Cells
    <2> QED
      BY <2>1, <2>2, EditBreaks
  <1>3. CASE /\ i \in Line!Cells /\ input' = [input EXCEPT ![i] = 0] /\ i' = i - 1
             /\ UNCHANGED <<expand_buf, ie, offset, lost>> /\ Line!Safe
    <2>1. ~Line!Hidden' /\ cmd_records' = cmd_records
      BY <1>3 DEF Line!Safe, Line!Elsewhere, Line!Hidden
    <2>2. i < COMMAND_BUF_SIZE
      BY <1>3, LineNow DEF Line!Cells
    <2>3. /\ Holds(input', i', expand_buf', ie')
          /\ TextOf(input', i', expand_buf', ie') = Cut(EdLine, EdCur - 1, EdCur)
      <3>1. Holds(input, i, expand_buf, ie) /\ Backs(input, i, expand_buf, ie, EdLine, input')
        BY <1>1, <1>3, <2>2, LineNow DEF Backs
      <3>2. Holds(input', i - 1, expand_buf, ie) /\ TextOf(input', i - 1, expand_buf, ie) = Cut(EdLine, i - 1, i)
        BY ONLY <3>1, BackText
      <3> QED
        BY <1>3, <3>2, LineNow
    <2>4. LineInv' /\ EdRecords' = EdRecords /\ Becomes(Cut(EdLine, EdCur - 1, EdCur), EdCur - 1, EdBack)
      BY <1>3, <2>1, <2>3, LineNow, StepStays
    <2>5. EdCur > 0
      BY <1>1, LineNow
    <2> QED
      BY <2>4, <2>5, EditBackspace
  <1> QED
    BY <1>2, <1>3 DEF Line!key_backspace_process

\* left is Move, or the end of the promise over a byte above 127.
LEMMA DoLeft ==
  ASSUME LineInv, ~Line!Hidden, Line!key_left_process
  PROVE  LineInv' /\ Line!Ed!Edit
  <1>1. i > 0
    BY DEF Line!key_left_process
  <1>2. CASE ie \notin Line!Cells /\ Line!Wild
    <2>1. Line!Hidden' /\ LineInv'
      BY <1>2 DEF Line!Wild, Line!Hidden, LineInv
    <2>2. Len(EdLine) >= COMMAND_BUF_SIZE
      BY <1>1, <1>2, LineNow DEF Line!Cells
    <2> QED
      BY <2>1, <2>2, EditBreaks
  <1>3. CASE /\ ie \in Line!Cells /\ i' = i - 1 /\ ie' = Line!LeftIe
             /\ expand_buf' = [expand_buf EXCEPT ![ie] = input[i - 1]]
             /\ input' = [input EXCEPT ![i - 1] = 0]
             /\ lost' = (lost \/ input[i - 1] < 0)
             /\ UNCHANGED offset /\ Line!Safe
    <2>1. CASE input[i - 1] < 0
      <3>1. Line!Hidden' /\ LineInv'
        BY <1>3, <2>1 DEF Line!Hidden, LineInv
      <3>2. i \in 1 .. Len(EdLine) /\ EdLine[i] = input[i - 1]
        <4>1. i \in 1 .. i + (COMMAND_BUF_SIZE - 2 - ie)
          BY <1>1, LineNow
        <4>2. EdLine[i] = IF i <= i THEN input[i - 1] ELSE expand_buf[ie + i - i]
          <5>1. IsText(EdLine, input, i, expand_buf, ie)
            BY LineNow, TextText
          <5> QED
            BY <4>1, <5>1 DEF IsText
        <4> QED
          BY <4>1, <4>2, LineNow
      <3> QED
        BY <2>1, <3>1, <3>2, EditBreaks
    <2>2. CASE ~(input[i - 1] < 0)
      <3>1. ~Line!Hidden' /\ cmd_records' = cmd_records
        BY <1>3, <2>2 DEF Line!Safe, Line!Elsewhere, Line!Hidden
      <3>2. ie >= 0 /\ input[i - 1] >= 0
        <4>1. i - 1 \in 0 .. COMMAND_BUF_SIZE - 1
          BY <1>1, LineNow
        <4>2. input[i - 1] \in Int
          BY <4>1, LineNow DEF Holds
        <4> QED
          BY <1>3, <2>2, <4>2, LineNow DEF Line!Cells
      <3>3. Holds(input', i', expand_buf', ie') /\ TextOf(input', i', expand_buf', ie') = EdLine
        <4>1. Holds(input, i, expand_buf, ie) /\ Lefts(input, i, expand_buf, ie, EdLine, input', expand_buf')
          BY <1>1, <1>3, <3>2, LineNow DEF Lefts
        <4>2. Holds(input', i - 1, expand_buf', ie - 1) /\ TextOf(input', i - 1, expand_buf', ie - 1) = EdLine
          BY ONLY <4>1, LeftText
        <4> QED
          BY <1>3, <4>2 DEF Line!LeftIe
      <3>4. LineInv' /\ EdRecords' = EdRecords /\ Becomes(EdLine, EdCur - 1, EdBack)
        BY <1>3, <3>1, <3>3, LineNow, StepStays
      <3>5. EdCur - 1 \in {EdCur - 1, EdCur + 1} \cap 0 .. Len(EdLine)
        BY <1>1, LineNow
      <3> QED
        BY <3>4, <3>5, EditMove
    <2> QED
      BY <2>1, <2>2
  <1> QED
    BY <1>2, <1>3 DEF Line!key_left_process

\* right is Move.
LEMMA DoRight ==
  ASSUME LineInv, ~Line!Hidden, Line!key_right_process
  PROVE  LineInv' /\ Line!Ed!Edit
  <1>1. ie < COMMAND_BUF_SIZE - 2
    BY AfterIs DEF Line!key_right_process
  <1>2. CASE i \notin Line!Cells /\ Line!Wild
    <2>1. Line!Hidden' /\ LineInv'
      BY <1>2 DEF Line!Wild, Line!Hidden, LineInv
    <2>2. Len(EdLine) >= COMMAND_BUF_SIZE
      BY <1>2, LineNow DEF Line!Cells
    <2> QED
      BY <2>1, <2>2, EditBreaks
  <1>3. CASE /\ i \in Line!Cells /\ input' = [input EXCEPT ![i] = expand_buf[ie + 1]] /\ i' = i + 1
             /\ expand_buf' = [expand_buf EXCEPT ![ie + 1] = 0] /\ ie' = ie + 1
             /\ UNCHANGED <<offset, lost>> /\ Line!Safe
    <2>1. ~Line!Hidden' /\ cmd_records' = cmd_records
      BY <1>3 DEF Line!Safe, Line!Elsewhere, Line!Hidden
    <2>2. i < COMMAND_BUF_SIZE
      BY <1>3, LineNow DEF Line!Cells
    <2>3. Holds(input', i', expand_buf', ie') /\ TextOf(input', i', expand_buf', ie') = EdLine
      <3>1. Holds(input, i, expand_buf, ie) /\ Rights(input, i, expand_buf, ie, EdLine, input', expand_buf')
        BY <1>1, <1>3, <2>2, LineNow DEF Rights
      <3>2. Holds(input', i + 1, expand_buf', ie + 1) /\ TextOf(input', i + 1, expand_buf', ie + 1) = EdLine
        BY ONLY <3>1, RightText
      <3> QED
        BY <1>3, <3>2
    <2>4. LineInv' /\ EdRecords' = EdRecords /\ Becomes(EdLine, EdCur + 1, EdBack)
      BY <1>3, <2>1, <2>3, LineNow, StepStays
    <2>5. EdCur + 1 \in {EdCur - 1, EdCur + 1} \cap 0 .. Len(EdLine)
      BY <1>1, LineNow
    <2> QED
      BY <2>4, <2>5, EditMove
  <1> QED
    BY <1>2, <1>3 DEF Line!key_right_process

\* del is Delete.
LEMMA DoDelete ==
  ASSUME LineInv, ~Line!Hidden, Line!key_del_process
  PROVE  LineInv' /\ Line!Ed!Edit
  <1>1. ie < COMMAND_BUF_SIZE - 2
    BY AfterIs DEF Line!key_del_process
  <1>2. CASE i + 1 \notin Line!Cells /\ Line!Wild
    <2>1. Line!Hidden' /\ LineInv'
      BY <1>2 DEF Line!Wild, Line!Hidden, LineInv
    <2>2. Len(EdLine) >= COMMAND_BUF_SIZE
      BY <1>1, <1>2, LineNow DEF Line!Cells
    <2> QED
      BY <2>1, <2>2, EditBreaks
  <1>3. CASE /\ i + 1 \in Line!Cells /\ input' = [input EXCEPT ![i] = expand_buf[ie + 1], ![i + 1] = 0]
             /\ expand_buf' = [expand_buf EXCEPT ![ie + 1] = 0] /\ ie' = ie + 1
             /\ UNCHANGED <<i, offset, lost>> /\ Line!Safe
    <2>1. ~Line!Hidden' /\ cmd_records' = cmd_records
      BY <1>3 DEF Line!Safe, Line!Elsewhere, Line!Hidden
    <2>2. i + 1 < COMMAND_BUF_SIZE
      BY <1>3, LineNow DEF Line!Cells
    <2>3. /\ Holds(input', i', expand_buf', ie')
          /\ TextOf(input', i', expand_buf', ie') = Cut(EdLine, EdCur, EdCur + 1)
      <3>1. Holds(input, i, expand_buf, ie) /\ Dels(input, i, expand_buf, ie, EdLine, input', expand_buf')
        BY <1>1, <1>3, <2>2, LineNow DEF Dels
      <3>2. Holds(input', i, expand_buf', ie + 1) /\ TextOf(input', i, expand_buf', ie + 1) = Cut(EdLine, i, i + 1)
        BY ONLY <3>1, DeleteText
      <3> QED
        BY <1>3, <3>2, LineNow
    <2>4. LineInv' /\ EdRecords' = EdRecords /\ Becomes(Cut(EdLine, EdCur, EdCur + 1), EdCur, EdBack)
      BY <1>3, <2>1, <2>3, LineNow, StepStays
    <2>5. EdCur < Len(EdLine)
      BY <1>1, LineNow
    <2> QED
      BY <2>4, <2>5, EditDelete
  <1> QED
    BY <1>2, <1>3 DEF Line!key_del_process

\* Up and down are Recall, until a command before the start of the ring is sought.
LEMMA DoRecall ==
  ASSUME LineInv, ~Line!Hidden, NEW off, Line!history_process(off),
         \/ off = Line!Max({offset - 1, -cmd_records.level})
         \/ off = Line!Min({offset + 1, -1})
  PROVE  LineInv' /\ Line!Ed!Edit
  <1>1. PICK idx, lv, buf : idx = cmd_records.cmd_idx /\ lv = cmd_records.level /\ buf = cmd_records.cmd_buf
    OBVIOUS
  <1>2. RingOk(idx, lv, buf)
    BY <1>1, LineNow
  <1>3. PICK H \in Nat \ {0} : H = HISTORY_MAXITEMS
    BY LineAssumption DEF LineAssumption
  <1>4. idx \in 0..(H - 1) /\ lv \in 0..H
    BY <1>2, <1>3 DEF RingOk
  <1>5. PICK o \in Int : o = offset /\ o <= 0
    BY LineNow
  <1>6. PICK b \in Nat : off = -b /\ (\/ b = Line!Ed!Min({EdBack + 1, EdLevel})
                                     \/ b = Line!Ed!Max({EdBack - 1, 1}))
    <2>1. EdBack = -o /\ EdLevel = lv
      BY <1>1, <1>5, LineNow
    <2>2. CASE off = Line!Max({offset - 1, -cmd_records.level})
      <3>1. PICK p \in Int : p = o - 1
        OBVIOUS
      <3>2. PICK q \in Int : q = -lv
        BY <1>4
      <3>3. Line!Max({p, q}) = IF p <= q THEN q ELSE p
        BY DEF Line!Max
      <3>4. PICK r \in Int : r = -o + 1
        OBVIOUS
      <3>5. Line!Ed!Min({r, lv}) = IF r <= lv THEN r ELSE lv
        <4>1. lv \in Int
          BY <1>4
        <4> QED
          BY <4>1 DEF Line!Ed!Min
      <3>6. off = IF p <= q THEN q ELSE p
        BY <1>1, <1>5, <2>2, <3>1, <3>2, <3>3
      <3>7. Line!Ed!Min({EdBack + 1, EdLevel}) = IF r <= lv THEN r ELSE lv
        BY <2>1, <3>4, <3>5
      <3>8. -off \in Nat /\ off = -(-off) /\ -off = IF r <= lv THEN r ELSE lv
        BY <1>4, <1>5, <3>1, <3>2, <3>4, <3>6
      <3> QED
        BY <3>7, <3>8
    <2>3. CASE off = Line!Min({offset + 1, -1})
      <3>1. PICK p \in Int : p = o + 1
        OBVIOUS
      <3>2. Line!Min({p, -1}) = IF p <= -1 THEN p ELSE -1
        BY DEF Line!Min
      <3>3. PICK r \in Int : r = -o - 1
        OBVIOUS
      <3>4. Line!Ed!Max({r, 1}) = IF r <= 1 THEN 1 ELSE r
        BY DEF Line!Ed!Max
      <3>5. off = IF p <= -1 THEN p ELSE -1
        BY <1>5, <2>3, <3>1, <3>2
      <3>6. Line!Ed!Max({EdBack - 1, 1}) = IF r <= 1 THEN 1 ELSE r
        BY <2>1, <3>3, <3>4
      <3>7. -off \in Nat /\ off = -(-off) /\ -off = IF r <= 1 THEN 1 ELSE r
        <4>1. CASE p <= -1
          <5>1. off = o + 1
            BY <3>1, <3>5, <4>1
          <5>2. -off = r /\ r >= 1
            BY <1>5, <3>1, <3>3, <4>1, <5>1
          <5> QED
            BY <1>5, <3>3, <5>1, <5>2
        <4>2. CASE ~(p <= -1)
          <5>1. off = -1 /\ r <= 1
            BY <1>5, <3>1, <3>3, <3>5, <4>2
          <5>2. (IF r <= 1 THEN 1 ELSE r) = 1
            BY ONLY <5>1
          <5>3. PICK z \in Int : z = off
            BY <5>1
          <5>4. -z = 0 - z /\ z = 0 - (0 - z)
            OBVIOUS
          <5>5. -z = 1
            BY <5>1, <5>3, <5>4
          <5>6. -off = 1
            BY <5>3, <5>5
          <5> QED
            BY <5>2, <5>3, <5>4, <5>6
        <4> QED
          BY <4>1, <4>2
      <3> QED
        BY <3>6, <3>7
    <2> QED
      BY <2>2, <2>3
  <1>7. CASE Line!Slot(off) < 0 /\ Line!Wild
    <2>1. Line!Hidden' /\ LineInv'
      BY <1>7 DEF Line!Wild, Line!Hidden, LineInv
    <2>2. b > EdSlot
      <3>1. EdSlot = idx /\ Line!Slot(off) = idx + off
        BY <1>1, LineNow DEF Line!Slot
      <3> QED
        BY <1>4, <1>6, <1>7, <3>1
    <2> QED
      BY <1>6, <2>1, <2>2, EditBreaks
  <1>8. CASE ~(Line!Slot(off) < 0 /\ Line!Wild)
    <2>1. /\ Line!Slot(off) >= 0 /\ offset' = off
          /\ expand_buf' = Line!Zeros /\ ie' = COMMAND_BUF_SIZE - 2
          /\ input' = [k \in Line!Cells |->
                         IF k < Len(cmd_records.cmd_buf[Line!Slot(off)])
                         THEN cmd_records.cmd_buf[Line!Slot(off)][k + 1] ELSE 0]
          /\ i' = Len(cmd_records.cmd_buf[Line!Slot(off)])
          /\ UNCHANGED lost /\ Line!Safe
      BY <1>8 DEF Line!history_process
    <2>2. Line!Slot(off) = idx - b /\ b \in 0..idx /\ EdSlot = idx
      <3>1. EdSlot = idx /\ Line!Slot(off) = idx + off
        BY <1>1, LineNow DEF Line!Slot
      <3> QED
        BY <1>4, <1>6, <2>1, <3>1
    <2>3. PICK l : l = buf[idx - b]
      OBVIOUS
    <2>4. SlotShown(PastOf(idx, buf), idx, buf, b)
      BY <1>2, <2>2, ShownAt
    <2>5. l = EdShown(b) /\ l \in Seq(Letter) /\ Len(l) < COMMAND_BUF_SIZE
      <3>1. EdPast = PastOf(idx, buf)
        BY <1>1, LineNow
      <3> QED
        BY <2>3, <2>4, <3>1 DEF SlotShown, EdShown
    <2>6. Shows(l, input', expand_buf', ie') /\ i' = Len(l)
      BY <1>1, <2>1, <2>2, <2>3, <2>5 DEF Shows, Line!Cells, Line!Zeros
    <2>7. Holds(input', i', expand_buf', ie') /\ TextOf(input', i', expand_buf', ie') = l
      <3>1. Holds(input', Len(l), expand_buf', ie') /\ TextOf(input', Len(l), expand_buf', ie') = l
        BY ONLY <2>6, ShowText
      <3> QED
        BY <2>6, <3>1
    <2>8. ~Line!Hidden' /\ cmd_records' = cmd_records
      BY <2>1 DEF Line!Safe, Line!Elsewhere, Line!Hidden
    <2>9. offset' \in Int /\ offset' <= 0 /\ -offset' = b
      BY <1>6, <2>1
    <2>10. LineInv' /\ EdRecords' = EdRecords /\ Becomes(l, Len(l), b)
      BY <2>6, <2>7, <2>8, <2>9, StepStays
    <2>11. b <= EdSlot
      BY <1>4, <2>2
    <2> QED
      BY <1>6, <2>5, <2>10, <2>11, EditRecall
  <1> QED
    BY <1>7, <1>8

\* A fresh line.
LEMMA FreshIs ==
  ASSUME Line!FreshLine(Line!Zeros)
  PROVE  /\ Holds(input', i', expand_buf', ie') /\ TextOf(input', i', expand_buf', ie') = <<>> /\ i' = 0
         /\ offset' \in Int /\ offset' <= 0 /\ -offset' = 0 /\ lost' = lost
  <1>1. /\ input' = Line!Zeros /\ i' = 0 /\ expand_buf' = Line!Zeros
        /\ ie' = COMMAND_BUF_SIZE - 2 /\ offset' = 0 /\ UNCHANGED lost
    BY DEF Line!FreshLine
  <1>2. PICK l : l = <<>> /\ l \in Seq(Letter) /\ Len(l) = 0
    <2>1. <<>> \in Seq(Letter) /\ Len(<<>>) = 0
      OBVIOUS
    <2> QED
      BY <2>1
  <1>3. COMMAND_BUF_SIZE \in Nat /\ COMMAND_BUF_SIZE > 0
    BY LineAssumption DEF LineAssumption
  <1>4. input' = [k \in 0 .. COMMAND_BUF_SIZE - 1 |-> IF k < Len(l) THEN l[k + 1] ELSE 0]
    <2>1. \A k \in 0 .. COMMAND_BUF_SIZE - 1 : ~(k < 0)
      BY <1>3
    <2>2. \A k \in 0 .. COMMAND_BUF_SIZE - 1 : (IF k < Len(l) THEN l[k + 1] ELSE 0) = 0
      BY <1>2, <2>1
    <2> QED
      BY <1>1, <2>2 DEF Line!Zeros, Line!Cells
  <1>5. Shows(l, input', expand_buf', ie')
    BY <1>1, <1>2, <1>3, <1>4 DEF Shows, Line!Zeros, Line!Cells
  <1>6. Holds(input', Len(l), expand_buf', ie') /\ TextOf(input', Len(l), expand_buf', ie') = l
    BY ONLY <1>5, ShowText
  <1> QED
    <2>1. offset' = 0
      BY <1>1
    <2>2. offset' \in Int /\ offset' <= 0 /\ -offset' = 0
      <3>1. PICK z \in Int : z = offset'
        BY <2>1
      <3>2. -z = 0 - z
        OBVIOUS
      <3>3. -z = 0
        BY <2>1, <3>1, <3>2
      <3> QED
        BY <2>1, <3>1, <3>3
    <2> QED
      BY <1>1, <1>2, <1>6, <2>2

\* An ordinary character is Insert, or Reject when there is no room.
LEMMA DoType ==
  ASSUME LineInv, ~Line!Hidden, NEW ch \in Typed, Line!typed_char(ch)
  PROVE  LineInv' /\ Line!Ed!Edit
  <1>1. CASE i >= COMMAND_BUF_SIZE /\ Line!FreshLine(Line!Zeros) /\ Line!Safe
    <2>1. ~Line!Hidden' /\ cmd_records' = cmd_records
      BY <1>1, FreshIs DEF Line!Safe, Line!Elsewhere, Line!Hidden
    <2>2. offset' \in Int /\ offset' <= 0 /\ -offset' = 0
      BY <1>1, FreshIs
    <2>3. LineInv' /\ EdRecords' = EdRecords /\ Becomes(<<>>, 0, 0)
      BY <1>1, <2>1, <2>2, FreshIs, StepStays
    <2>4. EdCur >= COMMAND_BUF_SIZE
      BY <1>1, LineNow
    <2> QED
      BY <2>3, <2>4, EditReject
  <1>2. CASE /\ i < COMMAND_BUF_SIZE /\ input' = [input EXCEPT ![i] = ch] /\ i' = i + 1
             /\ UNCHANGED <<expand_buf, ie, offset, lost>> /\ Line!Safe
    <2>1. ~Line!Hidden' /\ cmd_records' = cmd_records
      BY <1>2 DEF Line!Safe, Line!Elsewhere, Line!Hidden
    <2>2. ch \in Letter
      BY LineAssumption DEF LineAssumption, Letter
    <2>3. Holds(input, i, expand_buf, ie) /\ Types(input, i, expand_buf, ie, EdLine, ch, input')
      BY <1>2, <2>2, LineNow DEF Types
    <2>4. /\ Holds(input', i + 1, expand_buf, ie)
          /\ TextOf(input', i + 1, expand_buf, ie) = Splice(EdLine, i, <<ch>>, i)
      BY ONLY <2>3, TypeText
    <2>5. /\ Holds(input', i', expand_buf', ie')
          /\ TextOf(input', i', expand_buf', ie') = Splice(EdLine, EdCur, <<ch>>, EdCur)
      BY <1>2, <2>4, LineNow
    <2>6. LineInv' /\ EdRecords' = EdRecords /\ Becomes(Splice(EdLine, EdCur, <<ch>>, EdCur), EdCur + 1, EdBack)
      BY <1>2, <2>1, <2>5, LineNow, StepStays
    <2> QED
      BY <2>6, EditInsert
  <1> QED
    BY <1>1, <1>2 DEF Line!typed_char

\* Enter is Enter, until the line is too long or the history shows a slot before the ring.
LEMMA DoExecute ==
  ASSUME LineInv, ~Line!Hidden, Line!shell_execute
  PROVE  (LineInv' /\ Line!Ed!Edit)
  <1>1. PICK l : l = Line!Before \o Line!After
    OBVIOUS
  <1>2. l = EdLine /\ l \in Seq(Letter)
    BY <1>1, LineNow DEF EdLine
  <1>3. \/ Len(l) >= COMMAND_BUF_SIZE /\ Line!Wild
        \/ /\ Len(l) < COMMAND_BUF_SIZE /\ Line!FreshLine(Line!Zeros) /\ wild' = wild
           /\ \/ cmd_records' = cmd_records
              \/ ~Line!is_blank(l) /\ cmd_records' = Line!Recorded(cmd_records, l)
              \/ cmd_records' = [cmd_records EXCEPT !.level = 0]
        \/ cmd_records.level > cmd_records.cmd_idx /\ wild' = TRUE
    BY <1>1 DEF Line!shell_execute, Line!Safe, Line!Elsewhere
  <1>4. PICK idx, lv, buf : idx = cmd_records.cmd_idx /\ lv = cmd_records.level /\ buf = cmd_records.cmd_buf
    OBVIOUS
  <1>5. RingOk(idx, lv, buf) /\ EdPast = PastOf(idx, buf) /\ EdLevel = lv /\ EdSlot = idx
    BY <1>4, LineNow
  <1>6. cmd_records = [cmd_idx |-> idx, level |-> lv, cmd_buf |-> buf]
    BY <1>4 DEF LineInv
  <1>7. CASE Len(l) >= COMMAND_BUF_SIZE /\ Line!Wild
    <2>1. Line!Hidden' /\ LineInv'
      BY <1>7 DEF Line!Wild, Line!Hidden, LineInv
    <2> QED
      BY <1>2, <1>7, <2>1, EditBreaks
  <1>8. CASE cmd_records.level > cmd_records.cmd_idx /\ wild' = TRUE
    <2>1. Line!Hidden' /\ LineInv'
      BY <1>8 DEF Line!Hidden, LineInv
    <2> QED
      BY <1>4, <1>5, <1>8, <2>1, EditBreaks
  <1>9. ASSUME Len(l) < COMMAND_BUF_SIZE, Line!FreshLine(Line!Zeros), wild' = wild
        PROVE  /\ ~Line!Hidden' /\ Holds(input', i', expand_buf', ie')
               /\ TextOf(input', i', expand_buf', ie') = <<>> /\ i' = 0
               /\ offset' \in Int /\ offset' <= 0 /\ -offset' = 0
    BY <1>9, FreshIs DEF Line!Hidden
  <1>10. CASE /\ Len(l) < COMMAND_BUF_SIZE /\ Line!FreshLine(Line!Zeros) /\ wild' = wild
              /\ cmd_records' = cmd_records
    <2>1. LineInv' /\ EdRecords' = EdRecords /\ Becomes(<<>>, 0, 0)
      BY <1>9, <1>10, StepStays
    <2> QED
      BY <2>1, EditEnter
  <1>11. ASSUME NEW id2, NEW lv2, NEW bu2, RingOk(id2, lv2, bu2),
                cmd_records' = [cmd_idx |-> id2, level |-> lv2, cmd_buf |-> bu2],
                Len(l) < COMMAND_BUF_SIZE, Line!FreshLine(Line!Zeros), wild' = wild
         PROVE  LineInv' /\ Becomes(<<>>, 0, 0) /\ EdPast' = PastOf(id2, bu2) /\ EdLevel' = lv2 /\ EdSlot' = id2
    <2>1. /\ ~Line!Hidden' /\ Holds(input', i', expand_buf', ie')
          /\ TextOf(input', i', expand_buf', ie') = <<>> /\ i' = 0
          /\ offset' \in Int /\ offset' <= 0 /\ -offset' = 0
      BY <1>9, <1>11
    <2>2. cmd_records'.cmd_idx = id2 /\ cmd_records'.level = lv2 /\ cmd_records'.cmd_buf = bu2
      BY <1>11
    <2>3. LineInv'
      BY <1>11, <2>1, <2>2 DEF LineInv
    <2>4. View'
      BY <2>1, <2>3, ViewNext
    <2> QED
      BY <2>1, <2>2, <2>3, <2>4 DEF View, Becomes
  <1>12. CASE /\ Len(l) < COMMAND_BUF_SIZE /\ Line!FreshLine(Line!Zeros) /\ wild' = wild
              /\ cmd_records' = [cmd_records EXCEPT !.level = 0]
    <2>1. cmd_records' = [cmd_idx |-> idx, level |-> 0, cmd_buf |-> buf]
      BY <1>6, <1>12
    <2>2. RingOk(idx, 0, buf)
      <3>1. 0 \in 0 .. HISTORY_MAXITEMS
        BY LineAssumption DEF LineAssumption
      <3> QED
        BY <1>5, <3>1 DEF RingOk
    <2>3. LineInv' /\ Becomes(<<>>, 0, 0) /\ EdPast' = PastOf(idx, buf) /\ EdLevel' = 0 /\ EdSlot' = idx
      BY <1>11, <1>12, <2>1, <2>2
    <2> QED
      BY <1>5, <2>3, EditEnter
  <1>13. CASE /\ Len(l) < COMMAND_BUF_SIZE /\ Line!FreshLine(Line!Zeros) /\ wild' = wild
              /\ ~Line!is_blank(l) /\ cmd_records' = Line!Recorded(cmd_records, l)
    <2>1. l # <<>>
      <3>1. l = <<>> => \A n \in DOMAIN l : l[n] = Line!Blank
        OBVIOUS
      <3> QED
        BY <1>13, <3>1 DEF Line!is_blank
    <2>2. PICK id2, lv2, bu2 : /\ id2 = (idx + 1) % HISTORY_MAXITEMS /\ lv2 = Line!Min({lv + 1, HISTORY_MAXITEMS})
                               /\ bu2 = [buf EXCEPT ![idx] = l]
      OBVIOUS
    <2>3. cmd_records' = [cmd_idx |-> id2, level |-> lv2, cmd_buf |-> bu2]
      BY <1>4, <1>13, <2>2 DEF Line!Recorded
    <2>4. Enters(idx, lv, buf, l, id2, lv2, bu2)
      BY <1>2, <1>13, <2>1, <2>2 DEF Enters, Adds
    <2>5. RingOk(id2, lv2, bu2) /\ Entered(idx, lv, buf, l, id2, lv2, bu2)
      BY <1>5, <2>4, RecordedIs
    <2>6. LineInv' /\ Becomes(<<>>, 0, 0) /\ EdPast' = PastOf(id2, bu2) /\ EdLevel' = lv2 /\ EdSlot' = id2
      BY <1>11, <1>13, <2>3, <2>5
    <2>7. /\ EdPast' = SubSeq(<<EdLine>> \o EdPast, 1, Line!Ed!Min({HISTORY_MAXITEMS, Len(EdPast) + 1}))
          /\ EdLevel' = Line!Ed!Min({HISTORY_MAXITEMS, EdLevel + 1}) /\ EdSlot' = (EdSlot + 1) % HISTORY_MAXITEMS
      BY <1>2, <1>5, <2>2, <2>5, <2>6 DEF Entered
    <2> QED
      BY <2>6, <2>7, EditEnter
  <1> QED
    BY <1>3, <1>7, <1>8, <1>10, <1>12, <1>13

\* The place of the last blank before the cursor.
LEMMA BlankIs ==
  ASSUME NEW c \in Nat, NEW S, S \subseteq 1 .. c
  PROVE  Line!Max({0} \cup S) \in 0 .. c
  <1>1. PICK T : T = {0} \cup S
    OBVIOUS
  <1>2. T \subseteq 0 .. c /\ 0 \in T
    BY <1>1
  <1>3. PICK U : U = {d \in Nat : c - d \in T}
    OBVIOUS
  <1>4. c \in U
    BY <1>2, <1>3
  <1>5. PICK d \in U : \A y \in U : d <= y
    <2>1. U \subseteq Nat /\ U # {}
      BY <1>3, <1>4
    <2> QED
      BY ONLY <2>1, LeastNat
  <1>6. c - d \in T /\ d \in Nat
    BY <1>3, <1>5
  <1>7. \A y \in T : c - d >= y
    <2>1. ASSUME NEW y \in T PROVE c - d >= y
      <3>1. y \in 0 .. c
        BY <1>2
      <3>2. c - y \in Nat /\ c - (c - y) = y
        BY <3>1
      <3>3. c - y \in U
        BY <1>3, <3>2
      <3>4. d <= c - y
        BY <1>5, <3>3
      <3> QED
        BY <1>6, <3>1, <3>4
    <2> QED
      BY <2>1
  <1>8. Line!Max(T) \in T
    <2>1. \E x \in T : \A y \in T : x >= y
      BY <1>6, <1>7
    <2> QED
      BY <2>1 DEF Line!Max
  <1> QED
    BY <1>1, <1>2, <1>8

\* The word before the cursor has a length.
LEMMA WordIs ==
  ASSUME LineInv, ~Line!Hidden
  PROVE  Line!Word \in Seq(Letter) /\ Len(Line!Word) \in Nat
  <1>1. Line!Before = Ahead(input, i) /\ Holds(input, i, expand_buf, ie) /\ i \in Nat
    BY ViewNow, LineNow DEF View
  <1>2. Line!Before \in Seq(Letter) /\ Len(Line!Before) = i
    BY <1>1, JoinIs
  <1>3. PICK S : S = {n \in 1 .. i : Line!Before[n] = Line!Blank}
    OBVIOUS
  <1>4. PICK p : p = Line!Max({0} \cup S) /\ p \in 0 .. i
    <2>1. S \subseteq 1 .. i
      BY <1>3
    <2> QED
      BY <1>1, <2>1, BlankIs
  <1>5. Line!Word = SubSeq(Line!Before, p + 1, i)
    BY <1>3, <1>4 DEF Line!Word
  <1>6. \A k \in (p + 1) .. i : Line!Before[k] \in Letter
    BY <1>1, <1>2, <1>4
  <1>7. Line!Word \in Seq(Letter)
    <2>1. PICK b : b = Line!Before
      OBVIOUS
    <2>2. PICK m \in Nat : m = p + 1
      BY <1>4
    <2>3. b \in Seq(Letter) /\ i \in Nat /\ \A k \in m .. i : b[k] \in Letter
      BY <1>1, <1>2, <1>6, <2>1, <2>2
    <2>4. SubSeq(b, m, i) \in Seq(Letter)
      BY <2>2, <2>3, SubSeqProperties
    <2> QED
      BY <1>5, <2>1, <2>2, <2>4
  <1> QED
    BY <1>7

\* Nothing has no elements.
LEMMA NoneOfLine == Line!Cardinality({}) # 1
  <1>1. Line!Cardinality({}) = Cardinality({})
    BY DEF Line!Cardinality, Cardinality
  <1>2. Cardinality({}) = 0
    BY FS_EmptySet
  <1> QED
    BY <1>1, <1>2

\* A keyword that matches is at least as long as the word.
LEMMA MatchIs ==
  ASSUME NEW in, NEW match, match = Line!find_match(in), Line!Cardinality(match) = 1,
         NEW w, w = Keywords[CHOOSE n \in match : TRUE]
  PROVE  w \in Seq(Nat \ {0}) /\ w \in Line!Range(Keywords) /\ Len(in) <= Len(w)
  <1>1. match # {}
    BY NoneOfLine
  <1>2. PICK m : m = CHOOSE n \in match : TRUE
    OBVIOUS
  <1>3. m \in match
    BY <1>1, <1>2
  <1>4. m \in DOMAIN Keywords /\ Line!IsPrefix(in, Keywords[m])
    BY <1>3 DEF Line!find_match
  <1>5. w = Keywords[m]
    BY <1>2
  <1>6. w \in Seq(Nat \ {0})
    BY <1>4, <1>5, LineAssumption DEF LineAssumption
  <1>7. w \in Line!Range(Keywords)
    BY <1>4, <1>5 DEF Line!Range
  <1>8. Len(in) <= Len(w)
    BY <1>4, <1>5 DEF Line!IsPrefix
  <1> QED
    BY <1>6, <1>7, <1>8

\* Tab is Complete, or nothing.
LEMMA DoComplete ==
  ASSUME LineInv, ~Line!Hidden, Line!auto_complete
  PROVE  LineInv' /\ (Line!Ed!Edit \/ UNCHANGED Line!Ed!editorVars)
  <1>1. PICK match : match = Line!find_match(Line!Word)
    OBVIOUS
  <1>2. PICK p \in Nat : p = Len(Line!Word)
    BY WordIs
  <1>3. CASE i \notin Line!Cells /\ Line!Wild
    <2>1. Line!Hidden' /\ LineInv'
      BY <1>3 DEF Line!Wild, Line!Hidden, LineInv
    <2>2. Len(EdLine) >= COMMAND_BUF_SIZE
      BY <1>3, LineNow DEF Line!Cells
    <2> QED
      BY <2>1, <2>2, EditBreaks
  <1>4. ASSUME input' = [input EXCEPT ![i] = 0], i \in Line!Cells, UNCHANGED <<i, expand_buf, ie, offset, lost>>, Line!Safe
        PROVE  LineInv' /\ UNCHANGED Line!Ed!editorVars
    <2>1. ~Line!Hidden' /\ cmd_records' = cmd_records
      BY <1>4 DEF Line!Safe, Line!Elsewhere, Line!Hidden
    <2>2. Holds(input, i, expand_buf, ie) /\ Clears(input, i, expand_buf, ie, EdLine, input')
      BY <1>4, LineNow DEF Clears, Line!Cells
    <2>3. Holds(input', i, expand_buf, ie) /\ TextOf(input', i, expand_buf, ie) = EdLine
      BY ONLY <2>2, ClearText
    <2>4. LineInv' /\ EdRecords' = EdRecords /\ Becomes(EdLine, EdCur, EdBack)
      BY <1>4, <2>1, <2>3, LineNow, StepStays
    <2> QED
      BY <2>4, EditSame
  <1>5. CASE /\ i \in Line!Cells /\ Line!Cardinality(match) # 1
             /\ input' = [input EXCEPT ![i] = 0] /\ UNCHANGED <<i, expand_buf, ie, offset, lost>> /\ Line!Safe
    BY <1>4, <1>5
  <1>w. PICK w : w = Keywords[CHOOSE n \in match : TRUE]
    OBVIOUS
  <1>e. PICK fin : fin = i + Len(w) - p
    OBVIOUS
  <1>6. ASSUME Line!Cardinality(match) = 1, i \in Line!Cells,
               \/ fin \notin Line!Cells /\ Line!Wild
               \/ /\ fin \in Line!Cells /\ i' = fin
                  /\ input' = [k \in Line!Cells |-> IF k \in i .. fin - 1 THEN w[p + k - i + 1]
                                                    ELSE IF k = fin THEN 0 ELSE input[k]]
                  /\ UNCHANGED <<expand_buf, ie, offset, lost>> /\ Line!Safe
        PROVE  LineInv' /\ (Line!Ed!Edit \/ UNCHANGED Line!Ed!editorVars)
    <2>1. w \in Seq(Nat \ {0}) /\ w \in Line!Range(Keywords) /\ p <= Len(w) /\ Len(w) \in Nat
      <3>1. w \in Seq(Nat \ {0}) /\ w \in Line!Range(Keywords) /\ Len(Line!Word) <= Len(w)
        BY <1>1, <1>6, <1>w, MatchIs
      <3> QED
        BY <1>2, <3>1
    <2>v. PICK v \in Nat : v = Len(w) /\ p <= v
      BY <2>1
    <2>2. fin \in Nat /\ fin >= i /\ i \in Nat /\ fin = i + v - p
      <3>1. fin = i + v - p /\ i \in Nat
        BY <1>e, <2>v, LineNow
      <3> QED
        BY <2>v, <3>1
    <2>3. CASE fin \notin Line!Cells /\ Line!Wild
      <3>1. Line!Hidden' /\ LineInv'
        BY <2>3 DEF Line!Wild, Line!Hidden, LineInv
      <3>2. EdCur + Len(w) >= COMMAND_BUF_SIZE
        <4>1. EdCur = i /\ COMMAND_BUF_SIZE \in Nat
          BY LineNow
        <4>2. fin >= COMMAND_BUF_SIZE
          BY <2>2, <2>3, <4>1 DEF Line!Cells
        <4> QED
          BY <2>2, <2>v, <4>1, <4>2
      <3> QED
        BY <2>1, <3>1, <3>2, EditBreaks
    <2>4. CASE /\ fin \in Line!Cells /\ i' = fin
               /\ input' = [k \in Line!Cells |-> IF k \in i .. fin - 1 THEN w[p + k - i + 1]
                                                 ELSE IF k = fin THEN 0 ELSE input[k]]
               /\ UNCHANGED <<expand_buf, ie, offset, lost>> /\ Line!Safe
      <3>1. CASE p = Len(w)
        <4>1. fin = i
          BY <2>2, <2>v, <3>1
        <4>2. \A k \in Line!Cells : k \notin i .. fin - 1
          BY <2>2, <4>1
        <4>3. input' = [k \in Line!Cells |-> IF k = i THEN 0 ELSE input[k]]
          BY <2>4, <4>1, <4>2
        <4>4. input' = [input EXCEPT ![i] = 0]
          <5>1. DOMAIN input = Line!Cells
            BY LineNow DEF Holds, Line!Cells
          <5> QED
            BY <1>6, <4>3, <5>1
        <4> QED
          BY <1>4, <1>6, <2>4, <4>1, <4>4
      <3>2. CASE p # Len(w)
        <4>1. ~Line!Hidden' /\ cmd_records' = cmd_records
          BY <2>4 DEF Line!Safe, Line!Elsewhere, Line!Hidden
        <4>2. Holds(input, i, expand_buf, ie) /\ Completes(input, i, expand_buf, ie, EdLine, w, p, fin, input')
          <5>1. Holds(input, i, expand_buf, ie) /\ EdLine = TextOf(input, i, expand_buf, ie) /\ COMMAND_BUF_SIZE \in Nat
            BY LineNow
          <5>2. p \in 0 .. Len(w) /\ fin < COMMAND_BUF_SIZE
            BY <2>2, <2>4, <2>v, <5>1 DEF Line!Cells
          <5>3. input' = [k \in 0 .. COMMAND_BUF_SIZE - 1 |-> IF k \in i .. fin - 1 THEN w[p + k - i + 1]
                                                             ELSE IF k = fin THEN 0 ELSE input[k]]
            BY <2>4 DEF Line!Cells
          <5> QED
            BY <1>e, <2>1, <5>1, <5>2, <5>3 DEF Completes
        <4>3. /\ Holds(input', fin, expand_buf, ie)
              /\ TextOf(input', fin, expand_buf, ie) = Splice(EdLine, i, SubSeq(w, p + 1, Len(w)), i)
          BY ONLY <4>2, CompleteText
        <4>4. PICK l : l = Splice(EdLine, EdCur, SubSeq(w, p + 1, Len(w)), EdCur)
          OBVIOUS
        <4>5. Holds(input', i', expand_buf', ie') /\ TextOf(input', i', expand_buf', ie') = l
          BY <2>4, <4>3, <4>4, LineNow
        <4>6. PICK m \in 1 .. Len(w) : m = p + 1
          BY <1>2, <2>1, <3>2
        <4>7. i' = EdCur + Len(w) - m + 1
          BY <2>2, <2>4, <2>v, <4>6, LineNow
        <4>8. LineInv' /\ EdRecords' = EdRecords /\ Becomes(l, EdCur + Len(w) - m + 1, EdBack)
          BY <2>4, <4>1, <4>5, <4>7, LineNow, StepStays
        <4>9. l = Splice(EdLine, EdCur, SubSeq(w, m, Len(w)), EdCur)
          BY <4>4, <4>6
        <4> QED
          BY <2>1, <4>8, <4>9, EditComplete
      <3> QED
        BY <3>1, <3>2
    <2> QED
      BY <1>6, <2>3, <2>4
  <1>7. CASE /\ i \in Line!Cells /\ Line!Cardinality(match) = 1
             /\ LET keyword == Keywords[CHOOSE n \in match : TRUE]
                    end == i + Len(keyword) - Len(Line!Word)
                IN  \/ end \notin Line!Cells /\ Line!Wild
                    \/ /\ end \in Line!Cells /\ i' = end
                       /\ input' = [k \in Line!Cells |-> IF k \in i .. end - 1 THEN keyword[Len(Line!Word) + k - i + 1]
                                                         ELSE IF k = end THEN 0 ELSE input[k]]
                       /\ UNCHANGED <<expand_buf, ie, offset, lost>> /\ Line!Safe
    <2>3. \/ fin \notin Line!Cells /\ Line!Wild
          \/ /\ fin \in Line!Cells /\ i' = fin
             /\ input' = [k \in Line!Cells |-> IF k \in i .. fin - 1 THEN w[p + k - i + 1]
                                               ELSE IF k = fin THEN 0 ELSE input[k]]
             /\ UNCHANGED <<expand_buf, ie, offset, lost>> /\ Line!Safe
      BY <1>2, <1>7, <1>w, <1>e
    <2> QED
      BY <1>6, <1>7, <2>3
  <1> QED
    BY <1>1, <1>3, <1>5, <1>7 DEF Line!auto_complete

\* A shell that starts has an empty line and no commands.
LEMMA LineInitInv == Line!LineInit => LineInv /\ Line!Ed!EditorInit
  <1> SUFFICES ASSUME Line!LineInit PROVE LineInv /\ Line!Ed!EditorInit
    OBVIOUS
  <1>1. /\ input = Line!Zeros /\ i = 0 /\ expand_buf = Line!Zeros /\ ie = COMMAND_BUF_SIZE - 2 /\ offset = 0
        /\ cmd_records = [cmd_idx |-> 0, level |-> 0, cmd_buf |-> [k \in 0 .. HISTORY_MAXITEMS - 1 |-> <<>>]]
        /\ wild = FALSE /\ lost = FALSE
    BY DEF Line!LineInit
  <1>2. Line!Hidden = FALSE
    BY <1>1 DEF Line!Hidden
  <1>3. PICK l : l = <<>> /\ l \in Seq(Letter) /\ Len(l) = 0
    <2>1. <<>> \in Seq(Letter) /\ Len(<<>>) = 0
      OBVIOUS
    <2> QED
      BY <2>1
  <1>4. PICK N \in Nat : N = COMMAND_BUF_SIZE /\ N >= 2
    BY LineAssumption DEF LineAssumption
  <1>5. Shows(l, input, expand_buf, ie)
    <2>1. \A k \in 0 .. N - 1 : ~(k < 0)
      OBVIOUS
    <2>2. \A k \in 0 .. N - 1 : (IF k < Len(l) THEN l[k + 1] ELSE 0) = 0
      BY <1>3, <2>1
    <2> QED
      BY <1>1, <1>3, <1>4, <2>2 DEF Shows, Line!Zeros, Line!Cells
  <1>6. Holds(input, Len(l), expand_buf, ie) /\ TextOf(input, Len(l), expand_buf, ie) = l
    BY ONLY <1>5, ShowText
  <1>7. Holds(input, i, expand_buf, ie) /\ TextOf(input, i, expand_buf, ie) = <<>>
    BY <1>1, <1>3, <1>6
  <1>8. PICK H \in Nat \ {0} : H = HISTORY_MAXITEMS
    BY LineAssumption DEF LineAssumption
  <1>9. PICK buf : buf = [k \in 0 .. H - 1 |-> <<>>] /\ buf = cmd_records.cmd_buf
    BY <1>1, <1>8
  <1>10. /\ buf \in [0 .. H - 1 -> Seq(Letter)] /\ \A s \in 0 .. H - 1 : buf[s] = <<>> /\ Len(buf[s]) < N
    BY <1>3, <1>4, <1>9
  <1>11. RingOk(0, 0, buf)
    <2>1. \A s \in 0 .. H - 1 : (buf[s] # <<>> <=> s < 0)
      BY <1>10
    <2> QED
      BY <1>4, <1>8, <1>10, <2>1 DEF RingOk
  <1>12. PastOf(0, buf) = <<>>
    <2>1. Count(0, buf) = 0
      BY <1>8, <1>10 DEF Count
    <2>2. PastOf(0, buf) \in Seq(Seq(Letter)) /\ Len(PastOf(0, buf)) = 0
      BY <1>11, <2>1, PastIs
    <2> QED
      BY <2>2
  <1>13. LineInv
    BY <1>1, <1>7, <1>9, <1>11 DEF LineInv
  <1>14. View
    BY <1>2, <1>13, ViewNow
  <1>15. EdLine = <<>> /\ EdCur = 0 /\ EdBack = 0 /\ EdPast = <<>> /\ EdLevel = 0 /\ EdSlot = 0
    <2>1. PICK z \in Int : z = offset /\ z = 0
      BY <1>1
    <2>2. -z = 0 - z
      OBVIOUS
    <2>3. -offset = 0
      BY <2>1, <2>2
    <2> QED
      BY <1>1, <1>7, <1>9, <1>12, <1>14, <2>3 DEF View
  <1>16. Line!Ed!EditorInit
    BY <1>2, <1>15 DEF Line!Ed!EditorInit, EdLine, EdCur, EdBack, EdPast, EdLevel, EdSlot
  <1> QED
    BY <1>13, <1>16

\* A step of the program is a step of the editor, or none.
LEMMA LineKeeps == LineInv /\ [Line!LineNext]_linev => LineInv' /\ [Line!Ed!Edit]_(Line!Ed!editorVars)
  <1> SUFFICES ASSUME LineInv, [Line!LineNext]_linev PROVE LineInv' /\ [Line!Ed!Edit]_(Line!Ed!editorVars)
    OBVIOUS
  <1>1. CASE Line!LineNext /\ ~Line!Hidden
    <2>1. CASE Line!key_backspace_process \/ Line!key_left_process \/ Line!key_right_process \/ Line!key_del_process
      BY <1>1, <2>1, DoBackspace, DoLeft, DoRight, DoDelete
    <2>2. CASE Line!key_up \/ Line!key_down
      BY <1>1, <2>2, DoRecall DEF Line!key_up, Line!key_down
    <2>3. CASE Line!auto_complete
      BY <1>1, <2>3, DoComplete
    <2>4. CASE Line!shell_execute
      BY <1>1, <2>4, DoExecute
    <2>5. CASE \E c \in Typed : Line!typed_char(c)
      BY <1>1, <2>5, DoType
    <2> QED
      BY <1>1, <2>1, <2>2, <2>3, <2>4, <2>5 DEF Line!LineNext
  <1>2. CASE Line!LineNext /\ Line!Hidden
    <2>1. Line!Hidden'
      BY <1>2, HiddenStays
    <2>2. LineInv'
      BY <2>1 DEF LineInv
    <2> QED
      BY <1>2, <2>1, <2>2, EditSame
  <1>3. CASE UNCHANGED linev
    <2>1. UNCHANGED <<input, i, expand_buf, ie, offset, cmd_records, wild, lost>>
      BY <1>3 DEF linev
    <2>2. Line!Hidden' = Line!Hidden
      BY <2>1 DEF Line!Hidden
    <2>3. LineInv'
      BY <2>1, <2>2 DEF LineInv
    <2>4. CASE Line!Hidden
      BY <2>2, <2>3, <2>4, EditSame
    <2>5. CASE ~Line!Hidden
      <3>1. View /\ View'
        BY <2>2, <2>3, <2>5, ViewNow, ViewNext
      <3>2. EdRecords' = EdRecords /\ Becomes(EdLine, EdCur, EdBack)
        BY <2>1, <2>2, <2>5, <3>1 DEF View, EdRecords, Becomes
      <3> QED
        BY <2>3, <2>5, <3>2, EditSame
    <2> QED
      BY <2>4, <2>5
  <1> QED
    BY <1>1, <1>2, <1>3

\* The two buffers and the ring of mysh implement LineEditor: what Enter runs
\* and records is the line on the screen, and up and down show the commands
\* in order, until one of the three cases LineEditor excepts.
THEOREM EditorCorrect == EditorSpec => EditorRefined
  <1>1. Line!LineInit => LineInv /\ Line!Ed!EditorInit
    BY LineInitInv
  <1>2. LineInv /\ [Line!LineNext]_linev => LineInv' /\ [Line!Ed!Edit]_(Line!Ed!editorVars)
    BY LineKeeps
  <1> QED
    BY <1>1, <1>2, PTL DEF EditorSpec, EditorRefined, Line!EditorRefined, Line!Ed!Editor
=============================================================================
