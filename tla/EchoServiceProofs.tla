------------------------- MODULE EchoServiceProofs -------------------------
(***************************************************************************)
(* EchoService keeps its promise: what its state machine sends and owes is *)
(* what Echo computes from the input alone, for any number of clients and  *)
(* any input.  Every server shown to implement EchoService inherits it.    *)
(*                                                                         *)
(* Echo numbers the payload bytes by their rank; that every number up to   *)
(* the number of payload bytes is the rank of one of them is kept as part  *)
(* of the invariant, because got only ever grows by one byte.              *)
(***************************************************************************)
EXTENDS EchoService, FiniteSetTheorems, SequenceTheorems, TLAPS

\* A message is open at the end of s: the next byte is payload unless '$'.
InMessage(s) == \E j \in 1..Len(s) : /\ s[j] = Caret
                                     /\ \A k \in (j + 1)..Len(s) : s[k] # Dollar

Ranked(s) == \A n \in 1..Cardinality(Payloads(s)) :
                 \E i \in Payloads(s) : Rank(s, i) = n

\* Every client's part of the invariant.
EInv ==
    /\ phase \in [Clients -> {"none", "open", "closed"}]
    /\ parse \in [Clients -> {"WAIT_FOR_MSG", "IN_MSG"}]
    /\ got \in [Clients -> Seq(Bytes)]
    /\ owed \in [Clients -> Seq(0..255)] /\ out \in [Clients -> Seq(0..255)]
    /\ \A c \in Clients :
         /\ Ranked(got[c])
         /\ phase[c] = "none" => /\ got[c] = <<>> /\ out[c] = <<>>
                                 /\ parse[c] = "WAIT_FOR_MSG"
         /\ phase[c] # "closed" => (parse[c] = "IN_MSG" <=> InMessage(got[c]))
    /\ EchoReference

-----------------------------------------------------------------------------
(* The payload bytes of an input.                                          *)

\* The payload bytes of an input are finitely many.
LEMMA PayloadsFinite ==
  ASSUME NEW s \in Seq(Bytes)
  PROVE  /\ Payloads(s) \subseteq 1..Len(s) /\ IsFiniteSet(Payloads(s))
         /\ Cardinality(Payloads(s)) \in Nat
         /\ \A i \in Int : /\ IsFiniteSet({j \in Payloads(s) : j <= i})
                           /\ Rank(s, i) \in Nat
                           /\ Rank(s, i) <= Cardinality(Payloads(s))
  <1>1. Payloads(s) \subseteq 1..Len(s)
    BY DEF Payloads
  <1>2. IsFiniteSet(1..Len(s))
    BY FS_Interval
  <1>3. IsFiniteSet(Payloads(s))
    BY <1>1, <1>2, FS_Subset
  <1>4. ASSUME NEW i \in Int
        PROVE  /\ IsFiniteSet({j \in Payloads(s) : j <= i})
               /\ Rank(s, i) <= Cardinality(Payloads(s))
    <2>1. {j \in Payloads(s) : j <= i} \subseteq Payloads(s)
      OBVIOUS
    <2> QED
      BY <1>3, <2>1, FS_Subset DEF Rank
  <1> QED
    BY <1>1, <1>3, <1>4, FS_CardinalityType DEF Rank

\* Two payload bytes have different ranks.
LEMMA RankInjective ==
  ASSUME NEW s \in Seq(Bytes), NEW i \in Payloads(s), NEW k \in Payloads(s),
         i < k
  PROVE  Rank(s, i) < Rank(s, k)
  <1> DEFINE A == {j \in Payloads(s) : j <= i}
             B == {j \in Payloads(s) : j <= k}
  <1>1. i \in Int /\ k \in Int /\ Payloads(s) \subseteq Int
    BY PayloadsFinite
  <1>2. IsFiniteSet(B) /\ k \in B /\ Cardinality(B) \in Nat /\ Cardinality(A) \in Nat
    <2>1. k \in B
      BY <1>1
    <2>2. /\ IsFiniteSet({j \in Payloads(s) : j <= k})
          /\ Rank(s, k) \in Nat /\ Rank(s, i) \in Nat
      BY <1>1, PayloadsFinite
    <2> QED
      BY <2>1, <2>2 DEF Rank
  <1>3. A \subseteq B \ {k}
    BY <1>1
  <1>4. IsFiniteSet(B \ {k}) /\ Cardinality(B \ {k}) = Cardinality(B) - 1
    BY <1>2, FS_RemoveElement
  <1>5. Cardinality(A) <= Cardinality(B \ {k})
    BY <1>3, <1>4, FS_Subset
  <1> QED
    BY <1>2, <1>4, <1>5 DEF Rank

\* The n-th payload byte is one, and each has its rank.
LEMMA NthProperties ==
  ASSUME NEW s \in Seq(Bytes), Ranked(s),
         NEW n \in 1..Cardinality(Payloads(s))
  PROVE  /\ Nth(s, n) \in Payloads(s) /\ Rank(s, Nth(s, n)) = n
         /\ \A i \in Payloads(s) : Rank(s, i) = n => i = Nth(s, n)
  <1>1. \E i \in Payloads(s) : Rank(s, i) = n
    BY DEF Ranked
  <1>2. Nth(s, n) \in Payloads(s) /\ Rank(s, Nth(s, n)) = n
    BY <1>1 DEF Nth
  <1>3. ASSUME NEW i \in Payloads(s), Rank(s, i) = n PROVE i = Nth(s, n)
    <2>1. i \in Int /\ Nth(s, n) \in Int /\ n \in Int
      BY <1>2, PayloadsFinite
    <2>2. ~(i < Nth(s, n)) /\ ~(Nth(s, n) < i)
      BY <1>2, <1>3, <2>1, RankInjective
    <2> QED
      BY <2>1, <2>2
  <1> QED
    BY <1>2, <1>3

\* The reply to a byte is a byte.
LEMMA IncType ==
  ASSUME NEW x \in 0..255
  PROVE  Inc(x) \in 0..255
  BY DEF Inc

\* What is owed for an input is a sequence of bytes.
LEMMA EchoType ==
  ASSUME Bytes \subseteq 0..255, NEW s \in Seq(Bytes), Ranked(s)
  PROVE  /\ Echo(s) \in Seq(0..255)
         /\ Len(Echo(s)) = Cardinality(Payloads(s))
         /\ \A n \in 1..Cardinality(Payloads(s)) : Echo(s)[n] = Inc(s[Nth(s, n)])
  <1>1. ASSUME NEW n \in 1..Cardinality(Payloads(s))
        PROVE  Inc(s[Nth(s, n)]) \in 0..255
    <2>1. Nth(s, n) \in 1..Len(s)
      BY NthProperties, PayloadsFinite
    <2>2. s[Nth(s, n)] \in 0..255
      BY <2>1, ElementOfSeq
    <2> QED
      BY <2>2, IncType
  <1>2. Echo(s) \in [1..Cardinality(Payloads(s)) -> 0..255]
    BY <1>1 DEF Echo
  <1>3. Cardinality(Payloads(s)) \in Nat
    BY PayloadsFinite
  <1>4. Echo(s) \in Seq(0..255)
    <2>1. \A n \in Nat : [1..n -> 0..255] \subseteq Seq(0..255)
      BY SeqDef
    <2> QED
      BY <1>2, <1>3, <2>1
  <1>5. Len(Echo(s)) = Cardinality(Payloads(s))
    BY <1>2, <1>3, <1>4, LenProperties
  <1> QED
    BY <1>4, <1>5 DEF Echo

-----------------------------------------------------------------------------
(* One more byte of input.                                                 *)

Grown(s, b, t) == t = Append(s, b)

\* Length and items of a sequence with one more item.
LEMMA AppendFacts ==
  ASSUME NEW s \in Seq(Bytes), NEW b \in Bytes, NEW t, Grown(s, b, t)
  PROVE  /\ t \in Seq(Bytes) /\ Len(t) = Len(s) + 1 /\ Len(s) \in Nat
         /\ t[Len(s) + 1] = b
         /\ \A i \in 1..Len(s) : t[i] = s[i]
  BY AppendProperties DEF Grown

\* One more byte does not change which of the earlier ones are payload.
LEMMA AppendPayload ==
  ASSUME NEW s \in Seq(Bytes), NEW b \in Bytes, NEW t, Grown(s, b, t)
  PROVE  /\ \A i \in 1..Len(s) : Payload(t, i) <=> Payload(s, i)
         /\ Payload(t, Len(s) + 1) <=> InMessage(s) /\ b # Dollar
         /\ InMessage(t) <=> b = Caret \/ (InMessage(s) /\ b # Dollar)
  <1>0. /\ Len(t) = Len(s) + 1 /\ Len(s) \in Nat /\ t[Len(s) + 1] = b
        /\ \A i \in 1..Len(s) : t[i] = s[i]
    BY AppendFacts
  <1>1. ASSUME NEW i \in 1..Len(s) PROVE Payload(t, i) <=> Payload(s, i)
    <2>1. \A j \in 1..i : t[j] = s[j]
      BY <1>0
    <2>2. \A j \in 1..(i - 1) : \A k \in (j + 1)..i : k \in 1..i
      BY <1>0
    <2>3. \A j \in 1..(i - 1) : j \in 1..i
      BY <1>0
    <2> QED
      BY <2>1, <2>2, <2>3 DEF Payload
  <1>2. Payload(t, Len(s) + 1) <=> InMessage(s) /\ b # Dollar
    <2>1. ASSUME NEW j \in 1..Len(s)
          PROVE  (\A k \in (j + 1)..(Len(s) + 1) : t[k] # Dollar)
                   <=> (\A k \in (j + 1)..Len(s) : s[k] # Dollar) /\ b # Dollar
      <3>1. (j + 1)..(Len(s) + 1) = ((j + 1)..Len(s)) \cup {Len(s) + 1}
        BY <1>0
      <3>2. \A k \in (j + 1)..Len(s) : t[k] = s[k]
        BY <1>0
      <3> QED
        BY <1>0, <3>1, <3>2
    <2>2. Len(s) + 1 - 1 = Len(s)
      BY <1>0
    <2> QED
      BY <1>0, <2>1, <2>2 DEF Payload, InMessage
  <1>3. InMessage(t) <=> b = Caret \/ (InMessage(s) /\ b # Dollar)
    <2>1. ASSUME NEW j \in 1..Len(s)
          PROVE  (\A k \in (j + 1)..Len(t) : t[k] # Dollar)
                   <=> (\A k \in (j + 1)..Len(s) : s[k] # Dollar) /\ b # Dollar
      <3>1. (j + 1)..Len(t) = ((j + 1)..Len(s)) \cup {Len(s) + 1}
        BY <1>0
      <3>2. \A k \in (j + 1)..Len(s) : t[k] = s[k]
        BY <1>0
      <3> QED
        BY <1>0, <3>1, <3>2
    <2>2. \A k \in ((Len(s) + 1) + 1)..Len(t) : FALSE
      BY <1>0
    <2>3. 1..Len(t) = (1..Len(s)) \cup {Len(s) + 1}
      BY <1>0
    <2> QED
      BY <1>0, <2>1, <2>2, <2>3 DEF InMessage
  <1> QED
    BY <1>1, <1>2, <1>3

\* One more byte adds its own place to the payload places, or nothing.
LEMMA AppendPayloads ==
  ASSUME NEW s \in Seq(Bytes), NEW b \in Bytes, NEW t, Grown(s, b, t)
  PROVE  Payloads(t) = IF InMessage(s) /\ b # Dollar
                       THEN Payloads(s) \cup {Len(s) + 1} ELSE Payloads(s)
  <1>1. Len(t) = Len(s) + 1 /\ Len(s) \in Nat
    BY AppendFacts
  <1>2. 1..Len(t) = (1..Len(s)) \cup {Len(s) + 1}
    BY <1>1
  <1> QED
    BY <1>2, AppendPayload DEF Payloads

\* The ranks of the payload bytes stay; a new one gets the next rank.
LEMMA AppendRank ==
  ASSUME NEW s \in Seq(Bytes), NEW b \in Bytes, NEW t, Grown(s, b, t)
  PROVE  /\ \A i \in Payloads(s) : Rank(t, i) = Rank(s, i)
         /\ InMessage(s) /\ b # Dollar =>
              /\ Cardinality(Payloads(t)) = Cardinality(Payloads(s)) + 1
              /\ Len(s) + 1 \in Payloads(t)
              /\ Rank(t, Len(s) + 1) = Cardinality(Payloads(s)) + 1
  <1>1. /\ t \in Seq(Bytes) /\ Len(t) = Len(s) + 1 /\ Len(s) \in Nat
        /\ Payloads(s) \subseteq 1..Len(s) /\ Payloads(t) \subseteq 1..Len(t)
        /\ IsFiniteSet(Payloads(s))
    BY AppendFacts, PayloadsFinite
  <1>2. ASSUME NEW i \in Payloads(s) PROVE Rank(t, i) = Rank(s, i)
    <2>1. {j \in Payloads(t) : j <= i} = {j \in Payloads(s) : j <= i}
      BY <1>1, AppendPayloads
    <2> QED
      BY <2>1 DEF Rank
  <1>3. ASSUME InMessage(s) /\ b # Dollar
        PROVE  /\ Cardinality(Payloads(t)) = Cardinality(Payloads(s)) + 1
               /\ Len(s) + 1 \in Payloads(t)
               /\ Rank(t, Len(s) + 1) = Cardinality(Payloads(s)) + 1
    <2>1. Payloads(t) = Payloads(s) \cup {Len(s) + 1}
      BY <1>3, AppendPayloads
    <2>2. Len(s) + 1 \notin Payloads(s)
      BY <1>1
    <2>3. Cardinality(Payloads(t)) = Cardinality(Payloads(s)) + 1
      BY <1>1, <2>1, <2>2, FS_AddElement
    <2>4. {j \in Payloads(t) : j <= Len(s) + 1} = Payloads(t)
      BY <1>1
    <2> QED
      BY <2>1, <2>3, <2>4 DEF Rank
  <1> QED
    BY <1>2, <1>3

\* The ranks of the earlier payload bytes stay.
LEMMA AppendRanked ==
  ASSUME NEW s \in Seq(Bytes), NEW b \in Bytes, NEW t, Grown(s, b, t),
         Ranked(s)
  PROVE  Ranked(t)
  <1>1. Cardinality(Payloads(s)) \in Nat
    BY PayloadsFinite
  <1>2. CASE InMessage(s) /\ b # Dollar
    <2>1. /\ Payloads(s) \subseteq Payloads(t)
          /\ 1..Cardinality(Payloads(t))
               = (1..Cardinality(Payloads(s))) \cup {Cardinality(Payloads(s)) + 1}
      BY <1>1, <1>2, AppendPayloads, AppendRank
    <2> QED
      BY <1>2, <2>1, AppendRank DEF Ranked
  <1>3. CASE ~(InMessage(s) /\ b # Dollar)
    <2>1. Payloads(t) = Payloads(s)
      BY <1>3, AppendPayloads
    <2> QED
      BY <2>1, AppendRank DEF Ranked
  <1> QED
    BY <1>2, <1>3

\* So does the n-th payload byte.
LEMMA AppendNth ==
  ASSUME NEW s \in Seq(Bytes), NEW b \in Bytes, NEW t, Grown(s, b, t),
         Ranked(s)
  PROVE  /\ \A n \in 1..Cardinality(Payloads(s)) : Nth(t, n) = Nth(s, n)
         /\ InMessage(s) /\ b # Dollar =>
              Nth(t, Cardinality(Payloads(s)) + 1) = Len(s) + 1
  <1>0. /\ t \in Seq(Bytes) /\ Ranked(t)
        /\ Cardinality(Payloads(s)) \in Nat /\ Cardinality(Payloads(t)) \in Nat
    BY AppendFacts, AppendRanked, PayloadsFinite
  <1>1. ASSUME NEW n \in 1..Cardinality(Payloads(s)) PROVE Nth(t, n) = Nth(s, n)
    <2>1. n \in 1..Cardinality(Payloads(t))
      <3>1. Cardinality(Payloads(t)) >= Cardinality(Payloads(s))
        BY <1>0, AppendRank, AppendPayloads
      <3> QED
        BY <1>0, <3>1
    <2>2. Nth(s, n) \in Payloads(s) /\ Rank(s, Nth(s, n)) = n
      BY NthProperties
    <2>3. Nth(s, n) \in Payloads(t) /\ Rank(t, Nth(s, n)) = n
      BY <2>2, AppendPayloads, AppendRank
    <2> QED
      BY <1>0, <2>1, <2>3, NthProperties
  <1>2. ASSUME InMessage(s) /\ b # Dollar
        PROVE  Nth(t, Cardinality(Payloads(s)) + 1) = Len(s) + 1
    <2>1. Cardinality(Payloads(s)) + 1 \in 1..Cardinality(Payloads(t))
      BY <1>0, <1>2, AppendRank
    <2> QED
      BY <1>0, <1>2, <2>1, AppendRank, NthProperties
  <1> QED
    BY <1>1, <1>2

\* What the state machine replies to a byte is what Echo adds for it.
LEMMA EchoAppend ==
  ASSUME Bytes \subseteq 0..255, NEW s \in Seq(Bytes), NEW b \in Bytes,
         NEW t, Grown(s, b, t), Ranked(s),
         NEW p, p = "IN_MSG" <=> InMessage(s)
  PROVE  /\ Reply(p, b) \in Seq(0..255)
         /\ Echo(t) = Echo(s) \o Reply(p, b)
  <1>0. /\ t \in Seq(Bytes) /\ Ranked(t) /\ Len(s) \in Nat
        /\ t[Len(s) + 1] = b /\ \A i \in 1..Len(s) : t[i] = s[i]
        /\ Payloads(s) \subseteq 1..Len(s)
        /\ Cardinality(Payloads(s)) \in Nat
    BY AppendFacts, AppendRanked, PayloadsFinite
  <1>1. /\ Echo(s) \in Seq(0..255) /\ Len(Echo(s)) = Cardinality(Payloads(s))
        /\ \A n \in 1..Cardinality(Payloads(s)) : Echo(s)[n] = Inc(s[Nth(s, n)])
    BY EchoType
  <1>2. /\ Echo(t) \in Seq(0..255) /\ Len(Echo(t)) = Cardinality(Payloads(t))
        /\ \A n \in 1..Cardinality(Payloads(t)) : Echo(t)[n] = Inc(t[Nth(t, n)])
    BY <1>0, EchoType
  <1>3. \A n \in 1..Cardinality(Payloads(s)) : Inc(t[Nth(t, n)]) = Inc(s[Nth(s, n)])
    BY <1>0, AppendNth, NthProperties
  <1>4. CASE InMessage(s) /\ b # Dollar
    <2>1. Inc(b) \in 0..255
      BY IncType
    <2>2. Reply(p, b) = <<Inc(b)>> /\ <<Inc(b)>> \in Seq(0..255)
      BY <1>4, <2>1 DEF Reply
    <2>3. Append(Echo(s), Inc(b)) = Echo(s) \o <<Inc(b)>>
      BY <1>1, <2>1, AppendIsConcat
    <2>4. Echo(t) = Append(Echo(s), Inc(b))
      <3> DEFINE u == Append(Echo(s), Inc(b))
      <3>1. /\ u \in Seq(0..255) /\ Len(u) = Cardinality(Payloads(s)) + 1
            /\ u[Cardinality(Payloads(s)) + 1] = Inc(b)
            /\ \A n \in 1..Cardinality(Payloads(s)) : u[n] = Echo(s)[n]
        BY <1>1, <2>1, AppendProperties
      <3>2. Len(Echo(t)) = Cardinality(Payloads(s)) + 1
        BY <1>2, <1>4, AppendRank
      <3>3. Echo(t)[Cardinality(Payloads(s)) + 1] = Inc(b)
        BY <1>0, <1>2, <1>4, <3>2, AppendNth
      <3>4. \A n \in 1..Cardinality(Payloads(s)) : Echo(t)[n] = Echo(s)[n]
        BY <1>0, <1>1, <1>2, <1>3, <3>2
      <3>5. \A n \in 1..Len(Echo(t)) : Echo(t)[n] = u[n]
        BY <1>0, <3>1, <3>2, <3>3, <3>4
      <3> QED
        BY <1>2, <3>1, <3>2, <3>5, SeqEqual
    <2> QED
      BY <2>2, <2>3, <2>4
  <1>5. CASE ~(InMessage(s) /\ b # Dollar)
    <2>1. Reply(p, b) = <<>> /\ <<>> \in Seq(0..255)
      BY <1>5 DEF Reply
    <2>2. Payloads(t) = Payloads(s)
      BY <1>5, AppendPayloads
    <2>3. Echo(t) = Echo(s)
      BY <1>1, <1>2, <1>3, <2>2, SeqEqual
    <2> QED
      BY <1>1, <2>1, <2>3, ConcatEmptySeq
  <1> QED
    BY <1>4, <1>5

-----------------------------------------------------------------------------
(* The invariant.                                                          *)

\* Nothing is owed for no input.
LEMMA EmptyInput ==
  /\ Payloads(<<>>) = {} /\ Cardinality(Payloads(<<>>)) = 0
  /\ Ranked(<<>>) /\ ~InMessage(<<>>)
  <1>1. Len(<<>>) = 0 /\ 1..0 = {}
    OBVIOUS
  <1>2. Payloads(<<>>) = {}
    BY <1>1 DEF Payloads
  <1>3. Cardinality(Payloads(<<>>)) = 0
    BY <1>2, FS_EmptySet
  <1> QED
    BY <1>1, <1>2, <1>3 DEF Ranked, InMessage

\* Nothing has been consumed.
LEMMA EchoInit == Init => EInv
  <1> SUFFICES ASSUME Init PROVE EInv
    OBVIOUS
  <1>1. <<>> \in Seq(Bytes) /\ <<>> \in Seq(0..255)
    OBVIOUS
  <1>2. \A c \in Clients : /\ got[c] = <<>> /\ out[c] = <<>>
                           /\ phase[c] = "none" /\ parse[c] = "WAIT_FOR_MSG"
    BY DEF Init
  <1>3. EchoReference
    BY <1>2 DEF EchoReference
  <1> QED
    BY <1>1, <1>2, <1>3, EmptyInput DEF Init, EInv

\* A connection is accepted: the ack is owed.
LEMMA EchoConnect ==
  ASSUME Bytes \subseteq 0..255, EInv, NEW c \in Clients, Connect(c)
  PROVE  EInv'
  <1>1. /\ phase' = [phase EXCEPT ![c] = "open"]
        /\ owed' = [owed EXCEPT ![c] = <<Star>>]
        /\ phase[c] = "none" /\ UNCHANGED <<parse, got, out>>
    BY DEF Connect
  <1>2. <<Star>> \in Seq(0..255)
    BY DEF Star
  <1>3. <<>> \o <<Star>> = <<Star>> \o Echo(<<>>)
    <2>1. <<>> \in Seq(Bytes)
      OBVIOUS
    <2>2. Echo(<<>>) \in Seq(0..255) /\ Len(Echo(<<>>)) = 0
      BY <2>1, EmptyInput, EchoType
    <2>3. Echo(<<>>) = <<>>
      BY <2>2, EmptySeq
    <2> QED
      BY <1>2, <2>3, ConcatEmptySeq
  <1>4. EchoReference'
    <2> SUFFICES ASSUME NEW d \in Clients, phase'[d] # "none"
                 PROVE  out'[d] \o owed'[d] = <<Star>> \o Echo(got'[d])
      BY DEF EchoReference
    <2>1. CASE d = c
      <3>1. got[c] = <<>> /\ out[c] = <<>>
        BY <1>1 DEF EInv
      <3>2. owed'[c] = <<Star>>
        BY <1>1 DEF EInv
      <3> QED
        BY <1>1, <1>3, <2>1, <3>1, <3>2
    <2>2. CASE d # c
      BY <1>1, <2>2 DEF EInv, EchoReference
    <2> QED
      BY <2>1, <2>2
  <1> QED
    BY <1>1, <1>2, <1>4 DEF EInv

\* Concatenation is associative.
LEMMA Associative ==
  ASSUME NEW u \in Seq(0..255), NEW v \in Seq(0..255), NEW w \in Seq(0..255)
  PROVE  (u \o v) \o w = u \o (v \o w) /\ u \o v \in Seq(0..255)
  BY ConcatAssociative, ConcatProperties

\* The server takes one byte of the input.
LEMMA EchoConsume ==
  ASSUME Bytes \subseteq 0..255, EInv, NEW c \in Clients, NEW b \in Bytes,
         Consume(c, b)
  PROVE  EInv'
  <1> DEFINE t == Append(got[c], b)
             r == Reply(parse[c], b)
  <1>1. /\ parse' = [parse EXCEPT ![c] = NextParse(parse[c], b)]
        /\ got' = [got EXCEPT ![c] = t] /\ owed' = [owed EXCEPT ![c] = owed[c] \o r]
        /\ phase[c] = "open" /\ UNCHANGED <<phase, out>>
    BY DEF Consume
  <1>2. /\ got[c] \in Seq(Bytes) /\ Ranked(got[c])
        /\ parse[c] = "IN_MSG" <=> InMessage(got[c])
        /\ parse[c] \in {"WAIT_FOR_MSG", "IN_MSG"}
        /\ owed[c] \in Seq(0..255) /\ out[c] \in Seq(0..255)
    BY <1>1 DEF EInv
  <1>3. Grown(got[c], b, t)
    BY DEF Grown
  <1>4. t \in Seq(Bytes) /\ Ranked(t)
    BY <1>2, <1>3, AppendFacts, AppendRanked
  <1>5. r \in Seq(0..255) /\ Echo(t) = Echo(got[c]) \o r
    BY <1>2, <1>3, EchoAppend
  <1>6. /\ NextParse(parse[c], b) \in {"WAIT_FOR_MSG", "IN_MSG"}
        /\ NextParse(parse[c], b) = "IN_MSG" <=> InMessage(t)
    <2>1. InMessage(t) <=> b = Caret \/ (InMessage(got[c]) /\ b # Dollar)
      BY <1>2, <1>3, AppendPayload
    <2> QED
      BY <1>2, <2>1 DEF NextParse, Caret, Dollar
  <1>7. out[c] \o (owed[c] \o r) = <<Star>> \o Echo(t)
    <2>1. Echo(got[c]) \in Seq(0..255)
      BY <1>2, EchoType
    <2>2. <<Star>> \in Seq(0..255)
      BY DEF Star
    <2>3. out[c] \o owed[c] = <<Star>> \o Echo(got[c])
      BY <1>1 DEF EInv, EchoReference
    <2>4. out[c] \o (owed[c] \o r) = (out[c] \o owed[c]) \o r
      <3> DEFINE u == out[c]
                 v == owed[c]
      <3>1. u \in Seq(0..255) /\ v \in Seq(0..255) /\ r \in Seq(0..255)
        BY <1>2, <1>5
      <3> HIDE DEF u, v, r
      <3>2. (u \o v) \o r = u \o (v \o r)
        BY <3>1, Associative
      <3> QED
        BY <3>2 DEF u, v
    <2>5. <<Star>> \o (Echo(got[c]) \o r) = (<<Star>> \o Echo(got[c])) \o r
      BY <1>5, <2>1, <2>2, Associative
    <2> QED
      BY <1>5, <2>3, <2>4, <2>5
  <1> HIDE DEF t, r
  <1>8. owed[c] \o r \in Seq(0..255)
    BY <1>2, <1>5
  <1>9. EchoReference'
    BY <1>1, <1>7 DEF EInv, EchoReference
  <1> QED
    BY <1>1, <1>4, <1>6, <1>8, <1>9 DEF EInv

\* A prefix is moved from what is staged to what is delivered.
LEMMA SplitReplies ==
  ASSUME NEW q \in Seq(0..255), NEW n \in 1..Len(q)
  PROVE  /\ SubSeq(q, 1, n) \in Seq(0..255)
         /\ SubSeq(q, n + 1, Len(q)) \in Seq(0..255)
         /\ SubSeq(q, 1, n) \o SubSeq(q, n + 1, Len(q)) = q
  <1>1. Len(q) \in Nat /\ \A i \in 1..Len(q) : q[i] \in 0..255
    BY ElementOfSeq
  <1>2. /\ \A i \in 1..n : i \in 1..Len(q)
        /\ \A i \in (n + 1)..Len(q) : i \in 1..Len(q)
    BY <1>1
  <1>3. /\ SubSeq(q, 1, n) \in Seq(0..255)
        /\ SubSeq(q, n + 1, Len(q)) \in Seq(0..255)
    BY <1>1, <1>2, SubSeqProperties
  <1>4. SubSeq(q, 1, n) \o SubSeq(q, n + 1, Len(q)) = SubSeq(q, 1, Len(q))
    BY <1>1, ConcatAdjacentSubSeq
  <1> QED
    BY <1>3, <1>4, SubSeqFull

\* Some of the staged replies are delivered.
LEMMA EchoDeliver ==
  ASSUME EInv, NEW c \in Clients, NEW n \in 1..Len(owed[c]), Deliver(c, n)
  PROVE  EInv'
  <1> DEFINE o == SubSeq(owed[c], 1, n)
             w == SubSeq(owed[c], n + 1, Len(owed[c]))
  <1>1. /\ out' = [out EXCEPT ![c] = out[c] \o o]
        /\ owed' = [owed EXCEPT ![c] = w]
        /\ phase[c] = "open" /\ UNCHANGED <<phase, parse, got>>
    BY DEF Deliver
  <1>2. owed[c] \in Seq(0..255) /\ out[c] \in Seq(0..255) /\ Len(owed[c]) \in Nat
    BY DEF EInv
  <1>3. o \in Seq(0..255) /\ w \in Seq(0..255) /\ o \o w = owed[c]
    BY <1>2, SplitReplies
  <1> HIDE DEF o, w
  <1>4. (out[c] \o o) \o w = out[c] \o owed[c] /\ out[c] \o o \in Seq(0..255)
    <2> DEFINE u == out[c]
    <2>1. u \in Seq(0..255) /\ o \in Seq(0..255) /\ w \in Seq(0..255)
      BY <1>2, <1>3
    <2> HIDE DEF u
    <2>2. (u \o o) \o w = u \o (o \o w) /\ u \o o \in Seq(0..255)
      BY <2>1, Associative
    <2> QED
      BY <1>3, <2>2 DEF u
  <1>5. EchoReference'
    BY <1>1, <1>4 DEF EInv, EchoReference
  <1> QED
    BY <1>1, <1>3, <1>4, <1>5 DEF EInv

\* The inductive step.
LEMMA EchoStep ==
  ASSUME Bytes \subseteq 0..255, EInv, [Next]_vars
  PROVE  EInv'
  <1>1. ASSUME NEW c \in Clients, Finish(c) PROVE EInv'
    BY <1>1 DEF Finish, EInv, EchoReference
  <1>2. CASE Die \/ UNCHANGED vars
    <2>1. UNCHANGED <<phase, parse, got, owed, out>>
      BY <1>2, Zenon DEF Die, vars
    <2> QED
      BY <2>1 DEF EInv, EchoReference
  <1> QED
    BY <1>1, <1>2, EchoConnect, EchoConsume, EchoDeliver DEF Next

\* The state machine of the byte loops and the promise stated on the input
\* alone agree, for any number of clients and any bytes they send
\* (select-server.c:103-123, sequential-server.c:30-57).
THEOREM EchoCorrect ==
  ASSUME Bytes \subseteq 0..255
  PROVE  Spec => []EchoReference
  <1>1. EInv /\ [Next]_vars => EInv'
    BY EchoStep
  <1>2. EInv => EchoReference
    BY DEF EInv
  <1> QED
    BY <1>1, <1>2, EchoInit, PTL DEF Spec
=============================================================================
