------------------------- MODULE NetProgramsProofs -------------------------
(***************************************************************************)
(* Proofs about the network programs of MCNetPrograms, one program after   *)
(* the other.  A step of MCNext is a step of the program that runs, or     *)
(* leaves its variables as they are.                                       *)
(***************************************************************************)
EXTENDS MCNetPrograms, Sequences, FiniteSetTheorems, SequenceTheorems, WellFoundedInduction,
        TLAPS

-----------------------------------------------------------------------------
(* The blocking servers.  Every step of theirs is a step of EchoService or *)
(* leaves what it shows alone.                                             *)

Places == {"none", "queued", "greet", "recv", "loop", "closed", "raised", "aborted"}

BlockShape ==
    /\ conn \in [Guests -> Places]
    /\ parse \in [Guests -> {"WAIT_FOR_MSG", "IN_MSG"}]
    /\ post \in [Guests -> Seq(Letters)] /\ buf \in [Guests -> Seq(Letters)]
    /\ owes \in [Guests -> Seq(0..255)]
    /\ taken \in [Guests -> Seq(Letters)] /\ echoed \in [Guests -> Seq(0..255)]
    /\ queue \in Seq(Guests)
    /\ kind \in {"sequential", "threaded", "pool"}

\* A submission in the pool's queue is of a connection nobody has served,
\* and it is there once: a worker that takes it connects its client.
QueueWaits ==
    /\ \A i \in 1..Len(queue) : conn[queue[i]] = "queued"
    /\ \A i, j \in 1..Len(queue) : queue[i] = queue[j] => i = j

\* recv is called with nothing left to send: the end of a connection owes
\* its client nothing; one byte at most is on its way, and a read fits buf.
OwesNothingAtRecv ==
    \A g \in Guests : /\ conn[g] = "recv" => owes[g] = <<>>
                      /\ Len(buf[g]) <= RecvSize
                      /\ Len(owes[g]) <= 1

BlockInv == BlockShape /\ QueueWaits /\ OwesNothingAtRecv

\* No connection yet.
LEMMA BlockInitInv == Block!BlockInit => BlockInv
  <1> SUFFICES ASSUME Block!BlockInit PROVE BlockInv
    OBVIOUS
  <1> USE DEF Block!BlockInit, Block!Of
  <1>1. BlockShape
    BY DEF BlockShape, Places
  <1>2. QueueWaits
    BY DEF QueueWaits
  <1>3. OwesNothingAtRecv
    BY BlockAssumption DEF OwesNothingAtRecv, BlockAssumption
  <1> QED
    BY <1>1, <1>2, <1>3 DEF BlockInv

\* The reply to a byte is a byte.
LEMMA IncByte == ASSUME NEW b \in 0..255 PROVE Block!Service!Inc(b) \in 0..255
  BY DEF Block!Service!Inc

\* What the state machine makes of a byte.
LEMMA MachineTyped ==
  ASSUME NEW p \in {"WAIT_FOR_MSG", "IN_MSG"}, NEW b \in Letters
  PROVE  /\ Block!Service!Reply(p, b) \in Seq(0..255)
         /\ Len(Block!Service!Reply(p, b)) <= 1
         /\ Block!Service!NextParse(p, b) \in {"WAIT_FOR_MSG", "IN_MSG"}
  <1>1. Block!Service!Inc(b) \in 0..255
    BY IncByte, BlockAssumption DEF BlockAssumption
  <1>2. \A n \in 0..255 : <<n>> \in Seq(0..255) /\ Len(<<n>>) <= 1
    OBVIOUS
  <1>3. <<>> \in Seq(0..255) /\ Len(<<>>) <= 1
    OBVIOUS
  <1>4. \/ Block!Service!Reply(p, b) = <<>>
        \/ Block!Service!Reply(p, b) = <<Block!Service!Inc(b)>>
    BY DEF Block!Service!Reply
  <1>5. Block!Service!NextParse(p, b) \in {"WAIT_FOR_MSG", "IN_MSG"}
    BY DEF Block!Service!NextParse
  <1> QED
    BY <1>1, <1>2, <1>3, <1>4, <1>5, Zenon

\* A queue waits on while a connection outside it moves.
LEMMA QueueKept ==
  ASSUME BlockShape, QueueWaits, queue' = queue, NEW c \in Guests, conn[c] # "queued",
         \A d \in Guests : d # c => conn'[d] = conn[d]
  PROVE  QueueWaits'
  <1>1. \A i \in 1..Len(queue) : queue[i] \in Guests
    BY DEF BlockShape
  <1> QED
    BY <1>1 DEF QueueWaits

\* A pool thread takes a connection.
LEMMA PoolTakeInv ==
  ASSUME BlockInv, Block!PoolTake, NEW c, c = Head(queue)
  PROVE  BlockInv' /\ c \in Guests /\ conn[c] = "queued"
  <1>1. queue \in Seq(Guests) /\ queue # <<>>
    BY DEF BlockInv, BlockShape, Block!PoolTake
  <1>2. /\ c = queue[1] /\ c \in Guests /\ Tail(queue) \in Seq(Guests)
        /\ Len(queue) \in Nat /\ Len(queue) >= 1
        /\ Len(Tail(queue)) = Len(queue) - 1
        /\ \A i \in 1..Len(Tail(queue)) : Tail(queue)[i] = queue[i+1]
    BY <1>1
  <1>3. conn[c] = "queued"
    BY <1>2 DEF BlockInv, QueueWaits
  <1>4. /\ conn' = Block!Set(conn, c, "greet") /\ queue' = Tail(queue)
        /\ owes' = Block!Set(owes, c, <<Block!Service!Star>>)
        /\ UNCHANGED <<kind, post, parse, buf, taken, echoed>>
    BY DEF Block!PoolTake
  <1>5. <<Block!Service!Star>> \in Seq(0..255) /\ Len(<<Block!Service!Star>>) <= 1
    BY DEF Block!Service!Star
  <1>6. conn \in [Guests -> Places] /\ "greet" \in Places /\ owes \in [Guests -> Seq(0..255)]
    BY DEF BlockInv, BlockShape, Places
  <1>7. /\ conn' \in [Guests -> Places] /\ conn'[c] = "greet"
        /\ \A d \in Guests : d # c => conn'[d] = conn[d]
    BY <1>2, <1>4, <1>6 DEF Block!Set
  <1>8. /\ owes' \in [Guests -> Seq(0..255)] /\ owes'[c] = <<Block!Service!Star>>
        /\ \A d \in Guests : d # c => owes'[d] = owes[d]
    BY <1>2, <1>4, <1>5, <1>6 DEF Block!Set
  <1>9. BlockShape'
    BY <1>2, <1>4, <1>7, <1>8 DEF BlockInv, BlockShape
  <1>10. QueueWaits'
    <2>1. \A i \in 1..Len(queue') : i + 1 \in 1..Len(queue) /\ queue'[i] = queue[i+1] /\ queue[i+1] \in Guests
      BY <1>1, <1>2, <1>4
    <2>2. 1 \in 1..Len(queue) /\ \A i \in 1..Len(queue') : i + 1 # 1
      BY <1>1, <1>2, <1>4
    <2>3. \A i \in 1..Len(queue') : queue[i+1] # c
      BY <1>2, <2>1, <2>2 DEF BlockInv, QueueWaits
    <2>4. \A i \in 1..Len(queue') : conn'[queue'[i]] = "queued"
      BY <1>7, <2>1, <2>3 DEF BlockInv, QueueWaits
    <2>5. ASSUME NEW i \in 1..Len(queue'), NEW j \in 1..Len(queue'), queue'[i] = queue'[j]
          PROVE  i = j
      <3>1. i + 1 = j + 1
        BY <2>1, <2>5 DEF BlockInv, QueueWaits
      <3> QED
        BY <3>1
    <2> QED
      BY <2>4, <2>5 DEF QueueWaits
  <1>11. OwesNothingAtRecv'
    BY <1>4, <1>5, <1>7, <1>8 DEF BlockInv, OwesNothingAtRecv
  <1> QED
    BY <1>2, <1>3, <1>9, <1>10, <1>11 DEF BlockInv

\* accept.
LEMMA AcceptInv ==
  ASSUME BlockInv, NEW c \in Guests, Block!Accept(c)
  PROVE  BlockInv'
  <1> USE DEF BlockInv
  <1>1. /\ conn[c] = "none" /\ UNCHANGED <<kind, post, parse, buf, taken, echoed>>
        /\ conn \in [Guests -> Places] /\ owes \in [Guests -> Seq(0..255)]
        /\ "greet" \in Places /\ "queued" \in Places /\ queue \in Seq(Guests)
    BY DEF Block!Accept, Block!MayAccept, BlockShape, Places
  <1>2. CASE kind = "pool"
    <2>1. conn' = Block!Set(conn, c, "queued") /\ queue' = Append(queue, c) /\ UNCHANGED owes
      BY <1>2 DEF Block!Accept
    <2>2. /\ conn' \in [Guests -> Places] /\ conn'[c] = "queued"
          /\ \A d \in Guests : d # c => conn'[d] = conn[d]
      BY <1>1, <2>1 DEF Block!Set
    <2>3. /\ queue' \in Seq(Guests) /\ Len(queue') = Len(queue) + 1 /\ Len(queue) \in Nat
          /\ queue'[Len(queue) + 1] = c
          /\ \A i \in 1..Len(queue) : queue'[i] = queue[i] /\ queue[i] \in Guests
      BY <1>1, <2>1
    <2>4. BlockShape'
      BY <1>1, <2>1, <2>2, <2>3 DEF BlockShape
    <2>5. \A i \in 1..Len(queue) : queue[i] # c
      BY <1>1 DEF QueueWaits
    <2>6. \A i \in 1..Len(queue') : i \in 1..Len(queue) \/ i = Len(queue) + 1
      BY <2>3
    <2>7. QueueWaits'
      BY <2>2, <2>3, <2>5, <2>6 DEF QueueWaits
    <2>8. OwesNothingAtRecv'
      BY <1>1, <2>1, <2>2 DEF OwesNothingAtRecv
    <2> QED
      BY <2>4, <2>7, <2>8
  <1>3. CASE kind # "pool"
    <2>1. /\ conn' = Block!Set(conn, c, "greet") /\ UNCHANGED queue
          /\ owes' = Block!Set(owes, c, <<Block!Service!Star>>)
      BY <1>3 DEF Block!Accept
    <2>2. <<Block!Service!Star>> \in Seq(0..255) /\ Len(<<Block!Service!Star>>) <= 1
      BY DEF Block!Service!Star
    <2>3. /\ conn' \in [Guests -> Places] /\ conn'[c] = "greet"
          /\ \A d \in Guests : d # c => conn'[d] = conn[d]
      BY <1>1, <2>1 DEF Block!Set
    <2>4. /\ owes' \in [Guests -> Seq(0..255)] /\ owes'[c] = <<Block!Service!Star>>
          /\ \A d \in Guests : d # c => owes'[d] = owes[d]
      BY <1>1, <2>1, <2>2 DEF Block!Set
    <2>5. BlockShape'
      BY <1>1, <2>1, <2>3, <2>4 DEF BlockShape
    <2>6. QueueWaits'
      BY <1>1, <2>1, <2>3, QueueKept, Zenon
    <2>7. OwesNothingAtRecv'
      BY <1>1, <2>2, <2>3, <2>4 DEF OwesNothingAtRecv
    <2> QED
      BY <2>5, <2>6, <2>7
  <1> QED
    BY <1>2, <1>3

\* send.
LEMMA SendInv ==
  ASSUME BlockInv, NEW c \in Guests, Block!Send(c)
  PROVE  BlockInv'
  <1> USE DEF BlockInv
  <1>1. /\ conn[c] \in {"greet", "loop"} /\ UNCHANGED <<kind, post, queue, parse, buf, taken>>
        /\ conn \in [Guests -> Places] /\ owes \in [Guests -> Seq(0..255)]
        /\ echoed \in [Guests -> Seq(0..255)]
        /\ {"recv", "loop", "raised", "aborted"} \subseteq Places
    BY DEF Block!Send, BlockShape, Places
  <1>2. CASE /\ echoed' = Block!Set(echoed, c, echoed[c] \o owes[c])
             /\ owes' = Block!Set(owes, c, <<>>)
             /\ conn' = Block!Set(conn, c, IF buf[c] = <<>> THEN "recv" ELSE "loop")
    <2>1. /\ conn' \in [Guests -> Places] /\ conn'[c] \in {"recv", "loop"}
          /\ \A d \in Guests : d # c => conn'[d] = conn[d]
      <3>1. (IF buf[c] = <<>> THEN "recv" ELSE "loop") \in Places \cap {"recv", "loop"}
        BY DEF Places
      <3> QED
        BY <1>1, <1>2, <3>1 DEF Block!Set
    <2>2. <<>> \in Seq(0..255) /\ Len(<<>>) <= 1
      OBVIOUS
    <2>3. /\ owes' \in [Guests -> Seq(0..255)] /\ owes'[c] = <<>>
          /\ \A d \in Guests : d # c => owes'[d] = owes[d]
      BY <1>1, <1>2, <2>2 DEF Block!Set
    <2>4. echoed' \in [Guests -> Seq(0..255)]
      <3>1. echoed[c] \o owes[c] \in Seq(0..255)
        BY <1>1
      <3> QED
        BY <1>1, <1>2, <3>1 DEF Block!Set
    <2>5. BlockShape'
      BY <1>1, <2>1, <2>3, <2>4 DEF BlockShape
    <2>6. QueueWaits'
      BY <1>1, <2>1, QueueKept
    <2>7. OwesNothingAtRecv'
      BY <1>1, <2>1, <2>2, <2>3 DEF OwesNothingAtRecv
    <2> QED
      BY <2>5, <2>6, <2>7
  <1>3. CASE /\ \/ conn' = Block!Set(conn, c, "raised") \/ conn' = conn
                \/ conn' = Block!Set(conn, c, "aborted")
             /\ UNCHANGED <<echoed, owes>>
    <2>1. /\ conn' \in [Guests -> Places] /\ conn'[c] \notin {"recv", "none", "queued"}
          /\ \A d \in Guests : d # c => conn'[d] = conn[d]
      BY <1>1, <1>3 DEF Block!Set
    <2>2. BlockShape'
      BY <1>1, <1>3, <2>1 DEF BlockShape
    <2>3. QueueWaits'
      BY <1>1, <2>1, QueueKept
    <2>4. OwesNothingAtRecv'
      BY <1>1, <1>3, <2>1 DEF OwesNothingAtRecv
    <2> QED
      BY <2>2, <2>3, <2>4
  <1> QED
    BY <1>2, <1>3 DEF Block!Send

\* recv, of the first bytes or of more.
LEMMA RecvInv ==
  ASSUME BlockInv, NEW c \in Guests, Block!Recv(c)
  PROVE  BlockInv'
  <1> USE DEF BlockInv
  <1>1. /\ conn[c] = "recv" /\ owes[c] = <<>> /\ UNCHANGED <<kind, queue, owes, taken, echoed>>
        /\ conn \in [Guests -> Places] /\ {"loop", "closed"} \subseteq Places
        /\ post \in [Guests -> Seq(Letters)] /\ buf \in [Guests -> Seq(Letters)]
        /\ parse \in [Guests -> {"WAIT_FOR_MSG", "IN_MSG"}]
    BY DEF Block!Recv, BlockShape, OwesNothingAtRecv, Places
  <1>2. CASE /\ post[c] # <<>>
             /\ \E k \in 1..(IF Len(post[c]) < RecvSize THEN Len(post[c]) ELSE RecvSize) :
                   /\ buf' = Block!Set(buf, c, SubSeq(post[c], 1, k))
                   /\ post' = Block!Set(post, c, SubSeq(post[c], k + 1, Len(post[c])))
             /\ conn' = Block!Set(conn, c, "loop") /\ UNCHANGED parse
    <2>1. PICK k \in 1..(IF Len(post[c]) < RecvSize THEN Len(post[c]) ELSE RecvSize) :
                   /\ buf' = Block!Set(buf, c, SubSeq(post[c], 1, k))
                   /\ post' = Block!Set(post, c, SubSeq(post[c], k + 1, Len(post[c])))
      BY <1>2
    <2>2. /\ k \in 1..Len(post[c]) /\ k <= RecvSize /\ Len(post[c]) \in Nat
          /\ post[c] \in Seq(Letters)
      BY <1>1, BlockAssumption DEF BlockAssumption
    <2>3. SubSeq(post[c], 1, k) \in Seq(Letters) /\ Len(SubSeq(post[c], 1, k)) = k
      BY <2>2
    <2>4. SubSeq(post[c], k + 1, Len(post[c])) \in Seq(Letters)
      BY <2>2
    <2>5. /\ buf' \in [Guests -> Seq(Letters)] /\ Len(buf'[c]) <= RecvSize
          /\ \A d \in Guests : d # c => buf'[d] = buf[d]
      BY <1>1, <2>1, <2>2, <2>3 DEF Block!Set
    <2>6. post' \in [Guests -> Seq(Letters)]
      BY <1>1, <2>1, <2>4 DEF Block!Set
    <2>7. /\ conn' \in [Guests -> Places] /\ conn'[c] = "loop"
          /\ \A d \in Guests : d # c => conn'[d] = conn[d]
      BY <1>1, <1>2 DEF Block!Set
    <2>8. BlockShape'
      BY <1>1, <1>2, <2>5, <2>6, <2>7 DEF BlockShape
    <2>9. QueueWaits'
      BY <1>1, <2>7, QueueKept
    <2>10. OwesNothingAtRecv'
      BY <1>1, <2>5, <2>7 DEF OwesNothingAtRecv
    <2> QED
      BY <2>8, <2>9, <2>10
  <1>3. CASE /\ \/ /\ conn' = Block!Set(conn, c, "closed")
                   /\ parse' = Block!Set(parse, c, "WAIT_FOR_MSG")
                \/ UNCHANGED <<conn, parse>>
             /\ UNCHANGED <<buf, post>>
    <2>1. /\ conn' \in [Guests -> Places]
          /\ \A d \in Guests : d # c => conn'[d] = conn[d]
          /\ conn'[c] \notin {"none", "queued"}
      BY <1>1, <1>3 DEF Block!Set
    <2>2. parse' \in [Guests -> {"WAIT_FOR_MSG", "IN_MSG"}]
      BY <1>1, <1>3 DEF Block!Set
    <2>3. BlockShape'
      BY <1>1, <1>3, <2>1, <2>2 DEF BlockShape
    <2>4. QueueWaits'
      BY <1>1, <2>1, QueueKept
    <2>5. OwesNothingAtRecv'
      BY <1>1, <1>3, <2>1 DEF OwesNothingAtRecv
    <2> QED
      BY <2>3, <2>4, <2>5
  <1> QED
    BY <1>2, <1>3 DEF Block!Recv

\* One byte of the loop over the received block.
LEMMA HandleInv ==
  ASSUME BlockInv, NEW c \in Guests, Block!Handle(c)
  PROVE  BlockInv'
  <1> USE DEF BlockInv
  <1> DEFINE b == Head(buf[c])
             r == Block!Service!Reply(parse[c], b)
             p == Block!Service!NextParse(parse[c], b)
  <1>1. /\ conn[c] = "loop" /\ owes[c] = <<>> /\ buf[c] # <<>>
        /\ UNCHANGED <<kind, post, queue, echoed>>
        /\ owes' = Block!Set(owes, c, r) /\ parse' = Block!Set(parse, c, p)
        /\ taken' = Block!Set(taken, c, Append(taken[c], b))
        /\ buf' = Block!Set(buf, c, Tail(buf[c]))
        /\ conn' = Block!Set(conn, c, IF Tail(buf[c]) = <<>> /\ owes'[c] = <<>> THEN "recv" ELSE "loop")
    BY DEF Block!Handle
  <1>2. /\ conn \in [Guests -> Places] /\ {"loop", "recv"} \subseteq Places
        /\ buf \in [Guests -> Seq(Letters)] /\ taken \in [Guests -> Seq(Letters)]
        /\ owes \in [Guests -> Seq(0..255)] /\ parse \in [Guests -> {"WAIT_FOR_MSG", "IN_MSG"}]
    BY DEF BlockShape, Places
  <1>3. /\ b \in Letters /\ Tail(buf[c]) \in Seq(Letters) /\ Len(Tail(buf[c])) = Len(buf[c]) - 1
        /\ Len(buf[c]) \in Nat
    BY <1>1, <1>2
  <1>4. r \in Seq(0..255) /\ Len(r) <= 1 /\ p \in {"WAIT_FOR_MSG", "IN_MSG"}
    BY <1>2, <1>3, MachineTyped
  <1> HIDE DEF b, r, p
  <1>5. Append(taken[c], b) \in Seq(Letters)
    BY <1>2, <1>3
  <1>6. taken' \in [Guests -> Seq(Letters)] /\ parse' \in [Guests -> {"WAIT_FOR_MSG", "IN_MSG"}]
    BY <1>1, <1>2, <1>4, <1>5 DEF Block!Set
  <1>7. /\ owes' \in [Guests -> Seq(0..255)] /\ owes'[c] = r
        /\ \A d \in Guests : d # c => owes'[d] = owes[d]
    BY <1>1, <1>2, <1>4 DEF Block!Set
  <1>8. /\ buf' \in [Guests -> Seq(Letters)] /\ buf'[c] = Tail(buf[c])
        /\ \A d \in Guests : d # c => buf'[d] = buf[d]
    BY <1>1, <1>2, <1>3 DEF Block!Set
  <1>9. /\ conn' \in [Guests -> Places] /\ conn'[c] \in {"recv", "loop"}
        /\ conn'[c] = "recv" => owes'[c] = <<>>
        /\ \A d \in Guests : d # c => conn'[d] = conn[d]
    BY <1>1, <1>2 DEF Block!Set
  <1>10. BlockShape'
    BY <1>1, <1>6, <1>7, <1>8, <1>9 DEF BlockShape
  <1>11. QueueWaits'
    BY <1>1, <1>9, QueueKept
  <1>12. OwesNothingAtRecv'
    <2>1. Len(buf'[c]) <= RecvSize
      BY <1>3, <1>8, BlockAssumption DEF OwesNothingAtRecv, BlockAssumption
    <2> QED
      BY <1>1, <1>4, <1>7, <1>8, <1>9, <2>1 DEF OwesNothingAtRecv
  <1> QED
    BY <1>10, <1>11, <1>12

\* A step of a client.
LEMMA GuestInv ==
  ASSUME BlockInv, NEW c \in Guests, Block!GuestStep(c)
  PROVE  BlockInv'
  <1>1. /\ UNCHANGED <<kind, queue, conn, parse, buf, owes, taken, echoed, gone>>
        /\ post' = post \/ \E b \in Letters : post' = Block!Set(post, c, Append(post[c], b))
    BY DEF Block!GuestStep
  <1>2. post \in [Guests -> Seq(Letters)]
    BY DEF BlockInv, BlockShape
  <1>3. post' \in [Guests -> Seq(Letters)]
    <2>1. \A b \in Letters : Append(post[c], b) \in Seq(Letters)
      BY <1>2
    <2> QED
      BY <1>1, <1>2, <2>1 DEF Block!Set
  <1> QED
    BY <1>1, <1>3 DEF BlockInv, BlockShape, QueueWaits, OwesNothingAtRecv

\* The inductive step.
LEMMA BlockStep == BlockInv /\ [Block!BlockNext]_blockv => BlockInv'
  <1> SUFFICES ASSUME BlockInv, [Block!BlockNext]_blockv
               PROVE  BlockInv'
    OBVIOUS
  <1>1. CASE UNCHANGED blockv
    BY <1>1 DEF blockv, BlockInv, BlockShape, QueueWaits, OwesNothingAtRecv
  <1>2. CASE Block!PoolTake
    BY <1>2, PoolTakeInv
  <1>3. CASE \E c \in Guests : Block!Serve(c) \/ Block!GuestStep(c)
    BY <1>3, AcceptInv, SendInv, RecvInv, HandleInv, GuestInv DEF Block!Serve
  <1> QED
    BY <1>1, <1>2, <1>3 DEF Block!BlockNext

-----------------------------------------------------------------------------
(* The refinement of EchoService, one lemma for each kind of step.         *)

\* One connection moves: the service's phase function changes there only.
LEMMA PhaseMoves ==
  ASSUME NEW c \in Guests, \A d \in Guests : d # c => conn'[d] = conn[d]
  PROVE  [d \in Guests |-> Block!PhaseOf(d)]'
           = [[d \in Guests |-> Block!PhaseOf(d)] EXCEPT ![c] = Block!PhaseOf(c)']
  BY DEF Block!PhaseOf

\* accept without a pool, and a worker that takes a submission.
LEMMA ConnectMaps ==
  ASSUME BlockInv, NEW c \in Guests, ~gone, conn[c] \in {"none", "queued"},
         conn' = Block!Set(conn, c, "greet"),
         owes' = Block!Set(owes, c, <<Block!Service!Star>>),
         UNCHANGED <<parse, taken, echoed, gone>>
  PROVE  Block!Service!Next
  <1>1. conn \in [Guests -> Places] /\ owes \in [Guests -> Seq(0..255)]
    BY DEF BlockInv, BlockShape
  <1>2. conn'[c] = "greet" /\ \A d \in Guests : d # c => conn'[d] = conn[d]
    BY <1>1 DEF Block!Set
  <1>3. Block!PhaseOf(c) = "none" /\ Block!PhaseOf(c)' = "open"
    BY <1>2 DEF Block!PhaseOf
  <1>4. [d \in Guests |-> Block!PhaseOf(d)]'
           = [[d \in Guests |-> Block!PhaseOf(d)] EXCEPT ![c] = "open"]
    BY <1>2, <1>3, PhaseMoves
  <1>5. [d \in Guests |-> Block!PhaseOf(d)][c] = "none"
    BY <1>3
  <1>6. owes' = [owes EXCEPT ![c] = <<Block!Service!Star>>]
    BY DEF Block!Set
  <1>7. Block!Service!Connect(c)
    BY <1>4, <1>5, <1>6 DEF Block!Service!Connect
  <1> QED
    BY <1>7 DEF Block!Service!Next

\* A step that the client cannot see.
LEMMA HiddenMaps ==
  ASSUME \A d \in Guests : Block!PhaseOf(d)' = Block!PhaseOf(d),
         UNCHANGED <<parse, taken, owes, echoed, gone>>
  PROVE  UNCHANGED Block!Service!vars
  BY DEF Block!Service!vars

\* accept is the promise's connect.
LEMMA AcceptMaps ==
  ASSUME BlockInv, NEW c \in Guests, Block!Accept(c)
  PROVE  [Block!Service!Next]_(Block!Service!vars)
  <1>1. ~gone /\ conn[c] = "none" /\ UNCHANGED <<parse, taken, echoed, gone>>
    BY DEF Block!Accept, Block!MayAccept
  <1>2. CASE kind = "pool"
    <2>1. conn' = Block!Set(conn, c, "queued") /\ UNCHANGED owes
      BY <1>2 DEF Block!Accept
    <2>2. conn'[c] = "queued" /\ \A d \in Guests : d # c => conn'[d] = conn[d]
      BY <2>1 DEF BlockInv, BlockShape, Block!Set
    <2>3. \A d \in Guests : Block!PhaseOf(d)' = Block!PhaseOf(d)
      BY <1>1, <2>2 DEF Block!PhaseOf
    <2> QED
      BY <1>1, <2>1, <2>3, HiddenMaps
  <1>3. CASE kind # "pool"
    BY <1>1, <1>3, ConnectMaps DEF Block!Accept
  <1> QED
    BY <1>2, <1>3

\* send delivers what is staged.
LEMMA SendMaps ==
  ASSUME BlockInv, NEW c \in Guests, Block!Send(c)
  PROVE  [Block!Service!Next]_(Block!Service!vars)
  <1>1. /\ ~gone /\ conn[c] \in {"greet", "loop"} /\ owes[c] # <<>>
        /\ UNCHANGED <<parse, taken>>
        /\ conn \in [Guests -> Places] /\ owes[c] \in Seq(0..255)
    BY DEF Block!Send, BlockInv, BlockShape
  <1>2. CASE /\ echoed' = Block!Set(echoed, c, echoed[c] \o owes[c])
             /\ owes' = Block!Set(owes, c, <<>>)
             /\ conn' = Block!Set(conn, c, IF buf[c] = <<>> THEN "recv" ELSE "loop")
             /\ UNCHANGED gone
    <2>1. conn'[c] \in {"recv", "loop"} /\ \A d \in Guests : d # c => conn'[d] = conn[d]
      BY <1>1, <1>2 DEF Block!Set
    <2>2. \A d \in Guests : Block!PhaseOf(d)' = Block!PhaseOf(d)
      BY <1>1, <2>1 DEF Block!PhaseOf
    <2>3. Block!PhaseOf(c) = "open"
      BY <1>1 DEF Block!PhaseOf
    <2> DEFINE n == Len(owes[c])
    <2>4. /\ n \in 1..Len(owes[c]) /\ SubSeq(owes[c], 1, n) = owes[c]
          /\ SubSeq(owes[c], n + 1, Len(owes[c])) = <<>>
      BY <1>1, SubSeqFull
    <2>5. /\ echoed' = [echoed EXCEPT ![c] = @ \o SubSeq(owes[c], 1, n)]
          /\ owes' = [owes EXCEPT ![c] = SubSeq(@, n + 1, Len(@))]
      BY <1>2, <2>4 DEF Block!Set, BlockInv, BlockShape
    <2> HIDE DEF n
    <2>6. Block!Service!Deliver(c, n)
      BY <1>1, <1>2, <2>2, <2>3, <2>5 DEF Block!Service!Deliver
    <2> QED
      BY <2>4, <2>6 DEF Block!Service!Next
  <1>3. CASE /\ \/ conn' = Block!Set(conn, c, "raised")
                \/ conn' = Block!Set(conn, c, "aborted")
             /\ UNCHANGED <<echoed, owes, gone>>
    <2>1. conn'[c] \in {"raised", "aborted"} /\ \A d \in Guests : d # c => conn'[d] = conn[d]
      BY <1>1, <1>3 DEF Block!Set
    <2>2. \A d \in Guests : Block!PhaseOf(d)' = Block!PhaseOf(d)
      BY <1>1, <2>1 DEF Block!PhaseOf
    <2> QED
      BY <1>1, <1>3, <2>2, HiddenMaps
  <1>4. CASE gone' = TRUE /\ UNCHANGED <<conn, echoed, owes>>
    <2>1. Block!Service!Die
      BY <1>1, <1>4 DEF Block!Service!Die, Block!PhaseOf
    <2> QED
      BY <2>1 DEF Block!Service!Next
  <1> QED
    BY <1>2, <1>3, <1>4 DEF Block!Send

\* recv changes nothing the promise sees, or ends the connection.
LEMMA RecvMaps ==
  ASSUME BlockInv, NEW c \in Guests, Block!Recv(c)
  PROVE  [Block!Service!Next]_(Block!Service!vars)
  <1>1. /\ ~gone /\ conn[c] = "recv" /\ owes[c] = <<>> /\ UNCHANGED <<owes, taken, echoed>>
        /\ conn \in [Guests -> Places]
    BY DEF Block!Recv, BlockInv, BlockShape, OwesNothingAtRecv
  <1>2. CASE conn' = Block!Set(conn, c, "loop") /\ UNCHANGED <<parse, gone>>
    <2>1. conn'[c] = "loop" /\ \A d \in Guests : d # c => conn'[d] = conn[d]
      BY <1>1, <1>2 DEF Block!Set
    <2>2. \A d \in Guests : Block!PhaseOf(d)' = Block!PhaseOf(d)
      BY <1>1, <2>1 DEF Block!PhaseOf
    <2> QED
      BY <1>1, <1>2, <2>2, HiddenMaps
  <1>3. CASE /\ conn' = Block!Set(conn, c, "closed")
             /\ parse' = Block!Set(parse, c, "WAIT_FOR_MSG") /\ UNCHANGED gone
    <2>1. conn'[c] = "closed" /\ \A d \in Guests : d # c => conn'[d] = conn[d]
      BY <1>1, <1>3 DEF Block!Set
    <2>2. Block!PhaseOf(c) = "open" /\ Block!PhaseOf(c)' = "closed"
      BY <1>1, <2>1 DEF Block!PhaseOf
    <2>3. [d \in Guests |-> Block!PhaseOf(d)]'
             = [[d \in Guests |-> Block!PhaseOf(d)] EXCEPT ![c] = "closed"]
      BY <2>1, <2>2, PhaseMoves
    <2>4. parse' = [parse EXCEPT ![c] = "WAIT_FOR_MSG"]
      BY <1>3 DEF Block!Set
    <2>5. Block!Service!Finish(c)
      BY <1>1, <1>3, <2>2, <2>3, <2>4 DEF Block!Service!Finish
    <2> QED
      BY <2>5 DEF Block!Service!Next
  <1>4. CASE gone' = TRUE /\ UNCHANGED <<conn, parse>>
    <2>1. Block!Service!Die
      BY <1>1, <1>4 DEF Block!Service!Die, Block!PhaseOf
    <2> QED
      BY <2>1 DEF Block!Service!Next
  <1> QED
    BY <1>2, <1>3, <1>4 DEF Block!Recv

\* A handled byte is a byte consumed.
LEMMA HandleMaps ==
  ASSUME BlockInv, NEW c \in Guests, Block!Handle(c)
  PROVE  [Block!Service!Next]_(Block!Service!vars)
  <1> DEFINE b == Head(buf[c])
             r == Block!Service!Reply(parse[c], b)
  <1>1. /\ ~gone /\ conn[c] = "loop" /\ owes[c] = <<>> /\ buf[c] # <<>>
        /\ UNCHANGED <<echoed, gone>>
        /\ owes' = Block!Set(owes, c, r)
        /\ parse' = Block!Set(parse, c, Block!Service!NextParse(parse[c], b))
        /\ taken' = Block!Set(taken, c, Append(taken[c], b))
        /\ conn' = Block!Set(conn, c, IF Tail(buf[c]) = <<>> /\ owes'[c] = <<>> THEN "recv" ELSE "loop")
    BY DEF Block!Handle
  <1>2. /\ buf[c] \in Seq(Letters) /\ conn \in [Guests -> Places]
        /\ parse[c] \in {"WAIT_FOR_MSG", "IN_MSG"}
        /\ owes \in [Guests -> Seq(0..255)] /\ taken \in [Guests -> Seq(Letters)]
        /\ parse \in [Guests -> {"WAIT_FOR_MSG", "IN_MSG"}]
    BY DEF BlockInv, BlockShape
  <1>3. b \in Letters
    BY <1>1, <1>2
  <1>4. r \in Seq(0..255)
    BY <1>2, <1>3, MachineTyped
  <1> HIDE DEF b
  <1>5. <<>> \o r = r
    BY <1>4, ConcatEmptySeq
  <1>6. owes' = [owes EXCEPT ![c] = @ \o r]
    <2> HIDE DEF r
    <2> QED
      BY <1>1, <1>2, <1>5 DEF Block!Set
  <1>7. /\ parse' = [parse EXCEPT ![c] = Block!Service!NextParse(@, b)]
        /\ taken' = [taken EXCEPT ![c] = Append(@, b)]
    BY <1>1, <1>2 DEF Block!Set
  <1>8. conn'[c] \in {"recv", "loop"} /\ \A d \in Guests : d # c => conn'[d] = conn[d]
    <2> HIDE DEF r
    <2> QED
      BY <1>1, <1>2 DEF Block!Set
  <1>9. Block!PhaseOf(c) = "open" /\ \A d \in Guests : Block!PhaseOf(d)' = Block!PhaseOf(d)
    BY <1>1, <1>8 DEF Block!PhaseOf
  <1>10. Block!Service!Consume(c, b)
    BY <1>1, <1>6, <1>7, <1>9 DEF Block!Service!Consume
  <1> QED
    BY <1>3, <1>10 DEF Block!Service!Next

\* Every step maps to a step of the promise or to a stutter.
LEMMA BlockMaps == BlockInv /\ [Block!BlockNext]_blockv => [Block!Service!Next]_(Block!Service!vars)
  <1> SUFFICES ASSUME BlockInv, [Block!BlockNext]_blockv
               PROVE  [Block!Service!Next]_(Block!Service!vars)
    OBVIOUS
  <1>1. CASE UNCHANGED blockv
    BY <1>1, HiddenMaps DEF blockv, Block!PhaseOf
  <1>2. CASE Block!PoolTake
    <2> DEFINE c == Head(queue)
    <2>1. c \in Guests /\ conn[c] = "queued"
      BY <1>2, PoolTakeInv
    <2>2. /\ ~gone /\ conn' = Block!Set(conn, c, "greet")
          /\ owes' = Block!Set(owes, c, <<Block!Service!Star>>)
          /\ UNCHANGED <<parse, taken, echoed, gone>>
      BY <1>2 DEF Block!PoolTake
    <2> QED
      BY <2>1, <2>2, ConnectMaps
  <1>3. ASSUME NEW c \in Guests, Block!GuestStep(c)
        PROVE  [Block!Service!Next]_(Block!Service!vars)
    BY <1>3, HiddenMaps DEF Block!GuestStep, Block!PhaseOf
  <1> QED
    BY <1>1, <1>2, <1>3, AcceptMaps, SendMaps, RecvMaps, HandleMaps
    DEF Block!BlockNext, Block!Serve

\* The blocking servers run alone, or not at all.
LEMMA BlockRuns == [MCNext]_mcVars => [Block!BlockNext]_blockv
  <1> SUFFICES ASSUME [MCNext]_mcVars PROVE [Block!BlockNext]_blockv
    OBVIOUS
  <1>1. CASE UNCHANGED mcVars
    BY <1>1 DEF mcVars
  <1>2. CASE MCNext /\ which = "block"
    BY <1>2 DEF MCNext
  <1>3. CASE MCNext /\ which # "block"
    BY <1>3 DEF MCNext, Others
  <1> QED
    BY <1>1, <1>2, <1>3

\* All three blocking servers, for any clients, any bytes, any size of the
\* pool and of buf, keep the promise of EchoService: every step of theirs is
\* a step of the service, in particular a connection is finished with
\* nothing owed and a submission of the pool is served once.
THEOREM BlockCorrect == MCSpec => BlockImplements
  <1>1. MCInit => BlockInv /\ Block!Service!Init
    <2> SUFFICES ASSUME Block!BlockInit PROVE BlockInv /\ Block!Service!Init
      BY DEF MCInit
    <2>1. BlockInv
      BY BlockInitInv
    <2>2. Block!Service!Init
      BY DEF Block!BlockInit, Block!Of, Block!Service!Init, Block!PhaseOf
    <2> QED
      BY <2>1, <2>2
  <1>2. BlockInv /\ [MCNext]_mcVars => BlockInv'
    BY BlockStep, BlockRuns
  <1>3. BlockInv /\ [MCNext]_mcVars => [Block!Service!Next]_(Block!Service!vars)
    BY BlockMaps, BlockRuns
  <1> QED
    BY <1>1, <1>2, <1>3, PTL DEF MCSpec, BlockImplements, Block!BlockImplements, Block!Service!Spec

-----------------------------------------------------------------------------
(* The receive path of the stack: main.c, netdev.c, arp.c.                 *)

Addresses == {"us", "p", "q", "broadcast", "other", "multicast", "group"}
Word16 == {x \in Nat : x < 65536}
FrameSet == [dmac : Addresses, smac : Addresses, pro : {"ARP", "IP", "RARP", "else"},
             size : {"full", "no_eth", "no_arp", "no_payload"},
             hwtype : Word16, protype : Word16, opcode : Word16,
             asmac : Addresses, asip : Addresses, admac : Addresses, adip : Addresses]

\* ntohs is its own inverse on 16 bits.
LEMMA NtohsTwice ==
  ASSUME NEW x \in Word16
  PROVE  Net!ntohs(Net!ntohs(x)) = x
  <1> DEFINE q == x \div 256
             r == x % 256
  <1>1. q \in Nat /\ q < 256 /\ r \in Nat /\ r < 256 /\ x = 256 * q + r
    BY SMT DEF Word16
  <1>2. Net!ntohs(x) = r * 256 + q
    BY SMT DEF Net!ntohs
  <1> HIDE DEF q, r
  <1>3. (r * 256 + q) % 256 = q /\ (r * 256 + q) \div 256 = r
    BY <1>1, SMT
  <1> QED
    BY <1>1, <1>2, <1>3, SMT DEF Net!ntohs

\* The constants the stack compares with, in network order.
LEMMA NtohsVals == Net!ntohs(1) = 256 /\ Net!ntohs(2) = 512 /\ Net!ntohs(3) = 768 /\ Net!ntohs(2048) = 8
  BY DEF Net!ntohs

\* A well-formed ARP frame is a frame.
LEMMA GoodFrames ==
  ASSUME NEW s \in Net!Peers, NEW o \in {1, 2}
  PROVE  Net!ArpFrame(s, o) \in FrameSet
  <1>1. s \in Addresses /\ (IF o = 1 THEN "broadcast" ELSE Net!Us) \in Addresses /\ Net!Us \in Addresses
        /\ "broadcast" \in Addresses
    BY SMT DEF Net!Peers, Addresses, Net!Us
  <1>2. Net!ntohs(1) \in Word16 /\ Net!ntohs(2048) \in Word16 /\ Net!ntohs(o) \in Word16
    BY NtohsVals, SMT DEF Word16
  <1> QED
  BY <1>1, <1>2, SMT DEF Net!ArpFrame, FrameSet

\* Every frame that may arrive is one.
LEMMA FramesTyped == Net!Frames \subseteq FrameSet
  <1>1. Net!Good \subseteq FrameSet
    BY GoodFrames DEF Net!Good
  <1>2. /\ Net!Us \in Addresses /\ Net!Peers \subseteq Addresses /\ {"q", "group", "other", "multicast"} \subseteq Addresses
        /\ 1 \in Word16 /\ Net!ntohs(1) \in Word16 /\ Net!ntohs(3) \in Word16
    BY NtohsVals DEF Net!Us, Net!Peers, Addresses, Word16
  <1> DEFINE Other == {[f EXCEPT !.dmac = "other"] : f \in Net!Good}
             Multi == {[f EXCEPT !.dmac = "multicast"] : f \in Net!Good}
             Short == {[f EXCEPT !.size = z] : f \in Net!Good, z \in {"no_eth", "no_arp"}}
             Ends(f, m, i) == [f EXCEPT !.size = "no_payload", !.asmac = m, !.adip = i]
             Cut   == {Ends(f, m, i) :
                          f \in Net!Good, m \in Net!Peers, i \in {Net!Us, "q"}}
             Proto == {[f EXCEPT !.pro = p] : f \in Net!Good, p \in {"IP", "RARP", "else"}}
             Mac   == {[f EXCEPT !.asmac = "q"] : f \in Net!Good}
             Hw    == {[f EXCEPT !.hwtype = 1] : f \in Net!Good}
             Pro   == {[f EXCEPT !.protype = Net!ntohs(1)] : f \in Net!Good}
             Op    == {[f EXCEPT !.opcode = Net!ntohs(3)] : f \in Net!Good}
             Ip4   == {[f EXCEPT !.adip = i] : f \in Net!Good, i \in {"q", "group"}}
  <1>3. Other \subseteq FrameSet /\ Multi \subseteq FrameSet /\ Mac \subseteq FrameSet
    BY <1>1, <1>2 DEF FrameSet
  <1>4. Short \subseteq FrameSet
    BY <1>1 DEF FrameSet
  <1>5. ASSUME NEW f \in Net!Good, NEW m \in Net!Peers, NEW i \in {Net!Us, "q"}
        PROVE  Ends(f, m, i) \in FrameSet
    <2>1. m \in Addresses /\ i \in Addresses /\ f \in FrameSet
      BY <1>1, <1>2
    <2>2. PICK a : a = [f EXCEPT !.size = "no_payload"]
      OBVIOUS
    <2>3. PICK b : b = [a EXCEPT !.asmac = m]
      OBVIOUS
    <2>4. a \in FrameSet
      BY <2>1, <2>2 DEF FrameSet
    <2>5. b \in FrameSet
      BY <2>1, <2>3, <2>4 DEF FrameSet
    <2>6. [b EXCEPT !.adip = i] \in FrameSet
      BY <2>1, <2>5 DEF FrameSet
    <2> QED
      BY <2>2, <2>3, <2>6
  <1>6. Cut \subseteq FrameSet
    <2> HIDE DEF Ends
    <2> QED
      BY <1>5
  <1>7. Proto \subseteq FrameSet
    BY <1>1 DEF FrameSet
  <1>8. Hw \subseteq FrameSet /\ Pro \subseteq FrameSet /\ Op \subseteq FrameSet
    BY <1>1, <1>2 DEF FrameSet
  <1>9. Ip4 \subseteq FrameSet
    BY <1>1, <1>2 DEF FrameSet
  <1>10. Net!Frames = Net!Good \cup Other \cup Multi \cup Short \cup Cut \cup Proto \cup Mac
                       \cup Hw \cup Pro \cup Op \cup Ip4
    BY SMT DEF Net!Frames
  <1> QED
    <2> HIDE DEF Other, Multi, Short, Cut, Proto, Mac, Hw, Pro, Op, Ip4
    <2> QED
      BY <1>1, <1>3, <1>4, <1>6, <1>7, <1>8, <1>9, <1>10

\* A frame is not the absence of one.
LEMMA FrameThere == ASSUME NEW f \in FrameSet PROVE f # Net!NoFrame
  BY SMT DEF FrameSet, Net!NoFrame

\* What arp_reply makes of a request.
LEMMA Reply == 
  ASSUME NEW f \in FrameSet, Net!ArpAccepts(f), Net!ntohs(f.opcode) = 1,
         NEW r, r = Net!arp_reply(Net!InHostOrder(f))
  PROVE  /\ r.dmac = f.smac /\ r.smac = Net!Us
         /\ r.admac = f.smac /\ r.adip = f.asip
         /\ r.asmac = Net!Us /\ r.asip = Net!Us
         /\ r.hwtype = f.hwtype /\ r.protype = f.protype
         /\ r.opcode = Net!ntohs(2) /\ f.opcode = Net!ntohs(1)
  <1>1. PICK h : h = Net!InHostOrder(f)
    OBVIOUS
  <1>2. /\ h.smac = f.smac /\ h.asmac = f.asmac /\ h.asip = f.asip
        /\ h.hwtype = Net!ntohs(f.hwtype) /\ h.protype = Net!ntohs(f.protype)
        /\ DOMAIN h = {"dmac", "smac", "pro", "size", "hwtype", "protype", "opcode", "asmac", "asip", "admac", "adip"}
    BY <1>1, SMT DEF FrameSet, Net!InHostOrder
  <1>3. PICK t : t = [h EXCEPT !.admac = h.asmac, !.adip = h.asip, !.asmac = Net!Us, !.asip = Net!Us]
    OBVIOUS
  <1>4. /\ t.smac = f.smac /\ t.admac = f.asmac /\ t.adip = f.asip
        /\ t.asmac = Net!Us /\ t.asip = Net!Us
        /\ t.hwtype = Net!ntohs(f.hwtype) /\ t.protype = Net!ntohs(f.protype)
        /\ DOMAIN t = {"dmac", "smac", "pro", "size", "hwtype", "protype", "opcode", "asmac", "asip", "admac", "adip"}
    BY <1>2, <1>3, SMT
  <1>5. PICK u : u = [t EXCEPT !.hwtype = Net!ntohs(@), !.protype = Net!ntohs(@), !.opcode = Net!ntohs(2)]
    OBVIOUS
  <1>6. /\ u.smac = f.smac /\ u.admac = f.asmac /\ u.adip = f.asip
        /\ u.asmac = Net!Us /\ u.asip = Net!Us
        /\ u.hwtype = Net!ntohs(Net!ntohs(f.hwtype)) /\ u.protype = Net!ntohs(Net!ntohs(f.protype))
        /\ u.opcode = Net!ntohs(2)
        /\ DOMAIN u = {"dmac", "smac", "pro", "size", "hwtype", "protype", "opcode", "asmac", "asip", "admac", "adip"}
    BY <1>4, <1>5, SMT
  <1>7. r = Net!net_tx(u, "smac")
    BY <1>1, <1>3, <1>5 DEF Net!arp_reply
  <1>8. /\ r.dmac = u.smac /\ r.smac = Net!Us /\ r.admac = u.admac /\ r.adip = u.adip
        /\ r.asmac = u.asmac /\ r.asip = u.asip
        /\ r.hwtype = u.hwtype /\ r.protype = u.protype /\ r.opcode = u.opcode
    BY <1>6, <1>7, SMT DEF Net!net_tx
  <1>9. f.hwtype \in Word16 /\ f.protype \in Word16 /\ f.opcode \in Word16
    BY SMT DEF FrameSet
  <1> QED
    BY <1>6, <1>8, <1>9, NtohsTwice DEF Net!ArpAccepts

ThreadNames == {"main", "recv", "timer", "ipc", "signal"}
ThreadPlaces == {"init", "none", "join", "exit", "ended", "check", "sleep", "poll", "read", "rx",
                 "sigwait"}

NetShape ==
    /\ threads \in [ThreadNames -> ThreadPlaces]
    /\ running \in BOOLEAN /\ devs \subseteq {"lo", "veth"}
    /\ tap \in {"none", "bad", "shut", "open"}
    /\ pkb \in FrameSet \cup {Net!NoFrame}
    /\ pkbs \in Nat /\ lost \in Nat /\ pkbs <= MaxPkbs

\* Before main has started the threads there are none; while it waits in
\* join_threads the devices stay; it leaves only after the stop signal.
MainInv ==
    /\ threads["main"] \in {"init", "join", "exit", "ended"}
    /\ threads["main"] = "init" => \A t \in ThreadNames \ {"main"} : threads[t] = "none"
    /\ threads["main"] = "join" => "veth" \in devs
    /\ threads["signal"] = "ended" => ~running
    /\ threads["main"] \in {"exit", "ended"} => ~running

\* The receive thread holds a packet in net_rx, and none before it has read
\* one.
HoldsPacket ==
    /\ threads["recv"] \in {"none", "check", "poll", "read"} => pkb = Net!NoFrame
    /\ threads["recv"] = "rx" => pkb \in FrameSet

NetInv == /\ NetShape /\ MainInv /\ HoldsPacket
          /\ Net!BuffersAccounted /\ Net!ReplyGoesBack /\ Net!DeviceUntilStop

\* main has not started.
LEMMA NetInitInv == Net!NetInit => NetInv
  <1> SUFFICES ASSUME Net!NetInit PROVE NetInv
    OBVIOUS
  <1> USE DEF Net!NetInit
  <1>1. NetShape
    BY NetAssumption DEF NetShape, ThreadNames, ThreadPlaces, NetAssumption
  <1>2. MainInv
    BY DEF MainInv, ThreadNames
  <1>3. HoldsPacket
    BY DEF HoldsPacket
  <1>4. Net!BuffersAccounted /\ Net!ReplyGoesBack /\ Net!DeviceUntilStop
    BY DEF Net!BuffersAccounted, Net!ReplyGoesBack, Net!DeviceUntilStop
  <1> QED
    BY <1>1, <1>2, <1>3, <1>4 DEF NetInv

\* The threads that handle no packet.
LEMMA MainStepsInv ==
  ASSUME NetInv, Net!MainSteps \/ Net!StopSignal \/ \E t \in {"timer", "ipc"} : Net!Sleeper(t)
  PROVE  NetInv'
  <1> USE DEF NetInv, Net!Go
  <1>1. UNCHANGED <<pkb, pkbs, lost, wire, fault>>
    BY DEF Net!MainSteps, Net!MainStart, Net!MainLeave, Net!MainReturn, Net!StopSignal, Net!Sleeper
  <1>2. Net!BuffersAccounted' /\ Net!ReplyGoesBack'
    BY <1>1 DEF Net!BuffersAccounted, Net!ReplyGoesBack
  <1>3. CASE Net!MainStart
    <2>1. /\ threads' \in [ThreadNames -> ThreadPlaces]
          /\ threads'["main"] = "join" /\ threads'["recv"] = "check" /\ threads'["signal"] = "sigwait"
          /\ running' = running /\ devs' = devs \cup {"lo", "veth"} /\ tap' \in {"open", "bad", "shut"}
          /\ threads["recv"] = "none"
      BY <1>3 DEF Net!MainStart, Net!tap_alloc, Net!netdev_alloc, NetShape, MainInv, ThreadNames, ThreadPlaces
    <2> QED
      BY <1>1, <1>2, <2>1 DEF NetShape, MainInv, HoldsPacket, Net!DeviceUntilStop
  <1>4. CASE Net!MainLeave
    <2>1. /\ threads["signal"] = "ended" /\ threads' = [threads EXCEPT !["main"] = "exit"]
          /\ running' = running /\ devs' = devs \ {"veth"} /\ tap' \in {tap, "shut"}
      BY <1>4 DEF Net!MainLeave, Net!netdev_free, Net!Shut
    <2>2. /\ threads' \in [ThreadNames -> ThreadPlaces] /\ threads'["main"] = "exit"
          /\ threads'["recv"] = threads["recv"] /\ threads'["signal"] = threads["signal"]
      BY <2>1 DEF NetShape, ThreadNames, ThreadPlaces
    <2> QED
      BY <1>1, <1>2, <2>1, <2>2 DEF NetShape, MainInv, HoldsPacket, Net!DeviceUntilStop
  <1>5. CASE Net!MainReturn
    <2>1. /\ threads["main"] = "exit" /\ threads' = [t \in DOMAIN threads |-> "ended"]
          /\ running' = running /\ devs' = devs \ {"lo"} /\ tap' = tap
      BY <1>5 DEF Net!MainReturn, Net!netdev_free
    <2>2. /\ threads' \in [ThreadNames -> ThreadPlaces] /\ threads'["main"] = "ended"
          /\ threads'["recv"] = "ended"
      BY <2>1 DEF NetShape, ThreadNames, ThreadPlaces
    <2> QED
      BY <1>1, <1>2, <2>1, <2>2 DEF NetShape, MainInv, HoldsPacket, Net!DeviceUntilStop
  <1>6. CASE Net!StopSignal
    <2>1. /\ threads["signal"] = "sigwait" /\ running' = FALSE /\ UNCHANGED <<devs, tap>>
          /\ threads' = [threads EXCEPT !["signal"] = "ended", !["ipc"] = "ended"]
      BY <1>6 DEF Net!StopSignal
    <2>2. /\ threads' \in [ThreadNames -> ThreadPlaces]
          /\ threads'["main"] = threads["main"] /\ threads'["recv"] = threads["recv"]
          /\ threads["main"] # "init"
      BY <2>1 DEF NetShape, ThreadNames, ThreadPlaces, MainInv
    <2> QED
      BY <1>1, <1>2, <2>1, <2>2 DEF NetShape, MainInv, HoldsPacket, Net!DeviceUntilStop
  <1>7. ASSUME NEW t \in {"timer", "ipc"}, Net!Sleeper(t)
        PROVE  NetInv'
    <2>1. /\ threads[t] \in {"check", "sleep"} /\ UNCHANGED <<running, devs, tap>>
          /\ \E p \in {"sleep", "ended", "check"} : threads' = [threads EXCEPT ![t] = p]
      BY <1>7 DEF Net!Sleeper
    <2>2. /\ threads' \in [ThreadNames -> ThreadPlaces]
          /\ threads'["main"] = threads["main"] /\ threads'["recv"] = threads["recv"]
          /\ threads'["signal"] = threads["signal"] /\ threads["main"] # "init"
      BY <2>1 DEF NetShape, ThreadNames, ThreadPlaces, MainInv
    <2> QED
      BY <1>1, <1>2, <2>1, <2>2 DEF NetShape, MainInv, HoldsPacket, Net!DeviceUntilStop
  <1> QED
    BY <1>3, <1>4, <1>5, <1>6, <1>7 DEF Net!MainSteps

\* A step of the receive thread that leaves the packets alone.
LEMMA RecvMoves ==
  ASSUME NetInv, UNCHANGED <<running, devs, tap, pkb, pkbs, lost, wire>>,
         NEW p \in {"poll", "ended", "read"}, threads["recv"] \in {"check", "poll", "read"},
         threads' = [threads EXCEPT !["recv"] = p], fault' = fault
  PROVE  NetInv'
  <1>1. /\ threads' \in [ThreadNames -> ThreadPlaces]
        /\ threads'["main"] = threads["main"] /\ threads'["recv"] = p
        /\ threads'["signal"] = threads["signal"] /\ threads["main"] # "init"
    BY DEF NetInv, NetShape, ThreadNames, ThreadPlaces, MainInv
  <1> QED
    BY <1>1 DEF NetInv, NetShape, MainInv, HoldsPacket, Net!DeviceUntilStop,
                Net!BuffersAccounted, Net!ReplyGoesBack

\* The receive thread finds veth gone, or too many packets.
LEMMA RecvFaults ==
  ASSUME NetInv, UNCHANGED <<running, devs, tap, threads, pkb, pkbs, lost, wire>>,
         threads["recv"] \in {"read", "rx"},
         \/ fault' = "use_after_free" /\ "veth" \notin devs
         \/ fault' = "too_many_pkbuf"
  PROVE  NetInv'
  <1>1. threads["main"] # "init"
    BY DEF NetInv, MainInv, ThreadNames
  <1> QED
    BY <1>1 DEF NetInv, NetShape, MainInv, HoldsPacket, Net!DeviceUntilStop,
                Net!BuffersAccounted, Net!ReplyGoesBack

\* netdev_rx reads a frame into a packet.
LEMMA RecvReadInv ==
  ASSUME NetInv, Net!RecvRead
  PROVE  NetInv'
  <1>1. /\ threads["recv"] = "read" /\ UNCHANGED <<running, devs, tap, lost, wire>>
        /\ pkb = Net!NoFrame
    BY DEF Net!RecvRead, NetInv, HoldsPacket
  <1>2. CASE "veth" \notin devs \/ ~Net!pkb_safe
    BY <1>1, <1>2, RecvFaults DEF Net!RecvRead
  <1>3. CASE "veth" \in devs /\ Net!pkb_safe /\ tap = "shut" /\ threads' = [threads EXCEPT !["recv"] = "ended"] /\ UNCHANGED <<pkb, pkbs, fault>>
    BY <1>1, <1>3, RecvMoves
  <1>4. ASSUME "veth" \in devs, Net!pkb_safe, NEW f \in Net!Frames, Net!alloc_pkb(f),
               threads' = [threads EXCEPT !["recv"] = "rx"], UNCHANGED fault
        PROVE  NetInv'
    <2>1. pkb' = f /\ f \in FrameSet /\ f # Net!NoFrame /\ pkbs' = pkbs + 1 /\ pkbs + 1 <= MaxPkbs
      BY <1>4, FramesTyped, FrameThere DEF Net!alloc_pkb, Net!pkb_safe
    <2>2. /\ threads' \in [ThreadNames -> ThreadPlaces]
          /\ threads'["main"] = threads["main"] /\ threads'["recv"] = "rx"
          /\ threads'["signal"] = threads["signal"] /\ threads["main"] # "init"
      BY <1>1, <1>4 DEF NetInv, NetShape, ThreadNames, ThreadPlaces, MainInv
    <2>3. NetShape'
      BY <1>1, <2>1, <2>2 DEF NetInv, NetShape
    <2>4. MainInv' /\ HoldsPacket'
      BY <1>1, <2>1, <2>2 DEF NetInv, MainInv, HoldsPacket
    <2>5. Net!BuffersAccounted'
      BY <1>1, <2>1 DEF NetInv, NetShape, Net!BuffersAccounted
    <2>6. Net!ReplyGoesBack' /\ Net!DeviceUntilStop'
      BY <1>1, <1>4 DEF NetInv, Net!ReplyGoesBack, Net!DeviceUntilStop
    <2> QED
      BY <2>3, <2>4, <2>5, <2>6 DEF NetInv
  <1> QED
    BY <1>2, <1>3, <1>4 DEF Net!RecvRead, Net!Go

\* net_in handles the packet.
LEMMA RecvHandleInv ==
  ASSUME NetInv, Net!RecvHandle
  PROVE  NetInv'
  <1>1. /\ threads["recv"] = "rx" /\ UNCHANGED <<running, devs, tap>>
        /\ pkb \in FrameSet /\ pkb # Net!NoFrame
    BY FrameThere DEF Net!RecvHandle, NetInv, HoldsPacket
  <1>2. CASE "veth" \notin devs
    BY <1>1, <1>2, RecvFaults DEF Net!RecvHandle
  <1>3. CASE Net!Handled(Net!net_rx(pkb))
    <2>0. PICK r : r = Net!net_rx(pkb)
      OBVIOUS
    <2>a. /\ r.frees \in {0, 1}
          /\ \/ r.sent = Net!NoFrame
             \/ /\ r.sent = Net!arp_reply(Net!InHostOrder(pkb))
                /\ Net!ArpAccepts(pkb) /\ Net!InHostOrder(pkb).opcode = 1
      <3>1. PICK a : a = Net!arp_reply(Net!InHostOrder(pkb))
        OBVIOUS
      <3>2. \/ r = Net!Dropped
            \/ r = Net!Forgotten
            \/ /\ r = [frees |-> 1, sent |-> a]
               /\ Net!ArpAccepts(pkb) /\ Net!InHostOrder(pkb).opcode = 1
        <4>1. PICK h : h = Net!InHostOrder(pkb)
          OBVIOUS
        <4>2. \/ Net!arp_recv(h) = Net!Dropped
              \/ Net!arp_recv(h) = [frees |-> 1, sent |-> a] /\ h.opcode = 1
          <5>1. CASE h.adip = Net!Us /\ h.adip # "group" /\ h.opcode = 1
            <6>1. a = Net!arp_reply(h)
              BY <3>1, <4>1, Zenon
            <6>2. Net!arp_recv(h) = [frees |-> 1, sent |-> Net!arp_reply(h)]
              BY <5>1, Zenon DEF Net!arp_recv
            <6> QED
              BY <5>1, <6>1, <6>2, Zenon
          <5>2. CASE h.adip = "group" \/ h.adip # Net!Us
            BY <5>2, Zenon DEF Net!arp_recv, Net!Us
          <5>3. CASE ~(h.adip = "group" \/ h.adip # Net!Us) /\ ~(h.adip = Net!Us /\ h.opcode = 1)
            BY <5>3, Zenon DEF Net!arp_recv
          <5> QED
            BY <5>1, <5>2, <5>3, Zenon
        <4>3. \/ Net!arp_in(pkb) = Net!Dropped
              \/ /\ Net!arp_in(pkb) = [frees |-> 1, sent |-> a]
                 /\ Net!ArpAccepts(pkb) /\ h.opcode = 1
          BY <4>1, <4>2, Zenon DEF Net!arp_in
        <4>4. \/ Net!net_rx(pkb) = Net!Dropped
              \/ Net!net_rx(pkb) = Net!Forgotten
              \/ Net!net_rx(pkb) = Net!arp_in(pkb)
          BY DEF Net!net_rx
        <4> QED
          BY <2>0, <4>1, <4>3, <4>4, Zenon
      <3>3. CASE r = Net!Dropped \/ r = Net!Forgotten
        <4>1. r.frees \in {0, 1} /\ r.sent = Net!NoFrame
          <5>1. PICK n : n = Net!NoFrame
            OBVIOUS
          <5>2. r = [frees |-> 1, sent |-> n] \/ r = [frees |-> 0, sent |-> n]
            BY <3>3, <5>1, Zenon DEF Net!Dropped, Net!Forgotten
          <5> QED
            BY ONLY <5>1, <5>2
        <4> QED
          BY <4>1, Zenon
      <3>4. ASSUME r = [frees |-> 1, sent |-> a], Net!ArpAccepts(pkb), Net!InHostOrder(pkb).opcode = 1
            PROVE  /\ r.frees \in {0, 1} /\ r.sent = Net!arp_reply(Net!InHostOrder(pkb))
                   /\ Net!ArpAccepts(pkb) /\ Net!InHostOrder(pkb).opcode = 1
        <4>1. r.frees = 1 /\ r.sent = a
          BY ONLY <3>4
        <4>2. r.frees \in {0, 1}
          BY ONLY <4>1
        <4> QED
          BY <3>1, <3>4, <4>1, <4>2, Zenon
      <3> QED
        BY <3>2, <3>3, <3>4, Zenon
    <2>b. Net!InHostOrder(pkb).opcode = Net!ntohs(pkb.opcode)
      BY <1>1, SMT DEF FrameSet, Net!InHostOrder
    <2>1. /\ pkb' = Net!NoFrame /\ threads' = [threads EXCEPT !["recv"] = "check"] /\ UNCHANGED fault
          /\ \/ pkbs' = pkbs - 0 /\ lost' = lost + 1
             \/ pkbs' = pkbs - 1 /\ lost' = lost
      BY <1>3, <2>0, <2>a DEF Net!Handled, Net!Go
    <2>2. \/ wire' = Net!NoFrame
          \/ /\ wire' = [in |-> pkb, out |-> Net!arp_reply(Net!InHostOrder(pkb))]
             /\ Net!ArpAccepts(pkb) /\ Net!ntohs(pkb.opcode) = 1
      BY <1>3, <2>0, <2>a, <2>b, Zenon DEF Net!Handled, Net!veth_dev_xmit
    <2>3. /\ threads' \in [ThreadNames -> ThreadPlaces]
          /\ threads'["main"] = threads["main"] /\ threads'["recv"] = "check"
          /\ threads'["signal"] = threads["signal"] /\ threads["main"] # "init"
      BY <1>1, <2>1 DEF NetInv, NetShape, ThreadNames, ThreadPlaces, MainInv
    <2>4. Net!ReplyGoesBack'
      <3>1. CASE wire' = Net!NoFrame
        BY <3>1 DEF Net!ReplyGoesBack
      <3>2. CASE /\ wire' = [in |-> pkb, out |-> Net!arp_reply(Net!InHostOrder(pkb))]
                 /\ Net!ArpAccepts(pkb) /\ Net!ntohs(pkb.opcode) = 1
        <4>1. PICK o : o = Net!arp_reply(Net!InHostOrder(pkb))
          OBVIOUS
        <4>2. (wire').in = pkb /\ (wire').out = o
          BY <3>2, <4>1
        <4> QED
          BY <1>1, <3>2, <4>1, <4>2, Reply, Zenon DEF Net!ReplyGoesBack
      <3> QED
        BY <2>2, <3>1, <3>2
    <2>5. NetShape' /\ Net!BuffersAccounted'
      <3>1. pkbs \in Nat /\ lost \in Nat /\ pkbs = lost + 1 /\ pkbs <= MaxPkbs
        BY <1>1 DEF NetInv, NetShape, Net!BuffersAccounted
      <3>2. pkbs' \in Nat /\ lost' \in Nat /\ pkbs' = lost' + 0 /\ pkbs' <= MaxPkbs
        BY <2>1, <3>1, NetAssumption DEF NetAssumption
      <3>3. Net!BuffersAccounted'
        <4>1. pkb' = Net!NoFrame
          BY <2>1
        <4> QED
          BY <3>2, <4>1, Zenon DEF Net!BuffersAccounted
      <3>4. NetShape'
        BY <1>1, <2>1, <2>3, <3>2 DEF NetInv, NetShape
      <3> QED
        BY <3>3, <3>4
    <2>6. MainInv' /\ HoldsPacket' /\ Net!DeviceUntilStop'
      BY <1>1, <2>1, <2>3 DEF NetInv, MainInv, HoldsPacket, Net!DeviceUntilStop
    <2> QED
      BY <2>4, <2>5, <2>6 DEF NetInv
  <1> QED
    BY <1>2, <1>3 DEF Net!RecvHandle

\* The inductive step.
LEMMA NetStep == NetInv /\ [Net!NetNext]_netv => NetInv'
  <1> SUFFICES ASSUME NetInv, [Net!NetNext]_netv PROVE NetInv'
    OBVIOUS
  <1>1. CASE UNCHANGED netv
    BY <1>1 DEF netv, NetInv, NetShape, MainInv, HoldsPacket,
                Net!BuffersAccounted, Net!ReplyGoesBack, Net!DeviceUntilStop
  <1>2. CASE Net!RecvCheck \/ Net!RecvPoll
    BY <1>2, RecvMoves DEF Net!RecvCheck, Net!RecvPoll, Net!Go
  <1> QED
    BY <1>1, <1>2, RecvReadInv, RecvHandleInv, MainStepsInv DEF Net!NetNext, Net!RecvSteps

\* The stack runs alone, or not at all.
LEMMA NetRuns == [MCNext]_mcVars => [Net!NetNext]_netv
  <1> SUFFICES ASSUME [MCNext]_mcVars PROVE [Net!NetNext]_netv
    OBVIOUS
  <1>1. CASE UNCHANGED mcVars
    BY <1>1 DEF mcVars
  <1>2. CASE MCNext /\ which = "net"
    BY <1>2 DEF MCNext
  <1>3. CASE MCNext /\ which # "net"
    BY <1>3 DEF MCNext, Others
  <1> QED
    BY <1>1, <1>2, <1>3

\* For every MAX_PKBS: whatever frames arrive, each packet is freed once but
\* for RARP and IP frames, an ARP answer goes back to the host that asked in
\* network order, and the receive thread meets a freed veth only after the
\* stop signal.
THEOREM StackCorrect == MCSpec => []StackSound
  <1>1. MCInit => NetInv
    BY NetInitInv DEF MCInit
  <1>2. NetInv /\ [MCNext]_mcVars => NetInv'
    BY NetStep, NetRuns
  <1>3. NetInv => StackSound
    BY DEF NetInv, StackSound
  <1> QED
    BY <1>1, <1>2, <1>3, PTL DEF MCSpec


-----------------------------------------------------------------------------
(* The prime server's isprime: trying odd divisors up to the root is       *)
(* enough.                                                                 *)

\* A divisor and its cofactor.
LEMMA Cofactor ==
  ASSUME NEW n \in Nat, NEW d \in Nat, d > 0
  PROVE  n % d = 0 <=> \E q \in Nat : n = d * q
  <1>1. ASSUME n % d = 0 PROVE \E q \in Nat : n = d * q
    <2>1. n \div d \in Nat /\ n = d * (n \div d) + (n % d)
      OBVIOUS
    <2> QED
      BY <1>1, <2>1
  <1>2. ASSUME NEW q \in Nat, n = d * q PROVE n % d = 0
    <2>1. n \div d \in Int /\ n % d \in 0 .. d - 1 /\ n = d * (n \div d) + (n % d)
      OBVIOUS
    <2>2. PICK k \in Int : k = n \div d
      BY <2>1
    <2>3. PICK r \in 0 .. d - 1 : r = n % d
      BY <2>1
    <2>4. d * q = d * k + r
      BY <1>2, <2>1, <2>2, <2>3
    <2>5. r = d * (q - k)
      BY <2>4
    <2>6. q - k = 0
      <3>1. CASE q - k >= 1
        <4>1. d * (q - k) >= d
          BY <3>1
        <4> QED
          BY <2>5, <4>1
      <3>2. CASE q - k <= -1
        <4>1. d * (q - k) <= -d
          BY <3>2
        <4> QED
          BY <2>5, <4>1
      <3> QED
        BY <3>1, <3>2
    <2> QED
      BY <2>3, <2>5, <2>6
  <1> QED
    BY <1>1, <1>2

\* Of two factors of n one is at most its root.
LEMMA SmallFactor ==
  ASSUME NEW n \in Nat, NEW d \in Nat, NEW q \in Nat, n = d * q, d > 1, d < n
  PROVE  q > 1 /\ q < n /\ (d * d <= n \/ q * q <= n)
  <1>1. q > 1
    <2>1. q # 0 /\ q # 1
      OBVIOUS
    <2> QED
      BY <2>1
  <1>2. q < n
    <2>1. n >= 2 * q
      OBVIOUS
    <2> QED
      BY <1>1, <2>1
  <1>3. CASE d <= q
    <2>1. d * d <= d * q
      BY <1>3
    <2> QED
      BY <1>1, <1>2, <2>1
  <1>4. CASE q <= d
    <2>1. q * q <= d * q
      BY <1>4
    <2> QED
      BY <1>1, <1>2, <2>1
  <1> QED
    BY <1>3, <1>4

\* A factor of an odd number is odd.
LEMMA OddFactor ==
  ASSUME NEW n \in Nat, NEW d \in Nat, NEW q \in Nat, n = d * q, n % 2 = 1
  PROVE  d % 2 = 1
  <1>1. CASE d % 2 = 0
    <2>1. PICK k \in Nat : d = 2 * k
      BY <1>1, Cofactor
    <2>2. n = 2 * (k * q) /\ k * q \in Nat
      BY <2>1
    <2>3. n % 2 = 0
      BY <2>2, Cofactor
    <2> QED
      BY <2>3
  <1> QED
    BY <1>1

\* isprime tries enough divisors.
LEMMA IsPrimeRightNow == Prime!IsPrimeRight
  <1> SUFFICES ASSUME NEW n \in Numbers \ {0, 1}
               PROVE  Prime!isprime(n) <=> \A d \in 2..(n - 1) : n % d # 0
    BY DEF Prime!IsPrimeRight
  <1>1. n \in Nat /\ n >= 2
    BY PrimeAssumption DEF PrimeAssumption
  <1>2. CASE n % 2 = 0
    <2>1. CASE n = 2
      BY <1>2, <2>1 DEF Prime!isprime
    <2>2. CASE n # 2
      <3>1. 2 \in 2..(n - 1)
        BY <1>1, <2>2
      <3> QED
        BY <1>2, <2>2, <3>1 DEF Prime!isprime
    <2> QED
      BY <2>1, <2>2
  <1>3. CASE n % 2 # 0
    <2>0. n % 2 = 1
      BY <1>1, <1>3
    <2> DEFINE Odds == {k \in 3..n : k % 2 = 1 /\ k * k <= n}
    <2>1. Prime!isprime(n) <=> \A r \in Odds : n % r # 0
      BY <1>3 DEF Prime!isprime
    <2>2. ASSUME NEW r \in Odds PROVE r \in 2..(n - 1)
      <3>1. r \in Nat /\ r >= 3 /\ r * r <= n /\ r <= n
        BY <1>1, <2>2
      <3>2. r * r > r
        BY <3>1
      <3> QED
        BY <1>1, <3>1, <3>2
    <2>3. ASSUME NEW d \in 2..(n - 1), n % d = 0 PROVE \E r \in Odds : n % r = 0
      <3>1. d \in Nat /\ d > 1 /\ d < n
        BY <1>1, <2>3
      <3>2. PICK q \in Nat : n = d * q
        BY <1>1, <2>3, <3>1, Cofactor
      <3>3. q > 1 /\ q < n /\ (d * d <= n \/ q * q <= n)
        BY <1>1, <3>1, <3>2, SmallFactor
      <3>4. n = q * d
        BY <3>1, <3>2
      <3>5. d % 2 = 1 /\ q % 2 = 1
        BY <1>1, <2>0, <3>1, <3>2, <3>4, OddFactor
      <3>6. n % q = 0
        <4>1. (\E k \in Nat : n = q * k) /\ q > 0
          BY <3>1, <3>3, <3>4
        <4> QED
          BY <1>1, <4>1, Cofactor
      <3>7. d >= 3 /\ q >= 3
        BY <3>1, <3>3, <3>5
      <3>8. CASE d * d <= n
        <4>1. d \in Odds
          BY <1>1, <3>1, <3>5, <3>7, <3>8
        <4> QED
          BY <2>3, <4>1
      <3>9. CASE q * q <= n
        <4>1. q \in Odds
          BY <1>1, <3>3, <3>5, <3>7, <3>9
        <4> QED
          BY <3>6, <4>1
      <3> QED
        BY <3>3, <3>8, <3>9
    <2> QED
      BY <2>1, <2>2, <2>3
  <1> QED
    BY <1>2, <1>3

-----------------------------------------------------------------------------
(* The prime server.  An answer is the one to its question because the     *)
(* peer state holds the number of the request that is next to be answered  *)
(* for as long as one request at most is under way.                        *)

PrimeShape ==
    /\ asks \in Seq(Numbers) /\ unread \in Seq(Numbers)
    /\ works \in Seq({"queued", "ran"}) /\ replies \in Seq({"none", "prime", "composite"})
    /\ ps \in [live : BOOLEAN, number : Nat, sendbuf : {"none", "prime", "composite"}]
    /\ crowded \in BOOLEAN

\* The unread requests are the last ones asked; of the others each is
\* answered or has its work item, while the peer state lives.
AsksAccounted ==
    /\ Len(unread) <= Len(asks) /\ Len(replies) <= Len(asks) - Len(unread)
    /\ \A k \in 1..Len(unread) : unread[k] = asks[Len(asks) - Len(unread) + k]
    /\ ps.live => Len(asks) - Len(unread) = Len(replies) + Len(works)

\* One request under way has its number, and once it has run its answer, in
\* the peer state.
OneUnderWay ==
    ~crowded =>
        /\ Len(works) <= 1
        /\ ps.live /\ works # <<>> =>
             /\ ps.number = asks[Len(replies) + 1]
             /\ works[1] = "ran" => ps.sendbuf = Prime!Verdict(ps.number)
        /\ \A i \in 1..Len(replies) : replies[i] = Prime!Verdict(asks[i])

FreedAfterLeaving == (wild => asker = "left") /\ (~ps.live => asker = "left")

PrimeInv == PrimeShape /\ AsksAccounted /\ OneUnderWay /\ FreedAfterLeaving

\* Nothing has been asked.
LEMMA PrimeInitInv == Prime!PrimeInit => PrimeInv
  <1> SUFFICES ASSUME Prime!PrimeInit PROVE PrimeInv
    OBVIOUS
  <1>1. /\ asks = <<>> /\ unread = <<>> /\ works = <<>> /\ replies = <<>>
        /\ ps = [live |-> TRUE, number |-> 0, sendbuf |-> "none"]
        /\ crowded = FALSE /\ wild = FALSE
    BY DEF Prime!PrimeInit
  <1>2. PrimeShape
    <2>1. /\ asks \in Seq(Numbers) /\ unread \in Seq(Numbers)
          /\ works \in Seq({"queued", "ran"}) /\ replies \in Seq({"none", "prime", "composite"})
      BY <1>1
    <2>2. ps \in [live : BOOLEAN, number : Nat, sendbuf : {"none", "prime", "composite"}]
      BY <1>1
    <2>3. crowded \in BOOLEAN
      BY <1>1
    <2> QED
      BY <2>1, <2>2, <2>3 DEF PrimeShape
  <1>3. AsksAccounted
    BY <1>1 DEF AsksAccounted
  <1>4. OneUnderWay
    BY <1>1 DEF OneUnderWay
  <1>5. FreedAfterLeaving
    BY <1>1, Zenon DEF FreedAfterLeaving
  <1> QED
    BY <1>2, <1>3, <1>4, <1>5 DEF PrimeInv

\* A verdict is one of two words.
LEMMA VerdictType == \A n : Prime!Verdict(n) \in {"prime", "composite"}
  BY DEF Prime!Verdict

\* A client asks.
LEMMA AskInv ==
  ASSUME PrimeInv, NEW n \in Numbers, Prime!Ask(n)
  PROVE  PrimeInv'
  <1>0. /\ asks \in Seq(Numbers) /\ unread \in Seq(Numbers) /\ asker = "here"
        /\ replies \in Seq({"none", "prime", "composite"}) /\ works \in Seq({"queued", "ran"})
        /\ Len(asks) \in Nat /\ Len(unread) \in Nat /\ Len(replies) \in Nat /\ Len(works) \in Nat
    BY DEF PrimeInv, PrimeShape, Prime!Ask
  <1>1. /\ asks' = Append(asks, n) /\ unread' = Append(unread, n)
        /\ UNCHANGED <<mode, asker, ps, works, replies, sending, crowded, wild>>
    BY DEF Prime!Ask
  <1>2. /\ asks' \in Seq(Numbers) /\ Len(asks') = Len(asks) + 1
        /\ \A k \in 1..Len(asks) : asks'[k] = asks[k]
        /\ asks'[Len(asks) + 1] = n
    BY <1>0, <1>1, AppendProperties
  <1>3. /\ unread' \in Seq(Numbers) /\ Len(unread') = Len(unread) + 1
        /\ \A k \in 1..Len(unread) : unread'[k] = unread[k]
        /\ unread'[Len(unread) + 1] = n
    BY <1>0, <1>1, AppendProperties
  <1>4. PrimeShape'
    BY <1>1, <1>2, <1>3 DEF PrimeInv, PrimeShape
  <1>5. AsksAccounted'
    <2>1. ASSUME NEW k \in 1..Len(unread') PROVE unread'[k] = asks'[Len(asks') - Len(unread') + k]
      <3>1. Len(asks') - Len(unread') + k = Len(asks) - Len(unread) + k
        BY <1>0, <1>2, <1>3
      <3>2. CASE k = Len(unread) + 1
        <4>1. Len(asks) - Len(unread) + k = Len(asks) + 1
          BY <1>0, <3>2
        <4> QED
          BY <1>2, <1>3, <3>1, <3>2, <4>1
      <3>3. CASE k # Len(unread) + 1
        <4>1. k \in 1..Len(unread)
          BY <1>0, <1>3, <3>3
        <4>2. Len(asks) - Len(unread) + k \in 1..Len(asks)
          BY <1>0, <4>1 DEF PrimeInv, AsksAccounted
        <4> QED
          BY <1>2, <1>3, <3>1, <4>1, <4>2 DEF PrimeInv, AsksAccounted
      <3> QED
        BY <3>2, <3>3
    <2>2. /\ Len(unread) <= Len(asks) /\ Len(replies) <= Len(asks) - Len(unread)
          /\ ps.live => Len(asks) - Len(unread) = Len(replies) + Len(works)
      BY DEF PrimeInv, AsksAccounted
    <2>3. Len(replies') = Len(replies) /\ Len(works') = Len(works) /\ ps'.live = ps.live
      BY <1>1
    <2>4. Len(asks') - Len(unread') = Len(asks) - Len(unread) /\ Len(unread') <= Len(asks')
      BY <1>0, <1>2, <1>3, <2>2
    <2>5. /\ Len(replies') <= Len(asks') - Len(unread')
          /\ ps'.live => Len(asks') - Len(unread') = Len(replies') + Len(works')
      BY <2>2, <2>3, <2>4
    <2> QED
      BY <2>1, <2>4, <2>5 DEF AsksAccounted
  <1>6. OneUnderWay'
    <2>1. ps.live /\ works # <<>> => Len(replies) + 1 \in 1..Len(asks)
      <3>1. works # <<>> => Len(works) > 0
        BY <1>0
      <3> QED
        BY <1>0, <3>1 DEF PrimeInv, AsksAccounted
    <2>2. \A i \in 1..Len(replies) : i \in 1..Len(asks)
      BY <1>0 DEF PrimeInv, AsksAccounted
    <2> QED
      BY <1>1, <1>2, <2>1, <2>2 DEF PrimeInv, OneUnderWay
  <1>7. FreedAfterLeaving'
    BY <1>1 DEF PrimeInv, FreedAfterLeaving
  <1> QED
    BY <1>4, <1>5, <1>6, <1>7 DEF PrimeInv

\* on_peer_read with a number.
LEMMA ReadNumberInv ==
  ASSUME PrimeInv, Prime!ReadNumber
  PROVE  PrimeInv'
  <1>0. /\ asks \in Seq(Numbers) /\ unread \in Seq(Numbers)
        /\ replies \in Seq({"none", "prime", "composite"}) /\ works \in Seq({"queued", "ran"})
        /\ Len(asks) \in Nat /\ Len(unread) \in Nat /\ Len(replies) \in Nat /\ Len(works) \in Nat
        /\ ps \in [live : BOOLEAN, number : Nat, sendbuf : {"none", "prime", "composite"}]
        /\ unread # <<>> /\ ps.live /\ crowded \in BOOLEAN
    BY DEF PrimeInv, PrimeShape, Prime!ReadNumber
  <1> DEFINE n == Head(unread)
  <1>1. /\ unread' = Tail(unread) /\ crowded' = (crowded \/ works # <<>>)
        /\ UNCHANGED <<asker, asks, wild>>
    BY DEF Prime!ReadNumber
  <1>2. /\ unread' \in Seq(Numbers) /\ Len(unread') = Len(unread) - 1 /\ Len(unread) >= 1
        /\ \A k \in 1..Len(unread') : unread'[k] = unread[k + 1]
        /\ n = unread[1] /\ n \in Numbers /\ n \in Nat
    <2>1. /\ Head(unread) \in Numbers /\ Tail(unread) \in Seq(Numbers)
          /\ Len(Tail(unread)) = Len(unread) - 1 /\ Len(unread) >= 1
      BY <1>0
    <2>2. Head(unread) = unread[1] /\ \A k \in 1..Len(Tail(unread)) : Tail(unread)[k] = unread[k + 1]
      BY <1>0
    <2>3. Head(unread) \in Nat
      BY <2>1, PrimeAssumption DEF PrimeAssumption
    <2> QED
      BY <1>1, <2>1, <2>2, <2>3
  <1>3. n = asks[Len(asks) - Len(unread) + 1]
    BY <1>0, <1>2 DEF PrimeInv, AsksAccounted
  <1>4. Len(asks) - Len(unread) = Len(replies) + Len(works) /\ Len(unread) <= Len(asks)
    BY <1>0 DEF PrimeInv, AsksAccounted
  <1>5. \A k \in 1..Len(unread') : unread'[k] = asks'[Len(asks') - Len(unread') + k]
    <2> TAKE k \in 1..Len(unread')
    <2>1. k + 1 \in 1..Len(unread) /\ Len(asks) - Len(unread') + k = Len(asks) - Len(unread) + (k + 1)
      BY <1>0, <1>2
    <2> QED
      BY <1>1, <1>2, <2>1 DEF PrimeInv, AsksAccounted
  <1>6. works = <<>> => Len(works) = 0
    OBVIOUS
  <1>7. works # <<>> => Len(works) > 0
    BY <1>0
  <1>8. n \in Nat /\ Prime!Verdict(n) \in {"prime", "composite"}
    BY <1>2, VerdictType
  <1>9. crowded' \in BOOLEAN
    BY <1>1
  <1> HIDE DEF n
  <1>10. CASE mode = "BLOCK"
    <2>1. /\ ps' = [ps EXCEPT !.number = n, !.sendbuf = Prime!Verdict(n)]
          /\ replies' = Append(replies, Prime!Verdict(n)) /\ UNCHANGED works
      BY <1>10 DEF Prime!ReadNumber, n
    <2>2. /\ ps' \in [live : BOOLEAN, number : Nat, sendbuf : {"none", "prime", "composite"}]
          /\ ps'.live = ps.live
      BY <1>0, <1>8, <2>1
    <2>3. /\ replies' \in Seq({"none", "prime", "composite"}) /\ Len(replies') = Len(replies) + 1
          /\ \A k \in 1..Len(replies) : replies'[k] = replies[k]
          /\ replies'[Len(replies) + 1] = Prime!Verdict(n)
      BY <1>0, <1>8, <2>1, AppendProperties
    <2>4. PrimeShape'
      BY <1>0, <1>1, <1>2, <1>9, <2>1, <2>2, <2>3 DEF PrimeShape
    <2>5. AsksAccounted'
      <3>1. /\ Len(asks') - Len(unread') = Len(asks) - Len(unread) + 1
            /\ Len(replies') + Len(works') = Len(replies) + Len(works) + 1
            /\ Len(unread') <= Len(asks') /\ Len(works') >= 0
        BY <1>0, <1>1, <1>2, <1>4, <2>1, <2>3
      <3>2. Len(asks') - Len(unread') = Len(replies') + Len(works')
        BY <1>4, <3>1
      <3>3. Len(replies') \in Int /\ Len(works') \in Int
        BY <1>0, <2>1, <2>3
      <3>4. Len(replies') <= Len(replies') + Len(works')
        BY <3>1, <3>3
      <3>5. Len(replies') <= Len(asks') - Len(unread')
        BY <3>2, <3>4
      <3> QED
        BY <1>5, <3>1, <3>2, <3>5 DEF AsksAccounted
    <2>6. OneUnderWay'
      <3>1. CASE works # <<>>
        BY <1>1, <3>1 DEF OneUnderWay
      <3>2. CASE works = <<>>
        <4>1. Len(works') = 0 /\ works' = <<>> /\ n = asks[Len(replies) + 1]
          BY <1>0, <1>3, <1>4, <1>6, <2>1, <3>2
        <4>2. ASSUME ~crowded' PROVE \A i \in 1..Len(replies') : replies'[i] = Prime!Verdict(asks'[i])
          <5>1. ~crowded
            BY <1>1, <4>2
          <5>2. \A i \in 1..Len(replies) : replies[i] = Prime!Verdict(asks[i])
            BY <5>1 DEF PrimeInv, OneUnderWay
          <5>3. \A i \in 1..Len(replies') : i = Len(replies) + 1 \/ i \in 1..Len(replies)
            BY <1>0, <2>3
          <5> QED
            BY <1>1, <2>3, <4>1, <5>2, <5>3
        <4> QED
          BY <4>1, <4>2 DEF OneUnderWay
      <3> QED
        BY <3>1, <3>2
    <2>7. FreedAfterLeaving'
      BY <1>1, <2>2 DEF PrimeInv, FreedAfterLeaving
    <2> QED
      BY <2>4, <2>5, <2>6, <2>7 DEF PrimeInv
  <1>11. CASE mode # "BLOCK"
    <2>1. /\ ps' = [ps EXCEPT !.number = n]
          /\ works' = Append(works, "queued") /\ UNCHANGED replies
      BY <1>11 DEF Prime!ReadNumber, n
    <2>2. /\ ps' \in [live : BOOLEAN, number : Nat, sendbuf : {"none", "prime", "composite"}]
          /\ ps'.live = ps.live /\ ps'.number = n
      BY <1>0, <1>8, <2>1
    <2>3. /\ works' \in Seq({"queued", "ran"}) /\ Len(works') = Len(works) + 1
          /\ works'[Len(works) + 1] = "queued"
      BY <1>0, <2>1, AppendProperties
    <2>4. PrimeShape'
      BY <1>0, <1>1, <1>2, <1>9, <2>1, <2>2, <2>3 DEF PrimeShape
    <2>5. AsksAccounted'
      <3>1. /\ Len(asks') - Len(unread') = Len(asks) - Len(unread) + 1
            /\ Len(replies') + Len(works') = Len(replies) + Len(works) + 1
            /\ Len(unread') <= Len(asks') /\ Len(works') >= 0
        BY <1>0, <1>1, <1>2, <1>4, <2>1, <2>3
      <3>2. Len(asks') - Len(unread') = Len(replies') + Len(works')
        BY <1>4, <3>1
      <3>3. Len(replies') \in Int /\ Len(works') \in Int
        BY <1>0, <2>1, <2>3
      <3>4. Len(replies') <= Len(replies') + Len(works')
        BY <3>1, <3>3
      <3>5. Len(replies') <= Len(asks') - Len(unread')
        BY <3>2, <3>4
      <3> QED
        BY <1>5, <3>1, <3>2, <3>5 DEF AsksAccounted
    <2>6. OneUnderWay'
      <3>1. CASE works # <<>>
        BY <1>1, <3>1 DEF OneUnderWay
      <3>2. CASE works = <<>>
        <4>1. Len(works') = 1 /\ works'[1] = "queued" /\ n = asks[Len(replies) + 1]
          BY <1>0, <1>3, <1>4, <1>6, <2>3, <3>2
        <4>2. ASSUME ~crowded' PROVE \A i \in 1..Len(replies') : replies'[i] = Prime!Verdict(asks'[i])
          <5>1. ~crowded
            BY <1>1, <4>2
          <5> QED
            BY <1>1, <2>1, <5>1 DEF PrimeInv, OneUnderWay
        <4> QED
          BY <1>1, <2>1, <2>2, <4>1, <4>2 DEF OneUnderWay
      <3> QED
        BY <3>1, <3>2
    <2>7. FreedAfterLeaving'
      BY <1>1, <2>2 DEF PrimeInv, FreedAfterLeaving
    <2> QED
      BY <2>4, <2>5, <2>6, <2>7 DEF PrimeInv
  <1> QED
    BY <1>10, <1>11

\* on_work_submitted, in a thread of the pool.
LEMMA WorkRunsInv ==
  ASSUME PrimeInv, NEW i \in 1..Len(works), Prime!on_work_submitted(i)
  PROVE  PrimeInv'
  <1>0. /\ works \in Seq({"queued", "ran"}) /\ Len(works) \in Nat /\ works[i] = "queued"
        /\ ps \in [live : BOOLEAN, number : Nat, sendbuf : {"none", "prime", "composite"}]
    BY DEF PrimeInv, PrimeShape, Prime!on_work_submitted
  <1>1. /\ works' = [works EXCEPT ![i] = "ran"]
        /\ UNCHANGED <<mode, asker, asks, unread, replies, sending, crowded>>
    BY DEF Prime!on_work_submitted
  <1>2. works' \in Seq({"queued", "ran"}) /\ Len(works') = Len(works) /\ works # <<>>
    BY <1>0, <1>1
  <1>3. CASE ps.live
    <2>1. ps' = [ps EXCEPT !.sendbuf = Prime!Verdict(ps.number)] /\ UNCHANGED wild
      BY <1>3 DEF Prime!on_work_submitted
    <2>2. /\ ps' \in [live : BOOLEAN, number : Nat, sendbuf : {"none", "prime", "composite"}]
          /\ ps'.live = ps.live /\ ps'.number = ps.number
          /\ ps'.sendbuf = Prime!Verdict(ps'.number)
      <3>1. Prime!Verdict(ps.number) \in {"prime", "composite"}
        BY VerdictType
      <3> QED
        BY <1>0, <2>1, <3>1
    <2>3. PrimeShape'
      BY <1>1, <1>2, <2>2 DEF PrimeInv, PrimeShape
    <2>4. AsksAccounted'
      BY <1>1, <1>2, <2>2 DEF PrimeInv, AsksAccounted
    <2>5. OneUnderWay'
      BY <1>1, <1>2, <1>3, <2>2 DEF PrimeInv, OneUnderWay
    <2>6. FreedAfterLeaving'
      BY <1>1, <2>1, <2>2 DEF PrimeInv, FreedAfterLeaving
    <2> QED
      BY <2>3, <2>4, <2>5, <2>6 DEF PrimeInv
  <1>4. CASE ~ps.live
    <2>1. UNCHANGED ps
      BY <1>4 DEF Prime!on_work_submitted
    <2>2. PrimeShape'
      BY <1>1, <1>2, <2>1 DEF PrimeInv, PrimeShape
    <2>3. AsksAccounted'
      BY <1>1, <1>2, <2>1 DEF PrimeInv, AsksAccounted
    <2>4. OneUnderWay'
      BY <1>1, <1>2, <1>4, <2>1 DEF PrimeInv, OneUnderWay
    <2>5. FreedAfterLeaving'
      BY <1>1, <1>4, <2>1 DEF PrimeInv, FreedAfterLeaving
    <2> QED
      BY <2>2, <2>3, <2>4, <2>5 DEF PrimeInv
  <1> QED
    BY <1>3, <1>4

\* on_work_completed: the answer is written, if there still is a peer.
LEMMA WorkCompletesInv ==
  ASSUME PrimeInv, NEW i \in 1..Len(works), Prime!on_work_completed(i)
  PROVE  PrimeInv'
  <1>0. /\ works \in Seq({"queued", "ran"}) /\ Len(works) \in Nat /\ works[i] = "ran"
        /\ replies \in Seq({"none", "prime", "composite"}) /\ Len(replies) \in Nat
        /\ Len(asks) \in Nat /\ Len(unread) \in Nat
        /\ ps \in [live : BOOLEAN, number : Nat, sendbuf : {"none", "prime", "composite"}]
    BY DEF PrimeInv, PrimeShape, Prime!on_work_completed
  <1>1. /\ works' = SubSeq(works, 1, i - 1) \o SubSeq(works, i + 1, Len(works))
        /\ UNCHANGED <<mode, asker, asks, unread, ps, crowded>>
    BY DEF Prime!on_work_completed
  <1>2. works' \in Seq({"queued", "ran"}) /\ Len(works') = Len(works) - 1
    <2>1. /\ SubSeq(works, 1, i - 1) \in Seq({"queued", "ran"})
          /\ Len(SubSeq(works, 1, i - 1)) = i - 1
      BY <1>0
    <2>2. /\ SubSeq(works, i + 1, Len(works)) \in Seq({"queued", "ran"})
          /\ Len(SubSeq(works, i + 1, Len(works))) = Len(works) - i
      BY <1>0
    <2>3. PICK a \in Seq({"queued", "ran"}) : a = SubSeq(works, 1, i - 1) /\ Len(a) = i - 1
      BY <2>1
    <2>4. PICK b \in Seq({"queued", "ran"}) :
             b = SubSeq(works, i + 1, Len(works)) /\ Len(b) = Len(works) - i
      BY <2>2
    <2>5. a \o b \in Seq({"queued", "ran"}) /\ Len(a \o b) = Len(a) + Len(b)
      OBVIOUS
    <2>6. Len(a) + Len(b) = Len(works) - 1
      <3>1. Len(a) = i - 1 /\ Len(b) = Len(works) - i /\ i \in Int /\ Len(works) \in Int
        BY <1>0, <2>3, <2>4
      <3> QED
        BY ONLY <3>1
    <2>7. works' = a \o b
      BY <1>1, <2>3, <2>4
    <2> QED
      BY <2>5, <2>6, <2>7
  <1>3. ~crowded => Len(works) = 1 /\ Len(works') = 0 /\ works' = <<>> /\ i = 1 /\ works # <<>>
    BY <1>0, <1>2 DEF PrimeInv, OneUnderWay
  <1>4. CASE ps.live
    <2>1. replies' = Append(replies, ps.sendbuf) /\ UNCHANGED wild
      BY <1>4 DEF Prime!on_work_completed
    <2>2. /\ replies' \in Seq({"none", "prime", "composite"}) /\ Len(replies') = Len(replies) + 1
          /\ \A k \in 1..Len(replies) : replies'[k] = replies[k]
          /\ replies'[Len(replies) + 1] = ps.sendbuf
      BY <1>0, <2>1, AppendProperties
    <2>3. PrimeShape'
      BY <1>1, <1>2, <2>2 DEF PrimeInv, PrimeShape
    <2>4. AsksAccounted'
      <3>1. Len(asks) - Len(unread) = Len(replies) + Len(works) /\ Len(unread) <= Len(asks)
        BY <1>4 DEF PrimeInv, AsksAccounted
      <3>2. Len(replies') + Len(works') = Len(replies) + Len(works)
        BY <1>0, <1>2, <2>2
      <3>3. Len(replies') <= Len(replies) + Len(works)
        BY <1>0, <2>2
      <3>4. Len(replies') <= Len(asks) - Len(unread)
        BY <3>1, <3>3
      <3> QED
        BY <1>1, <3>1, <3>2, <3>4 DEF PrimeInv, AsksAccounted
    <2>5. OneUnderWay'
      <3>1. ASSUME ~crowded PROVE \A k \in 1..Len(replies') : replies'[k] = Prime!Verdict(asks[k])
        <4>1. /\ ps.sendbuf = Prime!Verdict(asks[Len(replies) + 1])
              /\ \A k \in 1..Len(replies) : replies[k] = Prime!Verdict(asks[k])
          BY <1>0, <1>3, <1>4, <3>1 DEF PrimeInv, OneUnderWay
        <4>2. \A k \in 1..Len(replies') : k = Len(replies) + 1 \/ k \in 1..Len(replies)
          BY <1>0, <2>2
        <4> QED
          BY <2>2, <4>1, <4>2
      <3>2. ASSUME ~crowded'
            PROVE  Len(works') <= 1 /\ works' = <<>> /\ asks' = asks
                   /\ \A k \in 1..Len(replies') : replies'[k] = Prime!Verdict(asks[k])
        <4>1. ~crowded /\ asks' = asks
          BY <1>1, <3>2
        <4> QED
          BY <1>3, <3>1, <4>1
      <3>3. ASSUME ~crowded' PROVE \A k \in 1..Len(replies') : replies'[k] = Prime!Verdict(asks'[k])
        BY <3>2, <3>3
      <3> QED
        BY <3>2, <3>3 DEF OneUnderWay
    <2>6. FreedAfterLeaving'
      BY <1>1, <2>1 DEF PrimeInv, FreedAfterLeaving
    <2> QED
      BY <2>3, <2>4, <2>5, <2>6 DEF PrimeInv
  <1>5. CASE ~ps.live
    <2>1. UNCHANGED replies
      BY <1>5 DEF Prime!on_work_completed
    <2>2. PrimeShape'
      BY <1>1, <1>2, <2>1 DEF PrimeInv, PrimeShape
    <2>3. AsksAccounted'
      BY <1>1, <1>5, <2>1 DEF PrimeInv, AsksAccounted
    <2>4. OneUnderWay'
      BY <1>1, <1>3, <2>1 DEF PrimeInv, OneUnderWay
    <2>5. FreedAfterLeaving'
      BY <1>1, <1>5 DEF PrimeInv, FreedAfterLeaving
    <2> QED
      BY <2>2, <2>3, <2>4, <2>5 DEF PrimeInv
  <1> QED
    BY <1>4, <1>5

\* The inductive step.
LEMMA PrimeStep == PrimeInv /\ [Prime!PrimeNext]_primev => PrimeInv'
  <1> SUFFICES ASSUME PrimeInv, [Prime!PrimeNext]_primev PROVE PrimeInv'
    OBVIOUS
  <1>1. CASE UNCHANGED <<asker, asks, unread, ps, works, replies, crowded, wild>>
    BY <1>1 DEF PrimeInv, PrimeShape, AsksAccounted, OneUnderWay, FreedAfterLeaving
  <1>2. CASE Prime!Leave
    BY <1>2 DEF Prime!Leave, PrimeInv, PrimeShape, AsksAccounted, OneUnderWay, FreedAfterLeaving
  <1>3. CASE Prime!ClientClosed
    <2>0. ps \in [live : BOOLEAN, number : Nat, sendbuf : {"none", "prime", "composite"}]
      BY DEF PrimeInv, PrimeShape
    <2>1. /\ asker = "left" /\ ps' = [ps EXCEPT !.live = FALSE]
          /\ UNCHANGED <<mode, asker, asks, unread, works, replies, sending, crowded, wild>>
      BY <1>3 DEF Prime!ClientClosed
    <2>2. ps' \in [live : BOOLEAN, number : Nat, sendbuf : {"none", "prime", "composite"}] /\ ~ps'.live
      BY <2>0, <2>1
    <2>3. PrimeShape'
      BY <2>1, <2>2 DEF PrimeInv, PrimeShape
    <2>4. AsksAccounted'
      BY <2>1, <2>2 DEF PrimeInv, AsksAccounted
    <2>5. OneUnderWay'
      BY <2>1, <2>2 DEF PrimeInv, OneUnderWay
    <2>6. FreedAfterLeaving'
      BY <2>1 DEF FreedAfterLeaving
    <2> QED
      BY <2>3, <2>4, <2>5, <2>6 DEF PrimeInv
  <1>4. CASE Prime!on_sent_response \/ Prime!on_sent_responseFails \/ UNCHANGED primev
    BY <1>1, <1>4 DEF Prime!on_sent_response, Prime!on_sent_responseFails, primev
  <1> QED
    BY <1>2, <1>3, <1>4, AskInv, ReadNumberInv, WorkRunsInv, WorkCompletesInv
    DEF Prime!PrimeNext, Prime!PrimeSteps

\* The prime server runs alone, or not at all.
LEMMA PrimeRuns == [MCNext]_mcVars => [Prime!PrimeNext]_primev
  <1> SUFFICES ASSUME [MCNext]_mcVars PROVE [Prime!PrimeNext]_primev
    OBVIOUS
  <1>1. CASE UNCHANGED mcVars
    BY <1>1 DEF mcVars
  <1>2. CASE MCNext /\ which = "prime"
    BY <1>2 DEF MCNext
  <1>3. CASE MCNext /\ which # "prime"
    BY <1>3 DEF MCNext, Others
  <1> QED
    BY <1>1, <1>2, <1>3

\* For all numbers and any number of requests: isprime is right about every
\* number above one, a client that waits for its answer gets the one to its
\* own question although the loop and the pool thread share peer_state_t,
\* and that is used after its release only when the client has left.
THEOREM PrimeCorrect == MCSpec => []PrimeSound
  <1>1. MCInit => PrimeInv
    BY PrimeInitInv DEF MCInit
  <1>2. PrimeInv /\ [MCNext]_mcVars => PrimeInv'
    BY PrimeStep, PrimeRuns
  <1>3. PrimeInv => PrimeSound
    BY IsPrimeRightNow DEF PrimeInv, OneUnderWay, FreedAfterLeaving, PrimeSound,
                           Prime!AnswersMatch, Prime!WildOnlyAfterLeaving
  <1> QED
    BY <1>1, <1>2, <1>3, PTL DEF MCSpec


\* A set of numbers that is not empty has a least one.
LEMMA LeastNat ==
  ASSUME NEW T, T \subseteq Nat, T # {}
  PROVE  \E x \in T : \A y \in T : x <= y
  <1>1. PICK x \in T : \A y \in T : ~ (<<y, x>> \in OpToRel(<, Nat))
    BY NatLessThanWellFounded, WFMin
  <1>2. \A y \in T : ~ (y < x)
    BY <1>1 DEF OpToRel
  <1> QED
    BY <1>2

-----------------------------------------------------------------------------
(* The chat server.  A message reaches every other client because master   *)
(* and fdmax cover the open connections, and is never read from a closed   *)
(* or reused descriptor because the bits of read_fds that the scan has not *)
(* come to belong to connections that only the scan itself closes.         *)

Words == [from : Users, msg : Nat]

ChatShape ==
    /\ ready \subseteq Chat!Fds /\ scan \in Chat!Fds \cup {-1} /\ fdmax \in Chat!Fds
    /\ owner \in [Chat!Fds -> Users \cup {Chat!NoUser}] /\ owner[Listener] = Chat!NoUser
    /\ backlog \in Seq(Users) /\ user \in [Users -> {"off", "on", "left", "reset"}]
    /\ said \in [Users -> Nat] /\ talk \in [Users -> Seq(Nat)]
    /\ log \in Seq(Words) /\ ears \in [Users -> Seq(Words)]
    /\ since \in [Users -> Nat] /\ \A u \in Users : since[u] <= Len(log)

\* A client that has not connected, and a client in the listen queue, which
\* is there once, has no descriptor and has heard nothing.
Fresh(u) == ears[u] = <<>> /\ \A f \in Chat!Fds : owner[f] # u

Waiting ==
    /\ \A u \in Users : user[u] = "off" => Fresh(u) /\ \A i \in 1..Len(backlog) : backlog[i] # u
    /\ \A i \in 1..Len(backlog) : Fresh(backlog[i])
    /\ \A i, j \in 1..Len(backlog) : backlog[i] = backlog[j] => i = j

\* A client is at the other end of one descriptor only.
OneEnd == \A f, g \in Chat!Fds : owner[f] = owner[g] /\ owner[f] # Chat!NoUser => f = g

\* What select reported is still so when the scan comes to it.
ScanFresh ==
    scan # -1 =>
        /\ scan \in ready
        /\ \A f \in ready : f >= scan =>
              IF f = Listener THEN backlog # <<>> ELSE owner[f] # Chat!NoUser

ChatInv == /\ ChatShape /\ Waiting /\ OneEnd /\ ScanFresh
           /\ Chat!MasterIsOpen /\ Chat!HearsTheOthers

\* Nobody is connected.
LEMMA ChatInitInv == Chat!ChatInit => ChatInv
  <1> SUFFICES ASSUME Chat!ChatInit PROVE ChatInv
    OBVIOUS
  <1>0. Listener \in Chat!Fds /\ -1 \notin Chat!Fds
    BY ChatAssumption DEF ChatAssumption, Chat!Fds
  <1>1. /\ master = {Listener} /\ fdmax = Listener /\ ready = {} /\ scan = -1
        /\ owner = [f \in Chat!Fds |-> Chat!NoUser] /\ backlog = <<>>
        /\ user = [u \in Users |-> "off"] /\ talk = [u \in Users |-> <<>>]
        /\ said = [u \in Users |-> 0]
        /\ log = <<>> /\ since = [u \in Users |-> 0] /\ ears = [u \in Users |-> <<>>]
    BY DEF Chat!ChatInit
  <1>2. ChatShape
    BY <1>0, <1>1 DEF ChatShape
  <1>3. \A f \in Chat!Fds : owner[f] = Chat!NoUser
    BY <1>1
  <1>4. Chat!NoUser \notin Users
    BY ChatAssumption DEF ChatAssumption, Chat!NoUser
  <1>5. Waiting
    BY <1>1, <1>3, <1>4 DEF Waiting, Fresh
  <1>6. OneEnd /\ ScanFresh
    BY <1>1, <1>3 DEF OneEnd, ScanFresh
  <1>7. Chat!MasterIsOpen
    BY <1>1, <1>3, ChatAssumption DEF Chat!MasterIsOpen, ChatAssumption
  <1>8. Chat!HearsTheOthers
    BY <1>3, <1>4 DEF Chat!HearsTheOthers
  <1> QED
    BY <1>2, <1>5, <1>6, <1>7, <1>8 DEF ChatInv

\* Descriptors are numbers.
LEMMA FdsNat == Chat!Fds \subseteq Nat /\ Listener \in Chat!Fds /\ \A f \in Chat!Fds : f >= Listener
  BY ChatAssumption DEF ChatAssumption, Chat!Fds

\* The next descriptor of the scan is a member of the set beyond i.
LEMMA NextSetFacts ==
  ASSUME NEW i \in Int, NEW S, S \subseteq Chat!Fds
  PROVE  \/ Chat!NextSet(i, S) = -1
         \/ Chat!NextSet(i, S) \in S /\ Chat!NextSet(i, S) > i
  <1> DEFINE s == {f \in S : f > i}
  <1>1. s \subseteq Nat
    BY FdsNat
  <1>2. CASE s = {}
    BY <1>2 DEF Chat!NextSet
  <1>3. CASE s # {}
    <2>1. \E f \in s : \A g \in s : f <= g
      <3> HIDE DEF s
      <3> QED
        BY <1>1, <1>3, LeastNat
    <2>2. (CHOOSE f \in s : \A g \in s : f <= g) \in s
      <3> HIDE DEF s
      <3> QED
        BY <2>1
    <2>3. Chat!NextSet(i, S) = CHOOSE f \in s : \A g \in s : f <= g
      BY <1>3 DEF Chat!NextSet
    <2> QED
      BY <2>2, <2>3
  <1> QED
    BY <1>2, <1>3

\* What the clients have heard, before a step.
LEMMA HeardNow ==
  Chat!HearsTheOthers <=>
    \A x \in Users : \A g \in Chat!Fds :
        owner[g] = x => Chat!Heard(ears[x], Chat!OthersSaid(since[x], log, x), log)
  BY DEF Chat!HearsTheOthers

\* What they have heard after it.
LEMMA HeardThen ==
  Chat!HearsTheOthers' <=>
    \A x \in Users : \A g \in Chat!Fds :
        owner'[g] = x => Chat!Heard(ears'[x], Chat!OthersSaid(since'[x], log', x), log')
  BY DEF Chat!HearsTheOthers

\* Cardinality, as ChatServer has it, is the library's.
LEMMA CardSame == \A S : Chat!Cardinality(S) = Cardinality(S)
  BY DEF Cardinality, Chat!Cardinality

\* Who is owed nothing and heard nothing has heard it.
LEMMA HeardNothing ==
  ASSUME NEW e, e = <<>>, NEW p, p = {}, NEW l
  PROVE  Chat!Heard(e, p, l)
  <1>1. Len(e) = 0
    OBVIOUS
  <1>2. Chat!Cardinality(p) = 0
    BY FS_EmptySet, CardSame
  <1> QED
    BY <1>1, <1>2 DEF Chat!Heard

\* A step that leaves what the clients hear and the descriptors alone.
LEMMA HeardKept ==
  ASSUME Chat!HearsTheOthers, UNCHANGED <<ears, log, since, owner>>
  PROVE  Chat!HearsTheOthers'
  BY DEF Chat!HearsTheOthers

\* A client connects, speaks or goes.
LEMMA UserInv ==
  ASSUME ChatInv, NEW u \in Users, Chat!Dial(u) \/ Chat!Say(u) \/ Chat!HangUp(u)
  PROVE  ChatInv'
  <1>0. /\ user \in [Users -> {"off", "on", "left", "reset"}] /\ backlog \in Seq(Users)
        /\ said \in [Users -> Nat] /\ talk \in [Users -> Seq(Nat)] /\ Len(backlog) \in Nat
    BY DEF ChatInv, ChatShape
  <1>1. UNCHANGED <<master, fdmax, ready, scan, owner, log, since, ears, down>>
    BY DEF Chat!Dial, Chat!Say, Chat!HangUp
  <1>2. Chat!HearsTheOthers' /\ Chat!MasterIsOpen' /\ OneEnd'
    <2>1. Chat!HearsTheOthers'
      BY <1>1, HeardKept DEF ChatInv
    <2> QED
      BY <1>1, <2>1 DEF ChatInv, Chat!MasterIsOpen, OneEnd
  <1>3. CASE Chat!Dial(u)
    <2>1. /\ user[u] = "off" /\ user' = [user EXCEPT ![u] = "on"] /\ backlog' = Append(backlog, u)
          /\ UNCHANGED <<talk, said>>
      BY <1>3 DEF Chat!Dial
    <2>2. /\ backlog' \in Seq(Users) /\ Len(backlog') = Len(backlog) + 1
          /\ \A k \in 1..Len(backlog) : backlog'[k] = backlog[k]
          /\ backlog'[Len(backlog) + 1] = u /\ backlog' # <<>>
      <3>1. /\ Append(backlog, u) \in Seq(Users) /\ Append(backlog, u) # <<>>
            /\ Len(Append(backlog, u)) = Len(backlog) + 1
            /\ Append(backlog, u)[Len(backlog) + 1] = u
        BY <1>0, AppendProperties
      <3>2. \A k \in 1..Len(backlog) : Append(backlog, u)[k] = backlog[k]
        BY <1>0, AppendProperties
      <3> QED
        BY <2>1, <3>1, <3>2
    <2>3. /\ user' \in [Users -> {"off", "on", "left", "reset"}]
          /\ \A x \in Users : user'[x] = "off" => user[x] = "off" /\ x # u
      BY <1>0, <2>1
    <2>4. ChatShape'
      BY <1>1, <2>1, <2>2, <2>3 DEF ChatInv, ChatShape
    <2>5. \A x : Fresh(x) => Fresh(x)'
      BY <1>1 DEF Fresh
    <2>6. \A k \in 1..Len(backlog') : k = Len(backlog) + 1 \/ k \in 1..Len(backlog)
      BY <1>0, <2>2
    <2>7. Fresh(u) /\ \A k \in 1..Len(backlog) : backlog[k] # u
      BY <2>1 DEF ChatInv, Waiting
    <2>8. Waiting'
      <3>1. \A x \in Users : user'[x] = "off" =>
               Fresh(x)' /\ \A k \in 1..Len(backlog') : backlog'[k] # x
        BY <2>2, <2>3, <2>5, <2>6 DEF ChatInv, Waiting
      <3>2. \A k \in 1..Len(backlog') : (backlog'[k] = u /\ k = Len(backlog) + 1) \/ (k \in 1..Len(backlog) /\ backlog'[k] = backlog[k])
        BY <2>2, <2>6
      <3>3. \A k \in 1..Len(backlog') :
               ears'[backlog'[k]] = <<>> /\ \A f \in Chat!Fds : owner'[f] # backlog'[k]
        <4> TAKE k \in 1..Len(backlog')
        <4>1. PICK x : x = backlog'[k]
          OBVIOUS
        <4>2. Fresh(x)
          BY <2>7, <3>2, <4>1 DEF ChatInv, Waiting
        <4> QED
          BY <1>1, <4>1, <4>2 DEF Fresh
      <3>4. ASSUME NEW k \in 1..Len(backlog'), NEW j \in 1..Len(backlog'), backlog'[k] = backlog'[j]
            PROVE  k = j
        <4>1. (k = Len(backlog) + 1) = (j = Len(backlog) + 1)
          BY <2>7, <3>2, <3>4
        <4> QED
          BY <3>2, <3>4, <4>1 DEF ChatInv, Waiting
      <3> QED
        BY <3>1, <3>3, <3>4 DEF Waiting, Fresh
    <2>9. ScanFresh'
      BY <1>1, <2>2 DEF ChatInv, ScanFresh
    <2> QED
      BY <1>2, <2>4, <2>8, <2>9 DEF ChatInv
  <1>4. CASE Chat!Say(u) \/ Chat!HangUp(u)
    <2>1. UNCHANGED backlog
      BY <1>4 DEF Chat!Say, Chat!HangUp
    <2>2. said' \in [Users -> Nat] /\ talk' \in [Users -> Seq(Nat)]
      <3>1. CASE Chat!Say(u)
        <4>1. /\ said' = [said EXCEPT ![u] = said[u] + 1]
              /\ talk' = [talk EXCEPT ![u] = Append(talk[u], said[u] + 1)]
          BY <3>1 DEF Chat!Say
        <4>2. said[u] + 1 \in Nat /\ Append(talk[u], said[u] + 1) \in Seq(Nat)
          BY <1>0
        <4> QED
          BY <1>0, <4>1, <4>2
      <3>2. CASE Chat!HangUp(u)
        BY <1>0, <3>2 DEF Chat!HangUp
      <3> QED
        BY <1>4, <3>1, <3>2
    <2>3. /\ user' \in [Users -> {"off", "on", "left", "reset"}]
          /\ \A x \in Users : user'[x] = "off" => user[x] = "off"
      BY <1>0, <1>4 DEF Chat!Say, Chat!HangUp
    <2>4. ChatShape'
      BY <1>1, <2>1, <2>2, <2>3 DEF ChatInv, ChatShape
    <2>5. Waiting'
      BY <1>1, <2>1, <2>3 DEF ChatInv, Waiting, Fresh
    <2>6. ScanFresh'
      BY <1>1, <2>1 DEF ChatInv, ScanFresh
    <2> QED
      BY <1>2, <2>4, <2>5, <2>6 DEF ChatInv
  <1> QED
    BY <1>3, <1>4

\* select returns.
LEMMA SelectsInv ==
  ASSUME ChatInv, Chat!select
  PROVE  ChatInv'
  <1>1. /\ ready' = {f \in master : f <= fdmax /\ Chat!Readable(f)}
        /\ scan' = Chat!NextSet(-1, ready')
        /\ UNCHANGED <<master, fdmax, owner, backlog, log, since, ears, user, talk, said>>
    BY DEF Chat!select, Chat!chatWorld
  <1>2. ready' \subseteq Chat!Fds
    BY <1>1, ChatAssumption DEF ChatInv, Chat!MasterIsOpen, Chat!Fds, ChatAssumption
  <1>3. scan' = -1 \/ scan' \in ready'
    BY <1>1, <1>2, NextSetFacts
  <1>4. ChatShape'
    BY <1>1, <1>2, <1>3 DEF ChatInv, ChatShape
  <1>5. ScanFresh'
    BY <1>1, <1>3 DEF ScanFresh, Chat!Readable
  <1>6. Waiting' /\ OneEnd'
    BY <1>1 DEF ChatInv, Waiting, Fresh, OneEnd
  <1>7. Chat!MasterIsOpen'
    BY <1>1 DEF ChatInv, Chat!MasterIsOpen
  <1>8. Chat!HearsTheOthers'
    BY <1>1, HeardKept DEF ChatInv
  <1> QED
    BY <1>4, <1>5, <1>6, <1>7, <1>8 DEF ChatInv

\* The bits of read_fds that the scan has not come to are of connections.
LEMMA BitsAhead ==
  ASSUME ChatInv, scan \in Chat!Fds
  PROVE  \A g \in ready : g > scan => g # Listener /\ owner[g] # Chat!NoUser
  <1>1. /\ scan \in Nat /\ scan # -1 /\ ready \subseteq Nat /\ Listener \in Nat
        /\ scan >= Listener
    BY FdsNat DEF ChatInv, ChatShape
  <1>2. \A g \in ready : g > scan => g >= scan /\ g # Listener
    BY <1>1
  <1> QED
    BY <1>1, <1>2 DEF ChatInv, ScanFresh

\* The scan goes on: a step that closes none of those keeps them so.
LEMMA NextFresh ==
  ASSUME ChatInv, scan \in Chat!Fds, scan' = Chat!NextSet(scan, ready), ready' = ready,
         \A g \in ready : g > scan => owner'[g] # Chat!NoUser
  PROVE  ScanFresh' /\ scan' \in Chat!Fds \cup {-1}
  <1>1. /\ scan \in Nat /\ ready \subseteq Chat!Fds /\ Listener \in Nat
        /\ scan >= Listener /\ Chat!Fds \subseteq Nat
    BY FdsNat DEF ChatInv, ChatShape
  <1>2. PICK n : n = Chat!NextSet(scan, ready)
    OBVIOUS
  <1>3. scan \in Int
    BY <1>1
  <1>4. n = -1 \/ (n \in ready /\ n > scan)
    BY ONLY <1>1, <1>2, <1>3, NextSetFacts
  <1>5. CASE n = -1
    BY <1>2, <1>5 DEF ScanFresh
  <1>6. CASE n \in ready /\ n > scan
    <2>1. \A g \in ready : g >= n => g > scan /\ g # Listener
      BY <1>1, <1>6
    <2>2. scan' = n
      BY <1>2
    <2> QED
      BY <1>1, <1>6, <2>1, <2>2 DEF ScanFresh
  <1> QED
    BY <1>4, <1>5, <1>6

\* accept, in the scan.
LEMMA AcceptsInv ==
  ASSUME ChatInv, Chat!Accept
  PROVE  ChatInv'
  <1> DEFINE free == {f \in Chat!Fds : f # Listener /\ owner[f] = Chat!NoUser}
             f == CHOOSE f \in free : \A g \in free : f <= g
             u == Head(backlog)
  <1>0. /\ scan = Listener /\ Listener \in Nat /\ Listener \in Chat!Fds /\ Chat!Fds \subseteq Nat
        /\ ready \subseteq Chat!Fds /\ backlog \in Seq(Users) /\ Len(backlog) \in Nat
        /\ owner \in [Chat!Fds -> Users \cup {Chat!NoUser}] /\ Chat!NoUser \notin Users
        /\ since \in [Users -> Nat] /\ Len(log) \in Nat
    BY FdsNat, ChatAssumption DEF Chat!Accept, ChatInv, ChatShape, ChatAssumption, Chat!NoUser
  <1>1. /\ scan' = Chat!NextSet(scan, ready)
        /\ UNCHANGED <<ready, log, ears, user, talk, said>>
    BY DEF Chat!Accept, Chat!chatWorld
  <1>3. backlog # <<>>
    BY <1>0 DEF ChatInv, ScanFresh
  <1>4. \A g \in ready : g > scan => g # Listener /\ owner[g] # Chat!NoUser
    BY <1>0, BitsAhead
  <1>5. CASE free = {}
    <2>1. UNCHANGED <<master, fdmax, owner, backlog, since>>
      BY <1>5 DEF Chat!Accept
    <2>3. ScanFresh' /\ scan' \in Chat!Fds \cup {-1}
      BY <1>0, <1>1, <1>4, <2>1, NextFresh
    <2>2. ChatShape'
      BY <1>1, <2>1, <2>3 DEF ChatInv, ChatShape
    <2>4. Waiting' /\ OneEnd'
      BY <1>1, <2>1 DEF ChatInv, Waiting, Fresh, OneEnd
    <2>5. Chat!MasterIsOpen'
      BY <2>1 DEF ChatInv, Chat!MasterIsOpen
    <2>6. Chat!HearsTheOthers'
      BY <1>1, <2>1, HeardKept DEF ChatInv
    <2> QED
      BY <2>2, <2>3, <2>4, <2>5, <2>6 DEF ChatInv
  <1>6. CASE free # {}
    <2>1. /\ master' = master \cup {f} /\ owner' = [owner EXCEPT ![f] = u]
          /\ backlog' = Tail(backlog) /\ since' = [since EXCEPT ![u] = Len(log)]
          /\ fdmax' = IF f > fdmax THEN f ELSE fdmax
      BY <1>6 DEF Chat!Accept
    <2>2. f \in free
      <3>1. free \subseteq Nat
        BY <1>0
      <3> HIDE DEF free
      <3>2. \E x \in free : \A g \in free : x <= g
        BY <1>6, <3>1, LeastNat
      <3> QED
        BY <3>2
    <2>3. f \in Chat!Fds /\ f # Listener /\ owner[f] = Chat!NoUser
      BY <2>2
    <2>4. /\ u \in Users /\ u = backlog[1] /\ Len(backlog) >= 1
          /\ backlog' \in Seq(Users) /\ Len(backlog') = Len(backlog) - 1
          /\ \A k \in 1..Len(backlog') : backlog'[k] = backlog[k + 1]
      <3>1. Head(backlog) \in Users /\ Tail(backlog) \in Seq(Users) /\ Len(backlog) >= 1
            /\ Len(Tail(backlog)) = Len(backlog) - 1 /\ Head(backlog) = backlog[1]
        BY <1>0, <1>3
      <3>2. \A k \in 1..Len(Tail(backlog)) : Tail(backlog)[k] = backlog[k + 1]
        BY <1>0, <1>3
      <3> QED
        BY <2>1, <3>1, <3>2
    <2> HIDE DEF f, u, free
    <2>5. /\ owner'[f] = u /\ \A g \in Chat!Fds : g # f => owner'[g] = owner[g]
          /\ owner' \in [Chat!Fds -> Users \cup {Chat!NoUser}] /\ owner'[Listener] = Chat!NoUser
      BY <1>0, <2>1, <2>3, <2>4 DEF ChatInv, ChatShape
    <2>6. /\ since' \in [Users -> Nat] /\ since'[u] = Len(log)
          /\ \A x \in Users : x # u => since'[x] = since[x]
      BY <1>0, <2>1, <2>4
    <2>7. fdmax' \in Chat!Fds /\ fdmax' >= f /\ fdmax' >= fdmax
      BY <1>0, <2>1, <2>3 DEF ChatInv, ChatShape
    <2>10. ScanFresh' /\ scan' \in Chat!Fds \cup {-1}
      <3>1. \A g \in ready : g > scan => owner'[g] # Chat!NoUser
        BY <1>0, <1>4, <2>3, <2>5
      <3> QED
        BY <1>0, <1>1, <3>1, NextFresh
    <2>8. ChatShape'
      <3>0. \A x \in Users : since[x] <= Len(log)
        BY DEF ChatInv, ChatShape
      <3>1. ASSUME NEW x \in Users PROVE since'[x] <= Len(log')
        <4>1. CASE x = u
          BY <1>0, <1>1, <2>6, <4>1
        <4>2. CASE x # u
          BY <1>1, <2>6, <3>0, <4>2
        <4> QED
          BY <4>1, <4>2
      <3> QED
        BY <1>1, <2>10, <2>4, <2>5, <2>6, <2>7, <3>1 DEF ChatInv, ChatShape
    <2>9. Fresh(u) /\ \A g \in Chat!Fds : owner[g] # u
      BY <2>4 DEF ChatInv, Waiting, Fresh
    <2>11. OneEnd'
      BY <1>0, <2>4, <2>5, <2>9 DEF ChatInv, OneEnd
    <2>12. Waiting'
      <3>1. ASSUME NEW x \in Users, x # u, Fresh(x) PROVE ears'[x] = <<>> /\ \A g \in Chat!Fds : owner'[g] # x
        BY <1>1, <2>3, <2>5, <3>1 DEF Fresh
      <3>2. ASSUME NEW k \in 1..Len(backlog') PROVE k + 1 \in 1..Len(backlog) /\ backlog'[k] # u
        <4>1. k + 1 \in 1..Len(backlog) /\ k + 1 # 1 /\ 1 \in 1..Len(backlog)
          BY <1>0, <2>4
        <4> QED
          BY <2>4, <4>1 DEF ChatInv, Waiting
      <3>3. \A k \in 1..Len(backlog') :
               ears'[backlog'[k]] = <<>> /\ \A g \in Chat!Fds : owner'[g] # backlog'[k]
        <4> TAKE k \in 1..Len(backlog')
        <4>1. PICK x : x = backlog'[k]
          OBVIOUS
        <4>2. x \in Users /\ x # u /\ x = backlog[k + 1] /\ k + 1 \in 1..Len(backlog)
          BY <1>0, <2>4, <3>2, <4>1
        <4>3. Fresh(x)
          BY <4>2 DEF ChatInv, Waiting
        <4> QED
          BY <3>1, <4>1, <4>2, <4>3
      <3>4. ASSUME NEW k \in 1..Len(backlog'), NEW j \in 1..Len(backlog'), backlog'[k] = backlog'[j]
            PROVE  k = j
        <4>1. backlog[k + 1] = backlog[j + 1] /\ k + 1 \in 1..Len(backlog) /\ j + 1 \in 1..Len(backlog)
          BY <2>4, <3>2, <3>4
        <4>2. k + 1 = j + 1
          BY <4>1 DEF ChatInv, Waiting
        <4> QED
          BY <4>2
      <3>5. ASSUME NEW x \in Users, user'[x] = "off"
            PROVE  /\ ears'[x] = <<>> /\ \A g \in Chat!Fds : owner'[g] # x
                   /\ \A k \in 1..Len(backlog') : backlog'[k] # x
        <4>1. Fresh(x) /\ \A k \in 1..Len(backlog) : backlog[k] # x
          BY <1>1, <3>5 DEF ChatInv, Waiting
        <4>2. x # u
          BY <1>0, <2>4, <4>1
        <4> QED
          BY <2>4, <3>1, <3>2, <4>1, <4>2
      <3> QED
        BY <3>3, <3>4, <3>5 DEF Waiting, Fresh
    <2>13. Chat!MasterIsOpen'
      <3>1. master = {Listener} \cup {g \in Chat!Fds : owner[g] # Chat!NoUser} /\ \A g \in master : g <= fdmax
        BY DEF ChatInv, Chat!MasterIsOpen
      <3>2. master' = {Listener} \cup {g \in Chat!Fds : owner'[g] # Chat!NoUser}
        BY <1>0, <2>1, <2>3, <2>4, <2>5, <3>1
      <3>3. fdmax \in Nat /\ f \in Nat /\ master \subseteq Nat /\ fdmax' \in Nat
        BY <1>0, <2>3, <2>7, <3>1 DEF ChatInv, ChatShape
      <3>4. \A g \in master' : g <= fdmax'
        BY <2>1, <2>7, <3>1, <3>3
      <3> QED
        BY <3>2, <3>4 DEF Chat!MasterIsOpen
    <2>14. Chat!HearsTheOthers'
      <3> SUFFICES ASSUME NEW x \in Users, NEW g \in Chat!Fds, owner'[g] = x
                   PROVE  Chat!Heard(ears'[x], Chat!OthersSaid(since'[x], log', x), log')
        BY HeardThen
      <3>1. CASE x = u
        <4>1. Chat!OthersSaid(since'[x], log', x) = {}
          <5>1. (Len(log) + 1)..Len(log) = {}
            BY <1>0
          <5> QED
            BY <1>1, <2>6, <3>1, <5>1 DEF Chat!OthersSaid
        <4>2. ears'[x] = <<>>
          BY <1>1, <2>9, <3>1 DEF Fresh
        <4> QED
          BY <4>1, <4>2, HeardNothing
      <3>2. CASE x # u
        <4>1. owner[g] = x
          BY <2>5, <3>2
        <4>2. Chat!Heard(ears[x], Chat!OthersSaid(since[x], log, x), log)
          BY <4>1, HeardNow DEF ChatInv
        <4>3. since'[x] = since[x] /\ ears'[x] = ears[x] /\ log' = log
          BY <1>1, <2>6, <3>2
        <4> QED
          BY <4>2, <4>3
      <3> QED
        BY <3>1, <3>2
    <2> QED
      BY <2>8, <2>10, <2>11, <2>12, <2>13, <2>14 DEF ChatInv
  <1> QED
    BY <1>5, <1>6

\* One more entry in the log: who said it hears nothing, anybody else hears
\* it next.
LEMMA HeardMore ==
  ASSUME NEW l \in Seq(Words), NEW n \in Nat, n <= Len(l), NEW w \in Words,
         NEW x, NEW e \in Seq(Words), Chat!Heard(e, Chat!OthersSaid(n, l, x), l),
         NEW l2, l2 = Append(l, w)
  PROVE  /\ w.from = x => Chat!Heard(e, Chat!OthersSaid(n, l2, x), l2)
         /\ w.from # x => Chat!Heard(Append(e, w), Chat!OthersSaid(n, l2, x), l2)
  <1>1. PICK P : P = Chat!OthersSaid(n, l, x)
    OBVIOUS
  <1>2. PICK P2 : P2 = Chat!OthersSaid(n, l2, x)
    OBVIOUS
  <1>3. PICK m : m = Len(l) + 1
    OBVIOUS
  <1>4. /\ Len(l) \in Nat /\ Len(l2) = m /\ l2[m] = w /\ m \in Nat
        /\ \A k \in 1..Len(l) : l2[k] = l[k]
    <2>1. Len(l) \in Nat /\ Len(Append(l, w)) = Len(l) + 1 /\ Append(l, w)[Len(l) + 1] = w
      BY AppendProperties
    <2>2. \A k \in 1..Len(l) : Append(l, w)[k] = l[k]
      BY AppendProperties
    <2> QED
      BY <1>3, <2>1, <2>2
  <1>5. P = {k \in (n + 1)..Len(l) : l[k].from # x} /\ P2 = {k \in (n + 1)..m : l2[k].from # x}
    BY <1>1, <1>2, <1>4 DEF Chat!OthersSaid
  <1>6. P \subseteq 1..Len(l) /\ m \notin P
    BY <1>3, <1>4, <1>5
  <1>7. (n + 1)..m = (n + 1)..Len(l) \cup {m} /\ (n + 1)..Len(l) \subseteq 1..Len(l)
    BY <1>3, <1>4
  <1>8. IsFiniteSet(P)
    <2>1. IsFiniteSet(1..Len(l))
      BY <1>4, FS_Interval
    <2> QED
      BY <1>6, <2>1, FS_Subset
  <1>9. Len(e) = Cardinality(P) /\ \A k \in P : e[Cardinality({j \in P : j <= k})] = l[k]
    BY <1>1, CardSame DEF Chat!Heard
  <1>10. CASE w.from = x
    <2>1. P2 = P
      BY <1>4, <1>5, <1>7, <1>10
    <2>2. \A k \in P : l2[k] = l[k]
      BY <1>4, <1>6
    <2>3. Chat!Heard(e, P2, l2)
      BY <1>9, <2>1, <2>2, CardSame DEF Chat!Heard
    <2> QED
      BY <1>2, <1>10, <2>3
  <1>11. CASE w.from # x
    <2>1. P2 = P \cup {m}
      BY <1>4, <1>5, <1>7, <1>11
    <2>2. PICK e2 : e2 = Append(e, w)
      OBVIOUS
    <2>3. /\ Len(e) \in Nat /\ Len(e2) = Len(e) + 1 /\ e2[Len(e) + 1] = w
          /\ \A r \in 1..Len(e) : e2[r] = e[r]
      <3>1. Len(e) \in Nat /\ Len(Append(e, w)) = Len(e) + 1 /\ Append(e, w)[Len(e) + 1] = w
        BY AppendProperties
      <3>2. \A r \in 1..Len(e) : Append(e, w)[r] = e[r]
        BY AppendProperties
      <3> QED
        BY <2>2, <3>1, <3>2
    <2>4. Cardinality(P2) = Len(e) + 1
      BY <1>6, <1>8, <1>9, <2>1, FS_AddElement
    <2>5. ASSUME NEW k \in P
          PROVE  e2[Cardinality({j \in P2 : j <= k})] = l2[k]
      <3>1. PICK R : R = {j \in P : j <= k}
        OBVIOUS
      <3>2. R \subseteq P /\ R # {}
        <4>1. k \in R
          BY <1>6, <3>1
        <4> QED
          BY <3>1, <4>1
      <3>3. {j \in P2 : j <= k} = R
        <4>1. ~ (m <= k)
          BY <1>3, <1>4, <1>6
        <4> QED
          BY <2>1, <3>1, <4>1
      <3>4. /\ IsFiniteSet(R) /\ Cardinality(R) <= Len(e) /\ Cardinality(R) # 0
            /\ Cardinality(R) \in Nat
        BY <1>8, <1>9, <3>2, FS_Subset, FS_EmptySet, FS_CardinalityType
      <3>5. Cardinality(R) \in 1..Len(e)
        BY <2>3, <3>4
      <3> QED
        BY <1>4, <1>6, <1>9, <2>3, <3>1, <3>3, <3>5
    <2>6. e2[Cardinality({j \in P2 : j <= m})] = l2[m]
      <3>1. \A j \in P2 : j <= m
        BY <1>3, <1>4, <1>6, <2>1
      <3>2. {j \in P2 : j <= m} = P2
        BY <3>1
      <3> QED
        BY <1>4, <2>3, <2>4, <3>2
    <2>7. Chat!Heard(e2, P2, l2)
      <3>1. \A k \in P2 : e2[Cardinality({j \in P2 : j <= k})] = l2[k]
        BY <2>1, <2>5, <2>6
      <3>2. Len(e2) = Cardinality(P2)
        BY <2>3, <2>4
      <3> QED
        BY <3>1, <3>2, CardSame DEF Chat!Heard
    <2> QED
      BY <1>2, <1>11, <2>2, <2>7
  <1> QED
    BY <1>10, <1>11

\* A client has closed its end, or it was reset.
LEMMA ClosesInv ==
  ASSUME ChatInv, scan \in Chat!Fds, owner[scan] \in Users, Chat!Close,
         scan' = Chat!NextSet(scan, ready),
         UNCHANGED <<fdmax, ready, backlog, since, user, said>>
  PROVE  ChatInv'
  <1>1. /\ owner' = [owner EXCEPT ![scan] = Chat!NoUser] /\ master' = master \ {scan}
        /\ UNCHANGED <<talk, log, ears>>
    BY DEF Chat!Close
  <1>2. /\ owner \in [Chat!Fds -> Users \cup {Chat!NoUser}] /\ Chat!NoUser \notin Users
        /\ owner[Listener] = Chat!NoUser /\ backlog \in Seq(Users) /\ Listener \in Chat!Fds
        /\ ready \subseteq Chat!Fds /\ Chat!Fds \subseteq Nat
    BY FdsNat, ChatAssumption DEF ChatInv, ChatShape, ChatAssumption, Chat!NoUser
  <1>3. /\ owner' \in [Chat!Fds -> Users \cup {Chat!NoUser}] /\ owner'[scan] = Chat!NoUser
        /\ \A g \in Chat!Fds : g # scan => owner'[g] = owner[g]
        /\ owner'[Listener] = Chat!NoUser
    BY <1>1, <1>2
  <1>4. \A g \in Chat!Fds : owner'[g] # Chat!NoUser => g # scan /\ owner[g] = owner'[g]
    BY <1>3
  <1>5. ScanFresh' /\ scan' \in Chat!Fds \cup {-1}
    <2>1. \A g \in ready : g > scan => g # Listener /\ owner[g] # Chat!NoUser
      BY BitsAhead
    <2>2. \A g \in ready : g > scan => owner'[g] # Chat!NoUser
      BY <1>2, <1>3, <2>1
    <2> QED
      BY <2>2, NextFresh
  <1>6. ChatShape'
    BY <1>1, <1>3, <1>5 DEF ChatInv, ChatShape
  <1>7. OneEnd'
    BY <1>4 DEF ChatInv, OneEnd
  <1>8. Waiting'
    <2>1. \A x \in Users : Fresh(x) => ears'[x] = <<>> /\ \A g \in Chat!Fds : owner'[g] # x
      BY <1>1, <1>2, <1>4 DEF Fresh
    <2>2. \A k \in 1..Len(backlog) : backlog[k] \in Users
      BY <1>2
    <2> QED
      BY <2>1, <2>2 DEF ChatInv, Waiting, Fresh
  <1>9. Chat!MasterIsOpen'
    <2>1. master = {Listener} \cup {g \in Chat!Fds : owner[g] # Chat!NoUser} /\ \A g \in master : g <= fdmax
      BY DEF ChatInv, Chat!MasterIsOpen
    <2>2. scan # Listener
      BY <1>2
    <2>3. master' = {Listener} \cup {g \in Chat!Fds : owner'[g] # Chat!NoUser}
      BY <1>1, <1>3, <2>1, <2>2
    <2> QED
      BY <1>1, <2>1, <2>3 DEF Chat!MasterIsOpen
  <1>10. Chat!HearsTheOthers'
    <2> SUFFICES ASSUME NEW x \in Users, NEW g \in Chat!Fds, owner'[g] = x
                 PROVE  Chat!Heard(ears'[x], Chat!OthersSaid(since'[x], log', x), log')
      BY HeardThen
    <2>1. owner[g] = x
      BY <1>2, <1>4
    <2>2. Chat!Heard(ears[x], Chat!OthersSaid(since[x], log, x), log)
      BY <2>1, HeardNow DEF ChatInv
    <2> QED
      BY <1>1, <2>2
  <1> QED
    BY <1>5, <1>6, <1>7, <1>8, <1>9, <1>10 DEF ChatInv

\* A message goes out to all the others.
LEMMA RelaysInv ==
  ASSUME ChatInv, scan \in Chat!Fds, owner[scan] \in Users, talk[owner[scan]] # <<>>, Chat!Relay,
         scan' = Chat!NextSet(scan, ready),
         UNCHANGED <<fdmax, ready, backlog, since, user, said>>
  PROVE  ChatInv'
  <1>1. PICK c \in Users : c = owner[scan]
    OBVIOUS
  <1>2. PICK w : w = [from |-> c, msg |-> Head(talk[c])]
    OBVIOUS
  <1>3. PICK to : to = {f \in master : f <= fdmax /\ f \notin {Listener, scan}}
    OBVIOUS
  <1>4. /\ talk' = [talk EXCEPT ![c] = Tail(talk[c])] /\ log' = Append(log, w)
        /\ ears' = [v \in Users |-> IF \E f \in to : owner[f] = v THEN Append(ears[v], w) ELSE ears[v]]
        /\ UNCHANGED <<master, owner>>
    BY <1>1, <1>2, <1>3 DEF Chat!Relay
  <1>5. /\ owner \in [Chat!Fds -> Users \cup {Chat!NoUser}] /\ Chat!NoUser \notin Users
        /\ owner[Listener] = Chat!NoUser /\ backlog \in Seq(Users) /\ Listener \in Chat!Fds
        /\ ready \subseteq Chat!Fds /\ talk \in [Users -> Seq(Nat)]
        /\ log \in Seq(Words) /\ ears \in [Users -> Seq(Words)]
        /\ since \in [Users -> Nat] /\ \A x \in Users : since[x] <= Len(log)
    BY FdsNat, ChatAssumption DEF ChatInv, ChatShape, ChatAssumption, Chat!NoUser
  <1>6. w \in Words /\ w.from = c /\ talk' \in [Users -> Seq(Nat)]
    <2>1. Head(talk[c]) \in Nat /\ Tail(talk[c]) \in Seq(Nat)
      BY <1>1, <1>5
    <2> QED
      BY <1>2, <1>4, <1>5, <2>1 DEF Words
  <1>7. log' \in Seq(Words) /\ \A x \in Users : since'[x] <= Len(log')
    <2>1. /\ Append(log, w) \in Seq(Words) /\ Len(Append(log, w)) = Len(log) + 1
          /\ Len(log) \in Nat
      BY <1>5, <1>6, AppendProperties
    <2> QED
      BY <1>4, <1>5, <2>1
  <1>8. ears' \in [Users -> Seq(Words)]
    <2>1. \A v \in Users : Append(ears[v], w) \in Seq(Words)
      BY <1>5, <1>6, AppendProperties
    <2> QED
      BY <1>4, <1>5, <2>1
  <1>9. ScanFresh' /\ scan' \in Chat!Fds \cup {-1}
    <2>1. \A g \in ready : g > scan => g # Listener /\ owner[g] # Chat!NoUser
      BY BitsAhead
    <2> QED
      BY <1>4, <2>1, NextFresh
  <1>10. ChatShape'
    BY <1>4, <1>6, <1>7, <1>8, <1>9 DEF ChatInv, ChatShape
  <1>11. OneEnd' /\ Chat!MasterIsOpen'
    BY <1>4 DEF ChatInv, OneEnd, Chat!MasterIsOpen
  <1>12. to \subseteq Chat!Fds /\ scan \notin to
    BY <1>3, <1>5 DEF ChatInv, Chat!MasterIsOpen
  <1>13. Waiting'
    <2>1. \A x \in Users : Fresh(x) => ears'[x] = <<>> /\ \A g \in Chat!Fds : owner'[g] # x
      BY <1>4, <1>12 DEF Fresh
    <2>2. \A k \in 1..Len(backlog) : backlog[k] \in Users
      BY <1>5
    <2> QED
      BY <2>1, <2>2 DEF ChatInv, Waiting, Fresh
  <1>14. Chat!HearsTheOthers'
    <2> SUFFICES ASSUME NEW x \in Users, NEW g \in Chat!Fds, owner'[g] = x
                 PROVE  Chat!Heard(ears'[x], Chat!OthersSaid(since'[x], log', x), log')
      BY HeardThen
    <2>1. owner[g] = x
      BY <1>4
    <2>2. Chat!Heard(ears[x], Chat!OthersSaid(since[x], log, x), log)
      BY <2>1, HeardNow DEF ChatInv
    <2>3. PICK e \in Seq(Words) : e = ears[x]
      BY <1>5
    <2>4. PICK n \in Nat : n = since[x] /\ n <= Len(log)
      BY <1>5
    <2>5. /\ w.from = x => Chat!Heard(e, Chat!OthersSaid(n, log', x), log')
          /\ w.from # x => Chat!Heard(Append(e, w), Chat!OthersSaid(n, log', x), log')
      BY ONLY <1>4, <1>5, <1>6, <2>2, <2>3, <2>4, HeardMore
    <2>6. CASE x = c
      <3>1. ~ \E f \in to : owner[f] = x
        BY <1>1, <1>5, <1>12, <2>6 DEF ChatInv, OneEnd
      <3>2. ears'[x] = e
        BY <1>4, <2>3, <3>1
      <3> QED
        BY <1>6, <2>4, <2>5, <2>6, <3>2
    <2>7. CASE x # c
      <3>1. g \in master /\ g <= fdmax /\ g # Listener /\ g # scan
        BY <1>1, <1>5, <2>1, <2>7 DEF ChatInv, Chat!MasterIsOpen
      <3>2. ears'[x] = Append(e, w)
        BY <1>3, <1>4, <2>1, <2>3, <3>1
      <3> QED
        BY <1>6, <2>4, <2>5, <2>7, <3>2
    <2> QED
      BY <2>6, <2>7
  <1> QED
    BY <1>9, <1>10, <1>11, <1>13, <1>14 DEF ChatInv

\* The invariant is kept by every step.
LEMMA ChatStep ==
  ASSUME ChatInv, Chat!ChatNext
  PROVE  ChatInv'
  <1>1. CASE Chat!Receive
    <2>1. /\ scan > Listener /\ scan' = Chat!NextSet(scan, ready)
          /\ UNCHANGED <<fdmax, ready, backlog, since, user, said>>
          /\ (talk[owner[scan]] # <<>> /\ Chat!Relay) \/ Chat!Close
      BY <1>1 DEF Chat!Receive
    <2>2. scan \in Chat!Fds /\ Listener \in Nat /\ scan # -1
      BY <2>1, FdsNat DEF ChatInv, ChatShape
    <2>3. scan \in ready /\ scan # Listener /\ scan >= scan
      BY <2>1, <2>2, FdsNat DEF ChatInv, ScanFresh
    <2>4. owner[scan] \in Users
      BY <2>2, <2>3 DEF ChatInv, ChatShape, ScanFresh
    <2> QED
      BY <2>1, <2>2, <2>4, ClosesInv, RelaysInv
  <1>2. CASE Chat!select \/ Chat!Accept
    BY <1>2, SelectsInv, AcceptsInv
  <1>3. CASE \E u \in Users : Chat!Dial(u) \/ Chat!Say(u) \/ Chat!HangUp(u)
    BY <1>3, UserInv
  <1> QED
    BY <1>1, <1>2, <1>3 DEF Chat!ChatNext, Chat!ServerSteps

\* The chat server runs alone, or not at all.
LEMMA ChatRuns == [MCNext]_mcVars => [Chat!ChatNext]_chatv
  <1> SUFFICES ASSUME [MCNext]_mcVars PROVE [Chat!ChatNext]_chatv
    OBVIOUS
  <1>1. CASE UNCHANGED mcVars
    BY <1>1 DEF mcVars
  <1>2. CASE MCNext /\ which = "chat"
    BY <1>2 DEF MCNext
  <1>3. CASE MCNext /\ which # "chat"
    BY <1>3 DEF MCNext, Others
  <1> QED
    BY <1>1, <1>2, <1>3

\* For any number of clients, descriptors and messages: master and fdmax
\* cover exactly the open connections, and a client hears everything the
\* others say from its acceptance on, in the order the server received it,
\* whoever connects and leaves while a scan of read_fds is under way.
THEOREM ChatCorrect == MCSpec => []ChatSound
  <1>1. MCInit => ChatInv
    BY ChatInitInv DEF MCInit
  <1>2. ChatInv /\ [MCNext]_mcVars => ChatInv'
    <2> SUFFICES ASSUME ChatInv, [Chat!ChatNext]_chatv PROVE ChatInv'
      BY ChatRuns
    <2>1. CASE UNCHANGED chatv
      <3>1. Chat!HearsTheOthers'
        BY <2>1, HeardKept DEF ChatInv, chatv
      <3>2. ChatShape' /\ Waiting' /\ OneEnd' /\ ScanFresh' /\ Chat!MasterIsOpen'
        BY <2>1 DEF ChatInv, chatv, ChatShape, Waiting, Fresh, OneEnd, ScanFresh, Chat!MasterIsOpen
      <3> QED
        BY <3>1, <3>2 DEF ChatInv
    <2> QED
      BY <2>1, ChatStep
  <1>3. ChatInv => ChatSound
    BY DEF ChatInv, ChatSound
  <1> QED
    BY <1>1, <1>2, <1>3, PTL DEF MCSpec

-----------------------------------------------------------------------------
(* The checksum.                                                           *)

\* Quotient and remainder.
LEMMA DivRem ==
  ASSUME NEW n \in Nat, NEW w \in Nat, w > 0
  PROVE  /\ n \div w \in Nat /\ n % w \in Nat /\ n % w < w
         /\ n = w * (n \div w) + (n % w)
  OBVIOUS

\* One turn of the loop, on a sum of up to four words.
LEMMA FoldIs ==
  ASSUME NEW s \in 0 .. 4 * Word
  PROVE  /\ Ip!Fold(s) \in 0 .. Word + 3
         /\ (Word <= s /\ s < 2 * Word) => Ip!Fold(s) = s - Word + 1
  <1>1. Word \in Nat /\ Word > 4 /\ s \in Nat /\ s <= 4 * Word
    BY IpAssumption DEF IpAssumption
  <1>2. PICK q \in Nat, r \in Nat : q = s \div Word /\ r = s % Word /\ r < Word /\ s = Word * q + r
    BY <1>1, DivRem
  <1>3. Ip!Fold(s) = r + q
    BY <1>2 DEF Ip!Fold
  <1>4. q <= 4
    <2> SUFFICES ASSUME q >= 5 PROVE FALSE
      BY <1>2
    <2>1. Word * q >= Word * 5
      BY <1>1, <1>2
    <2> QED
      BY <1>1, <1>2, <2>1
  <1>5. CASE Word <= s /\ s < 2 * Word
    <2>1. q # 0 /\ q # 2 /\ q # 3 /\ q # 4
      BY <1>1, <1>2, <1>5
    <2> QED
      BY <1>1, <1>2, <1>3, <1>4, <2>1
  <1> QED
    BY <1>1, <1>2, <1>3, <1>4, <1>5

\* The loop ends, after two turns at most.
LEMMA FoldAllIs ==
  ASSUME NEW s \in 0 .. 4 * Word
  PROVE  Ip!FoldAll[s] = IF s < Word THEN s ELSE Ip!FoldAll[Ip!Fold(s)]
  <1> DEFINE D == 0 .. 4 * Word
             F(f) == [x \in D |-> IF x < Word THEN x ELSE f[Ip!Fold(x)]]
             g == [x \in D |-> IF x < Word THEN x
                               ELSE IF Ip!Fold(x) < Word THEN Ip!Fold(x) ELSE Ip!Fold(Ip!Fold(x))]
  <1>1. ASSUME NEW x \in D, x >= Word PROVE g[x] = g[Ip!Fold(x)]
    <2>1. Word \in Nat /\ Word > 4
      BY IpAssumption DEF IpAssumption
    <2>2. Ip!Fold(x) \in 0 .. Word + 3 /\ Ip!Fold(x) \in D
      BY <2>1, FoldIs
    <2>3. CASE Ip!Fold(x) < Word
      BY <1>1, <2>1, <2>2, <2>3
    <2>4. CASE Ip!Fold(x) >= Word
      <3>1. PICK y \in D : y = Ip!Fold(x)
        BY <2>2
      <3>2. Ip!Fold(y) < Word
        BY <2>1, <2>2, <2>4, <3>1, FoldIs
      <3>3. g[y] = Ip!Fold(y)
        BY <2>1, <2>4, <3>1, <3>2
      <3>4. g[x] = Ip!Fold(y)
        BY <1>1, <2>1, <2>4, <3>1
      <3> QED
        BY <3>1, <3>3, <3>4
    <2> QED
      BY <2>1, <2>2, <2>3, <2>4
  <1>2. g = F(g)
    <2>1. ASSUME NEW x \in D PROVE g[x] = F(g)[x]
      <3>1. CASE x < Word
        BY <3>1
      <3>2. CASE ~ (x < Word)
        <4>1. x >= Word
          BY <3>2, IpAssumption DEF IpAssumption
        <4>2. F(g)[x] = g[Ip!Fold(x)]
          BY <3>2
        <4> QED
          BY <1>1, <4>1, <4>2
      <3> QED
        BY <3>1, <3>2
    <2> QED
      BY <2>1
  <1>3. Ip!FoldAll = CHOOSE f : f = F(f)
    BY DEF Ip!FoldAll
  <1> HIDE DEF g
  <1>4. Ip!FoldAll = F(Ip!FoldAll)
    BY <1>2, <1>3
  <1> QED
    BY <1>4

\* A header with its own checksum adds up to all ones.
LEMMA ChecksumsVerify == Ip!ChecksumVerifies
  <1> SUFFICES ASSUME NEW t \in 0 .. Word - 1, NEW r \in 0 .. Word - 1
               PROVE  LET h == [ttl |-> t, rest |-> r, csum |-> 0]
                      IN  Ip!checksum([h EXCEPT !.csum = Ip!checksum(h)]) = 0
    BY DEF Ip!ChecksumVerifies
  <1> DEFINE h == [ttl |-> t, rest |-> r, csum |-> 0]
  <1>1. Word \in Nat /\ Word > 4 /\ t \in Nat /\ r \in Nat /\ t < Word /\ r < Word
    BY IpAssumption DEF IpAssumption
  <1>2. PICK c : c = Ip!checksum(h)
    OBVIOUS
  <1>3. c = (Word - 1) - Ip!FoldAll[t + r]
    <2>1. h.ttl + h.rest + h.csum = t + r
      BY <1>1
    <2> QED
      BY <1>2, <2>1 DEF Ip!checksum
  <1>4. [h EXCEPT !.csum = c] = [ttl |-> t, rest |-> r, csum |-> c]
    OBVIOUS
  <1>5. Ip!checksum([ttl |-> t, rest |-> r, csum |-> c]) = (Word - 1) - Ip!FoldAll[t + r + c]
    BY DEF Ip!checksum
  <1>6. ASSUME NEW x \in Nat, x < Word PROVE Ip!FoldAll[x] = x
    BY <1>1, <1>6, FoldAllIs
  <1>7. ASSUME NEW x \in Nat, x >= Word, x < 2 * Word - 1 PROVE Ip!FoldAll[x] = x - Word + 1
    <2>1. x \in 0 .. 4 * Word /\ ~ (x < Word) /\ x < 2 * Word
      BY <1>1, <1>7
    <2>2. Ip!FoldAll[x] = Ip!FoldAll[Ip!Fold(x)] /\ Ip!Fold(x) = x - Word + 1
      BY <1>7, <2>1, FoldAllIs, FoldIs
    <2>3. x - Word + 1 \in Nat /\ x - Word + 1 < Word
      BY <1>1, <1>7
    <2> QED
      BY <1>6, <2>2, <2>3
  <1>8. Ip!FoldAll[t + r + c] = Word - 1
    <2>1. CASE t + r < Word
      <3>1. c = (Word - 1) - (t + r)
        BY <1>1, <1>3, <1>6, <2>1
      <3>2. t + r + c = Word - 1
        BY <1>1, <3>1
      <3> QED
        BY <1>1, <1>6, <3>2
    <2>2. CASE t + r >= Word
      <3>1. c = (Word - 1) - (t + r - Word + 1)
        BY <1>1, <1>3, <1>7, <2>2
      <3>2. t + r + c = 2 * Word - 2
        BY <1>1, <3>1
      <3>3. Ip!FoldAll[2 * Word - 2] = 2 * Word - 2 - Word + 1
        BY <1>1, <1>7
      <3> QED
        BY <1>1, <3>2, <3>3
    <2> QED
      BY <1>1, <2>1, <2>2
  <1> QED
    BY <1>1, <1>2, <1>4, <1>5, <1>8

-----------------------------------------------------------------------------
(* The routing table.  rt_add keeps it sorted by the length of the masks,  *)
(* so that the first route that matches is the longest.                    *)

Routes == [net : Ip!Addrs, len : 0 .. 3, gw : Ip!Addrs, metric : {0, 1},
           flags : {"RT_LOCALHOST", "RT_NONE", "RT_DEFAULT"}, dev : {"lo", "veth"}]
LongestFirst(t) == t \in Seq(Routes) /\ \A j, k \in 1..Len(t) : j < k => t[j].len >= t[k].len

\* The routes that are added.
LEMMA RoutesAre == Ip!OtherRoutes \cup Ip!Range(Ip!rt_init) \subseteq Routes
  <1>1. <<0, 0, 0>> \in Ip!Addrs /\ <<1, 0, 0>> \in Ip!Addrs /\ <<1, 0, 1>> \in Ip!Addrs /\ <<1, 1, 0>> \in Ip!Addrs
    BY DEF Ip!Addrs
  <1>2. Ip!OtherRoutes \subseteq Routes
    BY <1>1 DEF Ip!OtherRoutes, Ip!Route, Routes, Ip!TapAddr
  <1>3. \A k \in 1..4 : Ip!rt_init[k] \in Routes
    BY <1>1 DEF Ip!rt_init, Ip!Route, Routes, Ip!TapAddr, Ip!OurAddr
  <1>4. DOMAIN Ip!rt_init = 1..4
    BY DEF Ip!rt_init
  <1> QED
    BY <1>2, <1>3, <1>4 DEF Ip!Range

\* The lengths of their masks are numbers.
LEMMA LenIn == \A r \in Routes : r.len \in Nat
  BY DEF Routes

\* u is t with r at place p.
Inserted(T, t, p, r, u) ==
    /\ u \in Seq(T) /\ Len(u) = Len(t) + 1
    /\ \A k \in 1..Len(t) + 1 : u[k] = IF k < p THEN t[k] ELSE IF k = p THEN r ELSE t[k - 1]

\* A sequence with an element put in at place p.
LEMMA InsertIs ==
  ASSUME NEW T, NEW t \in Seq(T), NEW r \in T, NEW p \in 1..Len(t), NEW u, u = Ip!InsertAt(t, p, r)
  PROVE  Inserted(T, t, p, r, u)
  <1>1. PICK n \in Nat : n = Len(t)
    OBVIOUS
  <1>2. p \in 1..n /\ \A k \in 1..n : t[k] \in T
    BY <1>1
  <1>3. PICK a : a = SubSeq(t, 1, p - 1)
    OBVIOUS
  <1>4. PICK b : b = SubSeq(t, p, n)
    OBVIOUS
  <1>5. a \in Seq(T) /\ Len(a) = p - 1 /\ \A k \in 1..p - 1 : a[k] = t[k]
    <2>1. /\ SubSeq(t, 1, p - 1) \in Seq(T)
          /\ Len(SubSeq(t, 1, p - 1)) = IF 1 <= p - 1 THEN p - 1 - 1 + 1 ELSE 0
          /\ \A k \in 1 .. p - 1 - 1 + 1 : SubSeq(t, 1, p - 1)[k] = t[1 + k - 1]
      BY <1>2, SubSeqProperties
    <2> QED
      BY <1>2, <1>3, <2>1
  <1>6. b \in Seq(T) /\ Len(b) = n - p + 1 /\ \A k \in 1..n - p + 1 : b[k] = t[p + k - 1]
    <2>1. /\ SubSeq(t, p, n) \in Seq(T)
          /\ Len(SubSeq(t, p, n)) = IF p <= n THEN n - p + 1 ELSE 0
          /\ \A k \in 1 .. n - p + 1 : SubSeq(t, p, n)[k] = t[p + k - 1]
      BY <1>2, SubSeqProperties
    <2> QED
      BY <1>2, <1>4, <2>1
  <1>7. PICK c : c = a \o <<r>>
    OBVIOUS
  <1>8. <<r>> \in Seq(T) /\ Len(<<r>>) = 1 /\ <<r>>[1] = r
    OBVIOUS
  <1>9. c \in Seq(T) /\ Len(c) = p /\ c[p] = r /\ \A k \in 1..p - 1 : c[k] = t[k]
    <2>1. /\ c \in Seq(T) /\ Len(c) = Len(a) + 1
          /\ \A k \in 1 .. Len(a) + 1 : c[k] = IF k <= Len(a) THEN a[k] ELSE <<r>>[k - Len(a)]
      BY <1>5, <1>7, <1>8, ConcatProperties
    <2> QED
      BY <1>2, <1>5, <1>8, <2>1
  <1>10. u = c \o b
    BY <1>1, <1>3, <1>4, <1>7 DEF Ip!InsertAt
  <1>11. /\ u \in Seq(T) /\ Len(u) = p + (n - p + 1)
         /\ \A k \in 1 .. p + (n - p + 1) : u[k] = IF k <= p THEN c[k] ELSE b[k - p]
    <2>1. /\ c \o b \in Seq(T) /\ Len(c \o b) = Len(c) + Len(b)
          /\ \A k \in 1 .. Len(c) + Len(b) : (c \o b)[k] = IF k <= Len(c) THEN c[k] ELSE b[k - Len(c)]
      BY <1>6, <1>9, ConcatProperties
    <2>2. Len(c) = p /\ Len(b) = n - p + 1
      BY <1>6, <1>9
    <2> QED
      BY <1>10, <2>1, <2>2
  <1>12. Len(u) = n + 1 /\ \A k \in 1 .. n + 1 : u[k] = IF k <= p THEN c[k] ELSE b[k - p]
    BY <1>2, <1>11
  <1>13. ASSUME NEW k \in 1 .. n + 1
         PROVE  u[k] = IF k < p THEN t[k] ELSE IF k = p THEN r ELSE t[k - 1]
    <2>1. CASE k <= p
      BY <1>2, <1>9, <1>12, <2>1
    <2>2. CASE k > p
      <3>1. PICK m \in 1 .. n - p + 1 : m = k - p
        BY <1>2, <2>2
      <3>2. p + m - 1 = k - 1
        BY <1>2, <3>1
      <3>3. b[m] = t[k - 1]
        BY <1>6, <3>2
      <3>4. u[k] = b[m]
        BY <1>2, <1>12, <2>2, <3>1
      <3> QED
        BY <1>2, <2>2, <3>3, <3>4
    <2> QED
      BY <1>2, <2>1, <2>2
  <1> QED
    BY <1>1, <1>11, <1>12, <1>13 DEF Inserted

\* A number put in a falling sequence before the first that is not greater.
LEMMA InsertFalls ==
  ASSUME NEW n \in Nat, NEW L, NEW x \in Nat, NEW p \in 1..n, NEW M,
         \A k \in 1..n : L[k] \in Nat, \A j, k \in 1..n : j < k => L[j] >= L[k],
         x >= L[p], \A k \in 1..n : k < p => L[k] > x,
         \A k \in 1..n + 1 : M[k] = IF k < p THEN L[k] ELSE IF k = p THEN x ELSE L[k - 1]
  PROVE  \A j, k \in 1..n + 1 : j < k => M[j] >= M[k]
  <1> SUFFICES ASSUME NEW j \in 1..n + 1, NEW k \in 1..n + 1, j < k PROVE M[j] >= M[k]
    OBVIOUS
  <1>1. CASE k < p
    BY <1>1
  <1>2. CASE k = p
    BY <1>2
  <1>3. CASE k > p
    <2>1. M[k] = L[k - 1] /\ k - 1 \in 1..n /\ k - 1 >= p
      BY <1>3
    <2>2. x >= L[k - 1]
      BY <2>1
    <2> QED
      BY <1>3, <2>1, <2>2
  <1> QED
    BY <1>1, <1>2, <1>3

\* rt_add puts the route before the first one that is not longer.
LEMMA RtAddSorts ==
  ASSUME NEW t, LongestFirst(t), NEW r \in Routes
  PROVE  LongestFirst(Ip!rt_add(t, r))
  <1> DEFINE S == {k \in 1..Len(t) : r.len >= t[k].len}
  <1>1. PICK n \in Nat : n = Len(t)
    BY DEF LongestFirst
  <1>2. /\ t \in Seq(Routes) /\ r.len \in Nat /\ \A k \in 1..n : t[k].len \in Nat
        /\ \A j, k \in 1..n : j < k => t[j].len >= t[k].len
    <2>1. t \in Seq(Routes) /\ \A k \in 1..n : t[k] \in Routes
      BY <1>1 DEF LongestFirst
    <2> QED
      BY <1>1, <2>1, LenIn DEF LongestFirst
  <1>3. PICK L : L = [k \in 1..n |-> t[k].len]
    OBVIOUS
  <1>4. CASE S = {}
    <2>1. Ip!rt_add(t, r) = Append(t, r)
      BY <1>4 DEF Ip!rt_add
    <2>2. \A k \in 1..n : t[k].len > r.len
      BY <1>1, <1>2, <1>4
    <2>3. /\ Append(t, r) \in Seq(Routes) /\ Len(Append(t, r)) = n + 1
          /\ \A k \in 1..n : Append(t, r)[k] = t[k]
          /\ Append(t, r)[n + 1] = r
      BY <1>1, <1>2
    <2>4. ASSUME NEW j \in 1..n + 1, NEW k \in 1..n + 1, j < k
          PROVE  Append(t, r)[j].len >= Append(t, r)[k].len
      <3>1. CASE k = n + 1
        <4>1. j \in 1..n
          BY <2>4
        <4>2. t[j].len > r.len /\ t[j].len \in Nat
          BY <1>2, <2>2, <4>1
        <4> QED
          BY <1>2, <2>3, <3>1, <4>1, <4>2
      <3>2. CASE k # n + 1
        <4>1. j \in 1..n /\ k \in 1..n
          BY <2>4, <3>2
        <4>2. t[j].len >= t[k].len
          BY <1>2, <2>4, <4>1
        <4> QED
          BY <2>3, <4>1, <4>2
      <3> QED
        BY <3>1, <3>2
    <2> QED
      BY <2>1, <2>3, <2>4 DEF LongestFirst
  <1>5. CASE S # {}
    <2>1. PICK p \in S : p = Ip!Min(S) /\ \A k \in S : p <= k
      <3>1. S \subseteq Nat
        BY <1>1
      <3> HIDE DEF S
      <3> QED
        BY <1>5, <3>1, LeastNat DEF Ip!Min
    <2>2. PICK u : u = Ip!InsertAt(t, p, r)
      OBVIOUS
    <2>3. Ip!rt_add(t, r) = u
      BY <1>5, <2>1, <2>2 DEF Ip!rt_add
    <2>4. p \in 1..n /\ r.len >= L[p]
      BY <1>1, <1>3, <2>1
    <2>5. \A k \in 1..n : L[k] = t[k].len /\ L[k] \in Nat
      BY <1>2, <1>3
    <2>6. ASSUME NEW k \in 1..n, k < p PROVE L[k] > r.len
      <3>1. ~ (r.len >= t[k].len)
        <4>1. ~ (p <= k)
          BY <2>4, <2>6
        <4>2. k \notin S
          BY <2>1, <4>1
        <4> QED
          BY <1>1, <4>2
      <3> QED
        BY <1>2, <2>5, <3>1
    <2>7. /\ u \in Seq(Routes) /\ Len(u) = n + 1
          /\ \A k \in 1..n + 1 : u[k] = IF k < p THEN t[k] ELSE IF k = p THEN r ELSE t[k - 1]
      <3>1. p \in 1..Len(t) /\ t \in Seq(Routes) /\ r \in Routes
        BY <1>1, <1>2, <2>4
      <3>2. Inserted(Routes, t, p, r, u)
        BY ONLY <2>2, <3>1, InsertIs
      <3> QED
        BY <1>1, <3>2 DEF Inserted
    <2>8. PICK M : M = [k \in 1..n + 1 |-> u[k].len]
      OBVIOUS
    <2>9. \A k \in 1..n + 1 : M[k] = IF k < p THEN L[k] ELSE IF k = p THEN r.len ELSE L[k - 1]
      <3>1. ASSUME NEW k \in 1..n + 1
            PROVE  M[k] = IF k < p THEN L[k] ELSE IF k = p THEN r.len ELSE L[k - 1]
        <4>1. M[k] = u[k].len
          BY <2>8
        <4>2. CASE k < p
          BY <2>4, <2>5, <2>7, <4>1, <4>2
        <4>3. CASE k = p
          BY <2>7, <4>1, <4>3
        <4>4. CASE k > p
          <5>1. k - 1 \in 1..n /\ ~ (k < p) /\ k # p
            BY <2>4, <4>4
          <5> QED
            BY <2>5, <2>7, <4>1, <5>1
        <4> QED
          BY <2>4, <4>2, <4>3, <4>4
      <3> QED
        BY <3>1
    <2>10. \A j, k \in 1..n : j < k => L[j] >= L[k]
      BY <1>2, <2>5
    <2>11. \A j, k \in 1..n + 1 : j < k => M[j] >= M[k]
      BY ONLY <1>1, <1>2, <2>4, <2>5, <2>6, <2>9, <2>10, InsertFalls
    <2>12. \A j, k \in 1..n + 1 : j < k => u[j].len >= u[k].len
      BY <2>8, <2>11
    <2> QED
      BY <2>3, <2>7, <2>12 DEF LongestFirst
  <1> QED
    BY <1>4, <1>5

\* The first route that matches is the longest one that does.
LEMMA LookupLongest ==
  ASSUME LongestFirst(table)
  PROVE  Ip!LongestPrefix
  <1> SUFFICES ASSUME NEW a \in Ip!Addrs
               PROVE  LET fits == {r \in Ip!Range(table) : Ip!SameNet(r.len, a, r.net)}
                          rt == Ip!rt_lookup(a)
                      IN  IF fits = {} THEN rt = <<>>
                          ELSE rt # <<>> /\ \A r \in fits : r.len <= rt[1].len
    BY DEF Ip!LongestPrefix
  <1> DEFINE H == Ip!Hits(table, a)
             fits == {r \in Ip!Range(table) : Ip!SameNet(r.len, a, r.net)}
  <1>1. /\ table \in Seq(Routes) /\ Len(table) \in Nat /\ DOMAIN table = 1..Len(table)
        /\ \A k \in 1..Len(table) : table[k].len \in Nat
        /\ \A j, k \in 1..Len(table) : j < k => table[j].len >= table[k].len
    <2>1. table \in Seq(Routes) /\ \A k \in 1..Len(table) : table[k] \in Routes
      BY DEF LongestFirst
    <2> QED
      BY <2>1, LenIn DEF LongestFirst
  <1>2. H \subseteq 1..Len(table) /\ \A k \in 1..Len(table) : k \in H <=> Ip!SameNet(table[k].len, a, table[k].net)
    BY DEF Ip!Hits
  <1>3. \A r : r \in fits <=> \E k \in H : r = table[k]
    BY <1>1, <1>2 DEF Ip!Range
  <1>4. CASE H = {}
    BY <1>3, <1>4 DEF Ip!rt_lookup
  <1>5. CASE H # {}
    <2>1. PICK p \in H : p = Ip!Min(H) /\ \A k \in H : p <= k
      <3>1. H \subseteq Nat
        BY <1>1, <1>2
      <3> HIDE DEF H
      <3> QED
        BY <1>5, <3>1, LeastNat DEF Ip!Min
    <2>2. Ip!rt_lookup(a) = <<table[p]>>
      BY <1>5, <2>1 DEF Ip!rt_lookup
    <2>3. \A k \in H : table[k].len <= table[p].len
      BY <1>1, <1>2, <2>1
    <2>4. fits # {}
      BY <1>3, <2>1
    <2> QED
      BY <1>3, <2>2, <2>3, <2>4
  <1> QED
    BY <1>4, <1>5

-----------------------------------------------------------------------------
(* A packet on its way through ip_in.                                      *)

HeaderOk(h) == {"ttl", "csum"} \subseteq DOMAIN h /\ h.ttl \in Nat
PacketOk(p, order) ==
    /\ {"hdr", "order"} \subseteq DOMAIN p
    /\ p.order = order
    /\ HeaderOk(p.hdr)

\* What ForwardedSoundly says of a packet p that has become f.
Forwarded(p, f) ==
    f.seen # <<>> => /\ f.seen = <<"net">>
                     /\ f.what = "kept" => f.pkt.hdr.ttl = p.hdr.ttl - 1 /\ f.pkt.hdr.ttl > 0

\* Any other field of a packet may be set.
LEMMA OtherField ==
  ASSUME NEW p, NEW order, PacketOk(p, order), NEW f, f # "hdr", f # "order", NEW v
  PROVE  PacketOk([p EXCEPT ![f] = v], order) /\ [p EXCEPT ![f] = v].hdr = p.hdr
  <1>1. PICK q : q = [p EXCEPT ![f] = v]
    OBVIOUS
  <1>2. DOMAIN q = DOMAIN p /\ q["order"] = p["order"] /\ q["hdr"] = p["hdr"]
    BY <1>1 DEF PacketOk
  <1> QED
    BY <1>1, <1>2 DEF PacketOk

\* The packets come in network order.
LEMMA PacketsOk == \A p \in Ip!Packets : PacketOk(p, "net")
  <1> DEFINE odd(p) == { [p EXCEPT !.otherhost = TRUE], [p EXCEPT !.short = TRUE],
                    [p EXCEPT !.version = 6], [p EXCEPT !.hlenOk = FALSE],
                    [p EXCEPT !.lenOk = FALSE], [p EXCEPT !.padded = TRUE],
                    [p EXCEPT !.hdr.csum = (@ + 1) % Word],
                    [p EXCEPT !.frag = {"MF"}], [p EXCEPT !.frag = {"MF", "DF"}],
                    [p EXCEPT !.proto = "ospf"], [p EXCEPT !.big = TRUE],
                    [p EXCEPT !.big = TRUE, !.frag = {"DF"}] }
  <1>1. ASSUME NEW a, NEW t \in Nat, NEW r PROVE PacketOk(Ip!Good(a, t, r), "net")
    <2>1. PICK g : g = Ip!Good(a, t, r)
      OBVIOUS
    <2>2. PICK c : c = Ip!checksum([ttl |-> t, rest |-> r, csum |-> 0])
      OBVIOUS
    <2>3. g = [otherhost |-> FALSE, short |-> FALSE, version |-> 4, hlenOk |-> TRUE, lenOk |-> TRUE,
               padded |-> FALSE, hdr |-> [ttl |-> t, rest |-> r, csum |-> c], src |-> Ip!TapAddr, dst |-> a,
               frag |-> {}, proto |-> "udp", big |-> FALSE, order |-> "net"]
      BY <2>1, <2>2 DEF Ip!Good
    <2>4. PacketOk(g, "net")
      BY <2>3 DEF PacketOk, HeaderOk
    <2> QED
      BY <2>1, <2>4
  <1>2. ASSUME NEW p, PacketOk(p, "net") PROVE \A q \in odd(p) : PacketOk(q, "net")
    <2>1. PacketOk([p EXCEPT !.otherhost = TRUE], "net")
      BY <1>2, OtherField
    <2>2. PacketOk([p EXCEPT !.short = TRUE], "net")
      BY <1>2, OtherField
    <2>3. PacketOk([p EXCEPT !.version = 6], "net")
      BY <1>2, OtherField
    <2>4. PacketOk([p EXCEPT !.hlenOk = FALSE], "net")
      BY <1>2, OtherField
    <2>5. PacketOk([p EXCEPT !.lenOk = FALSE], "net")
      BY <1>2, OtherField
    <2>6. PacketOk([p EXCEPT !.padded = TRUE], "net")
      BY <1>2, OtherField
    <2>7. PacketOk([p EXCEPT !.hdr.csum = (@ + 1) % Word], "net")
      BY <1>2 DEF PacketOk, HeaderOk
    <2>8. PacketOk([p EXCEPT !.frag = {"MF"}], "net")
      BY <1>2, OtherField
    <2>9. PacketOk([p EXCEPT !.frag = {"MF", "DF"}], "net")
      BY <1>2, OtherField
    <2>10. PacketOk([p EXCEPT !.proto = "ospf"], "net")
      BY <1>2, OtherField
    <2>11. PacketOk([p EXCEPT !.big = TRUE], "net")
      BY <1>2, OtherField
    <2>12. PacketOk([p EXCEPT !.big = TRUE, !.frag = {"DF"}], "net")
      <3>1. PICK q : q = [p EXCEPT !.big = TRUE]
        OBVIOUS
      <3>2. PacketOk([q EXCEPT !.frag = {"DF"}], "net")
        BY <2>11, <3>1, OtherField
      <3>3. [p EXCEPT !.big = TRUE, !.frag = {"DF"}] = [q EXCEPT !.frag = {"DF"}]
        BY <3>1
      <3> QED
        BY <3>2, <3>3
    <2> QED
      BY <2>1, <2>2, <2>3, <2>4, <2>5, <2>6, <2>7, <2>8, <2>9, <2>10, <2>11, <2>12
  <1>3. \A q \in {Ip!Good(a, t, r) : a \in Ip!Addrs, t \in {0, 1, 2}, r \in {0, Word - 1}} : PacketOk(q, "net")
    BY <1>1
  <1>4. \A p \in {Ip!Good(a, 2, Word - 1) : a \in {Ip!OurAddr, <<1, 1, 1>>}} : PacketOk(p, "net")
    BY <1>1
  <1>5. Ip!Packets = {Ip!Good(a, t, r) : a \in Ip!Addrs, t \in {0, 1, 2}, r \in {0, Word - 1}}
          \cup UNION {odd(p) : p \in {Ip!Good(a, 2, Word - 1) : a \in {Ip!OurAddr, <<1, 1, 1>>}}}
    BY DEF Ip!Packets
  <1> HIDE DEF odd
  <1> QED
    BY <1>2, <1>3, <1>4, <1>5

\* ip_forward, on a packet in network order.
LEMMA ForwardRight ==
  ASSUME NEW p, PacketOk(p, "net"), NEW rt
  PROVE  Forwarded(p, Ip!ip_forward(p, rt))
  <1>1. PICK f : f = Ip!ip_forward(p, rt)
    OBVIOUS
  <1>2. PICK h : h = [p.hdr EXCEPT !.ttl = p.hdr.ttl - 1]
    OBVIOUS
  <1>3. PICK g : g = [h EXCEPT !.csum = Ip!checksum(h)]
    OBVIOUS
  <1>4. PICK q : q = [p EXCEPT !.hdr = g]
    OBVIOUS
  <1>5. PICK hop : hop = IF rt.flags = "RT_DEFAULT" \/ rt.metric > 0 THEN rt.gw ELSE p.dst
    OBVIOUS
  <1>6. f = IF p.hdr.ttl <= 1 THEN Ip!Fate(p, "freed", <<p.order>>)
            ELSE IF p.big /\ "DF" \in p.frag THEN Ip!Fate(q, "freed", <<p.order>>)
            ELSE [Ip!Fate(q, "kept", <<p.order>>) EXCEPT !.hop = hop]
    BY <1>1, <1>2, <1>3, <1>4, <1>5 DEF Ip!ip_forward
  <1>7. p.order = "net" /\ p.hdr.ttl \in Nat /\ q.hdr = g /\ g.ttl = p.hdr.ttl - 1
    <2>1. p.order = "net" /\ p.hdr.ttl \in Nat /\ q.hdr = g
      BY <1>4 DEF PacketOk, HeaderOk
    <2>2. h.ttl = p.hdr.ttl - 1 /\ DOMAIN h = DOMAIN p.hdr
      BY <1>2 DEF PacketOk, HeaderOk
    <2>3. g.ttl = p.hdr.ttl - 1
      BY <1>3, <2>2 DEF PacketOk, HeaderOk
    <2> QED
      BY <2>1, <2>3
  <1>8. CASE p.hdr.ttl <= 1 \/ (p.big /\ "DF" \in p.frag)
    <2>1. PICK x : f = Ip!Fate(x, "freed", <<p.order>>)
      BY <1>6, <1>8
    <2>2. f.seen = <<"net">> /\ f.what = "freed"
      BY <1>7, <2>1 DEF Ip!Fate
    <2> QED
      BY <1>1, <2>2 DEF Forwarded
  <1>9. CASE p.hdr.ttl > 1 /\ ~(p.big /\ "DF" \in p.frag)
    <2>1. f = [Ip!Fate(q, "kept", <<p.order>>) EXCEPT !.hop = hop]
      BY <1>6, <1>7, <1>9
    <2>2. f = [pkt |-> q, what |-> "kept", seen |-> <<"net">>, hop |-> hop]
      BY <1>7, <2>1 DEF Ip!Fate
    <2> QED
      BY <1>1, <1>7, <1>9, <2>2 DEF Forwarded
  <1> QED
    BY <1>1, <1>7, <1>8, <1>9

\* ip_in: on every way to ip_forward the order is changed twice.
LEMMA IpInRight ==
  ASSUME NEW p \in Ip!Packets
  PROVE  Forwarded(p, Ip!ip_in(p))
  <1>1. PacketOk(p, "net")
    BY PacketsOk
  <1>2. PICK q : q = Ip!swapOrder([p EXCEPT !.padded = FALSE])
    OBVIOUS
  <1>3. PacketOk(q, "host") /\ q.hdr = p.hdr
    <2>1. PICK x : x = [p EXCEPT !.padded = FALSE]
      OBVIOUS
    <2>2. PacketOk(x, "net") /\ x.hdr = p.hdr
      BY <1>1, <2>1, OtherField
    <2>3. q = [x EXCEPT !.order = "host"]
      BY <1>2, <2>1, <2>2 DEF PacketOk, Ip!swapOrder
    <2> QED
      BY <2>2, <2>3 DEF PacketOk
  <1>4. PICK s : s = Ip!swapOrder(q)
    OBVIOUS
  <1>5. PacketOk(s, "net") /\ s.hdr = p.hdr
    BY <1>3, <1>4 DEF PacketOk, Ip!swapOrder
  <1>6. \A x, w : Forwarded(p, Ip!Fate(x, w, <<>>))
    BY DEF Forwarded, Ip!Fate
  <1>7. Forwarded(p, Ip!ip_recv_local(q))
    BY <1>6 DEF Ip!ip_recv_local
  <1>8. \A rt : Forwarded(p, Ip!ip_forward(s, rt))
    BY <1>5, ForwardRight DEF Forwarded
  <1>9. Forwarded(p, Ip!ip_recv_route(q))
    BY <1>4, <1>6, <1>7, <1>8 DEF Ip!ip_recv_route
  <1> QED
    BY <1>2, <1>6, <1>9 DEF Ip!ip_in

RouteInv == LongestFirst(table) /\ Ip!ForwardedSoundly

\* A step of the IP layer.
LEMMA RouteStep ==
  ASSUME RouteInv, Ip!IpNext
  PROVE  RouteInv'
  <1>1. ASSUME NEW r \in Ip!OtherRoutes \cup Ip!Range(Ip!rt_init), Ip!RtAdd(r) PROVE RouteInv'
    <2>1. table' = Ip!rt_add(table, r) /\ UNCHANGED passed /\ r \in Routes
      BY <1>1, RoutesAre DEF Ip!RtAdd
    <2>2. LongestFirst(Ip!rt_add(table, r))
      BY <2>1, RtAddSorts DEF RouteInv
    <2> QED
      BY <2>1, <2>2 DEF RouteInv, Ip!ForwardedSoundly
  <1>2. CASE Ip!RtInit
    <2>1. \A k \in 1..4 : Ip!rt_init[k] \in Routes
      <3>1. DOMAIN Ip!rt_init = 1..4
        BY DEF Ip!rt_init
      <3> QED
        BY <3>1, RoutesAre DEF Ip!Range
    <2>2. PICK t1 : t1 = Ip!rt_add(table, Ip!rt_init[1])
      OBVIOUS
    <2>3. PICK t2 : t2 = Ip!rt_add(t1, Ip!rt_init[2])
      OBVIOUS
    <2>4. PICK t3 : t3 = Ip!rt_add(t2, Ip!rt_init[3])
      OBVIOUS
    <2>5. LongestFirst(t1)
      BY <2>1, <2>2, RtAddSorts DEF RouteInv
    <2>6. LongestFirst(t2)
      BY <2>1, <2>3, <2>5, RtAddSorts
    <2>7. LongestFirst(t3)
      BY <2>1, <2>4, <2>6, RtAddSorts
    <2>8. LongestFirst(Ip!rt_add(t3, Ip!rt_init[4]))
      BY <2>1, <2>7, RtAddSorts
    <2>9. table' = Ip!rt_add(t3, Ip!rt_init[4]) /\ UNCHANGED passed
      BY <1>2, <2>2, <2>3, <2>4 DEF Ip!RtInit
    <2> QED
      BY <2>8, <2>9 DEF RouteInv, Ip!ForwardedSoundly
  <1>3. ASSUME NEW p \in Ip!Packets, Ip!IpIn(p) PROVE RouteInv'
    <2>1. UNCHANGED table /\ passed' = <<p, Ip!ip_in(p)>>
      BY <1>3 DEF Ip!IpIn
    <2>2. Forwarded(p, Ip!ip_in(p))
      BY IpInRight
    <2>3. passed'[1] = p /\ passed'[2] = Ip!ip_in(p)
      BY <2>1
    <2>4. Ip!ForwardedSoundly'
      BY <2>2, <2>3 DEF Ip!ForwardedSoundly, Forwarded
    <2> QED
      BY <2>1, <2>4 DEF RouteInv
  <1> QED
    BY <1>1, <1>2, <1>3 DEF Ip!IpNext

\* RoutesRight: rt_lookup of route.c finds the longest prefix after any
\* sequence of rt_add calls, ip_forward sees network order and passes on a
\* smaller, positive ttl, and a header with its own checksum has checksum zero.
THEOREM RoutesCorrect == MCSpec => []RoutesRight
  <1>1. MCInit => RouteInv
    BY DEF MCInit, Ip!IpInit, RouteInv, LongestFirst, Ip!ForwardedSoundly
  <1>2. RouteInv /\ [MCNext]_mcVars => RouteInv'
    <2> SUFFICES ASSUME RouteInv, [MCNext]_mcVars PROVE RouteInv'
      OBVIOUS
    <2>1. CASE UNCHANGED ipv
      <3>1. UNCHANGED table /\ UNCHANGED passed
        BY <2>1 DEF ipv
      <3> QED
        BY <3>1 DEF RouteInv, Ip!ForwardedSoundly
    <2>2. CASE Ip!IpNext
      BY <2>2, RouteStep
    <2> QED
      BY <2>1, <2>2 DEF MCNext, mcVars, Others
  <1>3. RouteInv => RoutesRight
    BY LookupLongest, ChecksumsVerify DEF RouteInv, RoutesRight
  <1> QED
    BY <1>1, <1>2, <1>3, PTL DEF MCSpec

-----------------------------------------------------------------------------
(* uv-server.  The loop of on_peer_read, byte by byte.                     *)

\* EchoService with its theorems, for the one client of UvServer.
Promise == INSTANCE EchoServiceProofs WITH
    Clients <- {1}, phase <- <<"open">>, parse <- <<state>>, got <- <<got>>,
    owed <- <<mem>>, out <- <<heard>>, dead <- killed

\* The states of the loop before and after each of the first n bytes.
Runs(h, n, s, m, f, bytes) ==
    h = [k \in 0..n |-> IF k = 0 THEN [state |-> s, mem |-> m, fill |-> f, bad |-> FALSE]
                        ELSE Uv!ReadByte(h[k - 1], bytes[k])]

\* The loop runs through.
LEMMA RunsExist ==
  ASSUME NEW s, NEW m, NEW f, NEW bytes, NEW N \in Nat
  PROVE  \E h : Runs(h, N, s, m, f, bytes)
  <1> DEFINE T == {n \in Nat : ~ \E h : Runs(h, n, s, m, f, bytes)}
  <1> SUFFICES ASSUME T # {} PROVE FALSE
    OBVIOUS
  <1>1. PICK x \in T : \A y \in T : x <= y
    BY LeastNat
  <1>2. x # 0
    <2>1. PICK b : b = [state |-> s, mem |-> m, fill |-> f, bad |-> FALSE]
      OBVIOUS
    <2>2. PICK h : h = [k \in 0..0 |-> b]
      OBVIOUS
    <2>3. Runs(h, 0, s, m, f, bytes)
      BY <2>1, <2>2 DEF Runs
    <2> QED
      BY <1>1, <2>3
  <1>3. x - 1 \in Nat /\ x - 1 \notin T
    BY <1>1, <1>2
  <1>4. PICK h : Runs(h, x - 1, s, m, f, bytes)
    BY <1>3
  <1>5. PICK e : e = Uv!ReadByte(h[x - 1], bytes[x])
    OBVIOUS
  <1>6. PICK g : g = [k \in 0..x |-> IF k = x THEN e ELSE h[k]]
    OBVIOUS
  <1>7. \A k \in 0..x : g[k] = IF k = 0 THEN [state |-> s, mem |-> m, fill |-> f, bad |-> FALSE]
                              ELSE Uv!ReadByte(g[k - 1], bytes[k])
    <2> SUFFICES ASSUME NEW k \in 0..x
                 PROVE  g[k] = IF k = 0 THEN [state |-> s, mem |-> m, fill |-> f, bad |-> FALSE]
                              ELSE Uv!ReadByte(g[k - 1], bytes[k])
      OBVIOUS
    <2>1. CASE k = x
      <3>1. g[k] = e /\ g[k - 1] = h[k - 1]
        BY <1>2, <1>3, <1>6, <2>1
      <3> QED
        BY <1>2, <1>5, <2>1, <3>1
    <2>2. CASE k # x
      <3>1. k \in 0..x - 1 /\ g[k] = h[k]
        BY <1>6, <2>2
      <3>2. k # 0 => g[k - 1] = h[k - 1]
        BY <1>6, <3>1
      <3>3. h[k] = IF k = 0 THEN [state |-> s, mem |-> m, fill |-> f, bad |-> FALSE]
                              ELSE Uv!ReadByte(h[k - 1], bytes[k])
        BY <1>4, <3>1 DEF Runs
      <3> QED
        BY <3>1, <3>2, <3>3
    <2> QED
      BY <2>1, <2>2
  <1>8. Runs(g, x, s, m, f, bytes)
    BY <1>6, <1>7 DEF Runs
  <1> QED
    BY <1>1, <1>8

\* What Machine returns is the last of these states.
LEMMA MachineRuns ==
  ASSUME NEW s, NEW m, NEW f, NEW bytes \in Seq(Bytes), NEW N \in Nat, N = Len(bytes)
  PROVE  \E h : Runs(h, N, s, m, f, bytes) /\ Uv!Machine(s, m, f, bytes) = h[N]
  <1>1. PICK g : g = CHOOSE h : Runs(h, N, s, m, f, bytes)
    OBVIOUS
  <1>2. Runs(g, N, s, m, f, bytes)
    BY <1>1, RunsExist
  <1>3. Uv!Machine(s, m, f, bytes) = g[N]
    BY <1>1 DEF Uv!Machine, Runs
  <1> QED
    BY <1>2, <1>3

\* The parser is in state p after the input s.
Parsed(s, p) ==
    /\ s \in Seq(Bytes) /\ p \in {"WAIT_FOR_MSG", "IN_MSG"}
    /\ Promise!Ranked(s) /\ (p = "IN_MSG" <=> Promise!InMessage(s))

\* The definitions of UvServer's EchoService are those of the theorems.
LEMMA SameService ==
  /\ \A p, b : Uv!Service!Reply(p, b) = Promise!Reply(p, b)
  /\ \A p, b : Uv!Service!NextParse(p, b) = Promise!NextParse(p, b)
  /\ \A s : Uv!Service!Echo(s) = Promise!Echo(s)
  /\ Uv!Service!Star = 42
  <1>1. /\ \A p, b : Uv!Service!Reply(p, b) = Promise!Reply(p, b)
        /\ \A p, b : Uv!Service!NextParse(p, b) = Promise!NextParse(p, b)
    BY Zenon DEF Uv!Service!Reply, Promise!Reply, Uv!Service!NextParse, Promise!NextParse,
       Uv!Service!Inc, Promise!Inc, Uv!Service!Caret, Promise!Caret, Uv!Service!Dollar, Promise!Dollar
  <1>2. \A s : Uv!Service!Echo(s) = Promise!Echo(s)
    BY Zenon DEF Uv!Service!Echo, Promise!Echo, Uv!Service!Payloads, Promise!Payloads,
       Uv!Service!Payload, Promise!Payload, Uv!Service!Nth, Promise!Nth, Uv!Service!Rank,
       Promise!Rank, Uv!Service!Inc, Promise!Inc, Uv!Service!Caret, Promise!Caret,
       Uv!Service!Dollar, Promise!Dollar, Uv!Service!Cardinality, Promise!Cardinality
  <1>3. Uv!Service!Star = 42
    BY DEF Uv!Service!Star
  <1> QED
    BY <1>1, <1>2, <1>3

\* What byte b adds to the input s: t.
Fed(s, p, b, t) ==
    /\ Parsed(t, Uv!Service!NextParse(p, b))
    /\ Uv!Service!Reply(p, b) = <<>> \/ \E x \in 0..255 : Uv!Service!Reply(p, b) = <<x>>
    /\ Uv!Service!Echo(s) \in Seq(0..255)
    /\ Uv!Service!Echo(t) = Uv!Service!Echo(s) \o Uv!Service!Reply(p, b)

\* One more byte of input.
LEMMA ByteParsed ==
  ASSUME NEW s, NEW p, Parsed(s, p), NEW b \in Bytes
  PROVE  Fed(s, p, b, Append(s, b))
  <1>1. Bytes \subseteq 0..255
    BY UvAssumption DEF UvAssumption
  <1>2. s \in Seq(Bytes) /\ Promise!Ranked(s)
    BY DEF Parsed
  <1>3. PICK t : t = Append(s, b)
    OBVIOUS
  <1>4. Promise!Grown(s, b, t)
    BY <1>3 DEF Promise!Grown
  <1>5. p = "IN_MSG" <=> Promise!InMessage(s)
    BY DEF Parsed
  <1>6. Promise!Echo(t) = Promise!Echo(s) \o Promise!Reply(p, b)
    BY ONLY <1>1, <1>2, <1>4, <1>5, b \in Bytes, Promise!EchoAppend
  <1>7. Promise!Ranked(t)
    BY ONLY <1>2, <1>4, b \in Bytes, Promise!AppendRanked
  <1>8. Promise!InMessage(t) <=> b = Promise!Caret \/ (Promise!InMessage(s) /\ b # Promise!Dollar)
    BY ONLY <1>2, <1>4, b \in Bytes, Promise!AppendPayload
  <1>9. Promise!Echo(s) \in Seq(0..255)
    BY ONLY <1>1, <1>2, Promise!EchoType
  <1>10. Promise!NextParse(p, b) \in {"WAIT_FOR_MSG", "IN_MSG"}
         /\ (Promise!NextParse(p, b) = "IN_MSG" <=> Promise!InMessage(t))
    BY <1>5, <1>8 DEF Parsed, Promise!NextParse, Promise!Caret, Promise!Dollar
  <1>11. Promise!Reply(p, b) = <<>> \/ \E x \in 0..255 : Promise!Reply(p, b) = <<x>>
    <2>1. Promise!Inc(b) \in 0..255
      BY <1>1, Promise!IncType
    <2> QED
      BY <2>1 DEF Promise!Reply
  <1>12. Parsed(t, Promise!NextParse(p, b))
    BY <1>2, <1>3, <1>7, <1>10 DEF Parsed
  <1> QED
    BY <1>3, <1>6, <1>9, <1>11, <1>12, SameService DEF Fed

\* The state of a peer whose input is empty.
LEMMA NothingParsed == Parsed(<<>>, "WAIT_FOR_MSG") /\ Uv!Service!Echo(<<>>) = <<>>
  <1>1. /\ Promise!Payloads(<<>>) = {} /\ Promise!Cardinality(Promise!Payloads(<<>>)) = 0
        /\ Promise!Ranked(<<>>) /\ ~Promise!InMessage(<<>>)
    BY Promise!EmptyInput
  <1>2. Promise!Echo(<<>>) = <<>>
    BY <1>1 DEF Promise!Echo
  <1> QED
    BY <1>1, <1>2, SameService DEF Parsed

\* sendbuf with its first f bytes in use.
BufOk(m, f) == m \in Seq(0..255) /\ f \in Nat /\ f <= Len(m) /\ Len(m) <= SENDBUF_SIZE
LoopOk(r) ==
    /\ r = [state |-> r.state, mem |-> r.mem, fill |-> r.fill, bad |-> r.bad]
    /\ r.state \in {"WAIT_FOR_MSG", "IN_MSG"} /\ r.bad \in BOOLEAN
    /\ BufOk(r.mem, r.fill)

\* z is s from place j to place k.
Slice(T, s, j, k, z) ==
    /\ z \in Seq(T) /\ Len(z) = (IF j <= k THEN k - j + 1 ELSE 0)
    /\ \A x \in 1..Len(z) : z[x] = s[j + x - 1]

\* SubSeq of a sequence.
LEMMA SliceIs ==
  ASSUME NEW T, NEW s \in Seq(T), NEW j \in Nat \ {0}, NEW k \in Nat, k <= Len(s), NEW z, z = SubSeq(s, j, k)
  PROVE  Slice(T, s, j, k, z)
  <1>1. PICK n \in Nat : n = Len(s)
    OBVIOUS
  <1>2. \A x \in j .. k : s[x] \in T
    BY <1>1
  <1>3. j \in Int /\ k \in Int
    OBVIOUS
  <1>4. /\ z \in Seq(T) /\ Len(z) = (IF j <= k THEN k - j + 1 ELSE 0)
        /\ \A x \in 1 .. k - j + 1 : z[x] = s[j + x - 1]
    BY ONLY <1>2, <1>3, z = SubSeq(s, j, k), SubSeqProperties
  <1> QED
    BY <1>4 DEF Slice

\* z is the first k items of s.
Front(T, s, k, z) == z \in Seq(T) /\ Len(z) = k /\ \A x \in 1..k : z[x] = s[x]

\* The start of a sequence.
LEMMA FrontIs ==
  ASSUME NEW T, NEW s \in Seq(T), NEW k \in Nat, k <= Len(s), NEW z, z = SubSeq(s, 1, k)
  PROVE  Front(T, s, k, z)
  <1>1. 1 \in Nat \ {0}
    OBVIOUS
  <1>2. Slice(T, s, 1, k, z)
    BY ONLY <1>1, s \in Seq(T), k \in Nat, k <= Len(s), z = SubSeq(s, 1, k), SliceIs
  <1>3. z \in Seq(T) /\ Len(z) = k /\ \A x \in 1..Len(z) : z[x] = s[1 + x - 1]
    BY <1>2 DEF Slice
  <1>4. \A x \in 1..k : 1 + x - 1 = x
    OBVIOUS
  <1> QED
    BY <1>3, <1>4 DEF Front

\* c is a followed by b.
Joined(T, a, b, c) ==
    /\ c \in Seq(T) /\ Len(c) = Len(a) + Len(b)
    /\ \A x \in 1..Len(a) : c[x] = a[x]
    /\ \A x \in 1..Len(b) : c[Len(a) + x] = b[x]

\* Concatenation of two sequences.
LEMMA JoinIs ==
  ASSUME NEW T, NEW a \in Seq(T), NEW b \in Seq(T), NEW c, c = a \o b
  PROVE  Joined(T, a, b, c)
  <1>1. PICK m \in Nat, n \in Nat : m = Len(a) /\ n = Len(b)
    OBVIOUS
  <1>2. /\ c \in Seq(T) /\ Len(c) = m + n
        /\ \A x \in 1 .. m + n : c[x] = IF x <= m THEN a[x] ELSE b[x - m]
    BY <1>1, ConcatProperties
  <1>3. \A x \in 1..m : c[x] = a[x]
    BY <1>2
  <1>4. \A x \in 1..n : c[m + x] = b[x]
    <2> SUFFICES ASSUME NEW x \in 1..n PROVE c[m + x] = b[x]
      OBVIOUS
    <2>1. m + x \in 1 .. m + n /\ ~(m + x <= m) /\ m + x - m = x
      OBVIOUS
    <2> QED
      BY <1>2, <2>1
  <1> QED
    BY <1>1, <1>2, <1>3, <1>4 DEF Joined

\* What is in a sequence with one item stored behind the first f.
Overwritten(T, m, f, x, c) ==
    /\ c \in Seq(T) /\ f + 1 <= Len(c)
    /\ Len(c) = Len(m) \/ Len(c) = f + 1
    /\ SubSeq(c, 1, f + 1) = SubSeq(m, 1, f) \o <<x>>

\* One byte stored behind the first f.
LEMMA StoreByte ==
  ASSUME NEW T, NEW m \in Seq(T), NEW f \in Nat, f <= Len(m), NEW x \in T, NEW c,
         c = SubSeq(m, 1, f) \o <<x>> \o SubSeq(m, f + 2, Len(m))
  PROVE  Overwritten(T, m, f, x, c)
  <1>1. PICK n \in Nat : n = Len(m)
    OBVIOUS
  <1>2. PICK a : a = SubSeq(m, 1, f)
    OBVIOUS
  <1>3. PICK z : z = SubSeq(m, f + 2, n)
    OBVIOUS
  <1>4. a \in Seq(T) /\ Len(a) = f
    <2>1. Front(T, m, f, a)
      BY <1>2, FrontIs
    <2> QED
      BY <2>1 DEF Front
  <1>5. z \in Seq(T) /\ Len(z) = IF f + 2 <= n THEN n - (f + 2) + 1 ELSE 0
    <2>1. f + 2 \in Nat \ {0} /\ n <= Len(m)
      BY <1>1
    <2>2. Slice(T, m, f + 2, n, z)
      BY <1>3, <2>1, SliceIs
    <2> QED
      BY <2>2 DEF Slice
  <1>6. PICK d : d = a \o <<x>>
    OBVIOUS
  <1>7. <<x>> \in Seq(T) /\ Len(<<x>>) = 1
    OBVIOUS
  <1>8. d \in Seq(T) /\ Len(d) = f + 1
    <2>1. Joined(T, a, <<x>>, d)
      BY <1>4, <1>6, <1>7, JoinIs
    <2> QED
      BY <1>4, <1>7, <2>1 DEF Joined
  <1>9. c = d \o z
    BY <1>1, <1>2, <1>3, <1>6
  <1>10. Joined(T, d, z, c)
    BY <1>5, <1>8, <1>9, JoinIs
  <1>11. c \in Seq(T) /\ f + 1 <= Len(c) /\ (Len(c) = n \/ Len(c) = f + 1)
    <2>1. Len(c) = (f + 1) + Len(z)
      BY <1>8, <1>10 DEF Joined
    <2>2. PICK l \in Nat : l = Len(z)
      <3>1. z \in Seq(T)
        BY <1>5
      <3> QED
        BY <3>1
    <2>3. PICK lc : lc = Len(c)
      OBVIOUS
    <2>4. lc = f + 1 + l
      BY <2>1, <2>2, <2>3
    <2>5. l = (IF f + 2 <= n THEN n - (f + 2) + 1 ELSE 0)
      BY <1>5, <2>2
    <2>6. f + 1 <= lc /\ (lc = n \/ lc = f + 1)
      BY ONLY f \in Nat, n \in Nat, l \in Nat, <2>4, <2>5
    <2>7. c \in Seq(T)
      BY <1>10 DEF Joined
    <2> QED
      BY <2>3, <2>6, <2>7
  <1>12. SubSeq(c, 1, f + 1) = d
    <2>1. PICK e : e = SubSeq(c, 1, f + 1)
      OBVIOUS
    <2>2. f + 1 \in Nat
      OBVIOUS
    <2>3. Front(T, c, f + 1, e)
      BY <1>11, <2>1, <2>2, FrontIs
    <2>4. e \in Seq(T) /\ Len(e) = f + 1 /\ \A k \in 1..f + 1 : e[k] = c[k]
      BY <2>3 DEF Front
    <2>5. \A k \in 1..Len(d) : c[k] = d[k]
      BY <1>10 DEF Joined
    <2>6. \A k \in 1..Len(e) : e[k] = d[k]
      BY <1>8, <2>4, <2>5
    <2> QED
      BY <1>8, <2>1, <2>4, <2>6, SeqEqual
  <1> QED
    BY <1>1, <1>2, <1>6, <1>11, <1>12 DEF Overwritten

\* What one turn of the loop does.
ByteDone(r, b, u) ==
    /\ LoopOk(u) /\ u.fill <= r.fill + 1
    /\ u.bad => r.bad \/ r.fill >= SENDBUF_SIZE
    /\ ~u.bad => /\ ~r.bad /\ u.state = Uv!Service!NextParse(r.state, b)
                 /\ SubSeq(u.mem, 1, u.fill) = SubSeq(r.mem, 1, r.fill) \o Uv!Service!Reply(r.state, b)

\* One turn of the loop.
LEMMA ByteStep ==
  ASSUME NEW r, LoopOk(r), NEW b \in Bytes, NEW u, u = Uv!ReadByte(r, b)
  PROVE  ByteDone(r, b, u)
  <1>1. PICK pay : pay = Uv!Service!Reply(r.state, b)
    OBVIOUS
  <1>2. PICK nx : nx = Uv!Service!NextParse(r.state, b)
    OBVIOUS
  <1>3. nx \in {"WAIT_FOR_MSG", "IN_MSG"}
    BY <1>2 DEF Uv!Service!NextParse
  <1>4. pay = <<>> \/ \E x \in 0..255 : pay = <<x>>
    <2>1. b \in 0..255
      BY UvAssumption DEF UvAssumption
    <2>2. Uv!Service!Inc(b) \in 0..255
      BY <2>1 DEF Uv!Service!Inc
    <2> QED
      BY <1>1, <2>2 DEF Uv!Service!Reply
  <1>5. PICK m, f : m = r.mem /\ f = r.fill
    OBVIOUS
  <1>6. m \in Seq(0..255) /\ f \in Nat /\ f <= Len(m) /\ Len(m) <= SENDBUF_SIZE /\ SENDBUF_SIZE \in Nat
    BY <1>5, UvAssumption DEF LoopOk, BufOk, UvAssumption
  <1>7. CASE r.bad
    <2>1. u = r
      BY <1>7 DEF Uv!ReadByte
    <2> QED
      BY <1>5, <1>6, <1>7, <2>1 DEF ByteDone
  <1>8. CASE ~r.bad /\ pay = <<>>
    <2>1. u = [r EXCEPT !.state = nx]
      BY <1>1, <1>2, <1>8 DEF Uv!ReadByte
    <2>2. u = [state |-> nx, mem |-> m, fill |-> f, bad |-> FALSE]
      BY <1>5, <1>8, <2>1 DEF LoopOk
    <2>3. SubSeq(m, 1, f) \o <<>> = SubSeq(m, 1, f)
      <3>1. PICK z : z = SubSeq(m, 1, f)
        OBVIOUS
      <3>2. Front(0..255, m, f, z)
        BY <1>6, <3>1, FrontIs
      <3> QED
        BY <3>1, <3>2, ConcatEmptySeq DEF Front
    <2>4. u.state = nx /\ u.mem = m /\ u.fill = f /\ ~u.bad
      BY <2>2
    <2>5. LoopOk(u)
      BY <1>3, <1>6, <2>2 DEF LoopOk, BufOk
    <2> QED
      BY <1>1, <1>2, <1>5, <1>6, <1>8, <2>3, <2>4, <2>5 DEF ByteDone
  <1>9. CASE ~r.bad /\ pay # <<>> /\ f >= SENDBUF_SIZE
    <2>1. u = [r EXCEPT !.bad = TRUE]
      BY <1>1, <1>5, <1>9 DEF Uv!ReadByte
    <2>2. u = [state |-> r.state, mem |-> m, fill |-> f, bad |-> TRUE]
      BY <1>5, <2>1 DEF LoopOk
    <2>3. LoopOk(u)
      BY <1>6, <2>2 DEF LoopOk, BufOk
    <2>4. u.bad /\ u.fill = f
      BY <2>2
    <2> QED
      BY <1>5, <1>6, <1>9, <2>3, <2>4 DEF ByteDone
  <1>10. CASE ~r.bad /\ pay # <<>> /\ ~(f >= SENDBUF_SIZE)
    <2>1. PICK x \in 0..255 : pay = <<x>>
      BY <1>4, <1>10
    <2>2. PICK c : c = SubSeq(m, 1, f) \o <<x>> \o SubSeq(m, f + 2, Len(m))
      OBVIOUS
    <2>3. u = [state |-> nx, fill |-> f + 1, bad |-> FALSE, mem |-> c]
      BY <1>1, <1>2, <1>5, <1>10, <2>1, <2>2 DEF Uv!ReadByte
    <2>4. Overwritten(0..255, m, f, x, c)
      BY <1>6, <2>2, StoreByte
    <2>5. BufOk(c, f + 1)
      BY <1>6, <1>10, <2>4 DEF BufOk, Overwritten
    <2>6. LoopOk(u)
      BY <1>3, <2>3, <2>5 DEF LoopOk
    <2>7. u.state = nx /\ u.fill = f + 1 /\ ~u.bad /\ u.mem = c
      BY <2>3
    <2>8. SubSeq(c, 1, f + 1) = SubSeq(m, 1, f) \o pay
      BY <2>1, <2>4 DEF Overwritten
    <2>9. u.fill <= r.fill + 1
      BY <1>5, <1>6, <2>7
    <2>10. SubSeq(u.mem, 1, u.fill) = SubSeq(r.mem, 1, r.fill) \o Uv!Service!Reply(r.state, b)
      BY <1>1, <1>5, <2>7, <2>8
    <2> QED
      BY <1>2, <1>10, <2>6, <2>7, <2>9, <2>10 DEF ByteDone
  <1> QED
    BY <1>7, <1>8, <1>9, <1>10

\* The buffer is in order after every byte, and an assert fails only when
\* more has come than fits.
LEMMA LoopSafe ==
  ASSUME NEW s \in {"WAIT_FOR_MSG", "IN_MSG"}, NEW m, NEW f, BufOk(m, f),
         NEW bytes \in Seq(Bytes), NEW N \in Nat, N = Len(bytes),
         NEW h, Runs(h, N, s, m, f, bytes), NEW n \in 0..N
  PROVE  LoopOk(h[n]) /\ h[n].fill <= f + n /\ (h[n].bad => f + n > SENDBUF_SIZE)
  <1> DEFINE P(k) == LoopOk(h[k]) /\ h[k].fill <= f + k /\ (h[k].bad => f + k > SENDBUF_SIZE)
             T == {k \in 0..N : ~P(k)}
  <1>1. f \in Nat /\ SENDBUF_SIZE \in Nat
    BY UvAssumption DEF BufOk, UvAssumption
  <1>2. P(0)
    <2>1. h[0] = [state |-> s, mem |-> m, fill |-> f, bad |-> FALSE]
      BY DEF Runs
    <2>2. LoopOk(h[0])
      BY <2>1 DEF LoopOk
    <2>3. h[0].fill = f /\ ~h[0].bad
      BY <2>1
    <2> QED
      BY <1>1, <2>2, <2>3
  <1>3. ASSUME NEW k \in 1..N, P(k - 1) PROVE P(k)
    <2>0. k \in 0..N /\ k # 0
      OBVIOUS
    <2>1. h[k] = Uv!ReadByte(h[k - 1], bytes[k])
      BY <2>0 DEF Runs
    <2>2. bytes[k] \in Bytes
      OBVIOUS
    <2>3. ByteDone(h[k - 1], bytes[k], h[k])
      BY <1>3, <2>1, <2>2, ByteStep
    <2>4. LoopOk(h[k]) /\ h[k].fill <= h[k - 1].fill + 1 /\ (h[k].bad => h[k - 1].bad \/ h[k - 1].fill >= SENDBUF_SIZE)
      BY <2>3 DEF ByteDone
    <2>5. h[k - 1].fill \in Nat /\ h[k].fill \in Nat
      BY <1>3, <2>4 DEF LoopOk, BufOk
    <2>6. h[k - 1].fill <= f + (k - 1) /\ (h[k - 1].bad => f + (k - 1) > SENDBUF_SIZE)
      BY <1>3
    <2> QED
      BY <1>1, <2>4, <2>5, <2>6
  <1> SUFFICES ASSUME T # {} PROVE FALSE
    OBVIOUS
  <1>4. PICK x \in T : \A y \in T : x <= y
    <2>1. T \subseteq Nat
      OBVIOUS
    <2> HIDE DEF T
    <2> QED
      BY <2>1, LeastNat
  <1>5. x \in 0..N /\ ~P(x)
    BY <1>4
  <1>6. x \in 1..N /\ x - 1 \in 0..N /\ x - 1 \notin T
    BY <1>2, <1>4, <1>5
  <1>7. P(x - 1)
    BY <1>6
  <1> HIDE DEF P
  <1> QED
    BY <1>3, <1>5, <1>6, <1>7

\* The input so far with one more byte.
LEMMA InputGrows ==
  ASSUME NEW g \in Seq(Bytes), NEW bytes \in Seq(Bytes), NEW k \in 1..Len(bytes)
  PROVE  /\ g \o SubSeq(bytes, 1, k) = Append(g \o SubSeq(bytes, 1, k - 1), bytes[k])
         /\ g \o SubSeq(bytes, 1, k) \in Seq(Bytes)
  <1>1. PICK n \in Nat : n = Len(g)
    OBVIOUS
  <1>2. k \in Nat /\ k - 1 \in Nat /\ k <= Len(bytes) /\ k - 1 <= Len(bytes) /\ bytes[k] \in Bytes
    OBVIOUS
  <1>3. PICK a : a = SubSeq(bytes, 1, k)
    OBVIOUS
  <1>4. PICK b : b = SubSeq(bytes, 1, k - 1)
    OBVIOUS
  <1>5. a \in Seq(Bytes) /\ Len(a) = k /\ \A x \in 1..k : a[x] = bytes[x]
    BY <1>2, <1>3, FrontIs DEF Front
  <1>6. b \in Seq(Bytes) /\ Len(b) = k - 1 /\ \A x \in 1..k - 1 : b[x] = bytes[x]
    <2>1. Front(Bytes, bytes, k - 1, b)
      BY <1>2, <1>4, FrontIs
    <2> QED
      BY <2>1 DEF Front
  <1>7. PICK c : c = g \o a
    OBVIOUS
  <1>8. PICK d : d = g \o b
    OBVIOUS
  <1>9. Joined(Bytes, g, a, c) /\ Joined(Bytes, g, b, d)
    BY <1>5, <1>6, <1>7, <1>8, JoinIs
  <1>10. /\ c \in Seq(Bytes) /\ Len(c) = n + k /\ \A x \in 1..n : c[x] = g[x]
         /\ \A x \in 1..k : c[n + x] = bytes[x]
    BY <1>1, <1>5, <1>9 DEF Joined
  <1>11. /\ d \in Seq(Bytes) /\ Len(d) = n + (k - 1) /\ \A x \in 1..n : d[x] = g[x]
         /\ \A x \in 1..k - 1 : d[n + x] = bytes[x]
    BY <1>1, <1>6, <1>9 DEF Joined
  <1>12. PICK e : e = Append(d, bytes[k])
    OBVIOUS
  <1>13. /\ e \in Seq(Bytes) /\ Len(e) = n + k /\ e[n + k] = bytes[k]
         /\ \A x \in 1..n + (k - 1) : e[x] = d[x]
    BY <1>2, <1>11, <1>12
  <1>14. ASSUME NEW x \in 1..n + k PROVE c[x] = e[x]
    <2>1. CASE x <= n
      BY <1>2, <1>10, <1>11, <1>13, <2>1
    <2>2. CASE x > n
      <3>1. PICK y \in 1..k : x = n + y
        BY <2>2
      <3>2. CASE y = k
        BY <1>2, <1>10, <1>13, <3>1, <3>2
      <3>3. CASE y # k
        <4>1. y \in 1..k - 1 /\ n + y \in 1..n + (k - 1)
          BY <1>2, <3>3
        <4> QED
          BY <1>10, <1>11, <1>13, <3>1, <4>1
      <3> QED
        BY <3>2, <3>3
    <2> QED
      BY <2>1, <2>2
  <1>15. c = e
    BY <1>10, <1>13, <1>14, SeqEqual
  <1> QED
    BY <1>3, <1>4, <1>7, <1>8, <1>10, <1>12, <1>15

\* Concatenation of sequences of bytes.
LEMMA JoinThree ==
  ASSUME NEW T, NEW u \in Seq(T), NEW v \in Seq(T), NEW w \in Seq(T)
  PROVE  (u \o v) \o w = u \o (v \o w) /\ u \o v \in Seq(T)
  BY ConcatAssociative, ConcatProperties

\* What the client has heard and what is staged is the echo of g.
EchoSoFar(o, g, s, m, f) ==
    /\ Parsed(g, s) /\ o \in Seq(0..255)
    /\ o \o SubSeq(m, 1, f) = <<Uv!Service!Star>> \o Uv!Service!Echo(g)

\* It is so after every byte.
LEMMA LoopEchoes ==
  ASSUME NEW s, NEW m, NEW f, BufOk(m, f), NEW g, NEW o, EchoSoFar(o, g, s, m, f),
         NEW bytes \in Seq(Bytes), NEW N \in Nat, N = Len(bytes),
         NEW h, Runs(h, N, s, m, f, bytes), NEW n \in 0..N
  PROVE  ~h[n].bad => EchoSoFar(o, g \o SubSeq(bytes, 1, n), h[n].state, h[n].mem, h[n].fill)
  <1>0. /\ Parsed(g, s) /\ o \in Seq(0..255)
        /\ o \o SubSeq(m, 1, f) = <<Uv!Service!Star>> \o Uv!Service!Echo(g)
    BY DEF EchoSoFar
  <1> DEFINE P(k) == ~h[k].bad =>
                       /\ Parsed(g \o SubSeq(bytes, 1, k), h[k].state)
                       /\ o \o SubSeq(h[k].mem, 1, h[k].fill)
                            = <<Uv!Service!Star>> \o Uv!Service!Echo(g \o SubSeq(bytes, 1, k))
             T == {k \in 0..N : ~P(k)}
  <1>1. s \in {"WAIT_FOR_MSG", "IN_MSG"} /\ g \in Seq(Bytes)
    BY <1>0 DEF Parsed
  <1>2. P(0)
    <2>1. h[0] = [state |-> s, mem |-> m, fill |-> f, bad |-> FALSE]
      BY DEF Runs
    <2>2. h[0].state = s /\ h[0].mem = m /\ h[0].fill = f
      BY <2>1
    <2>3. SubSeq(bytes, 1, 0) = <<>>
      BY SubSeqEmpty
    <2>4. g \o SubSeq(bytes, 1, 0) = g
      BY <1>1, <2>3, ConcatEmptySeq
    <2> QED
      BY <1>0, <2>2, <2>4
  <1>3. ASSUME NEW k \in 1..N, P(k - 1) PROVE P(k)
    <2> SUFFICES ASSUME ~h[k].bad
                 PROVE  /\ Parsed(g \o SubSeq(bytes, 1, k), h[k].state)
                        /\ o \o SubSeq(h[k].mem, 1, h[k].fill)
                            = <<Uv!Service!Star>> \o Uv!Service!Echo(g \o SubSeq(bytes, 1, k))
      OBVIOUS
    <2>0. k \in 0..N /\ k # 0 /\ k - 1 \in 0..N
      OBVIOUS
    <2>1. PICK r, u, b : r = h[k - 1] /\ u = h[k] /\ b = bytes[k]
      OBVIOUS
    <2>2. u = Uv!ReadByte(r, b) /\ b \in Bytes
      <3>1. u = Uv!ReadByte(r, b)
        BY <2>0, <2>1 DEF Runs
      <3>2. bytes[k] \in Bytes
        OBVIOUS
      <3> QED
        BY <2>1, <3>1, <3>2
    <2>3. LoopOk(r)
      BY <1>1, <2>0, <2>1, LoopSafe
    <2>4. ByteDone(r, b, u)
      BY <2>2, <2>3, ByteStep
    <2>5. /\ ~r.bad /\ u.state = Uv!Service!NextParse(r.state, b)
          /\ SubSeq(u.mem, 1, u.fill) = SubSeq(r.mem, 1, r.fill) \o Uv!Service!Reply(r.state, b)
      BY <2>1, <2>4 DEF ByteDone
    <2>6. PICK i, j : i = g \o SubSeq(bytes, 1, k - 1) /\ j = g \o SubSeq(bytes, 1, k)
      OBVIOUS
    <2>7. j = Append(i, b)
      BY <1>1, <2>1, <2>6, InputGrows
    <2>8. /\ Parsed(i, r.state)
          /\ o \o SubSeq(r.mem, 1, r.fill) = <<Uv!Service!Star>> \o Uv!Service!Echo(i)
      BY <1>3, <2>1, <2>5, <2>6
    <2>9. PICK reply : reply = Uv!Service!Reply(r.state, b)
      OBVIOUS
    <2>10. /\ Parsed(j, u.state)
           /\ reply = <<>> \/ \E x \in 0..255 : reply = <<x>>
           /\ Uv!Service!Echo(i) \in Seq(0..255)
           /\ Uv!Service!Echo(j) = Uv!Service!Echo(i) \o reply
      <3>1. Fed(i, r.state, b, j)
        BY <2>2, <2>7, <2>8, ByteParsed
      <3> QED
        BY <2>5, <2>9, <3>1 DEF Fed
    <2>11. reply \in Seq(0..255)
      <3>1. CASE reply = <<>>
        BY <3>1
      <3>2. CASE \E x \in 0..255 : reply = <<x>>
        <4>1. PICK x \in 0..255 : reply = <<x>>
          BY <3>2
        <4>2. <<x>> \in Seq(0..255)
          OBVIOUS
        <4> QED
          BY <4>1, <4>2
      <3> QED
        BY <2>10, <3>1, <3>2
    <2>12. PICK q : q = SubSeq(r.mem, 1, r.fill)
      OBVIOUS
    <2>13. q \in Seq(0..255)
      <3>1. r.mem \in Seq(0..255) /\ r.fill \in Nat /\ r.fill <= Len(r.mem)
        BY <2>3 DEF LoopOk, BufOk
      <3>2. Front(0..255, r.mem, r.fill, q)
        BY <2>12, <3>1, FrontIs
      <3> QED
        BY <3>2 DEF Front
    <2>14. PICK star : star = <<Uv!Service!Star>>
      OBVIOUS
    <2>15. star \in Seq(0..255)
      BY <2>14, SameService
    <2>16. o \o (q \o reply) = (o \o q) \o reply
      <3>1. PICK B : B = 0..255
        OBVIOUS
      <3>2. o \in Seq(B) /\ q \in Seq(B) /\ reply \in Seq(B)
        BY <1>0, <2>11, <2>13, <3>1
      <3>3. (o \o q) \o reply = o \o (q \o reply)
        BY ONLY <3>2, ConcatAssociative
      <3> QED
        BY <3>3
    <2>17. star \o (Uv!Service!Echo(i) \o reply) = (star \o Uv!Service!Echo(i)) \o reply
      <3>1. PICK e : e = Uv!Service!Echo(i)
        OBVIOUS
      <3>2. PICK B : B = 0..255
        OBVIOUS
      <3>3. e \in Seq(B) /\ star \in Seq(B) /\ reply \in Seq(B)
        BY <2>10, <2>11, <2>15, <3>1, <3>2
      <3>4. star \o (e \o reply) = (star \o e) \o reply
        BY ONLY <3>3, JoinThree
      <3> QED
        BY <3>1, <3>4
    <2>18. o \o SubSeq(u.mem, 1, u.fill) = star \o Uv!Service!Echo(j)
      BY <2>5, <2>8, <2>9, <2>10, <2>12, <2>14, <2>16, <2>17
    <2> QED
      BY <2>1, <2>6, <2>10, <2>14, <2>18
  <1> SUFFICES ASSUME T # {} PROVE FALSE
    <2>1. \A k \in 0..N : P(k) => (~h[k].bad => EchoSoFar(o, g \o SubSeq(bytes, 1, k), h[k].state, h[k].mem, h[k].fill))
      BY <1>0 DEF EchoSoFar
    <2> HIDE DEF P
    <2> QED
      BY <2>1
  <1>4. PICK x \in T : \A y \in T : x <= y
    <2>1. T \subseteq Nat
      OBVIOUS
    <2> HIDE DEF T
    <2> QED
      BY <2>1, LeastNat
  <1>5. x \in 0..N /\ ~P(x)
    BY <1>4
  <1>6. x \in 1..N /\ x - 1 \in 0..N /\ x - 1 \notin T
    <2>1. x # 0
      BY <1>2, <1>5
    <2>2. x \in 1..N /\ x - 1 \in 0..N
      BY <1>5, <2>1
    <2> HIDE DEF T
    <2> QED
      BY <1>4, <2>2
  <1>7. P(x - 1)
    BY <1>6
  <1> HIDE DEF P
  <1> QED
    BY <1>3, <1>5, <1>6, <1>7

-----------------------------------------------------------------------------
(* uv-server.  Write requests.                                             *)

\* The write requests; the kernel has taken no more than was asked for.
Requests == {w \in [len : Nat, done : Nat, ack : BOOLEAN] : w.done <= w.len}

\* A request, and the same request after the kernel has taken n bytes.
LEMMA RequestIs ==
  /\ \A w \in Requests : w.len \in Nat /\ w.done \in Nat /\ w.ack \in BOOLEAN /\ w.done <= w.len
  /\ \A l \in Nat, a \in BOOLEAN : [len |-> l, done |-> 0, ack |-> a] \in Requests
  /\ \A w \in Requests, n \in Nat : n <= w.len - w.done =>
       LET v == [w EXCEPT !.done = @ + n]
       IN  v \in Requests /\ v.len = w.len /\ v.ack = w.ack /\ v.done = w.done + n
  <1>1. \A w \in Requests : w.len \in Nat /\ w.done \in Nat /\ w.ack \in BOOLEAN /\ w.done <= w.len
    BY DEF Requests
  <1>2. \A l \in Nat, a \in BOOLEAN : [len |-> l, done |-> 0, ack |-> a] \in Requests
    BY DEF Requests
  <1>3. ASSUME NEW w \in Requests, NEW n \in Nat, n <= w.len - w.done
        PROVE  LET v == [w EXCEPT !.done = @ + n]
               IN  v \in Requests /\ v.len = w.len /\ v.ack = w.ack /\ v.done = w.done + n
    BY <1>3 DEF Requests
  <1> QED
    BY <1>1, <1>2, <1>3

\* The first of some requests, and the others.
LEMMA FirstOf ==
  ASSUME NEW S, NEW ws \in Seq(S), ws # <<>>
  PROVE  /\ Head(ws) = ws[1] /\ ws[1] \in S /\ Tail(ws) \in Seq(S)
         /\ Len(ws) \in Nat /\ Len(ws) >= 1 /\ Len(Tail(ws)) = Len(ws) - 1
  OBVIOUS

\* Another first one.
LEMMA FirstReplaced ==
  ASSUME NEW S, NEW ws \in Seq(S), ws # <<>>, NEW w \in S
  PROVE  /\ <<w>> \o Tail(ws) \in Seq(S) /\ (<<w>> \o Tail(ws))[1] = w
         /\ Len(<<w>> \o Tail(ws)) = Len(ws) /\ <<w>> \o Tail(ws) # <<>>
  <1>1. PICK t \in Seq(S) : t = Tail(ws) /\ Len(t) = Len(ws) - 1
    BY FirstOf
  <1>2. <<w>> \o t \in Seq(S) /\ (<<w>> \o t)[1] = w /\ Len(<<w>> \o t) = Len(t) + 1
    OBVIOUS
  <1> QED
    BY <1>1, <1>2, FirstOf

\* m from d to l in two parts, behind o.
TwoParts(S, o, m, d, n, l) ==
    /\ o \o SubSeq(m, d + 1, d + n) \in Seq(S)
    /\ (o \o SubSeq(m, d + 1, d + n)) \o SubSeq(m, (d + n) + 1, l) = o \o SubSeq(m, d + 1, l)

\* What the kernel takes and what stays are what was there.
LEMMA Divided ==
  ASSUME NEW S, NEW o \in Seq(S), NEW m \in Seq(S), NEW d \in Nat, NEW n \in Nat, NEW l \in Nat,
         d + n <= l, l <= Len(m)
  PROVE  TwoParts(S, o, m, d, n, l)
  <1>1. PICK a : a = SubSeq(m, d + 1, d + n)
    OBVIOUS
  <1>2. PICK b : b = SubSeq(m, (d + n) + 1, l)
    OBVIOUS
  <1>3. PICK c : c = SubSeq(m, d + 1, l)
    OBVIOUS
  <1> PICK L \in Nat : L = Len(m)
    OBVIOUS
  <1>0. /\ d + 1 \in Nat \ {0} /\ (d + n) + 1 \in Nat \ {0} /\ d + n \in Nat
        /\ d + n <= Len(m) /\ l <= Len(m)
    OBVIOUS
  <1>4. Slice(S, m, d + 1, d + n, a)
    BY ONLY <1>0, <1>1, m \in Seq(S), SliceIs
  <1>5. Slice(S, m, (d + n) + 1, l, b)
    BY ONLY <1>0, <1>2, m \in Seq(S), l \in Nat, SliceIs
  <1>6. Slice(S, m, d + 1, l, c)
    BY ONLY <1>0, <1>3, m \in Seq(S), l \in Nat, SliceIs
  <1>7. c = a \o b
    <2>1. a \in Seq(S) /\ Len(a) = n /\ \A x \in 1..n : a[x] = m[(d + 1) + x - 1]
      BY <1>4 DEF Slice
    <2>2. b \in Seq(S) /\ Len(b) = l - (d + n) /\ \A x \in 1..(l - (d + n)) : b[x] = m[((d + n) + 1) + x - 1]
      BY <1>5 DEF Slice
    <2>3. c \in Seq(S) /\ Len(c) = l - d /\ \A x \in 1..(l - d) : c[x] = m[(d + 1) + x - 1]
      BY <1>6 DEF Slice
    <2>4. PICK z : z = a \o b
      OBVIOUS
    <2>5. Joined(S, a, b, z)
      BY <2>1, <2>2, <2>4, JoinIs
    <2>6. /\ z \in Seq(S) /\ Len(z) = l - d /\ \A x \in 1..n : z[x] = a[x]
          /\ \A x \in 1..(l - (d + n)) : z[n + x] = b[x]
      BY <2>1, <2>2, <2>5 DEF Joined
    <2>7. ASSUME NEW x \in 1..(l - d) PROVE z[x] = c[x]
      <3>1. CASE x <= n
        BY <2>1, <2>3, <2>6, <3>1
      <3>2. CASE x > n
        <4>1. PICK y \in 1..(l - (d + n)) : x = n + y
          <5>1. x - n \in 1..(l - (d + n)) /\ x = n + (x - n)
            BY <3>2
          <5> QED
            BY <5>1
        <4>2. ((d + n) + 1) + y - 1 = (d + 1) + (n + y) - 1
          OBVIOUS
        <4>3. z[x] = b[y] /\ b[y] = m[((d + n) + 1) + y - 1]
          BY <2>2, <2>6, <4>1
        <4>4. c[x] = m[(d + 1) + x - 1]
          BY <2>3
        <4> QED
          BY <4>1, <4>2, <4>3, <4>4
      <3> QED
        BY <3>1, <3>2
    <2>8. z = c
      BY <2>3, <2>6, <2>7, SeqEqual
    <2> QED
      BY <2>4, <2>8
  <1>8. a \in Seq(S) /\ b \in Seq(S)
    BY <1>4, <1>5 DEF Slice
  <1>9. (o \o a) \o b = o \o (a \o b) /\ o \o a \in Seq(S)
    BY ONLY <1>8, o \in Seq(S), JoinThree
  <1> QED
    BY <1>1, <1>2, <1>3, <1>7, <1>9 DEF TwoParts

\* One item, alone and with nothing beside it.
LEMMA JustOne ==
  ASSUME NEW S, NEW x \in S
  PROVE  /\ <<x>> \in Seq(S) /\ Len(<<x>>) = 1 /\ SubSeq(<<x>>, 1, 1) = <<x>>
         /\ <<x>> \o <<>> = <<x>> /\ <<>> \o <<x>> = <<x>>
  <1>1. <<x>> \in Seq(S) /\ Len(<<x>>) = 1
    OBVIOUS
  <1> QED
    BY <1>1, SubSeqFull, ConcatEmptySeq

\* uv__write on the requests ws leaves the requests old, new; it adds to
\* what the client hears.
Pushed(ws, m) ==
    /\ room' \in 0..OutCap /\ writes' \in Seq(Requests) /\ writes' # <<>> /\ Len(writes') = Len(ws)
    /\ writes'[1].len = ws[1].len /\ writes'[1].ack = ws[1].ack
    /\ heard \in Seq(0..255) /\ m \in Seq(0..255) /\ ws[1].len <= Len(m) =>
         /\ heard' \in Seq(0..255)
         /\ heard' \o SubSeq(m, writes'[1].done + 1, writes'[1].len)
              = heard \o SubSeq(m, ws[1].done + 1, ws[1].len)

\* uv__write gives the kernel the next bytes of the first request.
LEMMA PushIs ==
  ASSUME NEW ws \in Seq(Requests), ws # <<>>, NEW m, room \in 0..OutCap, Uv!Push(ws, m)
  PROVE  Pushed(ws, m)
  <1>0. OutCap \in Nat /\ room \in Nat /\ room <= OutCap
    BY UvAssumption DEF UvAssumption
  <1>1. PICK w \in Requests : w = Head(ws) /\ w = ws[1]
    BY FirstOf
  <1>2. w.len \in Nat /\ w.done \in Nat /\ w.done <= w.len
    BY RequestIs
  <1>3. PICK n : n = Uv!Least(room, w.len - w.done)
    OBVIOUS
  <1>4. n \in Nat /\ n <= room /\ n <= w.len - w.done
    BY <1>0, <1>2, <1>3 DEF Uv!Least
  <1>5. PICK v : v = [w EXCEPT !.done = @ + n]
    OBVIOUS
  <1>6. v \in Requests /\ v.len = w.len /\ v.ack = w.ack /\ v.done = w.done + n
    BY <1>4, <1>5, RequestIs
  <1>7. /\ heard' = heard \o SubSeq(m, w.done + 1, w.done + n)
        /\ room' = room - n /\ writes' = <<v>> \o Tail(ws)
    BY <1>1, <1>3, <1>5 DEF Uv!Push
  <1>8. writes' \in Seq(Requests) /\ writes'[1] = v /\ Len(writes') = Len(ws) /\ writes' # <<>>
    BY <1>6, <1>7, FirstReplaced
  <1>9. room' \in 0..OutCap
    BY <1>0, <1>4, <1>7
  <1>10. ASSUME heard \in Seq(0..255), m \in Seq(0..255), w.len <= Len(m)
         PROVE  /\ heard' \in Seq(0..255)
                /\ heard' \o SubSeq(m, v.done + 1, v.len) = heard \o SubSeq(m, w.done + 1, w.len)
    <2>1. w.done + n <= w.len
      BY <1>2, <1>4
    <2>2. PICK d \in Nat, l \in Nat : d = w.done /\ l = w.len
      BY <1>2
    <2>3. PICK B : B = 0..255
      OBVIOUS
    <2>4. heard \in Seq(B) /\ m \in Seq(B) /\ d + n <= l /\ l <= Len(m) /\ n \in Nat
      BY <1>4, <1>10, <2>1, <2>2, <2>3
    <2>5. TwoParts(B, heard, m, d, n, l)
      BY ONLY <2>4, d \in Nat, l \in Nat, Divided
    <2> QED
      BY <1>6, <1>7, <2>2, <2>3, <2>5 DEF TwoParts
  <1> QED
    BY <1>1, <1>6, <1>8, <1>9, <1>10 DEF Pushed

\* uv_write: what follows when a write is under way already, and when not.
Written(l, a, m) ==
    /\ room' \in 0..OutCap /\ writes' \in Seq(Requests)
    /\ writes = <<>> =>
         /\ writes' # <<>> /\ Len(writes') = 1 /\ writes'[1].len = l /\ writes'[1].ack = a
         /\ heard \in Seq(0..255) /\ m \in Seq(0..255) /\ l <= Len(m) =>
              /\ heard' \in Seq(0..255)
              /\ heard' \o SubSeq(m, writes'[1].done + 1, writes'[1].len) = heard \o SubSeq(m, 1, l)

\* uv_write queues a request, and tries the first one.
LEMMA uv_writeIs ==
  ASSUME writes \in Seq(Requests), NEW l \in Nat, NEW a \in BOOLEAN, NEW m, room \in 0..OutCap,
         Uv!uv_write(l, a, m)
  PROVE  Written(l, a, m)
  <1>1. PICK w : w = [len |-> l, done |-> 0, ack |-> a]
    OBVIOUS
  <1>2. w \in Requests /\ w.len = l /\ w.done = 0 /\ w.ack = a
    BY <1>1, RequestIs
  <1>3. <<w>> \in Seq(Requests) /\ <<w>> # <<>> /\ Len(<<w>>) = 1 /\ <<w>>[1] = w
    BY <1>2
  <1>4. CASE writes = <<>> /\ client # "reset"
    <2>1. Uv!Push(<<w>>, m)
      BY <1>1, <1>4 DEF Uv!uv_write
    <2>2. Pushed(<<w>>, m)
      BY <1>3, <2>1, PushIs
    <2>3. 0 + 1 = 1
      OBVIOUS
    <2> QED
      BY <1>2, <1>3, <2>2, <2>3 DEF Pushed, Written
  <1>5. CASE ~(writes = <<>> /\ client # "reset")
    <2>1. writes' = Append(writes, w) /\ heard' = heard /\ room' = room
      BY <1>1, <1>5 DEF Uv!uv_write
    <2>2. writes' \in Seq(Requests)
      BY <1>2, <2>1
    <2>3. ASSUME writes = <<>> PROVE writes' = <<w>>
      BY <2>1, <2>3
    <2>4. 0 + 1 = 1
      OBVIOUS
    <2> QED
      BY <1>2, <1>3, <2>1, <2>2, <2>3, <2>4 DEF Written
  <1> QED
    BY <1>4, <1>5

-----------------------------------------------------------------------------
(* uv-server.  The invariant.                                              *)

\* The state of the server as far as it is the same for every history.
UvShape ==
    /\ BufOk(mem, fill) /\ room \in 0..OutCap
    /\ got \in Seq(Bytes) /\ inbox \in Seq(Bytes) /\ writes \in Seq(Requests)
    /\ peer \in {"none", "acking", "open", "closing", "gone"}
    /\ peer = "open" => state \in {"WAIT_FOR_MSG", "IN_MSG"}
    /\ peer = "closing" => client \in {"left", "reset"}

\* Before the connection.
UvStart == peer = "none" => fill = 0 /\ writes = <<>> /\ got = <<>> /\ heard = <<>>

\* While no read has overtaken a callback there is one request at a time,
\* for all that is staged.
UvFlow ==
    ~behind /\ ~Uv!UvEnded =>
        /\ peer \in {"acking", "open"} =>
             heard \in Seq(0..255) /\ Len(writes) <= 1 /\ (writes # <<>> => writes[1].len = fill)
        /\ peer = "acking" => got = <<>> /\ mem = <<42>> /\ fill = 1 /\ writes # <<>> /\ writes[1].ack
        /\ peer = "open" =>
             /\ Parsed(got, state) /\ (writes # <<>> => ~writes[1].ack)
             /\ writes = <<>> => fill = 0 \/ killed

\* The server's share of the invariant.
UvInv == UvShape /\ UvStart /\ UvFlow /\ Uv!UvEchoExact /\ Uv!UvEndsOnlyFor

\* The invariant holds at first.
LEMMA UvInitInv == Uv!UvInit => UvInv
  <1> SUFFICES ASSUME Uv!UvInit PROVE UvInv
    OBVIOUS
  <1>1. OutCap \in Nat /\ SENDBUF_SIZE \in Nat
    BY UvAssumption DEF UvAssumption
  <1>2. <<>> \in Seq(Requests) /\ <<>> \in Seq(Bytes) /\ <<>> \in Seq(0..255) /\ Len(<<>>) = 0
    OBVIOUS
  <1> QED
    BY <1>1, <1>2 DEF Uv!UvInit, UvInv, UvShape, UvStart, UvFlow, BufOk, Uv!UvEchoExact,
       Uv!UvEndsOnlyFor, Uv!UvEnded

\* The client's own steps.
LEMMA UvClientStep ==
  ASSUME UvInv,
         \/ Uv!ClientConnect \/ (\E b \in Bytes : Uv!ClientSend(b)) \/ Uv!ClientRead \/ Uv!ClientLeave
  PROVE  UvInv'
  <1>1. /\ UNCHANGED <<phase, peer, state, mem, fill, writes, got, heard, behind, killed, nread>>
        /\ client' = client \/ client' \in {"left", "reset"} \/ client = "away"
    BY DEF Uv!ClientConnect, Uv!ClientSend, Uv!ClientRead, Uv!ClientLeave, Uv!uvHistory
  <1>2. UvStart' /\ UvFlow' /\ Uv!UvEchoExact'
    BY <1>1 DEF UvInv, UvStart, UvFlow, Uv!UvEchoExact, Uv!UvEnded
  <1>3. Uv!UvEndsOnlyFor'
    BY <1>1 DEF UvInv, Uv!UvEndsOnlyFor
  <1>4. room' \in 0..OutCap /\ inbox' \in Seq(Bytes)
    <2>1. room' = room \/ room' = OutCap
      BY DEF Uv!ClientConnect, Uv!ClientSend, Uv!ClientRead, Uv!ClientLeave
    <2>2. room' \in 0..OutCap
      BY <2>1, UvAssumption DEF UvAssumption, UvInv, UvShape
    <2>3. inbox' = inbox \/ \E b \in Bytes : inbox' = Append(inbox, b)
      BY DEF Uv!ClientConnect, Uv!ClientSend, Uv!ClientRead, Uv!ClientLeave
    <2>4. inbox \in Seq(Bytes)
      BY DEF UvInv, UvShape
    <2> QED
      BY <2>2, <2>3, <2>4, AppendProperties
  <1>5. UvShape'
    BY <1>1, <1>4 DEF UvInv, UvShape, BufOk
  <1> QED
    BY <1>2, <1>3, <1>5 DEF UvInv

\* A phase ends, or the reading does.
LEMMA UvPhaseStep ==
  ASSUME UvInv, Uv!ReadEnd \/ Uv!PollDone \/ Uv!CloseDone \/ Uv!PendingDone
  PROVE  UvInv'
  <1>1. /\ UNCHANGED <<state, mem, fill, writes, got, inbox, heard, behind, killed, nread, room, client>>
        /\ peer' = peer \/ (peer' = "closing" /\ client \in {"left", "reset"}) \/ peer' = "gone"
        /\ phase \in {"pending", "poll", "closing"}
        /\ phase' \in {"pending", "poll", "closing"} \/ (phase' = "stopped" /\ killed)
    BY DEF Uv!ReadEnd, Uv!PollDone, Uv!CloseDone, Uv!PendingDone, Uv!uvHistory
  <1>2. UvStart' /\ UvFlow' /\ Uv!UvEchoExact'
    BY <1>1 DEF UvInv, UvStart, UvFlow, Uv!UvEchoExact, Uv!UvEnded
  <1>3. Uv!UvEndsOnlyFor'
    BY <1>1 DEF UvInv, Uv!UvEndsOnlyFor
  <1>5. UvShape'
    BY <1>1 DEF UvInv, UvShape, BufOk
  <1> QED
    BY <1>2, <1>3, <1>5 DEF UvInv

\* on_peer_connected stages the '*'.
LEMMA UvConnectStep ==
  ASSUME UvInv, Uv!on_peer_connected
  PROVE  UvInv'
  <1>0. /\ UNCHANGED <<phase, inbox, got, client, nread, behind, killed>> /\ peer = "none" /\ phase = "poll"
    BY DEF Uv!on_peer_connected, Uv!uvHistory
  <1>1. got = <<>> /\ heard = <<>> /\ writes = <<>> /\ fill = 0
    BY <1>0 DEF UvInv, UvStart
  <1>2. Uv!UvEndsOnlyFor'
    BY <1>0 DEF UvInv, Uv!UvEndsOnlyFor
  <1>3. CASE peer' = "closing" /\ client = "reset" /\ UNCHANGED <<state, mem, fill, writes, heard, room>>
    BY <1>0, <1>2, <1>3 DEF UvInv, UvShape, BufOk, UvStart, UvFlow, Uv!UvEchoExact
  <1>4. CASE /\ peer' = "acking" /\ mem' = <<Uv!Service!Star>> /\ fill' = 1
             /\ Uv!uv_write(1, TRUE, <<Uv!Service!Star>>)
    <2>1. Uv!Service!Star = 42
      BY SameService
    <2>2. PICK m : m = <<42>>
      OBVIOUS
    <2>3. /\ m \in Seq(0..255) /\ Len(m) = 1 /\ SubSeq(m, 1, 1) = m
          /\ m \o <<>> = m /\ <<>> \o m = m
      <3>1. PICK B : B = 0..255
        OBVIOUS
      <3>2. 42 \in B
        BY <3>1
      <3>3. /\ m \in Seq(B) /\ Len(m) = 1 /\ SubSeq(m, 1, 1) = m
            /\ m \o <<>> = m /\ <<>> \o m = m
        BY ONLY <2>2, <3>2, JustOne
      <3> QED
        BY <3>1, <3>3
    <2>4. Written(1, TRUE, m)
      BY <1>4, <2>1, <2>2, uv_writeIs DEF UvInv, UvShape
    <2>5. heard \in Seq(0..255) /\ heard \o m = m
      BY <1>1, <2>3
    <2>6. /\ writes' # <<>> /\ Len(writes') = 1 /\ writes'[1].len = 1 /\ writes'[1].ack
          /\ heard' \in Seq(0..255) /\ room' \in 0..OutCap /\ writes' \in Seq(Requests)
          /\ heard' \o SubSeq(m, writes'[1].done + 1, writes'[1].len) = m
      <3>1. 1 <= Len(m)
        BY <2>3
      <3>2. /\ writes' # <<>> /\ Len(writes') = 1 /\ writes'[1].len = 1 /\ writes'[1].ack
            /\ room' \in 0..OutCap /\ writes' \in Seq(Requests)
        BY <1>1, <2>4 DEF Written
      <3>3. /\ heard' \in Seq(0..255)
            /\ heard' \o SubSeq(m, writes'[1].done + 1, writes'[1].len) = heard \o SubSeq(m, 1, 1)
        BY <1>1, <2>3, <2>4, <2>5, <3>1 DEF Written
      <3> QED
        BY <2>3, <2>5, <3>2, <3>3
    <2>7. UvShape'
      <3>1. BufOk(mem', fill')
        BY <1>4, <2>1, <2>2, <2>3, UvAssumption DEF BufOk, UvAssumption
      <3> QED
        BY <1>0, <1>4, <2>6, <3>1 DEF UvInv, UvShape, BufOk
    <2>8. UvStart' /\ UvFlow'
      BY <1>0, <1>1, <1>4, <2>1, <2>6 DEF UvStart, UvFlow
    <2>9. Uv!UvEchoExact'
      <3>1. Head(writes') = writes'[1]
        BY <2>6, FirstOf
      <3>2. <<Uv!Service!Star>> \o Uv!Service!Echo(got') = m
        BY <1>0, <1>1, <2>1, <2>2, <2>3, NothingParsed
      <3> QED
        BY <1>4, <2>1, <2>2, <2>6, <3>1, <3>2 DEF Uv!UvEchoExact
    <2> QED
      BY <1>2, <2>7, <2>8, <2>9 DEF UvInv
  <1> QED
    BY <1>3, <1>4 DEF Uv!on_peer_connected

\* POLLOUT sends more of the first request.
LEMMA UvPollStep ==
  ASSUME UvInv, Uv!PollWrite
  PROVE  UvInv'
  <1>0. /\ UNCHANGED <<phase, peer, state, mem, fill, inbox, got, client, nread, behind, killed>>
        /\ Uv!Push(writes, mem) /\ writes # <<>>
    BY DEF Uv!PollWrite, Uv!uvHistory
  <1>1. Pushed(writes, mem)
    BY <1>0, PushIs DEF UvInv, UvShape
  <1>2. /\ room' \in 0..OutCap /\ writes' \in Seq(Requests) /\ writes' # <<>>
        /\ Len(writes') = Len(writes)
        /\ writes'[1].len = writes[1].len /\ writes'[1].ack = writes[1].ack
    BY <1>1 DEF Pushed
  <1>3. Uv!UvEndsOnlyFor' /\ UvShape' /\ UvStart'
    BY <1>0, <1>2 DEF UvInv, Uv!UvEndsOnlyFor, UvShape, BufOk, UvStart
  <1>4. ASSUME ~behind, ~Uv!UvEnded, peer \in {"acking", "open"}
        PROVE  /\ heard' \in Seq(0..255)
               /\ heard' \o SubSeq(mem, writes'[1].done + 1, writes'[1].len)
                    = <<Uv!Service!Star>> \o Uv!Service!Echo(got)
    <2>1. heard \in Seq(0..255) /\ writes[1].len = fill
      BY <1>0, <1>4 DEF UvInv, UvFlow
    <2>2. mem \in Seq(0..255) /\ fill <= Len(mem)
      BY DEF UvInv, UvShape, BufOk
    <2>3. Head(writes) = writes[1]
      BY <1>0, FirstOf DEF UvInv, UvShape
    <2>4. heard \o SubSeq(mem, writes[1].done + 1, writes[1].len)
            = <<Uv!Service!Star>> \o Uv!Service!Echo(got)
      BY <1>0, <1>4, <2>3 DEF UvInv, Uv!UvEchoExact
    <2> QED
      BY <1>1, <2>1, <2>2, <2>4 DEF Pushed
  <1>5. UvFlow'
    BY <1>0, <1>2, <1>4 DEF UvInv, UvFlow, Uv!UvEnded
  <1>6. Uv!UvEchoExact'
    <2>1. Head(writes') = writes'[1]
      BY <1>2, FirstOf
    <2> QED
      BY <1>0, <1>2, <1>4, <2>1 DEF Uv!UvEchoExact, Uv!UvEnded
  <1> QED
    BY <1>3, <1>5, <1>6 DEF UvInv

\* The callback of a write.
LEMMA UvCallbackStep ==
  ASSUME UvInv, Uv!WriteCallback
  PROVE  UvInv'
  <1>0. /\ UNCHANGED <<mem, inbox, got, heard, room, client, nread, behind>>
        /\ writes # <<>> /\ writes' = Tail(writes) /\ phase \in {"pending", "poll", "closing"}
    BY DEF Uv!WriteCallback
  <1>1. PICK w \in Requests : w = Head(writes) /\ w = writes[1]
    BY <1>0, FirstOf DEF UvInv, UvShape
  <1>2. /\ w.len \in Nat /\ w.done \in Nat /\ w.ack \in BOOLEAN
        /\ writes' \in Seq(Requests) /\ Len(writes) \in Nat /\ Len(writes') = Len(writes) - 1
    BY <1>0, FirstOf, RequestIs DEF UvInv, UvShape
  <1>3. BufOk(mem, fill)
    BY DEF UvInv, UvShape
  <1>4. CASE Uv!Failed(w)
    <2>1. phase' = "write_error" /\ UNCHANGED <<state, peer, fill, killed>>
      BY <1>1, <1>4 DEF Uv!WriteCallback
    <2>2. client \in {"left", "reset"}
      BY <1>4 DEF Uv!Failed, UvInv, UvShape
    <2> QED
      BY <1>0, <1>2, <2>1, <2>2 DEF UvInv, UvShape, BufOk, UvStart, UvFlow, Uv!UvEchoExact,
         Uv!UvEndsOnlyFor, Uv!UvEnded
  <1>5. CASE ~Uv!Failed(w)
    <2>1. w.done = w.len /\ phase' = phase
      BY <1>1, <1>5 DEF Uv!WriteCallback
    <2>2. IF w.ack THEN Uv!on_wrote_init_ack ELSE Uv!on_wrote_buf
      BY <1>1, <1>5 DEF Uv!WriteCallback
    <2>3. /\ fill' = 0 \/ (fill' = fill /\ killed')
          /\ w.ack => state' = "WAIT_FOR_MSG" /\ (peer' = IF peer = "acking" THEN "open" ELSE peer)
          /\ ~w.ack => state' = state /\ peer' = peer
          /\ killed => killed'
      BY <2>2 DEF Uv!on_wrote_init_ack, Uv!on_wrote_buf
    <2>4. BufOk(mem', fill')
      BY <1>0, <1>3, <2>3 DEF BufOk
    <2>5. peer # "none"
      BY <1>0 DEF UvInv, UvStart
    <2>6. UvShape' /\ UvStart'
      BY <1>0, <1>2, <2>3, <2>4, <2>5 DEF UvInv, UvShape, UvStart
    <2>7. Uv!UvEndsOnlyFor'
      BY <1>0, <2>1, <2>3 DEF UvInv, Uv!UvEndsOnlyFor
    <2>8. ASSUME ~behind, ~Uv!UvEnded, peer \in {"acking", "open"}
          PROVE  /\ heard \in Seq(0..255) /\ writes' = <<>> /\ (peer = "acking" <=> w.ack)
                 /\ heard = <<Uv!Service!Star>> \o Uv!Service!Echo(got)
      <3>1. heard \in Seq(0..255) /\ Len(writes) <= 1 /\ (peer = "acking" <=> w.ack)
        BY <1>0, <1>1, <2>8 DEF UvInv, UvFlow
      <3>2. writes' = <<>>
        BY <1>2, <3>1
      <3>3. heard \o SubSeq(mem, w.done + 1, w.len) = <<Uv!Service!Star>> \o Uv!Service!Echo(got)
        BY <1>0, <1>1, <2>8 DEF UvInv, Uv!UvEchoExact
      <3>4. SubSeq(mem, w.done + 1, w.len) = <<>>
        BY <1>2, <2>1, SubSeqEmpty
      <3>5. heard \o <<>> = heard
        BY <3>1, ConcatEmptySeq
      <3> QED
        BY <3>1, <3>2, <3>3, <3>4, <3>5
    <2>9. UvFlow'
      <3> SUFFICES ASSUME ~behind, ~Uv!UvEnded, peer' \in {"acking", "open"}
                   PROVE  /\ heard \in Seq(0..255) /\ writes' = <<>> /\ peer' = "open"
                          /\ Parsed(got, state') /\ (fill' = 0 \/ killed')
        BY <1>0, <2>1 DEF UvFlow, Uv!UvEnded
      <3>1. peer \in {"acking", "open"}
        BY <2>3
      <3>2. CASE peer = "acking"
        <4>1. got = <<>>
          BY <3>2 DEF UvInv, UvFlow
        <4> QED
          BY <2>3, <2>8, <3>1, <3>2, <4>1, NothingParsed
      <3>3. CASE peer = "open"
        <4>1. Parsed(got, state)
          BY <3>3 DEF UvInv, UvFlow
        <4> QED
          BY <2>3, <2>8, <3>1, <3>3, <4>1
      <3> QED
        BY <3>1, <3>2, <3>3
    <2>10. Uv!UvEchoExact'
      <3> SUFFICES ASSUME ~behind, ~Uv!UvEnded, peer' \in {"acking", "open"}
                   PROVE  /\ writes' = <<>>
                          /\ heard \o <<>> = <<Uv!Service!Star>> \o Uv!Service!Echo(got)
        BY <1>0, <2>1 DEF Uv!UvEchoExact, Uv!UvEnded
      <3>1. peer \in {"acking", "open"}
        BY <2>3
      <3>2. heard \o <<>> = heard
        BY <2>8, <3>1, ConcatEmptySeq
      <3> QED
        BY <2>8, <3>1, <3>2
    <2> QED
      BY <2>6, <2>7, <2>9, <2>10 DEF UvInv
  <1> QED
    BY <1>4, <1>5

\* What on_peer_read does to sendbuf: r after the bytes, for the echo too.
ReadDone(k, bytes, r) ==
    /\ LoopOk(r) /\ (r.bad => fill + k > SENDBUF_SIZE)
    /\ ~r.bad /\ EchoSoFar(heard, got, state, mem, fill) =>
         EchoSoFar(heard, got \o bytes, r.state, r.mem, r.fill)

\* The loop over the bytes that have come.
LEMMA LoopDone ==
  ASSUME NEW bytes \in Seq(Bytes), NEW k \in Nat, k = Len(bytes),
         state \in {"WAIT_FOR_MSG", "IN_MSG"}, BufOk(mem, fill),
         NEW r, r = Uv!Machine(state, mem, fill, bytes)
  PROVE  ReadDone(k, bytes, r)
  <1>1. PICK h : Runs(h, k, state, mem, fill, bytes) /\ r = h[k]
    BY MachineRuns
  <1>2. k \in 0..k /\ SubSeq(bytes, 1, k) = bytes
    BY SubSeqFull
  <1>3. LoopOk(r) /\ (r.bad => fill + k > SENDBUF_SIZE)
    BY <1>1, <1>2, LoopSafe
  <1>4. ASSUME ~r.bad, EchoSoFar(heard, got, state, mem, fill)
        PROVE  EchoSoFar(heard, got \o bytes, r.state, r.mem, r.fill)
    <2>1. ~h[k].bad => EchoSoFar(heard, got \o SubSeq(bytes, 1, k), h[k].state, h[k].mem, h[k].fill)
      BY ONLY <1>1, <1>2, <1>4, bytes \in Seq(Bytes), k \in Nat, k = Len(bytes), BufOk(mem, fill), LoopEchoes
    <2> QED
      BY <1>1, <1>2, <1>4, <2>1
  <1> QED
    BY <1>3, <1>4 DEF ReadDone

\* The bytes that are read, and the others.
LEMMA Taken ==
  ASSUME NEW S, NEW s \in Seq(S), NEW k \in Nat, k <= Len(s), NEW g \in Seq(S)
  PROVE  /\ SubSeq(s, 1, k) \in Seq(S) /\ Len(SubSeq(s, 1, k)) = k
         /\ SubSeq(s, k + 1, Len(s)) \in Seq(S) /\ g \o SubSeq(s, 1, k) \in Seq(S)
  <1>1. PICK n \in Nat : n = Len(s)
    OBVIOUS
  <1>2. PICK a : a = SubSeq(s, 1, k)
    OBVIOUS
  <1>3. PICK b : b = SubSeq(s, k + 1, n)
    OBVIOUS
  <1>4. Front(S, s, k, a)
    BY <1>2, FrontIs
  <1>5. k + 1 \in Nat \ {0} /\ n <= Len(s)
    BY <1>1
  <1>6. Slice(S, s, k + 1, n, b)
    BY ONLY <1>1, <1>3, <1>5, s \in Seq(S), SliceIs
  <1>7. a \in Seq(S) /\ Len(a) = k /\ b \in Seq(S)
    BY <1>4, <1>6 DEF Front, Slice
  <1>8. g \o a \in Seq(S)
    BY <1>7, ConcatProperties
  <1> QED
    BY <1>1, <1>2, <1>3, <1>7, <1>8

\* on_peer_read.
LEMMA UvReadStep ==
  ASSUME UvInv, NEW k \in 1..Uv!Least(Suggested, Len(inbox)), Uv!on_peer_read(k)
  PROVE  UvInv'
  <1>1. PICK bytes, r : bytes = SubSeq(inbox, 1, k) /\ r = Uv!Machine(state, mem, fill, bytes)
    OBVIOUS
  <1>2. inbox \in Seq(Bytes) /\ got \in Seq(Bytes) /\ k \in Nat /\ k <= Len(inbox)
    <2>1. inbox \in Seq(Bytes) /\ got \in Seq(Bytes)
      BY DEF UvInv, UvShape
    <2>2. Len(inbox) \in Nat /\ Suggested \in Nat
      BY <2>1, UvAssumption DEF UvAssumption
    <2> QED
      BY <2>1, <2>2 DEF Uv!Least
  <1>3. /\ bytes \in Seq(Bytes) /\ Len(bytes) = k
        /\ got \o bytes \in Seq(Bytes) /\ SubSeq(inbox, k + 1, Len(inbox)) \in Seq(Bytes)
    BY ONLY <1>1, <1>2, Taken
  <1>4. /\ phase = "poll" /\ peer = "open"
        /\ got' = got \o bytes /\ inbox' \in Seq(Bytes) /\ nread' = k
        /\ behind' = (behind \/ writes # <<>>)
        /\ UNCHANGED <<peer, client, killed>>
    BY <1>1, <1>3 DEF Uv!on_peer_read
  <1>5. /\ state \in {"WAIT_FOR_MSG", "IN_MSG"} /\ BufOk(mem, fill)
        /\ room \in 0..OutCap /\ writes \in Seq(Requests)
    BY <1>4 DEF UvInv, UvShape
  <1>6. ReadDone(k, bytes, r)
    BY ONLY <1>1, <1>2, <1>3, <1>5, LoopDone
  <1>7. got' \in Seq(Bytes)
    BY <1>3, <1>4
  <1>8. CASE killed
    <2>1. phase' = "use_after_free" /\ UNCHANGED <<state, mem, fill, writes, heard, room>>
      BY <1>8 DEF Uv!on_peer_read
    <2>2. UvShape' /\ UvStart'
      BY <1>4, <1>5, <1>7, <2>1 DEF UvShape, UvStart, BufOk
    <2>3. UvFlow' /\ Uv!UvEchoExact' /\ Uv!UvEndsOnlyFor'
      BY <1>4, <1>8, <2>1 DEF UvFlow, Uv!UvEchoExact, Uv!UvEndsOnlyFor, Uv!UvEnded
    <2> QED
      BY <2>2, <2>3 DEF UvInv
  <1>9. CASE ~killed
    <2>1. /\ phase' = (IF r.bad THEN "assert" ELSE phase)
          /\ state' = r.state /\ mem' = r.mem /\ fill' = r.fill
          /\ IF r.fill > 0 /\ ~r.bad THEN Uv!uv_write(r.fill, FALSE, r.mem)
             ELSE UNCHANGED <<writes, heard, room>>
      BY <1>1, <1>9 DEF Uv!on_peer_read
    <2>2. /\ r.state \in {"WAIT_FOR_MSG", "IN_MSG"} /\ BufOk(r.mem, r.fill)
          /\ (r.bad => fill + k > SENDBUF_SIZE)
      BY <1>6 DEF ReadDone, LoopOk
    <2>3. r.fill \in Nat /\ r.mem \in Seq(0..255) /\ r.fill <= Len(r.mem)
      BY <2>2 DEF BufOk
    <2>4. r.fill > 0 /\ ~r.bad => Written(r.fill, FALSE, r.mem)
      <3>1. FALSE \in BOOLEAN
        OBVIOUS
      <3> QED
        BY <1>5, <2>1, <2>3, <3>1, uv_writeIs
    <2>5. room' \in 0..OutCap /\ writes' \in Seq(Requests)
      BY <1>5, <2>1, <2>4 DEF Written
    <2>6. UvShape' /\ UvStart'
      BY <1>4, <1>7, <2>1, <2>2, <2>5 DEF UvShape, UvStart, BufOk
    <2>7. ASSUME ~behind'
          PROVE  /\ ~behind /\ writes = <<>> /\ fill = 0 /\ heard \in Seq(0..255) /\ Parsed(got, state)
                 /\ heard \o SubSeq(mem, 1, fill) = <<Uv!Service!Star>> \o Uv!Service!Echo(got)
      <3>1. ~behind /\ writes = <<>> /\ ~Uv!UvEnded
        BY <1>4, <2>7 DEF Uv!UvEnded
      <3>2. fill = 0 /\ heard \in Seq(0..255) /\ Parsed(got, state)
        BY <1>4, <1>9, <3>1 DEF UvInv, UvFlow
      <3>3. heard \o <<>> = <<Uv!Service!Star>> \o Uv!Service!Echo(got)
        BY <1>4, <3>1 DEF UvInv, Uv!UvEchoExact
      <3>4. SubSeq(mem, 1, 0) = <<>>
        BY SubSeqEmpty
      <3> QED
        BY <3>1, <3>2, <3>3, <3>4
    <2>8. Uv!UvEndsOnlyFor'
      <3>1. CASE r.bad
        <4>1. ~behind' => k > SENDBUF_SIZE
          BY <1>2, <2>2, <2>7, <3>1
        <4> QED
          BY <1>4, <2>1, <3>1, <4>1 DEF Uv!UvEndsOnlyFor
      <3>2. CASE ~r.bad
        BY <1>4, <2>1, <3>2 DEF Uv!UvEndsOnlyFor
      <3> QED
        BY <3>1, <3>2
    <2>9. ASSUME ~behind', ~Uv!UvEnded'
          PROVE  /\ ~r.bad /\ Parsed(got', r.state)
                 /\ heard \o SubSeq(r.mem, 1, r.fill) = <<Uv!Service!Star>> \o Uv!Service!Echo(got')
      <3>1. ~r.bad
        BY <2>1, <2>9 DEF Uv!UvEnded
      <3> QED
        BY <1>4, <1>6, <2>7, <2>9, <3>1 DEF ReadDone, EchoSoFar
    <2>10. ASSUME ~behind', ~Uv!UvEnded', r.fill > 0
           PROVE  /\ writes' # <<>> /\ Len(writes') = 1 /\ writes'[1].len = r.fill /\ ~writes'[1].ack
                  /\ heard' \in Seq(0..255)
                  /\ heard' \o SubSeq(r.mem, writes'[1].done + 1, writes'[1].len)
                       = <<Uv!Service!Star>> \o Uv!Service!Echo(got')
      BY <2>3, <2>4, <2>7, <2>9, <2>10 DEF Written
    <2>11. ASSUME ~behind', ~Uv!UvEnded', r.fill = 0
           PROVE  /\ writes' = <<>> /\ heard' \in Seq(0..255)
                  /\ heard' \o <<>> = <<Uv!Service!Star>> \o Uv!Service!Echo(got')
      <3>1. SubSeq(r.mem, 1, 0) = <<>>
        BY SubSeqEmpty
      <3> QED
        BY <2>1, <2>7, <2>9, <2>11, <3>1
    <2>12. r.fill > 0 \/ r.fill = 0
      BY <2>3
    <2>13. UvFlow'
      <3>1. ASSUME ~behind', ~Uv!UvEnded'
            PROVE  /\ heard' \in Seq(0..255) /\ Len(writes') <= 1 /\ (writes' # <<>> => writes'[1].len = fill')
                   /\ Parsed(got', state') /\ (writes' # <<>> => ~writes'[1].ack)
                   /\ writes' = <<>> => fill' = 0
        <4>1. CASE r.fill > 0
          <5>1. Parsed(got', r.state)
            BY <2>9, <3>1
          <5>2. /\ writes' # <<>> /\ Len(writes') = 1 /\ writes'[1].len = r.fill /\ ~writes'[1].ack
                /\ heard' \in Seq(0..255)
            BY <2>10, <3>1, <4>1
          <5>3. Len(writes') <= 1
            BY <5>2
          <5> QED
            BY <2>1, <5>1, <5>2, <5>3
        <4>2. CASE r.fill = 0
          BY <2>1, <2>9, <2>11, <3>1, <4>2
        <4> QED
          BY <2>12, <4>1, <4>2
      <3>2. peer' = "open"
        BY <1>4
      <3> QED
        BY <3>1, <3>2 DEF UvFlow
    <2>14. Uv!UvEchoExact'
      <3>1. writes' # <<>> => Head(writes') = writes'[1]
        BY <2>5, FirstOf
      <3> QED
        BY <1>4, <2>1, <2>10, <2>11, <2>12, <3>1 DEF Uv!UvEchoExact
    <2> QED
      BY <2>6, <2>8, <2>13, <2>14 DEF UvInv
  <1> QED
    BY <1>8, <1>9

\* Every step of the server and of its client keeps the invariant.
LEMMA UvStep ==
  ASSUME UvInv, Uv!UvNext PROVE UvInv'
  BY UvClientStep, UvPhaseStep, UvConnectStep, UvPollStep, UvCallbackStep, UvReadStep
     DEF Uv!UvNext, Uv!PollEvents, Uv!LoopGoes

\* uv-server runs alone, or not at all.
LEMMA UvRuns == [MCNext]_mcVars => [Uv!UvNext]_uvv
  <1> SUFFICES ASSUME [MCNext]_mcVars PROVE [Uv!UvNext]_uvv
    OBVIOUS
  <1>1. CASE UNCHANGED mcVars
    BY <1>1 DEF mcVars
  <1>2. CASE MCNext /\ which = "uv"
    BY <1>2 DEF MCNext
  <1>3. CASE MCNext /\ which # "uv"
    BY <1>3 DEF MCNext, Others
  <1> QED
    BY <1>1, <1>2, <1>3

\* Nothing happens to uv-server.
LEMMA UvStays ==
  ASSUME UvInv, UNCHANGED uvv PROVE UvInv'
  <1>1. UvShape' /\ UvStart'
    BY DEF uvv, UvInv, UvShape, BufOk, UvStart
  <1>2. UvFlow'
    BY DEF uvv, UvInv, UvFlow, Uv!UvEnded
  <1>3. Uv!UvEchoExact' /\ Uv!UvEndsOnlyFor'
    BY DEF uvv, UvInv, Uv!UvEchoExact, Uv!UvEndsOnlyFor, Uv!UvEnded
  <1> QED
    BY <1>1, <1>2, <1>3 DEF UvInv

\* For every size of sendbuf, of libuv's buffer and of the kernel's, and
\* whatever the client sends and reads: uv-server's client hears the '*'
\* and then exactly the echo of what on_peer_read has read, as long as no
\* read overtakes the callback of a write, and the loop ends only for a
\* failed write, a failed assert on such a read or on a read larger than
\* sendbuf, or the kill switch.
THEOREM UvCorrect == MCSpec => []UvSound
  <1>1. MCInit => UvInv
    BY UvInitInv DEF MCInit
  <1>2. UvInv /\ [MCNext]_mcVars => UvInv'
    BY UvRuns, UvStays, UvStep
  <1>3. UvInv => UvSound
    BY DEF UvInv, UvSound
  <1> QED
    BY <1>1, <1>2, <1>3, PTL DEF MCSpec
=============================================================================
