------------------------- MODULE SelectServerProofs -------------------------
(***************************************************************************)
(* Proofs about SelectServer for any number of clients and descriptors and *)
(* any buffer sizes that satisfy ConstantsAssumption.                      *)
(*                                                                         *)
(* None of the invariants is inductive alone: that a readiness bit is not  *)
(* stale needs rd and wr to be disjoint, which needs the master sets to    *)
(* match the send buffers, which needs the byte loop to keep ready_to_send *)
(* in step with sendbuf.  IInv is the conjunction that is preserved.       *)
(***************************************************************************)
EXTENDS SelectServer, FiniteSetTheorems, SequenceTheorems, TLAPS

\* The send queue of an open peer is empty and reset, or has bytes to send;
\* the ack is still staged while the peer is in INITIAL_ACK.
QueueInv ==
    \A f \in PeerFds :
        (status = "running" /\ conn[f] # None) =>
            \/ sendptr[f] < Len(sendbuf[f])
            \/ sendptr[f] = 0 /\ sendbuf[f] = <<>> /\ state[f] # "INITIAL_ACK"

\* In the byte loop: the peer is open, was drained before recv, and what is
\* left of buf fits behind what was staged.
BytesInv ==
    (status = "running" /\ pc = "bytes") =>
        /\ fd \in PeerFds /\ fd \notin wr /\ conn[fd] # None
        /\ sendptr[fd] = 0
        /\ state[fd] # "INITIAL_ACK"
        /\ Len(sendbuf[fd]) + Len(buf) <= SENDBUF_SIZE
        /\ readyToSend <=> sendbuf[fd] # <<>>

\* select reports no peer both ways.
DisjointInv == status = "running" => rd \cap wr = {}

\* A peer whose write half is still to come has bytes staged.
WriteInv == status = "running" =>
                \A f \in wr : f >= fd => sendptr[f] < Len(sendbuf[f])

IInv == /\ TypeOK
        /\ MonitorMatchesBuffer
        /\ ReadinessNotStale
        /\ QueueInv
        /\ BytesInv
        /\ DisjointInv
        /\ WriteInv

-----------------------------------------------------------------------------
\* accept never returns the listening descriptor.
LEMMA ListenerNotPeer == Listener \notin PeerFds
  BY ConstantsAssumption DEF ConstantsAssumption, PeerFds

\* Nobody is connected and the server is before its first select.
LEMMA InitIInv == Init => IInv
  <1> SUFFICES ASSUME Init PROVE IInv
    OBVIOUS
  <1>1. TypeOK
    <2>1. LoopTypeOK /\ ConnTypeOK
      BY ConstantsAssumption DEF Init, LoopTypeOK, ConnTypeOK,
         ConstantsAssumption
    <2>2. readyToSend \in BOOLEAN
      BY Zenon DEF Init
    <2>3. PeerTypeOK
      BY <2>2 DEF Init, PeerTypeOK
    <2>4. ClientTypeOK /\ HistTypeOK
      BY DEF Init, ClientTypeOK, HistTypeOK
    <2> QED
      BY <2>1, <2>3, <2>4 DEF TypeOK
  <1>2. MonitorMatchesBuffer
    BY ListenerNotPeer DEF Init, MonitorMatchesBuffer
  <1>3. /\ ReadinessNotStale /\ QueueInv /\ BytesInv
        /\ DisjointInv /\ WriteInv
    BY DEF Init, ReadinessNotStale, ToVisit, QueueInv, BytesInv, DisjointInv,
           WriteInv
  <1> QED
    BY <1>1, <1>2, <1>3 DEF IInv

\* A step after which the process is gone keeps everything but the types.
LEMMA DeadStep ==
  ASSUME TypeOK', status' # "running"
  PROVE  IInv'
  BY DEF IInv, MonitorMatchesBuffer, ReadinessNotStale, QueueInv, BytesInv,
         DisjointInv, WriteInv

\* A step of a client touches nothing the server's invariants speak of.
LEMMA ClientStepIInv == IInv /\ ClientStep => IInv'
  <1> SUFFICES ASSUME IInv, ClientStep PROVE IInv'
    OBVIOUS
  <1>1. TypeOK'
    <2> USE DEF loopVars, masterVars, peerVars, recvVars, connVars, histVars
    <2>1. LoopTypeOK' /\ ConnTypeOK' /\ HistTypeOK'
      BY DEF IInv, TypeOK, LoopTypeOK, ConnTypeOK, HistTypeOK, ClientStep
    <2>2. PeerTypeOK'
      BY DEF IInv, TypeOK, PeerTypeOK, ClientStep
    <2>3. ClientTypeOK'
      <3>1. \E c \in Clients : \/ ClientConnect(c)
                               \/ \E b \in Bytes : ClientSend(c, b)
                               \/ ClientRead(c)
                               \/ ClientClose(c)
        BY DEF ClientStep
      <3>2. ASSUME NEW c \in Clients, ClientConnect(c) PROVE ClientTypeOK'
        BY <3>2 DEF IInv, TypeOK, ClientTypeOK, ClientConnect
      <3>3. ASSUME NEW c \in Clients, NEW b \in Bytes, ClientSend(c, b)
            PROVE ClientTypeOK'
        BY <3>3 DEF IInv, TypeOK, ClientTypeOK, ClientSend
      <3>4. ASSUME NEW c \in Clients, ClientRead(c) PROVE ClientTypeOK'
        BY <3>4 DEF IInv, TypeOK, ClientTypeOK, ClientRead
      <3>5. ASSUME NEW c \in Clients, ClientClose(c) PROVE ClientTypeOK'
        BY <3>5 DEF IInv, TypeOK, ClientTypeOK, ClientClose
      <3> QED
        BY <3>1, <3>2, <3>3, <3>4, <3>5
    <2> QED
      BY <2>1, <2>2, <2>3 DEF TypeOK
  <1>2. UNCHANGED <<loopVars, masterVars, peerVars, recvVars, connVars, selConn>>
    BY DEF ClientStep
  <1> QED
    BY <1>1, <1>2 DEF IInv, MonitorMatchesBuffer, ReadinessNotStale, ToVisit,
       QueueInv, BytesInv, DisjointInv, WriteInv, loopVars, masterVars, peerVars,
       recvVars, connVars

-----------------------------------------------------------------------------
(* The steps of the scan that run no callback.                             *)

\* select returns.
LEMMA SelectIInv == IInv /\ Select => IInv'
  <1> SUFFICES ASSUME IInv, Select PROVE IInv'
    OBVIOUS
  <1> USE DEF masterVars, peerVars, recvVars, connVars, clientVars, histVars
  <1>1. CASE SelectFails
    <2>1. TypeOK'
      BY <1>1 DEF IInv, TypeOK, LoopTypeOK, PeerTypeOK, ConnTypeOK,
         ClientTypeOK, HistTypeOK, Select
    <2> QED
      BY <2>1, <1>1, DeadStep DEF Select
  <1>2. CASE ~SelectFails
    <2>1. /\ rd' \subseteq readM /\ wr' \subseteq writeM
          /\ fd' = Listener /\ pc' = "read" /\ selConn' = conn
          /\ nready' = Cardinality(rd') + Cardinality(wr')
          /\ status' = "running"
          /\ UNCHANGED <<readM, writeM, fdMax, state, sendbuf, sendptr, buf,
                         readyToSend, conn, phase, cl, inq, nsent, unread,
                         got, out>>
      BY <1>2 DEF Select
    <2>2. \A f \in readM \cup writeM : f # Listener => conn[f] # None
      BY ConstantsAssumption DEF IInv, TypeOK, MonitorMatchesBuffer, Select, LoopTypeOK
    <2>3. nready' \in Int
      <3>1. rd' \subseteq 0..(Listener + FdLimit) /\ wr' \subseteq 0..(Listener + FdLimit)
        BY <2>1, ConstantsAssumption DEF IInv, TypeOK, LoopTypeOK, PeerFds,
           ConstantsAssumption
      <3>2. IsFiniteSet(0..(Listener + FdLimit))
        BY FS_Interval, ConstantsAssumption DEF ConstantsAssumption
      <3>3. Cardinality(rd') \in Nat /\ Cardinality(wr') \in Nat
        BY <3>1, <3>2, FS_Subset, FS_CardinalityType
      <3> QED
        BY <2>1, <3>3
    <2>4. TypeOK'
      BY <2>1, <2>3, ConstantsAssumption DEF IInv, TypeOK, LoopTypeOK,
         PeerTypeOK, ConnTypeOK, ClientTypeOK, HistTypeOK, ConstantsAssumption
    <2>5. MonitorMatchesBuffer'
      BY <2>1 DEF IInv, MonitorMatchesBuffer, Select
    <2>6. ReadinessNotStale'
      BY <2>1, <2>2 DEF ReadinessNotStale, ToVisit
    <2>7. QueueInv' /\ BytesInv'
      BY <2>1 DEF IInv, QueueInv, BytesInv, Select
    <2>8. DisjointInv'
      <3>1. \A f \in writeM : f \in PeerFds /\ f \notin readM
        BY DEF IInv, TypeOK, LoopTypeOK, PeerTypeOK, MonitorMatchesBuffer,
           Select
      <3> QED
        BY <2>1, <3>1 DEF DisjointInv
    <2>9. WriteInv'
      BY <2>1 DEF IInv, TypeOK, LoopTypeOK, MonitorMatchesBuffer, WriteInv,
         Select
    <2> QED
      BY <2>4, <2>5, <2>6, <2>7, <2>8, <2>9 DEF IInv
  <1> QED
    BY <1>1, <1>2

\* The scan passes a descriptor that is not reported, or ends.
LEMMA ScanIInv == IInv /\ (ScanDone \/ ReadSkip \/ WriteSkip) => IInv'
  <1> SUFFICES ASSUME IInv, ScanDone \/ ReadSkip \/ WriteSkip PROVE IInv'
    OBVIOUS
  <1> USE DEF masterVars, peerVars, recvVars, connVars, clientVars, histVars
  <1> USE DEF TypeOK, LoopTypeOK, PeerTypeOK, ConnTypeOK, ClientTypeOK, HistTypeOK
  <1>1. TypeOK'
    BY DEF IInv, ScanDone, ReadSkip, WriteSkip
  <1>2. MonitorMatchesBuffer' /\ QueueInv' /\ BytesInv' /\ DisjointInv'
    BY DEF IInv, TypeOK, MonitorMatchesBuffer, QueueInv, BytesInv,
       DisjointInv, ScanDone, ReadSkip, WriteSkip
  <1>3. ReadinessNotStale'
    <2>1. \A f \in rd \cup wr : f \in Int
      BY ConstantsAssumption DEF IInv, PeerFds, ConstantsAssumption
    <2>2. ToVisit' \subseteq ToVisit
      BY <2>1 DEF IInv, ToVisit, ScanDone, ReadSkip, WriteSkip
    <2> QED
      BY <2>2 DEF IInv, ReadinessNotStale, ScanDone, ReadSkip, WriteSkip
  <1>4. WriteInv'
    <2>1. \A f \in wr : f \in Int
      BY ConstantsAssumption DEF IInv, PeerFds, ConstantsAssumption
    <2>2. \A f \in wr' : f \in wr /\ (f >= fd' => f >= fd)
      BY <2>1 DEF IInv, ScanDone, ReadSkip, WriteSkip
    <2> QED
      BY <2>2 DEF IInv, WriteInv, ScanDone, ReadSkip, WriteSkip
  <1> QED
    BY <1>1, <1>2, <1>3, <1>4 DEF IInv

-----------------------------------------------------------------------------
(* The listener's read half.                                               *)

\* accept returns a descriptor and on_peer_connected stages the ack.
LEMMA AcceptIInv ==
  ASSUME IInv, NEW c \in Clients, Accept(c)
  PROVE  IInv'
  <1> USE DEF masterVars, peerVars, recvVars, connVars, clientVars, histVars
  <1>1. PICK f \in FreeFds :
         /\ conn' = [conn EXCEPT ![f] = c]
         /\ fdMax' = IF f > fdMax /\ f < FD_SETSIZE THEN f ELSE fdMax
         /\ IF f > fdMax /\ f >= FD_SETSIZE THEN
                status' = "died" /\ UNCHANGED <<readM, writeM, peerVars, phase>>
            ELSE IF f >= MAXFDS THEN
                status' = "aborted"
                /\ UNCHANGED <<readM, writeM, peerVars, phase>>
            ELSE /\ PeerConnected(f)
                 /\ Monitor(f, FALSE, TRUE)
                 /\ phase' = [phase EXCEPT ![c] = "open"]
                 /\ UNCHANGED status
    BY DEF Accept
  <1>2. /\ f \in PeerFds /\ conn[f] = None /\ f \in Nat /\ c # None
        /\ pc = "read" /\ pc' = "write" /\ fd = Listener /\ status = "running"
        /\ nready' = nready - 1
        /\ UNCHANGED <<rd, wr, fd, buf, readyToSend, selConn, cl, inq, nsent,
                       unread, got, out>>
    BY ConstantsAssumption DEF Accept, ReadingListener, FreeFds, PeerFds,
       ConstantsAssumption
  <1>3. HistTypeOK' /\ ClientTypeOK' /\ ConnTypeOK'
    BY <1>1, <1>2 DEF IInv, TypeOK, HistTypeOK, ClientTypeOK, ConnTypeOK
  <1>4. CASE status' = "running"
    <2>1. /\ state' = [state EXCEPT ![f] = "INITIAL_ACK"]
          /\ sendbuf' = [sendbuf EXCEPT ![f] = <<Star>>]
          /\ sendptr' = [sendptr EXCEPT ![f] = 0]
          /\ readM' = readM \ {f} /\ writeM' = writeM \cup {f}
      BY <1>1, <1>4 DEF PeerConnected, Monitor
    <2>2. <<Star>> \in Seq(0..255) /\ Len(<<Star>>) = 1
      BY DEF Star
    <2>3. PeerTypeOK' /\ LoopTypeOK'
      BY <1>1, <1>2, <1>4, <2>1, <2>2 DEF IInv, TypeOK, PeerTypeOK, LoopTypeOK
    <2>4. MonitorMatchesBuffer'
      BY <1>1, <1>2, <2>1, <2>2 DEF IInv, TypeOK, ConnTypeOK, PeerTypeOK,
         MonitorMatchesBuffer
    <2>5. ToVisit' \subseteq ToVisit /\ f \notin ToVisit
      BY <1>2, ListenerNotPeer DEF IInv, ToVisit, ReadinessNotStale
    <2>6. ReadinessNotStale'
      BY <1>1, <1>2, <2>5 DEF IInv, TypeOK, LoopTypeOK, ConnTypeOK,
         ReadinessNotStale, ToVisit
    <2>7. QueueInv'
      BY <1>1, <1>2, <2>1, <2>2 DEF IInv, TypeOK, ConnTypeOK, PeerTypeOK,
         QueueInv
    <2>8. BytesInv' /\ DisjointInv'
      BY <1>2 DEF IInv, BytesInv, DisjointInv
    <2>9. WriteInv'
      BY <1>2, <2>1, <2>5 DEF IInv, TypeOK, LoopTypeOK, PeerTypeOK, WriteInv,
         ToVisit
    <2> QED
      BY <1>3, <2>3, <2>4, <2>6, <2>7, <2>8, <2>9 DEF IInv, TypeOK
  <1>5. CASE status' # "running"
    <2>1. /\ status' \in {"died", "aborted"}
          /\ UNCHANGED <<readM, writeM, state, sendbuf, sendptr>>
      BY <1>1, <1>2, <1>5
    <2>2. fdMax' \in Nat
      BY <1>1, <1>2 DEF IInv, TypeOK, LoopTypeOK
    <2>3. LoopTypeOK'
      BY <1>2, <2>1, <2>2 DEF IInv, TypeOK, LoopTypeOK
    <2>4. PeerTypeOK'
      BY <1>2, <2>1 DEF IInv, TypeOK, PeerTypeOK
    <2> QED
      BY <1>3, <1>5, <2>3, <2>4, DeadStep DEF TypeOK
  <1> QED
    BY <1>4, <1>5

\* accept returns an error.
LEMMA AcceptOtherIInv == IInv /\ (AcceptAgain \/ AcceptFails) => IInv'
  <1> SUFFICES ASSUME IInv, AcceptAgain \/ AcceptFails PROVE IInv'
    OBVIOUS
  <1> USE DEF masterVars, peerVars, recvVars, connVars, clientVars, histVars
  <1>1. TypeOK'
    BY DEF IInv, TypeOK, LoopTypeOK, PeerTypeOK, ConnTypeOK, ClientTypeOK,
       HistTypeOK, AcceptAgain, AcceptFails, ReadingListener
  <1>2. CASE AcceptAgain
    <2>1. /\ MonitorMatchesBuffer' /\ QueueInv' /\ BytesInv' /\ DisjointInv'
          /\ WriteInv'
      BY <1>2 DEF IInv, MonitorMatchesBuffer, QueueInv, BytesInv, DisjointInv,
         WriteInv, AcceptAgain, ReadingListener
    <2>2. ReadinessNotStale'
      BY <1>2 DEF IInv, ReadinessNotStale, ToVisit, AcceptAgain,
         ReadingListener
    <2> QED
      BY <1>1, <2>1, <2>2 DEF IInv
  <1>3. CASE AcceptFails
    BY <1>1, <1>3, DeadStep DEF AcceptFails
  <1> QED
    BY <1>2, <1>3

-----------------------------------------------------------------------------
(* A peer's read half.                                                     *)

\* The peer whose read half runs is the open one select reported.
LEMMA ReadingPeerFacts ==
  ASSUME IInv, ReadingPeer
  PROVE  /\ status = "running" /\ pc = "read" /\ fd \in rd
         /\ fd \in PeerFds /\ fd \notin wr /\ fd \in Nat
         /\ conn[fd] \in Clients /\ conn[fd] # None
         /\ nready' = nready - 1
  <1>1. status = "running" /\ pc = "read" /\ fd \in rd /\ fd # Listener
    BY DEF ReadingPeer
  <1>2. fd \in ToVisit
    BY <1>1 DEF ToVisit
  <1>3. conn[fd] # None
    BY <1>1, <1>2 DEF IInv, ReadinessNotStale
  <1> QED
    BY <1>1, <1>3 DEF IInv, TypeOK, LoopTypeOK, ConnTypeOK, DisjointInv,
       ReadingPeer

\* The end of a read half: what is left to visit was to be visited before
\* and is not fd, whose own entries the callback changed.
LEMMA AfterRead ==
  ASSUME IInv, fd \in PeerFds, fd \notin wr, pc' = "write" \/ pc' = "bytes",
         UNCHANGED <<rd, wr, fd>>
  PROVE  ToVisit' \subseteq ToVisit \ {fd}
  BY ConstantsAssumption DEF ToVisit, IInv, TypeOK, LoopTypeOK, PeerFds,
     ConstantsAssumption

\* recv returns bytes.
LEMMA RecvBytesIInv == IInv /\ RecvBytes => IInv'
  <1> SUFFICES ASSUME IInv, RecvBytes PROVE IInv'
    OBVIOUS
  <1> USE DEF masterVars, peerVars, recvVars, connVars, clientVars, histVars
  <1>1. ReadingPeer /\ ~MustSendFirst(fd)
    BY DEF RecvBytes
  <1>2. /\ status = "running" /\ pc = "read" /\ fd \in rd
        /\ fd \in PeerFds /\ fd \notin wr /\ fd \in Nat
        /\ conn[fd] \in Clients /\ conn[fd] # None
        /\ nready' = nready - 1
    BY <1>1, ReadingPeerFacts
  <1> DEFINE c == conn[fd]
             n == IF Len(inq[c]) < RecvMax THEN Len(inq[c]) ELSE RecvMax
  <1>3. /\ buf' = SubSeq(inq[c], 1, n)
        /\ inq' = [inq EXCEPT ![c] = SubSeq(inq[c], n + 1, Len(inq[c]))]
        /\ readyToSend' = FALSE /\ pc' = "bytes"
        /\ UNCHANGED <<status, rd, wr, fd, readM, writeM, fdMax, state,
                       sendbuf, sendptr, conn, phase, selConn, cl, nsent,
                       unread, got, out>>
    BY DEF RecvBytes
  <1>4. inq[c] \in Seq(Bytes)
    BY <1>2 DEF IInv, TypeOK, ClientTypeOK
  <1>5. n \in 0..Len(inq[c]) /\ n <= RecvMax
    BY <1>4, LenProperties, ConstantsAssumption DEF ConstantsAssumption
  <1> HIDE DEF n, c
  <1>6. /\ SubSeq(inq[c], 1, n) \in Seq(Bytes) /\ Len(SubSeq(inq[c], 1, n)) = n
        /\ SubSeq(inq[c], n + 1, Len(inq[c])) \in Seq(Bytes)
    BY <1>4, <1>5, LenProperties
  <1>7. LoopTypeOK' /\ ConnTypeOK' /\ HistTypeOK'
    BY <1>2, <1>3 DEF IInv, TypeOK, LoopTypeOK, ConnTypeOK, HistTypeOK
  <1>8. readyToSend' \in BOOLEAN
    BY <1>3, Zenon
  <1>9. PeerTypeOK' /\ ClientTypeOK'
    BY <1>3, <1>6, <1>8 DEF IInv, TypeOK, PeerTypeOK, ClientTypeOK
  <1>10. sendptr[fd] = 0 /\ sendbuf[fd] = <<>> /\ state[fd] # "INITIAL_ACK"
    BY <1>1, <1>2 DEF IInv, QueueInv, MustSendFirst
  <1>11. BytesInv'
    <2>1. Len(sendbuf[fd]) + Len(buf') <= SENDBUF_SIZE
      BY <1>3, <1>5, <1>6, <1>10, ConstantsAssumption DEF ConstantsAssumption
    <2> QED
      BY <1>2, <1>3, <1>10, <2>1 DEF BytesInv
  <1>12. MonitorMatchesBuffer' /\ QueueInv' /\ DisjointInv' /\ WriteInv'
    BY <1>2, <1>3 DEF IInv, MonitorMatchesBuffer, QueueInv, DisjointInv, WriteInv
  <1>13. ReadinessNotStale'
    BY <1>2, <1>3, AfterRead DEF IInv, ReadinessNotStale
  <1> QED
    BY <1>7, <1>9, <1>11, <1>12, <1>13 DEF IInv, TypeOK

\* recv would block.
LEMMA RecvNothingIInv == IInv /\ RecvNothing => IInv'
  <1> SUFFICES ASSUME IInv, RecvNothing PROVE IInv'
    OBVIOUS
  <1> USE DEF masterVars, peerVars, recvVars, connVars, clientVars, histVars
  <1>1. /\ status = "running" /\ pc = "read" /\ fd \in rd
        /\ fd \in PeerFds /\ fd \notin wr /\ fd \in Nat
        /\ conn[fd] \in Clients /\ conn[fd] # None
        /\ nready' = nready - 1
    BY ReadingPeerFacts DEF RecvNothing
  <1>2. /\ IF MustSendFirst(fd)
           THEN readM' = readM \ {fd} /\ writeM' = writeM \cup {fd}
           ELSE readM' = readM \cup {fd} /\ writeM' = writeM \ {fd}
        /\ pc' = "write"
        /\ UNCHANGED <<status, rd, wr, fd, fdMax, state, sendbuf, sendptr, buf,
                       readyToSend, conn, phase, selConn, cl, inq, nsent,
                       unread, got, out>>
    BY DEF RecvNothing, Monitor
  <1>3. MustSendFirst(fd) <=> sendptr[fd] < Len(sendbuf[fd])
    BY <1>1 DEF IInv, QueueInv, MustSendFirst
  <1>4. TypeOK'
    <2>1. readM' \subseteq readM \cup {fd} /\ writeM' \subseteq writeM \cup {fd}
      BY <1>2
    <2>4. LoopTypeOK'
      BY <1>1, <1>2, <2>1 DEF IInv, TypeOK, LoopTypeOK
    <2>2. PeerTypeOK'
      BY <1>2 DEF IInv, TypeOK, PeerTypeOK
    <2>3. ConnTypeOK' /\ ClientTypeOK' /\ HistTypeOK'
      BY <1>1, <1>2 DEF IInv, TypeOK, ConnTypeOK, ClientTypeOK, HistTypeOK
    <2> QED
      BY <2>4, <2>2, <2>3 DEF TypeOK
  <1>5. MonitorMatchesBuffer'
    BY <1>1, <1>2, <1>3 DEF IInv, TypeOK, PeerTypeOK, MonitorMatchesBuffer
  <1>6. QueueInv' /\ BytesInv' /\ DisjointInv' /\ WriteInv'
    BY <1>1, <1>2 DEF IInv, QueueInv, BytesInv, DisjointInv, WriteInv
  <1>7. ReadinessNotStale'
    BY <1>1, <1>2, AfterRead DEF IInv, ReadinessNotStale
  <1> QED
    BY <1>4, <1>5, <1>6, <1>7 DEF IInv

\* recv returns 0: the peer has closed.
LEMMA RecvEofIInv == IInv /\ RecvEof => IInv'
  <1> SUFFICES ASSUME IInv, RecvEof PROVE IInv'
    OBVIOUS
  <1> USE DEF masterVars, peerVars, recvVars, connVars, clientVars, histVars
  <1>1. /\ status = "running" /\ pc = "read" /\ fd \in rd
        /\ fd \in PeerFds /\ fd \notin wr /\ fd \in Nat
        /\ conn[fd] \in Clients /\ conn[fd] # None
        /\ nready' = nready - 1
    BY ReadingPeerFacts DEF RecvEof
  <1>2. /\ readM' = readM \ {fd} /\ writeM' = writeM \ {fd}
        /\ conn' = [conn EXCEPT ![fd] = None]
        /\ phase' = [phase EXCEPT ![conn[fd]] = "closed"]
        /\ pc' = "write"
        /\ UNCHANGED <<status, rd, wr, fd, fdMax, state, sendbuf, sendptr, buf,
                       readyToSend, selConn, cl, inq, nsent, unread, got, out>>
    BY DEF RecvEof, Monitor
  <1>3. TypeOK'
    <2>1. LoopTypeOK'
      BY <1>1, <1>2 DEF IInv, TypeOK, LoopTypeOK
    <2>2. PeerTypeOK'
      BY <1>2 DEF IInv, TypeOK, PeerTypeOK
    <2>3. ConnTypeOK' /\ ClientTypeOK' /\ HistTypeOK'
      BY <1>1, <1>2 DEF IInv, TypeOK, ConnTypeOK, ClientTypeOK, HistTypeOK
    <2> QED
      BY <2>1, <2>2, <2>3 DEF TypeOK
  <1>4. MonitorMatchesBuffer' /\ QueueInv' /\ BytesInv' /\ DisjointInv' /\ WriteInv'
    BY <1>1, <1>2 DEF IInv, TypeOK, ConnTypeOK, MonitorMatchesBuffer,
       QueueInv, BytesInv, DisjointInv, WriteInv
  <1>5. ReadinessNotStale'
    <2>1. ToVisit' \subseteq ToVisit \ {fd}
      BY <1>1, <1>2, AfterRead
    <2>2. \A f \in ToVisit' \ {Listener} : f \in PeerFds
      BY DEF IInv, TypeOK, LoopTypeOK, ToVisit, RecvEof
    <2> QED
      BY <1>1, <1>2, <2>1, <2>2 DEF IInv, TypeOK, ConnTypeOK,
         ReadinessNotStale
  <1> QED
    BY <1>3, <1>4, <1>5 DEF IInv

\* recv returns an error and the server dies.
LEMMA RecvFailsIInv == IInv /\ RecvFails => IInv'
  <1> SUFFICES ASSUME IInv, RecvFails PROVE IInv'
    OBVIOUS
  <1> USE DEF masterVars, peerVars, recvVars, connVars, clientVars, histVars
  <1>1. TypeOK'
    BY DEF IInv, TypeOK, LoopTypeOK, PeerTypeOK, ConnTypeOK, ClientTypeOK,
       HistTypeOK, RecvFails, ReadingPeer
  <1> QED
    BY <1>1, DeadStep DEF RecvFails

-----------------------------------------------------------------------------
(* The byte loop.                                                          *)

\* One byte of the loop in on_peer_ready_recv.
LEMMA RecvByteIInv == IInv /\ RecvByte => IInv'
  <1> SUFFICES ASSUME IInv, RecvByte PROVE IInv'
    OBVIOUS
  <1> USE DEF masterVars, peerVars, recvVars, connVars, clientVars, histVars
  <1> DEFINE b == Head(buf)
  <1>1. /\ status = "running" /\ pc = "bytes" /\ buf # <<>>
        /\ buf' = Tail(buf)
        /\ UNCHANGED <<pc, rd, wr, nready, fd, readM, writeM, fdMax, sendptr,
                       conn, phase, selConn, cl, inq, nsent, unread, out>>
    BY DEF RecvByte
  <1>2. /\ fd \in PeerFds /\ fd \notin wr /\ conn[fd] # None
        /\ sendptr[fd] = 0 /\ state[fd] # "INITIAL_ACK"
        /\ Len(sendbuf[fd]) + Len(buf) <= SENDBUF_SIZE
        /\ readyToSend <=> sendbuf[fd] # <<>>
        /\ conn[fd] \in Clients
    BY <1>1 DEF IInv, BytesInv, TypeOK, ConnTypeOK
  <1>3. /\ b \in Bytes /\ b \in 0..255 /\ Tail(buf) \in Seq(Bytes)
        /\ Len(Tail(buf)) = Len(buf) - 1 /\ Len(buf) \in Nat /\ Len(buf) >= 1
    <2>1. buf \in Seq(Bytes)
      BY DEF IInv, TypeOK, PeerTypeOK
    <2>2. /\ Head(buf) \in Bytes /\ Tail(buf) \in Seq(Bytes)
          /\ Len(Tail(buf)) = Len(buf) - 1
      BY <1>1, <2>1, HeadTailProperties
    <2>3. Len(buf) \in Nat /\ Len(buf) >= 1
      BY <1>1, <2>1
    <2> QED
      BY <2>2, <2>3, ConstantsAssumption DEF ConstantsAssumption
  <1>4. sendbuf[fd] \in Seq(0..255) /\ Len(sendbuf[fd]) \in Nat
    BY <1>2 DEF IInv, TypeOK, PeerTypeOK
  <1>5. Len(sendbuf[fd]) < SENDBUF_SIZE
    BY <1>2, <1>3, <1>4, ConstantsAssumption DEF ConstantsAssumption
  <1>6. OnByte(fd, b)
    BY <1>2 DEF RecvByte
  <1> HIDE DEF b
  \* The three outcomes of one byte.
  <1>7. /\ status' = "running"
        /\ \/ /\ state' = [state EXCEPT ![fd] = "IN_MSG"]
              /\ UNCHANGED <<sendbuf, readyToSend>>
           \/ /\ state' = [state EXCEPT ![fd] = "WAIT_FOR_MSG"]
              /\ UNCHANGED <<sendbuf, readyToSend>>
           \/ /\ sendbuf' = [sendbuf EXCEPT ![fd] =
                               Append(sendbuf[fd], (b + 1) % 256)]
              /\ readyToSend' = TRUE
              /\ UNCHANGED state
    BY <1>1, <1>2, <1>5, <1>6 DEF OnByte, IInv, TypeOK, PeerTypeOK
  <1>8. (b + 1) % 256 \in 0..255
    BY <1>3
  <1>9. /\ Append(sendbuf[fd], (b + 1) % 256) \in Seq(0..255)
        /\ Len(Append(sendbuf[fd], (b + 1) % 256)) = Len(sendbuf[fd]) + 1
        /\ Append(sendbuf[fd], (b + 1) % 256) # <<>>
    BY <1>4, <1>8, AppendProperties
  <1>10. LoopTypeOK' /\ ConnTypeOK' /\ ClientTypeOK'
    BY <1>1, <1>7 DEF IInv, TypeOK, LoopTypeOK, ConnTypeOK, ClientTypeOK
  <1>11. HistTypeOK'
    <2>1. got' = [got EXCEPT ![conn[fd]] = Append(got[conn[fd]], b)]
      BY <1>7 DEF RecvByte, b
    <2> QED
      BY <1>1, <1>2, <1>3, <2>1 DEF IInv, TypeOK, HistTypeOK
  <1>12. PeerTypeOK'
    <2>1. readyToSend' \in BOOLEAN
      BY <1>7 DEF IInv, TypeOK, PeerTypeOK
    <2>2. /\ state' \in [PeerFds -> {"INITIAL_ACK", "WAIT_FOR_MSG", "IN_MSG"}]
          /\ sendbuf' \in [PeerFds -> Seq(0..255)]
      <3>1. CASE UNCHANGED sendbuf
        BY <1>2, <1>7, <3>1 DEF IInv, TypeOK, PeerTypeOK
      <3>2. CASE /\ sendbuf' = [sendbuf EXCEPT ![fd] =
                                 Append(sendbuf[fd], (b + 1) % 256)]
                 /\ UNCHANGED state
        BY <1>2, <1>9, <3>2 DEF IInv, TypeOK, PeerTypeOK
      <3> QED
        BY <1>7, <3>1, <3>2
    <2> QED
      BY <1>1, <1>3, <2>1, <2>2 DEF IInv, TypeOK, PeerTypeOK
  <1>13. /\ \A f \in PeerFds : f # fd => /\ sendbuf'[f] = sendbuf[f]
                                         /\ state'[f] = state[f]
         /\ state'[fd] # "INITIAL_ACK"
         /\ sendbuf'[fd] = sendbuf[fd]
            \/ sendbuf'[fd] = Append(sendbuf[fd], (b + 1) % 256)
    BY <1>2, <1>7 DEF IInv, TypeOK, PeerTypeOK
  <1>14. MonitorMatchesBuffer'
    BY <1>1, <1>7, <1>13 DEF IInv, MonitorMatchesBuffer
  <1>15. QueueInv'
    <2>1. sendptr[fd] < Len(sendbuf'[fd]) \/ sendbuf'[fd] = <<>>
      <3>1. CASE sendbuf'[fd] = sendbuf[fd]
        BY <3>1, <1>2, <1>4
      <3>2. CASE sendbuf'[fd] = Append(sendbuf[fd], (b + 1) % 256)
        BY <3>2, <1>2, <1>4, <1>9
      <3> QED
        BY <3>1, <3>2, <1>13
    <2> QED
      BY <1>1, <1>2, <1>7, <1>13, <2>1 DEF IInv, QueueInv
  <1>16. BytesInv'
    <2>1. Len(sendbuf'[fd]) + Len(buf') <= SENDBUF_SIZE
      BY <1>1, <1>2, <1>3, <1>4, <1>9, <1>13, ConstantsAssumption
      DEF ConstantsAssumption
    <2>2. readyToSend' <=> sendbuf'[fd] # <<>>
      <3>1. CASE UNCHANGED <<sendbuf, readyToSend>>
        BY <3>1, <1>2
      <3>2. CASE /\ sendbuf' = [sendbuf EXCEPT ![fd] =
                                 Append(sendbuf[fd], (b + 1) % 256)]
                 /\ readyToSend' = TRUE
        <4>1. sendbuf'[fd] # <<>>
          BY <3>2, <1>2, <1>9 DEF IInv, TypeOK, PeerTypeOK
        <4> QED
          BY <3>2, <4>1
      <3> QED
        BY <3>1, <3>2, <1>7
    <2> QED
      BY <1>1, <1>2, <1>13, <2>1, <2>2 DEF BytesInv
  <1>17. DisjointInv' /\ ReadinessNotStale'
    BY <1>1, <1>7 DEF IInv, DisjointInv, ReadinessNotStale, ToVisit
  <1>18. WriteInv'
    BY <1>1, <1>2, <1>13 DEF IInv, TypeOK, LoopTypeOK, WriteInv
  <1> QED
    BY <1>10, <1>11, <1>12, <1>14, <1>15, <1>16, <1>17, <1>18 DEF IInv, TypeOK

\* The loop is over and the returned fd_status_t is applied.
LEMMA RecvDoneIInv == IInv /\ RecvDone => IInv'
  <1> SUFFICES ASSUME IInv, RecvDone PROVE IInv'
    OBVIOUS
  <1> USE DEF masterVars, peerVars, recvVars, connVars, clientVars, histVars
  <1>1. /\ status = "running" /\ pc = "bytes" /\ pc' = "write"
        /\ UNCHANGED <<status, rd, wr, nready, fd, fdMax, state, sendbuf,
                       sendptr, buf, readyToSend, conn, phase, selConn, cl,
                       inq, nsent, unread, got, out>>
    BY DEF RecvDone
  <1>2. IF readyToSend THEN readM' = readM \ {fd} /\ writeM' = writeM \cup {fd}
                       ELSE readM' = readM \cup {fd} /\ writeM' = writeM \ {fd}
    BY DEF RecvDone, Monitor
  <1>3. /\ fd \in PeerFds /\ fd \notin wr /\ conn[fd] # None
        /\ sendptr[fd] = 0
        /\ readyToSend <=> sendbuf[fd] # <<>>
    BY <1>1 DEF IInv, BytesInv
  <1>4. readyToSend <=> sendptr[fd] < Len(sendbuf[fd])
    <2>1. sendbuf[fd] \in Seq(0..255)
      BY <1>3 DEF IInv, TypeOK, PeerTypeOK
    <2>2. sendbuf[fd] # <<>> <=> 0 < Len(sendbuf[fd])
      BY <2>1
    <2> QED
      BY <1>3, <2>2
  <1>5. LoopTypeOK'
    BY <1>1, <1>2, <1>3 DEF IInv, TypeOK, LoopTypeOK
  <1>6. PeerTypeOK' /\ ConnTypeOK' /\ ClientTypeOK' /\ HistTypeOK'
    BY <1>1 DEF IInv, TypeOK, PeerTypeOK, ConnTypeOK, ClientTypeOK, HistTypeOK
  <1>7. MonitorMatchesBuffer'
    <2>1. \A f \in PeerFds : f # fd =>
             (f \in readM' <=> f \in readM) /\ (f \in writeM' <=> f \in writeM)
      BY <1>2
    <2>2. sendptr[fd] \in Nat /\ Len(sendbuf[fd]) \in Nat
      BY <1>3 DEF IInv, TypeOK, PeerTypeOK
    <2>3. (fd \in writeM' <=> sendptr[fd] < Len(sendbuf[fd]))
          /\ (fd \in readM' <=> sendptr[fd] >= Len(sendbuf[fd]))
      BY <1>2, <1>4, <2>2
    <2> QED
      BY <1>1, <1>3, <2>1, <2>3 DEF IInv, MonitorMatchesBuffer
  <1>8. QueueInv' /\ BytesInv' /\ DisjointInv' /\ WriteInv'
    BY <1>1 DEF IInv, QueueInv, BytesInv, DisjointInv, WriteInv
  <1>9. ReadinessNotStale'
    BY <1>1, <1>3, AfterRead DEF IInv, ReadinessNotStale
  <1> QED
    BY <1>5, <1>6, <1>7, <1>8, <1>9 DEF IInv, TypeOK

-----------------------------------------------------------------------------
(* A peer's write half.                                                    *)

\* What the invariant says of a descriptor whose write half is next.
LEMMA WritingPeerFacts ==
  ASSUME IInv, WritingPeer
  PROVE  /\ status = "running" /\ pc = "write" /\ fd \in wr
         /\ fd \in PeerFds /\ fd \in Nat
         /\ conn[fd] \in Clients /\ conn[fd] # None
         /\ sendptr[fd] < Len(sendbuf[fd])
         /\ sendptr[fd] \in Nat /\ sendbuf[fd] \in Seq(0..255)
         /\ Len(sendbuf[fd]) \in Nat
         /\ nready' = nready - 1
  <1>1. status = "running" /\ pc = "write" /\ fd \in wr
    BY DEF WritingPeer
  <1>2. fd \in PeerFds /\ fd \in Nat
    BY <1>1 DEF IInv, TypeOK, LoopTypeOK
  <1>3. fd \in ToVisit
    BY <1>1, <1>2 DEF ToVisit
  <1>4. conn[fd] # None
    BY <1>1, <1>2, <1>3, ListenerNotPeer DEF IInv, ReadinessNotStale
  <1>5. sendptr[fd] < Len(sendbuf[fd])
    BY <1>1, <1>2 DEF IInv, WriteInv
  <1> QED
    BY <1>1, <1>2, <1>4, <1>5 DEF IInv, TypeOK, ConnTypeOK, PeerTypeOK,
       WritingPeer

\* The end of a write half: the scan moves past fd.
LEMMA AfterWrite ==
  ASSUME IInv, fd' = fd + 1, pc' = "read", UNCHANGED <<rd, wr>>
  PROVE  /\ ToVisit' \subseteq ToVisit \ {fd}
         /\ \A f \in wr' : f >= fd' => f >= fd /\ f # fd
  <1>1. fd \in Nat /\ \A f \in rd \cup wr : f \in Int
    BY ConstantsAssumption DEF IInv, TypeOK, LoopTypeOK, PeerFds,
       ConstantsAssumption
  <1> QED
    BY <1>1 DEF ToVisit

\* send takes some of the bytes.
LEMMA SendIInv ==
  ASSUME IInv, NEW n \in Nat, Send(n)
  PROVE  IInv'
  <1> USE DEF masterVars, peerVars, recvVars, connVars, clientVars, histVars
  <1> DEFINE c == conn[fd]
  <1>1. /\ status = "running" /\ pc = "write" /\ fd \in wr
        /\ fd \in PeerFds /\ fd \in Nat
        /\ conn[fd] \in Clients /\ conn[fd] # None
        /\ sendptr[fd] < Len(sendbuf[fd])
        /\ sendptr[fd] \in Nat /\ sendbuf[fd] \in Seq(0..255)
        /\ Len(sendbuf[fd]) \in Nat
        /\ nready' = nready - 1
    BY WritingPeerFacts DEF Send
  <1>2. /\ n \in 1..Len(Pending(fd))
        /\ out' = [out EXCEPT ![c] = out[c] \o SubSeq(Pending(fd), 1, n)]
        /\ IF n < Len(Pending(fd)) THEN SentPart(fd, n) ELSE SentAll(fd)
        /\ cl' = [cl EXCEPT ![c] = IF cl[c] = "eof" THEN "reset" ELSE cl[c]]
        /\ unread' = [unread EXCEPT ![c] =
                        IF cl[c] = "eof" THEN unread[c] ELSE unread[c] + n]
        /\ pc' = "read" /\ fd' = fd + 1
        /\ UNCHANGED <<status, rd, wr, fdMax, buf, readyToSend, conn, phase,
                       selConn, inq, nsent, got>>
    <2>1. ~(sendptr[fd] >= Len(sendbuf[fd]))
      BY <1>1
    <2> QED
      BY <2>1 DEF Send
  <1>3. Pending(fd) \in Seq(0..255) /\ Len(Pending(fd)) = Len(sendbuf[fd]) - sendptr[fd]
    <2>1. \A i \in (sendptr[fd] + 1)..Len(sendbuf[fd]) : sendbuf[fd][i] \in 0..255
      <3>1. sendbuf[fd] \in [1..Len(sendbuf[fd]) -> 0..255]
        BY <1>1, LenProperties
      <3>2. \A i \in (sendptr[fd] + 1)..Len(sendbuf[fd]) : i \in 1..Len(sendbuf[fd])
        BY <1>1
      <3> QED
        BY <3>1, <3>2
    <2>2. /\ SubSeq(sendbuf[fd], sendptr[fd] + 1, Len(sendbuf[fd])) \in Seq(0..255)
          /\ Len(SubSeq(sendbuf[fd], sendptr[fd] + 1, Len(sendbuf[fd])))
               = Len(sendbuf[fd]) - (sendptr[fd] + 1) + 1
      BY <1>1, <2>1, SubSeqProperties
    <2> QED
      BY <1>1, <2>2 DEF Pending
  <1>4. SubSeq(Pending(fd), 1, n) \in Seq(0..255)
    BY <1>2, <1>3
  \* In both cases the entry of fd alone changes and stays consistent.
  <1>5. /\ state' \in [PeerFds -> {"INITIAL_ACK", "WAIT_FOR_MSG", "IN_MSG"}]
        /\ sendbuf' \in [PeerFds -> Seq(0..255)]
        /\ sendptr' \in [PeerFds -> Nat]
        /\ \A f \in PeerFds : f # fd => /\ sendbuf'[f] = sendbuf[f]
                                        /\ sendptr'[f] = sendptr[f]
                                        /\ state'[f] = state[f]
        /\ \A f \in PeerFds : f # fd => /\ f \in readM' <=> f \in readM
                                        /\ f \in writeM' <=> f \in writeM
        /\ readM' \subseteq readM \cup {fd} /\ writeM' \subseteq writeM \cup {fd}
        /\ \/ /\ sendptr'[fd] < Len(sendbuf'[fd])
              /\ fd \in writeM' /\ fd \notin readM'
           \/ /\ sendptr'[fd] = 0 /\ sendbuf'[fd] = <<>>
              /\ state'[fd] # "INITIAL_ACK"
              /\ fd \notin writeM' /\ fd \in readM'
    <2>1. CASE n < Len(Pending(fd))
      <3>1. /\ sendptr' = [sendptr EXCEPT ![fd] = sendptr[fd] + n]
            /\ readM' = readM \ {fd} /\ writeM' = writeM \cup {fd}
            /\ UNCHANGED <<sendbuf, state>>
        BY <1>2, <2>1 DEF SentPart, Monitor
      <3> QED
        BY <1>1, <1>2, <1>3, <2>1, <3>1 DEF IInv, TypeOK, PeerTypeOK
    <2>2. CASE ~(n < Len(Pending(fd)))
      <3>1. /\ sendptr' = [sendptr EXCEPT ![fd] = 0]
            /\ sendbuf' = [sendbuf EXCEPT ![fd] = <<>>]
            /\ state' = [state EXCEPT ![fd] =
                 IF state[fd] = "INITIAL_ACK" THEN "WAIT_FOR_MSG" ELSE state[fd]]
            /\ readM' = readM \cup {fd} /\ writeM' = writeM \ {fd}
        BY <1>2, <2>2 DEF SentAll, Monitor
      <3> QED
        BY <1>1, <3>1 DEF IInv, TypeOK, PeerTypeOK
    <2> QED
      BY <2>1, <2>2
  <1>6. LoopTypeOK' /\ ConnTypeOK'
    BY <1>1, <1>2, <1>5 DEF IInv, TypeOK, LoopTypeOK, ConnTypeOK
  <1>7. PeerTypeOK'
    BY <1>2, <1>5 DEF IInv, TypeOK, PeerTypeOK
  <1>8. ClientTypeOK'
    BY <1>1, <1>2 DEF IInv, TypeOK, ClientTypeOK
  <1>9. HistTypeOK'
    <2>1. out[c] \o SubSeq(Pending(fd), 1, n) \in Seq(0..255)
      BY <1>1, <1>4 DEF IInv, TypeOK, HistTypeOK
    <2> QED
      BY <1>1, <1>2, <2>1 DEF IInv, TypeOK, HistTypeOK
  <1>10. MonitorMatchesBuffer'
    <2>1. Len(<<>>) = 0
      OBVIOUS
    <2>2. sendptr'[fd] \in Nat /\ Len(sendbuf'[fd]) \in Nat
      BY <1>1, <1>5
    <2>3. (fd \in writeM' <=> sendptr'[fd] < Len(sendbuf'[fd]))
          /\ (fd \in readM' <=> sendptr'[fd] >= Len(sendbuf'[fd]))
      BY <1>5, <2>1, <2>2
    <2>4. ASSUME NEW f \in PeerFds, f # fd
          PROVE  /\ f \in writeM <=> conn[f] # None /\ sendptr[f] < Len(sendbuf[f])
                 /\ f \in readM <=> conn[f] # None /\ sendptr[f] >= Len(sendbuf[f])
      BY <1>1, <2>4 DEF IInv, MonitorMatchesBuffer
    <2> QED
      BY <1>1, <1>2, <1>5, <2>3, <2>4 DEF MonitorMatchesBuffer
  <1>11. QueueInv'
    BY <1>1, <1>2, <1>5 DEF IInv, QueueInv
  <1>12. BytesInv' /\ DisjointInv'
    BY <1>1, <1>2 DEF IInv, BytesInv, DisjointInv
  <1>13. ReadinessNotStale'
    BY <1>1, <1>2, AfterWrite DEF IInv, ReadinessNotStale
  <1>14. WriteInv'
    <2>1. wr \subseteq PeerFds
      BY DEF IInv, TypeOK, LoopTypeOK
    <2>2. \A f \in wr' : f >= fd' => f >= fd /\ f # fd
      BY <1>2, AfterWrite
    <2> QED
      BY <1>1, <1>2, <1>5, <2>1, <2>2 DEF IInv, WriteInv
  <1> QED
    BY <1>6, <1>7, <1>8, <1>9, <1>10, <1>11, <1>12, <1>13, <1>14
    DEF IInv, TypeOK

\* send would block, or fails.
LEMMA SendOtherIInv == IInv /\ (SendAgain \/ SendFails) => IInv'
  <1> SUFFICES ASSUME IInv, SendAgain \/ SendFails PROVE IInv'
    OBVIOUS
  <1> USE DEF masterVars, peerVars, recvVars, connVars, clientVars, histVars
  <1>1. /\ status = "running" /\ pc = "write" /\ fd \in wr
        /\ fd \in PeerFds /\ fd \in Nat
        /\ conn[fd] # None
        /\ sendptr[fd] < Len(sendbuf[fd])
        /\ nready' = nready - 1
        /\ sendptr[fd] \in Nat /\ Len(sendbuf[fd]) \in Nat
    BY WritingPeerFacts DEF SendAgain, SendFails
  <1>2. CASE SendAgain
    <2>1. /\ readM' = readM \ {fd} /\ writeM' = writeM \cup {fd}
          /\ pc' = "read" /\ fd' = fd + 1
          /\ UNCHANGED <<status, rd, wr, fdMax, state, sendbuf, sendptr, buf,
                         readyToSend, conn, phase, selConn, cl, inq, nsent,
                         unread, got, out>>
      BY <1>2 DEF SendAgain, Monitor
    <2>2. LoopTypeOK'
      BY <1>1, <2>1 DEF IInv, TypeOK, LoopTypeOK
    <2>3. PeerTypeOK' /\ ConnTypeOK' /\ ClientTypeOK' /\ HistTypeOK'
      BY <2>1 DEF IInv, TypeOK, PeerTypeOK, ConnTypeOK, ClientTypeOK, HistTypeOK
    <2>4. MonitorMatchesBuffer'
      BY <1>1, <2>1 DEF IInv, MonitorMatchesBuffer
    <2>5. QueueInv' /\ BytesInv' /\ DisjointInv'
      BY <1>1, <2>1 DEF IInv, QueueInv, BytesInv, DisjointInv
    <2>6. ReadinessNotStale' /\ WriteInv'
      BY <1>1, <2>1, AfterWrite DEF IInv, ReadinessNotStale, WriteInv
    <2> QED
      BY <2>2, <2>3, <2>4, <2>5, <2>6 DEF IInv, TypeOK
  <1>3. CASE SendFails
    <2>1. TypeOK'
      <3>1. LoopTypeOK'
        BY <1>1, <1>3 DEF IInv, TypeOK, LoopTypeOK, SendFails
      <3> QED
        BY <1>3, <3>1 DEF IInv, TypeOK, PeerTypeOK, ConnTypeOK, ClientTypeOK,
           HistTypeOK, SendFails
    <2> QED
      BY <2>1, <1>3, DeadStep DEF SendFails
  <1> QED
    BY <1>2, <1>3

-----------------------------------------------------------------------------
\* The inductive step.
LEMMA NextIInv == IInv /\ [Next]_vars => IInv'
  <1> SUFFICES ASSUME IInv, [Next]_vars PROVE IInv'
    OBVIOUS
  <1>1. CASE ServerStep
    <2>1. CASE \E c \in Clients : Accept(c)
      BY <2>1, AcceptIInv
    <2>2. CASE \E n \in 0..SENDBUF_SIZE : Send(n)
      <3>1. PICK n \in 0..SENDBUF_SIZE : Send(n)
        BY <2>2
      <3>2. n \in Nat
        BY ConstantsAssumption DEF ConstantsAssumption
      <3> QED
        BY <3>1, <3>2, SendIInv
    <2> QED
      BY <1>1, <2>1, <2>2, SelectIInv, ScanIInv, AcceptOtherIInv,
         RecvBytesIInv, RecvNothingIInv, RecvEofIInv, RecvFailsIInv,
         RecvByteIInv, RecvDoneIInv, SendOtherIInv DEF ServerStep
  <1>2. CASE ClientStep
    BY <1>2, ClientStepIInv
  <1>3. CASE UNCHANGED vars
    BY <1>3 DEF vars, loopVars, masterVars, peerVars, recvVars, connVars,
       clientVars, histVars, IInv, TypeOK, LoopTypeOK, PeerTypeOK, ConnTypeOK,
       ClientTypeOK, HistTypeOK, MonitorMatchesBuffer, ReadinessNotStale,
       ToVisit, QueueInv, BytesInv, DisjointInv, WriteInv
  <1> QED
    BY <1>1, <1>2, <1>3 DEF Next

\* The invariant holds in every reachable state.
LEMMA Inductive == Spec => []IInv
  BY InitIInv, NextIInv, PTL DEF Spec

\* Every variable keeps its type; in particular no callback runs on a
\* descriptor without a client (select-server.c:213-292).
THEOREM TypeCorrect == Spec => []TypeOK
  <1>1. IInv => TypeOK
    BY DEF IInv
  <1> QED
    BY <1>1, Inductive, PTL

\* The master sets match the send buffers (the status each callback returns,
\* select-server.c:46-61), for any number of peers.
THEOREM MonitorCorrect == Spec => []MonitorMatchesBuffer
  <1>1. IInv => MonitorMatchesBuffer
    BY DEF IInv
  <1> QED
    BY <1>1, Inductive, PTL

\* No readiness bit is used for another connection than the one select
\* reported it for, however descriptors are closed and reused.
THEOREM ReadinessCorrect == Spec => []ReadinessNotStale
  <1>1. IInv => ReadinessNotStale
    BY DEF IInv
  <1> QED
    BY <1>1, Inductive, PTL

-----------------------------------------------------------------------------
(* The asserts hold exactly under the condition the code does not check:   *)
(* no descriptor between MAXFDS and the limit of the process.              *)

\* No step makes an assert fail while descriptors stay below MAXFDS.
LEMMA StepAsserts ==
  ASSUME IInv, AssertsHold, [Next]_vars, FdLimit <= MAXFDS
  PROVE  AssertsHold'
  <1>1. ASSUME NEW c \in Clients, Accept(c) PROVE AssertsHold'
    <2>1. \A f \in FreeFds : ~(f >= MAXFDS)
      BY ConstantsAssumption DEF FreeFds, PeerFds, ConstantsAssumption
    <2> QED
      BY <1>1, <2>1 DEF AssertsHold, Accept, ReadingListener
  <1>2. CASE RecvByte
    <2>1. status = "running" /\ pc = "bytes" /\ buf # <<>>
      BY <1>2 DEF RecvByte
    <2>2. /\ fd \in PeerFds /\ state[fd] # "INITIAL_ACK"
          /\ Len(sendbuf[fd]) + Len(buf) <= SENDBUF_SIZE
      BY <2>1 DEF IInv, BytesInv
    <2>3. Len(buf) >= 1 /\ Len(buf) \in Nat /\ Len(sendbuf[fd]) \in Nat
      BY <2>1, <2>2 DEF IInv, TypeOK, PeerTypeOK
    <2>4. Len(sendbuf[fd]) < SENDBUF_SIZE
      BY <2>2, <2>3, ConstantsAssumption DEF ConstantsAssumption
    <2>5. OnByte(fd, Head(buf))
      BY <1>2, <2>2 DEF RecvByte
    <2> QED
      BY <2>1, <2>4, <2>5 DEF OnByte, AssertsHold
  <1>3. CASE Select \/ ScanDone \/ ReadSkip \/ WriteSkip
    BY <1>3 DEF AssertsHold, Select, ScanDone, ReadSkip, WriteSkip
  <1>4. CASE AcceptAgain \/ AcceptFails \/ RecvBytes \/ RecvNothing
    BY <1>4 DEF AssertsHold, AcceptAgain, AcceptFails, RecvBytes, RecvNothing
  <1>5. CASE RecvEof \/ RecvFails \/ RecvDone \/ SendAgain \/ SendFails
    BY <1>5 DEF AssertsHold, RecvEof, RecvFails, RecvDone, SendAgain, SendFails
  <1>6. ASSUME NEW n, Send(n) PROVE AssertsHold'
    BY <1>6 DEF AssertsHold, Send
  <1>7. CASE ClientStep \/ UNCHANGED vars
    BY <1>7 DEF AssertsHold, ClientStep, vars, loopVars
  <1> QED
    BY <1>1, <1>2, <1>3, <1>4, <1>5, <1>6, <1>7 DEF Next, ServerStep

\* No assert of select-server.c fails when the descriptor limit of the
\* process is at most MAXFDS: the buffer asserts of lines 106 and 117 hold
\* for any input, and the three on sockfd only need that limit.
THEOREM AssertsCorrect ==
  ASSUME FdLimit <= MAXFDS
  PROVE  Spec => []AssertsHold
  <1>1. Init => AssertsHold
    BY DEF Init, AssertsHold
  <1>2. IInv /\ AssertsHold /\ [Next]_vars => AssertsHold'
    BY StepAsserts
  <1> QED
    BY <1>1, <1>2, Inductive, PTL DEF Spec

-----------------------------------------------------------------------------
(* What the scan and the connections promise, from the same invariant: no  *)
(* reported event is skipped, and the server implements EchoService, step  *)
(* by step.                                                                *)
(*                                                                         *)
(* The scan.  nready counts exactly the bits that are still to be visited. *)

RdLeft == {f \in rd : f > fd \/ (f = fd /\ pc = "read")}
WrLeft == {f \in wr : f >= fd}

CountInv ==
    (status = "running" /\ pc # "select") =>
        /\ nready = Cardinality(RdLeft) + Cardinality(WrLeft)
        /\ \A f \in rd \cup wr : f <= fdMax

\* The bits still to be visited are finitely many descriptors.
LEMMA FdSetsFinite ==
  ASSUME TypeOK
  PROVE  /\ IsFiniteSet(RdLeft) /\ IsFiniteSet(WrLeft)
         /\ Cardinality(RdLeft) \in Nat /\ Cardinality(WrLeft) \in Nat
         /\ \A f \in rd \cup wr : f \in Int /\ f >= Listener
         /\ fd \in Int /\ fdMax \in Int
  <1>1. \A f \in rd \cup wr : f \in Int /\ f >= Listener
    BY ConstantsAssumption DEF TypeOK, LoopTypeOK, PeerFds, ConstantsAssumption
  <1>2. rd \subseteq 0..(Listener + FdLimit) /\ wr \subseteq 0..(Listener + FdLimit)
    BY ConstantsAssumption DEF TypeOK, LoopTypeOK, PeerFds, ConstantsAssumption
  <1>3. IsFiniteSet(0..(Listener + FdLimit))
    BY FS_Interval, ConstantsAssumption DEF ConstantsAssumption
  <1>4. RdLeft \subseteq 0..(Listener + FdLimit) /\ WrLeft \subseteq 0..(Listener + FdLimit)
    BY <1>2 DEF RdLeft, WrLeft
  <1>5. IsFiniteSet(RdLeft) /\ IsFiniteSet(WrLeft)
    BY <1>3, <1>4, FS_Subset
  <1> QED
    BY <1>1, <1>5, FS_CardinalityType DEF TypeOK, LoopTypeOK

\* A step that visits the read bit of fd.
LEMMA CountRead ==
  ASSUME IInv, CountInv, status = "running", pc = "read", fd \in rd,
         nready' = nready - 1, UNCHANGED <<rd, wr, fd>>,
         pc' \in {"write", "bytes"}, fdMax' \in Int, fdMax' >= fdMax
  PROVE  CountInv'
  <1>1. TypeOK
    BY DEF IInv
  <1>2. RdLeft' = RdLeft \ {fd} /\ fd \in RdLeft /\ WrLeft' = WrLeft
    BY <1>1, FdSetsFinite DEF RdLeft, WrLeft
  <1>3. Cardinality(RdLeft \ {fd}) = Cardinality(RdLeft) - 1
    BY <1>1, <1>2, FdSetsFinite, FS_RemoveElement
  <1>4. \A f \in rd \cup wr : f <= fdMax'
    BY <1>1, FdSetsFinite DEF CountInv
  <1> QED
    BY <1>1, <1>2, <1>3, <1>4, FdSetsFinite DEF CountInv

\* A step that visits the write bit of fd.
LEMMA CountWrite ==
  ASSUME IInv, CountInv, status = "running", pc = "write", fd \in wr,
         nready' = nready - 1, UNCHANGED <<rd, wr, fdMax>>,
         fd' = fd + 1, pc' = "read"
  PROVE  CountInv'
  <1>1. TypeOK
    BY DEF IInv
  <1>2. WrLeft' = WrLeft \ {fd} /\ fd \in WrLeft /\ RdLeft' = RdLeft
    BY <1>1, FdSetsFinite DEF RdLeft, WrLeft
  <1>3. Cardinality(WrLeft \ {fd}) = Cardinality(WrLeft) - 1
    BY <1>1, <1>2, FdSetsFinite, FS_RemoveElement
  <1> QED
    BY <1>1, <1>2, <1>3, FdSetsFinite DEF CountInv

\* A step that visits no bit: a skip, or a step inside the byte loop.
LEMMA CountSame ==
  ASSUME CountInv, RdLeft' = RdLeft, WrLeft' = WrLeft, pc # "select",
         status = "running", UNCHANGED <<rd, wr, nready, fdMax>>
  PROVE  CountInv'
  BY DEF CountInv

\* nready is decremented exactly when a reported bit is visited.
LEMMA CountStep == IInv /\ CountInv /\ [Next]_vars => CountInv'
  <1> SUFFICES ASSUME IInv, CountInv, [Next]_vars PROVE CountInv'
    OBVIOUS
  <1> USE DEF loopVars, masterVars
  <1>0. TypeOK
    BY DEF IInv
  <1>1. CASE Select
    <2> SUFFICES ASSUME status' = "running" PROVE CountInv'
      BY DEF CountInv
    <2>1. /\ rd' \subseteq readM /\ wr' \subseteq writeM
          /\ \A f \in rd' \cup wr' : f <= fdMax'
          /\ fd' = Listener /\ pc' = "read"
          /\ nready' = Cardinality(rd') + Cardinality(wr')
      BY <1>1 DEF Select
    <2>2. \A f \in rd' \cup wr' : f \in Int /\ f >= Listener
      BY <2>1, ConstantsAssumption DEF IInv, TypeOK, LoopTypeOK, PeerFds,
         ConstantsAssumption
    <2>3. RdLeft' = rd' /\ WrLeft' = wr'
      BY <2>1, <2>2, ConstantsAssumption DEF RdLeft, WrLeft, ConstantsAssumption
    <2> QED
      BY <2>1, <2>3 DEF CountInv
  <1>2. CASE ScanDone
    BY <1>2 DEF CountInv, ScanDone
  <1>3. CASE ReadSkip
    <2>1. RdLeft' = RdLeft /\ WrLeft' = WrLeft
      BY <1>3 DEF ReadSkip, RdLeft, WrLeft
    <2> QED
      BY <1>3, <2>1, CountSame DEF ReadSkip
  <1>4. CASE WriteSkip
    <2>1. RdLeft' = RdLeft /\ WrLeft' = WrLeft
      BY <1>4, <1>0, FdSetsFinite DEF WriteSkip, RdLeft, WrLeft
    <2> QED
      BY <1>4, <2>1, CountSame DEF WriteSkip
  <1>5. ASSUME NEW c \in Clients, Accept(c) PROVE CountInv'
    <2>1. fdMax' \in Int /\ fdMax' >= fdMax
      BY <1>5, <1>0, FdSetsFinite, ConstantsAssumption DEF Accept, FreeFds, PeerFds,
         ConstantsAssumption
    <2> QED
      BY <1>5, <2>1, CountRead DEF Accept, ReadingListener
  <1>6. CASE AcceptAgain
    BY <1>6, <1>0, FdSetsFinite, CountRead DEF AcceptAgain, ReadingListener
  <1>7. CASE AcceptFails \/ RecvFails \/ SendFails
    BY <1>7 DEF AcceptFails, RecvFails, SendFails, CountInv
  <1>8. CASE RecvBytes
    BY <1>8, <1>0, FdSetsFinite, CountRead DEF RecvBytes, ReadingPeer
  <1>9. CASE RecvNothing
    BY <1>9, <1>0, FdSetsFinite, CountRead DEF RecvNothing, ReadingPeer
  <1>10. CASE RecvEof
    BY <1>10, <1>0, FdSetsFinite, CountRead DEF RecvEof, ReadingPeer
  <1>11. CASE RecvByte
    <2>1. RdLeft' = RdLeft /\ WrLeft' = WrLeft
      BY <1>11 DEF RecvByte, RdLeft, WrLeft
    <2> QED
      BY <1>11, <2>1, CountSame DEF RecvByte
  <1>12. CASE RecvDone
    <2>1. RdLeft' = RdLeft /\ WrLeft' = WrLeft
      BY <1>12 DEF RecvDone, RdLeft, WrLeft
    <2> QED
      BY <1>12, <2>1, CountSame DEF RecvDone
  <1>13. ASSUME NEW n \in 0..SENDBUF_SIZE, Send(n) PROVE CountInv'
    BY <1>13, CountWrite DEF Send, WritingPeer
  <1>14. CASE SendAgain
    BY <1>14, CountWrite DEF SendAgain, WritingPeer
  <1>15. CASE ClientStep \/ UNCHANGED vars
    BY <1>15 DEF ClientStep, vars, CountInv, RdLeft, WrLeft
  <1> QED
    BY <1>1, <1>2, <1>3, <1>4, <1>5, <1>6, <1>7, <1>8, <1>9, <1>10, <1>11,
       <1>12, <1>13, <1>14, <1>15 DEF Next, ServerStep

\* The scan ends with every bit visited.
LEMMA ScanEnds ==
  ASSUME IInv, CountInv, ScanDone
  PROVE  ToVisit = {}
  <1>0. TypeOK
    BY DEF IInv
  <1>1. ToVisit = RdLeft \cup WrLeft
    BY DEF ToVisit, RdLeft, WrLeft
  <1>2. status = "running" /\ pc = "read" /\ (fd > fdMax \/ nready <= 0)
    BY <1>0 DEF ScanDone, LoopGuard, TypeOK, LoopTypeOK
  <1>3. CASE fd > fdMax
    BY <1>0, <1>1, <1>2, <1>3, FdSetsFinite DEF CountInv, RdLeft, WrLeft
  <1>4. CASE nready <= 0
    <2>1. Cardinality(RdLeft) = 0 /\ Cardinality(WrLeft) = 0
      BY <1>0, <1>2, <1>4, FdSetsFinite DEF CountInv
    <2> QED
      BY <1>0, <1>1, <2>1, FdSetsFinite, FS_EmptySet
  <1> QED
    BY <1>2, <1>3, <1>4

\* The loop gets back to select only through its end.
LEMMA ScanLeaves ==
  ASSUME [Next]_vars, pc = "read", pc' = "select"
  PROVE  ScanDone
  <1> USE DEF loopVars, masterVars
  <1>1. ~ClientStep /\ ~UNCHANGED vars
    BY DEF ClientStep, vars
  <1>2. ~Select /\ ~ReadSkip /\ ~WriteSkip
    BY DEF Select, ReadSkip, WriteSkip
  <1>3. /\ \A c \in Clients : ~Accept(c)
        /\ ~AcceptAgain /\ ~AcceptFails
    BY DEF Accept, AcceptAgain, AcceptFails
  <1>4. ~RecvBytes /\ ~RecvNothing /\ ~RecvEof /\ ~RecvFails
    BY DEF RecvBytes, RecvNothing, RecvEof, RecvFails
  <1>5. ~RecvByte /\ ~RecvDone /\ ~SendAgain /\ ~SendFails
    BY DEF RecvByte, RecvDone, SendAgain, SendFails
  <1>6. \A n \in 0..SENDBUF_SIZE : ~Send(n)
    BY DEF Send
  <1> QED
    BY <1>1, <1>2, <1>3, <1>4, <1>5, <1>6 DEF Next, ServerStep

\* Leaving the fd loop early on nready (select-server.c:213) skips no event
\* that select reported, for any number of descriptors and although accept
\* raises fdset_max in the middle of the scan.
THEOREM ScanCorrect == Spec => ScanComplete
  <1>1. Init => CountInv
    BY DEF Init, CountInv
  <1>2. IInv /\ CountInv /\ [Next]_vars
          => [pc = "read" /\ pc' = "select" => ToVisit = {}]_vars
    BY ScanEnds, ScanLeaves
  <1> QED
    BY <1>1, <1>2, CountStep, Inductive, PTL DEF Spec, ScanComplete

-----------------------------------------------------------------------------
(* Connections.  Open clients and open descriptors correspond one to one   *)
(* while the server runs; the refinement mapping rests on it.              *)

ConnInv ==
    status = "running" =>
        /\ \A f \in PeerFds : conn[f] # None => phase[conn[f]] = "open"
        /\ \A c \in Clients : phase[c] = "open" => \E f \in PeerFds : conn[f] = c
        /\ \A f, g \in PeerFds : conn[f] # None /\ conn[f] = conn[g] => f = g

SInv == IInv /\ ConnInv

\* The descriptor of an accepted client is open.
LEMMA FdOfOpen ==
  ASSUME SInv, status = "running", NEW c \in Clients, phase[c] = "open"
  PROVE  FdOf(c) \in PeerFds /\ conn[FdOf(c)] = c
  <1>1. \E f \in PeerFds : conn[f] = c
    BY DEF SInv, ConnInv
  <1> QED
    BY <1>1 DEF FdOf

\* The client behind an open descriptor has it as its own.
LEMMA FdOfConn ==
  ASSUME SInv, status = "running", NEW f \in PeerFds, conn[f] # None
  PROVE  conn[f] \in Clients /\ FdOf(conn[f]) = f /\ phase[conn[f]] = "open"
  <1>1. conn[f] \in Clients
    BY DEF SInv, IInv, TypeOK, ConnTypeOK
  <1>2. phase[conn[f]] = "open"
    BY DEF SInv, ConnInv
  <1>3. FdOf(conn[f]) \in PeerFds /\ conn[FdOf(conn[f])] = conn[f]
    BY <1>1, <1>2, FdOfOpen
  <1> QED
    BY <1>1, <1>2, <1>3 DEF SInv, ConnInv

\* The inductive step for the connections.
LEMMA ConnStep == SInv /\ [Next]_vars => ConnInv'
  <1> SUFFICES ASSUME SInv, [Next]_vars, status' = "running" PROVE ConnInv'
    BY DEF ConnInv
  <1>0. conn \in [PeerFds -> Clients \cup {None}] /\ phase \in [Clients -> {"none", "open", "closed"}]
    BY DEF SInv, IInv, TypeOK, ConnTypeOK
  <1>1. ASSUME status = "running", UNCHANGED connVars PROVE ConnInv'
    BY <1>1 DEF SInv, ConnInv, connVars
  <1>2. ASSUME NEW c \in Clients, Accept(c) PROVE ConnInv'
    <2>1. PICK f \in FreeFds : /\ conn' = [conn EXCEPT ![f] = c]
                               /\ phase' = [phase EXCEPT ![c] = "open"]
      BY <1>2 DEF Accept
    <2>2. f \in PeerFds /\ conn[f] = None /\ phase[c] = "none" /\ status = "running"
      BY <1>2 DEF FreeFds, Accept, Backlog, ReadingListener
    <2>3. \A g \in PeerFds : conn[g] # c
      BY <2>2, ConstantsAssumption DEF SInv, ConnInv, ConstantsAssumption
    <2> QED
      BY <1>0, <2>1, <2>2, <2>3, ConstantsAssumption
      DEF SInv, ConnInv, ConstantsAssumption
  <1>3. CASE RecvEof
    <2>1. /\ status = "running" /\ fd \in PeerFds
          /\ conn[fd] \in Clients /\ conn[fd] # None
      BY <1>3, ReadingPeerFacts DEF SInv, RecvEof
    <2>2. /\ conn' = [conn EXCEPT ![fd] = None]
          /\ phase' = [phase EXCEPT ![conn[fd]] = "closed"]
      BY <1>3 DEF RecvEof
    <2> QED
      BY <1>0, <2>1, <2>2, ConstantsAssumption
      DEF SInv, ConnInv, ConstantsAssumption
  <1>4. CASE Select \/ ScanDone \/ ReadSkip \/ WriteSkip \/ AcceptAgain \/ AcceptFails
    BY <1>1, <1>4 DEF Select, ScanDone, ReadSkip, WriteSkip, AcceptAgain,
       AcceptFails, ReadingListener
  <1>5. CASE RecvBytes \/ RecvNothing \/ RecvFails \/ RecvByte \/ RecvDone
    BY <1>1, <1>5 DEF RecvBytes, RecvNothing, RecvFails, RecvByte, RecvDone,
       ReadingPeer
  <1>6. CASE (\E n \in 0..SENDBUF_SIZE : Send(n)) \/ SendAgain \/ SendFails
    BY <1>1, <1>6 DEF Send, SendAgain, SendFails, WritingPeer
  <1>7. CASE ClientStep \/ UNCHANGED vars
    BY <1>1, <1>7 DEF ClientStep, vars, loopVars
  <1> QED
    BY <1>2, <1>3, <1>4, <1>5, <1>6, <1>7 DEF Next, ServerStep

\* Both invariants hold in every reachable state.
LEMMA ServiceInductive == Spec => []SInv
  <1>1. Init => ConnInv
    BY DEF Init, ConnInv
  <1>2. SInv /\ [Next]_vars => SInv'
    BY ConnStep, NextIInv DEF SInv
  <1> QED
    BY <1>1, <1>2, InitIInv, PTL DEF Spec, SInv

-----------------------------------------------------------------------------
(* How the steps of the server look through the refinement mapping.        *)

\* A step that changes no connection and no peer changes nothing seen.
LEMMA MapSame ==
  ASSUME UNCHANGED <<connVars, peerVars>>
  PROVE  \A c \in Clients : ParseOf(c)' = ParseOf(c) /\ OwedTo(c)' = OwedTo(c)
  BY DEF connVars, peerVars, ParseOf, OwedTo, FdOf, Pending

\* A step on one descriptor is not seen by the clients of the others.
LEMMA MapOther ==
  ASSUME SInv, status = "running", NEW f \in PeerFds, NEW d \in Clients,
         conn[f] # d, conn'[f] # d, phase'[d] = phase[d],
         \A g \in PeerFds : g # f => /\ conn'[g] = conn[g]
                                     /\ state'[g] = state[g]
                                     /\ sendbuf'[g] = sendbuf[g]
                                     /\ sendptr'[g] = sendptr[g]
  PROVE  ParseOf(d)' = ParseOf(d) /\ OwedTo(d)' = OwedTo(d)
  <1>1. CASE phase[d] = "open"
    <2>1. FdOf(d) \in PeerFds /\ conn[FdOf(d)] = d
      BY <1>1, FdOfOpen
    <2>2. FdOf(d) # f /\ conn'[FdOf(d)] = d
      BY <2>1
    <2>3. FdOf(d)' \in PeerFds /\ conn'[FdOf(d)'] = d
      BY <2>1, <2>2 DEF FdOf
    <2>4. FdOf(d)' = FdOf(d)
      BY <2>1, <2>3, ConstantsAssumption DEF SInv, ConnInv, ConstantsAssumption
    <2> QED
      BY <2>1, <2>2, <2>4 DEF ParseOf, OwedTo, Pending
  <1>2. CASE phase[d] # "open"
    BY <1>2 DEF ParseOf, OwedTo
  <1> QED
    BY <1>1, <1>2

\* A step that keeps what a client sees is a stuttering step of the service,
\* or its death.
LEMMA MapStutter ==
  ASSUME status = "running", status' \in {"running", "died", "aborted"},
         UNCHANGED <<phase, got, out>>,
         \A c \in Clients : ParseOf(c)' = ParseOf(c) /\ OwedTo(c)' = OwedTo(c)
  PROVE  [Service!Next]_(Service!vars)
  <1>1. /\ [c \in Clients |-> ParseOf(c)]' = [c \in Clients |-> ParseOf(c)]
        /\ [c \in Clients |-> OwedTo(c)]' = [c \in Clients |-> OwedTo(c)]
    OBVIOUS
  <1>2. CASE status' = "running"
    BY <1>1, <1>2 DEF Service!vars
  <1>3. CASE status' # "running"
    BY <1>1, <1>3 DEF Service!Next, Service!Die
  <1> QED
    BY <1>2, <1>3

\* accept is the service's Connect, or its death when the descriptor is out
\* of range.
LEMMA AcceptMaps ==
  ASSUME SInv, NEW c \in Clients, Accept(c)
  PROVE  [Service!Next]_(Service!vars)
  <1> USE DEF peerVars, histVars
  <1>1. PICK f \in FreeFds :
         /\ conn' = [conn EXCEPT ![f] = c]
         /\ \/ /\ status' \in {"died", "aborted"}
               /\ UNCHANGED <<state, sendbuf, sendptr, phase>>
            \/ /\ PeerConnected(f)
               /\ phase' = [phase EXCEPT ![c] = "open"]
               /\ UNCHANGED status
    BY DEF Accept
  <1>2. /\ f \in PeerFds /\ conn[f] = None /\ phase[c] = "none"
        /\ status = "running" /\ UNCHANGED <<got, out>>
    BY DEF FreeFds, Accept, Backlog, ReadingListener
  <1>3. /\ conn \in [PeerFds -> Clients \cup {None}]
        /\ phase \in [Clients -> {"none", "open", "closed"}]
        /\ state \in [PeerFds -> {"INITIAL_ACK", "WAIT_FOR_MSG", "IN_MSG"}]
        /\ sendbuf \in [PeerFds -> Seq(0..255)] /\ sendptr \in [PeerFds -> Nat]
    BY DEF SInv, IInv, TypeOK, ConnTypeOK, PeerTypeOK
  <1>4. ASSUME NEW d \in Clients, d # c
        PROVE  ParseOf(d)' = ParseOf(d) /\ OwedTo(d)' = OwedTo(d)
    <2>1. /\ conn[f] # d /\ conn'[f] # d /\ phase'[d] = phase[d]
          /\ \A g \in PeerFds : g # f => /\ conn'[g] = conn[g]
                                         /\ state'[g] = state[g]
                                         /\ sendbuf'[g] = sendbuf[g]
                                         /\ sendptr'[g] = sendptr[g]
      BY <1>1, <1>2, <1>3, <1>4, ConstantsAssumption
      DEF ConstantsAssumption, PeerConnected
    <2> QED
      BY <1>2, <2>1, MapOther
  <1>5. CASE status' # "running"
    <2>1. ParseOf(c)' = ParseOf(c) /\ OwedTo(c)' = OwedTo(c)
      BY <1>1, <1>2, <1>5 DEF ParseOf, OwedTo
    <2> QED
      BY <1>1, <1>2, <1>4, <1>5, <2>1, MapStutter
  <1>6. CASE status' = "running"
    <2>1. /\ phase' = [phase EXCEPT ![c] = "open"]
          /\ state' = [state EXCEPT ![f] = "INITIAL_ACK"]
          /\ sendbuf' = [sendbuf EXCEPT ![f] = <<Star>>]
          /\ sendptr' = [sendptr EXCEPT ![f] = 0]
      BY <1>1, <1>6 DEF PeerConnected
    <2>2. FdOf(c)' = f
      <3>1. SInv' /\ conn'[f] = c /\ c # None
        <4>1. [Next]_vars
          BY DEF Next, ServerStep
        <4> QED
          BY <4>1, <1>1, <1>2, <1>3, ConnStep, NextIInv, ConstantsAssumption
          DEF SInv, ConstantsAssumption
      <3>2. FdOf(c)' \in PeerFds /\ conn'[FdOf(c)'] = c
        BY <1>2, <3>1 DEF FdOf
      <3> QED
        BY <1>2, <1>6, <3>1, <3>2 DEF SInv, ConnInv
    <2>3. state'[f] = "INITIAL_ACK" /\ sendbuf'[f] = <<Star>> /\ sendptr'[f] = 0
      BY <1>2, <1>3, <2>1
    <2>4. ParseOf(c)' = ParseOf(c)
      BY <1>2, <1>3, <2>1, <2>2, <2>3 DEF ParseOf
    <2>5. OwedTo(c)' = <<Star>>
      <3>1. Pending(f)' = SubSeq(<<Star>>, 1, Len(<<Star>>))
        BY <2>3 DEF Pending
      <3>2. <<Star>> \in Seq(0..255)
        BY DEF Star
      <3>3. SubSeq(<<Star>>, 1, Len(<<Star>>)) = <<Star>>
        BY <3>2, SubSeqFull
      <3> QED
        BY <1>3, <2>1, <2>2, <3>1, <3>3 DEF OwedTo, Pending
    <2>6. /\ [d \in Clients |-> ParseOf(d)]' = [d \in Clients |-> ParseOf(d)]
          /\ [d \in Clients |-> OwedTo(d)]'
               = [[d \in Clients |-> OwedTo(d)] EXCEPT ![c] = <<Star>>]
      BY <1>4, <2>4, <2>5
    <2>7. Service!Connect(c)
      BY <1>2, <1>6, <2>1, <2>6 DEF Service!Connect, Service!Star, Star
    <2> QED
      BY <2>7 DEF Service!Next
  <1> QED
    BY <1>5, <1>6

\* recv returning 0 is the service's Finish: nothing is owed any more.
LEMMA EofMaps ==
  ASSUME SInv, RecvEof, NEW c \in Clients, c = conn[fd]
  PROVE  [Service!Next]_(Service!vars)
  <1> USE DEF peerVars, histVars
  <1>1. /\ status = "running" /\ fd \in PeerFds /\ c \in Clients /\ c # None
        /\ FdOf(c) = fd /\ phase[c] = "open"
    BY ReadingPeerFacts, FdOfConn DEF SInv, RecvEof
  <1>2. /\ conn' = [conn EXCEPT ![fd] = None]
        /\ phase' = [phase EXCEPT ![c] = "closed"]
        /\ UNCHANGED <<status, state, sendbuf, sendptr, got, out>>
        /\ ~(sendptr[fd] < Len(sendbuf[fd]))
    BY DEF RecvEof, MustSendFirst
  <1>3. /\ conn \in [PeerFds -> Clients \cup {None}]
        /\ phase \in [Clients -> {"none", "open", "closed"}]
        /\ sendptr[fd] \in Nat /\ Len(sendbuf[fd]) \in Nat
    BY <1>1 DEF SInv, IInv, TypeOK, ConnTypeOK, PeerTypeOK
  <1>4. ASSUME NEW d \in Clients, d # c
        PROVE  ParseOf(d)' = ParseOf(d) /\ OwedTo(d)' = OwedTo(d)
    <2>1. /\ conn[fd] # d /\ conn'[fd] # d /\ phase'[d] = phase[d]
          /\ \A g \in PeerFds : g # fd => conn'[g] = conn[g]
      BY <1>1, <1>2, <1>3, <1>4, ConstantsAssumption DEF ConstantsAssumption
    <2> QED
      BY <1>1, <1>2, <2>1, MapOther
  <1>5. ParseOf(c)' = "WAIT_FOR_MSG" /\ OwedTo(c)' = <<>>
    BY <1>1, <1>2, <1>3 DEF ParseOf, OwedTo
  <1>6. OwedTo(c) = <<>>
    <2>1. Pending(fd) = <<>>
      BY <1>2, <1>3, SubSeqEmpty DEF Pending
    <2> QED
      BY <1>1, <2>1 DEF OwedTo
  <1>7. /\ [d \in Clients |-> OwedTo(d)]' = [d \in Clients |-> OwedTo(d)]
        /\ [d \in Clients |-> ParseOf(d)]'
             = [[d \in Clients |-> ParseOf(d)] EXCEPT ![c] = "WAIT_FOR_MSG"]
    BY <1>1, <1>4, <1>5, <1>6
  <1>8. Service!Finish(c)
    BY <1>1, <1>2, <1>6, <1>7 DEF Service!Finish
  <1> QED
    BY <1>1, <1>8 DEF Service!Next

\* What one byte does to the peer's state and send buffer, as a function.
LEMMA ByteEffect ==
  ASSUME SInv, RecvByte, NEW b, b = Head(buf)
  PROVE  /\ status' = "running" /\ b \in Bytes
         /\ fd \in PeerFds /\ conn[fd] \in Clients /\ conn[fd] # None
         /\ sendptr[fd] = 0
         /\ state[fd] \in {"WAIT_FOR_MSG", "IN_MSG"}
         /\ state' = [state EXCEPT ![fd] = Service!NextParse(state[fd], b)]
         /\ sendbuf' = [sendbuf EXCEPT ![fd] =
                          sendbuf[fd] \o Service!Reply(state[fd], b)]
  <1>1. status = "running" /\ pc = "bytes" /\ buf # <<>>
    BY DEF RecvByte
  <1>2. /\ fd \in PeerFds /\ conn[fd] # None /\ sendptr[fd] = 0
        /\ state[fd] # "INITIAL_ACK"
        /\ Len(sendbuf[fd]) + Len(buf) <= SENDBUF_SIZE
    BY <1>1 DEF SInv, IInv, BytesInv
  <1>3. /\ sendbuf \in [PeerFds -> Seq(0..255)] /\ buf \in Seq(Bytes)
        /\ state \in [PeerFds -> {"INITIAL_ACK", "WAIT_FOR_MSG", "IN_MSG"}]
        /\ conn \in [PeerFds -> Clients \cup {None}]
    BY DEF SInv, IInv, TypeOK, PeerTypeOK, ConnTypeOK
  <1>4. b \in Bytes /\ b \in 0..255
    BY <1>1, <1>3, HeadTailProperties, ConstantsAssumption DEF ConstantsAssumption
  <1>5. Len(sendbuf[fd]) < SENDBUF_SIZE
    <2>1. Len(buf) >= 1 /\ Len(buf) \in Nat /\ Len(sendbuf[fd]) \in Nat
      BY <1>1, <1>2, <1>3
    <2> QED
      BY <1>2, <2>1, ConstantsAssumption DEF ConstantsAssumption
  <1>6. OnByte(fd, b)
    BY <1>2 DEF RecvByte
  <1>7. /\ status' = "running"
        /\ state' = [state EXCEPT ![fd] = Service!NextParse(state[fd], b)]
    BY <1>1, <1>2, <1>3, <1>5, <1>6 DEF OnByte, Service!NextParse, Caret,
       Dollar, Service!Caret, Service!Dollar
  <1>8. sendbuf' = [sendbuf EXCEPT ![fd] = sendbuf[fd] \o Service!Reply(state[fd], b)]
    <2>0. (b + 1) % 256 \in 0..255
      BY <1>4
    <2>1. sendbuf[fd] \in Seq(0..255) /\ (b + 1) % 256 \in 0..255
      BY <1>2, <1>3, <2>0
    <2>2. Append(sendbuf[fd], (b + 1) % 256) = sendbuf[fd] \o <<(b + 1) % 256>>
      BY <2>1, AppendIsConcat
    <2>3. CASE state[fd] = "IN_MSG" /\ b # Dollar
      BY <1>5, <1>6, <2>2, <2>3 DEF OnByte, Service!Reply, Service!Inc, Dollar,
         Service!Dollar
    <2>4. CASE ~(state[fd] = "IN_MSG" /\ b # Dollar)
      <3>1. sendbuf[fd] \o <<>> = sendbuf[fd]
        BY <2>1, ConcatEmptySeq
      <3>2. sendbuf' = sendbuf
        BY <1>5, <1>6, <2>4 DEF OnByte
      <3> QED
        BY <1>3, <2>4, <3>1, <3>2 DEF Service!Reply, Dollar, Service!Dollar
    <2> QED
      BY <2>3, <2>4
  <1> QED
    BY <1>2, <1>3, <1>4, <1>7, <1>8

\* One turn of the byte loop is the service's Consume.
LEMMA ByteMaps ==
  ASSUME SInv, RecvByte, NEW c \in Clients, c = conn[fd], NEW b, b = Head(buf)
  PROVE  [Service!Next]_(Service!vars)
  <1>1. /\ status = "running" /\ UNCHANGED <<sendptr, conn, phase, out>>
    BY DEF RecvByte, connVars
  <1>2. /\ status' = "running" /\ b \in Bytes /\ fd \in PeerFds
        /\ c \in Clients /\ c # None /\ sendptr[fd] = 0
        /\ state[fd] \in {"WAIT_FOR_MSG", "IN_MSG"}
        /\ state' = [state EXCEPT ![fd] = Service!NextParse(state[fd], b)]
        /\ sendbuf' = [sendbuf EXCEPT ![fd] =
                         sendbuf[fd] \o Service!Reply(state[fd], b)]
    BY ByteEffect
  <1>3. got' = [got EXCEPT ![c] = Append(got[c], b)]
    BY <1>2 DEF RecvByte
  <1>4. FdOf(c) = fd /\ FdOf(c)' = fd /\ phase[c] = "open"
    <2>1. FdOf(c) = fd /\ phase[c] = "open"
      BY <1>1, <1>2, FdOfConn
    <2>2. (\A g \in PeerFds : conn'[g] = conn[g]) /\ conn' = conn
      BY <1>1
    <2> QED
      BY <2>1, <2>2 DEF FdOf
  <1>5. /\ sendbuf \in [PeerFds -> Seq(0..255)]
        /\ state \in [PeerFds -> {"INITIAL_ACK", "WAIT_FOR_MSG", "IN_MSG"}]
    BY DEF SInv, IInv, TypeOK, PeerTypeOK
  <1>6. Service!NextParse(state[fd], b) \in {"WAIT_FOR_MSG", "IN_MSG"}
    BY DEF Service!NextParse
  <1>7. ParseOf(c) = state[fd] /\ ParseOf(c)' = Service!NextParse(state[fd], b)
    BY <1>1, <1>2, <1>4, <1>5, <1>6 DEF ParseOf
  <1>8. OwedTo(c) = sendbuf[fd] /\ OwedTo(c)' = sendbuf'[fd]
    <2>1. sendbuf[fd] \in Seq(0..255)
      BY <1>2, <1>5
    <2>2. sendbuf'[fd] \in Seq(0..255)
      <3>1. SInv'
        BY ConnStep, NextIInv DEF SInv, Next, ServerStep
      <3> QED
        BY <1>2, <3>1 DEF SInv, IInv, TypeOK, PeerTypeOK
    <2>3. /\ SubSeq(sendbuf[fd], 1, Len(sendbuf[fd])) = sendbuf[fd]
          /\ SubSeq(sendbuf'[fd], 1, Len(sendbuf'[fd])) = sendbuf'[fd]
      BY <2>1, <2>2, SubSeqFull
    <2> QED
      BY <1>1, <1>2, <1>4, <2>3 DEF OwedTo, Pending
  <1>9. OwedTo(c)' = OwedTo(c) \o Service!Reply(ParseOf(c), b)
    BY <1>2, <1>5, <1>7, <1>8
  <1>10. ASSUME NEW d \in Clients, d # c
         PROVE  ParseOf(d)' = ParseOf(d) /\ OwedTo(d)' = OwedTo(d)
    <2>1. conn[fd] # d /\ conn'[fd] # d /\ phase'[d] = phase[d]
      BY <1>1, <1>10
    <2>2. \A g \in PeerFds : g # fd => /\ conn'[g] = conn[g]
                                       /\ state'[g] = state[g]
                                       /\ sendbuf'[g] = sendbuf[g]
                                       /\ sendptr'[g] = sendptr[g]
      BY <1>1, <1>2, <1>5
    <2> QED
      BY <1>1, <1>2, <2>1, <2>2, MapOther
  <1>11. /\ [d \in Clients |-> ParseOf(d)]'
              = [[d \in Clients |-> ParseOf(d)] EXCEPT
                   ![c] = Service!NextParse(ParseOf(c), b)]
         /\ [d \in Clients |-> OwedTo(d)]'
              = [[d \in Clients |-> OwedTo(d)] EXCEPT
                   ![c] = OwedTo(c) \o Service!Reply(ParseOf(c), b)]
    BY <1>2, <1>7, <1>9, <1>10
  <1>12. Service!Consume(c, b)
    BY <1>1, <1>2, <1>3, <1>4, <1>11 DEF Service!Consume
  <1> QED
    BY <1>2, <1>12 DEF Service!Next

\* Dropping n more bytes of what is left after dropping m.
LEMMA DropDrop ==
  ASSUME NEW S, NEW s \in Seq(S), NEW m \in Nat, NEW n \in Nat,
         m + n <= Len(s), n >= 1
  PROVE  SubSeq(SubSeq(s, m + 1, Len(s)), n + 1, Len(SubSeq(s, m + 1, Len(s))))
           = SubSeq(s, m + n + 1, Len(s))
  <1> DEFINE t == SubSeq(s, m + 1, Len(s))
  <1>0. Len(s) \in Nat /\ m + 1 \in 1..Len(s) /\ Len(s) \in 1..Len(s)
    OBVIOUS
  <1>1. Len(t) = Len(s) - m
    <2>1. \A i \in (m + 1)..Len(s) : s[i] \in S
      BY <1>0, LenProperties
    <2> QED
      BY <1>0, <2>1, SubSeqProperties
  <1>2. CASE m + n = Len(s)
    <2>1. SubSeq(t, n + 1, Len(t)) = <<>>
      BY <1>0, <1>1, <1>2, SubSeqEmpty
    <2>2. SubSeq(s, m + n + 1, Len(s)) = <<>>
      BY <1>0, <1>2, SubSeqEmpty
    <2> QED
      BY <2>1, <2>2
  <1>3. CASE m + n < Len(s)
    <2>1. /\ n + 1 \in 1..(Len(s) - (m + 1) + 1)
          /\ Len(s) - m \in 1..(Len(s) - (m + 1) + 1)
      BY <1>0, <1>3
    <2>2. SubSeq(t, n + 1, Len(s) - m)
            = SubSeq(s, (m + 1) + (n + 1) - 1, (m + 1) + (Len(s) - m) - 1)
      BY <1>0, <2>1, SubSeqOfSubSeq
    <2>3. (m + 1) + (n + 1) - 1 = m + n + 1 /\ (m + 1) + (Len(s) - m) - 1 = Len(s)
      BY <1>0
    <2> QED
      BY <1>1, <2>2, <2>3
  <1> QED
    BY <1>0, <1>2, <1>3

\* A send, short or whole, is the service's Deliver of what the kernel took.
LEMMA SendMaps ==
  ASSUME SInv, NEW n \in Nat, Send(n), NEW f \in PeerFds, f = fd,
         NEW c \in Clients, c = conn[f]
  PROVE  [Service!Next]_(Service!vars)
  <1>1. /\ status = "running" /\ c # None
        /\ FdOf(c) = f /\ phase[c] = "open"
        /\ sendptr[f] < Len(sendbuf[f])
        /\ sendptr[f] \in Nat /\ sendbuf[f] \in Seq(0..255)
        /\ Len(sendbuf[f]) \in Nat
    BY WritingPeerFacts, FdOfConn DEF SInv, Send
  <1>2. /\ n \in 1..Len(Pending(f))
        /\ out' = [out EXCEPT ![c] = out[c] \o SubSeq(Pending(f), 1, n)]
        /\ IF n < Len(Pending(f)) THEN SentPart(f, n) ELSE SentAll(f)
        /\ UNCHANGED <<status, conn, phase, got>>
    <2>1. ~(sendptr[f] >= Len(sendbuf[f]))
      BY <1>1
    <2> QED
      BY <2>1 DEF Send, connVars
  <1>3. /\ sendbuf \in [PeerFds -> Seq(0..255)] /\ sendptr \in [PeerFds -> Nat]
        /\ state \in [PeerFds -> {"INITIAL_ACK", "WAIT_FOR_MSG", "IN_MSG"}]
    BY DEF SInv, IInv, TypeOK, PeerTypeOK
  <1>4. FdOf(c)' = f
    BY <1>1, <1>2 DEF FdOf
  <1>5. Len(Pending(f)) = Len(sendbuf[f]) - sendptr[f]
    <2>1. sendbuf[f] \in [1..Len(sendbuf[f]) -> 0..255]
      BY <1>1, LenProperties
    <2>2. \A i \in (sendptr[f] + 1)..Len(sendbuf[f]) : i \in 1..Len(sendbuf[f])
      BY <1>1
    <2>3. \A i \in (sendptr[f] + 1)..Len(sendbuf[f]) : sendbuf[f][i] \in 0..255
      BY <2>1, <2>2
    <2>4. Len(SubSeq(sendbuf[f], sendptr[f] + 1, Len(sendbuf[f])))
            = Len(sendbuf[f]) - (sendptr[f] + 1) + 1
      BY <1>1, <2>3, SubSeqProperties
    <2> QED
      BY <1>1, <2>4 DEF Pending
  <1>6. /\ \A g \in PeerFds : g # f => /\ state'[g] = state[g]
                                       /\ sendbuf'[g] = sendbuf[g]
                                       /\ sendptr'[g] = sendptr[g]
        /\ state'[f] = "IN_MSG" <=> state[f] = "IN_MSG"
        /\ Pending(f)' = SubSeq(Pending(f), n + 1, Len(Pending(f)))
    <2>1. CASE n < Len(Pending(f))
      <3>1. /\ sendptr' = [sendptr EXCEPT ![f] = sendptr[f] + n]
            /\ UNCHANGED <<sendbuf, state>>
        BY <1>2, <2>1 DEF SentPart
      <3>2. sendptr[f] + n <= Len(sendbuf[f]) /\ n >= 1
        BY <1>1, <1>2, <1>5, <2>1
      <3>3. SubSeq(Pending(f), n + 1, Len(Pending(f)))
              = SubSeq(sendbuf[f], sendptr[f] + n + 1, Len(sendbuf[f]))
        <4> DEFINE s == sendbuf[f]
                   m == sendptr[f]
        <4>1. s \in Seq(0..255) /\ m \in Nat /\ m + n <= Len(s) /\ n >= 1
          BY <1>1, <3>2
        <4> HIDE DEF s, m
        <4>2. SubSeq(SubSeq(s, m + 1, Len(s)), n + 1, Len(SubSeq(s, m + 1, Len(s))))
                = SubSeq(s, m + n + 1, Len(s))
          BY <4>1, DropDrop
        <4> QED
          BY <4>2 DEF Pending, s, m
      <3>4. sendptr'[f] = sendptr[f] + n
        BY <1>3, <3>1
      <3>5. Pending(f)' = SubSeq(sendbuf[f], sendptr[f] + n + 1, Len(sendbuf[f]))
        BY <3>1, <3>4 DEF Pending
      <3> QED
        BY <1>3, <3>1, <3>3, <3>5
    <2>2. CASE ~(n < Len(Pending(f)))
      <3>1. /\ sendptr' = [sendptr EXCEPT ![f] = 0]
            /\ sendbuf' = [sendbuf EXCEPT ![f] = <<>>]
            /\ state' = [state EXCEPT ![f] =
                 IF state[f] = "INITIAL_ACK" THEN "WAIT_FOR_MSG" ELSE state[f]]
        BY <1>2, <2>2 DEF SentAll
      <3>2. SubSeq(Pending(f), n + 1, Len(Pending(f))) = <<>>
        BY <1>1, <1>2, <1>5, <2>2, SubSeqEmpty
      <3>3. sendptr'[f] = 0 /\ sendbuf'[f] = <<>>
        BY <1>3, <3>1
      <3>4. Len(<<>>) = 0 /\ SubSeq(<<>>, 1, 0) = <<>>
        BY SubSeqEmpty
      <3>5. Pending(f)' = <<>>
        BY <3>3, <3>4 DEF Pending
      <3> QED
        BY <1>3, <3>1, <3>2, <3>5
    <2> QED
      BY <2>1, <2>2
  <1>7. /\ ParseOf(c)' = ParseOf(c) /\ OwedTo(c) = Pending(f)
        /\ OwedTo(c)' = SubSeq(OwedTo(c), n + 1, Len(OwedTo(c)))
    BY <1>1, <1>2, <1>4, <1>6 DEF ParseOf, OwedTo
  <1>8. ASSUME NEW d \in Clients, d # c
        PROVE  ParseOf(d)' = ParseOf(d) /\ OwedTo(d)' = OwedTo(d)
    BY <1>1, <1>2, <1>6, <1>8, MapOther
  <1>9. /\ [d \in Clients |-> ParseOf(d)]' = [d \in Clients |-> ParseOf(d)]
        /\ [d \in Clients |-> OwedTo(d)]'
             = [[d \in Clients |-> OwedTo(d)] EXCEPT
                  ![c] = SubSeq(OwedTo(c), n + 1, Len(OwedTo(c)))]
    BY <1>7, <1>8
  <1>10. Service!Deliver(c, n)
    BY <1>1, <1>2, <1>7, <1>9 DEF Service!Deliver
  <1>11. n \in 1..Len([d \in Clients |-> OwedTo(d)][c])
    BY <1>2, <1>7
  <1> QED
    BY <1>10, <1>11 DEF Service!Next

\* Every step of the server maps to a step of EchoService or to a stutter.
LEMMA StepMaps == SInv /\ [Next]_vars => [Service!Next]_(Service!vars)
  <1> SUFFICES ASSUME SInv, [Next]_vars PROVE [Service!Next]_(Service!vars)
    OBVIOUS
  <1> USE DEF histVars
  <1>1. ASSUME status = "running", status' \in {"running", "died", "aborted"},
               UNCHANGED <<connVars, peerVars, histVars>>
        PROVE  [Service!Next]_(Service!vars)
    BY <1>1, MapSame, MapStutter DEF connVars
  <1>2. ASSUME NEW c \in Clients, Accept(c) PROVE [Service!Next]_(Service!vars)
    BY <1>2, AcceptMaps
  <1>3. CASE RecvEof
    <2>1. conn[fd] \in Clients
      BY <1>3, ReadingPeerFacts DEF SInv, RecvEof
    <2> QED
      BY <1>3, <2>1, EofMaps
  <1>4. CASE RecvByte
    <2>1. conn[fd] \in Clients
      BY <1>4, ByteEffect
    <2> QED
      BY <1>4, <2>1, ByteMaps
  <1>5. ASSUME NEW n \in 0..SENDBUF_SIZE, Send(n)
        PROVE  [Service!Next]_(Service!vars)
    <2>1. n \in Nat
      BY ConstantsAssumption DEF ConstantsAssumption
    <2>2. fd \in PeerFds /\ conn[fd] \in Clients
      BY <1>5, WritingPeerFacts DEF SInv, Send
    <2> QED
      BY <1>5, <2>1, <2>2, SendMaps
  <1>6. CASE Select \/ ScanDone \/ ReadSkip \/ WriteSkip
    BY <1>1, <1>6 DEF Select, ScanDone, ReadSkip, WriteSkip
  <1>7. CASE AcceptAgain \/ AcceptFails
    BY <1>1, <1>7 DEF AcceptAgain, AcceptFails, ReadingListener
  <1>8. CASE RecvBytes \/ RecvNothing \/ RecvFails \/ RecvDone
    BY <1>1, <1>8 DEF RecvBytes, RecvNothing, RecvFails, RecvDone, ReadingPeer
  <1>9. CASE SendAgain \/ SendFails
    BY <1>1, <1>9 DEF SendAgain, SendFails, WritingPeer
  <1>10. CASE ClientStep
    <2>1. status = "running"
      BY <1>10 DEF ClientStep, ClientConnect, ClientSend, ClientRead,
         ClientClose, Running
    <2> QED
      BY <1>1, <1>10, <2>1 DEF ClientStep, loopVars
  <1>11. CASE UNCHANGED vars
    <2>1. \A c \in Clients : ParseOf(c)' = ParseOf(c) /\ OwedTo(c)' = OwedTo(c)
      BY <1>11, MapSame DEF vars
    <2>2. /\ [c \in Clients |-> ParseOf(c)]' = [c \in Clients |-> ParseOf(c)]
          /\ [c \in Clients |-> OwedTo(c)]' = [c \in Clients |-> OwedTo(c)]
      BY <2>1
    <2> QED
      BY <1>11, <2>2 DEF vars, loopVars, connVars, Service!vars
  <1> QED
    BY <1>2, <1>3, <1>4, <1>5, <1>6, <1>7, <1>8, <1>9, <1>10, <1>11
    DEF Next, ServerStep

\* The select server implements EchoService for any number of clients and
\* descriptors and any buffer sizes: through short sends, replies that span
\* recv calls, closed and reused descriptors, every client is served as if
\* it had a server of its own (select-server.c:63-167 and 196-294).
THEOREM ServiceCorrect == Spec => ImplementsService
  <1>1. Init => Service!Init
    <2> SUFFICES ASSUME Init PROVE Service!Init
      OBVIOUS
    <2>1. \A c \in Clients : phase[c] = "none"
      BY DEF Init
    <2>2. \A c \in Clients : ParseOf(c) = "WAIT_FOR_MSG" /\ OwedTo(c) = <<>>
      BY <2>1 DEF ParseOf, OwedTo
    <2> QED
      BY <2>2 DEF Init, Service!Init
  <1> QED
    BY <1>1, StepMaps, ServiceInductive, PTL DEF Spec, ImplementsService, Service!Spec

\* EchoService with its theorems, under the same refinement mapping.
Promise == INSTANCE EchoServiceProofs WITH
    parse <- [c \in Clients |-> ParseOf(c)],
    owed  <- [c \in Clients |-> OwedTo(c)],
    dead  <- status # "running"

\* The replies of the select server are exact for any number of clients and
\* any input: what EchoService promises holds of every implementation
\* (select-server.c:103-123 and 127-166).
THEOREM EchoExactCorrect == Spec => []EchoExact
  <1>1. Bytes \subseteq 0..255
    BY ConstantsAssumption DEF ConstantsAssumption
  <1>2. Promise!Spec => []Promise!EchoReference
    BY <1>1, Promise!EchoCorrect
  <1>3. Service!Init => Promise!Init
    BY DEF Service!Init, Promise!Init
  <1>4. [Service!Next]_(Service!vars) => [Promise!Next]_(Promise!vars)
    <2>1. /\ \A c \in Clients : Service!Connect(c) => Promise!Connect(c)
          /\ \A c \in Clients : Service!Finish(c) => Promise!Finish(c)
          /\ Service!Die => Promise!Die
      BY Zenon DEF Service!Connect, Promise!Connect, Service!Finish, Promise!Finish,
         Service!Die, Promise!Die, Service!Star, Promise!Star
    <2>2. \A c \in Clients, b \in Bytes : Service!Consume(c, b) => Promise!Consume(c, b)
      BY Zenon DEF Service!Consume, Promise!Consume, Service!NextParse,
         Promise!NextParse, Service!Reply, Promise!Reply, Service!Inc,
         Promise!Inc, Service!Caret, Promise!Caret, Service!Dollar,
         Promise!Dollar
    <2>3. \A c \in Clients, n \in Nat : Service!Deliver(c, n) => Promise!Deliver(c, n)
      BY Zenon DEF Service!Deliver, Promise!Deliver
    <2>4. Service!vars = Promise!vars /\ (Service!vars)' = (Promise!vars)'
      BY Zenon DEF Service!vars, Promise!vars
    <2> QED
      BY <2>1, <2>2, <2>3, <2>4 DEF Service!Next, Promise!Next
  <1>5. Promise!EchoReference => EchoExact
    BY Zenon DEF EchoExact, Service!EchoReference, Promise!EchoReference,
       Service!Star, Promise!Star, Service!Echo, Promise!Echo, Service!Payloads,
       Promise!Payloads, Service!Payload, Promise!Payload, Service!Nth,
       Promise!Nth, Service!Rank, Promise!Rank, Service!Inc, Promise!Inc,
       Service!Caret, Promise!Caret, Service!Dollar, Promise!Dollar,
       Service!Cardinality, Promise!Cardinality
  <1> QED
    BY <1>2, <1>3, <1>4, <1>5, ServiceCorrect, PTL
    DEF ImplementsService, Service!Spec, Promise!Spec
=============================================================================
