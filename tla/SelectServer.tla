---------------------------- MODULE SelectServer ----------------------------
(***************************************************************************)
(* socket/socket_server/select-server.c: one thread serves every peer from *)
(* a select() loop over two master fd sets, with one peer_state_t per file *)
(* descriptor.  The server's steps are the return of select, one half      *)
(* (read or write) of one iteration of the fd loop, and one byte of the    *)
(* loop in on_peer_ready_recv; the clients act between any two of them.    *)
(*                                                                         *)
(* The descriptors below the listener are taken for the life of the        *)
(* process (stdin, stdout, stderr), so accept returns the lowest free one  *)
(* above it.                                                               *)
(***************************************************************************)
EXTENDS Integers, Sequences, FiniteSets

CONSTANTS Clients,       \* the connections that are ever made
          None,          \* no client
          Bytes,         \* byte values a client sends
          Listener,      \* listener_sockfd
          MAXFDS,        \* length of global_state
          FD_SETSIZE,    \* capacity of an fd_set
          FdLimit,       \* RLIMIT_NOFILE: accept fails at this descriptor
          RecvMax,       \* sizeof buf in on_peer_ready_recv
          SENDBUF_SIZE,  \* length of peer_state_t.sendbuf
          OutCap,        \* bytes the kernel takes before the client reads
          MaxBytes,      \* bound: bytes a client sends in its life
          Spurious,      \* TRUE: select may report an idle descriptor
          Resets         \* TRUE: a client may close before it is answered

ASSUME ConstantsAssumption ==
    /\ None \notin Clients
    /\ Bytes \subseteq 0..255
    /\ Listener \in Nat /\ MAXFDS \in Nat /\ FD_SETSIZE \in Nat
    /\ FdLimit \in Nat /\ RecvMax \in Nat /\ SENDBUF_SIZE \in Nat
    /\ Listener < FD_SETSIZE          \* lines 179-182
    /\ 1 <= RecvMax                   \* 1024 in the code
    /\ RecvMax <= SENDBUF_SIZE        \* both are 1024 in the code
    /\ OutCap \in Nat \ {0} /\ MaxBytes \in Nat
    /\ Spurious \in BOOLEAN /\ Resets \in BOOLEAN

Star   == 42
Caret  == 94
Dollar == 36

PeerFds == (Listener + 1)..(FdLimit - 1)

VARIABLES
    status,    \* "running"; "died": perror_die or die; "aborted": assert
    pc,        \* "select", "read" and "write" half of fd, "bytes"
    readM,     \* readfds_master
    writeM,    \* writefds_master
    rd, wr,    \* readfds and writefds as select left them
    nready, fd, fdMax,
    state, sendbuf, sendptr,  \* global_state[fd]; sendbuf_end = Len(sendbuf)
    buf,       \* buf[i..nbytes-1], the received bytes not yet handled
    readyToSend,
    conn,      \* conn[fd]: the client on an open descriptor, else None
    selConn,   \* history: conn when select last returned
    cl,        \* cl[c]: "idle", "up", "eof", "reset"
    inq,       \* inq[c]: bytes sent by c, not yet received
    nsent,     \* nsent[c]: how many bytes c has sent
    unread,    \* unread[c]: bytes sent to c that it has not read
    phase, got, out  \* history: connection life, bytes handled, bytes sent

loopVars   == <<status, pc, rd, wr, nready, fd>>
masterVars == <<readM, writeM, fdMax>>
peerVars   == <<state, sendbuf, sendptr>>
recvVars   == <<buf, readyToSend>>
connVars   == <<conn, phase>>
clientVars == <<cl, inq, nsent, unread>>
histVars   == <<got, out>>
vars == <<loopVars, masterVars, peerVars, recvVars, connVars, selConn,
          clientVars, histVars>>

Pending(f) == SubSeq(sendbuf[f], sendptr[f] + 1, Len(sendbuf[f]))

-----------------------------------------------------------------------------
Init ==
    /\ status = "running" /\ pc = "select"
    /\ readM = {Listener} /\ writeM = {}
    /\ rd = {} /\ wr = {} /\ nready = 0 /\ fd = 0 /\ fdMax = Listener
    /\ state = [f \in PeerFds |-> "INITIAL_ACK"]   \* static storage: zeroes
    /\ sendbuf = [f \in PeerFds |-> <<>>]
    /\ sendptr = [f \in PeerFds |-> 0]
    /\ buf = <<>> /\ readyToSend = FALSE
    /\ conn = [f \in PeerFds |-> None] /\ selConn = conn
    /\ cl = [c \in Clients |-> "idle"]
    /\ inq = [c \in Clients |-> <<>>]
    /\ nsent = [c \in Clients |-> 0]
    /\ unread = [c \in Clients |-> 0]
    /\ phase = [c \in Clients |-> "none"]
    /\ got = [c \in Clients |-> <<>>]
    /\ out = [c \in Clients |-> <<>>]

-----------------------------------------------------------------------------
(* select(): blocks until a monitored descriptor up to fdset_max is ready. *)
(* It may report a descriptor that is not (comment at lines 174-176); the  *)
(* model lets it report at most one such descriptor per call.              *)

Backlog == {c \in Clients : cl[c] # "idle" /\ phase[c] = "none"}

Readable(f) == IF f = Listener THEN Backlog # {}
               ELSE \/ inq[conn[f]] # <<>>
                    \/ cl[conn[f]] \in {"eof", "reset"}

Writable(f) == unread[conn[f]] < OutCap \/ cl[conn[f]] \in {"eof", "reset"}

\* A closed descriptor in a set makes select fail with EBADF.
SelectFails == \E f \in (readM \cup writeM) \ {Listener} :
                   f <= fdMax /\ conn[f] = None

Select ==
    /\ status = "running" /\ pc = "select"
    /\ IF SelectFails
       THEN status' = "died" /\ UNCHANGED <<pc, rd, wr, nready, fd, selConn>>
       ELSE \E idle \in IF Spurious THEN 0..fdMax ELSE {0} :
              /\ rd' = {f \in readM : f <= fdMax /\ (Readable(f) \/ f = idle)}
              /\ wr' = {f \in writeM : f <= fdMax /\ (Writable(f) \/ f = idle)}
              /\ rd' \cup wr' # {}
              /\ nready' = Cardinality(rd') + Cardinality(wr')
              /\ fd' = Listener      \* lower bits are never set
              /\ pc' = "read"
              /\ selConn' = conn
              /\ UNCHANGED status
    /\ UNCHANGED <<masterVars, peerVars, recvVars, connVars, clientVars,
                   histVars>>

LoopGuard == fd <= fdMax /\ nready > 0

\* The end of the for loop; the local copies of the sets go out of use.
ScanDone ==
    /\ status = "running" /\ pc = "read" /\ ~LoopGuard
    /\ pc' = "select" /\ rd' = {} /\ wr' = {} /\ fd' = 0
    /\ UNCHANGED <<status, nready, masterVars, peerVars, recvVars, connVars,
                   selConn, clientVars, histVars>>

\* if (FD_ISSET(fd, &readfds)) is false
ReadSkip ==
    /\ status = "running" /\ pc = "read" /\ LoopGuard /\ fd \notin rd
    /\ pc' = "write"
    /\ UNCHANGED <<status, rd, wr, nready, fd, masterVars, peerVars, recvVars,
                   connVars, selConn, clientVars, histVars>>

\* if (FD_ISSET(fd, &writefds)) is false; fd++
WriteSkip ==
    /\ status = "running" /\ pc = "write" /\ fd \notin wr
    /\ pc' = "read" /\ fd' = fd + 1
    /\ UNCHANGED <<status, rd, wr, nready, masterVars, peerVars, recvVars,
                   connVars, selConn, clientVars, histVars>>

\* Variant: FD_CLR on readfds_master is forgotten.
Monitor_NoClear(f, wantRead, wantWrite) ==
    /\ readM' = IF wantRead THEN readM \cup {f} ELSE readM
    /\ writeM' = IF wantWrite THEN writeM \cup {f} ELSE writeM \ {f}

\* The FD_SET / FD_CLR pairs and the close that follow each callback.
Monitor(f, wantRead, wantWrite) ==
    /\ readM' = IF wantRead THEN readM \cup {f} ELSE readM \ {f}
    /\ writeM' = IF wantWrite THEN writeM \cup {f} ELSE writeM \ {f}

-----------------------------------------------------------------------------
(* The listener's read half: accept and on_peer_connected.                 *)

FreeFds == {f \in PeerFds : conn[f] = None}

\* Variant: the scan is broken off after accept.
ReadingListener_Break == /\ status = "running" /\ pc = "read" /\ LoopGuard
                         /\ fd \in rd /\ fd = Listener
                         /\ nready' = 0

ReadingListener == /\ status = "running" /\ pc = "read" /\ LoopGuard
                   /\ fd \in rd /\ fd = Listener
                   /\ nready' = nready - 1

\* Variant: the state of the descriptor's last peer is kept.
PeerConnected_KeepsState(f) ==
    /\ sendbuf' = [sendbuf EXCEPT ![f] = <<Star>>]
    /\ sendptr' = [sendptr EXCEPT ![f] = 0]
    /\ UNCHANGED state

\* Peer state of a new connection: everything of an old peer overwritten.
PeerConnected(f) ==
    /\ state' = [state EXCEPT ![f] = "INITIAL_ACK"]
    /\ sendbuf' = [sendbuf EXCEPT ![f] = <<Star>>]
    /\ sendptr' = [sendptr EXCEPT ![f] = 0]

Accept(c) ==
    /\ ReadingListener
    /\ c \in Backlog /\ FreeFds # {}
    /\ \E f \in FreeFds :
         /\ \A g \in FreeFds : f <= g
         /\ conn' = [conn EXCEPT ![f] = c]
         /\ fdMax' = IF f > fdMax /\ f < FD_SETSIZE THEN f ELSE fdMax
         /\ IF f > fdMax /\ f >= FD_SETSIZE THEN
                status' = "died" /\ UNCHANGED <<readM, writeM, peerVars, phase>>
            ELSE IF f >= MAXFDS THEN
                status' = "aborted"
                /\ UNCHANGED <<readM, writeM, peerVars, phase>>
            ELSE /\ PeerConnected(f)
                 /\ Monitor(f, FALSE, TRUE)
                 /\ phase' = [phase EXCEPT ![c] = "open"]
                 /\ UNCHANGED status
    /\ pc' = "write"
    /\ UNCHANGED <<rd, wr, fd, recvVars, selConn, clientVars, histVars>>

\* EAGAIN or EWOULDBLOCK: a notice is printed, nothing else happens.
AcceptAgain ==
    /\ ReadingListener
    /\ Backlog = {} /\ FreeFds # {}
    /\ pc' = "write"
    /\ UNCHANGED <<status, rd, wr, fd, masterVars, peerVars, recvVars,
                   connVars, selConn, clientVars, histVars>>

\* EMFILE: perror_die("accept")
AcceptFails ==
    /\ ReadingListener
    /\ FreeFds = {}
    /\ status' = "died"
    /\ UNCHANGED <<pc, rd, wr, fd, masterVars, peerVars, recvVars, connVars,
                   selConn, clientVars, histVars>>

-----------------------------------------------------------------------------
(* A peer's read half: on_peer_ready_recv.                                 *)

ReadingPeer == /\ status = "running" /\ pc = "read" /\ LoopGuard
               /\ fd \in rd /\ fd # Listener
               /\ nready' = nready - 1

MustSendFirst(f) == state[f] = "INITIAL_ACK" \/ sendptr[f] < Len(sendbuf[f])

\* recv returns bytes: the byte loop is entered with ready_to_send false.
RecvBytes ==
    /\ ReadingPeer
    /\ ~MustSendFirst(fd)
    /\ LET c == conn[fd]
           n == IF Len(inq[c]) < RecvMax THEN Len(inq[c]) ELSE RecvMax
       IN  /\ cl[c] # "reset" /\ inq[c] # <<>>
           /\ buf' = SubSeq(inq[c], 1, n)
           /\ inq' = [inq EXCEPT ![c] = SubSeq(@, n + 1, Len(@))]
    /\ readyToSend' = FALSE
    /\ pc' = "bytes"
    /\ UNCHANGED <<status, rd, wr, fd, masterVars, peerVars, connVars, selConn,
                   cl, nsent, unread, histVars>>

\* EAGAIN: fd_status_R.  Also the early return fd_status_W of lines 82-87.
RecvNothing ==
    /\ ReadingPeer
    /\ IF MustSendFirst(fd)
       THEN Monitor(fd, FALSE, TRUE)
       ELSE /\ inq[conn[fd]] = <<>> /\ cl[conn[fd]] = "up"
            /\ Monitor(fd, TRUE, FALSE)
    /\ pc' = "write"
    /\ UNCHANGED <<status, rd, wr, fd, fdMax, peerVars, recvVars, connVars,
                   selConn, clientVars, histVars>>

\* recv returns 0: fd_status_NORW, close(fd).  global_state keeps its values.
RecvEof ==
    /\ ReadingPeer
    /\ ~MustSendFirst(fd)
    /\ inq[conn[fd]] = <<>> /\ cl[conn[fd]] = "eof"
    /\ Monitor(fd, FALSE, FALSE)
    /\ conn' = [conn EXCEPT ![fd] = None]
    /\ phase' = [phase EXCEPT ![conn[fd]] = "closed"]
    /\ pc' = "write"
    /\ UNCHANGED <<status, rd, wr, fd, fdMax, peerVars, recvVars, selConn,
                   clientVars, histVars>>

\* ECONNRESET: perror_die("recv") ends the server for every peer.
RecvFails ==
    /\ ReadingPeer
    /\ ~MustSendFirst(fd)
    /\ cl[conn[fd]] = "reset"
    /\ status' = "died"
    /\ UNCHANGED <<pc, rd, wr, fd, masterVars, peerVars, recvVars, connVars,
                   selConn, clientVars, histVars>>

\* Variant: the increment is stored without the wrap of uint8_t.
OnByte_NoWrap(f, b) ==
    /\ sendbuf' = [sendbuf EXCEPT ![f] = Append(@, b + 1)]
    /\ readyToSend' = TRUE
    /\ UNCHANGED <<status, state>>

\* The loop over buf on one byte b.
OnByte(f, b) ==
    \/ /\ state[f] = "WAIT_FOR_MSG"
       /\ state' = [state EXCEPT ![f] = IF b = Caret THEN "IN_MSG" ELSE @]
       /\ UNCHANGED <<status, sendbuf, readyToSend>>
    \/ /\ state[f] = "IN_MSG" /\ b = Dollar
       /\ state' = [state EXCEPT ![f] = "WAIT_FOR_MSG"]
       /\ UNCHANGED <<status, sendbuf, readyToSend>>
    \/ /\ state[f] = "IN_MSG" /\ b # Dollar
       /\ IF Len(sendbuf[f]) < SENDBUF_SIZE
          THEN /\ sendbuf' = [sendbuf EXCEPT ![f] = Append(@, (b + 1) % 256)]
               /\ readyToSend' = TRUE
               /\ UNCHANGED <<status, state>>
          ELSE status' = "aborted" /\ UNCHANGED <<state, sendbuf, readyToSend>>

RecvByte ==
    /\ status = "running" /\ pc = "bytes" /\ buf # <<>>
    /\ IF state[fd] = "INITIAL_ACK"
       THEN status' = "aborted" /\ UNCHANGED <<state, sendbuf, readyToSend>>
       ELSE OnByte(fd, Head(buf))
    /\ buf' = Tail(buf)
    /\ got' = IF status' = "running"
              THEN [got EXCEPT ![conn[fd]] = Append(@, Head(buf))] ELSE got
    /\ UNCHANGED <<pc, rd, wr, nready, fd, masterVars, sendptr, connVars,
                   selConn, clientVars, out>>

\* want_read = !ready_to_send, want_write = ready_to_send
RecvDone ==
    /\ status = "running" /\ pc = "bytes" /\ buf = <<>>
    /\ Monitor(fd, ~readyToSend, readyToSend)
    /\ pc' = "write"
    /\ UNCHANGED <<status, rd, wr, nready, fd, fdMax, peerVars, recvVars,
                   connVars, selConn, clientVars, histVars>>

-----------------------------------------------------------------------------
(* A peer's write half: on_peer_ready_send.                                *)

WritingPeer == /\ status = "running" /\ pc = "write" /\ fd \in wr
               /\ nready' = nready - 1

\* Variant: the send queue is not reset.
SentAll_KeepsQueue(f) ==
    /\ sendptr' = [sendptr EXCEPT ![f] = Len(sendbuf[f])]
    /\ state' = [state EXCEPT ![f] = IF @ = "INITIAL_ACK" THEN "WAIT_FOR_MSG"
                                     ELSE @]
    /\ Monitor(f, TRUE, FALSE)
    /\ UNCHANGED sendbuf

\* Variant: fd_status_RW is returned.
SentAll_ReadWrite(f) ==
    /\ sendptr' = [sendptr EXCEPT ![f] = 0]
    /\ sendbuf' = [sendbuf EXCEPT ![f] = <<>>]
    /\ state' = [state EXCEPT ![f] = IF @ = "INITIAL_ACK" THEN "WAIT_FOR_MSG"
                                     ELSE @]
    /\ Monitor(f, TRUE, TRUE)

\* Variant: reading is not asked for again.
SentAll_NotWatched(f) ==
    /\ sendptr' = [sendptr EXCEPT ![f] = 0]
    /\ sendbuf' = [sendbuf EXCEPT ![f] = <<>>]
    /\ state' = [state EXCEPT ![f] = IF @ = "INITIAL_ACK" THEN "WAIT_FOR_MSG"
                                     ELSE @]
    /\ Monitor(f, FALSE, FALSE)

\* Everything was sent: the send queue is reset.
SentAll(f) ==
    /\ sendptr' = [sendptr EXCEPT ![f] = 0]
    /\ sendbuf' = [sendbuf EXCEPT ![f] = <<>>]
    /\ state' = [state EXCEPT ![f] = IF @ = "INITIAL_ACK" THEN "WAIT_FOR_MSG"
                                     ELSE @]
    /\ Monitor(f, TRUE, FALSE)

\* Variant: sendptr is not advanced.
SentPart_Resends(f, n) ==
    /\ Monitor(f, FALSE, TRUE)
    /\ UNCHANGED <<sendbuf, sendptr, state>>

\* A short send: the rest stays queued.
SentPart(f, n) ==
    /\ sendptr' = [sendptr EXCEPT ![f] = @ + n]
    /\ Monitor(f, FALSE, TRUE)
    /\ UNCHANGED <<sendbuf, state>>

\* send takes n of the staged bytes.  Bytes sent to a client that has
\* closed are answered with a reset.
Send(n) ==
    LET c == conn[fd] IN
    /\ WritingPeer
    /\ IF sendptr[fd] >= Len(sendbuf[fd])
       THEN /\ n = 0          \* nothing to send: fd_status_RW
            /\ Monitor(fd, TRUE, TRUE)
            /\ UNCHANGED <<peerVars, out, cl, unread>>
       ELSE /\ n \in 1..Len(Pending(fd))
            /\ cl[c] # "reset"
            /\ cl[c] = "eof" \/ unread[c] + n <= OutCap
            /\ out' = [out EXCEPT ![c] = @ \o SubSeq(Pending(fd), 1, n)]
            /\ IF n < Len(Pending(fd)) THEN SentPart(fd, n) ELSE SentAll(fd)
            /\ cl' = [cl EXCEPT ![c] = IF @ = "eof" THEN "reset" ELSE @]
            /\ unread' = [unread EXCEPT ![c] = IF cl[c] = "eof" THEN @ ELSE @ + n]
    /\ pc' = "read" /\ fd' = fd + 1
    /\ UNCHANGED <<status, rd, wr, fdMax, recvVars, connVars, selConn,
                   inq, nsent, got>>

\* EAGAIN: fd_status_W.
SendAgain ==
    /\ WritingPeer
    /\ sendptr[fd] < Len(sendbuf[fd])
    /\ cl[conn[fd]] = "up" /\ unread[conn[fd]] = OutCap
    /\ Monitor(fd, FALSE, TRUE)
    /\ pc' = "read" /\ fd' = fd + 1
    /\ UNCHANGED <<status, rd, wr, fdMax, peerVars, recvVars, connVars,
                   selConn, clientVars, histVars>>

\* EPIPE or ECONNRESET: SIGPIPE or perror_die("send").
SendFails ==
    /\ WritingPeer
    /\ sendptr[fd] < Len(sendbuf[fd])
    /\ cl[conn[fd]] = "reset"
    /\ status' = "died"
    /\ UNCHANGED <<pc, rd, wr, fd, masterVars, peerVars, recvVars, connVars,
                   selConn, clientVars, histVars>>

-----------------------------------------------------------------------------
(* The clients (simple-client.py): connect, send, read, close.             *)

Running == status = "running"

ClientConnect(c) ==
    /\ Running /\ cl[c] = "idle"
    /\ cl' = [cl EXCEPT ![c] = "up"]
    /\ UNCHANGED <<inq, nsent, unread>>

ClientSend(c, b) ==
    /\ Running /\ cl[c] = "up" /\ nsent[c] < MaxBytes
    /\ inq' = [inq EXCEPT ![c] = Append(@, b)]
    /\ nsent' = [nsent EXCEPT ![c] = @ + 1]
    /\ UNCHANGED <<cl, unread>>

ClientRead(c) ==
    /\ Running /\ cl[c] = "up" /\ unread[c] > 0
    /\ unread' = [unread EXCEPT ![c] = 0]
    /\ UNCHANGED <<cl, inq, nsent>>

\* Every byte the client sent was handled and the replies were read.  The
\* client knows it from the number of replies the protocol promises.
Answered(c) ==
    /\ Len(got[c]) = nsent[c] /\ unread[c] = 0
    /\ \E f \in PeerFds : conn[f] = c /\ Pending(f) = <<>>

\* close() with unread data resets the connection, otherwise it sends FIN.
ClientClose(c) ==
    /\ Running /\ cl[c] = "up" /\ (Resets \/ Answered(c))
    /\ cl' = [cl EXCEPT ![c] = IF unread[c] = 0 THEN "eof" ELSE "reset"]
    /\ UNCHANGED <<inq, nsent, unread>>

ClientStep ==
    /\ \E c \in Clients : \/ ClientConnect(c)
                          \/ \E b \in Bytes : ClientSend(c, b)
                          \/ ClientRead(c)
                          \/ ClientClose(c)
    /\ UNCHANGED <<loopVars, masterVars, peerVars, recvVars, connVars,
                   selConn, histVars>>

ServerStep == \/ Select \/ ScanDone \/ ReadSkip \/ WriteSkip
              \/ \E c \in Clients : Accept(c)
              \/ AcceptAgain \/ AcceptFails
              \/ RecvBytes \/ RecvNothing \/ RecvEof \/ RecvFails
              \/ RecvByte \/ RecvDone
              \/ \E n \in 0..SENDBUF_SIZE : Send(n)
              \/ SendAgain \/ SendFails

Next == ServerStep \/ ClientStep

\* The server's thread runs; a client that reads at all keeps reading.
Fairness == /\ WF_vars(ServerStep)
            /\ \A c \in Clients :
                 WF_vars(ClientRead(c) /\ UNCHANGED <<loopVars, masterVars,
                     peerVars, recvVars, connVars, selConn, histVars>>)

Spec == Init /\ [][Next]_vars

FairSpec == Spec /\ Fairness

-----------------------------------------------------------------------------
(* Properties.                                                             *)

LoopTypeOK ==
    /\ status \in {"running", "died", "aborted"}
    /\ pc \in {"select", "read", "write", "bytes"}
    /\ readM \subseteq PeerFds \cup {Listener} /\ writeM \subseteq PeerFds
    /\ rd \subseteq PeerFds \cup {Listener} /\ wr \subseteq PeerFds
    /\ nready \in Int /\ fd \in Nat /\ fdMax \in Nat

PeerTypeOK ==
    /\ state \in [PeerFds -> {"INITIAL_ACK", "WAIT_FOR_MSG", "IN_MSG"}]
    /\ sendbuf \in [PeerFds -> Seq(0..255)]
    /\ sendptr \in [PeerFds -> Nat]
    /\ buf \in Seq(Bytes) /\ readyToSend \in BOOLEAN

ConnTypeOK ==
    /\ conn \in [PeerFds -> Clients \cup {None}]
    /\ selConn \in [PeerFds -> Clients \cup {None}]
    /\ phase \in [Clients -> {"none", "open", "closed"}]

ClientTypeOK ==
    /\ cl \in [Clients -> {"idle", "up", "eof", "reset"}]
    /\ inq \in [Clients -> Seq(Bytes)]
    /\ nsent \in [Clients -> Nat] /\ unread \in [Clients -> Nat]

HistTypeOK == got \in [Clients -> Seq(Bytes)] /\ out \in [Clients -> Seq(0..255)]

TypeOK == LoopTypeOK /\ PeerTypeOK /\ ConnTypeOK /\ ClientTypeOK /\ HistTypeOK

\* No assert of the callbacks fails: the fd is inside global_state (lines
\* 64, 79, 130), no byte is handled before the ack went out (line 106) and
\* a received block always fits the send buffer (line 117).
AssertsHold == status # "aborted"

\* The master sets say what is left to do (lines 46-51): outside the byte
\* loop an open peer is watched for writing exactly while replies are
\* staged and for reading otherwise, a closed descriptor for neither.
\* A peer watched for neither, or for the wrong one, would never be served.
MonitorMatchesBuffer ==
    \A f \in PeerFds :
        (status = "running" /\ ~(pc = "bytes" /\ f = fd)) =>
            /\ f \in writeM <=> conn[f] # None /\ sendptr[f] < Len(sendbuf[f])
            /\ f \in readM <=> conn[f] # None /\ sendptr[f] >= Len(sendbuf[f])

\* Bits of rd and wr that the scan has still to look at.
ToVisit == {f \in rd : f > fd \/ (f = fd /\ pc = "read")}
           \cup {f \in wr : f >= fd}

\* A readiness bit is used for the connection it was reported for: between
\* select and the callback nobody closed the descriptor or gave it to a
\* peer accepted in the same scan (lines 39-43 and 213-292).
ReadinessNotStale ==
    status = "running" =>
        \A f \in ToVisit \ {Listener} :
            conn[f] # None /\ conn[f] = selConn[f]

\* Leaving the scan early on nready (line 213) skips no reported event,
\* though accept may raise fdset_max during the scan.
ScanComplete ==
    [][pc = "read" /\ pc' = "select" => ToVisit = {}]_vars

\* As long as clients close only after they were answered and descriptors
\* suffice, nothing ends the server: no path to perror_die, die or assert.
ServerSurvives == status = "running"

FdOf(c) == CHOOSE f \in PeerFds : conn[f] = c

\* The peer's protocol state and the replies it is owed, as the client sees
\* them: a peer still in INITIAL_ACK has sent nothing that was looked at.
ParseOf(c) == IF phase[c] = "open" /\ state[FdOf(c)] = "IN_MSG"
              THEN "IN_MSG" ELSE "WAIT_FOR_MSG"

OwedTo(c) == IF phase[c] = "open" THEN Pending(FdOf(c)) ELSE <<>>

Service == INSTANCE EchoService WITH
    parse <- [c \in Clients |-> ParseOf(c)],
    owed  <- [c \in Clients |-> OwedTo(c)],
    dead  <- status # "running"

\* The server keeps the promise of EchoService to every client, also to one
\* that gets the descriptor of a peer that left (lines 39-43), and closes a
\* connection only when nothing is owed on it.
ImplementsService == Service!Spec

\* What a client was sent and is still owed is exactly '*' followed by the
\* incremented payload bytes of what was taken from it, stated on the input
\* alone: nothing lost, repeated or reordered by a short send, a reply that
\* spans two recv calls or a byte that wraps (lines 103-123 and 127-166).
EchoExact == Service!EchoReference

\* What a connected client sent was handled and the replies handed over.
Served(c) == /\ phase[c] # "none"
             /\ Len(got[c]) = nsent[c]
             /\ phase[c] = "open" => Pending(FdOf(c)) = <<>>

\* Every client that connects, and every byte it sends, is eventually
\* served unless the process ends or that client resets its connection.
EventuallyServed ==
    \A c \in Clients :
        (cl[c] # "idle" /\ ~Served(c)) ~>
            (Served(c) \/ status # "running" \/ cl[c] = "reset")

\* Patient clients are served: none of them brings the server down
\* (perror_die, select-server.c:142) and every byte they send is answered,
\* whatever spurious readiness and short sends come between.
PatientServed == []ServerSurvives /\ EventuallyServed
=============================================================================
