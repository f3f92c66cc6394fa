-------------------------- MODULE BlockingServers --------------------------
(***************************************************************************)
(* The blocking echo servers of socket/socket_server: sequential-server.c  *)
(* serves one connection in the accept loop, threaded-server.c starts a    *)
(* detached thread for each, threadpool-server.py submits each to a pool.  *)
(* They share serve_connection.  An error of recv, and the SIGPIPE of a    *)
(* send to a client that is gone, end the whole process in the C servers   *)
(* and only the one connection in the Python server; there a byte 255      *)
(* raises an exception instead of wrapping to 0, which leaves the socket   *)
(* open and silent.                                                        *)
(***************************************************************************)
EXTENDS Integers, Sequences, FiniteSets

CONSTANTS Guests,     \* clients, each connects once
          Letters,    \* bytes they send
          PoolSize,   \* -n of the Python server
          RecvSize,   \* size of buf
          MaxLetters  \* bound: bytes a client sends

VARIABLES kind,     \* "sequential", "threaded" or "pool"
          guest,    \* client -> "off", "on", "left" or "reset"
          post,     \* client -> bytes sent and not received
          sentBy,   \* client -> number of bytes sent
          queue,    \* accepted connections that wait for a worker of the pool
          conn,     \* client -> place of its serve_connection
          parse,    \* client -> the state of the protocol machine
          buf,      \* client -> received bytes that are not handled
          owes,     \* client -> the byte being sent, or <<>>
          taken, echoed,   \* history: bytes handled, bytes sent
          gone      \* the process has ended

blockVars == <<kind, guest, post, sentBy, queue, conn, parse, buf, owes, taken, echoed, gone>>

Of(x) == [g \in Guests |-> x]

(* A connection as its client sees it.                                     *)
PhaseOf(g) == CASE conn[g] \in {"none", "queued"} -> "none"
                [] conn[g] = "closed" -> "closed"
                [] OTHER -> "open"

Service == INSTANCE EchoService WITH
    Clients <- Guests, Bytes <- Letters,
    phase <- [g \in Guests |-> PhaseOf(g)],
    got <- taken, owed <- owes, out <- echoed, dead <- gone

BlockInit ==
    /\ kind \in {"sequential", "threaded", "pool"}
    /\ guest = Of("off") /\ post = Of(<<>>) /\ sentBy = Of(0)
    /\ queue = <<>> /\ conn = Of("none") /\ parse = Of("WAIT_FOR_MSG")
    /\ buf = Of(<<>>) /\ owes = Of(<<>>) /\ taken = Of(<<>>) /\ echoed = Of(<<>>)
    /\ gone = FALSE

Set(f, g, v) == [f EXCEPT ![g] = v]

GuestStep(g) ==
    /\ \/ /\ guest[g] = "off" /\ guest' = Set(guest, g, "on") /\ UNCHANGED <<post, sentBy>>
       \/ /\ guest[g] = "on" /\ sentBy[g] < MaxLetters
          /\ \E b \in Letters : post' = Set(post, g, Append(post[g], b))
          /\ sentBy' = Set(sentBy, g, sentBy[g] + 1) /\ UNCHANGED guest
       \/ /\ guest[g] = "on" /\ \E how \in {"left", "reset"} : guest' = Set(guest, g, how)
          /\ UNCHANGED <<post, sentBy>>
    /\ UNCHANGED <<kind, queue, conn, parse, buf, owes, taken, echoed, gone>>

Served == {g \in Guests : conn[g] \in {"greet", "recv", "loop"}}

(* accept: the sequential server is back here only between connections.    *)
AcceptAlways(g) == guest[g] # "off" /\ conn[g] = "none"
MayAccept(g) ==
    /\ guest[g] # "off" /\ conn[g] = "none"
    /\ kind = "sequential" => Served = {}

Accept(g) ==
    /\ ~gone /\ MayAccept(g)
    /\ IF kind = "pool"
       THEN /\ conn' = Set(conn, g, "queued") /\ queue' = Append(queue, g) /\ UNCHANGED owes
       ELSE /\ conn' = Set(conn, g, "greet") /\ owes' = Set(owes, g, <<Service!Star>>)
            /\ UNCHANGED queue
    /\ UNCHANGED <<kind, guest, post, sentBy, parse, buf, taken, echoed, gone>>

(* A worker of the pool takes the oldest submission.                       *)
PoolTake ==
    /\ ~gone /\ queue # <<>> /\ Cardinality(Served) < PoolSize
    /\ conn' = Set(conn, Head(queue), "greet") /\ queue' = Tail(queue)
    /\ owes' = Set(owes, Head(queue), <<Service!Star>>)
    /\ UNCHANGED <<kind, guest, post, sentBy, parse, buf, taken, echoed, gone>>

(* bytes([b + 1]) of the Python server has no value for b = 255.           *)
Raises(g) == kind = "pool" /\ owes[g] = <<0>>

(* Sending one byte, the '*' or an answer.  To a client that is gone it    *)
(* may still succeed, or end the process (SIGPIPE, and perror_die for the  *)
(* '*'); an answer may also fail with an error that ends the connection,   *)
(* and in the Python server any error ends the connection's task.          *)
Send(g) ==
    /\ ~gone /\ conn[g] \in {"greet", "loop"} /\ owes[g] # <<>>
    /\ \/ /\ ~Raises(g)
          /\ echoed' = Set(echoed, g, echoed[g] \o owes[g]) /\ owes' = Set(owes, g, <<>>)
          /\ conn' = Set(conn, g, IF buf[g] = <<>> THEN "recv" ELSE "loop")
          /\ UNCHANGED gone
       \/ /\ guest[g] \in {"left", "reset"} \/ Raises(g)
          /\ IF kind = "pool" THEN conn' = Set(conn, g, "raised") /\ UNCHANGED gone
             ELSE \/ gone' = TRUE /\ UNCHANGED conn
                  \/ /\ conn[g] = "loop" /\ guest[g] = "reset"
                     /\ conn' = Set(conn, g, "aborted") /\ UNCHANGED gone
          /\ UNCHANGED <<echoed, owes>>
    /\ UNCHANGED <<kind, guest, post, sentBy, queue, parse, buf, taken>>

Recv(g) ==
    /\ ~gone /\ conn[g] = "recv"
    /\ \/ /\ post[g] # <<>>
          /\ \E k \in 1..(IF Len(post[g]) < RecvSize THEN Len(post[g]) ELSE RecvSize) :
                /\ buf' = Set(buf, g, SubSeq(post[g], 1, k))
                /\ post' = Set(post, g, SubSeq(post[g], k + 1, Len(post[g])))
          /\ conn' = Set(conn, g, "loop") /\ UNCHANGED <<parse, gone>>
       \/ /\ post[g] = <<>> /\ guest[g] = "left"             \* len == 0
          /\ conn' = Set(conn, g, "closed") /\ parse' = Set(parse, g, "WAIT_FOR_MSG")
          /\ UNCHANGED <<buf, post, gone>>
       \/ /\ guest[g] = "reset"                              \* len < 0
          /\ IF kind = "pool"
             THEN /\ conn' = Set(conn, g, "closed") /\ parse' = Set(parse, g, "WAIT_FOR_MSG")
                  /\ UNCHANGED gone
             ELSE gone' = TRUE /\ UNCHANGED <<conn, parse>>
          /\ UNCHANGED <<buf, post>>
    /\ UNCHANGED <<kind, guest, sentBy, queue, owes, taken, echoed>>

HandleForgetsState(g) ==
    /\ ~gone /\ conn[g] = "loop" /\ owes[g] = <<>> /\ buf[g] # <<>>
    /\ LET b == Head(buf[g]) IN
       /\ owes' = Set(owes, g, Service!Reply(parse[g], b))
       /\ parse' = Set(parse, g, IF buf[g] = <<b>> THEN "WAIT_FOR_MSG" ELSE Service!NextParse(parse[g], b))
       /\ taken' = Set(taken, g, Append(taken[g], b))
       /\ buf' = Set(buf, g, Tail(buf[g]))
       /\ conn' = Set(conn, g, IF Tail(buf[g]) = <<>> /\ owes'[g] = <<>> THEN "recv" ELSE "loop")
    /\ UNCHANGED <<kind, guest, post, sentBy, queue, echoed, gone>>

(* One byte of buf through the state machine.                              *)
Handle(g) ==
    /\ ~gone /\ conn[g] = "loop" /\ owes[g] = <<>> /\ buf[g] # <<>>
    /\ LET b == Head(buf[g]) IN
       /\ owes' = Set(owes, g, Service!Reply(parse[g], b))
       /\ parse' = Set(parse, g, Service!NextParse(parse[g], b))
       /\ taken' = Set(taken, g, Append(taken[g], b))
       /\ buf' = Set(buf, g, Tail(buf[g]))
       /\ conn' = Set(conn, g, IF Tail(buf[g]) = <<>> /\ owes'[g] = <<>> THEN "recv" ELSE "loop")
    /\ UNCHANGED <<kind, guest, post, sentBy, queue, echoed, gone>>

Serve(g) == Accept(g) \/ Send(g) \/ Recv(g) \/ Handle(g)

BlockNext == PoolTake \/ (\E g \in Guests : Serve(g) \/ GuestStep(g))

BlockSpec == BlockInit /\ [][BlockNext]_blockVars

----------------------------------------------------------------------------
(* At most one byte is owed to a client, a read fits its buffer, and no    *)
(* server serves more connections at a time than its design allows.        *)
BlockTypeOK ==
    /\ \A g \in Guests : Len(owes[g]) <= 1 /\ Len(buf[g]) <= RecvSize
    /\ Cardinality(Served) <= (CASE kind = "sequential" -> 1 [] kind = "pool" -> PoolSize
                                 [] OTHER -> Cardinality(Guests))

(* All three keep the promise of EchoService to every client, whatever the *)
(* others do: each step of theirs is a step of the service.                *)
BlockImplements == Service!Spec
=============================================================================
