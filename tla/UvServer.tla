------------------------------ MODULE UvServer ------------------------------
(***************************************************************************)
(* socket/socket_server/uv-server.c: one client of the libuv echo server.  *)
(* The loop is libuv's (external): the callbacks of writes that completed  *)
(* at once run first, then the poll phase reads, accepts and finishes      *)
(* writes, then handles are closed.  sendbuf is one array: `mem' is its    *)
(* content, `fill' is sendbuf_end, and a write request is a length and the *)
(* number of bytes the kernel has taken so far, from that same array.  The *)
(* kill switch XYZ is its last letter.                                     *)
(***************************************************************************)
EXTENDS Integers, Sequences, SequencesExt

CONSTANTS Bytes,         \* what the client sends
          SENDBUF_SIZE,
          Suggested,     \* the receive buffer libuv suggests
          OutCap,        \* bytes the kernel holds for a client that does not read
          MaxBytes       \* bound on what the client sends

KillLetter == 90    \* 'Z'

VARIABLES phase,    \* of the loop: "pending", "poll", "closing", or why it ended
          peer,     \* "none", "acking", "open", "closing" or "gone"
          state,    \* peerstate->state
          mem, fill,
          writes,   \* requests whose callback has not run: [len, done, ack]
          inbox,    \* bytes the client sent that are not read yet
          got,      \* history: bytes on_peer_read has taken
          heard,    \* history: bytes the kernel has taken for the client
          room,     \* bytes the kernel can still take
          client,   \* "away", "here", "left" or "reset"
          again,    \* the last read filled its buffer: uv__read goes on
          nread,    \* the size of the last read
          behind,   \* history: a read came before the callback of a write
          killed    \* history: the kill switch has freed peerstate

uvVars == <<phase, peer, state, mem, fill, writes, inbox, got, heard, room,
            client, again, nread, behind, killed>>
uvHistory == <<behind, killed>>

Service == INSTANCE EchoService WITH
    Clients <- {1}, phase <- <<"open">>, parse <- <<state>>, got <- <<got>>,
    owed <- <<mem>>, out <- <<heard>>, dead <- killed

UvInit ==
    /\ phase = "poll" /\ peer = "none" /\ state = "INITIAL_ACK"
    /\ mem = <<>> /\ fill = 0 /\ writes = <<>>
    /\ inbox = <<>> /\ got = <<>> /\ heard = <<>> /\ room = OutCap
    /\ client = "away" /\ again = TRUE /\ nread = 0
    /\ behind = FALSE /\ killed = FALSE

----------------------------------------------------------------------------
(* The client, and the network between.                                    *)
ClientConnect ==
    /\ client = "away" /\ client' = "here"
    /\ UNCHANGED <<phase, peer, state, mem, fill, writes, inbox, got, heard, room, again, nread, uvHistory>>
ClientSend(b) ==
    /\ client = "here" /\ Len(got) + Len(inbox) < MaxBytes
    /\ inbox' = Append(inbox, b)
    /\ UNCHANGED <<phase, peer, state, mem, fill, writes, got, heard, room, client, again, nread, uvHistory>>
ClientRead ==
    /\ client = "here" /\ room < OutCap /\ room' = OutCap
    /\ UNCHANGED <<phase, peer, state, mem, fill, writes, inbox, got, heard, client, again, nread, uvHistory>>
ClientLeave ==
    /\ client = "here" /\ client' \in {"left", "reset"}
    /\ UNCHANGED <<phase, peer, state, mem, fill, writes, inbox, got, heard, room, again, nread, uvHistory>>

----------------------------------------------------------------------------
Least(a, b) == IF a < b THEN a ELSE b

(* uv__write: what fits of the first request goes to the kernel.           *)
Push(ws, m) ==
    LET w == Head(ws)
        n == Least(room, w.len - w.done)
    IN  /\ heard' = heard \o SubSeq(m, w.done + 1, w.done + n)
        /\ room' = room - n
        /\ writes' = << [w EXCEPT !.done = @ + n] >> \o Tail(ws)

(* uv_write: a request behind others waits, the first one is tried now.    *)
uv_write(len, ack, m) ==
    LET w == [len |-> len, done |-> 0, ack |-> ack]
    IN  IF writes = <<>> /\ client # "reset"
        THEN Push(<<w>>, m)
        ELSE writes' = Append(writes, w) /\ UNCHANGED <<heard, room>>

on_peer_connected ==
    /\ phase = "poll" /\ peer = "none" /\ client # "away"
    /\ \/ /\ peer' = "acking" /\ state' = "INITIAL_ACK"
          /\ mem' = <<Service!Star>> /\ fill' = 1
          /\ uv_write(1, TRUE, <<Service!Star>>)
       \/ /\ client = "reset"                          \* uv_accept fails
          /\ peer' = "closing" /\ UNCHANGED <<state, mem, fill, writes, heard, room>>
    /\ UNCHANGED <<phase, inbox, got, client, again, nread, uvHistory>>

on_wrote_init_ack ==
    /\ state' = "WAIT_FOR_MSG" /\ fill' = 0
    /\ peer' = IF peer = "acking" THEN "open" ELSE peer
    /\ UNCHANGED <<killed>>

on_wrote_bufKeepsEnd == UNCHANGED <<state, peer, fill, killed>>
on_wrote_buf ==
    /\ IF fill > 0 /\ mem[fill] = KillLetter
       THEN killed' = TRUE /\ UNCHANGED fill
       ELSE fill' = 0 /\ UNCHANGED killed
    /\ UNCHANGED <<state, peer>>

Failed(w) == client = "reset" \/ (peer = "closing" /\ w.done < w.len)

(* The callback of the oldest request that is complete or has failed: it   *)
(* runs before the next poll, at the end of a write that poll has          *)
(* completed, or when its handle is closed.                                *)
WriteCallback ==
    /\ writes # <<>> /\ phase \in {"pending", "poll", "closing"}
    /\ LET w == Head(writes) IN
       /\ w.done = w.len \/ Failed(w)
       /\ phase = "poll" => w.done = w.len /\ again = FALSE
       /\ writes' = Tail(writes)
       /\ IF Failed(w)
          THEN phase' = "write_error" /\ UNCHANGED <<state, peer, fill, killed>>
          ELSE (IF w.ack THEN on_wrote_init_ack ELSE on_wrote_buf) /\ UNCHANGED phase
    /\ UNCHANGED <<mem, inbox, got, heard, room, client, again, nread, behind>>

(* POLLOUT: the kernel has room again.                                     *)
PollWrite ==
    /\ phase = "poll" /\ writes # <<>> /\ room > 0 /\ client = "here"
    /\ Head(writes).done < Head(writes).len
    /\ Push(writes, mem)
    /\ again' = FALSE
    /\ UNCHANGED <<phase, peer, state, mem, fill, inbox, got, client, nread, uvHistory>>

(* The loop of on_peer_read over the bytes; r.bad is the failed assert.    *)
ReadByte(r, b) ==
    LET pay == Service!Reply(r.state, b) IN
    IF r.bad THEN r
    ELSE IF pay = <<>> THEN [r EXCEPT !.state = Service!NextParse(@, b)]
    ELSE IF r.fill >= SENDBUF_SIZE THEN [r EXCEPT !.bad = TRUE]
    ELSE [state |-> Service!NextParse(r.state, b), fill |-> r.fill + 1, bad |-> FALSE,
          mem |-> SubSeq(r.mem, 1, r.fill) \o pay \o SubSeq(r.mem, r.fill + 2, Len(r.mem))]
Machine(s, m, f, bytes) ==
    LET after[n \in 0..Len(bytes)] ==
            IF n = 0 THEN [state |-> s, mem |-> m, fill |-> f, bad |-> FALSE]
            ELSE ReadByte(after[n - 1], bytes[n])
    IN  after[Len(bytes)]

on_peer_read(k) ==
    /\ phase = "poll" /\ peer = "open" /\ again /\ inbox # <<>>
    /\ LET r == Machine(state, mem, fill, SubSeq(inbox, 1, k)) IN
       /\ got' = got \o SubSeq(inbox, 1, k)
       /\ inbox' = SubSeq(inbox, k + 1, Len(inbox))
       /\ nread' = k /\ again' = (k = Suggested)
       /\ behind' = (behind \/ writes # <<>>)
       /\ IF killed
          THEN phase' = "use_after_free" /\ UNCHANGED <<state, mem, fill, writes, heard, room>>
          ELSE /\ phase' = IF r.bad THEN "assert" ELSE phase
               /\ state' = r.state /\ mem' = r.mem /\ fill' = r.fill
               /\ IF r.fill > 0 /\ ~r.bad THEN uv_write(r.fill, FALSE, r.mem)
                  ELSE UNCHANGED <<writes, heard, room>>
    /\ UNCHANGED <<peer, client, killed>>

(* nread < 0: end of file once all is read, or an error at any time.       *)
ReadEnd ==
    /\ phase = "poll" /\ peer = "open"
    /\ client = "reset" \/ (client = "left" /\ inbox = <<>>)
    /\ peer' = "closing"
    /\ UNCHANGED <<phase, state, mem, fill, writes, inbox, got, heard, room, client, again, nread, uvHistory>>

(* The phases of one iteration; uv_stop ends the loop after the closing.   *)
PollDone ==
    /\ phase = "poll" /\ phase' = "closing"
    /\ UNCHANGED <<peer, state, mem, fill, writes, inbox, got, heard, room, client, again, nread, uvHistory>>
CloseDone ==
    /\ phase = "closing"
    /\ peer = "closing" => writes = <<>>
    /\ peer' = IF peer = "closing" THEN "gone" ELSE peer
    /\ phase' = IF killed THEN "stopped" ELSE "pending"
    /\ UNCHANGED <<state, mem, fill, writes, inbox, got, heard, room, client, again, nread, uvHistory>>
PendingDone ==
    /\ phase = "pending"
    /\ writes # <<>> => Head(writes).done < Head(writes).len
    /\ phase' = "poll" /\ again' = TRUE
    /\ UNCHANGED <<peer, state, mem, fill, writes, inbox, got, heard, room, client, nread, uvHistory>>

(* poll reports what is still there in every round: strong fairness for   *)
(* its events, weak fairness for the phases that follow each other.        *)
PollEvents ==
    \/ on_peer_connected \/ PollWrite \/ ReadEnd
    \/ \E k \in 1..Least(Suggested, Len(inbox)) : on_peer_read(k)
LoopGoes == WriteCallback \/ PollDone \/ CloseDone \/ PendingDone

UvNext ==
    \/ PollEvents \/ LoopGoes
    \/ ClientConnect \/ (\E b \in Bytes : ClientSend(b)) \/ ClientRead \/ ClientLeave

UvSpec == UvInit /\ [][UvNext]_uvVars /\ SF_uvVars(PollEvents) /\ WF_uvVars(LoopGoes)

UvEnded == phase \notin {"pending", "poll", "closing"}

----------------------------------------------------------------------------
(* The staged bytes never exceed sendbuf, the rest is of its type.         *)
UvTypeOK ==
    /\ peer \in {"none", "acking", "open", "closing", "gone"}
    /\ fill \in 0..SENDBUF_SIZE /\ Len(mem) <= SENDBUF_SIZE /\ room \in 0..OutCap

(* As long as no read overtakes the callback of a write, the client hears  *)
(* '*' and then exactly the echo of what was read: every byte once and in  *)
(* order, although the writes, their callbacks and the reads all work on   *)
(* the one sendbuf.                                                        *)
UvEchoExact ==
    ~behind /\ ~UvEnded /\ peer \in {"acking", "open"} =>
        LET rest == IF writes = <<>> THEN <<>>
                    ELSE SubSeq(mem, Head(writes).done + 1, Head(writes).len)
        IN  heard \o rest = <<Service!Star>> \o Service!Echo(got)

(* The server ends only for these reasons: a client that left with output  *)
(* under way (the write callback dies), a read larger than sendbuf or on   *)
(* top of an unfinished write (the assert), and the kill switch.           *)
UvEndsOnlyFor ==
    /\ phase = "write_error" => client \in {"left", "reset"}
    /\ phase = "assert" => behind \/ nread > SENDBUF_SIZE
    /\ phase \in {"use_after_free", "stopped"} => killed

(* What a client sends is read in the end: the initial ack always leads to *)
(* uv_read_start.                                                          *)
UvReads == (client = "here" /\ inbox # <<>>) ~> (inbox = <<>> \/ client # "here" \/ UvEnded)
=============================================================================
