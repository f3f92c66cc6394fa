---------------------------- MODULE EchoService ----------------------------
(***************************************************************************)
(* What every server of socket/socket_server promises each of its clients: *)
(* on connection it sends '*'; afterwards each byte the client sends       *)
(* between '^' and '$' comes back incremented, in order, once.  A          *)
(* connection is finished only when nothing is owed any more.  The whole   *)
(* service may die (perror_die, die, a failed assert) and then stays dead. *)
(* The state machine is the one of serve_connection, on_peer_ready_recv    *)
(* and on_peer_read; Echo below says the same thing without a machine.     *)
(***************************************************************************)
EXTENDS Naturals, Sequences, FiniteSets

CONSTANTS Clients,  \* the connections that are ever made
          Bytes     \* the byte values clients send, a subset of 0..255

Star   == 42     \* '*', the initial ack
Caret  == 94     \* '^', opens a message
Dollar == 36     \* '$', closes it

\* buf[i] + 1 stored in a uint8_t
Inc(b) == (b + 1) % 256

VARIABLES phase,   \* phase[c]: "none", "open" or "closed"
          parse,   \* parse[c]: "WAIT_FOR_MSG" or "IN_MSG"
          got,     \* got[c]: bytes taken from the client, in order
          owed,    \* owed[c]: reply bytes not yet handed to the socket
          out,     \* out[c]: reply bytes handed to the socket, in order
          dead     \* TRUE once the server process is gone

vars == <<phase, parse, got, owed, out, dead>>

Init == /\ phase = [c \in Clients |-> "none"]
        /\ parse = [c \in Clients |-> "WAIT_FOR_MSG"]
        /\ got = [c \in Clients |-> <<>>]
        /\ owed = [c \in Clients |-> <<>>]
        /\ out = [c \in Clients |-> <<>>]
        /\ dead = FALSE

Connect(c) == /\ ~dead
              /\ phase[c] = "none"
              /\ phase' = [phase EXCEPT ![c] = "open"]
              /\ owed' = [owed EXCEPT ![c] = <<Star>>]
              /\ UNCHANGED <<parse, got, out, dead>>

\* The protocol state machine on one byte.
NextParse(p, b) ==
    IF p = "WAIT_FOR_MSG" THEN IF b = Caret THEN "IN_MSG" ELSE "WAIT_FOR_MSG"
                          ELSE IF b = Dollar THEN "WAIT_FOR_MSG" ELSE "IN_MSG"

Reply(p, b) ==
    IF p = "IN_MSG" /\ b # Dollar THEN <<Inc(b)>> ELSE <<>>

Consume(c, b) == /\ ~dead
                 /\ phase[c] = "open"
                 /\ parse' = [parse EXCEPT ![c] = NextParse(@, b)]
                 /\ got' = [got EXCEPT ![c] = Append(@, b)]
                 /\ owed' = [owed EXCEPT ![c] = @ \o Reply(parse[c], b)]
                 /\ UNCHANGED <<phase, out, dead>>

Deliver(c, n) == /\ ~dead
                 /\ phase[c] = "open"
                 /\ out' = [out EXCEPT ![c] = @ \o SubSeq(owed[c], 1, n)]
                 /\ owed' = [owed EXCEPT ![c] = SubSeq(@, n + 1, Len(@))]
                 /\ UNCHANGED <<phase, parse, got, dead>>

Finish(c) == /\ ~dead
             /\ phase[c] = "open"
             /\ owed[c] = <<>>
             /\ phase' = [phase EXCEPT ![c] = "closed"]
             /\ parse' = [parse EXCEPT ![c] = "WAIT_FOR_MSG"]
             /\ UNCHANGED <<got, owed, out, dead>>

Die == /\ ~dead
       /\ dead' = TRUE
       /\ UNCHANGED <<phase, parse, got, owed, out>>

Next == \/ \E c \in Clients : \/ Connect(c)
                              \/ \E b \in Bytes : Consume(c, b)
                              \/ \E n \in 1..Len(owed[c]) : Deliver(c, n)
                              \/ Finish(c)
        \/ Die

Spec == Init /\ [][Next]_vars

-----------------------------------------------------------------------------
(* The promise stated on the input alone: byte i is payload when some '^'  *)
(* precedes it with no '$' after that '^' up to and including i.           *)

Payload(s, i) == \E j \in 1..(i - 1) : /\ s[j] = Caret
                                       /\ \A k \in (j + 1)..i : s[k] # Dollar

Payloads(s) == {i \in 1..Len(s) : Payload(s, i)}

\* How many payload bytes there are up to byte i, and the n-th of them.
Rank(s, i) == Cardinality({j \in Payloads(s) : j <= i})
Nth(s, n)  == CHOOSE i \in Payloads(s) : Rank(s, i) = n

Echo(s) == [n \in 1..Cardinality(Payloads(s)) |-> Inc(s[Nth(s, n)])]

\* What a client has received and is still owed is exactly '*' followed by
\* the incremented payload bytes of what was taken from it: nothing lost,
\* repeated, reordered or left over from an earlier connection
\* (the byte loop of on_peer_ready_recv, select-server.c:103-123).
EchoReference ==
    \A c \in Clients :
        phase[c] # "none" => out[c] \o owed[c] = <<Star>> \o Echo(got[c])
=============================================================================
