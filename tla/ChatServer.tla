----------------------------- MODULE ChatServer -----------------------------
(***************************************************************************)
(* The chat server of socket/exer (selectserver.c, and server.c with the   *)
(* same loop) with its clients (client.c): what one client sends goes to   *)
(* everyone else.  Descriptors are small integers, the listener is the     *)
(* lowest, accept returns the lowest free one.  The scan goes through the  *)
(* copy read_fds that select filled, while accept and close change master. *)
(***************************************************************************)
EXTENDS Integers, Sequences, FiniteSets

CONSTANTS Users,      \* client processes, each connects once
          Listener, MaxFd,
          MaxTalk     \* bound: messages a client sends

Fds == Listener..MaxFd
NoUser == "nobody"

VARIABLES master,    \* the descriptor set
          fdmax,
          ready,     \* read_fds, as select left it
          scan,      \* the loop index, or -1 outside the scan
          owner,     \* descriptor -> the client at its other end
          backlog,   \* clients in the listen queue
          user,      \* client -> "off", "on", "left" or "reset"
          talk,      \* client -> messages sent and not received by the server
          said,      \* client -> how many it has sent
          log,       \* history: [from, msg] as the server received them
          since,     \* history: client -> Len(log) when it was accepted
          ears,      \* client -> what was sent to it
          down       \* the server was killed by SIGPIPE

chatVars == <<master, fdmax, ready, scan, owner, backlog, user, talk, said, log, since, ears, down>>
chatWorld == <<user, talk, said>>

ChatInit ==
    /\ master = {Listener} /\ fdmax = Listener /\ ready = {} /\ scan = -1
    /\ owner = [f \in Fds |-> NoUser] /\ backlog = <<>>
    /\ user = [u \in Users |-> "off"] /\ talk = [u \in Users |-> <<>>]
    /\ said = [u \in Users |-> 0]
    /\ log = <<>> /\ since = [u \in Users |-> 0] /\ ears = [u \in Users |-> <<>>]
    /\ down = FALSE

----------------------------------------------------------------------------
(* The clients.                                                            *)
Dial(u) ==
    /\ user[u] = "off" /\ user' = [user EXCEPT ![u] = "on"]
    /\ backlog' = Append(backlog, u)
    /\ UNCHANGED <<master, fdmax, ready, scan, owner, talk, said, log, since, ears, down>>
Say(u) ==
    /\ user[u] = "on" /\ said[u] < MaxTalk
    /\ said' = [said EXCEPT ![u] = @ + 1]
    /\ talk' = [talk EXCEPT ![u] = Append(@, said[u] + 1)]
    /\ UNCHANGED <<master, fdmax, ready, scan, owner, backlog, user, log, since, ears, down>>
(* The server can tell a reset from a close only while data is unread.     *)
HangUp(u) ==
    /\ user[u] = "on"
    /\ \E how \in IF talk[u] = <<>> THEN {"left"} ELSE {"left", "reset"} :
          user' = [user EXCEPT ![u] = how]
    /\ UNCHANGED <<master, fdmax, ready, scan, owner, backlog, talk, said, log, since, ears, down>>

----------------------------------------------------------------------------
Away(u) == user[u] \in {"left", "reset"}

Readable(f) ==
    IF f = Listener THEN backlog # <<>>
    ELSE owner[f] # NoUser /\ (talk[owner[f]] # <<>> \/ Away(owner[f]))

(* The next descriptor of the scan that is set, or the end of the scan.    *)
NextSet(i, set) ==
    LET s == {f \in set : f > i}
    IN  IF s = {} THEN -1 ELSE CHOOSE f \in s : \A g \in s : f <= g

select ==
    /\ scan = -1 /\ ~down
    /\ ready' = {f \in master : f <= fdmax /\ Readable(f)}
    /\ ready' # {}
    /\ scan' = NextSet(-1, ready')
    /\ UNCHANGED <<master, fdmax, owner, backlog, log, since, ears, down, chatWorld>>

Accept ==
    /\ scan = Listener
    /\ LET free == {f \in Fds : f # Listener /\ owner[f] = NoUser}
           f == CHOOSE f \in free : \A g \in free : f <= g
           u == Head(backlog)
       IN  IF free = {}                                   \* accept fails
           THEN UNCHANGED <<master, fdmax, owner, backlog, since>>
           ELSE /\ master' = master \cup {f} /\ owner' = [owner EXCEPT ![f] = u]
                /\ backlog' = Tail(backlog) /\ since' = [since EXCEPT ![u] = Len(log)]
                /\ fdmax' = IF f > fdmax THEN f ELSE fdmax
    /\ scan' = NextSet(scan, ready)
    /\ UNCHANGED <<ready, log, ears, down, chatWorld>>

(* recv returned 0, or -1 for a reset, which discards what was not read.   *)
CloseKeepsMaster ==
    /\ owner' = [owner EXCEPT ![scan] = NoUser] /\ UNCHANGED <<master, talk, log, ears, down>>
Close ==
    /\ owner' = [owner EXCEPT ![scan] = NoUser] /\ master' = master \ {scan}
    /\ UNCHANGED <<talk, log, ears, down>>

(* One message to every other descriptor of master up to fdmax; a send to  *)
(* a client that has left raises SIGPIPE once its reset has arrived.       *)
Relay ==
    LET u  == owner[scan]
        m  == Head(talk[u])
        to == {f \in master : f <= fdmax /\ f \notin {Listener, scan}}
        hears(v) == \E f \in to : owner[f] = v
    IN  /\ talk' = [talk EXCEPT ![u] = Tail(@)]
        /\ log' = Append(log, [from |-> u, msg |-> m])
        /\ ears' = [v \in Users |-> IF hears(v) THEN Append(ears[v], [from |-> u, msg |-> m]) ELSE ears[v]]
        /\ down' \in {FALSE, \E f \in to : Away(owner[f])}
        /\ UNCHANGED <<master, owner>>

Receive ==
    /\ scan > Listener /\ ~down
    /\ IF talk[owner[scan]] # <<>> /\ user[owner[scan]] # "reset" THEN Relay ELSE Close
    /\ scan' = NextSet(scan, ready)
    /\ UNCHANGED <<fdmax, ready, backlog, since, user, said>>

ServerSteps == ~down /\ (select \/ Accept \/ Receive)

ChatNext == ServerSteps \/ (\E u \in Users : Dial(u) \/ Say(u) \/ HangUp(u))

ChatSpec == ChatInit /\ [][ChatNext]_chatVars

----------------------------------------------------------------------------
(* Descriptors and the scan index stay in range.                           *)
ChatTypeOK == master \subseteq Fds /\ fdmax \in Fds /\ scan \in -1..MaxFd

(* master and fdmax always cover the open connections and nothing else: a  *)
(* descriptor that accept reuses is never scanned for its old client.      *)
MasterIsOpen ==
    /\ master = {Listener} \cup {f \in Fds : owner[f] # NoUser}
    /\ \A f \in master : f <= fdmax

(* The places in the log l after its first n of what others than u said.   *)
OthersSaid(n, l, u) == {k \in (n + 1)..Len(l) : l[k].from # u}
(* The entries of l at the places p, in their order, are heard as e.       *)
Heard(e, p, l) ==
    /\ Len(e) = Cardinality(p)
    /\ \A k \in p : e[Cardinality({j \in p : j <= k})] = l[k]

(* A client hears what all the others say from its acceptance on, in the   *)
(* order the server received it, and never itself, as long as it stays     *)
(* connected, whoever comes and goes in the middle of a scan.              *)
HearsTheOthers ==
    \A u \in Users :
        (\E f \in Fds : owner[f] = u) => Heard(ears[u], OthersSaid(since[u], log, u), log)
=============================================================================
