---------------------------- MODULE PrimeServer ----------------------------
(***************************************************************************)
(* socket/socket_server/uv-isprime-server.c: one client asks whether       *)
(* numbers are prime.  In BLOCK mode the read callback computes the answer *)
(* itself; otherwise a thread of libuv's pool does, reading the number and *)
(* writing the answer in the peer_state_t that the loop also works on, and *)
(* the loop sends it when the work has completed.                          *)
(***************************************************************************)
EXTENDS Integers, Sequences

CONSTANTS Numbers,     \* what the client asks about
          MaxAsks      \* bound on the requests of a client

VARIABLES mode,      \* getenv("MODE"): "BLOCK" or "QUEUE"; or "died"
          asker,     \* the client: "here" or "left"
          asks,      \* history: the numbers asked
          unread,    \* requests that have not been read
          ps,        \* peer_state_t: [live, number, sendbuf]
          works,     \* uv_work_t in order: "queued", "ran"
          replies,   \* history: the answers written to the socket
          sending,   \* uv_write requests whose callback has not run
          crowded,   \* history: a request was read before the last was answered
          wild       \* history: a callback has used a freed peer_state_t

primeVars == <<mode, asker, asks, unread, ps, works, replies, sending, crowded, wild>>

(* The loop tries odd numbers while r * r <= n.                            *)
isprime(n) ==
    IF n % 2 = 0 THEN n = 2
    ELSE \A r \in {k \in 3..n : k % 2 = 1 /\ k * k <= n} : n % r # 0

Verdict(n) == IF isprime(n) THEN "prime" ELSE "composite"

PrimeInit ==
    /\ mode \in {"BLOCK", "QUEUE"} /\ asker = "here"
    /\ asks = <<>> /\ unread = <<>>
    /\ ps = [live |-> TRUE, number |-> 0, sendbuf |-> "none"]
    /\ works = <<>> /\ replies = <<>> /\ sending = 0
    /\ crowded = FALSE /\ wild = FALSE

Ask(n) ==
    /\ asker = "here" /\ Len(asks) < MaxAsks
    /\ asks' = Append(asks, n) /\ unread' = Append(unread, n)
    /\ UNCHANGED <<mode, asker, ps, works, replies, sending, crowded, wild>>

Leave ==
    /\ asker = "here" /\ asker' = "left"
    /\ UNCHANGED <<mode, asks, unread, ps, works, replies, sending, crowded, wild>>

ReadNumberLate ==
    /\ unread # <<>> /\ ps.live
    /\ LET n == Head(unread) IN
       IF mode = "BLOCK"
       THEN /\ ps' = [ps EXCEPT !.number = n, !.sendbuf = Verdict(n)]
            /\ replies' = Append(replies, Verdict(n)) /\ sending' = sending + 1
            /\ UNCHANGED works
       ELSE works' = Append(works, "queued") /\ UNCHANGED <<ps, replies, sending>>
    /\ unread' = Tail(unread)
    /\ crowded' = (crowded \/ works # <<>>)
    /\ UNCHANGED <<mode, asker, asks, wild>>
(* on_peer_read with a number.                                             *)
ReadNumber ==
    /\ unread # <<>> /\ ps.live
    /\ LET n == Head(unread) IN
       IF mode = "BLOCK"
       THEN /\ ps' = [ps EXCEPT !.number = n, !.sendbuf = Verdict(n)]
            /\ replies' = Append(replies, Verdict(n)) /\ sending' = sending + 1
            /\ UNCHANGED works
       ELSE /\ ps' = [ps EXCEPT !.number = n]
            /\ works' = Append(works, "queued")
            /\ UNCHANGED <<replies, sending>>
    /\ unread' = Tail(unread)
    /\ crowded' = (crowded \/ works # <<>>)
    /\ UNCHANGED <<mode, asker, asks, wild>>

(* on_work_submitted, in a thread of the pool.                             *)
on_work_submitted(i) ==
    /\ works[i] = "queued"
    /\ IF ps.live THEN ps' = [ps EXCEPT !.sendbuf = Verdict(ps.number)] /\ UNCHANGED wild
                  ELSE wild' = TRUE /\ UNCHANGED ps
    /\ works' = [works EXCEPT ![i] = "ran"]
    /\ UNCHANGED <<mode, asker, asks, unread, replies, sending, crowded>>

on_work_completedDrops(i) ==
    /\ works[i] = "ran"
    /\ works' = SubSeq(works, 1, i - 1) \o SubSeq(works, i + 1, Len(works))
    /\ UNCHANGED <<mode, asker, asks, unread, ps, replies, sending, crowded, wild>>
on_work_completed(i) ==
    /\ works[i] = "ran"
    /\ IF ps.live
       THEN /\ replies' = Append(replies, ps.sendbuf) /\ sending' = sending + 1
            /\ UNCHANGED wild
       ELSE wild' = TRUE /\ UNCHANGED <<replies, sending>>
    /\ works' = SubSeq(works, 1, i - 1) \o SubSeq(works, i + 1, Len(works))
    /\ UNCHANGED <<mode, asker, asks, unread, ps, crowded>>

on_sent_response ==
    /\ sending > 0 /\ sending' = sending - 1
    /\ UNCHANGED <<mode, asker, asks, unread, ps, works, replies, crowded, wild>>

(* A write to a client that is gone, or one that uv_close cancels, fails:  *)
(* die ends the server.                                                    *)
on_sent_responseFails ==
    /\ sending > 0 /\ asker = "left" /\ mode' = "died"
    /\ UNCHANGED <<asker, asks, unread, ps, works, replies, sending, crowded, wild>>

(* End of file: uv_close, and on_client_closed frees the peer state        *)
(* whatever work is still under way.                                       *)
ClientClosed ==
    /\ asker = "left" /\ unread = <<>> /\ ps.live
    /\ ps' = [ps EXCEPT !.live = FALSE]
    /\ UNCHANGED <<mode, asker, asks, unread, works, replies, sending, crowded, wild>>

PrimeSteps ==
    /\ mode # "died"
    /\ \/ ReadNumber \/ on_sent_response \/ on_sent_responseFails \/ ClientClosed
       \/ \E i \in 1..Len(works) : on_work_submitted(i) \/ on_work_completed(i)

PrimeNext == PrimeSteps \/ Leave \/ (\E n \in Numbers : Ask(n))

PrimeSpec == PrimeInit /\ [][PrimeNext]_primeVars /\ WF_primeVars(PrimeSteps)

----------------------------------------------------------------------------
(* No more answers than requests, and work items in one of their states.   *)
PrimeTypeOK ==
    /\ Len(replies) <= Len(asks) /\ Len(asks) <= MaxAsks
    /\ \A i \in 1..Len(works) : works[i] \in {"queued", "ran"}

(* A number n > 1 is what isprime says it is: trying odd divisors up to    *)
(* the root finds one if there is one.  (For 1 the code says prime.)       *)
IsPrimeRight ==
    \A n \in Numbers \ {0, 1} : isprime(n) <=> \A d \in 2..(n - 1) : n % d # 0

(* A client that waits for its answer gets the answer to its question:     *)
(* nothing the pool thread and the loop write in the shared peer state     *)
(* between the request and the write disturbs it.                          *)
AnswersMatch ==
    ~crowded => \A i \in 1..Len(replies) : replies[i] = Verdict(asks[i])

(* A freed peer state is used only after a client left with work pending.  *)
WildOnlyAfterLeaving == wild => asker = "left"

(* The answers to all requests of a client that stays are written in the   *)
(* end, whatever order the pool runs the work in.                          *)
EveryAskAnswered ==
    (Len(replies) < Len(asks)) ~> (Len(replies) = Len(asks) \/ asker = "left")
=============================================================================
