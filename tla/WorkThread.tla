----------------------------- MODULE WorkThread -----------------------------
(***************************************************************************)
(* workthread/workThread.c and bsem.h: worker threads that another thread  *)
(* pauses and resumes.  workerPause resets the worker's semaphore and      *)
(* sends it SIGUSR1, whose handler finds the worker in gManager's list and *)
(* waits on the semaphore; workerResume posts it.  SIGUSR1 is blocked      *)
(* while its handler runs and is not queued.                               *)
(*                                                                         *)
(* The list has no lock: a step of workerDo is one assignment to memory    *)
(* the threads share, those of ListInit, ListAddTail and ListRemove        *)
(* included; threadsNum++ is a read and a write.  The sections under the   *)
(* semaphore's mutex are single steps.  bsem_reset does not take the mutex *)
(* but initialises mutex and condition variable anew; done while a thread  *)
(* waits this is undefined, and a later signal may or may not reach it.    *)
(***************************************************************************)
EXTENDS ListOps

CONSTANTS Workers,   \* a worker stands for its linkNode in the list too
          LinkHead,  \* &gManager.linkHead
          NULL

ASSUME WorkersAssumption ==
    LinkHead \notin Workers /\ NULL \notin Workers \cup {LinkHead} /\ IsFiniteSet(Workers)

VARIABLES
    life,     \* life[w]: "none", a statement of workerDo, or "exited"
    hand,     \* hand[w], the handler: "no", "enter", "waiting", "woken",
              \* "leave"
    pend,     \* pend[w]: SIGUSR1 is pending for w
    v,        \* v[w]: stBinarySem.v
    stale,    \* stale[w]: w waits on a condition variable re-initialised
    handler,  \* sigaction has installed workerHold, for the whole process
    process,  \* "running", "killed" by SIGUSR1, or "undefined"
    mem,      \* [next, prev]: the fields of every list node
    bInit,    \* gManager.bInit
    num,      \* gManager.threadsNum
    saw       \* saw[w]: threadsNum as w has read it

listVars == <<mem, bInit, num, saw>>
semVars  == <<hand, pend, v, stale, handler, process>>
workVars == <<life, semVars, listVars>>

Nodes == Workers \cup {LinkHead}

\* gManager is zeroed, no worker exists.
WorkInit ==
    /\ life = [w \in Workers |-> "none"] /\ hand = [w \in Workers |-> "no"]
    /\ pend = [w \in Workers |-> FALSE] /\ v = [w \in Workers |-> 0]
    /\ stale = [w \in Workers |-> FALSE]
    /\ handler = FALSE /\ process = "running"
    /\ mem = [next |-> [x \in Nodes |-> NULL], prev |-> [x \in Nodes |-> NULL]]
    /\ bInit = FALSE /\ num = 0 /\ saw = [w \in Workers |-> 0]

Alive(w) == process = "running" /\ life[w] \notin {"none", "exited"}

\* The worker's thread executes workerDo or the user function.
Executes(w) == Alive(w) /\ hand[w] = "no"

-----------------------------------------------------------------------------
(* workerCreate and workerDo.                                              *)

\* memset, ListInit(&(worker->linkNode)), bsem_init(.., 1), pthread_create
Create(w) == /\ process = "running" /\ life[w] = "none"
             /\ life' = [life EXCEPT ![w] = "checkInit"]
             /\ v' = [v EXCEPT ![w] = 1]
             /\ mem' = ListInit(mem, w)
             /\ UNCHANGED <<hand, pend, stale, handler, process, bInit, num, saw>>

Goes(w, from, to) == /\ Executes(w) /\ life[w] = from
                     /\ life' = [life EXCEPT ![w] = to]
                     /\ UNCHANGED semVars

\* A statement that only changes the links of the list.
Links(w, from, to, m) == /\ Goes(w, from, to)
                         /\ mem' = m
                         /\ UNCHANGED <<bInit, num, saw>>

\* if(!gManager.bInit)
CheckInit(w) ==
    Links(w, "checkInit", IF bInit THEN "itemPrev" ELSE "headNext", mem)

\* Variant: the flag is set before the head is linked.
SetUp_FlagFirst(w) ==
    \/ Goes(w, "headNext", "headPrev") /\ bInit' = TRUE /\ UNCHANGED <<mem, num, saw>>
    \/ Links(w, "headPrev", "zero", SetNext(mem, LinkHead, LinkHead))
    \/ Links(w, "zero", "flag", SetPrev(mem, LinkHead, LinkHead))
    \/ Goes(w, "flag", "itemPrev") /\ num' = 0 /\ UNCHANGED <<mem, bInit, saw>>

\* ListInit(&(gManager.linkHead)); threadsNum = 0; bInit = 1
SetUp(w) ==
    \/ Links(w, "headNext", "headPrev", SetNext(mem, LinkHead, LinkHead))
    \/ Links(w, "headPrev", "zero", SetPrev(mem, LinkHead, LinkHead))
    \/ Goes(w, "zero", "flag") /\ num' = 0 /\ UNCHANGED <<mem, bInit, saw>>
    \/ Goes(w, "flag", "itemPrev") /\ bInit' = TRUE /\ UNCHANGED <<mem, num, saw>>

\* ListAddTail(&(gManager.linkHead), &(pWork->linkNode))
AddTail(w) ==
    \/ Links(w, "itemPrev", "tailNext",
             SetPrev(SetNext(mem, w, LinkHead), w, mem.prev[LinkHead]))
    \/ Links(w, "tailNext", "headTail", SetNext(mem, mem.prev[LinkHead], w))
    \/ Links(w, "headTail", "incRead", SetPrev(mem, LinkHead, w))

ReadNum(w, from, to) == /\ Goes(w, from, to)
                        /\ saw' = [saw EXCEPT ![w] = num]
                        /\ UNCHANGED <<mem, bInit, num>>

WriteNum(w, from, to, d) == /\ Goes(w, from, to)
                            /\ num' = saw[w] + d
                            /\ UNCHANGED <<mem, bInit, saw>>

\* threadsNum++
CountIn(w) == \/ ReadNum(w, "incRead", "incWrite")
              \/ WriteNum(w, "incWrite", "sigaction", 1)

Register(w) == CheckInit(w) \/ SetUp(w) \/ AddTail(w) \/ CountIn(w)

\* sigaction, then the user function starts.
Install(w) == /\ Executes(w) /\ life[w] = "sigaction"
              /\ life' = [life EXCEPT ![w] = "user"]
              /\ handler' = TRUE
              /\ UNCHANGED <<hand, pend, v, stale, process, listVars>>

\* The user function returned: ListRemove(&pWork->linkNode)
Remove(w) ==
    \/ Links(w, "user", "prevNext", SetPrev(mem, mem.next[w], mem.prev[w]))
    \/ Links(w, "prevNext", "decRead", SetNext(mem, mem.prev[w], mem.next[w]))

\* threadsNum--, and the thread ends.
CountOut(w) ==
    \/ ReadNum(w, "decRead", "decWrite")
    \/ /\ Executes(w) /\ life[w] = "decWrite"
       /\ life' = [life EXCEPT ![w] = "exited"]
       /\ num' = saw[w] - 1
       /\ pend' = [pend EXCEPT ![w] = FALSE]
       /\ UNCHANGED <<hand, v, stale, handler, process, mem, bInit, saw>>

-----------------------------------------------------------------------------
(* What a controlling thread does.                                         *)

\* bsem_reset, the first half of workerPause
Reset(w) == /\ v' = [v EXCEPT ![w] = 0]
            /\ stale' = [stale EXCEPT ![w] = hand[w] \in {"waiting", "woken"}]
            /\ UNCHANGED <<life, hand, pend, handler, process, listVars>>

\* pthread_kill(pth, SIGUSR1), the second half; a thread that has ended gets
\* nothing.
Kill(w) == /\ pend' = [pend EXCEPT ![w] = Alive(w)]
           /\ UNCHANGED <<life, hand, v, stale, handler, process, listVars>>

\* Variant: v is set but the waiting thread is not signalled.
Post_NoSignal(w) == /\ v' = [v EXCEPT ![w] = @ + 1]
                    /\ UNCHANGED <<life, hand, pend, stale, handler, process, listVars>>

\* Where pthread_cond_signal may leave the handler.
Signalled(w) == IF hand[w] # "waiting" THEN {hand[w]}
                ELSE {"woken"} \cup (IF stale[w] THEN {"waiting"} ELSE {})

\* bsem_post: workerResume
Post(w) == /\ v' = [v EXCEPT ![w] = @ + 1]
           /\ \E h \in Signalled(w) : hand' = [hand EXCEPT ![w] = h]
           /\ UNCHANGED <<life, pend, stale, handler, process, listVars>>

-----------------------------------------------------------------------------
(* The handler workerHold in the worker's thread.                          *)

\* ListForEach from the head meets w, before it meets the head again.
Found(w) ==
    \E n \in 1 .. Cardinality(Workers) : \E walk \in [1 .. n -> Workers] :
        /\ walk[1] = mem.next[LinkHead] /\ walk[n] = w
        /\ \A k \in 1 .. n - 1 : walk[k] # w /\ walk[k + 1] = mem.next[walk[k]]

\* The signal arrives: without the handler its default action ends the
\* process; a worker that is not in the list takes the list head, or NULL,
\* for its own entry.
Deliver(w) ==
    /\ Executes(w) /\ pend[w]
    /\ pend' = [pend EXCEPT ![w] = FALSE]
    /\ IF ~handler THEN process' = "killed" /\ UNCHANGED hand
       ELSE IF ~Found(w) THEN process' = "undefined" /\ UNCHANGED hand
       ELSE hand' = [hand EXCEPT ![w] = "enter"] /\ UNCHANGED process
    /\ UNCHANGED <<life, v, stale, handler, listVars>>

\* Variant: the semaphore is taken without looking at its value.
TryTake_NoCheck(w) ==
    /\ process = "running"
    /\ hand' = [hand EXCEPT ![w] = "leave"]
    /\ v' = [v EXCEPT ![w] = @ - 1]
    /\ UNCHANGED <<life, pend, stale, handler, process, listVars>>

\* Variant: the waiter leaves without taking what was posted.
TryTake_KeepsCredit(w) ==
    /\ process = "running"
    /\ hand' = [hand EXCEPT ![w] = IF v[w] = 0 THEN "waiting" ELSE "leave"]
    /\ UNCHANGED <<life, pend, v, stale, handler, process, listVars>>

\* bsem_wait: take the semaphore or go to sleep on the condition.
TryTake(w) ==
    /\ process = "running"
    /\ IF v[w] = 0 THEN /\ hand' = [hand EXCEPT ![w] = "waiting"]
                        /\ UNCHANGED <<v, stale>>
       ELSE /\ hand' = [hand EXCEPT ![w] = "leave"]
            /\ v' = [v EXCEPT ![w] = @ - 1]
            /\ stale' = [stale EXCEPT ![w] = FALSE]
    /\ UNCHANGED <<life, pend, handler, process, listVars>>

Wait(w) == hand[w] = "enter" /\ TryTake(w)

Wake(w) == hand[w] = "woken" /\ TryTake(w)

Return(w) == /\ process = "running" /\ hand[w] = "leave"
             /\ hand' = [hand EXCEPT ![w] = "no"]
             /\ UNCHANGED <<life, pend, v, stale, handler, process, listVars>>

-----------------------------------------------------------------------------
Lives == {"none", "checkInit", "headNext", "headPrev", "zero", "flag",
          "itemPrev", "tailNext", "headTail", "incRead", "incWrite",
          "sigaction", "user", "prevNext", "decRead", "decWrite", "exited"}

WorkTypeOK ==
    /\ life \in [Workers -> Lives]
    /\ hand \in [Workers -> {"no", "enter", "waiting", "woken", "leave"}]
    /\ pend \in [Workers -> BOOLEAN] /\ v \in [Workers -> Nat]
    /\ stale \in [Workers -> BOOLEAN] /\ handler \in BOOLEAN
    /\ process \in {"running", "killed", "undefined"}
    /\ mem \in [next : [Nodes -> Nodes \cup {NULL}], prev : [Nodes -> Nodes \cup {NULL}]]
    /\ bInit \in BOOLEAN /\ num \in Int /\ saw \in [Workers -> Int]

\* w is past the test of bInit and the initialisation it may call for.
Entered(w) == life[w] \notin {"none", "checkInit", "headNext", "headPrev", "zero", "flag"}

\* However the unlocked statements of two workers fall, and whatever workers
\* they lose from the list, no link that ListAddTail, ListRemove or the
\* handler's ListForEach follows is NULL (workThread.c:21, 42-48 and 70).
LinksSound ==
    /\ \A w \in Workers : life[w] # "none" => mem.next[w] # NULL /\ mem.prev[w] # NULL
    /\ (bInit \/ \E w \in Workers : Entered(w)) =>
           mem.next[LinkHead] # NULL /\ mem.prev[LinkHead] # NULL

Users == {w \in Workers : life[w] \in {"sigaction", "user"}}

\* A worker that runs its user function, and so may get SIGUSR1, finds
\* itself in the list (workerHold, workThread.c:21-28) whatever the others
\* do: "添加到global链表", it has been added to the global list
\* (workThread.c:41).
FindsItself == \A w \in Users : Found(w)

\* w is between its first and its last access to gManager.
InManager(w) == life[w] \notin {"none", "checkInit", "sigaction", "user", "exited"}

\* When no worker is entering or leaving the list, it holds exactly the
\* running workers, linked in both directions, and threadsNum counts them
\* (workerDo, workThread.c:41-49 and 69-71).
ManagerConsistent ==
    (bInit /\ \A w \in Workers : ~InManager(w)) =>
        /\ num = Cardinality(Users)
        /\ \E s \in [1 .. Cardinality(Users) -> Users] :
               /\ \A w \in Users : \E k \in DOMAIN s : s[k] = w
               /\ Linked(mem, LinkHead, s)

\* gManager's list serves its purpose while workers come and go: the
\* handler finds each running worker in it, and at rest it holds exactly
\* those (workThread.c:13-73).
ListServes == FindsItself /\ ManagerConsistent
=============================================================================
