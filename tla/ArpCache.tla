------------------------------ MODULE ArpCache ------------------------------
(***************************************************************************)
(* The ARP cache of src/tcpip/arp: the table, the pending packets of its   *)
(* entries and the three activities on it.  The receive thread runs        *)
(* arp_recv.  arp_timer(1) and IP output belong to the cache's interface   *)
(* but nothing in the repository calls them: the timer thread of           *)
(* main.c:75-82 only sleeps, and arp.c:87-90 describes what IP output will *)
(* do - allocate a waiting entry and leave its packet there.  So arp_timer *)
(* may be called here at any time or never, and OutHosts are the hosts     *)
(* that IP output sends to, none of them in the program as it is.          *)
(* main.c:112 has arp_cache_init commented out; a static table is FREE     *)
(* without it.  The mutex is held where the code holds it and nowhere      *)
(* else: arp_recv works on the entry that arp_cache_lookup returned after  *)
(* the mutex is free again, and any step of the timer and of IP output may *)
(* come in between.                                                        *)
(*                                                                         *)
(* Host h has the internet and the hardware address h.                     *)
(***************************************************************************)
EXTENDS Integers, Sequences, FiniteSets

CONSTANTS Hosts,       \* the other hosts
          OutHosts,    \* those that IP output sends packets to
          CacheSize,   \* ARP_CACHE_SZ
          Timeout,     \* ARP_TTL_TIMEOUT
          WaitTime,    \* ARP_TTL_WAITTIME
          Retries,     \* ARP_REQ_RETRY
          MaxPending   \* bound: packets in the hands of the cache

NULL == "null"
NoEntry == -1
Slots == 0..(CacheSize - 1)
FREE == "free"
WAITING == "waiting"
RESOLVED == "resolved"

VARIABLES cache,   \* arp_cache: slot -> entry; ae_list is the hosts its packets are for
          next,    \* the rotating start of arp_entry_alloc
          mutex,   \* arp_cache_mutex: holder or NULL
          recv,    \* the receive thread: where, the packet, the entry
          timer,   \* the timer: where and which slot
          output,  \* IP output: where, for whom, the entry
          stray,   \* history: from a slot not in `mixed' a packet left for a host it was not for
          dead,    \* history: where ae_dev was NULL, or a packet freed, when it was used
          mixed    \* history: the slots that were filled by one and held by another
                   \* and not allocated afresh since

arpVars == <<cache, next, mutex, recv, timer, output, stray, dead, mixed>>

Idle == [at |-> "idle", host |-> NULL, ae |-> NoEntry, pkb |-> NULL]
Ending == [Idle EXCEPT !.at = "end"]
Alive == [why |-> "alive", slot |-> NoEntry]
Freed == "freed"

ArpInit ==
    /\ cache = [i \in Slots |-> [state |-> FREE, dev |-> NULL, retry |-> 0, ttl |-> 0,
                                 ip |-> NULL, hw |-> NULL, list |-> <<>>]]
    /\ next = 0 /\ mutex = NULL
    /\ recv = Idle /\ timer = [at |-> "idle", i |-> 0] /\ output = Idle
    /\ stray = FALSE /\ dead = Alive /\ mixed = {}

----------------------------------------------------------------------------
(* The first slot from next on, cyclically, that is free.                  *)
FirstFree ==
    LET free == {k \in Slots : cache[(next + k) % CacheSize].state = FREE}
    IN  IF free = {} THEN NoEntry
        ELSE (next + CHOOSE k \in free : \A j \in free : k <= j) % CacheSize

arp_cache_lookup(ip) ==
    LET hits == {i \in Slots : cache[i].state # FREE /\ cache[i].ip = ip}
    IN  IF hits = {} THEN NoEntry ELSE CHOOSE i \in hits : \A j \in hits : i <= j

(* arp_entry_alloc fills some fields of slot i; ip and hw keep their old   *)
(* values until the caller writes them.                                    *)
arp_entry_alloc(i) ==
    /\ cache' = [cache EXCEPT ![i] = [@ EXCEPT !.dev = NULL, !.retry = Retries,
                                               !.ttl = WaitTime, !.state = WAITING,
                                               !.list = <<>>]]
    /\ next' = (i + 1) % CacheSize

----------------------------------------------------------------------------
(* arp_recv.  An accepted ARP packet of host h arrives and the entry is    *)
(* looked up; lock and unlock are within arp_cache_lookup.                 *)
RecvLookup(h, op) ==
    /\ recv = Idle /\ mutex = NULL
    /\ LET ae == arp_cache_lookup(h) IN
       recv' = IF ae = NoEntry /\ op = "reply" THEN Ending
               ELSE [at |-> IF ae # NoEntry THEN "update" ELSE "alloc",
                     host |-> h, ae |-> ae, pkb |-> NULL]
    /\ UNCHANGED <<cache, next, mutex, timer, output, stray, dead>>

(* memcpy of the address, and the test of the state.                       *)
RecvUpdateUnlessWaiting ==
    /\ recv.at = "update"
    /\ LET waiting == cache[recv.ae].state = WAITING IN
       /\ cache' = IF waiting THEN cache ELSE [cache EXCEPT ![recv.ae].hw = recv.host]
       /\ recv' = [recv EXCEPT !.at = IF waiting THEN "flush" ELSE "resolve"]
    /\ UNCHANGED <<next, mutex, timer, output, stray, dead>>
RecvUpdate ==
    /\ recv.at = "update"
    /\ cache' = [cache EXCEPT ![recv.ae].hw = recv.host]
    /\ recv' = [recv EXCEPT !.at = IF cache[recv.ae].state = WAITING THEN "flush" ELSE "resolve"]
    /\ UNCHANGED <<next, mutex, timer, output, stray, dead>>

(* arp_queue_send: the first packet of the list is looked at, ...          *)
RecvFlush ==
    /\ recv.at = "flush"
    /\ LET list == cache[recv.ae].list IN
       recv' = IF list = <<>> THEN [recv EXCEPT !.at = "resolve"]
               ELSE [recv EXCEPT !.at = "send", !.pkb = Head(list)]
    /\ UNCHANGED <<cache, next, mutex, timer, output, stray, dead>>

(* ... taken from the list, if that still has one, and sent, to wherever   *)
(* the entry says by now.                                                  *)
RecvSend ==
    /\ recv.at = "send"
    /\ LET e == cache[recv.ae] IN
       /\ cache' = [cache EXCEPT ![recv.ae].list = IF @ = <<>> THEN @ ELSE Tail(@)]
       /\ stray' = (stray \/ (recv.pkb \notin {Freed, e.hw} /\ recv.ae \notin mixed))
       /\ dead' = IF recv.pkb = Freed THEN [why |-> "freed", slot |-> recv.ae]
                  ELSE IF e.dev = NULL THEN [why |-> "null", slot |-> recv.ae] ELSE dead
    /\ recv' = [recv EXCEPT !.at = "flush", !.pkb = NULL]
    /\ UNCHANGED <<next, mutex, timer, output>>

RecvResolve ==
    /\ recv.at = "resolve"
    /\ cache' = [cache EXCEPT ![recv.ae].state = RESOLVED, ![recv.ae].ttl = Timeout]
    /\ recv' = Ending
    /\ UNCHANGED <<next, mutex, timer, output, stray, dead>>

(* arp_cache_insert: allocate under the mutex, fill without it; the state  *)
(* is set before the hardware address is copied.                           *)
RecvAlloc ==
    /\ recv.at = "alloc" /\ mutex = NULL
    /\ LET i == FirstFree IN
       IF i = NoEntry
       THEN recv' = Ending /\ UNCHANGED <<cache, next>>
       ELSE recv' = [recv EXCEPT !.at = "fill", !.ae = i] /\ arp_entry_alloc(i)
    /\ UNCHANGED <<mutex, timer, output, stray, dead>>

RecvFill ==
    /\ recv.at = "fill"
    /\ cache' = [cache EXCEPT ![recv.ae] =
                   [@ EXCEPT !.dev = "veth", !.ttl = Timeout, !.ip = recv.host, !.state = RESOLVED]]
    /\ recv' = [recv EXCEPT !.at = "hwaddr"]
    /\ UNCHANGED <<next, mutex, timer, output, stray, dead>>

RecvHwaddr ==
    /\ recv.at = "hwaddr"
    /\ cache' = [cache EXCEPT ![recv.ae].hw = recv.host]
    /\ recv' = Ending
    /\ UNCHANGED <<next, mutex, timer, output, stray, dead>>

(* A request is answered from the packet itself, a reply is freed.         *)
RecvEnd ==
    /\ recv.at = "end"
    /\ recv' = Idle
    /\ UNCHANGED <<cache, next, mutex, timer, output, stray, dead>>

----------------------------------------------------------------------------
(* arp_timer(1), whenever somebody calls it.                               *)
TimerStart ==
    /\ timer.at = "idle" /\ mutex = NULL
    /\ mutex' = "timer" /\ timer' = [at |-> "scan", i |-> 0]
    /\ UNCHANGED <<cache, next, recv, output, stray, dead>>

(* One entry: ttl -= delta.  When that has run out, the entry of a host    *)
(* that never answered or was resolved long ago goes, and a waiting entry  *)
(* with retries left is asked for again with the mutex released.           *)
TimerScan ==
    /\ timer.at = "scan"
    /\ LET i == timer.i
           e == [cache[i] EXCEPT !.ttl = @ - 1]
           f == [e EXCEPT !.retry = IF e.state = WAITING THEN @ - 1 ELSE @]
       IN
       IF cache[i].state = FREE \/ e.ttl > 0
       THEN /\ cache' = IF cache[i].state = FREE THEN cache ELSE [cache EXCEPT ![i] = e]
            /\ timer' = [at |-> IF i + 1 \in Slots THEN "scan" ELSE "done", i |-> i + 1]
            /\ UNCHANGED mutex
       ELSE IF f.state = RESOLVED \/ f.retry < 0
       THEN /\ cache' = [cache EXCEPT ![i] = f]
            /\ timer' = [timer EXCEPT !.at = "expire"]
            /\ UNCHANGED mutex
       ELSE /\ cache' = [cache EXCEPT ![i] = [f EXCEPT !.ttl = WaitTime]]
            /\ mutex' = NULL /\ timer' = [timer EXCEPT !.at = "request"]
    /\ UNCHANGED <<next, recv, output, stray, dead>>

(* The state is read once more: arp_recv, which does not take the mutex,   *)
(* may have resolved the entry.  arp_queue_drop frees the packets of the   *)
(* list, the one that arp_queue_send has in hand among them; then the slot *)
(* is free.                                                                *)
TimerExpire ==
    /\ timer.at = "expire"
    /\ LET i == timer.i
           e == cache[i]
           drops == e.state = WAITING /\ e.list # <<>>
       IN
       /\ cache' = [cache EXCEPT ![i] = [e EXCEPT !.state = FREE,
                                                  !.list = IF drops THEN <<>> ELSE e.list]]
       /\ recv' = IF drops /\ recv.at = "send" /\ recv.ae = i
                  THEN [recv EXCEPT !.pkb = Freed] ELSE recv
       /\ timer' = [at |-> IF i + 1 \in Slots THEN "scan" ELSE "done", i |-> i + 1]
    /\ UNCHANGED <<next, mutex, output, stray, dead>>

(* arp_request reads the entry with the mutex free.                        *)
TimerRequest ==
    /\ timer.at = "request"
    /\ dead' = IF cache[timer.i].dev = NULL THEN [why |-> "null", slot |-> timer.i] ELSE dead
    /\ timer' = [timer EXCEPT !.at = "relock"]
    /\ UNCHANGED <<cache, next, mutex, recv, output, stray>>

TimerRelock ==
    /\ timer.at = "relock" /\ mutex = NULL
    /\ IF timer.i + 1 \in Slots
       THEN mutex' = "timer" /\ timer' = [at |-> "scan", i |-> timer.i + 1]
       ELSE timer' = [at |-> "idle", i |-> 0] /\ UNCHANGED mutex
    /\ UNCHANGED <<cache, next, recv, output, stray, dead>>

TimerUnlock ==
    /\ timer.at = "done"
    /\ mutex' = NULL /\ timer' = [at |-> "idle", i |-> 0]
    /\ UNCHANGED <<cache, next, recv, output, stray, dead>>

----------------------------------------------------------------------------
(* IP output (external): a packet for host h.                              *)
OutputLookup(h) ==
    /\ output = Idle /\ mutex = NULL
    /\ \A i \in Slots : Len(cache[i].list) < MaxPending
    /\ LET ae == arp_cache_lookup(h) IN
       output' = [at |-> IF ae = NoEntry THEN "alloc" ELSE "use", host |-> h, ae |-> ae, pkb |-> NULL]
    /\ UNCHANGED <<cache, next, mutex, recv, timer, stray, dead>>

OutputUse ==
    /\ output.at = "use"
    /\ LET e == cache[output.ae] IN
       IF e.state = RESOLVED
       THEN /\ stray' = (stray \/ (e.hw # output.host /\ output.ae \notin mixed))
            /\ dead' = IF e.dev = NULL THEN [why |-> "null", slot |-> output.ae] ELSE dead
            /\ UNCHANGED cache
       ELSE /\ cache' = [cache EXCEPT ![output.ae].list = Append(@, output.host)]
            /\ UNCHANGED <<stray, dead>>
    /\ output' = Idle
    /\ UNCHANGED <<next, mutex, recv, timer>>

OutputAlloc ==
    /\ output.at = "alloc" /\ mutex = NULL
    /\ LET i == FirstFree IN
       IF i = NoEntry THEN output' = Idle /\ UNCHANGED <<cache, next>>
       ELSE output' = [output EXCEPT !.at = "fill", !.ae = i] /\ arp_entry_alloc(i)
    /\ UNCHANGED <<mutex, recv, timer, stray, dead>>

OutputFill ==
    /\ output.at = "fill"
    /\ LET e == cache[output.ae] IN
       cache' = [cache EXCEPT ![output.ae] =
                   [e EXCEPT !.dev = "veth", !.ip = output.host, !.list = Append(e.list, output.host)]]
    /\ output' = Idle
    /\ UNCHANGED <<next, mutex, recv, timer, stray, dead>>

ArpRecvSteps == RecvUpdate \/ RecvFlush \/ RecvSend \/ RecvResolve \/ RecvAlloc \/ RecvFill
                \/ RecvHwaddr \/ RecvEnd
ArpTimerSteps == TimerStart \/ TimerScan \/ TimerExpire \/ TimerRequest \/ TimerRelock \/ TimerUnlock
ArpOutputSteps == OutputUse \/ OutputAlloc \/ OutputFill

(* arp_recv and IP output have the same slot and one of them is filling    *)
(* it: the slot was freed under the one and allocated by the other, or it  *)
(* was looked up before it was filled.  That may spoil the entry until its *)
(* slot is allocated again, to one of them alone.                          *)
Mixed(i) == /\ recv.ae = i /\ output.ae = i
            /\ recv.at \in {"fill", "hwaddr"} \/ output.at = "fill"

Fresh(i) == cache[i].state = FREE /\ cache'[i].state = WAITING

(* After a use of freed memory or of a NULL device the program may do      *)
(* anything; the model stops there.                                        *)
ArpNext ==
    /\ dead = Alive
    /\ \/ \E h \in Hosts, op \in {"request", "reply"} : RecvLookup(h, op)
       \/ \E h \in OutHosts : OutputLookup(h)
       \/ ArpRecvSteps \/ ArpTimerSteps \/ ArpOutputSteps
    /\ mixed' = {i \in Slots : Mixed(i)' \/ (i \in mixed /\ ~Fresh(i))}

ArpSpec == ArpInit /\ [][ArpNext]_arpVars

----------------------------------------------------------------------------
(* Every field holds a value the code can give it; the mutex is only held  *)
(* across steps by arp_timer, and exactly while it scans.                  *)
ArpTypeOK ==
    /\ \A i \in Slots :
          /\ cache[i].state \in {FREE, WAITING, RESOLVED} /\ cache[i].dev \in {NULL, "veth"}
          /\ cache[i].retry \in -1..Retries /\ cache[i].ttl \in -1..Timeout
    /\ next \in Slots
    /\ (mutex = "timer") <=> (timer.at \in {"scan", "expire", "done"})

(* A resolved entry maps an address to the hardware address of that very   *)
(* host, except between the two assignments of arp_cache_insert and in a   *)
(* slot that arp_recv and IP output worked on together.  Neither the slot  *)
(* reuse of arp_entry_alloc, which leaves the old addresses in place, nor  *)
(* the timer's freeing an entry that arp_recv is writing to, and bringing  *)
(* back, mixes hosts.                                                      *)
MacMatches ==
    \A i \in Slots \ mixed :
        cache[i].state = RESOLVED /\ ~(recv.at = "hwaddr" /\ recv.ae = i)
            => cache[i].hw = cache[i].ip

(* A packet leaves for the host it was meant for, however arp_queue_send,  *)
(* the timer and IP output interleave on its entry, except from a slot     *)
(* that was mixed.                                                         *)
PacketsReachTheirHost == ~stray

(* The NULL device of an entry is followed only in the window between      *)
(* arp_entry_alloc and the caller's first assignment: no other order of    *)
(* the steps leads there.                                                  *)
NullDeviceOnlyInWindow ==
    dead.why = "null" => \E t \in {recv, output} : t.at = "fill" /\ t.ae = dead.slot

(* arp_queue_send uses a packet that was freed only of an entry whose last *)
(* retry ran out while its packets were being sent.                        *)
FreedOnlyAtLastRetry ==
    dead.why = "freed" => dead.slot \in mixed \/ cache[dead.slot].retry < 0

(* While nothing but the receive thread and the timer uses the cache, no   *)
(* slot is mixed and no freed packet is sent.                              *)
AloneNeverMixed == OutHosts = {} => mixed = {} /\ dead.why # "freed"
=============================================================================
