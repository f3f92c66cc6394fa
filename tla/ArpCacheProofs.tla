--------------------------- MODULE ArpCacheProofs ---------------------------
(***************************************************************************)
(* Proof of ArpSound of MCNetPrograms: the ARP cache in every order of the *)
(* steps of arp_recv, arp_timer and IP output.  The inductive invariant    *)
(* ArpInv speaks of the slots one by one: of every slot, who follows its   *)
(* device (NullKnown) and what the timer may find in it (TimerHas); and of *)
(* a slot that arp_recv and IP output did not fill together, what the      *)
(* place of each of them allows the entry to hold (Clean).  A step touches *)
(* at most one slot (Around).                                              *)
(***************************************************************************)
EXTENDS MCNetPrograms, Sequences, FiniteSetTheorems, SequenceTheorems, WellFoundedInduction, TLAPS

-----------------------------------------------------------------------------
(* The searches of the cache: arp_cache_lookup and arp_entry_alloc.        *)

\* A set of numbers that is not empty has a least one.
LEMMA LeastNat ==
  ASSUME NEW T, T \subseteq Nat, T # {}
  PROVE  \E x \in T : \A y \in T : x <= y
  <1>1. PICK x \in T : \A y \in T : ~ (<<y, x>> \in OpToRel(<, Nat))
    BY NatLessThanWellFounded, WFMin
  <1>2. \A y \in T : ~ (y < x)
    BY <1>1 DEF OpToRel
  <1> QED
    BY <1>2

\* arp_cache_lookup returns a used slot with the address, or none.
LEMMA LookupFinds ==
  ASSUME NEW ip, NEW ae, ae = Arp!arp_cache_lookup(ip)
  PROVE  \/ ae = Arp!NoEntry
         \/ ae \in Arp!Slots /\ cache[ae].state # Arp!FREE /\ cache[ae].ip = ip
  <1> DEFINE hits == {i \in Arp!Slots : cache[i].state # Arp!FREE /\ cache[i].ip = ip}
  <1>1. CASE hits = {}
    BY <1>1 DEF Arp!arp_cache_lookup
  <1>2. CASE hits # {}
    <2>0. hits \subseteq Nat
      BY ArpAssumption DEF ArpAssumption, Arp!Slots
    <2>1. \E i \in hits : \A j \in hits : i <= j
      <3> HIDE DEF hits
      <3> QED
        BY <1>2, <2>0, LeastNat
    <2>2. ae = CHOOSE i \in hits : \A j \in hits : i <= j
      BY <1>2 DEF Arp!arp_cache_lookup
    <2>3. ae \in hits
      <3> HIDE DEF hits
      <3> QED
        BY <2>1, <2>2
    <2> QED
      BY <2>3
  <1> QED
    BY <1>1, <1>2

\* arp_entry_alloc takes a free slot, or none.
LEMMA FirstFreeFinds ==
  ASSUME NEW i, i = Arp!FirstFree, next \in Nat
  PROVE  \/ i = Arp!NoEntry
         \/ i \in Arp!Slots /\ cache[i].state = Arp!FREE
  <1> DEFINE free == {k \in Arp!Slots : cache[(next + k) % CacheSize].state = Arp!FREE}
  <1>1. CASE free = {}
    BY <1>1 DEF Arp!FirstFree
  <1>2. CASE free # {}
    <2>0. free \subseteq Nat
      BY ArpAssumption DEF ArpAssumption, Arp!Slots
    <2>1. \E k \in free : \A j \in free : k <= j
      <3> HIDE DEF free
      <3> QED
        BY <1>2, <2>0, LeastNat
    <2>2. PICK k : k = CHOOSE x \in free : \A j \in free : x <= j
      OBVIOUS
    <2>3. k \in free
      <3> HIDE DEF free
      <3> QED
        BY <2>1, <2>2
    <2>4. i = (next + k) % CacheSize
      BY <1>2, <2>2 DEF Arp!FirstFree
    <2>5. (next + k) % CacheSize \in Arp!Slots
      BY <2>3, ArpAssumption DEF ArpAssumption, Arp!Slots
    <2> QED
      BY <2>3, <2>4, <2>5
  <1> QED
    BY <1>1, <1>2

-----------------------------------------------------------------------------
(* The inductive invariant.                                                *)

ArpEntries == [state : {Arp!FREE, Arp!WAITING, Arp!RESOLVED}, dev : {Arp!NULL, "veth"},
               retry : Int, ttl : Int, ip : Hosts \cup {Arp!NULL}, hw : Hosts \cup {Arp!NULL},
               list : Seq(Hosts)]

ArpTasks(places) == [at : places, host : Hosts \cup {Arp!NULL}, ae : Arp!Slots \cup {Arp!NoEntry},
                     pkb : Hosts \cup {Arp!NULL, Arp!Freed}]

RecvPlaces == {"idle", "update", "flush", "send", "resolve", "alloc", "fill", "hwaddr", "end"}
OutputPlaces == {"idle", "use", "alloc", "fill"}
TimerPlaces == {"idle", "scan", "expire", "request", "relock", "done"}

ArpShape ==
    /\ cache \in [Arp!Slots -> ArpEntries] /\ next \in Nat
    /\ recv \in ArpTasks(RecvPlaces) /\ output \in ArpTasks(OutputPlaces)
    /\ timer \in [at : TimerPlaces, i : Int]

\* Who works on an entry has one.
ArpPlaces ==
    /\ recv.at \in {"idle", "alloc", "end"} <=> recv.ae = Arp!NoEntry
    /\ recv.at \notin {"idle", "end"} => recv.host \in Hosts
    /\ output.at \in {"idle", "alloc"} <=> output.ae = Arp!NoEntry
    /\ output.at # "idle" => output.host \in Hosts
    /\ timer.at \in {"scan", "expire", "request"} => timer.i \in Arp!Slots

\* All packets of list l are for host h.
AllFor(l, h) == \A k \in 1..Len(l) : l[k] = h

\* Entry e of slot i has no device only while somebody is about to fill it,
\* or before anybody had it.
NullKnown(i, e, r, o) ==
    e.dev = Arp!NULL => \/ r.at = "fill" /\ r.ae = i
                        \/ o.at = "fill" /\ o.ae = i
                        \/ e.state = Arp!FREE /\ r.ae # i /\ o.ae # i

\* The timer expires, or asks for, an entry in use, and drops the packets
\* of one that has no retries left.
TimerHas(i, e, t) ==
    t.at \in {"expire", "request"} /\ t.i = i =>
        /\ e.state # Arp!FREE
        /\ t.at = "expire" /\ e.state = Arp!WAITING => e.retry < 0

\* arp_recv at r and IP output at o have slot i, and one of them fills it.
BothFill(i, r, o) == /\ r.ae = i /\ o.ae = i
                     /\ r.at \in {"fill", "hwaddr"} \/ o.at = "fill"

\* What arp_recv at r knows of the entry it has.
RecvKnows(e, r) ==
    /\ r.at \in {"update", "flush", "send", "resolve", "hwaddr"} => e.ip = r.host
    /\ r.at \in {"flush", "send", "resolve"} => e.hw = r.host
    /\ r.at = "send" => r.pkb = r.host \/ (r.pkb = Arp!Freed /\ e.retry < 0)
    /\ r.at = "fill" => e.list = <<>>

\* What IP output at o knows of the entry it has.
OutputKnows(e, o) == /\ o.at = "use" => e.ip = o.host
                     /\ o.at = "fill" => e.list = <<>> /\ e.state # Arp!RESOLVED

\* What is known of entry e in slot i as long as the slot is not mixed.
Clean(i, e, r, o) ==
    /\ ~BothFill(i, r, o)
    /\ e.state = Arp!RESOLVED /\ ~(r.at = "hwaddr" /\ r.ae = i) => e.hw = e.ip
    /\ AllFor(e.list, e.ip)
    /\ r.ae = i => RecvKnows(e, r)
    /\ o.ae = i => OutputKnows(e, o)

\* The cache without IP output.
Alone == OutHosts = {} =>
            /\ output = Arp!Idle /\ mixed = {} /\ recv.at # "send" /\ dead.why # "freed"
            /\ \A i \in Arp!Slots : cache[i].list = <<>>

SlotsSound ==
    \A i \in Arp!Slots :
        /\ NullKnown(i, cache[i], recv, output)
        /\ TimerHas(i, cache[i], timer)
        /\ i \notin mixed => Clean(i, cache[i], recv, output)

DeadKnown == Arp!NullDeviceOnlyInWindow /\ Arp!FreedOnlyAtLastRetry

ArpInv == ArpShape /\ ArpPlaces /\ ~stray /\ SlotsSound /\ Alone /\ DeadKnown

\* No packets are for anybody.
LEMMA AllForNone == ASSUME NEW h PROVE AllFor(<<>>, h)
  BY DEF AllFor

\* The first packet and the others.
LEMMA AllForTail ==
  ASSUME NEW l \in Seq(Hosts), NEW h, AllFor(l, h), l # <<>>
  PROVE  Head(l) = h /\ Head(l) \in Hosts /\ Tail(l) \in Seq(Hosts) /\ AllFor(Tail(l), h)
  BY DEF AllFor

\* One more packet.
LEMMA AllForAppend ==
  ASSUME NEW l \in Seq(Hosts), NEW h \in Hosts, AllFor(l, h)
  PROVE  Append(l, h) \in Seq(Hosts) /\ AllFor(Append(l, h), h)
  BY DEF AllFor

\* The empty cache.
LEMMA ArpInitInv == Arp!ArpInit => ArpInv
  <1> SUFFICES ASSUME Arp!ArpInit PROVE ArpInv
    OBVIOUS
  <1> USE DEF Arp!ArpInit, Arp!Idle
  <1>1. ArpShape
    <2>1. 0 \in Nat /\ <<>> \in Seq(Hosts)
      OBVIOUS
    <2> QED
      BY <2>1 DEF ArpShape, ArpEntries, ArpTasks, RecvPlaces, OutputPlaces, TimerPlaces
  <1>2. ArpPlaces
    BY DEF ArpPlaces
  <1>3. ASSUME NEW i \in Arp!Slots
        PROVE  /\ NullKnown(i, cache[i], recv, output) /\ TimerHas(i, cache[i], timer)
               /\ Clean(i, cache[i], recv, output)
    <2>1. Arp!NoEntry # i
      BY ArpAssumption DEF ArpAssumption, Arp!Slots, Arp!NoEntry
    <2> QED
      <3>1. cache[i].state = Arp!FREE /\ cache[i].list = <<>>
        OBVIOUS
      <3>2. AllFor(cache[i].list, cache[i].ip)
        BY <3>1, AllForNone
      <3>3. recv.ae # i /\ output.ae # i /\ timer.at = "idle"
        BY <2>1
      <3> QED
        BY ONLY <3>1, <3>2, <3>3
           DEF NullKnown, TimerHas, Clean, BothFill, Arp!FREE, Arp!RESOLVED
  <1>4. SlotsSound
    BY <1>3 DEF SlotsSound
  <1>5. Alone
    BY DEF Alone, Arp!Alive
  <1>6. DeadKnown
    BY DEF DeadKnown, Arp!Alive, Arp!NullDeviceOnlyInWindow, Arp!FreedOnlyAtLastRetry
  <1> QED
    BY <1>1, <1>2, <1>4, <1>5, <1>6 DEF ArpInv

-----------------------------------------------------------------------------
(* A step and the slots it does not touch.                                 *)

\* A step touches slot a at most: whoever has another slot stays where it is.
Around(a) ==
    \A i \in Arp!Slots : i # a =>
        /\ cache'[i] = cache[i]
        /\ recv.ae = i \/ recv'.ae = i => recv' = recv
        /\ output.ae = i \/ output'.ae = i => output' = output
        /\ timer'.at \in {"expire", "request"} /\ timer'.i = i => timer' = timer

\* What is known of the other slots stays known.
LEMMA Elsewhere ==
  ASSUME ArpInv, NEW a, Around(a), NEW i \in Arp!Slots, i # a
  PROVE  /\ NullKnown(i, cache'[i], recv', output') /\ TimerHas(i, cache'[i], timer')
         /\ i \notin mixed => Clean(i, cache'[i], recv', output')
  <1>1. /\ NullKnown(i, cache[i], recv, output) /\ TimerHas(i, cache[i], timer)
        /\ i \notin mixed => Clean(i, cache[i], recv, output)
    BY DEF ArpInv, SlotsSound
  <1>2. /\ cache'[i] = cache[i]
        /\ recv.ae = i \/ recv'.ae = i => recv' = recv
        /\ output.ae = i \/ output'.ae = i => output' = output
        /\ timer'.at \in {"expire", "request"} /\ timer'.i = i => timer' = timer
    BY DEF Around
  <1> QED
    BY <1>1, <1>2 DEF NullKnown, TimerHas, Clean, BothFill

\* The history of the slots that were mixed, as ArpNext keeps it.
MixedKept == mixed' = {i \in Arp!Slots : Arp!Mixed(i)' \/ (i \in mixed /\ ~Arp!Fresh(i))}

\* A slot is not mixed after a step if nobody fills it together with
\* another, and it was not before or is allocated afresh.
LEMMA NotMixed ==
  ASSUME MixedKept, NEW i \in Arp!Slots, i \notin mixed'
  PROVE  ~BothFill(i, recv', output') /\ (i \notin mixed \/ Arp!Fresh(i))
  BY DEF MixedKept, Arp!Mixed, BothFill

\* What a step does to the slot it touches.
SlotDone(a) == a \in Arp!Slots =>
    /\ NullKnown(a, cache'[a], recv', output') /\ TimerHas(a, cache'[a], timer')
    /\ a \notin mixed' => Clean(a, cache'[a], recv', output')
    /\ OutHosts = {} => cache'[a].list = <<>>

\* IP output does nothing if there is nobody to send to.
QuietDone == OutHosts = {} => /\ output' = Arp!Idle
                              /\ recv'.at # "send" /\ dead'.why # "freed"

\* A step keeps the invariant if it does so in the slot it touches.
LEMMA ArpTouches ==
  ASSUME ArpInv, MixedKept, NEW a, Around(a), ArpShape', ArpPlaces', ~stray', DeadKnown',
         SlotDone(a), QuietDone
  PROVE  ArpInv'
  <1>1. ASSUME NEW i \in Arp!Slots
        PROVE  /\ NullKnown(i, cache'[i], recv', output') /\ TimerHas(i, cache'[i], timer')
               /\ i \notin mixed' => Clean(i, cache'[i], recv', output')
    <2>1. CASE i = a
      BY <2>1 DEF SlotDone
    <2>2. CASE i # a
      <3>1. cache'[i] = cache[i]
        BY <2>2 DEF Around
      <3>2. ~Arp!Fresh(i)
        BY <3>1 DEF Arp!Fresh, Arp!FREE, Arp!WAITING
      <3> QED
        BY <2>2, <3>2, NotMixed, Elsewhere
    <2> QED
      BY <2>1, <2>2
  <1>2. SlotsSound'
    BY <1>1 DEF SlotsSound
  <1>3. Alone'
    <2> SUFFICES ASSUME OutHosts = {}
                 PROVE  /\ output' = Arp!Idle /\ mixed' = {} /\ recv'.at # "send"
                        /\ dead'.why # "freed" /\ \A i \in Arp!Slots : cache'[i].list = <<>>
      BY DEF Alone
    <2>1. output' = Arp!Idle /\ recv'.at # "send" /\ dead'.why # "freed"
      BY DEF QuietDone
    <2>2. mixed = {} /\ \A i \in Arp!Slots : cache[i].list = <<>>
      BY DEF ArpInv, Alone
    <2>3. output'.ae = Arp!NoEntry
      BY <2>1 DEF Arp!Idle
    <2>4. \A i \in Arp!Slots : i # Arp!NoEntry
      BY ArpAssumption DEF ArpAssumption, Arp!Slots, Arp!NoEntry
    <2>5. mixed' = {}
      BY <2>2, <2>3, <2>4 DEF MixedKept, Arp!Mixed
    <2>6. ASSUME NEW i \in Arp!Slots PROVE cache'[i].list = <<>>
      BY <2>2, <2>6 DEF SlotDone, Around
    <2> QED
      BY <2>1, <2>5, <2>6
  <1> QED
    BY <1>2, <1>3 DEF ArpInv

\* As long as nothing was used that is not there, nothing is claimed of it.
LEMMA StillAlive == ASSUME dead' = Arp!Alive PROVE DeadKnown' /\ dead'.why # "freed"
  BY DEF DeadKnown, Arp!Alive, Arp!NullDeviceOnlyInWindow, Arp!FreedOnlyAtLastRetry

\* A slot is not the absence of one.
LEMMA SlotsAreNumbers == Arp!NoEntry \notin Arp!Slots
  BY ArpAssumption DEF ArpAssumption, Arp!Slots, Arp!NoEntry

\* One entry is written, the others keep their values.
LEMMA OneEntry ==
  ASSUME ArpShape, NEW a \in Arp!Slots, NEW e \in ArpEntries, cache' = [cache EXCEPT ![a] = e]
  PROVE  /\ cache' \in [Arp!Slots -> ArpEntries] /\ cache'[a] = e
         /\ \A i \in Arp!Slots : i # a => cache'[i] = cache[i]
  BY DEF ArpShape

-----------------------------------------------------------------------------
(* arp_recv on the entry it has.                                           *)

\* The receive thread goes on to another place.
LEMMA RecvMoves ==
  ASSUME ArpShape, NEW p \in RecvPlaces, recv' = [recv EXCEPT !.at = p]
  PROVE  /\ recv' \in ArpTasks(RecvPlaces) /\ recv'.at = p
         /\ recv'.ae = recv.ae /\ recv'.host = recv.host /\ recv'.pkb = recv.pkb
  BY DEF ArpShape, ArpTasks

\* It is done with the packet.
LEMMA RecvEnds ==
  ASSUME recv' = Arp!Ending
  PROVE  /\ recv' \in ArpTasks(RecvPlaces) /\ recv'.at = "end"
         /\ recv'.ae = Arp!NoEntry
  BY DEF Arp!Ending, Arp!Idle, ArpTasks, RecvPlaces

RecvBusy == recv.at \in {"update", "flush", "send", "resolve", "fill", "hwaddr"}

\* Who works on an entry has a slot and a host.
LEMMA RecvHas ==
  ASSUME ArpInv, RecvBusy
  PROVE  /\ recv.ae \in Arp!Slots /\ recv.host \in Hosts /\ cache[recv.ae] \in ArpEntries
         /\ NullKnown(recv.ae, cache[recv.ae], recv, output)
         /\ TimerHas(recv.ae, cache[recv.ae], timer)
         /\ recv.ae \notin mixed => Clean(recv.ae, cache[recv.ae], recv, output)
         /\ OutHosts = {} => cache[recv.ae].list = <<>>
  <1>1. recv.ae \in Arp!Slots /\ recv.host \in Hosts
    BY DEF ArpInv, ArpShape, ArpPlaces, ArpTasks, RecvBusy
  <1> QED
    BY <1>1 DEF ArpInv, ArpShape, SlotsSound, Alone

\* arp_recv's assignments leave the retries alone and resolve an entry, if
\* anything; the device is set when the entry is filled.
RecvMay(c, e) == /\ e.retry = c.retry /\ e.state \in {c.state, Arp!RESOLVED}
                 /\ e.dev = "veth" \/ (e.dev = c.dev /\ recv.at # "fill")

\* arp_recv writes to its entry.
LEMMA RecvTouches ==
  ASSUME ArpInv, MixedKept, RecvBusy, UNCHANGED <<next, timer, output>>, ~stray', DeadKnown',
         NEW e \in ArpEntries, cache' = [cache EXCEPT ![recv.ae] = e], RecvMay(cache[recv.ae], e),
         recv' \in ArpTasks(RecvPlaces),
         \/ recv'.ae = recv.ae /\ recv'.host = recv.host /\ recv'.at \notin {"idle", "alloc", "fill", "end"}
         \/ recv'.ae = Arp!NoEntry /\ recv'.at = "end",
         OutHosts = {} => recv'.at # "send" /\ e.list = <<>> /\ dead'.why # "freed",
         recv.ae \notin mixed /\ ~BothFill(recv.ae, recv', output)
            => Clean(recv.ae, e, recv', output)
  PROVE  ArpInv'
  <1>1. /\ recv.ae \in Arp!Slots /\ recv.host \in Hosts /\ cache[recv.ae] \in ArpEntries
        /\ NullKnown(recv.ae, cache[recv.ae], recv, output)
        /\ TimerHas(recv.ae, cache[recv.ae], timer)
    BY RecvHas
  <1>2. /\ cache' \in [Arp!Slots -> ArpEntries] /\ cache'[recv.ae] = e
        /\ \A i \in Arp!Slots : i # recv.ae => cache'[i] = cache[i]
    BY <1>1, OneEntry DEF ArpInv
  <1>3. ArpShape' /\ ArpPlaces'
    BY <1>1, <1>2, SlotsAreNumbers DEF ArpInv, ArpShape, ArpPlaces
  <1>4. Around(recv.ae)
    BY <1>2, SlotsAreNumbers DEF Around
  <1>5. ~Arp!Fresh(recv.ae)
    BY <1>1, <1>2 DEF RecvMay, Arp!Fresh, Arp!FREE, Arp!WAITING, Arp!RESOLVED
  <1>6. recv.ae \notin mixed' => Clean(recv.ae, e, recv', output')
    BY <1>1, <1>5, NotMixed
  <1>7. TimerHas(recv.ae, e, timer')
    BY <1>1 DEF RecvMay, TimerHas, Arp!FREE, Arp!WAITING, Arp!RESOLVED
  <1>8. NullKnown(recv.ae, e, recv', output')
    BY <1>1 DEF RecvMay, NullKnown, Arp!NULL
  <1>9. SlotDone(recv.ae)
    BY <1>2, <1>6, <1>7, <1>8 DEF SlotDone
  <1>10. QuietDone
    BY DEF QuietDone, ArpInv, Alone
  <1> QED
    BY <1>3, <1>4, <1>9, <1>10, ArpTouches

\* The hardware address of a packet's sender is that of the entry's host.
LEMMA RecvUpdateInv ==
  ASSUME ArpInv, dead = Arp!Alive, MixedKept, Arp!RecvUpdate
  PROVE  ArpInv'
  <1> DEFINE c == cache[recv.ae]
             e == [c EXCEPT !.hw = recv.host]
             p == IF c.state = Arp!WAITING THEN "flush" ELSE "resolve"
  <1>1. /\ recv.at = "update" /\ RecvBusy /\ cache' = [cache EXCEPT ![recv.ae] = e]
        /\ recv' = [recv EXCEPT !.at = p] /\ UNCHANGED <<next, timer, output, stray, dead>>
    BY DEF Arp!RecvUpdate, RecvBusy
  <1>2. /\ recv.ae \in Arp!Slots /\ recv.host \in Hosts /\ c \in ArpEntries
        /\ recv.ae \notin mixed => Clean(recv.ae, c, recv, output)
        /\ OutHosts = {} => c.list = <<>>
    BY <1>1, RecvHas
  <1>3. p \in RecvPlaces /\ p \in {"flush", "resolve"}
    BY DEF RecvPlaces
  <1> HIDE DEF c, p
  <1>4. /\ e \in ArpEntries /\ e.state = c.state /\ e.dev = c.dev /\ e.retry = c.retry
        /\ e.ip = c.ip /\ e.hw = recv.host /\ e.list = c.list
    BY <1>2 DEF ArpEntries
  <1> HIDE DEF e
  <1>5. /\ recv' \in ArpTasks(RecvPlaces) /\ recv'.at = p
        /\ recv'.ae = recv.ae /\ recv'.host = recv.host
    BY <1>1, <1>3, RecvMoves DEF ArpInv
  <1>6. ASSUME recv.ae \notin mixed, ~BothFill(recv.ae, recv', output)
        PROVE  Clean(recv.ae, e, recv', output)
    BY <1>1, <1>2, <1>3, <1>4, <1>5, <1>6 DEF Clean, RecvKnows, OutputKnows
  <1>7. RecvMay(c, e)
    BY <1>1, <1>4 DEF RecvMay
  <1>8. ~stray' /\ DeadKnown' /\ dead'.why # "freed"
    BY <1>1, StillAlive DEF ArpInv
  <1> QED
    BY <1>1, <1>2, <1>3, <1>4, <1>5, <1>6, <1>7, <1>8, RecvTouches DEF c

\* It looks at the first pending packet, which is for that host, or resolves.
LEMMA RecvFlushInv ==
  ASSUME ArpInv, dead = Arp!Alive, MixedKept, Arp!RecvFlush
  PROVE  ArpInv'
  <1> DEFINE c == cache[recv.ae]
  <1>1. /\ recv.at = "flush" /\ RecvBusy /\ UNCHANGED <<cache, next, timer, output, stray, dead>>
        /\ recv' = IF c.list = <<>> THEN [recv EXCEPT !.at = "resolve"]
                   ELSE [recv EXCEPT !.at = "send", !.pkb = Head(c.list)]
    BY DEF Arp!RecvFlush, RecvBusy
  <1>2. /\ recv.ae \in Arp!Slots /\ recv.host \in Hosts /\ c \in ArpEntries
        /\ recv.ae \notin mixed => Clean(recv.ae, c, recv, output)
        /\ OutHosts = {} => c.list = <<>>
    BY <1>1, RecvHas
  <1>3. cache' = [cache EXCEPT ![recv.ae] = c]
    BY <1>1, <1>2 DEF ArpInv, ArpShape
  <1> HIDE DEF c
  <1>4. c.list \in Seq(Hosts)
    BY <1>2 DEF ArpEntries
  <1>5. RecvMay(c, c)
    BY <1>1 DEF RecvMay
  <1>6. ~stray' /\ DeadKnown' /\ dead'.why # "freed"
    BY <1>1, StillAlive DEF ArpInv
  <1>7. CASE c.list = <<>>
    <2>1. /\ recv' \in ArpTasks(RecvPlaces) /\ recv'.at = "resolve"
          /\ recv'.ae = recv.ae /\ recv'.host = recv.host
      <3>1. "resolve" \in RecvPlaces /\ recv' = [recv EXCEPT !.at = "resolve"]
        BY <1>1, <1>7 DEF RecvPlaces
      <3> QED
        BY <3>1, RecvMoves DEF ArpInv
    <2>2. ASSUME recv.ae \notin mixed, ~BothFill(recv.ae, recv', output)
          PROVE  Clean(recv.ae, c, recv', output)
      BY <1>1, <1>2, <2>1, <2>2 DEF Clean, RecvKnows, OutputKnows
    <2> QED
      BY <1>1, <1>2, <1>3, <1>5, <1>6, <1>7, <2>1, <2>2, RecvTouches DEF c
  <1>8. CASE c.list # <<>>
    <2>1. Head(c.list) \in Hosts
      BY <1>4, <1>8
    <2>2. PICK h : h = Head(c.list)
      OBVIOUS
    <2>3. recv' = [recv EXCEPT !.at = "send", !.pkb = h]
      BY <1>1, <1>8, <2>2
    <2>4. /\ recv' \in ArpTasks(RecvPlaces) /\ recv'.at = "send"
          /\ recv'.ae = recv.ae /\ recv'.host = recv.host /\ recv'.pkb = h
      BY <2>1, <2>2, <2>3 DEF ArpInv, ArpShape, ArpTasks, RecvPlaces
    <2>5. ASSUME recv.ae \notin mixed, ~BothFill(recv.ae, recv', output)
          PROVE  Clean(recv.ae, c, recv', output)
      <3>1. Clean(recv.ae, c, recv, output)
        BY <1>2, <2>5
      <3>2. c.ip = recv.host
        BY <1>1, <3>1 DEF Clean, RecvKnows
      <3>3. h = recv.host
        BY <1>4, <1>8, <2>2, <3>1, <3>2, AllForTail DEF Clean
      <3> QED
        BY <1>1, <2>4, <2>5, <3>1, <3>3 DEF Clean, RecvKnows, OutputKnows
    <2> QED
      BY <1>1, <1>2, <1>3, <1>5, <1>6, <1>8, <2>4, <2>5, RecvTouches DEF c
  <1> QED
    BY <1>7, <1>8

\* It sends that packet: to the host it is for, unless the entry was mixed
\* or the timer dropped the packet with the last retry.
LEMMA RecvSendInv ==
  ASSUME ArpInv, dead = Arp!Alive, MixedKept, Arp!RecvSend
  PROVE  ArpInv'
  <1> DEFINE c == cache[recv.ae]
             l == IF c.list = <<>> THEN c.list ELSE Tail(c.list)
             e == [c EXCEPT !.list = l]
  <1>1. /\ recv.at = "send" /\ RecvBusy /\ cache' = [cache EXCEPT ![recv.ae] = e]
        /\ UNCHANGED <<next, timer, output>>
        /\ recv' = [recv EXCEPT !.at = "flush", !.pkb = Arp!NULL]
        /\ stray' = (stray \/ (recv.pkb \notin {Arp!Freed, c.hw} /\ recv.ae \notin mixed))
        /\ dead' = IF recv.pkb = Arp!Freed THEN [why |-> "freed", slot |-> recv.ae]
                   ELSE IF c.dev = Arp!NULL THEN [why |-> "null", slot |-> recv.ae] ELSE dead
    BY DEF Arp!RecvSend, RecvBusy
  <1>2. /\ recv.ae \in Arp!Slots /\ recv.host \in Hosts /\ c \in ArpEntries
        /\ NullKnown(recv.ae, c, recv, output)
        /\ recv.ae \notin mixed => Clean(recv.ae, c, recv, output)
    BY <1>1, RecvHas
  <1>3. OutHosts # {} /\ ~stray
    BY <1>1 DEF ArpInv, Alone
  <1> HIDE DEF c
  <1>4. c.list \in Seq(Hosts)
    BY <1>2 DEF ArpEntries
  <1>5. l \in Seq(Hosts) /\ (l = <<>> \/ (c.list # <<>> /\ l = Tail(c.list)))
    BY <1>4
  <1>6. AllFor(c.list, c.ip) => AllFor(l, c.ip)
    BY <1>4, <1>5, AllForTail, AllForNone
  <1> HIDE DEF l
  <1>7. /\ e \in ArpEntries /\ e.state = c.state /\ e.dev = c.dev /\ e.retry = c.retry
        /\ e.ip = c.ip /\ e.hw = c.hw /\ e.list = l
    BY <1>2, <1>5 DEF ArpEntries
  <1> HIDE DEF e
  <1>8. /\ recv' \in ArpTasks(RecvPlaces) /\ recv'.at = "flush"
        /\ recv'.ae = recv.ae /\ recv'.host = recv.host
    BY <1>1 DEF ArpInv, ArpShape, ArpTasks, RecvPlaces
  <1>9. recv.ae \notin mixed => /\ c.hw = recv.host
                                /\ recv.pkb = recv.host \/ (recv.pkb = Arp!Freed /\ c.retry < 0)
    BY <1>1, <1>2 DEF Clean, RecvKnows
  <1>10. ~stray'
    <2>1. ~(recv.pkb \notin {Arp!Freed, c.hw} /\ recv.ae \notin mixed)
      BY <1>9
    <2> QED
      BY <1>1, <1>3, <2>1, Zenon
  <1>11. ASSUME recv.ae \notin mixed, ~BothFill(recv.ae, recv', output)
         PROVE  Clean(recv.ae, e, recv', output)
    <2>1. Clean(recv.ae, c, recv, output)
      BY <1>2, <1>11
    <2>2. output.ae = recv.ae => output.at # "fill"
      BY <1>8, <1>11 DEF BothFill
    <2> QED
      BY <1>1, <1>6, <1>7, <1>8, <1>11, <2>1, <2>2 DEF Clean, RecvKnows, OutputKnows
  <1>12. RecvMay(c, e)
    BY <1>1, <1>7 DEF RecvMay
  <1>13. DeadKnown'
    <2>1. cache'[recv.ae] = e
      BY <1>1, <1>2, <1>7, OneEntry DEF ArpInv
    <2>2. CASE recv.pkb = Arp!Freed
      <3>1. dead'.why = "freed" /\ dead'.slot = recv.ae
        BY <1>1, <2>2
      <3>2. CASE recv.ae \in mixed
        <4>1. ~Arp!Fresh(recv.ae)
          BY <1>7, <2>1 DEF Arp!Fresh, Arp!FREE, Arp!WAITING, c
        <4>2. recv.ae \in mixed'
          BY <1>2, <3>2, <4>1 DEF MixedKept
        <4> QED
          BY <3>1, <4>2 DEF DeadKnown, Arp!NullDeviceOnlyInWindow, Arp!FreedOnlyAtLastRetry
      <3>3. CASE recv.ae \notin mixed
        <4>1. recv.host # Arp!Freed
          BY <1>2, ArpAssumption DEF ArpAssumption, Arp!Freed
        <4>2. e.retry < 0
          BY <1>7, <1>9, <2>2, <3>3, <4>1
        <4> QED
          BY <2>1, <3>1, <4>2 DEF DeadKnown, Arp!NullDeviceOnlyInWindow, Arp!FreedOnlyAtLastRetry
      <3> QED
        BY <3>2, <3>3
    <2>3. CASE recv.pkb # Arp!Freed /\ c.dev = Arp!NULL
      <3>1. dead'.why = "null" /\ dead'.slot = recv.ae
        BY <1>1, <2>3
      <3>2. output.at = "fill" /\ output.ae = recv.ae
        BY <1>1, <1>2, <2>3 DEF NullKnown
      <3> QED
        BY <1>1, <3>1, <3>2 DEF DeadKnown, Arp!NullDeviceOnlyInWindow, Arp!FreedOnlyAtLastRetry
    <2>4. CASE recv.pkb # Arp!Freed /\ c.dev # Arp!NULL
      BY <1>1, <2>4, StillAlive
    <2> QED
      BY <2>2, <2>3, <2>4
  <1> QED
    BY <1>1, <1>3, <1>7, <1>8, <1>10, <1>11, <1>12, <1>13, RecvTouches DEF c

\* What RecvResolve's assignments leave of the entry.
LEMMA ResolvedEntry ==
  ASSUME NEW c \in ArpEntries, NEW e, e = [c EXCEPT !.state = Arp!RESOLVED, !.ttl = Timeout]
  PROVE  /\ e \in ArpEntries /\ e.state = Arp!RESOLVED /\ e.dev = c.dev /\ e.retry = c.retry
         /\ e.ip = c.ip /\ e.hw = c.hw /\ e.list = c.list
  <1>1. PICK a : a = [c EXCEPT !.state = Arp!RESOLVED]
    OBVIOUS
  <1>2. /\ a \in ArpEntries /\ a.state = Arp!RESOLVED /\ a.dev = c.dev /\ a.retry = c.retry
        /\ a.ip = c.ip /\ a.hw = c.hw /\ a.list = c.list
    BY <1>1 DEF ArpEntries
  <1>3. e = [a EXCEPT !.ttl = Timeout] /\ Timeout \in Int
    BY <1>1, ArpAssumption DEF ArpAssumption
  <1> QED
    BY <1>2, <1>3 DEF ArpEntries

\* The entry is resolved: it holds the address of its host.
LEMMA RecvResolveInv ==
  ASSUME ArpInv, dead = Arp!Alive, MixedKept, Arp!RecvResolve
  PROVE  ArpInv'
  <1> DEFINE c == cache[recv.ae]
             e == [c EXCEPT !.state = Arp!RESOLVED, !.ttl = Timeout]
  <1>1. /\ recv.at = "resolve" /\ RecvBusy /\ cache' = [cache EXCEPT ![recv.ae] = e]
        /\ recv' = Arp!Ending /\ UNCHANGED <<next, timer, output, stray, dead>>
    BY DEF Arp!RecvResolve, RecvBusy
  <1>2. /\ recv.ae \in Arp!Slots /\ recv.host \in Hosts /\ c \in ArpEntries
        /\ recv.ae \notin mixed => Clean(recv.ae, c, recv, output)
        /\ OutHosts = {} => c.list = <<>>
    BY <1>1, RecvHas
  <1> HIDE DEF c
  <1>3. /\ e \in ArpEntries /\ e.state = Arp!RESOLVED /\ e.dev = c.dev /\ e.retry = c.retry
        /\ e.ip = c.ip /\ e.hw = c.hw /\ e.list = c.list
    BY <1>2, ResolvedEntry
  <1> HIDE DEF e
  <1>4. /\ recv' \in ArpTasks(RecvPlaces) /\ recv'.at = "end" /\ recv'.ae = Arp!NoEntry
    BY <1>1, RecvEnds
  <1>5. ASSUME recv.ae \notin mixed PROVE Clean(recv.ae, e, recv', output)
    <2>1. recv'.ae # recv.ae
      BY <1>2, <1>4, SlotsAreNumbers
    <2> QED
      BY <1>1, <1>2, <1>3, <1>5, <2>1 DEF Clean, RecvKnows, OutputKnows, BothFill
  <1>6. RecvMay(c, e)
    BY <1>1, <1>3 DEF RecvMay
  <1>7. ~stray' /\ DeadKnown' /\ dead'.why # "freed"
    BY <1>1, StillAlive DEF ArpInv
  <1> QED
    BY <1>1, <1>2, <1>3, <1>4, <1>5, <1>6, <1>7, RecvTouches DEF c

\* RecvFill's assignments to the entry it allocated.
Filled(c, h) == [c EXCEPT !.dev = "veth", !.ttl = Timeout, !.ip = h, !.state = Arp!RESOLVED]

\* What they leave of the entry.
LEMMA FilledEntry ==
  ASSUME NEW c \in ArpEntries, NEW h \in Hosts, NEW e, e = Filled(c, h)
  PROVE  /\ e \in ArpEntries /\ e.state = Arp!RESOLVED /\ e.dev = "veth"
         /\ e.ip = h /\ e.hw = c.hw /\ e.list = c.list /\ e.retry = c.retry
  <1>1. PICK a : a = [c EXCEPT !.dev = "veth"]
    OBVIOUS
  <1>2. a \in ArpEntries /\ a.dev = "veth" /\ a.hw = c.hw /\ a.list = c.list /\ a.retry = c.retry
    BY <1>1 DEF ArpEntries
  <1>3. PICK b : b = [a EXCEPT !.ttl = Timeout]
    OBVIOUS
  <1>4. b \in ArpEntries /\ b.dev = "veth" /\ b.hw = c.hw /\ b.list = c.list /\ b.retry = c.retry
    BY <1>2, <1>3, ArpAssumption DEF ArpEntries, ArpAssumption
  <1>5. PICK d : d = [b EXCEPT !.ip = h]
    OBVIOUS
  <1>6. /\ d \in ArpEntries /\ d.dev = "veth" /\ d.hw = c.hw /\ d.list = c.list /\ d.ip = h
        /\ d.retry = c.retry
    BY <1>4, <1>5 DEF ArpEntries
  <1>7. e = [d EXCEPT !.state = Arp!RESOLVED]
    BY <1>1, <1>3, <1>5 DEF Filled
  <1> QED
    BY <1>6, <1>7 DEF ArpEntries

\* arp_cache_insert resolves before it copies the address: the window "hwaddr".
LEMMA RecvFillInv ==
  ASSUME ArpInv, dead = Arp!Alive, MixedKept, Arp!RecvFill
  PROVE  ArpInv'
  <1> DEFINE c == cache[recv.ae]
             e == Filled(c, recv.host)
  <1>1. /\ recv.at = "fill" /\ RecvBusy /\ cache' = [cache EXCEPT ![recv.ae] = e]
        /\ recv' = [recv EXCEPT !.at = "hwaddr"] /\ UNCHANGED <<next, timer, output, stray, dead>>
    BY DEF Arp!RecvFill, RecvBusy, Filled
  <1>2. /\ recv.ae \in Arp!Slots /\ recv.host \in Hosts /\ c \in ArpEntries
        /\ recv.ae \notin mixed => Clean(recv.ae, c, recv, output)
        /\ OutHosts = {} => c.list = <<>>
    BY <1>1, RecvHas
  <1> HIDE DEF c
  <1>3. /\ e \in ArpEntries /\ e.state = Arp!RESOLVED /\ e.dev = "veth" /\ e.retry = c.retry
        /\ e.ip = recv.host /\ e.hw = c.hw /\ e.list = c.list
    BY <1>2, FilledEntry
  <1> HIDE DEF e
  <1>4. /\ recv' \in ArpTasks(RecvPlaces) /\ recv'.at = "hwaddr"
        /\ recv'.ae = recv.ae /\ recv'.host = recv.host
    <2>1. "hwaddr" \in RecvPlaces
      BY DEF RecvPlaces
    <2> QED
      BY <1>1, <2>1, RecvMoves DEF ArpInv
  <1>5. ASSUME recv.ae \notin mixed, ~BothFill(recv.ae, recv', output)
        PROVE  Clean(recv.ae, e, recv', output)
    <2>1. c.list = <<>> /\ output.ae # recv.ae
      BY <1>1, <1>2, <1>5 DEF Clean, RecvKnows, BothFill
    <2>2. AllFor(e.list, e.ip)
      BY <1>3, <2>1, AllForNone
    <2> QED
      BY <1>3, <1>4, <1>5, <2>1, <2>2 DEF Clean, RecvKnows
  <1>6. RecvMay(c, e)
    BY <1>1, <1>3 DEF RecvMay
  <1>7. ~stray' /\ DeadKnown' /\ dead'.why # "freed"
    BY <1>1, StillAlive DEF ArpInv
  <1> QED
    BY <1>1, <1>2, <1>3, <1>4, <1>5, <1>6, <1>7, RecvTouches DEF c

\* The copy closes that window.
LEMMA RecvHwaddrInv ==
  ASSUME ArpInv, dead = Arp!Alive, MixedKept, Arp!RecvHwaddr
  PROVE  ArpInv'
  <1> DEFINE c == cache[recv.ae]
             e == [c EXCEPT !.hw = recv.host]
  <1>1. /\ recv.at = "hwaddr" /\ RecvBusy /\ cache' = [cache EXCEPT ![recv.ae] = e]
        /\ recv' = Arp!Ending /\ UNCHANGED <<next, timer, output, stray, dead>>
    BY DEF Arp!RecvHwaddr, RecvBusy
  <1>2. /\ recv.ae \in Arp!Slots /\ recv.host \in Hosts /\ c \in ArpEntries
        /\ recv.ae \notin mixed => Clean(recv.ae, c, recv, output)
        /\ OutHosts = {} => c.list = <<>>
    BY <1>1, RecvHas
  <1> HIDE DEF c
  <1>3. /\ e \in ArpEntries /\ e.state = c.state /\ e.dev = c.dev /\ e.retry = c.retry
        /\ e.ip = c.ip /\ e.hw = recv.host /\ e.list = c.list
    BY <1>2 DEF ArpEntries
  <1> HIDE DEF e
  <1>4. /\ recv' \in ArpTasks(RecvPlaces) /\ recv'.at = "end" /\ recv'.ae = Arp!NoEntry
    BY <1>1, RecvEnds
  <1>5. ASSUME recv.ae \notin mixed PROVE Clean(recv.ae, e, recv', output)
    <2>1. recv'.ae # recv.ae
      BY <1>2, <1>4, SlotsAreNumbers
    <2>2. Clean(recv.ae, c, recv, output)
      BY <1>2, <1>5
    <2>3. e.hw = e.ip /\ output.ae # recv.ae
      BY <1>1, <1>3, <2>2 DEF Clean, RecvKnows, BothFill
    <2> QED
      BY <1>3, <2>1, <2>2, <2>3 DEF Clean, BothFill
  <1>6. RecvMay(c, e)
    BY <1>1, <1>3 DEF RecvMay
  <1>7. ~stray' /\ DeadKnown' /\ dead'.why # "freed"
    BY <1>1, StillAlive DEF ArpInv
  <1> QED
    BY <1>1, <1>2, <1>3, <1>4, <1>5, <1>6, <1>7, RecvTouches DEF c

-----------------------------------------------------------------------------
(* A slot is looked up or allocated.                                       *)

\* A step that writes to no entry and changes no device use.
LEMMA CacheKept ==
  ASSUME ArpInv, dead = Arp!Alive, MixedKept, UNCHANGED <<cache, next, stray, dead>>,
         NEW a, Around(a), ArpShape', ArpPlaces', SlotDone(a), QuietDone
  PROVE  ArpInv'
  <1>1. ~stray' /\ DeadKnown'
    BY StillAlive DEF ArpInv
  <1> QED
    BY <1>1, ArpTouches

\* The receive thread gets an entry of the host that sent the packet.
LEMMA RecvLookupInv ==
  ASSUME ArpInv, dead = Arp!Alive, MixedKept, NEW h \in Hosts, NEW op \in {"request", "reply"},
         Arp!RecvLookup(h, op)
  PROVE  ArpInv'
  <1> DEFINE ae == Arp!arp_cache_lookup(h)
  <1>1. /\ recv = Arp!Idle /\ UNCHANGED <<cache, next, timer, output, stray, dead>>
        /\ recv' = IF ae = Arp!NoEntry /\ op = "reply" THEN Arp!Ending
                   ELSE [at |-> IF ae # Arp!NoEntry THEN "update" ELSE "alloc",
                         host |-> h, ae |-> ae, pkb |-> Arp!NULL]
    BY DEF Arp!RecvLookup
  <1>2. \/ ae = Arp!NoEntry
        \/ ae \in Arp!Slots /\ cache[ae].state # Arp!FREE /\ cache[ae].ip = h
    BY LookupFinds
  <1> HIDE DEF ae
  <1>3. /\ recv' \in ArpTasks(RecvPlaces)
        /\ \/ recv'.at = "update" /\ recv'.ae = ae /\ ae \in Arp!Slots /\ recv'.host = h
           \/ recv'.at = "alloc" /\ recv'.ae = Arp!NoEntry /\ ae = Arp!NoEntry /\ recv'.host = h
           \/ recv'.at = "end" /\ recv'.ae = Arp!NoEntry /\ ae = Arp!NoEntry
    <2>1. CASE ae = Arp!NoEntry /\ op = "reply"
      BY <1>1, <2>1, RecvEnds
    <2>2. CASE ae # Arp!NoEntry
      BY <1>1, <1>2, <2>2 DEF ArpTasks, RecvPlaces
    <2>3. CASE ae = Arp!NoEntry /\ op # "reply"
      BY <1>1, <1>2, <2>3 DEF ArpTasks, RecvPlaces
    <2> QED
      BY <2>1, <2>2, <2>3
  <1>4. recv.at = "idle" /\ recv.ae = Arp!NoEntry
    BY <1>1 DEF Arp!Idle
  <1>5. Around(ae)
    BY <1>1, <1>3, <1>4, SlotsAreNumbers DEF Around
  <1>6. ArpShape' /\ ArpPlaces'
    BY <1>1, <1>3, SlotsAreNumbers DEF ArpInv, ArpShape, ArpPlaces
  <1>7. ASSUME ae \in Arp!Slots
        PROVE  /\ NullKnown(ae, cache[ae], recv', output) /\ TimerHas(ae, cache[ae], timer)
               /\ ae \notin mixed' => Clean(ae, cache[ae], recv', output)
               /\ OutHosts = {} => cache[ae].list = <<>>
    <2>1. /\ NullKnown(ae, cache[ae], recv, output) /\ TimerHas(ae, cache[ae], timer)
          /\ ae \notin mixed => Clean(ae, cache[ae], recv, output)
          /\ OutHosts = {} => cache[ae].list = <<>>
      BY <1>7 DEF ArpInv, SlotsSound, Alone
    <2>2. /\ recv'.at = "update" /\ recv'.host = h /\ cache[ae].state # Arp!FREE
          /\ cache[ae].ip = h /\ recv.ae # ae
      BY <1>2, <1>3, <1>4, <1>7, SlotsAreNumbers
    <2>3. NullKnown(ae, cache[ae], recv', output)
      BY <1>4, <2>1, <2>2 DEF NullKnown
    <2>4. ~Arp!Fresh(ae)
      BY <2>2 DEF Arp!Fresh
    <2>5. ASSUME ae \notin mixed' PROVE Clean(ae, cache[ae], recv', output)
      <3>1. ae \notin mixed /\ ~BothFill(ae, recv', output')
        BY <1>7, <2>4, <2>5, NotMixed
      <3> QED
        BY <1>1, <2>1, <2>2, <3>1 DEF Clean, RecvKnows
    <2> QED
      BY <2>1, <2>3, <2>5
  <1>8. SlotDone(ae)
    BY <1>1, <1>7 DEF SlotDone
  <1>9. QuietDone
    BY <1>1, <1>3, StillAlive DEF QuietDone, ArpInv, Alone
  <1> QED
    BY <1>1, <1>5, <1>6, <1>8, <1>9, CacheKept

\* It is done with the packet and its entry.
LEMMA RecvEndInv ==
  ASSUME ArpInv, dead = Arp!Alive, MixedKept, Arp!RecvEnd
  PROVE  ArpInv'
  <1>1. /\ recv.at = "end" /\ recv' = Arp!Idle
        /\ UNCHANGED <<cache, next, timer, output, stray, dead>>
    BY DEF Arp!RecvEnd
  <1>2. /\ recv.ae = Arp!NoEntry /\ recv'.ae = Arp!NoEntry /\ recv'.at = "idle"
        /\ recv' \in ArpTasks(RecvPlaces)
    BY <1>1 DEF ArpInv, ArpPlaces, Arp!Idle, ArpTasks, RecvPlaces
  <1>3. Around(Arp!NoEntry)
    BY <1>1, <1>2, SlotsAreNumbers DEF Around
  <1>4. ArpShape' /\ ArpPlaces'
    BY <1>1, <1>2 DEF ArpInv, ArpShape, ArpPlaces
  <1>5. SlotDone(Arp!NoEntry)
    BY SlotsAreNumbers DEF SlotDone
  <1>6. QuietDone
    BY <1>1, <1>2, StillAlive DEF QuietDone, ArpInv, Alone
  <1> QED
    BY <1>1, <1>3, <1>4, <1>5, <1>6, CacheKept

\* arp_entry_alloc's assignments to one entry.
Allocated(c) == [c EXCEPT !.dev = Arp!NULL, !.retry = Retries, !.ttl = WaitTime,
                          !.state = Arp!WAITING, !.list = <<>>]

\* What it leaves of the entry.
LEMMA AllocatedEntry ==
  ASSUME NEW c \in ArpEntries, NEW e, e = Allocated(c)
  PROVE  /\ e \in ArpEntries /\ e.state = Arp!WAITING /\ e.dev = Arp!NULL
         /\ e.ip = c.ip /\ e.hw = c.hw /\ e.list = <<>>
  <1>1. PICK x : x = [c EXCEPT !.dev = Arp!NULL]
    OBVIOUS
  <1>2. x \in ArpEntries /\ x.dev = Arp!NULL /\ x.ip = c.ip /\ x.hw = c.hw
    BY <1>1 DEF ArpEntries
  <1>3. PICK y : y = [x EXCEPT !.retry = Retries]
    OBVIOUS
  <1>4. y \in ArpEntries /\ y.dev = Arp!NULL /\ y.ip = c.ip /\ y.hw = c.hw
    BY <1>2, <1>3, ArpAssumption DEF ArpEntries, ArpAssumption
  <1>5. PICK z : z = [y EXCEPT !.ttl = WaitTime]
    OBVIOUS
  <1>6. z \in ArpEntries /\ z.dev = Arp!NULL /\ z.ip = c.ip /\ z.hw = c.hw
    BY <1>4, <1>5, ArpAssumption DEF ArpEntries, ArpAssumption
  <1>7. PICK w : w = [z EXCEPT !.state = Arp!WAITING]
    OBVIOUS
  <1>8. w \in ArpEntries /\ w.dev = Arp!NULL /\ w.ip = c.ip /\ w.hw = c.hw /\ w.state = Arp!WAITING
    BY <1>6, <1>7 DEF ArpEntries
  <1>9. e = [w EXCEPT !.list = <<>>]
    BY <1>1, <1>3, <1>5, <1>7 DEF Allocated
  <1>10. <<>> \in Seq(Hosts)
    OBVIOUS
  <1> QED
    BY <1>8, <1>9, <1>10 DEF ArpEntries

\* Whoever allocates a slot, r afterwards, is about to fill it; the other one,
\* o, may have the slot still, and then it is mixed.
LEMMA AllocatedClean ==
  ASSUME NEW a, NEW e, e.state = Arp!WAITING, e.list = <<>>, NEW r, NEW o,
         ~BothFill(a, r, o), \/ r.at = "fill" /\ r.ae = a
                             \/ o.at = "fill" /\ o.ae = a
  PROVE  Clean(a, e, r, o)
  <1>1. AllFor(e.list, e.ip)
    BY AllForNone
  <1> QED
    BY <1>1 DEF Clean, BothFill, RecvKnows, OutputKnows, Arp!WAITING, Arp!RESOLVED

\* A slot is allocated, for arp_recv or for IP output.
LEMMA AllocInv ==
  ASSUME ArpInv, dead = Arp!Alive, MixedKept, NEW a \in Arp!Slots, cache[a].state = Arp!FREE,
         Arp!arp_entry_alloc(a), Around(a), ArpPlaces',
         recv' \in ArpTasks(RecvPlaces), output' \in ArpTasks(OutputPlaces),
         UNCHANGED <<timer, stray, dead>>, QuietDone,
         \/ recv'.at = "fill" /\ recv'.ae = a
         \/ output'.at = "fill" /\ output'.ae = a
  PROVE  ArpInv'
  <1> DEFINE e == Allocated(cache[a])
  <1>1. cache' = [cache EXCEPT ![a] = e] /\ next' = (a + 1) % CacheSize /\ cache[a] \in ArpEntries
    BY DEF Arp!arp_entry_alloc, Allocated, ArpInv, ArpShape
  <1>2. /\ e \in ArpEntries /\ e.state = Arp!WAITING /\ e.dev = Arp!NULL
        /\ e.ip = cache[a].ip /\ e.hw = cache[a].hw /\ e.list = <<>>
    BY <1>1, AllocatedEntry
  <1> HIDE DEF e
  <1>3. cache' \in [Arp!Slots -> ArpEntries] /\ cache'[a] = e
    BY <1>1, <1>2, OneEntry DEF ArpInv
  <1>4. next' \in Nat
    BY <1>1, ArpAssumption DEF ArpAssumption, Arp!Slots
  <1>5. ArpShape'
    BY <1>3, <1>4 DEF ArpInv, ArpShape
  <1>6. NullKnown(a, e, recv', output')
    BY DEF NullKnown
  <1>7. TimerHas(a, e, timer')
    BY DEF TimerHas, ArpInv, SlotsSound
  <1>8. a \notin mixed' => Clean(a, e, recv', output')
    BY <1>2, NotMixed, AllocatedClean
  <1>9. SlotDone(a)
    BY <1>2, <1>3, <1>6, <1>7, <1>8 DEF SlotDone
  <1>10. ~stray' /\ DeadKnown'
    BY StillAlive DEF ArpInv
  <1> QED
    BY <1>5, <1>9, <1>10, ArpTouches

\* arp_cache_insert takes a free slot, or gives up.
LEMMA RecvAllocInv ==
  ASSUME ArpInv, dead = Arp!Alive, MixedKept, Arp!RecvAlloc
  PROVE  ArpInv'
  <1> DEFINE a == Arp!FirstFree
  <1>1. /\ recv.at = "alloc" /\ recv.ae = Arp!NoEntry /\ recv.host \in Hosts
        /\ UNCHANGED <<timer, output, stray, dead>> /\ ArpShape /\ ArpPlaces
    BY DEF ArpInv, ArpPlaces, Arp!RecvAlloc
  <1>2. a = Arp!NoEntry \/ (a \in Arp!Slots /\ cache[a].state = Arp!FREE)
    BY <1>1, FirstFreeFinds DEF ArpShape
  <1>3. IF a = Arp!NoEntry
        THEN recv' = Arp!Ending /\ UNCHANGED <<cache, next>>
        ELSE recv' = [recv EXCEPT !.at = "fill", !.ae = a] /\ Arp!arp_entry_alloc(a)
    BY DEF Arp!RecvAlloc
  <1> HIDE DEF a
  <1>4. CASE a = Arp!NoEntry
    <2>1. /\ recv' \in ArpTasks(RecvPlaces) /\ recv'.at = "end" /\ recv'.ae = Arp!NoEntry
          /\ UNCHANGED <<cache, next>>
      BY <1>3, <1>4, RecvEnds
    <2>2. Around(Arp!NoEntry)
      BY <1>1, <2>1, SlotsAreNumbers DEF Around
    <2>3. ArpShape' /\ ArpPlaces'
      BY <1>1, <2>1 DEF ArpShape, ArpPlaces
    <2>4. SlotDone(Arp!NoEntry)
      BY SlotsAreNumbers DEF SlotDone
    <2>5. QuietDone
      BY <1>1, <2>1, StillAlive DEF QuietDone, ArpInv, Alone
    <2> QED
      BY <1>1, <2>1, <2>2, <2>3, <2>4, <2>5, CacheKept
  <1>5. CASE a # Arp!NoEntry
    <2>1. /\ recv' = [recv EXCEPT !.at = "fill", !.ae = a] /\ Arp!arp_entry_alloc(a)
          /\ a \in Arp!Slots /\ cache[a].state = Arp!FREE
      BY <1>2, <1>3, <1>5
    <2>2. /\ recv' \in ArpTasks(RecvPlaces) /\ recv'.at = "fill" /\ recv'.ae = a
          /\ recv'.host = recv.host
      BY <1>1, <2>1 DEF ArpShape, ArpTasks, RecvPlaces
    <2>3. \A i \in Arp!Slots : i # a => cache'[i] = cache[i]
      BY <1>1, <2>1 DEF Arp!arp_entry_alloc, ArpShape
    <2>4. Around(a)
      BY <1>1, <2>2, <2>3, SlotsAreNumbers DEF Around
    <2>5. ArpPlaces'
      BY <1>1, <2>1, <2>2, SlotsAreNumbers DEF ArpPlaces
    <2>6. QuietDone
      BY <1>1, <2>2, StillAlive DEF QuietDone, ArpInv, Alone
    <2>7. output' \in ArpTasks(OutputPlaces)
      BY <1>1 DEF ArpShape
    <2> QED
      BY <1>1, <2>1, <2>2, <2>4, <2>5, <2>6, <2>7, AllocInv
  <1> QED
    BY <1>4, <1>5

-----------------------------------------------------------------------------
(* IP output.                                                              *)

\* IP output gets an entry of the host its packet is for.
LEMMA OutputLookupInv ==
  ASSUME ArpInv, dead = Arp!Alive, MixedKept, NEW h \in OutHosts, Arp!OutputLookup(h)
  PROVE  ArpInv'
  <1> DEFINE ae == Arp!arp_cache_lookup(h)
             p == IF ae = Arp!NoEntry THEN "alloc" ELSE "use"
  <1>1. /\ output = Arp!Idle /\ UNCHANGED <<cache, next, timer, recv, stray, dead>>
        /\ output' = [at |-> p, host |-> h, ae |-> ae, pkb |-> Arp!NULL]
    BY DEF Arp!OutputLookup
  <1>2. \/ ae = Arp!NoEntry
        \/ ae \in Arp!Slots /\ cache[ae].state # Arp!FREE /\ cache[ae].ip = h
    BY LookupFinds
  <1>3. h \in Hosts
    BY ArpAssumption DEF ArpAssumption
  <1> HIDE DEF ae
  <1>4. p \in {"use", "alloc"} /\ (p = "alloc" <=> ae = Arp!NoEntry)
    OBVIOUS
  <1> HIDE DEF p
  <1>5. /\ output' \in ArpTasks(OutputPlaces)
        /\ output'.at = p /\ output'.ae = ae /\ output'.host = h
    BY <1>1, <1>2, <1>3, <1>4 DEF ArpTasks, OutputPlaces
  <1>6. output.at = "idle" /\ output.ae = Arp!NoEntry
    BY <1>1 DEF Arp!Idle
  <1>7. Around(ae)
    BY <1>1, <1>5, <1>6, SlotsAreNumbers DEF Around
  <1>8. ArpShape' /\ ArpPlaces'
    BY <1>1, <1>3, <1>4, <1>5, SlotsAreNumbers DEF ArpInv, ArpShape, ArpPlaces
  <1>9. ASSUME ae \in Arp!Slots
        PROVE  /\ NullKnown(ae, cache[ae], recv, output') /\ TimerHas(ae, cache[ae], timer)
               /\ ae \notin mixed' => Clean(ae, cache[ae], recv, output')
               /\ OutHosts = {} => cache[ae].list = <<>>
    <2>1. /\ NullKnown(ae, cache[ae], recv, output) /\ TimerHas(ae, cache[ae], timer)
          /\ ae \notin mixed => Clean(ae, cache[ae], recv, output)
          /\ OutHosts = {} => cache[ae].list = <<>>
      BY <1>9 DEF ArpInv, SlotsSound, Alone
    <2>2. /\ output'.at = "use" /\ output'.host = h /\ cache[ae].state # Arp!FREE
          /\ cache[ae].ip = h /\ output.ae # ae
      BY <1>2, <1>4, <1>5, <1>6, <1>9, SlotsAreNumbers
    <2>3. NullKnown(ae, cache[ae], recv, output')
      BY <1>6, <2>1, <2>2 DEF NullKnown
    <2>4. ~Arp!Fresh(ae)
      BY <2>2 DEF Arp!Fresh
    <2>5. ASSUME ae \notin mixed' PROVE Clean(ae, cache[ae], recv, output')
      <3>1. ae \notin mixed /\ ~BothFill(ae, recv', output')
        BY <1>9, <2>4, <2>5, NotMixed
      <3> QED
        BY <1>1, <2>1, <2>2, <3>1 DEF Clean, OutputKnows
    <2> QED
      BY <2>1, <2>3, <2>5
  <1>10. SlotDone(ae)
    BY <1>1, <1>9 DEF SlotDone
  <1>11. QuietDone
    BY DEF QuietDone
  <1> QED
    BY <1>1, <1>7, <1>8, <1>10, <1>11, CacheKept

OutputBusy == output.at \in {"use", "fill"}

\* Who works on an entry has a slot and a host.
LEMMA OutputHas ==
  ASSUME ArpInv, OutputBusy
  PROVE  /\ output.ae \in Arp!Slots /\ output.host \in Hosts /\ cache[output.ae] \in ArpEntries
         /\ NullKnown(output.ae, cache[output.ae], recv, output)
         /\ TimerHas(output.ae, cache[output.ae], timer)
         /\ output.ae \notin mixed => Clean(output.ae, cache[output.ae], recv, output)
         /\ OutHosts # {}
  <1>1. output.ae \in Arp!Slots /\ output.host \in Hosts
    BY DEF ArpInv, ArpShape, ArpPlaces, ArpTasks, OutputBusy
  <1>2. OutHosts # {}
    BY DEF ArpInv, Alone, Arp!Idle, OutputBusy
  <1> QED
    BY <1>1, <1>2 DEF ArpInv, ArpShape, SlotsSound

\* IP output leaves state and retries alone; it sets the device when it fills.
OutputMay(c, e) == /\ e.retry = c.retry /\ e.state = c.state
                   /\ e.dev = "veth" \/ (e.dev = c.dev /\ output.at # "fill")

\* IP output writes to its entry and is done with the packet.
LEMMA OutputTouches ==
  ASSUME ArpInv, MixedKept, OutputBusy, UNCHANGED <<next, timer, recv>>, ~stray', DeadKnown',
         NEW e \in ArpEntries, cache' = [cache EXCEPT ![output.ae] = e],
         OutputMay(cache[output.ae], e), output' = Arp!Idle,
         output.ae \notin mixed => Clean(output.ae, e, recv, output')
  PROVE  ArpInv'
  <1>1. /\ output.ae \in Arp!Slots /\ cache[output.ae] \in ArpEntries
        /\ NullKnown(output.ae, cache[output.ae], recv, output)
        /\ TimerHas(output.ae, cache[output.ae], timer) /\ OutHosts # {}
    BY OutputHas
  <1>2. /\ cache' \in [Arp!Slots -> ArpEntries] /\ cache'[output.ae] = e
        /\ \A i \in Arp!Slots : i # output.ae => cache'[i] = cache[i]
    BY <1>1, OneEntry DEF ArpInv
  <1>3. /\ output' \in ArpTasks(OutputPlaces)
        /\ output'.ae = Arp!NoEntry /\ output'.at = "idle"
    BY DEF ArpTasks, Arp!Idle, OutputPlaces
  <1>4. ArpShape' /\ ArpPlaces'
    BY <1>2, <1>3 DEF ArpInv, ArpShape, ArpPlaces
  <1>5. Around(output.ae)
    BY <1>2, <1>3, SlotsAreNumbers DEF Around
  <1>6. ~Arp!Fresh(output.ae)
    BY <1>2 DEF OutputMay, Arp!Fresh, Arp!FREE, Arp!WAITING
  <1>7. output.ae \notin mixed' => Clean(output.ae, e, recv', output')
    BY <1>1, <1>6, NotMixed
  <1>8. TimerHas(output.ae, e, timer')
    BY <1>1 DEF OutputMay, TimerHas
  <1>9. NullKnown(output.ae, e, recv', output')
    BY <1>1, <1>3, SlotsAreNumbers DEF OutputMay, NullKnown, Arp!NULL
  <1>10. SlotDone(output.ae)
    BY <1>1, <1>2, <1>7, <1>8, <1>9 DEF SlotDone
  <1>11. QuietDone
    BY <1>1 DEF QuietDone
  <1> QED
    BY <1>4, <1>5, <1>10, <1>11, ArpTouches

\* It sends to that host, or leaves its packet with the entry.
LEMMA OutputUseInv ==
  ASSUME ArpInv, dead = Arp!Alive, MixedKept, Arp!OutputUse
  PROVE  ArpInv'
  <1> DEFINE c == cache[output.ae]
  <1>1. /\ output.at = "use" /\ OutputBusy
        /\ UNCHANGED <<next, timer, recv>> /\ output' = Arp!Idle
    BY DEF Arp!OutputUse, OutputBusy
  <1>2. /\ output.ae \in Arp!Slots /\ output.host \in Hosts /\ c \in ArpEntries
        /\ NullKnown(output.ae, c, recv, output)
        /\ output.ae \notin mixed => Clean(output.ae, c, recv, output)
    BY <1>1, OutputHas
  <1>3. output'.ae # output.ae
    BY <1>1, <1>2, SlotsAreNumbers DEF Arp!Idle
  <1>4. output.ae \notin mixed =>
           c.ip = output.host /\ ~(recv.ae = output.ae /\ recv.at \in {"fill", "hwaddr"})
    BY <1>1, <1>2 DEF Clean, OutputKnows, BothFill
  <1>5. CASE c.state = Arp!RESOLVED
    <2>1. /\ stray' = (stray \/ (c.hw # output.host /\ output.ae \notin mixed))
          /\ dead' = IF c.dev = Arp!NULL THEN [why |-> "null", slot |-> output.ae] ELSE dead
          /\ UNCHANGED cache
      BY <1>1, <1>5 DEF Arp!OutputUse
    <2>2. cache' = [cache EXCEPT ![output.ae] = c]
      BY <1>2, <2>1 DEF ArpInv, ArpShape
    <2> HIDE DEF c
    <2>3. ~(c.hw # output.host /\ output.ae \notin mixed) /\ ~stray
      BY <1>2, <1>4, <1>5 DEF Clean, ArpInv
    <2>4. ~stray'
      BY <2>1, <2>3, Zenon
    <2>5. DeadKnown'
      <3>1. CASE c.dev = Arp!NULL
        <4>1. dead'.why = "null" /\ dead'.slot = output.ae
          BY <2>1, <3>1
        <4>2. recv.at = "fill" /\ recv.ae = output.ae
          BY <1>1, <1>2, <3>1 DEF NullKnown
        <4> QED
          BY <1>1, <4>1, <4>2 DEF DeadKnown, Arp!NullDeviceOnlyInWindow, Arp!FreedOnlyAtLastRetry
      <3>2. CASE c.dev # Arp!NULL
        BY <2>1, <3>2, StillAlive
      <3> QED
        BY <3>1, <3>2
    <2>6. ASSUME output.ae \notin mixed PROVE Clean(output.ae, c, recv, output')
      BY <1>2, <1>3, <2>6 DEF Clean, BothFill
    <2>7. OutputMay(c, c)
      BY <1>1 DEF OutputMay
    <2> QED
      BY <1>1, <1>2, <2>2, <2>4, <2>5, <2>6, <2>7, OutputTouches DEF c
  <1>6. CASE c.state # Arp!RESOLVED
    <2> DEFINE e == [c EXCEPT !.list = Append(c.list, output.host)]
    <2>1. UNCHANGED <<stray, dead>> /\ cache' = [cache EXCEPT ![output.ae] = e]
      BY <1>1, <1>6 DEF Arp!OutputUse
    <2> HIDE DEF c
    <2>2. c.list \in Seq(Hosts)
      BY <1>2 DEF ArpEntries
    <2>3. Append(c.list, output.host) \in Seq(Hosts)
      BY <1>2, <2>2
    <2>4. /\ e \in ArpEntries /\ e.state = c.state /\ e.dev = c.dev /\ e.retry = c.retry
          /\ e.ip = c.ip /\ e.hw = c.hw /\ e.list = Append(c.list, output.host)
      BY <1>2, <2>3 DEF ArpEntries
    <2> HIDE DEF e
    <2>5. ~stray' /\ DeadKnown'
      BY <2>1, StillAlive DEF ArpInv
    <2>6. ASSUME output.ae \notin mixed PROVE Clean(output.ae, e, recv, output')
      <3>1. Clean(output.ae, c, recv, output)
        BY <1>2, <2>6
      <3>2. AllFor(c.list, output.host) /\ e.ip = output.host
        BY <1>4, <2>4, <2>6, <3>1 DEF Clean
      <3>3. AllFor(e.list, e.ip)
        BY <1>2, <2>2, <2>4, <3>2, AllForAppend
      <3> QED
        BY <1>3, <1>4, <2>4, <2>6, <3>1, <3>3 DEF Clean, BothFill, RecvKnows
    <2>7. OutputMay(c, e)
      BY <1>1, <2>4 DEF OutputMay
    <2> QED
      BY <1>1, <1>2, <2>1, <2>4, <2>5, <2>6, <2>7, OutputTouches DEF c
  <1> QED
    BY <1>5, <1>6

\* It takes a free slot, or drops its packet.
LEMMA OutputAllocInv ==
  ASSUME ArpInv, dead = Arp!Alive, MixedKept, Arp!OutputAlloc
  PROVE  ArpInv'
  <1> DEFINE a == Arp!FirstFree
  <1>1. /\ output.at = "alloc" /\ output.ae = Arp!NoEntry /\ output.host \in Hosts
        /\ UNCHANGED <<timer, recv, stray, dead>> /\ ArpShape /\ ArpPlaces
    BY DEF ArpInv, ArpPlaces, Arp!OutputAlloc
  <1>2. a = Arp!NoEntry \/ (a \in Arp!Slots /\ cache[a].state = Arp!FREE)
    BY <1>1, FirstFreeFinds DEF ArpShape
  <1>3. IF a = Arp!NoEntry
        THEN output' = Arp!Idle /\ UNCHANGED <<cache, next>>
        ELSE output' = [output EXCEPT !.at = "fill", !.ae = a] /\ Arp!arp_entry_alloc(a)
    BY DEF Arp!OutputAlloc
  <1>4. QuietDone
    BY <1>1 DEF QuietDone, ArpInv, Alone, Arp!Idle
  <1> HIDE DEF a
  <1>5. CASE a = Arp!NoEntry
    <2>1. /\ output' \in ArpTasks(OutputPlaces) /\ output'.at = "idle" /\ output'.ae = Arp!NoEntry
          /\ UNCHANGED <<cache, next>>
      BY <1>3, <1>5 DEF Arp!Idle, ArpTasks, OutputPlaces
    <2>2. Around(Arp!NoEntry)
      BY <1>1, <2>1, SlotsAreNumbers DEF Around
    <2>3. ArpShape' /\ ArpPlaces'
      BY <1>1, <2>1 DEF ArpShape, ArpPlaces
    <2>4. SlotDone(Arp!NoEntry)
      BY SlotsAreNumbers DEF SlotDone
    <2> QED
      BY <1>1, <1>4, <2>1, <2>2, <2>3, <2>4, CacheKept
  <1>6. CASE a # Arp!NoEntry
    <2>1. /\ output' = [output EXCEPT !.at = "fill", !.ae = a] /\ Arp!arp_entry_alloc(a)
          /\ a \in Arp!Slots /\ cache[a].state = Arp!FREE
      BY <1>2, <1>3, <1>6
    <2>2. /\ output' \in ArpTasks(OutputPlaces) /\ output'.at = "fill" /\ output'.ae = a
          /\ output'.host = output.host
      BY <1>1, <2>1 DEF ArpShape, ArpTasks, OutputPlaces
    <2>3. \A i \in Arp!Slots : i # a => cache'[i] = cache[i]
      BY <1>1, <2>1 DEF Arp!arp_entry_alloc, ArpShape
    <2>4. Around(a)
      BY <1>1, <2>2, <2>3, SlotsAreNumbers DEF Around
    <2>5. ArpPlaces'
      BY <1>1, <2>1, <2>2, SlotsAreNumbers DEF ArpPlaces
    <2>6. recv' \in ArpTasks(RecvPlaces)
      BY <1>1 DEF ArpShape
    <2> QED
      BY <1>1, <1>4, <2>1, <2>2, <2>4, <2>5, <2>6, AllocInv
  <1> QED
    BY <1>5, <1>6

\* It fills the entry and leaves its packet there.
LEMMA OutputFillInv ==
  ASSUME ArpInv, dead = Arp!Alive, MixedKept, Arp!OutputFill
  PROVE  ArpInv'
  <1> DEFINE c == cache[output.ae]
             e == [c EXCEPT !.dev = "veth", !.ip = output.host,
                            !.list = Append(c.list, output.host)]
  <1>1. /\ output.at = "fill" /\ OutputBusy /\ cache' = [cache EXCEPT ![output.ae] = e]
        /\ UNCHANGED <<next, timer, recv, stray, dead>> /\ output' = Arp!Idle
    BY DEF Arp!OutputFill, OutputBusy
  <1>2. /\ output.ae \in Arp!Slots /\ output.host \in Hosts /\ c \in ArpEntries
        /\ output.ae \notin mixed => Clean(output.ae, c, recv, output)
    BY <1>1, OutputHas
  <1> HIDE DEF c
  <1>3. c.list \in Seq(Hosts)
    BY <1>2 DEF ArpEntries
  <1>4. Append(c.list, output.host) \in Seq(Hosts)
    BY <1>2, <1>3
  <1>5. /\ e \in ArpEntries /\ e.state = c.state /\ e.dev = "veth" /\ e.retry = c.retry
        /\ e.ip = output.host /\ e.hw = c.hw /\ e.list = Append(c.list, output.host)
    BY <1>2, <1>4 DEF ArpEntries
  <1> HIDE DEF e
  <1>6. output'.ae # output.ae
    BY <1>1, <1>2, SlotsAreNumbers DEF Arp!Idle
  <1>7. ASSUME output.ae \notin mixed PROVE Clean(output.ae, e, recv, output')
    <2>1. Clean(output.ae, c, recv, output)
      BY <1>2, <1>7
    <2>2. c.list = <<>> /\ recv.ae # output.ae /\ c.state # Arp!RESOLVED
      BY <1>1, <2>1 DEF Clean, OutputKnows, BothFill
    <2>3. AllFor(<<>>, output.host) /\ <<>> \in Seq(Hosts)
      BY AllForNone
    <2>4. AllFor(e.list, e.ip)
      BY <1>2, <1>5, <2>2, <2>3, AllForAppend
    <2> QED
      BY <1>5, <1>6, <2>2, <2>4 DEF Clean, BothFill
  <1>8. OutputMay(c, e)
    BY <1>1, <1>5 DEF OutputMay
  <1>9. ~stray' /\ DeadKnown'
    BY <1>1, StillAlive DEF ArpInv
  <1> QED
    BY <1>1, <1>2, <1>5, <1>7, <1>8, <1>9, OutputTouches DEF c

-----------------------------------------------------------------------------
(* arp_timer.                                                              *)

\* The timer is at no entry.
LEMMA TimerIdles ==
  ASSUME ArpInv, dead = Arp!Alive, MixedKept, UNCHANGED <<cache, next, recv, output, stray, dead>>,
         timer' \in [at : TimerPlaces, i : Int], timer'.at \notin {"expire", "request"},
         timer'.at = "scan" => timer'.i \in Arp!Slots
  PROVE  ArpInv'
  <1>1. Around(Arp!NoEntry)
    BY DEF Around
  <1>2. ArpShape' /\ ArpPlaces'
    BY DEF ArpInv, ArpShape, ArpPlaces
  <1>3. SlotDone(Arp!NoEntry)
    BY SlotsAreNumbers DEF SlotDone
  <1>4. QuietDone
    BY StillAlive DEF QuietDone, ArpInv, Alone
  <1> QED
    BY <1>1, <1>2, <1>3, <1>4, CacheKept

\* It takes and returns the mutex.
LEMMA TimerMovesInv ==
  ASSUME ArpInv, dead = Arp!Alive, MixedKept,
         Arp!TimerStart \/ Arp!TimerRelock \/ Arp!TimerUnlock
  PROVE  ArpInv'
  <1>0. 0 \in Arp!Slots /\ timer \in [at : TimerPlaces, i : Int]
    BY ArpAssumption DEF ArpAssumption, Arp!Slots, ArpInv, ArpShape
  <1>1. CASE Arp!TimerStart
    BY <1>0, <1>1, TimerIdles DEF Arp!TimerStart, TimerPlaces
  <1>2. CASE Arp!TimerRelock
    BY <1>0, <1>2, TimerIdles DEF Arp!TimerRelock, TimerPlaces
  <1>3. CASE Arp!TimerUnlock
    BY <1>0, <1>3, TimerIdles DEF Arp!TimerUnlock, TimerPlaces
  <1> QED
    BY <1>1, <1>2, <1>3

\* It asks for an entry, whose device is NULL only in the window.
LEMMA TimerRequestInv ==
  ASSUME ArpInv, dead = Arp!Alive, MixedKept, Arp!TimerRequest
  PROVE  ArpInv'
  <1>1. /\ timer.at = "request" /\ timer' = [timer EXCEPT !.at = "relock"]
        /\ dead' = IF cache[timer.i].dev = Arp!NULL THEN [why |-> "null", slot |-> timer.i] ELSE dead
        /\ UNCHANGED <<cache, next, recv, output, stray>>
    BY DEF Arp!TimerRequest
  <1>2. /\ timer' \in [at : TimerPlaces, i : Int] /\ timer'.at = "relock"
        /\ timer.i \in Arp!Slots
    BY <1>1 DEF ArpInv, ArpShape, ArpPlaces, TimerPlaces
  <1>3. CASE cache[timer.i].dev = Arp!NULL
    <2>1. dead'.why = "null" /\ dead'.slot = timer.i
      BY <1>1, <1>3
    <2>2. /\ NullKnown(timer.i, cache[timer.i], recv, output)
          /\ cache[timer.i].state # Arp!FREE
      BY <1>1, <1>2 DEF ArpInv, SlotsSound, TimerHas
    <2>3. \E t \in {recv, output} : t.at = "fill" /\ t.ae = timer.i
      BY <1>3, <2>2 DEF NullKnown
    <2>4. DeadKnown'
      BY <1>1, <2>1, <2>3 DEF DeadKnown, Arp!NullDeviceOnlyInWindow, Arp!FreedOnlyAtLastRetry
    <2>5. Around(Arp!NoEntry)
      BY <1>1, <1>2 DEF Around
    <2>6. ArpShape' /\ ArpPlaces'
      BY <1>1, <1>2 DEF ArpInv, ArpShape, ArpPlaces
    <2>7. SlotDone(Arp!NoEntry)
      BY SlotsAreNumbers DEF SlotDone
    <2>8. QuietDone
      BY <1>1, <2>1 DEF QuietDone, ArpInv, Alone
    <2>9. ~stray'
      BY <1>1 DEF ArpInv
    <2> QED
      BY <2>4, <2>5, <2>6, <2>7, <2>8, <2>9, ArpTouches
  <1>4. CASE cache[timer.i].dev # Arp!NULL
    <2>1. UNCHANGED dead
      BY <1>1, <1>4
    <2> QED
      BY <1>1, <1>2, <2>1, TimerIdles
  <1> QED
    BY <1>3, <1>4

\* The timer changes of an entry its times, its retries, and in the end its
\* state and its list.
TimerMay(c, e) ==
    /\ e.dev = c.dev /\ e.ip = c.ip /\ e.hw = c.hw /\ e.retry <= c.retry
    /\ (e.state = c.state /\ e.list = c.list) \/ (e.state = Arp!FREE /\ e.list \in {c.list, <<>>})

\* The timer writes to its entry; of the packets it drops arp_recv may have
\* one in hand.
LEMMA TimerTouches ==
  ASSUME ArpInv, dead = Arp!Alive, MixedKept, UNCHANGED <<next, output, stray, dead>>,
         NEW a \in Arp!Slots, timer.i = a, timer.at \in {"scan", "expire"},
         NEW e \in ArpEntries, cache' = [cache EXCEPT ![a] = e], TimerMay(cache[a], e),
         cache[a].state # Arp!FREE,
         timer' \in [at : TimerPlaces, i : Int],
         timer'.at \in {"scan", "expire", "request"} => timer'.i \in Arp!Slots,
         timer'.at \in {"expire", "request"} => timer'.i = a,
         TimerHas(a, e, timer'),
         recv' = recv \/ (/\ recv' = [recv EXCEPT !.pkb = Arp!Freed]
                          /\ recv.at = "send" /\ recv.ae = a /\ e.retry < 0)
  PROVE  ArpInv'
  <1> DEFINE c == cache[a]
  <1>1. /\ c \in ArpEntries /\ NullKnown(a, c, recv, output)
        /\ a \notin mixed => Clean(a, c, recv, output)
        /\ OutHosts = {} => c.list = <<>>
    BY DEF ArpInv, ArpShape, SlotsSound, Alone
  <1>2. /\ cache' \in [Arp!Slots -> ArpEntries] /\ cache'[a] = e
        /\ \A i \in Arp!Slots : i # a => cache'[i] = cache[i]
    BY OneEntry DEF ArpInv
  <1>3. /\ recv' \in ArpTasks(RecvPlaces) /\ recv'.at = recv.at /\ recv'.ae = recv.ae
        /\ recv'.host = recv.host /\ (recv.ae # a => recv' = recv)
        /\ recv'.pkb = recv.pkb \/ (recv'.pkb = Arp!Freed /\ e.retry < 0)
    BY DEF ArpInv, ArpShape, ArpTasks
  <1>4. ArpShape' /\ ArpPlaces'
    <2>1. ArpShape'
      BY <1>2, <1>3 DEF ArpInv, ArpShape
    <2>2. ArpPlaces'
      BY <1>3 DEF ArpInv, ArpPlaces
    <2> QED
      BY <2>1, <2>2
  <1>5. Around(a)
    BY <1>2, <1>3 DEF Around
  <1>6. ~Arp!Fresh(a)
    BY DEF Arp!Fresh
  <1> HIDE DEF c
  <1>7. TimerMay(c, e) /\ c.state # Arp!FREE
    BY DEF c
  <1>8. NullKnown(a, e, recv', output')
    BY <1>1, <1>3, <1>7 DEF NullKnown, TimerMay
  <1>9. ASSUME a \notin mixed' PROVE Clean(a, e, recv', output')
    <2>1. Clean(a, c, recv, output) /\ ~BothFill(a, recv', output')
      BY <1>1, <1>6, <1>9, NotMixed
    <2>2. AllFor(e.list, e.ip)
      BY <1>7, <2>1, AllForNone DEF Clean, TimerMay
    <2>3. recv.ae = a => RecvKnows(e, recv')
      <3> SUFFICES ASSUME recv.ae = a PROVE RecvKnows(e, recv')
        OBVIOUS
      <3>1. c.retry \in Int /\ e.retry \in Int
        BY <1>1 DEF ArpEntries
      <3>2. /\ e.ip = c.ip /\ e.hw = c.hw
            /\ c.list = <<>> => e.list = <<>>
            /\ c.retry < 0 => e.retry < 0
        BY <1>7, <3>1 DEF TimerMay
      <3>3. RecvKnows(c, recv)
        BY <2>1 DEF Clean
      <3> QED
        BY <1>3, <3>2, <3>3 DEF RecvKnows
    <2>4. e.state = Arp!RESOLVED => c.state = Arp!RESOLVED
      BY <1>7 DEF TimerMay, Arp!FREE, Arp!RESOLVED
    <2>5. output.ae = a => OutputKnows(e, output)
      <3>1. e.ip = c.ip /\ (c.list = <<>> => e.list = <<>>)
        BY <1>7 DEF TimerMay
      <3> QED
        BY <2>1, <2>4, <3>1 DEF Clean, OutputKnows
    <2> QED
      BY <1>3, <1>7, <2>1, <2>2, <2>3, <2>4, <2>5 DEF Clean, TimerMay
  <1>10. OutHosts = {} => e.list = <<>>
    BY <1>1, <1>7 DEF TimerMay
  <1>11. SlotDone(a)
    BY <1>2, <1>8, <1>9, <1>10 DEF SlotDone
  <1>12. QuietDone
    BY <1>3, StillAlive DEF QuietDone, ArpInv, Alone
  <1>13. ~stray' /\ DeadKnown'
    BY StillAlive DEF ArpInv
  <1> QED
    BY <1>4, <1>5, <1>11, <1>12, <1>13, ArpTouches

\* The slot is free; a packet dropped while arp_recv sends it is one of an
\* entry without retries.
LEMMA TimerExpireInv ==
  ASSUME ArpInv, dead = Arp!Alive, MixedKept, Arp!TimerExpire
  PROVE  ArpInv'
  <1> DEFINE c == cache[timer.i]
             drops == c.state = Arp!WAITING /\ c.list # <<>>
             l == IF drops THEN <<>> ELSE c.list
             e == [c EXCEPT !.state = Arp!FREE, !.list = l]
             p == IF timer.i + 1 \in Arp!Slots THEN "scan" ELSE "done"
  <1>1. /\ timer.at = "expire" /\ cache' = [cache EXCEPT ![timer.i] = e]
        /\ UNCHANGED <<next, output, stray, dead>>
        /\ timer' = [at |-> p, i |-> timer.i + 1]
        /\ recv' = IF drops /\ recv.at = "send" /\ recv.ae = timer.i
                   THEN [recv EXCEPT !.pkb = Arp!Freed] ELSE recv
    BY DEF Arp!TimerExpire
  <1>2. /\ timer.i \in Arp!Slots /\ timer.i \in Int /\ c \in ArpEntries /\ c.state # Arp!FREE
        /\ c.state = Arp!WAITING => c.retry < 0
    BY <1>1 DEF ArpInv, ArpShape, ArpPlaces, SlotsSound, TimerHas
  <1>3. /\ timer' \in [at : TimerPlaces, i : Int] /\ timer'.at \in {"scan", "done"}
        /\ timer'.at = "scan" => timer'.i \in Arp!Slots
    BY <1>1, <1>2 DEF TimerPlaces
  <1> HIDE DEF c, p
  <1>4. c.list \in Seq(Hosts) /\ <<>> \in Seq(Hosts) /\ c.retry \in Int
    BY <1>2 DEF ArpEntries
  <1>5. l \in Seq(Hosts) /\ l \in {c.list, <<>>}
    BY <1>4
  <1> HIDE DEF l
  <1>6. /\ e \in ArpEntries /\ e.state = Arp!FREE /\ e.dev = c.dev /\ e.retry = c.retry
        /\ e.ip = c.ip /\ e.hw = c.hw /\ e.list = l
    <2>1. PICK x : x = [c EXCEPT !.state = Arp!FREE]
      OBVIOUS
    <2>2. /\ x \in ArpEntries /\ x.state = Arp!FREE /\ x.dev = c.dev /\ x.retry = c.retry
          /\ x.ip = c.ip /\ x.hw = c.hw
      BY <1>2, <2>1 DEF ArpEntries
    <2>3. e = [x EXCEPT !.list = l]
      BY <2>1
    <2> QED
      BY <1>5, <2>2, <2>3 DEF ArpEntries
  <1>7. TimerMay(c, e)
    BY <1>4, <1>5, <1>6 DEF TimerMay
  <1> HIDE DEF e
  <1>8. recv' = recv \/ (/\ recv' = [recv EXCEPT !.pkb = Arp!Freed]
                         /\ recv.at = "send" /\ recv.ae = timer.i /\ e.retry < 0)
    BY <1>1, <1>2, <1>6
  <1>9. TimerHas(timer.i, e, timer')
    BY <1>3 DEF TimerHas
  <1> QED
    BY <1>1, <1>2, <1>3, <1>6, <1>7, <1>8, <1>9, TimerTouches DEF c

\* The times run down.
LEMMA TimerScanInv ==
  ASSUME ArpInv, dead = Arp!Alive, MixedKept, Arp!TimerScan
  PROVE  ArpInv'
  <1> DEFINE c == cache[timer.i]
             e0 == [c EXCEPT !.ttl = @ - 1]
             f0 == [e0 EXCEPT !.retry = IF e0.state = Arp!WAITING THEN @ - 1 ELSE @]
             p == IF timer.i + 1 \in Arp!Slots THEN "scan" ELSE "done"
  <1>1. /\ timer.at = "scan" /\ UNCHANGED <<next, recv, output, stray, dead>>
    BY DEF Arp!TimerScan
  <1>2. IF c.state = Arp!FREE \/ e0.ttl > 0
        THEN /\ cache' = IF c.state = Arp!FREE THEN cache ELSE [cache EXCEPT ![timer.i] = e0]
             /\ timer' = [at |-> p, i |-> timer.i + 1]
        ELSE IF f0.state = Arp!RESOLVED \/ f0.retry < 0
        THEN /\ cache' = [cache EXCEPT ![timer.i] = f0]
             /\ timer' = [timer EXCEPT !.at = "expire"]
        ELSE /\ cache' = [cache EXCEPT ![timer.i] = [f0 EXCEPT !.ttl = WaitTime]]
             /\ timer' = [timer EXCEPT !.at = "request"]
    BY DEF Arp!TimerScan
  <1>3. /\ timer.i \in Arp!Slots /\ timer \in [at : TimerPlaces, i : Int] /\ c \in ArpEntries
    BY <1>1 DEF ArpInv, ArpShape, ArpPlaces
  <1>4. p \in TimerPlaces /\ p \in {"scan", "done"} /\ (p = "scan" => timer.i + 1 \in Arp!Slots)
    BY DEF TimerPlaces
  <1> HIDE DEF c, p
  <1>5. /\ e0 \in ArpEntries /\ e0.state = c.state /\ e0.dev = c.dev /\ e0.ip = c.ip
        /\ e0.hw = c.hw /\ e0.list = c.list /\ e0.retry = c.retry /\ c.retry \in Int
    BY <1>3 DEF ArpEntries
  <1> HIDE DEF e0
  <1>6. /\ f0 \in ArpEntries /\ f0.state = c.state /\ f0.dev = c.dev /\ f0.ip = c.ip
        /\ f0.hw = c.hw /\ f0.list = c.list /\ f0.retry <= c.retry
    BY <1>5 DEF ArpEntries
  <1> HIDE DEF f0
  <1>7. CASE c.state = Arp!FREE
    <2>1. timer' = [at |-> p, i |-> timer.i + 1] /\ UNCHANGED cache
      BY <1>2, <1>7
    <2>2. /\ timer' \in [at : TimerPlaces, i : Int] /\ timer'.at \notin {"expire", "request"}
          /\ timer'.at = "scan" => timer'.i \in Arp!Slots
      BY <1>3, <1>4, <2>1
    <2> QED
      BY <1>1, <2>1, <2>2, TimerIdles
  <1>8. CASE c.state # Arp!FREE /\ e0.ttl > 0
    <2>1. timer' = [at |-> p, i |-> timer.i + 1] /\ cache' = [cache EXCEPT ![timer.i] = e0]
      BY <1>2, <1>8
    <2>2. /\ timer' \in [at : TimerPlaces, i : Int] /\ timer'.at \in {"scan", "done"}
          /\ timer'.at = "scan" => timer'.i \in Arp!Slots
      BY <1>3, <1>4, <2>1
    <2>3. TimerMay(c, e0) /\ TimerHas(timer.i, e0, timer')
      BY <1>5, <2>2 DEF TimerMay, TimerHas
    <2> QED
      BY <1>1, <1>3, <1>5, <1>8, <2>1, <2>2, <2>3, TimerTouches DEF c
  <1>9. CASE c.state # Arp!FREE /\ ~(e0.ttl > 0) /\ (f0.state = Arp!RESOLVED \/ f0.retry < 0)
    <2>1. timer' = [timer EXCEPT !.at = "expire"] /\ cache' = [cache EXCEPT ![timer.i] = f0]
      BY <1>2, <1>9
    <2>2. /\ timer' \in [at : TimerPlaces, i : Int] /\ timer'.at = "expire"
          /\ timer'.i = timer.i
      BY <1>3, <2>1 DEF TimerPlaces
    <2>3. TimerMay(c, f0) /\ TimerHas(timer.i, f0, timer')
      BY <1>6, <1>9, <2>2 DEF TimerMay, TimerHas, Arp!RESOLVED, Arp!WAITING
    <2> QED
      BY <1>1, <1>3, <1>6, <1>9, <2>1, <2>2, <2>3, TimerTouches DEF c
  <1>10. CASE c.state # Arp!FREE /\ ~(e0.ttl > 0) /\ ~(f0.state = Arp!RESOLVED \/ f0.retry < 0)
    <2> DEFINE g == [f0 EXCEPT !.ttl = WaitTime]
    <2>1. timer' = [timer EXCEPT !.at = "request"] /\ cache' = [cache EXCEPT ![timer.i] = g]
      BY <1>2, <1>10
    <2>2. /\ timer' \in [at : TimerPlaces, i : Int] /\ timer'.at = "request"
          /\ timer'.i = timer.i
      BY <1>3, <2>1 DEF TimerPlaces
    <2>3. /\ g \in ArpEntries /\ g.state = c.state /\ g.dev = c.dev /\ g.ip = c.ip
          /\ g.hw = c.hw /\ g.list = c.list /\ g.retry <= c.retry
      BY <1>6, ArpAssumption DEF ArpEntries, ArpAssumption
    <2> HIDE DEF g
    <2>4. TimerMay(c, g) /\ TimerHas(timer.i, g, timer')
      BY <1>10, <2>2, <2>3 DEF TimerMay, TimerHas
    <2> QED
      BY <1>1, <1>3, <1>10, <2>1, <2>2, <2>3, <2>4, TimerTouches DEF c
  <1> QED
    BY <1>7, <1>8, <1>9, <1>10

-----------------------------------------------------------------------------
(* The theorem.                                                            *)

\* Every step of the three activities keeps the invariant.
LEMMA ArpStep ==
  ASSUME ArpInv, [Arp!ArpNext]_arpv
  PROVE  ArpInv'
  <1>1. CASE UNCHANGED arpv
    BY <1>1 DEF arpv, ArpInv, ArpShape, ArpPlaces, SlotsSound, Alone, DeadKnown,
                Arp!NullDeviceOnlyInWindow, Arp!FreedOnlyAtLastRetry
  <1>2. CASE Arp!ArpNext
    <2>1. dead = Arp!Alive /\ MixedKept
      BY <1>2 DEF Arp!ArpNext, MixedKept
    <2>2. \/ \E h \in Hosts, op \in {"request", "reply"} : Arp!RecvLookup(h, op)
          \/ \E h \in OutHosts : Arp!OutputLookup(h)
          \/ Arp!RecvUpdate \/ Arp!RecvFlush \/ Arp!RecvSend \/ Arp!RecvResolve
          \/ Arp!RecvAlloc \/ Arp!RecvFill \/ Arp!RecvHwaddr \/ Arp!RecvEnd
          \/ (Arp!TimerStart \/ Arp!TimerRelock \/ Arp!TimerUnlock)
          \/ Arp!TimerScan \/ Arp!TimerExpire \/ Arp!TimerRequest
          \/ Arp!OutputUse \/ Arp!OutputAlloc \/ Arp!OutputFill
      BY <1>2 DEF Arp!ArpNext, Arp!ArpRecvSteps, Arp!ArpTimerSteps, Arp!ArpOutputSteps
    <2> QED
      BY <2>1, <2>2, RecvLookupInv, OutputLookupInv, RecvUpdateInv, RecvFlushInv, RecvSendInv,
         RecvResolveInv, RecvAllocInv, RecvFillInv, RecvHwaddrInv, RecvEndInv, TimerMovesInv,
         TimerScanInv, TimerExpireInv, TimerRequestInv, OutputUseInv, OutputAllocInv, OutputFillInv
  <1> QED
    BY <1>1, <1>2

\* The cache runs alone, or not at all.
LEMMA ArpRuns == [MCNext]_mcVars => [Arp!ArpNext]_arpv
  <1> SUFFICES ASSUME [MCNext]_mcVars PROVE [Arp!ArpNext]_arpv
    OBVIOUS
  <1>1. CASE UNCHANGED mcVars
    BY <1>1 DEF mcVars
  <1>2. CASE MCNext /\ which = "arp"
    BY <1>2 DEF MCNext
  <1>3. CASE MCNext /\ which # "arp"
    BY <1>3 DEF MCNext, Others
  <1> QED
    BY <1>1, <1>2, <1>3

\* What is known of the entries is what ArpSound says.
LEMMA ArpInvSound == ArpInv => ArpSound
  <1> SUFFICES ASSUME ArpInv PROVE ArpSound
    OBVIOUS
  <1>1. Arp!MacMatches
    BY DEF ArpInv, SlotsSound, Clean, Arp!MacMatches
  <1>2. Arp!PacketsReachTheirHost /\ Arp!NullDeviceOnlyInWindow /\ Arp!FreedOnlyAtLastRetry
    BY DEF ArpInv, DeadKnown, Arp!PacketsReachTheirHost
  <1>3. Arp!AloneNeverMixed
    BY DEF ArpInv, Alone, Arp!AloneNeverMixed
  <1> QED
    BY <1>1, <1>2, <1>3 DEF ArpSound

\* For every cache size, timeout, number of retries and set of hosts that IP
\* output sends to, and in every order of the steps of arp_recv, arp_timer
\* and IP output: a resolved entry holds the address of its own host and a
\* packet leaves only for the host it is for, except in a slot that arp_recv
\* and IP output filled together; ae_dev is followed while NULL only between
\* arp_entry_alloc and its caller's assignments; a packet is sent after it
\* was freed only when the last retry ran out during arp_queue_send; and with
\* no IP output, as in the program, no slot is filled by two and no freed
\* packet is sent.
THEOREM ArpCorrect == MCSpec => []ArpSound
  <1>1. MCInit => ArpInv
    BY ArpInitInv DEF MCInit
  <1>2. ArpInv /\ [MCNext]_mcVars => ArpInv'
    BY ArpStep, ArpRuns
  <1> QED
    BY <1>1, <1>2, ArpInvSound, PTL DEF MCSpec

=============================================================================
