------------------------------ MODULE NetMain ------------------------------
(***************************************************************************)
(* The program src/tcpip/main.c builds: the devices, the receive thread    *)
(* that plays the interrupt, the idle timer and ipc threads, the signal    *)
(* thread and the main thread that tears the devices down.  A frame is     *)
(* classified by net_rx and an ARP frame is handled to its end; IP frames  *)
(* are not handed to ip_in (netdev.c:118 is a comment).  main never calls  *)
(* arp_cache_init (main.c:112 is a comment), so every cache entry has      *)
(* state 0 and protocol 0: a lookup never matches, an allocation always    *)
(* finds the cache full, and what is left of arp_recv is the reply.        *)
(*                                                                         *)
(* 16-bit header fields are kept in network order as the two bytes swapped *)
(* (the host is little-endian).  `pkbs' is alloc_pkbs - free_pkbs.         *)
(***************************************************************************)
EXTENDS Integers, FiniteSets

CONSTANTS MaxPkbs     \* MAX_PKBS of skbuff.c

Us == "us"            \* the address, hardware and internet, of veth
Peers == {"p", "q"}   \* other hosts on the segment

VARIABLES running,    \* the global flag
          devs,       \* net_devices: the devices that are allocated
          tap,        \* tun_fd: "none", "bad" (open failed), "shut" or "open"
          threads,    \* thread name -> where it is
          pkb,        \* the packet the receive thread holds, or NoFrame
          pkbs,       \* packets allocated and not freed
          lost,       \* packets no code will ever free (history)
          wire,       \* the last frame transmitted, with the one it answers
          fault       \* "none", "too_many_pkbuf" or "use_after_free"

netVars == <<running, devs, tap, threads, pkb, pkbs, lost, wire, fault>>

(***************************************************************************)
(* Frames.                                                                 *)
(***************************************************************************)
NoFrame == [none |-> TRUE]

ntohs(x) == (x % 256) * 256 + x \div 256

(* A well-formed ARP frame from src for our address, as it is on the wire. *)
ArpFrame(src, op) ==
    [dmac |-> IF op = 1 THEN "broadcast" ELSE Us, smac |-> src, pro |-> "ARP", size |-> "full",
     hwtype |-> ntohs(1), protype |-> ntohs(2048), opcode |-> ntohs(op),
     asmac |-> src, asip |-> src, admac |-> "broadcast", adip |-> Us]

(* Every way a frame can differ from it that some check looks at.  A frame *)
(* that ends behind the ARP header leaves the payload uninitialised: any.  *)
Good == {ArpFrame(s, o) : s \in Peers, o \in {1, 2}}
Frames ==
    Good
    \cup {[f EXCEPT !.dmac = "other"] : f \in Good}
    \cup {[f EXCEPT !.dmac = "multicast"] : f \in Good}
    \cup {[f EXCEPT !.size = z] : f \in Good, z \in {"no_eth", "no_arp"}}
    \cup {[f EXCEPT !.size = "no_payload", !.asmac = m, !.adip = i] :
             f \in Good, m \in Peers, i \in {Us, "q"}}
    \cup {[f EXCEPT !.pro = p] : f \in Good, p \in {"IP", "RARP", "else"}}
    \cup {[f EXCEPT !.asmac = "q"] : f \in Good}
    \cup {[f EXCEPT !.hwtype = 1] : f \in Good}
    \cup {[f EXCEPT !.protype = ntohs(1)] : f \in Good}
    \cup {[f EXCEPT !.opcode = ntohs(3)] : f \in Good}
    \cup {[f EXCEPT !.adip = i] : f \in Good, i \in {"q", "group"}}

eth_init(f) ==
    CASE f.dmac = "broadcast" -> "PKT_BROADCAST"
      [] f.dmac = "multicast" -> "PKT_MULTICAST"
      [] f.dmac = Us          -> "PKT_LOCALHOST"
      [] OTHER                -> "PKT_OTHERHOST"

(* net_tx: the destination is copied before our own address replaces the   *)
(* source, since dst points into the very header that is rewritten: it is  *)
(* the name of the field it points to.                                     *)
net_txCopySourceFirst(f, dst) ==
    LET g == [f EXCEPT !.smac = Us] IN [g EXCEPT !.dmac = g[dst]]
net_tx(f, dst) ==
    LET g == [f EXCEPT !.dmac = f[dst]] IN [g EXCEPT !.smac = Us]

arp_reply(f) ==
    LET turned == [f EXCEPT !.admac = f.asmac, !.adip = f.asip, !.asmac = Us, !.asip = Us]
        sent   == [turned EXCEPT !.hwtype = ntohs(@), !.protype = ntohs(@), !.opcode = ntohs(2)]
    IN  net_tx(sent, "smac")

(* The checks of arp_in, in front of arp_recv.                             *)
ArpAccepts(f) ==
    /\ eth_init(f) # "PKT_OTHERHOST"
    /\ f.size # "no_arp"
    /\ f.asmac = f.smac
    /\ ntohs(f.hwtype) = 1 /\ ntohs(f.protype) = 2048
    /\ ntohs(f.opcode) \in {1, 2}

InHostOrder(f) == [f EXCEPT !.hwtype = ntohs(@), !.protype = ntohs(@), !.opcode = ntohs(@)]

(* What a handler does with its packet: how often free_pkb is reached, and *)
(* the frame that was transmitted, if any.                                 *)
Dropped == [frees |-> 1, sent |-> NoFrame]
Forgotten == [frees |-> 0, sent |-> NoFrame]

(* arp_recv: a group address, or one that is not ours, is dropped; net_tx  *)
(* frees the packet that arp_reply sends, and any other is freed behind.   *)
arp_recvFallsThrough(f) ==
    CASE f.adip = "group" \/ f.adip # Us -> Dropped
      [] f.adip = Us /\ f.opcode = 1 -> [frees |-> 2, sent |-> arp_reply(f)]
      [] OTHER -> Dropped
arp_recv(f) ==
    CASE f.adip = "group" \/ f.adip # Us -> Dropped
      [] f.adip = Us /\ f.opcode = 1 -> [frees |-> 1, sent |-> arp_reply(f)]
      [] OTHER -> Dropped

arp_in(f) == IF ArpAccepts(f) THEN arp_recv(InHostOrder(f)) ELSE Dropped

(* net_rx: a RARP or IP frame is left to nobody.                           *)
net_rx(f) ==
    CASE f.size = "no_eth" -> Dropped
      [] f.size # "no_eth" /\ f.pro \in {"RARP", "IP"} -> Forgotten
      [] f.size # "no_eth" /\ f.pro = "ARP" -> arp_in(f)
      [] OTHER -> Dropped

(***************************************************************************)
(* main and the threads that do not handle packets.                        *)
(***************************************************************************)
NetInit ==
    /\ running = TRUE /\ devs = {} /\ tap = "none"
    /\ threads = [t \in {"main", "recv", "timer", "ipc", "signal"} |->
                    IF t = "main" THEN "init" ELSE "none"]
    /\ pkb = NoFrame /\ pkbs = 0 /\ lost = 0
    /\ wire = NoFrame /\ fault = "none"

Go(t, place) == threads' = [threads EXCEPT ![t] = place]

tap_alloc == tap' \in {"open", "bad", "shut"}
netdev_alloc(ds) == devs' = devs \cup ds
netdev_free(d) == devs' = devs \ {d}

(* netdev_init: what tap_alloc returns is not looked at, neither by        *)
(* netdev_alloc nor here; then the four threads.                           *)
MainStart ==
    /\ threads["main"] = "init"
    /\ tap_alloc
    /\ netdev_alloc({"lo", "veth"})
    /\ threads' = [t \in DOMAIN threads |->
                     CASE t = "main" -> "join" [] t = "signal" -> "sigwait" [] OTHER -> "check"]
    /\ UNCHANGED <<running, pkb, pkbs, lost, wire, fault>>

(* The loop of the timer and the ipc thread: test the flag, sleep.         *)
Sleeper(t) ==
    /\ \/ threads[t] = "check" /\ Go(t, IF running THEN "sleep" ELSE "ended")
       \/ threads[t] = "sleep" /\ Go(t, "check")
    /\ UNCHANGED <<running, devs, tap, pkb, pkbs, lost, wire, fault>>

(* SIGINT or SIGQUIT: every round of the loop cancels the ipc thread.      *)
StopSignal ==
    /\ threads["signal"] = "sigwait"
    /\ running' = FALSE
    /\ threads' = [threads EXCEPT !["signal"] = "ended", !["ipc"] = "ended"]
    /\ UNCHANGED <<devs, tap, pkb, pkbs, lost, wire, fault>>

(* tap_free: closing the -1 of a failed open changes nothing.              *)
Shut == IF tap = "bad" THEN tap ELSE "shut"

MainJoinAll ==
    /\ threads["main"] = "join"
    /\ \A t \in DOMAIN threads \ {"main"} : threads[t] = "ended"
    /\ tap' = Shut /\ netdev_free("veth") /\ Go("main", "exit")
    /\ UNCHANGED <<running, pkb, pkbs, lost, wire, fault>>

(* join_threads waits for the signal thread alone; veth_exit closes the    *)
(* descriptor and frees the device.                                        *)
MainLeave ==
    /\ threads["main"] = "join" /\ threads["signal"] = "ended"
    /\ tap' = Shut /\ netdev_free("veth") /\ Go("main", "exit")
    /\ UNCHANGED <<running, pkb, pkbs, lost, wire, fault>>

(* loop_exit, and the return that ends the process with all its threads.   *)
MainReturn ==
    /\ threads["main"] = "exit"
    /\ netdev_free("lo")
    /\ threads' = [t \in DOMAIN threads |-> "ended"]
    /\ UNCHANGED <<running, tap, pkb, pkbs, lost, wire, fault>>

(***************************************************************************)
(* recv_interrupt.                                                         *)
(***************************************************************************)
RecvCheck ==
    /\ threads["recv"] = "check"
    /\ Go("recv", IF running THEN "poll" ELSE "ended")
    /\ UNCHANGED <<running, devs, tap, pkb, pkbs, lost, wire, fault>>

(* poll returns for a frame, or at once for a closed descriptor; it waits  *)
(* for ever on the negative one that a failed open leaves.                 *)
RecvPoll ==
    /\ threads["recv"] = "poll" /\ tap \in {"open", "shut"}
    /\ Go("recv", "read")
    /\ UNCHANGED <<running, devs, tap, pkb, pkbs, lost, wire, fault>>

(* alloc_pkb: the count goes up, and pkb_safe() looks at it.               *)
alloc_pkb(f) == pkb' = f /\ pkbs' = pkbs + 1
pkb_safe == pkbs + 1 <= MaxPkbs

(* alloc_pkb(veth->net_mtu + ...) and its pkb_safe(), then tap_read; a     *)
(* failed read frees the packet again.                                     *)
RecvRead ==
    /\ threads["recv"] = "read"
    /\ IF "veth" \notin devs
       THEN fault' = "use_after_free" /\ UNCHANGED <<pkb, pkbs, threads>>
       ELSE IF ~pkb_safe
       THEN fault' = "too_many_pkbuf" /\ UNCHANGED <<pkb, pkbs, threads>>
       ELSE \/ /\ tap = "open"
               /\ \E f \in Frames : alloc_pkb(f)
               /\ Go("recv", "rx")
               /\ UNCHANGED fault
            \/ /\ tap = "shut"
               /\ Go("recv", "ended") /\ UNCHANGED <<pkb, pkbs, fault>>
    /\ UNCHANGED <<running, devs, tap, lost, wire>>

veth_dev_xmit(f) == wire' = [in |-> pkb, out |-> f]

(* What the handlers did with the packet; every free_pkb counts.           *)
Handled(r) ==
    /\ pkb' = NoFrame /\ pkbs' = pkbs - r.frees
    /\ lost' = IF r.frees = 0 THEN lost + 1 ELSE lost
    /\ IF r.sent = NoFrame THEN wire' = NoFrame ELSE veth_dev_xmit(r.sent)
    /\ Go("recv", "check")
    /\ UNCHANGED fault

RecvHandle ==
    /\ threads["recv"] = "rx"
    /\ IF "veth" \in devs
       THEN Handled(net_rx(pkb))
       ELSE fault' = "use_after_free" /\ UNCHANGED <<pkb, pkbs, lost, wire, threads>>
    /\ UNCHANGED <<running, devs, tap>>

RecvSteps == RecvCheck \/ RecvPoll \/ RecvRead \/ RecvHandle
MainSteps == MainStart \/ MainLeave \/ MainReturn

NetNext ==
    /\ fault = "none"
    /\ RecvSteps \/ MainSteps \/ StopSignal \/ (\E t \in {"timer", "ipc"} : Sleeper(t))

(* The main thread is scheduled; frames and the signal come or not.        *)
MainGoes == fault = "none" /\ MainSteps

NetSpec == NetInit /\ [][NetNext]_netVars /\ WF_netVars(MainGoes)

----------------------------------------------------------------------------
(* The state the threads of main.c share stays within these sets: in       *)
(* particular the number of packets never exceeds MAX_PKBS (pkb_safe).     *)
NetTypeOK ==
    /\ running \in BOOLEAN /\ devs \subseteq {"lo", "veth"}
    /\ tap \in {"none", "bad", "shut", "open"}
    /\ threads["recv"] = "rx" => pkb # NoFrame
    /\ pkbs \in 0..MaxPkbs /\ lost \in 0..MaxPkbs

(* Buffer accounting: whatever path a frame takes through net_rx, arp_in,  *)
(* arp_recv, arp_reply and net_tx, it is freed exactly once, except for    *)
(* the RARP and IP frames, which no code frees.                            *)
BuffersAccounted ==
    pkbs = lost + (IF pkb = NoFrame THEN 0 ELSE 1)

(* What tap_if.c:137 relies on ("let stack handle free is better"): when   *)
(* the receive thread is back at the top of its loop, the stack has freed  *)
(* the packet it was given.                                                *)
StackFrees == threads["recv"] = "check" => pkbs = 0

(* An ARP answer is addressed to the host whose request it answers, in the *)
(* Ethernet header and in the payload, names us as its source, and is in   *)
(* network order: arp_reply and net_tx rewrite the request in place.       *)
ReplyGoesBack ==
    wire # NoFrame =>
        /\ wire.out.dmac = wire.in.smac /\ wire.out.smac = Us
        /\ wire.out.admac = wire.in.smac /\ wire.out.adip = wire.in.asip
        /\ wire.out.asmac = Us /\ wire.out.asip = Us
        /\ wire.out.hwtype = wire.in.hwtype /\ wire.out.protype = wire.in.protype
        /\ wire.out.opcode = ntohs(2) /\ wire.in.opcode = ntohs(1)

(* The receive thread touches a freed veth only after a stop signal: until *)
(* then main waits in join_threads and the devices stay.                   *)
DeviceUntilStop == fault = "use_after_free" => ~running

(* A stop signal ends the program although the receive thread may sit in   *)
(* poll for ever: main waits for the signal thread only.                   *)
StopEndsProgram == (threads["signal"] = "ended") ~> (threads["main"] = "ended" \/ fault # "none")
=============================================================================
