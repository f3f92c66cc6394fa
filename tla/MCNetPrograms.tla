--------------------------- MODULE MCNetPrograms ---------------------------
(***************************************************************************)
(* The network programs side by side for TLC.  They share nothing: `which' *)
(* chooses one at the start, the others keep their initial state, so that  *)
(* their state spaces add up.                                              *)
(***************************************************************************)
EXTENDS Integers, FiniteSets

CONSTANTS MaxPkbs,
          Hosts, OutHosts, CacheSize, Timeout, WaitTime, Retries, MaxPending,
          Word, MaxRoutes,
          Bytes, SENDBUF_SIZE, Suggested, OutCap, MaxBytes,
          Numbers, MaxAsks,
          Users, Listener, MaxFd, MaxTalk,
          Guests, Letters, PoolSize, RecvSize, MaxLetters

(* MAX_PKBS is a number.                                                   *)
ASSUME NetAssumption == MaxPkbs \in Nat

(* The ARP cache has a slot; its times and retries are numbers; a host is  *)
(* neither the absence of one nor a packet that was freed.                 *)
ASSUME ArpAssumption ==
    /\ CacheSize \in Nat \ {0}
    /\ {Timeout, WaitTime, Retries} \subseteq Nat
    /\ OutHosts \subseteq Hosts /\ Hosts \cap {"null", "freed"} = {}

(* A sum of a header's words folds in a few turns.                         *)
ASSUME IpAssumption == Word \in Nat /\ Word > 4

(* The client of uv-server sends bytes; sendbuf and libuv's buffer have    *)
(* room for one.                                                           *)
ASSUME UvAssumption ==
    /\ Bytes \subseteq 0..255 /\ OutCap \in Nat
    /\ SENDBUF_SIZE \in Nat \ {0} /\ Suggested \in Nat \ {0}

(* The client of the prime server asks about natural numbers.              *)
ASSUME PrimeAssumption == Numbers \subseteq Nat

(* Descriptors of the chat server are numbers; no client is the absence of *)
(* one.                                                                    *)
ASSUME ChatAssumption == {Listener, MaxFd} \subseteq Nat /\ Listener <= MaxFd /\ "nobody" \notin Users

(* The clients are finitely many, they send bytes, a pool has a worker and *)
(* recv has room for a byte.                                               *)
ASSUME BlockAssumption ==
    /\ IsFiniteSet(Guests) /\ Letters \subseteq 0..255
    /\ PoolSize \in Nat \ {0} /\ RecvSize \in Nat \ {0}

VARIABLES which,
    running, devs, tap, threads, pkb, pkbs, lost, wire, fault,
    cache, next, mutex, recv, timer, output, stray, dead, mixed,
    table, passed,
    phase, peer, state, mem, fill, writes, inbox, got, heard, room, client, again, nread,
    behind, killed,
    mode, asker, asks, unread, ps, works, replies, sending, crowded, wild,
    master, fdmax, ready, scan, owner, backlog, user, talk, said, log, since, ears, down,
    kind, guest, post, sentBy, queue, conn, parse, buf, owes, taken, echoed, gone

netv == <<running, devs, tap, threads, pkb, pkbs, lost, wire, fault>>
arpv == <<cache, next, mutex, recv, timer, output, stray, dead, mixed>>
ipv == <<table, passed>>
uvv == <<phase, peer, state, mem, fill, writes, inbox, got, heard, room, client, again, nread,
         behind, killed>>
primev == <<mode, asker, asks, unread, ps, works, replies, sending, crowded, wild>>
chatv == <<master, fdmax, ready, scan, owner, backlog, user, talk, said, log, since, ears, down>>
blockv == <<kind, guest, post, sentBy, queue, conn, parse, buf, owes, taken, echoed, gone>>

Net == INSTANCE NetMain
Arp == INSTANCE ArpCache
Ip == INSTANCE IpRoute
Uv == INSTANCE UvServer
Prime == INSTANCE PrimeServer
Chat == INSTANCE ChatServer
Block == INSTANCE BlockingServers

MCInit ==
    /\ which \in {"net", "arp", "ip", "uv", "prime", "chat", "block"}
    /\ Net!NetInit /\ Arp!ArpInit /\ Ip!IpInit /\ Uv!UvInit
    /\ Prime!PrimeInit /\ (which = "prime" \/ mode = "BLOCK")
    /\ Chat!ChatInit
    /\ Block!BlockInit /\ (which = "block" \/ kind = "pool")

Others ==
    /\ IF which = "net" THEN TRUE ELSE UNCHANGED netv
    /\ IF which = "arp" THEN TRUE ELSE UNCHANGED arpv
    /\ IF which = "ip" THEN TRUE ELSE UNCHANGED ipv
    /\ IF which = "uv" THEN TRUE ELSE UNCHANGED uvv
    /\ IF which = "prime" THEN TRUE ELSE UNCHANGED primev
    /\ IF which = "chat" THEN TRUE ELSE UNCHANGED chatv
    /\ IF which = "block" THEN TRUE ELSE UNCHANGED blockv

MCNext ==
    /\ \/ which = "net" /\ Net!NetNext
       \/ which = "arp" /\ Arp!ArpNext
       \/ which = "ip" /\ Ip!IpNext
       \/ which = "uv" /\ Uv!UvNext
       \/ which = "prime" /\ Prime!PrimeNext
       \/ which = "chat" /\ Chat!ChatNext
       \/ which = "block" /\ Block!BlockNext
    /\ Others
    /\ UNCHANGED which

mcVars == <<which, netv, arpv, ipv, uvv, primev,
            chatv, blockv>>

(* The fairness each module argues for, of the program that runs.          *)
MCFairness ==
    /\ WF_netv(which = "net" /\ Net!MainGoes)
    /\ SF_uvv(which = "uv" /\ Uv!PollEvents)
    /\ WF_uvv(which = "uv" /\ Uv!LoopGoes)
    /\ WF_primev(which = "prime" /\ Prime!PrimeSteps)

MCSpec == MCInit /\ [][MCNext]_mcVars /\ MCFairness

----------------------------------------------------------------------------
(* The properties of the modules, each of the program that runs.           *)

(* Each program keeps its state within the sets its module describes.      *)
TypesOK == CASE which = "net" -> Net!NetTypeOK [] which = "arp" -> Arp!ArpTypeOK
             [] which = "ip" -> Ip!IpTypeOK [] which = "uv" -> Uv!UvTypeOK
             [] which = "prime" -> Prime!PrimeTypeOK [] which = "chat" -> Chat!ChatTypeOK
             [] which = "block" -> Block!BlockTypeOK
(* The receive path of the stack: each packet is freed exactly once, but   *)
(* for RARP and IP frames (net_rx, arp_in), an ARP answer goes to the host *)
(* that asked (arp_reply, net_tx), and the receive thread meets a freed    *)
(* veth only after a stop signal (main.c:122).                             *)
StackSound == which = "net" =>
    Net!BuffersAccounted /\ Net!ReplyGoesBack /\ Net!DeviceUntilStop
(* tap_if.c:137: the stack frees the packets that it is given.             *)
StackFrees == which = "net" => Net!StackFrees
(* A stop signal leads to the end of main.                                 *)
StopEndsProgram == Net!StopEndsProgram
(* The ARP cache in every order of its three activities: but for slots     *)
(* that arp_recv and IP output fill together, a resolved entry holds the   *)
(* address of its own host and a packet leaves for the host it is for; a   *)
(* NULL ae_dev is followed only between arp_entry_alloc and the caller's   *)
(* filling, a freed packet sent only when the last retry ran out meanwhile.*)
ArpSound == which = "arp" =>
    /\ Arp!MacMatches /\ Arp!PacketsReachTheirHost
    /\ Arp!NullDeviceOnlyInWindow /\ Arp!FreedOnlyAtLastRetry /\ Arp!AloneNeverMixed
(* A packet takes the right way: rt_lookup finds the longest matching      *)
(* prefix after any rt_add calls, ip_forward sees network order and passes *)
(* on a smaller, positive ttl, and a header that carries its own checksum  *)
(* has checksum zero.                                                      *)
RoutesRight == which = "ip" =>
    Ip!LongestPrefix /\ Ip!ForwardedSoundly /\ Ip!ChecksumVerifies
(* uv-server echoes exactly while no read overtakes a write callback, and  *)
(* ends for no other reason than the listed ones.                          *)
UvSound == which = "uv" => Uv!UvEchoExact /\ Uv!UvEndsOnlyFor
(* The prime server: isprime is right for every number above one, a client *)
(* that waits gets the answer to its own question, and a freed             *)
(* peer_state_t is used only after a client has left.                      *)
PrimeSound == which = "prime" =>
    Prime!IsPrimeRight /\ Prime!AnswersMatch /\ Prime!WildOnlyAfterLeaving
(* The libuv servers go on: uv-server reads in the end what a client       *)
(* sends, and every request of a client of the prime server that stays is  *)
(* answered.                                                               *)
ServersAnswer == Uv!UvReads /\ Prime!EveryAskAnswered
(* The chat server: master and fdmax cover exactly the open connections,   *)
(* and a client hears all the others, in order, and never itself.          *)
ChatSound == which = "chat" => Chat!MasterIsOpen /\ Chat!HearsTheOthers
(* The blocking servers implement EchoService.                             *)
BlockImplements == Block!BlockImplements
=============================================================================
