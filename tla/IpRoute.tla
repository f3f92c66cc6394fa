------------------------------ MODULE IpRoute ------------------------------
(***************************************************************************)
(* The IP layer of src/tcpip/ip: the routing table with rt_add and         *)
(* rt_lookup, and the way of one packet through ip_in, ip_recv_route,      *)
(* ip_recv_local and ip_forward.  Addresses are three bits, a netmask is   *)
(* its prefix length: with the addresses stored in network order on a      *)
(* little-endian host a longer mask is the larger integer, which is what   *)
(* rt_add compares.  Header words are numbers below Word instead of 2^16.  *)
(* Sending, reassembly, ICMP and the transport layer are comments in the   *)
(* code: a packet that gets there is neither passed on nor freed.          *)
(***************************************************************************)
EXTENDS Integers, Sequences, SequencesExt

CONSTANTS Word,       \* 2^16
          MaxRoutes   \* bound on rt_add calls

Addrs == {0, 1} \X {0, 1} \X {0, 1}
OurAddr == <<1, 0, 0>>
TapAddr == <<1, 0, 1>>   \* FAKE_TAP_ADDR

VARIABLES table,   \* rt_head
          passed   \* the last packet ip_in has dealt with, and how

ipVars == <<table, passed>>

Route(net, len, gw, metric, flags, dev) ==
    [net |-> net, len |-> len, gw |-> gw, metric |-> metric, flags |-> flags, dev |-> dev]

(* rt_init, in its order.                                                  *)
rt_init == << Route(<<0, 0, 0>>, 1, <<0, 0, 0>>, 0, "RT_LOCALHOST", "lo"),
              Route(OurAddr, 3, <<0, 0, 0>>, 0, "RT_LOCALHOST", "lo"),
              Route(<<1, 0, 0>>, 2, <<0, 0, 0>>, 0, "RT_NONE", "veth"),
              Route(<<0, 0, 0>>, 0, TapAddr, 0, "RT_DEFAULT", "veth") >>

(* Further routes a caller may add: a remote host and a remote net.        *)
OtherRoutes == { Route(<<1, 1, 0>>, 3, TapAddr, 1, "RT_NONE", "veth"),
                 Route(<<1, 1, 0>>, 2, <<1, 0, 0>>, 1, "RT_NONE", "lo") }

SameNet(len, a, b) == SubSeq(a, 1, len) = SubSeq(b, 1, len)

Hits(t, a) == {k \in 1..Len(t) : SameNet(t[k].len, a, t[k].net)}
rt_lookup(a) == IF Hits(table, a) = {} THEN <<>> ELSE << table[Min(Hits(table, a))] >>

(* The new entry goes before the first one whose mask is not longer.       *)
rt_addAtTail(t, r) == Append(t, r)
rt_add(t, r) ==
    LET after == {k \in 1..Len(t) : r.len >= t[k].len}
    IN  IF after = {} THEN Append(t, r) ELSE InsertAt(t, Min(after), r)

(***************************************************************************)
(* checksum(): the ones' complement of the folded sum of the words.        *)
(***************************************************************************)
Fold(sum) == (sum % Word) + (sum \div Word)
FoldAll[s \in 0..(4 * Word)] == IF s < Word THEN s ELSE FoldAll[Fold(s)]
checksum(h) == (Word - 1) - FoldAll[h.ttl + h.rest + h.csum]

(***************************************************************************)
(* A packet: what ip_in looks at.  `order' is the byte order len, id and   *)
(* frag_offset are in.                                                     *)
(***************************************************************************)
Good(a, ttl, rest) ==
    LET h == [ttl |-> ttl, rest |-> rest, csum |-> 0] IN
    [otherhost |-> FALSE, short |-> FALSE, version |-> 4, hlenOk |-> TRUE, lenOk |-> TRUE,
     padded |-> FALSE, hdr |-> [h EXCEPT !.csum = checksum(h)], src |-> TapAddr, dst |-> a,
     frag |-> {}, proto |-> "udp", big |-> FALSE, order |-> "net"]

Packets ==
    LET some == {Good(a, t, r) : a \in Addrs, t \in {0, 1, 2}, r \in {0, Word - 1}}
        odd(p) == { [p EXCEPT !.otherhost = TRUE], [p EXCEPT !.short = TRUE],
                    [p EXCEPT !.version = 6], [p EXCEPT !.hlenOk = FALSE],
                    [p EXCEPT !.lenOk = FALSE], [p EXCEPT !.padded = TRUE],
                    [p EXCEPT !.hdr.csum = (@ + 1) % Word],
                    [p EXCEPT !.frag = {"MF"}], [p EXCEPT !.frag = {"MF", "DF"}],
                    [p EXCEPT !.proto = "ospf"], [p EXCEPT !.big = TRUE],
                    [p EXCEPT !.big = TRUE, !.frag = {"DF"}] }
    IN  some \cup UNION {odd(p) : p \in {Good(a, 2, Word - 1) : a \in {OurAddr, <<1, 1, 1>>}}}

swapOrder(p) == [p EXCEPT !.order = IF @ = "net" THEN "host" ELSE "net"]

(* What became of packet p; hop is the next hop of a forwarded packet.     *)
Fate(p, what, seen) == [pkt |-> p, what |-> what, seen |-> seen, hop |-> <<>>]

ip_recv_local(p) ==
    IF {"MF", "DF"} \subseteq p.frag \/ p.proto = "ospf"
    THEN Fate(p, "freed", <<>>) ELSE Fate(p, "kept", <<>>)

(* The checksum is computed over the header with the old one still in it.  *)
ip_forward(p, rt) ==
    LET h == [p.hdr EXCEPT !.ttl = @ - 1]
        q == [p EXCEPT !.hdr = [h EXCEPT !.csum = checksum(h)]]
        hop == IF rt.flags = "RT_DEFAULT" \/ rt.metric > 0 THEN rt.gw ELSE p.dst
    IN  IF p.hdr.ttl <= 1 THEN Fate(p, "freed", <<p.order>>)
        ELSE IF p.big /\ "DF" \in p.frag THEN Fate(q, "freed", <<p.order>>)
        ELSE [Fate(q, "kept", <<p.order>>) EXCEPT !.hop = hop]

(* rt_input, then up or on; the header goes back to network order before   *)
(* it is forwarded.                                                        *)
ip_recv_route(p) ==
    LET rt == rt_lookup(p.dst) IN
    IF rt = <<>> THEN Fate(swapOrder(p), "freed", <<>>)
    ELSE IF rt[1].flags = "RT_LOCALHOST" THEN ip_recv_local(p)
    ELSE ip_forward(swapOrder(p), rt[1])

ip_in(p) ==
    IF \/ p.otherhost \/ p.short \/ p.version # 4 \/ ~p.hlenOk
       \/ checksum(p.hdr) # 0
    THEN Fate(p, "freed", <<>>)
    ELSE IF ~p.lenOk THEN Fate(swapOrder(p), "freed", <<>>)
    ELSE ip_recv_route(swapOrder([p EXCEPT !.padded = FALSE]))

----------------------------------------------------------------------------
IpInit == table = <<>> /\ passed = <<>>

RtAdd(r) ==
    /\ Len(table) < MaxRoutes /\ passed = <<>>
    /\ table' = rt_add(table, r)
    /\ UNCHANGED passed

RtInit ==
    /\ Len(table) + Len(rt_init) <= MaxRoutes /\ passed = <<>>
    /\ table' = rt_add(rt_add(rt_add(rt_add(table, rt_init[1]), rt_init[2]), rt_init[3]), rt_init[4])
    /\ UNCHANGED passed

IpIn(p) ==
    /\ passed = <<>>
    /\ passed' = << p, ip_in(p) >>
    /\ UNCHANGED table

IpNext ==
    \/ \E r \in OtherRoutes \cup Range(rt_init) : RtAdd(r)
    \/ RtInit
    \/ \E p \in Packets : IpIn(p)

----------------------------------------------------------------------------
(* The table and the last packet are made of the records above.            *)
IpTypeOK ==
    /\ Range(table) \subseteq OtherRoutes \cup Range(rt_init) /\ Len(table) <= MaxRoutes
    /\ passed # <<>> => passed[2].what \in {"freed", "kept"}

(* Longest prefix match: in whatever order routes are added, the route     *)
(* rt_lookup returns for an address has the longest mask of all that match *)
(* it, and it returns one whenever one matches.                            *)
LongestPrefix ==
    \A a \in Addrs :
        LET fits == {r \in Range(table) : SameNet(r.len, a, r.net)}
            rt   == rt_lookup(a)
        IN  IF fits = {} THEN rt = <<>>
            ELSE rt # <<>> /\ \A r \in fits : r.len <= rt[1].len

(* ip_forward sees the header in network order ("Assert pkb is net-order", *)
(* ip.c:52), however the packet came there, and the ttl of a packet that   *)
(* goes on is one less and not zero.                                       *)
ForwardedSoundly ==
    passed # <<>> /\ passed[2].seen # <<>> =>
        /\ passed[2].seen = <<"net">>
        /\ passed[2].what = "kept" =>
              passed[2].pkt.hdr.ttl = passed[1].hdr.ttl - 1 /\ passed[2].pkt.hdr.ttl > 0

(* RFC 1071, as utils.c:43-44 describes it: the checksum of a header that  *)
(* holds the checksum computed over it with the field zero is zero.        *)
ChecksumVerifies ==
    ipVars = << <<>>, <<>> >> => \A t \in 0..(Word - 1), r \in 0..(Word - 1) :
        LET h == [ttl |-> t, rest |-> r, csum |-> 0]
        IN  checksum([h EXCEPT !.csum = checksum(h)]) = 0
=============================================================================
