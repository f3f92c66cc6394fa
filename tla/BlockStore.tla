----------------------------- MODULE BlockStore -----------------------------
(***************************************************************************)
(* What a write-back block cache promises: a memory that always reads back *)
(* the last write, above a disk that lags behind it block by block, and    *)
(* that is all that is left after a power failure.                         *)
(***************************************************************************)
CONSTANTS Home, Zero
VARIABLES mem, disk, got

Store == <<mem, disk, got>>

(* Any blocks may reach the disk at any call, in any order.                *)
Settle == \E S \in SUBSET Home : disk' = [b \in Home |-> IF b \in S THEN mem[b] ELSE disk[b]]

Get(b) == mem' = mem /\ got' = <<b, mem[b]>> /\ Settle
Fail == mem' = mem /\ got' = <<>> /\ Settle
Put(b, v) == mem' = [mem EXCEPT ![b] = v] /\ got' = <<>> /\ Settle
(* A write past the cache: memory and disk agree on the block afterwards.  *)
PutThrough(b, v) ==
    /\ mem' = [mem EXCEPT ![b] = v] /\ got' = <<>>
    /\ disk' = [disk EXCEPT ![b] = v]
(* A write past the cache that fails loses what the cache held.            *)
Spoil(b) == mem' = [mem EXCEPT ![b] = disk[b]] /\ got' = <<>> /\ disk' = disk
Sync == mem' = mem /\ disk' = mem /\ got' = <<"sync">>
Crash == mem' = disk /\ got' = <<>> /\ disk' = disk

StoreInit == disk = [b \in Home |-> Zero] /\ mem = disk /\ got = <<>>
StoreNext ==
    \/ \E b \in Home : Get(b) \/ Spoil(b)
    \/ \E b \in Home : Put(b, mem'[b]) \/ PutThrough(b, mem'[b])
    \/ Fail \/ Sync \/ Crash
StoreSpec == StoreInit /\ [][StoreNext]_Store
=============================================================================
