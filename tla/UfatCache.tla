------------------------------ MODULE UfatCache ------------------------------
(***************************************************************************)
(* mysh/fs/ufat.c: the block cache of the uFAT library, between the FAT,   *)
(* directory and file code above and a device whose calls can fail.  The   *)
(* sequence numbers of the slots count for their order only: `order' has   *)
(* the least recently used slot first.  A call is one action, and its      *)
(* result is one of the outcomes that failing device calls allow; a device *)
(* call that fails changes nothing, and ranges are of one block.  Block 0, *)
(* with the BPB, is only read.                                             *)
(***************************************************************************)
EXTENDS Integers, Sequences, FiniteSetsExt

CONSTANTS DevBlocks, CacheSlots,
          FatStart, FatSize, FatCount,    \* of the BPB
          CacheValues                     \* contents of a block; 0 is all zeros

VARIABLES dev,      \* the device: a content per block
          desc,     \* the slots: [present, dirty, index, data]
          order,    \* the slots, least recently used first
          missed,   \* history: mirror blocks whose last write failed
          got       \* what the last call returned

cacheVars == <<dev, desc, order, missed, got>>

Blocks == 0 .. DevBlocks - 1
Slots == 0 .. CacheSlots - 1
Mirrors(b) == IF b \in FatStart .. FatStart + FatSize - 1
              THEN {b + i * FatSize : i \in 1 .. FatCount - 1} ELSE {}
Home == Blocks \ UNION {Mirrors(b) : b \in Blocks}    \* what the layers above use
DataBlocks == {b \in Blocks : b >= FatStart + FatSize * FatCount}

NoSlot == [present |-> FALSE, dirty |-> FALSE, index |-> 0, data |-> 0]
State == [ok |-> TRUE, dev |-> dev, desc |-> desc, order |-> order, missed |-> missed, slot |-> 0]
Failed(s) == [s EXCEPT !.ok = FALSE]
Cached(d, b) == {i \in Slots : d[i].present /\ d[i].index = b}
Holds(s, b) == Cached(s.desc, b)

(* The slots I have reached the device, the mirror copies in bad have not. *)
Dirty(d, I) == {i \in I : d[i].present /\ d[i].dirty}
Writers(d, I, bad, b) == {i \in Dirty(d, I) : b \in {d[i].index} \cup (Mirrors(d[i].index) \ bad)}
Copies(d, I) == UNION {Mirrors(d[i].index) : i \in Dirty(d, I)}
Flushed(s, I, bad) ==
    [s EXCEPT !.dev = [b \in Blocks |-> IF Writers(s.desc, I, bad, b) = {} THEN s.dev[b]
                                        ELSE s.desc[Min(Writers(s.desc, I, bad, b))].data],
              !.desc = [i \in Slots |-> IF i \in I THEN [s.desc[i] EXCEPT !.dirty = FALSE] ELSE s.desc[i]],
              !.missed = (s.missed \ Copies(s.desc, I)) \cup (bad \cap Copies(s.desc, I))]
AllMirrors == UNION {Mirrors(b) : b \in Blocks}

Unmirrored(s, i) ==
    IF ~(s.desc[i].dirty /\ s.desc[i].present) THEN {s}
    ELSE {Failed(s), [s EXCEPT !.dev[s.desc[i].index] = s.desc[i].data, !.desc[i].dirty = FALSE]}
cache_flush(s, i) ==
    IF ~(s.desc[i].dirty /\ s.desc[i].present) THEN {s}
    ELSE {Failed(s)} \cup {Flushed(s, {i}, bad) : bad \in SUBSET Mirrors(s.desc[i].index)}

(* The slot for a block that is not cached: a free one, or the oldest.     *)
LastFree(s) == {i \in Slots : ~s.desc[i].present}
Victim(s) == IF LastFree(s) # {} THEN Max(LastFree(s)) ELSE s.order[1]
Newest(o, i) ==
    LET p == CHOOSE p \in 1 .. CacheSlots : o[p] = i
    IN  [k \in 1 .. CacheSlots |-> IF k < p THEN o[k] ELSE IF k = CacheSlots THEN i ELSE o[k + 1]]
Touched(s, i) == [s EXCEPT !.order = Newest(s.order, i), !.slot = i]
Filled(s, i, b, v) ==
    Touched([s EXCEPT !.desc[i] = [present |-> TRUE, dirty |-> FALSE, index |-> b, data |-> v]], i)

ForgetsToFlush(s, b, skip_read) ==
    IF Holds(s, b) # {} THEN {Touched(s, Min(Holds(s, b)))}
    ELSE LET i == Victim(s) IN {Filled(s, i, b, IF skip_read THEN 0 ELSE s.dev[b])}
ufat_cache_open(s, b, skip_read) ==
    IF Holds(s, b) # {} THEN {Touched(s, Min(Holds(s, b)))}
    ELSE LET i == Victim(s)
         IN  UNION {IF ~f.ok THEN {f}
                    ELSE IF skip_read THEN {Filled(f, i, b, 0)}
                    ELSE {Filled(f, i, b, f.dev[b]), Failed([f EXCEPT !.desc[i] = NoSlot])} :
                    f \in cache_flush(s, i)}

(* ufat_cache_evict: flush and drop, until a flush fails.                  *)
Dropped(s, I) == [s EXCEPT !.desc = [i \in Slots |-> IF i \in I THEN NoSlot ELSE s.desc[i]]]
DropsUnwritten(s, b) == {Dropped(s, Holds(s, b))}
ufat_cache_evict(s, b) ==
    IF Holds(s, b) = {} THEN {s}
    ELSE {IF f.ok THEN Dropped(f, Holds(s, b)) ELSE f : f \in cache_flush(s, Min(Holds(s, b)))}
KeepsStale(s, b) == s
ufat_cache_invalidate(s, b) == Dropped(s, Holds(s, b))

CacheInit ==
    /\ dev = [b \in Blocks |-> 0] /\ missed = {} /\ got = <<>>
    /\ desc = [i \in Slots |-> NoSlot] /\ order = [i \in 1 .. CacheSlots |-> i - 1]

Becomes(s, result) ==
    /\ dev' = s.dev /\ desc' = s.desc /\ order' = s.order /\ missed' = s.missed
    /\ got' = IF s.ok THEN result ELSE <<>>

----------------------------------------------------------------------------
(* What the layers above do with a block.                                  *)
ReadBlock(b) == \E s \in ufat_cache_open(State, b, FALSE) : Becomes(s, <<b, s.desc[s.slot].data>>)
Modified(s, v) == IF s.ok THEN [s EXCEPT !.desc[s.slot].dirty = TRUE, !.desc[s.slot].data = v] ELSE s
WriteBlock(b, v) == \E s \in ufat_cache_open(State, b, FALSE) : Becomes(Modified(s, v), <<>>)
ZeroBlock(b) == \E s \in ufat_cache_open(State, b, TRUE) : Becomes(Modified(s, 0), <<>>)

(* read_blocks and write_blocks go past the cache.                         *)
ReadThrough(b) ==
    \E s \in ufat_cache_evict(State, b) : Becomes(s, <<b, s.dev[b]>>) \/ Becomes(Failed(s), <<>>)
WriteThrough(b, v) ==
    LET s == ufat_cache_invalidate(State, b)
    IN  Becomes([s EXCEPT !.dev[b] = v], <<>>) \/ Becomes(Failed(s), <<>>)

(* A slot that cannot be written stays dirty, and the others go on.        *)
ufat_sync ==
    \E bad \in SUBSET AllMirrors, I \in SUBSET Slots :
        /\ \A i \in Slots \ I : desc[i].present /\ desc[i].dirty
        /\ Becomes([Flushed(State, I, bad) EXCEPT !.ok = (I = Slots)], <<"sync">>)

(* ufat_open after a power failure, or again without a sync.               *)
ufat_open ==
    LET empty == [State EXCEPT !.desc = [i \in Slots |-> NoSlot],
                               !.order = [i \in 1 .. CacheSlots |-> i - 1]]
    IN  \E s \in ufat_cache_open(empty, 0, FALSE) : Becomes(s, <<>>)

CacheNext ==
    \/ \E b \in Home : ReadBlock(b)
    \/ \E b \in Home \ {0}, v \in CacheValues : WriteBlock(b, v)
    \/ \E b \in DataBlocks : ZeroBlock(b) \/ ReadThrough(b) \/ (\E v \in CacheValues : WriteThrough(b, v))
    \/ ufat_sync \/ ufat_open
CacheSpec == CacheInit /\ [][CacheNext]_cacheVars

----------------------------------------------------------------------------
CacheTypeOK ==
    /\ dev \in [Blocks -> CacheValues] /\ missed \subseteq AllMirrors
    /\ desc \in [Slots -> [present : BOOLEAN, dirty : BOOLEAN, index : Blocks, data : CacheValues]]
    /\ order \in [1 .. CacheSlots -> Slots]

(* cache_flush: each further copy of the FAT equals the first one, except  *)
(* where its last mirror write has failed.                                 *)
MirrorsFollow == \A b \in Blocks : \A c \in Mirrors(b) : c \in missed \/ dev[c] = dev[b]

(* The cache implements a store that reads back the last write and that    *)
(* ufat_sync makes durable, whatever was evicted, dropped or failed.       *)
Mem(v, d) == [b \in Home |-> IF Cached(d, b) = {} THEN v[b] ELSE d[CHOOSE i \in Cached(d, b) : TRUE].data]
Disk(v) == [b \in Home |-> v[b]]
Abstract == INSTANCE BlockStore WITH Zero <- 0, disk <- Disk(dev), mem <- Mem(dev, desc)
StoreRefined == Abstract!StoreSpec
=============================================================================
