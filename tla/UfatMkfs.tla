------------------------------ MODULE UfatMkfs ------------------------------
(***************************************************************************)
(* mysh/fs/ufat_mkfs.c against the reader in ufat.c: the layout that       *)
(* ufat_mkfs computes and writes down, and what parse_bpb makes of it when *)
(* the volume is opened after a format that may have been cut short.  The  *)
(* two FATs are one value; regions other than the boot sector are "old",   *)
(* "part" or "fresh".  No device here has more blocks than TLC's integers: *)
(* the code for more than UINT32_MAX sectors is left out.                  *)
(***************************************************************************)
EXTENDS Integers, Sequences, FiniteSetsExt, FatCodec

CONSTANTS Sizes,        \* nblk
          BlockLogs     \* log2_block_size

VARIABLES nblk, log2_block_size,
          stage,      \* the next step of ufat_mkfs, "idle" or "failed"
          boot,       \* block 0: a BPB, or Blank
          tables,     \* the FATs
          rootdir,    \* the root directory
          mounted     \* what ufat_open returned: <<>>, <<"error">>, <<"trap">> or <<"volume", geometry>>

mkfsVars == <<nblk, log2_block_size, stage, boot, tables, rootdir, mounted>>

ToBlocks(b, bytes) == (bytes + 2 ^ b - 1) \div 2 ^ b

(* calculate_layout.  log2_spc grows until the clusters fit the threshold. *)
SectorLog(b) == IF b < 9 THEN 9 ELSE b
TypeOf(nsect) == IF nsect < 8400 THEN 12 ELSE IF nsect < 1048576 THEN 16 ELSE 32
SpcLog(b, nsect) ==
    LET t == TypeOf(nsect)
        from == IF t = 32 THEN 3 ELSE 1
        limit == IF t = 12 THEN 4096 ELSE IF t = 16 THEN 65536 ELSE 2097152
    IN  Min({l \in from .. 7 : l = 7 \/ SectorLog(b) + l >= 15 \/ nsect \div 2 ^ l <= limit})
FatBytes(t, n) == IF t = 32 THEN n * 4 ELSE IF t = 16 THEN n * 2 ELSE (n * 3 + 1) \div 2
calculate_layout(n, b) ==
    LET bps == SectorLog(b) - b
        nsect == n \div 2 ^ bps
        t == TypeOf(nsect)
        bpc == bps + SpcLog(b, nsect)
        reserved == (IF t = 32 THEN 32 ELSE 1) * 2 ^ bps
        fat == ToBlocks(b, FatBytes(t, (n - reserved) \div 2 ^ bpc + 2))
        root0 == IF t = 32 THEN 0 ELSE ToBlocks(b, 16384)
        clusters == (n - reserved - root0 - fat * 2) \div 2 ^ bpc + 2
        root == IF t = 32 THEN 0 ELSE n - reserved - fat * 2 - (clusters - 2) * 2 ^ bpc
    IN  [type |-> t, sector |-> SectorLog(b), bpc |-> bpc, reserved |-> reserved, fat |-> fat,
         root |-> root, clusters |-> clusters,
         logical |-> (clusters - 2) * 2 ^ bpc + fat * 2 + reserved + root]

(* write_bpb: the fields of the boot sector, in their widths.              *)
w16(v) == v % 65536
FitsTotal16(l) == l.type # 32 /\ l.logical <= 65535
write_bpb(l, b) ==
    LET bps == l.sector - b
    IN  [bytes_per_sector |-> w16(2 ^ l.sector), sectors_per_cluster |-> (2 ^ (l.bpc - bps)) % 256,
         reserved_sectors |-> w16(l.reserved * 2 ^ bps), fats |-> 2,
         root_entries |-> w16(l.root * 2 ^ (b - 5)),
         total16 |-> IF FitsTotal16(l) THEN w16(l.logical * 2 ^ bps) ELSE 0,
         total32 |-> IF FitsTotal16(l) THEN 0 ELSE l.logical * 2 ^ bps,
         fat16 |-> IF l.type = 32 THEN 0 ELSE w16(l.fat * 2 ^ bps),
         fat32 |-> IF l.type = 32 THEN l.fat * 2 ^ bps ELSE 0,
         root_cluster |-> IF l.type = 32 THEN 2 ELSE 0]
Blank == [bytes_per_sector |-> 0]

(* init_fat12, init_fat16, init_fat32: the bytes or words of a fresh FAT   *)
(* near a cluster, the entries past the last cluster marked bad.           *)
PairBytes(l, pair) ==
    IF pair * 2 >= l.clusters THEN <<247, 127, 255>>
    ELSE IF pair * 2 + 1 >= l.clusters THEN <<0, 112, 255>> ELSE <<0, 0, 0>>
FreshFat12(l, I) == [j \in I |-> IF j < 3 THEN <<248, 143, 255>>[j + 1] ELSE PairBytes(l, j \div 3)[(j % 3) + 1]]
FreshFat(l, I) ==
    LET media == IF l.type = 16 THEN <<65528, 65528>> ELSE <<EOC, EOC, EOC>>
        bad == IF l.type = 16 THEN 65527 ELSE BAD
    IN  [c \in I |-> IF c + 1 \in DOMAIN media THEN media[c + 1] ELSE IF c >= l.clusters THEN bad ELSE 0]
FreshEntry(l, c) ==
    IF l.type = 12 THEN read_fat12(FreshFat12(l, (c \div 2) * 3 .. (c \div 2) * 3 + 2), c)
    ELSE ufat_read_fat(l.type, FreshFat(l, {c}), c)

----------------------------------------------------------------------------
(* log2_exact and parse_bpb.  The division by bytes_per_sector comes       *)
(* before every check; what write_bpb wrote has the signature 0xaa55.      *)
Logs(e) == {k \in 0 .. 15 : 2 ^ k = e}
ParsedType(root_sectors, clusters) ==
    IF root_sectors = 0 THEN 32 ELSE IF clusters <= 4086 THEN 12 ELSE 16
parse_bpb(p, b) ==
    IF p.bytes_per_sector = 0 THEN <<"trap">>
    ELSE IF b < 9 \/ Logs(p.bytes_per_sector) = {} \/ Logs(p.sectors_per_cluster) = {} \/ p.fats = 0
    THEN <<"error">>
    ELSE LET root == (p.root_entries * 32 + p.bytes_per_sector - 1) \div p.bytes_per_sector
             total == IF p.total16 = 0 THEN p.total32 ELSE p.total16
             spf == IF p.fat16 = 0 THEN p.fat32 ELSE p.fat16
             s == Min(Logs(p.bytes_per_sector))
             c == Min(Logs(p.sectors_per_cluster))
             Block(x) == IF b > s THEN x \div 2 ^ (b - s) ELSE x * 2 ^ (s - b)
             clusters == (total - p.reserved_sectors - spf * p.fats - root) \div 2 ^ c + 2
         IN  IF b > s /\ (c < b - s \/ \E x \in {p.reserved_sectors, spf, root} : x % 2 ^ (b - s) # 0)
             THEN <<"error">>
             ELSE <<"volume", [type |-> ParsedType(root, clusters), bpc |-> IF b > s THEN c - (b - s) ELSE c + (s - b),
                     fat_start |-> Block(p.reserved_sectors), fat_size |-> Block(spf), fat_count |-> p.fats,
                     root_start |-> Block(p.reserved_sectors) + Block(spf) * p.fats,
                     cluster_start |-> Block(p.reserved_sectors) + Block(spf) * p.fats + Block(root),
                     clusters |-> clusters, root_cluster |-> IF root = 0 THEN p.root_cluster ELSE 0]>>

Layout == calculate_layout(nblk, log2_block_size)
Other == calculate_layout(Max(Sizes), log2_block_size)    \* an older volume on the device

MkfsInit ==
    /\ nblk \in Sizes /\ log2_block_size \in BlockLogs
    /\ stage = "idle" /\ boot \in {Blank, write_bpb(Other, log2_block_size)}
    /\ tables = "old" /\ rootdir = "old" /\ mounted = <<>>

Geometry == <<nblk, log2_block_size>>
BootFirst == [reserved |-> "boot", boot |-> "fat", fat |-> "root", root |-> "idle"]
(* ufat_mkfs: erase, FATs, root, boot sector; a failed write ends it.      *)
NextStage == [reserved |-> "fat", fat |-> "root", root |-> "boot", boot |-> "idle"]
ufat_mkfs ==
    /\ stage = "idle" /\ mounted = <<>>
    /\ stage' = "reserved" /\ UNCHANGED <<Geometry, boot, tables, rootdir, mounted>>
erase_reserved_blocks ==
    /\ stage = "reserved"
    /\ \/ boot' = Blank /\ stage' \in {NextStage[stage], "failed"}
       \/ stage' = "failed" /\ UNCHANGED boot
    /\ UNCHANGED <<Geometry, tables, rootdir, mounted>>
init_fat ==
    /\ stage = "fat"
    /\ \/ tables' = "fresh" /\ stage' = NextStage[stage]
       \/ tables' = "part" /\ stage' = "failed"
    /\ UNCHANGED <<Geometry, boot, rootdir, mounted>>
init_root ==
    /\ stage = "root"
    /\ \/ rootdir' = "fresh" /\ stage' = NextStage[stage]
       \/ rootdir' = "part" /\ stage' = "failed"
    /\ UNCHANGED <<Geometry, boot, tables, mounted>>
(* write_fsinfo comes first for FAT32, the backup sector last.             *)
write_boot ==
    /\ stage = "boot"
    /\ \/ boot' = write_bpb(Layout, log2_block_size) /\ stage' \in {NextStage[stage], "failed"}
       \/ stage' = "failed" /\ UNCHANGED boot
    /\ UNCHANGED <<Geometry, tables, rootdir, mounted>>
(* The power fails or the shell ends, between any two writes.              *)
Interrupted == /\ stage \notin {"idle", "failed"} /\ stage' = "failed"
               /\ UNCHANGED <<Geometry, boot, tables, rootdir, mounted>>
ufat_open ==
    /\ stage \in {"idle", "failed"} /\ mounted = <<>>
    /\ mounted' = parse_bpb(boot, log2_block_size)
    /\ UNCHANGED <<Geometry, stage, boot, tables, rootdir>>

MkfsNext == \/ ufat_mkfs \/ erase_reserved_blocks \/ init_fat \/ init_root \/ write_boot
            \/ Interrupted \/ ufat_open
MkfsSpec == MkfsInit /\ [][MkfsNext]_mkfsVars

----------------------------------------------------------------------------
MkfsTypeOK ==
    /\ nblk \in Sizes /\ log2_block_size \in BlockLogs
    /\ stage \in {"idle", "failed"} \cup DOMAIN NextStage
    /\ tables \in {"old", "part", "fresh"} /\ rootdir \in {"old", "part", "fresh"}
    /\ boot.bytes_per_sector \in Nat

(* The layout lies on the device, and its FAT has an entry per cluster.    *)
LayoutFits ==
    LET l == Layout
        bits == IF l.type = 12 THEN 12 ELSE l.type
    IN  /\ l.logical <= nblk /\ l.clusters >= 2 /\ l.root >= 0
        /\ l.fat * 2 ^ log2_block_size * 8 >= l.clusters * bits
        /\ (l.type = 12 => l.clusters <= 4086) /\ (l.type = 16 => l.clusters <= 65526)

(* parse_bpb finds in the boot sector exactly the layout ufat_mkfs used,   *)
(* the type it deduces from the number of clusters included.               *)
ParsesBack ==
    LET l == Layout
    IN  parse_bpb(write_bpb(l, log2_block_size), log2_block_size) =
        <<"volume", [type |-> l.type, bpc |-> l.bpc, fat_start |-> l.reserved, fat_size |-> l.fat, fat_count |-> 2,
           root_start |-> l.reserved + 2 * l.fat, cluster_start |-> l.reserved + 2 * l.fat + l.root,
           clusters |-> l.clusters, root_cluster |-> IF l.type = 32 THEN 2 ELSE 0]>>

(* A fresh FAT has every cluster free but a FAT32 root, and none after.    *)
FreshFatRight ==
    LET l == Layout
    IN  \A c \in ({2, 3} \cup l.clusters - 3 .. l.clusters + 2) \cap 2 .. l.clusters + 2 :
            FreshEntry(l, c) = CASE c >= l.clusters -> BAD
                                 [] c = 2 /\ l.type = 32 -> EOC
                                 [] OTHER -> FREE

(* A volume that opens is the old one untouched or the new one complete,   *)
(* wherever ufat_mkfs was cut short; a boot sector of zeros is the one     *)
(* thing that parse_bpb divides by zero on.                                *)
OpensWhole ==
    /\ Len(mounted) = 2 =>
           \/ tables = "old" /\ rootdir = "old" /\ boot = write_bpb(Other, log2_block_size)
           \/ tables = "fresh" /\ rootdir = "fresh" /\ boot = write_bpb(Layout, log2_block_size)
    /\ mounted = <<"trap">> => boot = Blank
=============================================================================
