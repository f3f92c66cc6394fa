------------------------------ MODULE UfatFile ------------------------------
(***************************************************************************)
(* mysh/fs/ufat.c (the FAT) and ufat_file.c: cluster chains in their       *)
(* on-disk encoding and the files stored in them.  The block cache is      *)
(* transparent (UfatCache shows it is a store); an access through it can   *)
(* fail, which `errors' counts.  A file operation runs as a series of      *)
(* steps, `job', that nothing interrupts: the library is single threaded.  *)
(* After an operation fails its handle is not used again.  A FAT12 entry   *)
(* in two blocks can be left half written: what follows it in its chain is *)
(* then a cluster nobody chose, perhaps of another file, perhaps outside   *)
(* the volume.  Reads and further calls go on; the model ends where a      *)
(* write or the freeing of a chain goes through such an entry ("astray").  *)
(* Byte k of the w-th write is <<w, k>>.                                   *)
(***************************************************************************)
EXTENDS Integers, Sequences, FiniteSetsExt, SequencesExt, FatCodec

CONSTANTS FatTypes, NumClusters, BlockSize, BlocksPerCluster, Files,
          Lengths,    \* what a call transfers or skips
          MaxSize, MaxWrites, MaxErrors

VARIABLES type, fat, alloc_ptr,    \* struct ufat
          data,      \* the blocks of each cluster
          dirent,    \* of each file on disk: [start, size]
          file,      \* struct ufat_file of each file, or Closed
          job,       \* the operation under way
          written,   \* history: the last byte written at each position of a file
          nwrites,   \* history: the writes so far
          errors,    \* history: failed accesses
          torn       \* history: the FAT entries left half written

fileVars == <<type, fat, alloc_ptr, data, dirent, file, job, written, nwrites, errors, torn>>
disk == <<type, fat, alloc_ptr, data, dirent, torn>>

ClusterSize == BlockSize * BlocksPerCluster
Clusters == 2 .. NumClusters - 1

----------------------------------------------------------------------------
Entry(c) == ufat_read_fat(type, fat, c)
Usable(c) == ~(c = 4080 /\ type = 12)
ufat_count_free_clusters == Cardinality({c \in Clusters : Usable(c) /\ Entry(c) = FREE})

(* A write of entry i fails: before its first byte, or between its two     *)
(* bytes if they lie in different blocks of the FAT.                       *)
Straddles(i) ==
    LET o == (i \div 2) * 3 + (i % 2)
    IN  type = 12 /\ o \div BlockSize # (o + 1) \div BlockSize
Failed(table, i, v) ==
    LET h == half_fat12(table, i, v) IN
    {[table |-> table, torn |-> {}]}
        \cup IF ~Straddles(i) THEN {}
             ELSE {[table |-> h, torn |-> IF h \in {table, ufat_write_fat(type, table, i, v)} THEN {} ELSE {i}]}
Leaves(t) == fat' = t.table /\ torn' = torn \cup t.torn

(* The clusters met by following a chain, at most all of them, as far as   *)
(* an entry left half written.                                             *)
ChainFrom(c) ==
    LET nth[n \in 0 .. NumClusters] ==
            IF n = 0 THEN c ELSE IF IS_PTR(nth[n - 1]) /\ nth[n - 1] \notin torn THEN Entry(nth[n - 1]) ELSE FREE
        len == Min({n \in 0 .. NumClusters : ~IS_PTR(nth[n])} \cup {NumClusters})
    IN  [n \in 1 .. len |-> nth[n - 1]]
(* ufat_free_chain when only its first k clusters can be written.          *)
Freed(f, chain, k) ==
    FoldSet(LAMBDA i, g : ufat_write_fat(type, g, chain[i], FREE), f, 1 .. k)

(* alloc_cluster: the first free cluster from alloc_ptr on, round about.   *)
Total == NumClusters - 2
Rounds == {i \in 0 .. Total - 1 :
               LET c == ((alloc_ptr + i) % Total) + 2 IN Usable(c) /\ Entry(c) = FREE}
Allocated == ((alloc_ptr + Min(Rounds)) % Total) + 2
NextPtr == (alloc_ptr + Min(Rounds) + 1) % Total

----------------------------------------------------------------------------
Closed == [start |-> 0, size |-> 0, prev |-> 0, cur |-> 0, pos |-> 0, open |-> FALSE]
Idle == [op |-> "idle", f |-> 0, left |-> 0, at |-> 0, got |-> <<>>]

FileInit ==
    /\ type \in FatTypes
    /\ fat = [i \in 0 .. (IF type = 12 THEN ((NumClusters + 1) \div 2) * 3 - 1 ELSE NumClusters - 1) |-> 0]
    /\ alloc_ptr = 0
    /\ data = [c \in Clusters |-> [i \in 0 .. ClusterSize - 1 |-> <<>>]]
    /\ dirent = [f \in Files |-> [start |-> 0, size |-> 0]]
    /\ file = [f \in Files |-> Closed] /\ job = Idle
    /\ written = [f \in Files |-> [i \in 0 .. MaxSize - 1 |-> <<>>]]
    /\ nwrites = 0 /\ errors = 0 /\ torn = {}

(* The operation returns an error, and its caller gives the handle up.     *)
GiveUp(f) == file' = [file EXCEPT ![f] = Closed] /\ job' = Idle
Astray == job' = [Idle EXCEPT !.op = "astray"] /\ UNCHANGED <<disk, file, written, nwrites, errors>>
ErrorAt(f) == errors < MaxErrors /\ errors' = errors + 1 /\ GiveUp(f)

ufat_open_file(f) ==
    /\ job = Idle /\ ~file[f].open
    /\ file' = [file EXCEPT ![f] = [start |-> dirent[f].start, size |-> dirent[f].size, prev |-> 0,
                                    cur |-> dirent[f].start, pos |-> 0, open |-> TRUE]]
    /\ UNCHANGED <<disk, job, written, nwrites, errors>>
ufat_file_rewind(f) ==
    /\ job = Idle /\ file[f].open /\ file[f].pos > 0
    /\ file' = [file EXCEPT ![f].prev = 0, ![f].cur = file[f].start, ![f].pos = 0]
    /\ UNCHANGED <<disk, job, written, nwrites, errors>>

(* advance_ptr: follow the chain across the cluster boundaries passed.     *)
NeverCrosses(h, nbytes, table) == [h EXCEPT !.pos = @ + nbytes]
advance_ptr(h, nbytes, table) ==
    LET n == (h.pos + nbytes) \div ClusterSize - h.pos \div ClusterSize
        nth[i \in -1 .. n] == IF i = -1 THEN h.prev ELSE IF i = 0 THEN h.cur
                              ELSE ufat_read_fat(type, table, nth[i - 1])
    IN  [h EXCEPT !.prev = nth[n - 1], !.cur = nth[n], !.pos = @ + nbytes]

ufat_file_advance(f, nbytes) ==
    LET h == file[f]
        n == Min({nbytes, h.size - h.pos})
    IN  /\ job = Idle /\ h.open /\ n > 0
        /\ file' = [file EXCEPT ![f] = advance_ptr(h, n, fat)]
        /\ UNCHANGED <<disk, job, written, nwrites, errors>>

----------------------------------------------------------------------------
(* How much the next step of a read or a write transfers: the rest of a    *)
(* block, then whole blocks of one cluster, then the start of a block.     *)
Fragment(pos, size) == Min({size, BlockSize - (pos % BlockSize)}) % BlockSize
WholeBlocks(pos, size) ==
    Min({size \div BlockSize, BlocksPerCluster - ((pos \div BlockSize) % BlocksPerCluster)}) * BlockSize
Chunk(pos, size) ==
    IF pos % BlockSize = 0 /\ size >= BlockSize THEN WholeBlocks(pos, size) ELSE Fragment(pos, size)

ufat_file_read(f, size) ==
    LET h == file[f] IN
    /\ job = Idle /\ h.open /\ h.pos < h.size
    /\ job' = [Idle EXCEPT !.op = "read", !.f = f, !.left = Min({size, h.size - h.pos}), !.at = h.pos]
    /\ UNCHANGED <<disk, file, written, nwrites, errors>>
(* One call of read_block_fragment or read_blocks.                         *)
ReadStep ==
    LET f == job.f
        h == file[f]
        n == Chunk(h.pos, job.left)
    IN  /\ job.op = "read" /\ job.left > 0
        /\ \/ /\ IF IS_PTR(h.cur)
                 THEN /\ job' = [job EXCEPT !.left = @ - n, !.got = @ \o
                                   [i \in 1 .. n |-> data[h.cur][(h.pos + i - 1) % ClusterSize]]]
                      /\ file' = [file EXCEPT ![f] = advance_ptr(h, n, fat)]
                 ELSE GiveUp(f)
              /\ UNCHANGED errors
           \/ ErrorAt(f)
        /\ UNCHANGED <<disk, written, nwrites>>
ReadDone == job.op = "read" /\ job.left = 0 /\ job' = Idle /\ UNCHANGED <<disk, file, written, nwrites, errors>>

(* ensure_room: what it leaves in the FAT, or why it fails.                *)
NewLink(h, c, table) == IF IS_PTR(h.prev) THEN ufat_write_fat(type, table, h.prev, c) ELSE table
WithRoom(h) ==
    IF IS_PTR(h.cur) THEN [table |-> fat, cur |-> h.cur, ptr |-> alloc_ptr, first |-> FALSE]
    ELSE [table |-> NewLink(h, Allocated, ufat_write_fat(type, fat, Allocated, EOC)),
          cur |-> Allocated, ptr |-> NextPtr, first |-> ~IS_PTR(h.prev)]
(* It fails: no cluster, or no link and the new cluster is freed again.    *)
NoRoom(h) ==
    LET new == ufat_write_fat(type, fat, Allocated, EOC)
        unlinked == IF IS_PTR(h.prev) THEN Failed(new, h.prev, Allocated) ELSE {[table |-> new, torn |-> {}]}
    IN  Failed(fat, Allocated, EOC)
            \cup {[u EXCEPT !.table = ufat_write_fat(type, @, Allocated, FREE)] : u \in unlinked}
            \cup UNION {{[x EXCEPT !.torn = @ \cup u.torn] : x \in Failed(u.table, Allocated, FREE)} : u \in unlinked}
HasRoom(h) == IS_PTR(h.cur) \/ Rounds # {}

ufat_file_write(f, len) ==
    /\ job = Idle /\ file[f].open
    /\ nwrites < MaxWrites /\ file[f].pos + len <= MaxSize
    /\ job' = [Idle EXCEPT !.op = "write", !.f = f, !.left = len, !.at = file[f].pos]
    /\ nwrites' = nwrites + 1
    /\ UNCHANGED <<disk, file, written, errors>>

(* One call of write_block_fragment or write_blocks: room, data, advance.  *)
Stored(c, pos, n) ==
    [data EXCEPT ![c] = [i \in DOMAIN @ |->
        IF i \in (pos % ClusterSize) .. (pos % ClusterSize) + n - 1
        THEN <<nwrites, pos - (pos % ClusterSize) + i - job.at>> ELSE @[i]]]
WriteStep ==
    LET f == job.f
        h == file[f]
        n == Chunk(h.pos, job.left)
        r == WithRoom(h)
        g == IF r.first THEN [h EXCEPT !.start = r.cur, !.cur = r.cur] ELSE [h EXCEPT !.cur = r.cur]
        Room == /\ fat' = r.table /\ alloc_ptr' = r.ptr
                /\ dirent' = IF r.first THEN [dirent EXCEPT ![f].start = r.cur] ELSE dirent
        Transfer == /\ data' = Stored(r.cur, h.pos, n)
                    /\ written' = [written EXCEPT ![f] = [i \in DOMAIN @ |->
                           IF i \in h.pos .. h.pos + n - 1 THEN <<nwrites, i - job.at>> ELSE @[i]]]
    IN  /\ job.op = "write" /\ job.left > 0 /\ h.prev \notin torn
        /\ \/ /\ HasRoom(h) /\ Room /\ Transfer
              /\ \/ /\ file' = [file EXCEPT ![f] = advance_ptr(g, n, r.table)]
                    /\ job' = [job EXCEPT !.left = @ - n] /\ UNCHANGED errors
                 \/ ErrorAt(f)                                  \* advance_ptr fails
              /\ UNCHANGED torn
           \/ /\ HasRoom(h) /\ Room /\ ErrorAt(f)               \* the block cannot be opened
              /\ UNCHANGED <<data, written, torn>>
           \/ /\ ~HasRoom(h) /\ GiveUp(f)                       \* UFAT_ERR_NO_CLUSTERS
              /\ UNCHANGED <<fat, alloc_ptr, data, dirent, written, errors, torn>>
           \/ /\ HasRoom(h) /\ ~IS_PTR(h.cur) /\ ErrorAt(f)
              /\ alloc_ptr' = r.ptr
              /\ \E t \in NoRoom(h) : Leaves(t)
              /\ UNCHANGED <<data, dirent, written>>
        /\ UNCHANGED <<type, nwrites>>
WriteAstray == job.op = "write" /\ job.left > 0 /\ file[job.f].prev \in torn /\ Astray
(* set_size, if the file has grown.                                        *)
WriteDone ==
    LET f == job.f IN
    /\ job.op = "write" /\ job.left = 0
    /\ \/ /\ job' = Idle /\ UNCHANGED errors
          /\ file' = [file EXCEPT ![f].size = Max({@, file[f].pos})]
          /\ dirent' = [dirent EXCEPT ![f].size = Max({file[f].size, file[f].pos})]
       \/ file[f].pos > file[f].size /\ ErrorAt(f) /\ UNCHANGED dirent
    /\ UNCHANGED <<type, fat, alloc_ptr, data, written, nwrites, torn>>

(* The size first, then the end of the chain, then the clusters behind it. *)
Behind(h) == ChainFrom(CASE h.pos = 0 -> h.start
                         [] h.pos % ClusterSize # 0 -> IF h.cur \in torn THEN h.cur ELSE Entry(h.cur)
                         [] OTHER -> IF h.prev \in torn THEN h.prev ELSE h.cur)
ufat_file_truncate(f) ==
    LET h == file[f]
        inside == h.pos % ClusterSize # 0
        end == CASE h.pos > 0 /\ inside -> {h.cur}
                 [] h.pos > 0 /\ ~inside /\ IS_PTR(h.cur) -> {h.prev}
                 [] OTHER -> {}
        cut == FoldSet(LAMBDA c, g : ufat_write_fat(type, g, c, EOC), fat, end)
        tail == Behind(h)
        start == IF h.pos = 0 THEN 0 ELSE h.start
        Sized == dirent' = [dirent EXCEPT ![f] = [start |-> start, size |-> h.pos]]
        Kept == file' = [file EXCEPT ![f].size = h.pos, ![f].start = start,
                                     ![f].cur = IF inside THEN @ ELSE 0]
    IN  /\ job = Idle /\ h.open /\ Range(tail) \cap torn = {}
        /\ \/ /\ Sized /\ Kept /\ fat' = Freed(cut, tail, Len(tail)) /\ UNCHANGED <<job, errors, torn>>
           \/ /\ dirent' \in {dirent, [dirent EXCEPT ![f].size = h.pos]}
              /\ ErrorAt(f) /\ UNCHANGED <<fat, torn>>
           \/ \E c \in end : \E t \in Failed(fat, c, EOC) : Sized /\ Leaves(t) /\ ErrorAt(f)
           \/ \E k \in 0 .. Len(tail) - 1 : \E t \in Failed(Freed(cut, tail, k), tail[k + 1], FREE) :
                  /\ Sized /\ Leaves(t)
                  /\ IF h.pos > 0 /\ ~inside    \* the result of ufat_free_chain is not looked at
                     THEN Kept /\ errors < MaxErrors /\ errors' = errors + 1 /\ UNCHANGED job
                     ELSE ErrorAt(f)
        /\ UNCHANGED <<type, alloc_ptr, data, written, nwrites>>
TruncateAstray(f) == job = Idle /\ file[f].open /\ Range(Behind(file[f])) \cap torn # {} /\ Astray

FileNext ==
    \/ \E f \in Files :
          \/ ufat_open_file(f) \/ ufat_file_rewind(f) \/ ufat_file_truncate(f) \/ TruncateAstray(f)
          \/ \E n \in Lengths : ufat_file_advance(f, n) \/ ufat_file_read(f, n) \/ ufat_file_write(f, n)
    \/ ReadStep \/ ReadDone \/ WriteStep \/ WriteAstray \/ WriteDone
FileSpec == FileInit /\ [][FileNext]_fileVars

----------------------------------------------------------------------------
FileTypeOK ==
    /\ type \in FatTypes /\ alloc_ptr \in 0 .. Total - 1
    /\ \A i \in DOMAIN fat : fat[i] \in Nat
    /\ \A f \in Files : dirent[f].size \in 0 .. MaxSize /\ file[f].pos \in 0 .. MaxSize
    /\ job.op \in {"idle", "read", "write", "astray"} /\ errors \in 0 .. MaxErrors
    /\ torn \subseteq {c \in Clusters : Straddles(c)}

(* The chain of every file is long enough for the size in its directory    *)
(* entry and shares no cluster, whatever access has failed; it ends in EOC *)
(* or, once an access has failed between the bytes of a FAT12 entry in two *)
(* blocks, in that entry (ufat.c:558).                                     *)
ChainsSound == job.op # "astray" =>
    \A f \in Files :
        LET c == ChainFrom(dirent[f].start) IN
        /\ dirent[f].start # 0 => /\ Len(c) < NumClusters /\ Len(c) > 0
                                  /\ Entry(c[Len(c)]) = EOC \/ c[Len(c)] \in torn
        /\ Len(c) * ClusterSize >= dirent[f].size
        /\ \A g \in Files \ {f} : Range(c) \cap Range(ChainFrom(dirent[g].start)) = {}

(* Without failed accesses no cluster is lost: each is free or in a file.  *)
NoClusterLost ==
    errors = 0 =>
        ufat_count_free_clusters
            = Total - FoldSet(LAMBDA f, n : n + Len(ChainFrom(dirent[f].start)), 0, Files)

(* Every byte below the size is the last one written at its position, on   *)
(* the disk and in what a read has returned, also after failed writes and  *)
(* in a file whose chain ends in a half-written entry.                     *)
FilesReadBack == job.op # "astray" =>
    /\ \A f \in Files : \A i \in 0 .. dirent[f].size - 1 :
           data[ChainFrom(dirent[f].start)[i \div ClusterSize + 1]][i % ClusterSize] = written[f][i]
    /\ job.op = "read" => \A k \in 1 .. Len(job.got) : job.got[k] = written[job.f][job.at + k - 1]
=============================================================================
