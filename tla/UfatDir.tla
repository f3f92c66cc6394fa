------------------------------ MODULE UfatDir ------------------------------
(***************************************************************************)
(* mysh/fs/ufat_ent.c and ufat_dir.c: directories as sequences of raw      *)
(* 32-byte entries, the long-file-name fragments in front of the entries   *)
(* they name, and the tree of directories.  A directory is known by its    *)
(* first cluster; 0 is the root.  A short name is its base and the number  *)
(* ufat_short_next has put behind the tilde, and stands for its checksum   *)
(* too.  Clusters are counted, their chains being those of UfatFile.       *)
(***************************************************************************)
EXTENDS Integers, Sequences, FiniteSetsExt

CONSTANTS Subdirs,       \* first clusters of subdirectories
          PerCluster,    \* raw entries in a cluster
          RootClusters,  \* size of a fixed root directory
          Pool,          \* free clusters at the start
          MaxIo,         \* bound on failing block accesses
          MaxCalls       \* bound on calls that change a directory

VARIABLES fixedRoot,     \* FAT12 and FAT16: the root cannot grow
          ents,          \* the raw entries of each directory; <<>> is not in use
          pool,          \* free clusters
          io,            \* history: failed accesses
          misled,        \* history: a failed search has been taken for "not found"
          moved,         \* history: directories that have been moved
          calls          \* history: calls so far

dirVars == <<fixedRoot, ents, pool, io, misled, moved, calls>>
Dirs == {0} \cup Subdirs

(* The names in use: how many fragments of 13 characters they take, what   *)
(* they are regardless of case, and what ufat_short_first makes of them.   *)
Names == {"longname_first", "LONGNAME_FIRST", "longname_other"}
NumFrags(n) == 2
FoldCase(n) == IF n = "LONGNAME_FIRST" THEN "longname_first" ELSE n
ExactCase(n) == n
ufat_short_first(n) == "LONGNAME"
Dot == <<".", 0>>
DotDot == <<"..", 0>>
Dots == {Dot, DotDot}

Raw == [k |-> "never", name |-> "", seq |-> 0, first |-> FALSE, short |-> Dot,
        dir |-> FALSE, start |-> 0, attr |-> "caller"]
Gone == [Raw EXCEPT !.k = "gone"]
Label == [Raw EXCEPT !.k = "label"]
IsEmpty(e) == e.k \in {"never", "gone"}
ufat_pack_dirent(short, isdir, start, attr) ==
    [Raw EXCEPT !.k = "dos", !.short = short, !.dir = isdir, !.start = start, !.attr = attr]
ufat_lfn_pack_fragment(name, seq, is_first, short) ==
    [Raw EXCEPT !.k = "lfn", !.name = name, !.seq = seq, !.first = is_first, !.short = short]
ufat_init_dirent_cluster == [i \in 1 .. PerCluster |-> Raw]

----------------------------------------------------------------------------
(* Reading.  The parser of long names: what it has seen up to position p.  *)
NoLfn == [seq |-> -1, start |-> 0, short |-> Dot, frags |-> {}]
ufat_lfn_parse(s, e, p) ==
    IF e.first THEN [seq |-> e.seq - 1, start |-> p, short |-> e.short, frags |-> {<<e.name, e.seq>>}]
    ELSE IF e.seq # s.seq \/ s.short # e.short THEN NoLfn
    ELSE [s EXCEPT !.seq = @ - 1, !.frags = @ \cup {<<e.name, e.seq>>}]
Parsed(es) ==
    LET at[p \in 0 .. Len(es)] ==
            IF p = 0 THEN NoLfn
            ELSE IF es[p].k = "lfn" THEN ufat_lfn_parse(at[p - 1], es[p], p) ELSE NoLfn
    IN  at
(* ufat_dir_read and format_name: the entries listed, volume labels not.   *)
ufat_dir_read(es) == {p \in DOMAIN es : es[p].k = "dos"}
LfnOf(es, p) ==
    LET s == Parsed(es)[p - 1] IN IF s.seq = 0 /\ s.short = es[p].short THEN s ELSE NoLfn
Spelled(s) == IF \E n \in Names : s.frags = {<<n, i>> : i \in 1 .. NumFrags(n)}
              THEN CHOOSE n \in Names : s.frags = {<<n, i>> : i \in 1 .. NumFrags(n)} ELSE "garbled"
NameOf(es, p) == LET s == LfnOf(es, p) IN IF s.seq = 0 THEN <<Spelled(s), 0>> ELSE es[p].short
(* ufat_get_filename: from the first fragment again.                       *)
ufat_get_filename(es, lfn, p) ==
    LET part == SubSeq(es, lfn, p - 1)
        s == Parsed(part)[Len(part)]
    IN  IF s.seq = 0 THEN <<Spelled(s), 0>> ELSE es[p].short
KeyOf(n) == <<FoldCase(n[1]), n[2]>>
ufat_dir_find(es, target) == {p \in ufat_dir_read(es) : KeyOf(NameOf(es, p)) = KeyOf(target)}

(* ufat_open_subdir, ufat_dir_find_path: the entry a path leads to.        *)
Nowhere == [d |-> 0, p |-> 0]
ufat_dir_find_path(path) ==
    LET at[i \in 1 .. Len(path)] ==
            LET e == IF i = 1 THEN Nowhere ELSE at[i - 1]
                d == IF i = 1 THEN 0 ELSE ents[e.d][e.p].start
                found == ufat_dir_find(ents[d], path[i])
            IN  IF (i > 1 /\ (e.p = 0 \/ ~ents[e.d][e.p].dir)) \/ found = {} THEN Nowhere
                ELSE [d |-> d, p |-> Min(found)]
    IN  at[Len(path)]
Paths == LET step == {<<n, 0>> : n \in Names} \cup {DotDot}
         IN  {<<a>> : a \in step} \cup {<<a, b>> : a, b \in step}

----------------------------------------------------------------------------
(* Writing.  ufat_short_exists, ufat_short_next: the first free number.    *)
ShortsIn(es) == {es[p].short : p \in ufat_dir_read(es)}
FirstGuess(es, n) == <<ufat_short_first(n), 0>>
ChooseShort(es, n) ==
    <<ufat_short_first(n),
      Min({k \in 0 .. Len(es) : <<ufat_short_first(n), k>> \notin ShortsIn(es)})>>

(* ufat_allocate_raw_dirent: the first run of count empty entries, in a    *)
(* directory that grows by clusters if it may and if there are any.        *)
Runs(es, count) == {p \in 1 .. Len(es) - count + 1 : \A q \in p .. p + count - 1 : IsEmpty(es[q])}
Grown(es, n) == es \o [i \in 1 .. n * PerCluster |-> Raw]
ufat_allocate_raw_dirent(es, grows, free, count) ==
    LET enough == {n \in 0 .. (IF grows THEN free ELSE 0) : Runs(Grown(es, n), count) # {}}
    IN  IF enough # {} THEN [ok |-> TRUE, es |-> Grown(es, Min(enough)), free |-> free - Min(enough),
                             at |-> Min(Runs(Grown(es, Min(enough)), count))]
        ELSE [ok |-> FALSE, es |-> Grown(es, IF grows THEN free ELSE 0),
              free |-> IF grows THEN 0 ELSE free, at |-> 0]

Put(es, at, new, k) == [p \in DOMAIN es |-> IF p \in at .. at + k - 1 THEN new[p - at + 1] ELSE es[p]]
(* insert_dirent: room, then fragments from the last to the first, then    *)
(* the entry; an access that fails leaves the first k of them.             *)
insert_dirent(es, grows, free, e, n) ==
    LET short == ChooseShort(es, n)
        frags == NumFrags(n)
        new == [i \in 1 .. frags |-> ufat_lfn_pack_fragment(n, frags - i + 1, i = 1, short)]
               \o << ufat_pack_dirent(short, e.dir, e.start, e.attr) >>
        r == ufat_allocate_raw_dirent(es, grows, free, frags + 1)
    IN  IF ~r.ok THEN {[r EXCEPT !.at = 0]}
        ELSE {[r EXCEPT !.es = Put(r.es, r.at, new, k), !.ok = (k = Len(new))] : k \in 0 .. Len(new)}

(* delete_entry: the marker in every entry from lfn to p, or the first k.  *)
delete_entry(es, lfn, p, k) == [q \in DOMAIN es |-> IF q \in lfn .. lfn + k - 1 THEN Gone ELSE es[q]]
LfnStart(es, p) == IF LfnOf(es, p).seq = 0 THEN LfnOf(es, p).start ELSE p

Grows(d) == d # 0 \/ ~fixedRoot
(* An outcome with an error that the full device does not explain.         *)
Failing(broken) == IF broken THEN io < MaxIo /\ io' = io + 1 ELSE UNCHANGED io
IoFailed(r) == ~r.ok /\ r.at # 0

DirInit ==
    /\ fixedRoot \in BOOLEAN /\ pool = Pool
    /\ ents = [d \in Dirs |->
                 IF d # 0 THEN <<>> ELSE [i \in 1 .. RootClusters * PerCluster |-> IF i = 2 THEN Label ELSE Raw]]
    /\ io = 0 /\ misled = FALSE /\ moved = {} /\ calls = 0

----------------------------------------------------------------------------
(* The search before a creation: an error counts as "not found".           *)
Vacant(d, n) ==
    \/ ufat_dir_find(ents[d], <<n, 0>>) = {} /\ UNCHANGED misled
    \/ ufat_dir_find(ents[d], <<n, 0>>) # {} /\ io < MaxIo /\ misled' = TRUE

(* The attributes are those of the caller's entry, which touch_func and    *)
(* mkdir_func do not initialise.                                           *)
ufat_dir_mkfile(d, n) ==
    /\ ents[d] # <<>> /\ Vacant(d, n)
    /\ \E r \in insert_dirent(ents[d], Grows(d), pool, Raw, n) :
          /\ ents' = [ents EXCEPT ![d] = r.es] /\ pool' = r.free
          /\ Failing(IoFailed(r) \/ (misled' # misled))
    /\ UNCHANGED <<fixedRoot, moved>>

OwnParent(c, d) ==
    [i \in 1 .. PerCluster |-> CASE i = 1 -> ufat_pack_dirent(Dot, TRUE, c, "caller")
                                 [] i = 2 -> ufat_pack_dirent(DotDot, TRUE, c, "caller")
                                 [] OTHER -> Raw]
create_empty_dir(c, d) ==
    [i \in 1 .. PerCluster |-> CASE i = 1 -> ufat_pack_dirent(Dot, TRUE, c, "caller")
                                 [] i = 2 -> ufat_pack_dirent(DotDot, TRUE, d, "caller")
                                 [] OTHER -> Raw]
(* A directory that could not be entered gives its cluster back.           *)
ufat_free_chain(all, c) == [all EXCEPT ![c] = <<>>]
Undo(c, r, all) == ents' = ufat_free_chain(all, c) /\ pool' = r.free + 1
ufat_dir_create(d, n) ==
    /\ ents[d] # <<>> /\ Vacant(d, n) /\ pool > 0
    /\ \E c \in {x \in Subdirs : ents[x] = <<>>} :
          /\ \A x \in Subdirs : x < c => ents[x] # <<>>
          /\ \E r \in insert_dirent(ents[d], Grows(d), pool - 1,
                                    [Raw EXCEPT !.dir = TRUE, !.start = c], n) :
                LET all == [ents EXCEPT ![d] = r.es, ![c] = create_empty_dir(c, d)]
                IN  /\ IF r.ok THEN ents' = all /\ pool' = r.free ELSE Undo(c, r, all)
                    /\ Failing(IoFailed(r) \/ (misled' # misled))
    /\ UNCHANGED <<fixedRoot, moved>>

verify_empty_dir(c) == \A p \in ufat_dir_read(ents[c]) : ents[c][p].short \in Dots
ufat_dir_delete(path) ==
    LET t == ufat_dir_find_path(path)
        e == ents[t.d][t.p]
        lfn == LfnStart(ents[t.d], t.p)
        all == t.p - lfn + 1
    IN  /\ t.p # 0 /\ e.short \notin Dots
        /\ e.dir => verify_empty_dir(e.start)
        /\ \E k \in 0 .. all, freed \in BOOLEAN :
              LET left == [ents EXCEPT ![t.d] = delete_entry(@, lfn, t.p, k)] IN
              /\ freed => k = all
              /\ IF freed /\ e.dir
                 THEN /\ ents' = ufat_free_chain(left, e.start)
                      /\ pool' = pool + Len(ents[e.start]) \div PerCluster
                 ELSE ents' = left /\ UNCHANGED pool
              /\ Failing(~freed)
        /\ UNCHANGED <<fixedRoot, misled, moved>>

(* ufat_move: a new entry first, then the old one goes; if it cannot, the  *)
(* new one goes again.                                                     *)
ufat_move(path, dst, n) ==
    LET t == ufat_dir_find_path(path)
        e == ents[t.d][t.p]
        lfn == LfnStart(ents[t.d], t.p)
        all == t.p - lfn + 1
    IN  /\ t.p # 0 /\ e.short \notin Dots /\ ents[dst] # <<>> /\ Vacant(dst, n)
        /\ \E r \in insert_dirent(ents[dst], Grows(dst), pool, e, n) :
              LET in == [ents EXCEPT ![dst] = r.es] IN
              /\ pool' = r.free
              /\ \/ /\ r.ok /\ ents' = [in EXCEPT ![t.d] = delete_entry(@, lfn, t.p, all)]
                    /\ moved' = IF e.dir /\ dst # t.d THEN moved \cup {e.start} ELSE moved
                    /\ Failing(misled' # misled)
                 \/ \E k \in 0 .. all - 1 :
                       /\ r.ok /\ misled' = misled /\ Failing(TRUE) /\ UNCHANGED moved
                       /\ ents' = [in EXCEPT ![t.d] = delete_entry(@, lfn, t.p, k),
                                             ![dst] = delete_entry(@, r.at, r.at + NumFrags(n), NumFrags(n) + 1)]
                 \/ ~r.ok /\ ents' = in /\ Failing(IoFailed(r) \/ (misled' # misled)) /\ UNCHANGED moved
        /\ UNCHANGED fixedRoot

(* The user's attributes change on files only; the entry is packed again.  *)
ufat_update_attributes(path) ==
    LET t == ufat_dir_find_path(path)
        e == ents[t.d][t.p]
    IN  /\ t.p # 0
        /\ ents' = [ents EXCEPT ![t.d][t.p] =
                       ufat_pack_dirent(e.short, e.dir, e.start, IF e.dir THEN e.attr ELSE "user")]
        /\ UNCHANGED <<fixedRoot, pool, io, misled, moved>>

DirNext ==
    /\ calls < MaxCalls /\ calls' = calls + 1
    /\ \/ \E d \in Dirs, n \in Names : ufat_dir_mkfile(d, n) \/ ufat_dir_create(d, n)
       \/ \E path \in Paths :
             \/ ufat_dir_delete(path) \/ ufat_update_attributes(path)
             \/ \E d \in Dirs, n \in Names : ufat_move(path, d, n)
DirSpec == DirInit /\ [][DirNext]_dirVars

----------------------------------------------------------------------------
InUse == {d \in Dirs : ents[d] # <<>>}
Listed(d) == {p \in ufat_dir_read(ents[d]) : ents[d][p].short \notin Dots}

DirTypeOK ==
    /\ fixedRoot \in BOOLEAN /\ pool \in 0 .. Pool /\ io \in 0 .. MaxIo
    /\ misled \in BOOLEAN /\ moved \subseteq Subdirs
    /\ \A d \in Dirs : Len(ents[d]) % PerCluster = 0 /\ \A p \in DOMAIN ents[d] :
          ents[d][p].k \in {"never", "gone", "label", "lfn", "dos"} /\ ents[d][p].start \in Dirs

(* No directory lists two entries whose names differ in case only, except  *)
(* after an access failed while ufat_dir_find looked for the name.         *)
NamesUnique ==
    misled \/ \A d \in InUse : \A p, q \in Listed(d) :
                  KeyOf(NameOf(ents[d], p)) = KeyOf(NameOf(ents[d], q)) => p = q
(* Short names are unique in a directory even then.                        *)
ShortsUnique ==
    \A d \in InUse : \A p, q \in ufat_dir_read(ents[d]) : ents[d][p].short = ents[d][q].short => p = q
(* Without failed accesses every entry keeps the long name that it was     *)
(* created with, and ufat_get_filename finds the same from its position.   *)
LongNamesKept ==
    io = 0 => \A d \in InUse : \A p \in Listed(d) :
                 /\ NameOf(ents[d], p)[1] \in Names
                 /\ ufat_get_filename(ents[d], LfnStart(ents[d], p), p) = NameOf(ents[d], p)
(* A directory entry leads to a directory in use whose "." is itself, and  *)
(* that no other entry leads to.                                           *)
EntriesLead ==
    \A d \in InUse : \A p \in Listed(d) : ents[d][p].dir =>
        /\ ents[d][p].start \in InUse \ {0} /\ ents[ents[d][p].start][1].start = ents[d][p].start
        /\ \A c \in InUse : \A q \in Listed(c) : (ents[c][q].dir /\ ents[c][q].start = ents[d][p].start) => <<c, q>> = <<d, p>>
(* ".." names the directory that holds the entry, unless it was moved.     *)
ParentRight ==
    \A d \in InUse : \A p \in Listed(d) :
        (ents[d][p].dir /\ ents[d][p].start \notin moved) => ents[ents[d][p].start][2].start = d
(* Without failed accesses no cluster is lost by a failed creation.        *)
DirClustersKept ==
    io = 0 => pool + FoldSet(LAMBDA d, n : n + Len(ents[d]) \div PerCluster, 0, Dirs) = Pool + RootClusters
=============================================================================
