---------------------------- MODULE MyshSession -----------------------------
(***************************************************************************)
(* The commands of mysh on its file system: mysh/fs/vfat.c over the uFAT   *)
(* library and the image file of common/block.c, whose calls open it anew  *)
(* for every block, never look at what fopen returns and report no error.  *)
(* The library is taken at its word (UfatCache, UfatDir): a change is in   *)
(* the cache (dirty) until a sync or an eviction during some later command *)
(* writes it.  A volume is a generation number and a set of entries, each  *)
(* the path to it and whether it is a directory.                           *)
(***************************************************************************)
EXTENDS Integers, Sequences, FiniteSets, SequencesExt

CONSTANTS EntryNames,
          NameLen,               \* the length of each name
          FULL_PATH_LEN, MAX_KEY_WORD_CNT, MAX_KEY_WORD_SIZE,
          cmd_tbl_items,         \* the keywords of the commands
          MaxDepth,
          MaxEntries, MaxFormats, MaxOpens    \* bounds

VARIABLES disk,        \* [gen, items, mixed]; gen 0 is an image of zeros, -1 of something
                       \* else, -2 no image file
          uf,          \* [dev, gen, items, dirty]; gen 0: never opened
          dir,         \* the current directory
          cur_dir_full,
          keywords_cnt,
          proc,        \* "running", "exited", "crashed", "overrun": a keyword was
                       \* written behind the table and nothing can be said of the process
          safe,        \* history: what was there at the last sync of this volume
          opens, limited, formatted   \* history: opens; a cd that left the path behind, a format
sessionVars == <<disk, uf, dir, cur_dir_full, keywords_cnt, proc, safe, opens, limited, formatted>>

Closed == [dev |-> FALSE, gen |-> 0, items |-> {}, dirty |-> {}]
Started == /\ uf' = Closed /\ dir' = <<>> /\ cur_dir_full' = <<>>
           /\ keywords_cnt' = cmd_tbl_items /\ proc' = "running"
           /\ limited' = FALSE /\ formatted' = FALSE /\ opens' = 0
SessionInit ==
    /\ disk \in [gen : {-2, -1, 0, 1}, items : {{}}, mixed : {FALSE}]
    /\ uf = Closed /\ dir = <<>> /\ cur_dir_full = <<>>
    /\ keywords_cnt = cmd_tbl_items /\ proc = "running"
    /\ safe = {} /\ opens = 0 /\ limited = FALSE /\ formatted = FALSE

Child(d, n, isdir) == [path |-> Append(d, n), isdir |-> isdir]
Within(items, d) == {e \in items : Len(e.path) = Len(d) + 1 /\ Front(e.path) = d}
Missing == disk.gen = -2
Stale == ~Missing /\ (uf.gen # disk.gen \/ disk.mixed)
PathOnly == <<dir, cur_dir_full, limited>>
History == <<opens, formatted, safe>>

(* The slots W are written back; a cache filled from another volume makes  *)
(* the image a mixture of two.  Without an image a command gets by with    *)
(* what the cache holds, or dies (ImageGone).                              *)
WriteBack(items, dirty, W) ==
    /\ Missing => W = {}
    /\ uf' = [uf EXCEPT !.items = items, !.dirty = dirty \ W]
    /\ disk' = IF W = {} THEN disk
               ELSE IF Stale THEN [disk EXCEPT !.mixed = TRUE] ELSE [disk EXCEPT !.items = @ \cup W]
NoWriteBack == UNCHANGED <<uf, disk>>

(* CHECK_FS_OPEN looks at uf.dev, which a failed ufat_open leaves set; the *)
(* directory of a session that has never opened one is all zeros.          *)
CHECK_FS_OPEN == uf.dev
Crash == proc' = "crashed" /\ NoWriteBack /\ UNCHANGED <<PathOnly, keywords_cnt, History>>
OnVolume == proc = "running" /\ CHECK_FS_OPEN
NullDirectory == OnVolume /\ opens = 0 /\ Crash
ImageGone == OnVolume /\ opens > 0 /\ Missing /\ Crash

----------------------------------------------------------------------------
ufat_format ==
    /\ proc = "running" /\ disk.gen \in -1 .. MaxFormats - 1
    /\ disk' = [gen |-> IF disk.gen < 1 THEN 1 ELSE disk.gen + 1, items |-> {}, mixed |-> FALSE]
    /\ safe' = {} /\ formatted' = TRUE
    /\ UNCHANGED <<uf, PathOnly, keywords_cnt, proc, opens>>

FormatNowhere == proc = "running" /\ Missing /\ Crash

KeepsBpb == [dev |-> TRUE, gen |-> uf.gen, items |-> disk.items, dirty |-> {}]
(* ufat_open drops the cache as it is; the keywords of the root directory  *)
(* are added to those that are there.                                      *)
OpenedUf == [dev |-> TRUE, gen |-> disk.gen, items |-> disk.items, dirty |-> {}]
(* A long name runs on into the next places, and behind the table.         *)
Room(slot, name) == slot * MAX_KEY_WORD_SIZE + NameLen[name] <= MAX_KEY_WORD_CNT * MAX_KEY_WORD_SIZE
AddKeywords(names) ==
    \/ /\ \A i \in DOMAIN names : Room(keywords_cnt + i - 1, names[i])
       /\ keywords_cnt' = keywords_cnt + Len(names) /\ UNCHANGED proc
    \/ \E i \in DOMAIN names :
          /\ \A j \in 1 .. i - 1 : Room(keywords_cnt + j - 1, names[j])
          /\ ~Room(keywords_cnt + i - 1, names[i])
          /\ keywords_cnt' = keywords_cnt + i - 1 /\ proc' = "overrun"
(* The names of the root directory, in the order they lie in there.        *)
RootNames == {Last(e.path) : e \in Within(disk.items, <<>>)}
Listed(names) == {names[i] : i \in DOMAIN names} = RootNames /\ IsInjective(names)
ufat_open ==
    /\ proc = "running" /\ opens < MaxOpens
    /\ \/ (disk.gen = 0 \/ Missing) /\ Crash
       \/ /\ disk.gen = -1 \/ disk.mixed
          /\ uf' = [uf EXCEPT !.dev = TRUE, !.dirty = {}]
          /\ UNCHANGED <<disk, PathOnly, keywords_cnt, proc, History>>
       \/ /\ disk.gen > 0
          /\ uf' = OpenedUf /\ dir' = <<>> /\ cur_dir_full' = <<>>
          /\ \E k \in 0 .. MaxEntries : \E names \in [1 .. k -> EntryNames] :
                Listed(names) /\ AddKeywords(names)
          /\ opens' = opens + 1 /\ limited' = FALSE /\ formatted' = FALSE
          /\ UNCHANGED <<disk, safe>>

(* touch_func and mkdir_func.  On a volume that is no longer the one that  *)
(* was opened the library may find anything.                               *)
Create(n, isdir) ==
    /\ OnVolume /\ opens > 0 /\ Len(dir) < MaxDepth /\ Cardinality(uf.items) < MaxEntries
    /\ LET there == {e \in Within(uf.items, dir) : Last(e.path) = n}
           new == {Child(dir, n, isdir)}
       IN  \/ there # {} /\ \E W \in SUBSET uf.dirty : WriteBack(uf.items, uf.dirty, W)
           \/ /\ there = {}
              /\ \E W \in SUBSET (uf.dirty \cup new) : WriteBack(uf.items \cup new, uf.dirty \cup new, W)
           \/ Stale /\ NoWriteBack
    /\ UNCHANGED <<PathOnly, keywords_cnt, proc, History>>
touch_func(n) == Create(n, FALSE)
mkdir_func(n) == Create(n, TRUE)

sync_func ==
    /\ OnVolume /\ opens > 0
    /\ WriteBack(uf.items, uf.dirty, uf.dirty)
    /\ safe' = IF Stale \/ Missing THEN safe ELSE uf.items
    /\ UNCHANGED <<PathOnly, keywords_cnt, proc, opens, formatted>>

ls_func ==
    /\ OnVolume /\ opens > 0
    /\ \E W \in SUBSET uf.dirty : WriteBack(uf.items, uf.dirty, W)
    /\ UNCHANGED <<PathOnly, keywords_cnt, proc, History>>

(* cd_func: the directory is changed before the length of the path is      *)
(* looked at.                                                              *)
StrLen(path) == IF path = <<>> THEN 1 ELSE FoldSeq(LAMBDA n, len : len + 1 + NameLen[n], 0, path)
Entered(path, n) == IF StrLen(path) + 1 + NameLen[n] > FULL_PATH_LEN THEN path ELSE Append(path, n)
cd_func(n) ==
    /\ OnVolume /\ opens > 0
    /\ \E W \in SUBSET uf.dirty : WriteBack(uf.items, uf.dirty, W)
    /\ \/ /\ Child(dir, n, TRUE) \in uf.items
          /\ dir' = Append(dir, n) /\ cur_dir_full' = Entered(cur_dir_full, n)
          /\ limited' = (limited \/ cur_dir_full' = cur_dir_full)
          /\ UNCHANGED keywords_cnt
       \/ /\ Child(dir, n, TRUE) \notin uf.items \/ Stale
          /\ UNCHANGED <<PathOnly, keywords_cnt>>
       \/ /\ Child(dir, n, TRUE) \in uf.items /\ Stale       \* entered, but it cannot be read
          /\ dir' = Append(dir, n) /\ limited' = TRUE /\ UNCHANGED <<cur_dir_full, keywords_cnt>>
    /\ UNCHANGED <<proc, History>>
Parent(path) == IF path = <<>> THEN path ELSE Front(path)
cd_up ==
    /\ OnVolume /\ opens > 0 /\ dir # <<>>
    /\ \E W \in SUBSET uf.dirty : WriteBack(uf.items, uf.dirty, W)
    /\ dir' = Front(dir) /\ cur_dir_full' = Parent(cur_dir_full)
    /\ UNCHANGED <<limited, keywords_cnt, proc, History>>

(* exit_func and main: no ufat_close.  A killed shell is no different.     *)
exit_func == /\ proc = "running" /\ proc' = "exited" /\ NoWriteBack
             /\ UNCHANGED <<PathOnly, keywords_cnt, History>>
(* mysh is started again on the same image, or on one of zeros that was    *)
(* made in between (vfat.c:20); a process that has overrun its keywords    *)
(* may have left anything on it.                                           *)
main == /\ proc # "running" /\ Started /\ UNCHANGED safe
        /\ \/ UNCHANGED disk
           \/ Missing /\ disk' = [disk EXCEPT !.gen = 0]
           \/ proc = "overrun" /\ disk' = [disk EXCEPT !.mixed = TRUE]
(* Somebody removes the image file.                                        *)
ImageRemoved == /\ ~Missing /\ disk' = [gen |-> -2, items |-> {}, mixed |-> FALSE] /\ safe' = {}
                /\ UNCHANGED <<uf, PathOnly, keywords_cnt, proc, opens, formatted>>

SessionNext ==
    \/ ufat_format \/ FormatNowhere \/ ufat_open \/ NullDirectory \/ ImageGone \/ ImageRemoved \/ sync_func \/ ls_func \/ cd_up \/ exit_func \/ main
    \/ \E n \in EntryNames : touch_func(n) \/ mkdir_func(n) \/ cd_func(n)
SessionSpec == SessionInit /\ [][SessionNext]_sessionVars

----------------------------------------------------------------------------
SessionTypeOK ==
    /\ disk.gen \in -2 .. MaxFormats /\ disk.mixed \in BOOLEAN
    /\ uf.gen \in 0 .. MaxFormats /\ uf.dirty \subseteq uf.items
    /\ \A e \in disk.items \cup uf.items : Len(e.path) \in 1 .. MaxDepth
    /\ proc \in {"running", "exited", "crashed", "overrun"}

(* What a sync has covered is on the image, or under the open volume for   *)
(* all to see, through every exit, crash and restart until the next format.*)
SyncedKept ==
    ~disk.mixed => /\ safe \subseteq disk.items
                   /\ (opens > 0 /\ uf.gen = disk.gen) => safe \subseteq uf.items

(* The blocks of two formats get mixed on the image only by going on with  *)
(* a volume that was open during a format, or by a process that has        *)
(* written behind its keyword table.                                       *)
OneVolume ==
    [][(disk'.mixed /\ ~disk.mixed) => (formatted /\ uf.gen # disk.gen) \/ proc = "overrun"]_sessionVars

(* The path in the prompt is the directory the commands work in, until cd  *)
(* meets FULL_PATH_LEN or a volume that was formatted while open.          *)
PathRight == opens > 0 => (dir = cur_dir_full \/ limited)

(* The shell dies on a file system command only without an image file, on  *)
(* an image of zeros, or after an ufat open of this session has failed and *)
(* none has succeeded.                                                     *)
CrashExplained == proc = "crashed" => Missing \/ disk.gen = 0 \/ (uf.dev /\ opens = 0)

(* However often a volume is opened (nothing ever takes a keyword out),    *)
(* the shell that still runs has its keywords within their table, and only *)
(* one of some root directory can be written behind it.                    *)
KeywordsFit ==
    /\ proc = "running" => keywords_cnt <= MAX_KEY_WORD_CNT
    /\ proc = "overrun" => opens > 0 /\ \E n \in EntryNames : ~Room(keywords_cnt, n)
=============================================================================
