---------------------------- MODULE MCPrograms -----------------------------
(***************************************************************************)
(* The parts of mysh (the layers of its file system, the line editor, the  *)
(* file system commands) and the menu framework side by side for TLC:      *)
(* `which' chooses one at the start: a part of ShellParts, the line editor *)
(* or one of the layers of the file system above the block cache.          *)
(***************************************************************************)
EXTENDS ShellParts, EditorPart

CONSTANTS FatTypes, NumClusters, BlockSize, BlocksPerCluster, Files, Lengths,
          MaxSize, MaxWrites, MaxErrors,
          Subdirs, PerCluster, RootClusters, Pool, MaxIo, MaxCalls,
          Sizes, BlockLogs,
          Bytes, MaxName, ShortBytes

VARIABLES type, fat, alloc_ptr, data, dirent, file, job, written, nwrites, errors, torn,
    fixedRoot, ents, pool, io, misled, moved, calls,
    nblk, log2_block_size, stage, boot, tables, rootdir, mounted,
    given, stored, shown

filev == <<type, fat, alloc_ptr, data, dirent, file, job, written, nwrites, errors, torn>>
dirv == <<fixedRoot, ents, pool, io, misled, moved, calls>>
mkfsv == <<nblk, log2_block_size, stage, boot, tables, rootdir, mounted>>
namev == <<given, stored, shown>>
restVars == <<filev, dirv, mkfsv, namev, linev>>

File == INSTANCE UfatFile
Dir == INSTANCE UfatDir
Mkfs == INSTANCE UfatMkfs
Name == INSTANCE UfatNames

(* The keyboard: a, h, blank, quote and a byte above 127; the keywords "a" *)
(* and "haa".                                                              *)
MCTyped == {97, 104, 32, 34, -1}
MCNameLen == [n \in EntryNames |-> IF n = "b" THEN 3 ELSE 1]
MCKeywords == << <<97>>, <<104, 97, 97>> >>

MCInit ==
    /\ which \in {"cache", "file", "dir", "mkfs", "name", "line", "session", "menu"}
    /\ IF which = "file" THEN TRUE ELSE type = 16
    /\ IF which = "dir" THEN TRUE ELSE fixedRoot = FALSE
    /\ IF which = "mkfs" THEN TRUE ELSE nblk = 720 /\ log2_block_size = 9 /\ boot = Mkfs!Blank
    /\ IF which = "name" THEN TRUE ELSE given = <<>>
    /\ PartsInit
    /\ File!FileInit /\ Dir!DirInit /\ Mkfs!MkfsInit /\ Name!NameInit
    /\ Line!LineInit

\* What does not run keeps its state.
RestKept ==
    /\ IF which = "file" THEN TRUE ELSE UNCHANGED filev
    /\ IF which = "dir" THEN TRUE ELSE UNCHANGED dirv
    /\ IF which = "mkfs" THEN TRUE ELSE UNCHANGED mkfsv
    /\ IF which = "name" THEN TRUE ELSE UNCHANGED namev
    /\ IF which = "line" THEN TRUE ELSE UNCHANGED linev

RestNext ==
    /\ \/ which = "file" /\ File!FileNext
       \/ which = "dir" /\ Dir!DirNext
       \/ which = "mkfs" /\ Mkfs!MkfsNext
       \/ which = "name" /\ Name!NameNext
       \/ which = "line" /\ Line!LineNext
    /\ RestKept

MCNext == \/ PartsNext /\ UNCHANGED restVars
          \/ RestNext /\ UNCHANGED partVars

\* A behaviour is one of PartsSpec on partVars and, on linev, of EditorSpec.
MCSpec == MCInit /\ [][MCNext]_<<partVars, restVars>>

----------------------------------------------------------------------------
(* The properties of the modules, each of the part that runs.              *)

(* Each part keeps its state within the sets its module describes.         *)
TypesOK == CASE which = "cache" -> Cache!CacheTypeOK [] which = "file" -> File!FileTypeOK
             [] which = "dir" -> Dir!DirTypeOK [] which = "mkfs" -> Mkfs!MkfsTypeOK
             [] which = "name" -> Name!NameTypeOK [] which = "line" -> Line!LineTypeOK
             [] which = "session" -> Session!SessionTypeOK [] which = "menu" -> Menus!MenuTypeOK
(* Files: cluster chains end, are long enough and share nothing; without   *)
(* failed accesses every cluster is free or in a file; a file reads back   *)
(* the last byte written at each position.                                 *)
FilesSound == which = "file" =>
    File!ChainsSound /\ File!NoClusterLost /\ File!FilesReadBack
(* Names: in a directory they are unique whatever their case, so are the   *)
(* short names, and an entry keeps the long name it was created with; a    *)
(* name that can be created is listed as it was given, and one changed     *)
(* character changes the checksum of a short name.                         *)
NamesSound ==
    /\ which = "dir" => Dir!NamesUnique /\ Dir!ShortsUnique /\ Dir!LongNamesKept
    /\ which = "name" => Name!NamesReadBack /\ Name!ChecksumsDiffer
(* The tree of directories: an entry leads to a directory of its own, ".." *)
(* names the parent but for a moved directory, and without failed accesses *)
(* no operation loses a cluster.                                           *)
TreeSound == which = "dir" =>
    Dir!EntriesLead /\ Dir!ParentRight /\ Dir!DirClustersKept
(* ufat_mkfs: the layout fits the device and the FAT the clusters,         *)
(* parse_bpb reads back what write_bpb wrote, the new FAT is free with its *)
(* end marked bad, and after an interrupted format the volume opens whole  *)
(* or not at all.                                                          *)
FormatSound == which = "mkfs" =>
    Mkfs!LayoutFits /\ Mkfs!ParsesBack /\ Mkfs!FreshFatRight /\ Mkfs!OpensWhole
(* parse_command finds the words of the line.                              *)
ArgsRight == which = "line" => Line!ArgsRight
=============================================================================
