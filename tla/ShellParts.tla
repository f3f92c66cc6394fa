---------------------------- MODULE ShellParts -----------------------------
(***************************************************************************)
(* The block cache of mysh's file system, a session of its file system     *)
(* commands, and the menu framework side by side.  `which' is the one that *)
(* runs; the others keep an initial state, so that their state spaces add  *)
(* up.  MCPrograms adds the line editor and the layers of the file system  *)
(* above the block cache.                                                  *)
(***************************************************************************)
EXTENDS Integers, Sequences

CONSTANTS DevBlocks, CacheSlots, FatStart, FatSize, FatCount, CacheValues,
          EntryNames, NameLen, FULL_PATH_LEN, MAX_KEY_WORD_CNT, MAX_KEY_WORD_SIZE,
          cmd_tbl_items, MaxDepth, MaxEntries, MaxFormats, MaxOpens,
          FRAMES_MAX, ITEMS_MAX, FACTOR, Dashes, MaxLines

VARIABLES which,
    dev, desc, order, missed, got,
    disk, uf, dir, cur_dir_full, keywords_cnt, proc, safe, opens, limited, formatted,
    config, lineNo, s32Level, frames, stack, pTopUIFrame, phase, here, picked

cachev == <<dev, desc, order, missed, got>>
sessionv == <<disk, uf, dir, cur_dir_full, keywords_cnt, proc, safe, opens, limited, formatted>>
menuv == <<config, lineNo, s32Level, frames, stack, pTopUIFrame, phase, here, picked>>
partVars == <<which, cachev, sessionv, menuv>>

Cache == INSTANCE UfatCache
Session == INSTANCE MyshSession
Menus == INSTANCE Menu

(* The slots of the cache, and a device that holds the reserved blocks     *)
(* with the BPB and the copies of the FAT.                                 *)
ASSUME CacheAssumption ==
    /\ {DevBlocks, FatSize, FatCount} \subseteq Nat /\ {CacheSlots, FatStart} \subseteq Nat \ {0}
    /\ FatStart + FatSize * FatCount <= DevBlocks /\ 0 \in CacheValues

(* The commands fit into the keyword table, and no name is empty.          *)
ASSUME KeywordAssumption ==
    /\ {MAX_KEY_WORD_CNT, MAX_KEY_WORD_SIZE} \subseteq Nat /\ cmd_tbl_items \in 0 .. MAX_KEY_WORD_CNT
    /\ NameLen \in [EntryNames -> Nat \ {0}]

(* A menu has levels of FACTOR dashes; its sizes are numbers.              *)
ASSUME MenuAssumption ==
    /\ FACTOR \in Nat \ {0} /\ Dashes \subseteq Nat
    /\ {FRAMES_MAX, ITEMS_MAX, MaxLines} \subseteq Nat

PartsInit ==
    /\ IF which = "session" THEN TRUE ELSE disk = [gen |-> 0, items |-> {}, mixed |-> FALSE]
    /\ IF which = "menu" THEN TRUE ELSE config = <<[level |-> 2, func |-> FALSE]>>
    /\ Cache!CacheInit /\ Session!SessionInit /\ Menus!MenuInit

\* What does not run keeps its state.
PartsKept ==
    /\ IF which = "cache" THEN TRUE ELSE UNCHANGED cachev
    /\ IF which = "session" THEN TRUE ELSE UNCHANGED sessionv
    /\ IF which = "menu" THEN TRUE ELSE UNCHANGED menuv

PartsNext ==
    /\ \/ which = "cache" /\ Cache!CacheNext
       \/ which = "session" /\ Session!SessionNext
       \/ which = "menu" /\ Menus!MenuNext
    /\ PartsKept
    /\ UNCHANGED which

PartsSpec == PartsInit /\ [][PartsNext]_partVars

----------------------------------------------------------------------------
(* The properties of the modules, each of the part that runs.              *)

(* The block cache implements a store that a sync makes durable.           *)
StoreRefined == Cache!StoreRefined
(* cache_flush keeps the copies of the FAT equal.                          *)
MirrorsFollow == which = "cache" => Cache!MirrorsFollow
(* A session of file system commands: what a sync has covered stays, two   *)
(* formats mix only through a volume that was open during a format, the    *)
(* prompt shows the current directory, the shell dies on a command only    *)
(* without an image, on zeros or after a failed ufat open, and its         *)
(* keywords are within their table or it is given up.                      *)
SessionSound ==
    /\ [](which = "session" =>
            Session!SyncedKept /\ Session!PathRight /\ Session!CrashExplained /\ Session!KeywordsFit)
    /\ Session!OneVolume
(* The menus are those the indentation of the file means, the parser       *)
(* overruns a frame only for a menu of too many lines, and the menu ends   *)
(* only for the listed reasons.                                            *)
MenuSound == which = "menu" =>
    Menus!MenuMatchesFile /\ Menus!OverrunExplained /\ Menus!QuitExplained
=============================================================================
