---------------------------- MODULE EditorPart -----------------------------
(***************************************************************************)
(* The line editor of mysh on its own.  MCPrograms puts it beside the      *)
(* other programs.                                                         *)
(***************************************************************************)
EXTENDS Integers, Sequences

CONSTANTS COMMAND_BUF_SIZE, HISTORY_MAXITEMS, ARG_MAX_COUNT, Typed, Keywords, MaxKeys

VARIABLES input, i, expand_buf, ie, offset, cmd_records, wild, lost, ran, keys

linev == <<input, i, expand_buf, ie, offset, cmd_records, wild, lost, ran, keys>>

Line == INSTANCE ShellLine

(* No key is the NUL that ends a line; a keyword is text.                  *)
ASSUME LineAssumption ==
    /\ COMMAND_BUF_SIZE \in Nat \ {0, 1} /\ HISTORY_MAXITEMS \in Nat \ {0}
    /\ Typed \subseteq Int \ {0} /\ Keywords \in Seq(Seq(Nat \ {0}))

EditorSpec == Line!LineInit /\ [][Line!LineNext]_linev

(* The two buffers and the ring of mysh implement LineEditor.              *)
EditorRefined == Line!EditorRefined
=============================================================================
