----------------------------- MODULE ShellLine ------------------------------
(***************************************************************************)
(* The line editor and the history of mysh/shell/shell.c: the text before  *)
(* the cursor in input[0 .. i-1], the text after it at the end of          *)
(* expand_buf, from ie + 1.  A step that leaves a buffer sets wild, and    *)
(* what follows is not modelled.  Bytes above 127 are negative chars.      *)
(***************************************************************************)
EXTENDS Integers, Sequences, FiniteSetsExt, SequencesExt

CONSTANTS COMMAND_BUF_SIZE, HISTORY_MAXITEMS, ARG_MAX_COUNT,
          Typed,        \* the characters of the keyboard
          Keywords,     \* shell_keywords, a sequence of words
          MaxKeys       \* bound on the keys pressed

Blank == 32
Quote == 34
historyWord == <<104>>      \* the name of the history command

VARIABLES input, i, expand_buf, ie, offset, cmd_records, wild, lost, ran, keys
lineVars == <<input, i, expand_buf, ie, offset, cmd_records, wild, lost, ran, keys>>

Cells == 0 .. COMMAND_BUF_SIZE - 1
Zeros == [k \in Cells |-> 0]
NotRun == [line |-> <<>>, args |-> <<>>]
Before == [k \in 1 .. i |-> input[k - 1]]
After == LET stop == Min({k \in Cells : k > ie /\ expand_buf[k] <= 0})
         IN  [k \in 1 .. stop - ie - 1 |-> expand_buf[ie + k]]

FreshLine(in) == /\ input' = in /\ i' = 0 /\ expand_buf' = Zeros
                 /\ ie' = COMMAND_BUF_SIZE - 2 /\ offset' = 0 /\ UNCHANGED lost
LineInit == /\ input = Zeros /\ i = 0 /\ expand_buf = Zeros /\ ie = COMMAND_BUF_SIZE - 2 /\ offset = 0
            /\ cmd_records = [cmd_idx |-> 0, level |-> 0, cmd_buf |-> [k \in 0 .. HISTORY_MAXITEMS - 1 |-> <<>>]]
            /\ wild = FALSE /\ lost = FALSE /\ ran = NotRun /\ keys = 0

Elsewhere == UNCHANGED cmd_records /\ ran' = NotRun
Wild == wild' = TRUE /\ UNCHANGED <<input, i, expand_buf, ie, offset, lost>> /\ Elsewhere
Safe == UNCHANGED wild /\ Elsewhere

----------------------------------------------------------------------------
(* key_backspace_process clears the cell after the one it gives up.        *)
key_backspace_process ==
    /\ i > 0
    /\ \/ i \notin Cells /\ Wild
       \/ /\ i \in Cells /\ input' = [input EXCEPT ![i] = 0] /\ i' = i - 1
          /\ UNCHANGED <<expand_buf, ie, offset, lost>> /\ Safe

LeftIe == ie - 1
key_left_process ==
    /\ i > 0
    /\ \/ ie \notin Cells /\ Wild
       \/ /\ ie \in Cells /\ i' = i - 1 /\ ie' = LeftIe
          /\ expand_buf' = [expand_buf EXCEPT ![ie] = input[i - 1]]
          /\ input' = [input EXCEPT ![i - 1] = 0]
          /\ lost' = (lost \/ input[i - 1] < 0)
          /\ UNCHANGED offset /\ Safe

key_right_process ==
    /\ After # <<>>
    /\ \/ i \notin Cells /\ Wild
       \/ /\ i \in Cells /\ input' = [input EXCEPT ![i] = expand_buf[ie + 1]] /\ i' = i + 1
          /\ expand_buf' = [expand_buf EXCEPT ![ie + 1] = 0] /\ ie' = ie + 1
          /\ UNCHANGED <<offset, lost>> /\ Safe

(* key_del_process: right, then backspace.                                 *)
key_del_process ==
    /\ After # <<>>
    /\ \/ i + 1 \notin Cells /\ Wild
       \/ /\ i + 1 \in Cells /\ input' = [input EXCEPT ![i] = expand_buf[ie + 1], ![i + 1] = 0]
          /\ expand_buf' = [expand_buf EXCEPT ![ie + 1] = 0] /\ ie' = ie + 1
          /\ UNCHANGED <<i, offset, lost>> /\ Safe

OneTooFar(off) == cmd_records.cmd_idx + off - 1
(* history_process: the C remainder keeps the sign, so an older command    *)
(* than slot 0 is sought before the array.                                 *)
Slot(off) == cmd_records.cmd_idx + off
history_process(off) ==
    \/ Slot(off) < 0 /\ Wild
    \/ LET old == cmd_records.cmd_buf[Slot(off)]
       IN  /\ Slot(off) >= 0 /\ offset' = off
           /\ expand_buf' = Zeros /\ ie' = COMMAND_BUF_SIZE - 2
           /\ input' = [k \in Cells |-> IF k < Len(old) THEN old[k + 1] ELSE 0] /\ i' = Len(old)
           /\ UNCHANGED lost /\ Safe
key_up == history_process(Max({offset - 1, -cmd_records.level}))
key_down == history_process(Min({offset + 1, -1}))

(* find_match and auto_complete: the word after the last blank.            *)
find_match(in) == {n \in DOMAIN Keywords : IsPrefix(in, Keywords[n])}
Word == LET blank_pos == Max({0} \cup {n \in 1 .. i : Before[n] = Blank}) IN SubSeq(Before, blank_pos + 1, i)
auto_complete ==
    LET match == find_match(Word)
    IN  \/ i \notin Cells /\ Wild
        \/ /\ i \in Cells /\ Cardinality(match) # 1
           /\ input' = [input EXCEPT ![i] = 0] /\ UNCHANGED <<i, expand_buf, ie, offset, lost>> /\ Safe
        \/ /\ i \in Cells /\ Cardinality(match) = 1
           /\ LET keyword == Keywords[CHOOSE n \in match : TRUE]
                  end == i + Len(keyword) - Len(Word)
              IN  \/ end \notin Cells /\ Wild
                  \/ /\ end \in Cells /\ i' = end
                     /\ input' = [k \in Cells |-> IF k \in i .. end - 1 THEN keyword[Len(Word) + k - i + 1]
                                                  ELSE IF k = end THEN 0 ELSE input[k]]
                     /\ UNCHANGED <<expand_buf, ie, offset, lost>> /\ Safe

(* read_input, an ordinary character.  The test is on i alone; when it     *)
(* fails the whole line is dropped.                                        *)
typed_char(c) ==
    \/ /\ i >= COMMAND_BUF_SIZE /\ FreshLine(Zeros) /\ Safe
    \/ /\ i < COMMAND_BUF_SIZE /\ input' = [input EXCEPT ![i] = c] /\ i' = i + 1
       /\ UNCHANGED <<expand_buf, ie, offset, lost>> /\ Safe

----------------------------------------------------------------------------
is_blank(l) == \A n \in DOMAIN l : l[n] = Blank

IgnoresQuotes(p, c) ==
    IF p.err THEN p
    ELSE IF c # Blank
    THEN IF Len(p.args) >= ARG_MAX_COUNT THEN [p EXCEPT !.err = TRUE] ELSE [p EXCEPT !.arg = Append(@, c)]
    ELSE IF p.arg # <<>> THEN [p EXCEPT !.args = Append(@, p.arg), !.arg = <<>>] ELSE p
(* parse_command; a command of exactly ARG_MAX_COUNT words has argv[argc]  *)
(* = 0 written over the start of args[0].                                  *)
ParseChar(p, c) ==
    IF p.err THEN p
    ELSE IF c # Blank \/ p.flag
    THEN IF Len(p.args) >= ARG_MAX_COUNT THEN [p EXCEPT !.err = TRUE]
         ELSE [p EXCEPT !.arg = Append(@, c), !.flag = (@ # (c = Quote))]
    ELSE IF p.arg # <<>> THEN [p EXCEPT !.args = Append(@, p.arg), !.arg = <<>>] ELSE p
parse_command(l) ==
    LET p == FoldLeft(LAMBDA a, c : ParseChar(a, c), [args |-> <<>>, arg |-> <<>>, flag |-> FALSE, err |-> FALSE], l)
        args == IF p.arg = <<>> THEN p.args ELSE Append(p.args, p.arg)
    IN  [err |-> p.err, args |-> IF Len(args) = ARG_MAX_COUNT THEN [args EXCEPT ![1] = <<>>] ELSE args]

NeverWraps(r, l) ==
    [cmd_idx |-> r.cmd_idx + 1, level |-> Min({r.level + 1, HISTORY_MAXITEMS}),
     cmd_buf |-> [r.cmd_buf EXCEPT ![r.cmd_idx] = l]]
(* The record shell_execute keeps of a command.                            *)
Recorded(r, l) ==
    [cmd_idx |-> (r.cmd_idx + 1) % HISTORY_MAXITEMS, level |-> Min({r.level + 1, HISTORY_MAXITEMS}),
     cmd_buf |-> [r.cmd_buf EXCEPT ![r.cmd_idx] = l]]
(* shell_execute after read_input returned 0: the line is joined, parsed,  *)
(* recorded and run; history show, clear and <n> are the commands that     *)
(* touch the records.                                                      *)
shell_execute ==
    LET l == Before \o After
        p == parse_command(l)
    IN     \/ Len(l) >= COMMAND_BUF_SIZE /\ Wild
           \/ /\ Len(l) < COMMAND_BUF_SIZE /\ (is_blank(l) \/ p.err)
              /\ FreshLine(Zeros) /\ Safe
           \/ /\ Len(l) < COMMAND_BUF_SIZE /\ ~is_blank(l) /\ ~p.err /\ p.args[1] # historyWord
              /\ FreshLine(Zeros) /\ cmd_records' = Recorded(cmd_records, l)
              /\ ran' = [line |-> l, args |-> p.args] /\ UNCHANGED wild
           \/ /\ Len(l) < COMMAND_BUF_SIZE /\ ~is_blank(l) /\ ~p.err /\ p.args[1] = historyWord
              /\ ran' = [line |-> l, args |-> p.args]
              /\ \/ FreshLine(Zeros) /\ UNCHANGED <<cmd_records, wild>>
                 \/ /\ Len(p.args) = 2 /\ FreshLine(Zeros) /\ UNCHANGED wild
                    /\ cmd_records' = [cmd_records EXCEPT !.level = 0]
                 \/ /\ Len(p.args) = 2 /\ cmd_records.level > cmd_records.cmd_idx    \* show
                    /\ wild' = TRUE /\ UNCHANGED <<input, i, expand_buf, ie, offset, lost, cmd_records>>

LineNext ==
    /\ ~wild /\ keys < MaxKeys /\ keys' = keys + 1
    /\ \/ key_backspace_process \/ key_left_process \/ key_right_process \/ key_del_process
       \/ key_up \/ key_down \/ auto_complete \/ shell_execute \/ \E c \in Typed : typed_char(c)
LineSpec == LineInit /\ [][LineNext]_lineVars

----------------------------------------------------------------------------
LineTypeOK ==
    /\ input \in [Cells -> Typed \cup {0}] /\ expand_buf \in [Cells -> Typed \cup {0}]
    /\ i \in 0 .. COMMAND_BUF_SIZE /\ ie \in -1 .. COMMAND_BUF_SIZE - 2
    /\ offset \in -HISTORY_MAXITEMS .. 0 /\ cmd_records.cmd_idx \in 0 .. HISTORY_MAXITEMS - 1
    /\ cmd_records.level \in 0 .. HISTORY_MAXITEMS /\ wild \in BOOLEAN /\ lost \in BOOLEAN

(* The two buffers and the ring implement the line editor: what Enter runs *)
(* and records is the line on the screen, and up and down show the         *)
(* commands in order, until one of the three cases LineEditor excepts.     *)
Newest(k) == cmd_records.cmd_buf[(cmd_records.cmd_idx - k) % HISTORY_MAXITEMS]
Given == {k \in 1 .. HISTORY_MAXITEMS : \A m \in 1 .. k : Newest(m) # <<>>}
Hidden == wild \/ lost
Ed == INSTANCE LineEditor WITH
          Size <- COMMAND_BUF_SIZE, Depth <- HISTORY_MAXITEMS, Letters <- Typed, Words <- Range(Keywords),
          line <- IF Hidden THEN <<>> ELSE Before \o After, cur <- IF Hidden THEN 0 ELSE i,
          back <- IF Hidden THEN 0 ELSE -offset, past <- IF Hidden THEN <<>> ELSE [k \in Given |-> Newest(k)],
          level <- IF Hidden THEN 0 ELSE cmd_records.level, slot <- IF Hidden THEN 0 ELSE cmd_records.cmd_idx,
          broken <- Hidden
EditorRefined == Ed!Editor

(* The words a command gets are the longest stretches of the line without  *)
(* a blank outside quotes; with ARG_MAX_COUNT of them the first is lost.   *)
ArgsRight ==
    LET l == ran.line
        Quoted(n) == Cardinality({m \in 1 .. n - 1 : l[m] = Quote}) % 2 = 1
        Parts(n) == n \in DOMAIN l /\ (l[n] # Blank \/ Quoted(n))
        From == {n \in DOMAIN l : Parts(n) /\ ~Parts(n - 1)}
        To(n) == Max({m \in n .. Len(l) : \A x \in n .. m : Parts(x)})
        Nth(k) == CHOOSE n \in From : Cardinality({m \in From : m <= n}) = k
        words == [k \in 1 .. Cardinality(From) |-> SubSeq(l, Nth(k), To(Nth(k)))]
    IN  ran # NotRun => ran.args = IF Len(words) = ARG_MAX_COUNT THEN [words EXCEPT ![1] = <<>>] ELSE words
=============================================================================
