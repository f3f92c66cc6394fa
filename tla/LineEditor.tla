----------------------------- MODULE LineEditor -----------------------------
(***************************************************************************)
(* What the line editor of mysh promises: a line with a cursor, and the    *)
(* last Depth commands, newest first.  The promise ends (broken) with a    *)
(* line of Size characters, with the cursor moved left over a byte above   *)
(* 127, or with a recall past the start of the ring that keeps the         *)
(* commands.                                                               *)
(***************************************************************************)
EXTENDS Integers, Sequences, FiniteSetsExt

CONSTANTS Size, Depth, Letters, Words

VARIABLES line, cur, back, past, level, slot, broken
editorVars == <<line, cur, back, past, level, slot, broken>>

EditorInit == /\ line = <<>> /\ cur = 0 /\ back = 0
              /\ past = <<>> /\ level = 0 /\ slot = 0 /\ broken = FALSE

Records == <<past, level, slot>>
Replace(l, c, b) == line' = l /\ cur' = c /\ back' = b /\ UNCHANGED broken
Head0(n) == SubSeq(line, 1, n)
Rest(n) == SubSeq(line, n + 1, Len(line))

Insert == \E c \in Letters : Replace(Head0(cur) \o <<c>> \o Rest(cur), cur + 1, back)
Backspace == cur > 0 /\ Replace(Head0(cur - 1) \o Rest(cur), cur - 1, back)
Delete == cur < Len(line) /\ Replace(Head0(cur) \o Rest(cur + 1), cur, back)
Move == \E c \in {cur - 1, cur + 1} \cap 0 .. Len(line) : Replace(line, c, back)
Complete == \E w \in Words : \E n \in 1 .. Len(w) :
                Replace(Head0(cur) \o SubSeq(w, n, Len(w)) \o Rest(cur), cur + Len(w) - n + 1, back)

(* The command shown for back: the newest is 1; 0, after a clear, is what  *)
(* the next command will replace.                                          *)
Shown(b) == IF b = 0 THEN IF Len(past) = Depth THEN past[Depth] ELSE <<>> ELSE past[b]
Recall(b) == b <= slot /\ Replace(Shown(b), Len(Shown(b)), b)
Older == Min({back + 1, level})
Newer == Max({back - 1, 1})

Fresh == line' = <<>> /\ cur' = 0 /\ back' = 0
Reject == cur >= Size /\ Fresh /\ UNCHANGED <<Records, broken>>
Enter == /\ Fresh /\ UNCHANGED broken
         /\ \/ UNCHANGED Records
            \/ level' = 0 /\ UNCHANGED <<past, slot>>
            \/ /\ past' = SubSeq(<<line>> \o past, 1, Min({Depth, Len(past) + 1}))
               /\ level' = Min({Depth, level + 1}) /\ slot' = (slot + 1) % Depth

Breaks ==
    /\ \/ Len(line) >= Size \/ \E n \in 1 .. Len(line) : line[n] < 0
       \/ \E w \in Words : cur + Len(w) >= Size
       \/ Older > slot \/ Newer > slot \/ level > slot
    /\ broken' = TRUE /\ Fresh /\ past' = <<>> /\ level' = 0 /\ slot' = 0

Edit == /\ ~broken
        /\ \/ (Insert \/ Backspace \/ Delete \/ Move \/ Complete \/ Recall(Older) \/ Recall(Newer))
              /\ UNCHANGED Records
           \/ Reject \/ Enter \/ Breaks
Editor == EditorInit /\ [][Edit]_editorVars
=============================================================================
