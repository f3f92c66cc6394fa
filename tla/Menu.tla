-------------------------------- MODULE Menu --------------------------------
(***************************************************************************)
(* newMenu/menu.cpp: the menu tree that parseMenuConfig builds from the    *)
(* lines of menu_config.ini with a stack of frames, and the walk of        *)
(* getInputAndProcess through it.  A line is the number of its dashes (0   *)
(* for a blank line) and whether it has a function; an item is known by    *)
(* the number of its line.  Frame 0 is NULL, and a pointer fits an int, as *)
(* fnEnterOrEsc has it.                                                    *)
(***************************************************************************)
EXTENDS Integers, Sequences, FiniteSetsExt, SequencesExt

CONSTANTS FRAMES_MAX, ITEMS_MAX, FACTOR,
          Dashes, MaxLines     \* the dashes of a line, the lines of a file

VARIABLES config, lineNo, s32Level,    \* parseMenuConfig
          frames,                      \* the frames got: [cnt, items, up]
          stack, pTopUIFrame,
          phase,                       \* "parse", "run", "quit", "failed", "overrun"
          here,                        \* the frame shown
          picked                       \* the item picked last, 0 for back
menuVars == <<config, lineNo, s32Level, frames, stack, pTopUIFrame, phase, here, picked>>

MenuLines == [level : Dashes, func : BOOLEAN]
MenuInit ==
    /\ config \in UNION {[1 .. n -> MenuLines] : n \in 1 .. MaxLines}
    /\ \A k \in DOMAIN config : config[k].level = 0 => ~config[k].func
    /\ lineNo = 1 /\ s32Level = 0 /\ frames = <<>> /\ stack = <<>> /\ pTopUIFrame = 0
    /\ phase = "parse" /\ here = 0 /\ picked = 0

Item(k) == [line |-> k, lower |-> 0]
(* stItem[s32ItemCnt] of frame f.                                          *)
SetItem(fs, f, it) == [fs EXCEPT ![f].items = SubSeq(@, 1, fs[f].cnt) \o <<it>>]
(* The last item is complete, its lower frame known.                       *)
Complete(fs, f, lower) == [fs EXCEPT ![f].items[fs[f].cnt + 1].lower = lower, ![f].cnt = @ + 1]
Full(fs, f) == fs[f].cnt >= ITEMS_MAX
Step(fs, st) == frames' = fs /\ stack' = st

(* bufGet: one frame is the parser's own.                                  *)
bufGet == Len(frames) + 1 < FRAMES_MAX
NoFrames == phase' = "failed" /\ UNCHANGED <<frames, stack, pTopUIFrame>>
Deeper(k) ==
    LET f == Len(frames) + 1
        up == IF stack = <<>> THEN 0 ELSE Last(stack)
        fs == Append(frames, [cnt |-> 0, items |-> <<Item(k)>>, up |-> up])
    IN  \/ ~bufGet /\ NoFrames
        \/ /\ bufGet /\ pTopUIFrame' = (IF up = 0 THEN f ELSE pTopUIFrame)
           /\ Step(IF up = 0 THEN fs ELSE Complete(fs, up, f), Append(stack, f))
           /\ UNCHANGED phase

OnePop(last, new) == 1
(* The first frame popped has its last item completed; how many more go is *)
(* the difference of the levels.                                           *)
Pops(last, new) == Max({1, (last - new) \div FACTOR})
Shallower(k) ==
    LET st == SubSeq(stack, 1, Len(stack) - Min({Len(stack), Pops(s32Level, config[k].level)}))
        fs == IF stack = <<>> THEN frames ELSE Complete(frames, Last(stack), 0)
    IN  /\ UNCHANGED pTopUIFrame
        /\ IF st = <<>> THEN Step(fs, st) /\ UNCHANGED phase      \* "abnormal002": the line is lost
           ELSE /\ phase' = IF Full(fs, Last(st)) THEN "overrun" ELSE phase
                /\ Step(SetItem(fs, Last(st), Item(k)), st)
Sibling(k) ==
    /\ UNCHANGED <<stack, pTopUIFrame>>
    /\ IF stack = <<>> THEN UNCHANGED <<frames, phase>>
       ELSE LET fs == Complete(frames, Last(stack), 0)
            IN  /\ phase' = IF Full(fs, Last(stack)) THEN "overrun" ELSE phase
                /\ frames' = SetItem(fs, Last(stack), Item(k))

parseMenuConfig ==
    /\ phase = "parse" /\ lineNo <= Len(config)
    /\ LET level == config[lineNo].level
       IN  \/ level > s32Level /\ Deeper(lineNo)
           \/ level < s32Level /\ Shallower(lineNo)
           \/ level = s32Level /\ Sibling(lineNo)
    /\ s32Level' = config[lineNo].level /\ lineNo' = lineNo + 1
    /\ UNCHANGED <<config, here, picked>>
(* The end of the file; main shows the top menu whatever was returned.     *)
Parsed ==
    /\ \/ phase = "parse" /\ lineNo > Len(config)
          /\ frames' = IF stack = <<>> THEN frames ELSE Complete(frames, Last(stack), 0)
       \/ phase = "failed" /\ UNCHANGED frames
    /\ phase' = IF pTopUIFrame = 0 THEN "crash" ELSE "run"
    /\ here' = pTopUIFrame /\ UNCHANGED <<config, lineNo, s32Level, stack, pTopUIFrame, picked>>

----------------------------------------------------------------------------
(* getInputAndProcess.  A frame without items returns at once; an item     *)
(* that has a function and a lower menu runs the function and returns from *)
(* the whole menu.                                                         *)
MenuFixed == <<config, lineNo, s32Level, frames, stack, pTopUIFrame>>
Leaves == phase' = "quit" /\ UNCHANGED here
Pick(n) ==
    LET it == frames[here].items[n]
    IN  /\ phase = "run" /\ n \in 1 .. frames[here].cnt
        /\ picked' = it.line
        /\ IF it.lower = 0 THEN UNCHANGED <<phase, here>>
           ELSE IF config[it.line].func THEN Leaves
           ELSE here' = it.lower /\ UNCHANGED phase
        /\ UNCHANGED MenuFixed
Back ==
    /\ phase = "run" /\ frames[here].cnt > 0 /\ picked' = 0
    /\ IF frames[here].up = 0 THEN Leaves ELSE here' = frames[here].up /\ UNCHANGED phase
    /\ UNCHANGED MenuFixed
Quit == /\ phase = "run" /\ Leaves /\ picked' = 0 /\ UNCHANGED MenuFixed

MenuNext == parseMenuConfig \/ Parsed \/ (\E n \in 1 .. ITEMS_MAX : Pick(n)) \/ Back \/ Quit
MenuSpec == MenuInit /\ [][MenuNext]_menuVars

----------------------------------------------------------------------------
MenuTypeOK ==
    /\ lineNo \in 1 .. MaxLines + 1 /\ s32Level \in Dashes \cup {0} /\ Len(frames) < FRAMES_MAX
    /\ phase \in {"parse", "run", "quit", "failed", "overrun", "crash"}
    /\ pTopUIFrame \in 0 .. Len(frames) /\ here \in 0 .. Len(frames)

(* A file a reader would call well formed: no blank line, each line at     *)
(* most one level below the one before.                                    *)
WellFormed ==
    \A k \in DOMAIN config :
        /\ config[k].level % FACTOR = 0
        /\ config[k].level \in FACTOR .. (IF k = 1 THEN 0 ELSE config[k - 1].level) + FACTOR
ParentLine(k) == Max({0} \cup {j \in 1 .. k - 1 : config[j].level < config[k].level})
Children(k) == {j \in DOMAIN config : ParentLine(j) = k}
Shown(f) == [n \in 1 .. frames[f].cnt |-> frames[f].items[n].line]
(* The menus are those the indentation of a well-formed file means: the    *)
(* top menu has the outermost lines in order, the menu under an item the   *)
(* lines indented below it, and "back" leads to the menu it was in.        *)
MenuMatchesFile ==
    (phase \in {"run", "quit"} /\ WellFormed /\ lineNo > Len(config) /\ Len(frames) + 1 < FRAMES_MAX) =>
        /\ Range(Shown(pTopUIFrame)) = Children(0)
        /\ \A f \in DOMAIN frames :
              /\ \A m, n \in 1 .. frames[f].cnt : m < n => frames[f].items[m].line < frames[f].items[n].line
              /\ \A n \in 1 .. frames[f].cnt :
                    LET it == frames[f].items[n] IN
                    IF it.lower = 0 THEN Children(it.line) = {}
                    ELSE Range(Shown(it.lower)) = Children(it.line) /\ frames[it.lower].up = f

(* The parser writes past the items of a frame only for a file with more   *)
(* than ITEMS_MAX lines in one menu.                                       *)
OverrunExplained ==
    (phase = "overrun" /\ WellFormed) => \E k \in 0 .. Len(config) : Cardinality(Children(k)) > ITEMS_MAX

(* The walk ends by "quit", by "back" at the top, or, with the menu still  *)
(* wanted, at an item that has both a function and a menu below it.        *)
QuitExplained ==
    (phase = "quit" /\ WellFormed) =>
        picked = 0 \/ (config[picked].func /\ Children(picked) # {})
=============================================================================
