----------------------------- MODULE WorkerDemo -----------------------------
(***************************************************************************)
(* workthread/main.c: main creates two workers, pauses and resumes the     *)
(* process worker, which itself pauses and resumes the input worker, then  *)
(* tells both to stop and joins them.  The workers print, and printf holds *)
(* the lock of stdout; the handler workerHold prints too.                  *)
(*                                                                         *)
(* Time passes in seconds: a thread that calls sleep(1) goes on at the     *)
(* next Tick, and everything else a thread does takes no time, so a Tick   *)
(* waits until every thread sleeps, waits or is blocked.  What the threads *)
(* do within a second is interleaved in any order.                         *)
(***************************************************************************)
EXTENDS WorkThread

CONSTANTS Process, Input,               \* the two workers
          Rounds,                       \* main's loop: 50 seconds
          PauseProcess, ResumeProcess,  \* main's rounds 8 and 16
          PauseInput, ResumeInput,      \* processTask's counts 10 and 15
          SignalsInPrintf               \* TRUE: SIGUSR1 may interrupt printf

ASSUME DemoAssumption == /\ Process # Input /\ Workers = {Process, Input}
                         /\ {Rounds, PauseProcess, ResumeProcess, PauseInput,
                             ResumeInput} \subseteq Nat \ {0}
                         /\ PauseProcess < ResumeProcess
                         /\ PauseInput < ResumeInput
                         /\ SignalsInPrintf \in BOOLEAN

VARIABLES mainPc,   \* where main is
          round,    \* main's i
          at,       \* at[w]: where the user function of w is
          count,    \* count[w]: its i, up to ResumeInput + 1
          stop,     \* inputShouldStop and processShouldStop
          stdout    \* the worker that holds the lock of stdout, or "free"

demoVars == <<mainPc, round, at, count, stop, stdout>>
vars == <<workVars, demoVars>>

Init == /\ WorkInit
        /\ mainPc = "createProcess" /\ round = 0
        /\ at = [w \in Workers |-> "hello"] /\ count = [w \in Workers |-> 0]
        /\ stop = FALSE /\ stdout = "free"

-----------------------------------------------------------------------------
(* main.                                                                   *)

MainGoes(from, to) == process = "running" /\ mainPc = from /\ mainPc' = to

MainCreates ==
    /\ \/ MainGoes("createProcess", "createInput") /\ Create(Process)
       \/ MainGoes("createInput", "loop") /\ Create(Input)
    /\ UNCHANGED <<round, at, count, stop, stdout>>

\* while(i++ < 50), up to the first thing to do in the round
MainRound ==
    /\ round < Rounds
    /\ round' = round + 1
    /\ MainGoes("loop", CASE round' = PauseProcess -> "pause"
                          [] round' = ResumeProcess -> "resume"
                          [] OTHER -> "sleep")
    /\ UNCHANGED <<workVars, at, count, stop, stdout>>

MainPauses ==
    /\ \/ MainGoes("pause", "kill") /\ Reset(Process)
       \/ MainGoes("kill", "sleep") /\ Kill(Process)
    /\ UNCHANGED <<round, at, count, stop, stdout>>

MainResumes == /\ MainGoes("resume", "sleep")
               /\ Post(Process)
               /\ UNCHANGED <<round, at, count, stop, stdout>>

\* Variant: main waits for the workers before it tells them to stop.
MainStops_NoFlag == /\ round = Rounds
                    /\ MainGoes("loop", "joinInput")
                    /\ UNCHANGED <<workVars, round, at, count, stop, stdout>>

\* The loop ends; both flags are set before main waits for the workers.
MainStops == /\ round = Rounds
             /\ MainGoes("loop", "joinInput")
             /\ stop' = TRUE
             /\ UNCHANGED <<workVars, round, at, count, stdout>>

\* workerDestroy
MainJoins ==
    /\ \/ MainGoes("joinInput", "joinProcess") /\ life[Input] = "exited"
       \/ MainGoes("joinProcess", "returned") /\ life[Process] = "exited"
    /\ UNCHANGED <<workVars, round, at, count, stop, stdout>>

-----------------------------------------------------------------------------
(* inputTask and processTask.                                              *)

WorkerGoes(w, to) == at' = [at EXCEPT ![w] = to]

\* w runs its user function and is not in the handler.
Runs(w) == Alive(w) /\ life[w] = "user" /\ hand[w] = "no"

\* printf takes the lock of stdout and gives it back.
Lock(w, from, to) == /\ Runs(w) /\ at[w] = from /\ stdout = "free"
                     /\ stdout' = w
                     /\ WorkerGoes(w, to)
                     /\ UNCHANGED <<workVars, mainPc, round, count, stop>>

Unlock(w, from, to) == /\ Runs(w) /\ at[w] = from
                       /\ stdout' = "free"
                       /\ WorkerGoes(w, to)
                       /\ UNCHANGED <<workVars, mainPc, round, stop>>

SaysHello(w) == \/ Lock(w, "hello", "helloOut")
                \/ Unlock(w, "helloOut", "check") /\ UNCHANGED count

\* while(p->processShouldStop == 0)
ChecksStop(w) == /\ Runs(w) /\ at[w] = "check"
                 /\ WorkerGoes(w, IF stop THEN "bye" ELSE "print")
                 /\ UNCHANGED <<workVars, mainPc, round, count, stop, stdout>>

\* Variant: the count is compared before it is incremented.
AfterPrint_Late(w, n) == CASE w = Process /\ n = PauseInput + 1 -> "pause"
                           [] w = Process /\ n = ResumeInput + 1 -> "resume"
                           [] OTHER -> "sleep"

\* What processTask does after its print number n; inputTask only sleeps.
AfterPrint(w, n) == CASE w = Process /\ n = PauseInput -> "pause"
                      [] w = Process /\ n = ResumeInput -> "resume"
                      [] OTHER -> "sleep"

\* The counts are compared with PauseInput and ResumeInput alone: the model
\* stops counting beyond the latter.
PrintsCount(w) ==
    \/ Lock(w, "print", "printOut")
    \/ /\ Unlock(w, "printOut", AfterPrint(w, count[w] + 1))
       /\ count' = [count EXCEPT ![w] = IF @ <= ResumeInput THEN @ + 1 ELSE @]

ControlsInput ==
    /\ Runs(Process)
    /\ \/ at[Process] = "pause" /\ Reset(Input) /\ WorkerGoes(Process, "kill")
       \/ at[Process] = "kill" /\ Kill(Input) /\ WorkerGoes(Process, "sleep")
       \/ at[Process] = "resume" /\ Post(Input) /\ WorkerGoes(Process, "sleep")
    /\ UNCHANGED <<mainPc, round, count, stop, stdout>>

SaysBye(w) == \/ Lock(w, "bye", "byeOut")
              \/ Unlock(w, "byeOut", "return") /\ UNCHANGED count

Ends(w) == /\ at[w] = "return"
           /\ Remove(w) \/ CountOut(w)
           /\ UNCHANGED demoVars

Starts(w) == (Register(w) \/ Install(w)) /\ UNCHANGED demoVars

-----------------------------------------------------------------------------
(* The signal handler; its two prints need the lock of stdout, which the   *)
(* interrupted printf of the same thread may already hold.                 *)

CanPrint(w) == stdout \in {"free", w}

\* SIGUSR1 arrives; a sleep(1) it interrupts returns early.
Interrupted(w) ==
    /\ SignalsInPrintf \/ stdout # w
    /\ Deliver(w)
    /\ WorkerGoes(w, IF at[w] = "sleep" THEN "check" ELSE at[w])
    /\ UNCHANGED <<mainPc, round, count, stop, stdout>>

Holds(w) == CanPrint(w) /\ Wait(w) /\ UNCHANGED demoVars
Wakes(w) == Wake(w) /\ UNCHANGED demoVars
Resumes(w) == CanPrint(w) /\ Return(w) /\ UNCHANGED demoVars

-----------------------------------------------------------------------------
MainStep == \/ MainCreates \/ MainRound \/ MainPauses \/ MainResumes
            \/ MainStops \/ MainJoins

WorkerStep(w) == \/ Starts(w) \/ SaysHello(w) \/ ChecksStop(w)
                 \/ PrintsCount(w) \/ SaysBye(w) \/ Ends(w)
                 \/ Interrupted(w) \/ Holds(w) \/ Wakes(w) \/ Resumes(w)

\* A worker that does nothing before the next second.
Idle(w) ==
    /\ pend[w] => hand[w] # "no"
    /\ \/ ~Alive(w)
       \/ life[w] = "user" /\ hand[w] = "waiting"
       \/ life[w] = "user" /\ hand[w] \in {"enter", "leave"} /\ ~CanPrint(w)
       \/ life[w] = "user" /\ hand[w] = "no" /\ at[w] = "sleep"
       \/ /\ life[w] = "user" /\ hand[w] = "no" /\ stdout # "free"
          /\ at[w] \in {"hello", "print", "bye"}

MainIdle == mainPc \in {"sleep", "joinInput", "joinProcess"}

Tick == /\ process = "running" /\ MainIdle /\ \A w \in Workers : Idle(w)
        /\ mainPc = "sleep" \/ \E w \in Workers : at[w] = "sleep"
        /\ mainPc' = IF mainPc = "sleep" THEN "loop" ELSE mainPc
        /\ at' = [w \in Workers |->
                    IF at[w] = "sleep" /\ hand[w] = "no" THEN "check" ELSE at[w]]
        /\ UNCHANGED <<workVars, round, count, stop, stdout>>

\* main has returned and with it the process has ended.
Returned == mainPc = "returned" /\ UNCHANGED vars

Next == \/ MainStep \/ ControlsInput \/ \E w \in Workers : WorkerStep(w)
        \/ Tick \/ Returned

\* Every thread is scheduled, and time passes.
Spec == /\ Init /\ [][Next]_vars
        /\ WF_vars(MainStep) /\ WF_vars(Tick) /\ WF_vars(ControlsInput)
        /\ \A w \in Workers : WF_vars(WorkerStep(w))

-----------------------------------------------------------------------------
\* A worker is not in the list it entered: workers that enter or leave
\* together may overwrite each other's links (workThread.c:42-49, 70).
Lost == \E w \in Users : ~Found(w)

\* main ends: both workers see their flag and are joined,
\* "等待子进程退出" (workThread.c:107, main.c:76-79), unless the unlocked
\* list has lost one of them: what its next SIGUSR1 does is undefined.
Terminates == <>(mainPc = "returned" \/ Lost)

Settled == process = "running" /\ MainIdle /\ \A w \in Workers : Idle(w)

\* By the end of every second the pauses and resumes of main.c:47-49 and
\* 68-72 have had their effect: the process worker is held from main's
\* round 8 to its round 16, the input worker from the process worker's 10th
\* print to its 15th, and neither at any other time.
HeldAsPlanned ==
    Settled =>
        /\ (hand[Process] = "waiting") = (round \in PauseProcess .. ResumeProcess - 1)
        /\ (hand[Input] = "waiting") = (count[Process] \in PauseInput .. ResumeInput - 1)
=============================================================================
