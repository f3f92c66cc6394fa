---------------------------- MODULE WorkerControl ----------------------------
(***************************************************************************)
(* A thread that creates one worker of WorkThread, pauses and resumes it,  *)
(* as a caller of workThread.h may.  It is either patient, the way main.c  *)
(* is with its seconds of sleep in between: pause and resume in turn, each *)
(* after the worker has reacted to the last one; or it does so at any time *)
(* and in any order.                                                       *)
(***************************************************************************)
EXTENDS WorkThread

CONSTANTS Worker,   \* the worker under control
          MaxCmds   \* bound: commands the controller gives

ASSUME ControlAssumption == Worker \in Workers /\ MaxCmds \in Nat

VARIABLES patient,  \* which of the two controllers it is
          cmd,      \* "none", "pause", "resume": the last command given
          mid,      \* workerPause has reset but not yet sent the signal
          ncmds

controlVars == <<workVars, patient, cmd, mid, ncmds>>

ControlInit ==
        /\ WorkInit
        /\ patient \in BOOLEAN /\ cmd = "none" /\ mid = FALSE /\ ncmds = 0

Created == process = "running" /\ life[Worker] # "none"

\* The worker does what it was last told to.
IsPaused  == hand[Worker] = "waiting"
IsRunning == life[Worker] = "user" /\ hand[Worker] = "no" /\ ~pend[Worker]

\* Its user function has returned, or the process is gone.
Ended == \/ life[Worker] \in {"prevNext", "decRead", "decWrite", "exited"}
         \/ process # "running"

MayPause  == patient => cmd # "pause" /\ IsRunning
MayResume == patient => cmd = "pause" /\ IsPaused

CreateWorker == Create(Worker) /\ UNCHANGED <<patient, cmd, mid, ncmds>>

PauseReset == /\ Created /\ ~mid /\ ncmds < MaxCmds /\ MayPause
              /\ Reset(Worker)
              /\ mid' = TRUE /\ UNCHANGED <<patient, cmd, ncmds>>

PauseKill == /\ Created /\ mid
             /\ Kill(Worker)
             /\ mid' = FALSE /\ cmd' = "pause" /\ ncmds' = ncmds + 1
             /\ UNCHANGED patient

ResumePost == /\ Created /\ ~mid /\ ncmds < MaxCmds /\ MayResume
              /\ Post(Worker)
              /\ cmd' = "resume" /\ ncmds' = ncmds + 1 /\ UNCHANGED <<patient, mid>>

WorkerRuns == /\ \/ Register(Worker) \/ Install(Worker) \/ Deliver(Worker)
                 \/ Wait(Worker) \/ Wake(Worker) \/ Return(Worker)
              /\ UNCHANGED <<patient, cmd, mid, ncmds>>

\* The user function returns.
WorkerEnds == /\ Remove(Worker) \/ CountOut(Worker)
              /\ UNCHANGED <<patient, cmd, mid, ncmds>>

ControlNext == \/ CreateWorker \/ PauseReset \/ PauseKill \/ ResumePost
               \/ WorkerRuns \/ WorkerEnds

\* The worker's thread is scheduled and a started workerPause ends.
ControlSpec == /\ ControlInit /\ [][ControlNext]_controlVars
               /\ WF_controlVars(WorkerRuns) /\ WF_controlVars(PauseKill)

-----------------------------------------------------------------------------
\* A pause holds the worker, whatever commands came before it: it ends in
\* the handler's wait (workerPause, workThread.c:112-119) unless a resume
\* follows or the worker has ended.
PauseTakesEffect == cmd = "pause" ~> (IsPaused \/ cmd = "resume" \/ Ended)

\* A resume by a patient controller lets the worker go on: it leaves the
\* handler and no old SIGUSR1 sends it back there,
\* "睡眠,直到 threads_on_hold 清零" (workThread.c:59).
ResumeTakesEffect ==
    (patient /\ cmd = "resume") ~> (IsRunning \/ cmd = "pause" \/ mid \/ Ended)

\* Each command of workerPause and workerResume has its effect in the end
\* (workThread.c:112-127).
CommandsTakeEffect == PauseTakesEffect /\ ResumeTakesEffect

\* With a patient controller the semaphore has no credit left over from an
\* earlier command: a paused worker is held by v = 0, and the post of a
\* resume is used up when the worker runs again ("Binary semaphore can take
\* only values 1 or 0", bsem.h:25).
NoCreditLeft ==
    patient => /\ v[Worker] \in {0, 1}
               /\ IsPaused => v[Worker] = 0
               /\ (IsRunning /\ cmd = "resume" /\ ~mid) => v[Worker] = 0
=============================================================================
