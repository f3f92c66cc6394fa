------------------------------ MODULE MCWorkers ------------------------------
(***************************************************************************)
(* Both users of WorkThread for TLC: main.c with its own numbers, and a    *)
(* controller of one worker.  `which' chooses at the start; the variables  *)
(* of the other one keep their initial values.                             *)
(***************************************************************************)
EXTENDS WorkerControl, WorkerDemo

CONSTANTS p, i

VARIABLE which

MCWorkerSet == {p, i}

controlOnly == <<patient, cmd, mid, ncmds>>

DemoInit == which = "demo" /\ Init /\ patient = FALSE /\ cmd = "none" /\ mid = FALSE /\ ncmds = 0

OneInit == which = "control" /\ Init /\ ControlInit

MCInit == DemoInit \/ OneInit

MCNext ==
    /\ \/ which = "demo" /\ Next /\ UNCHANGED controlOnly
       \/ which = "control" /\ ControlNext /\ UNCHANGED demoVars
    /\ UNCHANGED which

mcVars == <<which, vars, controlOnly>>

(* The fairness of the two specifications, of the one that runs.           *)
MCFairness ==
    /\ WF_vars(which = "demo" /\ MainStep) /\ WF_vars(which = "demo" /\ Tick)
    /\ WF_vars(which = "demo" /\ ControlsInput)
    /\ \A w \in Workers : WF_vars(which = "demo" /\ WorkerStep(w))
    /\ WF_controlVars(which = "control" /\ WorkerRuns)
    /\ WF_controlVars(which = "control" /\ PauseKill)

MCSpec == MCInit /\ [][MCNext]_mcVars /\ MCFairness

----------------------------------------------------------------------------
(* main.c comes to its end (main.c:76-79).                                 *)
DemoTerminates == which = "demo" => Terminates
=============================================================================
