-------------------------- MODULE MC_StreamScaling --------------------------
(* Small instances of StreamScaling for TLC.                               *)
EXTENDS StreamScaling

(* max_workers = 1 reaches the ZeroDivisionError of line 110; 2 gives a   *)
(* window of one compute task, 3 a window of two.                          *)
MC_WorkerChoices == {1, 2, 3}

(* Four items: enough for the window of two to slide twice. *)
MC_TaskCount == 4

(* Two interrupts: the first is caught in the try body, the second lands *)
(* in the finally clause or the drain.                                    *)
MC_MaxInterrupts == 2

MC_MaxFailures == 1

MC_AllFailures == {"generator", "compute"}

MC_ComputeFailures == {"compute"}

MC_GeneratorFailures == {"generator"}

=============================================================================
