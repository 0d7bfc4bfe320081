----------------------- MODULE MC_BenchmarkLifecycle -----------------------
(* Small instances of BenchmarkLifecycle for TLC, with the bounds of      *)
(* MC_StreamScaling for run().                                             *)
EXTENDS BenchmarkLifecycle, MC_StreamScaling

(* Any of the three __enter__ calls may raise. *)
MC_EnterCanFail == {"consumer", "executor", "store"}

(* No __enter__ raises: every run reaches run(). *)
MC_EnterNeverFails == {}

(* No KeyboardInterrupt at all. *)
MC_NoInterrupts == 0

=============================================================================
