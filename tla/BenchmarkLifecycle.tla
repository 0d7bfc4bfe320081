------------------------- MODULE BenchmarkLifecycle -------------------------
(***************************************************************************)
(* The stream-scaling Benchmark used as a context manager around run():   *)
(*   __enter__ (main.py lines 81-90) enters the consumer, the executor and *)
(*   the store through a contextlib.ExitStack; if entering one raises, the *)
(*   with-block of the stack exits the ones already entered, newest first, *)
(*   and the exception propagates; otherwise stack.pop_all() keeps their  *)
(*   exit callbacks for __exit__ (lines 92-98), which runs them newest     *)
(*   first: store.close(), the executor's shutdown, consumer.close() (which*)
(*   closes the store once more).                                          *)
(* run() is StreamScaling; the executor keeps running the tasks run()     *)
(* submitted while the stack is being unwound.                             *)
(***************************************************************************)
EXTENDS StreamScaling

CONSTANTS
    EnterCanFail    \* the context managers whose __enter__ may raise

ASSUME LifecycleAssumption ==
    EnterCanFail \subseteq {"consumer", "executor", "store"}

VARIABLES
    phase,          \* "entering", "running", "exiting", "unwinding", "closed", "failed"
    stack,          \* the ExitStack: context managers entered, oldest first
    entered,        \* how many context managers __enter__ entered
    exitLog         \* the context managers exited, in the order they were

lifeVars == <<phase, stack, entered, exitLog>>

allVars == <<vars, lifeVars>>

(* Lines 84-88: the order in which __enter__ enters the context managers. *)
Resources == <<"consumer", "executor", "store">>

(* The executor has no task left running. *)
Idle == gen # "running" /\ InFlight = {}

Top == stack[Len(stack)]

Pop == SubSeq(stack, 1, Len(stack) - 1)

(* store.close() has run: the store's own exit, or consumer.close().     *)
StoreClosed == \E i \in DOMAIN exitLog : exitLog[i] \in {"store", "consumer"}

-----------------------------------------------------------------------------
(* A faulty __enter__ for mutation analysis: self._stack = stack.pop_all() *)
(* moved before the store is entered, so that a failing store.__enter__   *)
(* leaves the consumer and the executor entered.                          *)
EnterFailsLeaky ==
    /\ phase = "entering"
    /\ Len(stack) < Len(Resources)
    /\ Resources[Len(stack) + 1] \in EnterCanFail
    /\ phase' = IF Len(stack) = 2 THEN "failed" ELSE "unwinding"
    /\ UNCHANGED <<stack, entered, exitLog>>
    /\ UNCHANGED vars

(* A faulty caller for mutation analysis: __exit__ only called when run() *)
(* returns, not when it raises.                                            *)
ExitRunOnReturnOnly ==
    /\ phase = "running"
    /\ pc = "done"
    /\ phase' = "exiting"
    /\ UNCHANGED <<stack, entered, exitLog>>
    /\ UNCHANGED vars

-----------------------------------------------------------------------------
LifeInit ==
    /\ Init
    /\ phase = "entering"
    /\ stack = <<>>
    /\ entered = 0
    /\ exitLog = <<>>

(* Lines 84-88: stack.enter_context(cm) enters the next context manager  *)
(* and pushes its __exit__.                                                *)
EnterContext ==
    /\ phase = "entering"
    /\ Len(stack) < Len(Resources)
    /\ stack' = Append(stack, Resources[Len(stack) + 1])
    /\ entered' = entered + 1
    /\ UNCHANGED <<phase, exitLog>>
    /\ UNCHANGED vars

(* Lines 83-88: cm.__enter__ raises; the with-block of the ExitStack     *)
(* unwinds what was pushed before the exception propagates.               *)
EnterFails ==
    /\ phase = "entering"
    /\ Len(stack) < Len(Resources)
    /\ Resources[Len(stack) + 1] \in EnterCanFail
    /\ phase' = "unwinding"
    /\ UNCHANGED <<stack, entered, exitLog>>
    /\ UNCHANGED vars

(* Lines 89-90: self._stack = stack.pop_all(); return self; the caller  *)
(* then calls run().                                                       *)
PopAll ==
    /\ phase = "entering"
    /\ Len(stack) = Len(Resources)
    /\ phase' = "running"
    /\ UNCHANGED <<stack, entered, exitLog>>
    /\ UNCHANGED vars

(* Line 98: run() returned or raised, the with statement calls           *)
(* __exit__, which unwinds self._stack.                                    *)
ExitRun ==
    /\ phase = "running"
    /\ pc \in {"done", "raised"}
    /\ phase' = "exiting"
    /\ UNCHANGED <<stack, entered, exitLog>>
    /\ UNCHANGED vars

(* The ExitStack runs the newest exit callback: store.close(); the        *)
(* executor's __exit__, which shuts it down and waits for its tasks;      *)
(* consumer.close(), which also closes the store.                         *)
ExitTop ==
    /\ phase \in {"exiting", "unwinding"}
    /\ stack # <<>>
    /\ Top = "executor" => Idle
    /\ stack' = Pop
    /\ exitLog' = Append(exitLog, Top)
    /\ UNCHANGED <<phase, entered>>
    /\ UNCHANGED vars

(* A KeyboardInterrupt while the executor's shutdown waits: the callback *)
(* raises, and the ExitStack goes on with the older callbacks.            *)
InterruptShutdown ==
    /\ phase \in {"exiting", "unwinding"}
    /\ stack # <<>>
    /\ Top = "executor"
    /\ ~Idle
    /\ interrupts < MaxInterrupts
    /\ interrupts' = interrupts + 1
    /\ stack' = Pop
    /\ exitLog' = Append(exitLog, Top)
    /\ UNCHANGED <<phase, entered, maxWorkers, pc, consumed, running,
                   popped, completed, exc, tasks, gen, published, stop,
                   closed, failures>>

(* Every callback has run: __enter__ has raised, or __exit__ returned.    *)
ExitDone ==
    /\ phase \in {"exiting", "unwinding"}
    /\ stack = <<>>
    /\ phase' = IF phase = "unwinding" THEN "failed" ELSE "closed"
    /\ UNCHANGED <<stack, entered, exitLog>>
    /\ UNCHANGED vars

(* The steps of the main thread inside run(), while the benchmark is     *)
(* entered.                                                                *)
RunStep ==
    /\ phase = "running"
    /\ Main \/ Interrupt
    /\ UNCHANGED lifeVars

(* The executor and the generator task run on whatever the main thread   *)
(* is doing.                                                               *)
Background ==
    /\ \/ \E t \in TaskIds : TaskFinish(t) \/ TaskFail(t)
       \/ GenPublish \/ GenFinish \/ GenFail
    /\ UNCHANGED lifeVars

LifeMain ==
    \/ EnterContext \/ PopAll \/ ExitRun \/ ExitTop \/ ExitDone

LifeNext ==
    \/ LifeMain
    \/ EnterFails
    \/ InterruptShutdown
    \/ RunStep
    \/ Background

(* The main thread runs until it blocks, run() included; the executor and *)
(* the generator as in StreamScaling.                                      *)
LifeSpec ==
    /\ LifeInit
    /\ [][LifeNext]_allVars
    /\ WF_allVars(LifeMain)
    /\ WF_allVars(phase = "running" /\ Main /\ UNCHANGED lifeVars)
    /\ \A t \in TaskIds : WF_allVars(TaskFinish(t) /\ UNCHANGED lifeVars)
    /\ WF_allVars(GenPublish /\ UNCHANGED lifeVars)
    /\ WF_allVars(GenFinish /\ UNCHANGED lifeVars)

-----------------------------------------------------------------------------
(* ExitStack's promise, on which __enter__'s pop_all idiom relies: when   *)
(* the benchmark is done with, because __enter__ raised or because        *)
(* __exit__ returned, every context manager that was entered has been     *)
(* exited, newest first.                                                    *)
NoLeak ==
    phase \in {"failed", "closed"} =>
        exitLog = [i \in 1..entered |-> Resources[entered + 1 - i]]

(* The benchmark is always eventually done with: __enter__ raises, or run()*)
(* ends and __exit__ returns.                                              *)
LifecycleEnds ==
    <>(phase \in {"failed", "closed"})

(* The store is not closed under the tasks that use it: the generator     *)
(* publishes through it and compute tasks resolve their items from it.     *)
StoreOutlivesTasks ==
    StoreClosed => Idle

(* The strengthening of NoLeak that every step preserves: the ExitStack  *)
(* holds the oldest context managers entered, in the order of Resources, *)
(* and the exit log the newest ones, newest first; nothing is exited      *)
(* before __enter__ is through, and the benchmark is done with only once  *)
(* the stack is empty.                                                     *)
LInv ==
    /\ phase \in {"entering", "running", "exiting", "unwinding",
                  "closed", "failed"}
    /\ entered \in 0..Len(Resources)
    /\ stack \in Seq({"consumer", "executor", "store"})
    /\ exitLog \in Seq({"consumer", "executor", "store"})
    /\ Len(stack) <= entered
    /\ Len(exitLog) = entered - Len(stack)
    /\ \A i \in 1..Len(stack) : stack[i] = Resources[i]
    /\ \A i \in 1..Len(exitLog) : exitLog[i] = Resources[entered + 1 - i]
    /\ phase \in {"entering", "running"} => Len(stack) = entered
    /\ phase \in {"failed", "closed"} => stack = <<>>

=============================================================================
