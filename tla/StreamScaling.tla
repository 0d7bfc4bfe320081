--------------------------- MODULE StreamScaling ---------------------------
(***************************************************************************)
(* The stream-scaling benchmark driver, Benchmark.run() in                 *)
(* src/psbench/benchmarks/stream_scaling/main.py, together with the        *)
(* collaborators it drives:                                                *)
(*   - the main thread running run(): one action per statement group       *)
(*     between which a KeyboardInterrupt can land;                         *)
(*   - the executor, which runs the generator task and the compute tasks   *)
(*     and completes (or fails) their futures;                             *)
(*   - the generator task, which publishes TaskCount items to the stream,  *)
(*     polls the stop_generator future between items and closes the stream *)
(*     when it is done (its code, generator.py, is not under src/: it is   *)
(*     modelled from the spec);                                            *)
(*   - the user, who may press Ctrl-C (KeyboardInterrupt) at any point.    *)
(* Items are identified by their 1-based position in the stream; the       *)
(* compute task submitted for item k is task k.  Payload bytes, timing and *)
(* logging are abstracted away.                                            *)
(***************************************************************************)
EXTENDS Naturals, Sequences, FiniteSets

CONSTANTS
    WorkerChoices,  \* the values executor.max_workers can have
    TaskCount,      \* config.task_count: items the generator publishes
    MaxInterrupts,  \* bound on KeyboardInterrupts delivered in one run
    MaxFailures,    \* bound on task failures the executor reports
    CanFail         \* which tasks may fail: subset of {"generator", "compute"}

ASSUME ConstantsAssumption ==
    /\ WorkerChoices \subseteq Nat \ {0}
    /\ WorkerChoices # {}
    /\ TaskCount \in Nat
    /\ MaxInterrupts \in Nat
    /\ MaxFailures \in Nat
    /\ CanFail \subseteq {"generator", "compute"}

VARIABLES
    maxWorkers,  \* self.max_workers (fixed for the run)
    pc,          \* where the main thread is in run()
    consumed,    \* items the consumer iterator has yielded (i + 1)
    running,     \* running_tasks: the deque of task futures
    popped,      \* oldest_task_future: the future popped and awaited
    completed,   \* completed_tasks
    exc,         \* an exception is propagating through the finally clause
    interrupts,  \* KeyboardInterrupts delivered so far
    tasks,       \* executor state of each compute task future
    gen,         \* executor state of the generator task future
    published,   \* items the generator has published to the stream
    stop,        \* stop_generator future has its result set
    closed,      \* the generator closed the stream (end of iteration)
    failures     \* task failures reported so far

vars == <<maxWorkers, pc, consumed, running, popped, completed, exc,
          interrupts, tasks, gen, published, stop, closed, failures>>

TaskIds == 1..TaskCount

TaskStates == {"none", "running", "done", "failed"}

GenStates == {"idle", "running", "done", "failed"}

(* Program locations of run().  "item": the consumer yielded an item,      *)
(* "submitted": executor.submit returned but the future is not yet in the  *)
(* deque, "pop": the window is full, "wait": the oldest future is popped   *)
(* and awaited, "count": its result returned, not yet counted, "except": *)
(* in the handler of the caught KeyboardInterrupt.                        *)
Locations == {"start", "pretry", "loop", "item", "submitted", "pop", "wait",
              "count", "except", "finally", "drain", "done", "raised"}

(* The statements inside the try block whose KeyboardInterrupt the except  *)
(* clause catches.                                                          *)
TryBody == {"loop", "item", "submitted", "pop", "wait", "count"}

(* compute_workers = self.max_workers - 1 *)
ComputeWorkers == maxWorkers - 1

Finished(s) == s \in {"done", "failed"}

-----------------------------------------------------------------------------
(* Faulty variants of the steps below, for mutation analysis: each is a   *)
(* plausible slip in run() that some property must reject.                *)

(* The window check written with > instead of >=. *)
AppendTaskWideWindow ==
    /\ pc = "submitted"
    /\ running' = Append(running, consumed)
    /\ pc' = IF Len(running') > ComputeWorkers THEN "pop" ELSE "loop"
    /\ UNCHANGED <<maxWorkers, consumed, popped, completed, exc, interrupts,
                   tasks, gen, published, stop, closed, failures>>

(* The future appended under the wrong index (i + 2 for item i + 1). *)
AppendTaskOffByOne ==
    /\ pc = "submitted"
    /\ running' = Append(running, consumed + 1)
    /\ pc' = IF Len(running') >= ComputeWorkers THEN "pop" ELSE "loop"
    /\ UNCHANGED <<maxWorkers, consumed, popped, completed, exc, interrupts,
                   tasks, gen, published, stop, closed, failures>>

(* result() treated as returning only on success: a failed future is      *)
(* waited on forever.                                                      *)
AwaitOldestSuccessOnly ==
    /\ pc = "wait"
    /\ tasks[popped] = "done"
    /\ pc' = "count"
    /\ UNCHANGED <<maxWorkers, consumed, running, popped, completed, exc,
                   interrupts, tasks, gen, published, stop, closed, failures>>

(* The final drain loop left out: return as soon as the generator joined. *)
DrainEndEarly ==
    /\ pc = "drain"
    /\ pc' = "done"
    /\ UNCHANGED <<maxWorkers, consumed, running, popped, completed, exc,
                   interrupts, tasks, gen, published, stop, closed, failures>>

(* running_tasks.pop() written for popleft(): the newest future is       *)
(* awaited first.                                                          *)
PopNewest ==
    /\ pc = "pop"
    /\ popped' = running[Len(running)]
    /\ running' = SubSeq(running, 1, Len(running) - 1)
    /\ pc' = "wait"
    /\ UNCHANGED <<maxWorkers, consumed, completed, exc, interrupts, tasks,
                   gen, published, stop, closed, failures>>

-----------------------------------------------------------------------------
Init ==
    /\ maxWorkers \in WorkerChoices
    /\ pc = "start"
    /\ consumed = 0
    /\ running = <<>>
    /\ popped = 0
    /\ completed = 0
    /\ exc = FALSE
    /\ interrupts = 0
    /\ tasks = [t \in TaskIds |-> "none"]
    /\ gen = "idle"
    /\ published = 0
    /\ stop = FALSE
    /\ closed = FALSE
    /\ failures = 0

(* Lines 109-130: compute the producer interval and submit the generator   *)
(* task.  With max_workers = 1, compute_workers is 0 and                    *)
(* task_sleep / compute_workers raises ZeroDivisionError before anything is *)
(* submitted.                                                              *)
Start ==
    /\ pc = "start"
    /\ IF ComputeWorkers = 0
         THEN /\ pc' = "raised"
              /\ UNCHANGED gen
         ELSE /\ pc' = "pretry"
              /\ gen' = "running"
    /\ UNCHANGED <<maxWorkers, consumed, running, popped, completed, exc,
                   interrupts, tasks, published, stop, closed, failures>>

(* Lines 131-144: log, create the counters and the deque, enter try. *)
EnterTry ==
    /\ pc = "pretry"
    /\ pc' = "loop"
    /\ UNCHANGED <<maxWorkers, consumed, running, popped, completed, exc,
                   interrupts, tasks, gen, published, stop, closed, failures>>

(* Line 145: the consumer yields the next published item; it blocks while *)
(* the stream is empty and open.                                           *)
NextItem ==
    /\ pc = "loop"
    /\ consumed < published
    /\ consumed' = consumed + 1
    /\ pc' = "item"
    /\ UNCHANGED <<maxWorkers, running, popped, completed, exc, interrupts,
                   tasks, gen, published, stop, closed, failures>>

(* Line 145: the stream is closed and drained, the for loop ends. *)
LoopExit ==
    /\ pc = "loop"
    /\ consumed = published
    /\ closed
    /\ pc' = "finally"
    /\ UNCHANGED <<maxWorkers, consumed, running, popped, completed, exc,
                   interrupts, tasks, gen, published, stop, closed, failures>>

(* Lines 146-155: submit compute_task for the item. *)
SubmitCompute ==
    /\ pc = "item"
    /\ tasks' = [tasks EXCEPT ![consumed] = "running"]
    /\ pc' = "submitted"
    /\ UNCHANGED <<maxWorkers, consumed, running, popped, completed, exc,
                   interrupts, gen, published, stop, closed, failures>>

(* Lines 160-164: append the future; wait on the oldest only once the     *)
(* window holds compute_workers futures.                                   *)
AppendTask ==
    /\ pc = "submitted"
    /\ running' = Append(running, consumed)
    /\ pc' = IF Len(running') >= ComputeWorkers THEN "pop" ELSE "loop"
    /\ UNCHANGED <<maxWorkers, consumed, popped, completed, exc, interrupts,
                   tasks, gen, published, stop, closed, failures>>

(* Line 165: oldest_task_future = running_tasks.popleft() *)
PopOldest ==
    /\ pc = "pop"
    /\ popped' = Head(running)
    /\ running' = Tail(running)
    /\ pc' = "wait"
    /\ UNCHANGED <<maxWorkers, consumed, completed, exc, interrupts, tasks,
                   gen, published, stop, closed, failures>>

(* Line 166: oldest_task_future.result() blocks until the task finishes;  *)
(* a failed task re-raises its exception, which leaves the try block and  *)
(* runs the finally clause.                                                *)
AwaitOldest ==
    /\ pc = "wait"
    /\ Finished(tasks[popped])
    /\ IF tasks[popped] = "done"
         THEN /\ pc' = "count"
              /\ UNCHANGED exc
         ELSE /\ pc' = "finally"
              /\ exc' = TRUE
    /\ UNCHANGED <<maxWorkers, consumed, running, popped, completed,
                   interrupts, tasks, gen, published, stop, closed, failures>>

(* Line 167: completed_tasks += 1 *)
CountOldest ==
    /\ pc = "count"
    /\ completed' = completed + 1
    /\ pc' = "loop"
    /\ UNCHANGED <<maxWorkers, consumed, running, popped, exc, interrupts,
                   tasks, gen, published, stop, closed, failures>>

(* A KeyboardInterrupt raised in the main thread.  Inside the try body   *)
(* the except clause (line 168) catches it; raised in that handler before *)
(* stop_generator is set, it still runs the finally clause and then       *)
(* propagates; anywhere else in run() it propagates out of run().         *)
Interrupt ==
    /\ interrupts < MaxInterrupts
    /\ pc \notin {"done", "raised"}
    /\ interrupts' = interrupts + 1
    /\ \/ pc \in TryBody /\ pc' = "except" /\ UNCHANGED exc
       \/ pc = "except" /\ pc' = "finally" /\ exc' = TRUE
       \/ pc \notin TryBody \cup {"except"} /\ pc' = "raised" /\ UNCHANGED exc
    /\ UNCHANGED <<maxWorkers, consumed, running, popped, completed, tasks,
                   gen, published, stop, closed, failures>>

(* Lines 169-172: log the warning, stop_generator.set_result(True), and   *)
(* on to the finally clause.                                               *)
CatchInterrupt ==
    /\ pc = "except"
    /\ stop' = TRUE
    /\ pc' = "finally"
    /\ UNCHANGED <<maxWorkers, consumed, running, popped, completed, exc,
                   interrupts, tasks, gen, published, closed, failures>>

(* Lines 173-183: generator_task_future.result(), in the finally clause   *)
(* and again after it.  It re-raises the generator's exception; a pending *)
(* exception of the try body propagates once the finally clause is done.  *)
JoinGenerator ==
    /\ pc = "finally"
    /\ Finished(gen)
    /\ pc' = IF exc \/ gen = "failed" THEN "raised" ELSE "drain"
    /\ UNCHANGED <<maxWorkers, consumed, running, popped, completed, exc,
                   interrupts, tasks, gen, published, stop, closed, failures>>

(* Lines 188-191: pop the oldest remaining future, wait on it, count it. *)
DrainOne ==
    /\ pc = "drain"
    /\ running # <<>>
    /\ Finished(tasks[Head(running)])
    /\ running' = Tail(running)
    /\ IF tasks[Head(running)] = "done"
         THEN /\ completed' = completed + 1
              /\ UNCHANGED pc
         ELSE /\ pc' = "raised"
              /\ UNCHANGED completed
    /\ UNCHANGED <<maxWorkers, consumed, popped, exc, interrupts, tasks, gen,
                   published, stop, closed, failures>>

(* Lines 188 and 193-209: the deque is empty, build the RunResult. *)
DrainEnd ==
    /\ pc = "drain"
    /\ running = <<>>
    /\ pc' = "done"
    /\ UNCHANGED <<maxWorkers, consumed, running, popped, completed, exc,
                   interrupts, tasks, gen, published, stop, closed, failures>>

-----------------------------------------------------------------------------
(* The executor: compute_task(data, sleep) sleeps and returns; the future *)
(* of a running task completes, or (bounded) fails.                        *)
TaskFinish(t) ==
    /\ tasks[t] = "running"
    /\ tasks' = [tasks EXCEPT ![t] = "done"]
    /\ UNCHANGED <<maxWorkers, pc, consumed, running, popped, completed, exc,
                   interrupts, gen, published, stop, closed, failures>>

TaskFail(t) ==
    /\ "compute" \in CanFail
    /\ failures < MaxFailures
    /\ tasks[t] = "running"
    /\ tasks' = [tasks EXCEPT ![t] = "failed"]
    /\ failures' = failures + 1
    /\ UNCHANGED <<maxWorkers, pc, consumed, running, popped, completed, exc,
                   interrupts, gen, published, stop, closed>>

(* The generator task (spec-modelled): publish up to max_items items,     *)
(* checking stop_generator before each one, then close the stream.        *)
GenPublish ==
    /\ gen = "running"
    /\ ~stop
    /\ published < TaskCount
    /\ published' = published + 1
    /\ UNCHANGED <<maxWorkers, pc, consumed, running, popped, completed, exc,
                   interrupts, tasks, gen, stop, closed, failures>>

GenFinish ==
    /\ gen = "running"
    /\ stop \/ published = TaskCount
    /\ gen' = "done"
    /\ closed' = TRUE
    /\ UNCHANGED <<maxWorkers, pc, consumed, running, popped, completed, exc,
                   interrupts, tasks, published, stop, failures>>

(* The generator task raises (a store or stream error): its future fails *)
(* and the stream is never closed.                                        *)
GenFail ==
    /\ "generator" \in CanFail
    /\ failures < MaxFailures
    /\ gen = "running"
    /\ gen' = "failed"
    /\ failures' = failures + 1
    /\ UNCHANGED <<maxWorkers, pc, consumed, running, popped, completed, exc,
                   interrupts, tasks, published, stop, closed>>

-----------------------------------------------------------------------------
(* The steps of the main thread. *)
Main ==
    \/ Start \/ EnterTry \/ NextItem \/ LoopExit \/ SubmitCompute
    \/ AppendTask \/ PopOldest \/ AwaitOldest \/ CountOldest
    \/ CatchInterrupt \/ JoinGenerator \/ DrainOne \/ DrainEnd

Next ==
    \/ Main
    \/ Interrupt
    \/ \E t \in TaskIds : TaskFinish(t) \/ TaskFail(t)
    \/ GenPublish \/ GenFinish \/ GenFail

(* The main thread runs until it blocks; the executor runs every task it  *)
(* accepted to completion (compute_task only sleeps); the generator keeps  *)
(* publishing at its interval.  Interrupts and failures are not forced.    *)
Fairness ==
    /\ WF_vars(Main)
    /\ \A t \in TaskIds : WF_vars(TaskFinish(t))
    /\ WF_vars(GenPublish)
    /\ WF_vars(GenFinish)

Spec == Init /\ [][Next]_vars /\ Fairness

-----------------------------------------------------------------------------
(* Compute task futures the executor has not finished. *)
InFlight == {t \in TaskIds : tasks[t] = "running"}

(* Compute tasks run() has submitted. *)
Submitted == {t \in TaskIds : tasks[t] # "none"}

TypeOK ==
    /\ maxWorkers \in WorkerChoices
    /\ pc \in Locations
    /\ consumed \in 0..TaskCount
    /\ running \in Seq(TaskIds)
    /\ popped \in 0..TaskCount
    /\ completed \in 0..TaskCount
    /\ exc \in BOOLEAN
    /\ interrupts \in 0..MaxInterrupts
    /\ tasks \in [TaskIds -> TaskStates]
    /\ gen \in GenStates
    /\ published \in 0..TaskCount
    /\ stop \in BOOLEAN
    /\ closed \in BOOLEAN
    /\ failures \in 0..MaxFailures

(* Backpressure (lines 109, 164): the compute tasks the executor is still *)
(* running, plus the generator task, never exceed executor.max_workers, so *)
(* no task ever queues behind another for a worker.  Breaking it takes a   *)
(* window that is one too wide, or a future that escapes the deque.        *)
NoOversubscription ==
    Cardinality(InFlight) + (IF gen = "running" THEN 1 ELSE 0) <= maxWorkers

(* The RunResult of a run that returns (lines 188-209): without a         *)
(* KeyboardInterrupt every published item was consumed, its task awaited   *)
(* and counted; after a caught KeyboardInterrupt completed_tasks misses at *)
(* most one submitted task, the one in flight between submit/popleft and  *)
(* the counter update; and the generator has always been joined.          *)
ResultAccounting ==
    pc = "done" =>
        /\ gen = "done"
        /\ completed <= Cardinality(Submitted)
        /\ IF stop
             THEN completed >= Cardinality(Submitted) - 1
             ELSE /\ completed = Cardinality(Submitted)
                  /\ Cardinality(Submitted) = TaskCount

(* The spec's sliding window is FIFO, "oldest future is always awaited   *)
(* first": the deque holds the futures in the order their items were      *)
(* consumed, and the future run() waits on at line 166 is older than      *)
(* every future still in the deque, so results are collected in stream    *)
(* order whatever the interrupts and failures, in the loop and in the     *)
(* final drain alike.                                                      *)
AwaitsOldestFirst ==
    /\ \A i, j \in 1..Len(running) : i < j => running[i] < running[j]
    /\ pc = "wait" => \A i \in 1..Len(running) : popped < running[i]

(* What the spec says of an interrupted run: it "still drains all         *)
(* outstanding futures before returning": when run() returns no compute   *)
(* task it submitted is still running.                                     *)
DrainAwaitsAll ==
    pc = "done" => InFlight = {}

(* The spec's account of Ctrl-C: the interrupt is handled "by propagating *)
(* a stop flag to a separately running generator task before joining      *)
(* remaining work".  run() never raises out while the generator task it  *)
(* submitted is still running and has not been told to stop: such a      *)
(* generator keeps publishing to a stream nobody consumes, and the        *)
(* executor's shutdown waits for it.                                       *)
GeneratorNotOrphaned ==
    pc = "raised" /\ gen = "running" => stop

(* The spec: an interrupt is handled "by propagating a stop flag to a    *)
(* separately running generator task before joining remaining work".     *)
(* Once a KeyboardInterrupt has reached the try body (every earlier one  *)
(* makes run() raise), the finally clause joins the generator only after *)
(* stop_generator has its result; otherwise the join waits for the       *)
(* generator to publish every remaining item to a stream nobody reads.   *)
StopBeforeJoin ==
    pc = "finally" /\ interrupts > 0 => stop

(* run() eventually returns or raises. *)
Termination ==
    <>(pc \in {"done", "raised"})

-----------------------------------------------------------------------------
-----------------------------------------------------------------------------
(* Strengthenings used by the proofs in StreamScaling_proofs.              *)

(* Every item the consumer yielded is counted, queued in the deque, or    *)
(* the one item run() is holding between the deque and the counter.      *)
Pending == IF pc \in {"item", "submitted", "wait", "count"} THEN 1 ELSE 0

Bookkeeping == completed + Len(running) + Pending <= consumed

TypeInv ==
    /\ TypeOK
    /\ Bookkeeping
    /\ pc = "pop" => running # <<>>

(* The newest task in the deque, and the oldest and newest task that can  *)
(* still be running, while the main thread is in the try body.            *)
QueuedNewest == IF pc \in {"item", "submitted"} THEN consumed - 1 ELSE consumed

OldestLive ==
    IF pc \in {"item", "submitted", "wait"}
      THEN consumed - Len(running)
      ELSE consumed - Len(running) + 1

NewestLive == IF pc = "item" THEN consumed - 1 ELSE consumed

(* Before the try block nothing is submitted and the deque is empty. *)
NothingBeforeTry == pc \in {"start", "pretry"} => InFlight = {} /\ running = <<>>

(* The try body is only reached with at least one compute worker. *)
WorkersForTry == pc \in TryBody \cup {"pretry"} => ComputeWorkers >= 1

(* In the try body the deque holds consecutive tasks ending at the newest *)
(* one queued, every running task lies in the window OldestLive ..        *)
(* NewestLive, and the window is at most compute_workers wide.            *)
DequeWindow ==
    pc \in TryBody =>
        /\ \A i \in 1..Len(running) :
              running[i] = QueuedNewest - Len(running) + i
        /\ InFlight \subseteq OldestLive..NewestLive
        /\ Len(running) <= IF pc = "pop" THEN ComputeWorkers
                                         ELSE ComputeWorkers - 1
        /\ pc = "wait" => popped = consumed - Len(running)

InFlightBound == Cardinality(InFlight) <= ComputeWorkers

WindowInv == NothingBeforeTry /\ WorkersForTry /\ DequeWindow /\ InFlightBound

IInv == TypeInv /\ WindowInv

(* The accounting proof also needs: the item the consumer just yielded   *)
(* has no task yet, and the generator is submitted by Start only.         *)
FreshItems ==
    \A t \in TaskIds :
        tasks[t] # "none" => t < consumed \/ (t = consumed /\ pc # "item")

GeneratorAfterStart == pc = "start" => gen = "idle"

RInv == IInv /\ FreshItems /\ GeneratorAfterStart


(* ResultAccounting rests on counting the submitted tasks.  Every item    *)
(* before the current one has its task, and so has the current one once  *)
(* run() is past submitting it in the loop; so the submitted tasks are    *)
(* 1..NSubmitted.                                                           *)
SubmittedPrefix ==
    \A t \in TaskIds :
        t < consumed \/ (t = consumed /\ pc \in TryBody \ {"item"})
            => tasks[t] # "none"

NSubmitted ==
    IF consumed > 0 /\ tasks[consumed] = "none" THEN consumed - 1 ELSE consumed

(* The submitted tasks run() still accounts for: counted, in the deque, or *)
(* the one future it holds between submit or popleft and the counter.     *)
Held ==
    completed + Len(running)
      + (IF pc \in {"submitted", "wait", "count"} THEN 1 ELSE 0)

(* Nothing is consumed before the try block.  Inside the loop nothing is *)
(* lost; an interrupt or a failed result loses at most the future held;  *)
(* without either, the loop ended on a closed, fully published stream.   *)
Accounting ==
    /\ pc \in {"start", "pretry"} => consumed = 0
    /\ pc \in TryBody \cup {"start", "pretry"} => Held = NSubmitted
    /\ pc # "raised" => Held <= NSubmitted /\ Held + 1 >= NSubmitted
    /\ ~stop /\ ~exc /\ pc \in {"finally", "drain", "done"} =>
           Held = NSubmitted /\ NSubmitted = TaskCount

(* The generator closes the stream only after its last item or a stop.    *)
ClosedWhenDone == closed => published = TaskCount \/ stop

(* run() only drains after joining a generator that returned, with no     *)
(* exception pending, and returns with an empty deque.                    *)
JoinedBeforeDrain ==
    /\ pc \in {"drain", "done"} => gen = "done" /\ ~exc
    /\ pc = "done" => running = <<>>

AInv ==
    /\ RInv /\ SubmittedPrefix /\ Accounting /\ ClosedWhenDone
    /\ JoinedBeforeDrain

=============================================================================
