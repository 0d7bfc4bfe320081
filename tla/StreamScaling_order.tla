------------------------ MODULE StreamScaling_order ------------------------
(***************************************************************************)
(* The FIFO order of the sliding window, for every value of the constants. *)
(*                                                                         *)
(* The argument: inside the try body the deque holds consecutive task ids  *)
(* ending at the newest one queued, and the future awaited at line 166 is  *)
(* the one just below them (DequeWindow, proved in StreamScaling_proofs).  *)
(* Outside the try body nothing is appended: the deque only loses its      *)
(* head, to the final drain (lines 188-191), which keeps it in order.      *)
(***************************************************************************)
EXTENDS StreamScaling_proofs, SequenceTheorems

USE ConstantsAssumption DEF TaskIds, TaskStates, GenStates, Locations, TryBody

(* Outside the try body a step leaves the deque alone or drops its head. *)
LEMMA DequeOutsideTry ==
  ASSUME [Next]_vars, pc' \notin TryBody
  PROVE  \/ running' = running
         \/ running # <<>> /\ running' = Tail(running)
<1>1. CASE Start \/ EnterTry \/ NextItem \/ LoopExit \/ SubmitCompute
           \/ AwaitOldest \/ CountOldest \/ CatchInterrupt \/ JoinGenerator
           \/ DrainEnd \/ Interrupt
  BY <1>1 DEF Start, EnterTry, NextItem, LoopExit, SubmitCompute,
              AwaitOldest, CountOldest, CatchInterrupt, JoinGenerator,
              DrainEnd, Interrupt
<1>2. CASE AppendTask \/ PopOldest
  BY <1>2 DEF AppendTask, PopOldest
<1>3. CASE DrainOne
  BY <1>3 DEF DrainOne
<1>4. CASE \E t \in TaskIds : TaskFinish(t) \/ TaskFail(t)
  <2>1. PICK t \in TaskIds : TaskFinish(t) \/ TaskFail(t)
    BY <1>4
  <2>2. running' = running
    BY <2>1 DEF TaskFinish, TaskFail
  <2>. QED
    BY <2>2
<1>5. CASE GenPublish \/ GenFinish \/ GenFail
  <2>1. running' = running
    BY <1>5 DEF GenPublish, GenFinish, GenFail
  <2>. QED
    BY <2>1
<1>6. CASE UNCHANGED vars
  <2>1. running' = running
    BY <1>6 DEF vars
  <2>. QED
    BY <2>1
<1>. QED
  BY <1>1, <1>2, <1>3, <1>4, <1>5, <1>6 DEF Next, Main

LEMMA NextOrdered ==
  IInv /\ AwaitsOldestFirst /\ [Next]_vars => AwaitsOldestFirst'
<1> SUFFICES ASSUME IInv, AwaitsOldestFirst, [Next]_vars
             PROVE  AwaitsOldestFirst'
  OBVIOUS
<1>1. IInv'
  BY NextIInv
<1>2. running' \in Seq(TaskIds) /\ consumed' \in Nat /\ popped' \in Nat
  BY <1>1 DEF IInv, TypeInv, TypeOK
<1>3. CASE pc' \in TryBody
  <2>1. /\ \A i \in 1..Len(running') :
              running'[i] = QueuedNewest' - Len(running') + i
        /\ pc' = "wait" => popped' = consumed' - Len(running')
    BY <1>1, <1>3 DEF IInv, WindowInv, DequeWindow
  <2>2. Len(running') \in Nat
    BY <1>2
  <2>3. CASE pc' \in {"item", "submitted"}
    <3>1. \A i \in 1..Len(running') :
             running'[i] = (consumed' - 1) - Len(running') + i
      BY <2>1, <2>3 DEF QueuedNewest
    <3>2. pc' # "wait"
      BY <2>3
    <3>. QED
      BY <1>2, <2>2, <3>1, <3>2 DEF AwaitsOldestFirst
  <2>4. CASE pc' \notin {"item", "submitted"}
    <3>1. \A i \in 1..Len(running') :
             running'[i] = consumed' - Len(running') + i
      BY <2>1, <2>4 DEF QueuedNewest
    <3>. QED
      BY <1>2, <2>1, <2>2, <3>1 DEF AwaitsOldestFirst
  <2>. QED
    BY <2>3, <2>4
<1>4. CASE pc' \notin TryBody
  <2>1. pc' # "wait"
    BY <1>4
  <2>2. CASE running' = running
    BY <2>1, <2>2 DEF AwaitsOldestFirst
  <2>3. CASE running # <<>> /\ running' = Tail(running)
    <3>1. running \in Seq(TaskIds)
      BY DEF IInv, TypeInv, TypeOK
    <3>2. /\ Len(Tail(running)) = Len(running) - 1
          /\ \A i \in 1..Len(Tail(running)) : Tail(running)[i] = running[i + 1]
      BY <2>3, <3>1, HeadTailProperties
    <3>3. Len(running) \in Nat
      BY <3>1
    <3>4. \A i, j \in 1..Len(running') : i < j => running'[i] < running'[j]
      BY <2>3, <3>2, <3>3 DEF AwaitsOldestFirst
    <3>. QED
      BY <2>1, <3>4 DEF AwaitsOldestFirst
  <2>. QED
    BY <1>4, <2>2, <2>3, DequeOutsideTry
<1>. QED
  BY <1>3, <1>4

(* For every max_workers, task_count and number of interrupts and        *)
(* failures, run() collects results in stream order: the deque is in     *)
(* submission order and the future awaited at line 166 is older than     *)
(* every future still queued.                                             *)
THEOREM AwaitsOldestFirstHolds == Spec => []AwaitsOldestFirst
<1>1. Init => AwaitsOldestFirst
  BY DEF Init, AwaitsOldestFirst
<1>. QED
  BY <1>1, InitIInv, NextIInv, NextOrdered, PTL DEF Spec

=============================================================================
