------------------------ MODULE StreamScaling_proofs ------------------------
(***************************************************************************)
(* Proofs about StreamScaling for every value of the constants.           *)
(***************************************************************************)
EXTENDS StreamScaling, FiniteSetTheorems, TLAPS

USE ConstantsAssumption DEF TaskIds, TaskStates, GenStates, Locations, TryBody

-----------------------------------------------------------------------------
(* TypeOK is not inductive by itself: CountOldest and DrainOne increment  *)
(* completed_tasks, which stays within TaskCount only because every       *)
(* increment is paid for by an item the consumer yielded (Bookkeeping),   *)
(* and PopOldest takes the Head of the deque, which is non-empty right    *)
(* after an append.                                                        *)
LEMMA InitTypeInv == Init => TypeInv
<1> SUFFICES ASSUME Init PROVE TypeInv
  OBVIOUS
<1>1. TypeOK
  <2>1. exc \in BOOLEAN /\ stop \in BOOLEAN /\ closed \in BOOLEAN
    BY DEF Init
  <2>. QED
    BY <2>1 DEF Init, TypeOK
<1>2. Bookkeeping
  BY DEF Init, Bookkeeping, Pending
<1>3. pc = "pop" => running # <<>>
  BY DEF Init
<1>. QED
  BY <1>1, <1>2, <1>3 DEF TypeInv

LEMMA NextTypeInv == TypeInv /\ [Next]_vars => TypeInv'
<1> SUFFICES ASSUME TypeInv, [Next]_vars PROVE TypeInv'
  OBVIOUS
<1>. USE DEF TypeInv, TypeOK, Bookkeeping, Pending, Finished
<1>1. CASE Start
  BY <1>1 DEF Start
<1>2. CASE EnterTry
  BY <1>2 DEF EnterTry
<1>3. CASE NextItem
  BY <1>3 DEF NextItem
<1>4. CASE LoopExit
  BY <1>4 DEF LoopExit
<1>5. CASE SubmitCompute
  BY <1>5 DEF SubmitCompute
<1>6. CASE AppendTask
  BY <1>6 DEF AppendTask
<1>7. CASE PopOldest
  BY <1>7 DEF PopOldest
<1>8. CASE AwaitOldest
  <2>1. CASE tasks[popped] = "done"
    BY <1>8, <2>1 DEF AwaitOldest
  <2>2. CASE tasks[popped] # "done"
    <3>1. exc' = TRUE /\ pc' = "finally"
      BY <1>8, <2>2 DEF AwaitOldest
    <3>. QED
      BY <1>8, <3>1 DEF AwaitOldest
  <2>. QED
    BY <2>1, <2>2
<1>9. CASE CountOldest
  BY <1>9 DEF CountOldest
<1>10. CASE JoinGenerator
  BY <1>10 DEF JoinGenerator
<1>11. CASE DrainOne
  BY <1>11 DEF DrainOne
<1>12. CASE DrainEnd
  BY <1>12 DEF DrainEnd
<1>13. CASE Interrupt
  <2>1. CASE pc \in TryBody
    <3>1. pc' = "except" /\ exc' = exc
      BY <1>13, <2>1 DEF Interrupt
    <3>. QED
      BY <1>13, <3>1 DEF Interrupt
  <2>2. CASE pc = "except"
    <3>1. pc' = "finally" /\ exc' = TRUE
      BY <1>13, <2>2 DEF Interrupt
    <3>. QED
      BY <1>13, <2>2, <3>1 DEF Interrupt
  <2>3. CASE pc \notin TryBody \cup {"except"}
    <3>1. pc' = "raised" /\ exc' = exc
      BY <1>13, <2>3 DEF Interrupt
    <3>. QED
      BY <1>13, <3>1 DEF Interrupt
  <2>. QED
    BY <2>1, <2>2, <2>3
<1>20. CASE CatchInterrupt
  <2>1. stop' = TRUE /\ pc' = "finally"
    BY <1>20 DEF CatchInterrupt
  <2>. QED
    BY <1>20, <2>1 DEF CatchInterrupt
<1>14. ASSUME NEW t \in TaskIds, TaskFinish(t) PROVE TypeInv'
  BY <1>14 DEF TaskFinish
<1>15. ASSUME NEW t \in TaskIds, TaskFail(t) PROVE TypeInv'
  BY <1>15 DEF TaskFail
<1>16. CASE GenPublish
  BY <1>16 DEF GenPublish
<1>17. CASE GenFinish
  BY <1>17 DEF GenFinish
<1>18. CASE GenFail
  BY <1>18 DEF GenFail
<1>19. CASE UNCHANGED vars
  BY <1>19 DEF vars
<1>. QED
  BY <1>1, <1>2, <1>3, <1>4, <1>5, <1>6, <1>7, <1>8, <1>9, <1>10, <1>11,
     <1>12, <1>13, <1>14, <1>15, <1>16, <1>17, <1>18, <1>19, <1>20
     DEF Next, Main

(* Every state of run() and of the tasks it drives is well typed: in      *)
(* particular completed_tasks never exceeds task_count and the deque only *)
(* ever holds futures of submitted items.                                  *)
THEOREM TypeCorrect == Spec => []TypeOK
<1>1. Init => TypeInv
  BY InitTypeInv
<1>2. TypeInv /\ [Next]_vars => TypeInv'
  BY NextTypeInv
<1>3. TypeInv => TypeOK
  BY DEF TypeInv
<1>. QED
  BY <1>1, <1>2, <1>3, PTL DEF Spec

-----------------------------------------------------------------------------
(* Cardinality facts the window argument rests on. *)

(* A set of tasks inside an interval of at most k integers has at most k *)
(* elements.                                                               *)
LEMMA IntervalBound ==
  ASSUME NEW S, NEW lo \in Int, NEW hi \in Int, NEW k \in Int,
         S \subseteq lo..hi, hi - lo + 1 <= k, 0 <= k
  PROVE  Cardinality(S) <= k
<1>1. IsFiniteSet(lo..hi) /\ Cardinality(lo..hi) = IF lo > hi THEN 0 ELSE hi - lo + 1
  BY FS_Interval
<1>2. IsFiniteSet(S) /\ Cardinality(S) <= Cardinality(lo..hi)
  BY <1>1, FS_Subset
<1>3. Cardinality(S) \in Nat
  BY <1>2, FS_CardinalityType
<1>. QED
  BY <1>1, <1>2, <1>3

(* The running compute tasks form a finite set. *)
LEMMA InFlightFinite ==
  ASSUME TypeOK
  PROVE  IsFiniteSet(InFlight) /\ Cardinality(InFlight) \in Nat
<1>1. IsFiniteSet(TaskIds)
  BY FS_Interval
<1>2. InFlight \subseteq TaskIds
  BY DEF InFlight
<1>. QED
  BY <1>1, <1>2, FS_Subset, FS_CardinalityType

-----------------------------------------------------------------------------
(* The window argument.  NoOversubscription is not inductive: a step that *)
(* submits a compute task keeps the count within compute_workers only     *)
(* because the tasks still running are confined to the last               *)
(* compute_workers submissions (DequeWindow), which holds because the     *)
(* deque always holds consecutive submissions and the one popped is       *)
(* awaited before the next item is taken.                                  *)
LEMMA InitIInv == Init => IInv
<1> SUFFICES ASSUME Init PROVE IInv
  OBVIOUS
<1>1. InFlight = {}
  BY DEF Init, InFlight
<1>2. ComputeWorkers \in Nat
  BY DEF Init, ComputeWorkers
<1>. QED
  BY <1>1, <1>2, InitTypeInv, FS_EmptySet
     DEF IInv, WindowInv, NothingBeforeTry, WorkersForTry, DequeWindow,
         InFlightBound, Init

LEMMA NextIInv == IInv /\ [Next]_vars => IInv'
<1> SUFFICES ASSUME IInv, [Next]_vars PROVE IInv'
  OBVIOUS
<1>0. TypeInv'
  BY NextTypeInv DEF IInv
<1>. DEFINE W == ComputeWorkers
<1>a. TypeOK /\ Bookkeeping /\ (pc = "pop" => running # <<>>)
  BY DEF IInv, TypeInv
<1>b. NothingBeforeTry /\ WorkersForTry /\ DequeWindow /\ InFlightBound
  BY DEF IInv, WindowInv
<1>c. W \in Int /\ W' \in Int
  BY <1>a, <1>0, SMTT(30) DEF TypeInv, TypeOK, ComputeWorkers
<1>d. IsFiniteSet(InFlight) /\ Cardinality(InFlight) \in Nat
  BY <1>a, InFlightFinite
<1> SUFFICES WindowInv'
  BY <1>0 DEF IInv
<1>1. CASE Start
  <2>1. InFlight' = InFlight /\ InFlight = {} /\ running' = <<>>
    BY <1>1, <1>b DEF Start, InFlight, NothingBeforeTry
  <2>2. Cardinality(InFlight') = 0
    BY <2>1, FS_EmptySet
  <2>3. CASE W = 0
    BY <1>1, <2>2, <2>3 DEF Start, WindowInv, NothingBeforeTry, WorkersForTry,
                           DequeWindow, InFlightBound, ComputeWorkers
  <2>4. CASE W # 0
    <3>1. W >= 1 /\ W' = W
      BY <1>a, <1>1, <2>4 DEF TypeOK, ComputeWorkers, Start
    <3>2. pc' = "pretry"
      BY <1>1, <2>4 DEF Start
    <3>3. NothingBeforeTry'
      BY <2>1, <3>2 DEF NothingBeforeTry
    <3>4. WorkersForTry'
      BY <3>1, <3>2 DEF WorkersForTry
    <3>5. DequeWindow'
      BY <3>2 DEF DequeWindow
    <3>6. InFlightBound'
      BY <2>2, <3>1, <1>c DEF InFlightBound
    <3>. QED
      BY <3>3, <3>4, <3>5, <3>6 DEF WindowInv
  <2>. QED
    BY <2>3, <2>4
<1>2. CASE EnterTry
  <2>1. InFlight' = InFlight /\ InFlight = {} /\ running = <<>> /\ W >= 1
    BY <1>2, <1>b DEF EnterTry, InFlight, NothingBeforeTry, WorkersForTry
  <2>2. W' = W
    BY <1>2 DEF EnterTry, ComputeWorkers
  <2>. QED
    BY <1>2, <1>b, <1>c, <2>1, <2>2 DEF EnterTry, WindowInv, NothingBeforeTry,
       WorkersForTry, DequeWindow, InFlightBound, QueuedNewest, OldestLive,
       NewestLive
<1>3. CASE NextItem
  <2>1. InFlight' = InFlight /\ W' = W
    BY <1>3 DEF NextItem, InFlight, ComputeWorkers
  <2>2. /\ QueuedNewest' = QueuedNewest
        /\ OldestLive' = OldestLive
        /\ NewestLive' = NewestLive
    BY <1>3, <1>a DEF NextItem, QueuedNewest, OldestLive, NewestLive, TypeOK
  <2>. QED
    BY <1>3, <1>b, <2>1, <2>2 DEF NextItem, WindowInv, NothingBeforeTry,
       WorkersForTry, DequeWindow, InFlightBound
<1>4. CASE LoopExit
  <2>1. InFlight' = InFlight /\ W' = W
    BY <1>4 DEF LoopExit, InFlight, ComputeWorkers
  <2>. QED
    BY <1>4, <1>b, <2>1 DEF LoopExit, WindowInv, NothingBeforeTry,
       WorkersForTry, DequeWindow, InFlightBound
<1>5. CASE SubmitCompute
  <2>1. consumed \in TaskIds
    BY <1>5, <1>a DEF SubmitCompute, Bookkeeping, Pending, TypeOK
  <2>2. InFlight' = InFlight \cup {consumed} /\ W' = W
    BY <1>5, <1>a, <2>1 DEF SubmitCompute, InFlight, ComputeWorkers, TypeOK
  <2>3. /\ InFlight \subseteq (consumed - Len(running))..(consumed - 1)
        /\ Len(running) <= W - 1
        /\ W >= 1
    BY <1>5, <1>b DEF SubmitCompute, DequeWindow, OldestLive, NewestLive,
       WorkersForTry
  <2>4. InFlight' \subseteq (consumed - Len(running))..consumed
    BY <2>1, <2>2, <2>3
  <2>5. Len(running) \in Nat /\ consumed \in Int
    BY <1>a DEF TypeOK
  <2>6. Cardinality(InFlight') <= W
    <3>1. /\ consumed - Len(running) \in Int
          /\ consumed \in Int
          /\ W \in Int
          /\ consumed - (consumed - Len(running)) + 1 <= W
          /\ 0 <= W
      BY <2>3, <2>5, <1>c
    <3>. QED
      BY <3>1, <2>4, IntervalBound, Zenon
  <2>7. /\ QueuedNewest' = consumed - 1
        /\ OldestLive' = consumed - Len(running)
        /\ NewestLive' = consumed
    BY <1>5 DEF SubmitCompute, QueuedNewest, OldestLive, NewestLive
  <2>8. QueuedNewest = consumed - 1
    BY <1>5 DEF SubmitCompute, QueuedNewest
  <2>. QED
    BY <1>5, <1>b, <2>2, <2>3, <2>4, <2>6, <2>7, <2>8
       DEF SubmitCompute, WindowInv, NothingBeforeTry, WorkersForTry,
           DequeWindow, InFlightBound
<1>6. CASE AppendTask
  <2>1. InFlight' = InFlight /\ W' = W
    BY <1>6 DEF AppendTask, InFlight, ComputeWorkers
  <2>2. /\ \A i \in 1..Len(running) : running[i] = consumed - 1 - Len(running) + i
        /\ InFlight \subseteq (consumed - Len(running))..consumed
        /\ Len(running) <= W - 1
        /\ W >= 1
    BY <1>6, <1>b DEF AppendTask, DequeWindow, QueuedNewest, OldestLive,
       NewestLive, WorkersForTry
  <2>3. /\ running' = Append(running, consumed)
        /\ Len(running') = Len(running) + 1
        /\ pc' \in {"pop", "loop"}
        /\ pc' = "loop" => Len(running') <= W - 1
        /\ UNCHANGED consumed
    BY <1>6, <1>a, <1>c DEF AppendTask, TypeOK
  <2>4. \A i \in 1..Len(running') : running'[i] = consumed - Len(running') + i
    BY <1>a, <2>2, <2>3 DEF TypeOK
  <2>5. /\ QueuedNewest' = consumed
        /\ OldestLive' = consumed - Len(running') + 1
        /\ NewestLive' = consumed
    BY <2>3 DEF QueuedNewest, OldestLive, NewestLive
  <2>6. InFlight' \subseteq OldestLive'..NewestLive'
    BY <1>a, <2>1, <2>2, <2>3, <2>5 DEF TypeOK
  <2>7. Len(running') <= IF pc' = "pop" THEN W' ELSE W' - 1
    BY <1>c, <2>1, <2>2, <2>3
  <2>8. DequeWindow'
    BY <2>3, <2>4, <2>5, <2>6, <2>7 DEF DequeWindow
  <2>9. NothingBeforeTry' /\ WorkersForTry' /\ InFlightBound'
    BY <1>b, <2>1, <2>2, <2>3 DEF NothingBeforeTry, WorkersForTry, InFlightBound
  <2>. QED
    BY <2>8, <2>9 DEF WindowInv
<1>7. CASE PopOldest
  <2>1. InFlight' = InFlight /\ W' = W
    BY <1>7 DEF PopOldest, InFlight, ComputeWorkers
  <2>2. /\ \A i \in 1..Len(running) : running[i] = consumed - Len(running) + i
        /\ InFlight \subseteq (consumed - Len(running) + 1)..consumed
        /\ Len(running) <= W
        /\ running # <<>>
        /\ W >= 1
    BY <1>7, <1>a, <1>b DEF PopOldest, DequeWindow, QueuedNewest, OldestLive,
       NewestLive, WorkersForTry
  <2>3. /\ popped' = consumed - Len(running) + 1
        /\ Len(running') = Len(running) - 1
        /\ \A i \in 1..Len(running') : running'[i] = consumed - Len(running') + i
        /\ pc' = "wait" /\ UNCHANGED consumed
    BY <1>7, <1>a, <2>2 DEF PopOldest, TypeOK
  <2>4. /\ QueuedNewest' = consumed
        /\ OldestLive' = consumed - Len(running')
        /\ NewestLive' = consumed
    BY <2>3 DEF QueuedNewest, OldestLive, NewestLive
  <2>5. InFlight' \subseteq OldestLive'..NewestLive'
    BY <1>a, <2>1, <2>2, <2>3, <2>4 DEF TypeOK
  <2>6. Len(running') <= W' - 1 /\ popped' = consumed' - Len(running')
    BY <1>a, <1>c, <2>1, <2>2, <2>3 DEF TypeOK
  <2>7. DequeWindow'
    BY <2>3, <2>4, <2>5, <2>6 DEF DequeWindow
  <2>8. NothingBeforeTry' /\ WorkersForTry' /\ InFlightBound'
    BY <1>b, <2>1, <2>2, <2>3 DEF NothingBeforeTry, WorkersForTry, InFlightBound
  <2>. QED
    BY <2>7, <2>8 DEF WindowInv
<1>8. CASE AwaitOldest
  <2>1. InFlight' = InFlight /\ W' = W
    BY <1>8 DEF AwaitOldest, InFlight, ComputeWorkers
  <2>2. CASE tasks[popped] = "done"
    <3>1. /\ \A i \in 1..Len(running) : running[i] = consumed - Len(running) + i
          /\ InFlight \subseteq (consumed - Len(running))..consumed
          /\ Len(running) <= W - 1
          /\ popped = consumed - Len(running)
          /\ W >= 1
      BY <1>8, <1>b DEF AwaitOldest, DequeWindow, QueuedNewest, OldestLive,
         NewestLive, WorkersForTry
    <3>2. popped \notin InFlight
      BY <2>2 DEF InFlight
    <3>3. InFlight \subseteq (consumed - Len(running) + 1)..consumed
      <4>1. consumed \in Int /\ Len(running) \in Nat
        BY <1>a DEF TypeOK
      <4>2. SUFFICES ASSUME NEW t \in InFlight
                     PROVE  t \in (consumed - Len(running) + 1)..consumed
        OBVIOUS
      <4>3. t \in (consumed - Len(running))..consumed /\ t # popped
        BY <3>1, <3>2
      <4>. QED
        BY <4>1, <4>3, <3>1
    <3>4. /\ pc' = "count" /\ UNCHANGED <<consumed, running, popped>>
      BY <1>8, <2>2 DEF AwaitOldest
    <3>5. /\ QueuedNewest' = consumed
          /\ OldestLive' = consumed - Len(running) + 1
          /\ NewestLive' = consumed
      BY <3>4 DEF QueuedNewest, OldestLive, NewestLive
    <3>. QED
      BY <1>b, <2>1, <3>1, <3>3, <3>4, <3>5
         DEF WindowInv, NothingBeforeTry, WorkersForTry, DequeWindow,
             InFlightBound
  <2>3. CASE tasks[popped] # "done"
    <3>1. pc' = "finally"
      BY <1>8, <2>3 DEF AwaitOldest
    <3>. QED
      BY <1>b, <2>1, <3>1 DEF WindowInv, NothingBeforeTry, WorkersForTry,
         DequeWindow, InFlightBound
  <2>. QED
    BY <2>2, <2>3
<1>9. CASE CountOldest
  <2>1. InFlight' = InFlight /\ W' = W
    BY <1>9 DEF CountOldest, InFlight, ComputeWorkers
  <2>2. /\ QueuedNewest' = QueuedNewest
        /\ OldestLive' = OldestLive
        /\ NewestLive' = NewestLive
    BY <1>9 DEF CountOldest, QueuedNewest, OldestLive, NewestLive
  <2>. QED
    BY <1>9, <1>b, <2>1, <2>2 DEF CountOldest, WindowInv, NothingBeforeTry,
       WorkersForTry, DequeWindow, InFlightBound
<1>10. CASE JoinGenerator
  <2>1. InFlight' = InFlight /\ W' = W /\ pc' \in {"raised", "drain"}
    BY <1>10 DEF JoinGenerator, InFlight, ComputeWorkers
  <2>. QED
    BY <1>b, <2>1 DEF WindowInv, NothingBeforeTry, WorkersForTry,
       DequeWindow, InFlightBound
<1>11. CASE DrainOne
  <2>1. InFlight' = InFlight /\ W' = W /\ pc' \in {"raised", "drain"}
    BY <1>11 DEF DrainOne, InFlight, ComputeWorkers
  <2>. QED
    BY <1>b, <2>1 DEF WindowInv, NothingBeforeTry, WorkersForTry,
       DequeWindow, InFlightBound
<1>12. CASE DrainEnd
  <2>1. InFlight' = InFlight /\ W' = W /\ pc' = "done"
    BY <1>12 DEF DrainEnd, InFlight, ComputeWorkers
  <2>. QED
    BY <1>b, <2>1 DEF WindowInv, NothingBeforeTry, WorkersForTry,
       DequeWindow, InFlightBound
<1>13. CASE Interrupt
  <2>1. InFlight' = InFlight /\ W' = W
        /\ pc' \in {"raised", "finally", "except"}
    BY <1>13 DEF Interrupt, InFlight, ComputeWorkers
  <2>. QED
    BY <1>b, <2>1 DEF WindowInv, NothingBeforeTry, WorkersForTry,
       DequeWindow, InFlightBound
<1>20. CASE CatchInterrupt
  <2>1. InFlight' = InFlight /\ W' = W /\ pc' = "finally"
    BY <1>20 DEF CatchInterrupt, InFlight, ComputeWorkers
  <2>. QED
    BY <1>b, <2>1 DEF WindowInv, NothingBeforeTry, WorkersForTry,
       DequeWindow, InFlightBound
<1>14. ASSUME NEW t \in TaskIds, TaskFinish(t) \/ TaskFail(t) PROVE WindowInv'
  <2>1. /\ InFlight' \subseteq InFlight
        /\ W' = W
        /\ UNCHANGED <<pc, consumed, running, popped>>
    BY <1>14, <1>a, SMTT(30) DEF TaskFinish, TaskFail, InFlight, ComputeWorkers, TypeOK
  <2>2. Cardinality(InFlight') <= Cardinality(InFlight)
    BY <1>d, <2>1, FS_Subset
  <2>3. InFlightBound'
    <3>1. IsFiniteSet(InFlight')
      BY <1>d, <2>1, FS_Subset
    <3>2. Cardinality(InFlight') \in Nat
      BY <3>1, FS_CardinalityType
    <3>. QED
      BY <1>b, <1>c, <1>d, <2>1, <2>2, <3>2 DEF InFlightBound
  <2>4. /\ QueuedNewest' = QueuedNewest
        /\ OldestLive' = OldestLive
        /\ NewestLive' = NewestLive
    BY <2>1 DEF QueuedNewest, OldestLive, NewestLive
  <2>. QED
    BY <1>b, <2>1, <2>3, <2>4 DEF WindowInv, NothingBeforeTry, WorkersForTry,
       DequeWindow
<1>15. CASE GenPublish \/ GenFinish \/ GenFail \/ UNCHANGED vars
  <2>1. UNCHANGED <<pc, consumed, running, popped, tasks, maxWorkers>>
    BY <1>15 DEF GenPublish, GenFinish, GenFail, vars
  <2>2. InFlight' = InFlight /\ W' = W
    BY <2>1 DEF InFlight, ComputeWorkers
  <2>3. /\ QueuedNewest' = QueuedNewest
        /\ OldestLive' = OldestLive
        /\ NewestLive' = NewestLive
    BY <2>1 DEF QueuedNewest, OldestLive, NewestLive
  <2>. QED
    BY <1>b, <2>1, <2>2, <2>3 DEF WindowInv, NothingBeforeTry, WorkersForTry,
       DequeWindow, InFlightBound
<1>. QED
  BY <1>1, <1>2, <1>3, <1>4, <1>5, <1>6, <1>7, <1>8, <1>9, <1>10, <1>11,
     <1>12, <1>13, <1>14, <1>15, <1>20 DEF Next, Main

(* Backpressure holds in every run, for every max_workers, task_count and *)
(* number of interrupts and failures: the compute tasks still running plus *)
(* the generator task never exceed executor.max_workers.                   *)
THEOREM NoOversubscriptionHolds == Spec => []NoOversubscription
<1>1. IInv => NoOversubscription
  <2> SUFFICES ASSUME IInv PROVE NoOversubscription
    OBVIOUS
  <2>1. Cardinality(InFlight) <= maxWorkers - 1 /\ maxWorkers \in Nat
    BY DEF IInv, WindowInv, InFlightBound, ComputeWorkers, TypeInv, TypeOK
  <2>2. Cardinality(InFlight) \in Nat
    BY InFlightFinite DEF IInv, TypeInv
  <2>. QED
    BY <2>1, <2>2 DEF NoOversubscription
<1>. QED
  BY <1>1, InitIInv, NextIInv, PTL DEF Spec


-----------------------------------------------------------------------------
(* Two more facts, used by StreamScaling_accounting: the item the consumer *)
(* has just yielded has no compute task yet (FreshItems), and the          *)
(* generator is only submitted from the start location                   *)
(* (GeneratorAfterStart).                                                  *)
LEMMA InitRInv == Init => RInv
<1> SUFFICES ASSUME Init PROVE RInv
  OBVIOUS
<1>1. IInv
  BY InitIInv
<1>2. FreshItems
  BY DEF Init, FreshItems
<1>3. GeneratorAfterStart
  BY DEF Init, GeneratorAfterStart
<1>. QED
  BY <1>1, <1>2, <1>3 DEF RInv

LEMMA NextRInv == RInv /\ [Next]_vars => RInv'
<1> SUFFICES ASSUME RInv, [Next]_vars PROVE RInv'
  OBVIOUS
<1>a. TypeOK /\ FreshItems /\ GeneratorAfterStart
  BY DEF RInv, IInv, TypeInv
<1>1. IInv'
  BY NextIInv DEF RInv
<1>2. FreshItems'
  <2> SUFFICES ASSUME NEW t \in TaskIds, tasks'[t] # "none"
               PROVE  t < consumed' \/ (t = consumed' /\ pc' # "item")
    BY DEF FreshItems
  <2>1. CASE SubmitCompute
    <3>1. CASE t = consumed
      BY <2>1, <3>1 DEF SubmitCompute
    <3>2. CASE t # consumed
      <4>1. tasks[t] # "none" /\ consumed' = consumed /\ pc' = "submitted"
        BY <1>a, <2>1, <3>2 DEF SubmitCompute, TypeOK
      <4>. QED
        BY <1>a, <3>2, <4>1 DEF FreshItems
    <3>. QED
      BY <3>1, <3>2
  <2>2. CASE NextItem
    <3>1. tasks' = tasks /\ consumed' = consumed + 1 /\ consumed \in Int
      BY <1>a, <2>2 DEF NextItem, TypeOK
    <3>. QED
      BY <1>a, <3>1 DEF FreshItems
  <2>3. ASSUME NEW u \in TaskIds, TaskFinish(u) \/ TaskFail(u)
        PROVE  t < consumed' \/ (t = consumed' /\ pc' # "item")
    <3>1. tasks[t] # "none" /\ UNCHANGED <<consumed, pc>>
      BY <1>a, <2>3 DEF TaskFinish, TaskFail, TypeOK
    <3>. QED
      BY <1>a, <3>1 DEF FreshItems
  <2>4. CASE ~SubmitCompute /\ ~NextItem
             /\ ~\E u \in TaskIds : TaskFinish(u) \/ TaskFail(u)
    <3>1. /\ tasks' = tasks /\ consumed' = consumed
          /\ pc' = "item" => pc = "item"
      BY <2>4 DEF Next, Main, Start, EnterTry, LoopExit, AppendTask,
         PopOldest, AwaitOldest, CountOldest, CatchInterrupt, JoinGenerator,
         DrainOne, DrainEnd, Interrupt, GenPublish, GenFinish, GenFail, vars
    <3>. QED
      BY <1>a, <3>1 DEF FreshItems
  <2>. QED
    BY <2>1, <2>2, <2>3, <2>4
<1>3. GeneratorAfterStart'
  <2> SUFFICES ASSUME pc' = "start" PROVE gen' = "idle"
    BY DEF GeneratorAfterStart
  <2>1. pc = "start" /\ gen = "idle"
    BY <1>a DEF Next, Main, Start, EnterTry, NextItem, LoopExit,
       SubmitCompute, AppendTask, PopOldest, AwaitOldest, CountOldest,
       CatchInterrupt, JoinGenerator, DrainOne, DrainEnd, Interrupt,
       TaskFinish, TaskFail, GenPublish, GenFinish, GenFail, vars,
       GeneratorAfterStart
  <2>. QED
    BY <2>1 DEF Next, Main, Start, EnterTry, NextItem, LoopExit,
       SubmitCompute, AppendTask, PopOldest, AwaitOldest, CountOldest,
       CatchInterrupt, JoinGenerator, DrainOne, DrainEnd, Interrupt,
       TaskFinish, TaskFail, GenPublish, GenFinish, GenFail, vars
<1>. QED
  BY <1>1, <1>2, <1>3 DEF RInv

=============================================================================
