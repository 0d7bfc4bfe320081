------------------------ MODULE StreamScaling_accounting ------------------------
(***************************************************************************)
(* The proof that the RunResult run() returns accounts for the compute     *)
(* tasks it submitted (ResultAccounting), for every max_workers,           *)
(* task_count and number of interrupts and failures.                       *)
(*                                                                         *)
(* The argument: the submitted tasks are always 1..NSubmitted (the items   *)
(* yielded so far, less the current one while its task is not submitted). *)
(* Held, the tasks run() still accounts for (counted, queued, or the one  *)
(* future it holds), equals NSubmitted throughout the loop.  Only two      *)
(* steps lose a future: an interrupt caught while run() holds one, and a  *)
(* failed result(); the first sets stop_generator, the second sets a      *)
(* pending exception, and both lose one at most.  A loop that ends without *)
(* either ended on a closed stream the generator filled, so every item    *)
(* was consumed.  run() returns only from the drain, which it enters after *)
(* joining a generator that returned and with no exception pending, and   *)
(* the drain counts every future it pops.                                  *)
(***************************************************************************)
EXTENDS StreamScaling_proofs

LEMMA InitAInv == Init => AInv
<1> SUFFICES ASSUME Init PROVE AInv
  OBVIOUS
<1>1. RInv
  BY InitRInv
<1>2. consumed = 0 /\ NSubmitted = 0 /\ Held = 0
  BY DEF Init, NSubmitted, Held
<1>. QED
  BY <1>1, <1>2 DEF Init, AInv, SubmittedPrefix, Accounting, ClosedWhenDone,
     JoinedBeforeDrain

(* A step that changes neither the consumer position nor the tasks leaves *)
(* the submitted tasks as they are.                                        *)
LEMMA NSubmittedUnchanged ==
  UNCHANGED <<consumed, tasks>> => NSubmitted' = NSubmitted
BY DEF NSubmitted

LEMMA NextAInv == AInv /\ [Next]_vars => AInv'
<1> SUFFICES ASSUME AInv, [Next]_vars PROVE AInv'
  OBVIOUS
<1>a. /\ TypeOK /\ Bookkeeping /\ FreshItems /\ (pc = "pop" => running # <<>>)
  BY DEF AInv, RInv, IInv, TypeInv
<1>b. SubmittedPrefix /\ Accounting /\ ClosedWhenDone /\ JoinedBeforeDrain
  BY DEF AInv
<1>c. RInv'
  BY NextRInv DEF AInv
<1>d. TypeOK'
  BY <1>c DEF RInv, IInv, TypeInv
<1>e. /\ Len(running) \in Nat /\ completed \in Nat /\ consumed \in Nat
      /\ Held \in Int /\ NSubmitted \in Int
  BY <1>a DEF TypeOK, Held, NSubmitted
<1>g. Len(running') \in Nat /\ completed' \in Nat /\ consumed' \in Nat
  BY <1>d DEF TypeOK
<1> USE <1>e, <1>g
(* In the loop, and at the current item once it is submitted, the        *)
(* submitted tasks are exactly the items yielded.                          *)
<1>f. pc \in TryBody \ {"item"} => NSubmitted = consumed
  BY <1>a, <1>b DEF SubmittedPrefix, NSubmitted, TypeOK, TaskIds, TryBody
<1> SUFFICES /\ SubmittedPrefix' /\ Accounting' /\ ClosedWhenDone'
             /\ JoinedBeforeDrain'
  BY <1>c DEF AInv
<1>1. CASE Start
  <2>1. /\ UNCHANGED <<consumed, tasks, completed, running, stop, exc,
                       closed, published>>
        /\ pc = "start" /\ pc' \in {"raised", "pretry"}
    BY <1>1 DEF Start
  <2>2. NSubmitted' = NSubmitted /\ Held' = Held
    BY <2>1, NSubmittedUnchanged DEF Held
  <2>. QED
    BY <1>b, <2>1, <2>2 DEF SubmittedPrefix, Accounting, ClosedWhenDone,
       JoinedBeforeDrain, TryBody
<1>2. CASE EnterTry
  <2>1. /\ UNCHANGED <<consumed, tasks, completed, running, stop, exc,
                       closed, published, gen>>
        /\ pc = "pretry" /\ pc' = "loop"
    BY <1>2 DEF EnterTry
  <2>2. NSubmitted' = NSubmitted /\ Held' = Held /\ consumed = 0
    BY <1>b, <2>1, NSubmittedUnchanged DEF Held, Accounting
  <2>. QED
    BY <1>b, <2>1, <2>2 DEF SubmittedPrefix, Accounting, ClosedWhenDone,
       JoinedBeforeDrain, TryBody, TaskIds
<1>3. CASE NextItem
  <2>1. /\ UNCHANGED <<tasks, completed, running, stop, exc, closed,
                       published, gen>>
        /\ pc = "loop" /\ pc' = "item" /\ consumed' = consumed + 1
        /\ consumed + 1 \in TaskIds
    BY <1>3, <1>a, ConstantsAssumption DEF NextItem, TypeOK, TaskIds
  <2>2. tasks[consumed + 1] = "none"
    BY <1>a, <1>e, <2>1 DEF FreshItems
  <2>3. NSubmitted' = consumed /\ NSubmitted = consumed
    BY <1>e, <1>f, <2>1, <2>2 DEF NSubmitted, TryBody
  <2>4. Held' = Held
    BY <2>1 DEF Held
  <2>5. SubmittedPrefix'
    <3> SUFFICES ASSUME NEW t \in TaskIds, t < consumed + 1
                 PROVE  tasks[t] # "none"
      BY <2>1 DEF SubmittedPrefix
    <3>1. t < consumed \/ t = consumed
      BY DEF TaskIds
    <3>. QED
      BY <1>b, <2>1, <3>1 DEF SubmittedPrefix, TryBody
  <2>. QED
    BY <1>b, <2>1, <2>3, <2>4, <2>5 DEF Accounting, ClosedWhenDone,
       JoinedBeforeDrain, TryBody
<1>4. CASE LoopExit
  <2>1. /\ UNCHANGED <<consumed, tasks, completed, running, stop, exc,
                       closed, published, gen>>
        /\ pc = "loop" /\ pc' = "finally" /\ consumed = published /\ closed
    BY <1>4 DEF LoopExit
  <2>2. NSubmitted' = NSubmitted /\ Held' = Held /\ NSubmitted = consumed
    BY <1>f, <2>1, NSubmittedUnchanged DEF Held, TryBody
  <2>3. Held = NSubmitted /\ (~stop => published = TaskCount)
    BY <1>b, <2>1 DEF Accounting, ClosedWhenDone, TryBody
  <2>. QED
    BY <1>b, <2>1, <2>2, <2>3 DEF SubmittedPrefix, Accounting,
       ClosedWhenDone, JoinedBeforeDrain, TryBody
<1>5. CASE SubmitCompute
  <2>1. /\ UNCHANGED <<consumed, completed, running, stop, exc, closed,
                       published, gen>>
        /\ pc = "item" /\ pc' = "submitted"
        /\ tasks' = [tasks EXCEPT ![consumed] = "running"]
    BY <1>5 DEF SubmitCompute
  <2>2. consumed \in TaskIds /\ tasks[consumed] = "none"
    BY <1>a, <2>1 DEF Bookkeeping, Pending, TypeOK, FreshItems, TaskIds
  <2>3. NSubmitted = consumed - 1 /\ NSubmitted' = consumed
    BY <1>a, <2>1, <2>2 DEF NSubmitted, TaskIds, TypeOK
  <2>4. Held' = Held + 1 /\ Held = NSubmitted
    BY <1>b, <2>1 DEF Held, Accounting, TryBody
  <2>5. SubmittedPrefix'
    BY <1>a, <1>b, <2>1, <2>2 DEF SubmittedPrefix, TypeOK
  <2>. QED
    BY <1>b, <1>e, <2>1, <2>3, <2>4, <2>5 DEF Accounting, ClosedWhenDone,
       JoinedBeforeDrain, TryBody
<1>6. CASE AppendTask
  <2>1. /\ UNCHANGED <<consumed, tasks, completed, stop, exc, closed,
                       published, gen>>
        /\ pc = "submitted" /\ pc' \in {"pop", "loop"}
        /\ Len(running') = Len(running) + 1
    BY <1>6, <1>a DEF AppendTask, TypeOK
  <2>2. NSubmitted' = NSubmitted /\ Held' = Held
    BY <2>1, NSubmittedUnchanged DEF Held
  <2>. QED
    BY <1>b, <2>1, <2>2 DEF SubmittedPrefix, Accounting, ClosedWhenDone,
       JoinedBeforeDrain, TryBody
<1>7. CASE PopOldest
  <2>1. /\ UNCHANGED <<consumed, tasks, completed, stop, exc, closed,
                       published, gen>>
        /\ pc = "pop" /\ pc' = "wait"
        /\ Len(running') = Len(running) - 1
    BY <1>7, <1>a DEF PopOldest, TypeOK
  <2>2. NSubmitted' = NSubmitted /\ Held' = Held
    BY <2>1, NSubmittedUnchanged DEF Held
  <2>. QED
    BY <1>b, <2>1, <2>2 DEF SubmittedPrefix, Accounting, ClosedWhenDone,
       JoinedBeforeDrain, TryBody
<1>8. CASE AwaitOldest
  <2>1. /\ UNCHANGED <<consumed, tasks, completed, running, stop, closed,
                       published, gen>>
        /\ pc = "wait"
        /\ \/ pc' = "count" /\ exc' = exc
           \/ pc' = "finally" /\ exc' = TRUE
    BY <1>8 DEF AwaitOldest
  <2>2. NSubmitted' = NSubmitted /\ Held = NSubmitted
    BY <1>b, <2>1, NSubmittedUnchanged DEF Accounting, TryBody
  <2>3. Held' = IF pc' = "count" THEN Held ELSE Held - 1
    BY <2>1 DEF Held
  <2>. QED
    BY <1>b, <1>e, <2>1, <2>2, <2>3 DEF SubmittedPrefix, Accounting,
       ClosedWhenDone, JoinedBeforeDrain, TryBody
<1>9. CASE CountOldest
  <2>1. /\ UNCHANGED <<consumed, tasks, running, stop, exc, closed,
                       published, gen>>
        /\ pc = "count" /\ pc' = "loop" /\ completed' = completed + 1
    BY <1>9 DEF CountOldest
  <2>2. NSubmitted' = NSubmitted /\ Held' = Held
    BY <2>1, NSubmittedUnchanged DEF Held
  <2>. QED
    BY <1>b, <2>1, <2>2 DEF SubmittedPrefix, Accounting, ClosedWhenDone,
       JoinedBeforeDrain, TryBody
<1>10. CASE CatchInterrupt
  <2>1. /\ UNCHANGED <<consumed, tasks, completed, running, exc, closed,
                       published, gen>>
        /\ pc = "except" /\ pc' = "finally" /\ stop' = TRUE
    BY <1>10 DEF CatchInterrupt
  <2>2. NSubmitted' = NSubmitted /\ Held' = Held
    BY <2>1, NSubmittedUnchanged DEF Held
  <2>. QED
    BY <1>b, <2>1, <2>2 DEF SubmittedPrefix, Accounting, ClosedWhenDone,
       JoinedBeforeDrain, TryBody
<1>11. CASE JoinGenerator
  <2>1. /\ UNCHANGED <<consumed, tasks, completed, running, stop, exc,
                       closed, published, gen>>
        /\ pc = "finally"
        /\ pc' = IF exc \/ gen = "failed" THEN "raised" ELSE "drain"
        /\ gen \in {"done", "failed"}
    BY <1>11 DEF JoinGenerator, Finished
  <2>2. NSubmitted' = NSubmitted /\ Held' = Held
    BY <2>1, NSubmittedUnchanged DEF Held
  <2>. QED
    BY <1>b, <2>1, <2>2 DEF SubmittedPrefix, Accounting, ClosedWhenDone,
       JoinedBeforeDrain, TryBody
<1>12. CASE DrainOne
  <2>1. /\ UNCHANGED <<consumed, tasks, stop, exc, closed, published, gen>>
        /\ pc = "drain" /\ running # <<>>
        /\ Len(running') = Len(running) - 1
        /\ \/ pc' = "drain" /\ completed' = completed + 1
           \/ pc' = "raised" /\ completed' = completed
    BY <1>12, <1>a DEF DrainOne, TypeOK
  <2>2. NSubmitted' = NSubmitted
    BY <2>1, NSubmittedUnchanged
  <2>3. pc' = "drain" => Held' = Held
    BY <2>1 DEF Held
  <2>. QED
    BY <1>b, <2>1, <2>2, <2>3 DEF SubmittedPrefix, Accounting,
       ClosedWhenDone, JoinedBeforeDrain, TryBody
<1>13. CASE DrainEnd
  <2>1. /\ UNCHANGED <<consumed, tasks, completed, running, stop, exc,
                       closed, published, gen>>
        /\ pc = "drain" /\ pc' = "done" /\ running = <<>>
    BY <1>13 DEF DrainEnd
  <2>2. NSubmitted' = NSubmitted /\ Held' = Held
    BY <2>1, NSubmittedUnchanged DEF Held
  <2>. QED
    BY <1>b, <2>1, <2>2 DEF SubmittedPrefix, Accounting, ClosedWhenDone,
       JoinedBeforeDrain, TryBody
<1>14. CASE Interrupt
  <2>1. /\ UNCHANGED <<consumed, tasks, completed, running, stop, closed,
                       published, gen>>
        /\ \/ pc \in TryBody /\ pc' = "except" /\ exc' = exc
           \/ pc = "except" /\ pc' = "finally" /\ exc' = TRUE
           \/ pc \notin TryBody \cup {"except"} /\ pc' = "raised"
    BY <1>14 DEF Interrupt
  <2>2. NSubmitted' = NSubmitted
    BY <2>1, NSubmittedUnchanged
  <2>3. pc' = "except" => Held' <= Held /\ Held' + 1 >= Held
    BY <1>e, <2>1 DEF Held
  <2>4. pc' = "finally" => Held' = Held
    BY <2>1 DEF Held
  <2>. QED
    BY <1>b, <1>e, <2>1, <2>2, <2>3, <2>4 DEF SubmittedPrefix, Accounting,
       ClosedWhenDone, JoinedBeforeDrain, TryBody
<1>15. ASSUME NEW u \in TaskIds, TaskFinish(u) \/ TaskFail(u)
       PROVE  SubmittedPrefix' /\ Accounting' /\ ClosedWhenDone'
              /\ JoinedBeforeDrain'
  <2>1. /\ UNCHANGED <<pc, consumed, completed, running, stop, exc, closed,
                       published, gen>>
        /\ tasks[u] = "running" /\ tasks'[u] \in {"done", "failed"}
        /\ \A t \in TaskIds \ {u} : tasks'[t] = tasks[t]
    BY <1>15, <1>a DEF TaskFinish, TaskFail, TypeOK
  <2>2. \A t \in TaskIds : tasks'[t] = "none" <=> tasks[t] = "none"
    BY <2>1
  <2>3. NSubmitted' = NSubmitted
    BY <1>a, <2>1, <2>2 DEF NSubmitted, TypeOK, TaskIds
  <2>4. Held' = Held
    BY <2>1 DEF Held
  <2>. QED
    BY <1>b, <2>1, <2>2, <2>3, <2>4 DEF SubmittedPrefix, Accounting,
       ClosedWhenDone, JoinedBeforeDrain
<1>16. CASE GenPublish \/ GenFinish \/ GenFail \/ UNCHANGED vars
  <2>1. /\ UNCHANGED <<pc, consumed, tasks, completed, running, stop, exc>>
        /\ gen' # gen => gen = "running"
    BY <1>16 DEF GenPublish, GenFinish, GenFail, vars
  <2>3. ClosedWhenDone'
    <3>1. CASE GenPublish
      <4>1. ~closed
        BY <1>a, <1>b, <3>1 DEF GenPublish, ClosedWhenDone, TypeOK
      <4>. QED
        BY <3>1, <4>1 DEF GenPublish, ClosedWhenDone
    <3>2. CASE GenFinish \/ GenFail \/ UNCHANGED vars
      BY <1>b, <3>2 DEF GenFinish, GenFail, vars, ClosedWhenDone
    <3>. QED
      BY <1>16, <3>1, <3>2
  <2>2. NSubmitted' = NSubmitted /\ Held' = Held
    BY <2>1, NSubmittedUnchanged DEF Held
  <2>. QED
    BY <1>b, <2>1, <2>2, <2>3 DEF SubmittedPrefix, Accounting,
       JoinedBeforeDrain
<1>. QED
  BY <1>1, <1>2, <1>3, <1>4, <1>5, <1>6, <1>7, <1>8, <1>9, <1>10, <1>11,
     <1>12, <1>13, <1>14, <1>15, <1>16 DEF Next, Main

(* The submitted tasks are the first NSubmitted items. *)
LEMMA SubmittedIsPrefix ==
  AInv => /\ Submitted = 1..NSubmitted
          /\ NSubmitted \in 0..TaskCount
<1> SUFFICES ASSUME AInv PROVE Submitted = 1..NSubmitted /\ NSubmitted \in 0..TaskCount
  OBVIOUS
<1>a. TypeOK /\ FreshItems /\ SubmittedPrefix
  BY DEF AInv, RInv, IInv, TypeInv
<1>1. NSubmitted \in 0..TaskCount /\ NSubmitted <= consumed
  BY <1>a, ConstantsAssumption DEF NSubmitted, TypeOK
<1>2. ASSUME NEW t \in TaskIds PROVE tasks[t] # "none" <=> t <= NSubmitted
  BY <1>a, ConstantsAssumption
  DEF FreshItems, SubmittedPrefix, NSubmitted, TypeOK, TaskIds
<1>3. ASSUME NEW t PROVE t \in Submitted <=> t \in 1..NSubmitted
  <2>1. ASSUME t \in 1..NSubmitted PROVE t \in Submitted
    <3>1. t \in TaskIds /\ t <= NSubmitted
      BY <1>1, <2>1, ConstantsAssumption DEF TaskIds
    <3>. QED
      BY <1>2, <3>1 DEF Submitted
  <2>2. ASSUME t \in Submitted PROVE t \in 1..NSubmitted
    <3>1. t \in TaskIds /\ tasks[t] # "none"
      BY <2>2 DEF Submitted
    <3>2. t <= NSubmitted /\ t \in Nat \ {0}
      BY <1>2, <3>1 DEF TaskIds
    <3>. QED
      BY <1>1, <3>2
  <2>. QED
    BY <2>1, <2>2
<1>. QED
  BY <1>1, <1>3

(* The RunResult of a run that returns, for every max_workers, task_count *)
(* and number of interrupts and failures: the generator was joined, and    *)
(* completed_tasks counts every task submitted, or every one but the      *)
(* future in hand when a KeyboardInterrupt was caught; without an         *)
(* interrupt every item of the stream was submitted.                       *)
THEOREM ResultAccountingHolds == Spec => []ResultAccounting
<1>1. AInv => ResultAccounting
  <2> SUFFICES ASSUME AInv, pc = "done" PROVE ResultAccounting
    BY DEF ResultAccounting
  <2>1. Cardinality(Submitted) = NSubmitted
    <3>1. Submitted = 1..NSubmitted /\ NSubmitted \in 0..TaskCount
      BY SubmittedIsPrefix
    <3>2. Cardinality(1..NSubmitted) = NSubmitted
      BY <3>1, FS_Interval
    <3>. QED
      BY <3>1, <3>2
  <2>0. NSubmitted \in Nat /\ Held \in Nat
    BY SubmittedIsPrefix, ConstantsAssumption DEF AInv, RInv, IInv, TypeInv,
       TypeOK, Held
  <2>2. gen = "done" /\ ~exc /\ completed = Held
    BY DEF AInv, JoinedBeforeDrain, Held, RInv, IInv, TypeInv, TypeOK
  <2>3. /\ Held <= NSubmitted /\ Held + 1 >= NSubmitted
        /\ ~stop => Held = NSubmitted /\ NSubmitted = TaskCount
    BY <2>2 DEF AInv, Accounting
  <2>. QED
    BY <2>0, <2>1, <2>2, <2>3 DEF ResultAccounting
<1>. QED
  BY <1>1, InitAInv, NextAInv, PTL DEF Spec

=============================================================================
