----------------------- MODULE BenchmarkLifecycle_proofs -----------------------
(***************************************************************************)
(* Proofs about the Benchmark's ExitStack (main.py lines 81-98).           *)
(*                                                                         *)
(* The argument for NoLeak: enter_context pushes the context managers in  *)
(* the order of Resources while nothing has been exited, and each exit     *)
(* callback the stack runs, whether it returns or is interrupted, pops the *)
(* newest one and logs it.  So the stack always holds the oldest entered   *)
(* context managers and the log the newest ones, newest first (LInv); the  *)
(* benchmark is done with only once the stack is empty, and then the log  *)
(* holds all of them.  The steps of run(), of the executor and of the     *)
(* generator leave the stack alone.                                        *)
(***************************************************************************)
EXTENDS BenchmarkLifecycle, SequenceTheorems, TLAPS

Names == {"consumer", "executor", "store"}

(* Resources is a sequence of three names. *)
LEMMA ResourcesFacts ==
    /\ Len(Resources) = 3
    /\ \A i \in 1..3 : Resources[i] \in Names
BY DEF Resources, Names

LEMMA InitLInv == LifeInit => LInv
<1> SUFFICES ASSUME LifeInit PROVE LInv
  OBVIOUS
<1>1. stack = <<>> /\ exitLog = <<>> /\ entered = 0 /\ phase = "entering"
  BY DEF LifeInit
<1>2. <<>> \in Seq(Names) /\ Len(<<>>) = 0
  BY EmptySeq
<1>3. entered \in 0..Len(Resources)
  BY <1>1, ResourcesFacts
<1>4. stack \in Seq(Names) /\ exitLog \in Seq(Names)
  BY <1>1, <1>2
<1>5. Len(stack) = 0 /\ Len(exitLog) = 0
  BY <1>1, <1>2
<1>6. /\ \A i \in 1..Len(stack) : stack[i] = Resources[i]
      /\ \A i \in 1..Len(exitLog) : exitLog[i] = Resources[entered + 1 - i]
  BY <1>5
<1>7. phase \in {"entering", "running", "exiting", "unwinding", "closed", "failed"}
  BY <1>1
<1>e. entered = 0
  BY <1>1
<1>8. Len(stack) <= entered /\ Len(exitLog) = entered - Len(stack)
  BY <1>e, <1>5
<1>9. phase \in {"entering", "running"} => Len(stack) = entered
  BY <1>e, <1>5
<1>10. phase \in {"failed", "closed"} => stack = <<>>
  BY <1>1
<1>. QED
  BY <1>3, <1>4, <1>6, <1>7, <1>8, <1>9, <1>10, Zenon DEF LInv, Names

(* EnterContext pushes the next context manager while the log is empty. *)
LEMMA EnterContextLInv == LInv /\ EnterContext => LInv'
<1> SUFFICES ASSUME LInv, EnterContext PROVE LInv'
  OBVIOUS
<1>1. /\ stack \in Seq(Names) /\ Len(stack) = entered /\ entered \in 0..2
      /\ Len(exitLog) = 0 /\ exitLog \in Seq(Names)
  BY ResourcesFacts DEF LInv, EnterContext, Names
<1>2. Resources[Len(stack) + 1] \in Names
  BY <1>1, ResourcesFacts
<1>3. /\ stack' \in Seq(Names)
      /\ Len(stack') = Len(stack) + 1
      /\ \A i \in 1..Len(stack) : stack'[i] = stack[i]
      /\ stack'[Len(stack) + 1] = Resources[Len(stack) + 1]
  BY <1>1, <1>2, AppendProperties DEF EnterContext
<1>4. \A i \in 1..Len(stack') : stack'[i] = Resources[i]
  BY <1>1, <1>3 DEF LInv
<1>5. exitLog' = exitLog /\ phase' = "entering" /\ entered' = entered + 1
  BY DEF EnterContext
<1>. QED
  BY <1>1, <1>3, <1>4, <1>5, ResourcesFacts DEF LInv, Names

(* An exit callback, whether it returns (ExitTop) or is interrupted      *)
(* (InterruptShutdown), moves the newest context manager from the stack  *)
(* to the log.                                                            *)
LEMMA PopLInv ==
  ASSUME LInv, phase \in {"exiting", "unwinding"}, stack # <<>>,
         stack' = Pop, exitLog' = Append(exitLog, Top),
         phase' = phase, entered' = entered
  PROVE  LInv'
<1>0. /\ stack \in Seq(Names) /\ exitLog \in Seq(Names)
      /\ entered \in 0..Len(Resources)
      /\ Len(stack) <= entered
      /\ Len(exitLog) = entered - Len(stack)
      /\ \A i \in 1..Len(stack) : stack[i] = Resources[i]
      /\ \A i \in 1..Len(exitLog) : exitLog[i] = Resources[entered + 1 - i]
  BY Zenon DEF LInv, Names
<1>a. PICK n \in Nat \ {0} : n = Len(stack)
  BY <1>0, EmptySeq
<1>b. entered \in Nat /\ entered <= 3
  BY <1>0, ResourcesFacts
<1>1. /\ n \in Nat /\ 1 <= n /\ n <= 3 /\ n <= entered
      /\ entered \in Nat /\ entered <= 3
      /\ Len(exitLog) = entered - n
  BY <1>0, <1>a, <1>b
<1>2. Top = Resources[n] /\ Top \in Names
  <2>1. n \in 1..Len(stack) /\ n \in 1..3
    BY <1>a, <1>1
  <2>2. Top = Resources[n]
    BY <1>0, <1>a, <2>1 DEF Top
  <2>. QED
    BY <2>1, <2>2, ResourcesFacts
<1>3. /\ Pop \in Seq(Names)
      /\ Len(Pop) = n - 1
      /\ \A i \in 1..n - 1 : Pop[i] = stack[i]
  <2>0. stack \in [1..n -> Names]
    BY <1>0, <1>a, LenProperties
  <2>1. \A i \in 1..n - 1 : stack[i] \in Names
    BY <1>1, <2>0
  <2>2. /\ SubSeq(stack, 1, n - 1) \in Seq(Names)
        /\ Len(SubSeq(stack, 1, n - 1)) = IF 1 <= n - 1 THEN n - 1 ELSE 0
        /\ \A i \in 1..(n - 1) - 1 + 1 : SubSeq(stack, 1, n - 1)[i] = stack[1 + i - 1]
    BY <1>1, <2>1, SubSeqProperties
  <2>3. (IF 1 <= n - 1 THEN n - 1 ELSE 0) = n - 1
    BY <1>1
  <2>4. \A i \in 1..n - 1 : SubSeq(stack, 1, n - 1)[i] = stack[i]
    BY <1>1, <2>2
  <2>. QED
    BY <1>a, <2>2, <2>3, <2>4 DEF Pop
<1>4. /\ exitLog' \in Seq(Names)
      /\ Len(exitLog') = Len(exitLog) + 1
      /\ \A i \in 1..Len(exitLog) : exitLog'[i] = exitLog[i]
      /\ exitLog'[Len(exitLog) + 1] = Resources[n]
  <2>1. /\ Append(exitLog, Top) \in Seq(Names)
        /\ Len(Append(exitLog, Top)) = Len(exitLog) + 1
        /\ \A i \in 1..Len(exitLog) : Append(exitLog, Top)[i] = exitLog[i]
        /\ Append(exitLog, Top)[Len(exitLog) + 1] = Top
    BY <1>0, <1>2, AppendProperties
  <2>. QED
    BY <1>2, <2>1
<1>5. \A i \in 1..Len(stack') : stack'[i] = Resources[i]
  <2> SUFFICES ASSUME NEW i \in 1..n - 1
               PROVE  stack'[i] = Resources[i]
    BY <1>3
  <2>1. i \in 1..Len(stack)
    BY <1>a, <1>1
  <2>. QED
    BY <1>0, <1>3, <2>1
<1>6. \A i \in 1..Len(exitLog') : exitLog'[i] = Resources[entered' + 1 - i]
  <2> SUFFICES ASSUME NEW i \in 1..Len(exitLog')
               PROVE  exitLog'[i] = Resources[entered' + 1 - i]
    OBVIOUS
  <2>1. CASE i \in 1..Len(exitLog)
    BY <2>1, <1>0, <1>4
  <2>2. CASE i = Len(exitLog) + 1
    BY <2>2, <1>1, <1>4
  <2>. QED
    BY <1>1, <1>4, <2>1, <2>2
<1>7. /\ entered' \in 0..Len(Resources)
      /\ Len(stack') <= entered'
      /\ Len(exitLog') = entered' - Len(stack')
  BY <1>0, <1>a, <1>1, <1>3, <1>4
<1>8. /\ phase' \in {"entering", "running", "exiting", "unwinding",
                     "closed", "failed"}
      /\ phase' \in {"entering", "running"} => Len(stack') = entered'
      /\ phase' \in {"failed", "closed"} => stack' = <<>>
  OBVIOUS
<1>. QED
  BY <1>3, <1>4, <1>5, <1>6, <1>7, <1>8, Zenon DEF LInv, Names

LEMMA NextLInv == LInv /\ [LifeNext]_allVars => LInv'
<1> SUFFICES ASSUME LInv, [LifeNext]_allVars PROVE LInv'
  OBVIOUS
<1>1. CASE EnterContext
  BY <1>1, EnterContextLInv
<1>2. CASE ExitTop
  BY <1>2, PopLInv DEF ExitTop
<1>3. CASE InterruptShutdown
  BY <1>3, PopLInv DEF InterruptShutdown
<1>4. CASE EnterFails \/ PopAll \/ ExitRun
  BY <1>4 DEF EnterFails, PopAll, ExitRun, LInv
<1>5. CASE ExitDone
  BY <1>5 DEF ExitDone, LInv
<1>6. CASE RunStep \/ Background \/ UNCHANGED allVars
  BY <1>6 DEF RunStep, Background, allVars, lifeVars, LInv
<1>. QED
  BY <1>1, <1>2, <1>3, <1>4, <1>5, <1>6 DEF LifeNext, LifeMain

(* Whatever run(), the executor and the generator do, and wherever       *)
(* __enter__ raises or the executor's shutdown is interrupted, once the   *)
(* benchmark is done with every context manager entered has been exited,  *)
(* newest first.                                                           *)
THEOREM NoLeakHolds == LifeSpec => []NoLeak
<1>1. LInv => NoLeak
  <2> SUFFICES ASSUME LInv, phase \in {"failed", "closed"}
               PROVE  exitLog = [i \in 1..entered |-> Resources[entered + 1 - i]]
    BY DEF NoLeak
  <2>1. Len(exitLog) = entered /\ exitLog \in Seq(Names) /\ entered \in Nat
    BY EmptySeq DEF LInv, Names, Resources
  <2>2. DOMAIN exitLog = 1..entered
    BY <2>1, LenProperties
  <2>. QED
    BY <2>1, <2>2 DEF LInv
<1>. QED
  BY <1>1, InitLInv, NextLInv, PTL DEF LifeSpec

=============================================================================
