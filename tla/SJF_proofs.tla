------------------------------ MODULE SJF_proofs ----------------------------
(***************************************************************************)
(* The theorems of SJF, for any number of processes, any table and any     *)
(* failing call.  The steps of the loop are those of Parent_proofs; here   *)
(* are the choice of the shortest, the SCHED_FIFO priority that it gets,   *)
(* and the fork that must not fail.                                        *)
(***************************************************************************)
EXTENDS SJF, Parent_proofs

-----------------------------------------------------------------------------
(* The choice. *)

(* Of the entries of least execution time the first of the table.          *)
LEMMA ShortestExists ==
  ASSUME LoopInv, Ready # {}
  PROVE  \E j \in Ready : \A k \in Ready : Shorter(j, k)
<1>1. /\ Ready \subseteq Idx /\ Ready \subseteq Nat
      /\ \A j \in Ready : exec[j] \in Nat
  BY ChildOfIndex DEF Ready, LoopInv, ParentTypeOK
<1> DEFINE units == {exec[j] : j \in Ready}
<1>2. units \in SUBSET Nat /\ units # {}
  BY <1>1
<1>3. PICK x \in units : \A y \in units : x <= y
  <2> HIDE DEF units
  <2> QED BY <1>2, LeastNat
<1> DEFINE least == {j \in Ready : exec[j] = x}
<1>4. least \in SUBSET Nat /\ least # {}
  BY <1>1
<1>5. PICK j \in least : \A k \in least : j <= k
  <2> HIDE DEF least
  <2> QED BY <1>4, LeastNat
<1>6. \A k \in Ready : Shorter(j, k)
  <2> SUFFICES ASSUME NEW k \in Ready PROVE Shorter(j, k)
    OBVIOUS
  <2>1. exec[j] = x /\ exec[j] \in Nat /\ exec[k] \in Nat /\ exec[j] <= exec[k]
    BY <1>1, <1>3, <1>5
  <2>2. exec[k] = exec[j] => j <= k
    BY <1>5, <2>1
  <2> QED BY <2>1, <2>2 DEF Shorter
<1> QED BY <1>5, <1>6

(* What is chosen when nobody is running.                                  *)
LEMMA NextShortestIdle ==
  ASSUME LoopInv, running = -1, Ready # {}
  PROVE  NextShortest \in Ready /\ \A k \in Ready : Shorter(NextShortest, k)
<1>1. NextShortest = CHOOSE j \in Ready : \A k \in Ready : Shorter(j, k)
  BY DEF NextShortest
<1> QED BY <1>1, ShortestExists

(* A dispatch is always from the idle CPU, to the shortest ready entry.    *)
LEMMA DispatchFromIdle ==
  ASSUME LoopInv, ToForeground(NextShortest)
  PROVE  /\ running = -1 /\ NextShortest \in Ready /\ NextShortest # running
         /\ NextShortest \in Idx
         /\ \A k \in Ready : Shorter(NextShortest, k)
<1>1. NextShortest \notin {-1, running}
  BY DEF ToForeground
<1>2. running = -1 /\ Ready # {}
  BY <1>1 DEF NextShortest
<1>3. NextShortest \in Ready /\ \A k \in Ready : Shorter(NextShortest, k)
  BY <1>2, NextShortestIdle
<1> QED BY <1>1, <1>2, <1>3 DEF Ready

-----------------------------------------------------------------------------
(* The invariant of the loop is preserved by the two steps that only SJF   *)
(* has.                                                                    *)

(* A failing fork ends the program at once.                                *)
LEMMA ForkFatalStep ==
  ASSUME LoopInv, NEW j \in Idx, ForkFatal(j)
  PROVE  LoopInv'
<1> USE ChildOfIndex
<1>1. /\ pc = "fork" /\ pc' = "exited"
      /\ FirstDue(j) /\ life' = [life EXCEPT ![Child(j)] = "failed"]
      /\ UNCHANGED <<class, cpu, left, i, time, running, finished, exec, pid,
                     ended, table>>
  BY DEF ForkFatal, ForkFails
<1>2. /\ life[Child(j)] = "unborn" /\ pid[j] = NoPid /\ ended[j] = -1
      /\ running # j
  BY <1>1, DueIsUnborn
<1>3. KernelTypeOK'
  BY <1>1 DEF LoopInv, ParentTypeOK, KernelTypeOK, Lives
<1>4. ParentTypeOK' /\ Sorted(ready)'
  BY <1>1, <1>3 DEF LoopInv, ParentTypeOK, Steps, table, Sorted
<1>5. \A k \in Idx :
        life'[Child(k)] = IF k = j THEN "failed" ELSE life[Child(k)]
  BY <1>1 DEF LoopInv, ParentTypeOK, KernelTypeOK
<1>6. ForkedWhenDue'
  BY <1>1 DEF ForkedWhenDue
<1>7. Entered'
  BY <1>1, <1>2, <1>5 DEF LoopInv, Entered
<1>8. RunningIsReady'
  BY <1>1 DEF LoopInv, RunningIsReady
<1>9. EndedIsReaped'
  BY <1>1, <1>2, <1>5 DEF LoopInv, EndedIsReaped
<1> QED BY <1>4, <1>6, <1>7, <1>8, <1>9 DEF LoopInv

(* Wake-up and switch are one step: nobody has to be put back.             *)
LEMMA ToForegroundStep ==
  ASSUME LoopInv, NEW next \in Ready, ToForeground(next)
  PROVE  LoopInv'
<1>1. /\ pc = "select" /\ pc' = "tick" /\ running' = next
      /\ class' = Reclass(pid[next], 99)
      /\ UNCHANGED <<life, cpu, left, i, time, finished, exec, pid, ended, table>>
  BY DEF ToForeground
<1>2. next \in Idx /\ pid[next] # NoPid /\ exec[next] > 0
  BY DEF Ready
<1>3. KernelTypeOK'
  <2>1. 99 \in Class
    BY DEF SCHED_IDLE, Class
  <2> QED BY <1>1, <2>1, ReclassType DEF LoopInv, ParentTypeOK, KernelTypeOK
<1>4. ParentTypeOK' /\ Sorted(ready)'
  BY <1>1, <1>2, <1>3 DEF LoopInv, ParentTypeOK, Steps, table, Sorted
<1>5. ForkedWhenDue'
  BY <1>1 DEF LoopInv, ForkedWhenDue, PastFork, table
<1>6. Entered' /\ EndedIsReaped'
  BY <1>1 DEF LoopInv, Entered, EndedIsReaped
<1>7. ended[next] = -1
  BY <1>2 DEF LoopInv, EndedIsReaped
<1>8. RunningIsReady'
  BY <1>1, <1>2, <1>7 DEF RunningIsReady
<1> QED BY <1>4, <1>5, <1>6, <1>8 DEF LoopInv

-----------------------------------------------------------------------------
(* The invariant of SJF. *)

(* A fork fails only in the last step of the program.                      *)
FailedMeansExit == pc # "exited" => \A j \in Idx : life[Child(j)] # "failed"

LoopOK == ParentInv /\ OnTime /\ FailedMeansExit

(* The invariant holds before the loop.                                    *)
LEMMA SjfInit == Init => LoopOK
<1> SUFFICES ASSUME Init PROVE LoopOK
  OBVIOUS
<1>1. FailedMeansExit
  BY ChildOfIndex DEF Init, ParentInit, KernelInit, FailedMeansExit
<1> QED BY <1>1, ParentInitInv, OnTimeInit DEF Init, LoopOK

(* Every step of SJF keeps the invariant of the shared loop.               *)
LEMMA ParentInvStep ==
  ASSUME LoopOK, [Next]_vars
  PROVE  ParentInv'
<1> USE DEF LoopOK, ParentInv
<1>1. CASE ReapRunning
  BY <1>1, ReapRunningStep, ReapRunningCounts
<1>2. CASE NothingToReap
  BY <1>2, NothingToReapStep, CountedKept DEF NothingToReap
<1>3. ASSUME NEW j \in Idx, ForkChild(j) PROVE ParentInv'
  BY <1>3, ForkChildStep, CountedKept DEF ForkChild
<1>4. ASSUME NEW j \in Idx, ForkFatal(j) PROVE ParentInv'
  BY <1>4, ForkFatalStep, CountedKept DEF ForkFatal
<1>5. CASE AssignCpu
  BY <1>5, AssignCpuStep, CountedKept DEF AssignCpu
<1>6. CASE AssignFails
  BY <1>6, AssignFailsStep, CountedKept DEF AssignFails
<1>7. CASE Block
  BY <1>7, BlockStep, CountedKept DEF Block
<1>8. CASE EndFork
  BY <1>8, EndForkStep, CountedKept DEF EndFork
<1>9. CASE KeepRunning(NextShortest)
  BY <1>9, KeepRunningStep, CountedKept DEF KeepRunning
<1>10. CASE ToForeground(NextShortest)
  BY <1>10, DispatchFromIdle, ToForegroundStep, CountedKept DEF ToForeground
<1>11. CASE Tick
  BY <1>11, TickStep, CountedKept DEF Tick
<1>12. CASE Children
  BY <1>12, ChildrenStep, CountedKept DEF Children, parent
<1>13. CASE UNCHANGED <<kernel, parent>>
  BY <1>13, StutterStep
<1> QED
  BY <1>1, <1>2, <1>3, <1>4, <1>5, <1>6, <1>7, <1>8, <1>9, <1>10, <1>11, <1>12,
     <1>13 DEF Next, Scheduler, Terminated, vars

(* Every step of SJF keeps the clock within the units charged.             *)
LEMMA OnTimeStep ==
  ASSUME LoopOK, [Next]_vars
  PROVE  OnTime'
<1> USE DEF LoopOK, ParentInv
<1>1. ASSUME NEW j \in Idx, ForkChild(j) PROVE OnTime'
  BY <1>1, OnTimeForkChild
<1>2. CASE AssignCpu
  BY <1>2, OnTimeAssignCpu
<1>3. CASE Block
  BY <1>3, OnTimeBlock
<1>4. CASE Tick
  BY <1>4, OnTimeTick
<1>5. CASE KeepRunning(NextShortest)
  <2>1. running = -1 => Ready = {}
    BY <1>5, NextShortestIdle, ChildOfIndex DEF KeepRunning, Ready
  <2> QED BY <1>5, <2>1, OnTimeKept DEF KeepRunning, table
<1>6. CASE ToForeground(NextShortest)
  BY <1>6, DispatchFromIdle, ChildOfIndex, OnTimeKept DEF ToForeground, table
<1>7. CASE \/ ReapRunning \/ NothingToReap \/ AssignFails \/ EndFork
           \/ \E j \in Idx : ForkFatal(j)
  <2>1. /\ UNCHANGED <<time, exec, pid, ready, burst>>
        /\ pc' \notin {"assign", "block", "tick"}
    BY <1>7 DEF ReapRunning, NothingToReap, AssignFails, EndFork, ForkFatal, table
  <2> QED BY <2>1, OnTimeKept
<1>8. CASE Children \/ UNCHANGED <<kernel, parent>>
  <2>1. UNCHANGED <<pc, i, time, running, exec, pid, ready, burst>>
    BY <1>8 DEF Children, parent
  <2> QED BY <2>1, OnTimeKept DEF OnTime
<1> QED
  BY <1>1, <1>2, <1>3, <1>4, <1>5, <1>6, <1>7, <1>8
     DEF Next, Scheduler, Terminated, vars

(* Only the fatal fork makes a child a failed one, and it ends the loop.   *)
LEMMA FailedStep ==
  ASSUME LoopOK, [Next]_vars
  PROVE  FailedMeansExit'
<1> USE ChildOfIndex DEF LoopOK, ParentInv
<1>1. ASSUME NEW j \in Idx, ForkChild(j) PROVE FailedMeansExit'
  BY <1>1 DEF ForkChild, Fork, FailedMeansExit, LoopInv, ParentTypeOK, KernelTypeOK
<1>2. CASE ReapRunning
  BY <1>2 DEF ReapRunning, Waitpid, FailedMeansExit
<1>3. CASE Children
  BY <1>3 DEF Children, parent, ChildStep, ChildUnit, ChildExit, FailedMeansExit,
     LoopInv, ParentTypeOK, KernelTypeOK
<1>4. ASSUME NEW j \in Idx, ForkFatal(j) PROVE FailedMeansExit'
  BY <1>4 DEF ForkFatal, FailedMeansExit
<1>5. CASE UNCHANGED life /\ (pc = "exited" => pc' = "exited")
  BY <1>5 DEF FailedMeansExit
<1> QED
  BY <1>1, <1>2, <1>3, <1>4, <1>5 DEF Next, Scheduler, NothingToReap, AssignCpu,
     AssignFails, Block, EndFork, KeepRunning, ToForeground, Tick, Terminated,
     kernel, parent, vars

(* Every step of SJF keeps the invariant.                                  *)
LEMMA SjfStep ==
  ASSUME LoopOK, [Next]_vars
  PROVE  LoopOK'
BY ParentInvStep, OnTimeStep, FailedStep DEF LoopOK

(* The invariant holds in every state of SJF.                              *)
THEOREM SjfInv == Spec => []LoopOK
<1>1. LoopOK /\ [Next]_vars => LoopOK'
  BY SjfStep
<1> QED BY SjfInit, <1>1, PTL DEF Spec, Safety

(* Type correctness: in particular no entry is counted down below 0, and   *)
(* the choice is always an index of the table or -1.                       *)
THEOREM TypeCorrect == Spec => []TypeOK
<1>1. LoopOK => TypeOK
  BY DEF LoopOK, ParentInv, LoopInv, TypeOK
<1> QED BY SjfInv, <1>1, PTL

(* An entry reported as ended was charged all its units by the parent, and *)
(* its child burned all of them and has been reaped.                       *)
THEOREM EndedRan == Spec => []EndedRanToCompletion
<1>1. LoopOK => EndedRanToCompletion
  BY InvEndedRan DEF LoopOK
<1> QED BY SjfInv, <1>1, PTL

(* SJF() leaves its loop only when it has reaped every child.              *)
THEOREM NoOrphans == Spec => []DoneMeansAllReaped
<1>1. LoopOK => DoneMeansAllReaped
  BY InvAllReaped DEF LoopOK
<1> QED BY SjfInv, <1>1, PTL

-----------------------------------------------------------------------------
(* The ideal schedule. *)

(* The first of the shortest is, in a sorted table, none that came later.  *)
LEMMA ShorterIsSooner ==
  ASSUME LoopInv, NEW j \in Ready, NEW k \in Ready, Shorter(j, k)
  PROVE  exec[j] < exec[k] \/ (exec[j] = exec[k] /\ ready[j] <= ready[k])
<1>1. /\ j \in Idx /\ k \in Idx /\ j \in Nat /\ k \in Nat
      /\ ready[j] \in Nat /\ ready[k] \in Nat
      /\ exec[j] \in Nat /\ exec[k] \in Nat
  BY ChildOfIndex, ParentAssumption DEF Ready, LoopInv, ParentTypeOK
<1>2. j <= k => ready[j] <= ready[k]
  BY <1>1 DEF LoopInv, Sorted
<1> QED BY <1>1, <1>2 DEF Shorter

(* Every step of SJF is a step of the ideal schedule, or none of its.      *)
LEMMA SjfSimulates ==
  ASSUME LoopOK, [Next]_vars
  PROVE  [Cpu!SjfNext]_Cpu!ideal
<1> USE DEF LoopOK, ParentInv
<1>1. ASSUME NEW j \in Idx, ForkChild(j) PROVE UNCHANGED Cpu!ideal
  BY <1>1, CpuForkChild
<1>2. ASSUME NEW j \in Idx, ForkFatal(j) PROVE Cpu!SjfNext
  BY <1>2, CpuForkFails DEF ForkFatal, table, Cpu!SjfNext
<1>3. CASE Block
  BY <1>3, CpuBlock DEF Cpu!SjfNext
<1>4. CASE ReapRunning
  BY <1>4, CpuReap DEF Cpu!SjfNext
<1>5. CASE Tick
  BY <1>5, CpuTick DEF Cpu!SjfNext
<1>6. CASE ToForeground(NextShortest)
  <2>1. /\ pc = "select" /\ running' = NextShortest
        /\ UNCHANGED <<life, ready, exec, time, pid>>
    BY <1>6 DEF ToForeground, table
  <2>2. /\ running = -1 /\ NextShortest \in Ready /\ NextShortest # running
        /\ NextShortest \in Idx /\ \A k \in Ready : Shorter(NextShortest, k)
    BY <1>6, DispatchFromIdle
  <2>3. Cpu!Start(NextShortest)
    BY <2>1, <2>2, CpuSwitch
  <2>4. Cpu!Shortest(NextShortest)
    BY <2>1, <2>2, ShorterIsSooner, CpuSettled DEF Cpu!Shortest
  <2> QED BY <2>2, <2>3, <2>4 DEF Cpu!SjfNext, Cpu!Job, Idx
<1>7. CASE Children
  BY <1>7, CpuChildren
<1>8. CASE UNCHANGED <<life, ready, exec, time, pid, running>>
  BY <1>8, CpuStutters
<1> QED
  BY <1>1, <1>2, <1>3, <1>4, <1>5, <1>6, <1>7, <1>8
     DEF Next, Scheduler, NothingToReap, AssignCpu, AssignFails, EndFork,
         KeepRunning, Terminated, kernel, parent, table, vars

(* Whatever the children do and whatever call fails, what SJF.c does is    *)
(* the ideal schedule of one CPU, shortest job first, as long as it lasts. *)
THEOREM Implements == Spec => FollowsIdeal
<1>1. Init => Cpu!Init
  BY CpuInit DEF Init
<1>2. LoopOK /\ [Next]_vars => [Cpu!SjfNext]_Cpu!ideal
  BY SjfSimulates
<1> QED BY SjfInv, <1>1, <1>2, PTL DEF Spec, Safety, FollowsIdeal, Cpu!SjfSafety

-----------------------------------------------------------------------------
(* The scheduling classes. *)

(* While priorities can be raised, the running child is at 99; the others, *)
(* blocked or just forked, are at SCHED_OTHER, the parent's own, or below. *)
Classes ==
  "priority" \notin Faults =>
    /\ class[Self] = SCHED_OTHER
    /\ \A j \in Idx : life[Child(j)] \in {"alive", "zombie"} =>
         IF j = running THEN class[Child(j)] = 99 ELSE class[Child(j)] <= SCHED_OTHER

(* The steps that change no class and no running child, and fork nobody.   *)
LEMMA ClassesKept ==
  ASSUME Classes, UNCHANGED <<class, running>>,
         \A j \in Idx : life'[Child(j)] \in {"alive", "zombie"} =>
                          life[Child(j)] \in {"alive", "zombie"}
  PROVE  Classes'
BY DEF Classes

(* A new child inherits the class of the parent.                           *)
LEMMA ClassesForkChild ==
  ASSUME LoopInv, Classes, NEW j \in Idx, ForkChild(j)
  PROVE  Classes'
<1>1. /\ running # j /\ running' = running
      /\ life' = [life EXCEPT ![Child(j)] = "alive"]
      /\ class' = [class EXCEPT ![Child(j)] = class[Self]]
  BY DueIsUnborn DEF ForkChild, Fork
<1>2. \A p \in Kids \cup {Self} :
        class'[p] = IF p = Child(j) THEN class[Self] ELSE class[p]
  BY <1>1 DEF LoopInv, ParentTypeOK, KernelTypeOK
<1>3. \A k \in Idx : k # j => life'[Child(k)] = life[Child(k)]
  BY <1>1, ChildOfIndex DEF LoopInv, ParentTypeOK, KernelTypeOK
<1>4. SCHED_OTHER <= SCHED_OTHER
  BY DEF SCHED_OTHER
<1> QED BY <1>1, <1>2, <1>3, <1>4, ChildOfIndex DEF Classes

(* It is put to SCHED_IDLE before anything can be chosen.                  *)
LEMMA ClassesBlock ==
  ASSUME LoopInv, Classes, Block
  PROVE  Classes'
<1>1. /\ pc = "block" /\ UNCHANGED <<running, life>>
      /\ class' = Reclass(Child(i), SCHED_IDLE)
  BY DEF Block
<1>2. i \in Idx /\ life[Child(i)] \in {"alive", "zombie"} /\ running # i
  BY <1>1, ChildOfIndex DEF LoopInv, Entered, RunningIsReady
<1> SUFFICES ASSUME "priority" \notin Faults PROVE Classes'
  BY DEF Classes
<1>3. \A p \in Kids : class'[p] = IF p = Child(i) THEN SCHED_IDLE ELSE class[p]
  BY <1>1, <1>2, ReclassSets, ChildOfIndex
<1>4. class'[Self] = class[Self]
  BY <1>1, <1>2, ChildOfIndex DEF Reclass, LoopInv, ParentTypeOK, KernelTypeOK
<1>5. SCHED_IDLE <= SCHED_OTHER
  BY DEF SCHED_IDLE, SCHED_OTHER
<1> QED BY <1>1, <1>2, <1>3, <1>4, <1>5, ChildOfIndex DEF Classes

(* The chosen one goes to 99 while nobody else is running.                 *)
LEMMA ClassesToForeground ==
  ASSUME LoopInv, Classes, ToForeground(NextShortest)
  PROVE  Classes'
<1> DEFINE next == NextShortest
<1>1. running = -1 /\ next \in Idx /\ pid[next] = Child(next)
  BY DispatchFromIdle DEF Ready, LoopInv, Entered
<1>2. /\ running' = next /\ UNCHANGED life
      /\ class' = Reclass(Child(next), 99)
  BY <1>1 DEF ToForeground
<1> HIDE DEF next
<1> SUFFICES ASSUME "priority" \notin Faults PROVE Classes'
  BY DEF Classes
<1>3. class'[Self] = class[Self]
  BY <1>1, <1>2, ChildOfIndex DEF Reclass, LoopInv, ParentTypeOK, KernelTypeOK
<1>4. \A j \in Idx : j # next => class'[Child(j)] = class[Child(j)]
  BY <1>1, <1>2, ReclassSets, ChildOfIndex
<1>5. life[Child(next)] \in {"alive", "zombie"} => class'[Child(next)] = 99
  BY <1>1, <1>2, ReclassSets, ChildOfIndex
<1>6. \A j \in Idx : running # j
  BY <1>1, ChildOfIndex
<1> QED BY <1>2, <1>3, <1>4, <1>5, <1>6 DEF Classes

(* The child at 99 is reaped before the next one is chosen.                *)
LEMMA ClassesReap ==
  ASSUME LoopInv, Classes, ReapRunning
  PROVE  Classes'
<1>1. /\ running' = -1 /\ UNCHANGED class
      /\ running \in Idx /\ LoopInv' /\ Ended' = Ended \cup {running}
  BY ReapRunningStep DEF ReapRunning
<1>2. life'[Child(running)] = "reaped"
  BY <1>1 DEF Ended, LoopInv, EndedIsReaped
<1>3. \A j \in Idx : life'[Child(j)] = life[Child(j)] \/ life'[Child(j)] = "reaped"
  BY ChildOfIndex DEF ReapRunning, Waitpid
<1>4. \A j \in Idx : j # -1
  BY ChildOfIndex
<1> QED BY <1>1, <1>2, <1>3, <1>4 DEF Classes

(* Every step of SJF keeps the classes.                                    *)
LEMMA ClassesStep ==
  ASSUME LoopOK, Classes, [Next]_vars
  PROVE  Classes'
<1> USE DEF LoopOK, ParentInv
<1>1. ASSUME NEW j \in Idx, ForkChild(j) PROVE Classes'
  BY <1>1, ClassesForkChild
<1>2. CASE Block
  BY <1>2, ClassesBlock
<1>3. CASE ToForeground(NextShortest)
  BY <1>3, ClassesToForeground
<1>4. CASE ReapRunning
  BY <1>4, ClassesReap
<1>5. ASSUME NEW j \in Idx, ForkFatal(j) PROVE Classes'
  <2>1. UNCHANGED <<class, running>> /\ life' = [life EXCEPT ![Child(j)] = "failed"]
    BY <1>5 DEF ForkFatal, ForkFails
  <2>2. \A k \in Idx : life'[Child(k)] = life[Child(k)] \/ life'[Child(k)] = "failed"
    BY <2>1, ChildOfIndex DEF LoopInv, ParentTypeOK, KernelTypeOK
  <2> QED BY <2>1, <2>2, ClassesKept
<1>6. CASE Children
  <2>1. UNCHANGED <<class, running>>
    BY <1>6 DEF Children, parent, ChildStep, ChildUnit, ChildExit
  <2>2. \A j \in Idx : life'[Child(j)] = life[Child(j)] \/ life[Child(j)] = "alive"
    BY <1>6, ChildOfIndex DEF Children, ChildStep, ChildUnit, ChildExit, LoopInv,
       ParentTypeOK, KernelTypeOK
  <2> QED BY <2>1, <2>2, ClassesKept
<1>7. CASE UNCHANGED <<life, class, running>>
  BY <1>7, ClassesKept
<1> QED
  BY <1>1, <1>2, <1>3, <1>4, <1>5, <1>6, <1>7
     DEF Next, Scheduler, NothingToReap, AssignCpu, AssignFails, EndFork,
         KeepRunning, Tick, Terminated, kernel, parent, vars

(* Unless priorities cannot be raised, the running child is above every    *)
(* other live child, the one that is just being forked included.           *)
THEOREM RunningOutranks == Spec => []ChosenOutranks
<1>1. Init => Classes
  BY ChildOfIndex DEF Init, ParentInit, KernelInit, Classes
<1>2. LoopOK /\ Classes /\ [Next]_vars => Classes'
  BY ClassesStep
<1>3. LoopOK /\ Classes => ChosenOutranks
  <2> SUFFICES ASSUME LoopOK, Classes, "priority" \notin Faults, running # -1,
                      NEW q \in Kids \ {Child(running)}, life[q] = "alive"
               PROVE  class[q] < class[Child(running)] \/ life[Child(running)] # "alive"
    BY DEF ChosenOutranks, Outranks
  <2>1. running \in Idx
    BY DEF LoopOK, ParentInv, LoopInv, ParentTypeOK
  <2>2. PICK j \in Idx : q = Child(j) /\ j # running
    BY ChildOfIndex
  <2>3. class[q] <= SCHED_OTHER /\ class[q] \in Int
    BY <2>2 DEF Classes, LoopOK, ParentInv, LoopInv, ParentTypeOK, KernelTypeOK,
       Class, SCHED_IDLE
  <2>4. life[Child(running)] = "alive" => class[Child(running)] = 99
    BY <2>1 DEF Classes
  <2> QED BY <2>3, <2>4 DEF SCHED_OTHER
<1> QED BY SjfInv, <1>1, <1>2, <1>3, PTL DEF Spec, Safety

-----------------------------------------------------------------------------
(***************************************************************************)
(* The order of service.  Shortest first cannot be kept by itself: at the  *)
(* reaping it needs to know who was ready when the reaped entry started,   *)
(* which is as long ago as the units it has been charged.                  *)
(***************************************************************************)
(* The rank of the policy: shorter, or as long and not ready later.        *)
Precedes(k, j) ==
  burst[k] < burst[j] \/ (burst[k] = burst[j] /\ ready[k] <= ready[j])

(* The one in service precedes all others that were ready at its start.    *)
StartedFirst ==
  running # -1 =>
    \A j \in Idx \ {running} :
      /\ burst[j] > 0 /\ ended[j] = -1
      /\ ready[j] <= time - (burst[running] - exec[running])
      => Precedes(running, j)

(* Only the one in service has been served in part, and what is printed is *)
(* past.                                                                   *)
ServedWhole == \A j \in Idx : j = running \/ ended[j] # -1 \/ exec[j] = burst[j]
EndedInPast == \A j \in Idx : ended[j] <= time

InOrder == ShortestFirst /\ StartedFirst /\ ServedWhole /\ EndedInPast

(* The types that the arithmetic below needs.                              *)
LEMMA TimesType ==
  ASSUME LoopInv
  PROVE  /\ time \in Nat /\ MaxTime \in Nat
         /\ \A j \in Idx : /\ ready[j] \in Nat /\ burst[j] \in Nat
                           /\ exec[j] \in Nat /\ ended[j] \in Int
<1>1. \A j \in Idx : ready[j] \in Readies /\ burst[j] \in Bursts
  BY DEF LoopInv, ParentTypeOK
<1>2. MaxTime \in Nat /\ \A j \in Idx : ended[j] \in 0 .. MaxTime \cup {-1}
  BY ParentAssumption DEF LoopInv, ParentTypeOK
<1>3. \A j \in Idx : ready[j] \in Nat /\ burst[j] \in Nat
  BY <1>1, ParentAssumption
<1>4. \A j \in Idx : ended[j] \in Int
  BY <1>2
<1>5. time \in Nat /\ \A j \in Idx : exec[j] \in Nat
  BY <1>2 DEF LoopInv, ParentTypeOK
<1> QED BY <1>2, <1>3, <1>4, <1>5

(* The steps that neither serve, nor reap, nor dispatch.                   *)
LEMMA InOrderKept ==
  ASSUME InOrder, UNCHANGED <<running, time, exec, ended, ready, burst>>
  PROVE  InOrder'
BY DEF InOrder, ShortestFirst, StartedFirst, ServedWhole, EndedInPast, Precedes

(* Who is dispatched precedes everybody who is ready now.                  *)
LEMMA InOrderDispatch ==
  ASSUME LoopOK, InOrder, ToForeground(NextShortest)
  PROVE  InOrder'
<1> USE DEF LoopOK, ParentInv
<1> DEFINE next == NextShortest
<1>1. /\ running = -1 /\ next \in Ready /\ next \in Idx
      /\ \A k \in Ready : Shorter(next, k)
  BY DispatchFromIdle
<1>2. /\ pc = "select" /\ running' = next
      /\ UNCHANGED <<time, exec, ended, ready, burst>>
  BY DEF ToForeground, table
<1> HIDE DEF next
<1>3. ended[next] = -1
  BY <1>1 DEF Ready, LoopInv, EndedIsReaped
<1>4. \A j \in Idx : ended[j] = -1 => exec[j] = burst[j]
  BY <1>1, ChildOfIndex DEF InOrder, ServedWhole
<1>5. \A j \in Idx : burst[j] > 0 /\ ended[j] = -1 /\ ready[j] <= time => j \in Ready
  <2> SUFFICES ASSUME NEW j \in Idx, burst[j] > 0, ended[j] = -1, ready[j] <= time
               PROVE  pid[j] # NoPid
    BY <1>4 DEF Ready
  <2>1. life[Child(j)] \in {"alive", "zombie", "reaped"}
    <3>1. life[Child(j)] # "unborn"
      BY <1>2, TimesType DEF LoopInv, ForkedWhenDue, PastFork
    <3>2. life[Child(j)] # "failed"
      BY <1>2 DEF FailedMeansExit
    <3> QED BY <3>1, <3>2, ChildOfIndex DEF LoopInv, ParentTypeOK, KernelTypeOK, Lives
  <2> QED BY <1>2, <2>1 DEF LoopInv, Entered
<1>6. StartedFirst'
  <2> SUFFICES ASSUME NEW j \in Idx, burst[j] > 0, ended[j] = -1,
                      ready[j] <= time - (burst[next] - exec[next])
               PROVE  Precedes(next, j)
    BY <1>2 DEF StartedFirst, Precedes
  <2>1. ready[j] <= time
    BY <1>1, <1>3, <1>4, TimesType
  <2>2. j \in Ready
    BY <1>5, <2>1
  <2>3. exec[next] < exec[j] \/ (exec[next] = exec[j] /\ ready[next] <= ready[j])
    BY <1>1, <2>2, ShorterIsSooner
  <2> QED BY <1>1, <1>3, <1>4, <2>3 DEF Precedes
<1>7. ServedWhole'
  BY <1>2, <1>4 DEF ServedWhole
<1> QED BY <1>2, <1>6, <1>7 DEF InOrder, ShortestFirst, EndedInPast

(* What ends now started when its units say, and the others end later.     *)
LEMMA InOrderReap ==
  ASSUME LoopOK, InOrder, ReapRunning
  PROVE  InOrder'
<1> USE DEF LoopOK, ParentInv
<1> DEFINE r == running
<1>1. /\ r \in Idx /\ exec[r] = 0 /\ ended[r] = -1 /\ running' = -1
      /\ ended' = [ended EXCEPT ![r] = time]
      /\ UNCHANGED <<time, exec, ready, burst>>
  BY DEF ReapRunning, UsedUp, table, LoopInv, ParentTypeOK, RunningIsReady
<1>2. \A j \in Idx : ended'[j] = IF j = r THEN time ELSE ended[j]
  BY <1>1 DEF LoopInv, ParentTypeOK
<1>3. \A j \in Idx : ended[j] <= time
  BY DEF InOrder, EndedInPast
<1>4. ShortestFirst'
  <2> SUFFICES ASSUME NEW j \in Idx, NEW k \in Idx,
                      ended'[k] # -1, ready[j] <= ended'[k] - burst[k],
                      burst[j] > 0, ended'[j] = -1 \/ ended'[j] > ended'[k]
               PROVE  Precedes(k, j)
    BY <1>1 DEF ShortestFirst, Precedes
  <2>1. CASE k = r
    <3>1. j # r /\ ended[j] = -1
      BY <1>2, <1>3, <2>1, TimesType
    <3>2. ready[j] <= time - (burst[r] - exec[r])
      BY <1>1, <1>2, <2>1, TimesType
    <3> QED BY <1>1, <2>1, <3>1, <3>2, ChildOfIndex DEF InOrder, StartedFirst
  <2>2. CASE k # r
    <3>1. ended'[k] = ended[k] /\ (ended[j] = -1 \/ ended[j] > ended[k])
      BY <1>1, <1>2, <2>2
    <3> QED BY <3>1 DEF InOrder, ShortestFirst, Precedes
  <2> QED BY <2>1, <2>2
<1>5. StartedFirst'
  BY <1>1 DEF StartedFirst
<1>6. ServedWhole'
  <2>1. time # -1
    BY TimesType
  <2> QED BY <1>1, <1>2, <2>1 DEF InOrder, ServedWhole
<1>7. EndedInPast'
  BY <1>1, <1>2, <1>3, TimesType DEF EndedInPast
<1> QED BY <1>4, <1>5, <1>6, <1>7 DEF InOrder

(* A unit of service moves the clock as well: the start stays where it is. *)
LEMMA InOrderTick ==
  ASSUME LoopOK, InOrder, Tick
  PROVE  InOrder'
<1> USE DEF LoopOK, ParentInv
<1>1. /\ pc = "tick" /\ UNCHANGED <<running, ended, ready, burst>>
      /\ time' = IF time < MaxTime THEN time + 1 ELSE time
      /\ exec' = IF running = -1 THEN exec ELSE [exec EXCEPT ![running] = @ - 1]
  BY DEF Tick, table
<1>2. \A j \in Idx : j # running => exec'[j] = exec[j]
  BY <1>1 DEF LoopInv, ParentTypeOK
<1>3. StartedFirst'
  <2>1. CASE running = -1
    BY <1>1, <2>1 DEF StartedFirst
  <2>2. CASE running # -1
    <3>1. running \in Idx
      BY <2>2 DEF LoopInv, ParentTypeOK
    <3>2. time' = time + 1 /\ exec'[running] = exec[running] - 1
      BY <1>1, <2>2, <3>1, ClockRuns DEF LoopInv, ParentTypeOK
    <3>3. time' - (burst[running] - exec'[running])
            = time - (burst[running] - exec[running])
      BY <3>1, <3>2, TimesType
    <3> QED BY <1>1, <3>3 DEF InOrder, StartedFirst, Precedes
  <2> QED BY <2>1, <2>2
<1>4. ServedWhole'
  BY <1>1, <1>2 DEF InOrder, ServedWhole
<1>5. EndedInPast'
  BY <1>1, TimesType DEF InOrder, EndedInPast
<1> QED BY <1>1, <1>3, <1>4, <1>5 DEF InOrder, ShortestFirst

(* Every step of SJF keeps the order of the services.                      *)
LEMMA InOrderStep ==
  ASSUME LoopOK, InOrder, [Next]_vars
  PROVE  InOrder'
<1>1. CASE ToForeground(NextShortest)
  BY <1>1, InOrderDispatch
<1>2. CASE ReapRunning
  BY <1>2, InOrderReap
<1>3. CASE Tick
  BY <1>3, InOrderTick
<1>4. CASE UNCHANGED <<running, time, exec, ended, ready, burst>>
  BY <1>4, InOrderKept
<1> QED
  BY <1>1, <1>2, <1>3, <1>4
     DEF Next, Scheduler, NothingToReap, ForkChild, ForkFatal, AssignCpu, AssignFails,
         Block, EndFork, KeepRunning, Children, Terminated, parent, table, vars

(* Before the loop nobody has been served.                                 *)
LEMMA InOrderInit == Init => InOrder
<1> SUFFICES ASSUME Init PROVE InOrder
  OBVIOUS
<1>1. /\ running = -1 /\ time = 0 /\ burst = exec
      /\ \A j \in Idx : ended[j] = -1
  BY DEF Init, ParentInit
<1> QED BY <1>1 DEF InOrder, ShortestFirst, StartedFirst, ServedWhole, EndedInPast

(* SJF.c serves the shortest first: at each dispatch, everybody else who   *)
(* was ready is longer, or as long and not ready earlier.                  *)
THEOREM ShortestJobFirst == Spec => []ShortestFirst
<1>1. LoopOK /\ InOrder /\ [Next]_vars => InOrder'
  BY InOrderStep
<1>2. InOrder => ShortestFirst
  BY DEF InOrder
<1> QED BY SjfInv, InOrderInit, <1>1, <1>2, PTL DEF Spec, Safety

-----------------------------------------------------------------------------
(* The pace of the loop is that of Parent_proofs. *)

Steady == LoopOK /\ Pace

(* The loop starts in step with the clock.                                 *)
LEMMA SteadyInit == Init => Steady
BY SjfInit, PaceInit DEF Init, Steady

(* No step of SJF lets the CPU rest while somebody is ready.               *)
LEMMA SteadyStep ==
  ASSUME Steady, [Next]_vars
  PROVE  Steady'
<1> USE DEF Steady, LoopOK, ParentInv
<1>1. Pace'
  <2>1. CASE Block
    BY <2>1, PaceBlock
  <2>2. CASE Tick
    BY <2>2, PaceTick
  <2>3. CASE ReapRunning
    BY <2>3, PaceReap
  <2>4. CASE ToForeground(NextShortest)
    <3>1. /\ pc' = "tick" /\ running' \in Ready
          /\ UNCHANGED <<time, exec, pid, ready, burst, ended>>
      BY <2>4, DispatchFromIdle DEF ToForeground, table
    <3> QED BY <3>1, PaceKept DEF Busy, Ready
  <2>5. CASE /\ UNCHANGED <<time, running, exec, pid, ready, burst, ended>>
             /\ pc' \notin {"reap", "done"} \/ pc' = pc
    BY <2>5, PaceKept DEF Busy, Ready
  <2> QED
    BY <2>1, <2>2, <2>3, <2>4, <2>5
       DEF Next, Scheduler, ForkChild, ForkFatal, NothingToReap, AssignCpu,
           AssignFails, EndFork, KeepRunning, Children, Terminated, parent, table, vars
<1>2. LoopOK'
  BY SjfStep
<1> QED BY <1>1, <1>2 DEF Steady

=============================================================================
