----------------------------- MODULE FIFO_proofs ----------------------------
(***************************************************************************)
(* The theorems of FIFO, for any number of processes, any table and any    *)
(* failing call.  The steps of the loop are those of Parent_proofs; here   *)
(* are the choice of next_proc, and the order it imposes.                  *)
(***************************************************************************)
EXTENDS FIFO, Parent_proofs

FifoTypeOK == childTime \in [Idx -> 0 .. MaxTime \cup {-1}]

(* A switch is only ever made from the idle CPU.                           *)
SwitchFromIdle == pc = "demote" => running = -1

LoopOK == ParentInv /\ FifoTypeOK /\ SwitchFromIdle

-----------------------------------------------------------------------------
(* next_proc. *)

(* The table is sorted, so the least ready index is a soonest one.         *)
LEMMA SoonestExists ==
  ASSUME LoopInv, Ready # {}
  PROVE  \E j \in Ready : \A k \in Ready : Sooner(j, k)
<1>1. Ready \in SUBSET Nat /\ Ready \subseteq Idx
  BY ChildOfIndex DEF Ready
<1>2. PICK j \in Ready : \A k \in Ready : j <= k
  BY <1>1, LeastNat
<1>3. \A k \in Ready : Sooner(j, k)
  <2> SUFFICES ASSUME NEW k \in Ready PROVE Sooner(j, k)
    OBVIOUS
  <2>1. j \in Nat /\ k \in Nat /\ j <= k
    BY <1>1, <1>2
  <2>2. ready[j] \in Nat /\ ready[k] \in Nat
    BY <1>1, ParentAssumption DEF LoopInv, ParentTypeOK
  <2>3. j < k => ready[j] <= ready[k]
    BY <1>1 DEF LoopInv, Sorted
  <2> QED BY <2>1, <2>2, <2>3 DEF Sooner
<1> QED BY <1>3

(* What next_proc returns when nobody is running.                          *)
LEMMA NextProcIdle ==
  ASSUME LoopInv, running = -1, Ready # {}
  PROVE  NextProc \in Ready /\ \A k \in Ready : Sooner(NextProc, k)
<1>1. NextProc = CHOOSE j \in Ready : \A k \in Ready : Sooner(j, k)
  BY DEF NextProc
<1> QED BY <1>1, SoonestExists

(* The choice is unique, so it is the same as long as the table is.        *)
LEMMA NextProcKept ==
  ASSUME LoopInv, UNCHANGED <<running, ready, exec, pid>>
  PROVE  NextProc' = NextProc
<1>1. Ready' = Ready /\ \A j, k : Sooner(j, k)' <=> Sooner(j, k)
  BY DEF Ready, Sooner
<1>2. CASE running = -1 /\ Ready # {}
  <2>1. NextProc \in Ready /\ \A k \in Ready : Sooner(NextProc, k)
    BY <1>2, NextProcIdle
  <2>2. NextProc' = CHOOSE j \in Ready' : \A k \in Ready' : Sooner(j, k)'
    BY <1>1, <1>2 DEF NextProc
  <2>3. NextProc' \in Ready /\ \A k \in Ready : Sooner(NextProc', k)
    BY <1>1, <2>1, <2>2
  <2>4. \A j \in Ready : j \in Nat /\ ready[j] \in Nat
    BY ChildOfIndex, ParentAssumption DEF Ready, LoopInv, ParentTypeOK
  <2> QED BY <2>1, <2>3, <2>4 DEF Sooner
<1>3. CASE ~(running = -1 /\ Ready # {})
  BY <1>1, <1>3 DEF NextProc
<1> QED BY <1>2, <1>3

(* A wake-up begins a switch from the idle CPU to the soonest ready entry. *)
LEMMA WakeupFromIdle ==
  ASSUME LoopInv, Wakeup(NextProc)
  PROVE  /\ running = -1 /\ NextProc \in Ready
         /\ \A k \in Ready : Sooner(NextProc, k)
<1>1. NextProc \notin {-1, running}
  BY DEF Wakeup
<1>2. running = -1 /\ Ready # {}
  BY <1>1 DEF NextProc
<1> QED BY <1>2, NextProcIdle

(* The choice that a switch from the idle CPU has made, still the same     *)
(* one.                                                                    *)
LEMMA DemoteFromIdle ==
  ASSUME LoopInv, SwitchFromIdle, Demote(NextProc)
  PROVE  /\ running = -1 /\ NextProc \in Ready
         /\ \A k \in Ready : Sooner(NextProc, k)
<1>1. pc = "demote" /\ running = -1
  BY DEF Demote, SwitchFromIdle
<1>2. Ready # {}
  BY <1>1 DEF LoopInv, RunningIsReady
<1> QED BY <1>1, <1>2, NextProcIdle

-----------------------------------------------------------------------------
(* The invariant of the loop is preserved by every step of FIFO.           *)

(* The invariant holds before the loop.                                    *)
LEMMA FifoInit == Init => LoopOK
<1> SUFFICES ASSUME Init PROVE LoopOK
  OBVIOUS
<1>1. ParentInv
  BY ParentInitInv DEF Init
<1>2. FifoTypeOK /\ SwitchFromIdle
  BY DEF Init, ParentInit, FifoTypeOK, SwitchFromIdle
<1> QED BY <1>1, <1>2 DEF LoopOK

(* A child gets its copy of `time_cnt` from the clock of the parent.       *)
LEMMA FifoChildTime ==
  ASSUME LoopOK, [Next]_vars
  PROVE  FifoTypeOK'
<1>1. CASE UNCHANGED childTime
  BY <1>1 DEF LoopOK, FifoTypeOK
<1>2. CASE \E j \in Idx : Fork1(j)
  <2>1. PICK j \in Idx : childTime' = [childTime EXCEPT ![j] = time]
    BY <1>2 DEF Fork1
  <2>2. time \in 0 .. MaxTime
    BY DEF LoopOK, ParentInv, LoopInv, ParentTypeOK
  <2> QED BY <2>1, <2>2 DEF LoopOK, FifoTypeOK
<1> QED BY <1>1, <1>2 DEF Next, Scheduler, vars

(* Every step of FIFO keeps the invariant of the loop.                     *)
LEMMA FifoStep ==
  ASSUME LoopOK, [Next]_vars
  PROVE  LoopOK'
<1> SUFFICES ParentInv' /\ SwitchFromIdle'
  BY FifoChildTime DEF LoopOK
<1> USE DEF LoopOK, ParentInv
<1>1. ASSUME NEW j \in Idx, Fork1(j) PROVE ParentInv' /\ SwitchFromIdle'
  BY <1>1, ForkChildStep, CountedKept DEF Fork1, ForkChild, SwitchFromIdle
<1>2. CASE ReapRunning
  BY <1>2, ReapRunningStep, ReapRunningCounts DEF ReapRunning, SwitchFromIdle
<1>3. CASE NothingToReap
  BY <1>3, NothingToReapStep, CountedKept DEF NothingToReap, SwitchFromIdle
<1>4. ASSUME NEW j \in Idx, ForkIgnored(j) PROVE ParentInv' /\ SwitchFromIdle'
  BY <1>4, ForkIgnoredStep, CountedKept DEF ForkIgnored, SwitchFromIdle
<1>5. CASE AssignCpu
  BY <1>5, AssignCpuStep, CountedKept DEF AssignCpu, SwitchFromIdle
<1>6. CASE AssignFails
  BY <1>6, AssignFailsStep, CountedKept DEF AssignFails, SwitchFromIdle
<1>7. CASE Block
  BY <1>7, BlockStep, CountedKept DEF Block, SwitchFromIdle
<1>8. CASE EndFork
  BY <1>8, EndForkStep, CountedKept DEF EndFork, SwitchFromIdle
<1>9. CASE KeepRunning(NextProc)
  BY <1>9, KeepRunningStep, CountedKept DEF KeepRunning, SwitchFromIdle
<1>10. CASE Wakeup(NextProc)
  BY <1>10, WakeupFromIdle, WakeupStep, CountedKept DEF Wakeup, SwitchFromIdle
<1>11. CASE Demote(NextProc)
  BY <1>11, DemoteFromIdle, DemoteStep, CountedKept DEF Demote, SwitchFromIdle
<1>12. CASE Tick
  BY <1>12, TickStep, CountedKept DEF Tick, SwitchFromIdle
<1>13. CASE Children
  BY <1>13, ChildrenStep, CountedKept DEF Children, parent, SwitchFromIdle
<1>14. CASE UNCHANGED <<kernel, parent>>
  BY <1>14, StutterStep DEF parent, SwitchFromIdle
<1> QED
  BY <1>1, <1>2, <1>3, <1>4, <1>5, <1>6, <1>7, <1>8, <1>9, <1>10, <1>11, <1>12,
     <1>13, <1>14 DEF Next, Scheduler, Terminated, vars

(* In every state of FIFO the table, the children and the clock agree.     *)
THEOREM FifoInv == Spec => []LoopOK
<1>1. LoopOK /\ [Next]_vars => LoopOK'
  BY FifoStep
<1> QED BY FifoInit, <1>1, PTL DEF Spec, Safety

-----------------------------------------------------------------------------
(* Type correctness: in particular no entry is counted down below 0, and   *)
(* next_proc always gives an index of the table or -1.                     *)
THEOREM TypeCorrect == Spec => []TypeOK
<1>1. LoopOK => TypeOK
  BY DEF LoopOK, ParentInv, LoopInv, FifoTypeOK, TypeOK
<1> QED BY FifoInv, <1>1, PTL

(* An entry reported as ended was charged all its units by the parent, and *)
(* its child burned all of them and has been reaped; also when calls fail. *)
THEOREM EndedRan == Spec => []EndedRanToCompletion
<1>1. LoopOK => EndedRanToCompletion
  BY InvEndedRan DEF LoopOK
<1> QED BY FifoInv, <1>1, PTL

(* FIFO() returns only when it has reaped every child.                     *)
THEOREM NoOrphans == Spec => []DoneMeansAllReaped
<1>1. LoopOK => DoneMeansAllReaped
  BY InvAllReaped DEF LoopOK
<1> QED BY FifoInv, <1>1, PTL

(* FIFO never switches away from an entry it has not reaped.               *)
THEOREM NeverPreempts == Spec => NonPreemptive
<1>1. LoopOK /\ [Next]_vars =>
        [running # -1 /\ running' # running => life'[Child(running)] = "reaped"]_vars
  <2> SUFFICES ASSUME LoopOK, [Next]_vars, running # -1, running' # running
               PROVE  life'[Child(running)] = "reaped"
    OBVIOUS
  <2>1. CASE ReapRunning
    <3>1. running \in Idx /\ LoopInv' /\ Ended' = Ended \cup {running}
      BY <2>1, ReapRunningStep DEF LoopOK, ParentInv
    <3> QED BY <3>1 DEF LoopInv, EndedIsReaped, Ended
  <2>2. CASE Demote(NextProc)
    BY <2>2, DemoteFromIdle DEF LoopOK, ParentInv
  <2>3. CASE UNCHANGED running
    BY <2>3
  <2> QED
    BY <2>1, <2>2, <2>3 DEF Next, Scheduler, Fork1, ForkChild, NothingToReap,
         ForkIgnored, AssignCpu, AssignFails, Block, EndFork, KeepRunning,
         Wakeup, Tick, Children, Terminated, parent, vars
<1> QED BY FifoInv, <1>1, PTL DEF NonPreemptive, Spec, Safety

-----------------------------------------------------------------------------
(* The scheduling classes. *)

Awake == LoopOK /\ AwakeAt(NextProc)

(* Nothing but a switch or a reap changes what next_proc looks at while a  *)
(* switch is going on.                                                     *)
LEMMA AwakeStep ==
  ASSUME Awake, [Next]_vars
  PROVE  AwakeAt(NextProc)'
<1> USE DEF Awake, LoopOK, ParentInv
<1>1. ASSUME NEW j \in Idx, ForkChild(j) PROVE AwakeAt(NextProc)'
  BY <1>1, AwakeForkChild
<1>2. CASE ReapRunning
  BY <1>2, AwakeReap
<1>3. CASE Block
  BY <1>3, AwakeBlock
<1>4. CASE Wakeup(NextProc)
  <2>1. NextProc' = NextProc
    BY <1>4, NextProcKept DEF Wakeup, table
  <2> QED BY <1>4, <2>1, WakeupFromIdle, AwakeWakeup
<1>5. CASE Demote(NextProc)
  BY <1>5, DemoteFromIdle, AwakeDemote, ChildOfIndex DEF Ready
<1>6. CASE Children \/ UNCHANGED <<kernel, parent>>
  <2>1. NextProc' = NextProc
    <3>1. UNCHANGED <<running, ready, exec, pid>>
      BY <1>6 DEF Children, parent
    <3> QED BY <3>1, NextProcKept
  <2>2. CASE Children
    BY <2>1, <2>2, AwakeChildren
  <2>3. CASE UNCHANGED <<kernel, parent>>
    BY <2>1, <2>3 DEF AwakeAt, InTable, kernel, parent
  <2> QED BY <1>6, <2>2, <2>3
<1>7. ASSUME pc # "demote", pc' # "demote", UNCHANGED <<running, class, pid>>,
             \A k \in Idx : InTable(k)' => InTable(k)
      PROVE  AwakeAt(NextProc)'
  BY <1>7, AwakeKept
<1>8. CASE \/ NothingToReap \/ AssignCpu \/ AssignFails \/ EndFork
           \/ KeepRunning(NextProc) \/ Tick
  <2>1. /\ pc # "demote" /\ pc' # "demote" /\ UNCHANGED <<running, class, pid, life>>
    BY <1>8 DEF NothingToReap, AssignCpu, AssignFails, EndFork, KeepRunning, Tick, kernel
  <2> QED BY <1>7, <2>1 DEF InTable
<1>9. ASSUME NEW j \in Idx, ForkIgnored(j) PROVE AwakeAt(NextProc)'
  <2>1. /\ pc # "demote" /\ pc' # "demote" /\ UNCHANGED <<running, class, pid>>
        /\ life' = [life EXCEPT ![Child(j)] = "failed"] /\ pid[j] = NoPid
    BY <1>9, DueIsUnborn DEF ForkIgnored, ForkFails
  <2>2. \A k \in Idx : InTable(k)' => InTable(k)
    BY <2>1, ChildOfIndex DEF InTable, LoopInv, ParentTypeOK, KernelTypeOK
  <2> QED BY <1>7, <2>1, <2>2
<1> QED
  BY <1>1, <1>2, <1>3, <1>4, <1>5, <1>6, <1>8, <1>9
     DEF Next, Scheduler, Fork1, Terminated, vars

(* Outside a switch, and as long as no right is missing, exactly the       *)
(* running child of those in the table is above SCHED_IDLE, although the   *)
(* code also demotes whatever proc[-1].pid names.                          *)
THEOREM OnlyRunningIsAwake == Spec => []AwakeIsRunning
<1>1. Init => AwakeAt(NextProc)
  BY DEF Init, ParentInit, AwakeAt, InTable
<1>2. LoopOK /\ AwakeAt(NextProc) /\ [Next]_vars => AwakeAt(NextProc)'
  BY AwakeStep DEF Awake
<1>3. AwakeAt(NextProc) => AwakeIsRunning
  BY DEF AwakeAt, AwakeIsRunning, InTable
<1>4. Spec => []AwakeAt(NextProc)
  BY FifoInv, <1>1, <1>2, PTL DEF Spec, Safety
<1> QED BY <1>3, <1>4, PTL

-----------------------------------------------------------------------------
(* First come, first served. *)

(* Who is or was served was preceded by all who were ready earlier.        *)
ServedInOrder ==
  \A j, k \in Idx : (running = k \/ ended[k] # -1) /\ ready[j] < ready[k]
                    => life[Child(j)] \in {"reaped", "failed"} \/ burst[j] = 0

(* An entry that had something to do and has not any more has ended, but   *)
(* for the one that is about to be reaped.                                 *)
UsedUpIsEnded ==
  \A j \in Idx : exec[j] = 0 =>
    burst[j] = 0 \/ ended[j] # -1 \/ (running = j /\ pc = "reap")

InOrder == ServedInOrder /\ UsedUpIsEnded

(* The fate of a reaped or failed child is final.                          *)
LEMMA FateIsFinal ==
  ASSUME LoopOK, [Next]_vars, NEW j \in Idx,
         life[Child(j)] \in {"reaped", "failed"}
  PROVE  life'[Child(j)] = life[Child(j)]
<1> USE ChildOfIndex DEF LoopOK, ParentInv
<1>1. ASSUME NEW k \in Idx, Fork1(k) PROVE life'[Child(j)] = life[Child(j)]
  BY <1>1, DueIsUnborn DEF Fork1, ForkChild, Fork, LoopInv, ParentTypeOK, KernelTypeOK
<1>2. ASSUME NEW k \in Idx, ForkIgnored(k) PROVE life'[Child(j)] = life[Child(j)]
  BY <1>2, DueIsUnborn DEF ForkIgnored, ForkFails, LoopInv, ParentTypeOK, KernelTypeOK
<1>3. CASE ReapRunning
  BY <1>3 DEF ReapRunning, Waitpid
<1>4. CASE Children
  BY <1>4 DEF Children, ChildStep, ChildUnit, ChildExit, LoopInv, ParentTypeOK, KernelTypeOK
<1>5. CASE UNCHANGED life
  BY <1>5
<1> QED
  BY <1>1, <1>2, <1>3, <1>4, <1>5 DEF Next, Scheduler, NothingToReap, AssignCpu,
     AssignFails, Block, EndFork, KeepRunning, Wakeup, Demote, Tick, Terminated,
     kernel, vars

(* Switching to k: who was ready earlier has been forked, and is not ready *)
(* any more, or would have been chosen.                                    *)
LEMMA ChosenIsFirst ==
  ASSUME LoopOK, InOrder, Demote(NextProc), NEW j \in Idx,
         ready[j] < ready[NextProc], burst[j] # 0
  PROVE  life[Child(j)] \in {"reaped", "failed"}
<1> USE ChildOfIndex DEF LoopOK, ParentInv
<1>1. /\ NextProc \in Ready /\ \A m \in Ready : Sooner(NextProc, m)
      /\ pc = "demote"
  BY DemoteFromIdle DEF Demote
<1>2. ready[j] \in Nat /\ ready[NextProc] \in Nat /\ time \in Nat
  BY <1>1, ParentAssumption DEF LoopInv, ParentTypeOK, Ready
<1>3. life[Child(NextProc)] # "unborn"
  BY <1>1 DEF Ready, LoopInv, Entered
<1>4. life[Child(j)] # "unborn"
  BY <1>1, <1>2, <1>3 DEF LoopInv, ForkedWhenDue, PastFork, Ready
<1>5. j \notin Ready
  BY <1>1, <1>2 DEF Sooner
<1>6. pid[j] # NoPid => exec[j] = 0
  BY <1>5 DEF Ready, LoopInv, ParentTypeOK
<1>7. pid[j] # NoPid => life[Child(j)] = "reaped"
  BY <1>1, <1>6 DEF InOrder, UsedUpIsEnded, LoopInv, EndedIsReaped
<1>8. life[Child(j)] \in Lives
  BY DEF LoopInv, ParentTypeOK, KernelTypeOK
<1> QED BY <1>1, <1>4, <1>7, <1>8 DEF LoopInv, Entered, Lives

(* Every step of FIFO keeps the order of the services.                     *)
LEMMA InOrderStep ==
  ASSUME LoopOK, InOrder, [Next]_vars
  PROVE  InOrder'
<1> USE ChildOfIndex DEF LoopOK, ParentInv
<1>1. UNCHANGED <<ready, burst>>
  BY DEF Next, Scheduler, Fork1, ForkChild, ReapRunning, NothingToReap,
     ForkIgnored, AssignCpu, AssignFails, Block, EndFork, KeepRunning, Wakeup,
     Demote, Tick, Children, Terminated, parent, table, vars
<1>2. CASE ReapRunning
  <2>1. /\ running \in Idx /\ running' = -1 /\ UNCHANGED exec
        /\ ended' = [ended EXCEPT ![running] = time] /\ time # -1
    BY <1>2, ReapRunningStep, ParentAssumption
       DEF ReapRunning, LoopInv, ParentTypeOK
  <2>2. \A j \in Idx : ended'[j] # -1 <=> running = j \/ ended[j] # -1
    BY <2>1 DEF LoopInv, ParentTypeOK
  <2>3. ServedInOrder'
    BY <1>1, <2>1, <2>2, FateIsFinal DEF InOrder, ServedInOrder
  <2>4. UsedUpIsEnded'
    BY <1>1, <2>1, <2>2 DEF InOrder, UsedUpIsEnded
  <2> QED BY <2>3, <2>4 DEF InOrder
<1>3. CASE Demote(NextProc)
  <2>1. /\ pc = "demote" /\ running' = NextProc
        /\ UNCHANGED <<exec, ended, life>>
    BY <1>3 DEF Demote
  <2>2. ServedInOrder'
    BY <1>1, <1>3, <2>1, ChosenIsFirst DEF InOrder, ServedInOrder
  <2>3. UsedUpIsEnded'
    BY <1>1, <2>1 DEF InOrder, UsedUpIsEnded
  <2> QED BY <2>2, <2>3 DEF InOrder
<1>4. CASE Tick
  <2>1. /\ pc = "tick" /\ pc' = "reap" /\ UNCHANGED <<running, ended, life>>
        /\ exec' = IF running = -1 THEN exec ELSE [exec EXCEPT ![running] = @ - 1]
    BY <1>4 DEF Tick, kernel
  <2>2. \A j \in Idx : j # running => exec'[j] = exec[j]
    BY <2>1 DEF LoopInv, ParentTypeOK
  <2>3. ServedInOrder'
    BY <1>1, <2>1 DEF InOrder, ServedInOrder
  <2>4. UsedUpIsEnded'
    BY <1>1, <2>1, <2>2 DEF InOrder, UsedUpIsEnded
  <2> QED BY <2>3, <2>4 DEF InOrder
<1>5. CASE NothingToReap
  <2>1. /\ pc = "reap" /\ ~UsedUp /\ UNCHANGED <<running, exec, ended, life>>
    BY <1>5 DEF NothingToReap, kernel
  <2>2. ServedInOrder'
    BY <1>1, <2>1 DEF InOrder, ServedInOrder
  <2>3. UsedUpIsEnded'
    BY <1>1, <2>1 DEF InOrder, UsedUpIsEnded, UsedUp
  <2> QED BY <2>2, <2>3 DEF InOrder
<1>6. CASE /\ UNCHANGED <<running, exec, ended>>
           /\ pc = "reap" => pc' = "reap"
  <2>1. ServedInOrder'
    BY <1>1, <1>6, FateIsFinal DEF InOrder, ServedInOrder
  <2>2. UsedUpIsEnded'
    BY <1>1, <1>6 DEF InOrder, UsedUpIsEnded
  <2> QED BY <2>1, <2>2 DEF InOrder
<1> QED
  BY <1>2, <1>3, <1>4, <1>5, <1>6
     DEF Next, Scheduler, Fork1, ForkChild, ForkIgnored, AssignCpu, AssignFails,
         Block, EndFork, KeepRunning, Wakeup, Children, Terminated, parent, vars

(* At first nobody has been served, and nobody used up.                    *)
LEMMA InOrderInit == Init => InOrder
<1> SUFFICES ASSUME Init PROVE InOrder
  OBVIOUS
<1>1. \A j \in Idx : exec[j] = 0 => burst[j] = 0
  BY DEF Init, ParentInit
<1>2. running = -1 /\ \A j \in Idx : ended[j] = -1
  BY DEF Init, ParentInit
<1> QED BY <1>1, <1>2, ChildOfIndex DEF InOrder, ServedInOrder, UsedUpIsEnded

(* First come, first served, whatever the speed of the children and        *)
(* whatever call fails: a child is reaped after all those, of any units at *)
(* all, that were ready earlier and could be forked.                       *)
THEOREM FirstComeFirstServed == Spec => []FifoOrder
<1>1. Init => InOrder
  BY InOrderInit
<1>2. LoopOK /\ InOrder /\ [Next]_vars => InOrder'
  BY InOrderStep
<1>3. LoopOK /\ InOrder => FifoOrder
  BY DEF LoopOK, ParentInv, LoopInv, EndedIsReaped, InOrder, ServedInOrder, FifoOrder
<1>4. Spec => []InOrder
  BY FifoInv, <1>1, <1>2, PTL DEF Spec, Safety
<1> QED BY FifoInv, <1>3, <1>4, PTL

-----------------------------------------------------------------------------
(* The ideal schedule. *)

(* The CPU is left idle only when nobody is ready.                         *)
LEMMA IdleOnlyIfNobody ==
  ASSUME LoopInv, NextProc \in {-1, running}, running = -1
  PROVE  Ready = {}
<1>1. Ready # {} => NextProc \in Ready
  BY NextProcIdle
<1> QED BY <1>1, ChildOfIndex DEF Ready

(* Every step of FIFO keeps the clock within the units charged.            *)
LEMMA OnTimeStep ==
  ASSUME LoopOK, OnTime, [Next]_vars
  PROVE  OnTime'
<1> USE DEF LoopOK, ParentInv
<1>1. ASSUME NEW j \in Idx, Fork1(j) PROVE OnTime'
  BY <1>1, OnTimeForkChild DEF Fork1
<1>2. CASE AssignCpu
  BY <1>2, OnTimeAssignCpu
<1>3. CASE Block
  BY <1>3, OnTimeBlock
<1>4. CASE Tick
  BY <1>4, OnTimeTick
<1>5. CASE KeepRunning(NextProc)
  BY <1>5, IdleOnlyIfNobody, OnTimeKept DEF KeepRunning, table
<1>6. CASE Demote(NextProc)
  BY <1>6, DemoteFromIdle, ChildOfIndex, OnTimeKept DEF Demote, Ready, table
<1>7. ASSUME UNCHANGED <<time, exec, pid, ready, burst>>,
             pc' \notin {"assign", "block", "tick"}
      PROVE  OnTime'
  BY <1>7, OnTimeKept
<1>8. CASE Children \/ UNCHANGED <<kernel, parent>>
  <2>1. UNCHANGED <<pc, i, time, running, exec, pid, ready, burst>>
    BY <1>8 DEF Children, parent
  <2> QED BY <2>1, OnTimeKept DEF OnTime
<1>9. CASE \/ ReapRunning \/ NothingToReap \/ AssignFails \/ EndFork
           \/ Wakeup(NextProc) \/ \E j \in Idx : ForkIgnored(j)
  BY <1>7, <1>9 DEF ReapRunning, NothingToReap, AssignFails, EndFork, Wakeup,
     ForkIgnored, table
<1> QED
  BY <1>1, <1>2, <1>3, <1>4, <1>5, <1>6, <1>8, <1>9
     DEF Next, Scheduler, Terminated, vars

(* Every step of FIFO is a step of the ideal schedule, or none of its.     *)
LEMMA FifoSimulates ==
  ASSUME LoopOK, OnTime, [Next]_vars
  PROVE  [Cpu!FifoNext]_Cpu!ideal
<1> USE DEF LoopOK, ParentInv
<1>1. ASSUME NEW j \in Idx, Fork1(j) PROVE UNCHANGED Cpu!ideal
  BY <1>1, CpuForkChild DEF Fork1
<1>2. ASSUME NEW j \in Idx, ForkIgnored(j) PROVE Cpu!FifoNext
  BY <1>2, CpuForkFails DEF ForkIgnored, table, Cpu!FifoNext
<1>3. CASE Block
  BY <1>3, CpuBlock DEF Cpu!FifoNext
<1>4. CASE ReapRunning
  BY <1>4, CpuReap DEF Cpu!FifoNext
<1>5. CASE Tick
  BY <1>5, CpuTick DEF Cpu!FifoNext
<1>6. CASE Demote(NextProc)
  <2>1. /\ pc = "demote" /\ running' = NextProc
        /\ UNCHANGED <<life, ready, exec, time, pid>>
    BY <1>6 DEF Demote, table
  <2>2. /\ running = -1 /\ NextProc \in Ready
        /\ \A k \in Ready : Sooner(NextProc, k)
    BY <1>6, DemoteFromIdle
  <2>3. NextProc \in Idx /\ NextProc # -1
    BY <2>2, ChildOfIndex DEF Ready
  <2>4. Cpu!Start(NextProc)
    BY <2>1, <2>2, <2>3, CpuSwitch
  <2>5. \A k \in Ready : ready[NextProc] <= ready[k]
    <3>1. \A k \in Ready : ready[k] \in Nat
      BY ParentAssumption DEF Ready, LoopInv, ParentTypeOK
    <3> QED BY <2>2, <3>1 DEF Sooner
  <2>6. Cpu!Earliest(NextProc)
    BY <2>1, <2>2, <2>5, CpuSettled DEF Cpu!Earliest
  <2> QED BY <2>3, <2>4, <2>6 DEF Cpu!FifoNext, Cpu!Job, Idx
<1>7. CASE Children
  BY <1>7, CpuChildren
<1>8. CASE UNCHANGED <<life, ready, exec, time, pid, running>>
  BY <1>8, CpuStutters
<1> QED
  BY <1>1, <1>2, <1>3, <1>4, <1>5, <1>6, <1>7, <1>8
     DEF Next, Scheduler, NothingToReap, AssignCpu, AssignFails, EndFork,
         KeepRunning, Wakeup, Terminated, kernel, parent, table, vars

(* Whatever the children do and whatever call fails, what FIFO.c does is   *)
(* the ideal schedule of one CPU, first come, first served.                *)
THEOREM Implements == Spec => FollowsIdeal
<1>1. Init => Cpu!Init /\ OnTime
  BY CpuInit, OnTimeInit DEF Init
<1>2. LoopOK /\ OnTime /\ [Next]_vars => OnTime'
  BY OnTimeStep
<1>3. LoopOK /\ OnTime /\ [Next]_vars => [Cpu!FifoNext]_Cpu!ideal
  BY FifoSimulates
<1> QED BY FifoInv, <1>1, <1>2, <1>3, PTL DEF Spec, Safety, FollowsIdeal, Cpu!FifoSafety

-----------------------------------------------------------------------------
(* The theoretical schedule: the recursion of EndTimes has a solution, and *)
(* its values never decrease along the table.                              *)

EndStep(f, j, r, b, lost) ==
  IF j = -1 THEN 0
  ELSE IF j \in lost THEN f[j-1]
  ELSE b[j] + (IF f[j-1] > r[j] THEN f[j-1] ELSE r[j])

IsEndTimes(f, m, r, b, lost) ==
  f = [j \in -1 .. m-1 |-> EndStep(f, j, r, b, lost)]

(* There are ideal end times for every table: otherwise there were a least *)
(* n without them for its first n entries, and the one before it could be  *)
(* extended.                                                               *)
LEMMA EndTimesExist ==
  ASSUME NEW r, NEW b, NEW lost
  PROVE  \E f : IsEndTimes(f, N, r, b, lost)
<1> DEFINE bad == {m \in Nat : ~ \E f : IsEndTimes(f, m, r, b, lost)}
<1> SUFFICES ASSUME bad # {} PROVE FALSE
  BY KernelAssumption
<1>1. PICK m \in bad : \A k \in bad : m <= k
  <2>1. bad \in SUBSET Nat
    OBVIOUS
  <2> HIDE DEF bad
  <2> QED BY <2>1, LeastNat
<1>2. m \in Nat /\ ~ \E f : IsEndTimes(f, m, r, b, lost)
  BY <1>1
<1>3. CASE m = 0
  <2> DEFINE f == [j \in -1 .. -1 |-> 0]
  <2>1. IsEndTimes(f, m, r, b, lost)
    BY <1>3 DEF EndStep, IsEndTimes
  <2> QED BY <1>2, <2>1
<1>4. CASE m # 0
  <2>1. m-1 \in Nat /\ m-1 < m
    BY <1>2, <1>4
  <2>2. PICK f : IsEndTimes(f, m-1, r, b, lost)
    <3>1. m-1 \notin bad
      <4> HIDE DEF bad
      <4> QED BY <1>1, <1>2, <2>1
    <3> QED BY <2>1, <3>1
  <2> DEFINE g == [j \in -1 .. m-1 |-> EndStep(f, j, r, b, lost)]
  <2>3. f = [j \in -1 .. m-2 |-> EndStep(f, j, r, b, lost)]
    BY <1>2, <2>2 DEF IsEndTimes
  <2>4. \A j \in -1 .. m-2 : g[j] = f[j]
    <3>1. \A j \in -1 .. m-2 : j \in -1 .. m-1
      BY <1>2
    <3>2. \A j \in -1 .. m-2 : f[j] = EndStep(f, j, r, b, lost)
      BY <2>3
    <3> QED BY <3>1, <3>2
  <2> HIDE DEF g
  <2>5. \A j \in -1 .. m-1 : EndStep(g, j, r, b, lost) = EndStep(f, j, r, b, lost)
    <3> SUFFICES ASSUME NEW j \in -1 .. m-1, j # -1 PROVE g[j-1] = f[j-1]
      BY DEF EndStep
    <3>1. j-1 \in -1 .. m-2
      BY <1>2
    <3> QED BY <2>4, <3>1
  <2>6. IsEndTimes(g, m, r, b, lost)
    BY <2>5 DEF g, IsEndTimes
  <2> QED BY <1>2, <2>6
<1> QED BY <1>3, <1>4

(* So each ideal end time can be had from the one before it.               *)
LEMMA EndTimesUnfold ==
  ASSUME NEW r \in [Idx -> Nat], NEW b \in [Idx -> Nat], NEW lost
  PROVE  LET End == EndTimes(r, b, lost) IN
         /\ \A j \in -1 .. N-1 : End[j] = EndStep(End, j, r, b, lost)
         /\ \A j \in -1 .. N-1 : End[j] \in Nat
<1> DEFINE End == EndTimes(r, b, lost)
<1>1. End = CHOOSE f : IsEndTimes(f, N, r, b, lost)
  BY DEF EndTimes, EndStep, IsEndTimes
<1> HIDE DEF End
<1>2. IsEndTimes(End, N, r, b, lost)
  BY <1>1, EndTimesExist
<1>3. \A j \in -1 .. N-1 : End[j] = EndStep(End, j, r, b, lost)
  <2> DEFINE val(j) == EndStep(End, j, r, b, lost)
  <2>1. End = [j \in -1 .. N-1 |-> val(j)]
    BY <1>2 DEF IsEndTimes
  <2> HIDE DEF val
  <2>2. \A j \in -1 .. N-1 : End[j] = val(j)
    BY <2>1
  <2> QED BY <2>2 DEF val
<1> DEFINE bad == {m \in Nat : m - 1 \in -1 .. N-1 /\ End[m-1] \notin Nat}
<1>4. ASSUME bad # {} PROVE FALSE
  <2>1. PICK m \in bad : \A k \in bad : m <= k
    <3>1. bad \in SUBSET Nat
      OBVIOUS
    <3> HIDE DEF bad
    <3> QED BY <1>4, <3>1, LeastNat
  <2>2. m \in Nat /\ m - 1 \in -1 .. N-1 /\ N \in Nat /\ End[m-1] \notin Nat
    BY <2>1, KernelAssumption
  <2>3. CASE m = 0
    BY <1>3, <2>2, <2>3 DEF EndStep
  <2>4. CASE m # 0
    <3>1. m-1 \in Nat /\ m-1 < m /\ m-1 \in Idx /\ (m-1)-1 \in -1 .. N-1
      BY <2>2, <2>4 DEF Idx
    <3>2. End[(m-1)-1] \in Nat
      <4>1. m-1 \notin bad
        <5> HIDE DEF bad
        <5> QED BY <2>1, <2>2, <3>1
      <4> QED BY <3>1, <4>1
    <3>3. r[m-1] \in Nat /\ b[m-1] \in Nat
      BY <3>1
    <3>4. EndStep(End, m-1, r, b, lost) \in Nat
      BY <3>1, <3>2, <3>3 DEF EndStep
    <3> QED BY <1>3, <2>2, <3>4
  <2> QED BY <2>3, <2>4
<1>5. \A j \in -1 .. N-1 : End[j] \in Nat
  <2> SUFFICES ASSUME NEW j \in -1 .. N-1, End[j] \notin Nat PROVE FALSE
    OBVIOUS
  <2>1. j+1 \in Nat /\ (j+1)-1 = j
    BY KernelAssumption
  <2>2. j+1 \in bad
    BY <2>1
  <2> QED BY <1>4, <2>2
<1> QED BY <1>3, <1>5 DEF End

(* An entry that is not lost ends no earlier than those before it.         *)
LEMMA EndTimesGrow ==
  ASSUME NEW r \in [Idx -> Nat], NEW b \in [Idx -> Nat], NEW lost,
         NEW j \in Idx, NEW k \in Idx, j <= k
  PROVE  EndTimes(r, b, lost)[j] <= EndTimes(r, b, lost)[k]
<1> DEFINE End == EndTimes(r, b, lost)
           bad == {m \in Nat : m \in Idx /\ j <= m /\ ~(End[j] <= End[m])}
<1> SUFFICES ASSUME bad # {} PROVE FALSE
  BY ChildOfIndex
<1>1. PICK m \in bad : \A n \in bad : m <= n
  <2>1. bad \in SUBSET Nat
    OBVIOUS
  <2> HIDE DEF bad
  <2> QED BY <2>1, LeastNat
<1>2. m \in Idx /\ m \in Nat /\ j \in Nat /\ j <= m /\ ~(End[j] <= End[m])
  BY <1>1, ChildOfIndex
<1>3. \A n \in -1 .. N-1 : End[n] = EndStep(End, n, r, b, lost) /\ End[n] \in Nat
  BY EndTimesUnfold
<1> HIDE DEF End
<1>4. N \in Nat /\ m \in 0 .. N-1 /\ j \in 0 .. N-1
  BY <1>2, KernelAssumption DEF Idx
<1>5. End[j] \in Nat /\ End[m] \in Nat /\ End[m-1] \in Nat
  BY <1>3, <1>4
<1>6. j < m
  <2>1. j # m
    BY <1>2, <1>5
  <2> QED BY <1>2, <2>1
<1>7. End[j] <= End[m-1]
  <2>1. m-1 \in Nat /\ m-1 \in Idx /\ j <= m-1 /\ m-1 < m
    BY <1>4, <1>6 DEF Idx
  <2>2. m-1 \notin bad
    <3> HIDE DEF bad
    <3> QED BY <1>1, <1>2, <2>1
  <2> QED BY <2>1, <2>2
<1>8. End[m-1] <= End[m]
  <2>1. End[m] = EndStep(End, m, r, b, lost) /\ m # -1
    BY <1>3, <1>4
  <2>2. r[m] \in Nat /\ b[m] \in Nat
    BY <1>2
  <2> QED BY <1>5, <2>1, <2>2 DEF EndStep
<1> QED BY <1>2, <1>5, <1>7, <1>8

(* What is lost later in the table does not matter.                        *)
LEMMA EndTimesAgree ==
  ASSUME NEW r \in [Idx -> Nat], NEW b \in [Idx -> Nat], NEW lost, NEW lost2,
         NEW k \in -1 .. N-1, \A j \in 0 .. k : j \in lost <=> j \in lost2
  PROVE  EndTimes(r, b, lost)[k] = EndTimes(r, b, lost2)[k]
<1> DEFINE End == EndTimes(r, b, lost)
           End2 == EndTimes(r, b, lost2)
           bad == {m \in Nat : m - 1 \in -1 .. k /\ End[m-1] # End2[m-1]}
<1>1. ASSUME bad # {} PROVE FALSE
  <2>1. PICK m \in bad : \A n \in bad : m <= n
    <3>1. bad \in SUBSET Nat
      OBVIOUS
    <3> HIDE DEF bad
    <3> QED BY <1>1, <3>1, LeastNat
  <2>2. m \in Nat /\ m-1 \in -1 .. k /\ End[m-1] # End2[m-1]
    BY <2>1
  <2>3. m-1 \in -1 .. N-1
    BY <2>2, KernelAssumption
  <2>4. /\ End[m-1] = EndStep(End, m-1, r, b, lost)
        /\ End2[m-1] = EndStep(End2, m-1, r, b, lost2)
    BY <2>3, EndTimesUnfold
  <2>5. m # 0
    BY <2>2, <2>4 DEF EndStep
  <2>6. m-1 \in Nat /\ m-1 < m /\ m-1 \in 0 .. k /\ (m-1)-1 \in -1 .. k
    BY <2>2, <2>5, KernelAssumption
  <2>7. End[(m-1)-1] = End2[(m-1)-1]
    <3>1. m-1 \notin bad
      <4> HIDE DEF bad
      <4> QED BY <2>1, <2>2, <2>6
    <3> QED BY <2>6, <3>1
  <2>8. m-1 \in lost <=> m-1 \in lost2
    BY <2>6
  <2> HIDE DEF End, End2
  <2>9. EndStep(End, m-1, r, b, lost) = EndStep(End2, m-1, r, b, lost2)
    BY <2>6, <2>7, <2>8 DEF EndStep
  <2> QED BY <2>2, <2>4, <2>9
<1>2. k+1 \in Nat /\ (k+1)-1 = k
  BY KernelAssumption
<1>3. k+1 \notin bad
  BY <1>1
<1> QED BY <1>2, <1>3

(* The CPU is free when everybody so far has ended, is lost, or was ready  *)
(* and had nothing to do.                                                  *)
LEMMA EndTimesPassed ==
  ASSUME NEW r \in [Idx -> Nat], NEW b \in [Idx -> Nat], NEW lost,
         NEW t \in Nat, NEW k \in -1 .. N-1,
         \A j \in 0 .. k : \/ j \in lost \/ EndTimes(r, b, lost)[j] <= t
                           \/ b[j] = 0 /\ r[j] <= t
  PROVE  EndTimes(r, b, lost)[k] <= t
<1> DEFINE End == EndTimes(r, b, lost)
           bad == {m \in Nat : m - 1 \in -1 .. k /\ ~(End[m-1] <= t)}
<1>1. ASSUME bad # {} PROVE FALSE
  <2>1. PICK m \in bad : \A n \in bad : m <= n
    <3>1. bad \in SUBSET Nat
      OBVIOUS
    <3> HIDE DEF bad
    <3> QED BY <1>1, <3>1, LeastNat
  <2>2. m \in Nat /\ m-1 \in -1 .. k /\ ~(End[m-1] <= t)
    BY <2>1
  <2>3. m-1 \in -1 .. N-1
    BY <2>2, KernelAssumption
  <2>4. End[m-1] = EndStep(End, m-1, r, b, lost)
    BY <2>3, EndTimesUnfold
  <2>5. m # 0
    BY <2>2, <2>4 DEF EndStep
  <2>6. /\ m-1 \in Nat /\ m-1 < m /\ m-1 \in 0 .. k /\ m-1 \in Idx
        /\ (m-1)-1 \in -1 .. k /\ (m-1)-1 \in -1 .. N-1
    BY <2>2, <2>5, KernelAssumption DEF Idx
  <2>7. End[(m-1)-1] <= t
    <3>1. m-1 \notin bad
      <4> HIDE DEF bad
      <4> QED BY <2>1, <2>2, <2>6
    <3> QED BY <2>6, <3>1
  <2>8. m-1 \in lost \/ (b[m-1] = 0 /\ r[m-1] <= t)
    BY <2>2, <2>6
  <2>9. r[m-1] \in Nat /\ End[(m-1)-1] \in Nat
    BY <2>6, EndTimesUnfold
  <2> HIDE DEF End
  <2> QED BY <2>2, <2>4, <2>6, <2>7, <2>8, <2>9 DEF EndStep
<1>2. k+1 \in Nat /\ (k+1)-1 = k
  BY KernelAssumption
<1>3. k+1 \notin bad
  BY <1>1
<1> QED BY <1>2, <1>3

-----------------------------------------------------------------------------
(* FIFO keeps to the theoretical schedule.                                 *)

Lost == {j \in Idx : life[Child(j)] = "failed"}

End == EndTimes(ready, burst, Lost)

(* An entry that will not be served any more, or never needed to be.       *)
Gone(j) == life[Child(j)] \in {"reaped", "failed"} \/ (burst[j] = 0 /\ pid[j] # NoPid)

FirstReady(j) == j \in Ready /\ \A k \in Ready : j <= k

(* When the schedule has entry j start.                                    *)
StartTime(j) == IF End[j-1] > ready[j] THEN End[j-1] ELSE ready[j]

(* The running entry will end on time, and so will the next one.           *)
OnSchedule ==
  /\ \A k \in Idx : ended[k] # -1 => ended[k] = End[k] /\ End[k] <= time
  /\ running # -1 => time + exec[running] = End[running]
  /\ \A k \in Idx : exec[k] = burst[k] \/ running = k \/ ended[k] # -1
  /\ \A j, k \in Idx : (running = k \/ ended[k] # -1) /\ j < k => Gone(j)
  /\ running = -1 => \A j \in Idx : FirstReady(j) => time = StartTime(j)

(* Types of the ideal end times.                                           *)
LEMMA EndType ==
  ASSUME LoopInv
  PROVE  /\ ready \in [Idx -> Nat] /\ burst \in [Idx -> Nat] /\ time \in Nat
         /\ \A j \in -1 .. N-1 : End[j] \in Nat
         /\ End[-1] = 0
         /\ \A j \in Idx :
              /\ j \in -1 .. N-1 /\ j - 1 \in -1 .. N-1
              /\ End[j] = IF j \in Lost THEN End[j-1] ELSE burst[j] + StartTime(j)
<1>1. ready \in [Idx -> Nat] /\ burst \in [Idx -> Nat] /\ time \in Nat
  <2>1. ready \in [Idx -> Readies] /\ burst \in [Idx -> Bursts] /\ time \in 0 .. MaxTime
    BY DEF LoopInv, ParentTypeOK
  <2>2. Readies \subseteq Nat /\ Bursts \subseteq Nat /\ MaxTime \in Nat
    BY ParentAssumption
  <2>3. \A S, T, f : S \subseteq T /\ f \in [Idx -> S] => f \in [Idx -> T]
    OBVIOUS
  <2>4. ready \in [Idx -> Nat]
    BY <2>1, <2>2, <2>3, Zenon
  <2>5. burst \in [Idx -> Nat]
    BY <2>1, <2>2, <2>3, Zenon
  <2> QED BY <2>1, <2>2, <2>4, <2>5
<1>2. \A j \in -1 .. N-1 : End[j] \in Nat /\ End[j] = EndStep(End, j, ready, burst, Lost)
  BY <1>1, EndTimesUnfold DEF End
<1>3. -1 \in -1 .. N-1
  BY KernelAssumption
<1>4. \A j \in Idx : j \in -1 .. N-1 /\ j - 1 \in -1 .. N-1 /\ j # -1
  BY KernelAssumption DEF Idx
<1>5. End[-1] = 0
  BY <1>2, <1>3 DEF EndStep
<1>6. \A j \in Idx :
        End[j] = IF j \in Lost THEN End[j-1] ELSE burst[j] + StartTime(j)
  BY <1>2, <1>4 DEF EndStep, StartTime
<1> QED BY <1>1, <1>2, <1>4, <1>5, <1>6

(* Everybody ahead of a forked entry, if none is ready, is gone or about   *)
(* to be reaped.                                                           *)
LEMMA GoneBefore ==
  ASSUME LoopOK, OnTime, InOrder, pc \notin {"done", "exited"},
         NEW j \in Idx, life[Child(j)] # "unborn",
         NEW k \in Idx, k < j, k \notin Ready
  PROVE  /\ Gone(k) \/ (running = k /\ pc = "reap" /\ exec[k] = 0)
         /\ ready[k] <= time /\ ready[j] <= time
<1> USE DEF LoopOK, ParentInv
<1>1. /\ j \in Nat /\ k \in Nat /\ i \in Nat /\ time \in Nat
      /\ ready[j] \in Nat /\ ready[k] \in Nat /\ ready[k] <= ready[j]
  <2>1. i \in Nat
    BY KernelAssumption DEF LoopInv, ParentTypeOK
  <2> QED BY <2>1, EndType, ChildOfIndex DEF LoopInv, Sorted
<1>2. ready[j] < time \/ (ready[j] = time /\ PastFork(j))
  BY DEF LoopInv, ForkedWhenDue
<1>3. ready[k] <= time /\ ready[j] <= time
  BY <1>1, <1>2
<1>4. life[Child(k)] # "unborn"
  BY <1>1, <1>2 DEF LoopInv, ForkedWhenDue, PastFork
<1>5. ~(pc \in {"assign", "block"} /\ i = k)
  BY <1>1, <1>2 DEF OnTime, PastFork
<1>6. life[Child(k)] = "failed" \/ pid[k] # NoPid
  <2>1. life[Child(k)] \in Lives
    BY ChildOfIndex DEF LoopInv, ParentTypeOK, KernelTypeOK
  <2> QED BY <1>4, <1>5, <2>1 DEF Lives, LoopInv, Entered
<1>7. CASE pid[k] # NoPid
  <2>1. exec[k] = 0
    BY <1>7 DEF Ready, LoopInv, ParentTypeOK
  <2> QED BY <1>3, <1>7, <2>1 DEF InOrder, UsedUpIsEnded, LoopInv, EndedIsReaped, Gone
<1> QED BY <1>3, <1>6, <1>7 DEF Gone

(* So the CPU has been scheduled no further than until now.                *)
LEMMA NobodyBefore ==
  ASSUME LoopOK, OnTime, InOrder, OnSchedule, pc \notin {"done", "exited"},
         NEW j \in Idx, life[Child(j)] # "unborn",
         \A k \in Ready : j <= k
  PROVE  End[j-1] <= time
<1> USE DEF LoopOK, ParentInv
<1>1. j \in Nat /\ j - 1 \in -1 .. N-1 /\ \A k \in 0 .. j-1 : k \in Idx /\ k < j
  BY KernelAssumption DEF Idx
<1>2. ASSUME NEW k \in 0 .. j-1
      PROVE  k \in Lost \/ End[k] <= time \/ (burst[k] = 0 /\ ready[k] <= time)
  <2>1. k \in Idx /\ k < j /\ k \notin Ready
    BY <1>1
  <2>2. /\ Gone(k) \/ (running = k /\ exec[k] = 0)
        /\ ready[k] <= time
    BY <2>1, GoneBefore
  <2>3. CASE running = k /\ exec[k] = 0
    <3>1. running # -1 /\ time \in Nat
      BY <2>1, <2>3, EndType, ChildOfIndex
    <3> QED BY <2>3, <3>1 DEF OnSchedule
  <2>4. CASE life[Child(k)] = "reaped"
    BY <2>1, <2>4 DEF OnSchedule, LoopInv, EndedIsReaped
  <2> QED BY <2>1, <2>2, <2>3, <2>4 DEF Gone, Lost
<1> QED BY <1>1, <1>2, EndType, EndTimesPassed DEF End

(* next_proc chooses the first ready entry of the table.                   *)
LEMMA NextProcIsFirst ==
  ASSUME LoopOK, Demote(NextProc)
  PROVE  FirstReady(NextProc)
<1> USE DEF LoopOK, ParentInv
<1>1. NextProc \in Ready /\ \A k \in Ready : Sooner(NextProc, k)
  BY DemoteFromIdle
<1>2. \A k \in Ready : k \in Idx /\ k \in Nat /\ ready[k] \in Nat
  BY ChildOfIndex, EndType DEF Ready
<1>3. \A k \in Ready : k < NextProc => ready[k] <= ready[NextProc]
  BY <1>1, <1>2 DEF LoopInv, Sorted
<1> QED BY <1>1, <1>2, <1>3 DEF Sooner, FirstReady

-----------------------------------------------------------------------------
(* Every step of FIFO keeps to the theoretical schedule.                   *)

(* What is gone stays gone.                                                *)
LEMMA GoneStays ==
  ASSUME LoopOK, [Next]_vars, burst' = burst,
         \A k \in Idx : pid[k] # NoPid => pid'[k] # NoPid
  PROVE  \A j \in Idx : Gone(j) => Gone(j)'
BY FateIsFinal DEF Gone

(* Nothing is off schedule after a step without clock, charge or end.      *)
LEMMA ScheduleKept ==
  ASSUME LoopOK, OnSchedule, [Next]_vars,
         UNCHANGED <<time, running, ended, exec, pid, ready, burst>>, Lost' = Lost
  PROVE  OnSchedule'
<1>1. /\ End' = End /\ Ready' = Ready
      /\ \A j \in Idx : FirstReady(j)' <=> FirstReady(j)
  BY DEF End, Ready, FirstReady
<1>2. \A j \in Idx : Gone(j) => Gone(j)'
  BY GoneStays
<1>3. \A j \in Idx : StartTime(j)' = StartTime(j)
  BY <1>1 DEF StartTime
<1> QED BY <1>1, <1>2, <1>3 DEF OnSchedule

(* A failing fork takes its entry out of the ideal schedule: only those    *)
(* that come after it move, and none of them has begun.                    *)
LEMMA ScheduleForkIgnored ==
  ASSUME LoopOK, OnSchedule, [Next]_vars, NEW f \in Idx, ForkIgnored(f)
  PROVE  OnSchedule'
<1> USE DEF LoopOK, ParentInv
<1>1. /\ pc = "fork" /\ FirstDue(f) /\ life' = [life EXCEPT ![Child(f)] = "failed"]
      /\ UNCHANGED <<time, running, ended, exec, pid, ready, burst>>
  BY DEF ForkIgnored, ForkFails, table
<1>2. \A k \in Idx : k \in Lost' <=> k \in Lost \/ k = f
  BY <1>1, ChildOfIndex DEF Lost, LoopInv, ParentTypeOK, KernelTypeOK
<1>3. \A k \in Idx : life[Child(k)] # "unborn" => k < f
  <2> SUFFICES ASSUME NEW k \in Idx, life[Child(k)] # "unborn" PROVE k < f
    OBVIOUS
  <2>1. ready[k] < time \/ (ready[k] = time /\ k < f)
    BY <1>1, ForkLoopMoves
  <2>2. /\ k \in Nat /\ f \in Nat /\ time \in Nat
        /\ ready[k] \in Nat /\ ready[f] \in Nat /\ ready[f] = time
        /\ f < k => ready[f] <= ready[k]
    BY <1>1, ChildOfIndex, EndType DEF FirstDue, Due, LoopInv, Sorted
  <2> QED BY <2>1, <2>2
<1>4. ASSUME NEW k \in Idx, life[Child(k)] # "unborn"
      PROVE  End'[k] = End[k] /\ StartTime(k)' = StartTime(k)
  <2>1. k \in -1 .. N-1 /\ k - 1 \in -1 .. N-1 /\ k < f /\ f \in Nat
    BY <1>3, <1>4, EndType, ChildOfIndex
  <2>2. \A j \in 0 .. k : j \in Idx /\ (j \in Lost' <=> j \in Lost)
    BY <1>2, <2>1, KernelAssumption DEF Idx
  <2>3. \A j \in 0 .. k-1 : j \in 0 .. k
    BY <2>1
  <2>4. End'[k] = EndTimes(ready, burst, Lost')[k]
        /\ End'[k-1] = EndTimes(ready, burst, Lost')[k-1]
    BY <1>1 DEF End
  <2>5. \A L : (\A j \in 0 .. k : j \in L <=> j \in Lost)
                 => /\ EndTimes(ready, burst, L)[k] = EndTimes(ready, burst, Lost)[k]
                    /\ EndTimes(ready, burst, L)[k-1] = EndTimes(ready, burst, Lost)[k-1]
    <3> SUFFICES ASSUME NEW L, \A j \in 0 .. k : j \in L <=> j \in Lost
                 PROVE  /\ EndTimes(ready, burst, L)[k] = EndTimes(ready, burst, Lost)[k]
                        /\ EndTimes(ready, burst, L)[k-1] = EndTimes(ready, burst, Lost)[k-1]
      OBVIOUS
    <3>1. ready \in [Idx -> Nat] /\ burst \in [Idx -> Nat]
      BY EndType
    <3>2. EndTimes(ready, burst, L)[k] = EndTimes(ready, burst, Lost)[k]
      BY <2>1, <3>1, EndTimesAgree
    <3>3. EndTimes(ready, burst, L)[k-1] = EndTimes(ready, burst, Lost)[k-1]
      BY <2>1, <2>3, <3>1, EndTimesAgree
    <3> QED BY <3>2, <3>3
  <2>6. \A j \in 0 .. k : j \in Lost' <=> j \in Lost
    BY <2>2
  <2>7. End'[k] = End[k] /\ End'[k-1] = End[k-1]
    BY <2>4, <2>5, <2>6 DEF End
  <2> QED BY <1>1, <2>7 DEF StartTime
<1>5. \A k \in Idx : pid[k] # NoPid \/ ended[k] # -1 => life[Child(k)] # "unborn"
  BY DEF LoopInv, Entered, EndedIsReaped
<1>6. running # -1 => running \in Idx /\ pid[running] # NoPid
  BY DEF LoopInv, ParentTypeOK, RunningIsReady
<1>7. \A j \in Idx : Gone(j) => Gone(j)'
  BY <1>1, GoneStays
<1>8. \A j \in Idx : /\ FirstReady(j)' <=> FirstReady(j)
                     /\ FirstReady(j) => pid[j] # NoPid
  BY <1>1 DEF FirstReady, Ready
<1> QED BY <1>1, <1>4, <1>5, <1>6, <1>7, <1>8 DEF OnSchedule

(* A new entry is the next one only if nobody ahead of it is ready.        *)
LEMMA ScheduleBlock ==
  ASSUME LoopOK, OnTime, InOrder, OnSchedule, [Next]_vars, Block
  PROVE  OnSchedule'
<1> USE DEF LoopOK, ParentInv
<1>1. /\ pc = "block" /\ pid' = [pid EXCEPT ![i] = Child(i)]
      /\ UNCHANGED <<life, time, running, exec, ended, ready, burst>>
  BY DEF Block, table
<1>2. /\ i \in Idx /\ pid[i] = NoPid /\ life[Child(i)] \in {"alive", "zombie"}
      /\ ready[i] = time
  BY <1>1 DEF LoopInv, Entered, OnTime
<1>3. End' = End /\ \A j \in Idx : StartTime(j)' = StartTime(j)
  BY <1>1 DEF End, Lost, StartTime
<1>4. \A j \in Idx : Gone(j) => Gone(j)'
  <2>1. \A j \in Idx : pid[j] # NoPid => pid'[j] # NoPid
    BY <1>1, <1>2 DEF LoopInv, ParentTypeOK
  <2> QED BY <1>1, <2>1, GoneStays
<1>5. \A j \in Idx : j \in Ready' <=> j \in Ready \/ (j = i /\ exec[j] > 0)
  BY <1>1, <1>2, ChildOfIndex DEF Ready, LoopInv, ParentTypeOK
<1>6. ASSUME running = -1, NEW j \in Idx, FirstReady(j)'
      PROVE  time = StartTime(j)
  <2>1. j \in Ready' /\ \A k \in Ready : j <= k
    BY <1>5, <1>6 DEF FirstReady, Ready
  <2>2. CASE j \in Ready
    BY <1>6, <2>1, <2>2 DEF OnSchedule, FirstReady
  <2>3. CASE j = i
    <3>1. End[i-1] <= time
      BY <1>1, <1>2, <2>1, <2>3, NobodyBefore
    <3>2. End[i-1] \in Nat /\ time \in Nat
      BY <1>2, EndType
    <3> QED BY <1>2, <2>3, <3>1, <3>2 DEF StartTime
  <2> QED BY <1>5, <2>1, <2>2, <2>3
<1> QED BY <1>1, <1>3, <1>4, <1>6 DEF OnSchedule

(* The entry that is reaped ended on time, and the next one starts now.    *)
LEMMA ScheduleReap ==
  ASSUME LoopOK, OnTime, InOrder, OnSchedule, [Next]_vars, ReapRunning
  PROVE  OnSchedule'
<1> USE DEF LoopOK, ParentInv
<1>1. /\ pc = "reap" /\ running # -1 /\ exec[running] = 0 /\ running' = -1
      /\ ended' = [ended EXCEPT ![running] = time]
      /\ UNCHANGED <<time, exec, pid, ready, burst>>
  BY DEF ReapRunning, UsedUp, table
<1>2. /\ running \in Idx /\ running \notin Ended /\ time \in Nat
      /\ pid[running] # NoPid
  BY <1>1, ReapRunningStep, EndType DEF LoopInv, RunningIsReady
<1>3. Lost' = Lost
  BY ChildOfIndex DEF ReapRunning, Waitpid, Lost
<1>4. End' = End /\ (\A j \in Idx : StartTime(j)' = StartTime(j)) /\ Ready' = Ready
  BY <1>1, <1>3 DEF End, StartTime, Ready
<1>5. \A j \in Idx : Gone(j) => Gone(j)'
  BY <1>1, GoneStays
<1>6. \A k \in Idx : ended'[k] = IF k = running THEN time ELSE ended[k]
  BY <1>1 DEF LoopInv, ParentTypeOK
<1>7. End[running] = time
  BY <1>1, <1>2, EndType DEF OnSchedule
<1>8. ASSUME NEW j \in Idx, FirstReady(j) PROVE time = StartTime(j)
  <2>1. /\ j \in Ready /\ pid[j] # NoPid /\ exec[j] > 0 /\ j # running
        /\ \A k \in Ready : j <= k
    BY <1>1, <1>8 DEF FirstReady, Ready
  <2>2. life[Child(j)] \in {"alive", "zombie"} /\ burst[j] # 0
    BY <2>1, ChargedType DEF LoopInv, Entered, EndedIsReaped, OnTime
  <2>3. ~Gone(j)
    BY <2>2 DEF Gone
  <2>4. running < j /\ j \in Nat /\ running \in Nat
    BY <1>1, <1>2, <2>1, <2>3, ChildOfIndex DEF OnSchedule
  <2>5. End[j-1] <= time
    BY <1>1, <2>1, <2>2, NobodyBefore
  <2>6. End[running] <= End[j-1]
    <3>1. j - 1 \in Idx /\ running <= j - 1
      BY <2>4, KernelAssumption DEF Idx
    <3> QED BY <1>2, <3>1, EndType, EndTimesGrow DEF End
  <2>7. ready[j] <= time /\ ready[j] \in Nat
    <3>1. running \notin Ready
      BY <1>1 DEF Ready
    <3> QED BY <1>1, <1>2, <2>2, <2>4, <3>1, EndType, GoneBefore
  <2>8. End[j-1] \in Nat
    BY EndType
  <2> QED BY <1>2, <1>7, <2>5, <2>6, <2>7, <2>8 DEF StartTime
<1>9. \A j \in Idx : FirstReady(j)' => time' = StartTime(j)'
  <2>1. \A j \in Idx : FirstReady(j)' <=> FirstReady(j)
    BY <1>4 DEF FirstReady
  <2> QED BY <1>1, <1>4, <1>8, <2>1
<1>10. \A k \in Idx : ended'[k] # -1 => ended'[k] = End'[k] /\ End'[k] <= time'
  BY <1>1, <1>2, <1>4, <1>6, <1>7 DEF OnSchedule
<1>11. \A k \in Idx : running = k \/ ended[k] # -1 <=> ended'[k] # -1
  BY <1>2, <1>6
<1>12. /\ \A k \in Idx : exec'[k] = burst'[k] \/ ended'[k] # -1
       /\ \A j, k \in Idx : ended'[k] # -1 /\ j < k => Gone(j)'
  BY <1>1, <1>5, <1>11 DEF OnSchedule
<1>13. \A k \in Idx : running' # k
  BY <1>1, ChildOfIndex
<1> QED BY <1>1, <1>9, <1>10, <1>12, <1>13 DEF OnSchedule

(* Whoever is switched to starts on time, when all ahead of it are gone.   *)
LEMMA ScheduleDemote ==
  ASSUME LoopOK, OnTime, InOrder, OnSchedule, [Next]_vars, Demote(NextProc)
  PROVE  OnSchedule'
<1> USE DEF LoopOK, ParentInv
<1> DEFINE n == NextProc
<1>1. /\ pc = "demote" /\ running = -1 /\ running' = n /\ FirstReady(n)
      /\ UNCHANGED <<life, time, exec, pid, ended, ready, burst>>
  BY DemoteFromIdle, NextProcIsFirst DEF Demote, table
<1> HIDE DEF n
<1>2. /\ n \in Idx /\ pid[n] # NoPid /\ exec[n] > 0 /\ \A k \in Ready : n <= k
      /\ n # -1 /\ n \in Nat
  BY <1>1, ChildOfIndex DEF FirstReady, Ready
<1>3. life[Child(n)] \in {"alive", "zombie"} /\ ended[n] = -1
  BY <1>2 DEF LoopInv, Entered, EndedIsReaped
<1>4. End' = End /\ Ready' = Ready
  BY <1>1 DEF End, Lost, Ready
<1>5. \A j \in Idx : Gone(j) => Gone(j)'
  BY <1>1, GoneStays
<1>6. time + exec[n] = End[n]
  <2>1. exec[n] = burst[n]
    BY <1>1, <1>2, <1>3 DEF OnSchedule
  <2>2. End[n] = burst[n] + StartTime(n)
    BY <1>2, <1>3, EndType DEF Lost
  <2>3. time = StartTime(n)
    BY <1>1, <1>2 DEF OnSchedule
  <2> QED BY <1>2, <2>1, <2>2, <2>3, EndType
<1>7. \A j \in Idx : j < n => Gone(j)
  <2> SUFFICES ASSUME NEW j \in Idx, j < n PROVE Gone(j)
    OBVIOUS
  <2>1. j \notin Ready
    BY <1>2, ChildOfIndex
  <2> QED BY <1>1, <1>2, <1>3, <2>1, GoneBefore
<1>8. \A k \in Idx : exec'[k] = burst'[k] \/ ended'[k] # -1
  BY <1>1, ChildOfIndex DEF OnSchedule
<1>9. \A j, k \in Idx : (n = k \/ ended'[k] # -1) /\ j < k => Gone(j)'
  BY <1>1, <1>5, <1>7 DEF OnSchedule
<1> QED BY <1>1, <1>2, <1>4, <1>6, <1>8, <1>9 DEF OnSchedule

(* A unit passes for the running entry; when nobody is ready, nobody is    *)
(* due to start.                                                           *)
LEMMA ScheduleTick ==
  ASSUME LoopOK, OnTime, OnSchedule, [Next]_vars, Tick
  PROVE  OnSchedule'
<1> USE DEF LoopOK, ParentInv
<1>1. /\ pc = "tick" /\ UNCHANGED <<life, running, ended, pid, ready, burst>>
      /\ time' = IF time < MaxTime THEN time + 1 ELSE time
      /\ exec' = IF running = -1 THEN exec ELSE [exec EXCEPT ![running] = @ - 1]
  BY DEF Tick, kernel, table
<1>2. time \in Nat /\ time' \in Nat /\ time <= time' /\ MaxTime \in Nat
  BY <1>1, EndType, ParentAssumption
<1>3. End' = End
  BY <1>1 DEF End, Lost
<1>4. \A j \in Idx : Gone(j) => Gone(j)'
  BY <1>1, GoneStays
<1>5. \A k \in Idx : ended[k] # -1 => ended[k] = End[k] /\ End[k] <= time'
  BY <1>2, EndType DEF OnSchedule
<1>6. CASE running = -1
  <2>1. Ready' = {}
    BY <1>1, <1>6 DEF OnTime, Ready
  <2>2. \A k \in Idx : exec'[k] = burst'[k] \/ running' = k \/ ended'[k] # -1
    BY <1>1, <1>6 DEF OnSchedule
  <2>3. \A j, k \in Idx : (running' = k \/ ended'[k] # -1) /\ j < k => Gone(j)'
    BY <1>1, <1>4 DEF OnSchedule
  <2>4. \A j \in Idx : ~FirstReady(j)'
    BY <2>1 DEF FirstReady
  <2> QED BY <1>1, <1>3, <1>5, <1>6, <2>2, <2>3, <2>4 DEF OnSchedule
<1>7. CASE running # -1
  <2>1. running \in Idx /\ time' = time + 1
    BY <1>1, <1>7, ClockRuns DEF LoopInv, ParentTypeOK
  <2>2. /\ exec'[running] = exec[running] - 1
        /\ \A k \in Idx : k # running => exec'[k] = exec[k]
    BY <1>1, <1>7, <2>1 DEF LoopInv, ParentTypeOK
  <2>3. time' + exec'[running] = End[running]
    <3>1. exec[running] \in Nat
      BY <2>1 DEF LoopInv, ParentTypeOK
    <3> QED BY <1>2, <1>7, <2>1, <2>2, <3>1 DEF OnSchedule
  <2> QED BY <1>1, <1>3, <1>4, <1>5, <1>7, <2>2, <2>3 DEF OnSchedule
<1> QED BY <1>6, <1>7

(* Every step of FIFO keeps to the schedule.                               *)
LEMMA ScheduleStep ==
  ASSUME LoopOK, OnTime, InOrder, OnSchedule, [Next]_vars
  PROVE  OnSchedule'
<1> USE DEF LoopOK, ParentInv
<1>1. ASSUME UNCHANGED <<time, running, ended, exec, pid, ready, burst>>,
             Lost' = Lost
      PROVE  OnSchedule'
  BY <1>1, ScheduleKept
<1>2. ASSUME NEW j \in Idx, Fork1(j) PROVE OnSchedule'
  <2>1. life[Child(j)] = "unborn" /\ life' = [life EXCEPT ![Child(j)] = "alive"]
    BY <1>2, DueIsUnborn DEF Fork1, ForkChild, Fork
  <2>2. Lost' = Lost
    BY <2>1, ChildOfIndex DEF Lost, LoopInv, ParentTypeOK, KernelTypeOK
  <2> QED BY <1>1, <1>2, <2>2 DEF Fork1, ForkChild, table
<1>3. CASE Children
  <2>1. Lost' = Lost
    BY <1>3, ChildOfIndex DEF Children, ChildStep, ChildUnit, ChildExit, Lost,
       LoopInv, ParentTypeOK, KernelTypeOK
  <2> QED BY <1>1, <1>3, <2>1 DEF Children, parent
<1>4. CASE \/ NothingToReap \/ AssignCpu \/ AssignFails \/ EndFork
           \/ KeepRunning(NextProc) \/ Wakeup(NextProc)
           \/ UNCHANGED <<kernel, parent>>
  <2>1. UNCHANGED <<life, time, running, ended, exec, pid, ready, burst>>
    BY <1>4 DEF NothingToReap, AssignCpu, AssignFails, EndFork, KeepRunning,
       Wakeup, kernel, parent, table
  <2> QED BY <1>1, <2>1 DEF Lost
<1> QED
  BY <1>2, <1>3, <1>4, ScheduleForkIgnored, ScheduleBlock, ScheduleReap,
     ScheduleDemote, ScheduleTick DEF Next, Scheduler, Terminated, vars

(* The "ended" times FIFO.c prints are those of the theoretical schedule,  *)
(* for any table, whatever forks fail and however slow the children are.   *)
THEOREM PrintsTheSchedule == Spec => []EndedOnSchedule
<1>1. Init => OnTime /\ InOrder /\ OnSchedule
  <2> SUFFICES ASSUME Init PROVE OnTime /\ InOrder /\ OnSchedule
    OBVIOUS
  <2>1. Ready = {} /\ running = -1 /\ \A k \in Idx : ended[k] = -1 /\ exec[k] = burst[k]
    BY DEF Init, ParentInit, Ready
  <2>2. OnSchedule
    BY <2>1, ChildOfIndex DEF OnSchedule, FirstReady
  <2> QED BY <2>2, OnTimeInit, InOrderInit DEF Init
<1>2. LoopOK /\ OnTime /\ InOrder /\ OnSchedule /\ [Next]_vars
        => OnTime' /\ InOrder' /\ OnSchedule'
  BY OnTimeStep, InOrderStep, ScheduleStep
<1>3. OnSchedule => EndedOnSchedule
  BY DEF OnSchedule, EndedOnSchedule, End, Lost
<1> QED BY FifoInv, <1>1, <1>2, <1>3, PTL DEF Spec, Safety

-----------------------------------------------------------------------------
(* The pace of the loop is that of Parent_proofs. *)

Steady == LoopOK /\ OnTime /\ Pace

(* The loop starts in step with the clock.                                 *)
LEMMA SteadyInit == Init => Steady
BY FifoInit, OnTimeInit, PaceInit DEF Init, Steady

(* No step of FIFO lets the CPU rest while somebody is ready.              *)
LEMMA SteadyStep ==
  ASSUME Steady, [Next]_vars
  PROVE  Steady'
<1> USE DEF Steady, LoopOK, ParentInv
<1>1. Pace'
  <2>1. CASE Block
    BY <2>1, PaceBlock
  <2>2. CASE Tick
    BY <2>2, PaceTick
  <2>3. CASE ReapRunning
    BY <2>3, PaceReap
  <2>4. CASE Demote(NextProc)
    <3>1. /\ pc' = "tick" /\ running' \in Ready
          /\ UNCHANGED <<time, exec, pid, ready, burst, ended>>
      BY <2>4, DemoteFromIdle DEF Demote, table
    <3> QED BY <3>1, PaceKept DEF Busy, Ready
  <2>5. CASE /\ UNCHANGED <<time, running, exec, pid, ready, burst, ended>>
             /\ pc' \notin {"reap", "done"} \/ pc' = pc
    BY <2>5, PaceKept DEF Busy, Ready
  <2> QED
    BY <2>1, <2>2, <2>3, <2>4, <2>5
       DEF Next, Scheduler, Fork1, ForkChild, ForkIgnored, NothingToReap, AssignCpu,
           AssignFails, EndFork, KeepRunning, Wakeup, Children, Terminated, parent,
           table, vars
<1>2. LoopOK' /\ OnTime'
  BY FifoStep, OnTimeStep
<1> QED BY <1>1, <1>2 DEF Steady

=============================================================================
