------------------------------ MODULE RR_proofs -----------------------------
(***************************************************************************)
(* The theorems of RR, for any number of processes, any table, any slot    *)
(* length and any failing call.  The steps of the loop are those of        *)
(* Parent_proofs; here are the ring search of RR_next and its slots.       *)
(***************************************************************************)
EXTENDS RR, Parent_proofs

RrTypeOK ==
  /\ timeLast \in 0 .. MaxTime /\ wait \in Nat
  /\ since \in [Idx -> 0 .. MaxTime]

(* A switch under way is to somebody else than the running entry.          *)
SwitchToOther == pc = "demote" => RR_next # running

LoopOK == ParentInv /\ RrTypeOK /\ SwitchToOther

-----------------------------------------------------------------------------
(* The ring position of an entry j behind an entry r, as a number without  *)
(* remainders.                                                             *)
LEMMA BehindPosition ==
  ASSUME NEW r \in Idx \cup {-1}, NEW j \in Idx
  PROVE  /\ (j - r - 1) % N = IF j > r THEN j - r - 1 ELSE (j - r - 1) + N
         /\ (j - r - 1) % N \in 0 .. N-1
<1>1. N \in Nat \ {0} /\ j \in 0 .. N-1 /\ r \in -1 .. N-1
  BY KernelAssumption DEF Idx
<1>2. CASE j > r
  BY <1>1, <1>2, ModSmall
<1>3. CASE ~(j > r)
  <2> DEFINE gap == j - r - 1
  <2>1. gap \in Int /\ -N <= gap /\ gap < 0
    BY <1>1, <1>3
  <2>2. gap % N = gap + N
    BY <1>1, <2>1, ModNegative
  <2> QED BY <1>1, <1>3, <2>1, <2>2
<1> QED BY <1>1, <1>2, <1>3

(* The position behind the running one; two entries never share one.       *)
LEMMA RingPosition ==
  ASSUME running \in Idx \cup {-1}, NEW j \in Idx
  PROVE  /\ Ring(j) = IF j > running THEN j - running - 1
                                     ELSE (j - running - 1) + N
         /\ Ring(j) \in 0 .. N-1
BY BehindPosition DEF Ring

(* No two entries have the same position.                                  *)
LEMMA RingInjective ==
  ASSUME running \in Idx \cup {-1}, NEW j \in Idx, NEW k \in Idx, Ring(j) = Ring(k)
  PROVE  j = k
<1>1. N \in Nat /\ j \in 0 .. N-1 /\ k \in 0 .. N-1 /\ running \in -1 .. N-1
  BY KernelAssumption DEF Idx
<1> QED BY <1>1, RingPosition

-----------------------------------------------------------------------------
(* RR_next. *)

(* The ring search has somebody to find.                                   *)
LEMMA NextInRingExists ==
  ASSUME LoopInv, Ready # {}
  PROVE  \E j \in Ready : \A k \in Ready : Ring(j) <= Ring(k)
<1>1. Ready \subseteq Idx /\ running \in Idx \cup {-1}
  BY DEF Ready, LoopInv, ParentTypeOK
<1> DEFINE positions == {Ring(j) : j \in Ready}
<1>2. positions \in SUBSET Nat /\ positions # {}
  BY <1>1, RingPosition
<1>3. PICK x \in positions : \A y \in positions : x <= y
  BY <1>2, LeastNat
<1> QED BY <1>3

(* So has the search from the head of the table.                           *)
LEMMA FirstReadyExists ==
  ASSUME LoopInv, Ready # {}
  PROVE  Min(Ready) \in Ready /\ \A k \in Ready : Min(Ready) <= k
<1>1. Ready \in SUBSET Nat
  BY ChildOfIndex DEF Ready
<1>2. \E j \in Ready : \A k \in Ready : j <= k
  BY <1>1, LeastNat
<1> QED BY <1>2 DEF Min

(* The three ways out of RR_next, once an entry is ready.                  *)
LEMMA RR_nextCases ==
  ASSUME LoopInv, Ready # {}
  PROVE  /\ running = -1 =>
              RR_next \in Ready /\ \A k \in Ready : RR_next <= k
         /\ running # -1 /\ SlotOver =>
              RR_next \in Ready /\ \A k \in Ready : Ring(RR_next) <= Ring(k)
         /\ running # -1 /\ ~SlotOver => RR_next = running
<1>1. running = -1 => RR_next = Min(Ready)
  BY DEF RR_next
<1>2. running # -1 /\ SlotOver =>
        RR_next = CHOOSE j \in Ready : \A k \in Ready : Ring(j) <= Ring(k)
  BY DEF RR_next
<1>3. running # -1 /\ ~SlotOver => RR_next = running
  BY DEF RR_next
<1> QED BY <1>1, <1>2, <1>3, NextInRingExists, FirstReadyExists

(* When RR_next is called, the running entry is ready, if there is one.    *)
LEMMA RunningReady ==
  ASSUME LoopInv, pc \in {"fork", "assign", "block", "select", "demote", "tick"}
  PROVE  running # -1 => running \in Ready
BY DEF LoopInv, RunningIsReady, ParentTypeOK, Ready

(* Whenever the choice is not `nobody`, it is a ready entry.               *)
LEMMA RR_nextReady ==
  ASSUME LoopInv, pc \in {"select", "demote"}
  PROVE  IF Ready = {} THEN running = -1 /\ RR_next = -1 ELSE RR_next \in Ready
<1>1. running # -1 => running \in Ready
  BY RunningReady
<1>2. Ready = {} => running = -1 /\ RR_next = -1
  BY <1>1 DEF RR_next
<1> QED BY <1>1, <1>2, RR_nextCases

(* The choice is unique, so it is the same as long as the table is.        *)
LEMMA RR_nextKept ==
  ASSUME LoopInv, Ready # {},
         UNCHANGED <<running, exec, pid, time, timeLast>>
  PROVE  RR_next' = RR_next
<1>1. /\ Ready' = Ready /\ (SlotOver' <=> SlotOver)
      /\ \A j \in Idx : Ring(j)' = Ring(j)
  BY DEF Ready, SlotOver, Ring
<1>2. Ready \subseteq Idx /\ running \in Idx \cup {-1}
  BY DEF Ready, LoopInv, ParentTypeOK
<1>3. CASE running = -1
  BY <1>1, <1>3 DEF RR_next
<1>4. CASE running # -1 /\ SlotOver
  <2>1. RR_next \in Ready /\ \A k \in Ready : Ring(RR_next) <= Ring(k)
    BY <1>4, RR_nextCases
  <2>2. RR_next' = CHOOSE j \in Ready' : \A k \in Ready' : Ring(j)' <= Ring(k)'
    BY <1>1, <1>4 DEF RR_next
  <2>3. RR_next' \in Ready /\ \A k \in Ready : Ring(RR_next') <= Ring(k)
    BY <1>1, <1>2, <2>1, <2>2
  <2>4. Ring(RR_next) = Ring(RR_next')
    BY <1>2, <2>1, <2>3, RingPosition
  <2> QED BY <1>2, <2>1, <2>3, <2>4, RingInjective
<1>5. CASE running # -1 /\ ~SlotOver
  BY <1>1, <1>5 DEF RR_next
<1> QED BY <1>3, <1>4, <1>5

-----------------------------------------------------------------------------
(* The invariant of the loop is preserved by every step of RR.             *)

(* The invariant holds before the loop.                                    *)
LEMMA RrInit == Init => LoopOK
<1> SUFFICES ASSUME Init PROVE LoopOK
  OBVIOUS
<1>1. ParentInv
  BY ParentInitInv DEF Init
<1>2. RrTypeOK /\ SwitchToOther
  BY ParentAssumption DEF Init, ParentInit, RrTypeOK, SwitchToOther
<1> QED BY <1>1, <1>2 DEF LoopOK

(* A running entry is not ready in the future.                             *)
LEMMA RunningWasReady ==
  ASSUME LoopInv, running # -1, pc \notin {"done", "exited"}
  PROVE  running \in Idx /\ ready[running] \in Nat /\ ready[running] <= time
<1>1. running \in Idx /\ pid[running] # NoPid /\ ready[running] \in Nat /\ time \in Nat
  BY ParentAssumption DEF LoopInv, ParentTypeOK, RunningIsReady
<1>2. life[Child(running)] # "unborn"
  BY <1>1 DEF LoopInv, Entered
<1> QED BY <1>1, <1>2 DEF LoopInv, ForkedWhenDue

(* The sum of the waiting times never goes down.                           *)
LEMMA RrAccountStep ==
  ASSUME LoopOK, [Next]_vars
  PROVE  RrTypeOK'
<1> USE DEF LoopOK, ParentInv
<1>1. time \in 0 .. MaxTime /\ MaxTime \in Nat
  BY ParentAssumption DEF LoopInv, ParentTypeOK
<1>2. CASE UNCHANGED account
  BY <1>2 DEF account, RrTypeOK
<1>3. CASE Reap
  <2>1. /\ wait' = wait + time - ready[running] - exec[running]
        /\ UNCHANGED <<timeLast, since>>
        /\ pc = "reap" /\ running # -1 /\ exec[running] = 0
    BY <1>3 DEF Reap, ReapRunning, UsedUp
  <2>2. ready[running] \in Nat /\ ready[running] <= time
    BY <2>1, RunningWasReady
  <2> QED BY <1>1, <2>1, <2>2 DEF RrTypeOK
<1>4. CASE Arrive
  BY <1>1, <1>4 DEF Arrive, RrTypeOK
<1>5. CASE Switch
  BY <1>1, <1>5 DEF Switch, RrTypeOK
<1> QED BY <1>2, <1>3, <1>4, <1>5 DEF Next, Scheduler, Choose, vars, account

(* Every step of RR keeps it.                                              *)
LEMMA RrStep ==
  ASSUME LoopOK, [Next]_vars
  PROVE  LoopOK'
<1> SUFFICES ParentInv' /\ SwitchToOther'
  BY RrAccountStep DEF LoopOK
<1> USE DEF LoopOK, ParentInv
<1>1. CASE Reap
  BY <1>1, ReapRunningStep, ReapRunningCounts DEF Reap, ReapRunning, SwitchToOther
<1>2. CASE Arrive
  BY <1>2, BlockStep, CountedKept DEF Arrive, Block, SwitchToOther
<1>3. CASE Switch
  <2>1. RR_next \in Ready
    BY <1>3, RR_nextReady DEF Switch, Demote, LoopInv, RunningIsReady
  <2> QED BY <1>3, <2>1, DemoteStep, CountedKept DEF Switch, Demote, SwitchToOther
<1>4. CASE KeepRunning(RR_next)
  BY <1>4, KeepRunningStep, CountedKept DEF KeepRunning, SwitchToOther
<1>5. CASE Wakeup(RR_next) /\ UNCHANGED account
  <2>1. /\ pc = "select" /\ RR_next \notin {-1, running}
        /\ UNCHANGED <<running, exec, pid, time, timeLast>>
    BY <1>5 DEF Wakeup, account
  <2>2. RR_next \in Ready
    BY <2>1, RR_nextReady
  <2>3. RR_next' = RR_next
    BY <2>1, <2>2, RR_nextKept
  <2> QED BY <1>5, <2>1, <2>2, <2>3, WakeupStep, CountedKept DEF Wakeup, SwitchToOther
<1>6. CASE NothingToReap
  BY <1>6, NothingToReapStep, CountedKept DEF NothingToReap, SwitchToOther
<1>7. ASSUME NEW j \in Idx, ForkChild(j) PROVE ParentInv' /\ SwitchToOther'
  BY <1>7, ForkChildStep, CountedKept DEF ForkChild, SwitchToOther
<1>8. ASSUME NEW j \in Idx, ForkIgnored(j) PROVE ParentInv' /\ SwitchToOther'
  BY <1>8, ForkIgnoredStep, CountedKept DEF ForkIgnored, SwitchToOther
<1>9. CASE AssignCpu
  BY <1>9, AssignCpuStep, CountedKept DEF AssignCpu, SwitchToOther
<1>10. CASE AssignFails
  BY <1>10, AssignFailsStep, CountedKept DEF AssignFails, SwitchToOther
<1>11. CASE EndFork
  BY <1>11, EndForkStep, CountedKept DEF EndFork, SwitchToOther
<1>12. CASE Tick
  BY <1>12, TickStep, CountedKept DEF Tick, SwitchToOther
<1>13. CASE (Children \/ UNCHANGED <<kernel, parent>>) /\ UNCHANGED account
  <2>1. /\ pc' = pc /\ UNCHANGED <<running, exec, pid, time, timeLast, ended, finished>>
    BY <1>13 DEF Children, parent, account
  <2>2. SwitchToOther'
    BY <2>1, RR_nextKept DEF LoopInv, RunningIsReady, SwitchToOther
  <2>3. CASE Children
    BY <2>1, <2>2, <2>3, ChildrenStep, CountedKept
  <2>4. CASE UNCHANGED <<kernel, parent>>
    BY <2>2, <2>4, StutterStep
  <2> QED BY <1>13, <2>3, <2>4
<1> QED
  BY <1>1, <1>2, <1>3, <1>4, <1>5, <1>6, <1>7, <1>8, <1>9, <1>10, <1>11, <1>12,
     <1>13 DEF Next, Scheduler, Choose, proc_exec, Terminated, vars

(* In every state of RR the table, the children and the clock agree, and a *)
(* switch under way is to somebody else.                                   *)
THEOREM RrInv == Spec => []LoopOK
<1>1. LoopOK /\ [Next]_vars => LoopOK'
  BY RrStep
<1> QED BY RrInit, <1>1, PTL DEF Spec, Safety

-----------------------------------------------------------------------------
(* Type correctness: in particular no entry is counted down below 0, and   *)
(* the printed sum of waiting times is never negative.                     *)
THEOREM TypeCorrect == Spec => []TypeOK
<1>1. LoopOK => TypeOK
  BY DEF LoopOK, ParentInv, LoopInv, RrTypeOK, TypeOK
<1> QED BY RrInv, <1>1, PTL

(* An entry reported as ended was charged all its units by the parent, in  *)
(* however many slots, and its child burned all of them and was reaped.    *)
THEOREM EndedRan == Spec => []EndedRanToCompletion
<1>1. LoopOK => EndedRanToCompletion
  BY InvEndedRan DEF LoopOK
<1> QED BY RrInv, <1>1, PTL

(* RR_main() leaves its loop only when it has reaped every child.          *)
THEOREM NoOrphans == Spec => []DoneMeansAllReaped
<1>1. LoopOK => DoneMeansAllReaped
  BY InvAllReaped DEF LoopOK
<1> QED BY RrInv, <1>1, PTL

(* The ring search of RR_next always finds an entry and ends, for any      *)
(* table, any slot length and any failing call.                            *)
THEOREM SearchEnds == Spec => []RR_nextReturns
<1>1. LoopOK => RR_nextReturns
  <2> SUFFICES ASSUME LoopOK, pc = "select", SearchesForever PROVE FALSE
    BY DEF RR_nextReturns
  <2> QED BY RunningReady DEF LoopOK, ParentInv, SearchesForever
<1> QED BY RrInv, <1>1, PTL

-----------------------------------------------------------------------------
(* The scheduling classes. *)

(* No step but a switch changes who is awake, and RR_next gives the same   *)
(* entry to the wake-up and to the demotion of one switch.                 *)
LEMMA AwakeStep ==
  ASSUME LoopOK, AwakeAt(RR_next), [Next]_vars
  PROVE  AwakeAt(RR_next)'
<1> USE DEF LoopOK, ParentInv
<1>1. ASSUME NEW j \in Idx, ForkChild(j) PROVE AwakeAt(RR_next)'
  BY <1>1, AwakeForkChild
<1>2. CASE Reap
  BY <1>2, AwakeReap DEF Reap
<1>3. CASE Arrive
  BY <1>3, AwakeBlock DEF Arrive
<1>4. CASE Wakeup(RR_next) /\ UNCHANGED account
  <2>1. /\ pc = "select" /\ RR_next \notin {-1, running}
        /\ UNCHANGED <<running, exec, pid, time, timeLast>>
    BY <1>4 DEF Wakeup, account
  <2>2. RR_next \in Ready
    BY <2>1, RR_nextReady
  <2>3. RR_next' = RR_next
    BY <2>1, <2>2, RR_nextKept
  <2> QED BY <1>4, <2>2, <2>3, AwakeWakeup
<1>5. CASE Switch
  <2>1. RR_next \in Ready /\ RR_next # running
    BY <1>5, RR_nextReady DEF Switch, Demote, SwitchToOther, LoopInv, RunningIsReady
  <2> QED BY <1>5, <2>1, AwakeDemote DEF Switch
<1>6. CASE (Children \/ UNCHANGED <<kernel, parent>>) /\ UNCHANGED account
  <2>1. UNCHANGED <<pc, running, exec, pid, time, timeLast>>
    BY <1>6 DEF Children, parent, account
  <2>2. pc = "demote" => RR_next' = RR_next
    BY <2>1, RR_nextKept DEF LoopInv, RunningIsReady
  <2>3. CASE Children
    BY <2>1, <2>2, <2>3, AwakeChildren DEF AwakeAt
  <2>4. CASE UNCHANGED <<kernel, parent>>
    BY <2>1, <2>2, <2>4 DEF AwakeAt, InTable, kernel, parent
  <2> QED BY <1>6, <2>3, <2>4
<1>7. ASSUME pc # "demote", pc' # "demote", UNCHANGED <<running, class, pid>>,
             \A k \in Idx : InTable(k)' => InTable(k)
      PROVE  AwakeAt(RR_next)'
  BY <1>7, AwakeKept
<1>8. CASE \/ NothingToReap \/ AssignCpu \/ AssignFails \/ EndFork
           \/ KeepRunning(RR_next) \/ Tick
  <2>1. /\ pc # "demote" /\ pc' # "demote" /\ UNCHANGED <<running, class, pid, life>>
    BY <1>8 DEF NothingToReap, AssignCpu, AssignFails, EndFork, KeepRunning, Tick, kernel
  <2> QED BY <1>7, <2>1 DEF InTable
<1>9. ASSUME NEW j \in Idx, ForkIgnored(j) PROVE AwakeAt(RR_next)'
  <2>1. /\ pc # "demote" /\ pc' # "demote" /\ UNCHANGED <<running, class, pid>>
        /\ life' = [life EXCEPT ![Child(j)] = "failed"] /\ pid[j] = NoPid
    BY <1>9, DueIsUnborn DEF ForkIgnored, ForkFails
  <2>2. \A k \in Idx : InTable(k)' => InTable(k)
    BY <2>1, ChildOfIndex DEF InTable, LoopInv, ParentTypeOK, KernelTypeOK
  <2> QED BY <1>7, <2>1, <2>2
<1> QED
  BY <1>1, <1>2, <1>3, <1>4, <1>5, <1>6, <1>8, <1>9
     DEF Next, Scheduler, Choose, proc_exec, Terminated, vars

(* Outside a switch, and as long as no right is missing, exactly the       *)
(* running child of those in the table is above SCHED_IDLE; so of two      *)
(* children that take turns one is always in the background.               *)
THEOREM OnlyRunningIsAwake == Spec => []AwakeIsRunning
<1>1. Init => AwakeAt(RR_next)
  BY DEF Init, ParentInit, AwakeAt, InTable
<1>2. LoopOK /\ AwakeAt(RR_next) /\ [Next]_vars => AwakeAt(RR_next)'
  BY AwakeStep
<1>3. AwakeAt(RR_next) => AwakeIsRunning
  BY DEF AwakeAt, AwakeIsRunning, InTable
<1>4. Spec => []AwakeAt(RR_next)
  BY RrInv, <1>1, <1>2, PTL DEF Spec, Safety
<1> QED BY <1>3, <1>4, PTL

-----------------------------------------------------------------------------
(* What RR_main divides by n. *)

Turnaround == [j \in Idx |-> ended[j] - ready[j]]

(* Types of the turnaround times.                                          *)
LEMMA TurnaroundType ==
  ASSUME LoopInv
  PROVE  IsFiniteSet(Ended) /\ \A j \in Idx : Turnaround[j] \in Int
<1>1. IsFiniteSet(Idx)
  BY FS_Interval, KernelAssumption DEF Idx
<1>2. IsFiniteSet(Ended)
  BY <1>1, FS_Subset DEF Ended
<1>3. \A j \in Idx : ended[j] \in Int /\ ready[j] \in Int
  BY ParentAssumption DEF LoopInv, ParentTypeOK
<1> QED BY <1>2, <1>3 DEF Turnaround

(* Every step of RR keeps the sum: only the reaping adds to it.            *)
LEMMA WaitStep ==
  ASSUME LoopOK, WaitIsTurnaround, [Next]_vars
  PROVE  WaitIsTurnaround'
<1> USE DEF LoopOK, ParentInv
<1>1. wait = SumFunctionOnSet(Turnaround, Ended)
  BY DEF WaitIsTurnaround, Turnaround, Ended
<1> SUFFICES wait' = SumFunctionOnSet(Turnaround', Ended')
  BY DEF WaitIsTurnaround, Turnaround, Ended
<1>2. CASE Reap
  <2>1. /\ wait' = wait + time - ready[running] - exec[running]
        /\ running # -1 /\ exec[running] = 0 /\ UNCHANGED ready
        /\ ended' = [ended EXCEPT ![running] = time]
    BY <1>2 DEF Reap, ReapRunning, UsedUp, table
  <2>2. running \in Idx /\ running \notin Ended /\ Ended' = Ended \cup {running}
    BY <1>2, ReapRunningStep DEF Reap
  <2>3. /\ \A j \in Ended : Turnaround'[j] = Turnaround[j]
        /\ Turnaround'[running] = time - ready[running]
    BY <2>1, <2>2 DEF Turnaround, Ended, LoopInv, ParentTypeOK
  <2>4. time \in Nat /\ ready[running] \in Nat /\ wait \in Nat
    BY <2>2, ParentAssumption DEF LoopInv, ParentTypeOK, RrTypeOK
  <2>5. /\ IsFiniteSet(Ended)
        /\ \A j \in Ended \cup {running} : Turnaround'[j] \in Int
    BY <2>2, <2>3, <2>4, TurnaroundType DEF Ended
  <2>6. SumFunctionOnSet(Turnaround', Ended) = wait
    BY <1>1, <2>3, <2>5, SumCongruent
  <2>7. SumFunctionOnSet(Turnaround', Ended') = Turnaround'[running] + wait
    BY <2>2, <2>5, <2>6, SumWith
  <2> QED BY <2>1, <2>3, <2>4, <2>7
<1>3. CASE UNCHANGED <<wait, ended, ready>>
  BY <1>1, <1>3 DEF Turnaround, Ended
<1> QED
  BY <1>2, <1>3 DEF Next, Scheduler, Arrive, Choose, Switch, proc_exec,
     ForkChild, ForkIgnored, NothingToReap, AssignCpu, AssignFails, Block,
     EndFork, KeepRunning, Wakeup, Demote, Tick, Children, Terminated, parent,
     table, account, vars

(* The sum RR_main divides by n to print the average waiting time is that  *)
(* of the turnaround times of the entries reaped so far, whatever fails.   *)
THEOREM WaitAddsUp == Spec => []WaitIsTurnaround
<1>1. Init => WaitIsTurnaround
  <2> SUFFICES ASSUME Init PROVE WaitIsTurnaround
    OBVIOUS
  <2>1. {j \in Idx : ended[j] # -1} = {} /\ wait = 0
    BY DEF Init, ParentInit
  <2> QED BY <2>1, SumEmpty DEF WaitIsTurnaround
<1>2. LoopOK /\ WaitIsTurnaround /\ [Next]_vars => WaitIsTurnaround'
  BY WaitStep
<1> QED BY RrInv, <1>1, <1>2, PTL DEF Spec, Safety

-----------------------------------------------------------------------------
(***************************************************************************)
(* The ideal round robin.  A slot is the time since the last switch, so    *)
(* the proof needs to know where that stands: it is past as soon as the    *)
(* one switched to has been served, and no slot goes on beyond its end     *)
(* while somebody else is ready.                                           *)
(***************************************************************************)
SlotsKept ==
  /\ timeLast <= time
  /\ running # -1 /\ pc \notin {"tick", "done", "exited"} => timeLast < time
  /\ pc = "demote" => running = -1 \/ SlotOver
  /\ pc = "tick" /\ running # -1 => time = timeLast \/ ~SlotOver \/ Ready = {running}

InTime == OnTime /\ SlotsKept

(* Types for the arithmetic of the slots.                                  *)
LEMMA SlotType ==
  ASSUME LoopOK
  PROVE  /\ time \in Nat /\ timeLast \in Nat /\ Interval \in Nat \ {0}
         /\ time - timeLast \in Int
BY ParentAssumption, IntervalAssumption
   DEF LoopOK, ParentInv, LoopInv, ParentTypeOK, RrTypeOK

(* The running entry is the last one of its ring.                          *)
LEMMA RunningIsLast ==
  ASSUME LoopInv, running # -1, NEW k \in Idx, k # running
  PROVE  running \in Idx /\ Ring(k) < Ring(running)
<1>1. running \in Idx /\ running \in Idx \cup {-1}
  BY DEF LoopInv, ParentTypeOK
<1>2. N \in Nat /\ k \in 0 .. N-1 /\ running \in 0 .. N-1
  BY <1>1, KernelAssumption DEF Idx
<1>3. Ring(running) = (running - running - 1) + N
  BY <1>1, <1>2, RingPosition
<1>4. Ring(k) = IF k > running THEN k - running - 1 ELSE (k - running - 1) + N
  BY <1>1, RingPosition
<1> QED BY <1>1, <1>2, <1>3, <1>4

(* At the end of a slot the running entry goes on only when it is alone.   *)
LEMMA SlotGoesOnAlone ==
  ASSUME LoopInv, pc = "select", running # -1, RR_next \in {-1, running}, SlotOver
  PROVE  Ready = {running}
<1>1. running \in Ready
  BY RunningReady
<1>2. RR_next \in Ready /\ \A k \in Ready : Ring(RR_next) <= Ring(k)
  BY <1>1, RR_nextCases
<1>3. RR_next = running
  BY <1>2, ChildOfIndex DEF Ready
<1>4. \A k \in Ready : k = running
  <2> SUFFICES ASSUME NEW k \in Ready, k # running PROVE FALSE
    OBVIOUS
  <2>1. k \in Idx
    BY DEF Ready
  <2>2. running \in Idx /\ Ring(k) < Ring(running) /\ Ring(running) <= Ring(k)
    BY <1>2, <1>3, <2>1, RunningIsLast
  <2>3. Ring(k) \in Int /\ Ring(running) \in Int
    BY <2>1, <2>2, RingPosition
  <2> QED BY <2>2, <2>3
<1> QED BY <1>1, <1>4

(* The steps that leave clock and slots alone.                             *)
LEMMA InTimeKept ==
  ASSUME LoopOK, InTime,
         UNCHANGED <<time, exec, pid, ready, burst, timeLast>>,
         pc' \in {"assign", "block"} => ready'[i'] = time,
         \/ running' = -1
         \/ running' = running /\ (pc \in {"tick", "done", "exited"} => pc' = pc),
         pc' \notin {"demote", "tick"}
  PROVE  InTime'
<1>1. OnTime'
  BY OnTimeKept DEF LoopOK, ParentInv, InTime
<1>2. SlotsKept'
  BY DEF InTime, SlotsKept
<1> QED BY <1>1, <1>2 DEF InTime

(* At first nobody is running and the clock stands at 0.                   *)
LEMMA InTimeInit == Init => InTime
<1> SUFFICES ASSUME Init PROVE InTime
  OBVIOUS
<1>1. running = -1 /\ timeLast = 0 /\ time = 0 /\ pc = "reap"
  BY DEF Init, ParentInit
<1> QED BY <1>1, OnTimeInit DEF Init, InTime, SlotsKept

(* No step lets the clock or a slot go wrong.                              *)
LEMMA InTimeStep ==
  ASSUME LoopOK, InTime, [Next]_vars
  PROVE  InTime'
<1> USE DEF LoopOK, ParentInv
<1>1. CASE Reap
  BY <1>1, InTimeKept DEF Reap, ReapRunning, table
<1>2. CASE Arrive
  <2>1. /\ pc = "block" /\ pc' = "fork" /\ UNCHANGED <<running, time, timeLast>>
    BY <1>2 DEF Arrive, Block
  <2>2. OnTime'
    BY <1>2, OnTimeBlock DEF Arrive, InTime
  <2>3. SlotsKept'
    BY <2>1 DEF InTime, SlotsKept
  <2> QED BY <2>2, <2>3 DEF InTime
<1>3. CASE Switch
  <2>1. /\ pc = "demote" /\ pc' = "tick" /\ running' = RR_next
        /\ UNCHANGED <<time, exec, pid, ready, burst>> /\ timeLast' = time
    BY <1>3 DEF Switch, Demote, table
  <2>2. RR_next # -1
    BY <2>1, RR_nextReady, ChildOfIndex DEF LoopInv, RunningIsReady, Ready
  <2>3. OnTime'
    BY <2>1, <2>2, OnTimeKept DEF InTime
  <2>4. SlotsKept'
    BY <2>1, SlotType DEF SlotsKept
  <2> QED BY <2>3, <2>4 DEF InTime
<1>4. CASE KeepRunning(RR_next) /\ UNCHANGED account
  <2>1. /\ pc = "select" /\ pc' = "tick" /\ RR_next \in {-1, running}
        /\ UNCHANGED <<time, exec, pid, ready, burst, running, timeLast>>
    BY <1>4 DEF KeepRunning, table, account
  <2>2. running = -1 => Ready = {}
    BY <2>1, RR_nextReady, ChildOfIndex DEF Ready
  <2>3. OnTime'
    BY <2>1, <2>2, OnTimeKept DEF InTime
  <2>4. running # -1 /\ SlotOver => Ready = {running}
    BY <2>1, SlotGoesOnAlone
  <2>5. Ready' = Ready /\ (SlotOver' <=> SlotOver)
    BY <2>1 DEF Ready, SlotOver
  <2>6. SlotsKept'
    BY <2>1, <2>4, <2>5 DEF InTime, SlotsKept
  <2> QED BY <2>3, <2>6 DEF InTime
<1>5. CASE Wakeup(RR_next) /\ UNCHANGED account
  <2>1. /\ pc = "select" /\ pc' = "demote" /\ RR_next \notin {-1, running}
        /\ UNCHANGED <<time, exec, pid, ready, burst, running, timeLast>>
    BY <1>5 DEF Wakeup, table, account
  <2>2. running # -1 => SlotOver
    BY <2>1 DEF RR_next
  <2>3. OnTime'
    BY <2>1, OnTimeKept DEF InTime
  <2>4. SlotsKept'
    BY <2>1, <2>2 DEF InTime, SlotsKept, SlotOver
  <2> QED BY <2>3, <2>4 DEF InTime
<1>6. ASSUME NEW j \in Idx, ForkChild(j), UNCHANGED account PROVE InTime'
  BY <1>6, InTimeKept DEF ForkChild, FirstDue, Due, table, account
<1>7. CASE AssignCpu /\ UNCHANGED account
  <2>1. pc = "assign" /\ ready[i] = time
    BY <1>7 DEF AssignCpu, InTime, OnTime
  <2> QED BY <1>7, <2>1, InTimeKept DEF AssignCpu, table, account
<1>8. CASE Tick /\ UNCHANGED account
  <2>1. /\ pc = "tick" /\ pc' = "reap" /\ UNCHANGED <<running, timeLast>>
        /\ time' = IF time < MaxTime THEN time + 1 ELSE time
    BY <1>8 DEF Tick, account
  <2>2. running # -1 => time < MaxTime
    BY <2>1, ClockRuns DEF InTime
  <2>3. OnTime'
    BY <1>8, OnTimeTick DEF InTime
  <2>4. SlotsKept'
    BY <2>1, <2>2, SlotType DEF InTime, SlotsKept
  <2> QED BY <2>3, <2>4 DEF InTime
<1>9. ASSUME NEW j \in Idx, ForkIgnored(j), UNCHANGED account PROVE InTime'
  BY <1>9, InTimeKept DEF ForkIgnored, table, account
<1>10. CASE (NothingToReap \/ AssignFails \/ EndFork) /\ UNCHANGED account
  BY <1>10, InTimeKept DEF NothingToReap, AssignFails, EndFork, table, account
<1>11. CASE (Children \/ UNCHANGED <<kernel, parent>>) /\ UNCHANGED account
  <2>1. UNCHANGED <<pc, i, running, time, exec, pid, ready, burst, timeLast>>
    BY <1>11 DEF Children, parent, account
  <2>2. OnTime'
    BY <2>1, OnTimeKept DEF InTime, OnTime
  <2>3. SlotsKept'
    BY <2>1 DEF InTime, SlotsKept, SlotOver, Ready
  <2> QED BY <2>2, <2>3 DEF InTime
<1> QED
  BY <1>1, <1>2, <1>3, <1>4, <1>5, <1>6, <1>7, <1>8, <1>9, <1>10, <1>11
     DEF Next, Scheduler, Choose, proc_exec, Terminated, vars

(* The ideal schedule of RR, step by step, is that of Parent_proofs.       *)
LEMMA SameIdeal ==
  /\ Cpu!Init => Ideal!Init
  /\ (UNCHANGED Cpu!ideal) => UNCHANGED Ideal!ideal
  /\ \A j \in Idx : Cpu!Arrive(j) => Ideal!Arrive(j)
  /\ \A j \in Idx : Cpu!Start(j) => Ideal!Start(j)
  /\ Cpu!Serve => Ideal!Serve
  /\ Cpu!Complete => Ideal!Complete
  /\ Cpu!Idle => Ideal!Idle
  /\ Cpu!Waiting = Ideal!Waiting
BY DEF Cpu!Init, Ideal!Init, Cpu!ideal, Ideal!ideal, Cpu!Arrive, Ideal!Arrive,
   Cpu!Start, Ideal!Start, Cpu!Serve, Ideal!Serve, Cpu!Complete, Ideal!Complete,
   Cpu!Idle, Ideal!Idle, Cpu!Waiting, Ideal!Waiting, Cpu!Settled, Ideal!Settled,
   Cpu!Job, Ideal!Job

(* How many units of its slot the running entry has used.                  *)
Slot == IF running = -1 \/ time = timeLast THEN 0
        ELSE ((time - timeLast - 1) % Interval) + 1

(* A slot is used up exactly when RR_next looks at the ring.               *)
LEMMA SlotIsFull ==
  ASSUME LoopOK, SlotsKept
  PROVE  Slot = Interval <=> running # -1 /\ time # timeLast /\ SlotOver
<1> DEFINE a == time - timeLast - 1
<1>1. Interval \in Nat \ {0} /\ a \in Int /\ time - timeLast = a + 1
  BY SlotType
<1>2. (a + 1) % Interval
        = IF a % Interval = Interval - 1 THEN 0 ELSE (a % Interval) + 1
  <2> HIDE DEF a
  <2> QED BY <1>1, ModSucc
<1>3. a % Interval \in 0 .. Interval - 1
  <2> HIDE DEF a
  <2> QED BY <1>1, ModRange
<1>4. SlotOver <=> (a + 1) % Interval = 0
  BY <1>1 DEF SlotOver
<1>5. Slot = IF running = -1 \/ time = timeLast THEN 0 ELSE (a % Interval) + 1
  BY DEF Slot
<1> HIDE DEF a
<1> QED BY <1>1, <1>2, <1>3, <1>4, <1>5

(* A unit of service is a unit of the slot; after a full one, of the next. *)
LEMMA SlotServes ==
  ASSUME LoopOK, SlotsKept, running # -1, UNCHANGED <<running, timeLast>>,
         time' = time + 1
  PROVE  Slot' = IF Slot = Interval THEN 1 ELSE Slot + 1
<1> DEFINE a == time - timeLast - 1
<1>1. /\ Interval \in Nat \ {0} /\ a \in Int /\ time' - timeLast' - 1 = a + 1
      /\ time \in Nat /\ timeLast \in Nat /\ timeLast <= time
  BY SlotType DEF SlotsKept
<1>2. Slot' = ((a + 1) % Interval) + 1
  <2>1. time' # timeLast' /\ running' # -1
    BY <1>1
  <2> QED BY <1>1, <2>1 DEF Slot
<1>3. CASE time = timeLast
  <2>1. Slot = 0 /\ a + 1 = 0
    BY <1>1, <1>3 DEF Slot
  <2>2. 0 % Interval = 0
    BY <1>1, ModSmall
  <2> QED BY <1>1, <1>2, <2>1, <2>2
<1>4. CASE time # timeLast
  <2>1. Slot = (a % Interval) + 1
    BY <1>4 DEF Slot
  <2>2. a % Interval \in 0 .. Interval - 1
    <3> HIDE DEF a
    <3> QED BY <1>1, ModRange
  <2>3. (a + 1) % Interval
          = IF a % Interval = Interval - 1 THEN 0 ELSE (a % Interval) + 1
    <3> HIDE DEF a
    <3> QED BY <1>1, ModSucc
  <2> HIDE DEF a
  <2> QED BY <1>1, <1>2, <2>1, <2>2, <2>3
<1> QED BY <1>3, <1>4

(* A switch is the start of the next in the ring, with a slot of its own.  *)
LEMMA SwitchStarts ==
  ASSUME LoopOK, InTime, Switch
  PROVE  \E j \in Idx : Ideal!RrStart(j)
<1> USE DEF LoopOK, ParentInv
<1> DEFINE next == RR_next
<1>1. /\ pc = "demote" /\ running' = next /\ timeLast' = time
      /\ UNCHANGED <<life, ready, exec, time, pid>>
  BY DEF Switch, Demote, table
<1>2. next \in Ready /\ next \in Idx /\ next # running
  BY <1>1, RR_nextReady DEF LoopInv, RunningIsReady, SwitchToOther, Ready
<1>3. running # -1 => \A k \in Ready : Ring(next) <= Ring(k)
  BY <1>1, <1>2, RR_nextCases DEF InTime, SlotsKept
<1> HIDE DEF next
<1>4. Ideal!Waiting = Ready
  BY <1>1, CpuSettled, SameIdeal
<1>5. Ideal!Start(next)
  BY <1>1, <1>2, CpuSwitch, SameIdeal
<1>6. running # -1 => Slot = Interval
  BY <1>1, SlotIsFull, SlotType DEF InTime, SlotsKept
<1>7. \A k \in Idx : Ideal!Ring(k) = Ring(k)
  BY DEF Ideal!Ring, Ring
<1>8. Ideal!NextInRing(next)
  <2>1. running # -1 => Ideal!Expired
    BY <1>2, <1>4, <1>6 DEF Ideal!Expired, Slot
  <2> QED BY <1>2, <1>3, <1>4, <1>7, <2>1 DEF Ideal!NextInRing, Ready
<1>9. Slot' = 0
  BY <1>1 DEF Slot
<1> QED BY <1>2, <1>5, <1>8, <1>9 DEF Ideal!RrStart, Slot

(* A unit of service is within the slot, or the running entry is alone.    *)
LEMMA TickServes ==
  ASSUME LoopOK, InTime, Tick, UNCHANGED timeLast
  PROVE  Ideal!RrServe \/ Ideal!RrIdle \/ UNCHANGED Ideal!rrIdeal
<1> USE DEF LoopOK, ParentInv
<1>1. /\ pc = "tick" /\ UNCHANGED running
      /\ time' = IF time < MaxTime THEN time + 1 ELSE time
  BY DEF Tick
<1>2. CASE running = -1
  <2>1. Slot' = Slot
    BY <1>1, <1>2 DEF Slot
  <2>2. Cpu!Idle \/ UNCHANGED Cpu!ideal
    BY <1>2, CpuTick DEF InTime
  <2> QED BY <2>1, <2>2, SameIdeal DEF Ideal!RrIdle, Ideal!rrIdeal, Slot
<1>3. CASE running # -1
  <2>1. Ideal!Serve
    BY <1>3, CpuTick, SameIdeal DEF InTime
  <2>2. time' = time + 1
    BY <1>1, <1>3, ClockRuns DEF InTime
  <2>3. Slot' = IF Slot = Interval THEN 1 ELSE Slot + 1
    BY <1>1, <1>3, <2>2, SlotServes DEF InTime
  <2>4. Slot = Interval => Ready = {running}
    BY <1>1, <1>3, SlotIsFull DEF InTime, SlotsKept
  <2>5. Ideal!Waiting = Ready
    BY <1>1, CpuSettled, SameIdeal
  <2>6. ~Ideal!Expired
    BY <2>4, <2>5 DEF Ideal!Expired, Slot
  <2> QED BY <2>1, <2>3, <2>6 DEF Ideal!RrServe, Slot
<1> QED BY <1>2, <1>3

(* The steps that keep the slot do what they do in the ideal schedule.     *)
LEMMA SlotStays ==
  ASSUME UNCHANGED <<running, time, timeLast>>
  PROVE  /\ \A j \in Idx : Cpu!Arrive(j) => Ideal!RrArrive(j)
         /\ (UNCHANGED Cpu!ideal) => UNCHANGED Ideal!rrIdeal
BY SameIdeal DEF Ideal!RrArrive, Ideal!rrIdeal

(* Every step of RR is a step of ideal round robin, or none of its.        *)
LEMMA RrSimulates ==
  ASSUME LoopOK, InTime, [Next]_vars
  PROVE  [Ideal!RrNext]_Ideal!rrIdeal
<1> USE DEF LoopOK, ParentInv
<1>0. Ideal!Job = Idx /\ Cpu!Job = Idx
  BY DEF Ideal!Job, Cpu!Job, Idx
<1>1. CASE Reap
  <2>1. Ideal!Complete
    BY <1>1, CpuReap, SameIdeal DEF Reap
  <2>2. running' = -1
    BY <1>1 DEF Reap, ReapRunning
  <2> QED BY <2>1, <2>2 DEF Ideal!RrNext, Ideal!RrComplete
<1>2. CASE Arrive
  <2>1. \E j \in Idx : Cpu!Arrive(j)
    BY <1>0, <1>2, CpuBlock DEF Arrive, InTime
  <2>2. UNCHANGED <<running, time, timeLast>>
    BY <1>2 DEF Arrive, Block
  <2> QED BY <1>0, <2>1, <2>2, SlotStays DEF Ideal!RrNext
<1>3. CASE Switch
  BY <1>0, <1>3, SwitchStarts DEF Ideal!RrNext
<1>4. ASSUME NEW j \in Idx, ForkChild(j), UNCHANGED account
      PROVE  UNCHANGED Ideal!rrIdeal
  <2>1. UNCHANGED <<running, time, timeLast>>
    BY <1>4 DEF ForkChild, account
  <2> QED BY <1>4, <2>1, CpuForkChild, SlotStays
<1>5. ASSUME NEW j \in Idx, ForkIgnored(j), UNCHANGED account
      PROVE  Ideal!RrNext
  <2>1. UNCHANGED <<running, time, timeLast>>
    BY <1>5 DEF ForkIgnored, account
  <2>2. \E k \in Idx : Cpu!Arrive(k)
    BY <1>0, <1>5, CpuForkFails DEF ForkIgnored, table
  <2> QED BY <1>0, <2>1, <2>2, SlotStays DEF Ideal!RrNext
<1>6. CASE Tick /\ UNCHANGED account
  BY <1>6, TickServes DEF Ideal!RrNext, account
<1>7. CASE Children /\ UNCHANGED account
  <2>1. UNCHANGED <<running, time, timeLast>>
    BY <1>7 DEF Children, parent, account
  <2> QED BY <1>7, <2>1, CpuChildren, SlotStays
<1>8. CASE UNCHANGED <<life, ready, exec, time, pid, running, timeLast>>
  BY <1>8, CpuStutters, SlotStays
<1> QED
  BY <1>1, <1>2, <1>3, <1>4, <1>5, <1>6, <1>7, <1>8
     DEF Next, Scheduler, Choose, proc_exec, NothingToReap, AssignCpu, AssignFails,
         EndFork, KeepRunning, Wakeup, Terminated, kernel, parent, table, account, vars

(* Whatever the children do and whatever call fails, what RR.c does is     *)
(* ideal round robin on one CPU, with slots of Interval units.             *)
THEOREM Implements == Spec => FollowsIdeal
<1>1. Init => Ideal!Init /\ Slot = 0 /\ InTime
  BY CpuInit, SameIdeal, InTimeInit DEF Init, ParentInit, Slot
<1>2. LoopOK /\ InTime /\ [Next]_vars => InTime'
  BY InTimeStep
<1>3. LoopOK /\ InTime /\ [Next]_vars => [Ideal!RrNext]_Ideal!rrIdeal
  BY RrSimulates
<1> QED BY RrInv, <1>1, <1>2, <1>3, PTL
        DEF Spec, Safety, FollowsIdeal, Ideal!RrSafety, Slot

-----------------------------------------------------------------------------
(***************************************************************************)
(* How long a ready entry waits.  After a switch the ring goes on; after a *)
(* finished process the search starts at the head of the table, but then   *)
(* there is one process less.                                              *)
(***************************************************************************)
(* The slots that n others can take before an entry has its turn: those of *)
(* all of them, of all but one, ..., of one.                               *)
Slots(n) == (n * (n+1)) \div 2

Others(j) == {k \in Idx \ {j} : ended[k] = -1}

(* The others whose turn, as the ring goes on, comes before that of j.     *)
Before(j) == {k \in Others(j) : Ring(k) < Ring(j)}

(* The units that can pass until j has its turn.                           *)
Left(j) ==
  LET u == Cardinality(Others(j)) IN
  IF running = -1 THEN Interval * Slots(u)
  ELSE (Interval - Slot) + (Interval * (Cardinality(Before(j)) + Slots(u - 1)))

InTurn ==
  \A j \in Ready :
    j # running => (time - since[j]) + Left(j) <= Interval * Slots(N-1)

(* The slots are natural numbers, more of them for more processes.         *)
LEMMA SlotsAddUp ==
  /\ \A n \in Nat : Slots(n) \in Nat /\ Slots(n+1) = Slots(n) + (n+1)
  /\ \A m, n \in Nat : m <= n => Slots(m) <= Slots(n)
<1>1. \A a, b \in Nat : /\ a \div 2 \in Nat /\ (a + (2 * b)) \div 2 = (a \div 2) + b
                        /\ a <= b => a \div 2 <= b \div 2
  OBVIOUS
<1>2. \A n \in Nat : /\ n * (n+1) \in Nat /\ n+1 \in Nat
                     /\ (n+1) * ((n+1)+1) = (n * (n+1)) + (2 * (n+1))
  OBVIOUS
<1>3. \A m, n \in Nat : m <= n => m * (m+1) <= n * (n+1)
  <2> TAKE m, n \in Nat
  <2> HAVE m <= n
  <2>1. m * (m+1) <= m * (n+1) /\ (n+1) * m <= (n+1) * n
    BY Multiples
  <2> QED BY <2>1
<1>4. ASSUME NEW n \in Nat PROVE Slots(n) \in Nat /\ Slots(n+1) = Slots(n) + (n+1)
  <2> DEFINE a == n * (n+1)
  <2>1. a \in Nat /\ (n+1) * ((n+1)+1) = a + (2 * (n+1))
    BY <1>2
  <2>2. Slots(n) = a \div 2 /\ Slots(n+1) = (a + (2 * (n+1))) \div 2
    BY <2>1 DEF Slots
  <2> HIDE DEF a
  <2> QED BY <1>1, <2>1, <2>2
<1>5. ASSUME NEW m \in Nat, NEW n \in Nat, m <= n PROVE Slots(m) <= Slots(n)
  <2> DEFINE a == m * (m+1)
             b == n * (n+1)
  <2>1. a \in Nat /\ b \in Nat /\ a <= b
    BY <1>2, <1>3, <1>5
  <2>2. Slots(m) = a \div 2 /\ Slots(n) = b \div 2
    BY DEF Slots
  <2> HIDE DEF a, b
  <2> QED BY <1>1, <2>1, <2>2
<1> QED BY <1>4, <1>5

(* A slot has no more units than Interval.                                 *)
LEMMA SlotRange == LoopOK => Slot \in 0 .. Interval
<1> SUFFICES ASSUME LoopOK PROVE Slot \in 0 .. Interval
  OBVIOUS
<1> DEFINE a == time - timeLast - 1
<1>1. Interval \in Nat \ {0} /\ a \in Int
  BY SlotType
<1>2. a % Interval \in 0 .. Interval - 1
  <2> HIDE DEF a
  <2> QED BY <1>1, ModRange
<1>3. Slot = IF running = -1 \/ time = timeLast THEN 0 ELSE (a % Interval) + 1
  BY DEF Slot
<1> HIDE DEF a
<1> QED BY <1>1, <1>2, <1>3

(* The numbers of the others.                                              *)
LEMMA OthersCount ==
  ASSUME LoopInv, NEW j \in Idx
  PROVE  /\ IsFiniteSet(Others(j)) /\ IsFiniteSet(Before(j))
         /\ Cardinality(Others(j)) \in Nat /\ Cardinality(Before(j)) \in Nat
         /\ Cardinality(Others(j)) <= N - 1 /\ N - 1 \in Nat
<1>1. IsFiniteSet(Idx) /\ Cardinality(Idx) = N
  BY FS_Interval, KernelAssumption DEF Idx
<1>2. IsFiniteSet(Idx \ {j}) /\ Cardinality(Idx \ {j}) = N - 1
  BY <1>1, FS_RemoveElement
<1>3. IsFiniteSet(Others(j)) /\ Cardinality(Others(j)) <= N - 1
  BY <1>2, FS_Subset DEF Others
<1>4. IsFiniteSet(Before(j))
  BY <1>3, FS_Subset DEF Before
<1>5. N - 1 \in Nat
  BY <1>2, FS_CardinalityType
<1> QED BY <1>3, <1>4, <1>5, FS_CardinalityType

(* While another one is running, it is not among those still before j.     *)
LEMMA BeforeIsLess ==
  ASSUME LoopInv, running # -1, NEW j \in Idx, j # running
  PROVE  /\ Cardinality(Others(j)) - 1 \in Nat
         /\ Cardinality(Before(j)) <= Cardinality(Others(j)) - 1
<1>1. running \in Others(j)
  BY DEF Others, LoopInv, ParentTypeOK, RunningIsReady
<1>2. IsFiniteSet(Others(j) \ {running})
      /\ Cardinality(Others(j) \ {running}) = Cardinality(Others(j)) - 1
  BY <1>1, OthersCount, FS_RemoveElement
<1>3. Before(j) \subseteq Others(j) \ {running}
  <2>1. running \in Idx /\ Ring(j) < Ring(running)
    BY RunningIsLast
  <2>2. Ring(j) \in Int /\ Ring(running) \in Int
    BY <2>1, RingPosition DEF LoopInv, ParentTypeOK
  <2> QED BY <2>1, <2>2 DEF Before
<1>4. Cardinality(Others(j) \ {running}) \in Nat
  BY <1>2, FS_CardinalityType
<1> QED BY <1>2, <1>3, <1>4, FS_Subset

(* Who begins to wait has at most a turn of each of the others before it,  *)
(* then of each but one, and so on.                                        *)
LeftIsBounded ==
  \A j \in Idx : j # running =>
    /\ Left(j) \in Nat /\ Interval * Slots(N-1) \in Nat
    /\ Left(j) <= Interval * Slots(Cardinality(Others(j)))
    /\ Left(j) <= Interval * Slots(N-1)

(* At no time can more units pass than if everybody else in the table      *)
(* comes first.                                                            *)
LEMMA LeftAtFirst == LoopOK => LeftIsBounded
<1> SUFFICES ASSUME LoopOK, NEW j \in Idx, j # running
             PROVE  /\ Left(j) \in Nat /\ Interval * Slots(N-1) \in Nat
                    /\ Left(j) <= Interval * Slots(Cardinality(Others(j)))
                    /\ Left(j) <= Interval * Slots(N-1)
  BY DEF LeftIsBounded
<1> USE DEF LoopOK, ParentInv
<1> DEFINE u == Cardinality(Others(j))
           b == Cardinality(Before(j))
<1>1. u \in Nat /\ b \in Nat /\ N - 1 \in Nat /\ u <= N - 1 /\ Interval \in Nat
  BY OthersCount, SlotType
<1>2. Interval * Slots(u) <= Interval * Slots(N-1)
      /\ Interval * Slots(u) \in Nat /\ Interval * Slots(N-1) \in Nat
  <2> HIDE DEF u
  <2>1. Slots(u) \in Nat /\ Slots(N-1) \in Nat /\ Slots(u) <= Slots(N-1)
    BY <1>1, SlotsAddUp
  <2> QED BY <1>1, <2>1, Multiples
<1>3. CASE running = -1
  BY <1>2, <1>3 DEF Left
<1>4. CASE running # -1
  <2>1. u - 1 \in Nat /\ b <= u - 1
    BY <1>4, BeforeIsLess
  <2>2. Left(j) = (Interval - Slot) + (Interval * (b + Slots(u - 1)))
    BY <1>4 DEF Left
  <2>3. Slot \in 0 .. Interval
    BY SlotRange
  <2> HIDE DEF u, b
  <2>4. Slots(u - 1) \in Nat /\ Slots(u) = Slots(u - 1) + u
    <3>1. (u - 1) + 1 = u
      BY <1>1
    <3> QED BY <2>1, <3>1, SlotsAddUp
  <2> DEFINE x == b + Slots(u - 1)
             y == (u - 1) + Slots(u - 1)
  <2>5. x \in Nat /\ y \in Nat /\ x <= y /\ Slots(u) = y + 1
    BY <1>1, <2>1, <2>4
  <2>6. Left(j) = (Interval - Slot) + (Interval * x)
    BY <2>2
  <2> HIDE DEF x, y
  <2>7. Interval * x <= Interval * y /\ Interval * x \in Nat /\ Interval * y \in Nat
        /\ Interval * Slots(u) = (Interval * y) + (Interval * 1)
    BY <1>1, <2>5, Multiples
  <2>8. Left(j) \in Nat /\ Left(j) <= Interval * Slots(u)
    BY <1>1, <2>3, <2>6, <2>7
  <2>9. Left(j) <= Interval * Slots(N-1)
    BY <1>2, <2>8
  <2> QED BY <1>2, <2>8, <2>9 DEF u
<1> QED BY <1>3, <1>4

(* How the ring turns when the CPU passes to another one.                  *)
LEMMA RingTurns ==
  ASSUME LoopInv, NEW next \in Idx, running' = next, NEW x \in Idx
  PROVE  /\ Ring(next) \in 0 .. N-1 /\ Ring(x) \in 0 .. N-1 /\ N \in Nat
         /\ Ring(x)' = IF Ring(next) < Ring(x) THEN Ring(x) - Ring(next) - 1
                       ELSE (Ring(x) - Ring(next) - 1) + N
<1>1. running \in Idx \cup {-1} /\ N \in Nat
  BY KernelAssumption DEF LoopInv, ParentTypeOK
<1>2. next \in 0 .. N-1 /\ x \in 0 .. N-1 /\ running \in -1 .. N-1
  BY <1>1 DEF Idx
<1>3. /\ Ring(next) = IF next > running THEN next - running - 1
                      ELSE (next - running - 1) + N
      /\ Ring(x) = IF x > running THEN x - running - 1 ELSE (x - running - 1) + N
      /\ Ring(next) \in 0 .. N-1 /\ Ring(x) \in 0 .. N-1
  BY <1>1, RingPosition
<1>4. Ring(x)' = IF x > next THEN x - next - 1 ELSE (x - next - 1) + N
  BY BehindPosition DEF Ring
<1> QED BY <1>1, <1>2, <1>3, <1>4

(* A process less, and the search at the head of the table.                *)
LEMMA InTurnReap ==
  ASSUME LoopOK, InTurn, Reap
  PROVE  InTurn'
<1> USE DEF LoopOK, ParentInv
<1>1. /\ running # -1 /\ exec[running] = 0 /\ running' = -1
      /\ ended' = [ended EXCEPT ![running] = time]
      /\ UNCHANGED <<time, exec, pid, since>>
  BY DEF Reap, ReapRunning, UsedUp
<1> SUFFICES ASSUME NEW j \in Ready
             PROVE  (time - since[j]) + Left(j)' <= Interval * Slots(N-1)
  BY <1>1 DEF InTurn, Ready
<1>2. j \in Idx /\ j # running
  BY <1>1 DEF Ready
<1> DEFINE u == Cardinality(Others(j))
           b == Cardinality(Before(j))
<1>3. Cardinality(Others(j)') = u - 1
  <2>1. running \in Others(j)
    BY <1>1, <1>2 DEF Others, LoopInv, ParentTypeOK, RunningIsReady
  <2>2. time # -1
    BY SlotType
  <2>3. Others(j)' = Others(j) \ {running}
    BY <1>1, <1>2, <2>1, <2>2 DEF Others, LoopInv, ParentTypeOK
  <2> QED BY <1>2, <2>1, <2>3, OthersCount, FS_RemoveElement
<1>4. /\ Left(j) = (Interval - Slot) + (Interval * (b + Slots(u - 1)))
      /\ Left(j)' = Interval * Slots(u - 1)
  BY <1>1, <1>3 DEF Left
<1>5. (time - since[j]) + Left(j) <= Interval * Slots(N-1)
  BY <1>2 DEF InTurn
<1>6. /\ u - 1 \in Nat /\ b \in Nat /\ Slot \in 0 .. Interval /\ Interval \in Nat
      /\ time - since[j] \in Int /\ Left(j) \in Nat /\ Interval * Slots(N-1) \in Nat
  <2>1. since[j] \in Nat /\ time \in Nat
    BY <1>2, ParentAssumption, SlotType DEF RrTypeOK
  <2> QED
    BY <1>1, <1>2, <2>1, OthersCount, BeforeIsLess, SlotRange, SlotType, LeftAtFirst
    DEF LeftIsBounded
<1> HIDE DEF u, b
<1>7. Slots(u - 1) \in Nat
  BY <1>6, SlotsAddUp
<1>8. /\ Interval * (b + Slots(u - 1)) \in Nat /\ Interval * Slots(u - 1) \in Nat
      /\ Interval * Slots(u - 1) <= Interval * (b + Slots(u - 1))
  <2>1. b + Slots(u - 1) \in Nat /\ Slots(u - 1) <= b + Slots(u - 1)
    BY <1>6, <1>7
  <2> QED BY <1>6, <1>7, <2>1, Multiples
<1> QED BY <1>4, <1>5, <1>6, <1>8

(* A turn is taken: by one whose turn comes before that of j, or, if j has *)
(* run up to now, by one of all others.                                    *)
LEMMA InTurnSwitch ==
  ASSUME LoopOK, LoopOK', InTime, InTurn, Switch, NEW next \in Idx, next = RR_next
  PROVE  InTurn'
<1> USE DEF LoopOK, ParentInv
<1>1. /\ pc = "demote" /\ running' = next /\ timeLast' = time
      /\ UNCHANGED <<ready, exec, time, pid, ended>>
      /\ since' = IF running = -1 THEN since ELSE [since EXCEPT ![running] = time]
  BY DEF Switch, Demote, table
<1>2. next \in Ready /\ next # running
  BY <1>1, RR_nextReady DEF LoopInv, RunningIsReady, SwitchToOther, Ready
<1>3. running # -1 => /\ \A k \in Ready : Ring(next) <= Ring(k)
                      /\ Slot = Interval
  <2>1. running # -1 => time # timeLast /\ SlotOver
    BY <1>1, SlotType DEF InTime, SlotsKept
  <2> QED BY <1>1, <1>2, <2>1, RR_nextCases, SlotIsFull DEF InTime
<1>4. \A j \in Idx : j # running' =>
        /\ Left(j)' \in Nat /\ Interval * Slots(N-1) \in Nat
        /\ Left(j)' <= Interval * Slots(Cardinality(Others(j)'))
        /\ Left(j)' <= Interval * Slots(N-1)
  <2>1. LeftIsBounded'
    BY LeftAtFirst, PTL
  <2> QED BY <2>1 DEF LeftIsBounded
<1> SUFFICES ASSUME NEW j \in Ready, j # next
             PROVE  (time - since'[j]) + Left(j)' <= Interval * Slots(N-1)
  BY <1>1 DEF InTurn, Ready
<1>5. j \in Idx /\ Others(j)' = Others(j)
  BY <1>1 DEF Ready, Others
<1>6. time \in Nat /\ since[j] \in Nat
  BY <1>5, ParentAssumption, SlotType DEF RrTypeOK
<1>7. CASE j = running
  <2>1. since'[j] = time
    BY <1>1, <1>5, <1>7, ChildOfIndex DEF RrTypeOK
  <2> QED BY <1>1, <1>4, <1>5, <1>6, <2>1
<1>8. CASE running = -1
  <2>1. (time - since[j]) + (Interval * Slots(Cardinality(Others(j)))) <= Interval * Slots(N-1)
    BY <1>5, <1>8, ChildOfIndex DEF InTurn, Left
  <2>2. Interval * Slots(Cardinality(Others(j))) \in Nat
    BY <1>5, OthersCount, SlotsAddUp, SlotType, Multiples
  <2>3. since' = since /\ Left(j)' <= Interval * Slots(Cardinality(Others(j)))
    BY <1>1, <1>4, <1>5, <1>8
  <2> QED BY <1>1, <1>4, <1>5, <1>6, <2>1, <2>2, <2>3
<1>9. CASE running # -1 /\ j # running
  <2> DEFINE u == Cardinality(Others(j))
             b == Cardinality(Before(j))
             c == Cardinality(Before(j)')
  <2>1. next \in Before(j) /\ next \notin Before(j)' /\ Before(j)' \subseteq Before(j)
    <3>1. Ring(next) < Ring(j)
      <4>1. Ring(next) <= Ring(j)
        BY <1>3, <1>9
      <4>2. Ring(next) # Ring(j)
        BY <1>2, <1>5, RingInjective DEF LoopInv, ParentTypeOK
      <4>3. Ring(next) \in Int /\ Ring(j) \in Int
        BY <1>2, <1>5, RingPosition DEF LoopInv, ParentTypeOK
      <4> QED BY <4>1, <4>2, <4>3
    <3>2. \A k \in Idx : k # next /\ Ring(k)' < Ring(j)' => Ring(k) < Ring(j)
      BY <1>1, <1>2, <1>5, <3>1, RingTurns
    <3>3. ~(Ring(next)' < Ring(j)')
      <4>1. Ring(next)' = N - 1 /\ N \in Nat
        BY <1>1, <1>2, RingTurns
      <4>2. Ring(j)' \in Int /\ Ring(j)' < N
        BY <1>1, <1>2, <1>5, <3>1, RingTurns
      <4> QED BY <4>1, <4>2
    <3>4. next \in Others(j)
      <4>1. exec[next] # 0
        BY <1>2, ChildOfIndex DEF Ready
      <4> QED BY <1>2, <4>1 DEF Others, LoopInv, EndedIsReaped
    <3>5. Before(j)' = {k \in Others(j) : Ring(k)' < Ring(j)'} /\ Others(j) \subseteq Idx
      BY <1>5 DEF Before, Others
    <3> QED BY <3>1, <3>2, <3>3, <3>4, <3>5 DEF Before
  <2>2. c \in Nat /\ b \in Nat /\ c + 1 <= b
    <3>1. IsFiniteSet(Before(j)) /\ b \in Nat
      BY <1>5, OthersCount
    <3>2. IsFiniteSet(Before(j) \ {next}) /\ Cardinality(Before(j) \ {next}) = b - 1
      BY <2>1, <3>1, FS_RemoveElement
    <3>3. Before(j)' \subseteq Before(j) \ {next}
      BY <2>1
    <3>4. IsFiniteSet(Before(j)') /\ c <= b - 1
      BY <3>2, <3>3, FS_Subset
    <3> QED BY <3>1, <3>4, FS_CardinalityType
  <2>3. /\ Left(j) = (Interval - Slot) + (Interval * (b + Slots(u - 1)))
        /\ Left(j)' = (Interval - 0) + (Interval * (c + Slots(u - 1)))
    <3>1. running' # -1 /\ Slot' = 0
      BY <1>1, <1>2, ChildOfIndex DEF Slot
    <3> QED BY <1>5, <1>9, <3>1 DEF Left
  <2>4. /\ (time - since[j]) + Left(j) <= Interval * Slots(N-1)
        /\ since'[j] = since[j] /\ Slot = Interval
    BY <1>1, <1>3, <1>5, <1>9 DEF InTurn, RrTypeOK
  <2>5. u - 1 \in Nat
    BY <1>5, <1>9, BeforeIsLess
  <2>6. Interval \in Nat /\ Interval * Slots(N-1) \in Nat
    BY <1>1, <1>4, <1>5, SlotType
  <2> HIDE DEF u, b, c
  <2>7. Slots(u - 1) \in Nat
    BY <2>5, SlotsAddUp
  <2> DEFINE x == c + Slots(u - 1)
             y == b + Slots(u - 1)
  <2>8. x \in Nat /\ y \in Nat /\ x + 1 <= y
    BY <2>2, <2>7
  <2>9. /\ Left(j) = (Interval - Slot) + (Interval * y)
        /\ Left(j)' = (Interval - 0) + (Interval * x)
    BY <2>3
  <2> HIDE DEF x, y
  <2>10. /\ Interval * (x + 1) = (Interval * x) + (Interval * 1)
         /\ Interval * (x + 1) <= Interval * y
         /\ Interval * x \in Nat /\ Interval * y \in Nat
    BY <2>6, <2>8, Multiples
  <2> QED BY <1>6, <2>4, <2>6, <2>9, <2>10
<1> QED BY <1>7, <1>8, <1>9

(* A unit passes, and one of the slot that the running entry has left: no  *)
(* slot goes on beyond its end while somebody waits.                       *)
LEMMA SlotHasUnits ==
  ASSUME LoopOK, InTime, Tick, UNCHANGED timeLast, running # -1,
         NEW j \in Ready, j # running
  PROVE  time' = time + 1 /\ Slot' = Slot + 1
<1>1. pc = "tick" /\ UNCHANGED running
      /\ time' = IF time < MaxTime THEN time + 1 ELSE time
  BY DEF Tick
<1>2. time' = time + 1
  BY <1>1, ClockRuns DEF LoopOK, ParentInv, InTime
<1>3. Slot # Interval
  BY <1>1, SlotIsFull DEF InTime, SlotsKept
<1> QED BY <1>1, <1>2, <1>3, SlotServes DEF InTime

(* A unit of the running entry is one of those that could pass; an idle    *)
(* unit leaves nobody waiting.                                             *)
LEMMA InTurnTick ==
  ASSUME LoopOK, InTime, InTurn, Tick, UNCHANGED account
  PROVE  InTurn'
<1> USE DEF LoopOK, ParentInv
<1>1. /\ pc = "tick" /\ UNCHANGED <<running, pid, ended, timeLast, since>>
      /\ exec' = IF running = -1 THEN exec ELSE [exec EXCEPT ![running] = @ - 1]
  BY DEF Tick, account
<1>2. Ready' \subseteq Ready
  <2>1. \A j \in Idx : exec'[j] > 0 => exec[j] > 0
    BY <1>1 DEF LoopInv, ParentTypeOK
  <2> QED BY <1>1, <2>1 DEF Ready
<1> SUFFICES ASSUME NEW j \in Ready, j # running
             PROVE  (time' - since[j]) + Left(j)' <= Interval * Slots(N-1)
  BY <1>1, <1>2 DEF InTurn
<1>3. running # -1
  BY <1>1 DEF InTime, OnTime
<1>4. time' = time + 1 /\ Slot' = Slot + 1
  BY <1>1, <1>3, SlotHasUnits
<1>5. Others(j)' = Others(j) /\ Before(j)' = Before(j)
  BY <1>1 DEF Others, Before, Ring
<1> DEFINE x == Interval * (Cardinality(Before(j)) + Slots(Cardinality(Others(j)) - 1))
<1>6. Left(j) = (Interval - Slot) + x /\ Left(j)' = (Interval - (Slot + 1)) + x
  BY <1>1, <1>3, <1>4, <1>5 DEF Left
<1>7. j \in Idx /\ (time - since[j]) + Left(j) <= Interval * Slots(N-1)
  BY DEF InTurn, Ready
<1>8. /\ Left(j) \in Nat /\ Interval * Slots(N-1) \in Nat
      /\ time \in Nat /\ since[j] \in Nat /\ Slot \in Int /\ Interval \in Int
  <2>1. since[j] \in Nat
    BY <1>7, ParentAssumption DEF RrTypeOK
  <2> QED BY <1>7, <2>1, LeftAtFirst, SlotRange, SlotType DEF LeftIsBounded
<1> HIDE DEF x
<1>9. x \in Int
  <2>1. x = Interval * (Cardinality(Before(j)) + Slots(Cardinality(Others(j)) - 1))
    BY DEF x
  <2>2. Cardinality(Before(j)) \in Nat /\ Slots(Cardinality(Others(j)) - 1) \in Nat
    BY <1>3, <1>7, OthersCount, BeforeIsLess, SlotsAddUp
  <2> QED BY <1>8, <2>1, <2>2
<1> QED BY <1>4, <1>6, <1>7, <1>8, <1>9

(* A new entry begins to wait.                                             *)
LEMMA InTurnArrive ==
  ASSUME LoopOK, LoopOK', InTurn, Arrive
  PROVE  InTurn'
<1> USE DEF LoopOK, ParentInv
<1>1. /\ pc = "block" /\ since' = [since EXCEPT ![i] = time]
      /\ pid' = [pid EXCEPT ![i] = Child(i)]
      /\ UNCHANGED <<time, running, exec, ended, timeLast>>
  BY DEF Arrive, Block, account
<1>2. /\ i \in Idx
      /\ \A j \in Idx : j # i => since'[j] = since[j] /\ pid'[j] = pid[j]
      /\ since'[i] = time
  BY <1>1 DEF LoopInv, Entered, ParentTypeOK, RrTypeOK
<1> SUFFICES ASSUME NEW j \in Idx, j \in Ready', j # running
             PROVE  (time - since'[j]) + Left(j)' <= Interval * Slots(N-1)
  <2>1. \A j \in Ready' : j \in Idx
    BY DEF Ready
  <2> QED BY <1>1, <2>1 DEF InTurn
<1>3. /\ Left(j)' \in Nat /\ Interval * Slots(N-1) \in Nat
      /\ Left(j)' <= Interval * Slots(N-1)
  <2>1. LeftIsBounded'
    BY LeftAtFirst, PTL
  <2> QED BY <1>1, <2>1 DEF LeftIsBounded
<1>4. CASE j = i
  <2>1. time - since'[j] = 0
    BY <1>2, <1>4, SlotType
  <2> QED BY <1>3, <2>1
<1>5. CASE j # i
  <2>1. j \in Ready
    BY <1>1, <1>2, <1>5 DEF Ready
  <2>2. (time - since[j]) + Left(j) <= Interval * Slots(N-1)
    BY <2>1 DEF InTurn
  <2>3. Others(j)' = Others(j) /\ Before(j)' = Before(j) /\ Slot' = Slot
    BY <1>1 DEF Others, Before, Ring, Slot
  <2>4. Left(j)' = Left(j)
    BY <1>1, <2>3 DEF Left
  <2> QED BY <1>2, <1>5, <2>2, <2>4
<1> QED BY <1>4, <1>5

(* Every step of RR keeps the bound.                                       *)
LEMMA InTurnStep ==
  ASSUME LoopOK, LoopOK', InTime, InTurn, [Next]_vars
  PROVE  InTurn'
<1>1. CASE Reap
  BY <1>1, InTurnReap
<1>2. CASE Switch
  <2>1. RR_next \in Idx
    BY <1>2, RR_nextReady DEF Switch, Demote, LoopOK, ParentInv, LoopInv,
       RunningIsReady, Ready
  <2> QED BY <1>2, <2>1, InTurnSwitch
<1>3. CASE Arrive
  BY <1>3, InTurnArrive
<1>4. CASE Tick /\ UNCHANGED account
  BY <1>4, InTurnTick
<1>5. CASE UNCHANGED <<time, running, exec, pid, ended, timeLast, since>>
  <2>1. \A j \in Idx : /\ Others(j)' = Others(j) /\ Before(j)' = Before(j)
                       /\ Slot' = Slot
    BY <1>5 DEF Others, Before, Ring, Slot
  <2>2. \A j \in Idx : Left(j)' = Left(j)
    BY <1>5, <2>1 DEF Left
  <2>3. Ready' = Ready /\ Ready \subseteq Idx
    BY <1>5 DEF Ready
  <2> QED BY <1>5, <2>2, <2>3 DEF InTurn
<1> QED
  BY <1>1, <1>2, <1>3, <1>4, <1>5 DEF Next, Scheduler, Choose, proc_exec,
     ForkChild, ForkIgnored, NothingToReap, AssignCpu, AssignFails, EndFork,
     KeepRunning, Wakeup, Children, Terminated, parent, account, vars

(* No ready process waits longer than for m + (m-1) + ... + 1 slots, where *)
(* m is the number of the others in the table, whatever fails.             *)
THEOREM WaitIsBounded == Spec => []BoundedWait
<1>1. Init => InTime
  BY InTimeInit
<1>2. Init => InTurn
  BY DEF Init, ParentInit, InTurn, Ready
<1>3. LoopOK /\ InTime /\ [Next]_vars => InTime'
  BY InTimeStep
<1>4. LoopOK /\ LoopOK' /\ InTime /\ InTurn /\ [Next]_vars => InTurn'
  BY InTurnStep
<1>5. LoopOK /\ InTurn => BoundedWait
  <2> SUFFICES ASSUME LoopOK, InTurn, NEW j \in Ready, j # running
               PROVE  time - since[j] <= Interval * Slots(N-1)
    <3>1. Slots(N-1) = ((N-1) * ((N-1)+1)) \div 2
      BY DEF Slots
    <3> QED BY <3>1 DEF BoundedWait
  <2>1. /\ j \in Idx /\ (time - since[j]) + Left(j) <= Interval * Slots(N-1)
        /\ Left(j) \in Nat /\ Interval * Slots(N-1) \in Nat
    BY LeftAtFirst DEF LeftIsBounded, InTurn, Ready
  <2>2. time \in Nat /\ since[j] \in Nat
    BY <2>1, ParentAssumption, SlotType DEF LoopOK, RrTypeOK
  <2> QED BY <2>1, <2>2
<1> QED BY RrInv, <1>1, <1>2, <1>3, <1>4, <1>5, PTL DEF Spec, Safety

-----------------------------------------------------------------------------
(***************************************************************************)
(* Fair shares.  As long as the ring goes on, two entries that began       *)
(* together take turns; each process that ends can break the order once.   *)
(***************************************************************************)
Served(j) == burst[j] - exec[j]

(* By how much j can be ahead of k at this point of the ring.              *)
Extra(j, k) ==
  IF running = j THEN Slot
  ELSE IF running = k THEN Interval - Slot
  ELSE IF running = -1 \/ Ring(j) < Ring(k) THEN 0
  ELSE Interval

ChargedLater == \A j \in Idx : exec[j] # burst[j] => ready[j] < time

TakeTurns ==
  \A j, k \in Ready : j # k /\ ready[j] = ready[k]
    => Served(j) - Served(k) <= (Interval * finished) + Extra(j, k)

(* No extra is longer than a slot.                                         *)
ExtraIsASlot == \A j, k \in Idx : Extra(j, k) \in 0 .. Interval

(* Each of its cases is the slot so far, the rest of it, none or all of    *)
(* it.                                                                     *)
LEMMA ExtraRange == LoopOK => ExtraIsASlot
<1> SUFFICES ASSUME LoopOK, NEW j \in Idx, NEW k \in Idx
             PROVE  Extra(j, k) \in 0 .. Interval
  BY DEF ExtraIsASlot
<1>1. Slot \in 0 .. Interval /\ Interval \in Nat
  BY SlotRange, SlotType
<1>2. Extra(j, k) \in {Slot, Interval - Slot, 0, Interval}
  BY DEF Extra
<1> QED BY <1>1, <1>2

(* Types for the arithmetic of the shares.                                 *)
LEMMA SharesType ==
  ASSUME LoopOK
  PROVE  /\ Interval \in Nat /\ finished \in Nat /\ time \in Nat
         /\ Interval * finished \in Nat
         /\ Interval * (finished + 1) = (Interval * finished) + Interval
         /\ Ready \subseteq Idx
         /\ \A j \in Idx : Served(j) \in Int /\ exec[j] \in Int /\ burst[j] \in Int
<1>1. Interval \in Nat /\ finished \in Nat /\ time \in Nat
  BY SlotType DEF LoopOK, ParentInv, LoopInv, ParentTypeOK
<1>2. \A j \in Idx : exec[j] \in Int /\ burst[j] \in Int
  <2>1. \A j \in Idx : exec[j] \in Nat /\ burst[j] \in Bursts
    BY DEF LoopOK, ParentInv, LoopInv, ParentTypeOK
  <2>2. Bursts \subseteq Nat
    BY ParentAssumption
  <2>3. \A j \in Idx : exec[j] \in Nat /\ burst[j] \in Nat
    BY <2>1, <2>2
  <2> QED BY <2>3
<1>3. Interval * finished \in Nat
      /\ Interval * (finished + 1) = (Interval * finished) + (Interval * 1)
  BY <1>1, Multiples
<1> QED BY <1>1, <1>2, <1>3 DEF Served, Ready

(* A process ends, and breaks the order of the others.                     *)
LEMMA TurnsReap ==
  ASSUME LoopOK, TakeTurns, Reap
  PROVE  TakeTurns'
<1>1. /\ running # -1 /\ exec[running] = 0 /\ running' = -1
      /\ finished' = finished + 1
      /\ UNCHANGED <<exec, pid, ready, burst>>
  BY DEF Reap, ReapRunning, UsedUp, table
<1> SUFFICES ASSUME NEW j \in Ready, NEW k \in Ready, j # k, ready[j] = ready[k]
             PROVE  Served(j) - Served(k) <= (Interval * (finished + 1)) + 0
  <2>1. \A j, k \in Ready : Extra(j, k)' = 0
    <3>1. -1 \notin Ready
      BY ChildOfIndex DEF Ready
    <3> QED BY <1>1, <3>1 DEF Extra
  <2>2. Ready' = Ready /\ \A j \in Ready : Served(j)' = Served(j)
    BY <1>1 DEF Ready, Served
  <2> QED BY <1>1, <2>1, <2>2 DEF TakeTurns
<1>2. /\ Served(j) - Served(k) <= (Interval * finished) + Extra(j, k)
      /\ Extra(j, k) \in 0 .. Interval
  BY ExtraRange, SharesType DEF TakeTurns, ExtraIsASlot
<1> QED BY <1>2, SharesType

(* The next in the ring gets its slot, and the order is as before.         *)
LEMMA TurnsSwitch ==
  ASSUME LoopOK, InTime, TakeTurns, Switch, NEW next \in Idx, next = RR_next
  PROVE  TakeTurns'
<1> USE DEF LoopOK, ParentInv
<1>1. /\ pc = "demote" /\ running' = next /\ timeLast' = time
      /\ UNCHANGED <<finished, exec, pid, ready, burst, time>>
  BY DEF Switch, Demote, table
<1>2. /\ next # running /\ Slot' = 0
      /\ running # -1 => Slot = Interval /\ \A x \in Ready : Ring(next) <= Ring(x)
  <2>1. next # running /\ next \in Ready
    BY <1>1, RR_nextReady DEF SwitchToOther, LoopInv, RunningIsReady
  <2>2. running # -1 => time # timeLast /\ SlotOver
    BY <1>1, SlotType DEF InTime, SlotsKept
  <2>3. running # -1 => Slot = Interval /\ \A x \in Ready : Ring(next) <= Ring(x)
    BY <1>1, <2>1, <2>2, RR_nextCases, SlotIsFull DEF InTime
  <2>4. Slot' = 0
    BY <1>1 DEF Slot
  <2> QED BY <2>1, <2>3, <2>4
<1> SUFFICES ASSUME NEW j \in Ready, NEW k \in Ready, j # k, ready[j] = ready[k]
             PROVE  Extra(j, k) <= Extra(j, k)'
  <2> SUFFICES ASSUME NEW j \in Ready', NEW k \in Ready', j # k, ready[j] = ready[k]
               PROVE  Served(j)' - Served(k)' <= (Interval * finished) + Extra(j, k)'
    BY <1>1 DEF TakeTurns
  <2>1. /\ j \in Ready /\ k \in Ready
        /\ Served(j)' = Served(j) /\ Served(k)' = Served(k)
    BY <1>1 DEF Ready, Served
  <2>2. /\ Served(j) - Served(k) <= (Interval * finished) + Extra(j, k)
        /\ Extra(j, k) <= Extra(j, k)'
    BY <2>1 DEF TakeTurns
  <2>3. Extra(j, k) \in Int /\ Extra(j, k)' \in Int
    <3>1. Extra(j, k) \in 0 .. Interval
      BY <2>1, SharesType, ExtraRange DEF ExtraIsASlot
    <3>2. Extra(j, k)' \in {0, Interval}
      BY <1>1, <1>2, SharesType DEF Extra
    <3> QED BY <3>1, <3>2, SharesType
  <2> QED BY <2>1, <2>2, <2>3, SharesType
<1>3. j \in Idx /\ k \in Idx /\ Interval \in Nat /\ -1 \notin Idx
  BY SharesType, ChildOfIndex
<1>4. Extra(j, k)' = IF next = j THEN 0 ELSE IF next = k THEN Interval
                     ELSE IF Ring(j)' < Ring(k)' THEN 0 ELSE Interval
  BY <1>1, <1>2, <1>3 DEF Extra
<1>5. CASE running = -1
  <2>1. Extra(j, k) = 0
    BY <1>3, <1>5 DEF Extra
  <2> QED BY <1>3, <1>4, <2>1
<1>6. CASE running # -1
  <2>1. /\ Ring(next) <= Ring(j) /\ Ring(next) <= Ring(k) /\ Slot = Interval
    BY <1>2, <1>6
  <2>2. /\ Ring(next) \in Int /\ Ring(j) \in Int /\ Ring(k) \in Int
        /\ Ring(j) = Ring(next) => j = next
        /\ Ring(k) = Ring(next) => k = next
        /\ Ring(j) # Ring(k)
    BY <1>3, RingPosition, RingInjective DEF LoopInv, ParentTypeOK
  <2>3. CASE k = running
    <3>1. Extra(j, k) = 0
      BY <1>3, <2>1, <2>3 DEF Extra
    <3> QED BY <1>3, <1>4, <3>1
  <2>4. CASE next = j /\ k # running
    <3>1. Ring(j) < Ring(k) /\ running # j
      BY <1>2, <2>1, <2>2, <2>4
    <3>2. Extra(j, k) = 0
      BY <1>6, <2>4, <3>1 DEF Extra
    <3> QED BY <1>4, <2>4, <3>2
  <2>5. CASE next # j /\ k # running
    <3>1. Extra(j, k) \in {0, Interval}
      BY <2>1, <2>5 DEF Extra
    <3>2. ASSUME Extra(j, k)' = 0, Interval # 0 PROVE Extra(j, k) = 0
      <4>1. next # k /\ Ring(j)' < Ring(k)'
        BY <1>4, <2>5, <3>2
      <4>2. Ring(next) < Ring(j) /\ Ring(next) < Ring(k)
        BY <2>1, <2>2, <2>5, <4>1
      <4>3. Ring(j) < Ring(k)
        BY <1>1, <1>3, <4>1, <4>2, RingTurns
      <4>4. j # running
        <5>1. j = running => Ring(k) < Ring(j)
          BY RunningIsLast, <1>3, <1>6
        <5> QED BY <2>2, <4>3, <5>1
      <4> QED BY <2>5, <4>3, <4>4 DEF Extra
    <3>3. Extra(j, k)' \in {0, Interval}
      BY <1>4
    <3> QED BY <1>3, <3>1, <3>2, <3>3
  <2> QED BY <2>3, <2>4, <2>5
<1> QED BY <1>5, <1>6

(* A unit of service is one of the slot.                                   *)
LEMMA TurnsTick ==
  ASSUME LoopOK, InTime, TakeTurns, Tick, UNCHANGED account
  PROVE  TakeTurns'
<1> USE DEF LoopOK, ParentInv
<1>1. /\ pc = "tick" /\ UNCHANGED <<running, finished, pid, ready, burst, timeLast>>
      /\ exec' = IF running = -1 THEN exec ELSE [exec EXCEPT ![running] = @ - 1]
  BY DEF Tick, account, table
<1>2. Ready' \subseteq Ready
  <2>1. \A j \in Idx : exec'[j] > 0 => exec[j] > 0
    BY <1>1 DEF LoopInv, ParentTypeOK
  <2> QED BY <1>1, <2>1 DEF Ready
<1> SUFFICES ASSUME NEW j \in Ready, NEW k \in Ready, j # k, ready[j] = ready[k]
             PROVE  Served(j)' - Served(k)' <= (Interval * finished) + Extra(j, k)'
  BY <1>1, <1>2 DEF TakeTurns
<1>3. j \in Idx /\ k \in Idx /\ -1 \notin Idx
  BY SharesType, ChildOfIndex
<1>4. running # -1
  BY <1>1 DEF InTime, OnTime
<1>5. Served(j) - Served(k) <= (Interval * finished) + Extra(j, k)
  BY DEF TakeTurns
<1>6. /\ Served(j)' = IF running = j THEN Served(j) + 1 ELSE Served(j)
      /\ Served(k)' = IF running = k THEN Served(k) + 1 ELSE Served(k)
  <2>1. \A x \in Idx : exec'[x] = IF running = x THEN exec[x] - 1 ELSE exec[x]
    BY <1>1, <1>4 DEF LoopInv, ParentTypeOK
  <2> QED BY <1>1, <1>3, <2>1, SharesType DEF Served
<1>7. running \in {j, k} => Slot' = Slot + 1
  BY <1>1, <1>4, SlotHasUnits
<1>8. Ring(j)' = Ring(j) /\ Ring(k)' = Ring(k)
  BY <1>1 DEF Ring
<1>9. /\ Served(j) \in Int /\ Served(k) \in Int /\ Interval \in Nat
      /\ Interval * finished \in Nat /\ Extra(j, k) \in Int /\ Slot \in Int
  BY <1>3, SharesType, ExtraRange, SlotRange DEF ExtraIsASlot
<1>10. Extra(j, k)' = IF running = j THEN Extra(j, k) + 1
                      ELSE IF running = k THEN Extra(j, k) - 1 ELSE Extra(j, k)
  BY <1>1, <1>7, <1>8, <1>9 DEF Extra
<1> QED BY <1>5, <1>6, <1>9, <1>10

(* A new entry, and those that became ready with it, have had nothing.     *)
LEMMA TurnsArrive ==
  ASSUME LoopOK, LoopOK', InTime, ChargedLater, TakeTurns, Arrive
  PROVE  TakeTurns'
<1> USE DEF LoopOK, ParentInv
<1>1. /\ pc = "block" /\ pid' = [pid EXCEPT ![i] = Child(i)]
      /\ UNCHANGED <<time, running, finished, exec, ready, burst, timeLast>>
  BY DEF Arrive, Block, table
<1>2. i \in Idx /\ ready[i] = time
  BY <1>1 DEF LoopInv, Entered, InTime, OnTime
<1>3. \A x \in Idx : x \in Ready' => x \in Ready \/ x = i
  BY <1>1, <1>2 DEF Ready, LoopInv, ParentTypeOK
<1> SUFFICES ASSUME NEW j \in Idx, NEW k \in Idx, j \in Ready', k \in Ready', j # k,
                    ready[j] = ready[k]
             PROVE  Served(j) - Served(k) <= (Interval * finished) + Extra(j, k)
  <2>1. \A x \in Ready' : x \in Idx
    BY DEF Ready
  <2>2. \A x, y \in Idx : Extra(x, y)' = Extra(x, y) /\ Served(x)' = Served(x)
    BY <1>1 DEF Extra, Served, Ring, Slot
  <2> QED BY <1>1, <2>1, <2>2 DEF TakeTurns
<1>4. CASE j \in Ready /\ k \in Ready
  BY <1>4 DEF TakeTurns
<1>5. CASE j = i \/ k = i
  <2>1. ready[j] = time /\ ready[k] = time
    BY <1>2, <1>5
  <2>2. exec[j] = burst[j] /\ exec[k] = burst[k]
    BY <2>1, SharesType DEF ChargedLater
  <2>3. Served(j) = 0 /\ Served(k) = 0
    BY <2>2, SharesType DEF Served
  <2>4. Extra(j, k) \in Nat /\ Interval * finished \in Nat
    BY ExtraRange, SharesType DEF ExtraIsASlot
  <2> QED BY <2>3, <2>4
<1> QED BY <1>3, <1>4, <1>5

(* Only who is ready is charged, and the unit then passes.                 *)
LEMMA ChargedLaterStep ==
  ASSUME LoopOK, InTime, ChargedLater, [Next]_vars
  PROVE  ChargedLater'
<1> USE DEF LoopOK, ParentInv
<1>1. CASE Tick /\ UNCHANGED account
  <2>1. /\ pc = "tick" /\ UNCHANGED <<ready, burst>>
        /\ time' = IF time < MaxTime THEN time + 1 ELSE time
        /\ exec' = IF running = -1 THEN exec ELSE [exec EXCEPT ![running] = @ - 1]
    BY <1>1 DEF Tick, table
  <2> SUFFICES ASSUME NEW j \in Idx, exec'[j] # burst[j] PROVE ready[j] < time'
    BY <2>1 DEF ChargedLater
  <2>2. time \in Nat /\ MaxTime \in Nat /\ ready[j] \in Nat /\ time <= time'
    BY <2>1, ParentAssumption, SlotType DEF LoopInv, ParentTypeOK
  <2>3. CASE exec[j] # burst[j]
    BY <2>1, <2>2, <2>3 DEF ChargedLater
  <2>4. CASE exec[j] = burst[j]
    <3>1. running = j /\ running # -1
      BY <2>1, <2>4, ChildOfIndex DEF LoopInv, ParentTypeOK
    <3>2. ready[j] <= time /\ time < MaxTime
      BY <2>1, <3>1, RunningWasReady, ClockRuns DEF InTime
    <3> QED BY <2>1, <2>2, <3>2
  <2> QED BY <2>3, <2>4
<1>2. CASE UNCHANGED <<time, exec, ready, burst>>
  BY <1>2 DEF ChargedLater
<1> QED
  BY <1>1, <1>2 DEF Next, Scheduler, Reap, ReapRunning, Arrive, Block, Choose,
     Switch, Demote, proc_exec, ForkChild, ForkIgnored, NothingToReap, AssignCpu,
     AssignFails, EndFork, KeepRunning, Wakeup, Children, Terminated, parent,
     table, account, vars

(* Every step of RR keeps the shares.                                      *)
LEMMA TakeTurnsStep ==
  ASSUME LoopOK, LoopOK', InTime, ChargedLater, TakeTurns, [Next]_vars
  PROVE  TakeTurns'
<1>1. CASE Reap
  BY <1>1, TurnsReap
<1>2. CASE Switch
  <2>1. RR_next \in Idx
    BY <1>2, RR_nextReady DEF Switch, Demote, LoopOK, ParentInv, LoopInv,
       RunningIsReady, Ready
  <2> QED BY <1>2, <2>1, TurnsSwitch
<1>3. CASE Arrive
  BY <1>3, TurnsArrive
<1>4. CASE Tick /\ UNCHANGED account
  BY <1>4, TurnsTick
<1>5. CASE UNCHANGED <<time, running, finished, exec, pid, ready, burst, timeLast>>
  <2>1. \A j, k \in Idx : Extra(j, k)' = Extra(j, k) /\ Served(j)' = Served(j)
    BY <1>5 DEF Extra, Served, Ring, Slot
  <2>2. Ready' = Ready /\ Ready \subseteq Idx
    BY <1>5 DEF Ready
  <2> QED BY <1>5, <2>1, <2>2 DEF TakeTurns
<1> QED
  BY <1>1, <1>2, <1>3, <1>4, <1>5 DEF Next, Scheduler, Choose, proc_exec,
     ForkChild, ForkIgnored, NothingToReap, AssignCpu, AssignFails, EndFork,
     KeepRunning, Wakeup, Children, Terminated, parent, table, account, vars

(* Of two unfinished entries that became ready together none gets more     *)
(* than a slot ahead, but for one slot more with every finished process.   *)
THEOREM SharesAreFair == Spec => []FairShares
<1>1. Init => InTime
  BY InTimeInit
<1>2. Init => ChargedLater /\ TakeTurns
  BY DEF Init, ParentInit, ChargedLater, TakeTurns, Ready
<1>3. LoopOK /\ InTime /\ [Next]_vars => InTime'
  BY InTimeStep
<1>4. LoopOK /\ InTime /\ ChargedLater /\ [Next]_vars => ChargedLater'
  BY ChargedLaterStep
<1>5. LoopOK /\ LoopOK' /\ InTime /\ ChargedLater /\ TakeTurns /\ [Next]_vars
        => TakeTurns'
  BY TakeTurnsStep
<1>6. LoopOK /\ TakeTurns => FairShares
  <2> SUFFICES ASSUME LoopOK, TakeTurns, NEW j \in Ready, NEW k \in Ready,
                      ready[j] = ready[k]
               PROVE  Served(j) - Served(k) <= Interval * (1 + finished)
    BY DEF FairShares, Served
  <2>1. j \in Idx /\ k \in Idx /\ Interval * (1 + finished) = (Interval * finished) + Interval
    <3>1. 1 + finished = finished + 1
      BY SharesType
    <3> QED BY <3>1, SharesType
  <2>2. CASE j = k
    BY <2>1, <2>2, SharesType
  <2>3. CASE j # k
    <3>1. /\ Served(j) - Served(k) <= (Interval * finished) + Extra(j, k)
          /\ Extra(j, k) \in 0 .. Interval
      BY <2>1, <2>3, ExtraRange DEF TakeTurns, ExtraIsASlot
    <3> QED BY <2>1, <3>1, SharesType
  <2> QED BY <2>2, <2>3
<1> QED BY RrInv, <1>1, <1>2, <1>3, <1>4, <1>5, <1>6, PTL DEF Spec, Safety

-----------------------------------------------------------------------------
(* The pace of the loop is that of Parent_proofs. *)

Steady == LoopOK /\ InTime /\ Pace

(* The loop starts in step with the clock.                                 *)
LEMMA SteadyInit == Init => Steady
BY RrInit, InTimeInit, PaceInit DEF Init, Steady

(* No step of RR lets the CPU rest while somebody is ready.                *)
LEMMA SteadyStep ==
  ASSUME Steady, [Next]_vars
  PROVE  Steady'
<1> USE DEF Steady, LoopOK, ParentInv, InTime
<1>1. Pace'
  <2>1. CASE Block
    BY <2>1, PaceBlock
  <2>2. CASE Tick
    BY <2>2, PaceTick
  <2>3. CASE ReapRunning
    BY <2>3, PaceReap
  <2>4. CASE Switch
    <3>1. /\ pc' = "tick" /\ running' = RR_next
          /\ UNCHANGED <<time, exec, pid, ready, burst, ended>>
      BY <2>4 DEF Switch, Demote, table
    <3>2. RR_next \in Ready
      BY <2>4, RR_nextReady DEF Switch, Demote, LoopInv, RunningIsReady
    <3> QED BY <3>1, <3>2, PaceKept DEF Busy, Ready
  <2>5. CASE /\ UNCHANGED <<time, running, exec, pid, ready, burst, ended>>
             /\ pc' \notin {"reap", "done"} \/ pc' = pc
    BY <2>5, PaceKept DEF Busy, Ready
  <2> QED
    BY <2>1, <2>2, <2>3, <2>4, <2>5
       DEF Next, Scheduler, Reap, Arrive, Choose, proc_exec, ForkChild, ForkIgnored,
           NothingToReap, AssignCpu, AssignFails, EndFork, KeepRunning, Wakeup,
           Children, Terminated, parent, table, vars
<1>2. LoopOK' /\ InTime'
  BY RrStep, InTimeStep
<1> QED BY <1>1, <1>2 DEF Steady

=============================================================================
