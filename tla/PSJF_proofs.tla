----------------------------- MODULE PSJF_proofs ----------------------------
(***************************************************************************)
(* The theorems of PSJF, for any number of processes, any table and any    *)
(* failing call.  Its loop is not that of Parent, and neither is its       *)
(* invariant: nobody is reaped, `waiting` stands for the state of an entry *)
(* and a unit is charged before it has passed.                             *)
(***************************************************************************)
EXTENDS PSJF, Kernel_proofs, Arithmetic_proofs

(* The fork loop of this iteration has gone past entry j.                  *)
PastFork(j) ==
  \/ pc \in {"raise", "charge", "tick"}
  \/ pc = "fork" /\ j < i
  \/ pc \in {"assign", "mark"} /\ j <= i

(* Exactly the entries that were due so far have been forked.              *)
ForkedWhenDue ==
  pc \notin {"done", "exited"} =>
    /\ pc \in {"while", "raise", "charge", "tick"} => i = 0
    /\ \A j \in Idx : life[Child(j)] # "unborn" <=>
         ready[j] < time \/ (ready[j] = time /\ PastFork(j))

(* A child is in the table once it exists, but for the one being set up;   *)
(* it is never reaped, and a failing fork is the last step.                *)
Entered ==
  /\ \A j \in Idx :
       /\ pid[j] \in HeapPids \cup {Child(j)}
       /\ pid[j] = Child(j) => life[Child(j)] \in {"alive", "zombie"}
       /\ life[Child(j)] \in {"alive", "zombie"} =>
            \/ pid[j] = Child(j)
            \/ pc \in {"assign", "mark"} /\ i = j
            \/ pc = "exited"
       /\ life[Child(j)] # "reaped"
       /\ life[Child(j)] = "failed" => pc = "exited"
  /\ pc \in {"assign", "mark"} =>
       /\ i \in Idx /\ life[Child(i)] \in {"alive", "zombie"}
       /\ pid[i] # Child(i) /\ ready[i] = time

(* What is charged is least among those that are waiting, and the loop has *)
(* not come to its end before.                                             *)
ChosenIsLeast ==
  /\ pc \in {"raise", "charge"} =>
       chosen \in IsReady /\ \A k \in IsReady : Less(chosen, k)
  /\ pc \in {"fork", "assign", "mark", "raise", "charge"} => finished # N

(* The flag `waiting`, and the count-down, of an entry.                    *)
Flags ==
  \A j \in Idx :
    /\ pid[j] = Child(j) /\ ended[j] = -1 => waiting[j] = 1
    /\ exec[j] < 0 => waiting[j] = 1
    /\ ended[j] # -1 => exec[j] <= 0 /\ burst[j] > 0
    /\ exec[j] <= burst[j]

LoopInv == TypeOK /\ ForkedWhenDue /\ Entered /\ ChosenIsLeast /\ Flags

(* finished_process counts the entries that have ended, up to all of them. *)
Ended   == {j \in Idx : ended[j] # -1}
Counted == finished = Cardinality(Ended) /\ (pc = "done" => finished = N)

(***************************************************************************)
(* The clock, counting a charged unit as passed, is no further ahead of    *)
(* the last arrival than by the units charged, unless an entry of 0 units  *)
(* has been counted down below 0.                                          *)
(***************************************************************************)
Clock      == IF pc = "tick" THEN time + 1 ELSE time
NoneBelow0 == \A j \in Idx : exec[j] >= 0
Charged    == [j \in Idx |-> burst[j] - exec[j]]

OnTime ==
  (NoneBelow0 /\ Idx # {})
  => \E l \in Idx : Clock <= ready[l] + SumFunctionOnSet(Charged, Idx)

LoopOK == LoopInv /\ Counted /\ OnTime

-----------------------------------------------------------------------------
(* Types, for arithmetic.                                                  *)
LEMMA Types ==
  ASSUME LoopInv
  PROVE  /\ time \in Nat /\ MaxTime \in Nat /\ time <= MaxTime
         /\ i \in Nat /\ N \in Nat /\ finished \in Nat
         /\ \A j \in Idx : /\ j \in Nat /\ ready[j] \in Readies /\ ready[j] \in Nat
                           /\ ready[j] < MaxTime
                           /\ burst[j] \in Bursts /\ burst[j] \in Nat
                           /\ exec[j] \in Int /\ exec[j] >= -1
                           /\ ended[j] \in Int
<1>1. /\ time \in Nat /\ MaxTime \in Nat /\ time <= MaxTime
      /\ i \in Nat /\ N \in Nat /\ finished \in Nat
  BY PsjfAssumption, KernelAssumption DEF LoopInv, TypeOK
<1>2. \A j \in Idx : ready[j] \in Readies /\ burst[j] \in Bursts
  BY DEF LoopInv, TypeOK
<1>3. \A j \in Idx : ready[j] \in Nat /\ ready[j] < MaxTime /\ burst[j] \in Nat
  BY <1>2, PsjfAssumption
<1>4. \A j \in Idx : exec[j] \in Nat \cup {-1} /\ ended[j] \in 0 .. MaxTime \cup {-1}
  BY DEF LoopInv, TypeOK
<1>5. \A j \in Idx : exec[j] \in Int /\ exec[j] >= -1 /\ ended[j] \in Int
  BY <1>1, <1>4
<1> QED BY <1>1, <1>2, <1>3, <1>5, ChildOfIndex

(* The table is finite.                                                    *)
LEMMA FiniteIdx ==
  /\ IsFiniteSet(Idx) /\ Cardinality(Idx) = N
  /\ \A S \in SUBSET Idx : IsFiniteSet(S)
<1>1. IsFiniteSet(Idx) /\ Cardinality(Idx) = N
  BY FS_Interval, KernelAssumption DEF Idx
<1> QED BY <1>1, FS_Subset

(* Of the waiting entries of least execution time the first of the table.  *)
LEMMA LeastExists ==
  ASSUME LoopInv, IsReady # {}
  PROVE  FindMinIndex \in IsReady /\ \A k \in IsReady : Less(FindMinIndex, k)
<1>1. /\ IsReady \subseteq Idx /\ IsReady \subseteq Nat
      /\ \A j \in IsReady : exec[j] \in Int /\ exec[j] + 1 \in Nat
  BY Types DEF IsReady
<1> DEFINE units == {exec[j] + 1 : j \in IsReady}
<1>2. units \in SUBSET Nat /\ units # {}
  BY <1>1
<1>3. PICK x \in units : \A y \in units : x <= y
  <2> HIDE DEF units
  <2> QED BY <1>2, LeastNat
<1> DEFINE least == {j \in IsReady : exec[j] + 1 = x}
<1>4. least \in SUBSET Nat /\ least # {}
  BY <1>1
<1>5. PICK j \in least : \A k \in least : j <= k
  <2> HIDE DEF least
  <2> QED BY <1>4, LeastNat
<1>6. \A k \in IsReady : Less(j, k)
  <2> SUFFICES ASSUME NEW k \in IsReady PROVE Less(j, k)
    OBVIOUS
  <2>1. /\ exec[j] + 1 = x /\ exec[j] \in Int /\ exec[k] \in Int
        /\ exec[j] + 1 <= exec[k] + 1
    BY <1>1, <1>3, <1>5
  <2>2. exec[k] = exec[j] => j <= k
    BY <1>5, <2>1
  <2> QED BY <2>1, <2>2 DEF Less
<1>7. \E m \in IsReady : \A k \in IsReady : Less(m, k)
  BY <1>5, <1>6
<1> QED BY <1>7 DEF FindMinIndex

-----------------------------------------------------------------------------
(* The initial states. *)

(* No child to come has its id in the table by chance.                     *)
LEMMA NobodyInTable == Init => \A j \in Idx : pid[j] \in HeapPids /\ pid[j] # Child(j)
BY PsjfAssumption, ChildOfIndex DEF Init

(* The invariant holds before the loop, whatever malloc left in the last   *)
(* two columns.                                                            *)
LEMMA PsjfInit == Init => LoopOK
<1> SUFFICES ASSUME Init PROVE LoopOK
  OBVIOUS
<1> USE KernelAssumption, PsjfAssumption
<1>1. KernelTypeOK
  BY DEF Init, KernelInit, KernelTypeOK, Lives, Class, SCHED_IDLE, SCHED_OTHER
<1>2. TypeOK
  <2>1. ready \in [Idx -> Readies] /\ exec \in [Idx -> Bursts] /\ burst = exec
        /\ waiting \in [Idx -> HeapWaiting] /\ found = waiting
    BY Zenon DEF Init
  <2>2. exec \in [Idx -> Nat \cup {-1}] /\ waiting \in [Idx -> HeapWaiting \cup {0, 1}]
    BY <2>1
  <2>3. /\ pid \in [Idx -> Kids \cup HeapPids]
        /\ ended \in [Idx -> 0 .. MaxTime \cup {-1}]
        /\ pc = "while" /\ i \in 0 .. N /\ time \in 0 .. MaxTime
        /\ chosen \in Idx \cup {-1} /\ finished \in Nat
        /\ preRunning \in Kids \cup HeapPids \cup {-1}
    BY DEF Init
  <2> QED BY <1>1, <2>1, <2>2, <2>3 DEF TypeOK
<1>3. \A j \in Idx : /\ life[Child(j)] = "unborn" /\ pid[j] # Child(j) /\ ended[j] = -1
                     /\ exec[j] \in Nat /\ burst[j] = exec[j] /\ ready[j] \in Nat
  BY NobodyInTable, ChildOfIndex DEF Init, KernelInit
<1>4. pc = "while" /\ i = 0 /\ time = 0 /\ finished = 0
  BY DEF Init
<1>5. ForkedWhenDue
  BY <1>3, <1>4 DEF ForkedWhenDue, PastFork
<1>6. Entered /\ ChosenIsLeast /\ Flags
  BY <1>3, <1>4, NobodyInTable DEF Entered, ChosenIsLeast, Flags
<1>7. Counted
  <2>1. Ended = {}
    BY <1>3 DEF Ended
  <2> QED BY <1>4, <2>1, FS_EmptySet DEF Counted
<1>8. OnTime
  <2> SUFFICES ASSUME Idx # {}
               PROVE  \E l \in Idx : Clock <= ready[l] + SumFunctionOnSet(Charged, Idx)
    BY DEF OnTime
  <2>1. \A j \in Idx : Charged[j] \in Nat
    BY <1>3 DEF Charged
  <2>2. SumFunctionOnSet(Charged, Idx) \in Nat
    BY <2>1, SumNat, FiniteIdx
  <2>3. Clock = 0
    BY <1>4 DEF Clock
  <2> QED BY <1>3, <2>2, <2>3
<1> QED BY <1>2, <1>5, <1>6, <1>7, <1>8 DEF LoopOK, LoopInv

-----------------------------------------------------------------------------
(* The fork loop. *)

(* What the invariant says of an entry that the fork loop is about to fork.*)
LEMMA DueIsUnborn ==
  ASSUME LoopInv, NEW j \in Idx, pc = "fork", FirstDue(j)
  PROVE  life[Child(j)] = "unborn" /\ pid[j] # Child(j) /\ ready[j] = time
<1>1. j >= i /\ ready[j] = time
  BY DEF FirstDue, Due
<1>2. life[Child(j)] = "unborn"
  BY <1>1, Types DEF LoopInv, ForkedWhenDue, PastFork
<1> QED BY <1>1, <1>2 DEF LoopInv, Entered

(* Every index up to the first due one has been dealt with.                *)
LEMMA ForkLoopMoves ==
  ASSUME LoopInv, NEW j \in Idx, pc = "fork", FirstDue(j), NEW k \in Idx
  PROVE  life[Child(k)] # "unborn" <=>
           ready[k] < time \/ (ready[k] = time /\ k < j)
<1>1. j >= i /\ ready[j] = time /\ (ready[k] = time /\ k >= i => j <= k)
  BY DEF FirstDue, Due
<1>2. life[Child(k)] # "unborn" <=> ready[k] < time \/ (ready[k] = time /\ k < i)
  BY DEF LoopInv, ForkedWhenDue, PastFork
<1> QED BY <1>1, <1>2, Types

(* The loop forks what is due and has not been forked.                     *)
LEMMA ForkChildStep ==
  ASSUME LoopInv, NEW j \in Idx, ForkChild(j)
  PROVE  LoopInv'
<1> USE ChildOfIndex
<1> DEFINE units == IF exec[j] < 0 THEN 0 ELSE exec[j]
<1>1. /\ pc = "fork" /\ pc' = "assign" /\ i' = j
      /\ FirstDue(j) /\ Fork(Child(j), units)
      /\ UNCHANGED <<time, chosen, preRunning, finished, exec, waiting, pid,
                     ended, table>>
  BY DEF ForkChild
<1>2. life[Child(j)] = "unborn" /\ pid[j] # Child(j) /\ ready[j] = time
  BY <1>1, DueIsUnborn
<1>3. units \in Nat
  BY Types
<1> HIDE DEF units
<1>4. KernelTypeOK'
  BY <1>1, <1>3, ForkType DEF LoopInv, TypeOK
<1>5. TypeOK'
  <2>1. i' \in 0 .. N
    BY <1>1, KernelAssumption DEF Idx
  <2> QED BY <1>1, <1>4, <2>1 DEF LoopInv, TypeOK, table
<1>6. \A k \in Idx :
        life'[Child(k)] = IF k = j THEN "alive" ELSE life[Child(k)]
  BY <1>1 DEF Fork, LoopInv, TypeOK, KernelTypeOK
<1>7. ForkedWhenDue'
  <2>1. \A k \in Idx : life'[Child(k)] # "unborn" <=>
          ready[k] < time \/ (ready[k] = time /\ k <= j)
    BY <1>1, <1>2, <1>6, ForkLoopMoves, Types
  <2> QED BY <1>1, <2>1 DEF ForkedWhenDue, PastFork, table
<1>8. Entered'
  BY <1>1, <1>2, <1>6 DEF LoopInv, Entered, table
<1>9. ChosenIsLeast' /\ Flags'
  BY <1>1 DEF LoopInv, ChosenIsLeast, Flags, table
<1> QED BY <1>5, <1>7, <1>8, <1>9 DEF LoopInv

(* A failing fork ends the program.                                        *)
LEMMA ForkFatalStep ==
  ASSUME LoopInv, NEW j \in Idx, ForkFatal(j)
  PROVE  LoopInv'
<1> USE ChildOfIndex
<1>1. /\ pc = "fork" /\ pc' = "exited"
      /\ FirstDue(j) /\ life' = [life EXCEPT ![Child(j)] = "failed"]
      /\ UNCHANGED <<class, cpu, left, i, time, chosen, preRunning, finished,
                     exec, waiting, pid, ended, table>>
  BY DEF ForkFatal, ForkFails
<1>2. life[Child(j)] = "unborn" /\ pid[j] # Child(j)
  BY <1>1, DueIsUnborn
<1>3. TypeOK'
  BY <1>1 DEF LoopInv, TypeOK, KernelTypeOK, Lives, table
<1>4. \A k \in Idx :
        life'[Child(k)] = IF k = j THEN "failed" ELSE life[Child(k)]
  BY <1>1 DEF LoopInv, TypeOK, KernelTypeOK
<1>5. Entered'
  BY <1>1, <1>2, <1>4 DEF LoopInv, Entered
<1>6. ForkedWhenDue' /\ ChosenIsLeast' /\ Flags'
  BY <1>1 DEF LoopInv, ForkedWhenDue, ChosenIsLeast, Flags, table
<1> QED BY <1>3, <1>5, <1>6 DEF LoopInv

(* proc_assign_cpu pins the child or exits.                                *)
LEMMA AssignStep ==
  ASSUME LoopInv, AssignCpu \/ AssignFails
  PROVE  LoopInv'
<1>1. CASE AssignCpu
  <2>1. /\ pc = "assign" /\ pc' = "mark"
        /\ cpu' = [cpu EXCEPT ![Child(i)] = CHILD_CPU]
        /\ UNCHANGED <<life, class, left, i, time, chosen, preRunning, finished,
                       exec, waiting, pid, ended, table>>
    BY <1>1 DEF AssignCpu
  <2>2. TypeOK'
    BY <2>1 DEF LoopInv, TypeOK, KernelTypeOK, table
  <2>3. ForkedWhenDue'
    BY <2>1 DEF LoopInv, ForkedWhenDue, PastFork, table
  <2>4. Entered' /\ ChosenIsLeast' /\ Flags'
    BY <2>1 DEF LoopInv, Entered, ChosenIsLeast, Flags, table
  <2> QED BY <2>2, <2>3, <2>4 DEF LoopInv
<1>2. CASE AssignFails
  <2>1. /\ pc = "assign" /\ pc' = "exited"
        /\ UNCHANGED <<kernel, i, time, chosen, preRunning, finished, exec,
                       waiting, pid, ended, table>>
    BY <1>2 DEF AssignFails
  <2>2. TypeOK'
    BY <2>1 DEF LoopInv, TypeOK, KernelTypeOK, kernel, table
  <2>3. ForkedWhenDue' /\ Entered' /\ ChosenIsLeast' /\ Flags'
    BY <2>1 DEF LoopInv, ForkedWhenDue, Entered, ChosenIsLeast, Flags, kernel, table
  <2> QED BY <2>2, <2>3 DEF LoopInv
<1> QED BY <1>1, <1>2

(* A new entry is in the table and waits.                                  *)
LEMMA MarkStep ==
  ASSUME LoopInv, Mark
  PROVE  LoopInv'
<1> USE ChildOfIndex
<1>1. /\ pc = "mark" /\ pc' = "fork" /\ i' = i + 1
      /\ pid' = [pid EXCEPT ![i] = Child(i)]
      /\ waiting' = [waiting EXCEPT ![i] = 1]
      /\ class' = Reclass(Child(i), BLOCK)
      /\ UNCHANGED <<life, cpu, left, time, chosen, preRunning, finished, exec,
                     ended, table>>
  BY DEF Mark
<1>2. i \in Idx /\ life[Child(i)] \in {"alive", "zombie"} /\ pid[i] # Child(i)
  BY <1>1 DEF LoopInv, Entered
<1>3. TypeOK'
  <2>1. BLOCK \in Class
    BY DEF BLOCK, Class, SCHED_IDLE
  <2>2. KernelTypeOK'
    BY <1>1, <2>1, ReclassType DEF LoopInv, TypeOK, KernelTypeOK
  <2>3. i' \in 0 .. N
    BY <1>1, <1>2, KernelAssumption DEF Idx
  <2>4. pid' \in [Idx -> Kids \cup HeapPids] /\ waiting' \in [Idx -> HeapWaiting \cup {0, 1}]
    BY <1>1, <1>2 DEF LoopInv, TypeOK
  <2> QED BY <1>1, <2>2, <2>3, <2>4 DEF LoopInv, TypeOK, table
<1>4. \A k \in Idx : /\ pid'[k] = IF k = i THEN Child(i) ELSE pid[k]
                     /\ waiting'[k] = IF k = i THEN 1 ELSE waiting[k]
  BY <1>1, <1>2 DEF LoopInv, TypeOK
<1>5. ForkedWhenDue'
  <2>1. \A k \in Idx : k <= i <=> k < i + 1
    BY Types
  <2> QED BY <1>1, <2>1 DEF LoopInv, ForkedWhenDue, PastFork, table
<1>6. Entered'
  BY <1>1, <1>2, <1>4 DEF LoopInv, Entered
<1>7. ChosenIsLeast'
  BY <1>1 DEF LoopInv, ChosenIsLeast
<1>8. Flags'
  BY <1>1, <1>4 DEF LoopInv, Flags, table
<1> QED BY <1>3, <1>5, <1>6, <1>7, <1>8 DEF LoopInv

(* The loop is left when nobody is due, with the least of the waiting.     *)
LEMMA EndForkStep ==
  ASSUME LoopInv, EndFork
  PROVE  LoopInv'
<1>1. /\ pc = "fork" /\ (\A j \in Idx : ~Due(j)) /\ i' = 0
      /\ chosen' = IF IsReady = {} THEN -1 ELSE FindMinIndex
      /\ pc' = IF IsReady = {} THEN "tick"
               ELSE IF preRunning \in {-1, pid[FindMinIndex]} THEN "charge"
               ELSE "raise"
      /\ UNCHANGED <<kernel, time, preRunning, finished, exec, waiting, pid,
                     ended, table>>
  BY DEF EndFork
<1>2. pc' \in {"raise", "charge", "tick"} /\ (pc' # "tick" => IsReady # {})
  BY <1>1
<1>3. IsReady # {} => /\ chosen' = FindMinIndex /\ FindMinIndex \in IsReady
                      /\ \A k \in IsReady : Less(FindMinIndex, k)
  BY <1>1, LeastExists
<1>4. TypeOK'
  <2>1. chosen' \in Idx \cup {-1}
    BY <1>1, <1>3 DEF IsReady
  <2>2. i' \in 0 .. N
    BY <1>1, Types
  <2> QED BY <1>1, <1>2, <2>1, <2>2 DEF LoopInv, TypeOK, KernelTypeOK, kernel, table
<1>5. ForkedWhenDue'
  <2>1. \A j \in Idx : ready[j] = time => j < i
    BY <1>1, Types DEF Due
  <2> QED BY <1>1, <1>2, <2>1 DEF LoopInv, ForkedWhenDue, PastFork, kernel, table
<1>6. Entered' /\ Flags'
  BY <1>1, <1>2 DEF LoopInv, Entered, Flags, kernel, table
<1>7. ChosenIsLeast'
  <2>1. IsReady' = IsReady /\ \A j, k \in IsReady : Less(j, k)' <=> Less(j, k)
    BY <1>1 DEF IsReady, Less
  <2> QED BY <1>1, <1>2, <1>3, <2>1 DEF LoopInv, ChosenIsLeast
<1> QED BY <1>4, <1>5, <1>6, <1>7 DEF LoopInv

-----------------------------------------------------------------------------
(* Charging. *)

(* The longest entry of the table.                                         *)
LEMMA LongestExists ==
  ASSUME LoopInv, Idx # {}
  PROVE  \E m \in Idx : \A j \in Idx : burst[j] <= burst[m]
<1>1. PICK l \in Idx : TRUE
  OBVIOUS
<1>2. N \in Nat \ {0}
  BY <1>1, KernelAssumption DEF Idx
<1>3. \A j \in Idx : burst[j] <= MaxTime
  <2> TAKE j \in Idx
  <2>1. /\ ready[l] + (N * burst[j]) <= MaxTime
        /\ ready[l] \in Nat /\ MaxTime \in Nat /\ burst[j] \in Nat
    BY Types, PsjfClockAssumption
  <2>2. burst[j] <= N * burst[j] /\ N * burst[j] \in Nat
    <3>1. \A a \in Nat, n \in Nat \ {0} : a <= n * a /\ n * a \in Nat
      OBVIOUS
    <3> QED BY <1>2, <2>1, <3>1
  <2> QED BY <2>1, <2>2
<1> QED BY <1>3, Types, GreatestValue

(* The sum of the charged units.                                           *)
LEMMA ChargedType ==
  ASSUME LoopInv
  PROVE  /\ \A j \in Idx : Charged[j] \in Nat /\ Charged[j] = burst[j] - exec[j]
         /\ \A S \in SUBSET Idx : SumFunctionOnSet(Charged, S) \in Nat
<1>1. \A j \in Idx : Charged[j] \in Nat /\ Charged[j] = burst[j] - exec[j]
  <2>1. \A j \in Idx : exec[j] <= burst[j]
    BY DEF LoopInv, Flags
  <2> QED BY <2>1, Types DEF Charged
<1>2. \A S \in SUBSET Idx : SumFunctionOnSet(Charged, S) \in Nat
  BY <1>1, FiniteIdx, SumNat
<1> QED BY <1>1, <1>2

(* Nobody is below 0 while one above 0 is chosen, ...                      *)
LEMMA NobodyBelow0 ==
  ASSUME LoopInv, pc = "charge", exec[chosen] >= 0
  PROVE  NoneBelow0
<1> SUFFICES ASSUME NEW j \in Idx, exec[j] < 0 PROVE FALSE
  BY Types DEF NoneBelow0
<1>1. chosen \in IsReady /\ j \in IsReady
  BY DEF LoopInv, ChosenIsLeast, Flags, IsReady
<1>2. Less(chosen, j)
  BY <1>1 DEF LoopInv, ChosenIsLeast
<1> QED BY <1>1, <1>2, Types DEF Less, IsReady

(* ... and then there is time for the unit before MaxTime.                 *)
LEMMA RoomToCharge ==
  ASSUME LoopOK, pc = "charge", exec[chosen] > 0
  PROVE  time < MaxTime
<1> USE DEF LoopOK
<1>1. chosen \in Idx
  BY DEF LoopInv, ChosenIsLeast, IsReady
<1>2. NoneBelow0
  BY <1>1, NobodyBelow0, Types
<1>3. PICK l \in Idx : time <= ready[l] + SumFunctionOnSet(Charged, Idx)
  BY <1>1, <1>2 DEF OnTime, Clock
<1>4. PICK m \in Idx : \A j \in Idx : burst[j] <= burst[m]
  BY <1>1, LongestExists
<1> DEFINE more == [j \in Idx |-> IF j = chosen THEN Charged[j] + 1 ELSE Charged[j]]
<1>5. \A j \in Idx : more[j] \in Int /\ more[j] <= burst[m]
  BY <1>1, <1>2, <1>4, ChargedType, Types DEF NoneBelow0
<1>6. SumFunctionOnSet(more, Idx) = SumFunctionOnSet(Charged, Idx) + 1
  <2>1. /\ \A j \in Idx \ {chosen} : Charged[j] = more[j]
        /\ more[chosen] = Charged[chosen] + 1
    BY <1>1
  <2>2. SumFunctionOnSet(more, Idx) =
          (SumFunctionOnSet(Charged, Idx) + more[chosen]) - Charged[chosen]
    <3>1. \A j \in Idx : Charged[j] \in Int
      BY ChargedType
    <3> HIDE DEF more
    <3> QED BY <1>1, <1>5, <2>1, <3>1, FiniteIdx, SumUpdate
  <2>3. SumFunctionOnSet(Charged, Idx) \in Nat /\ Charged[chosen] \in Nat
    BY <1>1, ChargedType
  <2> QED BY <2>1, <2>2, <2>3
<1>7. SumFunctionOnSet(more, Idx) <= N * burst[m]
  <2>1. burst[m] \in Int
    BY Types
  <2> HIDE DEF more
  <2> QED BY <1>5, <2>1, FiniteIdx, SumBound
<1>8. ready[l] + (N * burst[m]) <= MaxTime
  BY Types, PsjfClockAssumption
<1>9. /\ time \in Nat /\ ready[l] \in Nat /\ N * burst[m] \in Nat /\ MaxTime \in Nat
      /\ SumFunctionOnSet(Charged, Idx) \in Nat
  <2>1. SumFunctionOnSet(Charged, Idx) \in Nat
    BY ChargedType
  <2> QED BY <2>1, Types
<1> QED BY <1>3, <1>6, <1>7, <1>8, <1>9

(* What Charge does to the columns of the chosen entry.                    *)
LEMMA ChargeColumns ==
  ASSUME LoopInv, Charge
  PROVE  /\ chosen \in Idx /\ waiting[chosen] = 1
         /\ exec' \in [Idx -> Nat \cup {-1}]
         /\ exec'[chosen] = IF exec[chosen] < 0 THEN -1 ELSE exec[chosen] - 1
         /\ \A j \in Idx : j # chosen => /\ exec'[j] = exec[j]
                                         /\ waiting'[j] = waiting[j]
                                         /\ ended'[j] = ended[j]
         /\ IF exec[chosen] = 1
            THEN /\ waiting' = [waiting EXCEPT ![chosen] = 0]
                 /\ ended' = [ended EXCEPT ![chosen] = time + 1]
                 /\ waiting'[chosen] = 0 /\ ended'[chosen] = time + 1
                 /\ finished' = finished + 1
            ELSE UNCHANGED <<waiting, ended, finished>>
<1> DEFINE units == IF exec[chosen] < 0 THEN -1 ELSE exec[chosen] - 1
<1>1. pc = "charge" /\ exec' = [exec EXCEPT ![chosen] = units]
      /\ IF units = 0
         THEN /\ waiting' = [waiting EXCEPT ![chosen] = 0]
              /\ ended' = [ended EXCEPT ![chosen] = time + 1]
              /\ finished' = finished + 1
         ELSE UNCHANGED <<waiting, ended, finished>>
  BY DEF Charge
<1>2. chosen \in Idx /\ waiting[chosen] = 1
  BY <1>1 DEF LoopInv, ChosenIsLeast, IsReady
<1>3. exec[chosen] \in Int /\ units \in Nat \cup {-1} /\ (units = 0 <=> exec[chosen] = 1)
  BY <1>2, Types
<1>4. exec' \in [Idx -> Nat \cup {-1}] /\ exec'[chosen] = units
      /\ \A j \in Idx : j # chosen => exec'[j] = exec[j]
  <2> HIDE DEF units
  <2> QED BY <1>1, <1>2, <1>3 DEF LoopInv, TypeOK
<1>5. \A j \in Idx : j # chosen => waiting'[j] = waiting[j] /\ ended'[j] = ended[j]
  BY <1>1, <1>2 DEF LoopInv, TypeOK
<1>6. units = 0 => waiting'[chosen] = 0 /\ ended'[chosen] = time + 1
  BY <1>1, <1>2 DEF LoopInv, TypeOK
<1> QED BY <1>1, <1>2, <1>3, <1>4, <1>5, <1>6

(* A unit more is charged; with the last one the entry has ended, and      *)
(* keeps its flag no longer.                                               *)
LEMMA ChargeStep ==
  ASSUME LoopOK, Charge
  PROVE  LoopInv'
<1> USE DEF LoopOK
<1>1. /\ pc = "charge" /\ pc' = "tick"
      /\ class' = (IF pid[chosen] = preRunning THEN class
                   ELSE Reclass(pid[chosen], BLOCK))
      /\ preRunning' = pid[chosen]
      /\ UNCHANGED <<life, cpu, left, i, time, chosen, pid, table>>
  BY DEF Charge
<1>2. chosen \in Idx /\ exec[chosen] \in Int
  BY ChargeColumns, Types
<1>3. TypeOK'
  <2>1. KernelTypeOK'
    <3>1. BLOCK \in Class
      BY DEF BLOCK, Class, SCHED_IDLE
    <3> QED BY <1>1, <3>1, ReclassType DEF LoopInv, TypeOK, KernelTypeOK
  <2>2. preRunning' \in Kids \cup HeapPids \cup {-1}
    BY <1>1, <1>2 DEF LoopInv, TypeOK
  <2>3. finished' \in Nat
    BY ChargeColumns, Types
  <2>4. waiting' \in [Idx -> HeapWaiting \cup {0, 1}]
    BY <1>2, ChargeColumns DEF LoopInv, TypeOK
  <2>5. ended' \in [Idx -> 0 .. MaxTime \cup {-1}]
    <3>1. CASE exec[chosen] = 1
      <4>1. time + 1 \in 0 .. MaxTime
        BY <1>1, <3>1, RoomToCharge, Types
      <4> QED BY <1>2, <3>1, <4>1, ChargeColumns DEF LoopInv, TypeOK
    <3>2. CASE exec[chosen] # 1
      BY <3>2, ChargeColumns DEF LoopInv, TypeOK
    <3> QED BY <3>1, <3>2
  <2>6. exec' \in [Idx -> Nat \cup {-1}]
    BY ChargeColumns
  <2> QED BY <1>1, <2>1, <2>2, <2>3, <2>4, <2>5, <2>6 DEF LoopInv, TypeOK, table
<1>4. ForkedWhenDue' /\ Entered'
  BY <1>1 DEF LoopInv, ForkedWhenDue, PastFork, Entered, table
<1>5. ChosenIsLeast'
  BY <1>1 DEF ChosenIsLeast
<1>6. Flags'
  <2> SUFFICES ASSUME NEW j \in Idx
               PROVE  /\ pid[j] = Child(j) /\ ended'[j] = -1 => waiting'[j] = 1
                      /\ exec'[j] < 0 => waiting'[j] = 1
                      /\ ended'[j] # -1 => exec'[j] <= 0 /\ burst[j] > 0
                      /\ exec'[j] <= burst[j]
    BY <1>1 DEF Flags, table
  <2>1. /\ pid[j] = Child(j) /\ ended[j] = -1 => waiting[j] = 1
        /\ exec[j] < 0 => waiting[j] = 1
        /\ ended[j] # -1 => exec[j] <= 0 /\ burst[j] > 0
        /\ exec[j] <= burst[j]
    BY DEF LoopInv, Flags
  <2>2. CASE j # chosen
    BY <2>1, <2>2, ChargeColumns
  <2>3. CASE j = chosen /\ exec[j] = 1
    BY <2>1, <2>3, ChargeColumns, Types
  <2>4. CASE j = chosen /\ exec[j] # 1
    <3>1. /\ waiting'[j] = 1 /\ ended'[j] = ended[j]
          /\ exec'[j] = IF exec[j] < 0 THEN -1 ELSE exec[j] - 1
      BY <2>4, ChargeColumns
    <3> QED BY <2>1, <3>1, Types
  <2> QED BY <2>2, <2>3, <2>4
<1> QED BY <1>3, <1>4, <1>5, <1>6 DEF LoopInv

-----------------------------------------------------------------------------
(* The other steps. *)

(* The end of the loop, the priorities, and the children.                  *)
LEMMA OtherSteps ==
  ASSUME LoopInv, While \/ RaisePrevious \/ Children \/ UNCHANGED vars
  PROVE  LoopInv'
<1>1. CASE While
  <2>1. /\ pc = "while" /\ pc' \in {"done", "fork"} /\ (pc' = "fork" => finished # N)
        /\ UNCHANGED <<life, class, cpu, left, i, time, chosen, preRunning,
                       finished, exec, waiting, pid, ended, ready, burst, found>>
    BY <1>1 DEF While, kernel, table
  <2>2. TypeOK'
    BY <2>1 DEF LoopInv, TypeOK, KernelTypeOK
  <2>3. ForkedWhenDue'
    BY <2>1, Types DEF LoopInv, ForkedWhenDue, PastFork
  <2>4. Entered'
    BY <2>1 DEF LoopInv, Entered
  <2>5. ChosenIsLeast' /\ Flags'
    BY <2>1 DEF LoopInv, ChosenIsLeast, Flags
  <2> QED BY <2>2, <2>3, <2>4, <2>5 DEF LoopInv
<1>2. CASE RaisePrevious
  <2>1. /\ pc = "raise" /\ pc' = "charge" /\ class' = Reclass(preRunning, HIGH)
        /\ UNCHANGED <<life, cpu, left, i, time, chosen, preRunning, finished,
                       exec, waiting, pid, ended, ready, burst, found>>
    BY <1>2 DEF RaisePrevious, table
  <2>2. TypeOK'
    <3>1. HIGH \in Class
      BY DEF HIGH, Class, SCHED_IDLE
    <3> QED BY <2>1, <3>1, ReclassType DEF LoopInv, TypeOK, KernelTypeOK
  <2>3. ForkedWhenDue' /\ Entered' /\ Flags'
    BY <2>1 DEF LoopInv, ForkedWhenDue, PastFork, Entered, Flags
  <2>4. ChosenIsLeast'
    BY <2>1 DEF LoopInv, ChosenIsLeast, IsReady, Less
  <2> QED BY <2>2, <2>3, <2>4 DEF LoopInv
<1>3. CASE Children
  <2>1. PICK p \in Kids : ChildStep(p)
    BY <1>3 DEF Children
  <2>2. /\ UNCHANGED <<pc, i, time, chosen, preRunning, finished, exec, waiting,
                       pid, ended, ready, burst, found>>
        /\ KernelTypeOK'
    BY <1>3, <2>1, ChildStepType DEF Children, parent, LoopInv, TypeOK
  <2>3. \A j \in Idx :
          \/ life'[Child(j)] = life[Child(j)]
          \/ life[Child(j)] = "alive" /\ life'[Child(j)] = "zombie"
    BY <2>1, ChildOfIndex DEF ChildStep, ChildUnit, ChildExit, LoopInv, TypeOK,
       KernelTypeOK
  <2>4. TypeOK'
    BY <2>2 DEF LoopInv, TypeOK
  <2>5. ForkedWhenDue'
    BY <2>2, <2>3 DEF LoopInv, ForkedWhenDue, PastFork
  <2>6. Entered'
    BY <2>2, <2>3 DEF LoopInv, Entered
  <2>7. ChosenIsLeast' /\ Flags'
    BY <2>2 DEF LoopInv, ChosenIsLeast, IsReady, Less, Flags
  <2> QED BY <2>4, <2>5, <2>6, <2>7 DEF LoopInv
<1>4. CASE UNCHANGED vars
  BY <1>4 DEF vars, kernel, parent, LoopInv, TypeOK, KernelTypeOK, ForkedWhenDue,
     PastFork, Entered, ChosenIsLeast, IsReady, Less, Flags
<1> QED BY <1>1, <1>2, <1>3, <1>4

(* The next unit: whoever is ready by then is due or has been forked.      *)
LEMMA TickStep ==
  ASSUME LoopInv, Tick
  PROVE  LoopInv'
<1>1. /\ pc = "tick" /\ pc' = "while"
      /\ time' = IF time < MaxTime THEN time + 1 ELSE time
      /\ UNCHANGED <<life, class, cpu, left, i, chosen, preRunning, finished,
                     exec, waiting, pid, ended, ready, burst, found>>
  BY DEF Tick, kernel, table
<1>2. TypeOK'
  <2>1. time' \in 0 .. MaxTime
    BY <1>1, Types
  <2> QED BY <1>1, <2>1 DEF LoopInv, TypeOK, KernelTypeOK
<1>3. ForkedWhenDue'
  <2>1. \A j \in Idx : ready[j] < time' <=> ready[j] <= time
    BY <1>1, Types
  <2>2. \A j \in Idx : life[Child(j)] # "unborn" <=> ready[j] <= time
    BY <1>1, Types DEF LoopInv, ForkedWhenDue, PastFork
  <2>3. i' = 0 /\ \A j \in Idx : j \in Nat
    BY <1>1, Types DEF LoopInv, ForkedWhenDue
  <2> QED BY <1>1, <2>1, <2>2, <2>3 DEF ForkedWhenDue, PastFork
<1>4. Entered' /\ ChosenIsLeast' /\ Flags'
  BY <1>1 DEF LoopInv, Entered, ChosenIsLeast, Flags
<1> QED BY <1>2, <1>3, <1>4 DEF LoopInv

-----------------------------------------------------------------------------
(* The count of the ended, and the clock. *)

(* Only the last unit of an entry counts it, and only once.                *)
LEMMA CountedStep ==
  ASSUME LoopOK, [Next]_vars
  PROVE  Counted'
<1> USE DEF LoopOK
<1>1. CASE Charge
  <2>1. pc' = "tick"
    BY <1>1 DEF Charge
  <2>2. CASE exec[chosen] = 1
    <3>1. chosen \in Idx /\ ended[chosen] = -1
      BY <2>2, <1>1, ChargeColumns DEF LoopInv, Flags
    <3>2. Ended' = Ended \cup {chosen} /\ chosen \notin Ended
      BY <1>1, <2>2, <3>1, ChargeColumns, Types DEF Ended
    <3>3. Cardinality(Ended') = Cardinality(Ended) + 1
      BY <3>2, FiniteIdx, FS_AddElement DEF Ended
    <3> QED BY <1>1, <2>1, <2>2, <3>3, ChargeColumns DEF Counted
  <2>3. CASE exec[chosen] # 1
    BY <1>1, <2>1, <2>3, ChargeColumns DEF Counted, Ended
  <2> QED BY <2>2, <2>3
<1>2. CASE While
  BY <1>2 DEF While, Counted, Ended
<1>3. CASE UNCHANGED <<ended, finished>> /\ (pc' # "done" \/ pc' = pc)
  BY <1>3 DEF Counted, Ended
<1> QED
  BY <1>1, <1>2, <1>3 DEF Next, Scheduler, ForkChild, ForkFatal, AssignCpu,
     AssignFails, Mark, EndFork, RaisePrevious, Tick, Children, Terminated, parent, vars

(* The CPU idles only before somebody is due.                              *)
LEMMA IdleBeforeArrival ==
  ASSUME LoopOK, pc = "fork", IsReady = {}, \A j \in Idx : ~Due(j)
  PROVE  \E l \in Idx : ended[l] = -1 /\ ready[l] > time
<1> USE DEF LoopOK
<1>1. Ended # Idx
  <2>1. finished # N
    BY DEF LoopInv, ChosenIsLeast
  <2> QED BY <2>1, FiniteIdx DEF Counted
<1>2. PICK j \in Idx : ended[j] = -1
  BY <1>1 DEF Ended
<1>3. pid[j] # Child(j)
  BY <1>2 DEF LoopInv, Flags, IsReady
<1>4. life[Child(j)] = "unborn"
  BY <1>3, ChildOfIndex DEF LoopInv, Entered, TypeOK, KernelTypeOK, Lives
<1>5. ready[j] > time
  BY <1>4, Types DEF LoopInv, ForkedWhenDue, PastFork, Due
<1> QED BY <1>2, <1>5

(* A unit charged to an entry adds one to every sum that it is part of.    *)
LEMMA ChargedMore ==
  ASSUME LoopInv, LoopInv', Charge, exec[chosen] > 0, NEW S \in SUBSET Idx, chosen \in S
  PROVE  SumFunctionOnSet(Charged', S) = SumFunctionOnSet(Charged, S) + 1
<1>1. chosen \in Idx /\ exec'[chosen] = exec[chosen] - 1
      /\ \A j \in Idx : j # chosen => exec'[j] = exec[j]
  BY ChargeColumns, Types
<1>2. /\ \A j \in Idx : Charged[j] = burst[j] - exec[j] /\ Charged'[j] = burst[j] - exec'[j]
      /\ \A j \in Idx : burst[j] \in Int /\ exec[j] \in Int /\ exec'[j] \in Int
  <2>1. burst' = burst
    BY DEF Charge, table
  <2>2. \A j \in Idx : exec'[j] \in Int
    BY Types, <1>1
  <2> QED BY <2>1, <2>2, Types DEF Charged
<1>3. /\ \A j \in S : Charged[j] \in Int /\ Charged'[j] \in Int
      /\ \A j \in S \ {chosen} : Charged[j] = Charged'[j]
      /\ Charged'[chosen] = Charged[chosen] + 1
  BY <1>1, <1>2
<1>4. SumFunctionOnSet(Charged', S)
        = (SumFunctionOnSet(Charged, S) + Charged'[chosen]) - Charged[chosen]
  BY <1>3, FiniteIdx, SumUpdate
<1>5. SumFunctionOnSet(Charged, S) \in Int
  BY ChargedType
<1> QED BY <1>3, <1>4, <1>5

(* Every step of PSJF keeps the clock within the units charged.            *)
LEMMA OnTimeStep ==
  ASSUME LoopOK, LoopInv', [Next]_vars
  PROVE  OnTime'
<1> USE DEF LoopOK
<1> DEFINE Sum(f) == SumFunctionOnSet(f, Idx)
<1>1. CASE Charge
  <2> SUFFICES ASSUME NoneBelow0', Idx # {}
               PROVE  \E l \in Idx : Clock' <= ready'[l] + Sum(Charged')
    BY DEF OnTime
  <2>1. pc = "charge" /\ pc' = "tick" /\ UNCHANGED <<time, ready>> /\ chosen \in Idx
    BY <1>1, ChargeColumns DEF Charge, table
  <2>2. exec[chosen] > 0
    BY <1>1, <2>1, ChargeColumns, Types DEF NoneBelow0
  <2>3. NoneBelow0
    BY <2>1, <2>2, NobodyBelow0, Types
  <2>4. PICK l \in Idx : time <= ready[l] + Sum(Charged)
    BY <2>1, <2>3 DEF OnTime, Clock
  <2>5. Sum(Charged') = Sum(Charged) + 1 /\ Sum(Charged) \in Nat
    BY <1>1, <2>1, <2>2, ChargedMore, ChargedType
  <2> HIDE DEF Sum
  <2> QED BY <2>1, <2>4, <2>5, Types DEF Clock
<1>2. CASE EndFork
  <2>1. /\ pc = "fork" /\ (pc' = "tick" => IsReady = {})
        /\ (\A j \in Idx : ~Due(j)) /\ UNCHANGED <<time, exec, ready, burst>>
    BY <1>2 DEF EndFork, table
  <2>2. CASE pc' = "tick"
    <3>1. PICK l \in Idx : ready[l] > time
      BY <2>1, <2>2, IdleBeforeArrival
    <3>2. Sum(Charged) \in Nat /\ Charged' = Charged
      BY <2>1, ChargedType DEF Charged
    <3> HIDE DEF Sum
    <3>3. Clock' <= ready'[l] + Sum(Charged')
      BY <2>1, <2>2, <3>1, <3>2, Types DEF Clock
    <3> QED BY <3>3 DEF OnTime, Sum
  <2>3. CASE pc' # "tick"
    BY <2>1, <2>3 DEF OnTime, Clock, NoneBelow0, Charged
  <2> QED BY <2>2, <2>3
<1>3. CASE Tick
  <2>1. /\ pc = "tick" /\ pc' = "while"
        /\ time' = (IF time < MaxTime THEN time + 1 ELSE time)
        /\ UNCHANGED <<exec, ready, burst>>
    BY <1>3 DEF Tick, table
  <2>2. Clock' <= Clock /\ Clock' \in Nat /\ Clock \in Nat
    BY <2>1, Types DEF Clock
  <2>3. Sum(Charged) \in Nat /\ Charged' = Charged
    BY <2>1, ChargedType DEF Charged
  <2> HIDE DEF Sum
  <2> SUFFICES ASSUME NoneBelow0, Idx # {}
               PROVE  \E l \in Idx : Clock' <= ready[l] + Sum(Charged)
    BY <2>1, <2>3 DEF OnTime, NoneBelow0, Sum
  <2>4. PICK l \in Idx : Clock <= ready[l] + Sum(Charged)
    BY DEF OnTime, Sum
  <2> QED BY <2>2, <2>3, <2>4, Types
<1>4. CASE /\ UNCHANGED <<time, exec, ready, burst>>
           /\ (pc # "tick" /\ pc' # "tick") \/ UNCHANGED pc
  BY <1>4 DEF OnTime, Clock, NoneBelow0, Charged
<1>5. CASE \/ While \/ AssignCpu \/ AssignFails \/ Mark \/ RaisePrevious
           \/ \E j \in Idx : ForkChild(j) \/ ForkFatal(j)
  BY <1>4, <1>5 DEF While, ForkChild, ForkFatal, AssignCpu, AssignFails, Mark,
     RaisePrevious, table
<1>6. CASE Children \/ UNCHANGED vars
  BY <1>4, <1>6 DEF Children, parent, vars
<1> QED
  BY <1>1, <1>2, <1>3, <1>5, <1>6 DEF Next, Scheduler, Terminated

(* Every step of PSJF keeps the invariant.                                 *)
LEMMA PsjfStep ==
  ASSUME LoopOK, [Next]_vars
  PROVE  LoopOK'
<1>1. LoopInv'
  BY ForkChildStep, ForkFatalStep, AssignStep, MarkStep, EndForkStep, ChargeStep,
     OtherSteps, TickStep DEF LoopOK, Next, Scheduler, Terminated
<1> QED BY <1>1, CountedStep, OnTimeStep DEF LoopOK

(* The invariant holds in every state of PSJF.                             *)
THEOREM PsjfInv == Spec => []LoopOK
<1>1. LoopOK /\ [Next]_vars => LoopOK'
  BY PsjfStep
<1> QED BY PsjfInit, <1>1, PTL DEF Spec, Safety

(* Type correctness, also on a heap that is not clean: in particular what  *)
(* is chosen is an index of the table, and every ended entry ended by the  *)
(* bound on the clock.                                                     *)
THEOREM TypeCorrect == Spec => []TypeOK
<1>1. LoopOK => TypeOK
  BY DEF LoopOK, LoopInv
<1> QED BY PsjfInv, <1>1, PTL

(***************************************************************************)
(* What keeps an entry of which the flag was clear from being charged: as  *)
(* long as it is not in the table nobody sets its flag.                    *)
(***************************************************************************)
NotBefore(j) == pid[j] # Child(j) => waiting[j] # 1 /\ exec[j] = burst[j]

(* What malloc left is a matter of the past.                               *)
LEMMA FoundStays ==
  ASSUME [Next]_vars
  PROVE  /\ UNCHANGED found
         /\ HeapIsClean' <=> HeapIsClean
<1>1. UNCHANGED found
  BY DEF Next, Scheduler, While, ForkChild, ForkFatal, AssignCpu, AssignFails, Mark,
     EndFork, RaisePrevious, Charge, Tick, Children, Terminated, table, parent, vars
<1> QED BY <1>1 DEF HeapIsClean

(* Only Mark sets a flag, and it enters the pid with it.                   *)
LEMMA NotBeforeStep ==
  ASSUME LoopOK, NEW j \in Idx, NotBefore(j), [Next]_vars
  PROVE  NotBefore(j)'
<1> USE DEF LoopOK
<1>1. CASE Charge
  <2>1. UNCHANGED <<pid, burst>> /\ chosen \in Idx /\ waiting[chosen] = 1
    BY <1>1, ChargeColumns DEF Charge, table
  <2> QED BY <1>1, <2>1, ChargeColumns DEF NotBefore
<1>2. CASE Mark
  <2>1. /\ pid' = [pid EXCEPT ![i] = Child(i)] /\ waiting' = [waiting EXCEPT ![i] = 1]
        /\ UNCHANGED <<exec, burst>> /\ i \in Idx
    BY <1>2 DEF Mark, table, LoopInv, Entered
  <2>2. /\ pid'[j] = IF j = i THEN Child(j) ELSE pid[j]
        /\ waiting'[j] = IF j = i THEN 1 ELSE waiting[j]
    BY <2>1 DEF LoopInv, TypeOK
  <2> QED BY <2>1, <2>2 DEF NotBefore
<1>3. CASE UNCHANGED <<pid, waiting, exec, burst>>
  BY <1>3 DEF NotBefore
<1> QED
  BY <1>1, <1>2, <1>3 DEF Next, Scheduler, While, ForkChild, ForkFatal, AssignCpu,
     AssignFails, EndFork, RaisePrevious, Tick, Children, Terminated, table, parent, vars

(***************************************************************************)
(* Whatever malloc left in the rest of the table, an entry whose flag was  *)
(* clear is charged only once it is forked.                                *)
(***************************************************************************)
THEOREM OnlyTheForked == Spec => []OnlyForkedAreCharged
<1> DEFINE Inv == \A j \in Idx : found[j] # 1 => NotBefore(j)
<1>1. Init => Inv
  BY DEF Init, NotBefore
<1>2. LoopOK /\ Inv /\ [Next]_vars => Inv'
  BY NotBeforeStep, FoundStays
<1>3. LoopOK /\ Inv => OnlyForkedAreCharged
  BY DEF LoopOK, LoopInv, Entered, NotBefore, OnlyForkedAreCharged
<1> HIDE DEF Inv
<1> QED BY PsjfInv, <1>1, <1>2, <1>3, PTL DEF Spec, Safety

-----------------------------------------------------------------------------
(***************************************************************************)
(* The rest is about the program as it is run, with zeroed memory from     *)
(* malloc: then the flag `waiting` tells who has been forked and has not   *)
(* ended, and no unit is charged before the ready time.                    *)
(***************************************************************************)
InLine(j) == pid[j] = Child(j) /\ ended[j] = -1

OnlyForked ==
  \A j \in Idx :
    /\ waiting[j] = 1 => InLine(j)
    /\ ended[j] # -1 => pid[j] = Child(j)
    /\ exec[j] # burst[j] =>
         pid[j] = Child(j) /\ (ready[j] < time \/ (ready[j] = time /\ pc = "tick"))

(* The one that is charged is in line, and was ready by now.               *)
LEMMA ChosenInLine ==
  ASSUME LoopInv, OnlyForked, pc = "charge"
  PROVE  /\ chosen \in Idx /\ InLine(chosen) /\ ready[chosen] <= time
         /\ \A k \in Idx : InLine(k) => exec[chosen] <= exec[k]
<1>1. chosen \in IsReady /\ chosen \in Idx /\ InLine(chosen)
  BY DEF LoopInv, ChosenIsLeast, IsReady, OnlyForked
<1>2. life[Child(chosen)] # "unborn"
  BY <1>1 DEF InLine, LoopInv, Entered
<1>3. ready[chosen] <= time
  BY <1>1, <1>2, Types DEF LoopInv, ForkedWhenDue
<1>4. ASSUME NEW k \in Idx, InLine(k) PROVE exec[chosen] <= exec[k]
  <2>1. k \in IsReady
    BY <1>4 DEF InLine, LoopInv, Flags, IsReady
  <2>2. Less(chosen, k)
    BY <2>1 DEF LoopInv, ChosenIsLeast
  <2> QED BY <1>1, <2>2, Types DEF Less
<1> QED BY <1>1, <1>3, <1>4

(* Every step of PSJF keeps to the forked ones.                            *)
LEMMA OnlyForkedStep ==
  ASSUME LoopOK, OnlyForked, [Next]_vars
  PROVE  OnlyForked'
<1> USE DEF LoopOK
<1>1. CASE Charge
  <2>1. pc = "charge" /\ pc' = "tick" /\ UNCHANGED <<time, pid, ready, burst>>
    BY <1>1 DEF Charge, table
  <2>2. chosen \in Idx /\ InLine(chosen) /\ ready[chosen] <= time
    BY <2>1, ChosenInLine
  <2> SUFFICES ASSUME NEW j \in Idx
               PROVE  /\ waiting'[j] = 1 => pid[j] = Child(j) /\ ended'[j] = -1
                      /\ ended'[j] # -1 => pid[j] = Child(j)
                      /\ exec'[j] # burst[j] => pid[j] = Child(j) /\ ready[j] <= time
    BY <2>1, Types DEF OnlyForked, InLine
  <2>3. CASE j = chosen
    BY <1>1, <2>2, <2>3, ChargeColumns DEF InLine
  <2>4. CASE j # chosen
    BY <1>1, <2>4, ChargeColumns, Types DEF OnlyForked, InLine
  <2> QED BY <2>3, <2>4
<1>2. CASE Mark
  <2>1. /\ pc = "mark" /\ pc' # "tick" /\ UNCHANGED <<time, exec, ended, ready, burst>>
        /\ pid' = [pid EXCEPT ![i] = Child(i)]
        /\ waiting' = [waiting EXCEPT ![i] = 1]
    BY <1>2 DEF Mark, table
  <2>2. i \in Idx /\ pid[i] # Child(i)
    BY <2>1, ChildOfIndex DEF LoopInv, Entered
  <2>3. ended[i] = -1 /\ exec[i] = burst[i]
    BY <2>2 DEF OnlyForked
  <2>4. \A j \in Idx : /\ pid'[j] = IF j = i THEN Child(i) ELSE pid[j]
                       /\ waiting'[j] = IF j = i THEN 1 ELSE waiting[j]
    BY <2>1, <2>2 DEF LoopInv, TypeOK
  <2> QED BY <2>1, <2>2, <2>3, <2>4 DEF OnlyForked, InLine
<1>3. CASE Tick
  <2>1. /\ pc = "tick" /\ time' = (IF time < MaxTime THEN time + 1 ELSE time)
        /\ UNCHANGED <<exec, waiting, pid, ended, ready, burst>>
    BY <1>3 DEF Tick, table
  <2>2. \A j \in Idx : ready[j] <= time => ready[j] < time'
    BY <2>1, Types
  <2> QED BY <2>1, <2>2, Types DEF OnlyForked, InLine
<1>4. CASE /\ UNCHANGED <<time, exec, waiting, pid, ended, ready, burst>>
           /\ pc # "tick" \/ UNCHANGED pc
  BY <1>4 DEF OnlyForked, InLine
<1> QED
  BY <1>1, <1>2, <1>3, <1>4 DEF Next, Scheduler, While, ForkChild, ForkFatal,
     AssignCpu, AssignFails, EndFork, RaisePrevious, Children, Terminated, table,
     parent, vars

(* What passed of a process since j arrived, of the last units that are no *)
(* more than those of j itself, unless it had ended before.                *)
Passed(j) ==
  [k \in Idx |->
     IF (ended[k] = -1 \/ ended[k] > ready[j]) /\ exec[k] < Lesser(burst[k], burst[j])
     THEN Lesser(burst[k], burst[j]) - exec[k]
     ELSE 0]

(* From its arrival on the CPU has only passed units of that kind.         *)
BusySinceReady ==
  NoneBelow0 => \A j \in Idx : InLine(j) =>
    Clock <= ready[j] + SumFunctionOnSet(Passed(j), Idx)

(* Nobody gets more than one unit at a time.                               *)
Paced ==
  NoneBelow0 => \A k \in Idx : exec[k] # burst[k] =>
    ready[k] + (burst[k] - exec[k]) <= Clock

(* A longer one is charged beside j only if it came so much earlier.       *)
EarlyEnough ==
  NoneBelow0 => \A j, k \in Idx :
    InLine(j) /\ burst[k] > burst[j] /\ exec[k] <= burst[j]
    => ready[k] + (burst[k] - burst[j]) <= ready[j]

(* Nobody has been delayed by more than what may delay it.                 *)
EndsInTime ==
  \A j \in Idx :
    ended[j] # -1 => ended[j] <= ready[j] + SumFunctionOnSet(Delay(j), Idx)

DelayOK == BusySinceReady /\ Paced /\ EarlyEnough /\ EndsInTime

CleanOK == LoopOK /\ OnlyForked /\ DelayOK

(* At first nobody is forked and nothing charged.                          *)
LEMMA CleanInit ==
  ASSUME HeapIsClean, Init
  PROVE  CleanOK
<1>1. \A j \in Idx : /\ pid[j] # Child(j) /\ ended[j] = -1 /\ exec[j] = burst[j]
                     /\ waiting[j] # 1
  BY NobodyInTable DEF Init, HeapIsClean
<1>2. DelayOK
  BY <1>1 DEF DelayOK, InLine, BusySinceReady, Paced, EarlyEnough,
     EndsInTime
<1> QED
  BY <1>1, <1>2, PsjfInit DEF CleanOK, OnlyForked, InLine

(* Who is in the table was ready by now.                                   *)
LEMMA InTableIsDue ==
  ASSUME LoopInv, pc \notin {"done", "exited"}, NEW j \in Idx, pid[j] = Child(j)
  PROVE  ready[j] <= time
<1>1. life[Child(j)] # "unborn"
  BY DEF LoopInv, Entered
<1> QED BY <1>1, Types DEF LoopInv, ForkedWhenDue

(* What passed of each, and what may, is a number of units.                *)
LEMMA PassedType ==
  ASSUME LoopInv, NEW j \in Idx
  PROVE  /\ \A k \in Idx : Passed(j)[k] \in Nat /\ Delay(j)[k] \in Nat
         /\ SumFunctionOnSet(Passed(j), Idx) \in Nat
         /\ SumFunctionOnSet(Delay(j), Idx) \in Nat
<1>1. \A k \in Idx : Passed(j)[k] \in Nat /\ Delay(j)[k] \in Nat
  BY Types DEF Passed, Delay, Lesser
<1> QED BY <1>1, FiniteIdx, SumNat

(* While j is in line a charged unit is one that counts, ...               *)
LEMMA PassedMore ==
  ASSUME CleanOK, LoopInv', Charge, exec[chosen] > 0, NEW j \in Idx, InLine(j)
  PROVE  SumFunctionOnSet(Passed(j)', Idx) = SumFunctionOnSet(Passed(j), Idx) + 1
<1> USE DEF CleanOK, LoopOK
<1>1. pc = "charge" /\ UNCHANGED <<time, pid, ready, burst>>
  BY DEF Charge, table
<1>2. /\ chosen \in Idx /\ InLine(chosen)
      /\ exec[chosen] <= exec[j] /\ exec[j] <= burst[j]
      /\ exec[chosen] <= burst[chosen]
  BY <1>1, ChosenInLine DEF LoopInv, Flags
<1>3. ready[j] <= time
  BY <1>1, InTableIsDue DEF InLine
<1>4. exec'[chosen] = exec[chosen] - 1
      /\ \A k \in Idx : k # chosen => exec'[k] = exec[k] /\ ended'[k] = ended[k]
  BY <1>2, ChargeColumns, Types
<1>5. /\ ended[chosen] = -1
      /\ ended'[chosen] = -1 \/ ended'[chosen] > ready[j]
  <2>1. ended'[chosen] = ended[chosen] \/ ended'[chosen] = time + 1
    BY ChargeColumns
  <2> QED BY <1>2, <1>3, <2>1, Types DEF InLine
<1>6. /\ \A k \in Idx \ {chosen} : Passed(j)[k] = Passed(j)'[k]
      /\ Passed(j)'[chosen] = Passed(j)[chosen] + 1
  <2>1. \A k \in Idx \ {chosen} : Passed(j)[k] = Passed(j)'[k]
    BY <1>1, <1>4 DEF Passed, Lesser
  <2>2. Passed(j)[chosen] = Lesser(burst[chosen], burst[j]) - exec[chosen]
    BY <1>2, <1>5, Types DEF Passed, Lesser
  <2>3. Passed(j)'[chosen] = Lesser(burst[chosen], burst[j]) - (exec[chosen] - 1)
    BY <1>1, <1>2, <1>4, <1>5, Types DEF Passed, Lesser
  <2> QED BY <1>2, <2>1, <2>2, <2>3, Types DEF Lesser
<1>7. \A k \in Idx : Passed(j)[k] \in Int /\ Passed(j)'[k] \in Int
  BY <1>2, <1>6, PassedType
<1>8. SumFunctionOnSet(Passed(j)', Idx)
        = (SumFunctionOnSet(Passed(j), Idx) + Passed(j)'[chosen]) - Passed(j)[chosen]
  BY <1>2, <1>6, <1>7, FiniteIdx, SumUpdate
<1> QED BY <1>2, <1>6, <1>7, <1>8, PassedType

(* ... and when j ends, all that passed since is what may delay it.        *)
LEMMA PassedMayDelay ==
  ASSUME CleanOK, LoopInv', Charge, exec[chosen] = 1, NEW k \in Idx
  PROVE  /\ Passed(chosen)'[k] \in Nat /\ Delay(chosen)'[k] \in Nat
         /\ Passed(chosen)'[k] <= Delay(chosen)'[k]
<1> USE DEF CleanOK, LoopOK
<1>1. /\ pc = "charge" /\ pc' = "tick"
      /\ UNCHANGED <<time, chosen, pid, ready, burst>>
      /\ chosen \in Idx /\ InLine(chosen) /\ NoneBelow0
  BY ChosenInLine, NobodyBelow0, Types DEF Charge, table
<1>2. /\ exec'[k] \in Int /\ 0 <= exec'[k] /\ exec[k] <= exec'[k] + 1
      /\ exec[k] # exec'[k] => k = chosen
      /\ ended'[chosen] = time + 1
  BY <1>1, ChargeColumns, Types DEF NoneBelow0
<1>3. ASSUME exec'[k] < Lesser(burst[k], burst[chosen]),
             ended'[k] = -1 \/ ended'[k] > ready[chosen]
      PROVE  MayDelay(k, chosen)'
  <2>1. exec'[k] # burst[k] /\ exec[k] <= burst[chosen]
    BY <1>1, <1>2, <1>3, Types DEF Lesser
  <2>2. ready[k] <= time
    <3>1. CASE k = chosen
      BY <1>1, <3>1, ChosenInLine
    <3>2. CASE k # chosen
      BY <1>1, <1>2, <2>1, <3>2, Types DEF OnlyForked
    <3> QED BY <3>1, <3>2
  <2>3. burst[k] > burst[chosen] => ready[k] + (burst[k] - burst[chosen]) <= ready[chosen]
    BY <1>1, <2>1 DEF DelayOK, EarlyEnough
  <2> QED BY <1>1, <1>2, <1>3, <2>2, <2>3, Types DEF MayDelay
<1>4. Delay(chosen)'[k] = IF MayDelay(k, chosen)' THEN Lesser(burst[k], burst[chosen]) ELSE 0
  BY <1>1 DEF Delay, Lesser
<1>5. Passed(chosen)'[k] =
        IF (ended'[k] = -1 \/ ended'[k] > ready[chosen])
           /\ exec'[k] < Lesser(burst[k], burst[chosen])
        THEN Lesser(burst[k], burst[chosen]) - exec'[k]
        ELSE 0
  BY <1>1 DEF Passed, Lesser
<1>6. Lesser(burst[k], burst[chosen]) \in Nat
  BY <1>1, Types DEF Lesser
<1> QED BY <1>2, <1>3, <1>4, <1>5, <1>6

(* A unit passes only for those who may be charged beside everybody in     *)
(* line.                                                                   *)
LEMMA CleanCharge ==
  ASSUME CleanOK, LoopInv', Charge
  PROVE  DelayOK'
<1> USE DEF CleanOK, LoopOK
<1>1. /\ pc = "charge" /\ pc' = "tick" /\ UNCHANGED <<time, pid, ready, burst>>
      /\ chosen \in Idx /\ InLine(chosen) /\ ready[chosen] <= time
      /\ Clock = time /\ Clock' = time + 1
  BY ChosenInLine DEF Charge, table, Clock
<1>2. \A j \in Idx : InLine(j)' => InLine(j)
  BY <1>1, ChargeColumns DEF InLine
<1>3. NoneBelow0' => NoneBelow0 /\ exec[chosen] > 0
  <2>1. NoneBelow0' => exec[chosen] > 0
    BY <1>1, ChargeColumns, Types DEF NoneBelow0
  <2> QED BY <1>1, <2>1, NobodyBelow0, Types
<1>4. BusySinceReady'
  <2> SUFFICES ASSUME NoneBelow0', NEW j \in Idx, InLine(j)'
               PROVE  time + 1 <= ready[j] + SumFunctionOnSet(Passed(j)', Idx)
    BY <1>1 DEF BusySinceReady
  <2>1. time <= ready[j] + SumFunctionOnSet(Passed(j), Idx)
    BY <1>1, <1>2, <1>3 DEF DelayOK, BusySinceReady
  <2> QED BY <1>2, <1>3, <2>1, PassedMore, PassedType, Types
<1>5. Paced'
  <2> SUFFICES ASSUME NoneBelow0', NEW k \in Idx, exec'[k] # burst[k]
               PROVE  ready[k] + (burst[k] - exec'[k]) <= time + 1
    BY <1>1 DEF Paced
  <2>1. exec[k] # burst[k] => ready[k] + (burst[k] - exec[k]) <= time
    BY <1>1, <1>3 DEF DelayOK, Paced
  <2>2. CASE k = chosen
    BY <1>1, <1>3, <2>1, <2>2, ChargeColumns, Types
  <2>3. CASE k # chosen
    BY <2>1, <2>3, ChargeColumns, Types
  <2> QED BY <2>2, <2>3
<1>6. EarlyEnough'
  <2> SUFFICES ASSUME NoneBelow0', NEW j \in Idx, NEW k \in Idx, InLine(j)',
                      burst[k] > burst[j], exec'[k] <= burst[j]
               PROVE  ready[k] + (burst[k] - burst[j]) <= ready[j]
    BY <1>1 DEF EarlyEnough
  <2>1. exec[k] <= burst[j]
    <3>1. CASE k = chosen
      <4>1. exec[chosen] <= exec[j] /\ exec[j] <= burst[j]
        BY <1>1, <1>2, ChosenInLine DEF LoopInv, Flags
      <4> QED BY <3>1, <4>1, Types
    <3>2. CASE k # chosen
      BY <3>2, ChargeColumns
    <3> QED BY <3>1, <3>2
  <2> QED BY <1>2, <1>3, <2>1 DEF DelayOK, EarlyEnough
<1>7. EndsInTime'
  <2> SUFFICES ASSUME NEW j \in Idx, ended'[j] # -1
               PROVE  ended'[j] <= ready[j] + SumFunctionOnSet(Delay(j)', Idx)
    BY <1>1 DEF EndsInTime
  <2>1. CASE ended'[j] = ended[j]
    <3>1. ready[j] <= time
      BY <1>1, <2>1, InTableIsDue DEF OnlyForked
    <3>2. \A k \in Idx : \/ ended'[k] = ended[k]
                         \/ ended[k] = -1 /\ ended'[k] > ready[j]
      BY <1>1, <3>1, ChargeColumns, Types DEF InLine
    <3>3. \A k \in Idx : MayDelay(k, j)' <=> MayDelay(k, j)
      BY <1>1, <2>1, <3>2 DEF MayDelay
    <3>4. Delay(j)' = Delay(j)
      BY <1>1, <3>3 DEF Delay, Lesser
    <3> QED BY <2>1, <3>4 DEF DelayOK, EndsInTime
  <2>2. CASE ended'[j] # ended[j]
    <3>1. j = chosen /\ exec[chosen] = 1 /\ ended'[j] = time + 1
      BY <1>1, <2>2, ChargeColumns
    <3>2. time + 1 <= ready[j] + SumFunctionOnSet(Passed(j)', Idx)
      <4>1. NoneBelow0
        BY <1>1, <3>1, NobodyBelow0, Types
      <4>2. time <= ready[j] + SumFunctionOnSet(Passed(j), Idx)
        BY <1>1, <3>1, <4>1 DEF DelayOK, BusySinceReady
      <4> QED BY <1>1, <3>1, <4>2, PassedMore, PassedType, Types
    <3>3. /\ \A k \in Idx : /\ Passed(j)'[k] \in Int /\ Delay(j)'[k] \in Int
                            /\ Passed(j)'[k] <= Delay(j)'[k]
          /\ SumFunctionOnSet(Passed(j)', Idx) \in Int
          /\ SumFunctionOnSet(Delay(j)', Idx) \in Int
      <4>1. chosen' = chosen
        BY DEF Charge
      <4>2. \A k \in Idx : /\ Passed(j)'[k] \in Nat /\ Delay(j)'[k] \in Nat
                           /\ Passed(j)'[k] <= Delay(j)'[k]
        BY <3>1, <4>1, PassedMayDelay DEF Passed, Delay, MayDelay
      <4>3. \A k \in Idx : Passed(j)'[k] \in Int /\ Delay(j)'[k] \in Int
        BY <4>2
      <4> QED BY <4>2, <4>3, FiniteIdx, SumType
    <3>4. SumFunctionOnSet(Passed(j)', Idx) <= SumFunctionOnSet(Delay(j)', Idx)
      BY <3>3, FiniteIdx, SumMonotone
    <3> QED BY <3>1, <3>2, <3>3, <3>4, Types
  <2> QED BY <2>1, <2>2
<1> QED BY <1>4, <1>5, <1>6, <1>7 DEF DelayOK

(* A new one in line: nothing has passed since, and longer ones that have  *)
(* been charged were ready as much earlier.                                *)
LEMMA CleanMark ==
  ASSUME CleanOK, LoopInv', Mark
  PROVE  DelayOK'
<1> USE DEF CleanOK, LoopOK
<1>1. /\ pc = "mark" /\ pc' = "fork"
      /\ pid' = [pid EXCEPT ![i] = Child(i)]
      /\ UNCHANGED <<time, exec, ended, ready, burst>>
  BY DEF Mark, table
<1>2. i \in Idx /\ ready[i] = time /\ Clock = time /\ Clock' = time
  BY <1>1 DEF LoopInv, Entered, Clock
<1>3. \A j \in Idx : InLine(j)' => InLine(j) \/ j = i
  BY <1>1 DEF InLine, LoopInv, TypeOK
<1>4. /\ NoneBelow0' = NoneBelow0
      /\ \A j \in Idx : Passed(j)' = Passed(j) /\ Delay(j)' = Delay(j)
  BY <1>1 DEF NoneBelow0, Passed, Delay, MayDelay, Lesser
<1>5. BusySinceReady'
  <2> SUFFICES ASSUME NoneBelow0, NEW j \in Idx, InLine(j)'
               PROVE  time <= ready[j] + SumFunctionOnSet(Passed(j), Idx)
    BY <1>1, <1>2, <1>4 DEF BusySinceReady
  <2>1. CASE InLine(j)
    BY <1>2, <2>1 DEF DelayOK, BusySinceReady
  <2>2. CASE j = i
    BY <1>2, <2>2, PassedType, Types
  <2> QED BY <1>3, <2>1, <2>2
<1>6. Paced'
  BY <1>1, <1>2, <1>4 DEF DelayOK, Paced
<1>7. EarlyEnough'
  <2> SUFFICES ASSUME NoneBelow0, NEW j \in Idx, NEW k \in Idx, InLine(j)',
                      burst[k] > burst[j], exec[k] <= burst[j]
               PROVE  ready[k] + (burst[k] - burst[j]) <= ready[j]
    BY <1>1, <1>4 DEF EarlyEnough
  <2>1. CASE InLine(j)
    BY <2>1 DEF DelayOK, EarlyEnough
  <2>2. CASE j = i
    <3>1. exec[k] # burst[k]
      BY Types
    <3>2. ready[k] + (burst[k] - exec[k]) <= time
      BY <1>2, <3>1 DEF DelayOK, Paced
    <3> QED BY <1>2, <2>2, <3>2, Types
  <2> QED BY <1>3, <2>1, <2>2
<1>8. EndsInTime'
  BY <1>1, <1>4 DEF DelayOK, EndsInTime
<1> QED BY <1>5, <1>6, <1>7, <1>8 DEF DelayOK

(* There is time for the unit that is charged: PSJF's clock shows it.      *)
LEMMA RoomForUnit ==
  ASSUME LoopOK, NoneBelow0, Idx # {}, pc = "tick"
  PROVE  time < MaxTime
<1> USE DEF LoopOK
<1>1. PICK l \in Idx : time + 1 <= ready[l] + SumFunctionOnSet(Charged, Idx)
  BY DEF OnTime, Clock
<1>2. PICK m \in Idx : \A j \in Idx : burst[j] <= burst[m]
  BY LongestExists
<1>3. SumFunctionOnSet(Charged, Idx) <= N * burst[m]
  <2>1. \A j \in Idx : Charged[j] \in Int /\ Charged[j] <= burst[m]
    BY <1>2, ChargedType, Types DEF NoneBelow0
  <2>2. burst[m] \in Int
    BY Types
  <2> QED BY <2>1, <2>2, FiniteIdx, SumBound
<1>4. ready[l] + (N * burst[m]) <= MaxTime
  BY Types, PsjfClockAssumption
<1>5. /\ time \in Nat /\ ready[l] \in Nat /\ N * burst[m] \in Nat /\ MaxTime \in Nat
      /\ SumFunctionOnSet(Charged, Idx) \in Nat
  BY Types, ChargedType
<1> QED BY <1>1, <1>3, <1>4, <1>5

(* The clock goes on without a unit only when nobody is in line.           *)
LEMMA CleanIdle ==
  ASSUME CleanOK, EndFork \/ Tick
  PROVE  DelayOK'
<1> USE DEF CleanOK, LoopOK
<1>1. UNCHANGED <<exec, pid, ended, ready, burst>>
  BY DEF EndFork, Tick, table
<1>2. /\ \A j \in Idx : /\ InLine(j)' = InLine(j)
                        /\ Passed(j)' = Passed(j) /\ Delay(j)' = Delay(j)
      /\ NoneBelow0' = NoneBelow0
  BY <1>1 DEF InLine, NoneBelow0, Passed, Delay, MayDelay, Lesser
<1>3. (\E j \in Idx : InLine(j)) => Clock' <= Clock
  <2>1. CASE EndFork
    <3>1. /\ pc = "fork" /\ (pc' = "tick" <=> IsReady = {}) /\ time' = time
      BY <2>1 DEF EndFork
    <3>2. \A j \in Idx : InLine(j) => j \in IsReady
      BY DEF LoopInv, Flags, InLine, IsReady
    <3> QED BY <3>1, <3>2, Types DEF Clock
  <2>2. CASE Tick
    <3>1. /\ pc = "tick" /\ pc' = "while"
          /\ time' = IF time < MaxTime THEN time + 1 ELSE time
      BY <2>2 DEF Tick
    <3> QED BY <3>1, Types DEF Clock
  <2> QED BY <2>1, <2>2
<1>4. Clock \in Nat /\ Clock' \in Nat
  BY Types DEF Clock, EndFork, Tick
<1>5. NoneBelow0 /\ Idx # {} => Clock <= Clock'
  <2>1. CASE EndFork
    BY <2>1, Types DEF EndFork, Clock
  <2>2. CASE Tick
    BY <2>2, RoomForUnit, Types DEF Tick, Clock
  <2> QED BY <2>1, <2>2
<1>6. BusySinceReady'
  <2> SUFFICES ASSUME NoneBelow0, NEW j \in Idx, InLine(j)
               PROVE  Clock' <= ready[j] + SumFunctionOnSet(Passed(j), Idx)
    BY <1>1, <1>2 DEF BusySinceReady
  <2>1. Clock <= ready[j] + SumFunctionOnSet(Passed(j), Idx)
    BY DEF DelayOK, BusySinceReady
  <2> QED BY <1>3, <1>4, <2>1, PassedType, Types
<1>7. Paced'
  <2> SUFFICES ASSUME NoneBelow0, NEW k \in Idx, exec[k] # burst[k]
               PROVE  ready[k] + (burst[k] - exec[k]) <= Clock'
    BY <1>1, <1>2 DEF Paced
  <2>1. ready[k] + (burst[k] - exec[k]) <= Clock
    BY DEF DelayOK, Paced
  <2> QED BY <1>4, <1>5, <2>1, Types
<1>8. EarlyEnough' /\ EndsInTime'
  BY <1>1, <1>2 DEF DelayOK, EarlyEnough, EndsInTime
<1> QED BY <1>6, <1>7, <1>8 DEF DelayOK

(* Every step keeps what holds on a clean heap.                            *)
LEMMA CleanStep ==
  ASSUME CleanOK, LoopOK', [Next]_vars
  PROVE  CleanOK'
<1> SUFFICES DelayOK'
  BY OnlyForkedStep DEF CleanOK
<1>1. CASE Charge
  BY <1>1, CleanCharge DEF LoopOK
<1>2. CASE Mark
  BY <1>2, CleanMark DEF LoopOK
<1>3. CASE EndFork \/ Tick
  BY <1>3, CleanIdle
<1>4. CASE /\ UNCHANGED <<time, exec, pid, ended, ready, burst>>
           /\ (pc # "tick" /\ pc' # "tick") \/ UNCHANGED pc
  <2>1. \A j \in Idx : /\ InLine(j)' = InLine(j)
                       /\ Passed(j)' = Passed(j) /\ Delay(j)' = Delay(j)
    BY <1>4 DEF InLine, Passed, Delay, MayDelay, Lesser
  <2>2. NoneBelow0' = NoneBelow0 /\ Clock' = Clock
    BY <1>4 DEF NoneBelow0, Clock
  <2> QED
    BY <1>4, <2>1, <2>2 DEF CleanOK, DelayOK, BusySinceReady, Paced, EarlyEnough,
       EndsInTime
<1>5. CASE \/ While \/ AssignCpu \/ AssignFails \/ RaisePrevious
           \/ \E j \in Idx : ForkChild(j) \/ ForkFatal(j)
  BY <1>4, <1>5 DEF While, ForkChild, ForkFatal, AssignCpu, AssignFails,
     RaisePrevious, table
<1>6. CASE Children \/ UNCHANGED vars
  BY <1>4, <1>6 DEF Children, parent, vars
<1> QED
  BY <1>1, <1>2, <1>3, <1>5, <1>6 DEF Next, Scheduler, Terminated

(* On a clean heap all of it holds in every state of PSJF.                 *)
LEMMA CleanInv == Spec => [](HeapIsClean => CleanOK)
<1>1. Init => (HeapIsClean => CleanOK)
  BY CleanInit
<1>2. LoopOK' /\ (HeapIsClean => CleanOK) /\ [Next]_vars => (HeapIsClean => CleanOK)'
  BY CleanStep, FoundStays
<1> QED BY PsjfInv, <1>1, <1>2, PTL DEF Spec, Safety

(* If malloc set no flag, a process waits for none longer than it runs     *)
(* itself, and for a longer one only if that came enough earlier.          *)
THEOREM DelayIsBounded == Spec => []OnlyShorterOrEarlierDelay
<1>1. (HeapIsClean => CleanOK) => OnlyShorterOrEarlierDelay
  BY DEF CleanOK, DelayOK, EndsInTime, OnlyShorterOrEarlierDelay
<1> QED BY CleanInv, <1>1, PTL

-----------------------------------------------------------------------------
(***************************************************************************)
(* The schedule.  If malloc set no flag and every process has a unit to    *)
(* run, nothing is counted below 0, and who waits is who waits ideally.    *)
(***************************************************************************)
SomeUnits    == 0 \notin Bursts
AllHaveUnits == \A j \in Idx : burst[j] > 0

Unserved ==
  /\ \A j \in Idx : exec[j] >= 0 /\ (ended[j] = -1 => exec[j] > 0)
  /\ pc = "tick" => Idx # {}

ServedOK == LoopOK /\ OnlyForked /\ Unserved

(* At first everybody is unserved.                                         *)
LEMMA UnservedInit ==
  ASSUME AllHaveUnits, Init
  PROVE  Unserved
<1>1. burst = exec /\ \A j \in Idx : exec[j] \in Bursts /\ Bursts \subseteq Nat
  BY PsjfAssumption DEF Init
<1>2. \A j \in Idx : exec[j] \in Nat /\ exec[j] > 0
  BY <1>1 DEF AllHaveUnits
<1> QED BY <1>2 DEF Unserved, Init

(* The one that is charged has a unit left, and ends with the last one.    *)
LEMMA UnservedStep ==
  ASSUME ServedOK, [Next]_vars
  PROVE  Unserved'
<1> USE DEF ServedOK, LoopOK
<1>1. CASE Charge
  <2>1. pc = "charge" /\ chosen \in Idx /\ InLine(chosen)
    BY <1>1, ChosenInLine DEF Charge
  <2>2. exec[chosen] > 0
    BY <2>1 DEF InLine, Unserved
  <2>3. \A j \in Idx : exec'[j] >= 0 /\ (ended'[j] = -1 => exec'[j] > 0)
    <3>1. time + 1 # -1
      BY Types
    <3> QED BY <1>1, <2>1, <2>2, <3>1, ChargeColumns, Types DEF Unserved
  <2> QED BY <2>1, <2>3 DEF Unserved
<1>2. CASE EndFork
  <2>1. /\ pc = "fork" /\ UNCHANGED <<exec, ended>>
    BY <1>2 DEF EndFork
  <2>2. Idx # {}
    <3>1. finished # N
      BY <2>1 DEF LoopInv, ChosenIsLeast
    <3>2. Idx = {} => Ended = {} /\ N = 0
      BY FiniteIdx, FS_EmptySet DEF Ended
    <3> QED BY <3>1, <3>2, FS_EmptySet DEF Counted
  <2> QED BY <2>1, <2>2 DEF Unserved
<1>3. CASE UNCHANGED <<exec, ended>> /\ (pc' # "tick" \/ UNCHANGED pc)
  BY <1>3 DEF Unserved
<1> QED
  BY <1>1, <1>2, <1>3 DEF Next, Scheduler, While, ForkChild, ForkFatal, AssignCpu,
     AssignFails, Mark, RaisePrevious, Tick, Children, Terminated, parent, vars

(* All of this holds in every state of PSJF.                               *)
LEMMA ServedInv ==
  ASSUME SomeUnits
  PROVE  Spec => [](HeapIsClean => ServedOK)
<1>1. Init => Unserved
  <2>1. Init => \A j \in Idx : burst[j] \in Bursts /\ burst[j] \in Nat
    BY PsjfAssumption DEF Init
  <2>2. Init => AllHaveUnits
    BY <2>1 DEF SomeUnits, AllHaveUnits
  <2> QED BY <2>2, UnservedInit
<1> DEFINE Inv == HeapIsClean => Unserved
<1>2. (HeapIsClean => CleanOK) /\ Inv /\ [Next]_vars => Inv'
  BY UnservedStep, FoundStays DEF CleanOK, ServedOK
<1>3. (HeapIsClean => CleanOK) /\ Inv => (HeapIsClean => ServedOK)
  BY DEF CleanOK, ServedOK
<1>4. Init => Inv
  BY <1>1
<1> HIDE DEF Inv
<1> QED BY CleanInv, <1>2, <1>3, <1>4, PTL DEF Spec, Safety

(* As nothing is below 0, the clock never reaches its bound.               *)
LEMMA RoomToTick ==
  ASSUME ServedOK, pc = "tick"
  PROVE  time < MaxTime
BY RoomForUnit DEF ServedOK, LoopOK, Unserved, NoneBelow0

(* Who is forked has arrived, and a failing fork loses its process.        *)
Arrived == {j \in Idx : pid[j] = Child(j)}
Lost    == {j \in Idx : life[Child(j)] = "failed"}

(* When the fork loop is over, whoever is due has been dealt with.         *)
LEMMA IdealSettled ==
  ASSUME LoopInv, pc \notin {"done", "exited", "assign", "mark", "while", "tick"},
         pc = "fork" => \A j \in Idx : ~Due(j)
  PROVE  Ideal!Settled
<1>1. Clock = time /\ pc \in {"fork", "raise", "charge"}
  BY DEF LoopInv, TypeOK, Clock
<1>2. ASSUME NEW j \in Idx, ready[j] <= time PROVE pid[j] = Child(j)
  <2>1. life[Child(j)] # "unborn"
    BY <1>1, <1>2, Types DEF LoopInv, ForkedWhenDue, PastFork, Due
  <2>2. life[Child(j)] \in {"alive", "zombie"}
    BY <1>1, <2>1, ChildOfIndex DEF LoopInv, Entered, TypeOK, KernelTypeOK, Lives
  <2> QED BY <1>1, <2>2 DEF LoopInv, Entered
<1> QED BY <1>1, <1>2 DEF Ideal!Settled, Ideal!Job, Idx, Clock

(* Who waits ideally is who is in line, and so is flagged.                 *)
LEMMA IdealWaiting ==
  ASSUME ServedOK
  PROVE  Ideal!Waiting = IsReady
<1>1. ASSUME NEW j \in Idx PROVE (pid[j] = Child(j) /\ exec[j] > 0) <=> waiting[j] = 1
  BY Types DEF ServedOK, LoopOK, LoopInv, Flags, OnlyForked, Unserved, InLine
<1> QED BY <1>1 DEF Ideal!Waiting, IsReady

(* A process arrives when it is in the table, ...                          *)
LEMMA IdealArrives ==
  ASSUME LoopInv, Mark
  PROVE  \E j \in Idx : Ideal!Arrive(j)
<1>1. /\ pc = "mark" /\ pc' = "fork"
      /\ pid' = [pid EXCEPT ![i] = Child(i)]
      /\ UNCHANGED <<life, time, exec, ready>>
  BY DEF Mark, table
<1>2. /\ i \in Idx /\ ready[i] = time /\ pid[i] # Child(i)
      /\ life[Child(i)] # "failed"
  BY <1>1, ChildOfIndex DEF LoopInv, Entered
<1>3. Clock = time /\ Clock' = time /\ Lost' = Lost
  BY <1>1 DEF Clock, Lost
<1>4. Arrived' = Arrived \cup {i} /\ i \notin Arrived \cup Lost
  <2>1. \A j \in Idx : pid'[j] = IF j = i THEN Child(i) ELSE pid[j]
    BY <1>1, <1>2 DEF LoopInv, TypeOK
  <2> QED BY <1>2, <2>1 DEF Arrived, Lost
<1>5. \A j \in Idx : j = i => Ideal!Arrive(j)
  BY <1>1, <1>2, <1>3, <1>4 DEF Ideal!Arrive, Clock, Arrived, Lost
<1> QED BY <1>2, <1>5

(* ... or never, when its fork fails.                                      *)
LEMMA IdealLoses ==
  ASSUME LoopInv, NEW j \in Idx, ForkFatal(j)
  PROVE  Ideal!Arrive(j)
<1>1. /\ pc = "fork" /\ pc' = "exited" /\ FirstDue(j)
      /\ life' = [life EXCEPT ![Child(j)] = "failed"]
      /\ UNCHANGED <<time, exec, pid, ready>>
  BY DEF ForkFatal, ForkFails, table
<1>2. life[Child(j)] = "unborn" /\ pid[j] # Child(j) /\ ready[j] = time
  BY <1>1, DueIsUnborn
<1>3. Clock = time /\ Clock' = time /\ Arrived' = Arrived
  BY <1>1 DEF Clock, Arrived
<1>4. Lost' = Lost \cup {j} /\ j \notin Arrived \cup Lost
  <2>1. \A k \in Idx :
          life'[Child(k)] = IF k = j THEN "failed" ELSE life[Child(k)]
    BY <1>1, ChildOfIndex DEF LoopInv, TypeOK, KernelTypeOK
  <2> QED BY <1>2, <2>1 DEF Arrived, Lost
<1> QED BY <1>1, <1>2, <1>3, <1>4 DEF Ideal!Arrive, Clock, Arrived, Lost

(* A charged unit is one of service to a process of least need.            *)
LEMMA IdealServes ==
  ASSUME ServedOK, Charge
  PROVE  \E j \in Idx : Ideal!ServeShortest(j)
<1> USE DEF ServedOK, LoopOK
<1>1. /\ pc = "charge" /\ pc' = "tick" /\ UNCHANGED <<life, time, pid, ready>>
  BY DEF Charge, table
<1>2. /\ chosen \in Idx /\ chosen \in Ideal!Waiting
      /\ \A k \in Ideal!Waiting : exec[chosen] <= exec[k]
  <2>1. chosen \in IsReady /\ \A k \in IsReady : Less(chosen, k)
    BY <1>1 DEF LoopInv, ChosenIsLeast
  <2> QED BY <2>1, IdealWaiting, Types DEF Less, IsReady
<1>3. Ideal!Settled
  BY <1>1, IdealSettled
<1>4. exec' = [exec EXCEPT ![chosen] = @ - 1]
  <2>1. exec[chosen] >= 0 /\ exec[chosen] \in Int
    BY <1>2, Types DEF Unserved
  <2>2. (IF exec[chosen] < 0 THEN -1 ELSE exec[chosen] - 1) = exec[chosen] - 1
    BY <2>1
  <2> QED BY <2>2 DEF Charge
<1>5. Clock = time /\ Clock' = time + 1 /\ Arrived' = Arrived /\ Lost' = Lost
  BY <1>1 DEF Clock, Arrived, Lost
<1>6. \A j \in Idx : j = chosen => Ideal!ServeShortest(j)
  BY <1>1, <1>2, <1>3, <1>4, <1>5 DEF Ideal!ServeShortest, Clock, Arrived, Lost
<1> QED BY <1>2, <1>6

(* The loop goes on without a choice only when nobody waits.               *)
LEMMA IdealIdles ==
  ASSUME ServedOK, EndFork, pc' = "tick"
  PROVE  Ideal!Idle
<1> USE DEF ServedOK, LoopOK
<1>1. /\ pc = "fork" /\ (\A j \in Idx : ~Due(j)) /\ IsReady = {}
      /\ UNCHANGED <<life, time, exec, pid, ready>>
  BY DEF EndFork, kernel, table
<1>2. Ideal!Settled /\ Ideal!Waiting = {}
  BY <1>1, IdealSettled, IdealWaiting
<1>3. Clock = time /\ Clock' = time + 1 /\ Arrived' = Arrived /\ Lost' = Lost
  BY <1>1 DEF Clock, Arrived, Lost
<1> QED BY <1>1, <1>2, <1>3 DEF Ideal!Idle, Clock, Arrived, Lost

(* The other steps are none of the schedule.                               *)
LEMMA IdealStutters ==
  ASSUME ServedOK,
         \/ While \/ AssignCpu \/ AssignFails \/ RaisePrevious \/ Tick
         \/ EndFork /\ pc' # "tick"
         \/ \E j \in Idx : ForkChild(j)
         \/ Children \/ UNCHANGED vars
  PROVE  UNCHANGED Ideal!ideal
<1> USE DEF ServedOK, LoopOK
<1>1. UNCHANGED <<ready, exec, pid>>
  BY DEF While, AssignCpu, AssignFails, RaisePrevious, Tick, EndFork, ForkChild,
     Children, parent, vars, table
<1>2. Lost' = Lost
  <2>1. CASE \E j \in Idx : ForkChild(j)
    <3>1. PICK j \in Idx : ForkChild(j)
      BY <2>1
    <3>2. FirstDue(j) /\ pc = "fork" /\ life' = [life EXCEPT ![Child(j)] = "alive"]
      BY <3>1 DEF ForkChild, Fork
    <3>3. life[Child(j)] = "unborn"
      BY <3>2, DueIsUnborn
    <3>4. \A k \in Idx :
            life'[Child(k)] = IF k = j THEN "alive" ELSE life[Child(k)]
      BY <3>2, ChildOfIndex DEF LoopInv, TypeOK, KernelTypeOK
    <3> QED BY <3>3, <3>4 DEF Lost
  <2>2. CASE Children
    <3>1. \A j \in Idx :
            \/ life'[Child(j)] = life[Child(j)]
            \/ life[Child(j)] = "alive" /\ life'[Child(j)] = "zombie"
      BY <2>2, ChildOfIndex DEF Children, ChildStep, ChildUnit, ChildExit, LoopInv,
         TypeOK, KernelTypeOK
    <3> QED BY <3>1 DEF Lost
  <2>3. CASE life' = life
    BY <2>3 DEF Lost
  <2> QED
    BY <2>1, <2>2, <2>3 DEF While, AssignCpu, AssignFails, RaisePrevious, Tick,
       EndFork, kernel, vars
<1>3. Clock' = Clock
  <2>1. CASE Tick
    BY <2>1, RoomToTick DEF Tick, Clock
  <2>2. CASE /\ UNCHANGED time
             /\ (pc # "tick" /\ pc' # "tick") \/ UNCHANGED pc
    BY <2>2 DEF Clock
  <2> QED
    BY <2>1, <2>2 DEF While, AssignCpu, AssignFails, RaisePrevious, EndFork,
       ForkChild, Children, parent, vars
<1>4. Arrived' = Arrived
  BY <1>1 DEF Arrived
<1> QED BY <1>1, <1>2, <1>3, <1>4 DEF Ideal!ideal, Clock, Arrived, Lost

(* Every step is one of the ideal schedule, or none.                       *)
LEMMA PsjfSimulates ==
  ASSUME ServedOK, [Next]_vars
  PROVE  [Ideal!PsjfNext]_Ideal!ideal
<1> USE DEF ServedOK, LoopOK
<1>1. Ideal!Job = Idx
  BY DEF Ideal!Job, Idx
<1>2. CASE Mark
  BY <1>1, <1>2, IdealArrives DEF Ideal!PsjfNext
<1>3. ASSUME NEW j \in Idx, ForkFatal(j) PROVE Ideal!PsjfNext
  BY <1>1, <1>3, IdealLoses DEF Ideal!PsjfNext
<1>4. CASE Charge
  BY <1>1, <1>4, IdealServes DEF Ideal!PsjfNext
<1>5. CASE EndFork /\ pc' = "tick"
  BY <1>5, IdealIdles DEF Ideal!PsjfNext
<1> QED
  BY <1>2, <1>3, <1>4, <1>5, IdealStutters DEF Next, Scheduler, Terminated

(* If malloc set no flag and every process has a unit to run, the units    *)
(* PSJF.c charges follow the ideal preemptive shortest-job-first schedule. *)
THEOREM Implements ==
  ASSUME SomeUnits
  PROVE  Spec => FollowsIdeal
<1>1. Init => Ideal!Init
  <2> SUFFICES ASSUME Init PROVE Ideal!Init
    OBVIOUS
  <2>1. /\ ready \in [Idx -> Nat] /\ exec \in [Idx -> Nat]
    <3>1. ready \in [Idx -> Readies] /\ exec \in [Idx -> Bursts]
      BY DEF Init
    <3>2. Readies \subseteq Nat /\ Bursts \subseteq Nat
      BY PsjfAssumption
    <3> QED BY <3>1, <3>2
  <2>2. Clock = 0 /\ Arrived = {} /\ Lost = {}
    BY NobodyInTable, ChildOfIndex DEF Init, KernelInit, Clock, Arrived, Lost
  <2> QED BY <2>1, <2>2 DEF Ideal!Init, Ideal!Job, Idx, Clock, Arrived, Lost
<1>2. (HeapIsClean => ServedOK) /\ [Next]_vars
      => [HeapIsClean => Ideal!PsjfNext]_(Ideal!ideal)
  BY PsjfSimulates
<1>3. Init => (HeapIsClean => Ideal!Init)
  BY <1>1
<1> QED
  BY ServedInv, <1>2, <1>3, PTL DEF Spec, Safety, FollowsIdeal

-----------------------------------------------------------------------------
(***************************************************************************)
(* Optimality.  For any processes that have arrived, there are as many     *)
(* with no more units left, all together, than a CPU that works on the     *)
(* former only has left of them: of those ready since some k, at least     *)
(* their units but those passed since then.                                *)
(***************************************************************************)
ReadyFrom(S, k) == {j \in S : ready[j] >= ready[k]}

Outdoes(B, S) ==
  /\ Cardinality(B) = Cardinality(S)
  /\ \/ SumFunctionOnSet(exec, B) = 0
     \/ \E k \in S : SumFunctionOnSet(exec, B) + (Clock - ready[k])
                      <= SumFunctionOnSet(burst, ReadyFrom(S, k))

Optimal == \A S \in SUBSET Arrived : \E B \in SUBSET Arrived : Outdoes(B, S)

(* Types of the sums. *)
LEMMA UnitsType ==
  ASSUME ServedOK, NEW S \in SUBSET Idx
  PROVE  /\ IsFiniteSet(S) /\ Cardinality(S) \in Nat
         /\ \A j \in S : exec[j] \in Nat /\ exec[j] \in Int
         /\ \A j \in S : burst[j] \in Nat /\ burst[j] \in Int
         /\ SumFunctionOnSet(exec, S) \in Nat
         /\ SumFunctionOnSet(burst, S) \in Nat
         /\ SumFunctionOnSet(exec, S) = 0 <=> \A j \in S : exec[j] = 0
<1>1. IsFiniteSet(S) /\ Cardinality(S) \in Nat
  BY FiniteIdx, FS_CardinalityType
<1>2. \A j \in S : exec[j] \in Nat /\ burst[j] \in Nat
  BY Types DEF ServedOK, LoopOK, Unserved
<1> QED BY <1>1, <1>2, SumNat, SumZero

(* A unit of the one in line with the least of them is one less to all     *)
(* that still have any: it is one of theirs, or takes the place of one.    *)
LEMMA OptimalCharge ==
  ASSUME ServedOK, Optimal, Charge
  PROVE  Optimal'
<1> USE DEF ServedOK, LoopOK
<1>1. /\ pc = "charge" /\ pc' = "tick" /\ UNCHANGED <<time, pid, ready, burst>>
  BY DEF Charge, table
<1>2. /\ chosen \in Idx /\ InLine(chosen) /\ exec[chosen] > 0
      /\ \A k \in Idx : InLine(k) => exec[chosen] <= exec[k]
  BY <1>1, ChosenInLine DEF InLine, Unserved
<1>3. /\ exec'[chosen] = exec[chosen] - 1 /\ exec'[chosen] \in Int
      /\ exec[chosen] \in Int
      /\ \A j \in Idx : j # chosen => exec'[j] = exec[j]
  BY <1>2, ChargeColumns, Types
<1>4. Clock = time /\ Clock' = time + 1 /\ time \in Nat /\ Arrived' = Arrived
  BY <1>1, Types DEF Clock, Arrived
<1> SUFFICES ASSUME NEW S \in SUBSET Arrived
             PROVE  \E B \in SUBSET Arrived : Outdoes(B, S)'
  BY <1>4 DEF Optimal
<1>5. PICK B \in SUBSET Arrived : Outdoes(B, S)
  BY DEF Optimal
<1>6. /\ S \in SUBSET Idx /\ B \in SUBSET Idx
      /\ \A k \in S : ReadyFrom(S, k) \in SUBSET Idx
      /\ \A k \in S : ready[k] \in Nat
  BY Types DEF Arrived, ReadyFrom
<1>7. ASSUME NEW C \in SUBSET Arrived, Cardinality(C) = Cardinality(S),
             SumFunctionOnSet(exec, B) # 0,
             SumFunctionOnSet(exec', C) \in Int,
             SumFunctionOnSet(exec', C) <= SumFunctionOnSet(exec, B) - 1
      PROVE  Outdoes(C, S)'
  <2>1. PICK k \in S : SumFunctionOnSet(exec, B) + (time - ready[k])
                        <= SumFunctionOnSet(burst, ReadyFrom(S, k))
    BY <1>4, <1>5, <1>7 DEF Outdoes
  <2>2. /\ SumFunctionOnSet(exec, B) \in Nat
        /\ SumFunctionOnSet(burst, ReadyFrom(S, k)) \in Nat
        /\ ready[k] \in Nat
    BY <1>6, UnitsType
  <2>3. SumFunctionOnSet(exec', C) + ((time + 1) - ready[k])
          <= SumFunctionOnSet(burst, ReadyFrom(S, k))
    BY <1>4, <1>7, <2>1, <2>2
  <2>4. ReadyFrom(S, k)' = ReadyFrom(S, k)
    BY <1>1 DEF ReadyFrom
  <2> QED BY <1>1, <1>4, <1>7, <2>3, <2>4 DEF Outdoes
<1>8. CASE SumFunctionOnSet(exec, B) = 0
  <2>1. \A j \in B : exec[j] = 0
    BY <1>6, <1>8, UnitsType
  <2>2. \A j \in B : exec[j] = exec'[j]
    BY <1>2, <1>3, <1>6, <2>1
  <2>3. SumFunctionOnSet(exec', B) = 0
    BY <1>6, <1>8, <2>2, UnitsType, SumCongruent
  <2> QED BY <1>5, <2>3 DEF Outdoes
<1>9. CASE SumFunctionOnSet(exec, B) # 0 /\ chosen \in B
  <2>1. /\ IsFiniteSet(B) /\ SumFunctionOnSet(exec, B) \in Nat
        /\ \A j \in B : exec[j] \in Int /\ exec'[j] \in Int
    BY <1>3, <1>6, UnitsType
  <2>2. SumFunctionOnSet(exec', B)
          = (SumFunctionOnSet(exec, B) + exec'[chosen]) - exec[chosen]
    BY <1>3, <1>6, <1>9, <2>1, SumUpdate
  <2>3. SumFunctionOnSet(exec', B) = SumFunctionOnSet(exec, B) - 1
    BY <1>3, <2>1, <2>2
  <2> QED BY <1>5, <1>7, <1>9, <2>1, <2>3 DEF Outdoes
<1>10. CASE SumFunctionOnSet(exec, B) # 0 /\ chosen \notin B
  <2>1. PICK j \in B : exec[j] # 0
    BY <1>6, <1>10, UnitsType
  <2>2. j \in Idx /\ j # chosen /\ exec[j] \in Nat /\ exec[chosen] <= exec[j]
    <3>1. j \in Idx /\ exec[j] \in Nat /\ exec[j] > 0 /\ pid[j] = Child(j)
      BY <1>6, <2>1, UnitsType DEF Arrived
    <3>2. ended[j] = -1
      BY <3>1 DEF LoopInv, Flags
    <3> QED BY <1>2, <1>10, <3>1, <3>2 DEF InLine
  <2> DEFINE rest == B \ {j}
             C    == rest \cup {chosen}
  <2>3. /\ rest \in SUBSET Idx /\ IsFiniteSet(rest) /\ chosen \notin rest
        /\ C \in SUBSET Arrived
    BY <1>2, <1>6, <1>10, UnitsType DEF Arrived, InLine
  <2>4. Cardinality(C) = Cardinality(S)
    <3>1. IsFiniteSet(B) /\ Cardinality(B) \in Nat
      BY <1>6, UnitsType
    <3>2. Cardinality(rest) = Cardinality(B) - 1
      BY <3>1, FS_RemoveElement
    <3>3. Cardinality(C) = Cardinality(rest) + 1
      BY <2>3, FS_AddElement
    <3> QED BY <1>5, <3>1, <3>2, <3>3 DEF Outdoes
  <2>5. SumFunctionOnSet(exec, B) = exec[j] + SumFunctionOnSet(exec, rest)
    BY <1>6, UnitsType, SumWithout
  <2>6. SumFunctionOnSet(exec', rest) = SumFunctionOnSet(exec, rest)
    <3>1. \A x \in rest : exec'[x] = exec[x]
      BY <1>3, <2>3
    <3> QED BY <2>3, <3>1, SumCongruent
  <2>7. SumFunctionOnSet(exec', C) = exec'[chosen] + SumFunctionOnSet(exec', rest)
    <3>1. \A x \in C : exec'[x] \in Int
      BY <1>3, <2>3, UnitsType
    <3> QED BY <2>3, <3>1, SumWith
  <2>8. SumFunctionOnSet(exec, rest) \in Nat /\ SumFunctionOnSet(exec, B) \in Nat
    BY <1>6, <2>3, UnitsType
  <2>9. /\ SumFunctionOnSet(exec', C) \in Int
        /\ SumFunctionOnSet(exec', C) <= SumFunctionOnSet(exec, B) - 1
    BY <1>3, <2>2, <2>5, <2>6, <2>7, <2>8
  <2> HIDE DEF C
  <2> QED BY <1>7, <1>10, <2>3, <2>4, <2>9
<1> QED BY <1>8, <1>9, <1>10

(* One more arrives, with units that no other CPU has worked on either.    *)
LEMMA OptimalMark ==
  ASSUME ServedOK, Optimal, Mark
  PROVE  Optimal'
<1> USE DEF ServedOK, LoopOK
<1>1. /\ pc = "mark" /\ pc' = "fork"
      /\ pid' = [pid EXCEPT ![i] = Child(i)]
      /\ UNCHANGED <<time, exec, ready, burst>>
  BY DEF Mark, table
<1>2. /\ i \in Idx /\ ready[i] = time /\ pid[i] # Child(i)
      /\ exec[i] = burst[i]
  BY <1>1, ChildOfIndex DEF LoopInv, Entered, OnlyForked
<1>3. Arrived' = Arrived \cup {i} /\ i \notin Arrived
  <2>1. \A j \in Idx : pid'[j] = IF j = i THEN Child(i) ELSE pid[j]
    BY <1>1, <1>2 DEF LoopInv, TypeOK
  <2> QED BY <1>2, <2>1 DEF Arrived
<1>4. Clock = time /\ Clock' = time
  BY <1>1 DEF Clock
<1>5. PICK x \in Idx : x = i
  BY <1>2
<1>6. \A B, S : Outdoes(B, S)' <=> Outdoes(B, S)
  BY <1>1, <1>4 DEF Outdoes, ReadyFrom
<1> SUFFICES ASSUME NEW S \in SUBSET (Arrived \cup {x})
             PROVE  \E B \in SUBSET (Arrived \cup {x}) : Outdoes(B, S)
  BY <1>3, <1>5, <1>6 DEF Optimal
<1>7. CASE x \notin S
  BY <1>7 DEF Optimal
<1>8. CASE x \in S
  <2> DEFINE T == S \ {x}
  <2>1. PICK C \in SUBSET Arrived : Outdoes(C, T)
    BY DEF Optimal
  <2> DEFINE B == C \cup {x}
  <2>2. /\ S \in SUBSET Idx /\ T \in SUBSET Idx /\ C \in SUBSET Idx /\ x \notin C
        /\ \A k \in S : ready[k] \in Nat /\ ReadyFrom(S, k) \in SUBSET Idx
        /\ \A k \in S : ReadyFrom(T, k) \in SUBSET Idx
    BY <1>3, <1>5, Types DEF Arrived, ReadyFrom
  <2>3. Cardinality(B) = Cardinality(S)
    <3>1. /\ IsFiniteSet(S) /\ IsFiniteSet(C)
          /\ Cardinality(S) \in Nat /\ Cardinality(C) \in Nat
      BY <2>2, UnitsType
    <3>2. Cardinality(T) = Cardinality(S) - 1 /\ Cardinality(B) = Cardinality(C) + 1
      BY <1>8, <2>2, <3>1, FS_AddElement, FS_RemoveElement
    <3> QED BY <2>1, <3>1, <3>2 DEF Outdoes
  <2>4. SumFunctionOnSet(exec, B) = burst[x] + SumFunctionOnSet(exec, C)
    <3>1. IsFiniteSet(C) /\ \A y \in C \cup {x} : exec[y] \in Int
      BY <2>2, UnitsType
    <3> QED BY <1>2, <1>5, <2>2, <3>1, SumWith
  <2>5. ASSUME NEW k \in S, ready[k] <= time
        PROVE  SumFunctionOnSet(burst, ReadyFrom(S, k))
                 = burst[x] + SumFunctionOnSet(burst, ReadyFrom(T, k))
    <3>1. ReadyFrom(S, k) = ReadyFrom(T, k) \cup {x} /\ x \notin ReadyFrom(T, k)
      BY <1>2, <1>5, <1>8, <2>5 DEF ReadyFrom
    <3>2. /\ IsFiniteSet(ReadyFrom(T, k))
          /\ \A y \in ReadyFrom(T, k) \cup {x} : burst[y] \in Int
      BY <2>2, UnitsType, <3>1
    <3> QED BY <3>1, <3>2, SumWith
  <2>6. /\ burst[x] \in Nat /\ SumFunctionOnSet(exec, C) \in Nat /\ time \in Nat
        /\ \A k \in S : SumFunctionOnSet(burst, ReadyFrom(T, k)) \in Nat
    BY <2>2, UnitsType, Types
  <2>7. \E k \in S : SumFunctionOnSet(exec, B) + (time - ready[k])
                     <= SumFunctionOnSet(burst, ReadyFrom(S, k))
    <3>1. CASE SumFunctionOnSet(exec, C) = 0
      <4>1. ready[x] = time
        BY <1>2, <1>5
      <4>2. SumFunctionOnSet(burst, ReadyFrom(S, x))
              = burst[x] + SumFunctionOnSet(burst, ReadyFrom(T, x))
        BY <1>8, <2>5, <2>6, <4>1
      <4>3. SumFunctionOnSet(exec, B) + (time - ready[x])
              <= SumFunctionOnSet(burst, ReadyFrom(S, x))
        BY <1>8, <2>4, <2>6, <3>1, <4>1, <4>2
      <4> QED BY <1>8, <4>3
    <3>2. CASE SumFunctionOnSet(exec, C) # 0
      <4>1. PICK k \in T : SumFunctionOnSet(exec, C) + (time - ready[k])
                            <= SumFunctionOnSet(burst, ReadyFrom(T, k))
        BY <1>4, <2>1, <3>2 DEF Outdoes
      <4>2. k \in S /\ ready[k] \in Nat /\ ready[k] <= time
        <5>1. k \in Idx /\ k \in S /\ pid[k] = Child(k)
          BY <1>3, <1>5 DEF Arrived
        <5>2. life[Child(k)] # "unborn"
          BY <5>1 DEF LoopInv, Entered
        <5> QED BY <1>1, <5>1, <5>2, Types DEF LoopInv, ForkedWhenDue
      <4>3. SumFunctionOnSet(burst, ReadyFrom(S, k))
              = burst[x] + SumFunctionOnSet(burst, ReadyFrom(T, k))
        BY <2>5, <4>2
      <4>4. SumFunctionOnSet(burst, ReadyFrom(T, k)) \in Nat
        BY <2>6, <4>2
      <4>5. SumFunctionOnSet(exec, B) + (time - ready[k])
              <= SumFunctionOnSet(burst, ReadyFrom(S, k))
        <5> HIDE DEF B, T
        <5> QED BY <2>4, <2>6, <4>1, <4>2, <4>3, <4>4
      <4> QED BY <4>2, <4>5
    <3> QED BY <3>1, <3>2
  <2>8. Outdoes(B, S)
    BY <1>4, <2>3, <2>7 DEF Outdoes
  <2>9. B \in SUBSET (Arrived \cup {x})
    OBVIOUS
  <2> HIDE DEF B
  <2> QED BY <2>8, <2>9
<1> QED BY <1>7, <1>8

(* When nobody is in line, nobody that has arrived has a unit left.        *)
LEMMA OptimalIdle ==
  ASSUME ServedOK, EndFork, IsReady = {}
  PROVE  Optimal'
<1> USE DEF ServedOK, LoopOK
<1>1. UNCHANGED <<exec, pid>>
  BY DEF EndFork
<1>2. Arrived' = Arrived
  BY <1>1 DEF Arrived
<1>3. ASSUME NEW S \in SUBSET Arrived PROVE Outdoes(S, S)'
  <2>1. S \in SUBSET Idx
    BY DEF Arrived
  <2>2. \A j \in S : exec[j] = 0
    <3> SUFFICES ASSUME NEW j \in S PROVE exec[j] = 0
      OBVIOUS
    <3>1. j \in Idx /\ ended[j] # -1
      BY DEF Arrived, LoopInv, Flags, IsReady
    <3>2. exec[j] <= 0
      BY <3>1 DEF LoopInv, Flags
    <3> QED BY <3>1, <3>2, UnitsType
  <2>3. SumFunctionOnSet(exec, S) = 0
    BY <2>1, <2>2, UnitsType
  <2> QED BY <1>1, <2>3 DEF Outdoes
<1> QED BY <1>2, <1>3 DEF Optimal

(* Every step of PSJF keeps ahead of all other schedules.                  *)
LEMMA OptimalStep ==
  ASSUME ServedOK, Optimal, [Next]_vars
  PROVE  Optimal'
<1> USE DEF ServedOK, LoopOK
<1>1. CASE UNCHANGED <<exec, pid, ready, burst>> /\ Clock' = Clock
  <2>1. Arrived' = Arrived
    BY <1>1 DEF Arrived
  <2>2. ASSUME NEW B, NEW S PROVE Outdoes(B, S)' <=> Outdoes(B, S)
    BY <1>1 DEF Outdoes, ReadyFrom
  <2> QED BY <2>1, <2>2 DEF Optimal
<1>2. CASE Tick
  <2>1. Clock' = Clock
    BY <1>2, RoomToTick DEF Tick, Clock
  <2> QED BY <1>1, <1>2, <2>1 DEF Tick, table
<1>3. CASE EndFork /\ IsReady # {}
  <2>1. Clock' = Clock
    BY <1>3 DEF EndFork, Clock
  <2> QED BY <1>1, <1>3, <2>1 DEF EndFork, table
<1>4. CASE \/ While \/ AssignCpu \/ AssignFails \/ RaisePrevious
           \/ \E j \in Idx : ForkChild(j) \/ ForkFatal(j)
  <2>1. /\ UNCHANGED <<time, exec, pid, ready, burst>>
        /\ pc # "tick" /\ pc' # "tick"
    BY <1>4 DEF While, ForkChild, ForkFatal, AssignCpu, AssignFails, RaisePrevious,
       table
  <2> QED BY <1>1, <2>1 DEF Clock
<1>5. CASE Children \/ UNCHANGED vars
  <2>1. UNCHANGED <<pc, time, exec, pid, ready, burst>>
    BY <1>5 DEF Children, parent, vars
  <2> QED BY <1>1, <2>1 DEF Clock
<1> QED
  BY <1>2, <1>3, <1>4, <1>5, OptimalCharge, OptimalMark, OptimalIdle
  DEF Next, Scheduler, Terminated

(* What fits into the time so far has arrived, and is outdone by as many   *)
(* with no unit left.                                                      *)
LEMMA OptimalFinished ==
  ASSUME SomeUnits, ServedOK, Optimal
  PROVE  NobodyFinishesMore
<1> USE DEF ServedOK, LoopOK
<1> SUFFICES ASSUME pc = "while", NEW S \in SUBSET Idx,
                    \A k \in S : SumFunctionOnSet(burst, ReadyFrom(S, k))
                                 <= time - ready[k]
             PROVE  Cardinality(S) <= finished
  BY DEF NobodyFinishesMore, ReadyFrom
<1>1. /\ Clock = time /\ time \in Nat
      /\ \A k \in S : ready[k] \in Nat /\ ReadyFrom(S, k) \in SUBSET Idx
  BY Types DEF Clock, ReadyFrom
<1>2. ASSUME NEW k \in S PROVE k \in Arrived
  <2>1. SumFunctionOnSet(burst, ReadyFrom(S, k)) > 0
    <3>1. k \in ReadyFrom(S, k)
      BY <1>1 DEF ReadyFrom
    <3>2. burst[k] # 0
      BY Types DEF SomeUnits
    <3>3. /\ SumFunctionOnSet(burst, ReadyFrom(S, k)) \in Nat
          /\ \A j \in ReadyFrom(S, k) : burst[j] \in Nat
          /\ IsFiniteSet(ReadyFrom(S, k))
      BY <1>1, UnitsType
    <3>4. SumFunctionOnSet(burst, ReadyFrom(S, k)) # 0
      BY <3>1, <3>2, <3>3, SumZero
    <3> QED BY <3>3, <3>4
  <2>2. ready[k] < time
    BY <1>1, <2>1, UnitsType
  <2>3. life[Child(k)] \notin {"unborn", "failed", "reaped"}
    BY <2>2 DEF LoopInv, ForkedWhenDue, Entered
  <2>4. life[Child(k)] \in {"alive", "zombie"}
    BY <2>3, ChildOfIndex DEF LoopInv, TypeOK, KernelTypeOK, Lives
  <2> QED BY <2>4 DEF Arrived, LoopInv, Entered
<1>3. PICK B \in SUBSET Arrived : Outdoes(B, S)
  BY <1>2 DEF Optimal
<1>4. B \in SUBSET Idx
  BY DEF Arrived
<1>5. SumFunctionOnSet(exec, B) = 0
  <2> SUFFICES ASSUME NEW k \in S,
                      SumFunctionOnSet(exec, B) + (time - ready[k])
                        <= SumFunctionOnSet(burst, ReadyFrom(S, k))
               PROVE  SumFunctionOnSet(exec, B) = 0
    BY <1>1, <1>3 DEF Outdoes
  <2>1. /\ SumFunctionOnSet(burst, ReadyFrom(S, k)) \in Nat
        /\ SumFunctionOnSet(exec, B) \in Nat
    BY <1>1, <1>4, UnitsType
  <2> QED BY <1>1, <2>1
<1>6. B \subseteq Ended
  BY <1>4, <1>5, UnitsType DEF Unserved, Ended
<1>7. Cardinality(B) <= Cardinality(Ended)
  BY <1>6, FiniteIdx, FS_Subset DEF Ended
<1> QED BY <1>3, <1>7 DEF Outdoes, Counted

(* If malloc set no flag and every process has a unit to run, PSJF.c       *)
(* has at each moment finished as many processes as any schedule of one    *)
(* CPU could have.                                                         *)
THEOREM IsOptimal ==
  ASSUME SomeUnits
  PROVE  Spec => []NobodyFinishesMore
<1> DEFINE Inv == HeapIsClean => Optimal
<1>1. Init => Inv
  <2> SUFFICES ASSUME Init PROVE Optimal
    OBVIOUS
  <2>1. Arrived = {}
    BY NobodyInTable DEF Arrived
  <2>2. Outdoes({}, {})
    BY SumEmpty DEF Outdoes
  <2> QED BY <2>1, <2>2 DEF Optimal
<1>2. (HeapIsClean => ServedOK) /\ Inv /\ [Next]_vars => Inv'
  BY OptimalStep, FoundStays
<1>3. (HeapIsClean => ServedOK) /\ Inv => NobodyFinishesMore
  BY OptimalFinished DEF NobodyFinishesMore
<1> HIDE DEF Inv
<1> QED BY ServedInv, <1>1, <1>2, <1>3, PTL DEF Spec, Safety

-----------------------------------------------------------------------------
(***************************************************************************)
(* The pace, as in Parent_proofs, but for the clock that counts a charged  *)
(* unit as passed, and for the loop that ends only with the next look at   *)
(* finished_process.                                                       *)
(***************************************************************************)
ChargedFrom(j) == SumFunctionOnSet(Charged, ReadyFrom(Idx, j))

Busy == (\E j \in Idx : InLine(j)) \/ (finished = N /\ Idx # {})

BusySince(l) ==
  /\ ready[l] <= Clock /\ \A k \in Idx : InLine(k) => ready[l] <= ready[k]
  /\ ready[l] + ChargedFrom(l) = Clock

Pace ==
  /\ \A j \in Idx : ready[j] <= Clock => ready[j] + ChargedFrom(j) <= Clock
  /\ Busy => \E l \in Idx : BusySince(l)
  /\ Idx = {} => time = 0

Steady ==
  /\ LoopOK
  /\ HeapIsClean => CleanOK /\ (AllHaveUnits => Unserved /\ Pace)

(* The types that the sums need.                                           *)
LEMMA PaceType ==
  ASSUME LoopInv
  PROVE  /\ time \in Nat /\ Clock \in Nat
         /\ \A j \in Idx : /\ ready[j] \in Nat
                           /\ ReadyFrom(Idx, j) \in SUBSET Idx
                           /\ j \in ReadyFrom(Idx, j)
                           /\ ChargedFrom(j) \in Nat
<1>1. time \in Nat /\ Clock \in Nat /\ \A j \in Idx : ready[j] \in Nat
  BY Types DEF Clock
<1>2. \A j \in Idx : ReadyFrom(Idx, j) \in SUBSET Idx /\ j \in ReadyFrom(Idx, j)
  BY <1>1 DEF ReadyFrom
<1> QED BY <1>1, <1>2, ChargedType DEF ChargedFrom

(* Nothing has been charged to those that are not ready before now.        *)
LEMMA NoneChargedFrom ==
  ASSUME ServedOK, NEW j \in Idx, ~(ready[j] < Clock)
  PROVE  ChargedFrom(j) = 0
<1> USE DEF ServedOK, LoopOK
<1>1. ASSUME NEW k \in ReadyFrom(Idx, j) PROVE Charged[k] = 0
  <2>1. k \in Idx /\ ready[k] >= ready[j]
    BY DEF ReadyFrom
  <2>2. exec[k] = burst[k]
    <3>1. ~(ready[k] < Clock)
      BY <2>1, PaceType
    <3> QED BY <2>1, <3>1, Types DEF OnlyForked, Clock
  <2> QED BY <2>1, <2>2, ChargedType, Types
<1>2. \A k \in ReadyFrom(Idx, j) : Charged[k] \in Nat
  BY PaceType, ChargedType
<1>3. IsFiniteSet(ReadyFrom(Idx, j))
  BY PaceType, FiniteIdx
<1> QED BY <1>1, <1>2, <1>3, SumZero DEF ChargedFrom

(* At first the clock shows 0, and nothing has been charged.               *)
LEMMA PaceInit ==
  ASSUME Init, ServedOK
  PROVE  Pace
<1>1. pc = "while" /\ time = 0 /\ Clock = 0 /\ finished = 0
      /\ \A j \in Idx : pid[j] # Child(j)
  BY NobodyInTable DEF Init, Clock
<1>2. \A j \in Idx : ChargedFrom(j) = 0
  BY <1>1, PaceType, NoneChargedFrom DEF ServedOK, LoopOK
<1>3. ~Busy
  <2>1. finished = N => Idx = {}
    BY <1>1, FiniteIdx, FS_EmptySet
  <2> QED BY <1>1, <2>1 DEF Busy, InLine
<1> QED BY <1>1, <1>2, <1>3, PaceType DEF Pace, ServedOK, LoopOK

(* A unit charged adds to the sums of all that are ready no later.         *)
LEMMA PaceCharge ==
  ASSUME ServedOK, LoopInv', Pace, Charge
  PROVE  Pace'
<1> USE DEF ServedOK, LoopOK
<1>1. /\ pc = "charge" /\ pc' = "tick" /\ UNCHANGED <<time, pid, ready, burst>>
      /\ Clock = time /\ Clock' = time + 1
  BY DEF Charge, table, Clock
<1>2. chosen \in Idx /\ InLine(chosen) /\ ready[chosen] <= time
  BY <1>1, ChosenInLine
<1>3. exec[chosen] > 0
  BY <1>2 DEF InLine, Unserved
<1>4. \A j \in Idx : ReadyFrom(Idx, j)' = ReadyFrom(Idx, j)
  BY <1>1 DEF ReadyFrom
<1>5. ASSUME NEW j \in Idx, ready[j] <= ready[chosen]
      PROVE  ChargedFrom(j)' = ChargedFrom(j) + 1
  <2>1. chosen \in ReadyFrom(Idx, j)
    BY <1>2, <1>5, PaceType DEF ReadyFrom
  <2>2. SumFunctionOnSet(Charged', ReadyFrom(Idx, j))
          = SumFunctionOnSet(Charged, ReadyFrom(Idx, j)) + 1
    BY <1>3, <2>1, PaceType, ChargedMore
  <2> QED BY <1>4, <2>2 DEF ChargedFrom
<1>6. ASSUME NEW j \in Idx, ~(ready[j] <= ready[chosen])
      PROVE  ChargedFrom(j)' = ChargedFrom(j)
  <2>1. chosen \notin ReadyFrom(Idx, j)
    BY <1>2, <1>6, PaceType DEF ReadyFrom
  <2>2. \A k \in Idx : k # chosen => Charged'[k] = Charged[k]
    BY <1>1, ChargeColumns DEF Charged
  <2>3. \A k \in ReadyFrom(Idx, j) : Charged[k] \in Int /\ Charged[k] = Charged'[k]
    BY <2>1, <2>2, PaceType, ChargedType
  <2>4. IsFiniteSet(ReadyFrom(Idx, j))
    BY PaceType, FiniteIdx
  <2>5. SumFunctionOnSet(Charged, ReadyFrom(Idx, j))
          = SumFunctionOnSet(Charged', ReadyFrom(Idx, j))
    BY <2>3, <2>4, SumCongruent
  <2> QED BY <1>4, <2>5 DEF ChargedFrom
<1>7. ASSUME NEW j \in Idx, ready[j] <= time + 1
      PROVE  ready[j] + ChargedFrom(j)' <= time + 1
  <2>1. CASE ready[j] <= ready[chosen]
    BY <1>1, <1>2, <1>5, <2>1, PaceType DEF Pace
  <2>2. CASE ~(ready[j] <= ready[chosen]) /\ ready[j] <= time
    BY <1>1, <1>6, <2>2, PaceType DEF Pace
  <2>3. CASE ~(ready[j] <= time)
    <3>1. ChargedFrom(j) = 0
      BY <1>1, <2>3, PaceType, NoneChargedFrom
    <3>2. ~(ready[j] <= ready[chosen])
      BY <1>2, <2>3, PaceType
    <3> QED BY <1>6, <1>7, <3>1, <3>2, PaceType
  <2> QED BY <2>1, <2>2, <2>3
<1>8. \E l \in Idx : BusySince(l)'
  <2>1. PICK l \in Idx : BusySince(l)
    BY <1>2 DEF Pace, Busy
  <2>2. \A k \in Idx : InLine(k)' => InLine(k)
    BY <1>1, <1>2, ChargeColumns DEF InLine
  <2>3. ready[l] <= ready[chosen]
    BY <1>2, <2>1 DEF BusySince
  <2>4. BusySince(l)'
    BY <1>1, <1>5, <2>1, <2>2, <2>3, PaceType DEF BusySince
  <2> QED BY <2>4
<1> QED BY <1>1, <1>2, <1>7, <1>8 DEF Pace

(* A new one in line joins the others, or begins a busy time.              *)
LEMMA PaceMark ==
  ASSUME ServedOK, Pace, Mark
  PROVE  Pace'
<1> USE DEF ServedOK, LoopOK
<1>1. /\ pc = "mark" /\ pc' = "fork" /\ pid' = [pid EXCEPT ![i] = Child(i)]
      /\ UNCHANGED <<time, exec, ended, finished, ready, burst>>
      /\ Clock = time /\ Clock' = time
  BY DEF Mark, table, Clock
<1>2. i \in Idx /\ ready[i] = time
  BY <1>1 DEF LoopInv, Entered
<1>3. Charged' = Charged /\ \A j \in Idx : ReadyFrom(Idx, j)' = ReadyFrom(Idx, j)
  BY <1>1 DEF Charged, ReadyFrom
<1>4. \A j \in Idx : ChargedFrom(j)' = ChargedFrom(j)
  BY <1>3 DEF ChargedFrom
<1>5. \A k \in Idx : InLine(k)' => InLine(k) \/ k = i
  BY <1>1, <1>2 DEF InLine, LoopInv, TypeOK
<1>6. \E l \in Idx : BusySince(l)'
  <2>1. CASE \A k \in Idx : ~InLine(k)
    <3>1. \A j \in Idx : j = i => ChargedFrom(j) = 0
      BY <1>1, <1>2, PaceType, NoneChargedFrom
    <3>2. \A j \in Idx : j = i => BusySince(j)'
      BY <1>1, <1>2, <1>4, <1>5, <2>1, <3>1, PaceType DEF BusySince
    <3> QED BY <1>2, <3>2
  <2>2. CASE \E k \in Idx : InLine(k)
    <3>1. PICK l \in Idx : BusySince(l)
      BY <2>2 DEF Pace, Busy
    <3>2. BusySince(l)'
      BY <1>1, <1>2, <1>4, <1>5, <3>1, PaceType DEF BusySince
    <3> QED BY <3>2
  <2> QED BY <2>1, <2>2
<1> QED BY <1>1, <1>2, <1>4, <1>6 DEF Pace

(* An idle unit passes only when nobody is in line, and a charged one is   *)
(* counted already.                                                        *)
LEMMA PaceGoesOn ==
  ASSUME ServedOK, Pace,
         UNCHANGED <<exec, ended, finished, pid, ready, burst>>,
         Clock' = Clock \/ (Clock' = Clock + 1 /\ ~Busy),
         Idx = {} => time' = time
  PROVE  Pace'
<1> USE DEF ServedOK, LoopOK
<1>1. /\ Charged' = Charged /\ \A j \in Idx : ReadyFrom(Idx, j)' = ReadyFrom(Idx, j)
      /\ \A k \in Idx : InLine(k)' = InLine(k)
  BY DEF Charged, ReadyFrom, InLine
<1>2. Busy' = Busy /\ \A j \in Idx : ChargedFrom(j)' = ChargedFrom(j)
  BY <1>1 DEF Busy, ChargedFrom
<1>3. Clock' = Clock => \A j \in Idx : BusySince(j)' = BusySince(j)
  BY <1>1, <1>2 DEF BusySince
<1>4. ASSUME NEW j \in Idx, ready[j] <= Clock' PROVE ready[j] + ChargedFrom(j) <= Clock'
  <2>1. CASE ready[j] <= Clock
    BY <2>1, PaceType DEF Pace
  <2>2. CASE ~(ready[j] <= Clock)
    <3>1. ChargedFrom(j) = 0
      BY <2>2, PaceType, NoneChargedFrom
    <3> QED BY <1>4, <3>1, PaceType
  <2> QED BY <2>1, <2>2
<1> QED BY <1>2, <1>3, <1>4 DEF Pace

(* The first idle unit, as the clock counts it.                            *)
LEMMA PaceEndFork ==
  ASSUME ServedOK, Pace, EndFork
  PROVE  Pace'
<1> USE DEF ServedOK, LoopOK
<1>1. /\ pc = "fork" /\ (pc' = "tick" => IsReady = {})
      /\ UNCHANGED <<time, exec, ended, finished, pid, ready, burst>>
  BY DEF EndFork, table
<1>2. IsReady = {} => ~Busy
  <2>1. \A j \in Idx : InLine(j) => j \in IsReady
    BY DEF InLine, LoopInv, Flags, IsReady
  <2>2. finished # N
    BY <1>1 DEF LoopInv, ChosenIsLeast
  <2> QED BY <2>1, <2>2 DEF Busy
<1>3. Clock' = Clock \/ (Clock' = Clock + 1 /\ ~Busy)
  BY <1>1, <1>2 DEF Clock
<1> QED BY <1>1, <1>3, PaceGoesOn

(* Every step of PSJF keeps the pace.                                      *)
LEMMA PaceStep ==
  ASSUME ServedOK, LoopInv', Pace, [Next]_vars
  PROVE  Pace'
<1>1. CASE Charge
  BY <1>1, PaceCharge
<1>2. CASE Mark
  BY <1>2, PaceMark
<1>3. CASE EndFork
  BY <1>3, PaceEndFork
<1>4. CASE Tick
  <2>1. /\ pc = "tick" /\ pc' = "while" /\ time' = time + 1
        /\ UNCHANGED <<exec, ended, finished, pid, ready, burst>>
    BY <1>4, RoomToTick DEF Tick, table
  <2>2. Clock' = Clock /\ Idx # {}
    BY <2>1 DEF Clock, ServedOK, Unserved
  <2> QED BY <2>1, <2>2, PaceGoesOn
<1>5. CASE /\ UNCHANGED <<time, exec, ended, finished, pid, ready, burst>>
           /\ (pc # "tick" /\ pc' # "tick") \/ UNCHANGED pc
  BY <1>5, PaceGoesOn DEF Clock
<1>6. CASE \/ While \/ AssignCpu \/ AssignFails \/ RaisePrevious
           \/ \E j \in Idx : ForkChild(j) \/ ForkFatal(j)
  BY <1>5, <1>6 DEF While, ForkChild, ForkFatal, AssignCpu, AssignFails,
     RaisePrevious, table
<1>7. CASE Children \/ UNCHANGED vars
  BY <1>5, <1>7 DEF Children, parent, vars
<1> QED
  BY <1>1, <1>2, <1>3, <1>4, <1>6, <1>7 DEF Next, Scheduler, Terminated

(* The loop starts in step with the clock, if its memory is clean.         *)
LEMMA SteadyInit == Init => Steady
<1> SUFFICES ASSUME Init PROVE Steady
  OBVIOUS
<1>1. HeapIsClean => CleanOK
  BY CleanInit
<1>2. ASSUME HeapIsClean, AllHaveUnits PROVE Unserved /\ Pace
  BY <1>1, <1>2, UnservedInit, PaceInit DEF ServedOK, CleanOK
<1> QED BY <1>1, <1>2, PsjfInit DEF Steady

(* No step of PSJF lets the CPU rest while somebody is in line.            *)
LEMMA SteadyStep ==
  ASSUME Steady, [Next]_vars
  PROVE  Steady'
<1>1. LoopOK' /\ LoopInv'
  BY PsjfStep DEF Steady, LoopOK
<1>2. HeapIsClean => CleanOK'
  BY <1>1, CleanStep DEF Steady
<1>3. UNCHANGED burst
  BY DEF Next, Scheduler, While, ForkChild, ForkFatal, AssignCpu, AssignFails, Mark,
     EndFork, RaisePrevious, Charge, Tick, Children, Terminated, table, parent, vars
<1>4. AllHaveUnits' <=> AllHaveUnits
  BY <1>3 DEF AllHaveUnits
<1>5. ASSUME HeapIsClean, AllHaveUnits PROVE Unserved' /\ Pace'
  <2>1. ServedOK /\ Pace
    BY <1>5 DEF Steady, CleanOK, ServedOK
  <2> QED BY <1>1, <2>1, UnservedStep, PaceStep
<1> QED BY <1>1, <1>2, <1>4, <1>5, FoundStays DEF Steady

(* When the loop has ended, all have: each entry had units, and has been   *)
(* charged all of them, on a clean heap in no more time than it takes.     *)
LEMMA SteadyDone ==
  ASSUME Steady, pc = "done"
  PROVE  /\ AllHaveUnits
         /\ \A j \in Idx : life[Child(j)] # "failed"
         /\ time \in Nat
         /\ HeapIsClean =>
              /\ Idx = {} => time = 0
              /\ \A j \in Idx :
                   /\ exec[j] = 0 /\ ready[j] \in Nat
                   /\ SumFunctionOnSet(burst, ReadyFrom(Idx, j)) \in Int
                   /\ ready[j] + SumFunctionOnSet(burst, ReadyFrom(Idx, j)) <= time
              /\ Idx # {} => \E l \in Idx :
                   ready[l] + SumFunctionOnSet(burst, ReadyFrom(Idx, l)) = time
<1> USE DEF Steady, LoopOK
<1>1. finished = N /\ Ended = Idx
  <2>1. finished = N /\ Cardinality(Ended) = N
    BY DEF Counted
  <2>2. Ended \in SUBSET Idx
    BY DEF Ended
  <2> QED BY <2>1, <2>2, FiniteIdx, FS_Subset
<1>2. \A j \in Idx : ended[j] # -1 /\ exec[j] <= 0 /\ burst[j] > 0
  BY <1>1 DEF Ended, LoopInv, Flags
<1>3. AllHaveUnits /\ \A j \in Idx : life[Child(j)] # "failed"
  BY <1>2 DEF AllHaveUnits, LoopInv, Entered
<1>4. ASSUME HeapIsClean
      PROVE  /\ Idx = {} => time = 0
             /\ \A j \in Idx :
                  /\ exec[j] = 0 /\ ready[j] \in Nat
                  /\ SumFunctionOnSet(burst, ReadyFrom(Idx, j)) \in Int
                  /\ ready[j] + SumFunctionOnSet(burst, ReadyFrom(Idx, j)) <= time
             /\ Idx # {} => \E l \in Idx :
                  ready[l] + SumFunctionOnSet(burst, ReadyFrom(Idx, l)) = time
  <2>1. CleanOK /\ Unserved /\ Pace /\ Clock = time
    BY <1>3, <1>4 DEF Clock
  <2>2. \A j \in Idx : exec[j] = 0
    BY <1>2, <2>1, Types DEF Unserved
  <2>3. ASSUME NEW j \in Idx
        PROVE  ChargedFrom(j) = SumFunctionOnSet(burst, ReadyFrom(Idx, j))
    <3>1. \A k \in ReadyFrom(Idx, j) : Charged[k] \in Int /\ Charged[k] = burst[k]
      BY <2>2, PaceType, ChargedType, Types
    <3>2. IsFiniteSet(ReadyFrom(Idx, j))
      BY PaceType, FiniteIdx
    <3> QED BY <3>1, <3>2, SumCongruent DEF ChargedFrom
  <2>4. ASSUME NEW j \in Idx PROVE ready[j] + ChargedFrom(j) <= time
    <3>1. ready[j] < time
      BY <1>2, <2>1, <2>2, Types DEF CleanOK, OnlyForked
    <3> QED BY <2>1, <3>1, PaceType DEF Pace
  <2>5. Idx # {} => \E l \in Idx : ready[l] + ChargedFrom(l) = time
    BY <1>1, <2>1 DEF Pace, Busy, BusySince
  <2>6. Idx = {} => time = 0
    BY <2>1 DEF Pace
  <2> QED BY <2>2, <2>3, <2>4, <2>5, <2>6, PaceType
<1> QED BY <1>3, <1>4, PaceType

=============================================================================
