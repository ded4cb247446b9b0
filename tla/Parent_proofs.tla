---------------------------- MODULE Parent_proofs ---------------------------
(***************************************************************************)
(* An inductive invariant of the loop that FIFO.c, RR.c and SJF.c share,   *)
(* with one lemma per step of the loop.  The choice of the policy enters   *)
(* only as "the index `next` is ready".                                    *)
(***************************************************************************)
EXTENDS Parent, Kernel_proofs, Arithmetic_proofs

(* The fork loop of this iteration has gone past entry j.                  *)
PastFork(j) ==
  \/ pc \in {"select", "demote", "tick"}
  \/ pc = "fork" /\ j < i
  \/ pc \in {"assign", "block"} /\ j <= i

(* Exactly the entries that were due so far have been forked, or failed to *)
(* be: so none is ever forked a second time.                               *)
ForkedWhenDue ==
  pc \notin {"done", "exited"} =>
    /\ pc \in {"reap", "select", "demote", "tick"} => i = 0
    /\ \A j \in Idx : life[Child(j)] # "unborn" <=>
         ready[j] < time \/ (ready[j] = time /\ PastFork(j))

(* A child is in the table once it exists, but for the one being set up.   *)
Entered ==
  /\ \A j \in Idx :
       /\ pid[j] \in {NoPid, Child(j)}
       /\ pid[j] # NoPid => life[Child(j)] \in {"alive", "zombie", "reaped"}
       /\ life[Child(j)] \in {"alive", "zombie", "reaped"} =>
            \/ pid[j] # NoPid
            \/ pc \in {"assign", "block"} /\ i = j
            \/ pc \in {"done", "exited"}
  /\ pc \in {"assign", "block"} =>
       i \in Idx /\ life[Child(i)] \in {"alive", "zombie"} /\ pid[i] = NoPid

(* What is running is in the table and, past the reaping, not used up.     *)
RunningIsReady ==
  /\ running # -1 =>
       /\ pid[running] # NoPid /\ ended[running] = -1
       /\ pc # "reap" => exec[running] > 0
  /\ pc = "demote" => Ready # {}
  /\ pc = "done" => running = -1

(* The reaped children are those reported as ended, and have run in full.  *)
EndedIsReaped ==
  \A j \in Idx :
    /\ ended[j] # -1 <=> life[Child(j)] = "reaped"
    /\ ended[j] # -1 => exec[j] = 0
    /\ life[Child(j)] \in {"zombie", "reaped"} => left[Child(j)] = 0

Ended == {j \in Idx : ended[j] # -1}

(* finish counts the reaped children.                                      *)
Counted == finished = Cardinality(Ended) /\ (pc = "done" => finished = N)

LoopInv ==
  /\ ParentTypeOK /\ Sorted(ready)
  /\ ForkedWhenDue /\ Entered /\ RunningIsReady /\ EndedIsReaped

ParentInv == LoopInv /\ Counted

-----------------------------------------------------------------------------
(* The initial states. *)

(* The invariant holds before the loop.                                    *)
LEMMA ParentInitInv == ParentInit => ParentInv
<1> SUFFICES ASSUME ParentInit PROVE ParentInv
  OBVIOUS
<1> USE KernelAssumption, ParentAssumption
<1>1. KernelTypeOK
  BY DEF ParentInit, KernelInit, KernelTypeOK, Lives, Class, SCHED_IDLE, SCHED_OTHER
<1>2. ParentTypeOK /\ Sorted(ready)
  <2>1. ready \in [Idx -> Readies] /\ Sorted(ready)
    BY Zenon DEF ParentInit
  <2>2. /\ exec \in [Idx -> Nat] /\ burst \in [Idx -> Bursts]
        /\ pid \in [Idx -> Kids \cup {NoPid}]
        /\ ended \in [Idx -> 0 .. MaxTime \cup {-1}]
    BY DEF ParentInit
  <2>3. /\ pc \in Steps /\ i \in 0 .. N /\ time \in 0 .. MaxTime
        /\ running \in Idx \cup {-1} /\ finished \in Nat
    BY DEF ParentInit, Steps
  <2> QED BY <1>1, <2>1, <2>2, <2>3 DEF ParentTypeOK
<1>3. \A j \in Idx : life[Child(j)] = "unborn" /\ ready[j] \in Nat
  BY <1>2, ChildOfIndex DEF ParentInit, KernelInit, ParentTypeOK
<1>4. ForkedWhenDue /\ Entered /\ RunningIsReady /\ EndedIsReaped
  <2>1. ForkedWhenDue
    BY <1>3 DEF ParentInit, ForkedWhenDue, PastFork
  <2>2. Entered
    BY <1>3 DEF ParentInit, Entered, NoPid
  <2>3. RunningIsReady /\ EndedIsReaped
    BY <1>3 DEF ParentInit, RunningIsReady, EndedIsReaped
  <2> QED BY <2>1, <2>2, <2>3
<1>5. Ended = {}
  BY DEF ParentInit, Ended
<1>6. Counted
  BY <1>5, FS_EmptySet DEF ParentInit, Counted
<1> QED BY <1>2, <1>4, <1>6 DEF ParentInv, LoopInv

-----------------------------------------------------------------------------
(* What the invariant says of an entry that the fork loop is about to fork. *)

(* Who is to be forked next has not been forked before.                    *)
LEMMA DueIsUnborn ==
  ASSUME LoopInv, NEW j \in Idx, pc = "fork", FirstDue(j)
  PROVE  /\ life[Child(j)] = "unborn"
         /\ pid[j] = NoPid /\ ended[j] = -1 /\ running # j
         /\ exec[j] \in Nat /\ j \in Nat
<1>1. j >= i /\ ready[j] = time
  BY DEF FirstDue, Due
<1>2. j \in Int /\ i \in Int /\ time \in Int
  BY ParentAssumption, KernelAssumption DEF LoopInv, ParentTypeOK, Idx
<1>3. life[Child(j)] = "unborn"
  BY <1>1, <1>2 DEF LoopInv, ForkedWhenDue, PastFork
<1>4. pid[j] = NoPid /\ ended[j] = -1
  BY <1>3 DEF LoopInv, Entered, EndedIsReaped
<1>5. running # j
  BY <1>4, ChildOfIndex DEF LoopInv, RunningIsReady
<1> QED BY <1>3, <1>4, <1>5, ChildOfIndex DEF LoopInv, ParentTypeOK

(* Every index up to the first due one has been dealt with afterwards.     *)
LEMMA ForkLoopMoves ==
  ASSUME LoopInv, NEW j \in Idx, pc = "fork", FirstDue(j),
         NEW k \in Idx
  PROVE  life[Child(k)] # "unborn" <=>
           ready[k] < time \/ (ready[k] = time /\ k < j)
<1>1. j >= i /\ ready[j] = time
      /\ (ready[k] = time /\ k >= i => j <= k)
  BY DEF FirstDue, Due
<1>2. j \in Int /\ i \in Int /\ k \in Int
  BY KernelAssumption DEF LoopInv, ParentTypeOK, Idx
<1>3. life[Child(k)] # "unborn" <=>
        ready[k] < time \/ (ready[k] = time /\ k < i)
  BY DEF LoopInv, ForkedWhenDue, PastFork
<1> QED BY <1>1, <1>2, <1>3

(* The count of the reaped changes with `ended` only.                      *)
LEMMA CountedKept ==
  ASSUME Counted, UNCHANGED <<ended, finished>>, pc' = "done" => pc = "done"
  PROVE  Counted'
BY DEF Counted, Ended

-----------------------------------------------------------------------------
(* One lemma per step of the loop. *)

(* A new child: its entry is due and was not in the table.                 *)
LEMMA ForkChildStep ==
  ASSUME LoopInv, NEW j \in Idx, ForkChild(j)
  PROVE  LoopInv'
<1> USE ChildOfIndex
<1>1. /\ pc = "fork" /\ pc' = "assign" /\ i' = j
      /\ FirstDue(j) /\ Fork(Child(j), exec[j])
      /\ UNCHANGED <<time, running, finished, exec, pid, ended, table>>
  BY DEF ForkChild
<1>2. /\ life[Child(j)] = "unborn" /\ pid[j] = NoPid /\ ended[j] = -1
      /\ running # j /\ exec[j] \in Nat /\ j \in Nat
  BY <1>1, DueIsUnborn
<1>3. KernelTypeOK'
  BY <1>1, <1>2, ForkType DEF LoopInv, ParentTypeOK
<1>4. ParentTypeOK' /\ Sorted(ready)'
  BY <1>1, <1>3, KernelAssumption DEF LoopInv, ParentTypeOK, Steps, table, Idx, Sorted
<1>5. \A k \in Idx :
        /\ life'[Child(k)] = IF k = j THEN "alive" ELSE life[Child(k)]
        /\ left'[Child(k)] = IF k = j THEN exec[j] ELSE left[Child(k)]
  BY <1>1 DEF Fork, LoopInv, ParentTypeOK, KernelTypeOK
<1>6. ForkedWhenDue'
  <2>1. \A k \in Idx : life[Child(k)] # "unborn" <=>
           ready[k] < time \/ (ready[k] = time /\ k < j)
    BY <1>1, ForkLoopMoves
  <2>2. \A k \in Idx : k \in Int
    BY KernelAssumption DEF Idx
  <2>3. ready[j] = time
    BY <1>1 DEF FirstDue, Due
  <2> QED BY <1>1, <1>5, <2>1, <2>2, <2>3 DEF ForkedWhenDue, PastFork, table
<1>7. Entered'
  BY <1>1, <1>2, <1>5 DEF LoopInv, Entered
<1>8. RunningIsReady'
  BY <1>1 DEF LoopInv, RunningIsReady
<1>9. EndedIsReaped'
  BY <1>1, <1>2, <1>5 DEF LoopInv, EndedIsReaped
<1> QED BY <1>4, <1>6, <1>7, <1>8, <1>9 DEF LoopInv

(* A failing fork: the entry counts as gone through, with no child.        *)
LEMMA ForkIgnoredStep ==
  ASSUME LoopInv, NEW j \in Idx, ForkIgnored(j)
  PROVE  LoopInv'
<1> USE ChildOfIndex
<1>1. /\ pc = "fork" /\ i' = j + 1
      /\ FirstDue(j) /\ life' = [life EXCEPT ![Child(j)] = "failed"]
      /\ UNCHANGED <<pc, class, cpu, left, time, running, finished, exec, pid,
                     ended, table>>
  BY DEF ForkIgnored, ForkFails
<1>2. /\ life[Child(j)] = "unborn" /\ pid[j] = NoPid /\ ended[j] = -1
      /\ running # j /\ j \in Nat
  BY <1>1, DueIsUnborn
<1>3. KernelTypeOK'
  BY <1>1 DEF LoopInv, ParentTypeOK, KernelTypeOK, Lives
<1>4. ParentTypeOK' /\ Sorted(ready)'
  BY <1>1, <1>3, KernelAssumption DEF LoopInv, ParentTypeOK, table, Idx, Sorted
<1>5. \A k \in Idx :
        life'[Child(k)] = IF k = j THEN "failed" ELSE life[Child(k)]
  BY <1>1 DEF LoopInv, ParentTypeOK, KernelTypeOK
<1>6. ForkedWhenDue'
  <2>1. \A k \in Idx : life[Child(k)] # "unborn" <=>
           ready[k] < time \/ (ready[k] = time /\ k < j)
    BY <1>1, ForkLoopMoves
  <2>2. \A k \in Idx : k \in Int
    BY KernelAssumption DEF Idx
  <2>3. ready[j] = time
    BY <1>1 DEF FirstDue, Due
  <2> QED BY <1>1, <1>5, <2>1, <2>2, <2>3 DEF ForkedWhenDue, PastFork, table
<1>7. Entered'
  BY <1>1, <1>2, <1>5 DEF LoopInv, Entered
<1>8. RunningIsReady'
  BY <1>1 DEF LoopInv, RunningIsReady
<1>9. EndedIsReaped'
  BY <1>1, <1>2, <1>5 DEF LoopInv, EndedIsReaped
<1> QED BY <1>4, <1>6, <1>7, <1>8, <1>9 DEF LoopInv

(* The new child on its CPU.                                               *)
LEMMA AssignCpuStep ==
  ASSUME LoopInv, AssignCpu
  PROVE  LoopInv'
<1>1. /\ pc = "assign" /\ pc' = "block"
      /\ cpu' = [cpu EXCEPT ![Child(i)] = CHILD_CPU]
      /\ UNCHANGED <<life, class, left, i, time, running, finished, exec, pid,
                     ended, table>>
  BY DEF AssignCpu
<1>2. KernelTypeOK'
  BY <1>1 DEF LoopInv, ParentTypeOK, KernelTypeOK
<1>3. ParentTypeOK' /\ Sorted(ready)'
  BY <1>1, <1>2 DEF LoopInv, ParentTypeOK, Steps, table, Sorted
<1>4. ForkedWhenDue'
  BY <1>1 DEF LoopInv, ForkedWhenDue, PastFork, table
<1>5. Entered' /\ RunningIsReady' /\ EndedIsReaped'
  BY <1>1 DEF LoopInv, Entered, RunningIsReady, EndedIsReaped
<1> QED BY <1>3, <1>4, <1>5 DEF LoopInv

(* No such CPU: the program ends with the entry half made.                 *)
LEMMA AssignFailsStep ==
  ASSUME LoopInv, AssignFails
  PROVE  LoopInv'
<1>1. /\ pc = "assign" /\ pc' = "exited"
      /\ UNCHANGED <<kernel, i, time, running, finished, exec, pid, ended, table>>
  BY DEF AssignFails
<1>2. ParentTypeOK' /\ Sorted(ready)'
  BY <1>1 DEF LoopInv, ParentTypeOK, KernelTypeOK, Steps, kernel, table, Sorted
<1>3. ForkedWhenDue'
  BY <1>1 DEF ForkedWhenDue
<1>4. Entered' /\ RunningIsReady' /\ EndedIsReaped'
  BY <1>1 DEF LoopInv, Entered, RunningIsReady, EndedIsReaped, kernel
<1> QED BY <1>2, <1>3, <1>4 DEF LoopInv

(* The new child in the table.                                             *)
LEMMA BlockStep ==
  ASSUME LoopInv, Block
  PROVE  LoopInv'
<1> USE ChildOfIndex
<1>1. /\ pc = "block" /\ pc' = "fork" /\ i' = i + 1
      /\ pid' = [pid EXCEPT ![i] = Child(i)]
      /\ class' = Reclass(Child(i), SCHED_IDLE)
      /\ UNCHANGED <<life, cpu, left, time, running, finished, exec, ended, table>>
  BY DEF Block
<1>2. i \in Idx /\ life[Child(i)] \in {"alive", "zombie"} /\ pid[i] = NoPid
  BY <1>1 DEF LoopInv, Entered
<1>3. KernelTypeOK'
  <2>1. SCHED_IDLE \in Class
    BY DEF SCHED_IDLE, Class
  <2> QED BY <1>1, <2>1, ReclassType DEF LoopInv, ParentTypeOK, KernelTypeOK
<1>4. ParentTypeOK' /\ Sorted(ready)'
  BY <1>1, <1>2, <1>3, KernelAssumption
     DEF LoopInv, ParentTypeOK, Steps, table, Idx, Sorted
<1>5. \A k \in Idx : pid'[k] = IF k = i THEN Child(i) ELSE pid[k]
  BY <1>1 DEF LoopInv, ParentTypeOK
<1>6. ForkedWhenDue'
  <2>1. \A k \in Idx : k < i + 1 <=> k <= i
    BY <1>2 DEF Idx
  <2> QED BY <1>1, <2>1 DEF LoopInv, ForkedWhenDue, PastFork, table
<1>7. Entered'
  BY <1>1, <1>2, <1>5 DEF LoopInv, Entered
<1>8. RunningIsReady'
  BY <1>1, <1>2, <1>5 DEF LoopInv, RunningIsReady
<1>9. EndedIsReaped'
  BY <1>1 DEF LoopInv, EndedIsReaped
<1> QED BY <1>4, <1>6, <1>7, <1>8, <1>9 DEF LoopInv

(* The fork loop is through: nobody else is due.                           *)
LEMMA EndForkStep ==
  ASSUME LoopInv, EndFork
  PROVE  LoopInv'
<1>1. /\ pc = "fork" /\ pc' = "select" /\ i' = 0
      /\ \A j \in Idx : ~(j >= i /\ ready[j] = time)
      /\ UNCHANGED <<kernel, time, running, finished, exec, pid, ended, table>>
  BY DEF EndFork, Due
<1>2. ParentTypeOK' /\ Sorted(ready)'
  BY <1>1, KernelAssumption
     DEF LoopInv, ParentTypeOK, KernelTypeOK, Steps, kernel, table, Sorted
<1>3. ForkedWhenDue'
  <2>1. \A k \in Idx : ready[k] = time => k < i
    BY <1>1, KernelAssumption DEF LoopInv, ParentTypeOK, Idx
  <2> QED BY <1>1, <2>1 DEF LoopInv, ForkedWhenDue, PastFork, kernel, table
<1>4. Entered' /\ RunningIsReady' /\ EndedIsReaped'
  BY <1>1 DEF LoopInv, Entered, RunningIsReady, EndedIsReaped, kernel
<1> QED BY <1>2, <1>3, <1>4 DEF LoopInv

(* No switch.                                                              *)
LEMMA KeepRunningStep ==
  ASSUME LoopInv, NEW next, KeepRunning(next)
  PROVE  LoopInv'
<1>1. /\ pc = "select" /\ pc' = "tick"
      /\ UNCHANGED <<kernel, i, time, running, finished, exec, pid, ended, table>>
  BY DEF KeepRunning
<1>2. ParentTypeOK' /\ Sorted(ready)'
  BY <1>1 DEF LoopInv, ParentTypeOK, KernelTypeOK, Steps, kernel, table, Sorted
<1>3. ForkedWhenDue'
  BY <1>1 DEF LoopInv, ForkedWhenDue, PastFork, kernel, table
<1>4. Entered' /\ RunningIsReady' /\ EndedIsReaped'
  BY <1>1 DEF LoopInv, Entered, RunningIsReady, EndedIsReaped, kernel
<1> QED BY <1>2, <1>3, <1>4 DEF LoopInv

(* A switch begins: the next one is ready and not the running one.         *)
LEMMA WakeupStep ==
  ASSUME LoopInv, NEW next \in Ready, Wakeup(next)
  PROVE  LoopInv'
<1>1. /\ pc = "select" /\ pc' = "demote"
      /\ class' = Reclass(pid[next], SCHED_OTHER)
      /\ UNCHANGED <<life, cpu, left, i, time, running, finished, exec, pid,
                     ended, table>>
  BY DEF Wakeup
<1>2. KernelTypeOK'
  <2>1. SCHED_OTHER \in Class
    BY DEF SCHED_OTHER, SCHED_IDLE, Class
  <2> QED BY <1>1, <2>1, ReclassType DEF LoopInv, ParentTypeOK, KernelTypeOK
<1>3. ParentTypeOK' /\ Sorted(ready)'
  BY <1>1, <1>2 DEF LoopInv, ParentTypeOK, Steps, table, Sorted
<1>4. ForkedWhenDue'
  BY <1>1 DEF LoopInv, ForkedWhenDue, PastFork, table
<1>5. Entered' /\ EndedIsReaped'
  BY <1>1 DEF LoopInv, Entered, EndedIsReaped
<1>6. RunningIsReady'
  BY <1>1 DEF LoopInv, RunningIsReady, Ready
<1> QED BY <1>3, <1>4, <1>5, <1>6 DEF LoopInv

(* What is switched to becomes the running entry, whatever is demoted.     *)
LEMMA DemoteStep ==
  ASSUME LoopInv, NEW next \in Ready, Demote(next)
  PROVE  LoopInv'
<1>1. /\ pc = "demote" /\ pc' = "tick" /\ running' = next
      /\ \E p : class' = Reclass(p, SCHED_IDLE)
      /\ UNCHANGED <<life, cpu, left, i, time, finished, exec, pid, ended, table>>
  BY DEF Demote
<1>2. next \in Idx /\ pid[next] # NoPid /\ exec[next] > 0
  BY DEF Ready
<1>3. KernelTypeOK'
  <2>1. SCHED_IDLE \in Class
    BY DEF SCHED_IDLE, Class
  <2> QED BY <1>1, <2>1, ReclassType DEF LoopInv, ParentTypeOK, KernelTypeOK
<1>4. ParentTypeOK' /\ Sorted(ready)'
  BY <1>1, <1>2, <1>3 DEF LoopInv, ParentTypeOK, Steps, table, Sorted
<1>5. ForkedWhenDue'
  BY <1>1 DEF LoopInv, ForkedWhenDue, PastFork, table
<1>6. Entered' /\ EndedIsReaped'
  BY <1>1 DEF LoopInv, Entered, EndedIsReaped
<1>7. ended[next] = -1
  BY <1>2 DEF LoopInv, EndedIsReaped
<1>8. RunningIsReady'
  BY <1>1, <1>2, <1>7 DEF RunningIsReady
<1> QED BY <1>4, <1>5, <1>6, <1>8 DEF LoopInv

(* A unit passes: the running entry has one to be charged.                 *)
LEMMA TickStep ==
  ASSUME LoopInv, Tick
  PROVE  LoopInv'
<1> USE ChildOfIndex
<1>1. /\ pc = "tick" /\ pc' = "reap"
      /\ time' = IF time < MaxTime THEN time + 1 ELSE time
      /\ exec' = IF running = -1 THEN exec ELSE [exec EXCEPT ![running] = @ - 1]
      /\ UNCHANGED <<kernel, i, running, finished, pid, ended, table>>
  BY DEF Tick
<1>2. running # -1 => running \in Idx /\ exec[running] > 0 /\ ended[running] = -1
  BY <1>1 DEF LoopInv, RunningIsReady, ParentTypeOK
<1>3. /\ exec' \in [Idx -> Nat]
      /\ \A k \in Idx : k # running => exec'[k] = exec[k]
  BY <1>1, <1>2 DEF LoopInv, ParentTypeOK
<1>4. time' \in 0 .. MaxTime
  BY <1>1, ParentAssumption DEF LoopInv, ParentTypeOK
<1>5. ParentTypeOK' /\ Sorted(ready)'
  BY <1>1, <1>3, <1>4 DEF LoopInv, ParentTypeOK, KernelTypeOK, Steps, kernel, table, Sorted
<1>6. ForkedWhenDue'
  <2>1. \A k \in Idx : ready[k] \in Nat /\ ready[k] < MaxTime
    BY ParentAssumption DEF LoopInv, ParentTypeOK
  <2>2. \A k \in Idx : ready[k] <= time <=> ready[k] < time'
    BY <1>1, <2>1, ParentAssumption DEF LoopInv, ParentTypeOK
  <2>3. \A k \in Idx : life[Child(k)] # "unborn" <=> ready[k] <= time
    BY <1>1, <2>1, ParentAssumption DEF LoopInv, ParentTypeOK, ForkedWhenDue, PastFork
  <2> QED BY <1>1, <2>1, <2>2, <2>3, <1>4 DEF LoopInv, ForkedWhenDue, PastFork, kernel, table
<1>7. Entered' /\ RunningIsReady'
  BY <1>1 DEF LoopInv, Entered, RunningIsReady, kernel
<1>8. EndedIsReaped'
  BY <1>1, <1>2, <1>3 DEF LoopInv, EndedIsReaped, kernel
<1> QED BY <1>5, <1>6, <1>7, <1>8 DEF LoopInv

(* The head of the loop, with units left or nobody running.                *)
LEMMA NothingToReapStep ==
  ASSUME LoopInv, NothingToReap
  PROVE  LoopInv'
<1> USE ChildOfIndex
<1>1. /\ pc = "reap" /\ pc' = "fork" /\ ~UsedUp
      /\ UNCHANGED <<kernel, i, time, running, finished, exec, pid, ended, table>>
  BY DEF NothingToReap
<1>2. ParentTypeOK' /\ Sorted(ready)'
  BY <1>1 DEF LoopInv, ParentTypeOK, KernelTypeOK, Steps, kernel, table, Sorted
<1>3. ForkedWhenDue'
  <2>1. \A k \in Idx : ~(k < 0)
    BY DEF Idx
  <2> QED BY <1>1, <2>1 DEF LoopInv, ForkedWhenDue, PastFork, kernel, table
<1>4. Entered' /\ EndedIsReaped'
  BY <1>1 DEF LoopInv, Entered, EndedIsReaped, kernel
<1>5. RunningIsReady'
  <2>1. running # -1 => exec[running] \in Nat /\ exec[running] # 0
    BY <1>1 DEF LoopInv, ParentTypeOK, UsedUp
  <2> QED BY <1>1, <2>1 DEF LoopInv, RunningIsReady
<1> QED BY <1>2, <1>3, <1>4, <1>5 DEF LoopInv

(* waitpid returns for a zombie: so the child has run in full.             *)
LEMMA ReapRunningStep ==
  ASSUME LoopInv, ReapRunning
  PROVE  /\ LoopInv'
         /\ running \in Idx /\ running \notin Ended
         /\ Ended' = Ended \cup {running}
<1> USE ChildOfIndex
<1>1. /\ pc = "reap" /\ running # -1 /\ exec[running] = 0
      /\ Waitpid(pid[running])
      /\ ended' = [ended EXCEPT ![running] = time]
      /\ running' = -1 /\ finished' = finished + 1
      /\ pc' = IF finished' = N THEN "done" ELSE "fork"
      /\ UNCHANGED <<class, cpu, left, i, time, exec, pid, table>>
  BY DEF ReapRunning, UsedUp
<1>2. running \in Idx /\ pid[running] = Child(running) /\ ended[running] = -1
  BY <1>1 DEF LoopInv, ParentTypeOK, RunningIsReady, Entered
<1>3. life[Child(running)] = "zombie"
  BY <1>1, <1>2 DEF LoopInv, EndedIsReaped, Entered, Waitpid
<1>4. \A k \in Idx :
        /\ life'[Child(k)] = IF k = running THEN "reaped" ELSE life[Child(k)]
        /\ ended'[k] = IF k = running THEN time ELSE ended[k]
  BY <1>1, <1>2, <1>3 DEF LoopInv, ParentTypeOK, Waitpid
<1>5. time # -1 /\ time \in 0 .. MaxTime
  BY ParentAssumption DEF LoopInv, ParentTypeOK
<1>6. KernelTypeOK'
  BY <1>1, WaitpidType DEF LoopInv, ParentTypeOK, KernelTypeOK
<1>7. ParentTypeOK' /\ Sorted(ready)'
  BY <1>1, <1>2, <1>5, <1>6 DEF LoopInv, ParentTypeOK, Steps, table, Sorted
<1>8. ForkedWhenDue'
  <2>1. \A k \in Idx : ~(k < 0)
    BY DEF Idx
  <2> QED BY <1>1, <1>3, <1>4, <2>1 DEF LoopInv, ForkedWhenDue, PastFork, table
<1>9. Entered' /\ RunningIsReady'
  BY <1>1, <1>3, <1>4 DEF LoopInv, Entered, RunningIsReady
<1>10. EndedIsReaped'
  BY <1>1, <1>3, <1>4, <1>5 DEF LoopInv, EndedIsReaped
<1>11. running \notin Ended /\ Ended' = Ended \cup {running}
  BY <1>2, <1>4, <1>5 DEF Ended
<1> QED BY <1>2, <1>7, <1>8, <1>9, <1>10, <1>11 DEF LoopInv

(* The reaped entry is one that was not counted before.                    *)
LEMMA ReapRunningCounts ==
  ASSUME ParentInv, ReapRunning
  PROVE  Counted'
<1>1. running \notin Ended /\ Ended' = Ended \cup {running}
  BY ReapRunningStep DEF ParentInv
<1>2. IsFiniteSet(Ended)
  <2>1. IsFiniteSet(Idx)
    BY FS_Interval, KernelAssumption DEF Idx
  <2> QED BY <2>1, FS_Subset DEF Ended
<1>3. Cardinality(Ended') = Cardinality(Ended) + 1
  BY <1>1, <1>2, FS_AddElement
<1> QED BY <1>3 DEF ParentInv, Counted, ReapRunning

(* A child runs or ends: its entry was not ended.                          *)
LEMMA ChildrenStep ==
  ASSUME LoopInv, Children
  PROVE  LoopInv'
<1> USE ChildOfIndex
<1>1. PICK p \in Kids : ChildStep(p)
  BY DEF Children
<1>2. UNCHANGED parent /\ UNCHANGED table
  BY DEF Children, parent, table
<1>3. KernelTypeOK'
  BY <1>1, ChildStepType DEF LoopInv, ParentTypeOK
<1>4. ParentTypeOK' /\ Sorted(ready)'
  BY <1>2, <1>3 DEF LoopInv, ParentTypeOK, parent, Sorted
<1>5. /\ life[p] = "alive"
      /\ \A q \in Kids : /\ life'[q] = life[q] \/ (q = p /\ life'[q] = "zombie")
                         /\ life'[q] = "zombie" /\ life[q] # "zombie" => left'[q] = 0
                         /\ life[q] # "alive" => left'[q] = left[q]
  <2> USE DEF LoopInv, ParentTypeOK, KernelTypeOK
  <2>1. CASE ChildUnit(p)
    BY <2>1 DEF ChildUnit
  <2>2. CASE ChildExit(p)
    BY <2>2 DEF ChildExit
  <2> QED BY <1>1, <2>1, <2>2 DEF ChildStep
<1>6. ForkedWhenDue'
  BY <1>2, <1>5 DEF LoopInv, ForkedWhenDue, PastFork, parent
<1>7. Entered'
  BY <1>2, <1>5 DEF LoopInv, Entered, parent
<1>8. RunningIsReady'
  BY <1>2 DEF LoopInv, RunningIsReady, Ready, parent
<1>9. EndedIsReaped'
  BY <1>2, <1>5 DEF LoopInv, EndedIsReaped, parent
<1> QED BY <1>4, <1>6, <1>7, <1>8, <1>9 DEF LoopInv

(* No step.                                                                *)
LEMMA StutterStep ==
  ASSUME ParentInv, UNCHANGED <<kernel, parent>>
  PROVE  ParentInv'
<1>1. ParentTypeOK' /\ Sorted(ready)'
  BY DEF ParentInv, LoopInv, ParentTypeOK, KernelTypeOK, kernel, parent, Sorted
<1>2. ForkedWhenDue' /\ Entered' /\ EndedIsReaped'
  BY DEF ParentInv, LoopInv, ForkedWhenDue, PastFork, Entered, EndedIsReaped, kernel, parent
<1>3. RunningIsReady' /\ Counted'
  BY DEF ParentInv, LoopInv, RunningIsReady, Ready, Counted, Ended, parent
<1> QED BY <1>1, <1>2, <1>3 DEF ParentInv, LoopInv

-----------------------------------------------------------------------------
(* What follows from the invariant, whatever the policy. *)

(* What the invariant says of the ended entries.                           *)
LEMMA InvEndedRan == ParentInv => EndedRanToCompletion
BY DEF ParentInv, LoopInv, EndedIsReaped, EndedRanToCompletion

(* And of the end of the loop: N counted ones are all of them.             *)
LEMMA InvAllReaped == ParentInv => DoneMeansAllReaped
<1> SUFFICES ASSUME ParentInv, pc = "done"
             PROVE  \A p \in Kids : life[p] = "reaped"
  BY DEF DoneMeansAllReaped
<1>1. IsFiniteSet(Idx) /\ Cardinality(Idx) = N
  BY FS_Interval, KernelAssumption DEF Idx
<1>2. Ended \in SUBSET Idx /\ Cardinality(Ended) = N
  BY DEF Ended, ParentInv, Counted
<1>3. Ended = Idx
  BY <1>1, <1>2, FS_Subset
<1> QED BY <1>3, ChildOfIndex DEF Ended, ParentInv, LoopInv, EndedIsReaped

-----------------------------------------------------------------------------
(***************************************************************************)
(* The scheduling classes, for FIFO.c and RR.c: in the middle of a switch  *)
(* to `next`, after its wake-up, it is awake beside the running child.     *)
(***************************************************************************)
InTable(j) == pid[j] # NoPid /\ life[Child(j)] \in {"alive", "zombie"}

AwakeAt(next) ==
  "priority" \notin Faults =>
    \A j \in Idx : InTable(j) =>
      (class[Child(j)] # SCHED_IDLE <=> running = j \/ (pc = "demote" /\ j = next))

(* Without priority faults, a class is set for the named process only.     *)
LEMMA ReclassSets ==
  ASSUME LoopInv, "priority" \notin Faults, NEW p, NEW c, NEW q \in Kids
  PROVE  /\ q # p => Reclass(p, c)[q] = class[q]
         /\ q = p /\ life[q] \in {"alive", "zombie"} => Reclass(p, c)[q] = c
BY DEF Reclass, Exists, LoopInv, ParentTypeOK, KernelTypeOK

(* Steps that touch neither classes, pids nor the running entry.           *)
LEMMA AwakeKept ==
  ASSUME LoopInv, NEW n, AwakeAt(n), NEW m,
         pc # "demote", pc' # "demote", UNCHANGED <<running, class, pid>>,
         \A j \in Idx : InTable(j)' => InTable(j)
  PROVE  AwakeAt(m)'
BY DEF AwakeAt

(* The new child has the class of the parent but is not in the table yet.  *)
LEMMA AwakeForkChild ==
  ASSUME LoopInv, NEW n, AwakeAt(n), NEW m, NEW j \in Idx, ForkChild(j)
  PROVE  AwakeAt(m)'
<1>1. /\ pid[j] = NoPid /\ pc = "fork" /\ pc' = "assign"
      /\ UNCHANGED <<running, pid>> /\ Fork(Child(j), exec[j])
  BY DueIsUnborn DEF ForkChild
<1>2. \A k \in Idx : k # j => class'[Child(k)] = class[Child(k)]
                               /\ life'[Child(k)] = life[Child(k)]
  BY <1>1, ChildOfIndex DEF Fork, LoopInv, ParentTypeOK, KernelTypeOK
<1> QED BY <1>1, <1>2 DEF AwakeAt, InTable

(* It enters the table in the background.                                  *)
LEMMA AwakeBlock ==
  ASSUME LoopInv, NEW n, AwakeAt(n), NEW m, Block
  PROVE  AwakeAt(m)'
<1>1. /\ pc = "block" /\ pc' = "fork" /\ UNCHANGED <<running, life>>
      /\ pid' = [pid EXCEPT ![i] = Child(i)]
      /\ class' = Reclass(Child(i), SCHED_IDLE)
  BY DEF Block
<1>2. i \in Idx /\ life[Child(i)] \in {"alive", "zombie"} /\ pid[i] = NoPid
  BY <1>1 DEF LoopInv, Entered
<1>3. running # i
  BY <1>2 DEF LoopInv, RunningIsReady, ParentTypeOK, Idx
<1> SUFFICES ASSUME "priority" \notin Faults, NEW k \in Idx, InTable(k)'
             PROVE  class'[Child(k)] # SCHED_IDLE <=> running = k
  BY <1>1 DEF AwakeAt
<1>4. CASE k = i
  BY <1>1, <1>2, <1>3, <1>4, ReclassSets, ChildOfIndex
<1>5. CASE k # i
  <2>1. class'[Child(k)] = class[Child(k)]
    BY <1>1, <1>2, <1>5, ReclassSets, ChildOfIndex
  <2>2. InTable(k)
    BY <1>1, <1>5 DEF InTable, LoopInv, ParentTypeOK
  <2> QED BY <1>1, <2>1, <2>2 DEF AwakeAt
<1> QED BY <1>4, <1>5

(* After the wake-up of `next`, it and the running child are awake.        *)
LEMMA AwakeWakeup ==
  ASSUME LoopInv, NEW n, AwakeAt(n), NEW next \in Ready, Wakeup(next)
  PROVE  AwakeAt(next)'
<1>1. /\ pc = "select" /\ pc' = "demote" /\ UNCHANGED <<running, life, pid>>
      /\ class' = Reclass(pid[next], SCHED_OTHER) /\ next # running
  BY DEF Wakeup
<1>2. next \in Idx /\ pid[next] = Child(next)
  BY DEF Ready, LoopInv, Entered
<1> SUFFICES ASSUME "priority" \notin Faults, NEW k \in Idx, InTable(k)
             PROVE  class'[Child(k)] # SCHED_IDLE <=> running = k \/ k = next
  BY <1>1 DEF AwakeAt, InTable
<1>3. CASE k = next
  <2>1. class'[Child(k)] = SCHED_OTHER
    BY <1>1, <1>2, <1>3, ReclassSets, ChildOfIndex DEF InTable
  <2> QED BY <1>3, <2>1 DEF SCHED_OTHER, SCHED_IDLE
<1>4. CASE k # next
  <2>1. class'[Child(k)] = class[Child(k)]
    BY <1>1, <1>2, <1>4, ReclassSets, ChildOfIndex
  <2> QED BY <1>1, <1>4, <2>1 DEF AwakeAt
<1> QED BY <1>3, <1>4

(* Whatever proc[-1].pid is, only the child switched to stays awake.       *)
LEMMA AwakeDemote ==
  ASSUME LoopInv, NEW next \in Ready, AwakeAt(next), NEW m, Demote(next),
         next # running
  PROVE  AwakeAt(m)'
<1>1. /\ pc = "demote" /\ pc' = "tick" /\ UNCHANGED <<life, pid>>
      /\ running' = next
  BY DEF Demote
<1>2. PICK p \in IF running = -1 THEN StrayPids ELSE {pid[running]} :
        class' = Reclass(p, SCHED_IDLE)
  BY DEF Demote
<1> SUFFICES ASSUME "priority" \notin Faults, NEW k \in Idx, InTable(k)
             PROVE  class'[Child(k)] # SCHED_IDLE <=> k = next
  BY <1>1 DEF AwakeAt, InTable
<1>3. class[Child(k)] # SCHED_IDLE <=> running = k \/ k = next
  BY <1>1 DEF AwakeAt
<1>4. CASE running = -1
  <2>1. p \in {Self, NoPid}
    BY <1>2, <1>4, ParentAssumption
  <2>2. class'[Child(k)] = class[Child(k)]
    BY <1>2, <2>1, ReclassSets, ChildOfIndex
  <2> QED BY <1>3, <1>4, <2>2, ChildOfIndex
<1>5. CASE running # -1
  <2>1. running \in Idx /\ p = Child(running)
    BY <1>2, <1>5 DEF LoopInv, ParentTypeOK, RunningIsReady, Entered
  <2>2. CASE k = running
    <3>1. class'[Child(k)] = SCHED_IDLE
      BY <1>2, <2>1, <2>2, ReclassSets, ChildOfIndex DEF InTable
    <3> QED BY <2>2, <3>1
  <2>3. CASE k # running
    <3>1. class'[Child(k)] = class[Child(k)]
      BY <1>2, <2>1, <2>3, ReclassSets, ChildOfIndex
    <3> QED BY <1>3, <2>3, <3>1
  <2> QED BY <2>2, <2>3
<1> QED BY <1>4, <1>5

(* After the reaping nobody in the table is awake.                         *)
LEMMA AwakeReap ==
  ASSUME LoopInv, NEW n, AwakeAt(n), NEW m, ReapRunning
  PROVE  AwakeAt(m)'
<1>1. /\ pc = "reap" /\ pc' # "demote" /\ running' = -1
      /\ UNCHANGED <<class, pid>>
      /\ running \in Idx /\ LoopInv' /\ Ended' = Ended \cup {running}
  BY ReapRunningStep DEF ReapRunning
<1>2. life'[Child(running)] = "reaped"
  BY <1>1 DEF Ended, LoopInv, EndedIsReaped
<1>3. \A k \in Idx : InTable(k)' => InTable(k) /\ k # running
  <2> SUFFICES ASSUME NEW k \in Idx, InTable(k)' PROVE InTable(k) /\ k # running
    OBVIOUS
  <2>1. life'[Child(k)] = life[Child(k)] \/ life'[Child(k)] = "reaped"
    BY ChildOfIndex DEF ReapRunning, Waitpid
  <2> QED BY <1>1, <1>2, <2>1 DEF InTable
<1> QED BY <1>1, <1>3, ChildOfIndex DEF AwakeAt

(* A child that ends keeps its class.                                      *)
LEMMA AwakeChildren ==
  ASSUME LoopInv, NEW n, AwakeAt(n), Children
  PROVE  AwakeAt(n)'
<1>1. UNCHANGED <<pc, running, pid, class>>
  BY DEF Children, parent, ChildStep, ChildUnit, ChildExit
<1>2. \A k \in Idx : InTable(k)' => InTable(k)
  <2>1. PICK p \in Kids : ChildStep(p)
    BY DEF Children
  <2>2. \A q \in Kids : life'[q] = life[q] \/ life[q] = "alive"
    BY <2>1 DEF ChildStep, ChildUnit, ChildExit, LoopInv, ParentTypeOK, KernelTypeOK
  <2> QED BY <1>1, <2>2, ChildOfIndex DEF InTable
<1> QED BY <1>1, <1>2 DEF AwakeAt

-----------------------------------------------------------------------------
(***************************************************************************)
(* The clock.  While somebody is running, it is no further ahead of the    *)
(* last arrival than by the units charged; so ClockAssumption keeps it     *)
(* below MaxTime, and it counts every unit of service.                     *)
(***************************************************************************)
Charged == [j \in Idx |-> burst[j] - exec[j]]

OnTime ==
  /\ pc \in {"assign", "block"} => ready[i] = time
  /\ \A j \in Idx : exec[j] <= burst[j]
  /\ pc = "tick" /\ running = -1 => Ready = {}
  /\ Ready # {} => time <= ready[N-1] + SumFunctionOnSet(Charged, Idx)

(* Types of the units charged.                                             *)
LEMMA ChargedType ==
  ASSUME LoopInv
  PROVE  /\ IsFiniteSet(Idx) /\ Cardinality(Idx) = N
         /\ \A j \in Idx : /\ Charged[j] \in Int /\ Charged[j] = burst[j] - exec[j]
                           /\ burst[j] \in Nat /\ exec[j] \in Nat
         /\ SumFunctionOnSet(Charged, Idx) \in Int
<1>1. IsFiniteSet(Idx) /\ Cardinality(Idx) = N
  BY FS_Interval, KernelAssumption DEF Idx
<1>2. \A j \in Idx : /\ Charged[j] \in Int /\ Charged[j] = burst[j] - exec[j]
                     /\ burst[j] \in Nat /\ exec[j] \in Nat
  <2>1. \A j \in Idx : burst[j] \in Nat /\ exec[j] \in Nat
    BY ParentAssumption DEF LoopInv, ParentTypeOK
  <2> QED BY <2>1 DEF Charged
<1> QED BY <1>1, <1>2, SumType

(* The longest entry of the table. *)
LEMMA LongestExists ==
  ASSUME LoopInv, Idx # {}
  PROVE  \E m \in Idx : \A j \in Idx : burst[j] <= burst[m]
<1>1. N \in Nat \ {0} /\ N - 1 \in Idx
  BY KernelAssumption DEF Idx
<1>2. \A j \in Idx : burst[j] \in Nat /\ burst[j] \in Bursts
  BY ParentAssumption DEF LoopInv, ParentTypeOK
<1>3. ready[N-1] \in Readies /\ ready[N-1] \in Nat /\ MaxTime \in Nat
  BY <1>1, ParentAssumption DEF LoopInv, ParentTypeOK
<1>4. \A j \in Idx : burst[j] <= MaxTime
  <2> TAKE j \in Idx
  <2>1. ready[N-1] + (N * burst[j]) <= MaxTime
    BY <1>2, <1>3, ClockAssumption
  <2>2. burst[j] <= N * burst[j]
    <3>1. \A a \in Nat, n \in Nat \ {0} : a <= n * a
      OBVIOUS
    <3> QED BY <1>1, <1>2, <3>1
  <2>3. N * burst[j] \in Nat
    BY <1>1, <1>2
  <2> QED BY <1>2, <1>3, <2>1, <2>2, <2>3
<1> QED BY <1>2, <1>3, <1>4, GreatestValue

(* One unit more can be charged only if it fits in before MaxTime.         *)
LEMMA ClockRuns ==
  ASSUME LoopInv, OnTime, pc = "tick", running # -1
  PROVE  time < MaxTime
<1>1. running \in Ready /\ running \in Idx /\ exec[running] > 0
  BY DEF LoopInv, ParentTypeOK, RunningIsReady, Ready
<1>2. N \in Nat \ {0} /\ N - 1 \in Idx
  BY <1>1, KernelAssumption DEF Idx
<1>3. PICK m \in Idx : \A j \in Idx : burst[j] <= burst[m]
  BY <1>1, LongestExists
<1> DEFINE more == [j \in Idx |-> IF j = running THEN Charged[j] + 1 ELSE Charged[j]]
<1>4. \A j \in Idx : more[j] \in Int /\ more[j] <= burst[m]
  BY <1>1, <1>3, ChargedType
<1>5. SumFunctionOnSet(more, Idx) = SumFunctionOnSet(Charged, Idx) + 1
  <2>1. /\ \A j \in Idx \ {running} : Charged[j] = more[j]
        /\ more[running] = Charged[running] + 1
    BY <1>1
  <2>2. SumFunctionOnSet(more, Idx) =
          (SumFunctionOnSet(Charged, Idx) + more[running]) - Charged[running]
    <3> HIDE DEF more
    <3> QED BY <1>1, <1>4, <2>1, ChargedType, SumUpdate
  <2> QED BY <1>1, <2>1, <2>2, ChargedType
<1>6. SumFunctionOnSet(more, Idx) <= N * burst[m]
  <2> HIDE DEF more
  <2> QED BY <1>4, ChargedType, SumBound
<1>7. ready[N-1] + (N * burst[m]) <= MaxTime
  BY <1>2, ClockAssumption DEF LoopInv, ParentTypeOK
<1>8. time <= ready[N-1] + SumFunctionOnSet(Charged, Idx)
  BY <1>1 DEF OnTime
<1>9. /\ time \in Nat /\ ready[N-1] \in Nat /\ N * burst[m] \in Nat /\ MaxTime \in Nat
      /\ SumFunctionOnSet(Charged, Idx) \in Int
  BY <1>2, ParentAssumption, ChargedType DEF LoopInv, ParentTypeOK
<1> QED BY <1>5, <1>6, <1>7, <1>8, <1>9

(* The steps that neither charge, nor count time, nor enter an entry.      *)
LEMMA OnTimeKept ==
  ASSUME LoopInv, OnTime, UNCHANGED <<time, exec, pid, ready, burst>>,
         pc' \in {"assign", "block"} => ready'[i'] = time,
         pc' = "tick" /\ running' = -1 => Ready = {}
  PROVE  OnTime'
BY DEF OnTime, Ready, Charged

(* Who is being forked became due at this very count.                      *)
LEMMA OnTimeForkChild ==
  ASSUME LoopInv, OnTime, NEW j \in Idx, ForkChild(j)
  PROVE  OnTime'
BY OnTimeKept DEF ForkChild, FirstDue, Due, table

(* And still is when it is pinned.                                         *)
LEMMA OnTimeAssignCpu ==
  ASSUME LoopInv, OnTime, AssignCpu
  PROVE  OnTime'
<1>1. /\ pc' = "block" /\ ready'[i'] = time
      /\ UNCHANGED <<time, exec, pid, ready, burst>>
  BY DEF AssignCpu, table, OnTime
<1> QED BY <1>1, OnTimeKept

(* A new entry has just become ready: nothing is late yet.                 *)
LEMMA OnTimeBlock ==
  ASSUME LoopInv, OnTime, Block
  PROVE  OnTime'
<1>1. /\ pc = "block" /\ pc' = "fork" /\ pid' = [pid EXCEPT ![i] = Child(i)]
      /\ UNCHANGED <<time, exec, ready, burst>>
  BY DEF Block, table
<1>2. i \in Idx /\ ready[i] = time
  BY <1>1 DEF LoopInv, Entered, OnTime
<1>3. N - 1 \in Idx /\ i <= N - 1 /\ i \in Nat /\ N \in Nat
  BY <1>2, KernelAssumption DEF Idx
<1>4. ready[i] <= ready[N-1] /\ ready[i] \in Nat /\ ready[N-1] \in Nat
  BY <1>2, <1>3, ParentAssumption DEF LoopInv, ParentTypeOK, Sorted
<1>5. SumFunctionOnSet(Charged, Idx) \in Nat
  <2>1. \A j \in Idx : Charged[j] \in Nat
    BY ChargedType DEF OnTime
  <2> QED BY <2>1, ChargedType, SumNat
<1>6. time <= ready[N-1] + SumFunctionOnSet(Charged, Idx)
  BY <1>2, <1>4, <1>5
<1> QED BY <1>1, <1>6 DEF OnTime, Charged

(* Clock and charge go on together; only an empty Ready lets time pass     *)
(* without a charge.                                                       *)
LEMMA OnTimeTick ==
  ASSUME LoopInv, OnTime, Tick
  PROVE  OnTime'
<1>1. /\ pc = "tick" /\ pc' = "reap" /\ UNCHANGED <<running, pid, ready, burst>>
      /\ time' = IF time < MaxTime THEN time + 1 ELSE time
      /\ exec' = IF running = -1 THEN exec ELSE [exec EXCEPT ![running] = @ - 1]
  BY DEF Tick, table
<1>2. CASE running = -1
  BY <1>1, <1>2 DEF OnTime, Ready
<1>3. CASE running # -1
  <2>1. running \in Idx /\ running \in Ready
    BY <1>1, <1>3 DEF LoopInv, ParentTypeOK, RunningIsReady, Ready
  <2>2. /\ exec'[running] = exec[running] - 1
        /\ \A j \in Idx \ {running} : exec'[j] = exec[j]
    BY <1>1, <1>3, <2>1 DEF LoopInv, ParentTypeOK
  <2>3. /\ Charged'[running] = Charged[running] + 1
        /\ \A j \in Idx \ {running} : Charged[j] = Charged'[j]
        /\ \A j \in Idx : Charged'[j] \in Int
        /\ \A j \in Idx : exec'[j] <= burst[j]
    <3>1. \A j \in Idx : burst[j] \in Nat /\ exec[j] \in Nat /\ exec[j] <= burst[j]
      BY ChargedType DEF OnTime
    <3>2. \A j \in Idx : Charged[j] = burst[j] - exec[j] /\ Charged'[j] = burst[j] - exec'[j]
      BY <1>1 DEF Charged
    <3> QED BY <2>1, <2>2, <3>1, <3>2
  <2>4. SumFunctionOnSet(Charged', Idx) =
          (SumFunctionOnSet(Charged, Idx) + Charged'[running]) - Charged[running]
    BY <2>1, <2>3, ChargedType, SumUpdate
  <2>5. SumFunctionOnSet(Charged', Idx) = SumFunctionOnSet(Charged, Idx) + 1
    BY <2>1, <2>3, <2>4, ChargedType
  <2>6. time <= ready[N-1] + SumFunctionOnSet(Charged, Idx)
    BY <2>1 DEF OnTime
  <2>7. /\ time \in Int /\ MaxTime \in Int /\ ready[N-1] \in Int
        /\ SumFunctionOnSet(Charged, Idx) \in Int
    <3>1. N - 1 \in Idx
      BY <2>1, KernelAssumption DEF Idx
    <3> QED BY <3>1, ChargedType, ParentAssumption DEF LoopInv, ParentTypeOK
  <2>8. time' <= ready[N-1] + SumFunctionOnSet(Charged', Idx)
    BY <1>1, <2>5, <2>6, <2>7
  <2> QED BY <1>1, <2>3, <2>8 DEF OnTime
<1> QED BY <1>2, <1>3

(* The clock starts at 0.                                                  *)
LEMMA OnTimeInit == ParentInit => OnTime
<1> SUFFICES ASSUME ParentInit PROVE OnTime
  OBVIOUS
<1>1. Ready = {}
  BY DEF ParentInit, Ready
<1>2. exec \in [Idx -> Bursts] /\ burst = exec
  BY DEF ParentInit
<1>3. \A j \in Idx : exec[j] \in Nat /\ burst[j] = exec[j]
  BY <1>2, ParentAssumption
<1>4. \A j \in Idx : exec[j] <= burst[j]
  BY <1>3
<1> QED BY <1>1, <1>4 DEF ParentInit, OnTime

-----------------------------------------------------------------------------
(***************************************************************************)
(* The pace.  Those ready at r or later are not charged more units than    *)
(* have passed since r; and while somebody is ready the CPU has worked for *)
(* them without a pause since the first of them was: the clock shows the   *)
(* ready time of some entry l and all units charged to those ready since.  *)
(***************************************************************************)
ReadyFrom(j)   == {k \in Idx : ready[k] >= ready[j]}
ChargedFrom(j) == SumFunctionOnSet(Charged, ReadyFrom(j))

Busy == Ready # {} \/ (running # -1 /\ pc = "reap") \/ pc = "done"

BusySince(l) ==
  /\ ready[l] <= time /\ \A k \in Ready : ready[l] <= ready[k]
  /\ ready[l] + ChargedFrom(l) = time

Pace ==
  /\ \A j \in Idx : /\ exec[j] # burst[j] => ready[j] < time
                    /\ running = j \/ ended[j] # -1 => burst[j] > 0
                    /\ ready[j] <= time => ready[j] + ChargedFrom(j) <= time
  /\ Busy => \E l \in Idx : BusySince(l)

(* The types that the sums need.                                           *)
LEMMA PaceType ==
  ASSUME LoopInv
  PROVE  /\ time \in Nat
         /\ \A j \in Idx : /\ ready[j] \in Nat
                           /\ IsFiniteSet(ReadyFrom(j)) /\ ReadyFrom(j) \subseteq Idx
                           /\ ChargedFrom(j) \in Int
<1>1. time \in Nat /\ \A j \in Idx : ready[j] \in Nat
  BY ParentAssumption DEF LoopInv, ParentTypeOK
<1>2. ASSUME NEW j \in Idx
      PROVE  /\ IsFiniteSet(ReadyFrom(j)) /\ ReadyFrom(j) \subseteq Idx
             /\ ChargedFrom(j) \in Int
  <2>1. ReadyFrom(j) \subseteq Idx
    BY DEF ReadyFrom
  <2>2. IsFiniteSet(ReadyFrom(j))
    BY <2>1, ChargedType, FS_Subset
  <2> QED BY <2>1, <2>2, ChargedType, SumType DEF ChargedFrom
<1> QED BY <1>1, <1>2

(* Nothing has been charged to those that are ready only now.              *)
LEMMA NoneChargedYet ==
  ASSUME LoopInv, NEW S \in SUBSET Idx, \A k \in S : exec[k] = burst[k]
  PROVE  SumFunctionOnSet(Charged, S) = 0
<1>1. IsFiniteSet(S) /\ \A k \in S : Charged[k] \in Nat /\ Charged[k] = 0
  BY ChargedType, FS_Subset
<1> QED BY <1>1, SumZero

(* ... in particular to those that are not ready before now.               *)
LEMMA NoneChargedFrom ==
  ASSUME LoopInv, Pace, NEW j \in Idx, ~(ready[j] < time)
  PROVE  ChargedFrom(j) = 0
<1>1. ASSUME NEW k \in ReadyFrom(j) PROVE exec[k] = burst[k]
  <2>1. k \in Idx /\ ready[k] >= ready[j]
    BY DEF ReadyFrom
  <2>2. ~(ready[k] < time)
    BY <2>1, PaceType
  <2> QED BY <2>1, <2>2 DEF Pace
<1>2. ReadyFrom(j) \in SUBSET Idx
  BY PaceType
<1> QED BY <1>1, <1>2, NoneChargedYet DEF ChargedFrom

(* At first nothing has been charged.                                      *)
LEMMA PaceInit == ParentInit => Pace
<1> SUFFICES ASSUME ParentInit PROVE Pace
  OBVIOUS
<1>1. LoopInv
  BY ParentInitInv DEF ParentInv
<1>2. /\ time = 0 /\ running = -1 /\ pc = "reap" /\ burst = exec /\ Ready = {}
      /\ \A j \in Idx : ended[j] = -1
  BY DEF ParentInit, Ready
<1>3. \A j \in Idx : ChargedFrom(j) = 0
  BY <1>1, <1>2, PaceType, NoneChargedYet DEF ChargedFrom
<1>4. \A j \in Idx : j # -1
  BY DEF Idx
<1> QED BY <1>1, <1>2, <1>3, <1>4, PaceType DEF Pace, Busy

(* The steps that neither charge, nor count time, nor change who is ready. *)
LEMMA PaceKept ==
  ASSUME LoopInv, OnTime, Pace, UNCHANGED <<time, exec, pid, ready, burst>>,
         \A j \in Idx : ended'[j] # -1 => ended[j] # -1 \/ running = j,
         running' # -1 => running' = running \/ running' \in Ready,
         Busy' => Busy
  PROVE  Pace'
<1>1. /\ Ready' = Ready /\ Charged' = Charged
      /\ \A j \in Idx : ReadyFrom(j)' = ReadyFrom(j)
  BY DEF Ready, Charged, ReadyFrom
<1>2. \A j \in Idx : ChargedFrom(j)' = ChargedFrom(j) /\ (BusySince(j)' <=> BusySince(j))
  BY <1>1 DEF ChargedFrom, BusySince
<1>3. ASSUME NEW j \in Idx, running' = j \/ ended'[j] # -1 PROVE burst[j] > 0
  <2>1. CASE j \in Ready
    BY <2>1, ChargedType DEF Ready, OnTime
  <2>2. j # -1
    BY DEF Idx
  <2> QED BY <1>3, <2>1, <2>2 DEF Pace
<1> QED BY <1>2, <1>3 DEF Pace

(* A new entry joins those that keep the CPU busy, or begins a busy time.  *)
LEMMA PaceBlock ==
  ASSUME LoopInv, OnTime, Pace, Block
  PROVE  Pace'
<1>1. /\ pc = "block" /\ pc' = "fork" /\ pid' = [pid EXCEPT ![i] = Child(i)]
      /\ UNCHANGED <<time, running, exec, ready, burst, ended>>
  BY DEF Block, table
<1>2. i \in Idx /\ ready[i] = time
  BY <1>1 DEF LoopInv, Entered, OnTime
<1>3. Charged' = Charged /\ \A j \in Idx : ReadyFrom(j)' = ReadyFrom(j)
  BY <1>1 DEF Charged, ReadyFrom
<1>4. \A j \in Idx : ChargedFrom(j)' = ChargedFrom(j)
  BY <1>3 DEF ChargedFrom
<1>5. Ready' \subseteq Ready \cup {i}
  BY <1>1, <1>2 DEF LoopInv, ParentTypeOK, Ready
<1>6. ASSUME Busy' PROVE \E l \in Idx : BusySince(l)'
  <2>1. CASE Ready = {}
    <3>1. ChargedFrom(i) = 0
      <4>1. \A j \in Idx : j = i => ChargedFrom(j) = 0
        BY <1>2, PaceType, NoneChargedFrom
      <4> QED BY <1>2, <4>1
    <3>2. \A j \in Idx : j = i => BusySince(j)'
      BY <1>1, <1>2, <1>4, <1>5, <2>1, <3>1, PaceType DEF BusySince
    <3> QED BY <1>2, <3>2
  <2>2. CASE Ready # {}
    <3>1. PICK l \in Idx : BusySince(l)
      BY <2>2 DEF Pace, Busy
    <3>2. BusySince(l)'
      BY <1>1, <1>2, <1>4, <1>5, <3>1, PaceType DEF BusySince
    <3> QED BY <3>2
  <2> QED BY <2>1, <2>2
<1> QED BY <1>1, <1>4, <1>6 DEF Pace

(* What is charged to the running entry in a unit is charged to all those  *)
(* sums that contain it.                                                   *)
LEMMA PaceTick ==
  ASSUME LoopInv, OnTime, Pace, Tick
  PROVE  Pace'
<1>1. /\ pc = "tick" /\ pc' = "reap" /\ UNCHANGED <<running, pid, ready, burst, ended>>
      /\ time' = IF time < MaxTime THEN time + 1 ELSE time
      /\ exec' = IF running = -1 THEN exec ELSE [exec EXCEPT ![running] = @ - 1]
  BY DEF Tick, table
<1>2. \A j \in Idx : ReadyFrom(j)' = ReadyFrom(j)
  BY <1>1 DEF ReadyFrom
<1>3. CASE running = -1
  <2>1. Ready = {} /\ exec' = exec /\ Charged' = Charged /\ Ready' = {}
    BY <1>1, <1>3 DEF OnTime, Charged, Ready
  <2>2. ~Busy' /\ \A j \in Idx : ChargedFrom(j)' = ChargedFrom(j)
    BY <1>1, <1>2, <1>3, <2>1 DEF Busy, ChargedFrom
  <2>3. ASSUME NEW j \in Idx, ready[j] <= time' PROVE ready[j] + ChargedFrom(j) <= time'
    <3>1. CASE ready[j] <= time
      BY <1>1, <3>1, PaceType DEF Pace
    <3>2. CASE ~(ready[j] <= time)
      <4>1. ready[j] = time'
        BY <1>1, <2>3, <3>2, PaceType
      <4>2. ChargedFrom(j) = 0
        BY <3>2, PaceType, NoneChargedFrom
      <4> QED BY <4>1, <4>2, PaceType
    <3> QED BY <3>1, <3>2
  <2>4. \A j \in Idx : exec[j] # burst[j] => ready[j] < time'
    BY <1>1, PaceType DEF Pace
  <2> QED BY <1>1, <2>1, <2>2, <2>3, <2>4 DEF Pace
<1>4. CASE running # -1
  <2>1. running \in Idx /\ running \in Ready
    BY <1>1, <1>4 DEF LoopInv, ParentTypeOK, RunningIsReady, Ready
  <2>2. time' = time + 1
    BY <1>1, <1>4, ClockRuns
  <2>3. ready[running] <= time
    <3>1. life[Child(running)] # "unborn"
      BY <2>1 DEF Ready, LoopInv, Entered
    <3> QED BY <1>1, <2>1, <3>1, PaceType DEF LoopInv, ForkedWhenDue
  <2>4. /\ \A j \in Idx : Charged'[j] \in Int
        /\ Charged'[running] = Charged[running] + 1
        /\ \A j \in Idx \ {running} : Charged[j] = Charged'[j] /\ exec'[j] = exec[j]
    <3>1. /\ exec'[running] = exec[running] - 1
          /\ \A j \in Idx \ {running} : exec'[j] = exec[j]
      BY <1>1, <1>4, <2>1 DEF LoopInv, ParentTypeOK
    <3>2. \A j \in Idx : Charged'[j] = burst[j] - exec'[j]
      BY <1>1 DEF Charged
    <3> QED BY <2>1, <3>1, <3>2, ChargedType
  <2>5. ASSUME NEW j \in Idx, ready[j] <= ready[running]
        PROVE  ChargedFrom(j)' = ChargedFrom(j) + 1
    <3>1. running \in ReadyFrom(j)
      BY <2>1, <2>5, PaceType DEF ReadyFrom
    <3>2. SumFunctionOnSet(Charged', ReadyFrom(j)) =
            (SumFunctionOnSet(Charged, ReadyFrom(j)) + Charged'[running]) - Charged[running]
      BY <2>4, <3>1, PaceType, ChargedType, SumUpdate
    <3> QED BY <1>2, <2>1, <2>4, <3>2, PaceType, ChargedType DEF ChargedFrom
  <2>6. ASSUME NEW j \in Idx, ~(ready[j] <= ready[running])
        PROVE  ChargedFrom(j)' = ChargedFrom(j)
    <3>1. running \notin ReadyFrom(j)
      BY <2>1, <2>6, PaceType DEF ReadyFrom
    <3>2. SumFunctionOnSet(Charged, ReadyFrom(j)) = SumFunctionOnSet(Charged', ReadyFrom(j))
      BY <2>4, <3>1, PaceType, SumCongruent
    <3> QED BY <1>2, <3>2 DEF ChargedFrom
  <2>7. ASSUME NEW j \in Idx, ready[j] <= time' PROVE ready[j] + ChargedFrom(j)' <= time'
    <3>1. CASE ready[j] <= ready[running]
      BY <2>1, <2>2, <2>3, <2>5, <3>1, PaceType DEF Pace
    <3>2. CASE ~(ready[j] <= ready[running]) /\ ready[j] <= time
      BY <2>2, <2>6, <3>2, PaceType DEF Pace
    <3>3. CASE ~(ready[j] <= time)
      <4>1. ChargedFrom(j) = 0
        BY <3>3, PaceType, NoneChargedFrom
      <4>2. ~(ready[j] <= ready[running])
        BY <2>1, <2>3, <3>3, PaceType
      <4> QED BY <2>2, <2>6, <2>7, <4>1, <4>2, PaceType
    <3> QED BY <3>1, <3>2, <3>3
  <2>8. \A j \in Idx : exec'[j] # burst[j] => ready[j] < time'
    <3> SUFFICES ASSUME NEW j \in Idx, exec'[j] # burst[j] PROVE ready[j] < time'
      OBVIOUS
    <3>1. CASE j = running
      BY <2>1, <2>2, <2>3, <3>1, PaceType
    <3>2. CASE j # running
      BY <2>2, <2>4, <3>2, PaceType DEF Pace
    <3> QED BY <3>1, <3>2
  <2>9. \E l \in Idx : BusySince(l)'
    <3>1. PICK l \in Idx : BusySince(l)
      BY <2>1 DEF Pace, Busy
    <3>2. Ready' \subseteq Ready
      BY <1>1, <2>1, <2>4, ChargedType DEF Ready
    <3>3. ready[l] <= ready[running]
      BY <2>1, <3>1 DEF BusySince
    <3>4. BusySince(l)'
      BY <1>1, <2>2, <2>5, <3>1, <3>2, <3>3, PaceType DEF BusySince
    <3> QED BY <3>4
  <2> QED BY <1>1, <2>7, <2>8, <2>9 DEF Pace
<1> QED BY <1>3, <1>4

(* waitpid ends the busy time only if nobody else is ready.                *)
LEMMA PaceReap ==
  ASSUME LoopInv, OnTime, Pace, ReapRunning
  PROVE  Pace'
<1>1. /\ pc = "reap" /\ running # -1 /\ running' = -1
      /\ ended' = [ended EXCEPT ![running] = time]
      /\ UNCHANGED <<time, exec, pid, ready, burst>>
  BY DEF ReapRunning, UsedUp, table
<1>2. \A j \in Idx : ended'[j] # -1 => ended[j] # -1 \/ running = j
  BY <1>1 DEF LoopInv, ParentTypeOK
<1>3. Busy
  BY <1>1 DEF Busy
<1> QED BY <1>1, <1>2, <1>3, PaceKept

(* When the loop has ended, everybody has been charged all units, the last *)
(* of them just now, and nobody could have been done earlier.              *)
LEMMA PaceDone ==
  ASSUME ParentInv, Pace, pc = "done"
  PROVE  /\ Idx # {} /\ time \in Nat
         /\ \A j \in Idx : /\ exec[j] = 0 /\ burst[j] > 0 /\ ready[j] \in Nat
                           /\ life[Child(j)] = "reaped"
                           /\ SumFunctionOnSet(burst, ReadyFrom(j)) \in Int
                           /\ ready[j] + SumFunctionOnSet(burst, ReadyFrom(j)) <= time
         /\ \E l \in Idx : ready[l] + SumFunctionOnSet(burst, ReadyFrom(l)) = time
<1> USE DEF ParentInv
<1>1. \A j \in Idx : life[Child(j)] = "reaped" /\ ended[j] # -1 /\ exec[j] = 0
  BY InvAllReaped, ChildOfIndex DEF DoneMeansAllReaped, LoopInv, EndedIsReaped
<1>2. ASSUME NEW j \in Idx PROVE ChargedFrom(j) = SumFunctionOnSet(burst, ReadyFrom(j))
  <2>1. \A k \in ReadyFrom(j) : Charged[k] = burst[k]
    BY <1>1, PaceType, ChargedType
  <2> QED BY <2>1, PaceType, SumCongruent DEF ChargedFrom
<1>3. PICK l \in Idx : BusySince(l)
  BY DEF Pace, Busy
<1>4. ready[l] + ChargedFrom(l) = time
  BY <1>3 DEF BusySince
<1>5. ASSUME NEW j \in Idx PROVE ready[j] + ChargedFrom(j) <= time
  <2>1. CASE ready[j] <= time
    BY <2>1 DEF Pace
  <2>2. exec[j] # burst[j]
    BY <1>1, ChargedType DEF Pace
  <2>3. ready[j] <= time
    BY <2>2, PaceType DEF Pace
  <2> QED BY <2>1, <2>3
<1> QED BY <1>1, <1>2, <1>4, <1>5, PaceType, ChargedType DEF Pace

-----------------------------------------------------------------------------
(***************************************************************************)
(* The ideal step, or none, that each step of the loop is.  The policies   *)
(* add that what is started is what the ideal policy starts.               *)
(***************************************************************************)
(* The ideal schedule starts where the loop does.                          *)
LEMMA CpuInit == ParentInit => Cpu!Init
<1> SUFFICES ASSUME ParentInit PROVE Cpu!Init
  OBVIOUS
<1>1. ready \in [Idx -> Readies] /\ exec \in [Idx -> Bursts]
  BY Zenon DEF ParentInit
<1>2. ready \in [Idx -> Nat] /\ exec \in [Idx -> Nat]
  BY <1>1, ParentAssumption
<1>3. \A j \in Idx : life[Child(j)] = "unborn" /\ pid[j] = NoPid
  BY ChildOfIndex DEF ParentInit, KernelInit
<1> QED BY <1>2, <1>3 DEF ParentInit, Cpu!Init, Cpu!Job, Idx

(* The steps of the loop, and of the children, that the ideal schedule     *)
(* does not see.                                                           *)
LEMMA CpuStutters ==
  ASSUME UNCHANGED <<ready, exec, time, pid, running>>,
         \A j \in Idx : life'[Child(j)] = "failed" <=> life[Child(j)] = "failed"
  PROVE  UNCHANGED Cpu!ideal
BY DEF Cpu!ideal

(* The ideal CPU does not see what the children do.                        *)
LEMMA CpuChildren ==
  ASSUME LoopInv, Children
  PROVE  UNCHANGED Cpu!ideal
<1>1. UNCHANGED <<ready, exec, time, pid, running>>
  BY DEF Children, parent
<1>2. \A j \in Idx : life'[Child(j)] = "failed" <=> life[Child(j)] = "failed"
  BY ChildOfIndex DEF Children, ChildStep, ChildUnit, ChildExit, LoopInv,
     ParentTypeOK, KernelTypeOK
<1> QED BY <1>1, <1>2, CpuStutters

(* A new child is not part of the schedule before it is in the table.      *)
LEMMA CpuForkChild ==
  ASSUME LoopInv, NEW j \in Idx, ForkChild(j)
  PROVE  UNCHANGED Cpu!ideal
<1>1. /\ life[Child(j)] = "unborn" /\ life' = [life EXCEPT ![Child(j)] = "alive"]
      /\ UNCHANGED <<ready, exec, time, pid, running>>
  BY DueIsUnborn DEF ForkChild, Fork, table
<1>2. \A k \in Idx : life'[Child(k)] = "failed" <=> life[Child(k)] = "failed"
  BY <1>1, ChildOfIndex DEF LoopInv, ParentTypeOK, KernelTypeOK
<1> QED BY <1>1, <1>2, CpuStutters

(* It arrives when it is put into the table, ...                           *)
LEMMA CpuBlock ==
  ASSUME LoopInv, OnTime, Block
  PROVE  \E j \in Cpu!Job : Cpu!Arrive(j)
<1>1. /\ pc = "block" /\ pid' = [pid EXCEPT ![i] = Child(i)]
      /\ UNCHANGED <<life, ready, exec, time, running>>
  BY DEF Block, table
<1>2. /\ i \in Idx /\ ready[i] = time /\ pid[i] = NoPid
      /\ life[Child(i)] # "failed"
  BY <1>1 DEF LoopInv, Entered, OnTime
<1>3. {j \in Idx : pid'[j] # NoPid} = {j \in Idx : pid[j] # NoPid} \cup {i}
  BY <1>1, <1>2, ChildOfIndex DEF LoopInv, ParentTypeOK
<1>4. \A j \in Idx : j = i => Cpu!Arrive(j)
  BY <1>1, <1>2, <1>3 DEF Cpu!Arrive
<1> QED BY <1>2, <1>4 DEF Cpu!Job, Idx

(* ... and is lost when the fork fails.                                    *)
LEMMA CpuForkFails ==
  ASSUME LoopInv, NEW j \in Idx, pc = "fork", FirstDue(j), ForkFails(Child(j)),
         UNCHANGED <<ready, exec, time, pid, running>>
  PROVE  \E k \in Cpu!Job : Cpu!Arrive(k)
<1>1. life[Child(j)] = "unborn" /\ pid[j] = NoPid /\ ready[j] = time
  BY DueIsUnborn DEF FirstDue, Due
<1>2. life' = [life EXCEPT ![Child(j)] = "failed"]
  BY DEF ForkFails
<1>3. {k \in Idx : life'[Child(k)] = "failed"}
        = {k \in Idx : life[Child(k)] = "failed"} \cup {j}
  BY <1>1, <1>2, ChildOfIndex DEF LoopInv, ParentTypeOK, KernelTypeOK
<1>4. Cpu!Arrive(j)
  BY <1>1, <1>3 DEF Cpu!Arrive
<1> QED BY <1>4 DEF Cpu!Job, Idx

(* waitpid completes the job in service.                                   *)
LEMMA CpuReap ==
  ASSUME LoopInv, ReapRunning
  PROVE  Cpu!Complete
<1>1. /\ running # -1 /\ exec[running] = 0 /\ running' = -1
      /\ Waitpid(pid[running]) /\ UNCHANGED <<ready, exec, time, pid>>
  BY DEF ReapRunning, UsedUp, table
<1>2. \A j \in Idx : life'[Child(j)] = "failed" <=> life[Child(j)] = "failed"
  BY <1>1, ChildOfIndex DEF Waitpid
<1> QED BY <1>1, <1>2 DEF Cpu!Complete

(* After the fork loop everybody who is due is in the table, or lost.      *)
LEMMA CpuSettled ==
  ASSUME LoopInv, pc \in {"select", "demote", "tick"}
  PROVE  Cpu!Settled /\ Cpu!Waiting = Ready
<1>1. Cpu!Waiting = Ready
  BY DEF Cpu!Waiting, Ready
<1>2. ASSUME NEW j \in Idx, ready[j] <= time
      PROVE  pid[j] # NoPid \/ life[Child(j)] = "failed"
  <2>1. ready[j] \in Nat /\ time \in Nat
    BY ParentAssumption DEF LoopInv, ParentTypeOK
  <2>2. life[Child(j)] # "unborn"
    BY <1>2, <2>1 DEF LoopInv, ForkedWhenDue, PastFork
  <2>3. life[Child(j)] \in Lives
    BY ChildOfIndex DEF LoopInv, ParentTypeOK, KernelTypeOK
  <2> QED BY <2>2, <2>3 DEF LoopInv, Entered, Lives
<1> QED BY <1>1, <1>2 DEF Cpu!Settled, Cpu!Job, Idx

(* A switch puts another waiting job into service.                         *)
LEMMA CpuSwitch ==
  ASSUME LoopInv, pc \in {"select", "demote"}, NEW next \in Ready,
         next # running, running' = next,
         UNCHANGED <<life, ready, exec, time, pid>>
  PROVE  Cpu!Start(next)
BY CpuSettled DEF Cpu!Start

(* A unit passes: for the running job, or for nobody when nobody waits; it *)
(* is not counted only when the clock stands in an idle, endless loop.     *)
LEMMA CpuTick ==
  ASSUME LoopInv, OnTime, Tick
  PROVE  /\ running # -1 => Cpu!Serve
         /\ running = -1 => Cpu!Idle \/ UNCHANGED Cpu!ideal
<1>1. /\ pc = "tick" /\ UNCHANGED <<life, ready, pid, running>>
      /\ time' = IF time < MaxTime THEN time + 1 ELSE time
      /\ exec' = IF running = -1 THEN exec ELSE [exec EXCEPT ![running] = @ - 1]
  BY DEF Tick, kernel, table
<1>2. Cpu!Settled /\ Cpu!Waiting = Ready
  BY <1>1, CpuSettled
<1>3. CASE running # -1
  <2>1. running \in Ready
    BY <1>1, <1>3 DEF LoopInv, ParentTypeOK, RunningIsReady, Ready
  <2>2. time < MaxTime
    BY <1>1, <1>3, ClockRuns
  <2> QED BY <1>1, <1>2, <1>3, <2>1, <2>2 DEF Cpu!Serve
<1>4. CASE running = -1
  <2>1. Ready = {}
    BY <1>1, <1>4 DEF OnTime
  <2>2. CASE time < MaxTime
    BY <1>1, <1>2, <1>4, <2>1, <2>2 DEF Cpu!Idle
  <2>3. CASE ~(time < MaxTime)
    BY <1>1, <1>4, <2>3, CpuStutters
  <2> QED BY <2>2, <2>3
<1> QED BY <1>3, <1>4
=============================================================================
