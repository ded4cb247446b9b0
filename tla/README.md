# A TLA+ verification of the four process schedulers

The repository is a user-level scheduler for Linux. `main` reads a policy and a
table of processes (name, ready time, execution time in *units*) and calls one
of four schedulers. A scheduler is one process, pinned to CPU 0, that counts
units with a busy loop; at its ready time it forks each table entry as a child
pinned to CPU 1, and it imposes its policy by raising and lowering the children's
kernel scheduling class. The child burns its units with a busy loop of its own
and exits. Nobody synchronises the two loops: the parent never learns how far a
child has come, and the child may run at any time after its fork.

## Inventory

| Part | State | Operations | What makes it correct |
|---|---|---|---|
| `src/main.c` | the table, the policy | read input, allocate, dispatch, return | every scheduler starts from a table it can work on (the columns `waiting` and `pid` are not initialised); the program ends, at the time the table alone decides |
| `src/FIFO.c` | `time_cnt`, `running`, `finish`, table columns `exec`, `pid` | reap, fork (`proc_exec`, `proc_assign_cpu`, `proc_block`), `next_proc`, switch (`proc_wakeup`, `proc_block`), unit | first come first served, no preemption, printed times are those of the ideal schedule, all children reaped |
| `src/RR.c` | the same, `time_last`, `wait` | the same with `RR_next`, the average | round robin by slots, bounded waiting, the ring search ends, the average |
| `src/SJF.c` | the same | the same; a switch sets `SCHED_FIFO` 99 and demotes nobody | shortest first, the served child outranks the others |
| `src/PSJF.c` | `time`, `pre_running`, `finished_process`, columns `waiting`, `exec`, `pid` | fork (`process_ready`), `some_process_is_ready`, `find_min_index`, priority swap, charge, unit | preemptive shortest first, only forked entries are charged, termination |
| a child | remaining units, its copy of the parent's memory | burn a unit, exit | runs to its end |
| the kernel (external) | life, scheduling class and CPU of each process | `fork`, `sched_setaffinity`, `sched_setscheduler`, `waitpid`, `exit` | |
| `src/kernel_files` | none | two system calls for time stamps and `printk` | not modelled, see below |

The parts interact through system calls (parent to kernel), through the memory
image a child gets by `fork`, and through nothing else. What is hard:

* **interleaving**: a child may run between any two steps of the parent, also
  between its fork, its move to CPU 1 and its demotion; `SCHED_IDLE` slows a
  process down but never stops it;
* **two clocks**: the parent reaps when *its* count is used up; the child may
  be done long before, or not yet;
* **stray reads**: FIFO.c and RR.c demote `proc[running]` also when `running`
  is -1;
* **failing calls**: `fork` (ignored by FIFO.c and RR.c, fatal in SJF.c and
  PSJF.c), `sched_setaffinity` (no CPU 1: `exit(1)` in mid-loop, with children
  left behind), `sched_setscheduler` (no privilege: reported and ignored);
* **ends**: the loops count reaped or charged processes, and one too many or
  too few means an endless loop or a lost child;
* **boundaries**: an execution time of 0, equal ready or execution times, the
  last unit of a slot.

`PROJECT.json` lists each hazard with its line and the properties aimed at it.

As a note on the build: with the sources of this commit the commands of
`src/README.md` (`gcc -c *.c; gcc *.o -o main`) do not link, because FIFO.c, RR.c
and PSJF.c define `proc_exec`, `proc_block`, `proc_wakeup`, `proc_assign_cpu` and
`running` more than once. Each scheduler is modelled from its own file, with the
helpers the file itself defines (RR.c and SJF.c take `proc_assign_cpu` from
PSJF.c).

## The modules

```
Kernel                      fork, waitpid, classes, and the children
  Parent                    the while(1) loop of FIFO.c, RR.c and SJF.c
    FIFO  RR  SJF           the choice of each policy, accounting, properties
  PSJF                      PSJF.c, whose loop is another one
Main                        main.c: FIFO, RR, SJF and PSJF over one table
SingleCpu, SingleCpuRR      abstract: ideal schedules of one CPU
MCFIFO, MCRR, MCSJF         values of the constants for TLC

Arithmetic_proofs           least elements, remainders, sums over finite sets
Kernel_proofs               the system calls and the children
  Parent_proofs             the invariant of the shared loop, its clock and pace
    FIFO_proofs  RR_proofs  SJF_proofs
  PSJF_proofs
Main_proofs                 all four over the one table of main
```

**Kernel.** For each child its `life` (unborn, failed fork, alive, zombie,
reaped), `class`, `cpu` and the units `left`. The scheduling policy and the
priority of a process are one number: `SCHED_IDLE` (-1) < `SCHED_OTHER` (0) <
`SCHED_FIFO` 1..99. The child of entry `j` has pid `j+1`; pid 0 stands for the
caller, as it does for `sched_setscheduler`, and -1 for nobody. `ChildStep` is
the child's loop and exit; it is enabled whatever the class of the child.
`Waitpid` blocks while the child is alive. The class matters in `Preferred`
(who is sure to run) and in the properties.

**Parent.** One action per statement group of the loop, with the program
counter `pc`:

| Action | Code (FIFO.c) |
|---|---|
| `ReapRunning`, `NothingToReap` | the `if` at the loop's head, with `waitpid`, the printed end and `break` |
| `ForkChild`, `ForkIgnored` | `proc_exec` for the next entry due, `fork` working or failing |
| `AssignCpu`, `AssignFails` | `proc_assign_cpu`, with its `exit(1)` |
| `Block` | `proc_block` of the new child, its pid entered into the table |
| `EndFork` | the fork loop has gone through the table |
| `KeepRunning`, `Wakeup`, `Demote` | the switch: wake the next, then block the old one |
| `Tick` | `time_unit()`, `time_cnt++`, `exec--` |
| `Children` | a step of some child, between any two of the above |

The fork loop goes through the indices in order; entries that are not due are
skipped in one step (`FirstDue`), which touches nothing else. The policies give
the index `next`: `NextProc`, `RR_next`, `NextShortest`. The table starts
sorted by ready time, as `qsort` leaves it; as `qsort` is not stable, all
orders of equal entries are initial states. `exec` may be any assignment.

**FIFO** adds `childTime`, the child's copy of `time_cnt`. **RR** adds
`time_last` and `wait`, and the constant `Interval` (500 in RR.c). **SJF** replaces
the two calls of a switch by one (`ToForeground`), and the ignored fork failure by a
fatal one: -1 goes into `proc_assign_cpu`, which exits. **PSJF** has its own
loop: no sorting, no initial pids, no reaping; `HeapWaiting` and `HeapPids` are what `malloc`
may have left in the columns `waiting` and `pid` (any pid but that of a child still to be
forked). An entry with a stray flag is chosen, charged and reclassified by its stray pid. An entry of 0 units is counted down below 0; -1 stands for
all values below 0, as only the least entry of all can have one.

**Main** is the composition. Its variables are those of all four schedulers and
of the children, and the policy that the input file holds; `n_proc` is the
constant `N`, as in the other modules. Each scheduler is an instance of its module
over the variables it uses, and a step of `Run` is a step of the chosen one. `Sort`
is `qsort` by what it does: a permutation of the rows, all columns together, after
which the ready times ascend. Its own actions:

| Action | Code |
|---|---|
| `Init` | the file has been read and the table allocated (`main.c`, up to the `strcmp` chain) |
| `DispatchSorted`, `DispatchPsjf`, `NotSupported` | the chain, and what each scheduler does with the table first: `qsort` and the pids of -1, or nothing (PSJF.c) |
| `Pin`, `PinFails` | the scheduler pins itself to CPU 0, or exits |
| `OwnClassFails` | RR.c exits when its `sched_setscheduler` of itself fails |
| `Run`, `Child` | the scheduler's loop; the children, also when the program is over |
| `Leave` | return to `main`, SJF.c's own `exit(0)`, or the end by `exit(1)` |

**Abstractions.** Names, printing and process ids are left out. A unit is one
step of the parent, and one step of the child: neither knows of the other's.
`time` saturates at `MaxTime`, only to keep the endless loops finite: `ClockAssumption`
(`PsjfClockAssumption` in PSJF.c's module) puts it beyond the end of every schedule,
and the clock invariants below prove that no schedule meets it.
A child forked with a count below 0 (an entry of 0 units that PSJF.c counted down before
it was forked, on memory that was not zeroed) burns none. A
missing privilege (`"priority"`) and a failing `fork` differ: the first holds for
the whole run, the second is decided at each call. `sched_setaffinity` may fail at each
call for children; in the
modules of the schedulers the parent's own calls before the loop are taken to succeed (if
one fails, nothing has happened yet). `Main` has that step, and lets the affinity call of every scheduler
fail and RR.c's `sched_setscheduler` of itself (`"own"`), both of which exit. FIFO.c and SJF.c do not stop
when theirs fails, and it changes nothing: a program started from a shell is `SCHED_OTHER` already. PSJF.c makes no such call. A file
that cannot be opened ends the program before the first modelled state.

**SingleCpu** and **SingleCpuRR** are the schedules that `src/README.md` works
out by hand ("理論排程"): jobs arrive, one is in service, each unit is charged to
it, the CPU idles only when nobody waits. They know no processes, classes or
failing calls (a job whose fork failed is `lost`). They are deliberately weaker
than the code in one place: equal jobs are served in any order; and
SingleCpuRR leaves open who follows a job that completes, where RR.c restarts
at the head of the table.

## The runs

| Run | Checks | Bounds |
|---|---|---|
| `fifo` | `TypeOK`, `AwakeIsRunning`, `DoneMeansAllReaped`; `NonPreemptive`, `Terminates`, `IdealSchedule` | 3 entries, ready 0..2, exec 1..2, both values of `proc[-1].pid`, no failing call |
| `fifo_faults` | `FifoOrder`, `EndedOnSchedule`, `EndedRanToCompletion` under all faults; `ForkedAreReaped`, `FollowsIdeal` | the same, exec 0..2 |
| `rr` | `TypeOK`, `BoundedWait`, `FairShares`, `AwakeIsRunning`; `Terminates`, `IdealSchedule` | 3 entries, ready 0, 1, 3, exec 1, 2, 4, slots of 2 |
| `rr_faults` | `RR_nextReturns`, `WaitIsTurnaround`, `EndedRanToCompletion` under all faults; `ForkedAreReaped`, `FollowsIdeal` | 3 entries, exec 0..2, slots of 1 |
| `sjf` | `TypeOK`, `ChosenOutranks`, `ShortestFirst`; `Terminates`, `FollowsIdeal` | 3 entries, ready 0..2, exec 1..3, failing `fork` and `sched_setaffinity` |
| `psjf` | `TypeOK`, `OnlyForkedAreCharged`, `OnlyShorterOrEarlierDelay`, `NobodyFinishesMore`; `Terminates`, `FollowsIdeal` | 3 entries, ready 0 and 2, exec 1 and 3, each flag in memory 0 or 1, the same faults |
| `main` | `TypeOK`, `ReturnsOnTime`, `NoneLeftBehind`, `EndlessNeverReturns`; `HandsOver`, `MainEnds`, `ChildrenFinish` | all policies and an unknown one, 3 entries, ready 0 and 2, exec 0..2, slots of 1, a stranger in the column `pid`, failing `fork` and `sched_setaffinity`, RR.c's own `sched_setscheduler` failing |

`FollowsIdeal` asks that each step be a step of the ideal schedule or none, `IdealSchedule`
for the fairness of that schedule as well: nobody is forgotten. For FIFO and RR the runs without
faults check the second and the runs under all faults the first. In SJF and PSJF a failing call ends
the program, so one run each has them; `Terminates` allows the exit. `sjf`, `psjf`
and `main` leave the missing privilege out: with it no child
ever becomes `SCHED_FIFO`, and `ChosenOutranks` and `ChildrenFinish` would lose what they are about.

Three entries are the least number for which a choice (two waiting) meets a
running process, and for which RR's ring has somebody to pass over. Two
different ready times with a gap give arrivals before, during and after a
service and an idle CPU; execution times below, at and twice the slot give every kind
of slot end. No symmetry is used: indices are ordered.

What they show: with working calls each scheduler's bookkeeping follows the ideal
schedule exactly and ends, whatever the children's speed and whatever the
stray read gives. With failing calls order and accounting still hold.
`BoundedWait` is worth a remark: with *m* other processes a ready process of
RR.c waits at most `Interval * m(m+1)/2` units, not `Interval * m`, because the
search restarts at the head of the table after every end. The bound is attained
for small tables. For the same reason entries that became ready together may be more than one
slot apart: `FairShares` allows one slot more for each process that has ended, and with
one slot less TLC finds a table that breaks it.

`OnlyShorterOrEarlierDelay` is the bound for a single process *j* of PSJF.c: it ends no later than its ready time plus its
own units plus, for each process *k* that it meets, the lesser of the two execution
times. A shorter *k* may take all of its units first; a longer one only those
that it has left when it is as short as *j*, and so only if it arrived at least their difference
earlier. A long process that came with *j* or shortly before it delays *j* not at all.

PSJF.c sets neither `waiting` nor `pid` before it forks, and the memory need not be zeroed. The
history variable `found` remembers the flags it started with. An entry whose own flag
was not set by chance is charged only once it has been forked, whatever was left in the
rest of the table (`OnlyForkedAreCharged`). One with a stray flag is charged at once, and what else
is promised of PSJF.c is promised only of memory without such a flag (`HeapIsClean`). In the run `psjf`
each entry may have one; the pid it is charged with is then 0, and the scheduler gives `SCHED_FIFO`
to itself.

`NobodyFinishesMore` compares PSJF.c with every schedule of one CPU there could be:
a set of processes can be finished by a given time exactly if, from each of their ready
times on, the units still to come fit in; no such set is larger than the number
PSJF.c has finished. `ReturnsOnTime` says that the four schedulers differ in order but not in
length. They charge, advance the clock and compare in different orders, so neither
is plain from a loop. `HandsOver` is what makes the runs of the single modules
say something about the program: each of their specifications starts from states that
`main` and the preparation of the table produce, all of them for any order of the
input.

Five runs end in a violation; each is a finding in `PROJECT.json`:

* `fifo_exittime`: a child of FIFO.c prints the time of its fork as its exit time;
* `rr_average`: what RR.c prints as average waiting time is the average
  turnaround time, since `exec` is 0 when it is subtracted (the 1500.00 recorded
  for RR_1 in `src/Result.txt` would be 1000.00);
* `rr_selfdemote`: the first switch demotes the scheduler itself, when
  `proc[-1].pid` is 0;
* `rr_endless`: RR.c loops for ever after its only child, one of 0 units, has finished;
* `psjf_inversion`: a process that a shorter one preempts, with units still to run, gets
  priority 90 from PSJF.c and the chosen one 10.

An execution time of 0 makes FIFO.c, RR.c and SJF.c loop for ever: the entry is forked
and its child ends at once, but the choice skips it, so it is never reaped and
`finish` never reaches the number of processes. The fault runs of FIFO and RR include such
entries, to show that the others are not disturbed by them. In PSJF.c such an entry
falls below 0 and keeps all others from being charged. With an empty table FIFO.c, RR.c
and SJF.c never end either. `Endless` in `Main` names these inputs, `EndlessNeverReturns` says that on each
of them no scheduler returns (the tables of the run have three entries: the empty one is
covered by the theorem `NeverReturns`, for every `N`), and `MainEnds` that there are no others; `Terminates` is claimed for
execution times of at least 1.

The ideal finishing times that `src/README.md` gives for RR_3 (18700, 19200, 18200, 31200, 30200,
28200) are those of the modelled loop, worked out by hand; recorded inputs of this
size are beyond a run in which six children move independently.

## Fairness

The parent is a `SCHED_OTHER` process (or `SCHED_IDLE`, once it has demoted itself)
on CPU 0 and never blocks but in `waitpid`: weak fairness of its steps. In FIFO.c and RR.c
all children are `SCHED_OTHER` or `SCHED_IDLE`; Linux starves neither, so every child
has weak fairness of its own. In SJF.c and PSJF.c a child is sure to run only
while no `SCHED_FIFO` child of higher priority is alive on its CPU
(`Preferred`). Steps of other children stay possible: Linux lets
5% of a CPU to non-real-time processes, and CPU 1 has just been given to the new child. A new child of the
parent runs on CPU 0 until its affinity is set; there it competes with the
parent only.

`Main` assumes the same of whatever process is running the scheduler, and the rule of
SJF.c and PSJF.c for every child: under FIFO and RR no child is `SCHED_FIFO`, so all are preferred.

No fairness is assumed of failing calls. The abstract specifications promise that
each job arrives and is served; the runs `fifo` and `rr` check that too (`IdealSchedule`
includes the fairness of the ideal schedule).

## What is proved

Every safety invariant, every action property and the steps of every refinement
that a passing run checks is a theorem, for every value of the constants. What
is left to TLC is liveness.

| Module | Theorem: property |
|---|---|
| `FIFO_proofs` | `TypeCorrect`: `TypeOK`; `EndedRan`: `EndedRanToCompletion`; `NoOrphans`: `DoneMeansAllReaped`; `NeverPreempts`: `NonPreemptive`; `OnlyRunningIsAwake`: `AwakeIsRunning`; `FirstComeFirstServed`: `FifoOrder`; `PrintsTheSchedule`: `EndedOnSchedule`; `Implements`: `FollowsIdeal` |
| `RR_proofs` | `TypeCorrect`, `EndedRan`, `NoOrphans`, `OnlyRunningIsAwake`, `Implements` as above; `SearchEnds`: `RR_nextReturns`; `WaitAddsUp`: `WaitIsTurnaround`; `WaitIsBounded`: `BoundedWait`; `SharesAreFair`: `FairShares` |
| `SJF_proofs` | `TypeCorrect`, `EndedRan`, `NoOrphans`, `Implements` as above; `RunningOutranks`: `ChosenOutranks`; `ShortestJobFirst`: `ShortestFirst` |
| `PSJF_proofs` | `TypeCorrect`: `TypeOK`; `OnlyTheForked`: `OnlyForkedAreCharged`; `DelayIsBounded`: `OnlyShorterOrEarlierDelay`; `Implements`: `FollowsIdeal`; `IsOptimal`: `NobodyFinishesMore` |
| `Main_proofs` | `TypeCorrect`: `TypeOK`; `StartsRight`: `HandsOver`; `NoneLeft`: `NoneLeftBehind`; `NeverReturns`: `EndlessNeverReturns`; `ReturnsInTime`: `ReturnsOnTime` |

**From which assumptions.** `N` is any natural number, ready and execution times
are any natural numbers below the bound on the clock, any set of calls may fail,
and the stray read gives either outcome (`KernelAssumption`, `ParentAssumption`,
`PsjfAssumption`, `IntervalAssumption`; `MainAssumption` collects them all). The only
assumption on the model rather than on the program is that the clock's bound lies
beyond every schedule (`ClockAssumption`, `PsjfClockAssumption`). Two
conditions are on the input:

* `HeapIsClean` (no `waiting` flag was 1 in the memory from `malloc`) is part of the properties of PSJF.c
  but its types and `OnlyForkedAreCharged`, and of `ReturnsOnTime` (as `~StrayFlag`): with a stray 1 an
  entry is charged before it is forked. No theorem assumes it.
* `SomeUnits` (0 is not in `Bursts`), the hypothesis of `Implements` and `IsOptimal` of PSJF: an
  entry of 0 units is counted below 0, stays the least, and keeps the others from being
  charged, so on such a table PSJF.c follows no schedule. The other theorems of PSJF and all others
  hold for entries of 0 units too.

### The shared loop

The inductive invariant of FIFO.c, RR.c and SJF.c is `ParentInv` in `Parent_proofs`:

* `ForkedWhenDue`: the entries forked, or failed to, are exactly those due so
  far, up to the fork loop's index; so nobody is forked twice. Type correctness
  needs it (a second fork would refill `left`), and so does the order: whoever
  was ready earlier is already in the table;
* `Entered`: pids and lives of the children agree, but for the child being set up;
* `RunningIsReady`: the running entry is in the table and has units left, except
  at the reaping; without it `exec` would go below 0;
* `EndedIsReaped`: reported, reaped and burned out are the same;
* `Counted`: `finish` is the number of the reaped, and all of them at the end.

Each step of the loop has a lemma of its own, in which the policy enters only as
an index of `Ready`; so the lemmas serve the three policies alike. `AwakeAt` follows the two halves of
a switch, for FIFO and RR. Two further invariants are about time:

* `OnTime`: while somebody waits, the clock is no further ahead of the last
  arrival than by all units charged. These are at most `N` times the longest
  execution time, so `ClockAssumption` keeps the clock below its bound;
* `Pace`: a busy period. While somebody waits, the clock shows the ready time of
  some entry plus all units charged to entries ready since then, and for no entry is
  that sum beyond the clock. It is what makes the end of a schedule independent of its order:
  when all is charged, the clock is the greatest of these sums.

### The policies

**FIFO.** A switch starts from the idle CPU only (`SwitchFromIdle`). The order is `InOrder`:
whoever is in service or has ended was preceded by all who were ready earlier. For
the printed times, `EndTimes` defines the hand-made schedule by recursion over the table; its
value exists and is unique because two candidates cannot differ at a least index, and
`OnSchedule` ties it to the state: the running entry will end on time, and
whoever is next would start on time if started now. The refinement maps each action to the
step of `SingleCpu` it stands for, and everything else to a stutter.

**RR.** `SearchEnds` is what `RR_next` needs of `RunningIsReady`: a loop over the ring that
would not return has no ready entry. `SlotsKept` (in `InTime`) says where in its slot the running
entry is; it is the bridge to `SingleCpuRR`, whose slots are counted down, while
RR.c compares `(time - timeLast) % Interval`. The waiting bound is `InTurn`, a potential: with *u* other unfinished
processes and *b* of them before it in the ring, a waiting entry still waits at most the
rest of this slot, *b* slots, and *u(u-1)/2* more for the restarts at the head of the table that ends
of others can cause. Fair shares are `TakeTurns`: of two entries ready together, one is ahead
by one slot per end so far and by what the present turn gives (`Extra`).

**SJF.** `Classes` gives the classes exactly: 99 for the running child, `SCHED_OTHER` or below for
the others; `StartedFirst` and `ServedWhole` strengthen `ShortestFirst`: the one in service comes, in the
order `Precedes`, before all others that were ready when it started, as long ago as the units it has been charged.

**PSJF** has a loop of its own and so an invariant of its own, `LoopOK`, which
holds on any memory. With it `NotBefore` is inductive for each single entry of which the flag was clear (not in
the table means no flag and nothing charged), and `OnlyTheForked` follows. On clean memory `CleanOK` holds too. The bound on the delay is `DelayOK`. `Passed`
counts, for each process *k*, what passed since *j* arrived of the last units of *k*, those that are
no more than *j* has itself; `BusySinceReady` says that all the time since then went into such units,
as the CPU does not idle and charges the least. That a longer *k* must have been early enough
(`EarlyEnough`) needs `Paced`, that nobody gets units faster than the clock goes. Optimality is an exchange argument,
`Optimal`: for each set *S* of arrived processes there are as many, *B*, with no more units left
altogether than a CPU working on *S* alone would have left. Charging a unit to the least
entry keeps this for every *S* (if *B* has somebody else unfinished, the least one can take its
place), and so does an arrival. Where a set *S* could be finished by now, *B* is finished.

### The program

In `Main`, `MainInv` says what holds in each phase: until the dispatch nothing has happened
(`Fresh`), then the table is what the policy's own `Init` asks for (`Prepared`; for `Sort`, that a
permutation of the rows keeps each column's type), also when the scheduler exits before its loop; then the chosen scheduler's own
inductive invariant holds (`InLoop`, which is `Steady` of its module), and after the end it
still does, as only children move. `TypeOK` of `Main` speaks of all phases: `FreshTypes` gives it
before the loop and after an early exit, `LoopTypes` from the invariant of whatever scheduler
was called. The proof modules are instances in `Main_proofs`; lemmas
`FifoSame` to `PsjfSame` say that their operators over `Main`'s
variables are those of the schedulers' instances in `Main`, so each step of `Run` is
covered by the `SteadyStep` of its scheduler. From `Steady` at the end follow the theorems: all
entries are charged (`Counted`), none had 0 units (so `NeverReturns`), all children are
reaped, and by `Pace` the clock is what `ReturnsOnTime` says, for four loops that
charge, advance and compare in different orders. `StartsRight` and `RunKeeps` together let what is
proved of a scheduler's specification be read as a statement about the program.

### The arithmetic

Sums over the table (`SumFunctionOnSet`) and `EndTimes` are recursive, and induction is out of the
provers' reach as a rule with an operator parameter. `Arithmetic_proofs` goes round it by
minimal counterexamples: a nonempty set of naturals has a least element (`LeastNat`), and among the finite
sets on which a fact about sums fails there is one with no smaller one inside it (`SmallestSet`); taking an element
out of it refutes it. The folds of the community modules are unfolded once (`SumUnfolds`),
after which sums are used by `SumWith`, `SumWithout`, `SumUpdate`, `SumBound` and
`SumMonotone` only.

### Only model-checked

All liveness: `Terminates`, `ForkedAreReaped`, `MainEnds`, `ChildrenFinish`, and the half of
`IdealSchedule` that is the ideal schedule's fairness. They rest on `WF` and so on `ENABLED`, of which the
prover knows nothing. `MainEnds` in particular is the converse of `NeverReturns`.

## Not modelled

* `src/kernel_files`: `my_syscall_0`/`sys_getTime` copy the kernel's clock and
  `my_syscall_1`/`sys_printk` log a string. They keep no state, every call of them in the
  schedulers is commented out, and the rest of the directory is a copy of kernel headers and
  tables.
* `src/Result.txt`: recorded output, read as documentation.
* Parsing of the input file, names, messages, and an execution time of `INT_MAX` in PSJF.c
  (2^31 - 1 units are months of running), for which `find_min_index` would return index 0.

## Plan

Done: Kernel, Parent, the four schedulers, their composition in Main, both
abstract schedules, twelve runs, and theorems for all that the passing runs check but
liveness. Left:

1. the schedulers' properties as theorems of the program: `Main`'s runs with the policy
   `"FIFO"` satisfy `FifoOrder` and `EndedOnSchedule`, and so on, from `StartsRight` and the inductive
   invariants of the modules (for `Steady` they would have to contain the invariants of
   those theorems);
2. the schedules as refinements of the program, with `Main`'s phases before and after the loop as
   stutters.
