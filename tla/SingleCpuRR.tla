----------------------------- MODULE SingleCpuRR ----------------------------
(***************************************************************************)
(* The ideal single CPU of SingleCpu under round robin: a job keeps the    *)
(* CPU for a slot of Interval units, then the next waiting job in ring     *)
(* order gets it.  Who follows a job that completes is left open.          *)
(***************************************************************************)
EXTENDS SingleCpu

CONSTANT Interval

VARIABLE slot   \* units of its slot the job in service has used

Ring(j) == (j - cur - 1) % N

Expired == slot = Interval /\ Waiting # {cur}

NextInRing(j) ==
  \/ cur = -1
  \/ Expired /\ \A k \in Waiting : Ring(j) <= Ring(k)

RrStart(j)  == NextInRing(j) /\ Start(j) /\ slot' = 0
RrServe     == /\ ~Expired /\ Serve
               /\ slot' = IF slot = Interval THEN 1 ELSE slot + 1
RrComplete  == Complete /\ slot' = 0
RrArrive(j) == Arrive(j) /\ UNCHANGED slot
RrIdle      == Idle /\ UNCHANGED slot

RrNext ==
  \/ \E j \in Job : RrArrive(j) \/ RrStart(j)
  \/ RrServe \/ RrComplete \/ RrIdle

rrIdeal == <<ideal, slot>>

RrFairness ==
  /\ WF_rrIdeal(\E j \in Job : RrArrive(j))
  /\ WF_rrIdeal(\E j \in Job : RrStart(j))
  /\ WF_rrIdeal(RrServe) /\ WF_rrIdeal(RrComplete)
  /\ WF_rrIdeal(RrIdle /\ arrived \cup lost # Job)

RrSafety == Init /\ slot = 0 /\ [][RrNext]_rrIdeal
RrSpec   == RrSafety /\ RrFairness

=============================================================================
