------------------------- MODULE ConcurrencyLimiter -------------------------
(***************************************************************************)
(* The FIFO admission gate for background subagents:                       *)
(* packages/pi-subagents/src/lifecycle/concurrency-limiter.ts, together    *)
(* with the setting that gives its limit (src/settings.ts, src/index.ts).  *)
(*                                                                         *)
(* Everything below runs on one JavaScript thread, so one action is one    *)
(* synchronous segment of code.  A task is started inside recheck(), its   *)
(* promise settles later, and the slot it held is given back later still,  *)
(* in the finally() callback.                                              *)
(***************************************************************************)
EXTENDS Integers, Sequences, FiniteSets, Functions

CONSTANTS
    Tasks,      \* the run closures ever handed to schedule(), each once
    MaxLimit    \* bound: the largest value of the maxConcurrent setting

(* What the theorems about the limiter take for granted; the lifecycle,    *)
(* which instantiates it, assumes the same of its own constants.           *)
LimiterAssumption == MaxLimit \in Nat \ {0} /\ IsFiniteSet(Tasks)

VARIABLES
    pending,    \* the queue of tasks not started yet, oldest first
    active,     \* the number of slots taken
    limit,      \* what getLimit() returns now
    slot        \* how far each task has come, one of SlotStates

vars == <<pending, active, limit, slot>>

(***************************************************************************)
(* unscheduled: never handed over.  pending: in the queue.  started: its   *)
(* closure was called.  settled: its promise settled, the slot not yet     *)
(* given back.  freed: the slot was given back.  dropped: clear() resolved *)
(* its promise without calling it.                                         *)
(***************************************************************************)
SlotStates == {"unscheduled", "pending", "started", "settled", "freed", "dropped"}

(* A task that took a slot and has not given it back. *)
HoldsSlot(t) == slot[t] \in {"started", "settled"}

Init ==
    /\ pending = <<>>
    /\ active = 0
    /\ limit \in 1 .. MaxLimit
    /\ slot = [t \in Tasks |-> "unscheduled"]

(***************************************************************************)
(* recheck(): while a slot is free, shift the oldest task and start it.    *)
(* `queue', `taken' and `cap' are the queue, the active count and the      *)
(* limit it finds; the loop starts the first Admissions of the queue.      *)
(***************************************************************************)
Admissions(queue, taken, cap) ==
    IF taken >= cap THEN 0
    ELSE IF Len(queue) <= cap - taken THEN Len(queue) ELSE cap - taken

Recheck(queue, taken, cap, states) ==
    LET n == Admissions(queue, taken, cap) IN
    /\ pending' = SubSeq(queue, n + 1, Len(queue))
    /\ active' = taken + n
    /\ limit' = cap
    /\ slot' = [t \in Tasks |->
                    IF \E i \in 1 .. n : queue[i] = t THEN "started" ELSE states[t]]

(* schedule(task): queue it, then recheck. *)
Schedule(t) ==
    /\ slot[t] = "unscheduled"
    /\ Recheck(Append(pending, t), active, limit, [slot EXCEPT ![t] = "pending"])

(* The task's own promise settles; so does the one schedule() returned. *)
TaskSettles(t) ==
    /\ slot[t] = "started"
    /\ slot' = [slot EXCEPT ![t] = "settled"]
    /\ UNCHANGED <<pending, active, limit>>

(* The finally() callback: give the slot back, then recheck. *)
SlotFreed(t) ==
    /\ slot[t] = "settled"
    /\ Recheck(pending, active - 1, limit, [slot EXCEPT ![t] = "freed"])

(* The operator changes maxConcurrent; the settings call recheck(). *)
SetLimit(n) ==
    /\ n # limit
    /\ Recheck(pending, active, n, slot)

(* clear(): drop everything pending, resolving its promises. *)
Clear ==
    /\ pending' = <<>>
    /\ slot' = [t \in Tasks |-> IF t \in Range(pending) THEN "dropped" ELSE slot[t]]
    /\ UNCHANGED <<active, limit>>

Next ==
    \/ \E t \in Tasks : Schedule(t) \/ TaskSettles(t) \/ SlotFreed(t)
    \/ \E n \in 1 .. MaxLimit : SetLimit(n)
    \/ Clear

Spec == Init /\ [][Next]_vars

-----------------------------------------------------------------------------
(* Every variable has its type. *)
TypeOK ==
    /\ pending \in Seq(Tasks)
    /\ active \in Nat
    /\ limit \in 1 .. MaxLimit
    /\ slot \in [Tasks -> SlotStates]

(* The queue holds every pending task, once, and nothing else. *)
QueueIsPending ==
    /\ \A t \in Tasks : slot[t] = "pending" <=> t \in Range(pending)
    /\ IsInjective(pending)

(* The counter never drifts from the tasks that hold a slot: active++ and  *)
(* active-- pair up for every task, whatever clear() and the setting do.   *)
SlotAccounting == active = Cardinality({t \in Tasks : HoldsSlot(t)})

(* A task waits only while every slot is taken: no path that frees a slot, *)
(* raises the limit or queues a task forgets to recheck.                   *)
WorkConserving == pending # <<>> => active >= limit

(* No step takes the count up past the limit in force after that step.  A  *)
(* lowered limit may leave it above, but then nothing new starts.          *)
AdmitsWithinLimit == [][active' > active => active' <= limit']_vars

(* A task never starts before one queued ahead of it. *)
FifoAdmission ==
    [][\A i, j \in DOMAIN pending :
        i < j /\ slot'[pending[j]] = "started" => slot'[pending[i]] = "started"]_vars

=============================================================================
