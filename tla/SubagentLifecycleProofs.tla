----------------------- MODULE SubagentLifecycleProofs -----------------------
(***************************************************************************)
(* Proofs about SubagentLifecycle, for any finite set of records, any      *)
(* bounds, and with or without a workspace provider.                       *)
(*                                                                         *)
(* The lifecycle first implements its limiter, so that what is proved of   *)
(* the limiter holds here.  The inductive invariant is then one predicate  *)
(* per record.  What makes it inductive: a record that is unborn, queued   *)
(* or stopped in the queue has done nothing yet (Fresh), a slot is pending *)
(* exactly while its record is queued or was stopped there, and runs later *)
(* than the current one have not begun.  There is one lemma per shape of   *)
(* step (a run ends, a run advances, a preparation moves ...); the actions *)
(* are its instances.                                                      *)
(***************************************************************************)
EXTENDS SubagentLifecycle, FiniteSetTheorems, SequenceTheorems, TLAPS

-----------------------------------------------------------------------------
(***************************************************************************)
(* The limiter by itself, with any finite set of tasks.  The slot counter  *)
(* alone is not inductive: that it never goes negative follows from its    *)
(* agreement with the tasks that hold a slot, and that agreement survives  *)
(* a recheck only because the queue names each pending task exactly once.  *)
(***************************************************************************)
(* What the limiter takes for granted is assumed of the lifecycle. *)
LEMMA LimiterAssumptionHolds == Limiter!LimiterAssumption
  BY LifecycleAssumption DEF IsFiniteSet, Limiter!IsFiniteSet, Limiter!LimiterAssumption

Holders(states) == {t \in Agents : states[t] \in {"started", "settled"}}

(* The queue and the states agree, as QueueIsPending says of the variables. *)
QueueAgrees(queue, states) ==
    /\ \A t \in Agents : states[t] = "pending" <=> t \in Limiter!Range(queue)
    /\ Limiter!IsInjective(queue)

(* What recheck() finds, in any of its callers. *)
SlotsSound(queue, taken, cap, states) ==
    /\ Limiter!LimiterAssumption
    /\ queue \in Seq(Agents)
    /\ taken \in Nat
    /\ cap \in 1 .. MaxLimit
    /\ states \in [Agents -> Limiter!SlotStates]
    /\ QueueAgrees(queue, states)
    /\ taken = Cardinality(Holders(states))

(* The limiter's inductive invariant. *)
SlotInv == SlotsSound(pending, active, limit, slot) /\ Limiter!WorkConserving

-----------------------------------------------------------------------------
(* The loop starts no more tasks than there are, stops at the limit, and   *)
(* leaves a task behind only when it reached the limit.                    *)
LEMMA AdmissionsBounds ==
    ASSUME NEW queue \in Seq(Agents), NEW taken \in Nat, NEW cap \in Nat
    PROVE  /\ Limiter!Admissions(queue, taken, cap) \in 0 .. Len(queue)
           /\ Limiter!Admissions(queue, taken, cap) > 0 => taken + Limiter!Admissions(queue, taken, cap) <= cap
           /\ Limiter!Admissions(queue, taken, cap) < Len(queue) =>
                taken + Limiter!Admissions(queue, taken, cap) >= cap
    BY LenProperties DEF Limiter!Admissions

(* The set of tasks at the first n places of a queue without repetitions.  *)
LEMMA PrefixCardinality ==
    ASSUME NEW queue \in Seq(Agents), Limiter!IsInjective(queue), NEW n \in 0 .. Len(queue)
    PROVE  LET S == {queue[i] : i \in 1 .. n}
           IN  IsFiniteSet(S) /\ Cardinality(S) = n
<1> DEFINE S == {queue[i] : i \in 1 .. n}
           f == [i \in 1 .. n |-> queue[i]]
<1>1. DOMAIN queue = 1 .. Len(queue) /\ Len(queue) \in Nat
  BY LenProperties
<1>2. f \in Bijection(1 .. n, S)
  <2>1. f \in [1 .. n -> S]
    OBVIOUS
  <2>2. \A i, j \in 1 .. n : f[i] = f[j] => i = j
    BY <1>1 DEF Limiter!IsInjective
  <2>3. \A x \in S : \E i \in 1 .. n : f[i] = x
    OBVIOUS
  <2> QED
    BY <2>1, <2>2, <2>3 DEF Bijection, Injection, Surjection, IsInjective, Limiter!IsInjective
<1>3. IsFiniteSet(1 .. n) /\ Cardinality(1 .. n) = n
  BY FS_Interval
<1>4. ExistsBijection(1 .. n, S)
  BY <1>2 DEF ExistsBijection
<1> QED
  BY <1>3, <1>4, FS_Bijection

(* recheck() re-establishes the invariant, whatever its caller changed.    *)
LEMMA RecheckKeeps ==
    ASSUME NEW queue, NEW taken, NEW cap, NEW states,
           SlotsSound(queue, taken, cap, states),
           Limiter!Recheck(queue, taken, cap, states)
    PROVE  SlotInv'
<1> DEFINE n == Limiter!Admissions(queue, taken, cap)
           started == {queue[i] : i \in 1 .. n}
<1>1. /\ queue \in Seq(Agents) /\ taken \in Nat /\ cap \in Nat /\ cap \in 1 .. MaxLimit
      /\ states \in [Agents -> Limiter!SlotStates]
      /\ DOMAIN queue = 1 .. Len(queue) /\ Len(queue) \in Nat
      /\ \A i \in 1 .. Len(queue) : queue[i] \in Agents
  BY LenProperties, ElementOfSeq DEF SlotsSound, Limiter!LimiterAssumption
<1>2. /\ n \in 0 .. Len(queue)
      /\ n < Len(queue) => taken + n >= cap
  BY <1>1, AdmissionsBounds
<1>3. /\ pending' = SubSeq(queue, n + 1, Len(queue))
      /\ active' = taken + n
      /\ limit' = cap
      /\ slot' = [t \in Agents |-> IF t \in started THEN "started" ELSE states[t]]
  <2>1. \A t \in Agents : (\E i \in 1 .. n : queue[i] = t) <=> t \in started
    OBVIOUS
  <2> QED
    BY <2>1 DEF Limiter!Recheck
<1> HIDE DEF n
<1>4. /\ pending' \in Seq(Agents)
      /\ Len(pending') = Len(queue) - n
      /\ DOMAIN pending' = 1 .. (Len(queue) - n)
      /\ \A i \in 1 .. (Len(queue) - n) : pending'[i] = queue[n + i]
  <2>1. \A i \in n + 1 .. Len(queue) : queue[i] \in Agents
    BY <1>1, <1>2
  <2>2. /\ pending' \in Seq(Agents)
        /\ Len(pending') = IF n + 1 <= Len(queue) THEN Len(queue) - (n + 1) + 1 ELSE 0
        /\ \A i \in 1 .. Len(queue) - (n + 1) + 1 : pending'[i] = queue[(n + 1) + i - 1]
    BY <1>1, <1>2, <1>3, <2>1, SubSeqProperties
  <2>0. n \in Int /\ Len(queue) \in Int /\ n <= Len(queue)
    BY <1>1, <1>2
  <2>3. Len(pending') = Len(queue) - n
    BY <2>0, <2>2
  <2>4. \A i \in 1 .. (Len(queue) - n) : pending'[i] = queue[n + i]
    <3>1. ASSUME NEW i \in 1 .. (Len(queue) - n)
          PROVE  i \in 1 .. Len(queue) - (n + 1) + 1 /\ (n + 1) + i - 1 = n + i
      BY <2>0
    <3> QED
      BY <2>2, <3>1
  <2> QED
    BY <2>2, <2>3, <2>4, LenProperties
<1>5. started \subseteq Agents
  BY <1>1, <1>2
<1>6. slot' \in [Agents -> Limiter!SlotStates]
  BY <1>1, <1>3, <1>5 DEF Limiter!SlotStates
<1>7. QueueAgrees(pending', slot')
  <2>1. ASSUME NEW t \in Agents
        PROVE  slot'[t] = "pending" <=> t \in Limiter!Range(pending')
    <3>1. slot'[t] = "pending" <=> t \notin started /\ \E i \in 1 .. Len(queue) : queue[i] = t
      BY <1>1, <1>3 DEF SlotsSound, QueueAgrees, Limiter!Range
    <3>2. t \in Limiter!Range(pending') <=> \E i \in 1 .. (Len(queue) - n) : queue[n + i] = t
      BY <1>4 DEF Limiter!Range
    <3>3. ASSUME NEW i \in 1 .. Len(queue), queue[i] = t, t \notin started
          PROVE  \E j \in 1 .. (Len(queue) - n) : queue[n + j] = t
      <4>1. i \notin 1 .. n
        BY <3>3
      <4>2. i - n \in 1 .. (Len(queue) - n) /\ n + (i - n) = i
        BY <1>1, <1>2, <4>1
      <4> QED
        BY <3>3, <4>2
    <3>4. ASSUME NEW j \in 1 .. (Len(queue) - n), queue[n + j] = t
          PROVE  t \notin started /\ \E i \in 1 .. Len(queue) : queue[i] = t
      <4>1. n + j \in 1 .. Len(queue) /\ n + j \notin 1 .. n
        BY <1>1, <1>2
      <4>2. \A i \in 1 .. n : i \in DOMAIN queue /\ queue[i] = t => i = n + j
        BY <1>1, <3>4, <4>1 DEF SlotsSound, QueueAgrees, Limiter!IsInjective
      <4> QED
        BY <1>1, <1>2, <3>4, <4>1, <4>2
    <3> QED
      BY <3>1, <3>2, <3>3, <3>4
  <2>2. Limiter!IsInjective(pending')
    <3> SUFFICES ASSUME NEW i \in 1 .. (Len(queue) - n), NEW j \in 1 .. (Len(queue) - n),
                        pending'[i] = pending'[j]
                 PROVE  i = j
      BY <1>4 DEF Limiter!IsInjective
    <3>1. n + i \in DOMAIN queue /\ n + j \in DOMAIN queue /\ queue[n + i] = queue[n + j]
      BY <1>1, <1>2, <1>4
    <3>2. n + i = n + j
      BY <3>1 DEF SlotsSound, QueueAgrees, Limiter!IsInjective
    <3> QED
      BY <1>2, <3>2
  <2> QED
    BY <2>1, <2>2 DEF QueueAgrees
<1>8. active' = Cardinality(Holders(slot'))
  <2>1. Holders(slot') = Holders(states) \cup started
    BY <1>1, <1>3, <1>5 DEF Holders
  <2>2. Holders(states) \cap started = {}
    <3>1. \A i \in 1 .. n : i \in DOMAIN queue /\ states[queue[i]] = "pending"
      BY <1>1, <1>2 DEF SlotsSound, QueueAgrees, Limiter!Range
    <3> QED
      BY <3>1 DEF Holders
  <2>3. IsFiniteSet(Holders(states)) /\ Cardinality(Holders(states)) = taken
    BY LifecycleAssumption, FS_Subset DEF Holders, SlotsSound
  <2>4. IsFiniteSet(started) /\ Cardinality(started) = n
    BY <1>1, <1>2, PrefixCardinality DEF SlotsSound, QueueAgrees
  <2>5. Cardinality(Holders(states) \cup started) = taken + n
    <3>1. Cardinality(Holders(states) \cap started) = 0
      BY <2>2, FS_EmptySet
    <3>2. Cardinality(Holders(states) \cup started) =
            Cardinality(Holders(states)) + Cardinality(started)
                - Cardinality(Holders(states) \cap started)
      BY <2>3, <2>4, FS_Union
    <3>3. taken \in Int /\ n \in Int
      BY <1>1, <1>2
    <3> QED
      BY <2>3, <2>4, <3>1, <3>2, <3>3
  <2> QED
    BY <1>3, <2>1, <2>5
<1>9. Limiter!WorkConserving'
  <2>1. pending' # <<>> => Len(pending') # 0
    BY <1>4, EmptySeq
  <2>0. n \in Int /\ Len(queue) \in Int /\ n <= Len(queue) /\ Len(pending') = Len(queue) - n
    BY <1>1, <1>2, <1>4
  <2>2. pending' # <<>> => n < Len(queue)
    BY <2>0, <2>1
  <2> QED
    BY <1>2, <1>3, <2>2 DEF Limiter!WorkConserving
<1>10. active' \in Nat /\ limit' \in 1 .. MaxLimit
  BY <1>1, <1>2, <1>3
<1> QED
  BY <1>4, <1>6, <1>7, <1>8, <1>9, <1>10 DEF SlotInv, SlotsSound, QueueAgrees, Holders

-----------------------------------------------------------------------------
(* Nothing is scheduled and no slot is taken when the limiter is built.    *)
LEMMA SlotsInit == Limiter!Init => SlotInv
<1> SUFFICES ASSUME Limiter!Init PROVE SlotInv
  OBVIOUS
<1>0. Limiter!LimiterAssumption
  BY LimiterAssumptionHolds
<1>1. pending \in Seq(Agents) /\ DOMAIN pending = {}
  BY EmptySeq DEF Limiter!Init
<1>2. slot \in [Agents -> Limiter!SlotStates] /\ active \in Nat /\ limit \in 1 .. MaxLimit
  BY DEF Limiter!Init, Limiter!SlotStates
<1>3. QueueAgrees(pending, slot)
  BY <1>1 DEF Limiter!Init, QueueAgrees, Limiter!Range, Limiter!IsInjective
<1>4. active = Cardinality(Holders(slot))
  <2>1. Holders(slot) = {}
    BY DEF Limiter!Init, Holders
  <2> QED
    BY <2>1, FS_EmptySet DEF Limiter!Init
<1>5. Limiter!WorkConserving
  BY DEF Limiter!Init, Limiter!WorkConserving
<1> QED
  BY <1>0, <1>1, <1>2, <1>3, <1>4, <1>5 DEF SlotInv, SlotsSound

(* schedule() appends a task the queue does not hold yet, then rechecks.   *)
LEMMA ScheduleKeeps ==
    ASSUME SlotInv, NEW t \in Agents, Limiter!Schedule(t)
    PROVE  /\ SlotsSound(Append(pending, t), active, limit, [slot EXCEPT ![t] = "pending"])
           /\ SlotInv'
<1> DEFINE queue == Append(pending, t)
           states == [slot EXCEPT ![t] = "pending"]
<1>1. /\ queue \in Seq(Agents) /\ Len(queue) = Len(pending) + 1
      /\ DOMAIN queue = 1 .. Len(pending) + 1 /\ DOMAIN pending = 1 .. Len(pending)
      /\ Len(pending) \in Nat
      /\ \A i \in 1 .. Len(pending) : queue[i] = pending[i]
      /\ queue[Len(pending) + 1] = t
  BY AppendProperties, LenProperties DEF SlotInv, SlotsSound
<1>2. states \in [Agents -> Limiter!SlotStates]
  BY DEF SlotInv, SlotsSound, Limiter!SlotStates
<1>3. t \notin Limiter!Range(pending)
  BY DEF Limiter!Schedule, SlotInv, SlotsSound, QueueAgrees
<1>4. QueueAgrees(queue, states)
  <2>1. \A u : u \in Limiter!Range(queue) <=> u = t \/ u \in Limiter!Range(pending)
    BY <1>1 DEF Limiter!Range
  <2>2. \A u \in Agents : states[u] = "pending" <=> u \in Limiter!Range(queue)
    BY <2>1 DEF SlotInv, SlotsSound, QueueAgrees
  <2>3. Limiter!IsInjective(queue)
    BY <1>1, <1>3 DEF SlotInv, SlotsSound, QueueAgrees, Limiter!IsInjective, Limiter!Range
  <2> QED
    BY <2>2, <2>3 DEF QueueAgrees
<1>5. Holders(states) = Holders(slot)
  BY DEF Holders, Limiter!Schedule, SlotInv, SlotsSound
<1>6. SlotsSound(queue, active, limit, states)
  BY <1>1, <1>2, <1>4, <1>5 DEF SlotInv, SlotsSound
<1> QED
  BY <1>6, RecheckKeeps DEF Limiter!Schedule

(* A task that settles still holds its slot: the counter stays.            *)
LEMMA TaskSettlesKeeps ==
    ASSUME SlotInv, NEW t \in Agents, Limiter!TaskSettles(t)
    PROVE  SlotInv'
<1>1. slot' \in [Agents -> Limiter!SlotStates]
  BY DEF SlotInv, SlotsSound, Limiter!TaskSettles, Limiter!SlotStates
<1>2. QueueAgrees(pending', slot')
  BY DEF SlotInv, SlotsSound, QueueAgrees, Limiter!TaskSettles
<1>3. Holders(slot') = Holders(slot)
  BY DEF SlotInv, SlotsSound, Holders, Limiter!TaskSettles
<1> QED
  BY <1>1, <1>2, <1>3 DEF SlotInv, SlotsSound, QueueAgrees, Holders, Limiter!WorkConserving, Limiter!TaskSettles

(* The finally() callback takes exactly one holder away, then rechecks.    *)
LEMMA SlotFreedKeeps ==
    ASSUME SlotInv, NEW t \in Agents, Limiter!SlotFreed(t)
    PROVE  /\ SlotsSound(pending, active - 1, limit, [slot EXCEPT ![t] = "freed"])
           /\ SlotInv'
<1> DEFINE states == [slot EXCEPT ![t] = "freed"]
<1>1. states \in [Agents -> Limiter!SlotStates]
  BY DEF SlotInv, SlotsSound, Limiter!SlotStates
<1>2. QueueAgrees(pending, states)
  BY DEF SlotInv, SlotsSound, QueueAgrees, Limiter!SlotFreed
<1>3. active - 1 = Cardinality(Holders(states)) /\ active - 1 \in Nat
  <2>1. t \in Holders(slot) /\ Holders(states) = Holders(slot) \ {t}
    BY DEF SlotInv, SlotsSound, Holders, Limiter!SlotFreed
  <2>2. IsFiniteSet(Holders(slot))
    BY LifecycleAssumption, FS_Subset DEF Holders, SlotInv, SlotsSound
  <2>3. /\ IsFiniteSet(Holders(states))
        /\ Cardinality(Holders(states)) = Cardinality(Holders(slot)) - 1
    BY <2>1, <2>2, FS_RemoveElement
  <2>4. Cardinality(Holders(states)) \in Nat
    BY <2>3, FS_CardinalityType
  <2> QED
    BY <2>3, <2>4 DEF SlotInv, SlotsSound
<1>4. SlotsSound(pending, active - 1, limit, states)
  BY <1>1, <1>2, <1>3 DEF SlotInv, SlotsSound
<1> QED
  BY <1>4, RecheckKeeps DEF Limiter!SlotFreed

(* A new limit leaves queue, counter and tasks alone, then rechecks.       *)
LEMMA SetLimitKeeps ==
    ASSUME SlotInv, NEW n \in 1 .. MaxLimit, Limiter!SetLimit(n)
    PROVE  SlotInv'
<1>1. SlotsSound(pending, active, n, slot)
  BY DEF SlotInv, SlotsSound
<1> QED
  BY <1>1, RecheckKeeps DEF Limiter!SetLimit

(* clear() drops what is queued and touches no task that holds a slot.     *)
LEMMA ClearKeeps ==
    ASSUME SlotInv, Limiter!Clear
    PROVE  SlotInv'
<1>1. pending' \in Seq(Agents) /\ DOMAIN pending' = {}
  BY EmptySeq DEF Limiter!Clear
<1>2. slot' \in [Agents -> Limiter!SlotStates]
  BY DEF SlotInv, SlotsSound, Limiter!Clear, Limiter!SlotStates
<1>3. QueueAgrees(pending', slot')
  BY <1>1 DEF SlotInv, SlotsSound, QueueAgrees, Limiter!Clear, Limiter!Range, Limiter!IsInjective
<1>4. Holders(slot') = Holders(slot)
  BY DEF SlotInv, SlotsSound, QueueAgrees, Holders, Limiter!Clear
<1> QED
  BY <1>1, <1>2, <1>3, <1>4 DEF SlotInv, SlotsSound, QueueAgrees, Holders, Limiter!WorkConserving, Limiter!Clear

(* Every step of the limiter keeps the inductive invariant.                *)
LEMMA SlotsStep == SlotInv /\ [Limiter!Next]_(Limiter!vars) => SlotInv'
<1> SUFFICES ASSUME SlotInv, [Limiter!Next]_(Limiter!vars) PROVE SlotInv'
  OBVIOUS
<1>1. CASE \E t \in Agents : Limiter!Schedule(t)
  BY <1>1, ScheduleKeeps
<1>2. CASE \E t \in Agents : Limiter!TaskSettles(t)
  BY <1>2, TaskSettlesKeeps
<1>3. CASE \E t \in Agents : Limiter!SlotFreed(t)
  BY <1>3, SlotFreedKeeps
<1>4. CASE \E n \in 1 .. MaxLimit : Limiter!SetLimit(n)
  BY <1>4, SetLimitKeeps
<1>5. CASE Limiter!Clear
  BY <1>5, ClearKeeps
<1>6. CASE UNCHANGED Limiter!vars
  BY <1>6 DEF SlotInv, SlotsSound, QueueAgrees, Holders, Limiter!WorkConserving, Limiter!vars
<1> QED
  BY <1>1, <1>2, <1>3, <1>4, <1>5, <1>6 DEF Limiter!Next

(* Hence the inductive invariant holds in every behaviour.                 *)
LEMMA AlwaysSlotInv == LimiterSpec => []SlotInv
<1> QED
  BY SlotsInit, SlotsStep, PTL DEF LimiterSpec, Limiter!Spec

-----------------------------------------------------------------------------
(* Every variable keeps its type: the slot counter never goes negative and *)
(* the limit stays between one and its bound (concurrency-limiter.ts).     *)
THEOREM LimiterTypeCorrect == LimiterSpec => []Limiter!TypeOK
<1>1. SlotInv => Limiter!TypeOK
  BY DEF SlotInv, SlotsSound, Limiter!TypeOK
<1> QED
  BY <1>1, AlwaysSlotInv, PTL

(* The limiter's active counter is the number of tasks that hold a slot,   *)
(* through every interleaving of schedule, settle, recheck and clear.      *)
THEOREM SlotsAccounted == LimiterSpec => []Limiter!SlotAccounting
<1>1. SlotInv => Limiter!SlotAccounting
  <2>1. \A S : Limiter!Cardinality(S) = Cardinality(S)
    BY DEF Cardinality, IsFiniteSet, Limiter!Cardinality, Limiter!IsFiniteSet
  <2> QED
    BY <2>1 DEF SlotInv, SlotsSound, Holders, Limiter!SlotAccounting, Limiter!HoldsSlot
<1> QED
  BY <1>1, AlwaysSlotInv, PTL

(* A task is left waiting only while every slot is taken: every path that  *)
(* frees or adds a slot, or queues a task, rechecks.                       *)
THEOREM AlwaysWorkConserving == LimiterSpec => []Limiter!WorkConserving
<1>1. SlotInv => Limiter!WorkConserving
  BY DEF SlotInv
<1> QED
  BY <1>1, AlwaysSlotInv, PTL

(* The queue names every pending task exactly once.                        *)
THEOREM QueueExact == LimiterSpec => []Limiter!QueueIsPending
<1>1. SlotInv => Limiter!QueueIsPending
  BY DEF SlotInv, SlotsSound, QueueAgrees, Limiter!QueueIsPending
<1> QED
  BY <1>1, AlwaysSlotInv, PTL

-----------------------------------------------------------------------------
(* recheck() never starts a task past the limit it reads.                  *)
LEMMA RecheckAdmits ==
    ASSUME NEW queue, NEW taken, NEW cap, NEW states,
           SlotsSound(queue, taken, cap, states),
           Limiter!Recheck(queue, taken, cap, states),
           active' > taken
    PROVE  active' <= limit'
<1> DEFINE n == Limiter!Admissions(queue, taken, cap)
<1>1. queue \in Seq(Agents) /\ taken \in Nat /\ cap \in Nat /\ Len(queue) \in Nat
  BY LenProperties DEF SlotsSound, Limiter!LimiterAssumption
<1>2. n \in 0 .. Len(queue) /\ (n > 0 => taken + n <= cap)
  BY <1>1, AdmissionsBounds
<1>3. active' = taken + n /\ limit' = cap
  BY DEF Limiter!Recheck
<1> QED
  BY <1>1, <1>2, <1>3

(* recheck() starts a prefix of the queue it finds.                        *)
LEMMA RecheckFifo ==
    ASSUME NEW queue, NEW taken, NEW cap, NEW states,
           SlotsSound(queue, taken, cap, states),
           Limiter!Recheck(queue, taken, cap, states),
           NEW i \in 1 .. Len(queue), NEW j \in 1 .. Len(queue), i < j,
           slot'[queue[j]] = "started"
    PROVE  slot'[queue[i]] = "started"
<1> DEFINE n == Limiter!Admissions(queue, taken, cap)
<1>1. /\ queue \in Seq(Agents) /\ taken \in Nat /\ cap \in Nat
      /\ Len(queue) \in Nat /\ DOMAIN queue = 1 .. Len(queue)
      /\ queue[i] \in Agents /\ queue[j] \in Agents
  BY LenProperties, ElementOfSeq DEF SlotsSound, Limiter!LimiterAssumption
<1>2. n \in 0 .. Len(queue)
  BY <1>1, AdmissionsBounds
<1>3. slot' = [t \in Agents |->
                IF \E m \in 1 .. n : queue[m] = t THEN "started" ELSE states[t]]
  BY DEF Limiter!Recheck
<1> HIDE DEF n
<1>4. states[queue[j]] = "pending"
  BY <1>1 DEF SlotsSound, QueueAgrees, Limiter!Range
<1>5. PICK m \in 1 .. n : queue[m] = queue[j]
  BY <1>1, <1>3, <1>4
<1>6. m = j
  BY <1>1, <1>2, <1>5 DEF SlotsSound, QueueAgrees, Limiter!IsInjective
<1>7. i \in 1 .. n
  BY <1>1, <1>2, <1>5, <1>6
<1> QED
  BY <1>1, <1>3, <1>7

(* No step takes the slot counter up past the limit in force after it,     *)
(* although a lowered limit may leave the counter above it.                *)
THEOREM AdmissionsRespectLimit == LimiterSpec => Limiter!AdmitsWithinLimit
<1>1. ASSUME SlotInv, [Limiter!Next]_(Limiter!vars), active' > active
      PROVE  active' <= limit'
  <2>0. active \in Nat
    BY <1>1 DEF SlotInv, SlotsSound
  <2>1. CASE \E t \in Agents : Limiter!Schedule(t)
    <3>1. PICK t \in Agents : Limiter!Schedule(t)
      BY <2>1
    <3>2. SlotsSound(Append(pending, t), active, limit, [slot EXCEPT ![t] = "pending"])
      BY <1>1, <3>1, ScheduleKeeps
    <3> QED
      BY <1>1, <3>1, <3>2, RecheckAdmits DEF Limiter!Schedule
  <2>2. CASE \E t \in Agents : Limiter!TaskSettles(t)
    BY <1>1, <2>0, <2>2 DEF Limiter!TaskSettles
  <2>3. CASE \E t \in Agents : Limiter!SlotFreed(t)
    <3>1. PICK t \in Agents : Limiter!SlotFreed(t)
      BY <2>3
    <3>2. SlotsSound(pending, active - 1, limit, [slot EXCEPT ![t] = "freed"])
      BY <1>1, <3>1, SlotFreedKeeps
    <3>3. active' > active - 1
      <4>1. active' \in Nat
        BY <1>1, SlotsStep DEF SlotInv, SlotsSound
      <4> QED
        BY <1>1, <2>0, <4>1
    <3> QED
      BY <3>1, <3>2, <3>3, RecheckAdmits DEF Limiter!SlotFreed
  <2>4. CASE \E n \in 1 .. MaxLimit : Limiter!SetLimit(n)
    <3>1. PICK n \in 1 .. MaxLimit : Limiter!SetLimit(n)
      BY <2>4
    <3>2. SlotsSound(pending, active, n, slot)
      BY <1>1 DEF SlotInv, SlotsSound
    <3> QED
      BY <1>1, <3>1, <3>2, RecheckAdmits DEF Limiter!SetLimit
  <2>5. CASE Limiter!Clear \/ UNCHANGED Limiter!vars
    BY <1>1, <2>0, <2>5 DEF Limiter!Clear, Limiter!vars
  <2> QED
    BY <1>1, <2>1, <2>2, <2>3, <2>4, <2>5 DEF Limiter!Next
<1> QED
  BY <1>1, AlwaysSlotInv, PTL DEF LimiterSpec, Limiter!Spec, Limiter!AdmitsWithinLimit

(* A task never starts in a step that leaves one queued ahead of it behind.*)
THEOREM StartsInOrder == LimiterSpec => Limiter!FifoAdmission
<1> DEFINE InOrder == \A i, j \in DOMAIN pending :
              i < j /\ slot'[pending[j]] = "started" => slot'[pending[i]] = "started"
<1>1. ASSUME SlotInv, [Limiter!Next]_(Limiter!vars),
             NEW i \in DOMAIN pending, NEW j \in DOMAIN pending, i < j,
             slot'[pending[j]] = "started"
      PROVE  slot'[pending[i]] = "started"
  <2>1. /\ pending \in Seq(Agents) /\ Len(pending) \in Nat
        /\ DOMAIN pending = 1 .. Len(pending)
        /\ pending[i] \in Agents /\ pending[j] \in Agents
    BY <1>1, LenProperties, ElementOfSeq DEF SlotInv, SlotsSound
  <2>2. slot[pending[i]] = "pending" /\ slot[pending[j]] = "pending"
    BY <1>1, <2>1 DEF SlotInv, SlotsSound, QueueAgrees, Limiter!Range
  <2>3. ASSUME NEW t \in Agents, Limiter!Schedule(t)
        PROVE  slot'[pending[i]] = "started"
    <3> DEFINE queue == Append(pending, t)
    <3>1. SlotsSound(queue, active, limit, [slot EXCEPT ![t] = "pending"])
      BY <1>1, <2>3, ScheduleKeeps
    <3>2. /\ Len(queue) = Len(pending) + 1
          /\ queue[i] = pending[i] /\ queue[j] = pending[j]
      BY <2>1, AppendProperties
    <3>3. i \in 1 .. Len(queue) /\ j \in 1 .. Len(queue)
      BY <2>1, <3>2
    <3>4. Limiter!Recheck(queue, active, limit, [slot EXCEPT ![t] = "pending"])
      BY <2>3 DEF Limiter!Schedule
    <3> QED
      BY <1>1, <3>1, <3>2, <3>3, <3>4, RecheckFifo
  <2>4. ASSUME NEW t \in Agents, Limiter!TaskSettles(t)
        PROVE  slot'[pending[i]] = "started"
    BY <1>1, <2>1, <2>2, <2>4 DEF Limiter!TaskSettles, SlotInv, SlotsSound
  <2>5. ASSUME NEW t \in Agents, Limiter!SlotFreed(t)
        PROVE  slot'[pending[i]] = "started"
    <3>1. SlotsSound(pending, active - 1, limit, [slot EXCEPT ![t] = "freed"])
      BY <1>1, <2>5, SlotFreedKeeps
    <3> QED
      BY <1>1, <2>1, <2>5, <3>1, RecheckFifo DEF Limiter!SlotFreed
  <2>6. ASSUME NEW n \in 1 .. MaxLimit, Limiter!SetLimit(n)
        PROVE  slot'[pending[i]] = "started"
    <3>1. SlotsSound(pending, active, n, slot)
      BY <1>1 DEF SlotInv, SlotsSound
    <3> QED
      BY <1>1, <2>1, <2>6, <3>1, RecheckFifo DEF Limiter!SetLimit
  <2>7. CASE Limiter!Clear
    BY <1>1, <2>1, <2>2, <2>7 DEF Limiter!Clear, SlotInv, SlotsSound
  <2>8. CASE UNCHANGED Limiter!vars
    BY <1>1, <2>2, <2>8 DEF Limiter!vars
  <2> QED
    BY <1>1, <2>3, <2>4, <2>5, <2>6, <2>7, <2>8 DEF Limiter!Next
<1>2. SlotInv /\ [Limiter!Next]_(Limiter!vars) => InOrder
  BY <1>1
<1>3. SlotInv /\ [Limiter!Next]_(Limiter!vars) => [InOrder]_(Limiter!vars)
  BY <1>2
<1> QED
  BY <1>3, AlwaysSlotInv, PTL DEF LimiterSpec, Limiter!Spec, Limiter!FifoAdmission

-----------------------------------------------------------------------------
(***************************************************************************)
(* The lifecycle implements its limiter.                                   *)
(***************************************************************************)
(* The lifecycle starts with an empty limiter. *)
LEMMA LimiterInit == Init => Limiter!Init
  BY DEF Init

(* Each step is a step of the limiter, or leaves it alone. *)
LEMMA LimiterStep == [Next]_vars => [Limiter!Next]_(Limiter!vars)
<1> USE DEF Limiter!Next, Limiter!vars, limiterVars
<1> SUFFICES ASSUME [Next]_vars PROVE [Limiter!Next]_(Limiter!vars)
  OBVIOUS
<1>1. ASSUME NEW a \in Agents, Spawns(a) PROVE [Limiter!Next]_(Limiter!vars)
  BY <1>1 DEF Spawns, SpawnQueued, SpawnDirect
<1>2. ASSUME NEW a \in Agents, Stops(a) PROVE UNCHANGED limiterVars
  BY <1>2 DEF Stops, Abort, CallerSignal
<1>3. ASSUME NEW a \in Agents, Resume(a) PROVE UNCHANGED limiterVars
  BY <1>3 DEF Resume
<1>4. ASSUME NEW a \in Agents, SweepReleases(a) PROVE UNCHANGED limiterVars
  BY <1>4 DEF SweepReleases
<1>5. ASSUME NEW a \in Agents, ProviderStep(a) PROVE UNCHANGED limiterVars
  BY <1>5 DEF ProviderStep, Prepared, PrepareFails, WorkspaceRestored, WorkspaceRestoreFails
<1>6. ASSUME NEW a \in Agents, FactoryStep(a) PROVE UNCHANGED limiterVars
  BY <1>6 DEF FactoryStep, CreateRegisters, CreateFails, CreateBinds, CreateBindFails,
       CreateUnwound, RestoreRegisters, RestoreFails, RestoreBinds, RestoreBindFails,
       RestoreUnwound
<1>7. ASSUME NEW a \in Agents, SlotStep(a) PROVE [Limiter!Next]_(Limiter!vars)
  BY <1>7 DEF SlotStep, SlotSettles, SlotFreed
<1>8. ASSUME NEW a \in Agents, ReleaseSettles(a) PROVE UNCHANGED limiterVars
  BY <1>8 DEF ReleaseSettles
<1>9. ASSUME NEW a \in Agents, NEW k \in Runs, LoopSettles(a, k) PROVE UNCHANGED limiterVars
  BY <1>9 DEF LoopSettles
<1>10. ASSUME NEW n \in 1 .. MaxLimit, SetLimit(n) PROVE [Limiter!Next]_(Limiter!vars)
  BY <1>10 DEF SetLimit
<1>11. CASE AbortAll
  BY <1>11 DEF AbortAll
<1>12. CASE UNCHANGED vars
  BY <1>12 DEF vars
<1> QED
  BY <1>1, <1>2, <1>3, <1>4, <1>5, <1>6, <1>7, <1>8, <1>9, <1>10, <1>11, <1>12 DEF Next

(* Hence what is proved of the limiter holds here. *)
LEMMA ImplementsLimiter == Spec => LimiterSpec
<1> QED
  BY LimiterInit, LimiterStep, PTL DEF Spec, LimiterSpec, Limiter!Spec

(* The limiter's invariants hold of the lifecycle. *)
LEMMA LimiterAlwaysSound == Spec => [](Limiter!TypeOK /\ Limiter!QueueIsPending)
<1> QED
  BY ImplementsLimiter, LimiterTypeCorrect, QueueExact, PTL

LEMMA SlotsAlwaysSound == Spec => []SlotInv
<1> QED
  BY ImplementsLimiter, AlwaysSlotInv, PTL

-----------------------------------------------------------------------------
(* A record whose run has not begun, and may never begin.                  *)
Fresh(a) ==
    /\ cur[a] = 0 /\ session[a] = "none" /\ prep[a] = "none"
    /\ \A k \in Runs : run[a][k] = "idle"

(* One record's part of the inductive invariant.                           *)
Sound(a) ==
    /\ status[a] \in {"unborn", "queued"} \/ neverStarted[a] => Fresh(a)
    /\ neverStarted[a] => status[a] = "stopped"
    /\ \A k \in Runs : k > cur[a] => run[a][k] = "idle"
    /\ prep[a] # "none" => cur[a] < MaxResumes
    /\ \A k \in Runs :
        reports[a][k] =
            IF run[a][k] = "settled" \/ (k = 0 /\ neverStarted[a]) THEN 1 ELSE 0
    /\ status[a] = "running" => InFlight(a, cur[a])
    /\ listening[a] # NoRun => listening[a] = cur[a] /\ InFlight(a, cur[a])
    /\ workspace[a] = "live" => prep[a] # "none" \/ \E k \in Runs : InFlight(a, k)

(* One record's part that also reads its slot. *)
SlotSound(a) ==
    /\ status[a] = "unborn" => slot[a] = "unscheduled"
    /\ status[a] = "queued" => slot[a] = "pending"
    /\ slot[a] = "pending" => status[a] = "queued" \/ neverStarted[a]
    /\ InFlight(a, 0) /\ slot[a] # "unscheduled" => slot[a] = "started"

IInv == RecordTypes /\ \A a \in Agents : Sound(a) /\ SlotSound(a)

(* What a step may do to a stop. *)
Sticky ==
    \A a \in Agents : status[a] = "stopped" /\ status'[a] # "stopped" => cur'[a] = cur[a] + 1

(* The session variables of a step that is about one record. *)
SessionMoves(a) ==
    /\ session' \in [Agents -> {"none", "held", "released"}]
    /\ \A b \in Agents : b # a => session'[b] = session[b]
    /\ generation' \in [Agents -> Nat]
    /\ closing' \in [Agents -> SUBSET Nat]
    /\ releasing' \in [Agents -> Nat]
    /\ registered' \in [Agents -> BOOLEAN]

(* The run of a record that a step is about ends. *)
LEMMA FinishSound ==
    ASSUME IInv, NEW a \in Agents, NEW k \in Runs, InFlight(a, k),
           NEW outcome \in {"completed", "steered", "aborted", "error"},
           FinishRun(a, k, outcome),
           SessionMoves(a), UNCHANGED <<limiterVars, session, prep>>
    PROVE  IInv' /\ Sticky
<1>1. PICK w \in SuspendOutcomes(a) :
        /\ workspace' = [workspace EXCEPT ![a] = w]
        /\ status' = [status EXCEPT ![a] =
                        Marked(a, IF w = "stuck" THEN "error" ELSE outcome)]
  BY DEF FinishRun
<1>2. /\ run' = [run EXCEPT ![a][k] = "settled"]
      /\ listening' = [listening EXCEPT ![a] = NoRun]
      /\ reports' = [reports EXCEPT ![a][k] = @ + 1]
      /\ UNCHANGED <<neverStarted, cur, fired, cancelled>>
  BY DEF FinishRun
<1>3. w \in {"none", "stuck", "suspended"}
  BY DEF SuspendOutcomes, IInv, RecordTypes, WorkspaceStates
<1>4. status'[a] \in TerminalStatus /\ (status[a] = "stopped" => status'[a] = "stopped")
  BY <1>1 DEF Marked, TerminalStatus, IInv, RecordTypes
<1>5. RecordTypes'
  <2>1. run' \in [Agents -> [Runs -> RunStates]] /\ reports' \in [Agents -> [Runs -> Nat]]
    BY <1>2 DEF IInv, RecordTypes, RunStates
  <2>2. status' \in [Agents -> ActiveStatus \union TerminalStatus \union {"unborn"}]
    BY <1>1, <1>4 DEF IInv, RecordTypes
  <2>3. /\ listening' \in [Agents -> Runs \union {NoRun}]
        /\ workspace' \in [Agents -> WorkspaceStates]
    BY <1>1, <1>2, <1>3 DEF IInv, RecordTypes, WorkspaceStates
  <2> QED
    BY <1>2, <2>1, <2>2, <2>3 DEF IInv, RecordTypes, SessionMoves
<1>6. ASSUME NEW b \in Agents
      PROVE  Sound(b)' /\ SlotSound(b)'
  <2>1. CASE b # a
    BY <1>1, <1>2, <1>5, <2>1
    DEF IInv, RecordTypes, Sound, SlotSound, Fresh, InFlight, limiterVars
  <2>2. CASE b = a
    <3>1. /\ ~neverStarted[a] /\ status[a] # "queued"
          /\ status'[a] \notin {"unborn", "queued", "running"}
      BY <1>4 DEF IInv, Sound, Fresh, InFlight, TerminalStatus
    <3>2. Sound(a)'
      BY <1>1, <1>2, <1>3, <3>1
      DEF IInv, RecordTypes, Sound, Fresh, InFlight, Runs, NoRun
    <3>3. SlotSound(a)'
      BY <1>2, <3>1 DEF IInv, RecordTypes, SlotSound, InFlight, limiterVars, Runs
    <3> QED
      BY <2>2, <3>2, <3>3
  <2> QED
    BY <2>1, <2>2
<1>7. Sticky
  BY <1>1, <1>4 DEF IInv, RecordTypes, Sticky
<1> QED
  BY <1>5, <1>6, <1>7 DEF IInv

(* A workspace step that is about one record. *)
WorkspaceMoves(a) ==
    /\ workspace' \in [Agents -> WorkspaceStates]
    /\ \A b \in Agents : b # a => workspace'[b] = workspace[b]

(* The initial run of a record moves on, still in flight. *)
LEMMA AdvanceSound ==
    ASSUME IInv, NEW a \in Agents,
           NEW from \in {"preparing", "loading", "binding"},
           NEW to \in {"loading", "binding", "unwinding", "looping"},
           RunAdvances(a, from, to),
           SessionMoves(a), WorkspaceMoves(a), UNCHANGED <<limiterVars, prep>>
    PROVE  IInv' /\ Sticky
<1>1. /\ run[a][0] = from /\ run' = [run EXCEPT ![a][0] = to] /\ 0 \in Runs
      /\ UNCHANGED <<cur, fired, cancelled, listening, recordVars>>
  BY LifecycleAssumption DEF RunAdvances, Runs
<1>2. RecordTypes'
  <2>1. run' \in [Agents -> [Runs -> RunStates]]
    BY <1>1 DEF IInv, RecordTypes, RunStates
  <2> QED
    BY <1>1, <2>1 DEF IInv, RecordTypes, SessionMoves, WorkspaceMoves, recordVars
<1>3. ASSUME NEW b \in Agents
      PROVE  Sound(b)' /\ SlotSound(b)'
  <2>1. CASE b # a
    BY <1>1, <2>1
    DEF IInv, RecordTypes, Sound, SlotSound, Fresh, InFlight, limiterVars, recordVars,
        SessionMoves, WorkspaceMoves
  <2>2. CASE b = a
    <3>1. InFlight(a, 0) /\ InFlight(a, 0)'
      BY <1>1 DEF IInv, RecordTypes, InFlight
    <3>2. ~neverStarted[a] /\ status[a] \notin {"unborn", "queued"}
      BY <1>1, <3>1 DEF IInv, Sound, Fresh, InFlight
    <3>3. \A k \in Runs : k # 0 => run'[a][k] = run[a][k]
      BY <1>1 DEF IInv, RecordTypes
    <3>4. run'[a][0] \notin {"idle", "settled"} /\ run[a][0] \notin {"idle", "settled"}
      BY <3>1 DEF InFlight
    <3>5. Sound(a)'
      BY <1>1, <3>2, <3>3, <3>4
      DEF IInv, RecordTypes, Sound, InFlight, recordVars
    <3>6. SlotSound(a)'
      BY <1>1, <3>1, <3>2 DEF IInv, SlotSound, limiterVars, recordVars
    <3> QED
      BY <2>2, <3>5, <3>6
  <2> QED
    BY <2>1, <2>2
<1>4. Sticky
  BY <1>1 DEF Sticky, recordVars
<1> QED
  BY <1>2, <1>3, <1>4 DEF IInv

(* A preparation is in flight, or one may begin. *)
Preparing(a) == prep[a] # "none" \/ (Resumable(a) /\ cur[a] < MaxResumes)

(* Either way the record has run and may be resumed once more. *)
LEMMA PreparingHasRun ==
    ASSUME IInv, NEW a \in Agents, Preparing(a)
    PROVE  /\ ~neverStarted[a] /\ status[a] \notin {"unborn", "queued"}
           /\ cur[a] \in Runs /\ cur[a] < MaxResumes
           /\ cur[a] + 1 \in Runs /\ run[a][cur[a] + 1] = "idle"
<1>1. ~neverStarted[a] /\ status[a] \notin {"unborn", "queued"}
  BY DEF IInv, Sound, Fresh, Preparing, Resumable
<1>2. cur[a] \in Runs /\ cur[a] < MaxResumes
  BY DEF IInv, Sound, RecordTypes, Preparing
<1>3. cur[a] + 1 \in Runs /\ cur[a] + 1 > cur[a]
  BY <1>2, LifecycleAssumption DEF Runs
<1> QED
  BY <1>1, <1>2, <1>3 DEF IInv, Sound

(* A preparation moves on. *)
LEMMA PrepMovesSound ==
    ASSUME IInv, NEW a \in Agents, NEW to \in PrepStates \ {"none"},
           Preparing(a), PrepMoves(a, to),
           SessionMoves(a), WorkspaceMoves(a), UNCHANGED limiterVars
    PROVE  IInv' /\ Sticky
<1>1. prep' = [prep EXCEPT ![a] = to] /\ UNCHANGED <<recordVars, runVars>>
  BY DEF PrepMoves
<1>2. RecordTypes'
  BY <1>1 DEF IInv, RecordTypes, SessionMoves, WorkspaceMoves, recordVars, runVars
<1>3. ASSUME NEW b \in Agents
      PROVE  Sound(b)'
  <2>1. CASE b # a
    BY <1>1, <2>1
    DEF IInv, RecordTypes, Sound, Fresh, InFlight, recordVars, runVars,
        SessionMoves, WorkspaceMoves
  <2>2. CASE b = a
    <3>1. prep'[a] # "none"
      BY <1>1 DEF IInv, RecordTypes
    <3> QED
      BY <1>1, <2>2, <3>1, PreparingHasRun
      DEF IInv, Sound, InFlight, recordVars, runVars
  <2> QED
    BY <2>1, <2>2
<1>4. ASSUME NEW b \in Agents
      PROVE  SlotSound(b)'
  BY <1>1 DEF IInv, SlotSound, InFlight, limiterVars, recordVars, runVars
<1>5. Sticky
  BY <1>1 DEF Sticky, recordVars
<1> QED
  BY <1>2, <1>3, <1>4, <1>5 DEF IInv

(* A preparation ends in a new run. *)
LEMMA BeginResumeSound ==
    ASSUME IInv, NEW a \in Agents, Preparing(a), BeginResume(a),
           SessionMoves(a), WorkspaceMoves(a), UNCHANGED limiterVars
    PROVE  IInv' /\ Sticky
<1>0. PICK k \in Runs : k = cur[a] + 1
  BY PreparingHasRun
<1>1. /\ cur' = [cur EXCEPT ![a] = k]
      /\ run' = [run EXCEPT ![a][k] = "looping"]
      /\ status' = [status EXCEPT ![a] = "running"]
      /\ listening' = [listening EXCEPT ![a] = k]
      /\ prep' = [prep EXCEPT ![a] = "none"]
      /\ UNCHANGED <<neverStarted, reports, fired, cancelled>>
  BY <1>0 DEF BeginResume
<1>2. /\ ~neverStarted[a] /\ cur[a] \in Runs /\ k \in Runs /\ k > cur[a] /\ k # 0
      /\ run[a][k] = "idle"
  BY <1>0, PreparingHasRun, LifecycleAssumption DEF Runs
<1>3. RecordTypes'
  <2>1. run' \in [Agents -> [Runs -> RunStates]]
    BY <1>1, <1>2 DEF IInv, RecordTypes, RunStates
  <2>2. status' \in [Agents -> ActiveStatus \union TerminalStatus \union {"unborn"}]
    BY <1>1 DEF IInv, RecordTypes, ActiveStatus
  <2>3. /\ cur' \in [Agents -> Runs] /\ listening' \in [Agents -> Runs \union {NoRun}]
        /\ prep' \in [Agents -> PrepStates]
    BY <1>1, <1>2 DEF IInv, RecordTypes, PrepStates
  <2> QED
    BY <1>1, <2>1, <2>2, <2>3 DEF IInv, RecordTypes, SessionMoves, WorkspaceMoves
<1>4. ASSUME NEW b \in Agents
      PROVE  Sound(b)' /\ SlotSound(b)'
  <2>1. CASE b # a
    BY <1>1, <2>1
    DEF IInv, RecordTypes, Sound, SlotSound, Fresh, InFlight, limiterVars,
        SessionMoves, WorkspaceMoves
  <2>2. CASE b = a
    <3>1. /\ cur'[a] = k /\ run'[a][k] = "looping" /\ status'[a] = "running"
          /\ listening'[a] = k /\ prep'[a] = "none" /\ InFlight(a, k)'
          /\ \A m \in Runs : m # k => run'[a][m] = run[a][m]
      BY <1>1, <1>2 DEF IInv, RecordTypes, InFlight
    <3>2. \A m \in Runs : m > k => m > cur[a]
      BY <1>2 DEF Runs
    <3>3. \A m \in Runs : m > k => m # k /\ run[a][m] = "idle"
      BY <1>2, <3>2 DEF IInv, Sound, Runs
    <3>4. \A m \in Runs : reports'[a][m] =
            IF run'[a][m] = "settled" \/ (m = 0 /\ neverStarted'[a]) THEN 1 ELSE 0
      BY <1>1, <1>2, <3>1 DEF IInv, Sound
    <3>5. Sound(a)'
      BY <1>1, <1>2, <3>1, <3>3, <3>4 DEF Sound
    <3>6. SlotSound(a)'
      <4>1. 0 \in Runs
        BY LifecycleAssumption DEF Runs
      <4>2. InFlight(a, 0)' <=> InFlight(a, 0)
        BY <1>2, <3>1, <4>1 DEF InFlight
      <4> QED
        BY <3>1, <4>2, PreparingHasRun DEF IInv, SlotSound, limiterVars
    <3> QED
      BY <2>2, <3>5, <3>6
  <2> QED
    BY <2>1, <2>2
<1>5. Sticky
  BY <1>0, <1>1 DEF IInv, RecordTypes, Sticky
<1> QED
  BY <1>3, <1>4, <1>5 DEF IInv

(* A preparation ends in a refusal. *)
LEMMA PrepFailsSound ==
    ASSUME IInv, NEW a \in Agents, prep[a] # "none", PrepFails(a),
           SessionMoves(a), UNCHANGED limiterVars
    PROVE  IInv' /\ Sticky
<1>1. /\ prep' = [prep EXCEPT ![a] = "none"] /\ UNCHANGED <<recordVars, runVars>>
      /\ \E w \in SuspendOutcomes(a) : workspace' = [workspace EXCEPT ![a] = w]
  BY DEF PrepFails, PrepMoves
<1>2. /\ WorkspaceMoves(a) /\ workspace'[a] # "live"
  BY <1>1 DEF SuspendOutcomes, IInv, RecordTypes, WorkspaceStates, WorkspaceMoves
<1>3. RecordTypes'
  BY <1>1, <1>2
  DEF IInv, RecordTypes, SessionMoves, WorkspaceMoves, recordVars, runVars, PrepStates
<1>4. ASSUME NEW b \in Agents
      PROVE  Sound(b)'
  <2>1. CASE b # a
    BY <1>1, <1>2, <2>1
    DEF IInv, RecordTypes, Sound, Fresh, InFlight, recordVars, runVars,
        SessionMoves, WorkspaceMoves
  <2>2. CASE b = a
    <3>1. prep'[a] = "none" /\ ~neverStarted[a] /\ status[a] \notin {"unborn", "queued"}
      BY <1>1 DEF IInv, RecordTypes, Sound, Fresh
    <3> QED
      BY <1>1, <1>2, <2>2, <3>1 DEF IInv, Sound, InFlight, recordVars, runVars
  <2> QED
    BY <2>1, <2>2
<1>5. ASSUME NEW b \in Agents
      PROVE  SlotSound(b)'
  BY <1>1 DEF IInv, SlotSound, InFlight, limiterVars, recordVars, runVars
<1>6. Sticky
  BY <1>1 DEF Sticky, recordVars
<1> QED
  BY <1>3, <1>4, <1>5, <1>6 DEF IInv

-----------------------------------------------------------------------------
(* Runs begin for records that were unborn or queued; the rest keep their  *)
(* status, except that an unborn record may become queued.                 *)
LEMMA BeginRunsSound ==
    ASSUME IInv, NEW S, S \subseteq Agents, NEW states,
           states \in [Agents -> ActiveStatus \union TerminalStatus \union {"unborn"}],
           \A a \in S : status[a] \in {"unborn", "queued"},
           \A a \in Agents :
                states[a] = status[a] \/ (status[a] = "unborn" /\ states[a] = "queued"),
           BeginRuns(S, states)
    PROVE  RecordTypes' /\ (\A a \in Agents : Sound(a)') /\ Sticky
<1> DEFINE first == IF HasProvider THEN "preparing" ELSE "loading"
<1>1. /\ status' = [a \in Agents |-> IF a \in S THEN "running" ELSE states[a]]
      /\ run' = [a \in Agents |-> IF a \in S THEN [run[a] EXCEPT ![0] = first] ELSE run[a]]
      /\ listening' = [a \in Agents |-> IF a \in S THEN 0 ELSE listening[a]]
      /\ UNCHANGED <<neverStarted, reports, cur, fired, cancelled, prep, workspace>>
      /\ UNCHANGED sessionVars
  BY DEF BeginRuns
<1>2. first \in {"preparing", "loading"} /\ 0 \in Runs
  BY LifecycleAssumption DEF Runs
<1> HIDE DEF first
<1>3. RecordTypes'
  <2>1. run' \in [Agents -> [Runs -> RunStates]]
    BY <1>1, <1>2 DEF IInv, RecordTypes, RunStates
  <2>2. status' \in [Agents -> ActiveStatus \union TerminalStatus \union {"unborn"}]
    BY <1>1 DEF ActiveStatus
  <2>3. listening' \in [Agents -> Runs \union {NoRun}]
    BY <1>1, <1>2 DEF IInv, RecordTypes
  <2> QED
    BY <1>1, <2>1, <2>2, <2>3 DEF IInv, RecordTypes, sessionVars
<1>4. ASSUME NEW a \in Agents
      PROVE  Sound(a)'
  <2>1. CASE a \in S
    <3>1. Fresh(a) /\ ~neverStarted[a]
      BY <2>1 DEF IInv, Sound
    <3>2. /\ status'[a] = "running" /\ run'[a][0] = first /\ listening'[a] = 0
          /\ \A k \in Runs : k # 0 => run'[a][k] = run[a][k]
      BY <1>1, <1>2, <2>1 DEF IInv, RecordTypes
    <3> QED
      BY <1>1, <1>2, <3>1, <3>2 DEF IInv, Sound, Fresh, InFlight, Runs
  <2>2. CASE a \notin S
    <3>1. /\ status'[a] = states[a] /\ run'[a] = run[a] /\ listening'[a] = listening[a]
      BY <1>1, <2>2
    <3> QED
      BY <1>1, <3>1 DEF IInv, Sound, Fresh, InFlight, sessionVars
  <2> QED
    BY <2>1, <2>2
<1>5. Sticky
  BY <1>1 DEF Sticky
<1> QED
  BY <1>3, <1>4, <1>5

(* What a recheck of the limiter does to the slots.                        *)
SlotMoves(states) ==
    \A a \in Agents :
        \/ /\ states[a] = status[a]
           /\ \/ slot'[a] = slot[a]
              \/ slot[a] = "pending" /\ slot'[a] = "started"
              \/ slot[a] = "settled" /\ slot'[a] = "freed"
        \/ /\ status[a] = "unborn" /\ states[a] = "queued"
           /\ slot[a] = "unscheduled" /\ slot'[a] \in {"pending", "started"}

(* The closures a recheck calls run only for records still in the queue.   *)
LEMMA GuardedSound ==
    ASSUME IInv, NEW states,
           states \in [Agents -> ActiveStatus \union TerminalStatus \union {"unborn"}],
           SlotMoves(states), GuardedRuns(states)
    PROVE  IInv' /\ Sticky
<1> DEFINE S == {a \in Started : states[a] \in ActiveStatus}
<1>1. /\ S \subseteq Agents /\ BeginRuns(S, states)
  BY DEF Started, GuardedRuns
<1>2. \A a \in S : status[a] \in {"unborn", "queued"} /\ slot'[a] = "started"
  BY DEF Started, SlotMoves, IInv, Sound, SlotSound, ActiveStatus
<1>3. \A a \in Agents :
        states[a] = status[a] \/ (status[a] = "unborn" /\ states[a] = "queued")
  BY DEF SlotMoves
<1>4. RecordTypes' /\ (\A a \in Agents : Sound(a)') /\ Sticky
  BY <1>1, <1>2, <1>3, BeginRunsSound
<1>5. /\ \A a \in Agents : a \in S => status'[a] = "running" /\ slot'[a] = "started"
      /\ \A a \in Agents : a \notin S => status'[a] = states[a] /\ run'[a] = run[a]
      /\ \A a \in Agents : neverStarted'[a] = neverStarted[a]
      /\ \A a \in Agents : a \notin S /\ slot'[a] = "started" /\ slot[a] # "started"
            => states[a] \notin ActiveStatus
  BY <1>1, <1>2 DEF BeginRuns, Started
<1> HIDE DEF S
<1>6. ASSUME NEW a \in Agents
      PROVE  SlotSound(a)'
  <2>1. CASE a \in S
    BY <1>5, <2>1 DEF SlotSound
  <2>2. CASE a \notin S /\ states[a] = status[a]
    BY <1>5, <2>2 DEF IInv, SlotMoves, SlotSound, Sound, InFlight, ActiveStatus
  <2>3. CASE a \notin S /\ states[a] # status[a]
    <3>1. ~InFlight(a, 0)
      BY <2>3, LifecycleAssumption DEF IInv, SlotMoves, Sound, Fresh, InFlight, Runs
    <3> QED
      BY <1>5, <2>3, <3>1 DEF SlotMoves, SlotSound, InFlight, ActiveStatus
  <2> QED
    BY <2>1, <2>2, <2>3
<1> QED
  BY <1>4, <1>6 DEF IInv

(* recheck() starts tasks of its queue, and nothing else.                  *)
LEMMA RecheckMoves ==
    ASSUME NEW queue \in Seq(Agents), NEW taken \in Int, NEW cap \in Int,
           NEW states \in [Agents -> Limiter!SlotStates],
           \A a \in Agents : a \in Limiter!Range(queue) => states[a] = "pending",
           Limiter!Recheck(queue, taken, cap, states), NEW a \in Agents
    PROVE  slot'[a] = states[a] \/ (states[a] = "pending" /\ slot'[a] = "started")
<1> DEFINE n == Limiter!Admissions(queue, taken, cap)
<1>1. DOMAIN queue = 1 .. Len(queue) /\ Len(queue) \in Nat
  OBVIOUS
<1>2. n \in Int /\ n <= Len(queue)
  BY <1>1 DEF Limiter!Admissions
<1>3. slot' = [t \in Agents |->
                IF \E i \in 1 .. n : queue[i] = t THEN "started" ELSE states[t]]
  BY DEF Limiter!Recheck
<1> HIDE DEF n
<1>4. \A i \in 1 .. n : queue[i] \in Limiter!Range(queue)
  BY <1>1, <1>2 DEF Limiter!Range
<1> QED
  BY <1>3, <1>4

(* The three steps of the limiter that recheck move slots as SlotMoves says. *)
LEMMA LimiterMoves ==
    ASSUME IInv, Limiter!TypeOK, Limiter!QueueIsPending
    PROVE  /\ \A a \in Agents : status[a] = "unborn" /\ Limiter!Schedule(a)
                => SlotMoves([status EXCEPT ![a] = "queued"])
           /\ \A a \in Agents : Limiter!SlotFreed(a) => SlotMoves(status)
           /\ \A n \in 1 .. MaxLimit : Limiter!SetLimit(n) => SlotMoves(status)
<1>1. /\ pending \in Seq(Agents) /\ active \in Int /\ limit \in Int
      /\ slot \in [Agents -> Limiter!SlotStates]
      /\ \A a \in Agents : a \in Limiter!Range(pending) => slot[a] = "pending"
  BY LifecycleAssumption DEF Limiter!TypeOK, Limiter!QueueIsPending
<1>2. ASSUME NEW a \in Agents, status[a] = "unborn", Limiter!Schedule(a)
      PROVE  SlotMoves([status EXCEPT ![a] = "queued"])
  <2> DEFINE queue == Append(pending, a)
             states == [slot EXCEPT ![a] = "pending"]
  <2>1. queue \in Seq(Agents) /\ states \in [Agents -> Limiter!SlotStates]
    BY <1>1 DEF Limiter!SlotStates
  <2>2. \A b \in Limiter!Range(queue) : b = a \/ b \in Limiter!Range(pending)
    BY <1>1 DEF Limiter!Range
  <2>3. \A b \in Agents : b \in Limiter!Range(queue) => states[b] = "pending"
    BY <1>1, <2>2
  <2>4. Limiter!Recheck(queue, active, limit, states) /\ slot[a] = "unscheduled"
    BY <1>2 DEF Limiter!Schedule
  <2> HIDE DEF queue, states
  <2>5. \A b \in Agents :
            slot'[b] = states[b] \/ (states[b] = "pending" /\ slot'[b] = "started")
    BY <1>1, <2>1, <2>3, <2>4, RecheckMoves
  <2> QED
    BY <1>1, <1>2, <2>4, <2>5 DEF SlotMoves, IInv, RecordTypes, states
<1>3. ASSUME NEW a \in Agents, Limiter!SlotFreed(a)
      PROVE  SlotMoves(status)
  <2> DEFINE states == [slot EXCEPT ![a] = "freed"]
  <2>1. states \in [Agents -> Limiter!SlotStates]
    BY <1>1 DEF Limiter!SlotStates
  <2>2. Limiter!Recheck(pending, active - 1, limit, states) /\ slot[a] = "settled"
    BY <1>3 DEF Limiter!SlotFreed
  <2>3. \A b \in Agents : b \in Limiter!Range(pending) => states[b] = "pending"
    BY <1>1, <2>2
  <2> HIDE DEF states
  <2>4. \A b \in Agents :
            slot'[b] = states[b] \/ (states[b] = "pending" /\ slot'[b] = "started")
    BY <1>1, <2>1, <2>2, <2>3, RecheckMoves
  <2> QED
    BY <1>1, <2>2, <2>4 DEF SlotMoves, states
<1>4. ASSUME NEW n \in 1 .. MaxLimit, Limiter!SetLimit(n)
      PROVE  SlotMoves(status)
  <2>1. Limiter!Recheck(pending, active, n, slot)
    BY <1>4 DEF Limiter!SetLimit
  <2>2. \A b \in Agents :
            slot'[b] = slot[b] \/ (slot[b] = "pending" /\ slot'[b] = "started")
    BY <1>1, <2>1, RecheckMoves
  <2> QED
    BY <2>2 DEF SlotMoves
<1> QED
  BY <1>2, <1>3, <1>4

(* A spawn that bypasses the queue runs at once. *)
LEMMA SpawnDirectSound ==
    ASSUME IInv, NEW a \in Agents, SpawnDirect(a)
    PROVE  IInv' /\ Sticky
<1>1. status[a] = "unborn" /\ BeginRuns({a}, status) /\ UNCHANGED limiterVars
  BY DEF SpawnDirect
<1>2. RecordTypes' /\ (\A b \in Agents : Sound(b)') /\ Sticky
  BY <1>1, BeginRunsSound DEF IInv, RecordTypes
<1>3. ASSUME NEW b \in Agents
      PROVE  SlotSound(b)'
  <2>1. status'[b] = (IF b = a THEN "running" ELSE status[b]) /\ (b # a => run'[b] = run[b])
    BY <1>1 DEF BeginRuns
  <2>2. neverStarted' = neverStarted /\ slot' = slot
    BY <1>1 DEF BeginRuns, limiterVars
  <2> QED
    BY <1>1, <2>1, <2>2 DEF IInv, SlotSound, InFlight
<1> QED
  BY <1>2, <1>3 DEF IInv

(* Stopping a set of records, by whatever lever. *)
LEMMA StopSound ==
    ASSUME IInv, NEW S, S \subseteq Agents, Stop(S),
           NEW heard, listening' = [a \in Agents |-> IF heard[a] THEN NoRun ELSE listening[a]]
    PROVE  /\ RecordTypes' /\ (\A a \in Agents : Sound(a)') /\ Sticky
           /\ \A a \in Agents :
                /\ run'[a] = run[a]
                /\ status'[a] = "unborn" => status[a] = "unborn"
                /\ status'[a] = "queued" => status[a] = "queued" /\ a \notin S
                /\ status[a] = "queued" => status'[a] = "queued" \/ neverStarted'[a]
                /\ neverStarted[a] => neverStarted'[a]
<1> DEFINE queued == {a \in S : status[a] = "queued"}
           running == {a \in S : status[a] = "running"}
<1>1. /\ status' = [a \in Agents |->
                    IF a \in queued \union running THEN "stopped" ELSE status[a]]
      /\ neverStarted' = [a \in Agents |-> neverStarted[a] \/ a \in queued]
      /\ reports' = [a \in Agents |->
                    IF a \in queued THEN [reports[a] EXCEPT ![0] = @ + 1] ELSE reports[a]]
      /\ fired' = [a \in Agents |->
                    IF a \in running THEN fired[a] \union {cur[a]} ELSE fired[a]]
      /\ cancelled' = [a \in Agents |->
                    IF a \in running /\ run[a][cur[a]] = "looping"
                    THEN cancelled[a] \union {cur[a]} ELSE cancelled[a]]
      /\ UNCHANGED <<cur, run, prep, workspace>>
      /\ UNCHANGED sessionVars
  BY DEF Stop
<1>2. RecordTypes'
  <2>1. /\ status' \in [Agents -> ActiveStatus \union TerminalStatus \union {"unborn"}]
        /\ neverStarted' \in [Agents -> BOOLEAN]
    BY <1>1 DEF IInv, RecordTypes, TerminalStatus
  <2>2. reports' \in [Agents -> [Runs -> Nat]]
    <3>1. ASSUME NEW a \in Agents
          PROVE  [reports[a] EXCEPT ![0] = @ + 1] \in [Runs -> Nat]
      <4>1. reports[a] \in [Runs -> Nat] /\ 0 \in Runs
        BY LifecycleAssumption DEF IInv, RecordTypes, Runs
      <4> QED
        BY <4>1
    <3>2. reports \in [Agents -> [Runs -> Nat]]
      BY DEF IInv, RecordTypes
    <3> QED
      BY <1>1, <3>1, <3>2
  <2>3. fired' \in [Agents -> SUBSET Runs] /\ cancelled' \in [Agents -> SUBSET Runs]
    BY <1>1 DEF IInv, RecordTypes
  <2>4. listening' \in [Agents -> Runs \union {NoRun}]
    BY DEF IInv, RecordTypes
  <2> QED
    BY <1>1, <2>1, <2>2, <2>3, <2>4 DEF IInv, RecordTypes, sessionVars
<1>3. ASSUME NEW a \in Agents
      PROVE  Sound(a)'
  <2>1. CASE a \in queued
    <3>1. Fresh(a) /\ ~neverStarted[a]
      BY <2>1 DEF IInv, Sound
    <3>2. /\ status'[a] = "stopped" /\ neverStarted'[a]
          /\ reports'[a] = [reports[a] EXCEPT ![0] = @ + 1]
      BY <1>1, <2>1
    <3>3. \A k \in Runs : reports[a][k] = 0 /\ k >= 0
      BY <3>1, LifecycleAssumption DEF IInv, Sound, Fresh, Runs
    <3>4. \A k \in Runs : reports'[a][k] = IF k = 0 THEN 1 ELSE 0
      BY <3>2, <3>3 DEF IInv, RecordTypes
    <3>5. Fresh(a)' /\ listening'[a] = NoRun /\ workspace'[a] # "live"
      BY <1>1, <3>1 DEF IInv, RecordTypes, Sound, Fresh, InFlight, sessionVars
    <3> QED
      BY <3>2, <3>4, <3>5 DEF Sound, Fresh
  <2>2. CASE a \notin queued
    <3>1. /\ status'[a] = status[a] \/ (status[a] = "running" /\ status'[a] = "stopped")
          /\ neverStarted'[a] <=> neverStarted[a]
          /\ reports'[a] = reports[a]
      BY <1>1, <2>2
    <3> QED
      BY <1>1, <3>1 DEF IInv, Sound, Fresh, InFlight, sessionVars
  <2> QED
    BY <2>1, <2>2
<1>4. Sticky
  BY <1>1 DEF Sticky
<1>5. ASSUME NEW a \in Agents
      PROVE  /\ run'[a] = run[a]
             /\ status'[a] = "unborn" => status[a] = "unborn"
             /\ status'[a] = "queued" => status[a] = "queued" /\ a \notin S
             /\ status[a] = "queued" => status'[a] = "queued" \/ neverStarted'[a]
             /\ neverStarted[a] => neverStarted'[a]
  BY <1>1
<1> QED
  BY <1>2, <1>3, <1>4, <1>5

-----------------------------------------------------------------------------
(* What leaves the session variables, or the workspace, alone.             *)
LEMMA Untouched ==
    ASSUME IInv, NEW a \in Agents
    PROVE  /\ UNCHANGED sessionVars => SessionMoves(a)
           /\ UNCHANGED workspace => WorkspaceMoves(a)
  BY DEF IInv, RecordTypes, sessionVars, SessionMoves, WorkspaceMoves

(* A preparation goes on where the workspace and the session leave it.     *)
LEMMA ReopenSound ==
    ASSUME IInv, NEW a \in Agents, Preparing(a),
           RestoreOrReopen(a) \/ ReopenOrBegin(a),
           SessionMoves(a), WorkspaceMoves(a), UNCHANGED limiterVars
    PROVE  IInv' /\ Sticky
<1>1. CASE \E to \in PrepStates \ {"none"} : PrepMoves(a, to)
  BY <1>1, PrepMovesSound
<1>2. CASE BeginResume(a)
  BY <1>2, BeginResumeSound
<1> QED
  BY <1>1, <1>2 DEF RestoreOrReopen, ReopenOrBegin, PrepStates

(* The provider's answers. *)
LEMMA ProviderSound ==
    ASSUME IInv, NEW a \in Agents, ProviderStep(a)
    PROVE  IInv' /\ Sticky
<1>0. 0 \in Runs
  BY LifecycleAssumption DEF Runs
<1>1. CASE Prepared(a)
  <2>1. WorkspaceMoves(a)
    BY <1>1 DEF Prepared, WorkspaceMoves, IInv, RecordTypes, WorkspaceStates
  <2> QED
    BY <1>1, <2>1, Untouched, AdvanceSound DEF Prepared
<1>2. CASE PrepareFails(a)
  <2>1. InFlight(a, 0)
    BY <1>2 DEF PrepareFails, InFlight
  <2> QED
    BY <1>0, <1>2, <2>1, Untouched, FinishSound DEF PrepareFails, sessionVars
<1>3. CASE WorkspaceRestored(a)
  <2>1. Preparing(a) /\ WorkspaceMoves(a)
    BY <1>3
    DEF WorkspaceRestored, Preparing, WorkspaceMoves, IInv, RecordTypes, WorkspaceStates
  <2> QED
    BY <1>3, <2>1, Untouched, ReopenSound DEF WorkspaceRestored
<1>4. CASE WorkspaceRestoreFails(a)
  BY <1>4, Untouched, PrepFailsSound DEF WorkspaceRestoreFails
<1> QED
  BY <1>1, <1>2, <1>3, <1>4 DEF ProviderStep

(* The factory's answers to a first run. *)
LEMMA CreateSound ==
    ASSUME IInv, NEW a \in Agents,
           \/ CreateRegisters(a) \/ CreateFails(a)
           \/ CreateBinds(a) \/ CreateBindFails(a) \/ CreateUnwound(a)
    PROVE  IInv' /\ Sticky
<1>0. 0 \in Runs
  BY LifecycleAssumption DEF Runs
<1>1. CASE CreateRegisters(a)
  <2>1. SessionMoves(a)
    BY <1>1 DEF CreateRegisters, Registers, SessionMoves, IInv, RecordTypes
  <2> QED
    BY <1>1, <2>1, Untouched, AdvanceSound DEF CreateRegisters
<1>2. CASE CreateFails(a)
  <2>1. InFlight(a, 0)
    BY <1>2 DEF CreateFails, InFlight
  <2> QED
    BY <1>0, <1>2, <2>1, Untouched, FinishSound DEF CreateFails, sessionVars
<1>3. CASE CreateBinds(a)
  <2>1. SessionMoves(a)
    BY <1>3 DEF CreateBinds, SessionMoves, IInv, RecordTypes
  <2> QED
    BY <1>3, <2>1, Untouched, AdvanceSound DEF CreateBinds
<1>4. CASE CreateBindFails(a)
  <2>1. SessionMoves(a)
    BY <1>4 DEF CreateBindFails, Closes, SessionMoves, IInv, RecordTypes
  <2> QED
    BY <1>4, <2>1, Untouched, AdvanceSound DEF CreateBindFails
<1>5. CASE CreateUnwound(a)
  <2>1. InFlight(a, 0)
    BY <1>5 DEF CreateUnwound, InFlight
  <2>2. SessionMoves(a)
    BY <1>5 DEF CreateUnwound, Disposed, SessionMoves, IInv, RecordTypes
  <2> QED
    BY <1>0, <1>5, <2>1, <2>2, FinishSound DEF CreateUnwound
<1> QED
  BY <1>1, <1>2, <1>3, <1>4, <1>5

(* The factory's answers to a resume. *)
LEMMA RestoreSound ==
    ASSUME IInv, NEW a \in Agents,
           \/ RestoreRegisters(a) \/ RestoreFails(a)
           \/ RestoreBinds(a) \/ RestoreBindFails(a) \/ RestoreUnwound(a)
    PROVE  IInv' /\ Sticky
<1>1. CASE RestoreRegisters(a)
  <2>1. SessionMoves(a) /\ Preparing(a)
    BY <1>1 DEF RestoreRegisters, Registers, SessionMoves, Preparing, IInv, RecordTypes
  <2> QED
    BY <1>1, <2>1, Untouched, PrepMovesSound DEF RestoreRegisters, PrepStates
<1>2. CASE RestoreFails(a)
  BY <1>2, Untouched, PrepFailsSound DEF RestoreFails
<1>3. CASE RestoreBinds(a)
  <2>1. SessionMoves(a) /\ Preparing(a)
    BY <1>3 DEF RestoreBinds, SessionMoves, Preparing, IInv, RecordTypes
  <2> QED
    BY <1>3, <2>1, Untouched, BeginResumeSound DEF RestoreBinds
<1>4. CASE RestoreBindFails(a)
  <2>1. SessionMoves(a) /\ Preparing(a)
    BY <1>4 DEF RestoreBindFails, Closes, SessionMoves, Preparing, IInv, RecordTypes
  <2> QED
    BY <1>4, <2>1, Untouched, PrepMovesSound DEF RestoreBindFails, PrepStates
<1>5. CASE RestoreUnwound(a)
  <2>1. SessionMoves(a)
    BY <1>5 DEF RestoreUnwound, Disposed, SessionMoves, IInv, RecordTypes
  <2> QED
    BY <1>5, <2>1, PrepFailsSound DEF RestoreUnwound
<1> QED
  BY <1>1, <1>2, <1>3, <1>4, <1>5

(* A resume is admitted. *)
LEMMA ResumeSound ==
    ASSUME IInv, NEW a \in Agents, Resume(a)
    PROVE  IInv' /\ Sticky
<1>1. /\ Preparing(a) /\ SessionMoves(a) /\ WorkspaceMoves(a) /\ UNCHANGED limiterVars
  BY Untouched DEF Resume, Preparing
<1>2. CASE PrepMoves(a, "awaitRelease")
  BY <1>1, <1>2, PrepMovesSound DEF PrepStates
<1>3. CASE RestoreOrReopen(a)
  BY <1>1, <1>3, ReopenSound
<1> QED
  BY <1>2, <1>3 DEF Resume

(* The sweep releases a settled record's session and suspends its workspace. *)
LEMMA SweepSound ==
    ASSUME IInv, NEW a \in Agents, SweepReleases(a)
    PROVE  IInv' /\ Sticky
<1>1. /\ SessionMoves(a) /\ WorkspaceMoves(a) /\ workspace'[a] # "live"
      /\ session[a] # "none" /\ UNCHANGED <<limiterVars, recordVars, runVars, prep>>
  <2>1. WorkspaceMoves(a) /\ workspace'[a] # "live"
    BY DEF SweepReleases, SuspendOutcomes, WorkspaceMoves, IInv, RecordTypes, WorkspaceStates
  <2>2. closing' \in [Agents -> SUBSET Nat] /\ releasing' \in [Agents -> Nat]
    BY DEF SweepReleases, Closes, IInv, RecordTypes
  <2>3. SessionMoves(a)
    BY <2>2 DEF SweepReleases, SessionMoves, IInv, RecordTypes
  <2> QED
    BY <2>1, <2>3 DEF SweepReleases
<1>2. RecordTypes'
  BY <1>1 DEF IInv, RecordTypes, SessionMoves, WorkspaceMoves, recordVars, runVars
<1>3. ASSUME NEW b \in Agents
      PROVE  Sound(b)' /\ SlotSound(b)'
  BY <1>1
  DEF IInv, Sound, SlotSound, Fresh, InFlight, SessionMoves, WorkspaceMoves,
      recordVars, runVars, limiterVars
<1>4. Sticky
  BY <1>1 DEF Sticky, recordVars
<1> QED
  BY <1>2, <1>3, <1>4 DEF IInv

(* The released session's teardown ends. *)
LEMMA ReleaseSound ==
    ASSUME IInv, NEW a \in Agents, ReleaseSettles(a)
    PROVE  IInv' /\ Sticky
<1>1. SessionMoves(a) /\ WorkspaceMoves(a) /\ UNCHANGED limiterVars
  BY Untouched DEF ReleaseSettles, Disposed, SessionMoves, IInv, RecordTypes
<1>2. CASE prep[a] = "awaitRelease"
  BY <1>1, <1>2, ReopenSound DEF ReleaseSettles, Preparing
<1>3. CASE prep[a] # "awaitRelease"
  <2>1. UNCHANGED <<prep, recordVars, runVars, session, workspace, limiterVars>>
    BY <1>3 DEF ReleaseSettles
  <2>2. RecordTypes'
    BY <1>1, <2>1 DEF IInv, RecordTypes, SessionMoves, WorkspaceMoves, recordVars, runVars
  <2>3. ASSUME NEW b \in Agents
        PROVE  Sound(b)' /\ SlotSound(b)'
    BY <2>1 DEF IInv, Sound, SlotSound, Fresh, InFlight, recordVars, runVars, limiterVars
  <2>4. Sticky
    BY <2>1 DEF Sticky, recordVars
  <2> QED
    BY <2>2, <2>3, <2>4 DEF IInv
<1> QED
  BY <1>2, <1>3

(* The levers that stop one record. *)
LEMMA StopsSound ==
    ASSUME IInv, NEW a \in Agents, Stops(a)
    PROVE  IInv' /\ Sticky
<1>1. PICK heard \in [Agents -> BOOLEAN] :
        listening' = [b \in Agents |-> IF heard[b] THEN NoRun ELSE listening[b]]
  <2>1. CASE listening' = listening
    <3>1. listening' = [b \in Agents |->
                IF [c \in Agents |-> FALSE][b] THEN NoRun ELSE listening[b]]
      BY <2>1 DEF IInv, RecordTypes
    <3> QED
      BY <3>1
  <2>2. CASE listening' = [listening EXCEPT ![a] = NoRun]
    <3>1. listening' = [b \in Agents |->
                IF [c \in Agents |-> c = a][b] THEN NoRun ELSE listening[b]]
      BY <2>2 DEF IInv, RecordTypes
    <3> QED
      BY <3>1
  <2> QED
    BY <2>1, <2>2 DEF Stops, Abort, CallerSignal
<1>2. Stop({a}) /\ UNCHANGED limiterVars
  BY DEF Stops, Abort, CallerSignal
<1>3. /\ RecordTypes' /\ (\A b \in Agents : Sound(b)') /\ Sticky
      /\ \A b \in Agents :
            /\ run'[b] = run[b]
            /\ status'[b] = "unborn" => status[b] = "unborn"
            /\ status'[b] = "queued" => status[b] = "queued"
            /\ status[b] = "queued" => status'[b] = "queued" \/ neverStarted'[b]
            /\ neverStarted[b] => neverStarted'[b]
  BY <1>1, <1>2, StopSound
<1>4. ASSUME NEW b \in Agents
      PROVE  SlotSound(b)'
  BY <1>2, <1>3 DEF IInv, SlotSound, InFlight, limiterVars
<1> QED
  BY <1>3, <1>4 DEF IInv

(* abortAll() stops every record and drops what the limiter queued.        *)
LEMMA AbortAllSound ==
    ASSUME IInv, Limiter!TypeOK, Limiter!QueueIsPending, AbortAll
    PROVE  IInv' /\ Sticky
<1>1. listening' = [a \in Agents |->
            IF [b \in Agents |-> FALSE][a] THEN NoRun ELSE listening[a]]
  BY DEF AbortAll, IInv, RecordTypes
<1>2. /\ RecordTypes' /\ (\A a \in Agents : Sound(a)') /\ Sticky
      /\ \A a \in Agents :
            /\ run'[a] = run[a]
            /\ status'[a] = "unborn" => status[a] = "unborn"
            /\ status'[a] # "queued"
            /\ neverStarted[a] => neverStarted'[a]
  BY <1>1, StopSound DEF AbortAll
<1>3. ASSUME NEW a \in Agents
      PROVE  /\ slot'[a] = slot[a] \/ (slot[a] = "pending" /\ slot'[a] = "dropped")
             /\ slot'[a] # "pending"
  BY DEF AbortAll, Limiter!Clear, Limiter!TypeOK, Limiter!QueueIsPending
<1>4. ASSUME NEW a \in Agents
      PROVE  SlotSound(a)'
  BY <1>2, <1>3 DEF IInv, SlotSound, InFlight
<1> QED
  BY <1>2, <1>4 DEF IInv

(* A closure's promise settles. *)
LEMMA SlotSettlesSound ==
    ASSUME IInv, Limiter!TypeOK, NEW a \in Agents, SlotSettles(a)
    PROVE  IInv' /\ Sticky
<1>1. /\ UNCHANGED <<recordVars, runVars, sessionVars, prep, workspace>>
      /\ slot[a] = "started" /\ slot' = [slot EXCEPT ![a] = "settled"] /\ ~InFlight(a, 0)
  BY DEF SlotSettles, Limiter!TaskSettles, InFlight
<1>2. RecordTypes'
  BY <1>1 DEF IInv, RecordTypes, recordVars, runVars, sessionVars
<1>3. ASSUME NEW b \in Agents
      PROVE  Sound(b)' /\ SlotSound(b)'
  <2>1. Sound(b)'
    BY <1>1 DEF IInv, Sound, Fresh, InFlight, recordVars, runVars, sessionVars
  <2>2. SlotSound(b)'
    BY <1>1 DEF IInv, SlotSound, InFlight, recordVars, runVars, Limiter!TypeOK
  <2> QED
    BY <2>1, <2>2
<1>4. Sticky
  BY <1>1 DEF Sticky, recordVars
<1> QED
  BY <1>2, <1>3, <1>4 DEF IInv

-----------------------------------------------------------------------------
(* No record exists when the manager is built. *)
LEMMA InitSound == Init => IInv
<1> SUFFICES ASSUME Init PROVE IInv
  OBVIOUS
<1>1. 0 \in Runs
  BY LifecycleAssumption DEF Runs
<1>2. RecordTypes
  BY <1>1 DEF Init, RecordTypes, NoRun, RunStates, PrepStates, WorkspaceStates
<1>3. ASSUME NEW a \in Agents
      PROVE  Sound(a) /\ SlotSound(a)
  BY <1>1 DEF Init, Limiter!Init, Sound, SlotSound, Fresh, InFlight, NoRun
<1> QED
  BY <1>2, <1>3 DEF IInv

(* Every step keeps the inductive invariant, given the limiter's own. *)
LEMMA StepSound ==
    ASSUME IInv, Limiter!TypeOK, Limiter!QueueIsPending, [Next]_vars
    PROVE  IInv' /\ Sticky
<1>1. ASSUME NEW a \in Agents, SpawnQueued(a) PROVE IInv' /\ Sticky
  <2>1. SlotMoves([status EXCEPT ![a] = "queued"])
    BY <1>1, LimiterMoves DEF SpawnQueued
  <2>2. [status EXCEPT ![a] = "queued"] \in
            [Agents -> ActiveStatus \union TerminalStatus \union {"unborn"}]
    BY DEF IInv, RecordTypes, ActiveStatus
  <2> QED
    BY <1>1, <2>1, <2>2, GuardedSound DEF SpawnQueued
<1>2. ASSUME NEW a \in Agents, SlotFreed(a) PROVE IInv' /\ Sticky
  BY <1>2, LimiterMoves, GuardedSound DEF SlotFreed, IInv, RecordTypes
<1>3. ASSUME NEW n \in 1 .. MaxLimit, SetLimit(n) PROVE IInv' /\ Sticky
  BY <1>3, LimiterMoves, GuardedSound DEF SetLimit, IInv, RecordTypes
<1>4. ASSUME NEW a \in Agents, NEW k \in Runs, LoopSettles(a, k) PROVE IInv' /\ Sticky
  <2>1. PICK outcome \in {"completed", "steered", "aborted", "error"} : FinishRun(a, k, outcome)
    BY <1>4 DEF LoopSettles, LoopOutcomes
  <2>2. InFlight(a, k) /\ UNCHANGED <<limiterVars, sessionVars, prep>>
    BY <1>4 DEF LoopSettles, InFlight
  <2> QED
    BY <2>1, <2>2, Untouched, FinishSound DEF sessionVars
<1>5. ASSUME NEW a \in Agents,
             \/ SpawnDirect(a) \/ Stops(a) \/ Resume(a) \/ SweepReleases(a)
             \/ ProviderStep(a) \/ FactoryStep(a) \/ SlotSettles(a) \/ ReleaseSettles(a)
      PROVE  IInv' /\ Sticky
  BY <1>5, SpawnDirectSound, StopsSound, ResumeSound, SweepSound, ProviderSound,
     CreateSound, RestoreSound, SlotSettlesSound, ReleaseSound
  DEF FactoryStep
<1>6. CASE AbortAll
  BY <1>6, AbortAllSound
<1>7. CASE UNCHANGED vars
  <2>1. UNCHANGED <<limiterVars, recordVars, runVars, sessionVars, prep, workspace>>
    BY <1>7 DEF vars
  <2>2. RecordTypes'
    BY <2>1 DEF IInv, RecordTypes, recordVars, runVars, sessionVars
  <2>3. \A a \in Agents : Sound(a)' /\ SlotSound(a)'
    BY <2>1
    DEF IInv, Sound, SlotSound, Fresh, InFlight, recordVars, runVars, sessionVars, limiterVars
  <2> QED
    BY <2>1, <2>2, <2>3 DEF IInv, Sticky, recordVars
<1> QED
  BY <1>1, <1>2, <1>3, <1>4, <1>5, <1>6, <1>7 DEF Next, Spawns, SlotStep

(* Hence the inductive invariant holds in every behaviour. *)
LEMMA AlwaysSound == Spec => []IInv
<1>1. IInv /\ Limiter!TypeOK /\ Limiter!QueueIsPending /\ [Next]_vars => IInv'
  BY StepSound
<1> QED
  BY <1>1, InitSound, LimiterAlwaysSound, PTL DEF Spec

-----------------------------------------------------------------------------
(* Every variable of the lifecycle keeps its type, the limiter's included. *)
THEOREM TypeCorrect == Spec => []TypeOK
<1>1. IInv /\ Limiter!TypeOK => TypeOK
  BY DEF IInv, TypeOK
<1> QED
  BY <1>1, AlwaysSound, LimiterAlwaysSound, PTL

(* A queued record's closure is always in the limiter's queue, so that no  *)
(* abort, clear() or change of the limit loses it (subagent-manager.ts).   *)
THEOREM QueuedNeverLost == Spec => []QueuedIsScheduled
<1>1. IInv => QueuedIsScheduled
  BY DEF IInv, SlotSound, QueuedIsScheduled
<1> QED
  BY <1>1, AlwaysSound, PTL

(* A record stopped while queued never runs, although its closure may still *)
(* be called later (guardedRun of subagent.ts).                            *)
THEOREM StoppedInQueueNeverRuns == Spec => []NeverStartedNeverRuns
<1>1. IInv => NeverStartedNeverRuns
  BY DEF IInv, Sound, Fresh, NeverStartedNeverRuns
<1> QED
  BY <1>1, AlwaysSound, PTL

(* Each run is reported to the observer once, on whatever path it ends.    *)
THEOREM ReportsAreExact == Spec => []ReportedOnce
<1>1. IInv => ReportedOnce
  BY DEF IInv, Sound, ReportedOnce
<1> QED
  BY <1>1, AlwaysSound, PTL

(* A running record has a run in flight, so that abort() and               *)
(* waitUntilSettled() act on something.                                    *)
THEOREM RunningMeansInFlight == Spec => []RunningIsInFlight
<1>1. IInv => RunningIsInFlight
  BY DEF IInv, Sound, RunningIsInFlight
<1> QED
  BY <1>1, AlwaysSound, PTL

(* A slot is held until the run in it settles, even after a stop.          *)
THEOREM SlotsCoverRuns == Spec => []SlotCoversRun
<1>1. IInv => SlotCoversRun
  BY DEF IInv, SlotSound, SlotCoversRun
<1> QED
  BY <1>1, AlwaysSound, PTL

(* A caller's signal is wired to its own run and to no later one.          *)
THEOREM SignalsStayOwn == Spec => []SignalStopsItsOwnRun
<1>1. IInv => SignalStopsItsOwnRun
  BY DEF IInv, Sound, SignalStopsItsOwnRun
<1> QED
  BY <1>1, AlwaysSound, PTL

(* A live workspace has a run or a resume preparation that will end it.    *)
THEOREM WorkspacesOwned == Spec => []WorkspaceOwned
<1>1. IInv => WorkspaceOwned
  BY DEF IInv, Sound, WorkspaceOwned
<1> QED
  BY <1>1, AlwaysSound, PTL

(* Only a resume takes a record out of stopped, whatever the interrupted   *)
(* run still does (mark* of subagent-state.ts).                            *)
THEOREM StopsStick == Spec => StoppedIsSticky
<1>1. IInv /\ Limiter!TypeOK /\ Limiter!QueueIsPending /\ [Next]_vars => [Sticky]_vars
  BY StepSound
<1> QED
  BY <1>1, AlwaysSound, LimiterAlwaysSound, PTL DEF Spec, StoppedIsSticky, Sticky

-----------------------------------------------------------------------------
(* A recheck that starts a task leaves the count within the limit.         *)
LEMMA RecheckStarts ==
    ASSUME NEW queue, NEW taken, NEW cap, NEW states,
           SlotsSound(queue, taken, cap, states),
           Limiter!Recheck(queue, taken, cap, states),
           NEW a \in Agents, states[a] # "started", slot'[a] = "started"
    PROVE  active' <= limit'
<1> DEFINE n == Limiter!Admissions(queue, taken, cap)
<1>1. queue \in Seq(Agents) /\ taken \in Nat /\ cap \in Nat /\ Len(queue) \in Nat
  BY LenProperties DEF SlotsSound, Limiter!LimiterAssumption
<1>2. n \in 0 .. Len(queue) /\ (n > 0 => taken + n <= cap)
  BY <1>1, AdmissionsBounds
<1>3. /\ active' = taken + n /\ limit' = cap
      /\ slot' = [t \in Agents |-> IF \E i \in 1 .. n : queue[i] = t THEN "started" ELSE states[t]]
  BY DEF Limiter!Recheck
<1> HIDE DEF n
<1>4. \E i \in 1 .. n : queue[i] = a
  BY <1>3
<1>5. n > 0
  BY <1>2, <1>4
<1> QED
  BY <1>1, <1>2, <1>3, <1>5

(* So does every step of the limiter that starts one. *)
LEMMA StartsWithinLimit ==
    ASSUME SlotInv, [Limiter!Next]_(Limiter!vars),
           NEW a \in Agents, slot[a] # "started", slot'[a] = "started"
    PROVE  active' <= limit'
<1>1. ASSUME NEW t \in Agents, Limiter!Schedule(t) PROVE active' <= limit'
  <2>1. SlotsSound(Append(pending, t), active, limit, [slot EXCEPT ![t] = "pending"])
    BY <1>1, ScheduleKeeps
  <2>2. [slot EXCEPT ![t] = "pending"][a] # "started"
    BY DEF SlotInv, SlotsSound
  <2> QED
    BY <1>1, <2>1, <2>2, RecheckStarts DEF Limiter!Schedule
<1>2. ASSUME NEW t \in Agents, Limiter!TaskSettles(t) PROVE FALSE
  BY <1>2 DEF Limiter!TaskSettles, SlotInv, SlotsSound
<1>3. ASSUME NEW t \in Agents, Limiter!SlotFreed(t) PROVE active' <= limit'
  <2>1. SlotsSound(pending, active - 1, limit, [slot EXCEPT ![t] = "freed"])
    BY <1>3, SlotFreedKeeps
  <2>2. [slot EXCEPT ![t] = "freed"][a] # "started"
    BY DEF SlotInv, SlotsSound
  <2> QED
    BY <1>3, <2>1, <2>2, RecheckStarts DEF Limiter!SlotFreed
<1>4. ASSUME NEW n \in 1 .. MaxLimit, Limiter!SetLimit(n) PROVE active' <= limit'
  <2>1. SlotsSound(pending, active, n, slot)
    BY DEF SlotInv, SlotsSound
  <2> QED
    BY <1>4, <2>1, RecheckStarts DEF Limiter!SetLimit
<1>5. ASSUME Limiter!Clear PROVE FALSE
  BY <1>5 DEF Limiter!Clear
<1>6. ASSUME UNCHANGED Limiter!vars PROVE FALSE
  BY <1>6 DEF Limiter!vars
<1> QED
  BY <1>1, <1>2, <1>3, <1>4, <1>5, <1>6 DEF Limiter!Next

(* The first run of a record. *)
FirstGoesOn(a) ==
    \/ run'[a][0] = run[a][0]
    \/ run'[a][0] = "settled"
    \/ InFlight(a, 0)

(* A run that ends, advances or is resumed is not one that begins.         *)
LEMMA FirstRunMoves ==
    ASSUME IInv, NEW a \in Agents, NEW b \in Agents
    PROVE  /\ \A k \in Runs : \A outcome : FinishRun(b, k, outcome) => FirstGoesOn(a)
           /\ \A from, to : RunAdvances(b, from, to) /\ from \notin {"idle", "settled"} => FirstGoesOn(a)
           /\ BeginResume(b) => FirstGoesOn(a)
           /\ \A to : PrepMoves(b, to) => FirstGoesOn(a)
<1> USE DEF FirstGoesOn
<1>1. run \in [Agents -> [Runs -> RunStates]] /\ cur[b] \in Runs /\ 0 \in Runs
  BY LifecycleAssumption DEF IInv, RecordTypes, Runs
<1>2. ASSUME NEW k \in Runs, NEW outcome, FinishRun(b, k, outcome) PROVE FirstGoesOn(a)
  <2>1. run' = [run EXCEPT ![b][k] = "settled"]
    BY <1>2 DEF FinishRun
  <2> QED
    BY <1>1, <2>1
<1>3. ASSUME NEW from, NEW to, RunAdvances(b, from, to), from \notin {"idle", "settled"}
      PROVE  FirstGoesOn(a)
  <2>1. run' = [run EXCEPT ![b][0] = to] /\ InFlight(b, 0)
    BY <1>3 DEF RunAdvances, InFlight
  <2> QED
    BY <1>1, <2>1
<1>4. ASSUME BeginResume(b) PROVE FirstGoesOn(a)
  <2>1. run' = [run EXCEPT ![b][cur[b] + 1] = "looping"] /\ cur[b] + 1 # 0
    BY <1>1, <1>4 DEF BeginResume, Runs
  <2> QED
    BY <1>1, <2>1
<1>5. ASSUME NEW to, PrepMoves(b, to) PROVE FirstGoesOn(a)
  BY <1>5 DEF PrepMoves, runVars
<1> QED
  BY <1>2, <1>3, <1>4, <1>5

(* A first run begins in the step that starts its closure, or outside the  *)
(* limiter.                                                                *)
LEMMA OnlyStartsBegin ==
    ASSUME IInv, [Next]_vars, NEW a \in Agents
    PROVE  FirstGoesOn(a) \/ a \in Started \/ slot'[a] = "unscheduled"
<1>1. ASSUME NEW states, GuardedRuns(states) PROVE FirstGoesOn(a) \/ a \in Started
  BY <1>1 DEF GuardedRuns, BeginRuns, FirstGoesOn
<1>2. ASSUME NEW b \in Agents, Spawns(b)
      PROVE  FirstGoesOn(a) \/ a \in Started \/ slot'[a] = "unscheduled"
  <2>1. CASE SpawnQueued(b)
    BY <1>1, <2>1 DEF SpawnQueued
  <2>2. CASE SpawnDirect(b)
    <3>1. slot[b] = "unscheduled" /\ slot' = slot
      BY <2>2 DEF SpawnDirect, IInv, SlotSound, limiterVars
    <3>2. a # b => run'[a] = run[a]
      BY <2>2 DEF SpawnDirect, BeginRuns
    <3> QED
      BY <3>1, <3>2 DEF FirstGoesOn
  <2> QED
    BY <1>2, <2>1, <2>2 DEF Spawns
<1>3. ASSUME NEW b \in Agents, Stops(b) \/ SweepReleases(b) \/ SlotSettles(b) PROVE FirstGoesOn(a)
  BY <1>3 DEF Stops, Abort, CallerSignal, Stop, SweepReleases, SlotSettles, runVars, FirstGoesOn
<1>4. ASSUME NEW b \in Agents, ReopenOrBegin(b) \/ RestoreOrReopen(b) PROVE FirstGoesOn(a)
  BY <1>4, FirstRunMoves DEF ReopenOrBegin, RestoreOrReopen
<1>5. ASSUME NEW b \in Agents, Resume(b) \/ ReleaseSettles(b) PROVE FirstGoesOn(a)
  <2>1. \/ PrepMoves(b, "awaitRelease") \/ RestoreOrReopen(b)
        \/ UNCHANGED runVars
    BY <1>5 DEF Resume, ReleaseSettles
  <2> QED
    BY <2>1, <1>4, FirstRunMoves DEF runVars, FirstGoesOn
<1>6. ASSUME NEW b \in Agents, ProviderStep(b) PROVE FirstGoesOn(a)
  <2>1. CASE Prepared(b)
    BY <2>1, FirstRunMoves DEF Prepared
  <2>2. CASE PrepareFails(b)
    BY <2>2, FirstRunMoves, LifecycleAssumption DEF PrepareFails, Runs
  <2>3. CASE WorkspaceRestored(b)
    BY <2>3, <1>4 DEF WorkspaceRestored
  <2>4. CASE WorkspaceRestoreFails(b)
    BY <2>4, FirstRunMoves DEF WorkspaceRestoreFails, PrepFails
  <2> QED
    BY <1>6, <2>1, <2>2, <2>3, <2>4 DEF ProviderStep
<1>7. ASSUME NEW b \in Agents, FactoryStep(b) PROVE FirstGoesOn(a)
  <2>1. CASE CreateRegisters(b) \/ CreateBinds(b) \/ CreateBindFails(b)
    BY <2>1, FirstRunMoves DEF CreateRegisters, CreateBinds, CreateBindFails
  <2>2. CASE CreateFails(b) \/ CreateUnwound(b)
    BY <2>2, FirstRunMoves, LifecycleAssumption DEF CreateFails, CreateUnwound, Runs
  <2>3. CASE RestoreRegisters(b) \/ RestoreBindFails(b)
    BY <2>3, FirstRunMoves DEF RestoreRegisters, RestoreBindFails
  <2>4. CASE RestoreFails(b) \/ RestoreUnwound(b)
    BY <2>4, FirstRunMoves DEF RestoreFails, RestoreUnwound, PrepFails
  <2>5. CASE RestoreBinds(b)
    BY <2>5, FirstRunMoves DEF RestoreBinds
  <2> QED
    BY <1>7, <2>1, <2>2, <2>3, <2>4, <2>5 DEF FactoryStep
<1>8. ASSUME NEW b \in Agents, NEW k \in Runs, LoopSettles(b, k) PROVE FirstGoesOn(a)
  BY <1>8, FirstRunMoves DEF LoopSettles
<1>9. ASSUME NEW b \in Agents, SlotFreed(b) PROVE FirstGoesOn(a) \/ a \in Started
  BY <1>1, <1>9 DEF SlotFreed
<1>10. ASSUME NEW n \in 1 .. MaxLimit, SetLimit(n) PROVE FirstGoesOn(a) \/ a \in Started
  BY <1>1, <1>10 DEF SetLimit
<1>11. CASE AbortAll \/ UNCHANGED vars
  BY <1>11 DEF AbortAll, Stop, vars, runVars, FirstGoesOn
<1> QED
  BY <1>2, <1>3, <1>5, <1>6, <1>7, <1>8, <1>9, <1>10, <1>11 DEF Next, SlotStep

(* Admission never starts a run past the limit, counting the runs that are *)
(* really in flight, and leaves nobody queued while a slot is free: the    *)
(* counter of concurrency-limiter.ts drifts neither way.                   *)
THEOREM AdmissionStaysExact == Spec => AdmissionIsExact
<1> DEFINE Exact ==
      /\ ~(AtWork' \subseteq AtWork) => Cardinality(AtWork') <= limit'
      /\ (\E a \in Agents : status'[a] = "queued") => Cardinality(Occupying') >= limit'
<1>1. ASSUME IInv, SlotInv, Limiter!TypeOK, Limiter!QueueIsPending, [Next]_vars
      PROVE  Exact
  <2>1. IInv' /\ [Limiter!Next]_(Limiter!vars)
    BY <1>1, StepSound, LimiterStep
  <2>2. SlotInv'
    BY <1>1, <2>1, SlotsStep
  <2>3. /\ active' = Cardinality(Occupying') /\ active' \in Nat /\ limit' \in Nat
        /\ IsFiniteSet(Occupying')
    <3>1. Occupying' \subseteq Agents /\ IsFiniteSet(Agents)
      BY LifecycleAssumption DEF Occupying
    <3>2. IsFiniteSet(Occupying')
      BY <3>1, FS_Subset
    <3> QED
      BY <2>2, <3>2 DEF SlotInv, SlotsSound, Holders, Occupying, Limiter!LimiterAssumption
  <2>4. ASSUME ~(AtWork' \subseteq AtWork) PROVE Cardinality(AtWork') <= limit'
    <3>1. AtWork' \subseteq Occupying'
      BY <2>1 DEF IInv, SlotSound, AtWork, Occupying
    <3>2. Cardinality(AtWork') <= Cardinality(Occupying')
      BY <2>3, <3>1, FS_Subset
    <3>3. PICK a \in Agents : slot'[a] # "unscheduled" /\ InFlight(a, 0)' /\ a \notin AtWork
      BY <2>4 DEF AtWork
    <3>4. slot'[a] = "started"
      BY <2>1, <3>3 DEF IInv, SlotSound
    <3>5. slot[a] # "started"
      <4>1. CASE a \in Started
        BY <4>1 DEF Started
      <4>2. CASE FirstGoesOn(a) /\ slot[a] = "started"
        BY <3>3, <4>2 DEF FirstGoesOn, InFlight, AtWork
      <4> QED
        BY <1>1, <3>3, <4>1, <4>2, OnlyStartsBegin
    <3>6. active' <= limit'
      BY <1>1, <2>1, <3>4, <3>5, StartsWithinLimit
    <3>7. IsFiniteSet(AtWork')
      BY <2>3, <3>1, FS_Subset
    <3>8. Cardinality(AtWork') \in Nat
      BY <3>7, FS_CardinalityType
    <3> QED
      BY <2>3, <3>2, <3>6, <3>8
  <2>5. ASSUME NEW a \in Agents, status'[a] = "queued" PROVE Cardinality(Occupying') >= limit'
    <3>1. slot'[a] = "pending"
      BY <2>1, <2>5 DEF IInv, SlotSound
    <3>2. a \in Limiter!Range(pending')
      BY <2>2, <3>1 DEF SlotInv, SlotsSound, QueueAgrees
    <3>3. pending' # <<>>
      BY <3>2 DEF Limiter!Range
    <3>4. active' >= limit'
      BY <2>2, <3>3 DEF SlotInv, Limiter!WorkConserving
    <3> QED
      BY <2>3, <3>4
  <2> QED
    BY <2>4, <2>5
<1>2. IInv /\ SlotInv /\ Limiter!TypeOK /\ Limiter!QueueIsPending /\ [Next]_vars => [Exact]_vars
  BY <1>1
<1> QED
  BY <1>2, AlwaysSound, SlotsAlwaysSound, LimiterAlwaysSound, PTL DEF Spec, AdmissionIsExact

-----------------------------------------------------------------------------
(* What ties a record's session to its runs, its preparation, its teardown *)
(* and its registration: one record's part of the second invariant.        *)
Open(a) ==
    /\ run[a][0] \in {"preparing", "loading", "binding", "unwinding"} => session[a] = "none"
    /\ session[a] = "none" => prep[a] = "none" /\ releasing[a] = 0
    /\ prep[a] # "none" => status[a] \notin {"unborn", "queued", "running"}
    /\ prep[a] \in {"loading", "binding", "unwinding"} => session[a] = "released"
    /\ prep[a] = "restoringWorkspace" => workspace[a] = "suspended"
    /\ prep[a] = "awaitRelease" => releasing[a] # 0
    /\ workspace[a] = "none" /\ releasing[a] # 0 =>
        session[a] = "released" /\ prep[a] \in {"none", "awaitRelease"}
    /\ workspace[a] = "none"
       /\ (session[a] = "held" \/ prep[a] = "binding" \/ run[a][0] = "binding") => registered[a]
    /\ status[a] = "running" /\ run[a][cur[a]] = "looping" => session[a] = "held"

AllOpen == \A a \in Agents : Open(a)

(* A step leaves one record as it is. *)
Spares(a) ==
    /\ status'[a] = status[a] /\ cur'[a] = cur[a] /\ run'[a] = run[a]
    /\ prep'[a] = prep[a] /\ session'[a] = session[a] /\ releasing'[a] = releasing[a]
    /\ registered'[a] = registered[a] /\ workspace'[a] = workspace[a]

(* The steps that are about one record; the others may start or stop many. *)
AboutOne(a) ==
    \/ Resume(a) \/ SweepReleases(a) \/ ProviderStep(a) \/ FactoryStep(a)
    \/ SlotSettles(a) \/ ReleaseSettles(a) \/ \E k \in Runs : LoopSettles(a, k)

(* The others are spared. *)
LEMMA SparesOthers ==
    ASSUME IInv, NEW a \in Agents, AboutOne(a), NEW b \in Agents, b # a
    PROVE  Spares(b)
<1> USE DEF Spares, IInv, RecordTypes, recordVars, runVars, sessionVars
<1>1. CASE Resume(a)
  BY <1>1 DEF Resume, RestoreOrReopen, ReopenOrBegin, BeginResume, PrepMoves
<1>2. CASE SweepReleases(a)
  BY <1>2 DEF SweepReleases, Closes
<1>3. CASE ProviderStep(a)
  BY <1>3 DEF ProviderStep, Prepared, PrepareFails, WorkspaceRestored,
      WorkspaceRestoreFails, RunAdvances, FinishRun, ReopenOrBegin, BeginResume,
      PrepFails, PrepMoves
<1>4. CASE CreateRegisters(a) \/ CreateFails(a) \/ CreateBinds(a)
           \/ CreateBindFails(a) \/ CreateUnwound(a)
  BY <1>4 DEF CreateRegisters, CreateFails, CreateBinds, CreateBindFails,
      CreateUnwound, RunAdvances, Registers, Closes, Disposed, FinishRun
<1>5. CASE RestoreRegisters(a) \/ RestoreFails(a) \/ RestoreBinds(a)
           \/ RestoreBindFails(a) \/ RestoreUnwound(a)
  BY <1>5 DEF RestoreRegisters, RestoreFails, RestoreBinds, RestoreBindFails,
      RestoreUnwound, Registers, Closes, Disposed, BeginResume, PrepFails, PrepMoves
<1>6. CASE SlotSettles(a)
  BY <1>6 DEF SlotSettles
<1>7. CASE ReleaseSettles(a)
  BY <1>7 DEF ReleaseSettles, Disposed, RestoreOrReopen, ReopenOrBegin,
      BeginResume, PrepMoves
<1>8. CASE \E k \in Runs : LoopSettles(a, k)
  BY <1>8 DEF LoopSettles, FinishRun
<1> QED
  BY <1>1, <1>2, <1>3, <1>4, <1>5, <1>6, <1>7, <1>8 DEF AboutOne, FactoryStep

(* A spared record stays sound. *)
LEMMA SparedOpen ==
    ASSUME NEW a \in Agents, Open(a), Spares(a)
    PROVE  Open(a)'
  BY DEF Open, Spares

(* A run of the record ends. *)
LEMMA FinishOpen ==
    ASSUME IInv, NEW a \in Agents, Open(a), NEW k \in Runs, InFlight(a, k),
           NEW outcome \in {"completed", "steered", "aborted", "error"},
           FinishRun(a, k, outcome), UNCHANGED <<session, releasing, prep>>,
           registered'[a] = registered[a] \/ (session[a] = "none" /\ k = 0)
    PROVE  Open(a)'
<1>1. PICK w \in SuspendOutcomes(a) :
        /\ workspace' = [workspace EXCEPT ![a] = w]
        /\ status' = [status EXCEPT ![a] =
                        Marked(a, IF w = "stuck" THEN "error" ELSE outcome)]
  BY DEF FinishRun
<1>2. run' = [run EXCEPT ![a][k] = "settled"] /\ UNCHANGED cur
  BY DEF FinishRun
<1>3. workspace'[a] \in {workspace[a], "suspended", "stuck"}
      /\ (workspace'[a] = "none" => workspace[a] = "none")
      /\ (workspace[a] = "suspended" => workspace'[a] = "suspended")
  BY <1>1 DEF SuspendOutcomes, IInv, RecordTypes
<1>4. status'[a] \in TerminalStatus
  BY <1>1 DEF Marked, TerminalStatus, IInv, RecordTypes
<1>5. 0 \in Runs /\ run'[a][0] \in {run[a][0], "settled"} /\ (k = 0 => run'[a][0] = "settled")
  BY <1>2, LifecycleAssumption DEF IInv, RecordTypes, Runs
<1> QED
  BY <1>3, <1>4, <1>5 DEF Open, TerminalStatus

(* The initial run of a record, not yet looping, moves on. *)
LEMMA AdvanceFacts ==
    ASSUME IInv, NEW a \in Agents, NEW from, NEW to, RunAdvances(a, from, to)
    PROVE  /\ run[a][0] = from /\ run'[a][0] = to
           /\ \A k \in Runs : k # 0 => run'[a][k] = run[a][k]
           /\ cur' = cur /\ status' = status
<1>1. 0 \in Runs
  BY LifecycleAssumption DEF Runs
<1> QED
  BY <1>1 DEF RunAdvances, IInv, RecordTypes, recordVars

(* A preparation moves on. *)
LEMMA PrepMovesOpen ==
    ASSUME IInv, NEW a \in Agents, Open(a),
           NEW to \in {"loading", "restoringWorkspace"},
           PrepMoves(a, to), Preparing(a), session' = session,
           to = "loading" => session[a] = "released",
           to = "restoringWorkspace" => workspace'[a] = "suspended",
           releasing'[a] = 0 \/ workspace'[a] # "none"
    PROVE  Open(a)'
<1>1. prep'[a] = to /\ UNCHANGED <<recordVars, runVars>>
  BY DEF PrepMoves, IInv, RecordTypes
<1>2. status[a] \notin {"unborn", "queued", "running"} /\ session[a] # "none"
  BY PreparingHasRun DEF Preparing, Resumable, Open
<1> QED
  BY <1>1, <1>2 DEF Open, recordVars, runVars

(* A preparation ends in a new run, on a session the record holds. *)
LEMMA BeginResumeOpen ==
    ASSUME IInv, NEW a \in Agents, Open(a), Preparing(a), BeginResume(a),
           session'[a] = "held",
           workspace'[a] = "none" => registered'[a] /\ releasing'[a] = 0
    PROVE  Open(a)'
<1>1. prep'[a] = "none"
  BY DEF BeginResume, IInv, RecordTypes
<1>2. run'[a][0] = run[a][0]
  <2>1. cur[a] \in Nat /\ 0 \in Runs
    BY LifecycleAssumption, PreparingHasRun DEF Runs
  <2>2. cur[a] + 1 # 0
    BY <2>1
  <2> QED
    BY <2>1, <2>2 DEF BeginResume, IInv, RecordTypes
<1>3. session[a] # "none"
  BY DEF Preparing, Resumable, Open
<1> QED
  BY <1>1, <1>2, <1>3 DEF Open

(* A preparation goes on where the workspace and the session leave it. *)
LEMMA ReopenOpen ==
    ASSUME IInv, NEW a \in Agents, Open(a), Preparing(a), session' = session,
           \/ RestoreOrReopen(a) /\ workspace' = workspace /\ releasing'[a] = 0
           \/ ReopenOrBegin(a) /\ workspace'[a] = "live",
           workspace'[a] = "none" /\ session[a] = "held" => registered'[a]
    PROVE  Open(a)'
<1>1. session[a] \in {"held", "released"}
  BY DEF Preparing, Resumable, Open, IInv, RecordTypes
<1>2. CASE session[a] = "held" /\ BeginResume(a)
  BY <1>2, BeginResumeOpen
<1>3. CASE session[a] # "held" /\ PrepMoves(a, "loading")
  BY <1>1, <1>3, PrepMovesOpen
<1>4. CASE workspace[a] = "suspended" /\ workspace' = workspace
           /\ PrepMoves(a, "restoringWorkspace")
  BY <1>4, PrepMovesOpen
<1> QED
  BY <1>2, <1>3, <1>4 DEF RestoreOrReopen, ReopenOrBegin

(* A preparation ends in a refusal. *)
LEMMA PrepFailsOpen ==
    ASSUME IInv, NEW a \in Agents, Open(a), prep[a] # "none", PrepFails(a),
           UNCHANGED <<session, releasing>>,
           registered'[a] = registered[a] \/ session[a] = "released"
    PROVE  Open(a)'
<1>1. prep'[a] = "none" /\ UNCHANGED <<recordVars, runVars>>
  BY DEF PrepFails, PrepMoves, IInv, RecordTypes
<1>2. workspace'[a] = "none" => workspace[a] = "none"
  BY DEF PrepFails, SuspendOutcomes, IInv, RecordTypes
<1>3. session[a] # "none"
  BY DEF Open
<1> QED
  BY <1>1, <1>2, <1>3 DEF Open, recordVars, runVars

(* The record a step is about. *)
LEMMA SubjectOpen ==
    ASSUME IInv, NEW a \in Agents, Open(a), AboutOne(a)
    PROVE  Open(a)'
<1>0. 0 \in Runs
  BY LifecycleAssumption DEF Runs
<1>1. CASE Resume(a)
  <2>1. Preparing(a) /\ UNCHANGED <<sessionVars, workspace>>
    BY <1>1 DEF Resume, Preparing
  <2>2. CASE releasing[a] # 0 /\ PrepMoves(a, "awaitRelease")
    <3>1. prep'[a] = "awaitRelease" /\ UNCHANGED <<recordVars, runVars>>
      BY <2>2 DEF PrepMoves, IInv, RecordTypes
    <3>2. status[a] \notin {"unborn", "queued", "running"} /\ session[a] # "none"
      BY <2>1, PreparingHasRun DEF Preparing, Resumable, Open
    <3> QED
      BY <2>1, <2>2, <3>1, <3>2 DEF Open, recordVars, runVars, sessionVars
  <2>3. CASE releasing[a] = 0 /\ RestoreOrReopen(a)
    BY <2>1, <2>3, ReopenOpen DEF Open, sessionVars
  <2> QED
    BY <1>1, <2>2, <2>3 DEF Resume
<1>2. CASE SweepReleases(a)
  <2>1. /\ session'[a] = "released" /\ releasing'[a] = generation[a]
        /\ status[a] \in TerminalStatus /\ session[a] = "held" /\ releasing[a] = 0
        /\ UNCHANGED <<registered, recordVars, runVars, prep>>
    BY <1>2 DEF SweepReleases, IInv, RecordTypes
  <2>2. /\ workspace'[a] = "none" => workspace[a] = "none"
        /\ workspace[a] = "suspended" => workspace'[a] = "suspended"
    BY <1>2 DEF SweepReleases, SuspendOutcomes, IInv, RecordTypes
  <2>3. prep[a] \in {"none", "restoringWorkspace"}
    BY <2>1 DEF Open, IInv, RecordTypes, PrepStates
  <2> QED
    BY <2>1, <2>2, <2>3 DEF Open, recordVars, runVars, TerminalStatus
<1>3. CASE Prepared(a)
  <2>1. /\ run[a][0] = "preparing" /\ run'[a][0] = "loading"
        /\ \A k \in Runs : k # 0 => run'[a][k] = run[a][k]
        /\ cur' = cur /\ status' = status /\ UNCHANGED <<sessionVars, prep>>
    BY <1>3, AdvanceFacts DEF Prepared
  <2> QED
    BY <2>1 DEF Open, sessionVars, IInv, RecordTypes
<1>4. CASE PrepareFails(a)
  BY <1>0, <1>4, FinishOpen DEF PrepareFails, InFlight, sessionVars
<1>5. CASE WorkspaceRestored(a)
  <2>1. Preparing(a) /\ ReopenOrBegin(a) /\ workspace'[a] = "live" /\ session' = session
    BY <1>5 DEF WorkspaceRestored, Preparing, sessionVars, IInv, RecordTypes
  <2> QED
    BY <2>1, ReopenOpen
<1>6. CASE WorkspaceRestoreFails(a)
  BY <1>6, PrepFailsOpen DEF WorkspaceRestoreFails, sessionVars
<1>7. CASE CreateRegisters(a)
  <2>1. /\ run[a][0] = "loading" /\ run'[a][0] = "binding"
        /\ \A k \in Runs : k # 0 => run'[a][k] = run[a][k]
        /\ cur' = cur /\ status' = status /\ UNCHANGED <<prep, workspace>>
    BY <1>7, AdvanceFacts DEF CreateRegisters
  <2>2. registered'[a] /\ UNCHANGED <<session, releasing>>
    BY <1>7 DEF CreateRegisters, Registers, IInv, RecordTypes
  <2> QED
    BY <2>1, <2>2 DEF Open, IInv, RecordTypes
<1>8. CASE CreateFails(a)
  BY <1>0, <1>8, FinishOpen DEF CreateFails, InFlight, sessionVars
<1>9. CASE CreateBinds(a)
  <2>1. /\ run[a][0] = "binding" /\ run'[a][0] = "looping"
        /\ cur' = cur /\ status' = status /\ UNCHANGED <<prep, workspace>>
    BY <1>9, AdvanceFacts DEF CreateBinds
  <2>2. session'[a] = "held" /\ UNCHANGED <<releasing, registered>>
    BY <1>9 DEF CreateBinds, IInv, RecordTypes
  <2> QED
    BY <2>1, <2>2 DEF Open
<1>10. CASE CreateBindFails(a)
  <2>1. /\ run[a][0] = "binding" /\ run'[a][0] = "unwinding"
        /\ \A k \in Runs : k # 0 => run'[a][k] = run[a][k]
        /\ cur' = cur /\ status' = status
        /\ UNCHANGED <<prep, workspace, session, releasing, registered>>
    BY <1>10, AdvanceFacts DEF CreateBindFails
  <2> QED
    BY <2>1 DEF Open, IInv, RecordTypes
<1>11. CASE CreateUnwound(a)
  <2>1. /\ InFlight(a, 0) /\ FinishRun(a, 0, "error")
        /\ UNCHANGED <<session, releasing, prep>> /\ session[a] = "none"
    BY <1>11 DEF CreateUnwound, InFlight, Open
  <2> QED
    BY <1>0, <2>1, FinishOpen
<1>12. CASE RestoreRegisters(a)
  <2>1. prep[a] = "loading" /\ prep'[a] = "binding" /\ registered'[a]
        /\ UNCHANGED <<recordVars, runVars, session, releasing, workspace>>
    BY <1>12 DEF RestoreRegisters, PrepMoves, Registers, IInv, RecordTypes
  <2> QED
    BY <2>1 DEF Open, recordVars, runVars
<1>13. CASE RestoreFails(a)
  BY <1>13, PrepFailsOpen DEF RestoreFails, sessionVars
<1>14. CASE RestoreBinds(a)
  <2>1. /\ Preparing(a) /\ BeginResume(a) /\ session'[a] = "held"
        /\ workspace'[a] = "none" => registered'[a] /\ releasing'[a] = 0
    BY <1>14 DEF RestoreBinds, Preparing, Open, IInv, RecordTypes
  <2> QED
    BY <2>1, BeginResumeOpen
<1>15. CASE RestoreBindFails(a)
  <2>1. /\ prep[a] = "binding" /\ prep'[a] = "unwinding"
        /\ UNCHANGED <<recordVars, runVars, session, releasing, registered, workspace>>
    BY <1>15 DEF RestoreBindFails, PrepMoves, IInv, RecordTypes
  <2> QED
    BY <2>1 DEF Open, recordVars, runVars
<1>16. CASE RestoreUnwound(a)
  BY <1>16, PrepFailsOpen DEF RestoreUnwound, Open
<1>17. CASE SlotSettles(a)
  BY <1>17 DEF SlotSettles, Open, recordVars, runVars, sessionVars
<1>18. CASE ReleaseSettles(a)
  <2>1. releasing'[a] = 0 /\ UNCHANGED <<session, workspace>> /\ releasing[a] # 0
    BY <1>18 DEF ReleaseSettles, IInv, RecordTypes
  <2>2. CASE prep[a] = "awaitRelease"
    <3>1. Preparing(a) /\ RestoreOrReopen(a)
      BY <1>18, <2>2 DEF ReleaseSettles, Preparing
    <3> QED
      BY <2>1, <3>1, ReopenOpen DEF Open
  <2>3. CASE prep[a] # "awaitRelease"
    <3>1. UNCHANGED <<prep, recordVars, runVars>>
      BY <1>18, <2>3 DEF ReleaseSettles
    <3> QED
      BY <2>1, <2>3, <3>1 DEF Open, recordVars, runVars
  <2> QED
    BY <2>2, <2>3
<1>19. ASSUME NEW k \in Runs, LoopSettles(a, k)
       PROVE  Open(a)'
  <2>1. PICK outcome \in {"completed", "steered", "aborted", "error"} : FinishRun(a, k, outcome)
    BY <1>19 DEF LoopSettles, LoopOutcomes
  <2> QED
    BY <1>19, <2>1, FinishOpen DEF LoopSettles, InFlight, sessionVars
<1> QED
  BY <1>1, <1>2, <1>3, <1>4, <1>5, <1>6, <1>7, <1>8, <1>9, <1>10, <1>11, <1>12,
     <1>13, <1>14, <1>15, <1>16, <1>17, <1>18, <1>19
  DEF AboutOne, ProviderStep, FactoryStep

(* Runs begin only for records that have no session yet. *)
LEMMA BeginRunsOpen ==
    ASSUME IInv, AllOpen, NEW S, S \subseteq Agents, NEW states,
           \A a \in S : status[a] \in {"unborn", "queued"},
           \A a \in Agents :
                states[a] = status[a] \/ (status[a] = "unborn" /\ states[a] = "queued"),
           BeginRuns(S, states)
    PROVE  AllOpen'
<1> SUFFICES ASSUME NEW a \in Agents PROVE Open(a)'
  BY DEF AllOpen
<1>1. Open(a) /\ UNCHANGED <<cur, prep, workspace, sessionVars>>
  BY DEF AllOpen, BeginRuns
<1>2. CASE a \in S
  <2>1. Fresh(a) /\ cur'[a] = 0
    BY <1>1, <1>2 DEF IInv, Sound, Fresh
  <2>2. run'[a][0] \in {"preparing", "loading"}
    BY <1>2, LifecycleAssumption DEF BeginRuns, IInv, RecordTypes, Runs
  <2> QED
    BY <1>1, <2>1, <2>2 DEF Open, Fresh, sessionVars
<1>3. CASE a \notin S
  <2>1. status'[a] = states[a] /\ run'[a] = run[a]
    BY <1>3 DEF BeginRuns
  <2>2. status[a] = "unborn" => prep[a] = "none"
    BY DEF IInv, Sound, Fresh
  <2> QED
    BY <1>1, <2>1, <2>2 DEF Open, sessionVars
<1> QED
  BY <1>2, <1>3

(* The closures a recheck calls begin runs of queued records only. *)
LEMMA GuardedOpen ==
    ASSUME IInv, AllOpen, NEW states, SlotMoves(states), GuardedRuns(states)
    PROVE  AllOpen'
<1> DEFINE S == {a \in Started : states[a] \in ActiveStatus}
<1>1. /\ S \subseteq Agents /\ BeginRuns(S, states)
      /\ \A a \in S : status[a] \in {"unborn", "queued"}
  BY DEF Started, GuardedRuns, SlotMoves, IInv, Sound, SlotSound, ActiveStatus
<1>2. \A a \in Agents :
        states[a] = status[a] \/ (status[a] = "unborn" /\ states[a] = "queued")
  BY DEF SlotMoves
<1> QED
  BY <1>1, <1>2, BeginRunsOpen

(* A stop takes no session away and starts nothing. *)
LEMMA StopOpen ==
    ASSUME AllOpen, NEW S, Stop(S)
    PROVE  AllOpen'
<1> SUFFICES ASSUME NEW a \in Agents PROVE Open(a)'
  BY DEF AllOpen
<1>1. status'[a] \in {status[a], "stopped"} /\ UNCHANGED <<cur, run, prep, workspace, sessionVars>>
  BY DEF Stop
<1> QED
  BY <1>1 DEF AllOpen, Open, sessionVars

(* Every step keeps it. *)
LEMMA StepOpen ==
    ASSUME IInv, Limiter!TypeOK, Limiter!QueueIsPending, AllOpen, [Next]_vars
    PROVE  AllOpen'
<1>1. ASSUME NEW a \in Agents, AboutOne(a) PROVE AllOpen'
  <2> SUFFICES ASSUME NEW b \in Agents PROVE Open(b)'
    BY DEF AllOpen
  <2>1. CASE b = a
    BY <1>1, <2>1, SubjectOpen DEF AllOpen
  <2>2. CASE b # a
    BY <1>1, <2>2, SparesOthers, SparedOpen DEF AllOpen
  <2> QED
    BY <2>1, <2>2
<1>2. ASSUME NEW a \in Agents, SpawnQueued(a) PROVE AllOpen'
  BY <1>2, LimiterMoves, GuardedOpen DEF SpawnQueued
<1>3. ASSUME NEW a \in Agents, SpawnDirect(a) PROVE AllOpen'
  BY <1>3, BeginRunsOpen DEF SpawnDirect
<1>4. ASSUME NEW a \in Agents, Stops(a) PROVE AllOpen'
  BY <1>4, StopOpen DEF Stops, Abort, CallerSignal
<1>5. ASSUME NEW a \in Agents, SlotFreed(a) PROVE AllOpen'
  BY <1>5, LimiterMoves, GuardedOpen DEF SlotFreed
<1>6. ASSUME NEW n \in 1 .. MaxLimit, SetLimit(n) PROVE AllOpen'
  BY <1>6, LimiterMoves, GuardedOpen DEF SetLimit
<1>7. CASE AbortAll
  BY <1>7, StopOpen DEF AbortAll
<1>8. CASE UNCHANGED vars
  BY <1>8 DEF vars, AllOpen, Open, recordVars, runVars, sessionVars
<1> QED
  BY <1>1, <1>2, <1>3, <1>4, <1>5, <1>6, <1>7, <1>8 DEF Next, Spawns, SlotStep, AboutOne

(* No record has a session when the manager is built. *)
LEMMA InitOpen == Init => AllOpen
<1>1. 0 \in Runs
  BY LifecycleAssumption DEF Runs
<1> QED
  BY <1>1 DEF Init, AllOpen, Open

(* The turn loop of a running record has its session, and where there is no *)
(* workspace to restore that session's id is registered: neither the sweep *)
(* nor the disposed event of an earlier session can take them from it      *)
(* (releaseSession() and prepareResume() of subagent.ts).                  *)
THEOREM RunningSessionsStayOpen == Spec => []RunningSessionIsOpen
<1>1. IInv /\ Limiter!TypeOK /\ Limiter!QueueIsPending /\ AllOpen /\ [Next]_vars => AllOpen'
  BY StepOpen
<1>2. AllOpen => RunningSessionIsOpen
  BY DEF AllOpen, Open, RunningSessionIsOpen
<1> QED
  BY <1>1, <1>2, InitOpen, AlwaysSound, LimiterAlwaysSound, PTL DEF Spec
=============================================================================
