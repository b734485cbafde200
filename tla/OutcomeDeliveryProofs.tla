------------------------ MODULE OutcomeDeliveryProofs ------------------------
(***************************************************************************)
(* Proofs about OutcomeDelivery, for any records and bounds.  Type         *)
(* correctness stands alone; what is announced (DeliveryInv), who holds a  *)
(* claim (ClaimHasCarrier) and where the updates are (LedgerInv) are three *)
(* inductive invariants on top of it.                                      *)
(***************************************************************************)
EXTENDS OutcomeDelivery, FiniteSetTheorems, TLAPS

-----------------------------------------------------------------------------
(* The inductive invariants.                                               *)

(* Nothing is known of a run before it begins. *)
RunsInOrder(a) ==
    /\ unsettled[a] \subseteq 0 .. cur[a]
    /\ outcome[a] <= cur[a]
    /\ collected[a] \subseteq 0 .. cur[a]
    /\ \A k \in Runs : k > cur[a] => announced[a][k] = 0

(* A record that was not spawned has told nothing; a queued one has only   *)
(* its initial run.                                                        *)
Births(a) ==
    /\ status[a] = "unborn" => outcome[a] = NoRun /\ collected[a] = {} /\ announced[a][0] = 0
    /\ status[a] = "queued" => 0 \in unsettled[a]

(* Nothing was told of run k of the record, neither by an announcement nor *)
(* by a call.                                                              *)
Untold(a, k) == announced[a][k] = 0 /\ k \notin collected[a] /\ outcome[a] # k

(* A run that has not settled has told nothing, unless it never started.   *)
UnsettledIsUntold(a) ==
    status[a] # "neverStarted" => \A k \in unsettled[a] : Untold(a, k)

Withheld(a) == \E i \in DOMAIN pending : pending[i] = Completion(a)

(* What is withheld has not been announced. *)
WithheldIsUntold(a) ==
    Withheld(a) /\ outcome[a] \in Runs => announced[a][outcome[a]] = 0

(* An outcome the parent pulled is marked on the record that still holds it. *)
CollectedIsMarked(a) == outcome[a] \in collected[a] => consumed[a]

Telling(a) ==
    /\ RunsInOrder(a)
    /\ Births(a)
    /\ UnsettledIsUntold(a)
    /\ WithheldIsUntold(a)
    /\ \A k \in Runs : announced[a][k] <= 1

(* A record has one completion withheld at most. *)
QueuedOnce(a) ==
    \A i, j \in DOMAIN pending :
        pending[i] = Completion(a) /\ pending[j] = Completion(a) => i = j

QueueInv == \A a \in Agents : QueuedOnce(a)

(* Nothing is withheld while the parent is idle. *)
IdleIsFlushed == parent = "idle" => pending = <<>>

DeliveryInv ==
    /\ IdleIsFlushed
    /\ \A a \in Agents : Telling(a)
    /\ \A a \in Agents : CollectedIsMarked(a)

PendingUpdates(a, ks) == {i \in DOMAIN pending : \E k \in ks : pending[i] = Update(a, k)}

OwnUpdates(a) == PendingUpdates(a, {cur[a]})

(* Updates withheld since the last reset are among those sent since; none  *)
(* is withheld for a run to come.                                          *)
LedgerInv ==
    /\ UpdateLedger
    /\ \A a \in Agents :
          /\ Cardinality(OwnUpdates(a)) + live[a] <= sent[a]
          /\ \A k \in Runs : k > cur[a] => PendingUpdates(a, {k}) = {}

-----------------------------------------------------------------------------
(* Type correctness.                                                       *)

LEMMA RunsAreInts == Runs \subseteq Int /\ 0 \in Runs /\ NoRun \notin Runs
  BY DeliveryAssumption DEF Runs, NoRun

LEMMA AppendTyped ==
  ASSUME TypeOK, NEW e \in Announcements
  PROVE  Append(pending, e) \in Seq(Announcements)
  BY DEF TypeOK

LEMMA CompletionTyped ==
  ASSUME NEW a \in Agents
  PROVE  Completion(a) \in Announcements
  BY DEF Announcements

LEMMA NudgedTyped ==
  ASSUME TypeOK, NEW a \in Agents, NEW k, NEW n \in Nat
  PROVE  Nudged(a, k, n) \in [Runs -> Nat]
  BY DEF TypeOK, Nudged

(* The announcer does nothing, withholds, or announces. *)
LEMMA SendCompletionCases ==
  ASSUME NEW a, NEW k, SendCompletion(a, k)
  PROVE  \/ /\ pending' = pending /\ announced' = announced
         \/ /\ ~consumed[a] /\ parent # "idle"
            /\ pending' = Withhold(a) /\ announced' = announced
         \/ /\ ~consumed[a] /\ parent = "idle"
            /\ pending' = pending /\ announced' = [announced EXCEPT ![a] = Nudged(a, k, 1)]
  BY DEF SendCompletion

(* What the announcer changes has the type of what it changed. *)
LEMMA SendCompletionTyped ==
  ASSUME TypeOK, NEW a \in Agents, NEW k, SendCompletion(a, k)
  PROVE  /\ pending' \in Seq(Announcements)
         /\ announced' \in [Agents -> [Runs -> Nat]]
  <1>1. Withhold(a) \in Seq(Announcements)
    BY AppendTyped, CompletionTyped DEF Withhold, TypeOK
  <1>2. \/ pending' = pending \/ pending' = Withhold(a)
    BY SendCompletionCases
  <1>3. \/ announced' = announced \/ announced' = [announced EXCEPT ![a] = Nudged(a, k, 1)]
    BY SendCompletionCases
  <1>4. pending \in Seq(Announcements) /\ announced \in [Agents -> [Runs -> Nat]]
    BY DEF TypeOK
  <1>5. Nudged(a, k, 1) \in [Runs -> Nat]
    BY NudgedTyped
  <1>6. QED
    BY <1>1, <1>2, <1>3, <1>4, <1>5

LEMMA SettleTyped ==
  ASSUME TypeOK, NEW a \in Agents, NEW k \in Runs, NEW r \in Runs, Settle(a, k, r)
  PROVE  /\ unsettled' \in [Agents -> SUBSET Runs]
         /\ calls' \subseteq [kind : ParentCalls \cup {"service"}, agent : Agents, run : Runs]
         /\ consumed' \in [Agents -> BOOLEAN]
         /\ collected' \in [Agents -> SUBSET Runs]
         /\ carried' \in [Agents -> BOOLEAN]
  BY DEF Settle, TypeOK

LEMMA CallTyped ==
  ASSUME TypeOK, NEW a \in Agents, NEW k \in Runs,
         NEW kind \in ParentCalls \cup {"service"}, calls' = calls \cup {Call(kind, a, k)}
  PROVE  calls' \subseteq [kind : ParentCalls \cup {"service"}, agent : Agents, run : Runs]
  BY DEF TypeOK, Call

LEMMA FlushedTyped ==
  ASSUME TypeOK, NEW a \in Agents, NEW ks
  PROVE  FlushedUpdates(a, ks) \in Nat
  <1>1. PICK n \in Nat : DOMAIN pending = 1 .. n
    BY DEF TypeOK
  <1>2. IsFiniteSet({i \in DOMAIN pending : \E k \in ks : pending[i] = Update(a, k)})
    BY <1>1, FS_Interval, FS_Subset
  <1>3. QED
    BY <1>2, FS_CardinalityType DEF FlushedUpdates

LEMMA NudgesTyped ==
  ASSUME TypeOK, NEW a \in Agents
  PROVE  Nudges(a) \in Nat
  <1>1. PICK n \in Nat : DOMAIN pending = 1 .. n
    BY DEF TypeOK
  <1> DEFINE queued == {i \in DOMAIN pending : pending[i] = Completion(a)}
  <1>2. queued \subseteq 1 .. n
    BY <1>1
  <1>3. IsFiniteSet(1 .. n)
    BY FS_Interval
  <1>4. IsFiniteSet(queued)
    BY <1>2, <1>3, FS_Subset
  <1>5. Cardinality(queued) \in Nat
    BY <1>4, FS_CardinalityType
  <1>6. QED
    BY <1>5 DEF Nudges

LEMMA CompletionNamesItsRecord == \A a, b : Completion(a) = Completion(b) => a = b
  <1>1. \A a : Completion(a).agent = a
    BY DEF Completion
  <1>2. QED
    BY <1>1

LEMMA CompletionIsNoUpdate == \A a, b, k : Completion(b) # Update(a, k)
  <1>1. \A a, b, k : Completion(b).kind = "completion" /\ Update(a, k).kind = "update"
    BY DEF Completion, Update
  <1>2. QED
    BY <1>1

(* An interrupt only appends, completions of queued records that have none *)
(* withheld.                                                               *)
LEMMA InterruptWithholds ==
  ASSUME TypeOK, NEW all \in BOOLEAN, Interrupt(all)
  PROVE  /\ pending' \in Seq(Announcements)
         /\ DOMAIN pending \subseteq DOMAIN pending'
         /\ \A i \in DOMAIN pending : pending'[i] = pending[i]
         /\ \A i \in DOMAIN pending' \ DOMAIN pending :
               \E b \in Agents : /\ status[b] = "queued" /\ all
                                /\ pending'[i] = Completion(b) /\ ~Withheld(b)
         /\ \A i, j \in DOMAIN pending' \ DOMAIN pending : pending'[i] = pending'[j] => i = j
  <1>1. PICK told \in SUBSET {b \in Agents : /\ status[b] = "queued" /\ all
                                             /\ ~IsPending(Completion(b))} :
           \E order \in SetToSeqs(told) :
              pending' = pending \o [i \in DOMAIN order |-> Completion(order[i])]
    BY DEF Interrupt
  <1>2. PICK order \in SetToSeqs(told) :
           pending' = pending \o [i \in DOMAIN order |-> Completion(order[i])]
    BY <1>1
  <1>3. Cardinality(told) \in Nat
    BY DeliveryAssumption, FS_Subset, FS_CardinalityType
  <1>4. /\ order \in [1 .. Cardinality(told) -> told]
        /\ \A i, j \in 1 .. Cardinality(told) : i # j => order[i] # order[j]
    BY DEF SetToSeqs
  <1> DEFINE added == [i \in DOMAIN order |-> Completion(order[i])]
  <1>5. /\ DOMAIN added = 1 .. Cardinality(told)
        /\ \A i \in DOMAIN added : added[i] = Completion(order[i]) /\ order[i] \in told
    BY <1>4
  <1>6. added \in Seq(Announcements)
    BY <1>3, <1>5, CompletionTyped
  <1>7. pending \in Seq(Announcements)
    BY DEF TypeOK
  <1>8. pending' = pending \o added
    BY <1>2
  <1> HIDE DEF added
  <1>9. /\ pending' \in Seq(Announcements)
        /\ DOMAIN pending \subseteq DOMAIN pending'
        /\ \A i \in DOMAIN pending : pending'[i] = pending[i]
    BY <1>6, <1>7, <1>8
  <1>10. ASSUME NEW i \in DOMAIN pending' \ DOMAIN pending
         PROVE  \E b \in Agents : /\ status[b] = "queued" /\ all
                                  /\ pending'[i] = Completion(b) /\ ~Withheld(b)
    <2>1. /\ i - Len(pending) \in DOMAIN added
          /\ pending'[i] = added[i - Len(pending)]
      BY <1>6, <1>7, <1>8
    <2>2. \A b : Withheld(b) => IsPending(Completion(b))
      BY DEF Withheld, IsPending, ToSet
    <2>3. QED
      BY <2>1, <2>2, <1>5
  <1>11. ASSUME NEW i \in DOMAIN pending' \ DOMAIN pending,
                NEW j \in DOMAIN pending' \ DOMAIN pending, pending'[i] = pending'[j]
         PROVE  i = j
    <2> DEFINE ii == i - Len(pending)  jj == j - Len(pending)
    <2>1. /\ ii \in DOMAIN added /\ jj \in DOMAIN added
          /\ pending'[i] = added[ii] /\ pending'[j] = added[jj]
          /\ i \in Int /\ j \in Int /\ Len(pending) \in Int
      BY <1>6, <1>7, <1>8
    <2>2. Completion(order[ii]) = Completion(order[jj])
      BY <1>5, <1>11, <2>1
    <2>3. order[ii] = order[jj]
      BY <2>2, CompletionNamesItsRecord
    <2>4. ii = jj
      BY <1>4, <1>5, <2>1, <2>3
    <2>5. QED
      BY <2>1, <2>4
  <1>12. QED
    BY <1>9, <1>10, <1>11

THEOREM TypeCorrect == Spec => []TypeOK
  <1> USE RunsAreInts
  <1>1. Init => TypeOK
    <2>1. Init => consumed \in [Agents -> BOOLEAN] /\ claimed \in [Agents -> BOOLEAN]
                  /\ carried \in [Agents -> BOOLEAN] /\ disposed \in BOOLEAN
      BY DEF Init
    <2>2. QED
      BY <2>1 DEF Init, TypeOK, Statuses, NoRun
  <1>2. TypeOK /\ [Next]_vars => TypeOK'
    <2> SUFFICES ASSUME TypeOK, [Next]_vars PROVE TypeOK'
      OBVIOUS
    <2>1. CASE ParentStarts
      BY <2>1 DEF ParentStarts, TypeOK, recordVars, updateVars, historyVars
    <2>2. CASE ParentSettles
      <3>1. live' \in [Agents -> Nat] /\ stale' \in [Agents -> Nat] /\ owed' \in [Agents -> Nat]
        BY <2>2, FlushedTyped DEF ParentSettles, Flush, TypeOK, StillOwed
      <3>2. announced' \in [Agents -> [Runs -> Nat]]
        <4>1. \A a \in Agents : Nudged(a, outcome[a], Nudges(a)) \in [Runs -> Nat]
          BY NudgedTyped, NudgesTyped
        <4>2. QED
          BY <2>2, <4>1 DEF ParentSettles, Flush, TypeOK
      <3>3. pending' \in Seq(Announcements)
        BY <2>2 DEF ParentSettles, Flush
      <3>4. QED
        BY <2>2, <3>1, <3>2, <3>3 DEF ParentSettles, TypeOK, recordVars
    <2>3. CASE Shutdown
      <3>1. status' \in [Agents -> Statuses] /\ outcome' \in [Agents -> Runs \cup {NoRun}]
        BY <2>3 DEF Shutdown, TypeOK, Statuses
      <3>2. pending' \in Seq(Announcements) /\ disposed' \in BOOLEAN
        BY <2>3 DEF Shutdown
      <3>3. QED
        BY <2>3, <3>1, <3>2 DEF Shutdown, TypeOK, updateVars, historyVars
    <2>4. ASSUME NEW all \in BOOLEAN, Interrupt(all) PROVE TypeOK'
      <3>1. status' \in [Agents -> Statuses] /\ outcome' \in [Agents -> Runs \cup {NoRun}]
        BY <2>4 DEF Interrupt, TypeOK, Statuses
      <3>2. pending' \in Seq(Announcements)
        BY <2>4, InterruptWithholds
      <3>3. calls' \subseteq [kind : ParentCalls \cup {"service"}, agent : Agents, run : Runs]
        BY <2>4 DEF Interrupt, TypeOK
      <3>4. claimed' \in [Agents -> BOOLEAN] /\ consumed' \in [Agents -> BOOLEAN]
            /\ carried' \in [Agents -> BOOLEAN]
        BY <2>4 DEF Interrupt, TypeOK, Released
      <3>5. collected' \in [Agents -> SUBSET Runs]
        BY <2>4 DEF Interrupt, TypeOK, Held
      <3>6. parent' = "interrupted"
        BY <2>4 DEF Interrupt
      <3>7. UNCHANGED <<cur, unsettled, updateVars, announced, disposed>>
        BY <2>4 DEF Interrupt
      <3>8. QED
        BY <3>1, <3>2, <3>3, <3>4, <3>5, <3>6, <3>7 DEF TypeOK, updateVars
    <2>5. ASSUME NEW a \in Agents, NEW first \in ActiveStatus, Spawn(a, first) PROVE TypeOK'
      BY <2>5 DEF Spawn, Begin, TypeOK, Statuses, ActiveStatus, updateVars, historyVars
    <2>6. ASSUME NEW a \in Agents, SpawnAndWait(a) PROVE TypeOK'
      <3>1. calls' \subseteq [kind : ParentCalls \cup {"service"}, agent : Agents, run : Runs]
        BY <2>6, CallTyped DEF SpawnAndWait, ParentCalls
      <3>2. claimed' \in [Agents -> BOOLEAN]
        BY <2>6 DEF SpawnAndWait, TypeOK
      <3>3. QED
        BY <2>6, <3>1, <3>2
        DEF SpawnAndWait, Begin, TypeOK, Statuses, updateVars, historyVars
    <2>7. ASSUME NEW a \in Agents, Admit(a) PROVE TypeOK'
      BY <2>7 DEF Admit, TypeOK, Statuses, updateVars, historyVars
    <2>8. ASSUME NEW a \in Agents, SendUpdate(a) PROVE TypeOK'
      <3>1. Append(pending, Update(a, cur[a])) \in Seq(Announcements)
        BY AppendTyped DEF Announcements, TypeOK
      <3>2. pending' \in Seq(Announcements)
        BY <2>8, <3>1 DEF SendUpdate, TypeOK
      <3>3. sent' \in [Agents -> Nat] /\ owed' \in [Agents -> Nat] /\ live' \in [Agents -> Nat]
        BY <2>8 DEF SendUpdate, TypeOK
      <3>4. QED
        BY <2>8, <3>2, <3>3 DEF SendUpdate, TypeOK, recordVars, historyVars
    <2>9. ASSUME NEW a \in Agents, NEW k \in Runs, RunEnds(a, k) PROVE TypeOK'
      <3>1. pending' \in Seq(Announcements) /\ announced' \in [Agents -> [Runs -> Nat]]
        BY <2>9, SendCompletionTyped DEF RunEnds
      <3>2. status' \in [Agents -> Statuses] /\ outcome' \in [Agents -> Runs \cup {NoRun}]
        BY <2>9 DEF RunEnds, TypeOK, Statuses
      <3>3. QED
        BY <2>9, <3>1, <3>2, SettleTyped DEF RunEnds, TypeOK, updateVars
    <2>10. ASSUME NEW a \in Agents, ThunkReturns(a) PROVE TypeOK'
      BY <2>10, SettleTyped DEF ThunkReturns, TypeOK, updateVars
    <2>11. ASSUME NEW a \in Agents, Stop(a) PROVE TypeOK'
      <3>1. pending' \in Seq(Announcements) /\ announced' \in [Agents -> [Runs -> Nat]]
        <4>1. \/ pending' = pending /\ announced' = announced
              \/ SendCompletion(a, 0)
          BY <2>11 DEF Stop
        <4>2. QED
          BY <4>1, SendCompletionTyped DEF TypeOK
      <3>2. status' \in [Agents -> Statuses] /\ outcome' \in [Agents -> Runs \cup {NoRun}]
        <4>1. \/ status' = [status EXCEPT ![a] = "stopped"]
              \/ status' = [status EXCEPT ![a] = "neverStarted"]
          BY <2>11 DEF Stop
        <4>2. outcome' = outcome \/ outcome' = [outcome EXCEPT ![a] = 0]
          BY <2>11 DEF Stop
        <4>3. QED
          <5>1. status \in [Agents -> Statuses] /\ outcome \in [Agents -> Runs \cup {NoRun}]
            BY DEF TypeOK
          <5>2. QED
            BY <4>1, <4>2, <5>1 DEF Statuses
      <3>3. QED
        BY <2>11, <3>1, <3>2 DEF Stop, TypeOK, updateVars
    <2>12. ASSUME NEW a \in Agents, NEW claim \in BOOLEAN, Resume(a, claim),
                  calls' \subseteq [kind : ParentCalls \cup {"service"}, agent : Agents, run : Runs]
           PROVE TypeOK'
      <3>1. cur[a] + 1 \in Runs
        BY <2>12, DeliveryAssumption DEF Resume, TypeOK, Runs
      <3>2. claimed' \in [Agents -> BOOLEAN] /\ consumed' \in [Agents -> BOOLEAN]
        BY <2>12 DEF Resume, TypeOK
      <3>3. status' \in [Agents -> Statuses] /\ cur' \in [Agents -> Runs]
            /\ unsettled' \in [Agents -> SUBSET Runs] /\ outcome' \in [Agents -> Runs \cup {NoRun}]
        BY <2>12, <3>1 DEF Resume, TypeOK, Statuses
      <3>4. sent' \in [Agents -> Nat] /\ owed' \in [Agents -> Nat] /\ live' \in [Agents -> Nat]
            /\ stale' \in [Agents -> Nat]
        BY <2>12 DEF Resume, TypeOK
      <3>5. QED
        BY <2>12, <3>2, <3>3, <3>4 DEF Resume, TypeOK, historyVars
    <2>13. ASSUME NEW a \in Agents, ResumeTool(a) PROVE TypeOK'
      <3>1. cur[a] + 1 \in Runs
        BY <2>13, DeliveryAssumption DEF ResumeTool, Resume, TypeOK, Runs
      <3>2. QED
        BY <2>13, <2>12, <3>1, CallTyped DEF ResumeTool, ParentCalls
    <2>14. ASSUME NEW a \in Agents, ServiceResume(a) PROVE TypeOK'
      <3>1. CASE Resume(a, TRUE) /\ calls' = calls \cup {Call("service", a, cur[a] + 1)}
        <4>1. cur[a] + 1 \in Runs
          BY <3>1, DeliveryAssumption DEF Resume, TypeOK, Runs
        <4>2. QED
          BY <3>1, <2>12, <4>1, CallTyped
      <3>2. CASE Resume(a, FALSE) /\ UNCHANGED calls
        BY <3>2, <2>12 DEF TypeOK
      <3>3. QED
        BY <2>14, <3>1, <3>2 DEF ServiceResume
    <2>15. ASSUME NEW a \in Agents, NEW wait \in BOOLEAN, GetResult(a, wait) PROVE TypeOK'
      <3>1. claimed' \in [Agents -> BOOLEAN] /\ consumed' \in [Agents -> BOOLEAN]
            /\ carried' \in [Agents -> BOOLEAN]
        BY <2>15 DEF GetResult, TypeOK
      <3>2. collected' \in [Agents -> SUBSET Runs]
        BY <2>15 DEF GetResult, TypeOK, Held
      <3>3. QED
        BY <2>15, <3>1, <3>2 DEF GetResult, TypeOK, updateVars
    <2>16. ASSUME NEW a \in Agents, GetResultWaits(a) PROVE TypeOK'
      <3>1. calls' \subseteq [kind : ParentCalls \cup {"service"}, agent : Agents, run : Runs]
        BY <2>16, CallTyped DEF GetResultWaits, ParentCalls, TypeOK
      <3>2. claimed' \in [Agents -> BOOLEAN]
        BY <2>16 DEF GetResultWaits, TypeOK
      <3>3. QED
        BY <2>16, <3>1, <3>2 DEF GetResultWaits, TypeOK, updateVars, historyVars
    <2>17. CASE UNCHANGED vars
      BY <2>17 DEF vars, recordVars, updateVars, historyVars, TypeOK
    <2>18. QED
      BY <2>1, <2>2, <2>3, <2>4, <2>5, <2>6, <2>7, <2>8, <2>9, <2>10, <2>11, <2>13,
         <2>14, <2>15, <2>16, <2>17 DEF Next
  <1>3. QED
    BY <1>1, <1>2, PTL DEF Spec

-----------------------------------------------------------------------------
(* The queue.                                                              *)

(* Another announcement, or the first completion of a record, keeps every  *)
(* record queued once at most.                                             *)
LEMMA AppendQueuesOnce ==
  ASSUME TypeOK, QueueInv, NEW e \in Announcements, pending' = Append(pending, e),
         \A b \in Agents : e = Completion(b) => ~Withheld(b)
  PROVE  QueueInv'
  <1>1. /\ DOMAIN pending' = DOMAIN pending \cup {Len(pending) + 1}
        /\ \A i \in DOMAIN pending : pending'[i] = pending[i]
        /\ pending'[Len(pending) + 1] = e
    BY DEF TypeOK
  <1>2. QED
    BY <1>1 DEF QueueInv, QueuedOnce, Withheld

LEMMA AnnouncerQueuesOnce ==
  ASSUME TypeOK, QueueInv, NEW a \in Agents, NEW k, SendCompletion(a, k)
  PROVE  QueueInv'
  <1>1. CASE pending' = pending
    BY <1>1 DEF QueueInv, QueuedOnce
  <1>2. CASE pending' = Append(pending, Completion(a)) /\ ~IsPending(Completion(a))
    <2>1. ~Withheld(a)
      BY <1>2 DEF Withheld, IsPending, ToSet
    <2>2. QED
      BY <1>2, <2>1, AppendQueuesOnce, CompletionTyped, CompletionNamesItsRecord
  <1>3. QED
    BY <1>1, <1>2, SendCompletionCases DEF Withhold

LEMMA QueueStep == TypeOK /\ QueueInv /\ [Next]_vars => QueueInv'
  <1> SUFFICES ASSUME TypeOK, QueueInv, [Next]_vars PROVE QueueInv'
    OBVIOUS
  <1>1. CASE pending' = pending
    BY <1>1 DEF QueueInv, QueuedOnce
  <1>2. CASE pending' = <<>>
    BY <1>2 DEF QueueInv, QueuedOnce
  <1>3. ASSUME NEW all \in BOOLEAN, Interrupt(all) PROVE QueueInv'
    <2>1. ASSUME NEW a \in Agents, NEW i \in DOMAIN pending', NEW j \in DOMAIN pending',
                 pending'[i] = Completion(a), pending'[j] = Completion(a)
          PROVE  i = j
      <3>1. CASE i \in DOMAIN pending /\ j \in DOMAIN pending
        BY <1>3, <2>1, <3>1, InterruptWithholds DEF QueueInv, QueuedOnce
      <3>2. CASE i \notin DOMAIN pending /\ j \notin DOMAIN pending
        BY <1>3, <2>1, <3>2, InterruptWithholds
      <3>3. ASSUME NEW x \in DOMAIN pending, NEW y \in DOMAIN pending' \ DOMAIN pending,
                   pending'[x] = Completion(a), pending'[y] = Completion(a)
            PROVE  FALSE
        <4>1. Withheld(a)
          BY <1>3, <3>3, InterruptWithholds DEF Withheld
        <4>2. PICK b \in Agents : pending'[y] = Completion(b) /\ ~Withheld(b)
          BY <1>3, InterruptWithholds
        <4>3. QED
          BY <3>3, <4>1, <4>2, CompletionNamesItsRecord
      <3>4. QED
        BY <2>1, <3>1, <3>2, <3>3
    <2>2. QED
      BY <2>1 DEF QueueInv, QueuedOnce
  <1>4. ASSUME NEW a \in Agents, SendUpdate(a) PROVE QueueInv'
    <2>1. Update(a, cur[a]) \in Announcements
      BY DEF Announcements, TypeOK
    <2>2. CASE pending' = Append(pending, Update(a, cur[a]))
      BY <2>1, <2>2, AppendQueuesOnce, CompletionIsNoUpdate
    <2>3. QED
      BY <1>1, <1>4, <2>2 DEF SendUpdate
  <1>5. ASSUME NEW a \in Agents, NEW k \in Runs, RunEnds(a, k) PROVE QueueInv'
    BY <1>5, AnnouncerQueuesOnce DEF RunEnds
  <1>6. ASSUME NEW a \in Agents, Stop(a) PROVE QueueInv'
    BY <1>1, <1>6, AnnouncerQueuesOnce DEF Stop
  <1>7. QED
    BY <1>1, <1>2, <1>3, <1>4, <1>5, <1>6
    DEF Next, vars, ParentStarts, ParentSettles, Flush, Shutdown, Spawn, SpawnAndWait, Begin,
        Admit, ThunkReturns, ResumeTool, ServiceResume, Resume, GetResult, GetResultWaits

LEMMA QueuedAtMostOnce == Spec => [](TypeOK /\ QueueInv)
  <1>1. Init => QueueInv
    BY DEF Init, QueueInv, QueuedOnce
  <1>2. QED
    BY <1>1, QueueStep, TypeCorrect, PTL DEF Spec

(* The flush emits one nudge for each record it still wants to announce. *)
LEMMA FlushNudges ==
  ASSUME TypeOK, QueueInv, ParentSettles
  PROVE  announced' = [a \in Agents |->
            IF StillWanted(a) THEN Nudged(a, outcome[a], 1) ELSE announced[a]]
  <1>1. ASSUME NEW a \in Agents, StillWanted(a)
        PROVE  Nudges(a) = 1
    <2>1. PICK i \in DOMAIN pending : pending[i] = Completion(a)
      BY <1>1 DEF StillWanted, IsPending, ToSet
    <2>2. {j \in DOMAIN pending : pending[j] = Completion(a)} = {i}
      BY <2>1 DEF QueueInv, QueuedOnce
    <2>3. QED
      BY <2>2, FS_Singleton DEF Nudges
  <1>2. QED
    BY <1>1 DEF ParentSettles, Flush

-----------------------------------------------------------------------------
(* Where the updates are.                                                  *)

(* The announcer's queue grows by completions only. *)
GrowsByCompletions ==
    /\ DOMAIN pending \subseteq DOMAIN pending'
    /\ \A i \in DOMAIN pending : pending'[i] = pending[i]
    /\ \A i \in DOMAIN pending' \ DOMAIN pending :
          \E b \in Agents : pending'[i] = Completion(b)

LEMMA UpdateNamesItsRun == \A a, b, k, l : Update(a, k) = Update(b, l) => a = b /\ k = l
  <1>1. \A a, k : Update(a, k).agent = a /\ Update(a, k).run = k
    BY DEF Update
  <1>2. QED
    BY <1>1

LEMMA CompletionsAreNoUpdates ==
  ASSUME GrowsByCompletions, cur' = cur, NEW a
  PROVE  /\ OwnUpdates(a)' = OwnUpdates(a)
         /\ \A k : PendingUpdates(a, {k})' = PendingUpdates(a, {k})
  BY CompletionIsNoUpdate DEF GrowsByCompletions, PendingUpdates, OwnUpdates

LEMMA WithholdGrows ==
  ASSUME TypeOK, NEW a \in Agents, pending' = Withhold(a)
  PROVE  GrowsByCompletions
  <1>1. CASE pending' = pending
    BY <1>1 DEF GrowsByCompletions
  <1>2. CASE pending' = Append(pending, Completion(a))
    <2>1. pending \in Seq(Announcements)
      BY DEF TypeOK
    <2>2. QED
      BY <1>2, <2>1 DEF GrowsByCompletions
  <1>3. QED
    BY <1>1, <1>2 DEF Withhold

LEMMA SendCompletionGrows ==
  ASSUME TypeOK, NEW a \in Agents, NEW k, SendCompletion(a, k)
  PROVE  GrowsByCompletions
  <1>1. pending' = pending => GrowsByCompletions
    BY DEF GrowsByCompletions
  <1>2. QED
    BY <1>1, WithholdGrows, SendCompletionCases

LEMMA PendingUpdatesFinite ==
  ASSUME TypeOK, NEW a, NEW ks
  PROVE  /\ IsFiniteSet(PendingUpdates(a, ks))
         /\ Cardinality(PendingUpdates(a, ks)) \in Nat
  <1>1. PICK n \in Nat : DOMAIN pending = 1 .. n
    BY DEF TypeOK
  <1>2. IsFiniteSet(PendingUpdates(a, ks))
    BY <1>1, FS_Interval, FS_Subset DEF PendingUpdates
  <1>3. QED
    BY <1>2, FS_CardinalityType

(* The withheld updates of a record are those of its run and the others. *)
LEMMA UpdatesSplit ==
  ASSUME TypeOK, NEW a \in Agents
  PROVE  Cardinality(PendingUpdates(a, Runs)) =
            Cardinality(OwnUpdates(a)) + Cardinality(PendingUpdates(a, Runs \ {cur[a]}))
  <1> DEFINE old == PendingUpdates(a, Runs \ {cur[a]})
  <1>1. PendingUpdates(a, Runs) = OwnUpdates(a) \cup old
    BY DEF PendingUpdates, OwnUpdates, TypeOK
  <1>2. OwnUpdates(a) \cap old = {}
    BY UpdateNamesItsRun DEF PendingUpdates, OwnUpdates
  <1>3. /\ IsFiniteSet(OwnUpdates(a)) /\ IsFiniteSet(old)
        /\ Cardinality(OwnUpdates(a)) \in Nat /\ Cardinality(old) \in Nat
    BY PendingUpdatesFinite DEF OwnUpdates
  <1> HIDE DEF old
  <1>4. Cardinality(OwnUpdates(a) \cup old) =
           Cardinality(OwnUpdates(a)) + Cardinality(old) - Cardinality({})
    BY <1>2, <1>3, FS_Union
  <1>5. Cardinality({}) = 0
    BY FS_EmptySet
  <1>6. QED
    BY <1>1, <1>3, <1>4, <1>5 DEF old

(* A step that leaves the ledger alone and withholds no update keeps LedgerInv. *)
LEMMA LedgerUntouched ==
  ASSUME LedgerInv, GrowsByCompletions, UNCHANGED <<cur, updateVars>>
  PROVE  LedgerInv'
  BY CompletionsAreNoUpdates DEF LedgerInv, UpdateLedger, updateVars

(* The flush moves the withheld updates from the ledger to the parent. *)
LEMMA LedgerFlushed ==
  ASSUME TypeOK, LedgerInv, ParentSettles
  PROVE  LedgerInv'
  <1>1. pending' = <<>> /\ cur' = cur /\ sent' = sent
    BY DEF ParentSettles, Flush, recordVars
  <1>2. ASSUME NEW a \in Agents
        PROVE  /\ owed'[a] + live'[a] <= sent'[a]
               /\ sent'[a] <= owed'[a] + live'[a] + stale'[a]
               /\ live'[a] <= sent'[a]
    <2> DEFINE all == FlushedUpdates(a, Runs)
               own == FlushedUpdates(a, {cur[a]})
               old == FlushedUpdates(a, Runs \ {cur[a]})
    <2>1. /\ owed'[a] = StillOwed(a, all)
          /\ live'[a] = live[a] + own
          /\ stale'[a] = stale[a] + old
      BY DEF ParentSettles, Flush
    <2>2. all \in Nat /\ own \in Nat /\ old \in Nat
      BY FlushedTyped
    <2>3. /\ owed[a] \in Nat /\ live[a] \in Nat /\ stale[a] \in Nat /\ sent[a] \in Nat
      BY DEF TypeOK
    <2>4. /\ all = own + old
          /\ own = 0 \/ own = Cardinality(OwnUpdates(a))
      <3>1. CASE CanAnnounceUpdate(a)
        <4>1. /\ all = Cardinality(PendingUpdates(a, Runs)) /\ own = Cardinality(OwnUpdates(a))
              /\ old = Cardinality(PendingUpdates(a, Runs \ {cur[a]}))
          BY <3>1 DEF FlushedUpdates, PendingUpdates, OwnUpdates
        <4>2. QED
          BY <4>1, UpdatesSplit
      <3>2. CASE ~CanAnnounceUpdate(a)
        BY <3>2 DEF FlushedUpdates
      <3>3. QED
        BY <3>1, <3>2
    <2>5. Cardinality(OwnUpdates(a)) \in Nat
      BY PendingUpdatesFinite DEF OwnUpdates
    <2>6. /\ Cardinality(OwnUpdates(a)) + live[a] <= sent[a]
          /\ owed[a] + live[a] <= sent[a] /\ sent[a] <= owed[a] + live[a] + stale[a]
      BY DEF LedgerInv, UpdateLedger
    <2> HIDE DEF all, own, old
    <2>7. own + live[a] <= sent[a]
      BY <2>2, <2>3, <2>4, <2>5, <2>6
    <2>8. CASE all < owed[a]
      <3>1. owed'[a] = owed[a] - all
        BY <2>1, <2>8 DEF StillOwed
      <3>2. sent'[a] = sent[a] /\ live'[a] = live[a] + own /\ stale'[a] = stale[a] + old
        BY <1>1, <2>1
      <3>3. all = own + old
        BY <2>4
      <3>4. QED
        BY <2>2, <2>3, <2>6, <2>7, <2>8, <3>1, <3>2, <3>3
    <2>9. CASE ~(all < owed[a])
      <3>1. owed'[a] = 0
        BY <2>1, <2>9 DEF StillOwed
      <3>2. owed[a] <= own + old
        BY <2>2, <2>3, <2>4, <2>9
      <3>3. sent'[a] = sent[a] /\ live'[a] = live[a] + own /\ stale'[a] = stale[a] + old
        BY <1>1, <2>1
      <3>4. QED
        BY <2>2, <2>3, <2>6, <2>7, <3>1, <3>2, <3>3
    <2>10. QED
      BY <2>8, <2>9
  <1>3. ASSUME NEW a \in Agents
        PROVE  /\ Cardinality(OwnUpdates(a))' + live'[a] <= sent'[a]
               /\ \A k \in Runs : PendingUpdates(a, {k})' = {}
    <2>1. OwnUpdates(a)' = {} /\ \A k \in Runs : PendingUpdates(a, {k})' = {}
      BY <1>1 DEF PendingUpdates, OwnUpdates
    <2>2. live'[a] \in Nat
      <3>1. live'[a] = live[a] + FlushedUpdates(a, {cur[a]}) /\ live[a] \in Nat
        BY DEF ParentSettles, Flush, TypeOK
      <3>2. QED
        BY <3>1, FlushedTyped
    <2>3. Cardinality({}) = 0
      BY FS_EmptySet
    <2>4. QED
      BY <1>2, <2>1, <2>2, <2>3
  <1>4. QED
    BY <1>2, <1>3 DEF LedgerInv, UpdateLedger

LEMMA LedgerSends ==
  ASSUME TypeOK, LedgerInv, NEW a \in Agents, SendUpdate(a)
  PROVE  LedgerInv'
  <1>1. /\ cur' = cur /\ stale' = stale /\ sent' = [sent EXCEPT ![a] = @ + 1]
    BY DEF SendUpdate, recordVars
  <1>2. /\ pending \in Seq(Announcements) /\ cur \in [Agents -> Runs]
        /\ owed \in [Agents -> Nat] /\ live \in [Agents -> Nat] /\ stale \in [Agents -> Nat]
        /\ sent \in [Agents -> Nat]
    BY DEF TypeOK
  <1>3. \A b \in Agents : Cardinality(OwnUpdates(b)) \in Nat
    BY PendingUpdatesFinite DEF OwnUpdates
  <1>4. CASE pending' = pending /\ live' = live /\ owed' = [owed EXCEPT ![a] = @ + 1]
    <2>1. GrowsByCompletions
      BY <1>4 DEF GrowsByCompletions
    <2>2. ASSUME NEW b \in Agents
          PROVE  /\ owed'[b] + live'[b] <= sent'[b]
                 /\ sent'[b] <= owed'[b] + live'[b] + stale'[b]
                 /\ Cardinality(OwnUpdates(b)) + live'[b] <= sent'[b]
      BY <1>1, <1>2, <1>3, <1>4 DEF LedgerInv, UpdateLedger
    <2>3. \A b \in Agents, k \in Runs : k > cur[b] => PendingUpdates(b, {k}) = {}
      BY DEF LedgerInv
    <2>4. QED
      BY <1>1, <2>1, <2>2, <2>3, CompletionsAreNoUpdates DEF LedgerInv, UpdateLedger
  <1>5. CASE pending' = pending /\ owed' = owed /\ live' = [live EXCEPT ![a] = @ + 1]
    <2>1. GrowsByCompletions
      BY <1>5 DEF GrowsByCompletions
    <2>2. ASSUME NEW b \in Agents
          PROVE  /\ owed'[b] + live'[b] <= sent'[b]
                 /\ sent'[b] <= owed'[b] + live'[b] + stale'[b]
                 /\ Cardinality(OwnUpdates(b)) + live'[b] <= sent'[b]
      BY <1>1, <1>2, <1>3, <1>5 DEF LedgerInv, UpdateLedger
    <2>3. \A b \in Agents, k \in Runs : k > cur[b] => PendingUpdates(b, {k}) = {}
      BY DEF LedgerInv
    <2>4. QED
      BY <1>1, <2>1, <2>2, <2>3, CompletionsAreNoUpdates DEF LedgerInv, UpdateLedger
  <1>6. CASE /\ pending' = Append(pending, Update(a, cur[a])) /\ live' = live
             /\ owed' = [owed EXCEPT ![a] = @ + 1]
    <2>1. /\ DOMAIN pending' = DOMAIN pending \cup {Len(pending) + 1}
          /\ Len(pending) + 1 \notin DOMAIN pending
          /\ \A i \in DOMAIN pending : pending'[i] = pending[i]
          /\ pending'[Len(pending) + 1] = Update(a, cur[a])
      BY <1>2, <1>6
    <2>2. OwnUpdates(a)' = OwnUpdates(a) \cup {Len(pending) + 1}
      BY <1>1, <2>1 DEF PendingUpdates, OwnUpdates
    <2>3. Cardinality(OwnUpdates(a))' = Cardinality(OwnUpdates(a)) + 1
      <3>1. IsFiniteSet(OwnUpdates(a))
        BY PendingUpdatesFinite DEF OwnUpdates
      <3>2. Len(pending) + 1 \notin OwnUpdates(a)
        BY <2>1 DEF OwnUpdates, PendingUpdates
      <3>3. QED
        BY <2>2, <3>1, <3>2, FS_AddElement
    <2>4. ASSUME NEW b \in Agents, b # a
          PROVE  OwnUpdates(b)' = OwnUpdates(b)
      BY <1>1, <2>1, <2>4, UpdateNamesItsRun DEF PendingUpdates, OwnUpdates
    <2>5. ASSUME NEW b \in Agents, NEW k \in Runs, k > cur[b]
          PROVE  PendingUpdates(b, {k})' = PendingUpdates(b, {k})
      <3>1. Update(a, cur[a]) # Update(b, k)
        BY <2>5, <1>2, RunsAreInts, UpdateNamesItsRun
      <3>2. QED
        BY <2>1, <3>1 DEF PendingUpdates
    <2>6. ASSUME NEW b \in Agents
          PROVE  /\ owed'[b] + live'[b] <= sent'[b]
                 /\ sent'[b] <= owed'[b] + live'[b] + stale'[b]
                 /\ Cardinality(OwnUpdates(b))' + live'[b] <= sent'[b]
      <3>1. /\ owed[b] + live[b] <= sent[b] /\ sent[b] <= owed[b] + live[b] + stale[b]
            /\ Cardinality(OwnUpdates(b)) + live[b] <= sent[b]
        BY DEF LedgerInv, UpdateLedger
      <3>2. CASE b = a
        BY <1>1, <1>2, <1>3, <1>6, <2>3, <3>1, <3>2
      <3>3. CASE b # a
        BY <1>1, <1>2, <1>3, <1>6, <2>4, <3>1, <3>3
      <3>4. QED
        BY <3>2, <3>3
    <2>7. QED
      BY <1>1, <2>5, <2>6 DEF LedgerInv, UpdateLedger
  <1>7. QED
    BY <1>4, <1>5, <1>6 DEF SendUpdate

LEMMA LedgerResets ==
  ASSUME TypeOK, LedgerInv, NEW a \in Agents, NEW claim, Resume(a, claim)
  PROVE  LedgerInv'
  <1>1. /\ cur' = [cur EXCEPT ![a] = @ + 1] /\ pending' = pending /\ cur[a] < MaxResumes
        /\ sent' = [sent EXCEPT ![a] = 0] /\ owed' = [owed EXCEPT ![a] = 0]
        /\ live' = [live EXCEPT ![a] = 0] /\ stale' = [stale EXCEPT ![a] = 0]
    BY DEF Resume
  <1>2. /\ cur \in [Agents -> Runs]
        /\ owed \in [Agents -> Nat] /\ live \in [Agents -> Nat] /\ stale \in [Agents -> Nat]
        /\ sent \in [Agents -> Nat]
    BY DEF TypeOK
  <1>3. cur[a] + 1 \in Runs /\ cur[a] + 1 > cur[a]
    BY <1>1, <1>2, DeliveryAssumption DEF Runs
  <1>4. OwnUpdates(a)' = {}
    <2>1. PendingUpdates(a, {cur[a] + 1}) = {}
      BY <1>3 DEF LedgerInv
    <2>2. QED
      BY <1>1, <1>2, <2>1 DEF PendingUpdates, OwnUpdates
  <1>5. ASSUME NEW b \in Agents, b # a
        PROVE  OwnUpdates(b)' = OwnUpdates(b)
    BY <1>1, <1>5 DEF PendingUpdates, OwnUpdates
  <1>6. \A b \in Agents : \A k \in Runs : PendingUpdates(b, {k})' = PendingUpdates(b, {k})
    BY <1>1 DEF PendingUpdates
  <1>7. ASSUME NEW b \in Agents
        PROVE  /\ owed'[b] + live'[b] <= sent'[b]
               /\ sent'[b] <= owed'[b] + live'[b] + stale'[b]
               /\ Cardinality(OwnUpdates(b))' + live'[b] <= sent'[b]
    <2>1. CASE b = a
      <3>1. Cardinality({}) = 0
        BY FS_EmptySet
      <3>2. QED
        BY <2>1, <1>1, <1>2, <1>4, <3>1
    <2>2. CASE b # a
      BY <2>2, <1>1, <1>2, <1>5 DEF LedgerInv, UpdateLedger
    <2>3. QED
      BY <2>1, <2>2
  <1>8. ASSUME NEW b \in Agents, NEW k \in Runs, k > cur'[b]
        PROVE  PendingUpdates(b, {k})' = {}
    <2>1. k > cur[b]
      <3>1. cur[b] \in Int /\ k \in Int /\ (cur'[b] = cur[b] \/ cur'[b] = cur[b] + 1)
        BY <1>1, <1>2, RunsAreInts
      <3>2. QED
        BY <1>8, <3>1
    <2>2. QED
      BY <2>1, <1>6 DEF LedgerInv
  <1>9. QED
    BY <1>7, <1>8 DEF LedgerInv, UpdateLedger

LEMMA LedgerStep == TypeOK /\ LedgerInv /\ [Next]_vars => LedgerInv'
  <1> SUFFICES ASSUME TypeOK, LedgerInv, [Next]_vars PROVE LedgerInv'
    OBVIOUS
  <1>1. pending' = pending => GrowsByCompletions
    BY DEF GrowsByCompletions
  <1>2. CASE ParentStarts
    BY <1>1, <1>2, LedgerUntouched DEF ParentStarts, recordVars
  <1>3. CASE ParentSettles
    BY <1>3, LedgerFlushed
  <1>4. CASE Shutdown
    <2>1. pending' = <<>> /\ UNCHANGED <<cur, updateVars>>
      BY <1>4 DEF Shutdown
    <2>2. \A a \in Agents : OwnUpdates(a)' = {}
      BY <2>1 DEF PendingUpdates, OwnUpdates
    <2>3. \A a \in Agents : \A k \in Runs : PendingUpdates(a, {k})' = {}
      BY <2>1 DEF PendingUpdates
    <2>4. \A a \in Agents : live[a] \in Nat /\ sent[a] \in Nat /\ owed[a] \in Nat
      BY DEF TypeOK
    <2>5. Cardinality({}) = 0
      BY FS_EmptySet
    <2>6. UNCHANGED <<sent, owed, live, stale>>
      BY <2>1 DEF updateVars
    <2>7. ASSUME NEW a \in Agents
          PROVE  Cardinality(OwnUpdates(a))' + live'[a] <= sent'[a]
      <3>1. owed[a] + live[a] <= sent[a]
        BY DEF LedgerInv, UpdateLedger
      <3>2. Cardinality(OwnUpdates(a))' = 0
        BY <2>2, <2>5
      <3>3. QED
        BY <2>4, <2>6, <3>1, <3>2
    <2>8. UpdateLedger'
      BY <2>6 DEF LedgerInv, UpdateLedger
    <2>9. QED
      BY <2>3, <2>7, <2>8 DEF LedgerInv
  <1>5. ASSUME NEW all \in BOOLEAN, Interrupt(all) PROVE LedgerInv'
    <2>1. GrowsByCompletions
      BY <1>5, InterruptWithholds DEF GrowsByCompletions
    <2>2. UNCHANGED <<cur, updateVars>>
      BY <1>5 DEF Interrupt
    <2>3. QED
      BY <2>1, <2>2, LedgerUntouched
  <1>6. ASSUME NEW a \in Agents, NEW first, Begin(a, first) PROVE LedgerInv'
    BY <1>1, <1>6, LedgerUntouched DEF Begin
  <1>7. ASSUME NEW a \in Agents, Admit(a) PROVE LedgerInv'
    BY <1>1, <1>7, LedgerUntouched DEF Admit
  <1>8. ASSUME NEW a \in Agents, NEW k \in Runs, RunEnds(a, k) PROVE LedgerInv'
    BY <1>8, SendCompletionGrows, LedgerUntouched DEF RunEnds
  <1>9. ASSUME NEW a \in Agents, ThunkReturns(a) PROVE LedgerInv'
    BY <1>1, <1>9, LedgerUntouched DEF ThunkReturns
  <1>10. ASSUME NEW a \in Agents, Stop(a) PROVE LedgerInv'
    BY <1>1, <1>10, SendCompletionGrows, LedgerUntouched DEF Stop
  <1>11. ASSUME NEW a \in Agents, NEW wait \in BOOLEAN, GetResult(a, wait) PROVE LedgerInv'
    BY <1>1, <1>11, LedgerUntouched DEF GetResult
  <1>12. ASSUME NEW a \in Agents, GetResultWaits(a) PROVE LedgerInv'
    BY <1>1, <1>12, LedgerUntouched DEF GetResultWaits
  <1>13. CASE UNCHANGED vars
    BY <1>1, <1>13, LedgerUntouched DEF vars, recordVars
  <1>14. QED
    BY <1>2, <1>3, <1>4, <1>5, <1>6, <1>7, <1>8, <1>9, <1>10, <1>11, <1>12, <1>13,
       LedgerSends, LedgerResets
    DEF Next, Spawn, SpawnAndWait, ResumeTool, ServiceResume

(* Every update a record sent since its last reset was announced or is     *)
(* still owed to the carriers of its outcome, and none is both.            *)
THEOREM UpdatesAccounted == Spec => []UpdateLedger
  <1>1. Init => LedgerInv
    <2> SUFFICES ASSUME Init PROVE LedgerInv
      OBVIOUS
    <2>1. \A a \in Agents : OwnUpdates(a) = {} /\ \A k : PendingUpdates(a, {k}) = {}
      BY DEF Init, PendingUpdates, OwnUpdates
    <2>2. Cardinality({}) = 0
      BY FS_EmptySet
    <2>3. \A a \in Agents : sent[a] = 0 /\ owed[a] = 0 /\ live[a] = 0 /\ stale[a] = 0
      BY DEF Init
    <2>4. \A a \in Agents : Cardinality(OwnUpdates(a)) = 0
      BY <2>1, <2>2
    <2>5. UpdateLedger
      BY <2>3 DEF UpdateLedger
    <2>6. ASSUME NEW a \in Agents
          PROVE  /\ Cardinality(OwnUpdates(a)) + live[a] <= sent[a]
                 /\ \A k \in Runs : k > cur[a] => PendingUpdates(a, {k}) = {}
      <3>1. Cardinality(OwnUpdates(a)) + live[a] <= sent[a]
        BY <2>3, <2>4
      <3>2. \A k \in Runs : PendingUpdates(a, {k}) = {}
        BY <2>1
      <3>3. QED
        BY <3>1, <3>2
    <2>7. QED
      BY <2>5, <2>6 DEF LedgerInv
  <1>2. LedgerInv => UpdateLedger
    BY DEF LedgerInv
  <1>3. QED
    BY <1>1, <1>2, LedgerStep, TypeCorrect, PTL DEF Spec

-----------------------------------------------------------------------------
(* What is announced.                                                      *)

(* One record's part of the invariant depends on that record alone. *)
LEMMA TellingUntouched ==
  ASSUME NEW a, Telling(a),
         status'[a] = status[a], cur'[a] = cur[a], unsettled'[a] = unsettled[a],
         outcome'[a] = outcome[a], announced'[a] = announced[a], collected'[a] = collected[a],
         Withheld(a)' => Withheld(a)
  PROVE  Telling(a)'
  BY DEF Telling, RunsInOrder, Births, UnsettledIsUntold, Untold, WithheldIsUntold

LEMMA AppendWithholds ==
  ASSUME TypeOK, NEW e \in Announcements, pending' = Append(pending, e), NEW b, Completion(b) # e
  PROVE  Withheld(b)' => Withheld(b)
  <1>1. /\ DOMAIN pending' = DOMAIN pending \cup {Len(pending) + 1}
        /\ \A i \in DOMAIN pending : pending'[i] = pending[i]
        /\ pending'[Len(pending) + 1] = e
    BY DEF TypeOK
  <1>2. QED
    BY <1>1 DEF Withheld

(* What the announcer does with the end of a run of which nothing was told. *)
LEMMA SendCompletionEffect ==
  ASSUME TypeOK, IdleIsFlushed, NEW a \in Agents, NEW k \in Runs, SendCompletion(a, k),
         announced[a][k] = 0
  PROVE  /\ \A b \in Agents \ {a} : announced'[b] = announced[b] /\ (Withheld(b)' => Withheld(b))
         /\ \A j \in Runs \ {k} : announced'[a][j] = announced[a][j]
         /\ announced'[a][k] \in {0, 1}
         /\ Withheld(a)' => announced'[a][k] = 0
         /\ parent = "idle" => pending' = <<>>
  <1>1. CASE pending' = pending /\ announced' = announced
    BY <1>1 DEF IdleIsFlushed, Withheld
  <1>2. CASE parent # "idle" /\ pending' = Withhold(a) /\ announced' = announced
    <2>1. ASSUME NEW b \in Agents \ {a}
          PROVE  Withheld(b)' => Withheld(b)
      <3>1. CASE pending' = pending
        BY <3>1 DEF Withheld
      <3>2. CASE pending' = Append(pending, Completion(a))
        BY <3>2, CompletionTyped, AppendWithholds, CompletionNamesItsRecord
      <3>3. QED
        BY <1>2, <3>1, <3>2 DEF Withhold
    <2>2. QED
      BY <1>2, <2>1
  <1>3. CASE /\ parent = "idle" /\ pending' = pending
             /\ announced' = [announced EXCEPT ![a] = Nudged(a, k, 1)]
    <2>1. pending' = <<>> /\ ~Withheld(a)' /\ \A b : ~Withheld(b)'
      BY <1>3 DEF IdleIsFlushed, Withheld
    <2>2. /\ announced'[a] = Nudged(a, k, 1)
          /\ \A b \in Agents \ {a} : announced'[b] = announced[b]
      BY <1>3 DEF TypeOK
    <2>3. Nudged(a, k, 1) = [announced[a] EXCEPT ![k] = 1]
      BY DEF Nudged, TypeOK
    <2>4. announced[a] \in [Runs -> Nat]
      BY DEF TypeOK
    <2>5. QED
      BY <2>1, <2>2, <2>3, <2>4
  <1>4. QED
    BY <1>1, <1>2, <1>3, SendCompletionCases

(* The flush announces what no run and no call has told. *)
LEMMA FlushTells ==
  ASSUME TypeOK, QueueInv, DeliveryInv, ParentSettles
  PROVE  DeliveryInv'
  <1>1. /\ pending' = <<>> /\ UNCHANGED <<status, cur, unsettled, outcome, collected>>
        /\ announced' = [a \in Agents |->
              IF StillWanted(a) THEN Nudged(a, outcome[a], 1) ELSE announced[a]]
    BY FlushNudges DEF ParentSettles, Flush, recordVars
  <1>2. ASSUME NEW a \in Agents
        PROVE  Telling(a)'
    <2>1. ~Withheld(a)'
      BY <1>1 DEF Withheld
    <2>2. CASE announced'[a] = announced[a]
      BY <1>1, <2>1, <2>2, TellingUntouched DEF DeliveryInv
    <2>3. CASE /\ StillWanted(a) /\ outcome[a] \in Runs
               /\ announced'[a] = [announced[a] EXCEPT ![outcome[a]] = @ + 1]
      <3>1. Withheld(a)
        BY <2>3 DEF StillWanted, IsPending, ToSet, Withheld
      <3>2. announced[a][outcome[a]] = 0
        BY <2>3, <3>1 DEF DeliveryInv, Telling, WithheldIsUntold
      <3>3. announced[a] \in [Runs -> Nat] /\ cur[a] \in Runs
        BY DEF TypeOK
      <3>4. /\ announced'[a][outcome[a]] = 1
            /\ \A k \in Runs \ {outcome[a]} : announced'[a][k] = announced[a][k]
        BY <2>3, <3>2, <3>3
      <3>5. Telling(a)
        BY DEF DeliveryInv
      <3>6. RunsInOrder(a)'
        <4>1. \A k \in Runs : k > cur[a] => k # outcome[a]
          <5>1. outcome[a] <= cur[a] /\ outcome[a] \in Int /\ cur[a] \in Int
            BY <2>3, <3>3, <3>5, RunsAreInts DEF Telling, RunsInOrder
          <5>2. \A k \in Int : k > cur[a] => k # outcome[a]
            BY <5>1
          <5>3. QED
            BY <5>2, RunsAreInts
        <4>2. QED
          BY <1>1, <3>4, <3>5, <4>1 DEF Telling, RunsInOrder
      <3>7. Births(a)'
        BY <1>1, <2>3, <3>4, <3>5, RunsAreInts DEF Telling, Births
      <3>8. UnsettledIsUntold(a)'
        <4>1. unsettled[a] \subseteq Runs
          BY DEF TypeOK
        <4>2. QED
          BY <1>1, <3>4, <3>5, <4>1 DEF Telling, UnsettledIsUntold, Untold
      <3>9. \A k \in Runs : announced'[a][k] <= 1
        BY <3>4, <3>5 DEF Telling
      <3>10. QED
        BY <2>1, <3>6, <3>7, <3>8, <3>9 DEF Telling, WithheldIsUntold
    <2>4. QED
      BY <1>1, <2>2, <2>3 DEF Nudged
  <1>3. ASSUME NEW a \in Agents
        PROVE  CollectedIsMarked(a)'
    <2>1. consumed' = consumed
      BY DEF ParentSettles, recordVars
    <2>2. QED
      BY <1>1, <2>1 DEF DeliveryInv, CollectedIsMarked
  <1>4. QED
    BY <1>1, <1>2, <1>3 DEF DeliveryInv, IdleIsFlushed

(* The end of a run tells that run and nothing else. *)
LEMMA RunEndTells ==
  ASSUME TypeOK, DeliveryInv, NEW a \in Agents, NEW k \in Runs, RunEnds(a, k)
  PROVE  DeliveryInv'
  <1>1. /\ k \in unsettled[a] /\ status[a] \in {"running", "ended", "stopped"}
        /\ status' = [status EXCEPT ![a] = IF @ = "stopped" THEN @ ELSE "ended"]
        /\ outcome' = [outcome EXCEPT ![a] = k] /\ cur' = cur /\ parent' = parent
        /\ SendCompletion(a, k) /\ Settle(a, k, k)
    BY DEF RunEnds
  <1>2. Telling(a) /\ Untold(a, k) /\ k <= cur[a] /\ IdleIsFlushed
    BY <1>1 DEF DeliveryInv, Telling, UnsettledIsUntold, RunsInOrder
  <1>3. /\ \A b \in Agents \ {a} : announced'[b] = announced[b] /\ (Withheld(b)' => Withheld(b))
        /\ \A j \in Runs \ {k} : announced'[a][j] = announced[a][j]
        /\ announced'[a][k] \in {0, 1}
        /\ Withheld(a)' => announced'[a][k] = 0
        /\ parent = "idle" => pending' = <<>>
    BY <1>1, <1>2, SendCompletionEffect DEF Untold
  <1>4. /\ unsettled' = [unsettled EXCEPT ![a] = @ \ {k}]
        /\ \E S \in {{}, {k}} : collected' = [collected EXCEPT ![a] = @ \cup S]
    BY <1>1 DEF Settle, TypeOK
  <1>5. /\ status \in [Agents -> Statuses] /\ outcome \in [Agents -> Runs \cup {NoRun}]
        /\ unsettled \in [Agents -> SUBSET Runs] /\ collected \in [Agents -> SUBSET Runs]
        /\ cur \in [Agents -> Runs]
    BY DEF TypeOK
  <1>6. ASSUME NEW b \in Agents, b # a
        PROVE  Telling(b)'
    BY <1>1, <1>3, <1>4, <1>5, <1>6, TellingUntouched DEF DeliveryInv
  <1>7. Telling(a)'
    <2>1. /\ outcome'[a] = k /\ unsettled'[a] = unsettled[a] \ {k}
          /\ collected[a] \subseteq collected'[a] /\ collected'[a] \subseteq collected[a] \cup {k}
          /\ status'[a] \in {"ended", "stopped"}
      <3>1. outcome'[a] = k /\ unsettled'[a] = unsettled[a] \ {k}
        BY <1>1, <1>4, <1>5
      <3>2. collected[a] \subseteq collected'[a] /\ collected'[a] \subseteq collected[a] \cup {k}
        BY <1>4, <1>5
      <3>3. status'[a] \in {"ended", "stopped"}
        BY <1>1, <1>5
      <3>4. QED
        BY <3>1, <3>2, <3>3
    <2>2. RunsInOrder(a)'
      <3>1. \A j \in Runs : j > cur[a] => j # k
        <4>1. k <= cur[a] /\ k \in Int /\ cur[a] \in Int
          BY <1>2, <1>5, RunsAreInts
        <4>2. \A j \in Int : j > cur[a] => j # k
          BY <4>1
        <4>3. QED
          BY <4>2, RunsAreInts
      <3>2. k \in 0 .. cur[a]
        BY <1>1, <1>2 DEF Telling, RunsInOrder
      <3>3. QED
        BY <1>1, <1>2, <1>3, <2>1, <3>1, <3>2 DEF Telling, RunsInOrder
    <2>3. Births(a)'
      BY <2>1 DEF Births
    <2>4. UnsettledIsUntold(a)'
      <3>1. \A j \in unsettled[a] \ {k} : Untold(a, j) /\ j \in Runs
        BY <1>1, <1>2, <1>5 DEF Telling, UnsettledIsUntold
      <3>2. QED
        BY <1>3, <2>1, <3>1 DEF UnsettledIsUntold, Untold
    <2>5. WithheldIsUntold(a)'
      BY <1>3, <2>1 DEF WithheldIsUntold
    <2>6. \A j \in Runs : announced'[a][j] <= 1
      BY <1>2, <1>3 DEF Telling
    <2>7. QED
      BY <2>2, <2>3, <2>4, <2>5, <2>6 DEF Telling
  <1>8. ASSUME NEW b \in Agents
        PROVE  CollectedIsMarked(b)'
    <2>1. CASE b # a
      <3>1. outcome'[b] = outcome[b] /\ collected'[b] = collected[b]
        BY <1>1, <1>4, <1>5, <2>1
      <3>2. consumed[b] => consumed'[b]
        BY <1>1, <2>1 DEF Settle, TypeOK
      <3>3. QED
        BY <3>1, <3>2 DEF DeliveryInv, CollectedIsMarked
    <2>2. CASE b = a
      <3>1. outcome'[a] = k /\ k \notin collected[a]
        BY <1>1, <1>2, <1>5 DEF Untold
      <3>2. k \in collected'[a] => k \in collected[a] \/ consumed'[a]
        BY <1>1 DEF Settle, TypeOK
      <3>3. QED
        BY <2>2, <3>1, <3>2 DEF CollectedIsMarked
    <2>3. QED
      BY <2>1, <2>2
  <1>9. QED
    BY <1>1, <1>3, <1>6, <1>7, <1>8 DEF DeliveryInv, IdleIsFlushed

(* A stop reports the run of a queued record, which has told nothing yet. *)
LEMMA StopTells ==
  ASSUME TypeOK, DeliveryInv, NEW a \in Agents, Stop(a)
  PROVE  DeliveryInv'
  <1>1. UNCHANGED <<cur, unsettled, consumed, collected, parent>>
    BY DEF Stop
  <1>2. /\ status \in [Agents -> Statuses] /\ outcome \in [Agents -> Runs \cup {NoRun}]
        /\ cur \in [Agents -> Runs]
    BY DEF TypeOK
  <1>3. Telling(a) /\ IdleIsFlushed /\ CollectedIsMarked(a)
    BY DEF DeliveryInv
  <1>4. CASE /\ status[a] = "running" /\ status' = [status EXCEPT ![a] = "stopped"]
             /\ UNCHANGED <<outcome, pending, announced>>
    <2>1. \A b : Withheld(b)' => Withheld(b)
      BY <1>4 DEF Withheld
    <2>2. ASSUME NEW b \in Agents, b # a
          PROVE  Telling(b)'
      BY <1>1, <1>2, <1>4, <2>1, <2>2, TellingUntouched DEF DeliveryInv
    <2>3. status'[a] = "stopped"
      BY <1>2, <1>4
    <2>4. Telling(a)'
      BY <1>1, <1>3, <1>4, <2>1, <2>3
      DEF Telling, RunsInOrder, Births, UnsettledIsUntold, Untold, WithheldIsUntold
    <2>5. \A b \in Agents : CollectedIsMarked(b)'
      BY <1>1, <1>4 DEF DeliveryInv, CollectedIsMarked
    <2>6. QED
      BY <1>1, <1>3, <1>4, <2>2, <2>4, <2>5 DEF DeliveryInv, IdleIsFlushed
  <1>5. CASE /\ status[a] = "queued" /\ status' = [status EXCEPT ![a] = "neverStarted"]
             /\ outcome' = [outcome EXCEPT ![a] = 0] /\ SendCompletion(a, 0)
    <2>1. Untold(a, 0) /\ 0 \in Runs
      BY <1>3, <1>5, RunsAreInts DEF Telling, Births, UnsettledIsUntold
    <2>2. /\ \A b \in Agents \ {a} :
                announced'[b] = announced[b] /\ (Withheld(b)' => Withheld(b))
          /\ \A j \in Runs \ {0} : announced'[a][j] = announced[a][j]
          /\ announced'[a][0] \in {0, 1}
          /\ Withheld(a)' => announced'[a][0] = 0
          /\ parent = "idle" => pending' = <<>>
      BY <1>3, <1>5, <2>1, SendCompletionEffect DEF Untold
    <2>3. ASSUME NEW b \in Agents, b # a
          PROVE  Telling(b)'
      BY <1>1, <1>2, <1>5, <2>2, <2>3, TellingUntouched DEF DeliveryInv
    <2>4. status'[a] = "neverStarted" /\ outcome'[a] = 0
      BY <1>2, <1>5
    <2>5. Telling(a)'
      <3>1. RunsInOrder(a)'
        BY <1>1, <1>2, <1>3, <2>2, <2>4, DeliveryAssumption DEF Telling, RunsInOrder, Runs
      <3>2. Births(a)' /\ UnsettledIsUntold(a)'
        BY <2>4 DEF Births, UnsettledIsUntold
      <3>3. WithheldIsUntold(a)'
        BY <2>2, <2>4 DEF WithheldIsUntold
      <3>4. \A k \in Runs : announced'[a][k] <= 1
        BY <1>3, <2>2 DEF Telling
      <3>5. QED
        BY <3>1, <3>2, <3>3, <3>4 DEF Telling
    <2>6. ASSUME NEW b \in Agents
          PROVE  CollectedIsMarked(b)'
      <3>1. CASE b = a
        BY <1>1, <2>1, <2>4, <3>1 DEF CollectedIsMarked, Untold
      <3>2. CASE b # a
        BY <1>1, <1>2, <1>5, <3>2 DEF DeliveryInv, CollectedIsMarked
      <3>3. QED
        BY <3>1, <3>2
    <2>7. QED
      BY <1>1, <2>2, <2>3, <2>5, <2>6 DEF DeliveryInv, IdleIsFlushed
  <1>6. QED
    BY <1>4, <1>5 DEF Stop

(* A resume begins a run of which nothing is told. *)
LEMMA ResumeTells ==
  ASSUME TypeOK, DeliveryInv, NEW a \in Agents, NEW claim, Resume(a, claim)
  PROVE  DeliveryInv'
  <1>1. /\ status[a] \in {"ended", "stopped"} /\ cur[a] < MaxResumes
        /\ status' = [status EXCEPT ![a] = "running"]
        /\ cur' = [cur EXCEPT ![a] = @ + 1]
        /\ unsettled' = [unsettled EXCEPT ![a] = @ \cup {cur[a] + 1}]
        /\ outcome' = [outcome EXCEPT ![a] = NoRun]
        /\ UNCHANGED <<announced, collected, pending, parent>>
    BY DEF Resume, historyVars
  <1>2. /\ status \in [Agents -> Statuses] /\ outcome \in [Agents -> Runs \cup {NoRun}]
        /\ unsettled \in [Agents -> SUBSET Runs] /\ collected \in [Agents -> SUBSET Runs]
        /\ cur \in [Agents -> Runs]
    BY DEF TypeOK
  <1>3. Telling(a)
    BY DEF DeliveryInv
  <1>4. \A b : Withheld(b)' => Withheld(b)
    BY <1>1 DEF Withheld
  <1>5. ASSUME NEW b \in Agents, b # a
        PROVE  Telling(b)'
    BY <1>1, <1>2, <1>4, <1>5, TellingUntouched DEF DeliveryInv
  <1>6. /\ status'[a] = "running" /\ cur'[a] = cur[a] + 1 /\ outcome'[a] = NoRun
        /\ unsettled'[a] = unsettled[a] \cup {cur[a] + 1}
    BY <1>1, <1>2
  <1>7. cur[a] \in Nat /\ cur[a] + 1 \in Runs /\ NoRun \notin Runs /\ NoRun < 0
    BY <1>1, <1>2, DeliveryAssumption DEF Runs, NoRun
  <1>8. Telling(a)'
    <2>1. RunsInOrder(a)'
      <3>1. unsettled'[a] \subseteq 0 .. cur'[a]
        BY <1>3, <1>6, <1>7 DEF Telling, RunsInOrder
      <3>2. collected'[a] \subseteq 0 .. cur'[a]
        BY <1>1, <1>3, <1>6, <1>7 DEF Telling, RunsInOrder
      <3>3. \A k \in Runs : k > cur'[a] => announced'[a][k] = 0
        BY <1>1, <1>3, <1>6, <1>7, RunsAreInts DEF Telling, RunsInOrder
      <3>4. outcome'[a] <= cur'[a]
        BY <1>6, <1>7 DEF NoRun
      <3>5. QED
        BY <3>1, <3>2, <3>3, <3>4 DEF RunsInOrder
    <2>2. Births(a)'
      BY <1>6 DEF Births
    <2>3. UnsettledIsUntold(a)'
      <3>1. \A k \in unsettled[a] : Untold(a, k) /\ k # NoRun
        BY <1>1, <1>2, <1>3, <1>7 DEF Telling, UnsettledIsUntold
      <3>2. announced[a][cur[a] + 1] = 0
        BY <1>3, <1>7 DEF Telling, RunsInOrder
      <3>3. cur[a] + 1 \notin collected[a]
        BY <1>3, <1>7 DEF Telling, RunsInOrder
      <3>4. cur[a] + 1 # NoRun
        BY <1>7
      <3>5. QED
        BY <1>1, <1>6, <3>1, <3>2, <3>3, <3>4 DEF UnsettledIsUntold, Untold
    <2>4. WithheldIsUntold(a)'
      BY <1>6, <1>7 DEF WithheldIsUntold, Runs
    <2>5. \A k \in Runs : announced'[a][k] <= 1
      BY <1>1, <1>3 DEF Telling
    <2>6. QED
      BY <2>1, <2>2, <2>3, <2>4, <2>5 DEF Telling
  <1>9. ASSUME NEW b \in Agents
        PROVE  CollectedIsMarked(b)'
    <2>1. CASE b = a
      BY <1>1, <1>2, <1>6, <1>7, <2>1 DEF CollectedIsMarked
    <2>2. CASE b # a
      <3>1. outcome'[b] = outcome[b] /\ collected'[b] = collected[b]
        BY <1>1, <1>2, <2>2
      <3>2. consumed'[b] = consumed[b]
        BY <2>2 DEF Resume, TypeOK
      <3>3. QED
        BY <3>1, <3>2 DEF DeliveryInv, CollectedIsMarked
    <2>3. QED
      BY <2>1, <2>2
  <1>10. QED
    BY <1>1, <1>5, <1>8, <1>9 DEF DeliveryInv, IdleIsFlushed

(* A record that is cancelled while queued reports its initial run, which  *)
(* has told nothing.                                                       *)
LEMMA QueuedIsUntold ==
  ASSUME NEW a \in Agents, Telling(a), status[a] = "queued"
  PROVE  Untold(a, 0)
  BY DEF Telling, Births, UnsettledIsUntold

(* An interrupt stops, cancels and collects; it announces nothing. *)
LEMMA InterruptTells ==
  ASSUME TypeOK, DeliveryInv, NEW all \in BOOLEAN, Interrupt(all)
  PROVE  DeliveryInv'
  <1>1. parent' = "interrupted" /\ UNCHANGED <<cur, unsettled, announced>>
    BY DEF Interrupt
  <1>2. ASSUME NEW a \in Agents
        PROVE  /\ \/ status'[a] = status[a] /\ outcome'[a] = outcome[a]
                  \/ status[a] = "running" /\ status'[a] = "stopped" /\ outcome'[a] = outcome[a]
                  \/ status[a] = "queued" /\ status'[a] = "neverStarted" /\ outcome'[a] = 0
               /\ status[a] = "queued" /\ all => outcome'[a] = 0
    BY DEF Interrupt, TypeOK
  <1>3. ASSUME NEW a \in Agents
        PROVE  \/ collected'[a] = collected[a]
               \/ collected'[a] = collected[a] \cup ({outcome'[a]} \cap Runs) /\ consumed'[a]
    BY DEF Interrupt, TypeOK, Held
  <1>4. ASSUME NEW a \in Agents
        PROVE  consumed[a] => consumed'[a]
    BY DEF Interrupt, TypeOK
  <1>5. ASSUME NEW a \in Agents, Withheld(a)', ~Withheld(a)
        PROVE  status[a] = "queued" /\ all
    <2>1. PICK i \in DOMAIN pending' : pending'[i] = Completion(a)
      BY <1>5 DEF Withheld
    <2>2. i \notin DOMAIN pending
      BY <1>5, <2>1, InterruptWithholds DEF Withheld
    <2>3. QED
      BY <2>1, <2>2, InterruptWithholds, CompletionNamesItsRecord
  <1>6. ASSUME NEW a \in Agents
        PROVE  /\ outcome[a] \in Runs \cup {NoRun} /\ cur[a] \in Runs /\ unsettled[a] \subseteq Runs
               /\ Telling(a)
    BY DEF TypeOK, DeliveryInv
  <1>7. ASSUME NEW a \in Agents
        PROVE  Telling(a)'
    <2>1. Telling(a) /\ unsettled[a] \subseteq Runs
      BY <1>6
    <2>2. 0 <= cur[a] /\ cur[a] \in Int /\ outcome[a] \in Int
      BY <1>6, DeliveryAssumption DEF Runs, NoRun
    <2>3. RunsInOrder(a)'
      <3>1. outcome'[a] <= cur[a]
        BY <1>2, <2>1, <2>2 DEF Telling, RunsInOrder
      <3>2. outcome'[a] \in Runs => outcome'[a] \in 0 .. cur[a]
        BY <3>1, <2>2, DeliveryAssumption DEF Runs
      <3>3. collected'[a] \subseteq 0 .. cur[a]
        BY <1>3, <2>1, <3>2 DEF Telling, RunsInOrder
      <3>4. QED
        BY <1>1, <2>1, <3>1, <3>3 DEF Telling, RunsInOrder
    <2>4. Births(a)'
      <3>1. CASE status'[a] = "unborn"
        <4>1. status[a] = "unborn" /\ outcome'[a] = outcome[a]
          BY <1>2, <3>1
        <4>2. outcome'[a] = NoRun /\ collected[a] = {} /\ announced[a][0] = 0
          BY <2>1, <4>1 DEF Telling, Births
        <4>3. collected'[a] = {}
          BY <1>3, <4>2, RunsAreInts
        <4>4. QED
          BY <1>1, <3>1, <4>2, <4>3 DEF Births
      <3>2. CASE status'[a] = "queued"
        BY <1>1, <1>2, <2>1, <3>2 DEF Telling, Births
      <3>3. QED
        BY <3>1, <3>2 DEF Births
    <2>5. UnsettledIsUntold(a)'
      <3>1. CASE status'[a] # "neverStarted"
        <4>1. status[a] # "neverStarted" /\ outcome'[a] = outcome[a]
          BY <1>2, <3>1
        <4>2. QED
          BY <1>1, <1>3, <2>1, <4>1 DEF Telling, UnsettledIsUntold, Untold
      <3>2. QED
        BY <3>1 DEF UnsettledIsUntold
    <2>6. WithheldIsUntold(a)'
      <3>1. CASE outcome'[a] = outcome[a] /\ Withheld(a)
        BY <1>1, <2>1, <3>1 DEF Telling, WithheldIsUntold
      <3>2. CASE outcome'[a] = 0 /\ status[a] = "queued"
        BY <1>1, <2>1, <3>2, QueuedIsUntold DEF WithheldIsUntold, Untold
      <3>3. CASE outcome'[a] = outcome[a] /\ ~Withheld(a)
        BY <1>2, <1>5, <3>2, <3>3 DEF WithheldIsUntold
      <3>4. QED
        BY <1>2, <3>1, <3>2, <3>3
    <2>7. \A k \in Runs : announced'[a][k] <= 1
      BY <1>1, <2>1 DEF Telling
    <2>8. QED
      BY <2>3, <2>4, <2>5, <2>6, <2>7 DEF Telling
  <1>8. ASSUME NEW a \in Agents
        PROVE  CollectedIsMarked(a)'
    <2>1. CASE consumed'[a]
      BY <2>1 DEF CollectedIsMarked
    <2>2. CASE ~consumed'[a] /\ outcome'[a] = outcome[a]
      <3>1. collected'[a] = collected[a] /\ ~consumed[a]
        BY <1>3, <1>4, <2>2
      <3>2. QED
        BY <2>2, <3>1 DEF DeliveryInv, CollectedIsMarked
    <2>3. CASE ~consumed'[a] /\ outcome'[a] = 0 /\ status[a] = "queued"
      <3>1. collected'[a] = collected[a]
        BY <1>3, <2>3
      <3>2. 0 \notin collected[a]
        BY <1>6, <2>3, QueuedIsUntold DEF Untold
      <3>3. QED
        BY <2>3, <3>1, <3>2 DEF CollectedIsMarked
    <2>4. QED
      BY <1>2, <2>1, <2>2, <2>3
  <1>9. QED
    BY <1>1, <1>7, <1>8 DEF DeliveryInv, IdleIsFlushed

(* The end of the session reports nothing. *)
LEMMA ShutdownTells ==
  ASSUME TypeOK, DeliveryInv, Shutdown
  PROVE  DeliveryInv'
  <1>1. pending' = <<>> /\ UNCHANGED <<cur, unsettled, consumed, announced, collected>>
    BY DEF Shutdown, historyVars
  <1>2. ASSUME NEW a \in Agents
        PROVE  \/ status'[a] = status[a] /\ outcome'[a] = outcome[a]
               \/ status'[a] = "stopped" /\ status[a] = "running" /\ outcome'[a] = outcome[a]
               \/ status[a] = "queued" /\ status'[a] = "neverStarted" /\ outcome'[a] = 0
    BY DEF Shutdown, TypeOK
  <1>3. ASSUME NEW a \in Agents
        PROVE  Telling(a)' /\ CollectedIsMarked(a)'
    <2>1. Telling(a) /\ CollectedIsMarked(a) /\ ~Withheld(a)'
      BY <1>1 DEF DeliveryInv, Withheld
    <2>2. CASE status'[a] = status[a] /\ outcome'[a] = outcome[a]
      BY <1>1, <2>1, <2>2, TellingUntouched DEF CollectedIsMarked
    <2>3. CASE status'[a] = "stopped" /\ status[a] = "running" /\ outcome'[a] = outcome[a]
      BY <1>1, <2>1, <2>3
      DEF Telling, RunsInOrder, Births, UnsettledIsUntold, Untold, WithheldIsUntold,
          CollectedIsMarked
    <2>4. CASE status[a] = "queued" /\ status'[a] = "neverStarted" /\ outcome'[a] = 0
      <3>1. 0 \notin collected[a]
        BY <2>1, <2>4, QueuedIsUntold DEF Untold
      <3>2. 0 <= cur[a]
        BY DeliveryAssumption DEF TypeOK, Runs
      <3>3. QED
        BY <1>1, <2>1, <2>4, <3>1, <3>2
        DEF Telling, RunsInOrder, Births, UnsettledIsUntold, WithheldIsUntold, CollectedIsMarked
    <2>5. QED
      BY <1>2, <2>2, <2>3, <2>4
  <1>4. QED
    BY <1>1, <1>3 DEF DeliveryInv, IdleIsFlushed

(* The parent's own call for a record that is not active. *)
LEMMA CollectTells ==
  ASSUME TypeOK, DeliveryInv, NEW a \in Agents, NEW wait \in BOOLEAN, GetResult(a, wait)
  PROVE  DeliveryInv'
  <1>1. /\ UNCHANGED <<status, cur, unsettled, outcome, announced, pending, parent>>
        /\ collected' = [collected EXCEPT ![a] = @ \cup Held(outcome[a])]
    BY DEF GetResult
  <1>2. \A b : Withheld(b)' => Withheld(b)
    BY <1>1 DEF Withheld
  <1>3. collected \in [Agents -> SUBSET Runs]
    BY DEF TypeOK
  <1>4. ASSUME NEW b \in Agents, b # a
        PROVE  Telling(b)' /\ CollectedIsMarked(b)'
    <2>1. collected'[b] = collected[b]
      BY <1>1, <1>3, <1>4
    <2>2. consumed'[b] = consumed[b]
      BY <1>4 DEF GetResult, TypeOK
    <2>3. Telling(b) /\ CollectedIsMarked(b)
      BY DEF DeliveryInv
    <2>4. QED
      BY <1>1, <1>2, <2>1, <2>2, <2>3, TellingUntouched DEF CollectedIsMarked
  <1>5. Telling(a)'
    <2>1. Telling(a) /\ collected'[a] = collected[a] \cup ({outcome[a]} \cap Runs)
      BY <1>1, <1>3 DEF DeliveryInv, Held
    <2>2. RunsInOrder(a)'
      <3>1. outcome[a] \in Runs => outcome[a] \in 0 .. cur[a]
        <4>1. outcome[a] <= cur[a] /\ cur[a] \in Int
          BY <2>1, RunsAreInts DEF Telling, RunsInOrder, TypeOK
        <4>2. QED
          BY <4>1, DeliveryAssumption DEF Runs
      <3>2. collected'[a] \subseteq 0 .. cur[a]
        BY <2>1, <3>1 DEF Telling, RunsInOrder
      <3>3. QED
        BY <1>1, <2>1, <3>2 DEF Telling, RunsInOrder
    <2>3. status[a] \in {"ended", "stopped", "neverStarted"}
      BY DEF GetResult
    <2>4. Births(a)'
      BY <1>1, <2>3 DEF Births
    <2>5. UnsettledIsUntold(a)'
      BY <1>1, <2>1 DEF Telling, UnsettledIsUntold, Untold
    <2>6. WithheldIsUntold(a)' /\ \A k \in Runs : announced'[a][k] <= 1
      BY <1>1, <1>2, <2>1 DEF Telling, WithheldIsUntold
    <2>7. QED
      BY <2>2, <2>4, <2>5, <2>6 DEF Telling
  <1>6. CollectedIsMarked(a)'
    <2>1. consumed'[a]
      BY DEF GetResult, TypeOK
    <2>2. QED
      BY <2>1 DEF CollectedIsMarked
  <1>7. QED
    BY <1>1, <1>4, <1>5, <1>6 DEF DeliveryInv, IdleIsFlushed

(* The thunk of a record that never started returns to those who waited.   *)
LEMMA ThunkTells ==
  ASSUME TypeOK, DeliveryInv, NEW a \in Agents, ThunkReturns(a)
  PROVE  DeliveryInv'
  <1>1. /\ status[a] = "neverStarted"
        /\ UNCHANGED <<status, cur, outcome, announced, pending, parent>>
        /\ unsettled' = [unsettled EXCEPT ![a] = @ \ {0}]
        /\ \E S \in {{}, {0}} : collected' = [collected EXCEPT ![a] = @ \cup S]
    BY DEF ThunkReturns, Settle, TypeOK
  <1>2. \A b : Withheld(b)' => Withheld(b)
    BY <1>1 DEF Withheld
  <1>3. collected \in [Agents -> SUBSET Runs] /\ unsettled \in [Agents -> SUBSET Runs]
    BY DEF TypeOK
  <1>4. ASSUME NEW b \in Agents, b # a
        PROVE  Telling(b)'
    BY <1>1, <1>2, <1>3, <1>4, TellingUntouched DEF DeliveryInv
  <1>5. Telling(a)'
    <2>1. Telling(a) /\ collected'[a] \subseteq collected[a] \cup {0}
          /\ unsettled'[a] \subseteq unsettled[a]
      BY <1>1, <1>3 DEF DeliveryInv
    <2>2. 0 \in 0 .. cur[a]
      BY DeliveryAssumption DEF TypeOK, Runs
    <2>3. RunsInOrder(a)'
      BY <1>1, <2>1, <2>2 DEF Telling, RunsInOrder
    <2>4. QED
      BY <1>1, <1>2, <2>1, <2>3 DEF Telling, Births, UnsettledIsUntold, WithheldIsUntold
  <1>6. ASSUME NEW b \in Agents
        PROVE  CollectedIsMarked(b)'
    <2>1. /\ consumed[b] => consumed'[b]
          /\ collected'[b] = collected[b] \/ consumed'[b]
      BY DEF ThunkReturns, Settle, TypeOK
    <2>2. QED
      BY <1>1, <2>1 DEF DeliveryInv, CollectedIsMarked
  <1>7. QED
    BY <1>1, <1>4, <1>5, <1>6 DEF DeliveryInv, IdleIsFlushed

(* A step that changes nothing told of any record. *)
LEMMA NothingTold ==
  ASSUME DeliveryInv,
         UNCHANGED <<status, cur, unsettled, outcome, consumed, announced, collected>>,
         \A b : Withheld(b)' => Withheld(b), IdleIsFlushed'
  PROVE  DeliveryInv'
  BY TellingUntouched DEF DeliveryInv, CollectedIsMarked

(* A record's birth and its admission begin its initial run. *)
LEMMA BeginTells ==
  ASSUME TypeOK, DeliveryInv, NEW a \in Agents, NEW first \in ActiveStatus, Begin(a, first)
  PROVE  DeliveryInv'
  <1>1. /\ status[a] = "unborn" /\ status' = [status EXCEPT ![a] = first]
        /\ unsettled' = [unsettled EXCEPT ![a] = {0}]
        /\ UNCHANGED <<cur, outcome, consumed, announced, collected, pending, parent>>
    BY DEF Begin, historyVars
  <1>2. status \in [Agents -> Statuses] /\ unsettled \in [Agents -> SUBSET Runs]
    BY DEF TypeOK
  <1>3. \A b : Withheld(b)' => Withheld(b)
    BY <1>1 DEF Withheld
  <1>4. ASSUME NEW b \in Agents, b # a
        PROVE  Telling(b)'
    BY <1>1, <1>2, <1>3, <1>4, TellingUntouched DEF DeliveryInv
  <1>5. Telling(a)'
    <2>1. Telling(a) /\ status'[a] = first /\ unsettled'[a] = {0} /\ first # "unborn"
      BY <1>1, <1>2 DEF DeliveryInv, ActiveStatus
    <2>2. outcome[a] = NoRun /\ collected[a] = {} /\ announced[a][0] = 0
      BY <1>1, <2>1 DEF Telling, Births
    <2>3. 0 \in 0 .. cur[a]
      BY DeliveryAssumption DEF TypeOK, Runs
    <2>4. RunsInOrder(a)'
      BY <1>1, <2>1, <2>3 DEF Telling, RunsInOrder
    <2>5. UnsettledIsUntold(a)'
      BY <1>1, <2>1, <2>2 DEF UnsettledIsUntold, Untold, NoRun
    <2>6. QED
      BY <1>1, <1>3, <2>1, <2>4, <2>5 DEF Telling, Births, WithheldIsUntold
  <1>6. \A b \in Agents : CollectedIsMarked(b)'
    BY <1>1 DEF DeliveryInv, CollectedIsMarked
  <1>7. QED
    BY <1>1, <1>4, <1>5, <1>6 DEF DeliveryInv, IdleIsFlushed

LEMMA AdmitTells ==
  ASSUME TypeOK, DeliveryInv, NEW a \in Agents, Admit(a)
  PROVE  DeliveryInv'
  <1>1. /\ status[a] = "queued" /\ status' = [status EXCEPT ![a] = "running"]
        /\ UNCHANGED <<cur, unsettled, outcome, consumed, announced, collected, pending, parent>>
    BY DEF Admit, historyVars
  <1>2. status \in [Agents -> Statuses]
    BY DEF TypeOK
  <1>3. \A b : Withheld(b)' => Withheld(b)
    BY <1>1 DEF Withheld
  <1>4. ASSUME NEW b \in Agents, b # a
        PROVE  Telling(b)'
    BY <1>1, <1>2, <1>3, <1>4, TellingUntouched DEF DeliveryInv
  <1>5. Telling(a)'
    <2>1. Telling(a) /\ status'[a] = "running"
      BY <1>1, <1>2 DEF DeliveryInv
    <2>2. QED
      BY <1>1, <1>3, <2>1
      DEF Telling, RunsInOrder, Births, UnsettledIsUntold, Untold, WithheldIsUntold
  <1>6. \A b \in Agents : CollectedIsMarked(b)'
    BY <1>1 DEF DeliveryInv, CollectedIsMarked
  <1>7. QED
    BY <1>1, <1>4, <1>5, <1>6 DEF DeliveryInv, IdleIsFlushed

LEMMA UpdateTellsNothing ==
  ASSUME TypeOK, DeliveryInv, NEW a \in Agents, SendUpdate(a)
  PROVE  DeliveryInv'
  <1>1. UNCHANGED <<status, cur, unsettled, outcome, consumed, announced, collected, parent>>
    BY DEF SendUpdate, recordVars, historyVars
  <1>2. CASE pending' = pending
    BY <1>1, <1>2, NothingTold DEF DeliveryInv, IdleIsFlushed, Withheld
  <1>3. CASE parent # "idle" /\ pending' = Append(pending, Update(a, cur[a]))
    <2>1. Update(a, cur[a]) \in Announcements
      BY DEF Announcements, TypeOK
    <2>2. \A b : Withheld(b)' => Withheld(b)
      BY <1>3, <2>1, AppendWithholds, CompletionIsNoUpdate
    <2>3. QED
      BY <1>1, <1>3, <2>2, NothingTold DEF IdleIsFlushed
  <1>4. QED
    BY <1>2, <1>3 DEF SendUpdate

LEMMA DeliveryStep == TypeOK /\ QueueInv /\ DeliveryInv /\ [Next]_vars => DeliveryInv'
  <1> SUFFICES ASSUME TypeOK, QueueInv, DeliveryInv, [Next]_vars PROVE DeliveryInv'
    OBVIOUS
  <1>1. ASSUME UNCHANGED <<status, cur, unsettled, outcome, consumed, announced, collected, pending>>,
               parent' = parent \/ parent' = "active"
        PROVE  DeliveryInv'
    BY <1>1, NothingTold DEF DeliveryInv, IdleIsFlushed, Withheld
  <1>2. CASE ParentStarts
    BY <1>1, <1>2 DEF ParentStarts, recordVars, historyVars
  <1>3. ASSUME NEW a \in Agents, NEW first \in ActiveStatus, Spawn(a, first) PROVE DeliveryInv'
    BY <1>3, BeginTells DEF Spawn
  <1>4. ASSUME NEW a \in Agents, SpawnAndWait(a) PROVE DeliveryInv'
    BY <1>4, BeginTells DEF SpawnAndWait, ActiveStatus
  <1>5. ASSUME NEW a \in Agents, ResumeTool(a) \/ ServiceResume(a) PROVE DeliveryInv'
    BY <1>5, ResumeTells DEF ResumeTool, ServiceResume
  <1>6. ASSUME NEW a \in Agents, GetResultWaits(a) PROVE DeliveryInv'
    BY <1>1, <1>6 DEF GetResultWaits, historyVars
  <1>7. CASE UNCHANGED vars
    BY <1>1, <1>7 DEF vars, recordVars, historyVars
  <1>8. QED
    BY <1>2, <1>3, <1>4, <1>5, <1>6, <1>7, FlushTells, ShutdownTells, InterruptTells, AdmitTells,
       UpdateTellsNothing, RunEndTells, ThunkTells, StopTells, CollectTells
    DEF Next

LEMMA DeliveryInit == Init => DeliveryInv
  <1> SUFFICES ASSUME Init PROVE DeliveryInv
    OBVIOUS
  <1>1. IdleIsFlushed
    BY DEF Init, IdleIsFlushed
  <1>2. ASSUME NEW a \in Agents
        PROVE  Telling(a) /\ CollectedIsMarked(a)
    <2>1. /\ status[a] = "unborn" /\ cur[a] = 0 /\ unsettled[a] = {} /\ outcome[a] = NoRun
          /\ collected[a] = {} /\ ~Withheld(a) /\ \A k \in Runs : announced[a][k] = 0
      BY <1>2 DEF Init, Withheld
    <2>2. QED
      BY <2>1, RunsAreInts
      DEF Telling, RunsInOrder, Births, UnsettledIsUntold, WithheldIsUntold, CollectedIsMarked, NoRun
  <1>3. QED
    BY <1>1, <1>2 DEF DeliveryInv

(* The end of a run is announced to the parent at most once. *)
THEOREM OneAnnouncement == Spec => []AnnouncedOnce
  <1>1. DeliveryInv => AnnouncedOnce
    BY DEF DeliveryInv, Telling, AnnouncedOnce
  <1>2. QED
    BY <1>1, DeliveryInit, DeliveryStep, QueuedAtMostOnce, PTL DEF Spec

(* What an announcement adds is of a run of which the parent's calls have  *)
(* told nothing.                                                           *)
LEMMA AnnouncesUncollected ==
  ASSUME TypeOK, QueueInv, DeliveryInv, [Next]_vars, NEW a \in Agents, NEW k \in collected[a]
  PROVE  announced'[a][k] = announced[a][k]
  <1>1. Telling(a) /\ CollectedIsMarked(a) /\ IdleIsFlushed /\ k \in Runs
    BY DEF DeliveryInv, TypeOK
  <1>2. ASSUME NEW b \in Agents, NEW j \in Runs, SendCompletion(b, j), Untold(b, j)
        PROVE  announced'[a][k] = announced[a][k]
    <2>1. b # a \/ k # j
      BY <1>2 DEF Untold
    <2>2. QED
      BY <1>1, <1>2, <2>1, SendCompletionEffect DEF Untold
  <1>3. CASE ParentSettles
    <2>1. announced'[a] = IF StillWanted(a) THEN Nudged(a, outcome[a], 1) ELSE announced[a]
      BY <1>3, FlushNudges
    <2>2. StillWanted(a) => k # outcome[a]
      BY <1>1 DEF StillWanted, CollectedIsMarked
    <2>3. QED
      BY <2>1, <2>2 DEF Nudged, TypeOK
  <1>4. ASSUME NEW b \in Agents, NEW j \in Runs, RunEnds(b, j)
        PROVE  announced'[a][k] = announced[a][k]
    <2>1. Telling(b)
      BY DEF DeliveryInv
    <2>2. Untold(b, j) /\ SendCompletion(b, j)
      BY <1>4, <2>1 DEF RunEnds, Telling, UnsettledIsUntold
    <2>3. QED
      BY <1>2, <2>2
  <1>5. ASSUME NEW b \in Agents, Stop(b)
        PROVE  announced'[a][k] = announced[a][k]
    <2>1. CASE announced' = announced
      BY <2>1
    <2>2. CASE status[b] = "queued" /\ SendCompletion(b, 0)
      <3>1. Telling(b)
        BY DEF DeliveryInv
      <3>2. QED
        BY <1>2, <2>2, <3>1, QueuedIsUntold, RunsAreInts
    <2>3. QED
      BY <1>5, <2>1, <2>2 DEF Stop
  <1>6. QED
    BY <1>3, <1>4, <1>5
    DEF Next, vars, historyVars, ParentStarts, Shutdown, Interrupt, Spawn, SpawnAndWait, Begin,
        Admit, SendUpdate, ThunkReturns, ResumeTool, ServiceResume, Resume, GetResult,
        GetResultWaits

(* An outcome the parent pulled is never announced to it afterwards. *)
THEOREM NoAnnouncementAfterCollection == Spec => NoEcho
  <1>1. TypeOK /\ QueueInv /\ DeliveryInv /\ [Next]_vars =>
           [\A a \in Agents : \A k \in collected[a] : announced'[a][k] = announced[a][k]]_vars
    BY AnnouncesUncollected
  <1>2. QED
    BY <1>1, DeliveryInit, DeliveryStep, QueuedAtMostOnce, PTL DEF Spec, NoEcho

-----------------------------------------------------------------------------
(* Who holds a claim.                                                      *)

CarriedOrAwaited(a) == carried[a] \/ \E c \in calls : c.agent = a

(* A step that takes no claim and loses no call, unless the call returned. *)
LEMMA NoClaimTaken ==
  ASSUME ClaimHasCarrier,
         \A a \in Agents : claimed'[a] => claimed[a],
         \A a \in Agents : CarriedOrAwaited(a) => CarriedOrAwaited(a)'
  PROVE  ClaimHasCarrier'
  BY DEF ClaimHasCarrier, CarriedOrAwaited

(* A claim is taken together with the call that is to carry the outcome.   *)
LEMMA ClaimTaken ==
  ASSUME TypeOK, ClaimHasCarrier, NEW a \in Agents, NEW kind, NEW k, carried' = carried,
         claimed' = [claimed EXCEPT ![a] = TRUE], calls' = calls \cup {Call(kind, a, k)}
  PROVE  ClaimHasCarrier'
  <1>1. Call(kind, a, k).agent = a
    BY DEF Call
  <1>2. \A b \in Agents \ {a} : claimed'[b] = claimed[b]
    BY DEF TypeOK
  <1>3. QED
    BY <1>1, <1>2 DEF ClaimHasCarrier

LEMMA SettleCarries ==
  ASSUME TypeOK, ClaimHasCarrier, NEW a \in Agents, NEW k, NEW r, Settle(a, k, r),
         claimed' = claimed
  PROVE  ClaimHasCarrier'
  <1>1. ASSUME NEW b \in Agents, carried[b]
        PROVE  CarriedOrAwaited(b)'
    BY <1>1 DEF Settle, TypeOK, CarriedOrAwaited
  <1>2. ASSUME NEW c \in calls
        PROVE  CarriedOrAwaited(c.agent)'
    <2>1. CASE c \in calls'
      BY <2>1 DEF CarriedOrAwaited
    <2>2. CASE c \notin calls'
      <3>1. c.agent = a /\ c.run = k
        BY <2>2 DEF Settle
      <3>2. carried'[a]
        BY <3>1 DEF Settle, TypeOK
      <3>3. QED
        BY <3>1, <3>2 DEF CarriedOrAwaited
    <2>3. QED
      BY <2>1, <2>2
  <1>3. QED
    BY <1>1, <1>2, NoClaimTaken DEF CarriedOrAwaited

LEMMA InterruptReleases ==
  ASSUME TypeOK, ClaimHasCarrier, NEW all \in BOOLEAN, Interrupt(all)
  PROVE  ClaimHasCarrier'
  <1> DEFINE gone(a) == \E c \in calls : c.kind = "wait" /\ c.agent = a
  <1>1. ASSUME NEW a \in Agents, claimed'[a]
        PROVE  claimed[a] /\ (gone(a) => carried'[a])
    BY <1>1 DEF Interrupt, Released
  <1>2. ASSUME NEW a \in Agents, carried[a]
        PROVE  carried'[a]
    BY <1>2 DEF Interrupt
  <1>3. \A c \in calls : c \in calls' \/ c.kind = "wait"
    BY DEF Interrupt
  <1>4. QED
    BY <1>1, <1>2, <1>3 DEF ClaimHasCarrier

LEMMA ClaimStep == TypeOK /\ ClaimHasCarrier /\ [Next]_vars => ClaimHasCarrier'
  <1> SUFFICES ASSUME TypeOK, ClaimHasCarrier, [Next]_vars PROVE ClaimHasCarrier'
    OBVIOUS
  <1>1. ASSUME claimed' = claimed, calls' = calls, carried' = carried
        PROVE  ClaimHasCarrier'
    BY <1>1 DEF ClaimHasCarrier
  <1>2. CASE ParentStarts \/ ParentSettles \/ Shutdown
    BY <1>1, <1>2 DEF ParentStarts, ParentSettles, Shutdown, recordVars, historyVars
  <1>3. ASSUME NEW a \in Agents, NEW first \in ActiveStatus, Spawn(a, first)
        PROVE  ClaimHasCarrier'
    BY <1>1, <1>3 DEF Spawn, Begin, historyVars
  <1>4. ASSUME NEW a \in Agents, SpawnAndWait(a) PROVE ClaimHasCarrier'
    BY <1>4, ClaimTaken DEF SpawnAndWait, Begin, historyVars
  <1>5. ASSUME NEW a \in Agents, Admit(a) \/ SendUpdate(a) \/ Stop(a) PROVE ClaimHasCarrier'
    BY <1>1, <1>5 DEF Admit, SendUpdate, Stop, recordVars, historyVars
  <1>6. ASSUME NEW a \in Agents, NEW k \in Runs, RunEnds(a, k) PROVE ClaimHasCarrier'
    BY <1>6, SettleCarries DEF RunEnds
  <1>7. ASSUME NEW a \in Agents, ThunkReturns(a) PROVE ClaimHasCarrier'
    BY <1>7, SettleCarries DEF ThunkReturns
  <1>8. ASSUME NEW a \in Agents, NEW kind, Resume(a, TRUE),
               calls' = calls \cup {Call(kind, a, cur[a] + 1)}
        PROVE  ClaimHasCarrier'
    <2>1. claimed' = [claimed EXCEPT ![a] = TRUE] /\ carried' = carried
      BY <1>8 DEF Resume, historyVars, TypeOK
    <2>2. QED
      BY <1>8, <2>1, ClaimTaken
  <1>9. ASSUME NEW a \in Agents, Resume(a, FALSE), calls' = calls
        PROVE  ClaimHasCarrier'
    <2>1. claimed' = claimed /\ carried' = carried
      BY <1>9 DEF Resume, historyVars, TypeOK
    <2>2. QED
      BY <1>1, <1>9, <2>1
  <1>10. ASSUME NEW a \in Agents, NEW wait \in BOOLEAN, GetResult(a, wait)
         PROVE  ClaimHasCarrier'
    <2>1. ASSUME NEW b \in Agents, claimed'[b]
          PROVE  claimed[b] \/ carried'[b]
      BY <1>10, <2>1 DEF GetResult, TypeOK
    <2>2. ASSUME NEW b \in Agents, carried[b]
          PROVE  carried'[b]
      BY <1>10, <2>2 DEF GetResult, TypeOK
    <2>3. calls' = calls
      BY <1>10 DEF GetResult
    <2>4. QED
      BY <2>1, <2>2, <2>3 DEF ClaimHasCarrier
  <1>11. ASSUME NEW a \in Agents, GetResultWaits(a) PROVE ClaimHasCarrier'
    BY <1>11, ClaimTaken DEF GetResultWaits, historyVars
  <1>12. CASE UNCHANGED vars
    BY <1>1, <1>12 DEF vars, recordVars, historyVars
  <1>13. QED
    BY <1>2, <1>3, <1>4, <1>5, <1>6, <1>7, <1>8, <1>9, <1>10, <1>11, <1>12, InterruptReleases
    DEF Next, ResumeTool, ServiceResume

(* A claim has a carrier: a call that waits, or one that has returned.     *)
THEOREM ClaimsAreCarried == Spec => []ClaimHasCarrier
  <1>1. Init => ClaimHasCarrier
    BY DEF Init, ClaimHasCarrier
  <1>2. QED
    BY <1>1, ClaimStep, TypeCorrect, PTL DEF Spec

=============================================================================
