----------------------- MODULE ParentTransitionProofs -----------------------
(***************************************************************************)
(* Theorems about ParentTransition: the types, the wholeness of the        *)
(* registry, the projection on the selected branch, and what a departing   *)
(* record no longer holds, for any tree, any children and any bounds.      *)
(***************************************************************************)
EXTENDS ParentTransition, TLAPS

-----------------------------------------------------------------------------
(* The registry's entries *)

\* All but the registry keeps its type.
TypedBut ==
    /\ at \in {"idle"} \cup Preparing \cup Reconciling \cup Leaving
    /\ leaf \in Entries /\ target \in Entries /\ gate \in BOOLEAN
    /\ departing \subseteq Records
    /\ loaded \subseteq Persisted /\ hidden \subseteq Persisted
    /\ spawned \subseteq Records /\ agents \subseteq Records /\ spec \subseteq Records
    /\ anchor \in [Records -> Entries]
    /\ status \in [Records -> Statuses]
    /\ stage \in [Records -> Stages]
    /\ session \in [Records -> Sessions]
    /\ prep \in [Records -> Preps]
    /\ result \in [Records -> Nat] /\ ended \in [Records -> Nat]
    /\ orphans \subseteq [id : Records, stage : Stages, open : BOOLEAN]
    /\ crashes \in Nat

LEMMA RegistryTyped ==
    ASSUME TypedBut
    PROVE  Registry \subseteq Persisted
<1>1. ASSUME NEW r \in agents PROVE Snapshot(r) \in Persisted
  <2>1. (r \in spec) \in BOOLEAN
    OBVIOUS
  <2>2. r \in Records /\ status[r] \in Statuses /\ result[r] \in Nat
    BY DEF TypedBut
  <2> QED
    BY <2>1, <2>2 DEF Snapshot, Persisted
<1> QED
  BY <1>1 DEF Registry, TypedBut

\* What is written is the registry as it is, or what was there.
Written == durable' \in {durable, Registry'}

LEMMA TypedBack ==
    ASSUME TypeOK, TypedBut', Written
    PROVE  TypeOK'
<1>1. (Registry \subseteq Persisted)'
  BY RegistryTyped, PTL
<1> QED
  BY <1>1 DEF TypeOK, TypedBut, Written
-----------------------------------------------------------------------------
(* Type correctness *)

LEMMA InitTyped == Init => TypeOK
<1> SUFFICES ASSUME Init PROVE TypeOK
  OBVIOUS
<1>1. /\ at \in Leaving /\ leaf \in Entries /\ target \in Entries
      /\ departing = {} /\ loaded = {} /\ hidden = {} /\ durable = {}
      /\ spawned = {} /\ agents = {} /\ spec = {} /\ orphans = {}
  BY DEF Init, Leaving
<1>2. gate \in BOOLEAN
  BY DEF Init
<1>3. anchor \in [Records -> Entries] /\ result \in [Records -> Nat] /\ ended \in [Records -> Nat]
  BY DEF Init
<1>4. status \in [Records -> Statuses] /\ stage \in [Records -> Stages]
  BY DEF Init, Statuses, Stages
<1>5. session \in [Records -> Sessions] /\ prep \in [Records -> Preps] /\ crashes \in Nat
  BY DEF Init, Sessions, Preps
<1> QED
  BY <1>1, <1>2, <1>3, <1>4, <1>5 DEF TypeOK

LEMMA SpawnTyped ==
    ASSUME TypeOK, NEW r \in Records, NEW queued \in BOOLEAN, Spawn(r, queued)
    PROVE  TypeOK'
<1>1. TypedBut'
  BY DEF Spawn, TypeOK, TypedBut, moveVars, Statuses, Stages
<1>2. Written
  BY DEF Spawn, Persist, Written
<1> QED
  BY <1>1, <1>2, TypedBack

LEMMA ChildTyped ==
    ASSUME TypeOK, NEW r \in Records, Child(r)
    PROVE  TypeOK'
<1>1. ASSUME NEW queued \in BOOLEAN, Spawn(r, queued) PROVE TypeOK'
  BY <1>1, SpawnTyped
<1>2. CASE StartQueued(r)
  <2>1. TypedBut'
    BY <1>2 DEF StartQueued, TypeOK, TypedBut, moveVars, mapVars, Statuses, Stages, Sessions, Preps
  <2>2. Written
    BY <1>2 DEF StartQueued, Persist, Written
  <2> QED
    BY <2>1, <2>2, TypedBack
<1>3. CASE SessionCreated(r)
  <2>1. TypedBut'
    BY <1>3 DEF SessionCreated, TypeOK, TypedBut, moveVars, mapVars, Statuses, Stages, Sessions, Preps
  <2>2. Written
    BY <1>3 DEF SessionCreated, Persist, Written
  <2> QED
    BY <2>1, <2>2, TypedBack
<1>4. CASE CreationFails(r)
  <2>1. TypedBut'
    BY <1>4 DEF CreationFails, TypeOK, TypedBut, moveVars, mapVars, Statuses, Stages, Sessions, Preps
  <2>2. Written
    BY <1>4 DEF CreationFails, Persist, Written
  <2> QED
    BY <2>1, <2>2, TypedBack
<1>5. CASE TurnEnds(r)
  <2>1. TypedBut'
    BY <1>5 DEF TurnEnds, TypeOK, TypedBut, moveVars, mapVars, Statuses, Stages, Sessions, Preps
  <2>2. Written
    BY <1>5 DEF TurnEnds, Persist, Written
  <2> QED
    BY <2>1, <2>2, TypedBack
<1>6. CASE Stop(r)
  <2>1. TypedBut'
    BY <1>6 DEF Stop, TypeOK, TypedBut, moveVars, mapVars, Statuses, Stages, Sessions, Preps, StopEach
  <2>2. Written
    BY <1>6 DEF Stop, Persist, Written
  <2> QED
    BY <2>1, <2>2, TypedBack
<1>7. CASE Resume(r)
  <2>1. TypedBut'
    BY <1>7 DEF Resume, TypeOK, TypedBut, moveVars, mapVars, Statuses, Stages, Sessions, Preps
  <2>2. Written
    BY <1>7 DEF Resume, Persist, Written
  <2> QED
    BY <2>1, <2>2, TypedBack
<1>8. CASE RestoreFails(r)
  <2>1. TypedBut'
    BY <1>8 DEF RestoreFails, TypeOK, TypedBut, moveVars, mapVars, Statuses, Stages, Sessions, Preps
  <2>2. Written
    BY <1>8 DEF RestoreFails, Persist, Written
  <2> QED
    BY <2>1, <2>2, TypedBack
<1>9. CASE Restored(r)
  <2>1. TypedBut'
    BY <1>9 DEF Restored, TypeOK, TypedBut, moveVars, mapVars, Statuses, Stages, Sessions, Preps
  <2>2. Written
    BY <1>9 DEF Restored, Persist, Written
  <2> QED
    BY <2>1, <2>2, TypedBack
<1>10. CASE Refused(r)
  <2>1. TypedBut'
    BY <1>10 DEF Refused, TypeOK, TypedBut, moveVars, mapVars, Statuses, Stages, Sessions, Preps
  <2>2. Written
    BY <1>10 DEF Refused, Persist, Written
  <2> QED
    BY <2>1, <2>2, TypedBack
<1>11. CASE TurnStarts(r)
  <2>1. TypedBut'
    BY <1>11 DEF TurnStarts, TypeOK, TypedBut, moveVars, mapVars, Statuses, Stages, Sessions, Preps
  <2>2. Written
    BY <1>11 DEF TurnStarts, Persist, Written
  <2> QED
    BY <2>1, <2>2, TypedBack
<1>12. CASE Sweep(r)
  <2>1. TypedBut'
    BY <1>12 DEF Sweep, TypeOK, TypedBut, moveVars, mapVars, Statuses, Stages, Sessions, Preps, ReleaseEach
  <2>2. Written
    BY <1>12 DEF Sweep, Persist, Written
  <2> QED
    BY <2>1, <2>2, TypedBack
<1>13. CASE Disposed(r)
  <2>1. TypedBut'
    BY <1>13 DEF Disposed, TypeOK, TypedBut, moveVars, mapVars, Statuses, Stages, Sessions, Preps
  <2>2. Written
    BY <1>13 DEF Disposed, Persist, Written
  <2> QED
    BY <2>1, <2>2, TypedBack
<1> QED
  BY <1>1, <1>2, <1>3, <1>4, <1>5, <1>6, <1>7, <1>8, <1>9, <1>10, <1>11, <1>12, <1>13 DEF Child

LEMMA IdsTyped ==
    ASSUME NEW S \in SUBSET Persisted
    PROVE  Ids(S) \subseteq Records
BY DEF Ids, Persisted

LEMMA OnBranchTyped ==
    ASSUME NEW S \in SUBSET Persisted
    PROVE  OnBranch(S) \in SUBSET Persisted
BY DEF OnBranch

LEMMA HydrateTyped ==
    ASSUME TypeOK, NEW S \in SUBSET Persisted, Hydrate(S)
    PROVE  /\ status' \in [Records -> Statuses]
           /\ result' \in [Records -> Nat]
           /\ spec' \subseteq Records
<1> DEFINE Of(r) == CHOOSE p \in S : p.id = r
<1>1. \A r \in Ids(S) : Of(r) \in S
  BY DEF Ids
<1>2. \A p \in S : p.status \in Statuses /\ p.result \in Nat
  BY DEF Persisted
<1>3. \A r \in Ids(S) : Of(r).status \in Statuses /\ Of(r).result \in Nat
  BY <1>1, <1>2
<1>4. \A was \in Statuses : Restore(was) \in Statuses
  BY DEF Restore, Statuses
<1>5. Ids({p \in S : p.spec}) \subseteq Records
  BY DEF Ids, Persisted
<1>6. status' = [r \in Records |-> IF r \in Ids(S) THEN Restore(Of(r).status) ELSE status[r]]
  BY DEF Hydrate
<1>7. result' = [r \in Records |-> IF r \in Ids(S) THEN Of(r).result ELSE result[r]]
  BY DEF Hydrate
<1>8. status' \in [Records -> Statuses] /\ result' \in [Records -> Nat]
  <2> HIDE DEF Of
  <2>1. status \in [Records -> Statuses] /\ result \in [Records -> Nat]
    BY DEF TypeOK
  <2> QED
    BY <2>1, <1>3, <1>4, <1>6, <1>7
<1>9. spec' \subseteq Records
  BY <1>5 DEF Hydrate, TypeOK
<1> QED
  BY <1>8, <1>9

LEMMA ForgetTyped ==
    ASSUME TypeOK, NEW S \in SUBSET Records, Forget(S)
    PROVE  /\ stage' \in [Records -> Stages]
           /\ session' \in [Records -> Sessions]
           /\ prep' \in [Records -> Preps]
           /\ orphans' \subseteq [id : Records, stage : Stages, open : BOOLEAN]
<1>1. stage' \in [Records -> Stages] /\ session' \in [Records -> Sessions]
      /\ prep' \in [Records -> Preps]
  BY DEF Forget, TypeOK, Stages, Sessions, Preps
<1>2. ASSUME NEW r \in S
      PROVE  [id |-> r, stage |-> stage[r], open |-> session[r] = "open"]
                 \in [id : Records, stage : Stages, open : BOOLEAN]
  <2>1. (session[r] = "open") \in BOOLEAN
    OBVIOUS
  <2>2. r \in Records /\ stage[r] \in Stages
    BY DEF TypeOK
  <2> QED
    BY <2>1, <2>2
<1>3. orphans' = orphans \cup
         {[id |-> r, stage |-> stage[r], open |-> session[r] = "open"] :
             r \in {s \in S : stage[s] # "idle" \/ session[s] = "open"}}
  BY DEF Forget
<1> QED
  BY <1>1, <1>2, <1>3 DEF TypeOK

LEMMA UnbornTyped ==
    ASSUME TypeOK, NEW S \in SUBSET Records, Unborn(S)
    PROVE  /\ status' \in [Records -> Statuses]
           /\ result' \in [Records -> Nat]
           /\ spec' \subseteq Records
BY DEF Unborn, TypeOK, Statuses

\* Every step of a transition but the two that hydrate and the two that forget.
LEMMA TransitionTyped ==
    ASSUME TypeOK,
           \/ \E t \in Entries : BeforeTree(t)
           \/ StopDeparting \/ ReleaseDeparting \/ TreePrepared \/ TreeCancelled \/ TreeCommitted
           \/ Reconcile \/ StopAdmitted \/ ReleaseAdmitted
           \/ BeforeSwitch \/ StopAll \/ ReleaseAll
    PROVE  TypeOK'
<1>1. ASSUME NEW t \in Entries, BeforeTree(t) PROVE TypeOK'
  <2>1. TypedBut'
    BY <1>1 DEF BeforeTree, TypeOK, TypedBut, objectVars, mapVars, Preparing, Reconciling, Leaving, Statuses, Stages, Sessions
  <2>2. Written
    BY <1>1 DEF BeforeTree, Written
  <2> QED
    BY <2>1, <2>2, TypedBack
<1>2. CASE StopDeparting
  <2>1. TypedBut'
    BY <1>2 DEF StopDeparting, TypeOK, TypedBut, objectVars, mapVars, Preparing, Reconciling, Leaving, Statuses, Stages, Sessions, StopEach
  <2>2. Written
    BY <1>2 DEF StopDeparting, Persist, Written
  <2> QED
    BY <2>1, <2>2, TypedBack
<1>3. CASE ReleaseDeparting
  <2>1. TypedBut'
    BY <1>3 DEF ReleaseDeparting, TypeOK, TypedBut, objectVars, mapVars, Preparing, Reconciling, Leaving, Statuses, Stages, Sessions, ReleaseEach
  <2>2. Written
    BY <1>3 DEF ReleaseDeparting, Persist, Written
  <2> QED
    BY <2>1, <2>2, TypedBack
<1>4. CASE TreePrepared
  <2>1. TypedBut'
    BY <1>4 DEF TreePrepared, TypeOK, TypedBut, objectVars, mapVars, Preparing, Reconciling, Leaving, Statuses, Stages, Sessions
  <2>2. Written
    BY <1>4 DEF TreePrepared, Persist, Written
  <2> QED
    BY <2>1, <2>2, TypedBack
<1>5. CASE TreeCancelled
  <2>1. TypedBut'
    BY <1>5 DEF TreeCancelled, TypeOK, TypedBut, objectVars, mapVars, Preparing, Reconciling, Leaving, Statuses, Stages, Sessions
  <2>2. Written
    BY <1>5 DEF TreeCancelled, Persist, Written
  <2> QED
    BY <2>1, <2>2, TypedBack
<1>6. CASE TreeCommitted
  <2>1. TypedBut'
    BY <1>6 DEF TreeCommitted, TypeOK, TypedBut, objectVars, mapVars, Preparing, Reconciling, Leaving, Statuses, Stages, Sessions
  <2>2. Written
    BY <1>6 DEF TreeCommitted, Persist, Written
  <2> QED
    BY <2>1, <2>2, TypedBack
<1>7. CASE Reconcile
  <2>0. Registry \subseteq Persisted
    BY RegistryTyped DEF TypeOK, TypedBut
  <2>1. TypedBut'
    BY <2>0, <1>7 DEF Reconcile, TypeOK, TypedBut, objectVars, mapVars, Preparing, Reconciling, Leaving, Statuses, Stages, Sessions
  <2>2. Written
    BY <1>7 DEF Reconcile, Persist, Written
  <2> QED
    BY <2>1, <2>2, TypedBack
<1>8. CASE StopAdmitted
  <2>1. TypedBut'
    BY <1>8 DEF StopAdmitted, TypeOK, TypedBut, objectVars, mapVars, Preparing, Reconciling, Leaving, Statuses, Stages, Sessions, StopEach
  <2>2. Written
    BY <1>8 DEF StopAdmitted, Persist, Written
  <2> QED
    BY <2>1, <2>2, TypedBack
<1>9. CASE ReleaseAdmitted
  <2>1. TypedBut'
    BY <1>9 DEF ReleaseAdmitted, TypeOK, TypedBut, objectVars, mapVars, Preparing, Reconciling, Leaving, Statuses, Stages, Sessions, ReleaseEach
  <2>2. Written
    BY <1>9 DEF ReleaseAdmitted, Persist, Written
  <2> QED
    BY <2>1, <2>2, TypedBack
<1>10. CASE BeforeSwitch
  <2>1. TypedBut'
    BY <1>10 DEF BeforeSwitch, TypeOK, TypedBut, objectVars, mapVars, Preparing, Reconciling, Leaving, Statuses, Stages, Sessions
  <2>2. Written
    BY <1>10 DEF BeforeSwitch, Persist, Written
  <2> QED
    BY <2>1, <2>2, TypedBack
<1>11. CASE StopAll
  <2>1. TypedBut'
    BY <1>11 DEF StopAll, TypeOK, TypedBut, objectVars, mapVars, Preparing, Reconciling, Leaving, Statuses, Stages, Sessions, StopEach
  <2>2. Written
    BY <1>11 DEF StopAll, Persist, Written
  <2> QED
    BY <2>1, <2>2, TypedBack
<1>12. CASE ReleaseAll
  <2>1. TypedBut'
    BY <1>12 DEF ReleaseAll, TypeOK, TypedBut, objectVars, mapVars, Preparing, Reconciling, Leaving, Statuses, Stages, Sessions, ReleaseEach
  <2>2. Written
    BY <1>12 DEF ReleaseAll, Persist, Written
  <2> QED
    BY <2>1, <2>2, TypedBack
<1> QED
  BY <1>1, <1>2, <1>3, <1>4, <1>5, <1>6, <1>7, <1>8, <1>9, <1>10, <1>11, <1>12

LEMMA ProjectTyped ==
    ASSUME TypeOK, Project
    PROVE  TypeOK'
<1> DEFINE back == {p \in OnBranch(loaded) : p.id \notin agents \ departing}
<1>1. back \in SUBSET Persisted /\ loaded \in SUBSET Persisted
  BY DEF OnBranch, TypeOK
<1>2. /\ at' = "idle" /\ departing' = {} /\ loaded' = {}
      /\ agents' = (agents \ departing) \cup Ids(back)
      /\ hidden' = StaysHidden
      /\ Forget(departing)
      /\ Hydrate(back)
      /\ UNCHANGED <<leaf, target, gate, spawned, anchor, ended, crashes>>
      /\ Persist
  BY DEF Project
<1>3. Ids(back) \subseteq Records
  BY <1>1, IdsTyped
<1>4. \A r \in departing : Snapshot(r) \in Persisted
  <2>1. SUFFICES ASSUME NEW r \in departing PROVE Snapshot(r) \in Persisted
    OBVIOUS
  <2>2. (r \in spec) \in BOOLEAN
    OBVIOUS
  <2>3. r \in Records /\ status[r] \in Statuses /\ result[r] \in Nat
    BY DEF TypeOK
  <2> QED
    BY <2>2, <2>3 DEF Snapshot, Persisted
<1>5. hidden' \subseteq Persisted
  BY <1>1, <1>2, <1>4 DEF StaysHidden
<1>6. /\ stage' \in [Records -> Stages]
      /\ session' \in [Records -> Sessions]
      /\ prep' \in [Records -> Preps]
      /\ orphans' \subseteq [id : Records, stage : Stages, open : BOOLEAN]
  BY <1>2, ForgetTyped DEF TypeOK
<1>7. /\ status' \in [Records -> Statuses]
      /\ result' \in [Records -> Nat]
      /\ spec' \subseteq Records
  <2> HIDE DEF back
  <2> QED
    BY <1>1, <1>2, HydrateTyped
<1>8. agents' \subseteq Records
  BY <1>2, <1>3 DEF TypeOK
<1>9. TypedBut'
  BY <1>2, <1>5, <1>6, <1>7, <1>8 DEF TypeOK, TypedBut
<1>10. Written
  BY <1>2 DEF Persist, Written
<1> QED
  BY <1>9, <1>10, TypedBack

LEMMA DeactivatedTyped ==
    ASSUME TypeOK, Deactivated
    PROVE  TypeOK'
<1>1. Registry \subseteq Persisted
  BY RegistryTyped DEF TypeOK, TypedBut
<1>2. /\ stage' \in [Records -> Stages]
      /\ session' \in [Records -> Sessions]
      /\ prep' \in [Records -> Preps]
      /\ orphans' \subseteq [id : Records, stage : Stages, open : BOOLEAN]
  BY ForgetTyped DEF Deactivated, TypeOK
<1>3. /\ status' \in [Records -> Statuses]
      /\ result' \in [Records -> Nat]
      /\ spec' \subseteq Records
  BY UnbornTyped DEF Deactivated, TypeOK
<1> QED
  BY <1>1, <1>2, <1>3 DEF Deactivated, TypeOK, Leaving

LEMMA ActivateTyped ==
    ASSUME TypeOK, Activate
    PROVE  TypeOK'
<1>1. OnBranch(durable) \in SUBSET Persisted
  BY OnBranchTyped DEF TypeOK
<1>2. Ids(OnBranch(durable)) \subseteq Records
  BY <1>1, IdsTyped
<1>3. /\ status' \in [Records -> Statuses]
      /\ result' \in [Records -> Nat]
      /\ spec' \subseteq Records
  BY <1>1, HydrateTyped DEF Activate
<1>4. TypedBut'
  BY <1>2, <1>3 DEF Activate, TypeOK, TypedBut
<1>5. Written
  BY DEF Activate, Written
<1> QED
  BY <1>4, <1>5, TypedBack

LEMMA CrashTyped ==
    ASSUME TypeOK, Crash
    PROVE  TypeOK'
<1>1. /\ status' \in [Records -> Statuses]
      /\ result' \in [Records -> Nat]
      /\ spec' \subseteq Records
  BY UnbornTyped DEF Crash
<1>2. gate' \in BOOLEAN
  BY DEF Crash
<1>3. /\ stage' \in [Records -> Stages]
      /\ session' \in [Records -> Sessions]
      /\ prep' \in [Records -> Preps]
  BY DEF Crash, Stages, Sessions, Preps
<1>4. crashes' \in Nat
  BY DEF Crash, TypeOK
<1>5. at' \in Leaving /\ target' \in Entries
  BY DEF Crash, Leaving, TypeOK
<1> QED
  BY <1>1, <1>2, <1>3, <1>4, <1>5 DEF Crash, TypeOK

LEMMA OrphanTyped ==
    ASSUME TypeOK, NEW o \in orphans, OrphanEnds(o)
    PROVE  TypeOK'
<1>1. TypedBut'
  BY DEF OrphanEnds, TypeOK, TypedBut, moveVars, objectVars, mapVars
<1>2. Written
  BY DEF OrphanEnds, Persist, Written
<1> QED
  BY <1>1, <1>2, TypedBack

LEMMA NextTyped == TypeOK /\ [Next]_vars => TypeOK'
<1> SUFFICES ASSUME TypeOK, [Next]_vars PROVE TypeOK'
  OBVIOUS
<1>1. ASSUME NEW r \in Records, Child(r) PROVE TypeOK'
  BY <1>1, ChildTyped
<1>2. ASSUME NEW o \in orphans, OrphanEnds(o) PROVE TypeOK'
  BY <1>2, OrphanTyped
<1>3. CASE (\E t \in Entries : BeforeTree(t)) \/ BeforeSwitch
  BY <1>3, TransitionTyped
<1>4. CASE Navigation
  BY <1>4, TransitionTyped, ProjectTyped DEF Navigation
<1>5. CASE Switch
  BY <1>5, TransitionTyped, DeactivatedTyped, ActivateTyped DEF Switch
<1>6. CASE Crash
  BY <1>6, CrashTyped
<1>7. CASE UNCHANGED vars
  BY <1>7 DEF vars, moveVars, objectVars, mapVars, TypeOK
<1> QED
  BY <1>1, <1>2, <1>3, <1>4, <1>5, <1>6, <1>7 DEF Next

\* Every variable keeps its type, whatever the tree, the children and the bounds.
THEOREM TypeCorrect == Spec => []TypeOK
<1>1. Init => TypeOK
  BY InitTyped
<1>2. TypeOK /\ [Next]_vars => TypeOK'
  BY NextTyped
<1> QED
  BY <1>1, <1>2, PTL DEF Spec

-----------------------------------------------------------------------------
(* The inductive invariant *)

\* Between two sessions the manager holds nothing; else hiddenRecords and the map share out
\* the children, and both have the outcomes.
HiddenFits ==
    /\ \A p, q \in hidden : p.id = q.id => p = q
    /\ \A p \in hidden : p.id \notin agents /\ p.result = ended[p.id]
    /\ at # "between" => Ids(hidden) \cup agents = spawned
    /\ at = "between" => agents = {} /\ hidden = {}

AgentsFit ==
    /\ agents \subseteq spawned
    /\ \A r \in agents : result[r] = ended[r]
    /\ \A r \in Records \ spawned : result[r] = 0 /\ ended[r] = 0

\* What the manager does not hold, or has not started, does not run.
OthersIdle ==
    \A r \in Records \ agents : stage[r] = "idle" /\ session[r] = "none" /\ prep[r] = "none"

QueuedWaits == \A r \in Records : stage[r] = "waiting" => status[r] = "queued"

\* A navigation being prepared settles held records that its target does not share.
GateFits ==
    at \in {"preparing", "settling", "releasing"} =>
        /\ gate
        /\ departing \subseteq agents
        /\ \A r \in departing : anchor[r] \notin SharedWith(target)

\* A reconciliation works on what it read: the held records off the branch depart, and the
\* entries it read of other records are still those of hiddenRecords.
LoadedFits ==
    at \in {"reconciling", "draining", "clearing"} =>
        /\ departing \subseteq agents
        /\ \A r \in agents : r \in departing <=> ~Visible(r)
        /\ \A p, q \in loaded : p.id = q.id => p = q
        /\ hidden \subseteq loaded
        /\ \A p \in loaded : p.id \in spawned /\ (p.id \notin agents => p \in hidden)

\* What has been stopped stays so, and what has settled is not started again.
Drained ==
    /\ at \in {"settling", "releasing", "draining", "clearing"} =>
          \A r \in departing : prep[r] = "none" /\ ~Active(r)
    /\ at \in {"releasing", "clearing"} =>
          \A r \in departing : stage[r] = "idle" /\ session[r] # "open"

IInv ==
    /\ TypeOK
    /\ HiddenFits
    /\ AgentsFit
    /\ OthersIdle
    /\ QueuedWaits
    /\ GateFits
    /\ LoadedFits
    /\ Drained
    /\ RegistryIsWhole
    /\ ProjectionFollowsLeaf

LEMMA InitInv == Init => IInv
<1> SUFFICES ASSUME Init PROVE IInv
  OBVIOUS
<1>1. TypeOK
  BY InitTyped
<1> QED
  BY <1>1 DEF Init, IInv, HiddenFits, AgentsFit, OthersIdle, QueuedWaits, GateFits, LoadedFits,
     Drained, RegistryIsWhole, ProjectionFollowsLeaf, Ids

\* What the manager holds between two awaits is a whole registry.
LEMMA HeldIsWhole ==
    ASSUME TypeOK, HiddenFits, AgentsFit, at # "between"
    PROVE  /\ Ids(Registry) = spawned
           /\ \A p, q \in Registry : p.id = q.id => p = q
           /\ \A p \in Registry : p.result = ended[p.id]
<1>1. \A r \in agents : Snapshot(r).id = r /\ Snapshot(r).result = ended[r]
  BY DEF Snapshot, AgentsFit
<1>2. Ids(Registry) = Ids(hidden) \cup agents
  BY <1>1 DEF Registry, Ids
<1>3. \A p \in Registry : p \in hidden \/ (p.id \in agents /\ p = Snapshot(p.id))
  BY <1>1 DEF Registry
<1>4. \A p, q \in Registry : p.id = q.id => p = q
  BY <1>3 DEF HiddenFits
<1>5. \A p \in Registry : p.result = ended[p.id]
  BY <1>1, <1>3 DEF HiddenFits
<1> QED
  BY <1>2, <1>4, <1>5 DEF HiddenFits

LEMMA WrittenIsWhole ==
    TypeOK /\ HiddenFits /\ AgentsFit /\ at # "between" /\ durable = Registry => RegistryIsWhole
BY HeldIsWhole DEF RegistryIsWhole

\* A write, or a step that ends no turn and admits no child, keeps the registry whole.
Kept ==
    \/ at' # "between" /\ durable' = Registry'
    \/ UNCHANGED <<durable, ended, spawned>>

LEMMA KeptIsWhole ==
    ASSUME RegistryIsWhole, TypeOK', HiddenFits', AgentsFit', Kept
    PROVE  RegistryIsWhole'
<1>1. CASE at' # "between" /\ durable' = Registry'
  <2>1. (TypeOK /\ HiddenFits /\ AgentsFit /\ at # "between" /\ durable = Registry)'
    BY <1>1
  <2> QED
    BY <2>1, WrittenIsWhole, PTL
<1>2. CASE UNCHANGED <<durable, ended, spawned>>
  BY <1>2 DEF RegistryIsWhole, Ids
<1> QED
  BY <1>1, <1>2 DEF Kept

-----------------------------------------------------------------------------
(* The steps of the children *)

\* A step of a child the manager holds: it moves nothing in the manager.
LEMMA HeldChildStep ==
    ASSUME IInv, TypeOK',
           UNCHANGED <<moveVars, mapVars>>,
           AgentsFit', OthersIdle', QueuedWaits', Drained', Kept,
           \A x \in Records \ agents : ended'[x] = ended[x]
    PROVE  IInv'
<1>1. HiddenFits'
  <2>1. \A p \in hidden : p.id \in Records \ agents
    BY DEF IInv, HiddenFits, TypeOK, Persisted
  <2> QED
    BY <2>1 DEF IInv, HiddenFits, moveVars, mapVars, Ids
<1>2. GateFits'
  BY DEF IInv, GateFits, SharedWith, moveVars, mapVars
<1>3. LoadedFits'
  BY DEF IInv, LoadedFits, Visible, moveVars, mapVars
<1>4. ProjectionFollowsLeaf'
  BY DEF IInv, ProjectionFollowsLeaf, Visible, Ids, moveVars, mapVars
<1>5. RegistryIsWhole'
  BY <1>1, KeptIsWhole DEF IInv
<1> QED
  BY <1>1, <1>2, <1>3, <1>4, <1>5 DEF IInv

LEMMA HeldChildren ==
    ASSUME IInv, NEW r \in Records,
           \/ StartQueued(r) \/ SessionCreated(r) \/ CreationFails(r) \/ TurnEnds(r) \/ Stop(r)
           \/ Resume(r) \/ RestoreFails(r) \/ Restored(r) \/ Refused(r) \/ TurnStarts(r)
           \/ Sweep(r) \/ Disposed(r)
    PROVE  IInv'
<1>1. TypeOK /\ TypeOK'
  BY ChildTyped DEF IInv, Child
<1>2. stage[r] # "idle" \/ session[r] # "none" \/ prep[r] # "none" => r \in agents
  BY DEF IInv, OthersIdle
<1>3. r \in agents => at # "between"
  BY DEF IInv, HiddenFits
<1>4. at \in {"settling", "releasing"} => gate
  BY DEF IInv, GateFits
<1>5. r \in departing /\ at \in {"draining", "clearing"} => ~Visible(r)
  BY DEF IInv, LoadedFits
<1>6. r \in departing /\ at \in {"settling", "releasing", "draining", "clearing"} =>
         prep[r] = "none" /\ ~Active(r)
  BY DEF IInv, Drained
<1>7. r \in departing /\ at \in {"releasing", "clearing"} => stage[r] = "idle" /\ session[r] # "open"
  BY DEF IInv, Drained
<1>8. stage[r] = "waiting" => status[r] = "queued"
  BY DEF IInv, QueuedWaits
<1>9. CASE StartQueued(r)
  <2>1. r \in agents
    BY <1>2, <1>9 DEF StartQueued
  <2>2. UNCHANGED <<moveVars, mapVars>>
    BY <1>9 DEF StartQueued
  <2>3. AgentsFit'
    BY <1>1, <1>9, <2>1 DEF StartQueued, IInv, AgentsFit, TypeOK, mapVars
  <2>4. OthersIdle'
    BY <1>1, <1>9, <2>1 DEF StartQueued, IInv, OthersIdle, TypeOK, mapVars
  <2>5. QueuedWaits'
    BY <1>1, <1>9 DEF StartQueued, IInv, QueuedWaits, TypeOK
  <2>6. Drained'
    BY <1>1, <1>4, <1>5, <1>6, <1>7, <1>8, <1>9 DEF StartQueued, IInv, Drained, Active, TypeOK, moveVars
  <2>7. Kept
    BY <1>3, <1>9, <2>1 DEF StartQueued, Kept, Persist, moveVars, mapVars
  <2>8. \A x \in Records \ agents : ended'[x] = ended[x]
    BY <1>1, <1>9, <2>1 DEF StartQueued, TypeOK
  <2> QED
    BY <1>1, <2>2, <2>3, <2>4, <2>5, <2>6, <2>7, <2>8, HeldChildStep
<1>10. CASE SessionCreated(r)
  <2>1. r \in agents
    BY <1>2, <1>10 DEF SessionCreated
  <2>2. UNCHANGED <<moveVars, mapVars>>
    BY <1>10 DEF SessionCreated
  <2>3. AgentsFit'
    BY <1>1, <1>10, <2>1 DEF SessionCreated, IInv, AgentsFit, TypeOK, mapVars
  <2>4. OthersIdle'
    BY <1>1, <1>10, <2>1 DEF SessionCreated, IInv, OthersIdle, TypeOK, mapVars
  <2>5. QueuedWaits'
    BY <1>1, <1>10 DEF SessionCreated, IInv, QueuedWaits, TypeOK
  <2>6. Drained'
    BY <1>1, <1>4, <1>5, <1>6, <1>7, <1>8, <1>10 DEF SessionCreated, IInv, Drained, Active, TypeOK, moveVars
  <2>7. Kept
    BY <1>3, <1>10, <2>1 DEF SessionCreated, Kept, Persist, moveVars, mapVars
  <2>8. \A x \in Records \ agents : ended'[x] = ended[x]
    BY <1>1, <1>10, <2>1 DEF SessionCreated, TypeOK
  <2> QED
    BY <1>1, <2>2, <2>3, <2>4, <2>5, <2>6, <2>7, <2>8, HeldChildStep
<1>11. CASE CreationFails(r)
  <2>1. r \in agents
    BY <1>2, <1>11 DEF CreationFails
  <2>2. UNCHANGED <<moveVars, mapVars>>
    BY <1>11 DEF CreationFails
  <2>3. AgentsFit'
    BY <1>1, <1>11, <2>1 DEF CreationFails, IInv, AgentsFit, TypeOK, mapVars
  <2>4. OthersIdle'
    BY <1>1, <1>11, <2>1 DEF CreationFails, IInv, OthersIdle, TypeOK, mapVars
  <2>5. QueuedWaits'
    BY <1>1, <1>11 DEF CreationFails, IInv, QueuedWaits, TypeOK
  <2>6. Drained'
    BY <1>1, <1>4, <1>5, <1>6, <1>7, <1>8, <1>11 DEF CreationFails, IInv, Drained, Active, TypeOK, moveVars
  <2>7. Kept
    BY <1>3, <1>11, <2>1 DEF CreationFails, Kept, Persist, moveVars, mapVars
  <2>8. \A x \in Records \ agents : ended'[x] = ended[x]
    BY <1>1, <1>11, <2>1 DEF CreationFails, TypeOK
  <2> QED
    BY <1>1, <2>2, <2>3, <2>4, <2>5, <2>6, <2>7, <2>8, HeldChildStep
<1>12. CASE TurnEnds(r)
  <2>1. r \in agents
    BY <1>2, <1>12 DEF TurnEnds
  <2>2. UNCHANGED <<moveVars, mapVars>>
    BY <1>12 DEF TurnEnds
  <2>3. AgentsFit'
    BY <1>1, <1>12, <2>1 DEF TurnEnds, IInv, AgentsFit, TypeOK, mapVars
  <2>4. OthersIdle'
    BY <1>1, <1>12, <2>1 DEF TurnEnds, IInv, OthersIdle, TypeOK, mapVars
  <2>5. QueuedWaits'
    BY <1>1, <1>12 DEF TurnEnds, IInv, QueuedWaits, TypeOK
  <2>6. Drained'
    BY <1>1, <1>4, <1>5, <1>6, <1>7, <1>8, <1>12 DEF TurnEnds, IInv, Drained, Active, TypeOK, moveVars
  <2>7. Kept
    BY <1>3, <1>12, <2>1 DEF TurnEnds, Kept, Persist, moveVars, mapVars
  <2>8. \A x \in Records \ agents : ended'[x] = ended[x]
    BY <1>1, <1>12, <2>1 DEF TurnEnds, TypeOK
  <2> QED
    BY <1>1, <2>2, <2>3, <2>4, <2>5, <2>6, <2>7, <2>8, HeldChildStep
<1>13. CASE Stop(r)
  <2>1. r \in agents
    BY <1>2, <1>13 DEF Stop
  <2>2. UNCHANGED <<moveVars, mapVars>>
    BY <1>13 DEF Stop
  <2>3. AgentsFit'
    BY <1>1, <1>13, <2>1 DEF Stop, IInv, AgentsFit, TypeOK, mapVars
  <2>4. OthersIdle'
    BY <1>1, <1>13, <2>1 DEF Stop, IInv, OthersIdle, TypeOK, mapVars, StopEach, Active
  <2>5. QueuedWaits'
    BY <1>1, <1>13 DEF Stop, IInv, QueuedWaits, TypeOK, StopEach, Active
  <2>6. Drained'
    BY <1>1, <1>4, <1>5, <1>6, <1>7, <1>8, <1>13 DEF Stop, IInv, Drained, Active, TypeOK, moveVars, StopEach
  <2>7. Kept
    BY <1>3, <1>13, <2>1 DEF Stop, Kept, Persist, moveVars, mapVars
  <2>8. \A x \in Records \ agents : ended'[x] = ended[x]
    BY <1>1, <1>13, <2>1 DEF Stop, TypeOK
  <2> QED
    BY <1>1, <2>2, <2>3, <2>4, <2>5, <2>6, <2>7, <2>8, HeldChildStep
<1>14. CASE Resume(r)
  <2>1. r \in agents
    BY <1>2, <1>14 DEF Resume
  <2>2. UNCHANGED <<moveVars, mapVars>>
    BY <1>14 DEF Resume
  <2>3. AgentsFit'
    BY <1>1, <1>14, <2>1 DEF Resume, IInv, AgentsFit, TypeOK, mapVars
  <2>4. OthersIdle'
    BY <1>1, <1>14, <2>1 DEF Resume, IInv, OthersIdle, TypeOK, mapVars
  <2>5. QueuedWaits'
    BY <1>1, <1>14 DEF Resume, IInv, QueuedWaits, TypeOK
  <2>6. Drained'
    BY <1>1, <1>4, <1>5, <1>6, <1>7, <1>8, <1>14 DEF Resume, IInv, Drained, Active, TypeOK, moveVars
  <2>7. Kept
    BY <1>3, <1>14, <2>1 DEF Resume, Kept, Persist, moveVars, mapVars
  <2>8. \A x \in Records \ agents : ended'[x] = ended[x]
    BY <1>1, <1>14, <2>1 DEF Resume, TypeOK
  <2> QED
    BY <1>1, <2>2, <2>3, <2>4, <2>5, <2>6, <2>7, <2>8, HeldChildStep
<1>15. CASE RestoreFails(r)
  <2>1. r \in agents
    BY <1>2, <1>15 DEF RestoreFails
  <2>2. UNCHANGED <<moveVars, mapVars>>
    BY <1>15 DEF RestoreFails
  <2>3. AgentsFit'
    BY <1>1, <1>15, <2>1 DEF RestoreFails, IInv, AgentsFit, TypeOK, mapVars
  <2>4. OthersIdle'
    BY <1>1, <1>15, <2>1 DEF RestoreFails, IInv, OthersIdle, TypeOK, mapVars, Revalidated
  <2>5. QueuedWaits'
    BY <1>1, <1>15 DEF RestoreFails, IInv, QueuedWaits, TypeOK, Revalidated
  <2>6. Drained'
    BY <1>1, <1>4, <1>5, <1>6, <1>7, <1>8, <1>15 DEF RestoreFails, IInv, Drained, Active, TypeOK, moveVars, Revalidated
  <2>7. Kept
    BY <1>3, <1>15, <2>1 DEF RestoreFails, Kept, Persist, moveVars, mapVars
  <2>8. \A x \in Records \ agents : ended'[x] = ended[x]
    BY <1>1, <1>15, <2>1 DEF RestoreFails, TypeOK
  <2> QED
    BY <1>1, <2>2, <2>3, <2>4, <2>5, <2>6, <2>7, <2>8, HeldChildStep
<1>16. CASE Restored(r)
  <2>1. r \in agents
    BY <1>2, <1>16 DEF Restored
  <2>2. UNCHANGED <<moveVars, mapVars>>
    BY <1>16 DEF Restored
  <2>3. AgentsFit'
    BY <1>1, <1>16, <2>1 DEF Restored, IInv, AgentsFit, TypeOK, mapVars
  <2>4. OthersIdle'
    BY <1>1, <1>16, <2>1 DEF Restored, IInv, OthersIdle, TypeOK, mapVars, Revalidated
  <2>5. QueuedWaits'
    BY <1>1, <1>16 DEF Restored, IInv, QueuedWaits, TypeOK, Revalidated
  <2>6. Drained'
    BY <1>1, <1>4, <1>5, <1>6, <1>7, <1>8, <1>16 DEF Restored, IInv, Drained, Active, TypeOK, moveVars, Revalidated
  <2>7. Kept
    BY <1>3, <1>16, <2>1 DEF Restored, Kept, Persist, moveVars, mapVars
  <2>8. \A x \in Records \ agents : ended'[x] = ended[x]
    BY <1>1, <1>16, <2>1 DEF Restored, TypeOK
  <2> QED
    BY <1>1, <2>2, <2>3, <2>4, <2>5, <2>6, <2>7, <2>8, HeldChildStep
<1>17. CASE Refused(r)
  <2>1. r \in agents
    BY <1>2, <1>17 DEF Refused
  <2>2. UNCHANGED <<moveVars, mapVars>>
    BY <1>17 DEF Refused
  <2>3. AgentsFit'
    BY <1>1, <1>17, <2>1 DEF Refused, IInv, AgentsFit, TypeOK, mapVars
  <2>4. OthersIdle'
    BY <1>1, <1>17, <2>1 DEF Refused, IInv, OthersIdle, TypeOK, mapVars
  <2>5. QueuedWaits'
    BY <1>1, <1>17 DEF Refused, IInv, QueuedWaits, TypeOK
  <2>6. Drained'
    BY <1>1, <1>4, <1>5, <1>6, <1>7, <1>8, <1>17 DEF Refused, IInv, Drained, Active, TypeOK, moveVars
  <2>7. Kept
    BY <1>3, <1>17, <2>1 DEF Refused, Kept, Persist, moveVars, mapVars
  <2>8. \A x \in Records \ agents : ended'[x] = ended[x]
    BY <1>1, <1>17, <2>1 DEF Refused, TypeOK
  <2> QED
    BY <1>1, <2>2, <2>3, <2>4, <2>5, <2>6, <2>7, <2>8, HeldChildStep
<1>18. CASE TurnStarts(r)
  <2>1. r \in agents
    BY <1>2, <1>18 DEF TurnStarts
  <2>2. UNCHANGED <<moveVars, mapVars>>
    BY <1>18 DEF TurnStarts
  <2>3. AgentsFit'
    BY <1>1, <1>18, <2>1 DEF TurnStarts, IInv, AgentsFit, TypeOK, mapVars
  <2>4. OthersIdle'
    BY <1>1, <1>18, <2>1 DEF TurnStarts, IInv, OthersIdle, TypeOK, mapVars
  <2>5. QueuedWaits'
    BY <1>1, <1>18 DEF TurnStarts, IInv, QueuedWaits, TypeOK
  <2>6. Drained'
    BY <1>1, <1>4, <1>5, <1>6, <1>7, <1>8, <1>18 DEF TurnStarts, IInv, Drained, Active, TypeOK, moveVars
  <2>7. Kept
    BY <1>3, <1>18, <2>1 DEF TurnStarts, Kept, Persist, moveVars, mapVars
  <2>8. \A x \in Records \ agents : ended'[x] = ended[x]
    BY <1>1, <1>18, <2>1 DEF TurnStarts, TypeOK
  <2> QED
    BY <1>1, <2>2, <2>3, <2>4, <2>5, <2>6, <2>7, <2>8, HeldChildStep
<1>19. CASE Sweep(r)
  <2>1. r \in agents
    BY <1>2, <1>19 DEF Sweep
  <2>2. UNCHANGED <<moveVars, mapVars>>
    BY <1>19 DEF Sweep
  <2>3. AgentsFit'
    BY <1>1, <1>19, <2>1 DEF Sweep, IInv, AgentsFit, TypeOK, mapVars
  <2>4. OthersIdle'
    BY <1>1, <1>19, <2>1 DEF Sweep, IInv, OthersIdle, TypeOK, mapVars, ReleaseEach
  <2>5. QueuedWaits'
    BY <1>1, <1>19 DEF Sweep, IInv, QueuedWaits, TypeOK, ReleaseEach
  <2>6. Drained'
    BY <1>1, <1>4, <1>5, <1>6, <1>7, <1>8, <1>19 DEF Sweep, IInv, Drained, Active, TypeOK, moveVars, ReleaseEach
  <2>7. Kept
    BY <1>3, <1>19, <2>1 DEF Sweep, Kept, Persist, moveVars, mapVars
  <2>8. \A x \in Records \ agents : ended'[x] = ended[x]
    BY <1>1, <1>19, <2>1 DEF Sweep, TypeOK
  <2> QED
    BY <1>1, <2>2, <2>3, <2>4, <2>5, <2>6, <2>7, <2>8, HeldChildStep
<1>20. CASE Disposed(r)
  <2>1. r \in agents
    BY <1>2, <1>20 DEF Disposed
  <2>2. UNCHANGED <<moveVars, mapVars>>
    BY <1>20 DEF Disposed
  <2>3. AgentsFit'
    BY <1>1, <1>20, <2>1 DEF Disposed, IInv, AgentsFit, TypeOK, mapVars
  <2>4. OthersIdle'
    BY <1>1, <1>20, <2>1 DEF Disposed, IInv, OthersIdle, TypeOK, mapVars
  <2>5. QueuedWaits'
    BY <1>1, <1>20 DEF Disposed, IInv, QueuedWaits, TypeOK
  <2>6. Drained'
    BY <1>1, <1>4, <1>5, <1>6, <1>7, <1>8, <1>20 DEF Disposed, IInv, Drained, Active, TypeOK, moveVars
  <2>7. Kept
    BY <1>3, <1>20, <2>1 DEF Disposed, Kept, Persist, moveVars, mapVars
  <2>8. \A x \in Records \ agents : ended'[x] = ended[x]
    BY <1>1, <1>20, <2>1 DEF Disposed, TypeOK
  <2> QED
    BY <1>1, <2>2, <2>3, <2>4, <2>5, <2>6, <2>7, <2>8, HeldChildStep
<1> QED
  BY <1>9, <1>10, <1>11, <1>12, <1>13, <1>14, <1>15, <1>16, <1>17, <1>18, <1>19, <1>20

LEMMA SpawnStep ==
    ASSUME IInv, NEW r \in Records, NEW queued \in BOOLEAN, Spawn(r, queued)
    PROVE  IInv'
<1>1. TypeOK /\ TypeOK'
  BY SpawnTyped DEF IInv
<1>2. r \notin agents /\ r \notin spawned /\ at # "between"
  BY DEF IInv, AgentsFit, Spawn
<1>3. /\ UNCHANGED <<moveVars, hidden, ended>>
      /\ spawned' = spawned \cup {r} /\ agents' = agents \cup {r}
      /\ anchor' = [anchor EXCEPT ![r] = leaf]
  BY DEF Spawn
<1>4. \A p \in hidden : p.id \in spawned
  BY <1>2 DEF IInv, HiddenFits, Ids
<1>5. HiddenFits'
  <2>1. \A p \in hidden : p.id # r
    BY <1>2, <1>4
  <2> QED
    BY <1>2, <1>3, <2>1 DEF IInv, HiddenFits, Ids, moveVars
<1>6. AgentsFit'
  BY <1>1, <1>2 DEF IInv, AgentsFit, Spawn, TypeOK
<1>7. OthersIdle'
  BY <1>1, <1>2 DEF IInv, OthersIdle, Spawn, TypeOK
<1>8. QueuedWaits'
  BY <1>1, <1>2 DEF IInv, QueuedWaits, Spawn, TypeOK
<1>9. at \notin {"preparing", "settling", "releasing"}
  BY DEF IInv, GateFits, Spawn
<1>10. GateFits'
  BY <1>3, <1>9 DEF GateFits, moveVars
<1>11. at \in {"reconciling", "draining", "clearing"} => r \notin departing /\ \A p \in loaded : p.id # r
  BY <1>2 DEF IInv, LoadedFits
<1>12. anchor'[r] = leaf /\ \A x \in Records \ {r} : anchor'[x] = anchor[x]
  BY <1>1, <1>3 DEF TypeOK
<1>13. leaf \in Above[leaf]
  BY <1>1, ParentTransitionAssumption DEF TypeOK
<1>14. Visible(r)' /\ \A x \in Records \ {r} : Visible(x)' = Visible(x)
  BY <1>3, <1>12, <1>13 DEF Visible, moveVars
<1>15. LoadedFits'
  <2> SUFFICES ASSUME at \in {"reconciling", "draining", "clearing"} PROVE LoadedFits'
    BY <1>3 DEF LoadedFits, moveVars
  <2>1. departing \subseteq agents /\ departing \subseteq Records \ {r} /\ agents \subseteq Records \ {r}
    BY <1>1, <1>2, <1>11 DEF IInv, LoadedFits, TypeOK
  <2>2. \A x \in agents' : x \in departing' <=> ~Visible(x)'
    BY <1>3, <1>11, <1>14, <2>1 DEF IInv, LoadedFits, moveVars
  <2>3. \A p \in loaded : p.id \in spawned' /\ (p.id \notin agents' => p \in hidden)
    BY <1>3 DEF IInv, LoadedFits
  <2>4. \A p, q \in loaded : p.id = q.id => p = q
    BY DEF IInv, LoadedFits
  <2> QED
    BY <1>3, <2>1, <2>2, <2>3, <2>4 DEF IInv, LoadedFits, moveVars
<1>16. Drained'
  <2>1. at \in {"settling", "releasing", "draining", "clearing"} => r \notin departing
    BY <1>9, <1>11
  <2> QED
    BY <1>1, <2>1 DEF IInv, Drained, Active, Spawn, TypeOK, moveVars
<1>17. ProjectionFollowsLeaf'
  <2>1. spawned \subseteq Records \ {r}
    BY <1>1, <1>2 DEF TypeOK
  <2> SUFFICES ASSUME at \in {"idle", "prepared"} PROVE ProjectionFollowsLeaf'
    BY <1>3, <1>9 DEF ProjectionFollowsLeaf, moveVars
  <2>2. agents = {x \in spawned : Visible(x)} /\ Ids(hidden) = spawned \ agents
    BY DEF IInv, ProjectionFollowsLeaf
  <2>3. agents' = {x \in spawned' : Visible(x)'}
    BY <1>3, <1>14, <2>1, <2>2
  <2>4. Ids(hidden') = spawned' \ agents'
    BY <1>2, <1>3, <2>2
  <2> QED
    BY <2>3, <2>4 DEF ProjectionFollowsLeaf, Ids
<1>18. Kept
  BY <1>2 DEF Spawn, Kept, Persist, moveVars
<1>19. RegistryIsWhole'
  BY <1>1, <1>5, <1>6, <1>18, KeptIsWhole DEF IInv
<1> QED
  BY <1>1, <1>5, <1>6, <1>7, <1>8, <1>10, <1>15, <1>16, <1>17, <1>19 DEF IInv

-----------------------------------------------------------------------------
(* The steps of a transition that keep the manager's records *)

LEMMA MoveStep ==
    ASSUME IInv, TypeOK', at # "between", at' # "between",
           UNCHANGED <<mapVars, result, ended>>,
           OthersIdle', QueuedWaits', GateFits', LoadedFits', Drained', ProjectionFollowsLeaf', Kept
    PROVE  IInv'
<1>1. HiddenFits'
  BY DEF IInv, HiddenFits, mapVars, Ids
<1>2. AgentsFit'
  BY DEF IInv, AgentsFit, mapVars
<1>3. RegistryIsWhole'
  BY <1>1, <1>2, KeptIsWhole DEF IInv
<1> QED
  BY <1>1, <1>2, <1>3 DEF IInv

LEMMA BeforeTreeStep ==
    ASSUME IInv, NEW t \in Entries, BeforeTree(t)
    PROVE  IInv'
<1>1. TypeOK /\ TypeOK'
  BY TransitionTyped DEF IInv
<1>2. at # "between" /\ at' # "between"
  BY DEF BeforeTree
<1>3. UNCHANGED <<mapVars, result, ended>>
  BY DEF BeforeTree, objectVars
<1>4. OthersIdle'
  BY <1>1, <1>3 DEF IInv, OthersIdle, AgentsFit, BeforeTree, TypeOK, mapVars, objectVars
<1>5. QueuedWaits'
  BY <1>1 DEF IInv, QueuedWaits, BeforeTree, TypeOK, objectVars
<1>6. GateFits'
  BY <1>3 DEF IInv, GateFits, SharedWith, BeforeTree, mapVars
<1>7. LoadedFits'
  BY <1>3 DEF IInv, LoadedFits, Visible, BeforeTree, mapVars
<1>8. Drained'
  BY <1>1 DEF IInv, Drained, BeforeTree, TypeOK, objectVars, Active
<1>9. ProjectionFollowsLeaf'
  BY <1>3 DEF IInv, ProjectionFollowsLeaf, Visible, Ids, BeforeTree, mapVars
<1>10. Kept
  BY <1>2 DEF BeforeTree, Kept, Persist, mapVars
<1> QED
  BY <1>1, <1>2, <1>3, <1>4, <1>5, <1>6, <1>7, <1>8, <1>9, <1>10, MoveStep

LEMMA StopDepartingStep ==
    ASSUME IInv, StopDeparting
    PROVE  IInv'
<1>1. TypeOK /\ TypeOK'
  BY TransitionTyped DEF IInv
<1>2. at # "between" /\ at' # "between"
  BY DEF StopDeparting
<1>3. UNCHANGED <<mapVars, result, ended>>
  BY DEF StopDeparting, objectVars
<1>4. OthersIdle'
  BY <1>1, <1>3 DEF IInv, OthersIdle, StopDeparting, TypeOK, mapVars, StopEach, Active
<1>5. QueuedWaits'
  BY <1>1 DEF IInv, QueuedWaits, StopDeparting, TypeOK, StopEach, Active
<1>6. GateFits'
  BY <1>3 DEF IInv, GateFits, SharedWith, StopDeparting, mapVars
<1>7. LoadedFits'
  BY <1>3 DEF IInv, LoadedFits, Visible, StopDeparting, mapVars
<1>8. Drained'
  <2>1. \A r \in departing : prep[r] = "none" /\ Visible(r)
    BY <1>1 DEF StopDeparting, Prepared, IInv, GateFits, ProjectionFollowsLeaf
  <2> QED
    BY <1>1, <2>1 DEF Drained, StopDeparting, StopEach, Active, TypeOK
<1>9. ProjectionFollowsLeaf'
  BY <1>3 DEF IInv, ProjectionFollowsLeaf, Visible, Ids, StopDeparting, mapVars
<1>10. Kept
  BY <1>2 DEF StopDeparting, Kept, Persist, mapVars
<1> QED
  BY <1>1, <1>2, <1>3, <1>4, <1>5, <1>6, <1>7, <1>8, <1>9, <1>10, MoveStep

LEMMA ReleaseDepartingStep ==
    ASSUME IInv, ReleaseDeparting
    PROVE  IInv'
<1>1. TypeOK /\ TypeOK'
  BY TransitionTyped DEF IInv
<1>2. at # "between" /\ at' # "between"
  BY DEF ReleaseDeparting
<1>3. UNCHANGED <<mapVars, result, ended>>
  BY DEF ReleaseDeparting, objectVars
<1>4. OthersIdle'
  BY <1>1, <1>3 DEF IInv, OthersIdle, ReleaseDeparting, TypeOK, mapVars, ReleaseEach, Active
<1>5. QueuedWaits'
  BY <1>1 DEF IInv, QueuedWaits, ReleaseDeparting, TypeOK, ReleaseEach, Active
<1>6. GateFits'
  BY <1>3 DEF IInv, GateFits, SharedWith, ReleaseDeparting, mapVars
<1>7. LoadedFits'
  BY <1>3 DEF IInv, LoadedFits, Visible, ReleaseDeparting, mapVars
<1>8. Drained'
  BY <1>1 DEF IInv, Drained, ReleaseDeparting, ReleaseEach, Settled, Active, TypeOK
<1>9. ProjectionFollowsLeaf'
  BY <1>3 DEF IInv, ProjectionFollowsLeaf, Visible, Ids, ReleaseDeparting, mapVars
<1>10. Kept
  BY <1>2 DEF ReleaseDeparting, Kept, Persist, mapVars
<1> QED
  BY <1>1, <1>2, <1>3, <1>4, <1>5, <1>6, <1>7, <1>8, <1>9, <1>10, MoveStep

LEMMA TreePreparedStep ==
    ASSUME IInv, TreePrepared
    PROVE  IInv'
<1>1. TypeOK /\ TypeOK'
  BY TransitionTyped DEF IInv
<1>2. at # "between" /\ at' # "between"
  BY DEF TreePrepared
<1>3. UNCHANGED <<mapVars, result, ended>>
  BY DEF TreePrepared, objectVars
<1>4. OthersIdle'
  BY <1>1, <1>3 DEF IInv, OthersIdle, AgentsFit, TreePrepared, TypeOK, mapVars, objectVars
<1>5. QueuedWaits'
  BY <1>1 DEF IInv, QueuedWaits, TreePrepared, TypeOK, objectVars
<1>6. GateFits'
  BY <1>3 DEF IInv, GateFits, SharedWith, TreePrepared, mapVars
<1>7. LoadedFits'
  BY <1>3 DEF IInv, LoadedFits, Visible, TreePrepared, mapVars
<1>8. Drained'
  BY <1>1 DEF IInv, Drained, TreePrepared, TypeOK, objectVars, Active
<1>9. ProjectionFollowsLeaf'
  BY <1>3 DEF IInv, ProjectionFollowsLeaf, Visible, Ids, TreePrepared, mapVars
<1>10. Kept
  BY <1>2 DEF TreePrepared, Kept, Persist, mapVars
<1> QED
  BY <1>1, <1>2, <1>3, <1>4, <1>5, <1>6, <1>7, <1>8, <1>9, <1>10, MoveStep

LEMMA TreeCancelledStep ==
    ASSUME IInv, TreeCancelled
    PROVE  IInv'
<1>1. TypeOK /\ TypeOK'
  BY TransitionTyped DEF IInv
<1>2. at # "between" /\ at' # "between"
  BY DEF TreeCancelled
<1>3. UNCHANGED <<mapVars, result, ended>>
  BY DEF TreeCancelled, objectVars
<1>4. OthersIdle'
  BY <1>1, <1>3 DEF IInv, OthersIdle, AgentsFit, TreeCancelled, TypeOK, mapVars, objectVars
<1>5. QueuedWaits'
  BY <1>1 DEF IInv, QueuedWaits, TreeCancelled, TypeOK, objectVars
<1>6. GateFits'
  BY <1>3 DEF IInv, GateFits, SharedWith, TreeCancelled, mapVars
<1>7. LoadedFits'
  BY <1>3 DEF IInv, LoadedFits, Visible, TreeCancelled, mapVars
<1>8. Drained'
  BY <1>1 DEF IInv, Drained, TreeCancelled, TypeOK, objectVars, Active
<1>9. ProjectionFollowsLeaf'
  BY <1>3 DEF IInv, ProjectionFollowsLeaf, Visible, Ids, TreeCancelled, mapVars
<1>10. Kept
  BY <1>2 DEF TreeCancelled, Kept, Persist, mapVars
<1> QED
  BY <1>1, <1>2, <1>3, <1>4, <1>5, <1>6, <1>7, <1>8, <1>9, <1>10, MoveStep

LEMMA TreeCommittedStep ==
    ASSUME IInv, TreeCommitted
    PROVE  IInv'
<1>1. TypeOK /\ TypeOK'
  BY TransitionTyped DEF IInv
<1>2. at # "between" /\ at' # "between"
  BY DEF TreeCommitted
<1>3. UNCHANGED <<mapVars, result, ended>>
  BY DEF TreeCommitted, objectVars
<1>4. OthersIdle'
  BY <1>1, <1>3 DEF IInv, OthersIdle, AgentsFit, TreeCommitted, TypeOK, mapVars, objectVars
<1>5. QueuedWaits'
  BY <1>1 DEF IInv, QueuedWaits, TreeCommitted, TypeOK, objectVars
<1>6. GateFits'
  BY <1>3 DEF IInv, GateFits, SharedWith, TreeCommitted, mapVars
<1>7. LoadedFits'
  BY <1>3 DEF IInv, LoadedFits, Visible, TreeCommitted, mapVars
<1>8. Drained'
  BY <1>1 DEF IInv, Drained, TreeCommitted, TypeOK, objectVars, Active
<1>9. ProjectionFollowsLeaf'
  BY <1>3 DEF IInv, ProjectionFollowsLeaf, Visible, Ids, TreeCommitted, mapVars
<1>10. Kept
  BY <1>2 DEF TreeCommitted, Kept, Persist, mapVars
<1> QED
  BY <1>1, <1>2, <1>3, <1>4, <1>5, <1>6, <1>7, <1>8, <1>9, <1>10, MoveStep

LEMMA ReconcileStep ==
    ASSUME IInv, Reconcile
    PROVE  IInv'
<1>1. TypeOK /\ TypeOK'
  BY TransitionTyped DEF IInv
<1>2. at # "between" /\ at' # "between"
  BY DEF Reconcile
<1>3. UNCHANGED <<mapVars, result, ended>>
  BY DEF Reconcile, objectVars
<1>4. OthersIdle'
  BY <1>1, <1>3 DEF IInv, OthersIdle, AgentsFit, Reconcile, TypeOK, mapVars, objectVars
<1>5. QueuedWaits'
  BY <1>1 DEF IInv, QueuedWaits, Reconcile, TypeOK, objectVars
<1>6. GateFits'
  BY <1>3 DEF IInv, GateFits, SharedWith, Reconcile, mapVars
<1>7. LoadedFits'
  <2>1. /\ Ids(Registry) = spawned
        /\ \A p, q \in Registry : p.id = q.id => p = q
    BY <1>1, <1>2, HeldIsWhole DEF IInv
  <2>2. \A r \in agents : Snapshot(r) \in Registry /\ Snapshot(r).id = r
    BY DEF Registry, Snapshot
  <2>3. \A r \in agents : r \in Ids(OnBranch(Registry)) <=> Visible(r)
    BY <2>2 DEF Ids, OnBranch, Visible
  <2>4. \A p \in Registry : p.id \in spawned /\ (p.id \notin agents => p \in hidden)
    BY <2>1, <2>2 DEF Ids, Registry
  <2>5. departing' \subseteq agents /\ \A r \in agents : r \in departing' <=> ~Visible(r)
    BY <2>3 DEF Reconcile
  <2>6. hidden \subseteq Registry
    BY DEF Registry
  <2> QED
    BY <1>3, <2>1, <2>4, <2>5, <2>6 DEF LoadedFits, Reconcile, Visible, mapVars
<1>8. Drained'
  BY <1>1 DEF IInv, Drained, Reconcile, TypeOK, objectVars, Active
<1>9. ProjectionFollowsLeaf'
  BY <1>3 DEF IInv, ProjectionFollowsLeaf, Visible, Ids, Reconcile, mapVars
<1>10. Kept
  BY <1>2 DEF Reconcile, Kept, Persist, mapVars
<1> QED
  BY <1>1, <1>2, <1>3, <1>4, <1>5, <1>6, <1>7, <1>8, <1>9, <1>10, MoveStep

LEMMA StopAdmittedStep ==
    ASSUME IInv, StopAdmitted
    PROVE  IInv'
<1>1. TypeOK /\ TypeOK'
  BY TransitionTyped DEF IInv
<1>2. at # "between" /\ at' # "between"
  BY DEF StopAdmitted
<1>3. UNCHANGED <<mapVars, result, ended>>
  BY DEF StopAdmitted, objectVars
<1>4. OthersIdle'
  BY <1>1, <1>3 DEF IInv, OthersIdle, StopAdmitted, TypeOK, mapVars, StopEach, Active
<1>5. QueuedWaits'
  BY <1>1 DEF IInv, QueuedWaits, StopAdmitted, TypeOK, StopEach, Active
<1>6. GateFits'
  BY <1>3 DEF IInv, GateFits, SharedWith, StopAdmitted, mapVars
<1>7. LoadedFits'
  BY <1>3 DEF IInv, LoadedFits, Visible, StopAdmitted, mapVars
<1>8. Drained'
  BY <1>1 DEF Drained, StopAdmitted, Prepared, StopEach, Active, TypeOK
<1>9. ProjectionFollowsLeaf'
  BY <1>3 DEF IInv, ProjectionFollowsLeaf, Visible, Ids, StopAdmitted, mapVars
<1>10. Kept
  BY <1>2 DEF StopAdmitted, Kept, Persist, mapVars
<1> QED
  BY <1>1, <1>2, <1>3, <1>4, <1>5, <1>6, <1>7, <1>8, <1>9, <1>10, MoveStep

LEMMA ReleaseAdmittedStep ==
    ASSUME IInv, ReleaseAdmitted
    PROVE  IInv'
<1>1. TypeOK /\ TypeOK'
  BY TransitionTyped DEF IInv
<1>2. at # "between" /\ at' # "between"
  BY DEF ReleaseAdmitted
<1>3. UNCHANGED <<mapVars, result, ended>>
  BY DEF ReleaseAdmitted, objectVars
<1>4. OthersIdle'
  BY <1>1, <1>3 DEF IInv, OthersIdle, ReleaseAdmitted, TypeOK, mapVars, ReleaseEach, Active
<1>5. QueuedWaits'
  BY <1>1 DEF IInv, QueuedWaits, ReleaseAdmitted, TypeOK, ReleaseEach, Active
<1>6. GateFits'
  BY <1>3 DEF IInv, GateFits, SharedWith, ReleaseAdmitted, mapVars
<1>7. LoadedFits'
  BY <1>3 DEF IInv, LoadedFits, Visible, ReleaseAdmitted, mapVars
<1>8. Drained'
  BY <1>1 DEF IInv, Drained, ReleaseAdmitted, ReleaseEach, Settled, Active, TypeOK
<1>9. ProjectionFollowsLeaf'
  BY <1>3 DEF IInv, ProjectionFollowsLeaf, Visible, Ids, ReleaseAdmitted, mapVars
<1>10. Kept
  BY <1>2 DEF ReleaseAdmitted, Kept, Persist, mapVars
<1> QED
  BY <1>1, <1>2, <1>3, <1>4, <1>5, <1>6, <1>7, <1>8, <1>9, <1>10, MoveStep

LEMMA BeforeSwitchStep ==
    ASSUME IInv, BeforeSwitch
    PROVE  IInv'
<1>1. TypeOK /\ TypeOK'
  BY TransitionTyped DEF IInv
<1>2. at # "between" /\ at' # "between"
  BY DEF BeforeSwitch
<1>3. UNCHANGED <<mapVars, result, ended>>
  BY DEF BeforeSwitch, objectVars
<1>4. OthersIdle'
  BY <1>1, <1>3 DEF IInv, OthersIdle, AgentsFit, BeforeSwitch, TypeOK, mapVars, objectVars
<1>5. QueuedWaits'
  BY <1>1 DEF IInv, QueuedWaits, BeforeSwitch, TypeOK, objectVars
<1>6. GateFits'
  BY <1>3 DEF IInv, GateFits, SharedWith, BeforeSwitch, mapVars
<1>7. LoadedFits'
  BY <1>3 DEF IInv, LoadedFits, Visible, BeforeSwitch, mapVars
<1>8. Drained'
  BY <1>1 DEF IInv, Drained, BeforeSwitch, TypeOK, objectVars, Active
<1>9. ProjectionFollowsLeaf'
  BY <1>3 DEF IInv, ProjectionFollowsLeaf, Visible, Ids, BeforeSwitch, mapVars
<1>10. Kept
  BY <1>2 DEF BeforeSwitch, Kept, Persist, mapVars
<1> QED
  BY <1>1, <1>2, <1>3, <1>4, <1>5, <1>6, <1>7, <1>8, <1>9, <1>10, MoveStep

LEMMA StopAllStep ==
    ASSUME IInv, StopAll
    PROVE  IInv'
<1>1. TypeOK /\ TypeOK'
  BY TransitionTyped DEF IInv
<1>2. at # "between" /\ at' # "between"
  BY DEF StopAll
<1>3. UNCHANGED <<mapVars, result, ended>>
  BY DEF StopAll, objectVars
<1>4. OthersIdle'
  BY <1>1, <1>3 DEF IInv, OthersIdle, StopAll, TypeOK, mapVars, StopEach, Active
<1>5. QueuedWaits'
  BY <1>1 DEF IInv, QueuedWaits, StopAll, TypeOK, StopEach, Active
<1>6. GateFits'
  BY <1>3 DEF IInv, GateFits, SharedWith, StopAll, mapVars
<1>7. LoadedFits'
  BY <1>3 DEF IInv, LoadedFits, Visible, StopAll, mapVars
<1>8. Drained'
  BY <1>1 DEF IInv, Drained, StopAll, TypeOK, StopEach, Active
<1>9. ProjectionFollowsLeaf'
  BY <1>3 DEF IInv, ProjectionFollowsLeaf, Visible, Ids, StopAll, mapVars
<1>10. Kept
  BY <1>2 DEF StopAll, Kept, Persist, mapVars
<1> QED
  BY <1>1, <1>2, <1>3, <1>4, <1>5, <1>6, <1>7, <1>8, <1>9, <1>10, MoveStep

LEMMA ReleaseAllStep ==
    ASSUME IInv, ReleaseAll
    PROVE  IInv'
<1>1. TypeOK /\ TypeOK'
  BY TransitionTyped DEF IInv
<1>2. at # "between" /\ at' # "between"
  BY DEF ReleaseAll
<1>3. UNCHANGED <<mapVars, result, ended>>
  BY DEF ReleaseAll, objectVars
<1>4. OthersIdle'
  BY <1>1, <1>3 DEF IInv, OthersIdle, ReleaseAll, TypeOK, mapVars, ReleaseEach, Active
<1>5. QueuedWaits'
  BY <1>1 DEF IInv, QueuedWaits, ReleaseAll, TypeOK, ReleaseEach, Active
<1>6. GateFits'
  BY <1>3 DEF IInv, GateFits, SharedWith, ReleaseAll, mapVars
<1>7. LoadedFits'
  BY <1>3 DEF IInv, LoadedFits, Visible, ReleaseAll, mapVars
<1>8. Drained'
  BY <1>1 DEF IInv, Drained, ReleaseAll, TypeOK, ReleaseEach, Active
<1>9. ProjectionFollowsLeaf'
  BY <1>3 DEF IInv, ProjectionFollowsLeaf, Visible, Ids, ReleaseAll, mapVars
<1>10. Kept
  BY <1>2 DEF ReleaseAll, Kept, Persist, mapVars
<1> QED
  BY <1>1, <1>2, <1>3, <1>4, <1>5, <1>6, <1>7, <1>8, <1>9, <1>10, MoveStep


-----------------------------------------------------------------------------
(* The steps that change what the manager holds *)

LEMMA HydrateGives ==
    ASSUME TypeOK, NEW S \in SUBSET Persisted, Hydrate(S),
           \A p \in S : p.result = ended[p.id]
    PROVE  /\ \A r \in Ids(S) : result'[r] = ended[r]
           /\ \A r \in Records \ Ids(S) : result'[r] = result[r] /\ status'[r] = status[r]
<1> DEFINE Of(r) == CHOOSE p \in S : p.id = r
<1>1. \A r \in Ids(S) : Of(r) \in S /\ Of(r).id = r
  BY DEF Ids
<1>2. \A r \in Ids(S) : r \in Records /\ Of(r).result = ended[r]
  BY <1>1, IdsTyped
<1>3. result' = [r \in Records |-> IF r \in Ids(S) THEN Of(r).result ELSE result[r]]
  BY DEF Hydrate
<1>4. \A r \in Records \ Ids(S) : status'[r] = status[r]
  BY DEF Hydrate
<1> HIDE DEF Of
<1> QED
  BY <1>2, <1>3, <1>4

LEMMA ProjectStep ==
    ASSUME IInv, Project
    PROVE  IInv'
<1> DEFINE back == {p \in OnBranch(loaded) : p.id \notin agents \ departing}
<1>1. TypeOK /\ TypeOK'
  BY ProjectTyped DEF IInv
<1>2. /\ at = "clearing" /\ at' = "idle" /\ departing' = {}
      /\ agents' = (agents \ departing) \cup Ids(back)
      /\ hidden' = StaysHidden
      /\ Forget(departing) /\ Hydrate(back) /\ Persist
      /\ UNCHANGED <<leaf, spawned, anchor, ended>>
  BY DEF Project
<1>3. /\ departing \subseteq agents
      /\ \A r \in agents : r \in departing <=> ~Visible(r)
      /\ \A p, q \in loaded : p.id = q.id => p = q
      /\ hidden \subseteq loaded
      /\ \A p \in loaded : p.id \in spawned /\ (p.id \notin agents => p \in hidden)
  BY <1>2 DEF IInv, LoadedFits
<1>4. /\ agents \subseteq spawned /\ spawned \subseteq Records
      /\ Ids(hidden) \cup agents = spawned
      /\ \A p \in hidden : p.id \notin agents /\ p.result = ended[p.id]
      /\ \A r \in agents : result[r] = ended[r]
      /\ \A r \in Records \ spawned : result[r] = 0 /\ ended[r] = 0
  BY <1>1, <1>2 DEF IInv, HiddenFits, AgentsFit, TypeOK
<1>5. \A p \in back : p \in loaded /\ Visible(p.id) /\ p.id \notin agents /\ p \in hidden
  BY <1>3 DEF OnBranch, Visible
<1>6. \A p \in loaded : p \in back \/ p.id \in agents \ departing \/ ~Visible(p.id)
  BY DEF OnBranch, Visible
<1>7. back \in SUBSET Persisted
  BY <1>1 DEF OnBranch, TypeOK
<1>8. Ids(back) \subseteq spawned \ agents
  BY <1>3, <1>5 DEF Ids
<1>9. /\ \A r \in Ids(back) : result'[r] = ended[r]
      /\ \A r \in Records \ Ids(back) : result'[r] = result[r] /\ status'[r] = status[r]
  <2>1. \A p \in back : p.result = ended[p.id]
    BY <1>4, <1>5
  <2> HIDE DEF back
  <2> QED
    BY <1>1, <1>2, <1>7, <2>1, HydrateGives
<1>10. \A p \in hidden' :
          \/ p \in hidden /\ ~Visible(p.id)
          \/ p.id \in departing /\ p = Snapshot(p.id)
  BY <1>2, <1>3 DEF StaysHidden, OnBranch, Visible, Snapshot
<1>11. \A r \in departing : Snapshot(r) \in hidden' /\ Snapshot(r).id = r /\ Snapshot(r).result = result[r]
  BY <1>2 DEF StaysHidden, Snapshot
<1>12. \A p \in hidden : p \in back \/ p \in hidden'
  BY <1>2, <1>3, <1>4, <1>6 DEF StaysHidden, OnBranch, Visible
<1>13. \A r \in spawned : r \in agents' <=> Visible(r)
  <2> SUFFICES ASSUME NEW r \in spawned PROVE r \in agents' <=> Visible(r)
    OBVIOUS
  <2>1. CASE r \in agents
    BY <1>2, <1>3, <1>8, <2>1
  <2>2. CASE r \notin agents
    <3>1. PICK p \in hidden : p.id = r
      BY <1>4, <2>2 DEF Ids
    <3>2. r \in Ids(back) => Visible(r)
      BY <1>5 DEF Ids
    <3>3. Visible(r) => r \in Ids(back)
      BY <1>3, <1>6, <2>2, <3>1 DEF Ids
    <3> QED
      BY <1>2, <2>2, <3>2, <3>3
  <2> QED
    BY <2>1, <2>2
<1>14. agents' \subseteq spawned
  BY <1>2, <1>4, <1>8
<1>15. \A p \in hidden' : p.id \in spawned /\ ~Visible(p.id)
  BY <1>3, <1>4, <1>10
<1>16. HiddenFits'
  <2>1. \A p, q \in hidden' : p.id = q.id => p = q
    BY <1>3, <1>4, <1>10
  <2>2. \A p \in hidden' : p.id \notin agents'
    BY <1>13, <1>15
  <2>3. \A p \in hidden' : p.result = ended[p.id]
    BY <1>3, <1>4, <1>10, <1>11
  <2>4. \A r \in spawned : r \in Ids(hidden') \cup agents'
    <3> SUFFICES ASSUME NEW r \in spawned, r \notin agents' PROVE r \in Ids(hidden')
      OBVIOUS
    <3>1. CASE r \in agents
      BY <1>2, <1>11, <3>1 DEF Ids
    <3>2. CASE r \notin agents
      BY <1>2, <1>4, <1>12, <3>2 DEF Ids
    <3> QED
      BY <3>1, <3>2
  <2>5. Ids(hidden') \cup agents' = spawned
    BY <1>14, <1>15, <2>4 DEF Ids
  <2> QED
    BY <1>2, <2>1, <2>2, <2>3, <2>5 DEF HiddenFits, Ids
<1>17. AgentsFit'
  <2>1. \A r \in agents' : result'[r] = ended[r]
    BY <1>2, <1>4, <1>8, <1>9
  <2>2. \A r \in Records \ spawned : result'[r] = 0
    BY <1>4, <1>8, <1>9
  <2> QED
    BY <1>2, <1>4, <1>14, <2>1, <2>2 DEF AgentsFit
<1>18. /\ \A r \in departing : stage'[r] = "idle" /\ session'[r] = "none" /\ prep'[r] = "none"
       /\ \A r \in Records \ departing :
              stage'[r] = stage[r] /\ session'[r] = session[r] /\ prep'[r] = prep[r]
  BY <1>1, <1>2 DEF Forget, TypeOK
<1>19. OthersIdle'
  BY <1>2, <1>18 DEF IInv, OthersIdle
<1>20. QueuedWaits'
  <2>1. \A r \in Ids(back) : stage'[r] = "idle"
    BY <1>4, <1>8, <1>18 DEF IInv, OthersIdle
  <2>2. \A r \in Records : stage[r] = "waiting" => status[r] = "queued"
    BY DEF IInv, QueuedWaits
  <2> QED
    BY <1>9, <1>18, <2>1, <2>2 DEF QueuedWaits
<1>21. ProjectionFollowsLeaf'
  <2>1. agents' = {r \in spawned : Visible(r)}
    BY <1>13, <1>14
  <2>2. \A r \in spawned : Visible(r)' <=> Visible(r)
    BY <1>2 DEF Visible
  <2>3. Ids(hidden') = spawned \ agents'
    BY <1>2, <1>16 DEF HiddenFits, Ids
  <2> QED
    BY <1>2, <2>1, <2>2, <2>3 DEF ProjectionFollowsLeaf, Ids
<1>22. GateFits' /\ LoadedFits' /\ Drained'
  BY <1>2 DEF GateFits, LoadedFits, Drained
<1>23. RegistryIsWhole'
  <2>1. Kept
    BY <1>2 DEF Kept, Persist
  <2> QED
    BY <1>1, <1>16, <1>17, <2>1, KeptIsWhole DEF IInv
<1> QED
  BY <1>1, <1>16, <1>17, <1>19, <1>20, <1>21, <1>22, <1>23 DEF IInv

LEMMA DeactivatedStep ==
    ASSUME IInv, Deactivated
    PROVE  IInv'
<1>1. TypeOK /\ TypeOK'
  BY DeactivatedTyped DEF IInv
<1>2. /\ at = "closing" /\ at' = "between" /\ agents' = {} /\ hidden' = {}
      /\ Forget(agents) /\ Unborn(agents)
      /\ durable' = Registry /\ UNCHANGED <<spawned, ended>>
  BY DEF Deactivated
<1>3. HiddenFits'
  BY <1>2 DEF HiddenFits
<1>4. AgentsFit'
  BY <1>1, <1>2 DEF IInv, AgentsFit, Unborn, TypeOK
<1>5. \A r \in Records : stage'[r] = "idle" /\ session'[r] = "none" /\ prep'[r] = "none"
  BY <1>1, <1>2 DEF IInv, OthersIdle, Forget, TypeOK
<1>6. OthersIdle' /\ QueuedWaits'
  BY <1>5 DEF OthersIdle, QueuedWaits
<1>7. GateFits' /\ LoadedFits' /\ Drained' /\ ProjectionFollowsLeaf'
  BY <1>2 DEF GateFits, LoadedFits, Drained, ProjectionFollowsLeaf
<1>8. RegistryIsWhole'
  BY <1>1, <1>2, HeldIsWhole DEF IInv, RegistryIsWhole, Ids
<1> QED
  BY <1>1, <1>3, <1>4, <1>6, <1>7, <1>8 DEF IInv

LEMMA ActivateStep ==
    ASSUME IInv, Activate
    PROVE  IInv'
<1>1. TypeOK /\ TypeOK'
  BY ActivateTyped DEF IInv
<1>2. /\ at = "between" /\ at' = "idle"
      /\ agents' = Ids(OnBranch(durable)) /\ hidden' = durable \ OnBranch(durable)
      /\ Hydrate(OnBranch(durable)) /\ durable' = Registry'
      /\ UNCHANGED <<leaf, stage, session, prep, spawned, anchor, ended>>
  BY DEF Activate
<1>3. /\ Ids(durable) = spawned
      /\ \A p, q \in durable : p.id = q.id => p = q
      /\ \A p \in durable : p.result = ended[p.id]
      /\ durable \subseteq Persisted /\ spawned \subseteq Records
  BY <1>1 DEF IInv, RegistryIsWhole, TypeOK
<1>4. \A p \in durable : p \in OnBranch(durable) <=> Visible(p.id)
  BY DEF OnBranch, Visible
<1>5. /\ \A r \in agents' : r \in spawned /\ Visible(r)
      /\ \A r \in spawned : Visible(r) => r \in agents'
      /\ \A p \in hidden' : p \in durable /\ p.id \in spawned /\ ~Visible(p.id)
      /\ \A r \in spawned : ~Visible(r) => r \in Ids(hidden')
  BY <1>2, <1>3, <1>4 DEF Ids, OnBranch
<1>6. HiddenFits'
  <2>1. Ids(hidden') \cup agents' = spawned
    BY <1>5 DEF Ids
  <2>2. \A p \in hidden' : p.id \notin agents' /\ p.result = ended[p.id]
    BY <1>3, <1>5
  <2> QED
    BY <1>2, <1>3, <1>5, <2>1, <2>2 DEF HiddenFits, Ids
<1>7. /\ \A r \in agents' : result'[r] = ended[r]
      /\ \A r \in Records \ agents' : result'[r] = result[r]
  BY <1>1, <1>2, <1>3, HydrateGives DEF OnBranch
<1>8. AgentsFit'
  BY <1>2, <1>5, <1>7 DEF IInv, AgentsFit
<1>9. \A r \in Records : stage[r] = "idle" /\ session[r] = "none" /\ prep[r] = "none"
  BY <1>2 DEF IInv, OthersIdle, HiddenFits
<1>10. OthersIdle' /\ QueuedWaits'
  BY <1>2, <1>9 DEF OthersIdle, QueuedWaits
<1>11. GateFits' /\ LoadedFits' /\ Drained'
  BY <1>2 DEF GateFits, LoadedFits, Drained
<1>12. ProjectionFollowsLeaf'
  <2>1. agents' = {r \in spawned : Visible(r)}
    BY <1>5
  <2>2. Ids(hidden') = spawned \ agents'
    BY <1>5, <1>6 DEF HiddenFits, Ids
  <2>3. \A r \in spawned : Visible(r)' <=> Visible(r)
    BY <1>2 DEF Visible
  <2> QED
    BY <1>2, <2>1, <2>2, <2>3 DEF ProjectionFollowsLeaf, Ids
<1>13. RegistryIsWhole'
  <2>1. Kept
    BY <1>2 DEF Kept
  <2> QED
    BY <1>1, <1>6, <1>8, <2>1, KeptIsWhole DEF IInv
<1> QED
  BY <1>1, <1>6, <1>8, <1>10, <1>11, <1>12, <1>13 DEF IInv

LEMMA CrashStep ==
    ASSUME IInv, Crash
    PROVE  IInv'
<1>1. TypeOK /\ TypeOK'
  BY CrashTyped DEF IInv
<1>2. /\ at' = "between" /\ agents' = {} /\ hidden' = {}
      /\ Unborn(Records) /\ UNCHANGED <<spawned, durable, ended>>
  BY DEF Crash
<1>3. HiddenFits'
  BY <1>2 DEF HiddenFits
<1>4. AgentsFit'
  BY <1>1, <1>2 DEF IInv, AgentsFit, Unborn, TypeOK
<1>5. OthersIdle' /\ QueuedWaits'
  BY DEF Crash, OthersIdle, QueuedWaits
<1>6. GateFits' /\ LoadedFits' /\ Drained' /\ ProjectionFollowsLeaf'
  BY <1>2 DEF GateFits, LoadedFits, Drained, ProjectionFollowsLeaf
<1>7. RegistryIsWhole'
  BY <1>2 DEF IInv, RegistryIsWhole, Ids
<1> QED
  BY <1>1, <1>3, <1>4, <1>5, <1>6, <1>7 DEF IInv

LEMMA OrphanStep ==
    ASSUME IInv, NEW o \in orphans, OrphanEnds(o)
    PROVE  IInv'
<1>1. TypeOK'
  BY OrphanTyped DEF IInv
<1>2. UNCHANGED <<moveVars, objectVars, mapVars, ended>>
  BY DEF OrphanEnds
<1>3. AgentsFit' /\ OthersIdle' /\ QueuedWaits' /\ Drained'
  BY <1>2 DEF IInv, AgentsFit, OthersIdle, QueuedWaits, Drained, Active, moveVars, objectVars, mapVars
<1>4. Kept
  BY <1>2 DEF OrphanEnds, Kept, Persist, moveVars, mapVars
<1> QED
  BY <1>1, <1>2, <1>3, <1>4, HeldChildStep

LEMMA NextInv == IInv /\ [Next]_vars => IInv'
<1> SUFFICES ASSUME IInv, [Next]_vars PROVE IInv'
  OBVIOUS
<1>1. ASSUME NEW r \in Records, Child(r) PROVE IInv'
  BY <1>1, SpawnStep, HeldChildren DEF Child
<1>2. ASSUME NEW o \in orphans, OrphanEnds(o) PROVE IInv'
  BY <1>2, OrphanStep
<1>3. CASE (\E t \in Entries : BeforeTree(t)) \/ BeforeSwitch
  BY <1>3, BeforeTreeStep, BeforeSwitchStep
<1>4. CASE Navigation
  BY <1>4, StopDepartingStep, ReleaseDepartingStep, TreePreparedStep, TreeCancelledStep,
     TreeCommittedStep, ReconcileStep, StopAdmittedStep, ReleaseAdmittedStep, ProjectStep
     DEF Navigation
<1>5. CASE Switch
  BY <1>5, StopAllStep, ReleaseAllStep, DeactivatedStep, ActivateStep DEF Switch
<1>6. CASE Crash
  BY <1>6, CrashStep
<1>7. CASE UNCHANGED vars
  <2>1. TypeOK'
    BY <1>7, NextTyped DEF IInv
  <2>2. UNCHANGED <<moveVars, objectVars, mapVars, durable, ended>>
    BY <1>7 DEF vars
  <2>3. AgentsFit' /\ OthersIdle' /\ QueuedWaits' /\ Drained'
    BY <2>2 DEF IInv, AgentsFit, OthersIdle, QueuedWaits, Drained, Active, moveVars, objectVars, mapVars
  <2>4. Kept
    BY <2>2 DEF Kept, mapVars
  <2> QED
    BY <2>1, <2>2, <2>3, <2>4, HeldChildStep
<1> QED
  BY <1>1, <1>2, <1>3, <1>4, <1>5, <1>6, <1>7 DEF Next

LEMMA InvHolds == Spec => []IInv
<1>1. Init => IInv
  BY InitInv
<1>2. IInv /\ [Next]_vars => IInv'
  BY NextInv
<1> QED
  BY <1>1, <1>2, PTL DEF Spec

-----------------------------------------------------------------------------
(* The theorems *)

\* No branch change, switch of session or death of the process loses a child, doubles it,
\* or puts an older outcome in the place of a later one.
THEOREM NoChildIsLost == Spec => []RegistryIsWhole
<1>1. IInv => RegistryIsWhole
  BY DEF IInv
<1> QED
  BY <1>1, InvHolds, PTL

\* The manager holds the children of the selected branch, and nothing else.
THEOREM HoldsTheBranch == Spec => []ProjectionFollowsLeaf
<1>1. IInv => ProjectionFollowsLeaf
  BY DEF IInv
<1> QED
  BY <1>1, InvHolds, PTL

\* What leaves has come to rest before the manager lets go of it.
THEOREM NothingDepartsAlive == Spec => []DepartedHoldsNothing
<1>1. IInv => DepartedHoldsNothing
  BY DEF IInv, Drained, DepartedHoldsNothing
<1> QED
  BY <1>1, InvHolds, PTL

LEMMA MoveSpares ==
    ASSUME IInv, [Next]_vars,
           at # at', at \in Preparing \cup Reconciling, at' # "between",
           NEW r \in agents, anchor[r] \in Above[leaf] \cap Above[target]
    PROVE  /\ r \in agents'
           /\ UNCHANGED <<status[r], stage[r], session[r], prep[r], result[r]>>
<1>1. /\ r \in Records
      /\ status \in [Records -> Statuses] /\ stage \in [Records -> Stages]
      /\ session \in [Records -> Sessions] /\ prep \in [Records -> Preps]
  BY DEF IInv, TypeOK
<1>2. Navigation
  <2>1. ~UNCHANGED at
    OBVIOUS
  <2>2. \A x \in Records : ~Child(x)
    BY <2>1 DEF Child, Spawn, StartQueued, SessionCreated, CreationFails, TurnEnds, Stop, Resume,
       RestoreFails, Restored, Refused, TurnStarts, Sweep, Disposed, moveVars
  <2>3. \A o \in orphans : ~OrphanEnds(o)
    BY <2>1 DEF OrphanEnds, moveVars
  <2>4. (\A t \in Entries : ~BeforeTree(t)) /\ ~BeforeSwitch /\ ~Switch /\ ~Crash
    BY DEF BeforeTree, BeforeSwitch, Switch, StopAll, ReleaseAll, Deactivated, Activate, Crash,
       Preparing, Reconciling
  <2>5. ~UNCHANGED vars
    BY <2>1 DEF vars, moveVars
  <2> QED
    BY <2>2, <2>3, <2>4, <2>5 DEF Next
<1>3. at \in {"preparing", "settling", "reconciling", "draining", "clearing"} => r \notin departing
  BY DEF IInv, GateFits, LoadedFits, SharedWith, Visible
<1>4. CASE TreePrepared \/ TreeCancelled \/ TreeCommitted \/ Reconcile
  BY <1>4 DEF TreePrepared, TreeCancelled, TreeCommitted, Reconcile, objectVars, mapVars
<1>5. CASE StopDeparting \/ StopAdmitted
  BY <1>1, <1>3, <1>5 DEF StopDeparting, StopAdmitted, StopEach, mapVars
<1>6. CASE ReleaseDeparting \/ ReleaseAdmitted
  BY <1>1, <1>3, <1>6 DEF ReleaseDeparting, ReleaseAdmitted, ReleaseEach, mapVars
<1>7. CASE Project
  <2> DEFINE back == {p \in OnBranch(loaded) : p.id \notin agents \ departing}
  <2>1. /\ at = "clearing" /\ agents' = (agents \ departing) \cup Ids(back)
        /\ Forget(departing) /\ Hydrate(back)
    BY <1>7 DEF Project
  <2>2. r \notin departing
    BY <1>3, <2>1
  <2>3. r \notin Ids(back)
    BY <2>2 DEF Ids
  <2>4. status'[r] = status[r] /\ result'[r] = result[r]
    <3> HIDE DEF back
    <3> QED
      BY <1>1, <2>1, <2>3 DEF Hydrate
  <2>5. stage'[r] = stage[r] /\ session'[r] = session[r] /\ prep'[r] = prep[r]
    BY <1>1, <2>1, <2>2 DEF Forget
  <2> QED
    BY <2>1, <2>2, <2>4, <2>5
<1> QED
  BY <1>2, <1>4, <1>5, <1>6, <1>7 DEF Navigation

\* A navigation leaves the children both branches share as they are.
THEOREM SharedIsSpared == Spec => SharedUndisturbed
<1>1. IInv /\ [Next]_vars =>
        [at # at' /\ at \in Preparing \cup Reconciling /\ at' # "between" =>
          \A r \in agents : anchor[r] \in Above[leaf] \cap Above[target] =>
              /\ r \in agents'
              /\ UNCHANGED <<status[r], stage[r], session[r], prep[r], result[r]>>]_vars
  BY MoveSpares
<1> QED
  BY <1>1, InvHolds, PTL DEF Spec, SharedUndisturbed
=============================================================================
