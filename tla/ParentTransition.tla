-------------------------- MODULE ParentTransition --------------------------
(***************************************************************************)
(* The children of a parent session while the parent moves to another      *)
(* branch of its tree, leaves the session, comes back, or dies: the        *)
(* transitions of packages/pi-subagents/src/lifecycle/subagent-manager.ts, *)
(* the durable registry (subagent-persistence.ts) and the events that call *)
(* them (handlers/lifecycle.ts).                                           *)
(*                                                                         *)
(* A child is its id; its object in the manager's memory has a status, a   *)
(* run in flight, a session and perhaps the preparation of a resume.  One  *)
(* action is what runs between two awaits.  A resume while the stopped run *)
(* still unwinds is SubagentLifecycle's subject and is left out here: a    *)
(* child is resumed once its run has settled.  What the observers publish  *)
(* is left out too (OutcomeDelivery), and with it silencedRecords.         *)
(***************************************************************************)
EXTENDS Integers, FiniteSets

CONSTANTS
    Records,    \* the ids of the children
    Entries,    \* the entries of the parent session's tree
    Above,      \* the entries on the path from the root to an entry, itself included
    MaxTurns,   \* bound: the turns after which a child is not resumed again
    MaxCrashes  \* bound: how often the process dies

ASSUME ParentTransitionAssumption ==
    /\ Entries # {}
    /\ Above \in [Entries -> SUBSET Entries]
    /\ \A e \in Entries : e \in Above[e]
    /\ MaxTurns \in [Records -> Nat]
    /\ MaxCrashes \in Nat

VARIABLES
    at,        \* what the parent session is in the middle of
    leaf,      \* the entry Pi has selected
    target,    \* the entry a navigation goes to
    gate,      \* parentTransitioning
    departing, \* the records the transition at hand settles
    loaded,    \* what reconcileTree() read from the registry
    agents,    \* the ids of the manager's records
    hidden,    \* hiddenRecords
    durable,   \* the registry in the parent session's state
    spawned,   \* the children ever admitted
    anchor,    \* their parentEntryId
    status, stage, session, prep, result,
    spec,      \* the records with a resumeSpec
    orphans,   \* objects the manager forgot that still run or hold a session
    ended,     \* history: the turns of each child that ended while it was held
    crashes

moveVars == <<at, leaf, target, gate, departing, loaded>>
objectVars == <<status, stage, session, prep, result, spec>>
mapVars == <<agents, hidden, spawned, anchor>>
vars == <<moveVars, objectVars, mapVars, durable, orphans, ended, crashes>>

Statuses == {"queued", "running", "stopped", "ended"}

\* The run in flight: none, the limiter's queue, the session's factory, the turn loop, and a
\* turn loop that began after its run was stopped and so never hears of it.
Stages == {"idle", "waiting", "creating", "turning", "deaf"}

\* "closing" is the _sessionRelease of a session that is no longer the record's.
Sessions == {"none", "open", "closing"}

\* "checked": prepareRecordForResume() has answered and resume() is about to go on.
Preps == {"none", "restoring", "refusing", "checked"}

\* A navigation until its commit, its reconciliation, and a switch of session.
Preparing == {"preparing", "settling", "releasing", "prepared"}
Reconciling == {"moved", "reconciling", "draining", "clearing"}
Leaving == {"leaving", "stopping", "closing", "between"}

Persisted == [id : Records, status : Statuses, result : Nat, spec : BOOLEAN]

TypeOK ==
    /\ at \in {"idle"} \cup Preparing \cup Reconciling \cup Leaving
    /\ leaf \in Entries /\ target \in Entries /\ gate \in BOOLEAN
    /\ departing \subseteq Records
    /\ loaded \subseteq Persisted /\ hidden \subseteq Persisted /\ durable \subseteq Persisted
    /\ spawned \subseteq Records /\ agents \subseteq Records /\ spec \subseteq Records
    /\ anchor \in [Records -> Entries]
    /\ status \in [Records -> Statuses]
    /\ stage \in [Records -> Stages]
    /\ session \in [Records -> Sessions]
    /\ prep \in [Records -> Preps]
    /\ result \in [Records -> Nat] /\ ended \in [Records -> Nat]
    /\ orphans \subseteq [id : Records, stage : Stages, open : BOOLEAN]
    /\ crashes \in Nat

Active(r) == status[r] \in {"queued", "running"}

\* isParentEntryVisible(), on Pi's live branch.
Visible(r) == anchor[r] \in Above[leaf]

\* toPersistedRecord()
Snapshot(r) ==
    [id |-> r, status |-> status[r], result |-> result[r], spec |-> r \in spec]

Registry == hidden \cup {Snapshot(r) : r \in agents}

\* activeSession is there except between two sessions.
Persist == durable' = IF at = "between" THEN durable ELSE Registry'

Ids(S) == {p.id : p \in S}

\* loadSubagentRegistry() splits what it reads by the branch of the leaf.
OnBranch(S) == {p \in S : anchor[p.id] \in Above[leaf]}

Init ==
    /\ at = "between" /\ leaf \in Entries /\ target = leaf
    /\ gate = FALSE /\ departing = {} /\ loaded = {}
    /\ agents = {} /\ hidden = {} /\ durable = {} /\ spawned = {} /\ spec = {}
    /\ anchor = [r \in Records |-> leaf]
    /\ status = [r \in Records |-> "ended"]
    /\ stage = [r \in Records |-> "idle"]
    /\ session = [r \in Records |-> "none"]
    /\ prep = [r \in Records |-> "none"]
    /\ result = [r \in Records |-> 0]
    /\ ended = [r \in Records |-> 0]
    /\ orphans = {} /\ crashes = 0

-----------------------------------------------------------------------------
(* The children *)

\* create(): anchored at the live leaf, started at once or queued on the limiter.  Nobody
\* calls the service between two sessions: create() would admit it, and activate() then throw.
Spawn(r, queued) ==
    /\ ~gate /\ at # "between" /\ r \notin spawned
    /\ spawned' = spawned \cup {r}
    /\ agents' = agents \cup {r}
    /\ anchor' = [anchor EXCEPT ![r] = leaf]
    /\ status' = [status EXCEPT ![r] = IF queued THEN "queued" ELSE "running"]
    /\ stage' = [stage EXCEPT ![r] = IF queued THEN "waiting" ELSE "creating"]
    /\ UNCHANGED <<moveVars, session, prep, result, spec, hidden, orphans, ended, crashes>>
    /\ Persist

StartQueued(r) ==
    /\ r \in agents /\ stage[r] = "waiting"
    /\ status' = [status EXCEPT ![r] = "running"]
    /\ stage' = [stage EXCEPT ![r] = "creating"]
    /\ UNCHANGED <<moveVars, session, prep, result, spec, mapVars, orphans, ended, crashes>>
    /\ Persist

\* The factory checks isCurrent after its last await: only then is there a session.  Nobody
\* checks for a stop: forwardAbortSignal() listens for one that is yet to come.
SessionCreated(r) ==
    /\ r \in agents /\ stage[r] = "creating" /\ Visible(r)
    /\ stage' = [stage EXCEPT ![r] = IF status[r] = "stopped" THEN "deaf" ELSE "turning"]
    /\ session' = [session EXCEPT ![r] = "open"]
    /\ spec' = spec \cup {r}
    /\ UNCHANGED <<moveVars, status, prep, result, mapVars, orphans, ended, crashes>>
    /\ Persist

\* failRun(): the factory threw, because the record is off the branch or otherwise.
CreationFails(r) ==
    /\ r \in agents /\ stage[r] = "creating"
    /\ stage' = [stage EXCEPT ![r] = "idle"]
    /\ status' = [status EXCEPT ![r] = IF @ = "stopped" THEN @ ELSE "ended"]
    /\ UNCHANGED <<moveVars, session, prep, result, spec, mapVars, orphans, ended, crashes>>
    /\ Persist

\* completeRun(), failRun(), completeResume(), failResume()
TurnEnds(r) ==
    /\ r \in agents /\ stage[r] \in {"turning", "deaf"}
    /\ stage' = [stage EXCEPT ![r] = "idle"]
    /\ status' = [status EXCEPT ![r] = IF @ = "stopped" THEN @ ELSE "ended"]
    /\ result' = [result EXCEPT ![r] = @ + 1]
    /\ ended' = [ended EXCEPT ![r] = @ + 1]
    /\ UNCHANGED <<moveVars, session, prep, spec, mapVars, orphans, crashes>>
    /\ Persist

\* stopRecord() of each of S: only stopQueued() reports, and so persists.
StopEach(S) ==
    /\ status' = [r \in Records |-> IF r \in S /\ Active(r) THEN "stopped" ELSE status[r]]
    /\ stage' = [r \in Records |-> IF r \in S /\ status[r] = "queued" THEN "idle" ELSE stage[r]]

\* abort(): the parent, or a caller of the service.
Stop(r) ==
    /\ r \in agents /\ Visible(r) /\ Active(r)
    /\ StopEach({r})
    /\ UNCHANGED <<moveVars, session, prep, result, spec, mapVars, orphans, ended, crashes>>
    /\ IF status[r] = "queued" THEN Persist ELSE UNCHANGED durable

\* resume(): past its refusals, the preparation starts; one at a time.
Resume(r) ==
    /\ ~gate /\ at # "between" /\ r \in agents /\ Visible(r)
    /\ ~Active(r) /\ stage[r] = "idle" /\ prep[r] = "none" /\ r \in spec
    /\ result[r] < MaxTurns[r]
    /\ prep' = [prep EXCEPT ![r] = "restoring"]
    /\ UNCHANGED <<moveVars, status, stage, session, result, spec, mapVars, durable,
                   orphans, ended, crashes>>

\* Whether prepareRecordForResume() lets the resume go on.
Revalidated(r) == ~gate /\ Visible(r)

\* prepareResume() throws: nothing was opened, but a session still open is released off the branch.
RestoreFails(r) ==
    /\ prep[r] = "restoring" /\ session[r] # "closing"
    /\ prep' = [prep EXCEPT ![r] = IF Revalidated(r) THEN "none" ELSE "refusing"]
    /\ session' = [session EXCEPT ![r] = IF Revalidated(r) \/ @ = "none" THEN @ ELSE "closing"]
    /\ UNCHANGED <<moveVars, status, stage, result, spec, mapVars, orphans, ended, crashes>>
    /\ Persist

\* The session is open, again or still; the restore waited for a release under way.  One that
\* begins while it waits for something else is SubagentLifecycle's (RestoreFollowsDisposal).
Restored(r) ==
    /\ prep[r] = "restoring" /\ session[r] # "closing"
    /\ session[r] = "open" \/ Visible(r)
    /\ prep' = [prep EXCEPT ![r] = IF Revalidated(r) THEN "checked" ELSE "refusing"]
    /\ session' = [session EXCEPT ![r] = IF Revalidated(r) THEN "open" ELSE "closing"]
    /\ UNCHANGED <<moveVars, status, stage, result, spec, mapVars, orphans, ended, crashes>>
    /\ Persist

\* The refused resume has released what it had opened.
Refused(r) ==
    /\ prep[r] = "refusing" /\ session[r] # "closing"
    /\ prep' = [prep EXCEPT ![r] = "none"]
    /\ UNCHANGED <<moveVars, status, stage, session, result, spec, mapVars, orphans, ended, crashes>>
    /\ Persist

\* resume() goes on and starts the turn: runResume().
TurnStarts(r) ==
    /\ prep[r] = "checked"
    /\ prep' = [prep EXCEPT ![r] = "none"]
    /\ status' = [status EXCEPT ![r] = "running"]
    /\ stage' = [stage EXCEPT ![r] = "turning"]
    /\ UNCHANGED <<moveVars, session, result, spec, mapVars, orphans, ended, crashes>>
    /\ Persist

\* releaseSession() of each of S.
ReleaseEach(S) ==
    session' = [r \in Records |-> IF r \in S /\ session[r] = "open" THEN "closing" ELSE session[r]]

\* sweep(): no timer fires between the answer of a preparation and what awaits it.
Sweep(r) ==
    /\ r \in agents /\ ~Active(r) /\ prep[r] # "checked" /\ session[r] = "open"
    /\ ReleaseEach({r})
    /\ UNCHANGED <<moveVars, status, stage, prep, result, spec, mapVars, durable,
                   orphans, ended, crashes>>

Disposed(r) ==
    /\ session[r] = "closing"
    /\ session' = [session EXCEPT ![r] = "none"]
    /\ UNCHANGED <<moveVars, status, stage, prep, result, spec, mapVars, orphans, ended, crashes>>
    /\ Persist

\* A forgotten object's factory refuses it, or its turn ends, and its observer persists
\* what the manager holds by then.  A session it has open stays open, and is not followed.
OrphanEnds(o) ==
    /\ o \in orphans /\ o.stage # "idle"
    /\ orphans' = orphans \ {o}
    /\ UNCHANGED <<moveVars, objectVars, mapVars, ended, crashes>>
    /\ Persist

-----------------------------------------------------------------------------
(* Leaving memory and coming back to it *)

\* The objects of S leave the map; what still runs or is open goes on without it.
Forget(S) ==
    /\ stage' = [r \in Records |-> IF r \in S THEN "idle" ELSE stage[r]]
    /\ session' = [r \in Records |-> IF r \in S THEN "none" ELSE session[r]]
    /\ prep' = [r \in Records |-> IF r \in S THEN "none" ELSE prep[r]]
    /\ orphans' = orphans \cup
         {[id |-> r, stage |-> stage[r], open |-> session[r] = "open"] :
             r \in {s \in S : stage[s] # "idle" \/ session[s] = "open"}}

\* What no object remembers.
Unborn(S) ==
    /\ status' = [r \in Records |-> IF r \in S THEN "ended" ELSE status[r]]
    /\ result' = [r \in Records |-> IF r \in S THEN 0 ELSE result[r]]
    /\ spec' = spec \ S

\* SubagentState.restore(): nothing that was active survives its process.
Restore(was) == IF was \in {"queued", "running"} THEN "stopped" ELSE was

\* hydrateRecord() for each of S.
Hydrate(S) ==
    /\ status' = [r \in Records |->
                    IF r \in Ids(S) THEN Restore((CHOOSE p \in S : p.id = r).status) ELSE status[r]]
    /\ result' = [r \in Records |->
                    IF r \in Ids(S) THEN (CHOOSE p \in S : p.id = r).result ELSE result[r]]
    /\ spec' = (spec \ Ids(S)) \cup Ids({p \in S : p.spec})

\* Mutant: the preparations are not waited for.
Unprepared == departing \subseteq Records

\* The preparations of the departing records have answered, and resume() has gone on.
Prepared == \A r \in departing : prep[r] = "none"

\* unsettledRunHandles() of the departing records have settled.
Settled == \A r \in departing : stage[r] = "idle"

Released == \A r \in departing : session[r] # "closing"

-----------------------------------------------------------------------------
(* Navigation in the tree: session_before_tree, the commit, session_tree *)

\* Mutant: the common ancestor itself is left out.
SharedBefore(t) ==
    {e \in Above[leaf] \cap Above[t] :
        \E f \in Above[leaf] \cap Above[t] : f # e /\ e \in Above[f]}

\* sharedAncestryThrough() Pi's common ancestor: the end of what both paths share.
SharedWith(t) == Above[leaf] \cap Above[t]

BeforeTree(t) ==
    /\ at = "idle" /\ t # leaf
    /\ at' = "preparing" /\ gate' = TRUE /\ target' = t
    /\ departing' = {r \in agents : anchor[r] \notin SharedWith(t)}
    /\ UNCHANGED <<leaf, loaded, objectVars, mapVars, durable, orphans, ended, crashes>>

StopDeparting ==
    /\ at = "preparing" /\ Prepared
    /\ at' = "settling"
    /\ StopEach({r \in departing : Visible(r)})
    /\ UNCHANGED <<leaf, target, gate, departing, loaded, session, prep, result, spec, mapVars,
                   orphans, ended, crashes>>
    /\ Persist

ReleaseDeparting ==
    /\ at = "settling" /\ Settled
    /\ at' = "releasing"
    /\ ReleaseEach(departing)
    /\ UNCHANGED <<leaf, target, gate, departing, loaded, status, stage, prep, result, spec, mapVars,
                   durable, orphans, ended, crashes>>

\* The gate opens before Pi commits: nobody says when another extension cancels.
TreePrepared ==
    /\ at = "releasing" /\ Released
    /\ at' = "prepared" /\ gate' = FALSE /\ departing' = {}
    /\ UNCHANGED <<leaf, target, loaded, objectVars, mapVars, orphans, ended, crashes>>
    /\ Persist

TreeCancelled ==
    /\ at = "prepared"
    /\ at' = "idle" /\ target' = leaf
    /\ UNCHANGED <<leaf, gate, departing, loaded, objectVars, mapVars, durable, orphans,
                   ended, crashes>>

TreeCommitted ==
    /\ at = "prepared"
    /\ at' = "moved" /\ leaf' = target
    /\ UNCHANGED <<target, gate, departing, loaded, objectVars, mapVars, durable, orphans,
                   ended, crashes>>

\* Mutant: all that was loaded is taken for visible.
ReconcileBlind ==
    /\ at = "moved"
    /\ at' = "reconciling"
    /\ loaded' = Registry
    /\ departing' = agents \ Ids(Registry)
    /\ UNCHANGED <<leaf, target, gate, objectVars, mapVars, orphans, ended, crashes>>
    /\ Persist

\* reconcileTree(): persists, and reads back what it has just written.
Reconcile ==
    /\ at = "moved"
    /\ at' = "reconciling"
    /\ loaded' = Registry
    /\ departing' = agents \ Ids(OnBranch(Registry))
    /\ UNCHANGED <<leaf, target, gate, objectVars, mapVars, orphans, ended, crashes>>
    /\ Persist

\* Mutant: abort() instead, which finds only visible records.
AbortAdmitted ==
    /\ at = "reconciling" /\ Prepared
    /\ at' = "draining"
    /\ StopEach({r \in departing : Visible(r)})
    /\ UNCHANGED <<leaf, target, gate, departing, loaded, session, prep, result, spec, mapVars,
                   durable, orphans, ended, crashes>>

\* stopRecord(), which asks for no visibility: the leaf has moved already.
StopAdmitted ==
    /\ at = "reconciling" /\ Prepared
    /\ at' = "draining"
    /\ StopEach(departing)
    /\ UNCHANGED <<leaf, target, gate, departing, loaded, session, prep, result, spec, mapVars,
                   orphans, ended, crashes>>
    /\ IF \E r \in departing : status[r] = "queued" THEN Persist ELSE UNCHANGED durable

ReleaseAdmitted ==
    /\ at = "draining" /\ Settled
    /\ at' = "clearing"
    /\ ReleaseEach(departing)
    /\ UNCHANGED <<leaf, target, gate, departing, loaded, status, stage, prep, result, spec, mapVars,
                   durable, orphans, ended, crashes>>

\* Mutant: the departing records stay as they were loaded.
HiddenAsLoaded == loaded \ OnBranch(loaded)

\* What stays hidden: the hidden siblings as loaded, the departing ones as they ended.
StaysHidden ==
    {p \in loaded \ OnBranch(loaded) : p.id \notin departing} \cup {Snapshot(r) : r \in departing}

Project ==
    LET back == {p \in OnBranch(loaded) : p.id \notin agents \ departing}
    IN  /\ at = "clearing" /\ Released
        /\ at' = "idle" /\ departing' = {} /\ loaded' = {}
        /\ agents' = (agents \ departing) \cup Ids(back)
        /\ hidden' = StaysHidden
        /\ Forget(departing)
        /\ Hydrate(back)
        /\ UNCHANGED <<leaf, target, gate, spawned, anchor, ended, crashes>>
        /\ Persist

-----------------------------------------------------------------------------
(* Leaving the session: session_before_switch, session_shutdown, session_start *)

BeforeSwitch ==
    /\ at = "idle"
    /\ at' = "leaving" /\ gate' = TRUE /\ departing' = agents
    /\ UNCHANGED <<leaf, target, loaded, objectVars, mapVars, durable, orphans, ended, crashes>>

\* The handles are those of the records that are active now: not of a stopped one.
StopAll ==
    /\ at = "leaving" /\ Prepared
    /\ at' = "stopping"
    /\ departing' = {r \in agents : Active(r)}
    /\ StopEach(agents)
    /\ UNCHANGED <<leaf, target, gate, loaded, session, prep, result, spec, mapVars,
                   orphans, ended, crashes>>
    /\ Persist

\* waitForAll() finds nothing active: admission is closed.
ReleaseAll ==
    /\ at = "stopping" /\ Settled /\ \A r \in agents : ~Active(r)
    /\ at' = "closing"
    /\ departing' = {r \in agents : session[r] # "none"}
    /\ ReleaseEach(agents)
    /\ UNCHANGED <<leaf, target, gate, loaded, status, stage, prep, result, spec, mapVars,
                   orphans, ended, crashes>>
    /\ Persist

Deactivated ==
    /\ at = "closing" /\ Released
    /\ at' = "between" /\ gate' = FALSE /\ departing' = {}
    /\ agents' = {} /\ hidden' = {}
    /\ Forget(agents)
    /\ Unborn(agents)
    /\ durable' = Registry
    /\ UNCHANGED <<leaf, target, loaded, spawned, anchor, ended, crashes>>

\* activate(), when the session is opened again, here or in another process.
Activate ==
    /\ at = "between"
    /\ at' = "idle"
    /\ agents' = Ids(OnBranch(durable))
    /\ hidden' = durable \ OnBranch(durable)
    /\ Hydrate(OnBranch(durable))
    /\ UNCHANGED <<leaf, target, gate, departing, loaded, stage, session, prep, spawned, anchor,
                   orphans, ended, crashes>>
    /\ durable' = Registry'

\* The process dies: only the registry, and the leaf, outlive it.
Crash ==
    /\ at # "between" /\ crashes < MaxCrashes
    /\ crashes' = crashes + 1
    /\ at' = "between" /\ target' = leaf /\ gate' = FALSE /\ departing' = {} /\ loaded' = {}
    /\ agents' = {} /\ hidden' = {} /\ orphans' = {}
    /\ Unborn(Records)
    /\ stage' = [r \in Records |-> "idle"]
    /\ session' = [r \in Records |-> "none"]
    /\ prep' = [r \in Records |-> "none"]
    /\ UNCHANGED <<leaf, spawned, anchor, durable, ended>>

-----------------------------------------------------------------------------
Child(r) ==
    \/ \E queued \in BOOLEAN : Spawn(r, queued)
    \/ StartQueued(r) \/ SessionCreated(r) \/ CreationFails(r) \/ TurnEnds(r) \/ Stop(r)
    \/ Resume(r) \/ RestoreFails(r) \/ Restored(r) \/ Refused(r) \/ TurnStarts(r)
    \/ Sweep(r) \/ Disposed(r)

Navigation ==
    \/ StopDeparting \/ ReleaseDeparting \/ TreePrepared
    \/ TreeCancelled \/ TreeCommitted
    \/ Reconcile \/ StopAdmitted \/ ReleaseAdmitted \/ Project

Switch == StopAll \/ ReleaseAll \/ Deactivated \/ Activate

Next ==
    \/ \E r \in Records : Child(r)
    \/ \E o \in orphans : OrphanEnds(o)
    \/ \E t \in Entries : BeforeTree(t)
    \/ BeforeSwitch
    \/ Navigation \/ Switch \/ Crash

\* The runtime goes on after its awaits; factories, restores and teardowns answer, and a
\* turn loop that hears its signal ends.  One that nobody stops, or that does not hear of
\* it, may last for ever.
Answers(r) ==
    \/ SessionCreated(r) \/ CreationFails(r)
    \/ status[r] = "stopped" /\ stage[r] = "turning" /\ TurnEnds(r)
    \/ RestoreFails(r) \/ Restored(r) \/ Refused(r) \/ TurnStarts(r)

Fairness ==
    /\ WF_vars(Navigation) /\ WF_vars(Switch)
    /\ \A r \in Records : WF_vars(Answers(r)) /\ WF_vars(Disposed(r))

Spec == Init /\ [][Next]_vars /\ Fairness

-----------------------------------------------------------------------------
(* Properties *)

\* The registry has exactly one entry for every child ever admitted, hidden siblings and a
\* dead process's included, with the outcome of the last turn that ended in the manager's hands.
RegistryIsWhole ==
    /\ Ids(durable) = spawned
    /\ \A p, q \in durable : p.id = q.id => p = q
    /\ \A p \in durable : p.result = ended[p.id]

\* Between two transitions the manager holds the children of the selected branch, all of
\* them and no other.
ProjectionFollowsLeaf ==
    at \in {"idle", "preparing", "settling", "releasing", "prepared"} =>
        /\ agents = {r \in spawned : Visible(r)}
        /\ Ids(hidden) = spawned \ agents

\* Once a transition has drained the records that leave, none of them runs, is being
\* resumed or holds a session when the manager lets go of them.
DepartedHoldsNothing ==
    at \in {"releasing", "clearing"} =>
        \A r \in departing : stage[r] = "idle" /\ prep[r] = "none" /\ session[r] # "open"

\* A navigation leaves alone the children both branches share: it neither stops, releases
\* nor replaces them.
SharedUndisturbed ==
    [][at # at' /\ at \in Preparing \cup Reconciling /\ at' # "between" =>
          \A r \in agents : anchor[r] \in Above[leaf] \cap Above[target] =>
              /\ r \in agents'
              /\ UNCHANGED <<status[r], stage[r], session[r], prep[r], result[r]>>]_vars

\* A run that leaves with the transition at hand and never heard that it was stopped.
HeldUp == \E r \in departing : stage[r] = "deaf"

\* Every navigation and every switch of session comes to its end, unless such a run lasts
\* for ever: the transition awaits it without a timeout.
TransitionsEnd == (at # "idle") ~> (at = "idle" \/ []HeldUp)

\* deactivate() leaves nothing of the session behind it: "stop, settle, persist, and
\* release every child" (handlers/lifecycle.ts:77).
DeactivationReleasesAll == at = "between" => orphans = {}
=============================================================================
