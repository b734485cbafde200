--------------------------- MODULE OutcomeDelivery ---------------------------
(***************************************************************************)
(* How the outcome of a subagent's run reaches the parent, and how often:  *)
(* packages/pi-subagents/src/observation/notification.ts (the announcer),  *)
(* tools/get-result-tool.ts, tools/foreground-runner.ts and                *)
(* tools/agent-tool.ts (the calls that carry an outcome back), with the    *)
(* delivery marks of lifecycle/subagent-state.ts.                          *)
(*                                                                         *)
(* An outcome is announced (a completion nudge), or carried back by a call *)
(* that awaits it.  The record keeps two marks: claimed, a carrier has     *)
(* committed itself, and consumed, the parent has the outcome.  While the  *)
(* parent's own agent run is active announcements are withheld.            *)
(*                                                                         *)
(* A run is here only its promise and its end; SubagentLifecycle models    *)
(* what lies between.  A call returns in the step that settles the promise *)
(* it awaits: only microtasks separate the two.  The texts of updates are  *)
(* all alike, the hardest case for the ledger, which finds them by text.   *)
(***************************************************************************)
EXTENDS Integers, Sequences, FiniteSets, SequencesExt

CONSTANTS
    Agents,      \* the records ever spawned
    MaxResumes,  \* bound: how often one record may be resumed
    MaxUpdates,  \* bound: the updates one record sends between two resets
    Terse        \* bound: the records that are not resumed and send no update

ASSUME DeliveryAssumption ==
    /\ IsFiniteSet(Agents)
    /\ MaxResumes \in Nat
    /\ MaxUpdates \in Nat
    /\ Terse \subseteq Agents

VARIABLES
    status,     \* SubagentState._status; "neverStarted" is stopped while queued
    cur,        \* the run whose promise the record holds
    unsettled,  \* the runs whose promise has not settled
    outcome,    \* the run whose end the record's result reports, if any
    consumed,   \* SubagentState._consumedAt is set
    claimed,    \* SubagentState._claimed
    sent,       \* how many updates the record sent since its last reset
    owed,       \* those of _runUpdates no announcement delivered
    pending,    \* NotificationManager.pending
    parent,     \* the parent's agent run: the announcer withholds unless "idle"
    disposed,   \* NotificationManager.disposed
    calls,      \* the calls awaiting a run to carry its outcome back
    announced,  \* history: how often each outcome was announced
    collected,  \* history: the outcomes the parent's own calls brought back
    carried,    \* history: whether a call that had claimed the record returned
    live,       \* history: the updates of `sent' that were announced
    stale       \* history: announced updates from before the last reset

recordVars == <<status, cur, unsettled, outcome, consumed, claimed>>
updateVars == <<sent, owed, live, stale>>
historyVars == <<announced, collected, carried>>
vars == <<recordVars, updateVars, historyVars, pending, parent, disposed, calls>>

Runs == 0 .. MaxResumes
NoRun == -1

Statuses == {"unborn", "queued", "running", "ended", "stopped", "neverStarted"}
ActiveStatus == {"queued", "running"}

(***************************************************************************)
(* foreground: spawnAndWait().  wait: get_subagent_result with wait.       *)
(* resume: the Agent tool's resume.  service: another extension's resume   *)
(* with claimOutcome; it hands the outcome to the parent itself.           *)
(***************************************************************************)
ParentCalls == {"foreground", "wait", "resume"}
Call(kind, a, k) == [kind |-> kind, agent |-> a, run |-> k]

Completion(a) == [kind |-> "completion", agent |-> a]
Update(a, k) == [kind |-> "update", agent |-> a, run |-> k]
Announcements ==
    {Completion(a) : a \in Agents} \cup {Update(a, k) : a \in Agents, k \in Runs}

IsPending(e) == e \in ToSet(pending)

Init ==
    /\ status = [a \in Agents |-> "unborn"]
    /\ cur = [a \in Agents |-> 0]
    /\ unsettled = [a \in Agents |-> {}]
    /\ outcome = [a \in Agents |-> NoRun]
    /\ consumed = [a \in Agents |-> FALSE]
    /\ claimed = [a \in Agents |-> FALSE]
    /\ sent = [a \in Agents |-> 0]
    /\ owed = [a \in Agents |-> 0]
    /\ live = [a \in Agents |-> 0]
    /\ stale = [a \in Agents |-> 0]
    /\ announced = [a \in Agents |-> [k \in Runs |-> 0]]
    /\ collected = [a \in Agents |-> {}]
    /\ carried = [a \in Agents |-> FALSE]
    /\ pending = <<>>
    /\ parent = "idle"
    /\ disposed = FALSE
    /\ calls = {}

-----------------------------------------------------------------------------
(* The announcer.                                                          *)

(* n times emitIndividualNudge(): what it says is the outcome the record   *)
(* holds now, nothing when a resume has reset the record since.            *)
Nudged(a, k, n) ==
    IF k \in Runs THEN [announced[a] EXCEPT ![k] = @ + n] ELSE announced[a]

(* Mutants of Withhold: nothing is superseded; a queued update of the same *)
(* record counts as its announcement.                                      *)
WithholdEach(a) == Append(pending, Completion(a))
WithholdPerRecord(a) ==
    IF \E e \in ToSet(pending) : e.agent = a THEN pending ELSE Append(pending, Completion(a))

(* withholdCompletion(): a completion already queued keeps its place. *)
Withhold(a) ==
    IF IsPending(Completion(a)) THEN pending ELSE Append(pending, Completion(a))

(* sendCompletion() for a record that reports the end of run k. *)
SendCompletion(a, k) ==
    \/ /\ disposed \/ claimed[a] \/ consumed[a]
       /\ UNCHANGED <<pending, announced>>
    \/ /\ ~(disposed \/ claimed[a] \/ consumed[a])
       /\ parent # "idle"
       /\ pending' = Withhold(a)
       /\ UNCHANGED announced
    \/ /\ ~(disposed \/ claimed[a] \/ consumed[a])
       /\ parent = "idle"
       /\ announced' = [announced EXCEPT ![a] = Nudged(a, k, 1)]
       /\ UNCHANGED pending

(* emitIndividualNudge() decides again for what was withheld. *)
StillWanted(a) == IsPending(Completion(a)) /\ ~claimed[a] /\ ~consumed[a]

(* Mutant of StillOwed: an announcement leaves the ledger as it was. *)
NothingMarked(a, n) == owed[a]

(* What is owed after markUpdateAnnounced() has taken n updates. *)
StillOwed(a, n) == IF n < owed[a] THEN owed[a] - n ELSE 0

(* canAnnounceUpdate() *)
CanAnnounceUpdate(a) == ~claimed[a] /\ status[a] \in ActiveStatus

(* announceUpdate() and sendUpdate(): the ledger first, then the channel.  *)
(* A stopped run still sends until its loop has unwound.                   *)
SendUpdate(a) ==
    /\ status[a] \in {"running", "ended", "stopped"}
    /\ unsettled[a] # {}
    /\ sent[a] < MaxUpdates /\ a \notin Terse
    /\ sent' = [sent EXCEPT ![a] = @ + 1]
    /\ \/ /\ disposed \/ ~CanAnnounceUpdate(a)
          /\ owed' = [owed EXCEPT ![a] = @ + 1]
          /\ UNCHANGED <<pending, live>>
       \/ /\ ~disposed /\ CanAnnounceUpdate(a) /\ parent # "idle"
          /\ owed' = [owed EXCEPT ![a] = @ + 1]
          /\ pending' = Append(pending, Update(a, cur[a]))
          /\ UNCHANGED live
       \/ /\ ~disposed /\ CanAnnounceUpdate(a) /\ parent = "idle"
          /\ live' = [live EXCEPT ![a] = @ + 1]
          /\ UNCHANGED <<owed, pending>>
    /\ UNCHANGED <<recordVars, stale, historyVars, parent, disposed, calls>>

(* onParentAgentStart() *)
ParentStarts ==
    /\ parent = "idle" /\ ~disposed
    /\ parent' = "active"
    /\ UNCHANGED <<recordVars, updateVars, historyVars, pending, disposed, calls>>

(* The updates the flush announces, and the ledger they leave. *)
FlushedUpdates(a, ks) ==
    IF CanAnnounceUpdate(a)
    THEN Cardinality({i \in DOMAIN pending : \E k \in ks : pending[i] = Update(a, k)})
    ELSE 0

(* The flush emits a nudge for every completion it finds. *)
Nudges(a) == Cardinality({i \in DOMAIN pending : pending[i] = Completion(a)})

Flush ==
    /\ announced' = [a \in Agents |->
            IF StillWanted(a) THEN Nudged(a, outcome[a], Nudges(a)) ELSE announced[a]]
    /\ live' = [a \in Agents |-> live[a] + FlushedUpdates(a, {cur[a]})]
    /\ stale' = [a \in Agents |-> stale[a] + FlushedUpdates(a, Runs \ {cur[a]})]
    /\ owed' = [a \in Agents |-> StillOwed(a, FlushedUpdates(a, Runs))]
    /\ pending' = <<>>

(* onParentAgentSettled(): the parent's calls have all returned. *)
ParentSettles ==
    /\ parent # "idle" /\ ~disposed
    /\ \A c \in calls : c.kind \notin ParentCalls
    /\ parent' = "idle"
    /\ Flush
    /\ UNCHANGED <<recordVars, sent, collected, carried, disposed, calls>>

-----------------------------------------------------------------------------
(* Runs begin and end.                                                     *)

Begin(a, first) ==
    /\ status[a] = "unborn" /\ ~disposed
    /\ status' = [status EXCEPT ![a] = first]
    /\ unsettled' = [unsettled EXCEPT ![a] = {0}]
    /\ UNCHANGED <<cur, outcome, consumed, updateVars, historyVars, pending, parent, disposed>>

(* spawn(): queued, or running at once (bypassQueue, a service foreground).*)
Spawn(a, first) ==
    /\ Begin(a, first)
    /\ UNCHANGED <<claimed, calls>>

(* spawnAndWait() *)
SpawnAndWait(a) ==
    /\ parent = "active"
    /\ Begin(a, "running")
    /\ claimed' = [claimed EXCEPT ![a] = TRUE]
    /\ calls' = calls \cup {Call("foreground", a, 0)}

(* The limiter admits a queued record. *)
Admit(a) ==
    /\ status[a] = "queued"
    /\ status' = [status EXCEPT ![a] = "running"]
    /\ UNCHANGED <<cur, unsettled, outcome, consumed, claimed, updateVars,
                   historyVars, pending, parent, disposed, calls>>

(* The promise of run k settles with the record reporting run r: the calls *)
(* that awaited it return what the record holds; the parent's mark it.     *)
Settle(a, k, r) ==
    LET back == {c \in calls : c.agent = a /\ c.run = k}
        mine == {c \in back : c.kind \in ParentCalls}
    IN  /\ unsettled' = [unsettled EXCEPT ![a] = @ \ {k}]
        /\ calls' = calls \ back
        /\ consumed' = [consumed EXCEPT ![a] = @ \/ mine # {}]
        /\ collected' = [collected EXCEPT ![a] = IF mine # {} THEN @ \cup {r} ELSE @]
        /\ carried' = [carried EXCEPT ![a] = @ \/ back # {}]

(* completeRun() or failRun() of run k, then onRunFinished. *)
RunEnds(a, k) ==
    /\ k \in unsettled[a]
    /\ status[a] \in {"running", "ended", "stopped"}
    /\ status' = [status EXCEPT ![a] = IF @ = "stopped" THEN @ ELSE "ended"]
    /\ outcome' = [outcome EXCEPT ![a] = k]
    /\ SendCompletion(a, k)
    /\ Settle(a, k, k)
    /\ UNCHANGED <<cur, claimed, updateVars, parent, disposed>>

(* The thunk of a record stopped while queued gets its slot and does nothing. *)
ThunkReturns(a) ==
    /\ status[a] = "neverStarted"
    /\ 0 \in unsettled[a]
    /\ Settle(a, 0, 0)
    /\ UNCHANGED <<status, cur, outcome, claimed, updateVars, announced, pending,
                   parent, disposed>>

(* abort() from a user or a service: a running record reads stopped at     *)
(* once, its loop unwinds later; a queued one is reported here.            *)
Stop(a) ==
    /\ ~disposed
    /\ \/ /\ status[a] = "running"
          /\ status' = [status EXCEPT ![a] = "stopped"]
          /\ UNCHANGED <<outcome, pending, announced>>
       \/ /\ status[a] = "queued"
          /\ status' = [status EXCEPT ![a] = "neverStarted"]
          /\ outcome' = [outcome EXCEPT ![a] = 0]
          /\ SendCompletion(a, 0)
    /\ UNCHANGED <<cur, unsettled, consumed, claimed, updateVars, collected, carried,
                   parent, disposed, calls>>

(* resume() past its refusals: resetForResume() keeps the claim. *)
Resume(a, claim) ==
    /\ status[a] \in {"ended", "stopped"} /\ ~disposed
    /\ cur[a] < MaxResumes /\ a \notin Terse
    /\ status' = [status EXCEPT ![a] = "running"]
    /\ cur' = [cur EXCEPT ![a] = @ + 1]
    /\ unsettled' = [unsettled EXCEPT ![a] = @ \cup {cur[a] + 1}]
    /\ outcome' = [outcome EXCEPT ![a] = NoRun]
    /\ consumed' = [consumed EXCEPT ![a] = FALSE]
    /\ claimed' = [claimed EXCEPT ![a] = @ \/ claim]
    /\ sent' = [sent EXCEPT ![a] = 0]
    /\ owed' = [owed EXCEPT ![a] = 0]
    /\ live' = [live EXCEPT ![a] = 0]
    /\ stale' = [stale EXCEPT ![a] = 0]
    /\ UNCHANGED <<historyVars, pending, parent, disposed>>

ResumeTool(a) ==
    /\ parent = "active"
    /\ Resume(a, TRUE)
    /\ calls' = calls \cup {Call("resume", a, cur[a] + 1)}

ServiceResume(a) ==
    \/ /\ Resume(a, TRUE)
       /\ calls' = calls \cup {Call("service", a, cur[a] + 1)}
    \/ /\ Resume(a, FALSE)
       /\ UNCHANGED calls

-----------------------------------------------------------------------------
(* get_subagent_result, and the parent's interrupt.                        *)

(* What a collected record adds to `collected': a record stopped before    *)
(* its loop unwound holds no outcome yet.                                  *)
Held(r) == {r} \cap Runs

(* The record is not active: consumed now, with or without wait.  Without  *)
(* wait, asking for an active record changes nothing.                      *)
GetResult(a, wait) ==
    /\ parent = "active" /\ ~disposed
    /\ status[a] \in {"ended", "stopped", "neverStarted"}
    /\ claimed' = [claimed EXCEPT ![a] = @ \/ wait]
    /\ consumed' = [consumed EXCEPT ![a] = TRUE]
    /\ collected' = [collected EXCEPT ![a] = @ \cup Held(outcome[a])]
    /\ carried' = [carried EXCEPT ![a] = @ \/ wait]
    /\ UNCHANGED <<status, cur, unsettled, outcome, updateVars, announced, pending,
                   parent, disposed, calls>>

GetResultWaits(a) ==
    /\ parent = "active" /\ ~disposed
    /\ status[a] \in ActiveStatus
    /\ claimed' = [claimed EXCEPT ![a] = TRUE]
    /\ calls' = calls \cup {Call("wait", a, cur[a])}
    /\ UNCHANGED <<status, cur, unsettled, outcome, consumed, updateVars, historyVars,
                   pending, parent, disposed>>

(* Mutant of Released: a wait that is abandoned keeps its claim. *)
NeverReleased(S) == claimed

(* release() of the records in S. *)
Released(S) == [a \in Agents |-> claimed[a] /\ a \notin S]

(***************************************************************************)
(* The parent's signal fires.  Its foreground and resume calls stop their  *)
(* records; the abortAllOnInterrupt policy (all) stops every record.  Then *)
(* the waits end: an active record is released, any other is collected.    *)
(***************************************************************************)
Interrupt(all) ==
    LET driven == {c.agent : c \in {d \in calls : d.kind \in {"foreground", "resume"}}}
        stops == {a \in Agents : status[a] = "running" /\ (all \/ a \in driven)}
        cancels == {a \in Agents : status[a] = "queued" /\ all}
        waits == {c \in calls : c.kind = "wait"}
        waited == {c.agent : c \in waits}
        told == {a \in cancels : ~claimed[a] /\ ~consumed[a] /\ ~IsPending(Completion(a))}
        freed == {a \in waited : status[a] \in ActiveStatus /\ a \notin stops \cup cancels}
    IN  /\ parent = "active" /\ ~disposed
        /\ parent' = "interrupted"
        /\ status' = [a \in Agents |-> IF a \in stops THEN "stopped"
                                       ELSE IF a \in cancels THEN "neverStarted"
                                       ELSE status[a]]
        /\ outcome' = [a \in Agents |-> IF a \in cancels THEN 0 ELSE outcome[a]]
        /\ \E order \in SetToSeqs(told) :
              pending' = pending \o [i \in DOMAIN order |-> Completion(order[i])]
        /\ calls' = calls \ waits
        /\ claimed' = Released(freed)
        /\ consumed' = [a \in Agents |-> consumed[a] \/ a \in waited \ freed]
        /\ collected' = [a \in Agents |->
              IF a \in waited \ freed THEN collected[a] \cup Held(outcome'[a]) ELSE collected[a]]
        /\ carried' = [a \in Agents |-> carried[a] \/ a \in waited \ freed]
        /\ UNCHANGED <<cur, unsettled, updateVars, announced, disposed>>

(* session_shutdown: dispose(), then deactivate() stops every child. *)
Shutdown ==
    /\ ~disposed
    /\ disposed' = TRUE
    /\ pending' = <<>>
    /\ status' = [a \in Agents |-> IF status[a] = "running" THEN "stopped"
                                   ELSE IF status[a] = "queued" THEN "neverStarted"
                                   ELSE status[a]]
    /\ outcome' = [a \in Agents |-> IF status[a] = "queued" THEN 0 ELSE outcome[a]]
    /\ UNCHANGED <<cur, unsettled, consumed, claimed, updateVars, historyVars, parent, calls>>

-----------------------------------------------------------------------------

Next ==
    \/ ParentStarts \/ ParentSettles \/ Shutdown
    \/ \E all \in BOOLEAN : Interrupt(all)
    \/ \E a \in Agents :
          \/ \E first \in ActiveStatus : Spawn(a, first)
          \/ SpawnAndWait(a)
          \/ Admit(a)
          \/ SendUpdate(a)
          \/ \E k \in Runs : RunEnds(a, k)
          \/ ThunkReturns(a)
          \/ Stop(a)
          \/ ResumeTool(a)
          \/ ServiceResume(a)
          \/ \E wait \in BOOLEAN : GetResult(a, wait)
          \/ GetResultWaits(a)

(***************************************************************************)
(* The parent's agent run settles (agent_settled fires from a finally      *)
(* block), a child's turn loop ends, and the limiter serves its queue      *)
(* (SubagentLifecycle!QueuedLeaves).  Nobody owes a resume, a call, a stop *)
(* or a shutdown.                                                          *)
(***************************************************************************)
Fairness ==
    /\ WF_vars(ParentSettles)
    /\ \A a \in Agents :
          /\ WF_vars(Admit(a))
          /\ WF_vars(ThunkReturns(a))
          /\ \A k \in Runs : WF_vars(RunEnds(a, k))

Spec == Init /\ [][Next]_vars
FairSpec == Spec /\ Fairness

-----------------------------------------------------------------------------

(* Every variable has the values the code gives it, and no announcement of *)
(* a record that does not exist is queued.                                 *)
TypeOK ==
    /\ status \in [Agents -> Statuses]
    /\ cur \in [Agents -> Runs]
    /\ unsettled \in [Agents -> SUBSET Runs]
    /\ outcome \in [Agents -> Runs \cup {NoRun}]
    /\ consumed \in [Agents -> BOOLEAN]
    /\ claimed \in [Agents -> BOOLEAN]
    /\ sent \in [Agents -> Nat]
    /\ owed \in [Agents -> Nat]
    /\ live \in [Agents -> Nat]
    /\ stale \in [Agents -> Nat]
    /\ pending \in Seq(Announcements)
    /\ parent \in {"idle", "active", "interrupted"}
    /\ disposed \in BOOLEAN
    /\ calls \subseteq [kind : ParentCalls \cup {"service"}, agent : Agents, run : Runs]
    /\ announced \in [Agents -> [Runs -> Nat]]
    /\ collected \in [Agents -> SUBSET Runs]
    /\ carried \in [Agents -> BOOLEAN]

(* The end of a run is announced at most once, however often the record    *)
(* completes while the parent is busy and however runs of one record       *)
(* overlap (withholdCompletion(), the flush).                              *)
AnnouncedOnce == \A a \in Agents, k \in Runs : announced[a][k] <= 1

(* An outcome the parent pulled is not announced to it afterwards: what is *)
(* withheld is decided again when it is flushed.                           *)
NoEcho ==
    [][\A a \in Agents : \A k \in collected[a] : announced'[a][k] = announced[a][k]]_vars

(* A claim is never left behind by nobody: a call that claimed the record  *)
(* is still waiting, or one has returned (a wait the parent interrupts     *)
(* gives its claim back while the record is active).                       *)
ClaimHasCarrier ==
    \A a \in Agents : claimed[a] => carried[a] \/ \E c \in calls : c.agent = a

(* No update falls between the channels and none is on both: what a record *)
(* sent since its last reset was announced or is still owed, and what was  *)
(* announced is owed no more.  (An announcement that outlived a reset may  *)
(* settle a copy of the same text.)                                        *)
UpdateLedger ==
    \A a \in Agents :
        /\ owed[a] + live[a] <= sent[a]
        /\ sent[a] <= owed[a] + live[a] + stale[a]

(* An outcome nobody has claimed or collected reaches the parent, unless   *)
(* the record is reset or the session ends first.                          *)
OutcomeReachesParent ==
    \A a \in Agents, k \in Runs :
        (outcome[a] = k /\ ~claimed[a] /\ ~consumed[a])
            ~> (announced[a][k] > 0 \/ k \in collected[a] \/ outcome[a] # k
                \/ claimed[a] \/ disposed)

(* What get_subagent_result says of the claim it gives back: a call that   *)
(* has claimed a record and still waits keeps its claim.                   *)
ClaimKept == \A c \in calls : claimed[c.agent]

(* What the service promises of a resume without claimOutcome: its outcome *)
(* is announced like any other background completion.                      *)
UnclaimedResumeIsAnnounced ==
    [][\A a \in Agents : \A k \in (unsettled[a] \ unsettled'[a]) \ {0} :
          (~disposed /\ ~consumed[a] /\ \A c \in calls : c.agent # a)
              => announced'[a][k] > 0 \/ Completion(a) \in ToSet(pending')]_vars

=============================================================================
