------------------------- MODULE SubagentLifecycle -------------------------
(***************************************************************************)
(* The life of the subagents one parent session owns, from spawn to the    *)
(* release of their sessions, with any number of resumes in between:       *)
(* packages/pi-subagents/src/lifecycle -- subagent-manager.ts, subagent.ts,*)
(* subagent-state.ts, subagent-session.ts, run-listeners.ts,               *)
(* workspace-bracket.ts and the factory of create-subagent-session.ts.     *)
(* Background work is admitted by ConcurrencyLimiter.                      *)
(*                                                                         *)
(* JavaScript runs one callback at a time, so an action is everything      *)
(* between two points where the code waits for something outside it: the   *)
(* workspace provider, the session factory, the turn loop, a child's       *)
(* shutdown, a timer, or a caller.  An `await' that has nothing to wait    *)
(* for is not a point: its continuation belongs to the same action.        *)
(*                                                                         *)
(* The parent session does not change here (activate, /tree navigation and *)
(* deactivate are another component), so every record stays visible, and   *)
(* clearCompleted(), which nothing in the program calls, is left out.      *)
(***************************************************************************)
EXTENDS Integers, Sequences, FiniteSets

CONSTANTS
    Agents,       \* the records ever spawned
    MaxLimit,     \* bound: the largest value of the maxConcurrent setting
    MaxResumes,   \* bound: how often one record may be resumed
    HasProvider   \* whether a workspace provider is registered

ASSUME LifecycleAssumption ==
    /\ IsFiniteSet(Agents)
    /\ MaxLimit \in Nat \ {0}
    /\ MaxResumes \in Nat
    /\ HasProvider \in BOOLEAN

VARIABLES
    pending, active, limit, slot,   \* the limiter, its tasks named by record
    status,        \* SubagentState._status, "unborn" before spawn
    neverStarted,  \* SubagentState._stoppedWhileQueued
    cur,           \* the run whose controller and promise the record holds
    run,           \* how far each run of a record has come
    fired,         \* the runs whose AbortController fired
    cancelled,     \* the runs whose session was told to abort
    listening,     \* the run whose caller's signal is still wired to abort()
    reports,       \* how often the end of each run was reported to the observer
    prep,          \* the resume preparation in flight
    session,       \* whether the record holds its child session
    generation,    \* how many sessions this record has had
    closing,       \* the sessions in teardown
    releasing,     \* the session releaseSession() is waiting for, 0 for none
    registered,    \* whether the child's id is registered (session-created)
    workspace      \* the record's WorkspaceBracket

limiterVars == <<pending, active, limit, slot>>
recordVars == <<status, neverStarted, reports>>
runVars == <<cur, run, fired, cancelled, listening>>
sessionVars == <<session, generation, closing, releasing, registered>>
vars == <<limiterVars, recordVars, runVars, sessionVars, prep, workspace>>

Limiter == INSTANCE ConcurrencyLimiter WITH Tasks <- Agents

ActiveStatus == {"queued", "running"}
TerminalStatus == {"completed", "steered", "aborted", "stopped", "error"}

\* Run 0 is the initial run; run k is the k-th resume.
Runs == 0 .. MaxResumes
NoRun == -1

(***************************************************************************)
(* idle: not begun.  preparing: awaiting provider.prepare().  loading:     *)
(* awaiting the factory, nothing published yet.  binding: the factory has  *)
(* published session-created and awaits bindExtensions().  unwinding: it   *)
(* failed and is disposing its own session.  looping: awaiting the turn    *)
(* loop.  settled: the run's promise resolved.                             *)
(***************************************************************************)
RunStates ==
    {"idle", "preparing", "loading", "binding", "unwinding", "looping", "settled"}
InFlight(a, k) == run[a][k] \notin {"idle", "settled"}

PrepStates ==
    {"none", "awaitRelease", "restoringWorkspace", "loading", "binding", "unwinding"}

\* stuck: still live because suspend() threw.
WorkspaceStates == {"none", "live", "stuck", "suspended"}

Init ==
    /\ Limiter!Init
    /\ status = [a \in Agents |-> "unborn"]
    /\ neverStarted = [a \in Agents |-> FALSE]
    /\ reports = [a \in Agents |-> [k \in Runs |-> 0]]
    /\ cur = [a \in Agents |-> 0]
    /\ run = [a \in Agents |-> [k \in Runs |-> "idle"]]
    /\ fired = [a \in Agents |-> {}]
    /\ cancelled = [a \in Agents |-> {}]
    /\ listening = [a \in Agents |-> NoRun]
    /\ prep = [a \in Agents |-> "none"]
    /\ session = [a \in Agents |-> "none"]
    /\ generation = [a \in Agents |-> 0]
    /\ closing = [a \in Agents |-> {}]
    /\ releasing = [a \in Agents |-> 0]
    /\ registered = [a \in Agents |-> FALSE]
    /\ workspace = [a \in Agents |-> "none"]

-----------------------------------------------------------------------------
(* Spawning, and what the limiter's recheck() starts.                      *)

(* The synchronous prefix of run(): running, signal wired, first await.    *)
BeginRuns(S, states) ==
    /\ status' = [a \in Agents |-> IF a \in S THEN "running" ELSE states[a]]
    /\ run' = [a \in Agents |->
                IF a \in S
                THEN [run[a] EXCEPT ![0] = IF HasProvider THEN "preparing" ELSE "loading"]
                ELSE run[a]]
    /\ listening' = [a \in Agents |-> IF a \in S THEN 0 ELSE listening[a]]
    /\ UNCHANGED <<neverStarted, reports, cur, fired, cancelled, prep, workspace>>
    /\ UNCHANGED sessionVars

(* The records whose closure this step of the limiter called. *)
Started == {a \in Agents : slot[a] # "started" /\ slot'[a] = "started"}

(* guardedRun() of each: a record that left the active set does not run.   *)
GuardedRuns(states) ==
    BeginRuns({a \in Started : states[a] \in ActiveStatus}, states)

(* create() for background work: scheduleVia() the limiter. *)
SpawnQueued(a) ==
    /\ status[a] = "unborn"
    /\ Limiter!Schedule(a)
    /\ GuardedRuns([status EXCEPT ![a] = "queued"])

(* create() for foreground or bypassQueue work: start() at once. *)
SpawnDirect(a) ==
    /\ status[a] = "unborn"
    /\ BeginRuns({a}, status)
    /\ UNCHANGED limiterVars

(* Mutant of SlotSettles: a stopped record gives its slot back at once.     *)
SlotSettlesOnStop(a) ==
    /\ status[a] \in TerminalStatus
    /\ Limiter!TaskSettles(a)
    /\ UNCHANGED <<recordVars, runVars, sessionVars, prep, workspace>>

(* The closure's promise settles: with its run, or at once if it never ran. *)
SlotSettles(a) ==
    /\ run[a][0] \in {"idle", "settled"}
    /\ Limiter!TaskSettles(a)
    /\ UNCHANGED <<recordVars, runVars, sessionVars, prep, workspace>>

(* Mutant of SlotFreed: the callback forgets to recheck. *)
SlotFreedNoRecheck(a) ==
    /\ slot[a] = "settled"
    /\ slot' = [slot EXCEPT ![a] = "freed"]
    /\ active' = active - 1
    /\ UNCHANGED <<pending, limit, recordVars, runVars, sessionVars, prep, workspace>>

(* The limiter's finally() callback. *)
SlotFreed(a) == Limiter!SlotFreed(a) /\ GuardedRuns(status)

(* The operator changes maxConcurrent. *)
SetLimit(n) == Limiter!SetLimit(n) /\ GuardedRuns(status)

-----------------------------------------------------------------------------
(* The end of a run.                                                       *)

(* What suspending the workspace may leave: nothing to do, done, or thrown. *)
SuspendOutcomes(a) ==
    IF workspace[a] \in {"live", "stuck"} THEN {"suspended", "stuck"} ELSE {workspace[a]}

(* Mutant of Marked: the outcome overwrites a stop. *)
MarkedAlways(a, outcome) == outcome

(* markCompleted / markAborted / markSteered / markError: never over a stop. *)
Marked(a, outcome) == IF status[a] = "stopped" THEN "stopped" ELSE outcome

(* Mutants of FinishRun: the end of a stopped run is not reported; the     *)
(* listeners are not released.                                             *)
FinishRunSilentStop(a, k, outcome) ==
    \E w \in SuspendOutcomes(a) :
        /\ workspace' = [workspace EXCEPT ![a] = w]
        /\ status' = [status EXCEPT ![a] =
                        Marked(a, IF w = "stuck" THEN "error" ELSE outcome)]
        /\ run' = [run EXCEPT ![a][k] = "settled"]
        /\ listening' = [listening EXCEPT ![a] = NoRun]
        /\ reports' = IF status[a] = "stopped" THEN reports
                      ELSE [reports EXCEPT ![a][k] = @ + 1]
        /\ UNCHANGED <<neverStarted, cur, fired, cancelled>>

FinishRunStillListening(a, k, outcome) ==
    \E w \in SuspendOutcomes(a) :
        /\ workspace' = [workspace EXCEPT ![a] = w]
        /\ status' = [status EXCEPT ![a] =
                        Marked(a, IF w = "stuck" THEN "error" ELSE outcome)]
        /\ run' = [run EXCEPT ![a][k] = "settled"]
        /\ reports' = [reports EXCEPT ![a][k] = @ + 1]
        /\ UNCHANGED <<neverStarted, cur, fired, cancelled, listening>>

(***************************************************************************)
(* completeRun, failRun, completeResume, failResume: release the record's  *)
(* listeners, suspend its workspace, mark, report.  A suspend that throws  *)
(* turns a completion into a failure, which reports in its stead.          *)
(***************************************************************************)
FinishRun(a, k, outcome) ==
    \E w \in SuspendOutcomes(a) :
        /\ workspace' = [workspace EXCEPT ![a] = w]
        /\ status' = [status EXCEPT ![a] =
                        Marked(a, IF w = "stuck" THEN "error" ELSE outcome)]
        /\ run' = [run EXCEPT ![a][k] = "settled"]
        /\ listening' = [listening EXCEPT ![a] = NoRun]
        /\ reports' = [reports EXCEPT ![a][k] = @ + 1]
        /\ UNCHANGED <<neverStarted, cur, fired, cancelled>>

(* runTurnLoop / resumeTurnLoop settles; only the first has a turn limit.  *)
LoopOutcomes(k) ==
    IF k = 0 THEN {"completed", "steered", "aborted", "error"} ELSE {"completed", "error"}

LoopSettles(a, k) ==
    /\ run[a][k] = "looping"
    /\ \E outcome \in LoopOutcomes(k) : FinishRun(a, k, outcome)
    /\ UNCHANGED <<limiterVars, sessionVars, prep>>

-----------------------------------------------------------------------------
(* Stopping.                                                               *)

(***************************************************************************)
(* For each record of S: stopQueued() if it is queued; abort() if it runs, *)
(* which fires the controller of the current run.  Only a turn loop that   *)
(* has begun listens to that controller.                                   *)
(***************************************************************************)
Stop(S) ==
    LET queued == {a \in S : status[a] = "queued"}
        running == {a \in S : status[a] = "running"} IN
    /\ status' = [a \in Agents |-> IF a \in queued \union running THEN "stopped" ELSE status[a]]
    /\ neverStarted' = [a \in Agents |-> neverStarted[a] \/ a \in queued]
    /\ reports' = [a \in Agents |->
                    IF a \in queued THEN [reports[a] EXCEPT ![0] = @ + 1] ELSE reports[a]]
    /\ fired' = [a \in Agents |->
                    IF a \in running THEN fired[a] \union {cur[a]} ELSE fired[a]]
    /\ cancelled' = [a \in Agents |->
                    IF a \in running /\ run[a][cur[a]] = "looping"
                    THEN cancelled[a] \union {cur[a]} ELSE cancelled[a]]
    /\ UNCHANGED <<cur, run, prep, workspace>>
    /\ UNCHANGED sessionVars

Abort(a) ==
    /\ status[a] \in ActiveStatus
    /\ Stop({a})
    /\ UNCHANGED <<listening, limiterVars>>

(* Mutant of AbortAll: the count is reset with the queue, though runs go on. *)
AbortAllResets ==
    /\ Stop(Agents)
    /\ pending' = <<>> /\ active' = 0
    /\ slot' = [a \in Agents |-> IF slot[a] = "pending" THEN "dropped" ELSE slot[a]]
    /\ UNCHANGED <<limit, listening>>

(* abortAll(): stop every record, then drop what the limiter holds. *)
AbortAll == Stop(Agents) /\ Limiter!Clear /\ UNCHANGED listening

(* The caller's signal fires, once, and calls abort(). *)
CallerSignal(a) ==
    /\ listening[a] # NoRun
    /\ Stop({a})
    /\ listening' = [listening EXCEPT ![a] = NoRun]
    /\ UNCHANGED limiterVars

-----------------------------------------------------------------------------
(* Child sessions: the factory, and teardown.                              *)

(* The factory publishes session-created: a new session is registered. *)
Registers(a) ==
    /\ generation' = [generation EXCEPT ![a] = @ + 1]
    /\ registered' = [registered EXCEPT ![a] = TRUE]
    /\ UNCHANGED <<session, closing, releasing>>

(* SubagentSession.dispose() begins; the child's shutdown is awaited. *)
Closes(a) == closing' = [closing EXCEPT ![a] = @ \union {generation[a]}]

(* dispose() ends: the disposed event unregisters the child's id. *)
Disposed(a, g) ==
    /\ closing' = [closing EXCEPT ![a] = @ \ {g}]
    /\ registered' = [registered EXCEPT ![a] = FALSE]

RunAdvances(a, from, to) ==
    /\ run[a][0] = from
    /\ run' = [run EXCEPT ![a][0] = to]
    /\ UNCHANGED <<cur, fired, cancelled, listening, recordVars>>

(* provider.prepare() resolves, with a workspace or with none, or rejects. *)
Prepared(a) ==
    /\ RunAdvances(a, "preparing", "loading")
    /\ \E w \in {"live", "none"} : workspace' = [workspace EXCEPT ![a] = w]
    /\ UNCHANGED <<limiterVars, sessionVars, prep>>

PrepareFails(a) ==
    /\ run[a][0] = "preparing"
    /\ FinishRun(a, 0, "error")
    /\ UNCHANGED <<limiterVars, sessionVars, prep>>

CreateRegisters(a) ==
    /\ RunAdvances(a, "loading", "binding")
    /\ Registers(a)
    /\ UNCHANGED <<limiterVars, prep, workspace>>

CreateFails(a) ==
    /\ run[a][0] = "loading"
    /\ FinishRun(a, 0, "error")
    /\ UNCHANGED <<limiterVars, sessionVars, prep>>

(* The factory resolves: the record holds the session, the turn loop begins. *)
CreateBinds(a) ==
    /\ RunAdvances(a, "binding", "looping")
    /\ session' = [session EXCEPT ![a] = "held"]
    /\ UNCHANGED <<generation, closing, releasing, registered>>
    /\ UNCHANGED <<limiterVars, prep, workspace>>

CreateBindFails(a) ==
    /\ RunAdvances(a, "binding", "unwinding")
    /\ Closes(a)
    /\ UNCHANGED <<session, generation, releasing, registered>>
    /\ UNCHANGED <<limiterVars, prep, workspace>>

CreateUnwound(a) ==
    /\ run[a][0] = "unwinding"
    /\ Disposed(a, generation[a])
    /\ FinishRun(a, 0, "error")
    /\ UNCHANGED <<session, generation, releasing, limiterVars, prep>>

-----------------------------------------------------------------------------
(* Resuming: prepareResume(), then resume() in the same synchronous step.  *)

(* runResume() up to its turn loop: a fresh controller, running, rewired.  *)
BeginResume(a) ==
    LET k == cur[a] + 1 IN
    /\ cur' = [cur EXCEPT ![a] = k]
    /\ run' = [run EXCEPT ![a][k] = "looping"]
    /\ status' = [status EXCEPT ![a] = "running"]
    /\ listening' = [listening EXCEPT ![a] = k]
    /\ prep' = [prep EXCEPT ![a] = "none"]
    /\ UNCHANGED <<neverStarted, reports, fired, cancelled>>

PrepMoves(a, to) ==
    /\ prep' = [prep EXCEPT ![a] = to]
    /\ UNCHANGED <<recordVars, runVars>>

(* The workspace is there: reopen the session, unless the record holds it. *)
ReopenOrBegin(a) ==
    IF session[a] = "held" THEN BeginResume(a) ELSE PrepMoves(a, "loading")

(* The old session is gone: restore a suspended workspace first. *)
RestoreOrReopen(a) ==
    IF workspace[a] = "suspended" THEN PrepMoves(a, "restoringWorkspace") ELSE ReopenOrBegin(a)

(***************************************************************************)
(* SubagentManager.resume(): refused while the record runs, while another  *)
(* resume prepares it, and when it never had a session.                    *)
(***************************************************************************)
Resumable(a) ==
    /\ status[a] \notin {"unborn", "running"}
    /\ prep[a] = "none"
    /\ session[a] # "none"

(* Mutant of Resume: it does not await the old session's teardown. *)
ResumeAtOnce(a) ==
    /\ Resumable(a)
    /\ cur[a] < MaxResumes
    /\ generation[a] <= MaxResumes
    /\ RestoreOrReopen(a)
    /\ UNCHANGED <<limiterVars, sessionVars, workspace>>

(* An admitted resume; the two bounds are the model's. *)
Resume(a) ==
    /\ Resumable(a)
    /\ cur[a] < MaxResumes
    /\ generation[a] <= MaxResumes
    /\ IF releasing[a] # 0 THEN PrepMoves(a, "awaitRelease") ELSE RestoreOrReopen(a)
    /\ UNCHANGED <<limiterVars, sessionVars, workspace>>

(* prepareResume() throws: suspend quietly, report the refusal. *)
PrepFails(a) ==
    /\ PrepMoves(a, "none")
    /\ \E w \in SuspendOutcomes(a) : workspace' = [workspace EXCEPT ![a] = w]

WorkspaceRestored(a) ==
    /\ prep[a] = "restoringWorkspace"
    /\ workspace' = [workspace EXCEPT ![a] = "live"]
    /\ ReopenOrBegin(a)
    /\ UNCHANGED <<limiterVars, sessionVars>>

WorkspaceRestoreFails(a) ==
    /\ prep[a] = "restoringWorkspace"
    /\ PrepFails(a)
    /\ UNCHANGED <<limiterVars, sessionVars>>

RestoreRegisters(a) ==
    /\ prep[a] = "loading"
    /\ PrepMoves(a, "binding")
    /\ Registers(a)
    /\ UNCHANGED <<limiterVars, workspace>>

RestoreFails(a) ==
    /\ prep[a] = "loading"
    /\ PrepFails(a)
    /\ UNCHANGED <<limiterVars, sessionVars>>

RestoreBinds(a) ==
    /\ prep[a] = "binding"
    /\ session' = [session EXCEPT ![a] = "held"]
    /\ BeginResume(a)
    /\ UNCHANGED <<generation, closing, releasing, registered, limiterVars, workspace>>

RestoreBindFails(a) ==
    /\ prep[a] = "binding"
    /\ PrepMoves(a, "unwinding")
    /\ Closes(a)
    /\ UNCHANGED <<session, generation, releasing, registered, limiterVars, workspace>>

RestoreUnwound(a) ==
    /\ prep[a] = "unwinding"
    /\ Disposed(a, generation[a])
    /\ PrepFails(a)
    /\ UNCHANGED <<session, generation, releasing, limiterVars>>

-----------------------------------------------------------------------------
(* Releasing.                                                              *)

(***************************************************************************)
(* One record of a sweep() tick: a settled record past its retention       *)
(* window gives up its session (releaseSession).  The clock is abstracted: *)
(* the window of a settled record may have passed.  The records of a tick  *)
(* do not read each other, so a tick is a sequence of these steps.         *)
(***************************************************************************)
SweepReleases(a) ==
    /\ status[a] \in TerminalStatus
    /\ session[a] = "held"
    /\ releasing[a] = 0
    /\ \E w \in SuspendOutcomes(a) : workspace' = [workspace EXCEPT ![a] = w]
    /\ session' = [session EXCEPT ![a] = "released"]
    /\ Closes(a)
    /\ releasing' = [releasing EXCEPT ![a] = generation[a]]
    /\ UNCHANGED <<generation, registered, limiterVars, recordVars, runVars, prep>>

(* Mutant of ReleaseSettles: a preparation awaiting the teardown is forgotten. *)
ReleaseSettlesUnheard(a) ==
    /\ releasing[a] # 0
    /\ Disposed(a, releasing[a])
    /\ releasing' = [releasing EXCEPT ![a] = 0]
    /\ UNCHANGED <<prep, recordVars, runVars>>
    /\ UNCHANGED <<session, generation, limiterVars, workspace>>

(* The released session's teardown ends; a preparation awaiting it goes on. *)
ReleaseSettles(a) ==
    /\ releasing[a] # 0
    /\ Disposed(a, releasing[a])
    /\ releasing' = [releasing EXCEPT ![a] = 0]
    /\ IF prep[a] = "awaitRelease" THEN RestoreOrReopen(a)
       ELSE UNCHANGED <<prep, recordVars, runVars>>
    /\ UNCHANGED <<session, generation, limiterVars, workspace>>

-----------------------------------------------------------------------------
Spawns(a) == SpawnQueued(a) \/ SpawnDirect(a)

Stops(a) == Abort(a) \/ CallerSignal(a)

(* The provider or the factory answers. *)
ProviderStep(a) ==
    Prepared(a) \/ PrepareFails(a) \/ WorkspaceRestored(a) \/ WorkspaceRestoreFails(a)

FactoryStep(a) ==
    \/ CreateRegisters(a) \/ CreateFails(a)
    \/ CreateBinds(a) \/ CreateBindFails(a) \/ CreateUnwound(a)
    \/ RestoreRegisters(a) \/ RestoreFails(a)
    \/ RestoreBinds(a) \/ RestoreBindFails(a) \/ RestoreUnwound(a)

SlotStep(a) == SlotSettles(a) \/ SlotFreed(a)

Next ==
    \/ \E a \in Agents :
        \/ Spawns(a) \/ Stops(a) \/ Resume(a) \/ SweepReleases(a)
        \/ ProviderStep(a) \/ FactoryStep(a) \/ SlotStep(a) \/ ReleaseSettles(a)
        \/ \E k \in Runs : LoopSettles(a, k)
    \/ \E n \in 1 .. MaxLimit : SetLimit(n)
    \/ AbortAll

Spec == Init /\ [][Next]_vars

(***************************************************************************)
(* What the code waits for answers: the provider, the factory, the turn    *)
(* loop (the model's provider bounds a turn), the child's shutdown (bounded*)
(* by CHILD_SHUTDOWN_TIMEOUT_MS), and promise callbacks run.  Nobody is    *)
(* obliged to spawn, stop, resume, sweep or change the limit.              *)
(***************************************************************************)
Fairness ==
    \A a \in Agents :
        /\ WF_vars(ProviderStep(a))
        /\ WF_vars(FactoryStep(a))
        /\ WF_vars(SlotSettles(a))
        /\ WF_vars(SlotFreed(a))
        /\ WF_vars(ReleaseSettles(a))
        /\ \A k \in Runs : WF_vars(LoopSettles(a, k))

FairSpec == Spec /\ Fairness

-----------------------------------------------------------------------------
(* The variables that are a function of the record. *)
RecordTypes ==
    /\ status \in [Agents -> ActiveStatus \union TerminalStatus \union {"unborn"}]
    /\ neverStarted \in [Agents -> BOOLEAN]
    /\ reports \in [Agents -> [Runs -> Nat]]
    /\ cur \in [Agents -> Runs]
    /\ run \in [Agents -> [Runs -> RunStates]]
    /\ fired \in [Agents -> SUBSET Runs]
    /\ cancelled \in [Agents -> SUBSET Runs]
    /\ listening \in [Agents -> Runs \union {NoRun}]
    /\ prep \in [Agents -> PrepStates]
    /\ session \in [Agents -> {"none", "held", "released"}]
    /\ generation \in [Agents -> Nat]
    /\ closing \in [Agents -> SUBSET Nat]
    /\ releasing \in [Agents -> Nat]
    /\ registered \in [Agents -> BOOLEAN]
    /\ workspace \in [Agents -> WorkspaceStates]

(* Every variable has its type. *)
TypeOK == Limiter!TypeOK /\ RecordTypes

(* A queued record is never lost: its closure is in the limiter's queue,   *)
(* whatever aborts, clear() and changes of the limit happened before.      *)
QueuedIsScheduled == \A a \in Agents : status[a] = "queued" => slot[a] = "pending"

(* A record stopped while queued never runs, even when its closure still   *)
(* gets a slot later: no session, no run, no resume, and it stays stopped. *)
NeverStartedNeverRuns ==
    \A a \in Agents : neverStarted[a] =>
        /\ status[a] = "stopped"
        /\ \A k \in Runs : run[a][k] = "idle"
        /\ session[a] = "none" /\ prep[a] = "none"

(* Each run, or the stop that replaced it, is reported to the observer     *)
(* exactly once, on every path that ends it, and never before it ends.     *)
ReportedOnce ==
    \A a \in Agents : \A k \in Runs :
        reports[a][k] =
            IF run[a][k] = "settled" \/ (k = 0 /\ neverStarted[a]) THEN 1 ELSE 0

(* A record reads running only while its current run is really in flight,  *)
(* so that waitUntilSettled() and abort() act on something.                *)
RunningIsInFlight ==
    \A a \in Agents : status[a] = "running" => InFlight(a, cur[a])

(* A run keeps its slot until it has settled: stopping the record does not *)
(* free the slot while the stopped run still works.                        *)
SlotCoversRun ==
    \A a \in Agents :
        InFlight(a, 0) /\ slot[a] # "unscheduled" => slot[a] = "started"

(* A caller's signal stays wired only to the run it was given for, and not *)
(* after that run: it can never stop a run somebody else asked for.        *)
SignalStopsItsOwnRun ==
    \A a \in Agents :
        listening[a] # NoRun => listening[a] = cur[a] /\ InFlight(a, cur[a])

(* A live workspace has an owner, a run or a resume preparation in flight, *)
(* unless suspending it threw: no path through prepare, restore, release   *)
(* or failure drops the record while its directory stays checked out.      *)
WorkspaceOwned ==
    \A a \in Agents : workspace[a] = "live" =>
        prep[a] # "none" \/ \E k \in Runs : InFlight(a, k)

(* A running turn loop has its session: the sweep does not release it, and *)
(* its child id is registered, so that the disposed event of an earlier    *)
(* session never comes after the new registration.  (With a workspace to   *)
(* restore it may: see RestoreFollowsDisposal.)                            *)
RunningSessionIsOpen ==
    \A a \in Agents :
        status[a] = "running" /\ run[a][cur[a]] = "looping" =>
            /\ session[a] = "held"
            /\ workspace[a] = "none" => registered[a]

(* A stopped record stays stopped until it is resumed, whatever its        *)
(* interrupted run still does and however it ends.                         *)
StoppedIsSticky ==
    [][\A a \in Agents :
        status[a] = "stopped" /\ status'[a] # "stopped" => cur'[a] = cur[a] + 1]_vars

(* The background records whose first run is in flight, and those that have *)
(* not given their slot back.                                              *)
AtWork == {a \in Agents : slot[a] # "unscheduled" /\ InFlight(a, 0)}
Occupying == {a \in Agents : slot[a] \in {"started", "settled"}}

(* Admission counts the runs there really are, whatever stops, clear() and *)
(* changes of the limit did to the counter before: a background run begins *)
(* only while no more than the limit are in flight, itself and the stopped *)
(* ones that still unwind included; and a record is left queued only while *)
(* the limit is really taken, so that the counter drifts neither way.      *)
AdmissionIsExact ==
    [][/\ ~(AtWork' \subseteq AtWork) => Cardinality(AtWork') <= limit'
       /\ (\E a \in Agents : status'[a] = "queued") => Cardinality(Occupying') >= limit']_vars

(* The limiter by itself, with subagents as its tasks. *)
LimiterSpec == Limiter!Spec

-----------------------------------------------------------------------------
(* Liveness. *)

(* A queued record gets its slot, or is stopped. *)
QueuedLeaves == \A a \in Agents : status[a] = "queued" ~> status[a] # "queued"

(* A resume request is answered: with a running loop or with a refusal. *)
PreparationEnds == \A a \in Agents : prep[a] # "none" ~> prep[a] = "none"

-----------------------------------------------------------------------------
(***************************************************************************)
(* What comments and the README say, and the code does not do.             *)
(***************************************************************************)

(* README, `still-running': a resume is refused while the agent has not    *)
(* settled, so a new run begins only when the one before it has.           *)
ResumeWaitsForSettling ==
    [][\A a \in Agents : cur'[a] # cur[a] => ~InFlight(a, cur[a])]_vars

(* subagent.ts, abort(): the lever always reaches the run in flight. *)
StopReachesRun ==
    \A a \in Agents : \A k \in Runs :
        k \in fired[a] /\ run[a][k] = "looping" => k \in cancelled[a]

(* subagent.ts, prepareResume(): the registration of a restored child      *)
(* follows the old child's final disposed event.                           *)
RestoreFollowsDisposal ==
    \A a \in Agents : prep[a] = "binding" => releasing[a] = 0

=============================================================================
