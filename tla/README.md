# Verification of the gotgenes pi packages

The repository is a monorepo of extensions for the pi coding agent
(`packages/pi-*`). This directory holds TLA+ models of the parts of it whose
correctness depends on *order*: what several asynchronous activities of one
JavaScript process, or several processes over one file system, do to each
other. The models are checked by TLC on small instances; the properties that
matter most are proved with TLAPS for every value of the constants.

`PROJECT.json` lists the components, the TLC runs, a mutant for every checked
property (a plausible bug that the property catches), the source lines every
definition stands for, the findings, the hazards and the theorems.

## 1. Inventory

A component is listed with its state, its operations, how it interacts, what is
hard about it, and what makes it correct.

### pi-subagents

| Component | State | Operations and interactions |
| --- | --- | --- |
| Concurrency limiter (`lifecycle/concurrency-limiter.ts`) | the queue of run closures, the count of slots taken; the limit is read from the settings on every check | `schedule`, the `finally` callback, `recheck` (called by both and by the settings), `clear` |
| Subagent lifecycle (`lifecycle/subagent*.ts`, `run-listeners.ts`, `workspace-bracket.ts`, `create-subagent-session.ts`, `child-shutdown.ts`) | one record per agent: status, the controller and promise of its current run, its session, its workspace, the listeners of its run, its resume preparation | spawn, run, steer, stop (`abort`, `abortAll`, the caller's signal), resume (with restoration of workspace and session), the retention sweep. Calls the workspace provider, the session factory, the SDK's turn loop, the observer |
| Parent transitions and registry (`subagent-manager.ts`, `subagent-persistence.ts`, `handlers/`) | the records visible on the current branch of the parent's session tree; the registry entries appended to the parent's session file | `activate` and hydration, `/tree` navigation (prepare, commit, cancel, reconcile), `deactivate`, `interrupt` |
| Outcome delivery (`observation/`, `tools/`, `service/`) | claimed, consumed and withheld outcomes, the pending announcements, the flush timer | announcing a settled run to the parent, reading it with `get_subagent_result`, waiting for it |
| Configuration, prompts, UI | parsed settings and agent types | reading, merging, rendering |

Hard behaviours: every `await` in a run or a resume is a point at which a stop,
a sweep, another resume or a parent transition may come in; every collaborator
may fail; a stop marks the record before the work behind it has ended; an abort
signal does not call listeners added after it fired; the limit may drop under the
count of slots taken.

Correct means: slots are neither leaked nor freed early; a queued run starts in
its turn or is stopped; a stopped record stays stopped; the end of every run is
reported exactly once; a session in use is open and registered; a checked-out
workspace has an owner; every request to resume is answered; an outcome reaches
the parent exactly once.

### pi-permission-system

| Component | State | Operations and interactions |
| --- | --- | --- |
| Permission forwarding (`authority/approval-escalator.ts`, `forwarded-request-server.ts`, `forwarding-manager.ts`, `forwarding-io.ts`, `transient-fs-retry.ts`) | request and response files in a directory per parent session; the parent's poll timer and its drain in flight | a child writes a request and polls for the response; the parent lists the inbox, decides by policy or by asking, records the response and deletes the request; both sides remove empty directories |
| Serving liveness (`forwarding-liveness.ts`, `serving-registry.ts`) | heartbeat records on disk, a process-wide set of served sessions | mark (throttled), clear, sweep, judge; the child gives up early when nobody serves |
| Authorizers and the ask dialog queue | the chain of authorizers, the queue of dialogs, whether it has been released | an ask walks the chain; dialogs are shown one at a time; shutdown releases all |
| Policy and session rules (`policy/`, `config/policy-loader.ts`) | two levels of caches over four files, stamped with modification times; the approvals of this session | load and merge the scopes, compose the rules, evaluate a value against them, record a grant, clear at shutdown |
| Tool exposure (`exposure/tool-surface-baseline.ts`, `handlers/before-agent-start.ts`) | the surface before filtering, what was withheld | rebuilt at each turn from what Pi reports and from the policy |
| Gates (`handlers/gates/`, `tool-call-boundary.ts`) | where each tool call is among its gates | produce the gates of a call, deny first, run them in turn, escalate an ask; a throw anywhere blocks |
| Access intent, other configuration, presentation, logging | text | parsing and rendering |

Hard behaviours: child and parent are different processes, so every file
operation interleaves with those of the others; a write or a read may fail; the
parent may crash, or stop and start serving, between any two steps; an answer
races with the child's timeout and with its judgement that nobody serves; a
dialog may outlive its session; the files of the policy are replaced while they
are being read; other extensions change the tools between two turns.

Correct means: what a child acts on is a decision its parent made for that
request; a child that gives up for want of a server is right; a request is
answered or abandoned in the end; the failure of a record or a reply never
becomes an approval; an answer rests on what the files say now, and a file that
cannot be used opens nothing.

### Other packages

| Component | State | Operations, and what is hard |
| --- | --- | --- |
| Colgrep reindexer (`pi-colgrep/src/lib/reindex.ts`) | a debounce timer, an in-flight flag and promise, a queued flag, a shutdown flag | schedule, the timer fires, run now, a run ends, shutdown: each may come between any two others |
| Autoformat (`pi-autoformat/src`) | the touched files, the chain of flushes, a lookup cache | touch, flush at the end of a turn, shutdown; files are touched during a flush; one batch walks several chains while dispatchers claim some of its files |
| Worktree provider (`pi-subagents-worktrees/src`) | git worktrees and branches on disk, the active set, preserved worktrees | prepare, restore, suspend, dispose: git commands that fail one by one, crashes in between |
| GitHub tools (`pi-github-tools/src/lib`) | none kept | retry and polling loops |
| Model judge, colgrep search, session tools, nocd | none kept | one call each, or text |

## 2. Plan

The order was that of importance; each module is written so that it can be
proved about (no RECURSIVE operator, constants with named assumptions, one
action per operation).

1. `ConcurrencyLimiter`: the admission gate.
2. `SubagentLifecycle`: the life of the records, on top of an instance of the
   limiter, which is its abstract specification of admission.
3. `PermissionForwarding`: children and parent over the shared directories, with
   `ForwardedDecision`, the abstract specification of one forwarded request.
4. `Reindexer`: the debounced reindex of colgrep.
5. `OutcomeDelivery`: claims, consumption, announcements.
6. `ParentTransition`: activation, navigation, deactivation and the registry,
   with deaths of the process between the appends.
7. `Worktrees`: the git provider with failures and deaths between the commands.
8. `PermissionGates`: the gates of a call, the authorities that answer an ask,
   the dialog queue and the session rules, in one module because the hazards
   lie between them.
9. `Autoformat`: touched files, chained flushes and the walk through the chains.
10. `ServingLiveness`: heartbeats, throttle, sweep and the grace window of the
    child, over a discrete clock.
11. `PermissionPolicy` and `PolicySurface`: how the files become rules and the
    rules a verdict, and the caches and the tool surface that rest on it while
    the files are edited.

All of these are written and checked, and all have proofs. How they meet: the
lifecycle instantiates the limiter. `OutcomeDelivery` takes a run as its promise
and its end, and `ParentTransition` takes a child as its object in the manager's
memory: what lies between the begin and the end of a run is the lifecycle's.
`PermissionForwarding` lets a child give up at any time, so that its safety does
not rest on the judgement `ServingLiveness` is about; `PermissionGates` takes
the answer of the parent from there as a free choice.

`PermissionGates` takes the verdict of the policy as a free choice, too.

Given up: a module for the retry loop of the GitHub tools, which is sequential.

## 3. The models

Two rules hold for all of them. What one JavaScript process does between two
points at which it waits for something outside itself is one action, because
nothing else of that process can run in between; what two processes do
interleaves at every call to the file system. And a failure of a collaborator
(provider, factory, turn loop, file operation) is an alternative of the step
that calls it.

Definitions introduced by a comment "Mutant of X" are the plausible bugs that
`PROJECT.json` lists; no specification uses them.

### ConcurrencyLimiter

| Code | Model |
| --- | --- |
| `pending`, `active` | `pending`, `active` |
| `getLimit()` | `limit` |
| the closure and the promise of a task | `slot[t]`: unscheduled, pending, started, settled, freed, dropped |
| `schedule()` | `Schedule(t)` |
| the task's promise settles; the `finally` callback | `TaskSettles(t)`; `SlotFreed(t)`, two steps, since the callback is a later microtask |
| `applyMaxConcurrent()` and the recheck it causes | `SetLimit(n)` |
| `recheck()` | `Recheck`, part of each of these |
| `clear()` | `Clear` |

Whether a task fulfils or rejects is not told apart: the limiter treats both
alike.

### SubagentLifecycle

One record per member of `Agents`. A run is a number: 0 the initial one, k the
k-th resume. `run[a][k]` says what the code of that run is waiting for
(`preparing`: the workspace provider; `loading` and `binding`: the two halves of
the session factory, before and after it publishes `session-created`; `looping`:
the turn loop; `unwinding`: the disposal of a session the factory failed to
bind). `prep[a]` says the same of a resume that is being prepared. `closing` and
`releasing` are sessions whose shutdown is awaited.

| Code | Model |
| --- | --- |
| `SubagentManager.create()`, `spawnAndWait()` | `SpawnQueued`, `SpawnDirect` |
| `scheduleVia()`, `guardedRun()` | `SlotSettles`, `GuardedRuns`, with the limiter's steps |
| `run()` | `BeginRuns`, `Prepared`, `PrepareFails`, `Create...`, `LoopSettles` |
| `completeRun()`, `failRun()`, `completeResume()`, `failResume()` | `FinishRun` |
| `abort()`, `stopQueued()`, the caller's signal | `Stop`, `Abort`, `CallerSignal` |
| `abortAll()` | `AbortAll` |
| `resume()`, `prepareResume()`, `runResume()` | `Resume`, `WorkspaceRestored`, `Restore...`, `BeginResume`, `PrepFails` |
| `sweep()`, `releaseSession()` | `SweepReleases`, `ReleaseSettles` |

Abstractions: the retention clock (the window of a settled record may have
passed at any time); messages, results and token counts; steering, which changes
nothing the properties read; the observer, of whom only how often it is told of
the end of a run is kept (`reports`); the order of microtasks within one
synchronous segment.

### PermissionForwarding

A child is named by its one request. The files are `requestsDir`,
`responsesDir` (whether the directories exist), `requests` (with a flag: a file
that is malformed or names another session is not `valid`) and `responses`.
`step[c]` and `drain[d]` are the next call of a child and of a drain.

| Code | Model |
| --- | --- |
| `ensurePermissionForwardingLocation()` | `MakeRequests`, `MakeResponses`, `MakeFails` |
| `writeJsonFileAtomic()` of the request | `WriteRequest`, `WriteRequestFails` |
| `pollForForwardedResponse()` | `ReceiveResponse`, `GiveUp` (deadline, or nobody serves) |
| `discardRequest()`, `cleanupPermissionForwardingLocationIfEmpty()` | `DropResponse`, `DropRequest`, `CleanRequests`, `CleanResponses`, `CleanupFails` |
| `ForwardingManager.start()`, `stop()` | `Start`, `Stop` |
| the timer's tick | `Scan`, if it finds requests |
| `processInbox()` | `EnsureResponses`, `EnsureFails`, `SkipFile`, `ReadFails`, `AskFor`, `RuleDecides`, `DrainCleans...`, `DrainCleanupFails` |
| `escalateAsk()` | `Answer` |
| `recordForwardedDecision()` | `Respond`, `RespondFails`, `DeleteRequest` |
| a process dies | `ChildDies`, `ParentDies` |

The drains and the events of the parent share one thread: `ThreadIsFree` lets an
event in only while every drain is idle or awaits a decision. Children are other
processes and interleave with every call. Two drains overlap after `stop()` and
`start()`, because `stop()` resets `processing` while the drain it belongs to
still awaits an answer.

Abstractions: how the parent decides (policy, dialog, scope of a grant) is a free
choice of approved or denied; when a child gives up is free; `readdir` and
`rmdir` are one step, for `rmdir` fails on a directory that was filled
meanwhile (left out is that `requests/` is removed by another process between
`existsSync` and `readdirSync`, after which this one leaves `responses/` to the
other: `forwarding-io.ts:318-331`); the temporary file and its rename are one step; the retries of a
transient error belong to the call; the session-root directory is left out,
since nothing depends on it. `decided` and `spoiled` are history: the decisions
the parent took, and the requests that a failed call left behind or took away
for good.

`ForwardedDecision` says what all of this promises to the agent that waits and to
the human who is asked, with no file, directory, process or drain in it: a
request is asked once, is considered only while it is open, and returns once,
with something that was decided on it or with `abandoned`, when nobody can be
asked about it any more. `Contract` reads its state off the files: `Phase` is
open while the child's request file exists, a request is considered while a
drain asks about it (two may, after a restart), `Result` is the outcome of a
child that is done, and `mislaid` is `spoiled`. `KeepsContract` is the
implementation.

### Reindexer

`debounceTimer`, `inFlight`, `queued`, `inflightPromise` are the variables of the
closure; `running` is the set of processes that are really alive, which the code
does not know; `sessionPhase` and `awaited` are `shutdown()`. `unindexed` and `raced`
are history. `schedule()`, `runNow()`, `shutdown()`, the timer's callback and the
end of a process are the actions. The exit status changes only the status line
and is left out.

### OutcomeDelivery

One record per member of `Agents`; its runs are numbered as in the lifecycle.
`outcome[a]` is the run whose end the record reports, `claimed` and `consumed`
are the marks of `SubagentState`. `pending` is the announcer's queue, `parent`
whether the parent's own agent run is active (announcements are then withheld),
`calls` the calls that wait to carry an outcome back. A call returns in the step
that settles the promise it awaits.

| Code | Model |
| --- | --- |
| `spawn()`, `spawnAndWait()`, the limiter admits | `Spawn`, `SpawnAndWait`, `Admit` |
| the end of a run: `onRunFinished`, `sendCompletion()` | `RunEnds`, `Settle`, `SendCompletion`; `ThunkReturns` for one stopped in the queue |
| `withholdCompletion()`, the flush at `agent_settled` | `Withhold`, `Flush`, `ParentSettles` |
| `sendUpdate()` and its ledger `_runUpdates` | `SendUpdate`, `Update`, `UpdateLedger` |
| `get_subagent_result`, with and without `wait` | `GetResult`, `GetResultWaits` |
| the Agent tool's resume; a service's `resume(claimOutcome)` | `ResumeTool`, `ServiceResume` |
| `abort()`, the parent's interrupt, the shutdown | `Stop`, `Interrupt`, `Shutdown` |

Abstractions: the texts (all updates are alike, the hardest case for a ledger
that finds them by text), workspace notices, which are never withheld, and a
`sendMessage()` that throws.

### ParentTransition

A child is its id. `durable` is the registry in the parent's session file,
`agents` and `hidden` are what the manager holds of it in memory, `leaf` is the
entry of the parent's tree that Pi has selected, and `at` says which await of a
transition the manager is in. `orphans` are objects the manager forgot that
still run. A child whose run was stopped before its session existed goes on
`deaf`: its turn loop has not heard of the stop.

| Code | Model |
| --- | --- |
| `create()`, `run()`, `abort()`, `resume()`, `sweep()` | `Spawn`, `StartQueued`, `SessionCreated`, `CreationFails`, `TurnEnds`, `Stop`, `Resume`, `Restored`, `RestoreFails`, `Refused`, `TurnStarts`, `Sweep`, `Disposed` |
| `persistRegistry()`, in each of these | `Persist` |
| `prepareTreeTransition()` | `BeforeTree`, `StopDeparting`, `ReleaseDeparting`, `TreePrepared` |
| Pi commits or cancels the navigation | `TreeCommitted`, `TreeCancelled` |
| `reconcileTree()` | `Reconcile`, `StopAdmitted`, `ReleaseAdmitted`, `Project` |
| `session_before_switch`, `deactivate()`, `activate()` | `BeforeSwitch`, `StopAll`, `ReleaseAll`, `Deactivated`, `Activate` (with `Hydrate`) |
| the process dies | `Crash` |

A child is resumed once its stopped run has settled; a resume before that is the
lifecycle's subject (`ResumeWaitsForSettling`). Callers are silent between two
sessions.

### Worktrees

One child and its checkout. A revision is the set of changes its history holds.
`pc` is the step of the provider; one action is one git command that changes
something, it may fail, and the process may die after it. `revision` is the
checkpoint in memory, `saved` the one in the registry. Where the code asks
`git rev-parse` and it fails, the checkpoint stays what it was (`Reads`); `unread`
is history, and keeps what was checked out and is in no checkpoint for that reason.

| Code | Model |
| --- | --- |
| `createWorktree()`, `prepare()` | `Prepare`, `PrepareFails` |
| the registry append that follows | `Save` |
| the child's turn | `Write`, `ChildCommit`, `TurnEnds` |
| `cleanupWorktree()` | `Check`, `CommitStaged`, `CreateBranch`, `Remove`, `RemoveFails` |
| `restoreWorktree()` | `Resume` |
| `listWorktreePaths(cwd).includes(path)` | `registered`, if git lists the checkout by the path the code made (`PathsAgree`: no symbolic link in the temporary directory); otherwise the checkout is not reused |
| the `subagents-worktrees` command | `SelectPreserved`, `Decline`, `Discard` |
| pruning, `/tmp` being emptied, the process dies | `Cleared`, `Crash` |

### PermissionGates

`Calls` are tool calls of this session's agent, `Requests` are forwarded ones it
serves. `gates[x]` are the gates produced for one, `decided[x]` who decided those
it passed. `line[t]` is one promise chain of `AskDialogQueue.tail`; a shutdown
makes a new one, while the first ask of the old one may still be mounted in the
host's `slot`.

| Code | Model |
| --- | --- |
| `activate()` / `selectAuthorizer()`, a changed configuration, `session_shutdown` | `Activate`, `SetYolo`, `Shutdown` (with `Released`, `NextTail`) |
| `handleToolCall()`, `ToolCallGatePipeline.evaluate()` | `BeginCall`, `Produces` (one operator per producer, `DenyFirst`) |
| `withToolCallBoundary()` | `ProducerThrows`, `OnThrow` |
| `GateRunner.run()` | `RunGate` |
| the authorizer chain with its envelope | `LinkRules` |
| `AskDialogQueue.present()`, the host's dialog | `TakeTurn`, `HumanAnswers` |
| `ParentAuthorizer` | `RelayAnswers` |
| `resolveDecision()` of a forwarded request | `ServeRequest` |
| `ApprovalGrant`, `SessionRules` | `Accesses`, `Rules`, `Members`, `Covered` |

The policy's verdict on an access is a free choice, except that a session rule
that covers it allows it. Tools with a surface of their own (edit, read) stand
behind `bash`, and `external_directory` behaves as `path` does.

### Autoformat

`touched` is the queue of files, `queue` the links of the promise chain
`pendingFlush`, `flush` the one the first of them is in: its groups, the batch
at hand, what was claimed, what ran and what changed. `cache` is the
`discoveryCache` of one directory.

| Code | Model |
| --- | --- |
| `ensureState()`, `tool_result` and bus events | `EnsureState`, `Touch` |
| `turn_end`, `agent_end`, `session_shutdown` | `TurnEnd`, `AgentEnd`, `BeginShutdown`, `EndShutdown` |
| `flushPrompt()` | `BeginFlush`, `BeginGroup`, `EndGroup`, `EndFlush` |
| `executeChainGroupWithPartition()` | `StepSkipped`, `OrdinaryRuns`, `BuiltinRuns` |
| the choice in a fallback group, `walkUp()` with its cache | `Chosen`, `Available`, `Found` |
| `buildSteeringMessageContent()` | `Orders`, `Shown`, `More`: the first `MaxShown` changed files by name, the others as "... and N more" |

Taken as given: the user-visible report does not throw, and a `treefmt-nix` run
that was skipped changed nothing.

### ServingLiveness

Ages are kept instead of times: of the record of the session the child waits for
(`record`), of each process's last writing (`published`), of its last tick
(`since`), of the child's last poll (`polled`) and of the moment its target began
to look unserved (`unserved`). `Elapse` lets one unit pass once every live
process has ticked and the child has polled within `Gap`. An announcement is
synchronous code, but its file operations (`pending`) interleave with those of other
processes.

| Code | Model |
| --- | --- |
| `start()`, `stop()`, the timer's `refreshServing()` | `Starts`, `Stops`, `Tick` |
| `announceServing()`, `withdrawServing()` | `Announce`, `Withdrawal` |
| `markServing()`, `isThrottled()` | `Marking`, `Throttled`, `Writes`, `MarkingFails` |
| `sweepDeadRecordsOnce()` | `Lists`, `Sweeps` |
| `clearServing()` | `Withdraws` |
| `read()`, `classify()`, the registry's mark | `State`, `IsServing` |
| `checkServingLiveness()`, the grace window | `Window`, `ChildPolls` |
| a process hangs, dies, loses its pid to another; a record is deleted | `Hangs`, `Dies`, `PidReused`, `Removed` |

A loss is a failed call, a deleted record, and every time a process takes
the record away from another that serves the same session (by withdrawing or
sweeping it, or by dying or hanging as its last writer). There may be any number of
them; `lost` is the age of the last, and keeps the next `Spacing` away. Left out: the guard
`processing`, since the refresh comes ahead of it; a session whose id cannot be
read; the time an announcement itself takes.

### PermissionPolicy and PolicySurface

`PermissionPolicy` has the functions: a permission object is a sequence of
entries, since the order of its keys decides between rules, and `Matches` is the
relation `wildcardMatch()` computes. `PolicySurface` has the state. The files
(`disk`, `stamp`) are edited by others between any two calls of the resolver to
the file system, so each `stat`, `existsSync` and `readFileSync` is an action.

| Code | Model |
| --- | --- |
| `mergeFlatPermissions()`, `mergeScopesWithOrigins()` | `MergeFlat` (`Overridden`, `Spread`), `MergeScopes` |
| `synthesizeDefaults()`, `normalizeFlatConfig()`, `composeRuleset()` | `DefaultRule`, `ConfigRules`, `Compose` |
| `evaluate()`, `isSurfaceFullyDenied()`, `floorAllowsToAsk()` | `Evaluate`, `IsSurfaceFullyDenied`, `FloorAllowsToAsk` |
| `resolvedPermissionsCache`, the caches of the loader | `resolved`, `fileCache` |
| `resolvePermissions()` | `BeginQuery`, `TakeStamp`, `Loaded`, `ComposedRules` |
| `getFileStamp()` and the four loaders | `Stat`, `Exists`, `Read` |
| `before_agent_start`, `ToolSurfaceBaseline` | `BeginTurn` (`Rebuilt`), `AskAboutTool`, `HearAboutTool`, `EndTurn` |
| `resources_discover`, `configureForCwd()` | `Reload` |
| editors, the operator, other extensions | `Edit`, `TrustChanges`, `Activate`, `Deactivate`, `Register`, `Unregister` |

Taken as given: an edit gives a file a modification time it never had before
(two edits within the resolution of the clock cannot be told apart by any
stamp), and other extensions leave a tool alone while it is withheld, except to
activate it or to take it out of the registry: a tool that was deactivated, or
unregistered and registered again, while the policy withholds it looks to the
baseline as if nothing had happened. `phantom` names the one case in which an answer may be
stale: a file is created while a query has already found it missing, what is
read then is kept under the stamp "missing", and it is answered from once more
when the file is deleted again. Left out: the baseline rules of MCP, the sugar of
directions, origins, and what `check()` does with the rules it gets
(`permission-manager.ts:310-317`): it appends the session's rules and lets yolo
turn an ask into an allow, both after the floor of an invalid file.
`FailsClosed` is about `resolvePermissions()`; session rules and yolo are in
`PermissionGates`.

## 4. The runs

| Run | Instance | What it shows |
| --- | --- | --- |
| `lifecycle` | 1 record, 2 resumes, a workspace provider | Every run reports once and releases the signal on every path; a session in use is open; a stop is not undone; every resume is answered |
| `contention` | 2 records, limit up to 2 | Counted by the runs that are really in flight, no admission goes past the limit and nobody waits in front of a free slot; a queued record gets its slot or is stopped; a slot covers its run |
| `forwarding` | 2 requests, 2 drains, 1 mishap | A child acts only on a decision about its request; the protocol implements `ForwardedDecision`, in which nobody considers what is withdrawn; a served request is answered; the directories disappear |
| `reindex` | 3 processes | No change is forgotten and each is indexed in the end; the one race that leads to two processes is the only one |
| `delivery` | 2 records, one with a resume and an update | An outcome is announced at most once; a claim has a call that carries the outcome; the ledger of updates is exact; an outcome nobody claimed or collected reaches the parent |
| `worktrees` | 2 changes, 3 turns, 2 deaths of the process; every command of git may fail, `rev-parse` included | The child's work is on disk, on a branch or in the checkpoint, and a resume finds it, but for what a checkpoint missed because git did not tell the revision; a branch that was named keeps it |
| `transition` | 1 child with up to 3 turns, a tree of 4 entries, 2 deaths of the process | No child and no outcome drops out of the registry; the manager holds the children of the branch; what leaves is at rest and what is shared undisturbed; transitions end unless a run that never heard of its stop holds them up |
| `gates` | 1 call of four shapes, 1 forwarded request, 2 links, 2 sessions | What runs was authorised gate by gate; nobody is asked about what is denied; one dialog at a time; the rules are the grants; every ask is answered |
| `autoformat` | 2 files with different chains behind a wildcard chain, 2 flushes; a message that names 1 file | Each file walks its chains up to the step that claimed it; the agent hears of every change, which the message names or counts; what is touched is flushed |
| `serving` | 2 processes, 2 sessions; throttle 2, stale 3, grace 4, gap 1, losses 4 apart | A child does not give up on a session that is served, and does not wait long for one that is not |
| `policy_surface` | 1 tool, 2 of the 4 files edited, up to 2 edits anywhere | No answer rests on an older text; an invalid file opens nothing; the agent sees what others want active and the policy leaves |
| `stop_reaches` | 1 record | A violation, see below |

Bounds and why they are enough.

- `lifecycle`: one record, because records meet only in the limiter, which
  `contention` checks with two records and, for any number, the theorem
  `AdmissionStaysExact`; two resumes let a resume follow a resume, with a release in between.
- `forwarding`: two children are enough for one cleanup to meet another exchange,
  and two drains for an overlap; `MaxMishaps = 1` puts one failure, death or stop
  anywhere (an overlap of drains already costs one, the stop).
- `reindex`: three processes let two overlap while a third begins.
- `delivery`: records meet only in the announcer's queue, so a second one needs
  no resume; one resume is enough for two outcomes of one record to be withheld
  together, one update for a withheld one to be reset.
- `worktrees`: three turns give a first, a checkpointed and a resumed one, and a
  failing `rev-parse` at the end of each. `PathsAgree` is true: with a symbolic
  link in the path the reuse of a checkout is refused, and fewer states are reached.
- `transition`: the two branches have entries in common and not, at two depths,
  and two deaths of the process put one before and one after a restart. One
  child, so that the liveness property is within reach; the safety properties are
  proved for any number of children and any tree.
- `gates`: one call and one request are enough for two dialogs to wait in line,
  two sessions for a released line and its successor, two links for one that
  defers before one that decides. The four shapes cover each producer.
- `autoformat`: two files share the wildcard batch and part afterwards; two
  flushes are one that runs and one that waits. `MaxShown = 1` instead of ten: two
  changed files are then more than the message names.
- `serving`: the unit of time is two poll intervals of the code, and the lengths
  are the code's own in that unit but for staleness, which is one and a half
  throttles instead of five to make the run shorter: it need only be as long as a
  throttled writing and a poll. Losses are a grace window apart. That is what the
  lengths are chosen for: with losses one unit closer a child may give up on a
  session that is served, as when its record is deleted, written at the last moment,
  and deleted again before the child's next poll, and so it may as soon as the
  window is a unit shorter.
- `policy_surface`: two edits of one file spoil it and repair it, or create and
  delete it, and of two files change the policy between two stamps. A project's
  file and an agent's are loaded in two different ways; the other two repeat these.

The safety properties of all passing runs are also proved without these bounds (section 6). Others are proved but in no run, since
the same code is under another property there: `SlotAccounting`,
`FifoAdmission`, `ShutdownIsQuiet`, `WorkConserving`, `AdmitsWithinLimit`, `RunningIsInFlight`, `WorkspaceOwned`,
`NeverStartedNeverRuns`, `QueuedIsScheduled`, `NoRequestLeftBehind`, `AbandonmentIsFinal`,
`AbandonedIsPreserved`, `NoEcho`, and the type invariants.

`CHECK_DEADLOCK FALSE` is said where the system may come to rest: all requests
done and no server, the session closed, the bounds on resumes or turns reached.

### Where the code and its documentation disagree

`stop_reaches` expects a violation: a stop during the preparation of a run fires
a controller nobody listens to yet, and the turn loop that begins later is never
aborted (`subagent-session.ts:349`, against the comment at `subagent.ts:721`).

The other disagreements are stated in the modules, where there is a definition
named, and explained here; no run expects them.

Subagents:

- `ResumeWaitsForSettling`: a stop marks a record at once while its turn loop
  unwinds, and the refusal of a resume reads only the mark (`subagent.ts:271`;
  `pi-subagents/README.md:361`). Two turn loops work on one record.
- `RestoreFollowsDisposal`: a sweep during the restoration of a workspace
  releases the session after the resume has passed its wait for releases; the
  restored child registers before the old one's `disposed` event, which then
  unregisters it (`subagent.ts:562`, against its comment at 556).
- `DeactivationReleasesAll`: `deactivate()` awaits the promises of the records
  that are active when it starts; a run stopped just before, whose factory has
  not answered, opens its session behind it (`subagent-manager.ts:635`, against
  `handlers/lifecycle.ts:77`). A cancelled `session_before_switch` leaves the
  manager deactivated; a spawn by a service between two sessions makes the next
  `activate()` throw.
- `ClaimKept`: `get_subagent_result` gives back the claim of the record, not its
  own: an interrupted wait also takes away that of another call
  (`get-result-tool.ts:58-60`).
- `UnclaimedResumeIsAnnounced`: a claim taken for one run is never given back, so
  that a later resume by a service that does not claim is announced by nobody. The
  other way round, a completion withheld before is flushed for a record a service
  has resumed since. An update polled while it was withheld is announced again
  (`subagent-state.ts:139-142`), and the outcome of a record that is stopped but
  not settled can be collected before its result exists, and is then never
  announced.
- `NothingLeftToSave`: "clean" is also the outcome when the child has committed
  everything by itself: its commits are on no branch and only the checkpoint
  names them (`worktree.ts:113`).
- `RemovedOnceCertain`: when `git rev-parse` fails, `currentRevision()` returns
  the checkpoint before (`worktree.ts:254-262`), and the checkout is removed all
  the same (116). A child that committed its work by itself has a clean status
  and gets no branch, so that its commits are then named by nothing, although a
  worktree "is only removed once its outcome is certain" (`worktree.ts:7-8`) and
  "nothing is deleted while its state is uncertain"
  (`pi-subagents-worktrees/README.md:56`). TLC finds it in the instance of
  `worktrees`; that run, whose properties except what is `unread`, shows that
  nothing else is lost.
- A transition waits without a timeout for the runs it stops
  (`subagent-manager.ts:443`). One that was stopped before its turn loop listened,
  as in `stop_reaches`, holds it up for as long as the loop lasts: `TransitionsEnd`
  excepts that (`HeldUp`).
- `RemovesNoLiveWorktree`: the list of preserved worktrees is made before the
  user is asked twice; a child resumed meanwhile loses its checkout
  (`preserved-command.ts:51`; `pi-subagents-worktrees/README.md:78`).

Permissions:

- `PendingKeepsResponses`: between removing `requests/` and `responses/` another
  child makes both anew; its request is pending without a response directory.
  The drain makes it again, so the request is still answered.
- A session whose id cannot be read at `start()` and becomes readable later is
  drained but not announced until the next `start()`, because `refreshServing()`
  returns while nothing is announced (`forwarding-manager.ts:139`;
  `pi-permission-system/docs/subagent-integration.md:186`). `ServingLiveness` leaves such ids out.
- `releaseAll()` answers whoever waits, but an ask that a link still considers is
  admitted to the new line when the link defers, and an answer of the parent that
  arrives after the shutdown records its grant after the rules were cleared.
- Checks made before an ask waited are not made again after it: a rule granted
  meanwhile does not spare the second question. A session grant overrides a deny
  of the configuration inside its pattern, which is deliberate
  (`pi-permission-system/docs/plans/archive/0147-per-tool-path-patterns.md`).

Others:

- `SingleBuild`: a manual reindex does not clear the debounce timer and the timer
  does not look for a build in flight. Two processes index one directory, and the
  shutdown waits for at most one of them.
- `RunsWhereConfigured`: the cache of the configuration lookup is keyed by
  directory only and shared by both dispatchers, so that one runs, or does not,
  on the strength of the other's configuration (`builtin-formatters.ts:50-86`,
  `prompt-autoformatter.ts:63`; `pi-autoformat/docs/configuration.md:426`).
- A fallback group probes for a command named `treefmt-nix`, although what runs is
  `nix`. The snapshots of `shell-mutation-detector.ts` never notice anything
  without configured globs (466-470; `pi-autoformat/docs/configuration.md:115`), and parallel
  shell calls would share one. What the bus reports during the flush of a shutdown
  is dropped with the state; a second `ensureState()` for another directory
  replaces the state without unsubscribing; a file in both a wildcard and an
  extension group is listed and counted twice to the agent, so that fewer than ten
  files may fill the list and the count that follows is too high; and a flush outside the end of a turn is never announced.

## 5. Fairness

No actor is obliged to ask for anything: spawning, stopping, resuming, sweeping,
forwarding, giving up, editing, navigating, leaving a session are never fair.

- Lifecycle: a task the limiter started settles and its `finally` callback runs;
  what the code awaits answers, well or badly: the provider, the
  factory, the turn loop, and the child's shutdown, which has a timeout. The turn
  loop has no timeout of its own; that it ends is an assumption on the model's
  provider.
- Forwarding: a process that lives makes its next call, the poll timer fires, and
  whoever is asked answers. Giving up is not fair: a child must not need its
  timeout while its parent serves.
- Reindexer: a process ends (its `exec` has a timeout), and the edits pause now
  and then for the debounce period. The latter is an assumption on the user: the
  code resets the timer on every edit and sets no upper bound.
- Delivery: the parent's agent run settles (`agent_settled` comes from a `finally`
  block), a child's run ends, the limiter serves its queue, as `QueuedLeaves`
  says.
- Transitions: the manager goes on after its awaits; factories, restorations and
  teardowns answer; a run ends once its turn loop has heard its signal (a run
  nobody stops may last for ever, and so may one that was stopped before its loop
  listened); Pi commits a navigation or cancels it.
- Gates: the event loop runs what was started; producers, links and the parent
  answer (the wait for the latter has a timeout); the human answers the dialog in
  front of them.
- Autoformat: queued flushes run and commands end, if only by their timeout; once
  a file is touched the turn ends or the session does; a shutdown that has begun
  goes on.
- `Worktrees`, `ServingLiveness` and `PolicySurface` need none: their properties
  are safety, in the second with the passing of time as a guard (`OnTime`).

## 6. The proofs

All theorems hold for every value of the constants, from the named assumptions
of each module only; those of the limiter (`LimiterAssumption`) are proved of the
constants the lifecycle gives it. Some have a hypothesis besides:

- `NobodyGivesUpServed` assumes `WindowFits`: a grace window, and a time between
  two losses, as long as a throttled writing and two polls. The lengths of the code
  fit with nothing to spare: the `serving` run fails with a window one unit shorter,
  and with losses one unit closer.
- `ProbesAreExact` and `SurfaceShowsUsable` assume `PatternLaws`: each pattern
  matches itself, what matches a pattern is matched by all that match the
  pattern as a text, and for each there is something to ask that only they match. TLC evaluates it on the patterns of `policy_surface`. Not
  every set of patterns keeps it: `git ?` matches the text `git *` and `git **`
  does, too, but not the `git status` and the bare `git` that `git *` matches
  (`wildcard-matcher.ts:56`). With such patterns side by side the probes decide about
  something else than the values, and only the theorems on answers stand.

Module by module:

- `SubagentLifecycleProofs`. First the limiter by itself. Its invariant joins the
  types, the count of held slots and the queue's contents: that nothing waits in
  front of a free slot is inductive only together with the fact that the queue has
  each pending task once. Admission within the limit and in order follow as
  properties of steps. Every step of the lifecycle is a step of the limiter or
  leaves it alone, by construction (the lemma `ImplementsLimiter`), so what was
  proved of the limiter's count holds here. What that says of runs is
  `AdmissionStaysExact`: a run is admitted only while fewer runs than the limit are
  in flight, and none is left waiting behind such a gap. It needs `IInv`, for
  only there a slot and a run have to do with each other. That invariant is `IInv`,
  the types and two conditions on each record: `Sound`, about its own runs, and
  `SlotSound`, about its slot. It is needed because `ReportedOnce` or
  `WorkspaceOwned` alone say nothing of runs that have not begun or of
  preparations in flight. There is one lemma per shape of step: the end of a
  run, a step inside a run, a step of a preparation, the begin of a resume, a
  stop, and the steps that start runs. `RunningSessionIsOpen` has an invariant of
  its own, `AllOpen`: the session of a record against its runs, its preparation,
  its release and its registration. A resumed session stays open because a
  preparation goes on only once the release it found has settled, and because
  the sweep passes over a record that reads running.
- `PermissionForwardingProofs`. `OutcomeWasDecided` is not inductive, since a
  child takes its decision from a file. `IInv` follows a decision back: from the
  outcome to the response file (`ResponsesDecided`), to the verdict of the drain
  that wrote it (`DrainSound`), to the decision. `RequestsHeld` says which
  children may still have a request file; `NoRequestLeftBehind` and the step
  property `AbandonmentIsFinal` follow from it. `ImplementsContract` is the
  refinement: under `IInv` and `SpoiledWereAsked` (no failure mislays a request
  before it is asked) each step is one of `ForwardedDecision` or a stutter.
  `ContractMoves` says once for all steps that move a single request what the
  contract sees of them; `SameQuestions` and `Unseen` dispose of the rest.
  The same module has `ServingLiveness`, from which it borrows nothing.
  `ServingInv` gives `NobodyIsWaitedFor`: a record is written only by who polls
  (`WritersServe`), so it is at least as old as the time nobody does
  (`RecordIsOld`), and the child's window begins at most one poll after it has
  gone stale (`IdleEnds`). `ServedIsWaitedFor` is about a whole history, and
  `ServedInv` says what the record owes to each process that serves: it is as young
  as the last writing, and after a tick younger than a throttle, or a loss explains
  why not, which is no older than that (`Attested`). So a loss stops explaining anything once the throttle and the next
  tick are over (`RecordSound`), and since it then lies far enough back, the next
  one finds the record sound again. `LooksBriefly` is the child's side: it has
  looked in vain since its last poll, or since the poll before the loss.
  `SweepsHarmless` makes the one deletion that no owner notices, of a record swept
  by a process that saw an older one, harmless: whoever found a dead writer's record
  found it before the session had been served for any time, or after a loss.
- `AfterEditProofs`. `WalksItsChain` is about the file whose chain is over;
  `WalkInv` says of each file of a flush where it is meanwhile (`At`): ahead of
  the wildcard group, behind it, in the group at work with so many steps done, or
  through. That each file is in one group (`GroupsFit`) and that a claim in the
  wildcard group takes it out of its own (`ClaimsFit`) makes this inductive.
  `ToldOfEveryChange` needs `TellInv`: what was formatted is in the report or in
  the group at work. A message that is cut still accounts for every file, by name or in
  its count, because the report is cut only when it is told, by an order of its
  entries (`OrderOf`, `Joined`, `Accounted`). That there are finitely many touched files is part of the
  types and proved, not assumed. Of `Reindexer`, that no change is forgotten needs
  only the flags; that builds are serial needs `Agreement` of flag, promise and
  process, which holds until a build is asked for while a timer is set.
- `OutcomeDeliveryProofs`. Three inductive invariants. `AnnouncedOnce` needs
  `Telling` (what has not settled, or is withheld, has not been announced), and
  that a record has at most one completion in the queue (`QueuedOnce`), which is
  why `withholdCompletion()` replaces an older one. `NoEcho` needs
  `CollectedIsMarked`. `UpdateLedger` needs `LedgerInv`, which counts the queued
  updates of the current run. That a claim has a carrier is proved by itself.
- `ParentTransitionProofs`. `IInv` adds to the two invariants of the registry and
  the projection what the awaits of a transition rest on: `HiddenFits` and
  `AgentsFit` (memory and registry share the children out), `GateFits` and
  `LoadedFits` (what a navigation computed before it waited is still so when it
  goes on, because spawns and resumes in between are turned away or found by the
  reconciliation), `Drained` (what has settled is not started again),
  `OthersIdle` and `QueuedWaits`. `RegistryIsWhole` is not inductive without
  `LoadedFits`, since `Project` writes what was read before the drains.
- `WorktreesProofs`. `WorkHasAHandle` is about one moment; `IInv` says of each
  step of the cleanup what is safe where before the checkout goes:
  `CommitsAreBranched`, `UnlistedIsCopied`, `CheckoutIsAhead`, and of both
  checkpoints, in memory and saved, what they hold (`OneCheckpoint`,
  `CheckpointHolds`, `RescuedHolds`), each but for what is `unread`. No theorem
  assumes that a command of git succeeds.
- `PermissionGatesProofs`. `Gated` says where a call is among its gates: behind
  those that were decided, each rightly, and at an ask while it waits. With
  `DenyAlone`, a lemma about `DenyFirst`, it gives `AllowedIsAuthorised` and
  `NoQuestionForDenied`. `OneDialog` needs `LinesFit`: only the current line holds
  asks that are owed an answer. `RulesAreTheGrants` is inductive with the types.
- `PolicySurfaceProofs`. An answer may come through two caches, each filled under
  a stamp taken before the file was read. No stamp is used twice (`Stamped`), so
  an entry under the stamp a file has now holds what it says now, whenever it was
  made (`Holds`), and what was right when the stamps were compared has been seen
  since the question (`Known`); `AnswersFromCurrentTexts` and, with lemmas about
  `Compose` and `FloorAllowsToAsk`, `FailsClosed` follow. `SurfaceFollowsPolicy`
  needs that the baseline is what others want active, whether the policy withholds
  it or not (`BaselineKeepsIntent`). That a rule which decides is a last one, and
  that merged objects stay lists of entries, is shown for lists of any length:
  `LeastOf` and `Upward` put the induction as the existence of a least member of
  a set of numbers. `ProbesAreExact` shows what the probing of a surface is for: a
  surface whose probes are all denied has no value that is not denied, and the other
  way round, under `PatternLaws`.

Model-checked only: all liveness (`QueuedLeaves`,
`PreparationEnds`, `AnsweredWhileServed`, `DirectoriesDisappear`,
`ChangesGetIndexed`, `OutcomeReachesParent`, `TransitionsEnd`,
`EveryAskAnswered`, `TouchedIsFlushed`). Liveness under fairness and ENABLED are
beyond the proof system. So are the library's induction theorems, whose parameter
is an operator that no backend instantiates, which is why inductions are put as
above; no module here has a RECURSIVE operator.

## 7. Not modelled

The map covers about a tenth of the implementation's lines. The rest is, by size,
configuration and its validation, the analysis of shell commands and paths,
prompts, rendering of dialogs, widgets and session trees: functions of text that
run in one go, keep no state between two calls, and whose models would restate
them character by character. Component by component:

- Subagent configuration, prompts and UI; the settings of the permission extension,
  its presentation and logging: reading, merging and rendering of data.
- Access intent (bash parsing, paths, tool inputs): a walk over a syntax tree. What
  it finds is an input of `PermissionGates`.
- Policy: how a pattern matches (a constant of `PermissionPolicy`), and how the
  texts are parsed and validated.
- The model judge: one bounded call, a link of the chain in `PermissionGates`.
- Colgrep search, session tools and nocd: one command, or pure text.
- GitHub tools: sequential polling and retrying of one command, the attempts
  counted by a constant. A retried call may already have taken effect, which
  depends on GitHub alone.

Inside the modelled components: `clearCompleted()` of the subagent manager,
which nothing calls; an observer or a registry write that throws inside a run,
and a `dispose()` of the SDK session that throws; a `sendMessage()` that throws;
a child that resolves no parent session and so never reaches the file system;
whether an index exists, which decides if an edit is reported to the reindexer;
the single gate of a `/skill` input; how autoformat recognises and normalises
the paths in a tool's result.
