------------------------------- MODULE Autoformat -------------------------------
(***************************************************************************)
(* pi-autoformat in one extension instance: the files that tools and the   *)
(* event bus report as touched, the flushes that take them, one after the  *)
(* other, and the walk of a flush through the chains of formatters.        *)
(*                                                                         *)
(* A flush takes the touched files and passes them, as one batch, to the   *)
(* wildcard chain; what no built-in dispatcher claimed there goes on, in   *)
(* groups of files with the same chain, to the chain of its extension.     *)
(* The end of a turn sends the agent the files whose content changed.      *)
(*                                                                         *)
(* Which files there are, in one directory, and the chains, with disabled  *)
(* and unknown formatters already left out, are constants; what a command  *)
(* does to the files is a free choice.                                     *)
(***************************************************************************)
EXTENDS Integers, Sequences, FiniteSets

CONSTANTS
    Files,      \* normalized paths in the format scope
    Wild,       \* config.chains["*"]: a sequence of steps, <<>> if there is none
    Own,        \* the chain of each file's extension
    MaxShown,   \* STEERING_MAX_FILES: how many changed files a message names
    MaxQueued   \* bound on the flushes that wait or run at a time

Builtins == {"treefmt", "treefmt-nix"}
Occasions == {"turn", "end", "shutdown"}

Names(steps) == UNION {{steps[i].of[k] : k \in DOMAIN steps[i].of} : i \in DOMAIN steps}
Formatters == Names(Wild) \cup UNION {Names(Own[f]) : f \in Files}

\* The formatters that a fallback group probes for.
Probed == Names(SelectSeq(Wild, LAMBDA s : s.kind = "fallback")) \cup UNION {Names(SelectSeq(Own[f], LAMBDA s : s.kind = "fallback")) : f \in Files}

\* A single step names one formatter, a fallback group its alternatives.
Steps == [kind : {"single"}, of : {<<n>> : n \in Formatters}] \cup [kind : {"fallback"}, of : Seq(Formatters)]

ASSUME ChainsAssumption == Wild \in Seq(Steps) /\ Own \in [Files -> Seq(Steps)]
ASSUME FilesAssumption == IsFiniteSet(Files)
ASSUME MessageAssumption == MaxShown \in Nat \ {0}
ASSUME BoundAssumption == MaxQueued \in Nat \ {0}

VARIABLES
    onPath,     \* the probed formatters whose command is on PATH
    configs,    \* the built-ins whose configuration is above the files
    open,       \* whether the extension holds a session state
    closing,    \* whether session_shutdown awaits its flush
    touched,    \* TouchedFilesQueue.touchedFiles
    cache,      \* discoveryCache, of the one directory
    queue,      \* the links of pendingFlush that have not settled
    flush,      \* the flush the first of them runs
    owed,       \* history: files touched before the shutdown, in no flush since
    untold      \* history: files formatted at a turn's end that no message names or counts

environment == <<onPath, configs>>
session == <<open, closing>>
vars == <<environment, session, touched, cache, queue, flush, owed, untold>>

\* A file's way through its chains, step by step.
Way(f) == Wild \o Own[f]

Idle == [phase |-> "idle", groups |-> <<>>, wild |-> FALSE, steps |-> <<>>, inputs |-> {}, working |-> {},
         handled |-> {}, ran |-> FALSE, changing |-> {}, formatted |-> {}, told |-> <<>>,
         took |-> {}, saw |-> [f \in Files |-> {}], claimedAt |-> [f \in Files |-> 0]]

Init ==
    /\ onPath \in SUBSET Probed
    /\ configs \in SUBSET (Builtins \cap Formatters)
    /\ open = FALSE /\ closing = FALSE
    /\ touched = {} /\ owed = {} /\ untold = {}
    /\ cache = "unknown"
    /\ queue = <<>>
    /\ flush = Idle
--------------------------------------------------------------------------------
(***************************************************************************)
(* The session.                                                            *)
(***************************************************************************)

(* session_start, or the first tool event: a new autoformatter. *)
EnsureState ==
    /\ ~open
    /\ open' = TRUE
    /\ cache' = "unknown"
    /\ UNCHANGED <<environment, closing, touched, queue, flush, owed, untold>>

(* A tool result, or a path on the event bus, which alone still comes while *)
(* the session closes.  A write under way changes what the flush will find. *)
Touch(f) ==
    /\ open
    /\ touched' = touched \cup {f}
    /\ owed' = IF closing THEN owed ELSE owed \cup {f}
    /\ flush' = IF f \in flush.inputs THEN [flush EXCEPT !.changing = @ \cup {f}] ELSE flush
    /\ UNCHANGED <<environment, session, cache, queue, untold>>

(* Mutant of Chained: a flush that finds another one pending joins it. *)
Coalesced(by) == IF queue = <<>> THEN <<by>> ELSE queue

(* queueFlush(): one more link on the promise. *)
Chained(by) == Append(queue, by)

QueueFlush(by) ==
    /\ open /\ ~closing
    /\ Len(queue) < MaxQueued
    /\ queue' = Chained(by)
    /\ UNCHANGED <<environment, open, touched, cache, flush, owed, untold>>

TurnEnd == QueueFlush("turn") /\ UNCHANGED closing
AgentEnd == QueueFlush("end") /\ UNCHANGED closing
BeginShutdown == QueueFlush("shutdown") /\ closing' = TRUE

(* session_shutdown, its flush settled: the state goes, and with it what *)
(* the bus touched meanwhile.                                            *)
EndShutdown ==
    /\ closing /\ queue = <<>>
    /\ open' = FALSE /\ closing' = FALSE
    /\ touched' = {}
    /\ UNCHANGED <<environment, cache, queue, flush, owed, untold>>
--------------------------------------------------------------------------------
(***************************************************************************)
(* A flush.                                                                *)
(***************************************************************************)

(* The lists of the members of a set, each once. *)
Orders(S) == {order \in [1 .. Cardinality(S) -> S] : {order[i] : i \in DOMAIN order} = S}

(* groupFilesByChain(): the wildcard group, then one group per chain. *)
Groups(files) ==
    LET wilds == IF Wild # <<>> /\ files # {} THEN <<[wild |-> TRUE, steps |-> Wild, files |-> files]>> ELSE <<>>
        chains == {Own[f] : f \in files} \ {<<>>}
        Group(chain) == [wild |-> FALSE, steps |-> chain, files |-> {f \in files : Own[f] = chain}]
    IN  {wilds \o [i \in 1 .. Cardinality(chains) |-> Group(order[i])] : order \in Orders(chains)}

(* flushPrompt() takes the touched files. *)
BeginFlush ==
    /\ queue # <<>> /\ flush.phase = "idle"
    /\ \E groups \in Groups(touched) : flush' = [Idle EXCEPT !.phase = "between", !.groups = groups, !.took = touched]
    /\ touched' = {} /\ owed' = owed \ touched
    /\ UNCHANGED <<environment, session, cache, queue, untold>>

(* Mutant of Inputs: a claimed file is formatted again. *)
EveryFile(group) == group.files

(* What the wildcard pass claimed is left out of the others. *)
Inputs(group) == IF group.wild THEN group.files ELSE group.files \ flush.handled

(* The next group with a file left: the hashes before it are taken. *)
BeginGroup ==
    /\ flush.phase = "between" /\ flush.groups # <<>>
    /\ LET group == Head(flush.groups)
           inputs == Inputs(group)
       IN  flush' = [flush EXCEPT !.groups = Tail(@),
                                  !.phase = IF inputs = {} THEN "between" ELSE "stepping",
                                  !.wild = group.wild, !.steps = group.steps,
                                  !.inputs = inputs, !.working = inputs,
                                  !.ran = FALSE, !.changing = {}]
    /\ UNCHANGED <<environment, session, touched, cache, queue, owed, untold>>

(* discoverRoot(): the cache answers for whichever built-in asks. *)
Found(builtin) == IF cache = "unknown" THEN builtin \in configs ELSE cache = "found"

Available(step) == IF step.kind = "single" THEN {1} ELSE {i \in DOMAIN step.of : step.of[i] \in onPath}
First(step) == step.of[CHOOSE i \in Available(step) : \A j \in Available(step) : i <= j]

(* The formatter that runs.  treefmt yields to treefmt-nix where both roots *)
(* are found, and are the same: the first lookup decides for the second.    *)
Chosen(step) ==
    IF First(step) = "treefmt" /\ Found("treefmt") /\ (\E i \in Available(step) : step.of[i] = "treefmt-nix")
    THEN "treefmt-nix"
    ELSE First(step)

(* The step is behind every file it was given: history. *)
Stepped(unhandled) ==
    LET at(f) == Len(IF flush.wild THEN Wild ELSE Way(f)) - Len(flush.steps) + 1
    IN  [flush EXCEPT !.steps = Tail(@), !.working = unhandled,
                      !.saw = [f \in Files |-> IF f \in flush.working THEN @[f] \cup {at(f)} ELSE @[f]],
                      !.claimedAt = [f \in Files |-> IF f \in flush.working \ unhandled THEN at(f) ELSE @[f]]]

(* The step ran a command, which changed some of the files it was given. *)
Ran(unhandled, changed) ==
    [Stepped(unhandled) EXCEPT !.ran = TRUE, !.changing = @ \cup changed, !.formatted = @ \cup changed]

Stepping == flush.phase = "stepping" /\ flush.steps # <<>> /\ flush.working # {}

(* No alternative is on PATH, or no configuration applies. *)
StepSkipped ==
    /\ Stepping
    /\ LET step == Head(flush.steps)
       IN  \/ Available(step) = {} /\ UNCHANGED cache
           \/ /\ Available(step) # {}
              /\ First(step) \in Builtins /\ ~Found(First(step))
              /\ cache' = "none"
    /\ flush' = Stepped(flush.working)
    /\ UNCHANGED <<environment, session, touched, queue, owed, untold>>

(* An ordinary formatter: whatever its exit code, the files go on. *)
OrdinaryRuns ==
    /\ Stepping
    /\ Available(Head(flush.steps)) # {} /\ First(Head(flush.steps)) \notin Builtins
    /\ \E changed \in SUBSET flush.working : flush' = Ran(flush.working, changed)
    /\ UNCHANGED <<environment, session, touched, cache, queue, owed, untold>>

(* partitionUnhandled(): treefmt names the files it has no formatter for; *)
(* treefmt-nix claims them all, or none of them.                          *)
Unhandled(builtin) == IF builtin = "treefmt" THEN SUBSET flush.working ELSE {{}, flush.working}

(* A dispatcher: what it does not claim goes on, and a run that claimed   *)
(* nothing counts as none, unless treefmt failed at it.                   *)
BuiltinRuns ==
    /\ Stepping
    /\ Available(Head(flush.steps)) # {}
    /\ LET builtin == Chosen(Head(flush.steps))
       IN  /\ builtin \in Builtins /\ Found(First(Head(flush.steps)))
           /\ cache' = "found"
           /\ \E unhandled \in Unhandled(builtin) :
                 \/ /\ unhandled # flush.working \/ builtin = "treefmt"
                    /\ \E changed \in SUBSET (flush.working \ unhandled) : flush' = Ran(unhandled, changed)
                 \/ unhandled = flush.working /\ flush' = Stepped(unhandled)
    /\ UNCHANGED <<environment, session, touched, queue, owed, untold>>

(* Mutant of Reported: only what is left unclaimed is compared. *)
ReportsUnclaimed == flush.changing \cap flush.working

(* The hashes after the group, against those before it. *)
Reported == flush.changing

(* The chain is through, or nobody is left: the group is reported if *)
(* anything ran, and the wildcard's claims are kept.                 *)
EndGroup ==
    /\ flush.phase = "stepping"
    /\ flush.steps = <<>> \/ flush.working = {}
    /\ \E changedFiles \in Orders(Reported) :
          flush' = [flush EXCEPT !.phase = "between", !.inputs = {}, !.working = {},
                                 !.handled = IF flush.wild THEN flush.inputs \ flush.working ELSE @,
                                 !.told = IF flush.ran THEN @ \o changedFiles ELSE @]
    /\ UNCHANGED <<environment, session, touched, cache, queue, owed, untold>>

(* buildSteeringMessageContent(): the message names the first of the files *)
(* changed, group by group, and says how many more there are.              *)
Shown(list) == {list[i] : i \in {j \in DOMAIN list : j <= MaxShown}}
More(list) == Cardinality({j \in DOMAIN list : j > MaxShown})

(* Of these the message says nothing: it neither names nor counts them. *)
Unaccounted(formatted, list) ==
    LET unnamed == formatted \ Shown(list)
    IN  IF Cardinality(unnamed) <= More(list) THEN {} ELSE unnamed

(* The link settles: the handler of a turn's end sends the message. *)
EndFlush ==
    /\ flush.phase = "between" /\ flush.groups = <<>>
    /\ queue' = Tail(queue)
    /\ flush' = Idle
    /\ untold' = IF Head(queue) = "turn" THEN untold \cup Unaccounted(flush.formatted, flush.told) ELSE untold
    /\ UNCHANGED <<environment, session, touched, cache, owed>>
--------------------------------------------------------------------------------
RunStep == StepSkipped \/ OrdinaryRuns \/ BuiltinRuns
FlushSteps == BeginFlush \/ BeginGroup \/ RunStep \/ EndGroup \/ EndFlush

Next ==
    \/ EnsureState
    \/ \E f \in Files : Touch(f)
    \/ TurnEnd
    \/ AgentEnd
    \/ BeginShutdown
    \/ EndShutdown
    \/ FlushSteps

(***************************************************************************)
(* The event loop runs what is queued, and a command ends, if only by its  *)
(* timeout; after a file was touched, the turn ends or the session does; a *)
(* shutdown that has begun goes on when its flush has settled.             *)
(***************************************************************************)
Fairness ==
    /\ WF_vars(FlushSteps)
    /\ WF_vars(EndShutdown)
    /\ WF_vars(owed # {} /\ (TurnEnd \/ BeginShutdown))

Spec == Init /\ [][Next]_vars /\ Fairness
--------------------------------------------------------------------------------
(***************************************************************************)
(* When a flush is through, every file it took was given to the steps of   *)
(* the wildcard chain and then of its own, in one piece: up to the one     *)
(* that claimed it and not beyond, and to the last if nobody did, whatever *)
(* the other files of its batches did, and whichever steps failed or were  *)
(* skipped on the way.                                                     *)
(***************************************************************************)
WalksItsChain ==
    flush.phase = "between" /\ flush.groups = <<>> =>
        \A f \in flush.took :
            flush.saw[f] = 1 .. IF flush.claimedAt[f] > 0 THEN flush.claimedAt[f] ELSE Len(Way(f))

(***************************************************************************)
(* The agent is told of every file a formatter changed behind its back at  *)
(* the end of a turn, also of one that several groups took a part in: the  *)
(* message names it, or it is among those the message says it leaves out,  *)
(* and none is left out as long as the list has room for all.              *)
(***************************************************************************)
ToldOfEveryChange == untold = {}

(***************************************************************************)
(* A file touched while the session is not closing gets into a flush that  *)
(* starts afterwards: also when it is touched during a flush, and when the *)
(* session ends next.                                                      *)
(***************************************************************************)
TouchedIsFlushed == \A f \in Files : f \in owed ~> f \notin owed

(***************************************************************************)
(* A dispatcher only runs where its own configuration was found: what      *)
(* docs/configuration.md says of the precedence of the built-ins.  It does *)
(* not hold of the code, whose cache is shared by both: see the README.    *)
(***************************************************************************)
RunsWhereConfigured ==
    [][\A b \in Builtins : BuiltinRuns /\ Chosen(Head(flush.steps)) = b => b \in configs]_vars
================================================================================
