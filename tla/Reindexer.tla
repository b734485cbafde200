----------------------------- MODULE Reindexer -----------------------------
(***************************************************************************)
(* How the colgrep index follows the edits of a session: createReindexer() *)
(* of packages/pi-colgrep/src/lib/reindex.ts, driven by the write and edit *)
(* results, the command /colgrep-reindex, the indexing on startup and the  *)
(* end of the session (src/extension.ts).                                  *)
(*                                                                         *)
(* An action is what runs before the code waits again: for the debounce    *)
(* timer, for the process `colgrep init', or for a caller.  A process that *)
(* fails ends like one that succeeds, but for the status line.             *)
(*                                                                         *)
(* Another package hears of the same edits (Autoformat); the proofs extend *)
(* both modules, so that no name is in both of them.                       *)
(***************************************************************************)
EXTENDS Naturals, FiniteSets

CONSTANTS
    Builds,    \* bound: the `colgrep init' processes alive at one time
    NoBuild    \* stands for no process

ASSUME ReindexerAssumption == NoBuild \notin Builds

VARIABLES
    debounceTimer,    \* whether a timer is set
    inFlight,         \* the flag runReindex() sets and resets
    queued,           \* whether another build is to follow the one in flight
    inflightPromise,  \* the build whose promise is remembered, or NoBuild
    running,          \* the processes that are really alive
    sessionPhase,     \* open; closing: shutdown() awaits; closed: it returned
    awaited,          \* the build shutdown() awaits, or NoBuild
    unindexed,        \* history: a scheduled change no build began after
    raced             \* history: a build was asked for while a timer was set

askedVars == <<debounceTimer, queued, unindexed>>
buildVars == <<inFlight, inflightPromise, running>>
indexVars == <<askedVars, buildVars, sessionPhase, awaited, raced>>

IndexInit ==
    /\ debounceTimer = FALSE /\ queued = FALSE /\ unindexed = FALSE
    /\ inFlight = FALSE /\ inflightPromise = NoBuild /\ running = {}
    /\ sessionPhase = "open" /\ awaited = NoBuild
    /\ raced = FALSE

(* The synchronous prefix of runReindex(), and what its caller remembers. *)
Begin(b) ==
    /\ inFlight' = TRUE
    /\ inflightPromise' = b
    /\ running' = running \union {b}
    /\ unindexed' = FALSE

(* Mutant of Schedule: what changes during a build is left to that build. *)
ScheduleUnlessBuilding ==
    /\ sessionPhase = "open"
    /\ unindexed' = TRUE
    /\ debounceTimer' = (debounceTimer \/ ~inFlight)
    /\ UNCHANGED <<queued, buildVars, sessionPhase, awaited, raced>>

(* schedule(): queue behind a build in flight, or set the timer (anew). *)
Schedule ==
    /\ sessionPhase = "open"
    /\ unindexed' = TRUE
    /\ IF inFlight
       THEN queued' = TRUE /\ UNCHANGED debounceTimer
       ELSE debounceTimer' = TRUE /\ UNCHANGED queued
    /\ UNCHANGED <<buildVars, sessionPhase, awaited, raced>>

(* No edit was reported for debounceMs. *)
TimerFires(b) ==
    /\ debounceTimer /\ b \notin running
    /\ debounceTimer' = FALSE
    /\ Begin(b)
    /\ UNCHANGED <<queued, sessionPhase, awaited, raced>>

(* Mutant of Joins: every request is a build of its own. *)
NeverJoins == FALSE

(* startRun() finds a build to join. *)
Joins == inFlight /\ inflightPromise # NoBuild

(***************************************************************************)
(* runNow(), of the command or of the startup.  It does not look at the    *)
(* timer.  The extension calls it until shutdown() has returned.           *)
(***************************************************************************)
RunNow(b) ==
    /\ sessionPhase # "closed" /\ ~Joins /\ b \notin running
    /\ Begin(b)
    /\ raced' = (raced \/ debounceTimer)
    /\ UNCHANGED <<debounceTimer, queued, sessionPhase, awaited>>

(* Mutant of Ends: what was queued meanwhile is not built. *)
EndsWithoutDraining(b) ==
    /\ b \in running
    /\ running' = running \ {b}
    /\ inFlight' = FALSE /\ inflightPromise' = NoBuild /\ queued' = FALSE
    /\ sessionPhase' = IF awaited = b THEN "closed" ELSE sessionPhase
    /\ UNCHANGED <<debounceTimer, unindexed, awaited, raced>>

(***************************************************************************)
(* The process of b ends and runReindex() goes on: flag and promise are    *)
(* reset, whosever they are, and the queue is drained unless the session   *)
(* ends (the next process takes the place of b).  If shutdown() awaited b  *)
(* it returns.                                                             *)
(***************************************************************************)
Ends(b) ==
    /\ b \in running
    /\ IF queued /\ sessionPhase = "open"
       THEN queued' = FALSE /\ Begin(b) /\ UNCHANGED sessionPhase
       ELSE /\ running' = running \ {b}
            /\ inFlight' = FALSE /\ inflightPromise' = NoBuild
            /\ sessionPhase' = IF awaited = b THEN "closed" ELSE sessionPhase
            /\ UNCHANGED <<queued, unindexed>>
    /\ UNCHANGED <<debounceTimer, awaited, raced>>

(* shutdown(): drop the timer, wait for the promise that is remembered. *)
Shutdown ==
    /\ sessionPhase = "open"
    /\ debounceTimer' = FALSE
    /\ awaited' = inflightPromise
    /\ sessionPhase' = IF inflightPromise = NoBuild THEN "closed" ELSE "closing"
    /\ UNCHANGED <<queued, unindexed, buildVars, raced>>

IndexNext ==
    \/ Schedule \/ Shutdown
    \/ \E b \in Builds : TimerFires(b) \/ RunNow(b) \/ Ends(b)

IndexSpec == IndexInit /\ [][IndexNext]_indexVars

(***************************************************************************)
(* A process ends (exec has a timeout), and the edits pause for debounceMs *)
(* now and then, so that a timer that stays set fires.  Nobody has to ask  *)
(* for a build or to end the session.                                      *)
(***************************************************************************)
IndexFairness ==
    /\ WF_indexVars(\E b \in Builds : TimerFires(b))
    /\ \A b \in Builds : WF_indexVars(Ends(b))

FairIndexSpec == IndexSpec /\ IndexFairness

-----------------------------------------------------------------------------
(* Every variable has its type, and a promise that is remembered is that   *)
(* of a process alive.                                                     *)
TypeOK ==
    /\ debounceTimer \in BOOLEAN /\ queued \in BOOLEAN /\ unindexed \in BOOLEAN
    /\ inFlight \in BOOLEAN /\ raced \in BOOLEAN
    /\ running \subseteq Builds
    /\ inflightPromise \in running \union {NoBuild}
    /\ sessionPhase \in {"open", "closing", "closed"}
    /\ awaited \in Builds \union {NoBuild}

(* Until the session ends, a change that is not in the index yet has a     *)
(* timer set, or is queued behind a process that is really alive: no       *)
(* order of edits, commands and ends of processes forgets it.              *)
NoChangeForgotten ==
    unindexed /\ sessionPhase = "open" =>
        debounceTimer \/ (queued /\ inFlight /\ running # {})

(* Two processes work on one index at a time only if a build was asked for *)
(* while a timer was set.                                                  *)
SerialUnlessRaced == ~raced => Cardinality(running) <= 1

(* When shutdown() has returned no process is left, unless there was such  *)
(* a race.                                                                 *)
ShutdownIsQuiet == sessionPhase = "closed" /\ ~raced => running = {}

(* Every change gets into a build that began after it. *)
ChangesGetIndexed == unindexed ~> ~unindexed \/ sessionPhase # "open"

-----------------------------------------------------------------------------
(* architecture.md: a single `colgrep init' runs at a time; concurrent     *)
(* requests collapse rather than spawn parallel processes.                 *)
SingleBuild == Cardinality(running) <= 1

=============================================================================
