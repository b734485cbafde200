---------------------------- MODULE ServingLiveness ----------------------------
(***************************************************************************)
(* How a child that has forwarded a permission request knows whether       *)
(* anybody will answer it: packages/pi-permission-system/src/authority/    *)
(* forwarding-liveness.ts (the heartbeat records), forwarding-manager.ts   *)
(* (what a session announces while it polls), serving-registry.ts, and the *)
(* grace window of approval-escalator.ts.                                  *)
(*                                                                         *)
(* Time passes in units, and only ages are kept.  An announcement is       *)
(* synchronous code of one process, but every file operation of it         *)
(* interleaves with those of the other processes, and it may fail or be    *)
(* cut short by the death of its process.  Of the records only that of the *)
(* target is followed.  A session id that cannot be read is left out, and  *)
(* so is the time one announcement takes.                                  *)
(***************************************************************************)
EXTENDS Integers, Sequences

CONSTANTS
    Procs,      \* the pi processes, each with its pid and one session at a time
    Sessions,   \* the ids of sessions
    Target,     \* the session the child has forwarded to
    Refresh,    \* SERVING_HEARTBEAT_REFRESH_MS
    Stale,      \* SERVING_HEARTBEAT_STALE_MS
    Grace,      \* PERMISSION_FORWARDING_SERVING_GRACE_MS
    Gap,        \* the most time a live process lets pass between two polls
    Spacing     \* bound: the least time from one loss to the next; with 0, any follows any

None == "none"
NoTime == -1

ASSUME LivenessAssumption ==
    /\ Target \in Sessions /\ None \notin Sessions \cup Procs
    /\ Refresh \in Nat \ {0} /\ Stale \in Nat /\ Grace \in Nat /\ Gap \in Nat \ {0}
    /\ Spacing \in Nat

VARIABLES
    status,     \* of each process: "up", "hung", "dead", or its pid "reused"
    live,       \* the session id its context has now
    served,     \* ForwardingManager.servingSessionId while it polls
    since,      \* the age of its last tick
    published,  \* the age of ServingHeartbeatStore.published, if it is of the target
    swept,      \* hasSweptDeadRecords
    pending,    \* the file operations of the announcement it is in
    record,     \* the heartbeat record of the target
    child,      \* "idle", "waiting", "answered", "gaveUp", or "gone" with its host
    host,       \* the process an in-process child shares with its parent
    polled,     \* the age of the child's last poll
    unserved,   \* the age of unservedSince
    servedFor,  \* history: how long the target has been polled without a break
    idleFor,    \* history: how long the child has waited while nobody polled
    lost        \* the age of the last loss, until the next is possible

managerVars == <<live, served, since>>
storeVars == <<published, swept, pending>>
waiterVars == <<child, host, polled, unserved>>
servingVars == <<status, managerVars, storeVars, record, waiterVars, servedFor, idleFor, lost>>

NoRecord == [by |-> None, age |-> 0]

\* The longest a child waits for nobody: NobodyIsWaitedFor.
Patience == Stale + Grace + 2 * Gap

ServingInit ==
    /\ status = [p \in Procs |-> "up"]
    /\ live \in [Procs -> Sessions]
    /\ served = [p \in Procs |-> None]
    /\ since = [p \in Procs |-> 0]
    /\ published = [p \in Procs |-> NoTime]
    /\ swept = [p \in Procs |-> FALSE]
    /\ pending = [p \in Procs |-> <<>>]
    /\ record = NoRecord
    /\ child = "idle" /\ host = None /\ polled = 0 /\ unserved = NoTime
    /\ servedFor = 0 /\ idleFor = 0 /\ lost = NoTime

\* Who polls the inbox of the target, as far as it matters to the child.
Polls(p) == status[p] = "up" /\ served[p] = Target
Served == \E p \in Procs : Polls(p) /\ host \in {None, p}

\* The two histories, in every step but Elapse.
Follow ==
    /\ servedFor' = IF Served' THEN servedFor ELSE 0
    /\ idleFor' = IF Served' \/ child' # "waiting" THEN 0 ELSE idleFor

\* A call fails, or a record is taken from a live process: once in a time of Spacing.
Loses(n) ==
    /\ n = 1 => lost = NoTime
    /\ lost' = IF n = 1 /\ Spacing > 0 THEN 0 ELSE lost

\* Mutant of State: a record is believed as long as its process lives.
StateByPid(r) ==
    IF r = NoRecord THEN "absent" ELSE IF status[r.by] = "dead" THEN "dead_pid" ELSE "alive"

\* read() and classify(): a reused pid is taken for its former owner.
State(r) ==
    IF r = NoRecord THEN "absent"
    ELSE IF status[r.by] = "dead" THEN "dead_pid"
    ELSE IF r.age >= Stale THEN "stale" ELSE "alive"

--------------------------------------------------------------------------------
(* The announcements of a session.                                         *)

\* isThrottled(): the age of the last writing alone, and not the file.
Throttled(p) == published[p] # NoTime /\ published[p] < Refresh

\* What markServing() of session s does with the files.
Marking(p, s) ==
    (IF swept[p] THEN <<>> ELSE <<"list">>) \o (IF s = Target THEN <<"write">> ELSE <<>>)

\* withdrawServing(): the record of the session served so far goes.
Withdrawal(p) == IF served[p] = Target THEN <<"delete">> ELSE <<>>

\* announceServing() of the live id.
Announce(p) ==
    /\ served' = [served EXCEPT ![p] = live[p]]
    /\ pending' = [pending EXCEPT ![p] = Withdrawal(p) \o Marking(p, live[p])]

\* start(), with a UI: of one that polls, only another id changes anything.
Starts(p) ==
    /\ status[p] = "up" /\ pending[p] = <<>> /\ served[p] # live[p]
    /\ since' = [since EXCEPT ![p] = IF served[p] = None THEN 0 ELSE @]
    /\ Announce(p)
    /\ UNCHANGED <<status, live, published, swept, record, waiterVars, lost>>
    /\ Follow

\* stop()
Stops(p) ==
    /\ status[p] = "up" /\ pending[p] = <<>> /\ served[p] # None
    /\ served' = [served EXCEPT ![p] = None]
    /\ pending' = [pending EXCEPT ![p] = Withdrawal(p)]
    /\ UNCHANGED <<status, live, since, published, swept, record, waiterVars, lost>>
    /\ Follow

\* The poll timer: refreshServing() comes ahead of the drain, whether one is under way or not.
Tick(p) ==
    /\ status[p] = "up" /\ pending[p] = <<>> /\ served[p] # None /\ since[p] > 0
    /\ since' = [since EXCEPT ![p] = 0]
    /\ \/ live[p] # served[p] /\ Announce(p)
       \/ live[p] = served[p] /\ ~Throttled(p) /\ pending' = [pending EXCEPT ![p] = Marking(p, live[p])] /\ UNCHANGED served
       \/ live[p] = served[p] /\ Throttled(p) /\ UNCHANGED <<served, pending>>
    /\ UNCHANGED <<status, live, published, swept, record, waiterVars, lost>>
    /\ Follow

\* The next file operation of the announcement p is in.
Doing(p, op) == status[p] = "up" /\ pending[p] # <<>> /\ Head(pending[p]) = op
Done(p) == pending' = [pending EXCEPT ![p] = Tail(@)]

\* What p does to the record is a mishap if another process serves the same session.
Loss(p) ==
    IF record # NoRecord /\ \E r \in Procs \ {p} : status[r] \in {"up", "hung"} /\ served[r] = Target
    THEN 1 ELSE 0

\* clearServing(): whoever wrote the record.
Withdraws(p) ==
    /\ Doing(p, "delete")
    /\ \/ record' = NoRecord /\ Loses(Loss(p))
       \/ UNCHANGED record /\ record # NoRecord /\ Loses(1)
    /\ published' = [published EXCEPT ![p] = NoTime]
    /\ Done(p)
    /\ UNCHANGED <<status, managerVars, swept, waiterVars>>
    /\ Follow

\* sweepDeadRecordsOnce() has read the records: one names a process that is gone, or not.
Lists(p) ==
    /\ Doing(p, "list")
    /\ pending' = [pending EXCEPT ![p] = IF State(record) = "dead_pid" THEN <<"sweep">> \o Tail(@) ELSE Tail(@)]
    /\ swept' = [swept EXCEPT ![p] = TRUE]
    /\ UNCHANGED <<status, managerVars, published, record, waiterVars, lost>>
    /\ Follow

\* It deletes the file, whatever it holds by now.
Sweeps(p) ==
    /\ Doing(p, "sweep")
    /\ record' = NoRecord
    /\ Loses(Loss(p))
    /\ Done(p)
    /\ UNCHANGED <<status, managerVars, published, swept, waiterVars>>
    /\ Follow

\* The record is written, and then held for published.
Writes(p) ==
    /\ Doing(p, "write")
    /\ record' = [by |-> p, age |-> 0]
    /\ published' = [published EXCEPT ![p] = 0]
    /\ Done(p)
    /\ UNCHANGED <<status, managerVars, swept, waiterVars, lost>>
    /\ Follow

\* The directory cannot be made, or the record not written: the next tick tries again.
MarkingFails(p) ==
    /\ Doing(p, "list") \/ Doing(p, "write")
    /\ pending' = [pending EXCEPT ![p] = <<>>]
    /\ Loses(1)
    /\ UNCHANGED <<status, managerVars, published, swept, record, waiterVars>>
    /\ Follow

--------------------------------------------------------------------------------
(* What happens to the processes and their files.                          *)

\* The id of the session changes in place.
Renamed(p) ==
    /\ status[p] = "up" /\ pending[p] = <<>>
    /\ \E s \in Sessions \ {live[p]} : live' = [live EXCEPT ![p] = s]
    /\ UNCHANGED <<status, served, since, storeVars, record, waiterVars, lost>>
    /\ Follow

\* The process goes on living without running its timers, and perhaps comes back to them.
Hangs(p) ==
    /\ pending[p] = <<>>
    /\ status' = [status EXCEPT ![p] = IF @ = "up" THEN "hung" ELSE "up"]
    /\ status[p] \in {"up", "hung"}
    /\ Loses(IF record.by = p /\ status[p] = "up" THEN Loss(p) ELSE 0)
    /\ UNCHANGED <<managerVars, storeVars, record, waiterVars>>
    /\ Follow

\* It is killed, at any point of an announcement; an in-process child dies with it.
Dies(p) ==
    /\ status[p] \in {"up", "hung"}
    /\ status' = [status EXCEPT ![p] = "dead"]
    /\ served' = [served EXCEPT ![p] = None]
    /\ published' = [published EXCEPT ![p] = NoTime]
    /\ pending' = [pending EXCEPT ![p] = <<>>]
    /\ child' = IF host = p THEN "gone" ELSE child
    /\ Loses(IF record.by = p THEN Loss(p) ELSE 0)
    /\ UNCHANGED <<live, since, swept, record, host, polled, unserved>>
    /\ Follow

\* The system gives the pid to another process, which knows nothing of it.
PidReused(p) ==
    /\ status[p] = "dead"
    /\ status' = [status EXCEPT ![p] = "reused"]
    /\ UNCHANGED <<managerVars, storeVars, record, waiterVars, lost>>
    /\ Follow

\* The record is deleted underneath its owner.
Removed ==
    /\ record # NoRecord
    /\ record' = NoRecord
    /\ Loses(1)
    /\ UNCHANGED <<status, managerVars, storeVars, waiterVars>>
    /\ Follow

--------------------------------------------------------------------------------
(* The child.                                                              *)

\* Its request is written: in the parent's process, or in one of its own.
Forwards ==
    /\ child = "idle"
    /\ child' = "waiting"
    /\ host' \in {None} \cup {p \in Procs : status[p] = "up"}
    /\ UNCHANGED <<status, managerVars, storeVars, record, polled, unserved, lost>>
    /\ Follow

\* ForwardingLivenessJudge: the registry for an in-process child, else the heartbeat.
IsServing == IF host = None THEN State(record) = "alive" ELSE served[host] = Target

ChildRuns == child = "waiting" /\ (host # None => status[host] = "up" /\ pending[host] = <<>>)

\* Mutant of Window: it is never closed again.
WindowNeverCloses ==
    IF unserved # NoTime THEN unserved ELSE IF IsServing THEN NoTime ELSE 0

\* checkServingLiveness(): when the target began to look unserved, or that it does not.
Window == IF IsServing THEN NoTime ELSE IF unserved = NoTime THEN 0 ELSE unserved

ChildPolls ==
    /\ ChildRuns
    /\ polled' = 0
    /\ \/ Window < Grace /\ unserved' = Window /\ UNCHANGED child
       \/ Window >= Grace /\ unserved' = NoTime /\ child' = "gaveUp"
    /\ UNCHANGED <<status, managerVars, storeVars, record, host, lost>>
    /\ Follow

\* It finds the response, or its timeout runs out.
ChildEnds ==
    /\ ChildRuns
    /\ child' = "answered"
    /\ polled' = 0 /\ unserved' = NoTime
    /\ UNCHANGED <<status, managerVars, storeVars, record, host, lost>>
    /\ Follow

--------------------------------------------------------------------------------
\* An age, if it has begun, no longer told apart beyond a bound.
Upto(age, bound) == IF age = NoTime \/ age >= bound THEN age ELSE age + 1

\* The live processes have ticked and the child has polled in time.
OnTime ==
    /\ \A p \in Procs : pending[p] = <<>>
    /\ \A p \in Procs : status[p] = "up" /\ served[p] # None => since[p] < Gap
    /\ ChildRuns => polled < Gap

\* A unit of time passes.
Elapse ==
    /\ OnTime
    /\ since' = [p \in Procs |-> IF served[p] = None THEN 0 ELSE Upto(since[p], Gap)]
    /\ published' = [p \in Procs |-> Upto(published[p], Refresh)]
    /\ record' = IF record = NoRecord THEN record ELSE [record EXCEPT !.age = Upto(@, Stale)]
    /\ polled' = IF child = "waiting" THEN Upto(polled, Gap) ELSE 0
    /\ unserved' = Upto(unserved, Grace)
    /\ servedFor' = IF Served THEN Upto(servedFor, Grace) ELSE 0
    /\ lost' = IF lost # NoTime /\ lost + 1 < Spacing THEN lost + 1 ELSE NoTime
    /\ idleFor' = IF ChildRuns /\ ~Served THEN Upto(idleFor, Patience + 1) ELSE idleFor
    /\ UNCHANGED <<status, live, served, swept, pending, child, host>>

Announcement(p) == Withdraws(p) \/ Lists(p) \/ Sweeps(p) \/ Writes(p) \/ MarkingFails(p)

ServingNext ==
    \/ \E p \in Procs :
          \/ Starts(p) \/ Stops(p) \/ Tick(p) \/ Announcement(p)
          \/ Renamed(p) \/ Hangs(p) \/ Dies(p) \/ PidReused(p)
    \/ Removed \/ Forwards \/ ChildPolls \/ ChildEnds
    \/ Elapse

ServingSpec == ServingInit /\ [][ServingNext]_servingVars

--------------------------------------------------------------------------------
(***************************************************************************)
(* A child never gives up on a session that has been polled for the whole  *)
(* of its grace window, although the record may be swept by mistake, taken *)
(* away by another process that serves the same session, deleted or not    *)
(* written: once in each time of the length Spacing, which the throttle    *)
(* and the window are chosen for.                                          *)
(***************************************************************************)
ServedIsWaitedFor ==
    [][child = "waiting" /\ child' = "gaveUp" => servedFor < Grace]_servingVars

(***************************************************************************)
(* A child does not wait for long when nobody polls the inbox it wrote to: *)
(* whether that session was closed, killed, hung or renamed, whether its   *)
(* record could not be withdrawn, and whether its pid was reused.          *)
(***************************************************************************)
NobodyIsWaitedFor == idleFor <= Patience
================================================================================
