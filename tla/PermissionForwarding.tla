------------------------ MODULE PermissionForwarding ------------------------
(***************************************************************************)
(* How a subagent in another process gets a permission from the session of *)
(* its parent: packages/pi-permission-system/src/authority --              *)
(* approval-escalator.ts (the children), forwarded-request-server.ts and   *)
(* forwarding-manager.ts (the parent), forwarding-io.ts (the files).       *)
(*                                                                         *)
(* They share two directories, requests/ and responses/.  Children and     *)
(* parent are processes, so an action of a child is one call to the file   *)
(* system.  So is an action of a drain of the parent's inbox, but drains   *)
(* and the events of the parent share one thread: while a drain is between *)
(* two of its own calls nothing else of the parent runs, except when it    *)
(* awaits a decision.                                                      *)
(*                                                                         *)
(* A child is named by its one request: another request of the same        *)
(* process has an id of its own and is another member of Children.         *)
(* readdir, then rmdir is one step, since rmdir checks again; so is the    *)
(* write of a temporary file and its rename.  When nobody serves the       *)
(* parent, a child gives up early: ServingLiveness is about when.          *)
(***************************************************************************)
EXTENDS Naturals, FiniteSets

CONSTANTS
    Children,     \* the requests ever forwarded to this parent
    Nobody,       \* no child: what a drain between requests is at
    Drains,       \* bound: the processInbox() calls in flight at one time
    MaxMishaps    \* bound: failed calls, deaths and stops, all together

ASSUME ForwardingAssumption ==
    /\ Nobody \notin Children
    /\ MaxMishaps \in Nat

VARIABLES
    requestsDir,   \* whether requests/ exists
    responsesDir,  \* whether responses/ exists
    requests,      \* the request files: whose, and whether the parent can serve it
    responses,     \* the response file of each child, or "none"
    step,          \* what each child does next
    outcome,       \* what each child's escalation resolved to
    serving,       \* whether the parent's poll timer runs
    processing,    \* ForwardingManager.processing
    drain,         \* what each drain does next
    todo,          \* the listed files each drain has still to look at
    current,       \* the request each drain is at
    verdict,       \* the decision each drain is about to write
    decided,       \* history: the decisions the parent made on each request
    spoiled,       \* history: the requests a failed call leaves behind, or takes
    mishaps        \* how much of MaxMishaps was used

fileVars == <<requestsDir, responsesDir, requests, responses>>
childVars == <<step, outcome>>
drainVars == <<drain, todo, current, verdict>>
serverVars == <<serving, processing, drainVars, decided>>
limitVars == <<spoiled, mishaps>>
vars == <<fileVars, childVars, serverVars, limitVars>>

Decisions == {"approved", "denied"}

ChildSteps ==
    {"idle", "makeResponses", "writeRequest", "waiting", "dropResponse",
     "dropRequest", "cleanRequests", "cleanResponses", "done", "dead"}

DrainSteps ==
    {"idle", "makeResponses", "scanning", "asking", "responding", "deleting",
     "cleanResponses"}

Init ==
    /\ requestsDir = FALSE /\ responsesDir = FALSE
    /\ requests = {}
    /\ responses = [c \in Children |-> "none"]
    /\ step = [c \in Children |-> "idle"]
    /\ outcome = [c \in Children |-> "none"]
    /\ serving = FALSE /\ processing = FALSE
    /\ drain = [d \in Drains |-> "idle"]
    /\ todo = [d \in Drains |-> {}]
    /\ current = [d \in Drains |-> Nobody]
    /\ verdict = [d \in Drains |-> "none"]
    /\ decided = [c \in Children |-> {}]
    /\ spoiled = {} /\ mishaps = 0

(* A request file.  One that is malformed or names another session is not valid. *)
RequestFiles == [id : Children, valid : BOOLEAN]

(* The request files that are left when c's is unlinked. *)
Without(c) == {r \in requests : r.id # c}

Mishap ==
    /\ mishaps < MaxMishaps
    /\ mishaps' = mishaps + 1
    /\ UNCHANGED spoiled

(* A call that fails for good: nobody will try to undo what it did to c. *)
Spoils(c) ==
    /\ mishaps < MaxMishaps
    /\ mishaps' = mishaps + 1
    /\ spoiled' = spoiled \union {c}

-----------------------------------------------------------------------------
(* The directories. *)

(* Mutant of RequestsGone: a directory that is not there was not removed. *)
RequestsGoneNow == requestsDir /\ requests = {}

(* tryRemoveDirectoryIfEmpty(requestsDir) succeeds: it is gone afterwards. *)
RequestsGone == ~requestsDir \/ requests = {}

(* tryRemoveDirectoryIfEmpty(responsesDir), whatever it comes to. *)
RemoveResponses ==
    responsesDir' = (responsesDir /\ \E c \in Children : responses[c] # "none")

-----------------------------------------------------------------------------
(* A child. *)

(* The escalation of c is still going on. *)
Undecided(c) == step[c] \in {"idle", "makeResponses", "writeRequest", "waiting"}

Moves(c, from, to) ==
    /\ step[c] = from
    /\ step' = [step EXCEPT ![c] = to]

(***************************************************************************)
(* The child is asked to authorize and knows whose inbox to write into:    *)
(* ensurePermissionForwardingLocation() makes requests/ ...                *)
(***************************************************************************)
MakeRequests(c) ==
    /\ Moves(c, "idle", "makeResponses")
    /\ requestsDir' = TRUE
    /\ UNCHANGED <<responsesDir, requests, responses, outcome, serverVars, limitVars>>

(* ... and then responses/. *)
MakeResponses(c) ==
    /\ Moves(c, "makeResponses", "writeRequest")
    /\ responsesDir' = TRUE
    /\ UNCHANGED <<requestsDir, requests, responses, outcome, serverVars, limitVars>>

(* Either mkdir may fail, the second is tried even if the first did; the   *)
(* child then gives up and cleans nothing.                                 *)
MakeFails(c) ==
    /\ \/ step[c] = "idle" /\ responsesDir' = TRUE
       \/ step[c] = "makeResponses" /\ UNCHANGED responsesDir
    /\ step' = [step EXCEPT ![c] = "done"]
    /\ outcome' = [outcome EXCEPT ![c] = "abandoned"]
    /\ Mishap
    /\ UNCHANGED <<requestsDir, requests, responses, serverVars>>

WriteRequest(c) ==
    /\ Moves(c, "writeRequest", "waiting")
    /\ requestsDir
    /\ \E v \in BOOLEAN : requests' = requests \union {[id |-> c, valid |-> v]}
    /\ UNCHANGED <<requestsDir, responsesDir, responses, outcome, serverVars, limitVars>>

(* requests/ was removed meanwhile by somebody's cleanup, or the call fails. *)
WriteRequestFails(c) ==
    /\ Moves(c, "writeRequest", "cleanRequests")
    /\ IF requestsDir THEN Mishap ELSE UNCHANGED limitVars
    /\ outcome' = [outcome EXCEPT ![c] = "abandoned"]
    /\ UNCHANGED <<fileVars, serverVars>>

(* Mutant of UnreadResponse: a response that cannot be read is consent.    *)
UnreadResponseIsConsent == "approved"

(* What an unreadable response comes to: abandon(). *)
UnreadResponse == "abandoned"

(* A poll finds a response: adopt it, or abandon if it cannot be read. *)
ReceiveResponse(c) ==
    /\ responses[c] # "none"
    /\ Moves(c, "waiting", "dropResponse")
    /\ \/ outcome' = [outcome EXCEPT ![c] = responses[c]] /\ UNCHANGED limitVars
       \/ outcome' = [outcome EXCEPT ![c] = UnreadResponse] /\ Mishap
    /\ UNCHANGED <<fileVars, serverVars>>

(* The deadline has passed, or nobody serves the parent. *)
GiveUp(c) ==
    /\ Moves(c, "waiting", "dropRequest")
    /\ outcome' = [outcome EXCEPT ![c] = "abandoned"]
    /\ UNCHANGED <<fileVars, serverVars, limitVars>>

(* discardRequest(): unlink the response, *)
DropResponse(c) ==
    /\ Moves(c, "dropResponse", "dropRequest")
    /\ responses' = [responses EXCEPT ![c] = "none"]
    /\ UNCHANGED <<requestsDir, responsesDir, requests, outcome, serverVars, limitVars>>

(* unlink the request, *)
DropRequest(c) ==
    /\ Moves(c, "dropRequest", "cleanRequests")
    /\ requests' = Without(c)
    /\ UNCHANGED <<requestsDir, responsesDir, responses, outcome, serverVars, limitVars>>

(* cleanupPermissionForwardingLocationIfEmpty(): remove requests/.  That   *)
(* another process removes it after existsSync() and before readdirSync(), *)
(* which makes the cleanup end here, is left out.                          *)
CleanRequests(c) ==
    /\ IF RequestsGone
       THEN Moves(c, "cleanRequests", "cleanResponses") /\ requestsDir' = FALSE
       ELSE Moves(c, "cleanRequests", "done") /\ UNCHANGED requestsDir
    /\ UNCHANGED <<responsesDir, requests, responses, outcome, serverVars, limitVars>>

(* Only if it is gone, remove responses/. *)
CleanResponses(c) ==
    /\ Moves(c, "cleanResponses", "done")
    /\ RemoveResponses
    /\ UNCHANGED <<requestsDir, requests, responses, outcome, serverVars, limitVars>>

(* Any of these four calls may fail, and the child goes on all the same. *)
CleanupFails(c) ==
    /\ \/ Moves(c, "dropResponse", "dropRequest") /\ Mishap
       \/ Moves(c, "dropRequest", "cleanRequests") /\ Spoils(c)
       \/ Moves(c, "cleanRequests", "done") /\ Mishap
       \/ Moves(c, "cleanResponses", "done") /\ Mishap
    /\ UNCHANGED <<fileVars, outcome, serverVars>>

(* The process of the child dies. *)
ChildDies(c) ==
    /\ step[c] \notin {"idle", "done", "dead"} /\ Mishap
    /\ step' = [step EXCEPT ![c] = "dead"]
    /\ UNCHANGED <<fileVars, outcome, serverVars>>

-----------------------------------------------------------------------------
(* The parent's manager. *)

(* No drain is between two of its own calls. *)
ThreadIsFree == \A d \in Drains : drain[d] \in {"idle", "asking"}

(* start(): the session begins to poll. *)
Start ==
    /\ ~serving /\ ThreadIsFree
    /\ serving' = TRUE
    /\ UNCHANGED <<fileVars, childVars, processing, drainVars, decided, limitVars>>

(* stop(): a drain in flight goes on, but `processing' no longer says so. *)
Stop ==
    /\ serving /\ ThreadIsFree /\ Mishap
    /\ serving' = FALSE /\ processing' = FALSE
    /\ UNCHANGED <<fileVars, childVars, drainVars, decided>>

(* The parent's process dies, and with it its timer and its drains. *)
ParentDies ==
    /\ serving \/ \E d \in Drains : drain[d] # "idle"
    /\ Mishap
    /\ serving' = FALSE /\ processing' = FALSE
    /\ drain' = [d \in Drains |-> "idle"]
    /\ todo' = [d \in Drains |-> {}]
    /\ current' = [d \in Drains |-> Nobody]
    /\ verdict' = [d \in Drains |-> "none"]
    /\ UNCHANGED <<fileVars, childVars, decided>>

-----------------------------------------------------------------------------
(* A drain: processInbox(). *)

DrainMoves(d, from, to) ==
    /\ drain[d] = from
    /\ drain' = [drain EXCEPT ![d] = to]

(* Mutant of Scan: no check for the responses directory before writing. *)
ScanOnly(d) ==
    /\ serving /\ ~processing /\ ThreadIsFree
    /\ requestsDir /\ requests # {}
    /\ DrainMoves(d, "idle", "scanning")
    /\ todo' = [todo EXCEPT ![d] = {r.id : r \in requests}]
    /\ processing' = TRUE
    /\ UNCHANGED <<fileVars, childVars, serving, current, verdict, decided, limitVars>>

(* A tick of the timer finds requests.  (Finding none it changes nothing.) *)
Scan(d) ==
    /\ serving /\ ~processing /\ ThreadIsFree
    /\ requestsDir /\ requests # {}
    /\ DrainMoves(d, "idle", "makeResponses")
    /\ todo' = [todo EXCEPT ![d] = {r.id : r \in requests}]
    /\ processing' = TRUE
    /\ UNCHANGED <<fileVars, childVars, serving, current, verdict, decided, limitVars>>

(* responses/ is made again before anything is written into it, ... *)
EnsureResponses(d) ==
    /\ DrainMoves(d, "makeResponses", "scanning")
    /\ responsesDir' = TRUE
    /\ UNCHANGED <<requestsDir, requests, responses, childVars, serving, processing,
                   todo, current, verdict, decided, limitVars>>

(* ... or the tick ends. *)
EnsureFails(d) ==
    /\ DrainMoves(d, "makeResponses", "idle") /\ Mishap
    /\ todo' = [todo EXCEPT ![d] = {}]
    /\ processing' = FALSE
    /\ UNCHANGED <<fileVars, childVars, serving, current, verdict, decided>>

(* Mutant of Readable: what was listed is taken as still there. *)
ReadableWhenListed(c) == TRUE

(* readForwardedPermissionRequest() finds the file, and it is for us. *)
Readable(c) == [id |-> c, valid |-> TRUE] \in requests

(* The next file cannot be read or is not for us: delete it and go on. *)
SkipFile(d, c) ==
    /\ DrainMoves(d, "scanning", "scanning")
    /\ c \in todo[d] /\ ~Readable(c)
    /\ todo' = [todo EXCEPT ![d] = @ \ {c}]
    /\ requests' = Without(c)
    /\ UNCHANGED <<requestsDir, responsesDir, responses, childVars, serving, processing,
                   current, verdict, decided, limitVars>>

(* The file is there but the call to read it fails: it is deleted as well. *)
ReadFails(d, c) ==
    /\ DrainMoves(d, "scanning", "scanning")
    /\ c \in todo[d] /\ Readable(c) /\ Spoils(c)
    /\ todo' = [todo EXCEPT ![d] = @ \ {c}]
    /\ requests' = Without(c)
    /\ UNCHANGED <<requestsDir, responsesDir, responses, childVars, serving, processing,
                   current, verdict, decided>>

(* The next file is a request: recorded authority says ask. *)
AskFor(d, c) ==
    /\ DrainMoves(d, "scanning", "asking")
    /\ c \in todo[d] /\ Readable(c)
    /\ todo' = [todo EXCEPT ![d] = @ \ {c}]
    /\ current' = [current EXCEPT ![d] = c]
    /\ UNCHANGED <<fileVars, childVars, serving, processing, verdict, decided, limitVars>>

(* The parent decides the current request of d as v. *)
Decides(d, c, v) ==
    /\ verdict' = [verdict EXCEPT ![d] = v]
    /\ decided' = [decided EXCEPT ![c] = @ \union {v}]

(* The next file is a request: a rule allows or denies it at once. *)
RuleDecides(d, c) ==
    /\ DrainMoves(d, "scanning", "responding")
    /\ c \in todo[d] /\ Readable(c)
    /\ todo' = [todo EXCEPT ![d] = @ \ {c}]
    /\ current' = [current EXCEPT ![d] = c]
    /\ \E v \in Decisions : Decides(d, c, v)
    /\ UNCHANGED <<fileVars, childVars, serving, processing, limitVars>>

(* Whoever was asked answers; an escalation that throws is a denial. *)
Answer(d) ==
    /\ ThreadIsFree
    /\ DrainMoves(d, "asking", "responding")
    /\ \E v \in Decisions : Decides(d, current[d], v)
    /\ UNCHANGED <<fileVars, childVars, serving, processing, todo, current, limitVars>>

(* What processSingleForwardedRequest() knew is gone when it returns. *)
Returns(d) ==
    /\ current' = [current EXCEPT ![d] = Nobody]
    /\ verdict' = [verdict EXCEPT ![d] = "none"]

(* recordForwardedDecision(): write the response, ... *)
Respond(d) ==
    /\ responsesDir
    /\ DrainMoves(d, "responding", "deleting")
    /\ responses' = [responses EXCEPT ![current[d]] = verdict[d]]
    /\ UNCHANGED <<requestsDir, responsesDir, requests, childVars, serving, processing,
                   todo, current, verdict, decided, limitVars>>

(* ... or fail to and leave the request for the next tick, ... *)
RespondFails(d) ==
    /\ IF responsesDir THEN Mishap ELSE UNCHANGED limitVars
    /\ DrainMoves(d, "responding", "scanning")
    /\ Returns(d)
    /\ UNCHANGED <<fileVars, childVars, serving, processing, todo, decided>>

(* ... and delete the request. *)
DeleteRequest(d) ==
    /\ DrainMoves(d, "deleting", "scanning")
    /\ requests' = Without(current[d])
    /\ Returns(d)
    /\ UNCHANGED <<requestsDir, responsesDir, responses, childVars, serving, processing,
                   todo, decided, limitVars>>

(* Every listed file was looked at: clean up as the children do, ... *)
DrainCleansRequests(d) ==
    /\ drain[d] = "scanning" /\ todo[d] = {}
    /\ IF RequestsGone
       THEN /\ DrainMoves(d, "scanning", "cleanResponses")
            /\ requestsDir' = FALSE /\ UNCHANGED processing
       ELSE /\ DrainMoves(d, "scanning", "idle")
            /\ processing' = FALSE /\ UNCHANGED requestsDir
    /\ UNCHANGED <<responsesDir, requests, responses, childVars, serving,
                   todo, current, verdict, decided, limitVars>>

(* ... and end; the finally() callback resets `processing'. *)
DrainCleansResponses(d) ==
    /\ DrainMoves(d, "cleanResponses", "idle")
    /\ RemoveResponses
    /\ processing' = FALSE
    /\ UNCHANGED <<requestsDir, requests, responses, childVars, serving,
                   todo, current, verdict, decided, limitVars>>

(* A call to delete a file or a directory fails, and the drain goes on.    *)
DrainCleanupFails(d) ==
    /\ \/ /\ DrainMoves(d, "scanning", "scanning")
          /\ \E c \in todo[d] : ~Readable(c) /\ todo' = [todo EXCEPT ![d] = @ \ {c}]
          /\ UNCHANGED <<processing, current, verdict>>
       \/ /\ DrainMoves(d, "deleting", "scanning")
          /\ Returns(d) /\ UNCHANGED <<processing, todo>>
       \/ /\ drain[d] \in {"scanning", "cleanResponses"} /\ todo[d] = {}
          /\ drain' = [drain EXCEPT ![d] = "idle"] /\ processing' = FALSE
          /\ UNCHANGED <<todo, current, verdict>>
    /\ Mishap
    /\ UNCHANGED <<fileVars, childVars, serving, decided>>

-----------------------------------------------------------------------------
(* What a child does of itself, given time. *)
ChildStep(c) ==
    \/ MakeResponses(c) \/ WriteRequest(c) \/ WriteRequestFails(c) \/ ReceiveResponse(c)
    \/ DropResponse(c) \/ DropRequest(c) \/ CleanRequests(c) \/ CleanResponses(c)
    \/ CleanupFails(c)

(* What a drain does of itself, once begun. *)
DrainStep(d) ==
    \/ EnsureResponses(d) \/ EnsureFails(d)
    \/ \E c \in Children :
        SkipFile(d, c) \/ ReadFails(d, c) \/ AskFor(d, c) \/ RuleDecides(d, c)
    \/ Respond(d) \/ RespondFails(d) \/ DeleteRequest(d)
    \/ DrainCleansRequests(d) \/ DrainCleansResponses(d) \/ DrainCleanupFails(d)

Next ==
    \/ \E c \in Children : 
        MakeRequests(c) \/ MakeFails(c) \/ ChildStep(c) \/ GiveUp(c) \/ ChildDies(c)
    \/ \E d \in Drains : Scan(d) \/ DrainStep(d) \/ Answer(d)
    \/ Start \/ Stop \/ ParentDies

Spec == Init /\ [][Next]_vars

(***************************************************************************)
(* Processes that live go on, timers fire and whoever is asked answers in  *)
(* the end.  No fairness for giving up: a child must not need it.          *)
(***************************************************************************)
Fairness ==
    /\ \A c \in Children : WF_vars(ChildStep(c))
    /\ \A d \in Drains : WF_vars(DrainStep(d)) /\ WF_vars(Answer(d))
    /\ WF_vars(\E d \in Drains : Scan(d))

FairSpec == Spec /\ Fairness

-----------------------------------------------------------------------------
(* Every variable has its type; an escalation resolves to something, and   *)
(* not before it ends.                                                     *)
TypeOK ==
    /\ requestsDir \in BOOLEAN /\ responsesDir \in BOOLEAN
    /\ requests \subseteq RequestFiles
    /\ responses \in [Children -> Decisions \union {"none"}]
    /\ step \in [Children -> ChildSteps]
    /\ outcome \in [Children -> Decisions \union {"none", "abandoned"}]
    /\ serving \in BOOLEAN /\ processing \in BOOLEAN
    /\ drain \in [Drains -> DrainSteps]
    /\ todo \in [Drains -> SUBSET Children]
    /\ current \in [Drains -> Children \union {Nobody}]
    /\ verdict \in [Drains -> Decisions \union {"none"}]
    /\ decided \in [Children -> SUBSET Decisions]
    /\ spoiled \subseteq Children /\ mishaps \in 0 .. MaxMishaps
    /\ \A c \in Children :
        /\ Undecided(c) => outcome[c] = "none"
        /\ ~Undecided(c) /\ step[c] # "dead" => outcome[c] # "none"

(* What a child acts on is a decision the parent made for its request: no  *)
(* failed call, death, stop or second drain turns into a consent, and no   *)
(* answer reaches another child.                                           *)
OutcomeWasDecided ==
    \A c \in Children : outcome[c] \in Decisions => outcome[c] \in decided[c]

(* The parent asks about a request only while its child still wants to     *)
(* know: a child that gave up has taken its request away before its        *)
(* escalation resolves, and listing it earlier is not enough to ask.  Only *)
(* the failure of that one call leaves a request to be asked about.        *)
AbandonmentIsFinal ==
    [][\A d \in Drains :
        drain[d] = "scanning" /\ drain'[d] \in {"asking", "responding"} =>
            \/ step[current'[d]] \notin {"cleanRequests", "cleanResponses", "done"}
            \/ current'[d] \in spoiled]_vars

(* What a request has come to, read off the files and the children.        *)
Phase(c) ==
    IF step[c] \in {"idle", "makeResponses", "writeRequest"} THEN "unasked"
    ELSE IF \E r \in requests : r.id = c THEN "open"
    ELSE "closed"

(* The escalation returns only after the child has cleaned up behind it. *)
Result(c) == IF step[c] = "done" THEN outcome[c] ELSE "none"

Contract == INSTANCE ForwardedDecision WITH
    Requests <- Children,
    phase <- [c \in Children |-> Phase(c)],
    considered <- {current[d] : d \in {e \in Drains : drain[e] = "asking"}},
    result <- [c \in Children |-> Result(c)],
    mislaid <- spoiled

(* Files that come and go, drains that overlap, deaths and failed calls    *)
(* never show: each request is asked once, is considered only while its    *)
(* child wants to know, and returns once, with a decision that was made on *)
(* it or with none (escalate() and processInbox(), over forwarding-io.ts). *)
KeepsContract == Contract!Spec

(* A child that is done leaves no request for anybody to answer. *)
NoRequestLeftBehind ==
    \A c \in Children : step[c] = "done" /\ c \notin spoiled => requests = Without(c)

(* A waiting child is answered while the parent serves, however often      *)
(* cleanups of other children take the directories away and whatever other *)
(* call fails; the one exception is a failure to read its own request.     *)
AnsweredWhileServed ==
    \A c \in Children :
        step[c] = "waiting" /\ Readable(c) ~>
            step[c] # "waiting" \/ ~serving \/ c \in spoiled

(* When every child is done nothing stays behind but the answers that came *)
(* too late: whatever order the cleanups of children and parent came in,   *)
(* the last of them removes the directories.                               *)
DirectoriesDisappear ==
    (\A c \in Children : step[c] = "done") /\ mishaps = 0
        ~> \/ ~requestsDir /\ ~responsesDir
           \/ \E c \in Children : responses[c] # "none"
           \/ mishaps > 0

-----------------------------------------------------------------------------
(* The plan of the repair of issue 398: while a request is pending, its    *)
(* response directory survives.                                            *)
PendingKeepsResponses == requests # {} => responsesDir

=============================================================================
