---------------------------- MODULE PermissionGates ----------------------------
(***************************************************************************)
(* How one session of pi-permission-system decides the tool calls of its   *)
(* own agent and the requests its children forward to it.                  *)
(*                                                                         *)
(* A tool call is turned into a sequence of gates, each checked against    *)
(* the policy and the session's own grants.  The runner takes them in      *)
(* turn: a deny blocks, an allow passes, an ask is escalated to a chain of *)
(* links and then to the terminal selected for the session: the local      *)
(* dialog, the parent session, or nobody.  A forwarded request is one gate *)
(* decided by the same authorities.  Local dialogs share the one inline    *)
(* slot of the host, so they wait in line; a shutdown releases whoever     *)
(* waits and starts a new line behind a dialog that may still be mounted.  *)
(*                                                                         *)
(* What the policy says of an access is a free choice: the rules, the      *)
(* patterns and the parsing of commands are data here.                     *)
(***************************************************************************)
EXTENDS Integers, Sequences

CONSTANTS
    Calls,          \* tool calls
    Requests,       \* forwarded requests served here
    Targets,        \* what an approval pattern names
    CallShapes,     \* the parts of a call: a producer and the accesses it sees
    RequestShapes,  \* the accesses a forwarded request may ask for together
    MaxLinks,       \* links configured in authorizerChain
    MaxSessions     \* bound on the sessions one extension instance lives through

Asking == Calls \cup Requests

(* The families of the policy: "path" is read and write together, bash and *)
(* skill are families of their own.  external_directory is as path.        *)
Surfaces == {"path", "path_read", "path_write", "bash", "skill"}
FamilyOf(s) == IF s \in {"path_read", "path_write"} THEN "path" ELSE s
Members(s) == IF s = "path" THEN {"path_read", "path_write"} ELSE {s}

Accesses == Surfaces \X Targets

(* What SessionRules can hold: an approval is expanded onto the members.   *)
Rules == (Surfaces \ {"path"}) \X Targets

Producers == {"skill", "path", "external", "bash_external", "bash_path", "tool"}
States == {"allow", "ask", "deny"}
Gates == [surface : Surfaces \cup {"unknown"}, check : States, grants : SUBSET Accesses]

ASSUME CallsAssumption == Calls \cap Requests = {}
ASSUME ShapesAssumption ==
    /\ CallShapes \subseteq Seq([by : Producers, on : SUBSET Accesses]) \ {<<>>}
    /\ RequestShapes \subseteq SUBSET Accesses
ASSUME BoundsAssumption == MaxLinks \in Nat /\ MaxSessions \in Nat \ {0}

VARIABLES
    hasUI,      \* ctx.hasUI
    authority,  \* AuthorizerSelection.authority; "none" when deactivated
    yolo,       \* the yolo mode of the configuration
    rules,      \* SessionRules.rules
    at,         \* where each call or request is
    gates,      \* the gates produced for it
    decided,    \* who decided the gates it has passed
    hops,       \* links its ask has still to consult
    terminal,   \* the terminal its ask was composed with
    tail,       \* which AskDialogQueue.tail is current
    line,       \* per tail, the asks chained on it and not finished with
    shown,      \* per tail, whether the presentation of its first ask is pending
    slot,       \* the tail whose first ask is mounted in the host's slot, 0 if none
    granted     \* history: what the humans granted for this session, and how widely

callVars == <<at, gates, decided, hops, terminal>>
dialogVars == <<tail, line, shown, slot>>
grantVars == <<rules, granted>>
sessionVars == <<hasUI, authority, yolo>>
vars == <<sessionVars, grantVars, callVars, dialogVars>>

Tails == 1 .. MaxSessions
Widths == {"proven", "family"}
Deciders == {"policy", "yolo", "link", "human", "relay"}
Pending == {"link", "queued", "relayed"}

(* The authorities selectAuthorizer() can pick. *)
Selectable == IF hasUI THEN {"local", "relay"} ELSE {"relay", "deny"}

Init ==
    /\ hasUI \in BOOLEAN
    /\ authority = "none"
    /\ yolo \in BOOLEAN
    /\ rules = {} /\ granted = {}
    /\ at = [x \in Asking |-> "idle"]
    /\ gates = [x \in Asking |-> <<>>]
    /\ decided = [x \in Asking |-> <<>>]
    /\ hops = [x \in Asking |-> 0]
    /\ terminal = [x \in Asking |-> "none"]
    /\ tail = 1
    /\ line = [t \in Tails |-> <<>>]
    /\ shown = [t \in Tails |-> FALSE]
    /\ slot = 0
--------------------------------------------------------------------------------
(***************************************************************************)
(* The session.                                                            *)
(***************************************************************************)

(* session_start, and every turn event: the authority is selected anew. *)
Activate ==
    /\ authority' \in Selectable
    /\ UNCHANGED <<hasUI, yolo, grantVars, callVars, dialogVars>>

SetYolo ==
    /\ yolo' = ~yolo
    /\ UNCHANGED <<hasUI, authority, grantVars, callVars, dialogVars>>

(* Mutant of Released: nobody is. *)
NobodyReleased == {}

(* The asks releaseAll() settles: every ask still owed an answer. *)
Released == {x \in Asking : at[x] = "queued"}

(* Mutant of NextTail: the tail is kept. *)
SameTail == tail

NextTail == tail + 1

(***************************************************************************)
(* handleSessionShutdown(): release the asks, clear the rules, deactivate. *)
(* The host may keep the dialog that was mounted, or take it down.         *)
(***************************************************************************)
Shutdown ==
    /\ authority # "none"
    /\ tail < MaxSessions
    /\ at' = [x \in Asking |-> IF x \in Released THEN "blocked" ELSE at[x]]
    /\ tail' = NextTail
    /\ slot' \in {slot, 0}
    /\ rules' = {} /\ granted' = {}
    /\ authority' = "none"
    /\ UNCHANGED <<hasUI, yolo, gates, decided, hops, terminal, line, shown>>
--------------------------------------------------------------------------------
(***************************************************************************)
(* The gates of a call.                                                    *)
(***************************************************************************)

(* The session's grants cover an access: a bare family needs both members. *)
Covered(a) == \A s \in Members(a[1]) : <<s, a[2]>> \in rules

(***************************************************************************)
(* What PermissionResolver.resolve() can say of an access.  Yolo rewrites  *)
(* the ask rules; the ask of a command that could not be parsed, or of a   *)
(* skill entry, is out of its reach: it is made after it, or before it.    *)
(***************************************************************************)
Verdicts(a) ==
    IF Covered(a) THEN {"allow"}
    ELSE IF yolo /\ FamilyOf(a[1]) = "path" THEN {"allow", "deny"}
    ELSE States

Stopping(a, verdict, grants) == [surface |-> a[1], check |-> verdict, grants |-> grants]

(* A producer that returns null or a bypass: nothing stops the call there. *)
NoGate == Stopping(<<"unknown">>, "allow", {})

(* The path and the external directory of a tool, and the tool itself: one *)
(* access, and the approval of it.  A path no rule names is unrestricted.  *)
DescribePathGate(a) == {NoGate} \cup {Stopping(a, v, {a}) : v \in Verdicts(a) \ {"allow"}}
DescribeExternalDirectoryGate(a) == {NoGate} \cup {Stopping(a, v, {a}) : v \in Verdicts(a)}
DescribeToolGate(a) == {Stopping(a, v, {a}) : v \in Verdicts(a)}

(* The skill a read file belongs to carries no approval. *)
DescribeSkillReadGate(a) == {NoGate} \cup {Stopping(a, v, {}) : v \in Verdicts(a)}

(***************************************************************************)
(* selectUncoveredExternalPaths(): what the policy may leave uncovered of  *)
(* the accesses of one command, each with its verdict.                     *)
(***************************************************************************)
Uncovered(accesses) ==
    {[a \in {b \in accesses : v[b] # "allow"} |-> v[a]] :
        v \in {f \in [accesses -> States] : \A a \in accesses : f[a] \in Verdicts(a)}}

(* pickMostRestrictive(): which of them comes first is left open. *)
MostRestrictive(checks) ==
    {a \in DOMAIN checks : checks[a] = "deny" \/ \A b \in DOMAIN checks : checks[b] # "deny"}

(* The external paths of a command: approving grants every uncovered one, *)
(* each in its own direction.                                              *)
DescribeBashExternalDirectoryGate(accesses) ==
    UNION {IF checks = <<>> THEN {NoGate}
           ELSE {Stopping(a, checks[a], DOMAIN checks) : a \in MostRestrictive(checks)} :
             checks \in Uncovered(accesses)}

(* Its path tokens: approving grants the worst one alone. *)
DescribeBashPathGate(accesses) ==
    UNION {IF checks = <<>> THEN {NoGate}
           ELSE {Stopping(a, checks[a], {a}) : a \in MostRestrictive(checks)} :
             checks \in Uncovered(accesses)}

(* What one producer can make of its part of a call. *)
GatesOf(part) ==
    CASE part.by = "bash_external" -> DescribeBashExternalDirectoryGate(part.on)
      [] part.by = "bash_path" -> DescribeBashPathGate(part.on)
      [] part.by = "path" -> UNION {DescribePathGate(a) : a \in part.on}
      [] part.by = "external" -> UNION {DescribeExternalDirectoryGate(a) : a \in part.on}
      [] part.by = "skill" -> UNION {DescribeSkillReadGate(a) : a \in part.on}
      [] part.by = "tool" -> UNION {DescribeToolGate(a) : a \in part.on}

Denies(gate) == gate.check = "deny"

(* Mutant of DenyFirst: the gates run in the order they were produced. *)
AsProduced(gs) == gs

(***************************************************************************)
(* orderDenyFirst(): the first gate that denies runs first, and ends the   *)
(* call there, so the gates behind it are left out.                        *)
(***************************************************************************)
DenyFirst(gs) ==
    IF \E i \in DOMAIN gs : Denies(gs[i])
    THEN <<gs[CHOOSE i \in DOMAIN gs : Denies(gs[i]) /\ \A j \in 1 .. i - 1 : ~Denies(gs[j])]>>
    ELSE gs

(* handleToolCall(): the session is activated, the command parsed. *)
BeginCall(c) ==
    /\ authority # "none"
    /\ at[c] = "idle"
    /\ at' = [at EXCEPT ![c] = "parsing"]
    /\ authority' \in Selectable
    /\ UNCHANGED <<hasUI, yolo, grantVars, gates, decided, hops, terminal, dialogVars>>

(* evaluate(): every gate is produced before the first one runs. *)
ProduceGates(c) ==
    /\ at[c] = "parsing"
    /\ \E shape \in CallShapes :
       \E gs \in [1 .. Len(shape) -> UNION {GatesOf(shape[i]) : i \in 1 .. Len(shape)}] :
          /\ \A i \in 1 .. Len(shape) : gs[i] \in GatesOf(shape[i])
          /\ gates' = [gates EXCEPT ![c] = DenyFirst(gs)]
    /\ at' = [at EXCEPT ![c] = "running"]
    /\ UNCHANGED <<sessionVars, grantVars, decided, hops, terminal, dialogVars>>

(* Mutant of OnThrow: a thrown gate lets the call run. *)
FailOpen == "allowed"

(* What a throw comes to at the boundary, and in escalateAsk(). *)
OnThrow == "blocked"

(* A producer or the parser throws. *)
ProducerThrows(c) ==
    /\ at[c] = "parsing"
    /\ at' = [at EXCEPT ![c] = OnThrow]
    /\ UNCHANGED <<sessionVars, grantVars, gates, decided, hops, terminal, dialogVars>>

(***************************************************************************)
(* A request is one gate, of the access it names; the grants are its       *)
(* child's.  Without an access intent it is always an ask.                 *)
(***************************************************************************)
RequestGates(accesses) ==
    LET Verdict(a) == {v \in Verdicts(a) : yolo => v # "ask"}
    IN  {Stopping(<<"unknown">>, "ask", {})} \cup
        UNION {UNION {{Stopping(a, v, grants) : v \in Verdict(a)} : grants \in {{}, {a}, accesses}} : a \in accesses}

(* processInbox(), up to the decision. *)
ServeRequest(r) ==
    /\ hasUI /\ authority # "none"
    /\ at[r] = "idle"
    /\ \E accesses \in RequestShapes : \E gate \in RequestGates(accesses) : gates' = [gates EXCEPT ![r] = <<gate>>]
    /\ at' = [at EXCEPT ![r] = "running"]
    /\ UNCHANGED <<sessionVars, grantVars, decided, hops, terminal, dialogVars>>
--------------------------------------------------------------------------------
(***************************************************************************)
(* The runner.                                                             *)
(***************************************************************************)
Position(x) == Len(decided[x]) + 1
Current(x) == gates[x][Position(x)]

(* The gate x is at lets it on: `by' is the decision's decidedBy. *)
Pass(x, by) ==
    /\ decided' = [decided EXCEPT ![x] = Append(@, by)]
    /\ at' = [at EXCEPT ![x] = "running"]

(* LocalUserAuthorizer queues a dialog, ParentAuthorizer forwards, the     *)
(* DenyingAuthorizer denies.                                               *)
Consult(x, authorizer) ==
    \/ /\ authorizer = "local"
       /\ at' = [at EXCEPT ![x] = "queued"]
       /\ line' = [line EXCEPT ![tail] = Append(@, x)]
    \/ /\ authorizer = "relay"
       /\ at' = [at EXCEPT ![x] = "relayed"]
       /\ UNCHANGED line
    \/ /\ authorizer = "deny"
       /\ at' = [at EXCEPT ![x] = "blocked"]
       /\ UNCHANGED line

(* escalate(): the links of this ask, none on a node that relays, ahead of *)
(* the terminal.  It rejects when nothing is selected.                     *)
Escalate(x) ==
    \/ /\ authority = "none"
       /\ at' = [at EXCEPT ![x] = OnThrow]
       /\ UNCHANGED <<hops, terminal, line>>
    \/ /\ authority # "none"
       /\ Consult(x, authority)
       /\ UNCHANGED <<hops, terminal>>
    \/ /\ authority \in {"local", "deny"}
       /\ \E n \in 1 .. MaxLinks : hops' = [hops EXCEPT ![x] = n]
       /\ terminal' = [terminal EXCEPT ![x] = authority]
       /\ at' = [at EXCEPT ![x] = "link"]
       /\ UNCHANGED line

(* The current gate allows, or yolo answers the ask of a call. *)
GateAllows(x) ==
    /\ at[x] = "running" /\ Position(x) <= Len(gates[x])
    /\ \/ Current(x).check = "allow" /\ Pass(x, "policy")
       \/ Current(x).check = "ask" /\ yolo /\ x \in Calls /\ Pass(x, "yolo")
    /\ UNCHANGED <<sessionVars, grantVars, gates, hops, terminal, dialogVars>>

GateDenies(x) ==
    /\ at[x] = "running" /\ Position(x) <= Len(gates[x])
    /\ Current(x).check = "deny"
    /\ at' = [at EXCEPT ![x] = "blocked"]
    /\ UNCHANGED <<sessionVars, grantVars, gates, decided, hops, terminal, dialogVars>>

GateAsks(x) ==
    /\ at[x] = "running" /\ Position(x) <= Len(gates[x])
    /\ Current(x).check = "ask" /\ (x \in Calls => ~yolo)
    /\ Escalate(x)
    /\ UNCHANGED <<sessionVars, grantVars, gates, decided, tail, shown, slot>>

(* Every gate is passed: the call runs, the request is answered. *)
RunsOut(x) ==
    /\ at[x] = "running" /\ Position(x) > Len(gates[x])
    /\ at' = [at EXCEPT ![x] = "allowed"]
    /\ UNCHANGED <<sessionVars, grantVars, gates, decided, hops, terminal, dialogVars>>
--------------------------------------------------------------------------------
(***************************************************************************)
(* The authorities.                                                        *)
(***************************************************************************)

(* The delegation envelope: a link never allows what touches a path, or an *)
(* access it cannot name.                                                  *)
LinkMayAllow(gate) == gate.surface \notin {"path", "path_read", "path_write", "unknown"}

LinkAllows(x) ==
    /\ at[x] = "link"
    /\ LinkMayAllow(Current(x))
    /\ Pass(x, "link")
    /\ UNCHANGED <<sessionVars, grantVars, gates, hops, terminal, dialogVars>>

(* A link denies, or throws. *)
LinkRefuses(x) ==
    /\ at[x] = "link"
    /\ at' = [at EXCEPT ![x] = "blocked"]
    /\ UNCHANGED <<sessionVars, grantVars, gates, decided, hops, terminal, dialogVars>>

(* A link defers, or its allow is capped: the next link, then the terminal. *)
LinkDefers(x) ==
    /\ at[x] = "link"
    /\ hops' = [hops EXCEPT ![x] = @ - 1]
    /\ \/ hops[x] > 1 /\ UNCHANGED <<at, line>>
       \/ hops[x] = 1 /\ Consult(x, terminal[x])
    /\ UNCHANGED <<sessionVars, grantVars, gates, decided, terminal, tail, shown, slot>>

(* The one direction every grant proves: only then is the wider one offered. *)
OneDirection(grants) ==
    \E s \in {"path_read", "path_write"} : grants # {} /\ \A a \in grants : a[1] = s

Offered(grants) == IF OneDirection(grants) THEN Widths ELSE {"proven"}

(* Mutant of AtWidth: every grant is widened. *)
AlwaysWidened(grants, width) == {<<FamilyOf(a[1]), a[2]>> : a \in grants}

AtWidth(grants, width) ==
    IF width = "family" THEN {<<FamilyOf(a[1]), a[2]>> : a \in grants} ELSE grants

(* SessionRules.approve(): a bare family becomes one rule per member. *)
Approve(grants) ==
    {r \in Rules : \E a \in grants : r[1] \in Members(a[1]) /\ r[2] = a[2]}

(* recordSessionApproval(). *)
Record(grants, width) ==
    /\ rules' = rules \cup Approve(AtWidth(grants, width))
    /\ granted' = granted \cup (grants \X {width})

(***************************************************************************)
(* What an approval for the session is recorded as.  A call records it; a  *)
(* request only when the human chose the whole serving session, and leaves *)
(* it to the child otherwise.  Without grants it is an approval for once.  *)
(***************************************************************************)
ApproveWith(x, by, wholeSession) ==
    /\ Pass(x, by)
    /\ \/ UNCHANGED grantVars
       \/ /\ x \in Calls \/ wholeSession
          /\ \E width \in Offered(Current(x).grants) : Record(Current(x).grants, width)

(* A dialog closes: the ask is done with, and the next of its line may come. *)
Unmount(t) ==
    /\ line' = [line EXCEPT ![t] = Tail(@)]
    /\ shown' = [shown EXCEPT ![t] = FALSE]
    /\ slot' = 0

(* The turn of the first ask of a line: it is shown, in the host's one     *)
(* slot, or dropped if it was released while it waited.                    *)
TakeTurn(t) ==
    /\ line[t] # <<>> /\ ~shown[t]
    /\ \/ /\ at[Head(line[t])] = "queued"
          /\ shown' = [shown EXCEPT ![t] = TRUE]
          /\ slot' = t
          /\ UNCHANGED line
       \/ /\ at[Head(line[t])] # "queued"
          /\ line' = [line EXCEPT ![t] = Tail(@)]
          /\ UNCHANGED <<shown, slot>>
    /\ UNCHANGED <<sessionVars, grantVars, callVars, tail>>

(* The human answers the dialog that is mounted; of an ask that was        *)
(* released the answer is discarded.                                       *)
HumanApproves ==
    /\ slot # 0
    /\ at[Head(line[slot])] = "queued"
    /\ ApproveWith(Head(line[slot]), "human", TRUE)
    /\ Unmount(slot)
    /\ UNCHANGED <<sessionVars, gates, hops, terminal, tail>>

(* The human says no, or the presentation rejects. *)
HumanRefuses ==
    /\ slot # 0
    /\ at[Head(line[slot])] = "queued"
    /\ at' = [at EXCEPT ![Head(line[slot])] = "blocked"]
    /\ Unmount(slot)
    /\ UNCHANGED <<sessionVars, grantVars, gates, decided, hops, terminal, tail>>

LateAnswer ==
    /\ slot # 0
    /\ at[Head(line[slot])] # "queued"
    /\ Unmount(slot)
    /\ UNCHANGED <<sessionVars, grantVars, callVars, tail>>

(* The parent session answers: its grant for its own session reaches here  *)
(* as a plain approval.                                                    *)
RelayApproves(x) ==
    /\ at[x] = "relayed"
    /\ ApproveWith(x, "relay", FALSE)
    /\ UNCHANGED <<sessionVars, gates, hops, terminal, dialogVars>>

(* It denies, or the request is abandoned. *)
RelayRefuses(x) ==
    /\ at[x] = "relayed"
    /\ at' = [at EXCEPT ![x] = "blocked"]
    /\ UNCHANGED <<sessionVars, grantVars, gates, decided, hops, terminal, dialogVars>>
--------------------------------------------------------------------------------
LinkRules(x) == LinkAllows(x) \/ LinkRefuses(x) \/ LinkDefers(x)
RelayAnswers(x) == RelayApproves(x) \/ RelayRefuses(x)
HumanAnswers == HumanApproves \/ HumanRefuses \/ LateAnswer
RunGate(x) == GateAllows(x) \/ GateDenies(x) \/ GateAsks(x) \/ RunsOut(x)
Produces(c) == ProduceGates(c) \/ ProducerThrows(c)

Next ==
    \/ Activate
    \/ SetYolo
    \/ Shutdown
    \/ \E c \in Calls : BeginCall(c) \/ Produces(c)
    \/ \E r \in Requests : ServeRequest(r)
    \/ \E x \in Asking : RunGate(x) \/ LinkRules(x) \/ RelayAnswers(x)
    \/ \E t \in Tails : TakeTurn(t)
    \/ HumanAnswers

(***************************************************************************)
(* What is started is run by the event loop; a producer, a link, and the   *)
(* parent (or the timeout of the wait for it) answer; the human answers    *)
(* the dialog in front of them.  Nothing else is promised.                 *)
(***************************************************************************)
Fairness ==
    /\ \A c \in Calls : WF_vars(Produces(c))
    /\ \A x \in Asking : /\ WF_vars(RunGate(x))
                         /\ WF_vars(LinkRules(x))
                         /\ WF_vars(RelayAnswers(x))
    /\ \A t \in Tails : WF_vars(TakeTurn(t))
    /\ WF_vars(HumanAnswers)

Spec == Init /\ [][Next]_vars /\ Fairness
--------------------------------------------------------------------------------
TypeOK ==
    /\ hasUI \in BOOLEAN /\ yolo \in BOOLEAN
    /\ authority \in {"none", "local", "relay", "deny"}
    /\ rules \subseteq Rules
    /\ granted \subseteq Accesses \X Widths
    /\ at \in [Asking -> Pending \cup {"idle", "parsing", "running", "allowed", "blocked"}]
    /\ gates \in [Asking -> Seq(Gates)]
    /\ decided \in [Asking -> Seq(Deciders)]
    /\ hops \in [Asking -> 0 .. MaxLinks]
    /\ terminal \in [Asking -> {"none", "local", "deny"}]
    /\ tail \in Tails
    /\ line \in [Tails -> Seq(Asking)]
    /\ shown \in [Tails -> BOOLEAN]
    /\ slot \in Tails \cup {0}

(***************************************************************************)
(* A call that runs, and a request that is approved, had every one of its  *)
(* gates decided: no gate denied it, every ask was answered by yolo, a     *)
(* human, the parent or a link, and by a link only on a surface where the  *)
(* envelope lets one allow.  A throw, a refusal, a release or a shutdown   *)
(* on the way never ends there.                                            *)
(***************************************************************************)
AllowedIsAuthorised ==
    \A x \in Asking : at[x] = "allowed" =>
        /\ Len(gates[x]) > 0 /\ Len(decided[x]) = Len(gates[x])
        /\ \A i \in DOMAIN gates[x] :
              /\ gates[x][i].check # "deny"
              /\ gates[x][i].check = "ask" => decided[x][i] # "policy"
              /\ decided[x][i] = "link" =>
                    gates[x][i].surface \notin {"path", "path_read", "path_write", "unknown"}

(***************************************************************************)
(* Nobody is asked about what the policy refuses anyway: while the ask of  *)
(* a gate is pending, none of the gates of that call denies, whichever     *)
(* order they were produced in.                                            *)
(***************************************************************************)
NoQuestionForDenied ==
    \A x \in Asking : at[x] \in Pending => \A i \in DOMAIN gates[x] : ~Denies(gates[x][i])

(***************************************************************************)
(* No dialog of this session is mounted over another: a presented ask that *)
(* is still owed an answer is the one the host shows, through releases,    *)
(* late answers and the sessions that follow.                              *)
(***************************************************************************)
OneDialog ==
    \A t \in Tails : shown[t] /\ line[t] # <<>> /\ at[Head(line[t])] = "queued" => slot = t

(***************************************************************************)
(* The rules of a session are what was granted in it, on the surface and   *)
(* the target of the grant, and nothing else: both directions when both    *)
(* were proven or the human chose the whole family, otherwise the one the  *)
(* grant names.  They last until the session ends, and no longer.          *)
(***************************************************************************)
RulesAreTheGrants ==
    \A r \in Rules :
        r \in rules <=>
            \E g \in granted :
                /\ r[2] = g[1][2]
                /\ \/ r[1] = g[1][1]
                   \/ /\ FamilyOf(r[1]) = FamilyOf(g[1][1])
                      /\ g[1][1] = "path" \/ g[2] = "family"

(***************************************************************************)
(* Whoever asks is answered: a call ends allowed or blocked, and so does a *)
(* request, also when the session ends under a dialog nobody answers.      *)
(***************************************************************************)
EveryAskAnswered ==
    \A x \in Asking : at[x] # "idle" ~> at[x] \in {"allowed", "blocked"}
================================================================================
