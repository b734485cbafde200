---------------------------- MODULE PolicySurface ----------------------------
(***************************************************************************)
(* The permission policy of one session while the files it comes from are  *)
(* edited by others, and the tools the agent may see because of it:        *)
(* packages/pi-permission-system/src/policy/permission-manager.ts,         *)
(* config/policy-loader.ts, exposure/tool-surface-baseline.ts, and the     *)
(* handlers of session_start, resources_discover and before_agent_start.   *)
(*                                                                         *)
(* Each answer starts with a look at the modification times of the files.  *)
(* The process does so on one thread, but the files are edited by others   *)
(* between any two of its calls to the file system, so that every call is  *)
(* an action.  Every edit gives a file a modification time it never had.   *)
(***************************************************************************)
EXTENDS PermissionPolicy

CONSTANTS
    Tools,      \* the tools that may be registered
    Values,     \* what may be asked of a tool
    Texts,      \* what may be written in a file of the policy
    Patterns,   \* the patterns that are written there, and "*"
    Permission, \* [Texts -> permission objects]
    Rejected,   \* the texts the loader finds invalid: a configuration that is not
                \* valid, or an agent's file that is there but cannot be read
    Original,   \* [Scopes -> Texts \cup {"absent"}]: the files at first
    Editable,   \* the scopes whose files others edit
    MaxEdits    \* bound: how often they do

(* From the lowest to the highest, which is also the order of the loading. *)
LoadOrder == <<"global", "project", "agent", "project-agent">>
Scopes == Range(LoadOrder)

Entries ==
    [surface : STRING, whole : BOOLEAN, rules : Seq([pattern : Patterns, action : Actions])]

ASSUME TextsAssumption ==
    /\ Permission \in [Texts -> Seq(Entries)] /\ Anything \in Patterns
    /\ Rejected \subseteq Texts
    /\ Texts \cap {"absent", "unreadable"} = {}
    /\ Original \in [Scopes -> Texts \cup {"absent"}]
    /\ Editable \subseteq Scopes
    /\ MaxEdits \in Nat \ {0}

(* Mutant of StampOrder: the agent's file is left out of the stamp. *)
StampsWithoutAgent == <<"project", "project-agent", "global">>

(* getCacheStamp() looks at the files in an order of its own. *)
StampOrder == <<"agent", "project", "project-agent", "global">>

(* Whose policy is asked for: the main agent's or that of a definition. *)
Keys == {"__global__", "scout"}

(* The scopes that are frontmatter of agent definitions, read another way. *)
AgentScopes == {"agent", "project-agent"}

Missing == 0            \* the stamp of a file that is not there
NoText == [stamp |-> -1]        \* no cached file
NoPolicy == [stamp |-> <<>>]    \* no cached policy

VARIABLES
    disk, stamp, edits, \* the files, their modification times, the edits so far
    trusted,            \* whether the operator trusts the project now
    hasProject,         \* whether the loader was given the project's directory
    fileCache,          \* per scope: what the loader read, and under which stamp
    resolved,           \* per key: the resolved policy, and under which stamps
    query,              \* resolvePermissions() in progress
    turn,               \* before_agent_start in progress
    knownAgent,         \* the agent name the session knows
    registered, active, \* Pi's tools
    baseline, withheld  \* the ToolSurfaceBaseline

(* What the properties remember: the contents each file had since the      *)
(* query began, the files it found missing and then read, the tools others *)
(* want active, and whether nothing was changed since the turn began.      *)
VARIABLES seen, phantom, intended, calm

diskVars == <<disk, stamp, edits>>
cacheVars == <<fileCache, resolved, phantom>>
toolVars == <<registered, active, intended>>
turnVars == <<turn, knownAgent, baseline, withheld>>
vars == <<diskVars, trusted, hasProject, cacheVars, query, seen, toolVars, turnVars, calm>>

-----------------------------------------------------------------------------
(***************************************************************************)
(* What the loaded texts say.                                              *)
(***************************************************************************)

(* The permission object a scope contributes; an invalid one has none. *)
ScopePermission(text) ==
    IF text \in Texts \ Rejected THEN Permission[text] ELSE <<>>

Invalid(text) == text \in Rejected \cup {"unreadable"}

(* The global scope is not among them: nothing is inherited when it fails. *)
FailClosedScopes(texts) == {s \in Scopes \ {"global"} : Invalid(texts[s])}

(* Mutant of ComposedRules: an invalid scope just drops out. *)
ComposedOpen(texts) ==
    Compose(MergeScopes([i \in DOMAIN LoadOrder |-> ScopePermission(texts[LoadOrder[i]])]))

(* resolvePermissions(): merge, compose, and floor if a scope is invalid.  *)
(* Left out is what PermissionManager.check() does with the rules it gets  *)
(* for a call: it appends the session's rules and lets yolo turn an ask    *)
(* into an allow, both after the floor.                                    *)
ComposedRules(texts) ==
    LET merged == MergeScopes([i \in DOMAIN LoadOrder |-> ScopePermission(texts[LoadOrder[i]])]) IN
    IF FailClosedScopes(texts) # {} THEN FloorAllowsToAsk(Compose(merged)) ELSE Compose(merged)

(* The scopes whose files are looked at for a key. *)
Consulted(key) ==
    {"global"}
    \cup (IF hasProject THEN {"project"} ELSE {})
    \cup (IF key = "scout" THEN {"agent"} ELSE {})
    \cup (IF hasProject /\ key = "scout" THEN {"project-agent"} ELSE {})

(* The first in an order of the scopes that are left to be looked at. *)
NextIn(order, todo) ==
    order[CHOOSE i \in DOMAIN order :
            order[i] \in todo /\ \A j \in DOMAIN order : order[j] \in todo => i <= j]

-----------------------------------------------------------------------------
NoQuery == [step |-> "none"]
NoTurn == [step |-> "none"]
NoTexts == [s \in Scopes |-> NoText]
NoPolicies == [k \in Keys |-> NoPolicy]

Init ==
    /\ disk = Original
    /\ stamp = [s \in Scopes |-> IF Original[s] = "absent" THEN Missing ELSE 1]
    /\ edits = 1
    /\ trusted \in BOOLEAN
    /\ hasProject = trusted
    /\ fileCache = NoTexts /\ resolved = NoPolicies
    /\ query = NoQuery
    /\ turn = NoTurn /\ knownAgent = "__global__"
    /\ registered = Tools /\ active \in SUBSET Tools
    /\ baseline = {} /\ withheld = {}
    /\ seen = [s \in Scopes |-> {}] /\ phantom = {}
    /\ intended = active /\ calm = FALSE

(***************************************************************************)
(* Others edit a file, or delete or create it.                             *)
(***************************************************************************)
Edit(s) ==
    /\ edits < MaxEdits
    /\ \E text \in (Texts \cup {"absent"}) \ {disk[s]} :
        /\ disk' = [disk EXCEPT ![s] = text]
        /\ stamp' = [stamp EXCEPT ![s] = IF text = "absent" THEN Missing ELSE edits + 1]
        /\ seen' = [seen EXCEPT ![s] = IF query.step = "none" THEN @ ELSE @ \cup {text}]
    /\ edits' = edits + 1
    /\ calm' = FALSE
    /\ UNCHANGED <<trusted, hasProject, cacheVars, query, toolVars, turnVars>>

(***************************************************************************)
(* resolvePermissions(), call by call.                                     *)
(***************************************************************************)
BeginQuery(key) ==
    /\ query = NoQuery
    /\ query' = [step |-> "stamp", key |-> key, todo |-> Range(StampOrder) \cap Consulted(key),
                 stamps |-> [s \in Scopes |-> Missing], at |-> Missing, texts |-> [s \in Scopes |-> "absent"]]
    /\ seen' = [s \in Scopes |-> {disk[s]}]

(* A tool call, a forwarded request or another extension asks. *)
Ask(key) ==
    /\ turn = NoTurn
    /\ BeginQuery(key)
    /\ UNCHANGED <<diskVars, trusted, hasProject, cacheVars, toolVars, turnVars, calm>>

(* getCacheStamp(): one file; after the last the cached policy may do. *)
TakeStamp ==
    /\ query.step = "stamp"
    /\ LET s == NextIn(StampOrder, query.todo)
           stamps == [query.stamps EXCEPT ![s] = stamp[s]]
           q == [query EXCEPT !.stamps = stamps, !.todo = @ \ {s}] IN
       query' =
         IF q.todo # {} THEN q
         ELSE IF resolved[q.key].stamp = stamps
         THEN [q EXCEPT !.step = "answered", !.texts = resolved[q.key].texts]
         ELSE [q EXCEPT !.step = "stat", !.todo = Consulted(q.key)]
    /\ UNCHANGED <<diskVars, trusted, hasProject, cacheVars, seen, toolVars, turnVars, calm>>

(* A scope is loaded; after the last the result is cached under the stamps *)
(* taken before the first.                                                 *)
Loaded(s, text) ==
    LET q == [query EXCEPT !.step = "stat", !.todo = @ \ {s}, !.texts[s] = text] IN
    /\ phantom' = phantom \cup
        (IF text # "absent" /\ Missing \in {query.stamps[s], fileCache'[s].stamp} THEN {s} ELSE {})
    /\ IF q.todo # {}
       THEN query' = q /\ UNCHANGED resolved
       ELSE /\ query' = [q EXCEPT !.step = "answered"]
            /\ resolved' = [resolved EXCEPT ![q.key] = [stamp |-> q.stamps, texts |-> q.texts]]
    /\ UNCHANGED <<diskVars, trusted, hasProject, seen, toolVars, turnVars, calm>>

Cached(s, at, text) == fileCache' = [fileCache EXCEPT ![s] = [stamp |-> at, text |-> text]]

(* The loader's own look at one file: its cached text may do. *)
Stat ==
    /\ query.step = "stat"
    /\ LET s == NextIn(LoadOrder, query.todo) IN
       \/ /\ fileCache[s].stamp = stamp[s]
          /\ UNCHANGED fileCache
          /\ Loaded(s, fileCache[s].text)
       \/ /\ fileCache[s].stamp # stamp[s]
          /\ s \in AgentScopes /\ stamp[s] = Missing
          /\ Cached(s, Missing, "absent")
          /\ Loaded(s, "absent")
       \/ /\ fileCache[s].stamp # stamp[s]
          /\ s \in AgentScopes => stamp[s] # Missing
          /\ query' = [query EXCEPT !.step = IF s \in AgentScopes THEN "read" ELSE "exists",
                                   !.at = stamp[s]]
          /\ UNCHANGED <<diskVars, trusted, hasProject, cacheVars, seen, toolVars, turnVars, calm>>

(* loadUnifiedConfig(): a file that is not there has no issues. *)
Exists ==
    /\ query.step = "exists"
    /\ LET s == NextIn(LoadOrder, query.todo) IN
       IF disk[s] = "absent"
       THEN Cached(s, query.at, "absent") /\ Loaded(s, "absent")
       ELSE /\ query' = [query EXCEPT !.step = "read"]
            /\ UNCHANGED <<diskVars, trusted, hasProject, cacheVars, seen, toolVars, turnVars, calm>>

(* Reading throws when the file has gone in between. *)
Read ==
    /\ query.step = "read"
    /\ LET s == NextIn(LoadOrder, query.todo)
           text == IF disk[s] = "absent" THEN "unreadable" ELSE disk[s] IN
       Cached(s, query.at, text) /\ Loaded(s, text)

(* The answer is used. *)
Answer ==
    /\ query.step = "answered" /\ turn = NoTurn
    /\ query' = NoQuery
    /\ seen' = [s \in Scopes |-> {}]
    /\ UNCHANGED <<diskVars, trusted, hasProject, cacheVars, toolVars, turnVars, calm>>

(***************************************************************************)
(* before_agent_start.                                                     *)
(***************************************************************************)

(* ToolSurfaceBaseline.rebuild(): what is active, and what only the policy *)
(* took away.                                                              *)
Rebuilt ==
    (baseline \cap (active \cup (withheld \cap registered))) \cup active

(* resolveAgentName(): the last name known, if neither session nor prompt  *)
(* has one.  The tools are observed once, then each is asked about.        *)
BeginTurn ==
    /\ turn = NoTurn /\ query = NoQuery
    /\ \E named \in BOOLEAN : knownAgent' = IF named THEN "scout" ELSE knownAgent
    /\ turn' = [step |-> "asking", todo |-> Rebuilt, exposed |-> {}, withheld |-> {}]
    /\ calm' = TRUE
    /\ UNCHANGED <<diskVars, trusted, hasProject, cacheVars, query, seen, toolVars, baseline, withheld>>

AskAboutTool ==
    /\ turn.step = "asking" /\ turn.todo # {}
    /\ BeginQuery(knownAgent)
    /\ UNCHANGED <<diskVars, trusted, hasProject, cacheVars, toolVars, turnVars, calm>>

(* shouldExposeTool() *)
HearAboutTool ==
    /\ turn.step = "asking" /\ query.step = "answered"
    /\ \E t \in turn.todo :
        turn' = IF IsSurfaceFullyDenied(t, ComposedRules(query.texts))
                THEN [turn EXCEPT !.todo = @ \ {t}, !.withheld = @ \cup {t}]
                ELSE [turn EXCEPT !.todo = @ \ {t}, !.exposed = @ \cup {t}]
    /\ query' = NoQuery
    /\ seen' = [s \in Scopes |-> {}]
    /\ UNCHANGED <<diskVars, trusted, hasProject, cacheVars, toolVars, knownAgent, baseline, withheld, calm>>

(* Mutant of EndTurn: what policy withholds is forgotten with the turn. *)
EndTurnForgets ==
    /\ turn.step = "asking" /\ turn.todo = {}
    /\ active' = turn.exposed
    /\ baseline' = turn.exposed
    /\ withheld' = turn.withheld
    /\ turn' = NoTurn
    /\ UNCHANGED <<diskVars, trusted, hasProject, cacheVars, query, seen, registered, intended, knownAgent, calm>>

(* setActive() *)
EndTurn ==
    /\ turn.step = "asking" /\ turn.todo = {}
    /\ active' = turn.exposed
    /\ baseline' = turn.exposed \cup turn.withheld
    /\ withheld' = turn.withheld
    /\ turn' = NoTurn
    /\ UNCHANGED <<diskVars, trusted, hasProject, cacheVars, query, seen, registered, intended, knownAgent, calm>>

(***************************************************************************)
(* resources_discover: configureForCwd() builds a new loader and drops the *)
(* resolved policies.  The baseline stays.                                 *)
(***************************************************************************)
Reload ==
    /\ turn = NoTurn /\ query = NoQuery
    /\ hasProject' = trusted
    /\ fileCache' = NoTexts /\ resolved' = NoPolicies /\ phantom' = {}
    /\ calm' = FALSE
    /\ UNCHANGED <<diskVars, trusted, query, seen, toolVars, turnVars>>

(* The operator grants or withdraws trust; the next reload notices. *)
TrustChanges ==
    /\ trusted' = ~trusted
    /\ UNCHANGED <<diskVars, hasProject, cacheVars, query, seen, toolVars, turnVars, calm>>

(***************************************************************************)
(* Other extensions, between the handlers.  What happens twice to a tool   *)
(* the policy withholds before a turn looks cannot be told from nothing:   *)
(* the last two actions leave such a tool alone.                           *)
(***************************************************************************)
OthersTouch == turn = NoTurn /\ query = NoQuery

Activate(t) ==
    /\ OthersTouch
    /\ t \in registered \ active
    /\ active' = active \cup {t} /\ intended' = intended \cup {t}
    /\ calm' = FALSE
    /\ UNCHANGED <<registered, diskVars, trusted, hasProject, cacheVars, query, seen, turnVars>>

Unregister(t) ==
    /\ OthersTouch
    /\ t \in registered
    /\ registered' = registered \ {t} /\ active' = active \ {t} /\ intended' = intended \ {t}
    /\ UNCHANGED <<diskVars, trusted, hasProject, cacheVars, query, seen, turnVars, calm>>

Deactivate(t) ==
    /\ OthersTouch
    /\ t \in active \ withheld
    /\ active' = active \ {t} /\ intended' = intended \ {t}
    /\ UNCHANGED <<registered, diskVars, trusted, hasProject, cacheVars, query, seen, turnVars, calm>>

(* Registering a tool does not activate it. *)
Register(t) ==
    /\ OthersTouch
    /\ t \in Tools \ (registered \cup withheld)
    /\ registered' = registered \cup {t}
    /\ UNCHANGED <<active, intended, diskVars, trusted, hasProject, cacheVars, query, seen, turnVars, calm>>

-----------------------------------------------------------------------------
Next ==
    \/ \E s \in Editable : Edit(s)
    \/ \E k \in Keys : Ask(k)
    \/ TakeStamp \/ Stat \/ Exists \/ Read \/ Answer
    \/ BeginTurn \/ AskAboutTool \/ HearAboutTool \/ EndTurn
    \/ Reload \/ TrustChanges
    \/ \E t \in Tools : Activate(t) \/ Unregister(t) \/ Deactivate(t) \/ Register(t)

Spec == Init /\ [][Next]_vars

-----------------------------------------------------------------------------
(* Every variable has its type. *)
TypeOK ==
    /\ disk \in [Scopes -> Texts \cup {"absent"}]
    /\ stamp \in [Scopes -> Nat] /\ edits \in 1 .. MaxEdits
    /\ trusted \in BOOLEAN /\ hasProject \in BOOLEAN
    /\ query.step \in {"none", "stamp", "stat", "exists", "read", "answered"}
    /\ turn.step \in {"none", "asking"} /\ knownAgent \in Keys
    /\ registered \subseteq Tools /\ active \subseteq registered
    /\ withheld \subseteq baseline /\ baseline \subseteq Tools
    /\ phantom \subseteq Scopes /\ intended \subseteq registered /\ calm \in BOOLEAN

(* What an answer rests on, scope by scope, is what the file said at some  *)
(* moment since the question was asked, or that it could not be read while *)
(* it was being replaced: the two caches never answer for an older text    *)
(* (resolvePermissions(), getCacheStamp() and the loaders).  The only      *)
(* exception is a scope whose file was created while a query had already   *)
(* found it missing.                                                       *)
AnswersFromCurrentTexts ==
    query.step = "answered" =>
        \A s \in Consulted(query.key) \ phantom :
            \/ query.texts[s] \in seen[s]
            \/ query.texts[s] = "unreadable" /\ "absent" \in seen[s]

(* While a file above the global one is invalid nothing is allowed, by     *)
(* whichever scope and from whichever cache (the floor of                  *)
(* resolvePermissions(), #646).  It is about the rules of the files: an    *)
(* approval of this session and yolo come after the floor.                 *)
FailsClosed ==
    query.step = "answered"
    /\ (\E s \in (Consulted(query.key) \ {"global"}) \ phantom : \A text \in seen[s] : Invalid(text)) =>
        \A t \in Tools, v \in Values : Evaluate(t, v, ComposedRules(query.texts)) # "allow"

(* Something that may be asked of the tool is not denied. *)
Usable(t, rules) == \E v \in Values : Evaluate(t, v, rules) # "deny"

(* What isSurfaceFullyDenied() takes for granted of wildcardMatch() when it *)
(* asks about the patterns themselves: each matches itself, and what it    *)
(* matches the patterns do that match it; and something may be asked that  *)
(* the same patterns match.                                                *)
PatternLaws ==
    /\ \A v \in Values : <<Anything, v>> \in Matches
    /\ \A p \in Patterns : <<p, p>> \in Matches
    /\ \A p, q \in Patterns, v \in Values : <<q, p>> \in Matches /\ <<p, v>> \in Matches => <<q, v>> \in Matches
    /\ \A p \in Patterns : \E v \in Values : \A q \in Patterns : <<q, v>> \in Matches <=> <<q, p>> \in Matches

(* Once a turn has begun and nothing was edited since, the agent sees the  *)
(* tools that others want active, less those the files deny outright: no   *)
(* tool stays hidden after its rule was relaxed, and none comes back that  *)
(* another extension took away (ToolSurfaceBaseline, #873, #385, #815).    *)
SurfaceFollowsPolicy ==
    calm /\ turn = NoTurn /\ phantom = {} =>
        LET texts == [s \in Scopes |-> IF s \in Consulted(knownAgent) THEN disk[s] ELSE "absent"] IN
        active = {t \in intended : Usable(t, ComposedRules(texts))}

=============================================================================
