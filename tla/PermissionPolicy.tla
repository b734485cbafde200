-------------------------- MODULE PermissionPolicy --------------------------
(***************************************************************************)
(* How the texts of up to four files become one list of rules, and how     *)
(* that list answers: the merging, composing and evaluating functions of   *)
(* packages/pi-permission-system/src/policy.                               *)
(*                                                                         *)
(* A permission object keeps the order of its keys, which decides between  *)
(* rules: it is a sequence of entries [surface, whole, rules].  An entry   *)
(* written as one action is `whole', and stands for a rule for every       *)
(* value.  Only the surface "*" is a wildcard here.                        *)
(***************************************************************************)
EXTENDS Integers, Sequences, SequencesExt, FiniteSets

CONSTANTS
    Matches     \* pairs <<pattern, value>>: what wildcardMatch() accepts

ASSUME MatchesAssumption == \A m \in Matches : m \in Seq(STRING) /\ Len(m) = 2

Anything == "*"

Actions == {"allow", "ask", "deny"}

SurfacesOf(permission) == {permission[i].surface : i \in DOMAIN permission}
PatternsOf(rules) == {rules[i].pattern : i \in DOMAIN rules}

(* The entry of a surface that has one. *)
EntryOf(permission, surface) ==
    permission[SelectInSeq(permission, LAMBDA e : e.surface = surface)]

(* {...base, ...over} of two pattern maps: a pattern keeps its first place, *)
(* what is new comes behind.                                               *)
Spread(base, over) ==
    LET At(p) == SelectInSeq(over, LAMBDA r : r.pattern = p) IN
    [i \in DOMAIN base |->
        IF At(base[i].pattern) # 0 THEN over[At(base[i].pattern)] ELSE base[i]]
    \o FlattenSeq([i \in DOMAIN over |-> IF over[i].pattern \in PatternsOf(base) THEN <<>> ELSE <<over[i]>>])

(* Two pattern maps are merged; else the higher scope replaces the entry. *)
Overridden(lower, higher) ==
    IF lower.whole \/ higher.whole
    THEN higher
    ELSE [lower EXCEPT !.rules = Spread(lower.rules, higher.rules)]

(* mergeFlatPermissions(): one scope upon those below it. *)
MergeFlat(base, over) ==
    [i \in DOMAIN base |->
        IF base[i].surface \in SurfacesOf(over)
        THEN Overridden(base[i], EntryOf(over, base[i].surface))
        ELSE base[i]]
    \o FlattenSeq([i \in DOMAIN over |-> IF over[i].surface \in SurfacesOf(base) THEN <<>> ELSE <<over[i]>>])

(* mergeScopesWithOrigins(), lowest scope first. *)
MergeScopes(permissions) ==
    MergeFlat(MergeFlat(MergeFlat(permissions[1], permissions[2]), permissions[3]), permissions[4])

(* synthesizeDefaults(): the universal fallback, "ask" where none is set. *)
DefaultRule(merged) ==
    LET set == Anything \in SurfacesOf(merged) /\ EntryOf(merged, Anything).whole IN
    [surface |-> Anything, pattern |-> Anything,
     action |-> IF set THEN EntryOf(merged, Anything).rules[1].action ELSE "ask"]

(* normalizeFlatConfig() of everything but the universal entry. *)
ConfigRules(merged) ==
    FlattenSeq([i \in DOMAIN merged |->
        IF merged[i].surface = Anything THEN <<>>
        ELSE [j \in DOMAIN merged[i].rules |->
                [surface |-> merged[i].surface, pattern |-> merged[i].rules[j].pattern,
                 action |-> merged[i].rules[j].action]]])

(* composeRuleset(): later rules win, so the default comes first. *)
Compose(merged) == <<DefaultRule(merged)>> \o ConfigRules(merged)

(* floorAllowsToAsk() *)
FloorAllowsToAsk(rules) ==
    [i \in DOMAIN rules |->
        [surface |-> rules[i].surface, pattern |-> rules[i].pattern,
         action |-> IF rules[i].action = "allow" THEN "ask" ELSE rules[i].action]]

Reaches(rule, surface) == rule.surface \in {Anything, surface}

RuleMatches(rule, surface, value) ==
    Reaches(rule, surface) /\ <<rule.pattern, value>> \in Matches

(* evaluate(): the last rule that matches, "ask" if there is none. *)
Evaluate(surface, value, rules) ==
    LET matching == {i \in DOMAIN rules : RuleMatches(rules[i], surface, value)}
        last == {i \in matching : \A j \in matching : j <= i} IN
    IF last = {} THEN "ask" ELSE rules[CHOOSE i \in last : TRUE].action

(* probeValuesForSurface(): each pattern stands for the values it is for. *)
ProbeValues(surface, rules) ==
    {Anything} \cup {rules[i].pattern : i \in {j \in DOMAIN rules : Reaches(rules[j], surface)}}

(* isSurfaceFullyDenied() *)
IsSurfaceFullyDenied(surface, rules) ==
    \A v \in ProbeValues(surface, rules) : Evaluate(surface, v, rules) = "deny"

=============================================================================
