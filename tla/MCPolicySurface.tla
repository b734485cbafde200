--------------------------- MODULE MCPolicySurface ---------------------------
(***************************************************************************)
(* The shell under a global policy that denies it but for a few commands;  *)
(* a project and an agent definition that open it, close it or are invalid *)
(* come and go.                                                            *)
(***************************************************************************)
EXTENDS PolicySurface

Whole(tool, action) ==
    [surface |-> tool, whole |-> TRUE, rules |-> <<[pattern |-> "*", action |-> action]>>]
Mapped(tool, rules) == [surface |-> tool, whole |-> FALSE, rules |-> rules]
Rule(pattern, action) == [pattern |-> pattern, action |-> action]

MCMatches ==
    {<<"*", v>> : v \in {"*", "git *", "git push *", "git status", "git push x", "ls"}}
    \cup {<<"git *", v>> : v \in {"git *", "git push *", "git status", "git push x"}}
    \cup {<<"git push *", v>> : v \in {"git push *", "git push x"}}
MCValues == {"git status", "git push x", "ls"}

MCPermission ==
    [base   |-> <<Whole("*", "allow"), Mapped("bash", <<Rule("*", "deny"), Rule("git *", "allow")>>)>>,
     opens  |-> <<Mapped("bash", <<Rule("*", "allow"), Rule("git push *", "deny")>>)>>,
     closes |-> <<Whole("bash", "deny")>>,
     bad    |-> <<>>]
MCPatterns == {"*", "git *", "git push *"}
MCTexts == DOMAIN MCPermission
MCOriginal ==
    [s \in Scopes |-> CASE s = "global" -> "base" [] s = "project" -> "opens" [] OTHER -> "absent"]

ASSUME LawsAssumption == PatternLaws
==============================================================================
