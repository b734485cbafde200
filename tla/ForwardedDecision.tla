-------------------------- MODULE ForwardedDecision --------------------------
(***************************************************************************)
(* What a forwarded permission request promises to the agent that waits    *)
(* for it and to the human who is asked, whatever lies between them:       *)
(* PermissionForwarding implements it with two directories of files.       *)
(*                                                                         *)
(* A request is asked once and withdrawn for good.  It is considered only  *)
(* while it is open, by whoever decides, who may forget it again.  What is *)
(* returned was decided, or nothing was: "abandoned".  When it is returned *)
(* the request is no longer open, so that nobody is asked what no longer   *)
(* matters; the only exceptions are requests mislaid by a failure.         *)
(***************************************************************************)
CONSTANTS Requests, Decisions

VARIABLES
    phase,        \* of each request: unasked, open or closed
    considered,   \* the requests somebody was asked about and has not answered
    decided,      \* the decisions made on each request
    result,       \* what each request returned, "none" before it did
    mislaid       \* the requests whose withdrawal or reading failed

vars == <<phase, considered, decided, result, mislaid>>

Init ==
    /\ phase = [r \in Requests |-> "unasked"]
    /\ considered = {}
    /\ decided = [r \in Requests |-> {}]
    /\ result = [r \in Requests |-> "none"]
    /\ mislaid = {}

Ask(r) ==
    /\ phase[r] = "unasked"
    /\ phase' = [phase EXCEPT ![r] = "open"]
    /\ UNCHANGED <<considered, decided, result, mislaid>>

(* By the one who asked, or by the one who answered it. *)
Withdraw(r) ==
    /\ phase[r] # "closed"
    /\ phase' = [phase EXCEPT ![r] = "closed"]
    /\ UNCHANGED <<considered, decided, result, mislaid>>

(* A failure leaves the request open, or takes it away unread. *)
Mislay(r) ==
    /\ phase[r] # "unasked"
    /\ phase' \in {phase, [phase EXCEPT ![r] = "closed"]}
    /\ mislaid' = mislaid \union {r}
    /\ UNCHANGED <<considered, decided, result>>

Consider(r) ==
    /\ phase[r] = "open"
    /\ considered' = considered \union {r}
    /\ UNCHANGED <<phase, decided, result, mislaid>>

Decide(r) ==
    /\ r \in considered \/ phase[r] = "open"
    /\ \E v \in Decisions : decided' = [decided EXCEPT ![r] = @ \union {v}]
    /\ considered' \in {considered, considered \ {r}}
    /\ UNCHANGED <<phase, result, mislaid>>

Forget ==
    /\ considered' \in SUBSET considered
    /\ UNCHANGED <<phase, decided, result, mislaid>>

Return(r) ==
    /\ result[r] = "none"
    /\ phase[r] # "open" \/ r \in mislaid
    /\ \E v \in decided[r] \union {"abandoned"} : result' = [result EXCEPT ![r] = v]
    /\ phase' = [phase EXCEPT ![r] = IF @ = "unasked" THEN "closed" ELSE @]
    /\ UNCHANGED <<considered, decided, mislaid>>

Next ==
    \/ \E r \in Requests :
        Ask(r) \/ Withdraw(r) \/ Mislay(r) \/ Consider(r) \/ Decide(r) \/ Return(r)
    \/ Forget

Spec == Init /\ [][Next]_vars

=============================================================================
