--------------------- MODULE PermissionForwardingProofs ---------------------
(***************************************************************************)
(* Safety of PermissionForwarding, for any number of children and drains   *)
(* and any bound on what goes wrong; and, from the middle on, of           *)
(* ServingLiveness, which has no name in common with it.                   *)
(*                                                                         *)
(* OutcomeWasDecided is not inductive: the decision a child adopts came    *)
(* from its response file, the file from the verdict of a drain, and the   *)
(* verdict from Decides.  IInv follows it along that path, and with it     *)
(* which children may still have a request file.                           *)
(*                                                                         *)
(* ImplementsContract is the step simulation: under IInv each step of a    *)
(* child, of the manager and of a drain is a step of ForwardedDecision or  *)
(* a stutter.  Most disturb one child's phase only, which ContractMoves    *)
(* says once for all of them.                                              *)
(***************************************************************************)
EXTENDS PermissionForwarding, ServingLiveness, TLAPS

(* The steps of a child during which its request file may exist, unless    *)
(* the call to unlink it failed. *)
Holding == {"waiting", "dropResponse", "dropRequest", "dead"}

RequestsHeld == \A r \in requests : step[r.id] \in Holding \/ r.id \in spoiled

ResponsesDecided ==
    \A c \in Children : responses[c] \in Decisions => responses[c] \in decided[c]

(* A drain that is at a request knows which, and writes what was decided. *)
DrainSound(d) ==
    /\ drain[d] \in {"asking", "responding", "deleting"} => current[d] \in Children
    /\ drain[d] \in {"responding", "deleting"} =>
        verdict[d] \in Decisions /\ verdict[d] \in decided[current[d]]

IInv ==
    /\ TypeOK
    /\ RequestsHeld
    /\ OutcomeWasDecided
    /\ ResponsesDecided
    /\ \A d \in Drains : DrainSound(d)

USE DEF Decisions, ChildSteps, DrainSteps, RequestFiles

(* Counting a mishap stays within its bound. *)
LEMMA MishapBounded ==
    ASSUME mishaps \in 0 .. MaxMishaps, Mishap
    PROVE mishaps' \in 0 .. MaxMishaps /\ spoiled' = spoiled
  BY ForwardingAssumption DEF Mishap

(* So does counting one that spoils a request. *)
LEMMA SpoilsBounded ==
    ASSUME mishaps \in 0 .. MaxMishaps, NEW c \in Children, Spoils(c)
    PROVE mishaps' \in 0 .. MaxMishaps /\ spoiled' = spoiled \union {c}
  BY ForwardingAssumption DEF Spoils

(* The invariant holds initially. *)
LEMMA InitIInv == ASSUME Init PROVE IInv
  <1>1. TypeOK
    <2>1. mishaps \in 0 .. MaxMishaps
      BY ForwardingAssumption DEF Init
    <2>2. requestsDir \in BOOLEAN /\ responsesDir \in BOOLEAN
          /\ serving \in BOOLEAN /\ processing \in BOOLEAN
      BY DEF Init
    <2> QED
      BY <2>1, <2>2 DEF Init, TypeOK, Undecided
  <1>2. RequestsHeld /\ OutcomeWasDecided /\ ResponsesDecided
    BY DEF Init, RequestsHeld, OutcomeWasDecided, ResponsesDecided
  <1>3. \A d \in Drains : DrainSound(d)
    BY DEF Init, DrainSound
  <1> QED
    BY <1>1, <1>2, <1>3 DEF IInv

(* Every step of a child keeps it. *)
LEMMA ChildKeepsIInv ==
    ASSUME IInv, NEW c \in Children,
           MakeRequests(c) \/ MakeFails(c) \/ ChildStep(c) \/ GiveUp(c) \/ ChildDies(c)
    PROVE IInv'
  <1> USE DEF IInv, TypeOK, RequestsHeld, OutcomeWasDecided, ResponsesDecided, DrainSound,
              Undecided, Holding, Moves, fileVars, serverVars, drainVars, childVars, limitVars
  <1>1. CASE MakeRequests(c)
    BY <1>1 DEF MakeRequests
  <1>2. CASE MakeFails(c)
    <2>1. responsesDir' \in BOOLEAN /\ mishaps' \in 0 .. MaxMishaps /\ spoiled' = spoiled
      BY <1>2, MishapBounded DEF MakeFails
    <2> QED
      BY <1>2, <2>1 DEF MakeFails
  <1>3. CASE MakeResponses(c)
    BY <1>3 DEF MakeResponses
  <1>4. CASE WriteRequest(c)
    BY <1>4 DEF WriteRequest
  <1>5. CASE WriteRequestFails(c)
    BY <1>5, MishapBounded DEF WriteRequestFails
  <1>6. CASE ReceiveResponse(c)
    BY <1>6, MishapBounded DEF ReceiveResponse, UnreadResponse
  <1>7. CASE GiveUp(c)
    BY <1>7 DEF GiveUp
  <1>8. CASE DropResponse(c)
    BY <1>8 DEF DropResponse
  <1>9. CASE DropRequest(c)
    BY <1>9 DEF DropRequest, Without
  <1>10. CASE CleanRequests(c)
    <2>1. requestsDir' \in BOOLEAN
      BY <1>10, Zenon DEF CleanRequests
    <2>2. PICK to \in {"cleanResponses", "done"} : Moves(c, "cleanRequests", to)
      BY <1>10, Zenon DEF CleanRequests
    <2> QED
      BY <1>10, <2>1, <2>2 DEF CleanRequests
  <1>11. CASE CleanResponses(c)
    BY <1>11 DEF CleanResponses, RemoveResponses
  <1>12. CASE ChildDies(c)
    BY <1>12, MishapBounded DEF ChildDies
  <1>13. CASE CleanupFails(c)
    <2>1. ASSUME NEW from, NEW to \in {"dropRequest", "done"}, Moves(c, from, to), Mishap,
                 from \in {"dropResponse", "cleanRequests", "cleanResponses"}
          PROVE IInv'
      BY <1>13, <2>1, MishapBounded DEF CleanupFails
    <2>2. CASE Moves(c, "dropRequest", "cleanRequests") /\ Spoils(c)
      BY <1>13, <2>2, SpoilsBounded DEF CleanupFails
    <2> QED
      BY <1>13, <2>1, <2>2, Zenon DEF CleanupFails
  <1> QED
    BY <1>1, <1>2, <1>3, <1>4, <1>5, <1>6, <1>7, <1>8, <1>9, <1>10, <1>11, <1>12, <1>13
    DEF ChildStep

(* Every step of the manager keeps it. *)
LEMMA ManagerKeepsIInv ==
    ASSUME IInv, Start \/ Stop \/ ParentDies
    PROVE IInv'
  <1> USE DEF IInv, TypeOK, RequestsHeld, OutcomeWasDecided, ResponsesDecided, DrainSound,
              Undecided, fileVars, drainVars, childVars, limitVars
  <1>1. CASE Start
    BY <1>1 DEF Start
  <1>2. CASE Stop
    BY <1>2, MishapBounded DEF Stop
  <1>3. CASE ParentDies
    BY <1>3, MishapBounded DEF ParentDies
  <1> QED
    BY <1>1, <1>2, <1>3

(* Every step of a drain keeps it. *)
LEMMA DrainKeepsIInv ==
    ASSUME IInv, NEW d \in Drains, Scan(d) \/ DrainStep(d) \/ Answer(d)
    PROVE IInv'
  <1> USE DEF IInv, TypeOK, RequestsHeld, OutcomeWasDecided, ResponsesDecided, DrainSound,
              Undecided, DrainMoves, fileVars, childVars, limitVars
  <1>1. CASE Scan(d)
    BY <1>1 DEF Scan
  <1>2. CASE EnsureResponses(d)
    BY <1>2 DEF EnsureResponses
  <1>3. CASE EnsureFails(d)
    <2>1. processing' \in BOOLEAN /\ mishaps' \in 0 .. MaxMishaps /\ spoiled' = spoiled
      BY <1>3, MishapBounded DEF EnsureFails
    <2> QED
      BY <1>3, <2>1 DEF EnsureFails
  <1>4. ASSUME NEW c \in Children, SkipFile(d, c) PROVE IInv'
    BY <1>4 DEF SkipFile, Without
  <1>5. ASSUME NEW c \in Children, AskFor(d, c) PROVE IInv'
    BY <1>5 DEF AskFor
  <1>6. ASSUME NEW c \in Children, RuleDecides(d, c) PROVE IInv'
    BY <1>6 DEF RuleDecides, Decides
  <1>7. CASE Answer(d)
    BY <1>7 DEF Answer, Decides
  <1>8. CASE Respond(d)
    BY <1>8 DEF Respond
  <1>9. CASE RespondFails(d)
    BY <1>9, MishapBounded DEF RespondFails, Returns
  <1>10. CASE DeleteRequest(d)
    BY <1>10 DEF DeleteRequest, Returns, Without
  <1>11. CASE DrainCleansRequests(d)
    <2>1. requestsDir' \in BOOLEAN /\ processing' \in BOOLEAN
      BY <1>11, Zenon DEF DrainCleansRequests
    <2>2. PICK to \in {"cleanResponses", "idle"} : DrainMoves(d, "scanning", to)
      BY <1>11, Zenon DEF DrainCleansRequests
    <2> QED
      BY <1>11, <2>1, <2>2 DEF DrainCleansRequests
  <1>12. CASE DrainCleansResponses(d)
    <2>1. responsesDir' \in BOOLEAN /\ processing' \in BOOLEAN
      BY <1>12 DEF DrainCleansResponses, RemoveResponses
    <2> QED
      BY <1>12, <2>1 DEF DrainCleansResponses
  <1>13. ASSUME NEW c \in Children, ReadFails(d, c) PROVE IInv'
    BY <1>13, SpoilsBounded DEF ReadFails, Without
  <1>14. CASE DrainCleanupFails(d)
    <2>1. /\ processing' \in BOOLEAN /\ mishaps' \in 0 .. MaxMishaps /\ spoiled' = spoiled
      BY <1>14, MishapBounded DEF DrainCleanupFails
    <2>2. PICK to \in {"scanning", "idle"} : drain' = [drain EXCEPT ![d] = to]
      BY <1>14, Zenon DEF DrainCleanupFails
    <2>3. todo' \in [Drains -> SUBSET Children]
      BY <1>14 DEF DrainCleanupFails
    <2>4. /\ current' \in [Drains -> Children \union {Nobody}]
          /\ verdict' \in [Drains -> Decisions \union {"none"}]
          /\ \A e \in Drains \ {d} : current'[e] = current[e] /\ verdict'[e] = verdict[e]
      BY <1>14 DEF DrainCleanupFails, Returns
    <2>5. UNCHANGED <<fileVars, childVars, serving, decided>>
      BY <1>14 DEF DrainCleanupFails
    <2>6. TypeOK'
      BY <2>1, <2>2, <2>3, <2>4, <2>5
    <2>7. RequestsHeld' /\ OutcomeWasDecided' /\ ResponsesDecided'
      BY <2>1, <2>5
    <2>8. (\A e \in Drains : DrainSound(e))'
      BY <2>2, <2>4, <2>5
    <2> QED
      BY <2>6, <2>7, <2>8
  <1> QED
    BY <1>1, <1>2, <1>3, <1>4, <1>5, <1>6, <1>7, <1>8, <1>9, <1>10, <1>11, <1>12, <1>13, <1>14
    DEF DrainStep

(* The only steps that take a drain from looking at files to a decision.   *)
LEMMA AsksOnlyByName ==
    ASSUME IInv, Next, NEW e \in Drains, drain[e] = "scanning",
           drain'[e] \in {"asking", "responding"}
    PROVE \E c \in Children : AskFor(e, c) \/ RuleDecides(e, c)
  <1> drain \in [Drains -> DrainSteps]
    BY DEF IInv, TypeOK
  <1> USE DEF DrainMoves, drainVars, serverVars
  <1>1. ASSUME NEW c \in Children,
               MakeRequests(c) \/ MakeFails(c) \/ ChildStep(c) \/ GiveUp(c) \/ ChildDies(c)
        PROVE FALSE
    <2>1. drain' = drain
      BY <1>1, Zenon DEF MakeRequests, MakeFails, ChildStep, GiveUp, ChildDies, MakeResponses,
         WriteRequest, WriteRequestFails, ReceiveResponse, DropResponse, DropRequest,
         CleanRequests, CleanResponses, CleanupFails
    <2> QED
      BY <2>1
  <1>2. CASE Start \/ Stop \/ ParentDies
    BY <1>2 DEF Start, Stop, ParentDies
  <1>3. ASSUME NEW d \in Drains, Scan(d) \/ DrainStep(d) \/ Answer(d)
        PROVE \E c \in Children : AskFor(e, c) \/ RuleDecides(e, c)
    <2>1. CASE Scan(d) \/ EnsureResponses(d) \/ EnsureFails(d) \/ Answer(d)
      BY <2>1 DEF Scan, EnsureResponses, EnsureFails, Answer
    <2>2. ASSUME NEW c \in Children, SkipFile(d, c) \/ ReadFails(d, c)
          PROVE FALSE
      BY <2>2 DEF SkipFile, ReadFails
    <2>3. CASE Respond(d) \/ RespondFails(d) \/ DeleteRequest(d)
      BY <2>3 DEF Respond, RespondFails, DeleteRequest
    <2>4. ASSUME DrainCleansRequests(d) \/ DrainCleansResponses(d) \/ DrainCleanupFails(d)
          PROVE FALSE
      <3>1. PICK to \in {"scanning", "cleanResponses", "idle"} :
                drain' = [drain EXCEPT ![d] = to]
        BY <2>4, Zenon DEF DrainCleansRequests, DrainCleansResponses, DrainCleanupFails
      <3> QED
        BY <3>1
    <2>5. ASSUME NEW c \in Children, AskFor(d, c) \/ RuleDecides(d, c)
          PROVE \E k \in Children : AskFor(e, k) \/ RuleDecides(e, k)
      <3>1. d = e
        BY <2>5 DEF AskFor, RuleDecides
      <3> QED
        BY <2>5, <3>1, Zenon
    <2> QED
      BY <1>3, <2>1, <2>2, <2>3, <2>4, <2>5 DEF DrainStep
  <1> QED
    BY <1>1, <1>2, <1>3 DEF Next

(***************************************************************************)
(* The invariant in every behaviour.                                       *)
(***************************************************************************)
THEOREM InvariantHolds == Spec => []IInv
  <1>1. Init => IInv
    BY InitIInv
  <1>2. IInv /\ [Next]_vars => IInv'
    <2> SUFFICES ASSUME IInv, [Next]_vars PROVE IInv'
      OBVIOUS
    <2>1. CASE Next
      BY <2>1, ChildKeepsIInv, ManagerKeepsIInv, DrainKeepsIInv DEF Next
    <2>2. CASE UNCHANGED vars
      <3> USE <2>2 DEF IInv, vars, fileVars, childVars, serverVars, drainVars, limitVars
      <3>1. TypeOK'
        BY DEF TypeOK, Undecided
      <3>2. RequestsHeld' /\ OutcomeWasDecided' /\ ResponsesDecided'
        BY DEF RequestsHeld, OutcomeWasDecided, ResponsesDecided
      <3>3. (\A d \in Drains : DrainSound(d))'
        BY DEF DrainSound
      <3> QED
        BY <3>1, <3>2, <3>3
    <2> QED
      BY <2>1, <2>2
  <1> QED
    BY <1>1, <1>2, PTL DEF Spec

(* Every variable has its type, and an escalation resolves exactly when it *)
(* ends: waitForForwardedApproval() returns one value on every path.       *)
THEOREM TypeCorrect == Spec => []TypeOK
  <1>1. IInv => TypeOK
    BY DEF IInv
  <1> QED
    BY <1>1, InvariantHolds, PTL

(* A child acts on a consent or a denial only if its parent decided so for *)
(* that very request, whatever fails, dies or overlaps in between.         *)
THEOREM DecisionsAreReal == Spec => []OutcomeWasDecided
  <1>1. IInv => OutcomeWasDecided
    BY DEF IInv
  <1> QED
    BY <1>1, InvariantHolds, PTL

(* discardRequest() comes before the end of every escalation that wrote a  *)
(* request: no request outlives it.                                        *)
THEOREM NothingLeftBehind == Spec => []NoRequestLeftBehind
  <1>1. IInv => NoRequestLeftBehind
    BY DEF IInv, RequestsHeld, NoRequestLeftBehind, Without, Holding
  <1> QED
    BY <1>1, InvariantHolds, PTL

(* A drain never puts to the user, or decides by rule, a request whose     *)
(* child has taken it away, even if it listed the file before that.        *)
THEOREM AbandonmentsAreFinal == Spec => AbandonmentIsFinal
  <1> DEFINE Fresh ==
        \A d \in Drains :
            drain[d] = "scanning" /\ drain'[d] \in {"asking", "responding"} =>
                \/ step[current'[d]] \notin {"cleanRequests", "cleanResponses", "done"}
                \/ current'[d] \in spoiled
  <1>1. IInv /\ [Next]_vars => [Fresh]_vars
    <2> SUFFICES ASSUME IInv, Next, NEW e \in Drains, drain[e] = "scanning",
                        drain'[e] \in {"asking", "responding"}
                 PROVE step[current'[e]] \in Holding \/ current'[e] \in spoiled
      BY DEF Fresh, Holding
    <2>1. \E c \in Children : AskFor(e, c) \/ RuleDecides(e, c)
      BY AsksOnlyByName
    <2>2. PICK c \in Children : Readable(c) /\ current'[e] = c
      BY <2>1 DEF AskFor, RuleDecides, IInv, TypeOK
    <2> QED
      BY <2>2 DEF Readable, IInv, RequestsHeld
  <1> QED
    BY <1>1, InvariantHolds, PTL DEF AbandonmentIsFinal, Fresh, Spec

-----------------------------------------------------------------------------
(***************************************************************************)
(* The refinement.  A request fails to be withdrawn, or to be read, only   *)
(* after it was written.                                                   *)
(***************************************************************************)
Unasked == {"idle", "makeResponses", "writeRequest"}

SpoiledWereAsked == \A c \in spoiled : step[c] \notin Unasked

Considered == {current[d] : d \in {e \in Drains : drain[e] = "asking"}}

(* A request file is there only after its child wrote it.                  *)
LEMMA FilesWereAsked ==
    ASSUME IInv, SpoiledWereAsked, NEW r \in requests
    PROVE  step[r.id] \notin Unasked /\ r.id \in Children
  BY DEF IInv, TypeOK, RequestsHeld, SpoiledWereAsked, Holding, Unasked

(* The other requests are where they were. *)
OthersStay(c) ==
    \A k \in Children \ {c} : Phase(k)' = Phase(k) /\ Result(k)' = Result(k)

(* They are if only c's step, outcome and file are touched.                *)
LEMMA OnlyOneMoves ==
    ASSUME NEW c \in Children,
           \A k \in Children \ {c} : step'[k] = step[k] /\ outcome'[k] = outcome[k],
           \A k \in Children \ {c} :
                (\E r \in requests' : r.id = k) <=> (\E r \in requests : r.id = k)
    PROVE  OthersStay(c)
  BY DEF OthersStay, Phase, Result

(* What the contract sees of a step that changes no decision: at most one  *)
(* request moves, in one of the ways the contract knows.                   *)
LEMMA ContractMoves ==
    ASSUME NEW c \in Children, OthersStay(c), Considered' = Considered, decided' = decided,
           \/ Phase(c)' = Phase(c) /\ Result(c)' = Result(c) /\ spoiled' = spoiled
           \/ /\ Phase(c) = "unasked" /\ Phase(c)' = "open"
              /\ Result(c)' = Result(c) /\ spoiled' = spoiled
           \/ Phase(c)' = "closed" /\ Result(c)' = Result(c) /\ spoiled' = spoiled
           \/ /\ Phase(c) # "unasked" /\ Phase(c)' \in {Phase(c), "closed"}
              /\ Result(c)' = Result(c) /\ spoiled' = spoiled \union {c}
           \/ /\ Result(c) = "none" /\ Result(c)' \in decided[c] \union {"abandoned"}
              /\ Phase(c) # "open" \/ c \in spoiled
              /\ Phase(c)' = IF Phase(c) = "unasked" THEN "closed" ELSE Phase(c)
              /\ spoiled' = spoiled
    PROVE  [Contract!Next]_(Contract!vars)
  <1> DEFINE phase == [k \in Children |-> Phase(k)]
             result == [k \in Children |-> Result(k)]
  <1>1. /\ phase' = [phase EXCEPT ![c] = Phase(c)']
        /\ result' = [result EXCEPT ![c] = Result(c)']
        /\ phase[c] = Phase(c) /\ result[c] = Result(c)
    BY DEF OthersStay
  <1>2. Result(c)' = Result(c) => result' = result
    BY <1>1
  <1>3. Phase(c)' = Phase(c) => phase' = phase
    BY <1>1
  <1> USE DEF Considered
  <1> HIDE DEF phase, result
  <1>4. CASE Phase(c)' = Phase(c) /\ Result(c)' = Result(c) /\ spoiled' = spoiled
    BY <1>2, <1>3, <1>4 DEF Contract!vars, phase, result
  <1>5. CASE /\ Phase(c) = "unasked" /\ Phase(c)' = "open"
             /\ Result(c)' = Result(c) /\ spoiled' = spoiled
    <2>1. Contract!Ask(c)
      BY <1>1, <1>2, <1>5 DEF Contract!Ask, phase, result
    <2> QED
      BY <2>1 DEF Contract!Next
  <1>6. CASE Phase(c)' = "closed" /\ Result(c)' = Result(c) /\ spoiled' = spoiled
    <2>1. CASE Phase(c) # "closed"
      <3>1. Contract!Withdraw(c)
        BY <1>1, <1>2, <1>6, <2>1 DEF Contract!Withdraw, phase, result
      <3> QED
        BY <3>1 DEF Contract!Next
    <2> QED
      BY <1>4, <1>6, <2>1
  <1>7. CASE /\ Phase(c) # "unasked" /\ Phase(c)' \in {Phase(c), "closed"}
             /\ Result(c)' = Result(c) /\ spoiled' = spoiled \union {c}
    <2>1. Contract!Mislay(c)
      BY <1>1, <1>2, <1>3, <1>7 DEF Contract!Mislay, phase, result
    <2> QED
      BY <2>1 DEF Contract!Next
  <1>8. CASE /\ Result(c) = "none" /\ Result(c)' \in decided[c] \union {"abandoned"}
             /\ Phase(c) # "open" \/ c \in spoiled
             /\ Phase(c)' = IF Phase(c) = "unasked" THEN "closed" ELSE Phase(c)
             /\ spoiled' = spoiled
    <2>1. Contract!Return(c)
      BY <1>1, <1>8 DEF Contract!Return, phase, result
    <2> QED
      BY <2>1 DEF Contract!Next
  <1> QED
    BY <1>4, <1>5, <1>6, <1>7, <1>8

(* The children's steps are steps of the contract or invisible in it.      *)
LEMMA ChildKeepsContract ==
    ASSUME IInv, SpoiledWereAsked, NEW c \in Children,
           MakeRequests(c) \/ MakeFails(c) \/ ChildStep(c) \/ GiveUp(c) \/ ChildDies(c)
    PROVE  [Contract!Next]_(Contract!vars) /\ SpoiledWereAsked'
  <1> DEFINE File(k) == \E r \in requests : r.id = k
  <1>0. /\ step \in [Children -> ChildSteps] /\ spoiled \subseteq Children
        /\ outcome \in [Children -> Decisions \union {"none", "abandoned"}]
        /\ step[c] \in Unasked => ~File(c) /\ c \notin spoiled
        /\ step[c] \in {"cleanRequests", "cleanResponses"} => ~File(c) \/ c \in spoiled
        /\ step[c] \in {"cleanRequests", "cleanResponses"} =>
            outcome[c] \in decided[c] \union {"abandoned"}
    BY DEF IInv, TypeOK, RequestsHeld, SpoiledWereAsked, Holding, Unasked, Undecided,
           OutcomeWasDecided
  <1>1. Considered' = Considered /\ decided' = decided
    BY DEF Considered, serverVars, drainVars, MakeRequests, MakeFails, ChildStep, GiveUp,
           ChildDies, MakeResponses, WriteRequest, WriteRequestFails, ReceiveResponse,
           DropResponse, DropRequest, CleanRequests, CleanResponses, CleanupFails
  <1> USE DEF Moves, fileVars, limitVars, Mishap
  \* A step that touches no request file.
  <1>2. ASSUME requests' = requests, spoiled' = spoiled,
               NEW to \in ChildSteps, step' = [step EXCEPT ![c] = to],
               \A k \in Children \ {c} : outcome'[k] = outcome[k],
               \/ step[c] \in Unasked /\ to \in Unasked
               \/ step[c] \in Unasked /\ to \in {"cleanRequests", "dead"}
               \/ step[c] \in Unasked /\ to = "done" /\ outcome'[c] = "abandoned"
               \/ step[c] \notin Unasked \union {"done"} /\ to \notin Unasked \union {"done"}
               \/ /\ step[c] \in {"cleanRequests", "cleanResponses"} /\ to = "done"
                  /\ outcome'[c] = outcome[c]
        PROVE  [Contract!Next]_(Contract!vars) /\ SpoiledWereAsked'
    <2>1. OthersStay(c)
      BY <1>0, <1>2, OnlyOneMoves
    <2>2. SpoiledWereAsked'
      BY <1>0, <1>2 DEF SpoiledWereAsked, Unasked
    <2>3. step'[c] = to /\ File(c)' = File(c)
      BY <1>0, <1>2
    <2> HIDE DEF File
    <2>4. /\ Phase(c) = IF step[c] \in Unasked THEN "unasked"
                        ELSE IF File(c) THEN "open" ELSE "closed"
          /\ Phase(c)' = IF to \in Unasked THEN "unasked"
                         ELSE IF File(c) THEN "open" ELSE "closed"
      BY <2>3 DEF Phase, Unasked, File
    <2>5. /\ Result(c) = IF step[c] = "done" THEN outcome[c] ELSE "none"
          /\ Result(c)' = IF to = "done" THEN outcome'[c] ELSE "none"
      BY <2>3 DEF Result
    <2>6. [Contract!Next]_(Contract!vars)
      BY <1>0, <1>1, <1>2, <2>1, <2>4, <2>5, ContractMoves DEF Unasked
    <2> QED
      BY <2>2, <2>6
  <1>3. CASE MakeRequests(c) \/ MakeResponses(c)
    <2>1. PICK to \in {"makeResponses", "writeRequest"} : step' = [step EXCEPT ![c] = to]
      BY <1>3 DEF MakeRequests, MakeResponses
    <2> QED
      BY <1>2, <1>3, <2>1 DEF MakeRequests, MakeResponses, Unasked
  <1>4. CASE MakeFails(c)
    BY <1>0, <1>2, <1>4 DEF MakeFails, Unasked
  <1>5. CASE WriteRequestFails(c)
    <2>1. spoiled' = spoiled
      BY <1>5 DEF WriteRequestFails
    <2> QED
      BY <1>0, <1>2, <1>5, <2>1 DEF WriteRequestFails, Unasked
  <1>6. CASE ReceiveResponse(c)
    <2>1. spoiled' = spoiled
      BY <1>6 DEF ReceiveResponse
    <2>2. \A k \in Children \ {c} : outcome'[k] = outcome[k]
      BY <1>0, <1>6 DEF ReceiveResponse
    <2> QED
      BY <1>0, <1>2, <1>6, <2>1, <2>2 DEF ReceiveResponse, Unasked
  <1>7. CASE GiveUp(c)
    BY <1>0, <1>2, <1>7 DEF GiveUp, Unasked
  <1>8. CASE DropResponse(c) \/ CleanResponses(c)
    BY <1>0, <1>2, <1>8 DEF DropResponse, CleanResponses, Unasked
  <1>9. CASE CleanRequests(c)
    <2>1. PICK to \in {"cleanResponses", "done"} : Moves(c, "cleanRequests", to)
      BY <1>9, Zenon DEF CleanRequests
    <2> QED
      BY <1>0, <1>2, <1>9, <2>1 DEF CleanRequests, Unasked
  <1>10. CASE ChildDies(c)
    BY <1>0, <1>2, <1>10 DEF ChildDies, Unasked
  <1>11. CASE WriteRequest(c)
    <2>1. PICK v \in BOOLEAN : requests' = requests \union {[id |-> c, valid |-> v]}
      BY <1>11 DEF WriteRequest
    <2>2. /\ step' = [step EXCEPT ![c] = "waiting"] /\ step[c] = "writeRequest"
          /\ outcome' = outcome /\ spoiled' = spoiled
      BY <1>11 DEF WriteRequest
    <2>3. OthersStay(c)
      <3>1. \A k \in Children \ {c} :
                (\E r \in requests' : r.id = k) <=> (\E r \in requests : r.id = k)
        BY <2>1
      <3> QED
        BY <1>0, <2>2, <3>1, OnlyOneMoves
    <2>4. Phase(c) = "unasked" /\ Phase(c)' = "open" /\ Result(c)' = Result(c)
      <3>1. step'[c] = "waiting"
        BY <1>0, <2>2
      <3>2. [id |-> c, valid |-> v] \in requests' /\ [id |-> c, valid |-> v].id = c
        BY <2>1
      <3>3. \E r \in requests' : r.id = c
        BY <3>2
      <3> QED
        BY <2>2, <3>1, <3>3 DEF Phase, Result
    <2>5. SpoiledWereAsked'
      BY <1>0, <2>2 DEF SpoiledWereAsked, Unasked
    <2> QED
      BY <1>1, <2>2, <2>3, <2>4, <2>5, ContractMoves
  <1>12. CASE DropRequest(c)
    <2>1. /\ step' = [step EXCEPT ![c] = "cleanRequests"] /\ step[c] = "dropRequest"
          /\ outcome' = outcome /\ spoiled' = spoiled /\ requests' = Without(c)
      BY <1>12 DEF DropRequest
    <2>2. OthersStay(c)
      <3>1. \A k \in Children \ {c} :
                (\E r \in requests' : r.id = k) <=> (\E r \in requests : r.id = k)
        BY <2>1 DEF Without
      <3> QED
        BY <1>0, <2>1, <3>1, OnlyOneMoves
    <2>3. Phase(c)' = "closed" /\ Result(c)' = Result(c)
      BY <1>0, <2>1 DEF Phase, Result, Without
    <2>4. SpoiledWereAsked'
      BY <1>0, <2>1 DEF SpoiledWereAsked, Unasked
    <2> QED
      BY <1>1, <2>1, <2>2, <2>3, <2>4, ContractMoves
  <1>13. CASE CleanupFails(c)
    <2>1. ASSUME NEW from \in {"dropResponse", "cleanRequests", "cleanResponses"},
                 NEW to \in {"dropRequest", "done"}, Moves(c, from, to), Mishap,
                 from = "dropResponse" <=> to = "dropRequest"
          PROVE  [Contract!Next]_(Contract!vars) /\ SpoiledWereAsked'
      BY <1>0, <1>2, <1>13, <2>1 DEF CleanupFails, childVars, Unasked
    <2>2. CASE Moves(c, "dropRequest", "cleanRequests") /\ Spoils(c)
      <3>1. /\ step' = [step EXCEPT ![c] = "cleanRequests"] /\ step[c] = "dropRequest"
            /\ outcome' = outcome /\ spoiled' = spoiled \union {c} /\ requests' = requests
        BY <1>13, <2>2 DEF CleanupFails, Spoils
      <3>2. OthersStay(c)
        BY <1>0, <3>1, OnlyOneMoves
      <3>3. Phase(c) # "unasked" /\ Phase(c)' = Phase(c) /\ Result(c)' = Result(c)
        BY <1>0, <3>1 DEF Phase, Result
      <3>4. SpoiledWereAsked'
        BY <1>0, <3>1 DEF SpoiledWereAsked, Unasked
      <3> QED
        BY <1>1, <3>1, <3>2, <3>3, <3>4, ContractMoves
    <2> QED
      BY <1>13, <2>1, <2>2, Zenon DEF CleanupFails
  <1> QED
    BY <1>3, <1>4, <1>5, <1>6, <1>7, <1>8, <1>9, <1>10, <1>11, <1>12, <1>13 DEF ChildStep

(* What nobody sees in the contract.                                       *)
LEMMA Unseen ==
    ASSUME step' = step, outcome' = outcome, requests' = requests,
           decided' = decided, spoiled' = spoiled, Considered' \subseteq Considered
    PROVE  [Contract!Next]_(Contract!vars)
  <1>1. \A k \in Children : Phase(k)' = Phase(k) /\ Result(k)' = Result(k)
    BY DEF Phase, Result
  <1>2. Contract!Forget
    BY <1>1 DEF Contract!Forget, Considered
  <1> QED
    BY <1>2 DEF Contract!Next

(* A drain takes c's request file away.                                    *)
LEMMA FileGoes ==
    ASSUME IInv, SpoiledWereAsked, NEW c \in Children,
           step' = step, outcome' = outcome, requests' = Without(c), decided' = decided,
           Considered' = Considered,
           \/ spoiled' = spoiled
           \/ spoiled' = spoiled \union {c} /\ \E r \in requests : r.id = c
    PROVE  [Contract!Next]_(Contract!vars) /\ SpoiledWereAsked'
  <1>1. OthersStay(c)
    <2>1. \A k \in Children \ {c} :
              (\E r \in requests' : r.id = k) <=> (\E r \in requests : r.id = k)
      BY DEF Without
    <2> QED
      BY <2>1, OnlyOneMoves
  <1>2. Result(c)' = Result(c)
    BY DEF Result
  <1>3. Phase(c)' = IF step[c] \in Unasked THEN "unasked" ELSE "closed"
    BY DEF Phase, Unasked, Without
  <1>4. Phase(c) = "unasked" <=> step[c] \in Unasked
    BY DEF Phase, Unasked
  <1>5. (\E r \in requests : r.id = c) => step[c] \notin Unasked
    BY FilesWereAsked
  <1>6. SpoiledWereAsked'
    BY <1>5 DEF SpoiledWereAsked
  <1>7. [Contract!Next]_(Contract!vars)
    BY <1>1, <1>2, <1>3, <1>4, <1>5, ContractMoves
  <1> QED
    BY <1>6, <1>7

(* The steps of the parent keep the contract, too.                         *)
LEMMA ManagerKeepsContract ==
    ASSUME IInv, SpoiledWereAsked, Start \/ Stop \/ ParentDies
    PROVE  [Contract!Next]_(Contract!vars) /\ SpoiledWereAsked'
  <1>1. /\ step' = step /\ outcome' = outcome /\ requests' = requests
        /\ decided' = decided /\ spoiled' = spoiled
    BY DEF Start, Stop, ParentDies, Mishap, fileVars, childVars, limitVars
  <1>2. Considered' \subseteq Considered
    BY DEF Start, Stop, ParentDies, Considered, drainVars
  <1> QED
    BY <1>1, <1>2, Unseen DEF SpoiledWereAsked

(* A drain that goes from and to no question leaves the questions alone.   *)
LEMMA SameQuestions ==
    ASSUME IInv, NEW d \in Drains, NEW to \in DrainSteps, drain[d] # "asking", to # "asking",
           drain' = [drain EXCEPT ![d] = to],
           \A e \in Drains \ {d} : current'[e] = current[e]
    PROVE  Considered' = Considered
  <1>1. {e \in Drains : drain'[e] = "asking"} = {e \in Drains : drain[e] = "asking"}
    BY DEF IInv, TypeOK
  <1>2. \A e \in {e \in Drains : drain[e] = "asking"} : current'[e] = current[e]
    OBVIOUS
  <1> QED
    BY <1>1, <1>2 DEF Considered

(* A drain, mishaps and the death of its process included, considers only  *)
(* what is open and closes only what it has answered or could not read.    *)
LEMMA DrainKeepsContract ==
    ASSUME IInv, SpoiledWereAsked, NEW d \in Drains, Scan(d) \/ DrainStep(d) \/ Answer(d)
    PROVE  [Contract!Next]_(Contract!vars) /\ SpoiledWereAsked'
  <1>0. /\ drain \in [Drains -> DrainSteps]
        /\ current \in [Drains -> Children \union {Nobody}]
        /\ decided \in [Children -> SUBSET Decisions]
        /\ \A e \in Drains : drain[e] = "deleting" => current[e] \in Children
        /\ drain[d] = "asking" => current[d] \in Children
    BY DEF IInv, TypeOK, DrainSound
  <1> USE DEF DrainMoves, childVars, limitVars, fileVars
  \* A step that takes no request, asks nothing and decides nothing.
  <1>1. ASSUME NEW to \in DrainSteps, drain[d] # "asking", to # "asking",
               drain' = [drain EXCEPT ![d] = to],
               \A e \in Drains \ {d} : current'[e] = current[e],
               requests' = requests, step' = step, outcome' = outcome,
               decided' = decided, spoiled' = spoiled
        PROVE  [Contract!Next]_(Contract!vars) /\ SpoiledWereAsked'
    BY <1>1, SameQuestions, Unseen DEF SpoiledWereAsked
  <1>2. CASE Scan(d) \/ EnsureResponses(d) \/ EnsureFails(d)
    BY <1>1, <1>2 DEF Scan, EnsureResponses, EnsureFails, Mishap
  <1>3. CASE Respond(d) \/ RespondFails(d)
    <2>1. spoiled' = spoiled /\ \A e \in Drains \ {d} : current'[e] = current[e]
      BY <1>0, <1>3 DEF Respond, RespondFails, Returns, Mishap
    <2>2. PICK to \in {"deleting", "scanning"} : DrainMoves(d, "responding", to)
      BY <1>3 DEF Respond, RespondFails
    <2> QED
      BY <1>1, <1>3, <2>1, <2>2 DEF Respond, RespondFails
  <1>4. CASE DrainCleansRequests(d) \/ DrainCleansResponses(d)
    <2>1. PICK to \in {"cleanResponses", "idle"} :
              drain' = [drain EXCEPT ![d] = to] /\ drain[d] # "asking"
      BY <1>4, Zenon DEF DrainCleansRequests, DrainCleansResponses
    <2>2. /\ requests' = requests /\ step' = step /\ outcome' = outcome
          /\ decided' = decided /\ spoiled' = spoiled /\ current' = current
      BY <1>4, Zenon DEF DrainCleansRequests, DrainCleansResponses
    <2> QED
      BY <1>1, <2>1, <2>2
  <1>5. CASE DrainCleanupFails(d)
    <2>1. PICK to \in {"scanning", "idle"} :
              drain' = [drain EXCEPT ![d] = to] /\ drain[d] # "asking"
      BY <1>5, Zenon DEF DrainCleanupFails
    <2>2. /\ requests' = requests /\ step' = step /\ outcome' = outcome
          /\ decided' = decided /\ spoiled' = spoiled
          /\ \A e \in Drains \ {d} : current'[e] = current[e]
      BY <1>0, <1>5 DEF DrainCleanupFails, Returns, Mishap
    <2> QED
      BY <1>1, <2>1, <2>2
  <1>6. ASSUME NEW c \in Children, SkipFile(d, c) \/ ReadFails(d, c)
        PROVE  [Contract!Next]_(Contract!vars) /\ SpoiledWereAsked'
    <2>1. /\ requests' = Without(c) /\ step' = step /\ outcome' = outcome
          /\ decided' = decided /\ current' = current
          /\ drain[d] = "scanning" /\ drain' = [drain EXCEPT ![d] = "scanning"]
      BY <1>6 DEF SkipFile, ReadFails
    <2>2. \/ spoiled' = spoiled
          \/ spoiled' = spoiled \union {c} /\ \E r \in requests : r.id = c
      <3>1. CASE SkipFile(d, c)
        BY <3>1 DEF SkipFile
      <3>2. CASE ReadFails(d, c)
        <4>1. [id |-> c, valid |-> TRUE] \in requests /\ [id |-> c, valid |-> TRUE].id = c
          BY <3>2 DEF ReadFails, Readable
        <4>2. spoiled' = spoiled \union {c}
          BY <3>2 DEF ReadFails, Spoils
        <4> QED
          BY <4>1, <4>2
      <3> QED
        BY <1>6, <3>1, <3>2
    <2>3. Considered' = Considered
      BY <2>1, SameQuestions
    <2> QED
      BY <2>1, <2>2, <2>3, FileGoes
  <1>7. CASE DeleteRequest(d)
    <2>1. /\ requests' = Without(current[d]) /\ step' = step /\ outcome' = outcome
          /\ decided' = decided /\ spoiled' = spoiled /\ current[d] \in Children
          /\ drain[d] = "deleting" /\ drain' = [drain EXCEPT ![d] = "scanning"]
          /\ \A e \in Drains \ {d} : current'[e] = current[e]
      BY <1>0, <1>7 DEF DeleteRequest, Returns
    <2>2. Considered' = Considered
      BY <2>1, SameQuestions
    <2> QED
      BY <2>1, <2>2, FileGoes
  <1>8. ASSUME NEW c \in Children, AskFor(d, c)
        PROVE  [Contract!Next]_(Contract!vars) /\ SpoiledWereAsked'
    <2>1. /\ requests' = requests /\ step' = step /\ outcome' = outcome
          /\ decided' = decided /\ spoiled' = spoiled
          /\ drain[d] = "scanning" /\ drain' = [drain EXCEPT ![d] = "asking"]
          /\ current' = [current EXCEPT ![d] = c]
      BY <1>8 DEF AskFor
    <2>2. Considered' = Considered \union {c}
      <3>1. {e \in Drains : drain'[e] = "asking"} = {e \in Drains : drain[e] = "asking"} \union {d}
        BY <1>0, <2>1
      <3>2. current'[d] = c /\ \A e \in {f \in Drains : drain[f] = "asking"} : current'[e] = current[e]
        BY <1>0, <2>1
      <3> QED
        BY <3>1, <3>2 DEF Considered
    <2>3. Phase(c) = "open"
      <3>1. [id |-> c, valid |-> TRUE] \in requests /\ [id |-> c, valid |-> TRUE].id = c
        BY <1>8 DEF AskFor, Readable
      <3>2. step[c] \notin Unasked
        BY <3>1, FilesWereAsked
      <3>3. \E r \in requests : r.id = c
        BY <3>1
      <3> QED
        BY <3>2, <3>3 DEF Phase, Unasked
    <2>4. \A k \in Children : Phase(k)' = Phase(k) /\ Result(k)' = Result(k)
      BY <2>1 DEF Phase, Result
    <2>5. Contract!Consider(c)
      BY <2>1, <2>2, <2>3, <2>4 DEF Contract!Consider, Considered
    <2> QED
      BY <2>1, <2>5 DEF Contract!Next, SpoiledWereAsked
  <1>9. ASSUME NEW c \in Children, RuleDecides(d, c)
        PROVE  [Contract!Next]_(Contract!vars) /\ SpoiledWereAsked'
    <2>1. /\ requests' = requests /\ step' = step /\ outcome' = outcome /\ spoiled' = spoiled
          /\ drain[d] = "scanning" /\ drain' = [drain EXCEPT ![d] = "responding"]
          /\ current' = [current EXCEPT ![d] = c]
          /\ \E v \in Decisions : decided' = [decided EXCEPT ![c] = @ \union {v}]
      BY <1>9 DEF RuleDecides, Decides
    <2>2. Considered' = Considered
      BY <1>0, <2>1, SameQuestions
    <2>3. Phase(c) = "open"
      <3>1. [id |-> c, valid |-> TRUE] \in requests /\ [id |-> c, valid |-> TRUE].id = c
        BY <1>9 DEF RuleDecides, Readable
      <3>2. step[c] \notin Unasked
        BY <3>1, FilesWereAsked
      <3>3. \E r \in requests : r.id = c
        BY <3>1
      <3> QED
        BY <3>2, <3>3 DEF Phase, Unasked
    <2>4. \A k \in Children : Phase(k)' = Phase(k) /\ Result(k)' = Result(k)
      BY <2>1 DEF Phase, Result
    <2>5. Contract!Decide(c)
      BY <2>1, <2>2, <2>3, <2>4 DEF Contract!Decide, Considered
    <2> QED
      BY <2>1, <2>5 DEF Contract!Next, SpoiledWereAsked
  <1>10. CASE Answer(d)
    <2>0. PICK c \in Children : c = current[d]
      BY <1>0, <1>10 DEF Answer
    <2>1. /\ requests' = requests /\ step' = step /\ outcome' = outcome /\ spoiled' = spoiled
          /\ drain[d] = "asking" /\ drain' = [drain EXCEPT ![d] = "responding"]
          /\ current' = current
          /\ \E v \in Decisions : decided' = [decided EXCEPT ![c] = @ \union {v}]
      BY <1>0, <1>10, <2>0 DEF Answer, Decides
    <2>2. c \in Considered
      BY <2>0, <2>1 DEF Considered
    <2>3. Considered' \in {Considered, Considered \ {c}}
      <3>1. {e \in Drains : drain'[e] = "asking"} = {e \in Drains : drain[e] = "asking"} \ {d}
        BY <1>0, <2>1
      <3>2. Considered' = {current[e] : e \in {f \in Drains : drain[f] = "asking"} \ {d}}
        BY <2>1, <3>1 DEF Considered
      <3>3. Considered \ {c} \subseteq Considered' /\ Considered' \subseteq Considered
        BY <2>0, <3>2 DEF Considered
      <3> QED
        BY <3>3
    <2>4. \A k \in Children : Phase(k)' = Phase(k) /\ Result(k)' = Result(k)
      BY <2>1 DEF Phase, Result
    <2>5. Contract!Decide(c)
      BY <2>1, <2>2, <2>3, <2>4 DEF Contract!Decide, Considered
    <2> QED
      BY <2>1, <2>5 DEF Contract!Next, SpoiledWereAsked
  <1> QED
    BY <1>2, <1>3, <1>4, <1>5, <1>6, <1>7, <1>8, <1>9, <1>10 DEF DrainStep

(* However many children, drains and mishaps there are, the protocol over  *)
(* files is seen from outside as ForwardedDecision says: a request asked   *)
(* once, considered only while it is open, and returned once with what was *)
(* decided on it or with nothing (escalate(), processInbox()).             *)
THEOREM ImplementsContract == Spec => KeepsContract
  <1>1. Init => Contract!Init /\ SpoiledWereAsked
    BY DEF Init, Contract!Init, SpoiledWereAsked, Phase, Result
  <1>2. IInv /\ SpoiledWereAsked /\ [Next]_vars =>
            [Contract!Next]_(Contract!vars) /\ SpoiledWereAsked'
    <2> SUFFICES ASSUME IInv, SpoiledWereAsked, [Next]_vars
                 PROVE  [Contract!Next]_(Contract!vars) /\ SpoiledWereAsked'
      OBVIOUS
    <2>1. CASE Next
      BY <2>1, ChildKeepsContract, ManagerKeepsContract, DrainKeepsContract DEF Next
    <2>2. CASE UNCHANGED vars
      <3>1. Considered' = Considered
        BY <2>2 DEF vars, serverVars, drainVars, Considered
      <3> QED
        BY <2>2, <3>1, Unseen
        DEF vars, fileVars, childVars, serverVars, limitVars, SpoiledWereAsked
    <2> QED
      BY <2>1, <2>2
  <1> QED
    BY <1>1, <1>2, InvariantHolds, PTL DEF Spec, KeepsContract, Contract!Spec

--------------------------------------------------------------------------------
(***************************************************************************)
(* Whether anybody will answer: ServingLiveness.  NobodyIsWaitedFor rests  *)
(* on the record being as old as the time nobody polls (RecordIsOld), for  *)
(* only who polls writes it (WritersServe), and on how the child's window  *)
(* adds to that (IdleEnds).                                                *)
(***************************************************************************)
Operations == {"delete", "list", "sweep", "write"}

ServingTypes ==
    /\ status \in [Procs -> {"up", "hung", "dead", "reused"}]
    /\ live \in [Procs -> Sessions] /\ served \in [Procs -> Sessions \cup {None}]
    /\ since \in [Procs -> Nat]
    /\ published \in [Procs -> Nat \cup {NoTime}] /\ swept \in [Procs -> BOOLEAN]
    /\ pending \in [Procs -> Seq(Operations)]
    /\ record \in [by : Procs \cup {None}, age : Nat] /\ (record.by = None => record = NoRecord)
    /\ child \in {"idle", "waiting", "answered", "gaveUp", "gone"} /\ host \in Procs \cup {None}
    /\ polled \in 0 .. Gap /\ unserved \in 0 .. Grace \cup {NoTime}
    /\ servedFor \in Nat /\ idleFor \in Nat /\ lost \in Nat \cup {NoTime}

(* Whether a record is to be written among these operations. *)
Writing(operations) == \E i \in DOMAIN operations : operations[i] = "write"

(* A session writes only a record of the target, and only while it polls it. *)
WritersServe == \A p \in Procs : Writing(pending[p]) => Polls(p)

(* Nobody wrote the record since nobody polls. *)
RecordIsOld ==
    child = "waiting" /\ host = None /\ record # NoRecord => record.age >= idleFor \/ record.age >= Stale

IdleEnds ==
    /\ Served => idleFor = 0
    /\ child # "waiting" => idleFor = 0
    /\ unserved = NoTime => idleFor <= Stale + polled
    /\ unserved # NoTime => idleFor <= Stale + Gap + unserved + IF unserved >= Grace THEN polled ELSE 0

ServingInv == ServingTypes /\ WritersServe /\ RecordIsOld /\ IdleEnds

LEMMA TailWrites ==
    ASSUME NEW operations \in Seq(Operations), operations # <<>>
    PROVE  /\ Tail(operations) \in Seq(Operations)
           /\ Writing(Tail(operations)) => Writing(operations)
           /\ Head(operations) = "write" => Writing(operations)
<1>1. /\ Len(operations) \in Nat \ {0} /\ DOMAIN operations = 1 .. Len(operations) /\ Head(operations) = operations[1]
      /\ Tail(operations) \in Seq(Operations) /\ DOMAIN Tail(operations) = 1 .. Len(operations) - 1
      /\ \A i \in 1 .. Len(operations) - 1 : Tail(operations)[i] = operations[i + 1]
  OBVIOUS
<1>2. \A i \in DOMAIN Tail(operations) : i + 1 \in DOMAIN operations /\ Tail(operations)[i] = operations[i + 1]
  BY <1>1
<1>3. 1 \in DOMAIN operations
  BY <1>1
<1> QED
  BY <1>1, <1>2, <1>3 DEF Writing

LEMMA BothWrite ==
    ASSUME NEW first \in Seq(Operations), NEW second \in Seq(Operations)
    PROVE  /\ first \o second \in Seq(Operations)
           /\ Writing(first \o second) => Writing(first) \/ Writing(second)
<1>1. first \o second \in Seq(Operations) /\ Len(first) \in Nat /\ Len(second) \in Nat
      /\ DOMAIN (first \o second) = 1 .. Len(first) + Len(second)
      /\ \A i \in 1 .. Len(first) + Len(second) :
            (first \o second)[i] = IF i <= Len(first) THEN first[i] ELSE second[i - Len(first)]
  OBVIOUS
<1>2. ASSUME NEW i \in 1 .. Len(first) + Len(second), (first \o second)[i] = "write" PROVE Writing(first) \/ Writing(second)
  <2>1. CASE i <= Len(first)
    <3>1. i \in DOMAIN first /\ first[i] = "write"
      BY <1>1, <1>2, <2>1
    <3> QED
      BY <3>1 DEF Writing
  <2>2. CASE ~(i <= Len(first))
    <3>1. i - Len(first) \in DOMAIN second /\ second[i - Len(first)] = "write"
      BY <1>1, <1>2, <2>2
    <3> QED
      BY <3>1 DEF Writing
  <2> QED
    BY <2>1, <2>2
<1>3. Writing(first \o second) => Writing(first) \/ Writing(second)
  <2> HAVE Writing(first \o second)
  <2>1. PICK i \in DOMAIN (first \o second) : (first \o second)[i] = "write"
    BY DEF Writing
  <2> QED
    BY <1>1, <1>2, <2>1
<1> QED
  BY <1>1, <1>3

LEMMA AnnouncementWrites ==
    ASSUME NEW p, NEW s
    PROVE  /\ Withdrawal(p) \in Seq(Operations) /\ ~Writing(Withdrawal(p))
           /\ Marking(p, s) \in Seq(Operations) /\ (Writing(Marking(p, s)) => s = Target)
           /\ Withdrawal(p) \o Marking(p, s) \in Seq(Operations) /\ (Writing(Withdrawal(p) \o Marking(p, s)) => s = Target)
<1>1. <<>> \in Seq(Operations) /\ ~Writing(<<>>)
  BY DEF Writing
<1>2. ASSUME NEW o \in Operations PROVE <<o>> \in Seq(Operations) /\ (Writing(<<o>>) => o = "write")
  BY DEF Writing
<1>3. Withdrawal(p) \in Seq(Operations) /\ ~Writing(Withdrawal(p))
  BY <1>1, <1>2 DEF Withdrawal, Operations
<1> DEFINE first == IF swept[p] THEN <<>> ELSE <<"list">>
           second == IF s = Target THEN <<"write">> ELSE <<>>
<1>4. first \in Seq(Operations) /\ ~Writing(first)
  BY <1>1, <1>2 DEF Operations
<1>5. second \in Seq(Operations) /\ (Writing(second) => s = Target)
  BY <1>1, <1>2 DEF Operations
<1>6. Marking(p, s) = first \o second
  BY DEF Marking
<1> HIDE DEF first, second
<1>7. Marking(p, s) \in Seq(Operations) /\ (Writing(Marking(p, s)) => s = Target)
  BY <1>4, <1>5, <1>6, BothWrite
<1> QED
  BY <1>3, <1>7, BothWrite

LEMMA InitServing == ServingInit => ServingInv
<1> SUFFICES ASSUME ServingInit PROVE ServingInv
  OBVIOUS
<1>1. ServingTypes
  BY LivenessAssumption DEF ServingInit, ServingTypes, NoRecord, NoTime
<1>2. WritersServe
  BY DEF ServingInit, WritersServe, Writing
<1>3. RecordIsOld /\ IdleEnds
  BY LivenessAssumption DEF ServingInit, RecordIsOld, IdleEnds
<1> QED
  BY <1>1, <1>2, <1>3 DEF ServingInv

(***************************************************************************)
(* Steps that take no time.                                                *)
(***************************************************************************)
LEMMA StepTypes == ASSUME ServingInv, ServingNext PROVE ServingTypes' 
<1> USE LivenessAssumption
<1>0. ServingTypes
  BY DEF ServingInv
<1>1. ASSUME NEW p \in Procs PROVE /\ pending[p] \in Seq(Operations) /\ served[p] \in Sessions \cup {None} /\ live[p] \in Sessions
                                   /\ (pending[p] # <<>> => Tail(pending[p]) \in Seq(Operations))
  BY <1>0, TailWrites DEF ServingTypes
<1>2. ASSUME Follow PROVE servedFor' \in Nat /\ idleFor' \in Nat
  BY <1>0, <1>2 DEF Follow, ServingTypes
<1>3. ASSUME NEW n, Loses(n), n \in Nat PROVE lost' \in Nat \cup {NoTime}
  BY <1>0, <1>3 DEF Loses, ServingTypes
<1>4. \A p : Loss(p) \in Nat
  BY DEF Loss
<1>5. NoRecord \in [by : Procs \cup {None}, age : Nat] /\ NoRecord.by = None
  BY DEF NoRecord
<1>6. ASSUME NEW p \in Procs, Announce(p) PROVE served' \in [Procs -> Sessions \cup {None}] /\ pending' \in [Procs -> Seq(Operations)]
  <2>1. Withdrawal(p) \o Marking(p, live[p]) \in Seq(Operations)
    BY AnnouncementWrites
  <2> QED
    BY <1>0, <1>1, <1>6, <2>1 DEF Announce, ServingTypes
<1>7. ASSUME NEW p \in Procs, Starts(p) PROVE ServingTypes'
  BY <1>0, <1>2, <1>6, <1>7 DEF Starts, ServingTypes, waiterVars
<1>8. ASSUME NEW p \in Procs, Stops(p) PROVE ServingTypes'
  BY <1>0, <1>2, <1>8, AnnouncementWrites DEF Stops, ServingTypes, waiterVars
<1>9. ASSUME NEW p \in Procs, Tick(p) PROVE ServingTypes'
  <2>1. served' \in [Procs -> Sessions \cup {None}] /\ pending' \in [Procs -> Seq(Operations)]
    <3>1. Marking(p, live[p]) \in Seq(Operations)
      BY AnnouncementWrites
    <3>2. CASE Announce(p)
      BY <1>6, <3>2
    <3>3. CASE ~Announce(p)
      <4>1. served' = served /\ (pending' = pending \/ pending' = [pending EXCEPT ![p] = Marking(p, live[p])])
        BY <1>9, <3>3 DEF Tick
      <4>2. pending' \in [Procs -> Seq(Operations)]
        BY <1>0, <3>1, <4>1 DEF ServingTypes
      <4> QED
        BY <1>0, <4>1, <4>2 DEF ServingTypes
    <3> QED
      BY <3>2, <3>3
  <2> QED
    BY <1>0, <1>2, <1>9, <2>1 DEF Tick, ServingTypes, waiterVars
<1>10. ASSUME NEW p \in Procs, pending[p] # <<>>, Done(p) PROVE pending' \in [Procs -> Seq(Operations)]
  <2>1. Tail(pending[p]) \in Seq(Operations)
    BY <1>1, <1>10
  <2> QED
    BY <1>0, <1>10, <2>1 DEF Done, ServingTypes
<1>11. ASSUME NEW p \in Procs, Withdraws(p) PROVE ServingTypes'
  <2>1. lost' \in Nat \cup {NoTime}
    BY <1>3, <1>4, <1>11 DEF Withdraws
  <2>2. pending' \in [Procs -> Seq(Operations)]
    BY <1>10, <1>11 DEF Withdraws, Doing
  <2> QED
    BY <1>0, <1>2, <1>5, <1>11, <2>1, <2>2 DEF Withdraws, ServingTypes, managerVars, waiterVars
<1>12. ASSUME NEW p \in Procs, Lists(p) PROVE ServingTypes'
  <2>1. Tail(pending[p]) \in Seq(Operations)
    BY <1>1, <1>12 DEF Lists, Doing
  <2>2. <<"sweep">> \in Seq(Operations)
    BY DEF Operations
  <2>3. <<"sweep">> \o Tail(pending[p]) \in Seq(Operations)
    BY <2>1, <2>2, BothWrite
  <2>4. pending' \in [Procs -> Seq(Operations)]
    BY <1>0, <1>12, <2>1, <2>3 DEF Lists, ServingTypes
  <2> QED
    BY <1>0, <1>2, <1>12, <2>4 DEF Lists, ServingTypes, managerVars, waiterVars
<1>13. ASSUME NEW p \in Procs, Sweeps(p) PROVE ServingTypes'
  <2>1. lost' \in Nat \cup {NoTime}
    BY <1>3, <1>4, <1>13 DEF Sweeps
  <2>2. pending' \in [Procs -> Seq(Operations)]
    BY <1>10, <1>13 DEF Sweeps, Doing
  <2> QED
    BY <1>0, <1>2, <1>5, <1>13, <2>1, <2>2 DEF Sweeps, ServingTypes, managerVars, waiterVars
<1>14. ASSUME NEW p \in Procs, Writes(p) PROVE ServingTypes'
  <2>1. pending' \in [Procs -> Seq(Operations)]
    BY <1>10, <1>14 DEF Writes, Doing
  <2>2. record' \in [by : Procs \cup {None}, age : Nat] /\ record'.by # None
    BY <1>14 DEF Writes
  <2>3. published' \in [Procs -> Nat \cup {NoTime}]
    BY <1>0, <1>14 DEF Writes, ServingTypes
  <2> QED
    BY <1>0, <1>2, <1>14, <2>1, <2>2, <2>3 DEF Writes, ServingTypes, managerVars, waiterVars
<1>15. ASSUME NEW p \in Procs, MarkingFails(p) PROVE ServingTypes'
  <2>1. lost' \in Nat \cup {NoTime}
    BY <1>3, <1>15 DEF MarkingFails
  <2>2. pending' \in [Procs -> Seq(Operations)]
    BY <1>0, <1>15 DEF MarkingFails, ServingTypes
  <2> QED
    BY <1>0, <1>2, <1>15, <2>1, <2>2 DEF MarkingFails, ServingTypes, managerVars, waiterVars
<1>16. ASSUME NEW p \in Procs, Renamed(p) PROVE ServingTypes'
  <2>1. live' \in [Procs -> Sessions]
    BY <1>0, <1>16 DEF Renamed, ServingTypes
  <2> QED
    BY <1>0, <1>2, <1>16, <2>1 DEF Renamed, ServingTypes, storeVars, waiterVars
<1>17. ASSUME NEW p \in Procs, Hangs(p) PROVE ServingTypes'
  <2>1. lost' \in Nat \cup {NoTime}
    <3>1. (IF record.by = p /\ status[p] = "up" THEN Loss(p) ELSE 0) \in Nat
      BY <1>4
    <3> QED
      BY <1>3, <1>17, <3>1 DEF Hangs
  <2>2. status' \in [Procs -> {"up", "hung", "dead", "reused"}]
    BY <1>0, <1>17 DEF Hangs, ServingTypes
  <2> QED
    BY <1>0, <1>2, <1>17, <2>1, <2>2 DEF Hangs, ServingTypes, storeVars, managerVars, waiterVars
<1>18. ASSUME NEW p \in Procs, Dies(p) PROVE ServingTypes'
  <2>1. lost' \in Nat \cup {NoTime}
    <3>1. (IF record.by = p THEN Loss(p) ELSE 0) \in Nat
      BY <1>4
    <3> QED
      BY <1>3, <1>18, <3>1 DEF Dies
  <2>2. /\ status' \in [Procs -> {"up", "hung", "dead", "reused"}] /\ served' \in [Procs -> Sessions \cup {None}]
        /\ published' \in [Procs -> Nat \cup {NoTime}] /\ pending' \in [Procs -> Seq(Operations)]
    BY <1>0, <1>18 DEF Dies, ServingTypes
  <2> QED
    BY <1>0, <1>2, <1>18, <2>1, <2>2 DEF Dies, ServingTypes
<1>19. ASSUME NEW p \in Procs, PidReused(p) PROVE ServingTypes'
  BY <1>0, <1>2, <1>19 DEF PidReused, ServingTypes, storeVars, managerVars, waiterVars
<1>20. CASE Removed
  <2>1. lost' \in Nat \cup {NoTime}
    BY <1>3, <1>20 DEF Removed
  <2> QED
    BY <1>0, <1>2, <1>5, <1>20, <2>1 DEF Removed, ServingTypes, storeVars, managerVars, waiterVars
<1>21. CASE Forwards
  BY <1>0, <1>2, <1>21 DEF Forwards, ServingTypes, storeVars, managerVars
<1>22. CASE ChildPolls
  <2>1. unserved' \in 0 .. Grace \cup {NoTime} /\ polled' \in 0 .. Gap /\ child' \in {"waiting", "gaveUp"}
    BY <1>0, <1>22 DEF ChildPolls, ChildRuns, Window, NoTime, ServingTypes
  <2> QED
    BY <1>0, <1>2, <1>22, <2>1 DEF ChildPolls, ServingTypes, storeVars, managerVars
<1>23. CASE ChildEnds
  BY <1>0, <1>2, <1>23 DEF ChildEnds, ServingTypes, storeVars, managerVars
<1>24. CASE Elapse
  <2>1. ASSUME NEW age \in Nat, NEW bound \in Nat PROVE Upto(age, bound) \in Nat /\ (age <= bound => Upto(age, bound) <= bound)
    BY DEF Upto, NoTime
  <2>2. \A bound : Upto(NoTime, bound) = NoTime
    BY DEF Upto
  <2>3. since' \in [Procs -> Nat] /\ published' \in [Procs -> Nat \cup {NoTime}]
    BY <1>0, <1>24, <2>1, <2>2 DEF Elapse, ServingTypes
  <2>4. record' \in [by : Procs \cup {None}, age : Nat] /\ (record'.by = None => record' = NoRecord)
    <3>1. CASE record = NoRecord
      BY <1>0, <1>24, <3>1 DEF Elapse, ServingTypes
    <3>2. CASE record # NoRecord
      <4>1. Upto(record.age, Stale) \in Nat
        BY <1>0, <2>1 DEF ServingTypes
      <4>2. record' = [record EXCEPT !.age = Upto(record.age, Stale)]
        BY <1>0, <1>24, <3>2 DEF Elapse, ServingTypes
      <4> QED
        BY <1>0, <3>2, <4>1, <4>2 DEF ServingTypes
    <3> QED
      BY <3>1, <3>2
  <2>5. polled' \in 0 .. Gap
    BY <1>0, <1>24, <2>1 DEF Elapse, ServingTypes
  <2>6. unserved' \in 0 .. Grace \cup {NoTime}
    BY <1>0, <1>24, <2>1, <2>2 DEF Elapse, ServingTypes
  <2>7. servedFor' \in Nat /\ idleFor' \in Nat
    <3>1. Patience + 1 \in Nat
      BY DEF Patience
    <3> QED
      BY <1>0, <1>24, <2>1, <3>1 DEF Elapse, ServingTypes
  <2>8. lost' \in Nat \cup {NoTime}
    BY <1>0, <1>24 DEF Elapse, ServingTypes, NoTime
  <2> QED
    BY <1>0, <1>24, <2>3, <2>4, <2>5, <2>6, <2>7, <2>8 DEF Elapse, ServingTypes
<1> QED
  BY <1>7, <1>8, <1>9, <1>11, <1>12, <1>13, <1>14, <1>15, <1>16, <1>17, <1>18, <1>19, <1>20, <1>21, <1>22, <1>23, <1>24
     DEF ServingNext, Announcement

LEMMA StepWriters == ASSUME ServingInv, ServingNext PROVE WritersServe'
<1>0. ServingTypes /\ WritersServe
  BY DEF ServingInv
<1> USE DEF Polls
<1>1. ASSUME NEW p \in Procs PROVE pending[p] \in Seq(Operations)
  BY <1>0 DEF ServingTypes
<1>2. ~Writing(<<>>)
  BY DEF Writing
<1>3. ASSUME NEW p \in Procs, status' = status, Announce(p), status[p] = "up" PROVE WritersServe'
  <2>1. Writing(pending'[p]) => live[p] = Target
    BY <1>0, <1>3, AnnouncementWrites DEF Announce, ServingTypes
  <2> QED
    BY <1>0, <1>3, <2>1 DEF Announce, ServingTypes, WritersServe
<1>4. ASSUME NEW p \in Procs, Starts(p) PROVE WritersServe'
  BY <1>3, <1>4 DEF Starts
<1>5. ASSUME NEW p \in Procs, Stops(p) PROVE WritersServe'
  <2>1. ~Writing(Withdrawal(p))
    BY AnnouncementWrites
  <2> QED
    BY <1>0, <1>5, <2>1 DEF Stops, ServingTypes, WritersServe
<1>6. ASSUME NEW p \in Procs, Tick(p) PROVE WritersServe'
  <2>1. CASE Announce(p)
    BY <1>3, <1>6, <2>1 DEF Tick
  <2>2. CASE ~Announce(p)
    <3>1. /\ status' = status /\ served' = served /\ status[p] = "up"
          /\ pending' = pending \/ (pending' = [pending EXCEPT ![p] = Marking(p, live[p])] /\ live[p] = served[p])
      BY <1>6, <2>2 DEF Tick
    <3>2. Writing(Marking(p, live[p])) => live[p] = Target
      BY AnnouncementWrites
    <3> QED
      BY <1>0, <3>1, <3>2 DEF ServingTypes, WritersServe
  <2> QED
    BY <2>1, <2>2
<1>7. ASSUME NEW p \in Procs, pending[p] # <<>>, status' = status, served' = served,
             pending' = [pending EXCEPT ![p] = Tail(pending[p])] \/ pending' = [pending EXCEPT ![p] = <<"sweep">> \o Tail(pending[p])]
      PROVE  WritersServe'
  <2>1. Tail(pending[p]) \in Seq(Operations) /\ (Writing(Tail(pending[p])) => Writing(pending[p]))
    BY <1>1, <1>7, TailWrites
  <2>2. <<"sweep">> \in Seq(Operations) /\ ~Writing(<<"sweep">>)
    BY DEF Operations, Writing
  <2>3. Writing(<<"sweep">> \o Tail(pending[p])) => Writing(pending[p])
    BY <2>1, <2>2, BothWrite
  <2> QED
    BY <1>0, <1>7, <2>1, <2>3 DEF ServingTypes, WritersServe
<1>8. ASSUME NEW p \in Procs, Withdraws(p) \/ Sweeps(p) \/ Writes(p) \/ Lists(p) PROVE WritersServe'
  <2>1. pending[p] # <<>> /\ status' = status /\ served' = served
    BY <1>8 DEF Withdraws, Sweeps, Writes, Lists, Doing, managerVars
  <2>2. pending' = [pending EXCEPT ![p] = Tail(pending[p])] \/ pending' = [pending EXCEPT ![p] = <<"sweep">> \o Tail(pending[p])]
    BY <1>8 DEF Withdraws, Sweeps, Writes, Lists, Done
  <2> QED
    BY <1>7, <2>1, <2>2
<1>9. ASSUME NEW p \in Procs, MarkingFails(p) PROVE WritersServe'
  BY <1>0, <1>2, <1>9 DEF MarkingFails, ServingTypes, WritersServe, managerVars
<1>10. ASSUME NEW p \in Procs, Hangs(p) PROVE WritersServe'
  BY <1>0, <1>2, <1>10 DEF Hangs, ServingTypes, WritersServe, managerVars, storeVars
<1>11. ASSUME NEW p \in Procs, Dies(p) PROVE WritersServe'
  BY <1>0, <1>2, <1>11 DEF Dies, ServingTypes, WritersServe
<1>12. ASSUME NEW p \in Procs, PidReused(p) PROVE WritersServe'
  BY <1>0, <1>12 DEF PidReused, ServingTypes, WritersServe, managerVars, storeVars
<1>13. ASSUME UNCHANGED <<status, served, pending>> PROVE WritersServe'
  BY <1>0, <1>13 DEF WritersServe
<1>14. ASSUME NEW p \in Procs, Renamed(p) PROVE WritersServe'
  BY <1>13, <1>14 DEF Renamed, storeVars
<1>15. CASE Removed \/ Forwards \/ ChildPolls \/ ChildEnds \/ Elapse
  BY <1>13, <1>15 DEF Removed, Forwards, ChildPolls, ChildEnds, Elapse, managerVars, storeVars
<1> QED
  BY <1>4, <1>5, <1>6, <1>8, <1>9, <1>10, <1>11, <1>12, <1>14, <1>15 DEF ServingNext, Announcement

(* Who is waited for, when nobody polls: in a step that takes no time. *)
LEMMA BystanderKeeps ==
    ASSUME ServingInv, ServingTypes', Follow, polled' = polled, unserved' = unserved
    PROVE  IdleEnds' /\ idleFor' <= idleFor
<1>1. idleFor \in Nat /\ idleFor' \in {0, idleFor} /\ (Served' => idleFor' = 0) /\ (child' # "waiting" => idleFor' = 0)
  BY DEF Follow, ServingInv, ServingTypes
<1>2. polled \in 0 .. Gap /\ unserved \in 0 .. Grace \cup {NoTime} /\ Stale \in Nat /\ Gap \in Nat /\ Grace \in Nat
  BY LivenessAssumption DEF ServingInv, ServingTypes
<1> QED
  BY <1>1, <1>2 DEF ServingInv, IdleEnds, NoTime

LEMMA RecordKept ==
    ASSUME ServingInv, Follow, record' \in {record, NoRecord}, host' = host, child' = "waiting" => child = "waiting"
    PROVE  RecordIsOld'
<1>1. idleFor \in Nat /\ idleFor' \in {0, idleFor} /\ record.age \in Nat
  BY DEF Follow, ServingInv, ServingTypes
<1> QED
  BY <1>1 DEF ServingInv, RecordIsOld

LEMMA AllCounted ==
    ASSUME NEW a \in Nat, NEW b \in Nat
    PROVE  /\ 0 <= a + b
           /\ \A c, d, e \in Nat : 0 <= a + b + c + IF c >= d THEN e ELSE 0
  OBVIOUS

LEMMA OneMoreTerm ==
    ASSUME NEW a \in Nat, NEW b \in Nat, NEW c \in Nat, NEW d \in Nat, NEW e \in Nat, NEW i \in Nat, i <= a + b + c
    PROVE  i <= a + b + c + IF c >= d THEN e ELSE 0
  OBVIOUS

LEMMA StepRecord == ASSUME ServingInv, ServingNext, ServingTypes' PROVE RecordIsOld' /\ IdleEnds'
<1>0. ServingTypes /\ WritersServe /\ RecordIsOld /\ IdleEnds
  BY DEF ServingInv
<1>1. ASSUME NEW p \in Procs,
             Starts(p) \/ Stops(p) \/ Tick(p) \/ Withdraws(p) \/ Lists(p) \/ Sweeps(p) \/ MarkingFails(p)
             \/ Renamed(p) \/ Hangs(p) \/ Dies(p) \/ PidReused(p)
      PROVE  RecordIsOld' /\ IdleEnds'
  <2>1. Follow /\ record' \in {record, NoRecord} /\ host' = host /\ polled' = polled /\ unserved' = unserved
    BY <1>1 DEF Starts, Stops, Tick, Withdraws, Lists, Sweeps, MarkingFails, Renamed, Hangs, Dies, PidReused, storeVars, waiterVars
  <2>2. child' = "waiting" => child = "waiting"
    BY <1>1 DEF Starts, Stops, Tick, Withdraws, Lists, Sweeps, MarkingFails, Renamed, Hangs, Dies, PidReused, storeVars, waiterVars
  <2> QED
    BY <2>1, <2>2, BystanderKeeps, RecordKept
<1>2. ASSUME NEW p \in Procs, Writes(p) PROVE RecordIsOld' /\ IdleEnds'
  <2>1. Follow /\ host' = host /\ polled' = polled /\ unserved' = unserved /\ status' = status /\ served' = served
    BY <1>2 DEF Writes, waiterVars, managerVars
  <2>2. Polls(p)
    <3>1. pending[p] \in Seq(Operations) /\ pending[p] # <<>> /\ Head(pending[p]) = "write"
      BY <1>0, <1>2 DEF Writes, Doing, ServingTypes
    <3> QED
      BY <1>0, <3>1, TailWrites DEF WritersServe
  <2>3. host' = None => idleFor' = 0
    BY <2>1, <2>2 DEF Follow, Served, Polls
  <2>4. RecordIsOld'
    BY <1>2, <2>3 DEF Writes, RecordIsOld
  <2> QED
    BY <2>1, <2>4, BystanderKeeps
<1>3. CASE Removed
  <2>1. Follow /\ record' \in {record, NoRecord} /\ host' = host /\ polled' = polled /\ unserved' = unserved /\ child' = child
    BY <1>3 DEF Removed, waiterVars
  <2> QED
    BY <2>1, BystanderKeeps, RecordKept
<1>4. CASE Forwards
  <2>1. Follow /\ polled' = polled /\ unserved' = unserved /\ record' = record /\ child = "idle"
    BY <1>4 DEF Forwards
  <2>2. idleFor' = 0
    BY <1>0, <2>1 DEF Follow, IdleEnds
  <2>3. record'.age \in Nat
    BY DEF ServingTypes
  <2> QED
    BY <2>1, <2>2, <2>3, BystanderKeeps DEF RecordIsOld
<1>5. CASE ChildEnds
  <2>1. child' = "answered" /\ polled' = 0 /\ unserved' = NoTime /\ Follow
    BY <1>5 DEF ChildEnds
  <2>2. idleFor' = 0
    BY <2>1 DEF Follow
  <2> QED
    BY <2>1, <2>2, LivenessAssumption DEF RecordIsOld, IdleEnds
<1>6. CASE ChildPolls
  <2>1. child = "waiting" /\ polled' = 0 /\ Follow /\ record' = record /\ host' = host /\ status' = status /\ served' = served
    BY <1>6 DEF ChildPolls, ChildRuns, managerVars
  <2>2. RecordIsOld'
    BY <2>1, RecordKept
  <2>3. idleFor \in Nat /\ idleFor' \in {0, idleFor} /\ (Served' => idleFor' = 0) /\ (child' # "waiting" => idleFor' = 0)
    BY <1>0, <2>1 DEF Follow, ServingTypes
  <2>4. polled \in 0 .. Gap /\ unserved \in 0 .. Grace \cup {NoTime} /\ Stale \in Nat /\ Gap \in Nat /\ Grace \in Nat
    BY <1>0, LivenessAssumption DEF ServingTypes
  <2>5. CASE child' # "waiting"
    <3>1. unserved' = NoTime /\ idleFor' = 0
      BY <1>6, <2>1, <2>3, <2>5 DEF ChildPolls
    <3> QED
      BY <2>1, <2>2, <2>4, <3>1 DEF IdleEnds
  <2>6. CASE child' = "waiting"
    <3>1. Window < Grace /\ unserved' = Window
      BY <1>6, <2>6 DEF ChildPolls
    <3>2. CASE IsServing
      <4>1. unserved' = NoTime
        BY <3>1, <3>2 DEF Window
      <4>2. idleFor <= Stale
        <5>1. CASE host = None
          <6>1. record # NoRecord /\ ~(record.age >= Stale)
            BY <3>2, <5>1 DEF IsServing, State
          <6>2. record.age \in Nat /\ record.age >= idleFor
            BY <1>0, <2>1, <5>1, <6>1 DEF RecordIsOld, ServingTypes
          <6> QED
            BY <2>3, <2>4, <6>1, <6>2
        <5>2. CASE host # None
          <6>1. Served
            BY <1>0, <1>6, <3>2, <5>2 DEF Served, Polls, IsServing, ChildPolls, ChildRuns, ServingTypes
          <6> QED
            BY <1>0, <2>4, <6>1 DEF IdleEnds
        <5> QED
          BY <5>1, <5>2
      <4> QED
        BY <2>1, <2>2, <2>3, <2>4, <2>6, <4>1, <4>2 DEF IdleEnds
    <3>3. CASE ~IsServing
      <4>1. CASE unserved = NoTime
        <5>1. unserved' = 0 /\ 0 < Grace
          BY <3>1, <3>3, <4>1 DEF Window
        <5>2. idleFor <= Stale + polled
          BY <1>0, <4>1 DEF IdleEnds
        <5> QED
          BY <2>1, <2>2, <2>3, <2>4, <2>6, <5>1, <5>2 DEF IdleEnds, NoTime
      <4>2. CASE unserved # NoTime
        <5>1. unserved' = unserved /\ unserved < Grace
          BY <3>1, <3>3, <4>2 DEF Window
        <5>2. idleFor <= Stale + Gap + unserved + 0
          BY <1>0, <2>4, <4>2, <5>1 DEF IdleEnds, NoTime
        <5> QED
          BY <2>1, <2>2, <2>3, <2>4, <2>6, <4>2, <5>1, <5>2 DEF IdleEnds, NoTime
      <4> QED
        BY <4>1, <4>2
    <3> QED
      BY <3>2, <3>3
  <2> QED
    BY <2>5, <2>6
<1>7. CASE Elapse
  <2>1. /\ status' = status /\ served' = served /\ host' = host /\ child' = child
        /\ record' = (IF record = NoRecord THEN record ELSE [record EXCEPT !.age = Upto(@, Stale)])
        /\ polled' = (IF child = "waiting" THEN Upto(polled, Gap) ELSE 0)
        /\ unserved' = Upto(unserved, Grace)
        /\ idleFor' = (IF ChildRuns /\ ~Served THEN Upto(idleFor, Patience + 1) ELSE idleFor)
        /\ (ChildRuns => polled < Gap)
    BY <1>7 DEF Elapse, OnTime
  <2>2. /\ polled \in 0 .. Gap /\ unserved \in 0 .. Grace \cup {NoTime} /\ Stale \in Nat /\ Gap \in Nat /\ Grace \in Nat
        /\ idleFor \in Nat /\ record \in [by : Procs \cup {None}, age : Nat]
    BY <1>0, LivenessAssumption DEF ServingTypes
  <2>3. Served' <=> Served
    BY <2>1 DEF Served, Polls
  <2>4. idleFor' \in {idleFor, idleFor + 1} /\ (idleFor' # idleFor => ChildRuns /\ ~Served)
    BY <2>1, <2>2 DEF Upto
  <2>5. RecordIsOld'
    <3> SUFFICES ASSUME child = "waiting", host = None, record' # NoRecord PROVE record'.age >= idleFor' \/ record'.age >= Stale
      BY <2>1 DEF RecordIsOld
    <3>1. record # NoRecord /\ record'.age = Upto(record.age, Stale)
      BY <2>1, <2>2
    <3>2. record.age \in Nat /\ (record.age >= idleFor \/ record.age >= Stale)
      BY <1>0, <2>2, <3>1 DEF RecordIsOld
    <3> QED
      BY <2>2, <2>4, <3>1, <3>2 DEF Upto, NoTime
  <2>6. IdleEnds'
    <3>1. CASE child # "waiting" \/ Served
      <4>1. idleFor = 0 /\ idleFor' = 0
        BY <1>0, <2>4, <3>1 DEF IdleEnds, ChildRuns
      <4>2. polled' \in Nat /\ unserved' \in Nat \cup {NoTime}
        BY DEF ServingTypes
      <4>3. Stale \in Nat /\ Gap \in Nat /\ Grace \in Nat
        BY <2>2
      <4>4. unserved' # NoTime => 0 <= Stale + Gap + unserved' + IF unserved' >= Grace THEN polled' ELSE 0
        BY <4>2, <4>3, AllCounted
      <4>5. 0 <= Stale + polled'
        BY <4>2, <4>3, AllCounted
      <4> QED
        BY <4>1, <4>4, <4>5 DEF IdleEnds
    <3>2. CASE child = "waiting" /\ ~Served
      <4>1. polled' = (IF polled >= Gap THEN polled ELSE polled + 1) /\ (idleFor' # idleFor => polled' = polled + 1)
        BY <2>1, <2>2, <2>4, <3>2 DEF Upto, NoTime
      <4>2. CASE unserved = NoTime
        <5>1. unserved' = NoTime /\ idleFor <= Stale + polled
          BY <1>0, <2>1, <4>2 DEF Upto, IdleEnds
        <5>2. idleFor' <= Stale + polled'
          BY <2>2, <2>4, <4>1, <5>1
        <5> QED
          BY <2>1, <2>3, <3>2, <5>1, <5>2 DEF IdleEnds
      <4>3. CASE unserved # NoTime
        <5>1. unserved \in 0 .. Grace /\ unserved' = IF unserved >= Grace THEN unserved ELSE unserved + 1
          BY <2>1, <2>2, <4>3 DEF Upto
        <5>2. idleFor <= Stale + Gap + unserved + IF unserved >= Grace THEN polled ELSE 0
          BY <1>0, <4>3 DEF IdleEnds
        <5>3. CASE unserved >= Grace
          <6>1. idleFor' <= Stale + Gap + unserved' + polled' /\ unserved' >= Grace
            BY <2>2, <2>4, <4>1, <5>1, <5>2, <5>3
          <6> QED
            BY <2>1, <2>3, <3>2, <5>1, <5>3, <6>1 DEF IdleEnds, NoTime
        <5>4. CASE ~(unserved >= Grace)
          <6>1. idleFor <= Stale + Gap + unserved
            BY <2>2, <5>1, <5>2, <5>4
          <6>2. idleFor' <= Stale + Gap + unserved' /\ unserved' \in Nat /\ polled' \in Nat
            BY <2>2, <2>4, <4>1, <5>1, <5>4, <6>1
          <6>3. idleFor' \in Nat
            BY <2>2, <2>4
          <6>4. idleFor' <= Stale + Gap + unserved' + IF unserved' >= Grace THEN polled' ELSE 0
            <7>1. Stale \in Nat /\ Gap \in Nat /\ Grace \in Nat
              BY <2>2
            <7> QED
              BY <6>2, <6>3, <7>1, OneMoreTerm
          <6> QED
            BY <2>1, <2>3, <3>2, <6>2, <6>4 DEF IdleEnds, NoTime
        <5> QED
          BY <5>3, <5>4
      <4> QED
        BY <4>2, <4>3
    <3> QED
      BY <3>1, <3>2
  <2> QED
    BY <2>5, <2>6
<1> QED
  BY <1>1, <1>2, <1>3, <1>4, <1>5, <1>6, <1>7 DEF ServingNext, Announcement

LEMMA ServingInvHolds == ServingSpec => []ServingInv
<1>1. ServingInv /\ [ServingNext]_servingVars => ServingInv'
  <2> SUFFICES ASSUME ServingInv, [ServingNext]_servingVars PROVE ServingInv'
    OBVIOUS
  <2>1. CASE ServingNext
    <3>1. ServingTypes' /\ WritersServe'
      BY <2>1, StepTypes, StepWriters
    <3>2. RecordIsOld' /\ IdleEnds'
      BY <2>1, <3>1, StepRecord
    <3> QED
      BY <3>1, <3>2 DEF ServingInv
  <2>2. CASE UNCHANGED servingVars
    BY <2>2 DEF servingVars, managerVars, storeVars, waiterVars, ServingInv, ServingTypes, WritersServe, RecordIsOld, IdleEnds,
                Polls, Served
  <2> QED
    BY <2>1, <2>2
<1> QED
  BY <1>1, InitServing, PTL DEF ServingSpec

(* Types of ServingLiveness: a record names its writer, and an announcement
   is a list of file operations. *)
THEOREM ServingTypeCorrect == ServingSpec => []ServingTypes
<1>1. ServingInv => ServingTypes
  BY DEF ServingInv
<1> QED
  BY <1>1, ServingInvHolds, PTL

(***************************************************************************)
(* A child does not wait longer for nobody than the record of the last     *)
(* session can seem fresh, the grace window and two polls last: whatever   *)
(* the constants are.                                                      *)
(***************************************************************************)
THEOREM WaitsEnd == ServingSpec => []NobodyIsWaitedFor
<1>1. ServingInv => NobodyIsWaitedFor
  <2> SUFFICES ASSUME ServingInv PROVE idleFor <= Patience
    BY DEF NobodyIsWaitedFor
  <2>1. polled \in 0 .. Gap /\ unserved \in 0 .. Grace \cup {NoTime} /\ Stale \in Nat /\ Gap \in Nat /\ Grace \in Nat /\ idleFor \in Nat
    BY LivenessAssumption DEF ServingInv, ServingTypes
  <2>2. CASE unserved = NoTime
    BY <2>1, <2>2 DEF ServingInv, IdleEnds, Patience
  <2>3. CASE unserved # NoTime
    BY <2>1, <2>3 DEF ServingInv, IdleEnds, Patience
  <2> QED
    BY <2>2, <2>3
<1> QED
  BY <1>1, ServingInvHolds, PTL

--------------------------------------------------------------------------------
(***************************************************************************)
(* ServedIsWaitedFor.  Whoever serves has a record as young as its last    *)
(* writing, and its last tick, warrant, or a loss that is no older than    *)
(* that explains why it has not.  So by the time its throttle and its next *)
(* tick are over a loss is made good (RecordSound), before the next one;   *)
(* and the child, which looked in vain for no more than one poll when the  *)
(* loss came, has looked in vain since then at most (LooksBriefly).        *)
(***************************************************************************)
(***************************************************************************)
(* What the constants must be for the grace window to outlast each loss,   *)
(* which those of the code are: it is as long as a throttled writing and   *)
(* two polls, and so is the time between two losses, and a record stays    *)
(* fresh for a throttled writing and one poll.                             *)
(***************************************************************************)
WindowFits ==
    /\ Refresh + 2 * Gap <= Grace
    /\ Refresh + 2 * Gap <= Spacing
    /\ Refresh + Gap <= Stale

(* p serves the target, though it may hang. *)
Serves(p) == status[p] \in {"up", "hung"} /\ served[p] = Target

Sweeping(p) == pending[p] \in {<<"sweep">>, <<"sweep", "write">>}

(* What is left of an announcement tells what it has not done yet. *)
Fits(p) ==
    /\ ~swept[p] => published[p] = NoTime /\ ~Sweeping(p) /\ pending[p] # <<"write">>
    /\ served[p] = Target =>
          pending[p] \in {<<>>, <<"write">>} \/ (pending[p] \in {<<"list", "write">>, <<"sweep", "write">>} /\ published[p] = NoTime)
    /\ served[p] # Target =>
          pending[p] \in {<<"delete">>, <<"delete", "list">>} \/ (pending[p] \in {<<>>, <<"list">>, <<"sweep">>} /\ published[p] = NoTime)

AnnouncementsFit == \A p \in Procs : Fits(p)

CountsFit ==
    /\ ~Served => servedFor = 0
    /\ child = "idle" => host = None
    /\ unserved # NoTime => child = "waiting" \/ host # None

LEMMA PairIs == ASSUME NEW a, NEW b PROVE <<a>> \o <<b>> = <<a, b>>
<1> DEFINE both == <<a>> \o <<b>>
<1>1. both \in Seq({a, b}) /\ Len(both) = 2 /\ both[1] = a /\ both[2] = b
  OBVIOUS
<1>2. both = [i \in 1 .. 2 |-> both[i]]
  BY <1>1
<1>3. <<a, b>> = [i \in 1 .. 2 |-> both[i]]
  BY <1>1
<1> QED
  BY <1>2, <1>3

LEMMA Heads ==
    /\ Head(<<"delete">>) = "delete" /\ Head(<<"list">>) = "list" /\ Head(<<"sweep">>) = "sweep" /\ Head(<<"write">>) = "write"
    /\ Head(<<"delete", "list">>) = "delete" /\ Head(<<"list", "write">>) = "list" /\ Head(<<"sweep", "write">>) = "sweep"
  OBVIOUS

LEMMA Tails ==
    /\ Tail(<<"delete">>) = <<>> /\ Tail(<<"list">>) = <<>> /\ Tail(<<"sweep">>) = <<>> /\ Tail(<<"write">>) = <<>>
    /\ Tail(<<"delete", "list">>) = <<"list">> /\ Tail(<<"list", "write">>) = <<"write">> /\ Tail(<<"sweep", "write">>) = <<"write">>
  OBVIOUS

LEMMA Joined ==
    /\ <<"sweep">> \o <<>> = <<"sweep">> /\ <<"sweep">> \o <<"write">> = <<"sweep", "write">>
    /\ <<>> \o <<>> = <<>> /\ <<>> \o <<"write">> = <<"write">> /\ <<"list">> \o <<>> = <<"list">>
    /\ <<"list">> \o <<"write">> = <<"list", "write">> /\ <<>> \o <<"list">> = <<"list">>
    /\ <<>> \o <<"list", "write">> = <<"list", "write">>
    /\ <<"delete">> \o <<>> = <<"delete">> /\ <<"delete">> \o <<"list">> = <<"delete", "list">>
<1>1. \A x \in {"sweep", "list", "delete"} : <<x>> \o <<>> = <<x>>
  OBVIOUS
<1>2. <<>> \o <<>> = <<>> /\ <<>> \o <<"write">> = <<"write">> /\ <<>> \o <<"list">> = <<"list">>
  OBVIOUS
<1>3. <<>> \o <<"list", "write">> = <<"list", "write">>
  OBVIOUS
<1> QED
  BY <1>1, <1>2, <1>3, PairIs

LEMMA Distinct ==
    /\ <<>> # <<"write">> /\ <<>> # <<"list">> /\ <<>> # <<"sweep">> /\ <<>> # <<"delete">>
    /\ <<>> # <<"list", "write">> /\ <<>> # <<"sweep", "write">> /\ <<>> # <<"delete", "list">>
    /\ <<"write">> # <<"list">> /\ <<"write">> # <<"sweep">> /\ <<"write">> # <<"delete">>
    /\ <<"write">> # <<"list", "write">> /\ <<"write">> # <<"sweep", "write">> /\ <<"write">> # <<"delete", "list">>
    /\ <<"sweep">> # <<"list">> /\ <<"sweep">> # <<"delete">>
    /\ <<"sweep">> # <<"list", "write">> /\ <<"sweep">> # <<"delete", "list">> /\ <<"sweep">> # <<"sweep", "write">>
    /\ <<"sweep", "write">> # <<"list">> /\ <<"sweep", "write">> # <<"delete">>
    /\ <<"sweep", "write">> # <<"list", "write">> /\ <<"sweep", "write">> # <<"delete", "list">>
  OBVIOUS

LEMMA InitFits == ServingInit => AnnouncementsFit
  BY Distinct, LivenessAssumption DEF ServingInit, AnnouncementsFit, Fits, Sweeping

(* What an announcement leaves to be done. *)
LEMMA Announcing ==
    ASSUME NEW p, NEW s, served[p] # s \/ s # Target
    PROVE  /\ Withdrawal(p) = IF served[p] = Target THEN <<"delete">> ELSE <<>>
           /\ Marking(p, s) = IF swept[p] THEN IF s = Target THEN <<"write">> ELSE <<>>
                              ELSE IF s = Target THEN <<"list", "write">> ELSE <<"list">>
           /\ Withdrawal(p) \o Marking(p, s) \in
                 IF s = Target THEN {Marking(p, s)}
                 ELSE IF served[p] = Target THEN {<<"delete">>, <<"delete", "list">>} ELSE {<<>>, <<"list">>}
           /\ s # Target /\ swept[p] => Marking(p, s) = <<>>
<1>1. Withdrawal(p) = IF served[p] = Target THEN <<"delete">> ELSE <<>>
  BY DEF Withdrawal
<1>2. Marking(p, s) = IF swept[p] THEN IF s = Target THEN <<"write">> ELSE <<>>
                      ELSE IF s = Target THEN <<"list", "write">> ELSE <<"list">>
  BY Joined DEF Marking
<1>3. CASE s = Target
  <2>1. Withdrawal(p) = <<>>
    BY <1>1, <1>3
  <2>2. Marking(p, s) \in {<<"write">>, <<"list", "write">>}
    BY <1>2, <1>3
  <2> QED
    BY <1>1, <1>2, <1>3, <2>1, <2>2, Joined
<1>4. CASE s # Target
  <2>1. Marking(p, s) \in {<<>>, <<"list">>}
    BY <1>2, <1>4
  <2> QED
    BY <1>1, <1>2, <1>4, <2>1, Joined
<1> QED
  BY <1>3, <1>4

(* A process whose announcement, session and marks stay as they are. *)
LEMMA OthersFit ==
    ASSUME AnnouncementsFit, NEW p \in Procs,
           \A q \in Procs \ {p} : /\ pending'[q] = pending[q] /\ served'[q] = served[q]
                                  /\ published'[q] = published[q] /\ swept'[q] = swept[q],
           Fits(p)'
    PROVE  AnnouncementsFit'
  BY DEF AnnouncementsFit, Fits, Sweeping

LEMMA StepFits == ASSUME ServingTypes, AnnouncementsFit, ServingNext PROVE AnnouncementsFit'
<1> USE Distinct
<1>1. ASSUME NEW p \in Procs PROVE Fits(p)
  BY DEF AnnouncementsFit
<1>2. Target \in Sessions /\ None \notin Sessions
  BY LivenessAssumption
<1>3. ASSUME NEW p \in Procs, Announce(p), served[p] # live[p], UNCHANGED <<published, swept>>, pending[p] = <<>>
      PROVE  AnnouncementsFit'
  <2>1. served' = [served EXCEPT ![p] = live[p]] /\ pending' = [pending EXCEPT ![p] = Withdrawal(p) \o Marking(p, live[p])]
    BY <1>3 DEF Announce
  <2>2. served'[p] = live[p] /\ pending'[p] = Withdrawal(p) \o Marking(p, live[p])
    BY <2>1 DEF ServingTypes
  <2>3. CASE live[p] = Target
    <3>1. pending'[p] = IF swept[p] THEN <<"write">> ELSE <<"list", "write">>
      BY <1>3, <2>2, <2>3, Announcing
    <3>2. published[p] = NoTime
      BY <1>1, <1>3, <2>3 DEF Fits
    <3>3. Fits(p)'
      BY <1>1, <1>3, <2>2, <2>3, <3>1, <3>2 DEF Fits, Sweeping
    <3> QED
      BY <1>3, <2>1, <3>3, OthersFit DEF ServingTypes
  <2>4. CASE live[p] # Target
    <3>1. pending'[p] \in IF served[p] = Target THEN {<<"delete">>, <<"delete", "list">>} ELSE {<<>>, <<"list">>}
      BY <1>3, <2>2, <2>4, Announcing
    <3>2. served[p] # Target => published[p] = NoTime
      BY <1>1, <1>3 DEF Fits
    <3>3. Fits(p)'
      BY <1>1, <1>3, <2>2, <2>4, <3>1, <3>2 DEF Fits, Sweeping
    <3> QED
      BY <1>3, <2>1, <3>3, OthersFit DEF ServingTypes
  <2> QED
    BY <2>3, <2>4
<1>4. ASSUME NEW p \in Procs, Starts(p) PROVE AnnouncementsFit'
  BY <1>3, <1>4 DEF Starts
<1>5. ASSUME NEW p \in Procs, Stops(p) PROVE AnnouncementsFit'
  <2>1. served' = [served EXCEPT ![p] = None] /\ pending' = [pending EXCEPT ![p] = Withdrawal(p)] /\ UNCHANGED <<published, swept>>
        /\ pending[p] = <<>>
    BY <1>5 DEF Stops
  <2>2. served'[p] = None /\ pending'[p] = Withdrawal(p)
    BY <2>1 DEF ServingTypes
  <2>3. Withdrawal(p) = IF served[p] = Target THEN <<"delete">> ELSE <<>>
    BY DEF Withdrawal
  <2>4. Fits(p)'
    BY <1>1, <1>2, <2>1, <2>2, <2>3 DEF Fits, Sweeping
  <2> QED
    BY <2>1, <2>4, OthersFit DEF ServingTypes
<1>6. ASSUME NEW p \in Procs, Tick(p) PROVE AnnouncementsFit'
  <2>1. pending[p] = <<>> /\ UNCHANGED <<published, swept>>
    BY <1>6 DEF Tick
  <2>2. CASE served[p] # live[p] /\ Announce(p)
    BY <1>3, <2>1, <2>2
  <2>3. CASE served[p] = live[p] /\ pending' = [pending EXCEPT ![p] = Marking(p, live[p])] /\ UNCHANGED served
    <3>1. pending'[p] = Marking(p, live[p])
      BY <2>3 DEF ServingTypes
    <3>2. Fits(p)'
      <4>1. CASE live[p] = Target
        <5>1. Marking(p, Target) = IF swept[p] THEN <<"write">> ELSE <<"list", "write">>
          BY Joined DEF Marking
        <5> QED
          BY <1>1, <2>1, <2>3, <3>1, <4>1, <5>1 DEF Fits, Sweeping
      <4>2. CASE live[p] # Target
        <5>1. Marking(p, live[p]) = IF swept[p] THEN <<>> ELSE <<"list">>
          BY <2>3, <4>2, Announcing
        <5> QED
          BY <1>1, <2>1, <2>3, <3>1, <4>2, <5>1 DEF Fits, Sweeping
      <4> QED
        BY <4>1, <4>2
    <3> QED
      BY <2>1, <2>3, <3>2, OthersFit DEF ServingTypes
  <2>4. CASE UNCHANGED <<served, pending>>
    BY <2>1, <2>4 DEF AnnouncementsFit, Fits, Sweeping
  <2> QED
    BY <1>6, <2>2, <2>3, <2>4 DEF Tick
<1>7. ASSUME NEW p \in Procs, Withdraws(p) PROVE AnnouncementsFit'
  <2>1. served' = served /\ swept' = swept /\ published' = [published EXCEPT ![p] = NoTime] /\ Head(pending[p]) = "delete" /\ pending[p] # <<>>
        /\ pending' = [pending EXCEPT ![p] = Tail(pending[p])]
    BY <1>7 DEF Withdraws, Doing, Done, managerVars
  <2>2. pending[p] \in {<<"delete">>, <<"delete", "list">>} /\ served[p] # Target
    BY <1>1, <2>1, Heads DEF Fits
  <2>3. pending'[p] \in {<<>>, <<"list">>} /\ published'[p] = NoTime
    BY <2>1, <2>2, Tails DEF ServingTypes
  <2>4. Fits(p)'
    BY <2>1, <2>2, <2>3 DEF Fits, Sweeping
  <2> QED
    BY <2>1, <2>4, OthersFit DEF ServingTypes
<1>8. ASSUME NEW p \in Procs, Lists(p) PROVE AnnouncementsFit'
  <2>1. served' = served /\ swept' = [swept EXCEPT ![p] = TRUE] /\ published' = published /\ Head(pending[p]) = "list" /\ pending[p] # <<>>
        /\ pending' \in {[pending EXCEPT ![p] = Tail(pending[p])], [pending EXCEPT ![p] = <<"sweep">> \o Tail(pending[p])]}
    BY <1>8 DEF Lists, Doing, managerVars
  <2>2. published[p] = NoTime /\ pending[p] = IF served[p] = Target THEN <<"list", "write">> ELSE <<"list">>
    BY <1>1, <2>1, Heads DEF Fits
  <2>3. swept'[p] = TRUE /\ pending'[p] \in IF served[p] = Target THEN {<<"write">>, <<"sweep", "write">>} ELSE {<<>>, <<"sweep">>}
    <3>1. swept'[p] = TRUE /\ pending'[p] \in {Tail(pending[p]), <<"sweep">> \o Tail(pending[p])}
      BY <2>1 DEF ServingTypes
    <3>2. Tail(pending[p]) = IF served[p] = Target THEN <<"write">> ELSE <<>>
      BY <2>2, Tails
    <3>3. <<"sweep">> \o Tail(pending[p]) = IF served[p] = Target THEN <<"sweep", "write">> ELSE <<"sweep">>
      BY <3>2, Joined
    <3> QED
      BY <3>1, <3>2, <3>3
  <2>4. Fits(p)'
    BY <2>1, <2>2, <2>3 DEF Fits, Sweeping
  <2> QED
    BY <2>1, <2>4, OthersFit DEF ServingTypes
<1>9. ASSUME NEW p \in Procs, Sweeps(p) PROVE AnnouncementsFit'
  <2>1. served' = served /\ swept' = swept /\ published' = published /\ Head(pending[p]) = "sweep" /\ pending[p] # <<>>
        /\ pending' = [pending EXCEPT ![p] = Tail(pending[p])]
    BY <1>9 DEF Sweeps, Doing, Done, managerVars
  <2>2. published[p] = NoTime /\ pending[p] = (IF served[p] = Target THEN <<"sweep", "write">> ELSE <<"sweep">>) /\ swept[p]
    BY <1>1, <2>1, Heads DEF Fits, Sweeping
  <2>3. pending'[p] = IF served[p] = Target THEN <<"write">> ELSE <<>>
    BY <2>1, <2>2, Tails DEF ServingTypes
  <2>4. Fits(p)'
    BY <2>1, <2>2, <2>3 DEF Fits, Sweeping
  <2> QED
    BY <2>1, <2>4, OthersFit DEF ServingTypes
<1>10. ASSUME NEW p \in Procs, Writes(p) PROVE AnnouncementsFit'
  <2>1. served' = served /\ swept' = swept /\ published' = [published EXCEPT ![p] = 0] /\ Head(pending[p]) = "write" /\ pending[p] # <<>>
        /\ pending' = [pending EXCEPT ![p] = Tail(pending[p])]
    BY <1>10 DEF Writes, Doing, Done, managerVars
  <2>2. pending[p] = <<"write">> /\ served[p] = Target /\ swept[p]
    BY <1>1, <2>1, Heads DEF Fits
  <2>3. pending'[p] = <<>>
    BY <2>1, <2>2, Tails DEF ServingTypes
  <2>4. Fits(p)'
    BY <2>1, <2>2, <2>3 DEF Fits, Sweeping
  <2> QED
    BY <2>1, <2>4, OthersFit DEF ServingTypes
<1>11. ASSUME NEW p \in Procs, MarkingFails(p) PROVE AnnouncementsFit'
  <2>1. served' = served /\ swept' = swept /\ published' = published /\ Head(pending[p]) \in {"list", "write"} /\ pending[p] # <<>>
        /\ pending' = [pending EXCEPT ![p] = <<>>]
    BY <1>11 DEF MarkingFails, Doing, managerVars
  <2>2. served[p] # Target => published[p] = NoTime
    BY <1>1, <2>1, Heads DEF Fits
  <2>3. pending'[p] = <<>>
    BY <2>1 DEF ServingTypes
  <2>4. Fits(p)'
    BY <1>1, <2>1, <2>2, <2>3 DEF Fits, Sweeping
  <2> QED
    BY <2>1, <2>4, OthersFit DEF ServingTypes
<1>12. ASSUME NEW p \in Procs, Dies(p) PROVE AnnouncementsFit'
  <2>1. served' = [served EXCEPT ![p] = None] /\ swept' = swept /\ published' = [published EXCEPT ![p] = NoTime] /\ pending' = [pending EXCEPT ![p] = <<>>]
    BY <1>12 DEF Dies
  <2>2. served'[p] = None /\ published'[p] = NoTime /\ pending'[p] = <<>>
    BY <2>1 DEF ServingTypes
  <2>3. Fits(p)'
    BY <1>2, <2>2 DEF Fits, Sweeping
  <2> QED
    BY <2>1, <2>3, OthersFit DEF ServingTypes
<1>13. CASE Elapse
  <2>1. served' = served /\ swept' = swept /\ pending' = pending /\ published' = [p \in Procs |-> Upto(published[p], Refresh)]
    BY <1>13 DEF Elapse
  <2>2. \A p \in Procs : published[p] = NoTime => published'[p] = NoTime
    BY <2>1 DEF Upto
  <2> QED
    BY <2>1, <2>2 DEF AnnouncementsFit, Fits, Sweeping
<1>14. ASSUME UNCHANGED <<served, swept, published, pending>> PROVE AnnouncementsFit'
  BY <1>14 DEF AnnouncementsFit, Fits, Sweeping
<1>15. ASSUME NEW p \in Procs, Renamed(p) \/ Hangs(p) \/ PidReused(p) PROVE AnnouncementsFit'
  BY <1>14, <1>15 DEF Renamed, Hangs, PidReused, managerVars, storeVars
<1>16. CASE Removed \/ Forwards \/ ChildPolls \/ ChildEnds
  BY <1>14, <1>16 DEF Removed, Forwards, ChildPolls, ChildEnds, managerVars, storeVars
<1> QED
  BY <1>4, <1>5, <1>6, <1>7, <1>8, <1>9, <1>10, <1>11, <1>12, <1>13, <1>15, <1>16 DEF ServingNext, Announcement

(* A step that takes no time, of a process or its files. *)
Instant ==
    /\ Follow
    /\ lost' = lost \/ Loses(1)
    /\ UNCHANGED <<host, polled, unserved>>
    /\ child' = child \/ (child' = "gone" /\ host # None)

LEMMA InstantSteps ==
    ASSUME ServingTypes, ServingNext
    PROVE  Instant \/ Forwards \/ ChildPolls \/ ChildEnds \/ Elapse
<1> USE DEF Instant
<1>1. \A p \in Procs : Loss(p) \in {0, 1}
  BY DEF Loss
<1>2. ASSUME NEW n \in {0, 1}, Loses(n) PROVE lost' = lost \/ Loses(1)
  BY <1>2 DEF Loses, ServingTypes
<1>3. ASSUME NEW p \in Procs, Starts(p) \/ Stops(p) \/ Tick(p) \/ Lists(p) \/ Writes(p) \/ Renamed(p) \/ PidReused(p)
      PROVE  Instant
  BY <1>3 DEF Starts, Stops, Tick, Lists, Writes, Renamed, PidReused, waiterVars
<1>4. ASSUME NEW p \in Procs, Withdraws(p) \/ Sweeps(p) \/ MarkingFails(p) PROVE Instant
  <2>1. lost' = lost \/ Loses(1)
    BY <1>1, <1>2, <1>4 DEF Withdraws, Sweeps, MarkingFails
  <2> QED
    BY <1>4, <2>1 DEF Withdraws, Sweeps, MarkingFails, waiterVars
<1>5. ASSUME NEW p \in Procs, Hangs(p) \/ Dies(p) PROVE Instant
  <2>1. (IF record.by = p /\ status[p] = "up" THEN Loss(p) ELSE 0) \in {0, 1} /\ (IF record.by = p THEN Loss(p) ELSE 0) \in {0, 1}
    BY <1>1
  <2>2. lost' = lost \/ Loses(1)
    BY <1>2, <1>5, <2>1 DEF Hangs, Dies
  <2>3. p # None
    BY LivenessAssumption
  <2> QED
    BY <1>5, <2>2, <2>3 DEF Hangs, Dies, waiterVars
<1>6. CASE Removed
  BY <1>6 DEF Removed, waiterVars
<1> QED
  BY <1>3, <1>4, <1>5, <1>6 DEF ServingNext, Announcement

LEMMA InitCounts == ServingInit => CountsFit
  BY LivenessAssumption DEF ServingInit, CountsFit, NoTime

LEMMA StepCounts == ASSUME ServingTypes, CountsFit, ServingNext PROVE CountsFit'
<1>1. CASE Instant
  BY <1>1 DEF Instant, CountsFit, Follow, Loses
<1>2. CASE Forwards
  BY <1>2 DEF Forwards, CountsFit, Follow
<1>3. CASE ChildPolls
  BY <1>3 DEF ChildPolls, ChildRuns, CountsFit, Follow
<1>4. CASE ChildEnds
  BY <1>4 DEF ChildEnds, CountsFit, Follow
<1>5. CASE Elapse
  <2>1. Served' <=> Served
    BY <1>5 DEF Elapse, Served, Polls
  <2> QED
    BY <1>5, <2>1 DEF Elapse, CountsFit, Upto
<1> QED
  BY <1>1, <1>2, <1>3, <1>4, <1>5, InstantSteps

(* Not looked at in vain, and served, for longer than that. *)
Brief(seen, polling, time) == seen = NoTime \/ polling <= time \/ seen <= time
InVain(time) == Brief(unserved, servedFor, time)

RecordHolds == record # NoRecord /\ status[record.by] # "dead"

(* A loss no older than that. *)
Lately(time) == lost # NoTime /\ lost <= time

(* The record is as young as the last writing of p, and its last tick, warrant, unless it was lost since. *)
Attested(p) ==
    /\ published[p] # NoTime /\ published[p] < Refresh =>
          (RecordHolds /\ record.age <= published[p]) \/ Lately(published[p])
    /\ pending[p] = <<>> /\ since[p] < Gap =>
          (RecordHolds /\ record.age < Refresh + since[p]) \/ Lately(Refresh - 1 + since[p])

(* The longest a record may be missing from a session that is served. *)
Longest == Refresh - 1 + Gap

RecordSound ==
    /\ \A p \in Procs : Serves(p) => Attested(p)
    /\ Served /\ servedFor > 0 => (RecordHolds /\ record.age < Stale) \/ Lately(Longest)

(* The child has looked in vain since its last poll, or since the poll that came before the loss. *)
LooksBriefly == InVain(polled) \/ (InVain(Gap + lost) /\ Lately(Longest + polled))

SweepsHarmless == \A p \in Procs : Sweeping(p) => servedFor = 0 \/ Lately(Longest)

LossesHeal == host = None => RecordSound /\ LooksBriefly /\ SweepsHarmless

ServedInv == ServingTypes /\ AnnouncementsFit /\ CountsFit /\ LossesHeal

LEMMA InitServed == ServingInit => LossesHeal
<1> SUFFICES ASSUME ServingInit PROVE LossesHeal
  OBVIOUS
<1>1. ~Served /\ \A p \in Procs : ~Serves(p)
  <2>1. \A p \in Procs : served[p] # Target
    BY LivenessAssumption DEF ServingInit
  <2> QED
    BY <2>1 DEF Served, Polls, Serves
<1>2. \A p \in Procs : ~Sweeping(p)
  BY Distinct DEF ServingInit, Sweeping
<1> QED
  BY <1>1, <1>2 DEF ServingInit, LossesHeal, RecordSound, LooksBriefly, SweepsHarmless, InVain, Brief

(* As long as time does not pass, nothing has been looked at in vain for longer. *)
LEMMA NothingLonger ==
    ASSUME ServingTypes, Follow, unserved' \in {unserved, NoTime}
    PROVE  \A t \in Int : Brief(unserved, servedFor, t) /\ t >= 0 => Brief(unserved', servedFor', t)
<1>1. servedFor' \in {0, servedFor} /\ servedFor \in Nat /\ unserved \in Nat \cup {NoTime}
  BY LivenessAssumption DEF Follow, ServingTypes
<1> QED
  BY <1>1 DEF Brief, NoTime

(* p has ticked and found its record fresh, has begun to announce itself, or stands as it did. *)
Follows(p) ==
    \/ /\ Serves(p) /\ published'[p] = published[p]
       /\ \/ pending'[p] # <<>>
          \/ pending'[p] = pending[p] /\ since'[p] = since[p]
          \/ published[p] # NoTime /\ published[p] < Refresh /\ since'[p] = 0
    \/ published'[p] = NoTime /\ pending'[p] # <<>>

Undisturbed ==
    /\ Follow /\ lost' = lost
    /\ record' = record /\ (RecordHolds => RecordHolds')
    /\ \A p \in Procs : Serves(p)' => Follows(p)

LEMMA UndisturbedKeeps ==
    ASSUME ServingTypes, CountsFit, Undisturbed, RecordSound PROVE RecordSound'
<1>1. ASSUME NEW p \in Procs, Serves(p)' PROVE Attested(p)'
  <2>1. Follows(p)
    BY <1>1 DEF Undisturbed
  <2>2. CASE published'[p] = NoTime /\ pending'[p] # <<>>
    BY <2>2 DEF Attested
  <2>3. CASE Serves(p) /\ published'[p] = published[p]
    <3>1. Attested(p) /\ record' = record /\ (RecordHolds => RecordHolds') /\ lost' = lost
      BY <2>3 DEF RecordSound, Undisturbed
    <3>2. /\ published[p] \in Nat \cup {NoTime} /\ since[p] \in Nat /\ record.age \in Nat /\ Refresh \in Nat
          /\ lost \in Nat \cup {NoTime}
      BY LivenessAssumption DEF ServingTypes
    <3>3. published'[p] # NoTime /\ published'[p] < Refresh =>
             (RecordHolds' /\ record'.age <= published'[p]) \/ (lost' # NoTime /\ lost' <= published'[p])
      BY <2>3, <3>1 DEF Attested, Lately
    <3>4. ASSUME pending'[p] = <<>>, since'[p] < Gap
          PROVE  (RecordHolds' /\ record'.age < Refresh + since'[p]) \/ (lost' # NoTime /\ lost' <= Refresh - 1 + since'[p])
      <4>1. CASE pending'[p] = pending[p] /\ since'[p] = since[p]
        BY <3>1, <3>4, <4>1 DEF Attested, Lately
      <4>2. CASE published[p] # NoTime /\ published[p] < Refresh /\ since'[p] = 0
        <5>1. (RecordHolds /\ record.age <= published[p]) \/ (lost # NoTime /\ lost <= published[p])
          BY <3>1, <4>2 DEF Attested, Lately
        <5> QED
          BY <3>1, <3>2, <4>2, <5>1 DEF NoTime
      <4> QED
        BY <2>1, <2>3, <3>4, <4>1, <4>2 DEF Follows
    <3> QED
      BY <3>3, <3>4 DEF Attested, Lately
  <2> QED
    BY <2>1, <2>2, <2>3 DEF Follows
<1>2. ASSUME Served', servedFor' > 0 PROVE ((RecordHolds /\ record.age < Stale) \/ Lately(Longest))'
  <2>1. servedFor' = servedFor
    BY <1>2 DEF Undisturbed, Follow
  <2>2. Served
    BY <1>2, <2>1 DEF CountsFit
  <2> QED
    BY <1>2, <2>1, <2>2 DEF RecordSound, Undisturbed, Lately, Longest
<1> QED
  BY <1>1, <1>2 DEF RecordSound

(* Right after a loss, it explains all. *)
LEMMA LossKeeps ==
    ASSUME ServingTypes, ServingTypes', WindowFits, Loses(1)
    PROVE  lost = NoTime /\ lost' = 0 /\ RecordSound'
<1>0. Refresh \in Nat \ {0} /\ Gap \in Nat \ {0} /\ Spacing \in Nat /\ Spacing > 0
  BY LivenessAssumption DEF WindowFits
<1>1. lost = NoTime /\ lost' = 0
  BY <1>0 DEF Loses
<1>2. ASSUME NEW p \in Procs PROVE Attested(p)'
  <2>1. published'[p] \in Nat \cup {NoTime} /\ since'[p] \in Nat
    BY DEF ServingTypes
  <2>2. published'[p] # NoTime => lost' # NoTime /\ lost' <= published'[p]
    BY <1>1, <2>1 DEF NoTime
  <2>3. lost' # NoTime /\ lost' <= Refresh - 1 + since'[p]
    BY <1>0, <1>1, <2>1 DEF NoTime
  <2> QED
    BY <2>2, <2>3 DEF Attested, Lately
<1>3. lost' # NoTime /\ lost' <= Refresh - 1 + Gap
  BY <1>0, <1>1 DEF NoTime
<1> QED
  BY <1>1, <1>2, <1>3 DEF RecordSound, Lately, Longest

LEMMA WritingKeeps == ASSUME ServingTypes, ServingTypes', WindowFits, NEW p \in Procs, Writes(p) PROVE RecordSound'
<1>1. record' = [by |-> p, age |-> 0] /\ status' = status /\ status[p] = "up" /\ Refresh \in Nat \ {0} /\ Stale \in Nat /\ Gap \in Nat \ {0}
  BY LivenessAssumption DEF Writes, Doing, managerVars
<1>2. RecordHolds' /\ record'.age = 0
  <2>1. record'.by = p /\ record' # NoRecord
    BY <1>1, LivenessAssumption DEF NoRecord
  <2> QED
    BY <1>1, <2>1 DEF RecordHolds
<1>3. 0 < Stale
  BY <1>1 DEF WindowFits
<1>4. ASSUME NEW q \in Procs PROVE Attested(q)'
  <2>1. published'[q] \in Nat \cup {NoTime} /\ since'[q] \in Nat
    BY DEF ServingTypes
  <2> QED
    BY <1>1, <1>2, <2>1 DEF Attested
<1> QED
  BY <1>2, <1>3, <1>4 DEF RecordSound

(* No other process serves: an accident of this one harms nobody. *)
LEMMA NoOtherServes ==
    ASSUME NEW p \in Procs, Loss(p) = 0, record # NoRecord, NEW q \in Procs, Serves(q)
    PROVE  q = p
  BY DEF Loss, Serves

LEMMA NobodyServes == ASSUME \A q \in Procs : ~Serves(q)' PROVE RecordSound'
<1>1. ~Served'
  BY DEF Served, Polls, Serves
<1> QED
  BY <1>1 DEF RecordSound

(* What a unit of time does to the ages. *)
LEMMA Ageing ==
    ASSUME ServingTypes, Elapse
    PROVE  /\ servedFor' \in {0, servedFor, servedFor + 1} /\ (~Served => servedFor' = 0)
           /\ unserved = NoTime => unserved' = NoTime
           /\ unserved # NoTime => unserved' \in {unserved, unserved + 1}
           /\ \A p \in Procs : /\ published[p] = NoTime => published'[p] = NoTime
                               /\ published[p] >= Refresh => published'[p] = published[p]
                               /\ published[p] # NoTime /\ published[p] < Refresh => published'[p] = published[p] + 1
                               /\ served[p] # None /\ since[p] < Gap => since'[p] = since[p] + 1
                               /\ served[p] # None /\ ~(since[p] < Gap) => since'[p] = since[p]
           /\ record = NoRecord => record' = record
           /\ record # NoRecord => /\ record'.by = record.by /\ record' # NoRecord
                                   /\ record'.age = IF record.age >= Stale THEN record.age ELSE record.age + 1
<1>0. Refresh \in Nat \ {0} /\ Gap \in Nat \ {0} /\ Stale \in Nat /\ Grace \in Nat /\ None \notin Procs
  BY LivenessAssumption
<1>1. servedFor' = (IF Served THEN Upto(servedFor, Grace) ELSE 0) /\ unserved' = Upto(unserved, Grace)
  BY DEF Elapse
<1>2. ASSUME NEW p \in Procs
      PROVE  /\ published[p] = NoTime => published'[p] = NoTime
             /\ published[p] >= Refresh => published'[p] = published[p]
             /\ published[p] # NoTime /\ published[p] < Refresh => published'[p] = published[p] + 1
             /\ served[p] # None /\ since[p] < Gap => since'[p] = since[p] + 1
             /\ served[p] # None /\ ~(since[p] < Gap) => since'[p] = since[p]
  <2>1. published'[p] = Upto(published[p], Refresh) /\ since'[p] = IF served[p] = None THEN 0 ELSE Upto(since[p], Gap)
    BY DEF Elapse
  <2>2. published[p] \in Nat \cup {NoTime} /\ since[p] \in Nat
    BY DEF ServingTypes
  <2> QED
    BY <1>0, <2>1, <2>2 DEF Upto, NoTime
<1>3. record = NoRecord => record' = record
  BY DEF Elapse
<1>4. record # NoRecord => /\ record'.by = record.by /\ record' # NoRecord
                           /\ record'.age = IF record.age >= Stale THEN record.age ELSE record.age + 1
  <2> HAVE record # NoRecord
  <2>1. record' = [record EXCEPT !.age = Upto(@, Stale)] /\ record \in [by : Procs \cup {None}, age : Nat] /\ record.by # None
    BY DEF Elapse, ServingTypes
  <2>2. record'.by = record.by /\ record'.age = Upto(record.age, Stale) /\ record.age \in Nat
    BY <2>1
  <2> QED
    BY <1>0, <2>1, <2>2 DEF Upto, NoTime, NoRecord
<1>5. servedFor \in Nat /\ unserved \in Nat \cup {NoTime}
  BY <1>0 DEF ServingTypes
<1> QED
  BY <1>0, <1>1, <1>2, <1>3, <1>4, <1>5 DEF Upto, NoTime

(* Whoever polls has ticked in time, and written if it was the time to. *)
LEMMA Punctual ==
    ASSUME ServingTypes, Elapse, host = None, Served
    PROVE  \E p \in Procs : Serves(p) /\ pending[p] = <<>> /\ since[p] < Gap
<1>1. PICK p \in Procs : Polls(p)
  BY DEF Served
<1>2. served[p] # None
  BY <1>1, LivenessAssumption DEF Polls
<1> QED
  BY <1>1, <1>2 DEF Elapse, OnTime, Polls, Serves

(* The age of the last loss. *)
LEMMA LossAges ==
    ASSUME ServingTypes, Elapse, WindowFits, NEW t \in Int, t < Longest + Gap, Lately(t)
    PROVE  lost' = lost + 1 /\ lost' # NoTime /\ lost' <= t + 1
<1>1. Refresh \in Nat \ {0} /\ Gap \in Nat \ {0} /\ Spacing \in Nat /\ lost \in Nat /\ lost <= t /\ lost # NoTime
  BY LivenessAssumption DEF ServingTypes, Lately
<1>2. lost + 1 < Spacing
  BY <1>1 DEF WindowFits, Longest
<1> QED
  BY <1>1, <1>2 DEF Elapse, NoTime

LEMMA ElapseKeeps ==
    ASSUME ServingTypes, CountsFit, WindowFits, Elapse, host = None, RecordSound
    PROVE  RecordSound'
<1>0. Refresh \in Nat \ {0} /\ Gap \in Nat \ {0} /\ Stale \in Nat /\ None \notin Sessions /\ Target \in Sessions
  BY LivenessAssumption
<1>1. status' = status /\ served' = served /\ pending' = pending /\ host' = host
  BY DEF Elapse
<1>2. RecordHolds => RecordHolds' /\ record'.age = IF record.age >= Stale THEN record.age ELSE record.age + 1
  BY <1>1, Ageing DEF RecordHolds
<1>3. record.age \in Nat
  BY DEF ServingTypes
<1>4. ASSUME NEW p \in Procs, Serves(p)' PROVE Attested(p)'
  <2>1. Attested(p) /\ served[p] # None
    BY <1>0, <1>1, <1>4 DEF RecordSound, Serves
  <2>2. published[p] \in Nat \cup {NoTime} /\ since[p] \in Nat
    BY DEF ServingTypes
  <2>3. ASSUME published'[p] # NoTime, published'[p] < Refresh
        PROVE  (RecordHolds' /\ record'.age <= published'[p]) \/ (lost' # NoTime /\ lost' <= published'[p])
    <3>1. published[p] # NoTime /\ published[p] < Refresh /\ published'[p] = published[p] + 1
      BY <1>0, <2>2, <2>3, Ageing DEF NoTime
    <3>2. CASE RecordHolds /\ record.age <= published[p]
      BY <1>2, <1>3, <2>2, <3>1, <3>2 DEF NoTime
    <3>3. CASE Lately(published[p])
      <4>1. published[p] \in Int /\ published[p] < Longest + Gap
        BY <1>0, <2>2, <3>1 DEF Longest, NoTime
      <4> QED
        BY <3>1, <3>3, <4>1, LossAges
    <3> QED
      BY <2>1, <3>1, <3>2, <3>3 DEF Attested
  <2>4. ASSUME pending'[p] = <<>>, since'[p] < Gap
        PROVE  (RecordHolds' /\ record'.age < Refresh + since'[p]) \/ (lost' # NoTime /\ lost' <= Refresh - 1 + since'[p])
    <3>1. since[p] < Gap /\ since'[p] = since[p] + 1
      BY <2>1, <2>4, Ageing
    <3>2. CASE RecordHolds /\ record.age < Refresh + since[p]
      BY <1>0, <1>2, <1>3, <2>2, <3>1, <3>2
    <3>3. CASE Lately(Refresh - 1 + since[p])
      <4>1. Refresh - 1 + since[p] \in Int /\ Refresh - 1 + since[p] < Longest + Gap
            /\ Refresh - 1 + since[p] + 1 = Refresh - 1 + since'[p]
        BY <1>0, <2>2, <3>1 DEF Longest
      <4> QED
        BY <3>3, <4>1, LossAges
    <3> QED
      BY <1>1, <2>1, <2>4, <3>1, <3>2, <3>3 DEF Attested
  <2> QED
    BY <2>3, <2>4 DEF Attested, Lately
<1>5. ASSUME Served', servedFor' > 0
      PROVE  (RecordHolds' /\ record'.age < Stale) \/ (lost' # NoTime /\ lost' <= Refresh - 1 + Gap)
  <2>1. Served
    BY <1>1, <1>5 DEF Served, Polls
  <2>2. PICK p \in Procs : Serves(p) /\ pending[p] = <<>> /\ since[p] < Gap
    BY <2>1, Punctual
  <2>3. since[p] \in Nat /\ ((RecordHolds /\ record.age < Refresh + since[p]) \/ Lately(Refresh - 1 + since[p]))
    BY <2>2 DEF RecordSound, Attested, ServingTypes
  <2>4. CASE RecordHolds /\ record.age < Refresh + since[p]
    BY <1>0, <1>2, <1>3, <2>2, <2>3, <2>4 DEF WindowFits
  <2>5. CASE Lately(Refresh - 1 + since[p])
    <3>1. PICK t \in Int : t = Refresh - 1 + since[p]
      BY <1>0, <2>3
    <3>2. t < Longest + Gap /\ t + 1 <= Refresh - 1 + Gap
      BY <1>0, <2>2, <2>3, <3>1 DEF Longest
    <3>3. lost' # NoTime /\ lost' <= t + 1 /\ lost' \in Int
      <4>1. lost' = lost + 1 /\ lost' # NoTime /\ lost' <= t + 1
        BY <2>5, <3>1, <3>2, LossAges
      <4> QED
        BY <4>1 DEF ServingTypes, NoTime
    <3> QED
      BY <1>0, <3>2, <3>3
  <2> QED
    BY <2>3, <2>4, <2>5
<1> QED
  BY <1>4, <1>5 DEF RecordSound, Lately, Longest

(* What has been looked at in vain has been so for a unit more. *)
LEMMA LongerByOne ==
    ASSUME ServingTypes, Elapse
    PROVE  \A t \in Int : Brief(unserved, servedFor, t) /\ t >= 0 => Brief(unserved', servedFor', t + 1)
<1>1. servedFor \in Nat /\ unserved \in Nat \cup {NoTime}
  BY LivenessAssumption DEF ServingTypes
<1> QED
  BY <1>1, Ageing DEF Brief, NoTime

(* As the child polls, it finds the record, or it was lost, or the session is not served. *)
LEMMA PollingFinds ==
    ASSUME ServingTypes, CountsFit, RecordSound, host = None
    PROVE  servedFor = 0 \/ IsServing \/ Lately(Longest)
<1> SUFFICES ASSUME servedFor # 0, ~Lately(Longest) PROVE IsServing
  OBVIOUS
<1>1. Served /\ servedFor > 0
  BY DEF CountsFit, ServingTypes
<1>2. record # NoRecord /\ status[record.by] # "dead" /\ record.age < Stale
  BY <1>1 DEF RecordSound, RecordHolds
<1>3. record.age \in Nat /\ Stale \in Nat
  BY LivenessAssumption DEF ServingTypes
<1> QED
  BY <1>2, <1>3 DEF IsServing, State

LEMMA StepLooks ==
    ASSUME ServedInv, ServingTypes', WindowFits, ServingNext, host = None
    PROVE  LooksBriefly'
<1>0. ServingTypes /\ CountsFit /\ RecordSound /\ LooksBriefly
  BY DEF ServedInv, LossesHeal
<1>1. Refresh \in Nat \ {0} /\ Gap \in Nat \ {0} /\ Longest \in Nat
  BY LivenessAssumption DEF Longest
<1>2. /\ servedFor \in Nat /\ unserved \in Nat \cup {NoTime} /\ lost \in Nat \cup {NoTime} /\ polled \in Nat /\ polled <= Gap
      /\ servedFor' \in Nat /\ unserved' \in Nat \cup {NoTime} /\ lost' \in Nat \cup {NoTime} /\ polled' \in Nat
  BY <1>0, LivenessAssumption DEF ServingTypes
<1>3. lost # NoTime => Gap + lost \in Int /\ Gap + lost >= 0
  BY <1>1, <1>2
<1>4. CASE Follow /\ unserved' = unserved /\ polled' = polled /\ lost' = lost
  <2>1. \A t \in Int : Brief(unserved, servedFor, t) /\ t >= 0 => Brief(unserved', servedFor', t)
    BY <1>0, <1>4, NothingLonger
  <2> QED
    BY <1>0, <1>2, <1>3, <1>4, <2>1 DEF LooksBriefly, InVain, Lately, Longest
<1>5. CASE Follow /\ unserved' = unserved /\ polled' = polled /\ Loses(1)
  <2>1. lost = NoTime /\ lost' = 0
    BY <1>0, <1>5, LossKeeps
  <2>2. Brief(unserved, servedFor, polled)
    BY <1>0, <2>1 DEF LooksBriefly, InVain, Lately
  <2>3. Brief(unserved', servedFor', polled)
    BY <1>0, <1>2, <1>5, <2>2, NothingLonger
  <2> QED
    BY <1>5, <2>3 DEF LooksBriefly, InVain
<1>6. CASE Instant
  BY <1>4, <1>5, <1>6 DEF Instant
<1>7. CASE Forwards
  BY <1>4, <1>7 DEF Forwards, managerVars, storeVars
<1>8. CASE ChildEnds
  BY <1>8 DEF ChildEnds, LooksBriefly, InVain, Brief
<1>9. CASE ChildPolls
  <2>1. Follow /\ unserved' \in {Window, NoTime} /\ polled' = 0 /\ lost' = lost
    BY <1>9 DEF ChildPolls
  <2>2. servedFor' \in {0, servedFor}
    BY <2>1 DEF Follow
  <2>3. CASE servedFor = 0 \/ IsServing
    <3>1. servedFor' = 0 \/ unserved' = NoTime
      BY <2>1, <2>2, <2>3 DEF Window
    <3> QED
      BY <2>1, <3>1 DEF LooksBriefly, InVain, Brief
  <2>4. CASE Lately(Longest)
    <3>1. lost \in Nat /\ lost <= Longest /\ lost # NoTime
      BY <1>2, <2>4 DEF Lately
    <3>2. unserved' = NoTime \/ unserved' = unserved \/ unserved' = 0
      BY <2>1 DEF Window
    <3>3. Brief(unserved, servedFor, Gap + lost)
      BY <1>0, <1>1, <1>2, <3>1 DEF LooksBriefly, InVain, Brief, NoTime
    <3>4. Brief(unserved', servedFor', Gap + lost)
      BY <1>1, <1>2, <2>2, <3>1, <3>2, <3>3 DEF Brief, NoTime
    <3>5. lost' <= Longest + polled'
      BY <1>1, <2>1, <3>1
    <3> QED
      BY <2>1, <3>1, <3>4, <3>5 DEF LooksBriefly, InVain, Lately, Longest
  <2> QED
    BY <1>0, <2>3, <2>4, PollingFinds
<1>10. CASE Elapse
  <2>1. CASE child # "waiting"
    <3>1. unserved = NoTime
      BY <1>0, <2>1 DEF CountsFit
    <3>2. unserved' = NoTime
      BY <1>0, <1>10, <3>1, Ageing
    <3> QED
      BY <3>2 DEF LooksBriefly, InVain, Brief
  <2>2. CASE child = "waiting"
    <3>1. polled < Gap
      BY <1>10, <2>2 DEF Elapse, OnTime, ChildRuns
    <3>2. polled' = polled + 1
      BY <1>1, <1>2, <1>10, <2>2, <3>1 DEF Elapse, Upto, NoTime
    <3>3. CASE InVain(polled)
      <4>1. Brief(unserved', servedFor', polled + 1)
        BY <1>0, <1>2, <1>10, <3>3, LongerByOne DEF InVain
      <4> QED
        BY <3>2, <4>1 DEF LooksBriefly, InVain
    <3>4. CASE InVain(Gap + lost) /\ Lately(Longest + polled)
      <4>1. PICK t \in Int : t = Longest + polled
        BY <1>1, <1>2
      <4>2. t < Longest + Gap
        BY <1>1, <1>2, <3>1, <4>1
      <4>3. lost' = lost + 1 /\ lost' # NoTime /\ lost' <= t + 1
        BY <1>0, <1>10, <3>4, <4>1, <4>2, LossAges
      <4>4. lost \in Nat
        BY <1>2, <3>4 DEF Lately
      <4>5. lost' <= Longest + polled'
        BY <1>1, <1>2, <3>2, <4>1, <4>3, <4>4
      <4>6. PICK u \in Int : u = Gap + lost
        BY <1>1, <4>4
      <4>7. Brief(unserved', servedFor', u + 1)
        BY <1>0, <1>1, <1>10, <3>4, <4>4, <4>6, LongerByOne DEF InVain
      <4>8. u + 1 = Gap + lost'
        BY <1>1, <4>3, <4>4, <4>6
      <4> QED
        BY <4>3, <4>5, <4>7, <4>8 DEF LooksBriefly, InVain, Lately, Longest
    <3> QED
      BY <1>0, <3>3, <3>4 DEF LooksBriefly
  <2> QED
    BY <2>1, <2>2
<1> QED
  BY <1>0, <1>6, <1>7, <1>8, <1>9, <1>10, InstantSteps

(* Nothing is deleted by a sweep that has not found the writer of the record gone. *)
LEMMA NewSweeps ==
    ASSUME ServingTypes, AnnouncementsFit, ServingNext, NEW q \in Procs, Sweeping(q)'
    PROVE  Sweeping(q) \/ (Lists(q) /\ State(record) = "dead_pid")
<1> USE Distinct
<1>0. \A p \in Procs : Fits(p)
  BY DEF AnnouncementsFit
<1>1. ASSUME pending'[q] = pending[q] PROVE Sweeping(q)
  BY <1>1 DEF Sweeping
<1>2. ASSUME NEW p \in Procs, p # q, \E x : pending' = [pending EXCEPT ![p] = x] PROVE Sweeping(q)
  BY <1>1, <1>2 DEF ServingTypes
<1>3. ASSUME Announce(q), served[q] # live[q] PROVE FALSE
  <2>1. pending'[q] = Withdrawal(q) \o Marking(q, live[q])
    BY <1>3 DEF Announce, ServingTypes
  <2>2. pending'[q] \in {<<"write">>, <<"list", "write">>, <<"delete">>, <<"delete", "list">>, <<>>, <<"list">>}
    BY <1>3, <2>1, Announcing
  <2> QED
    BY <2>2 DEF Sweeping
<1>4. ASSUME NEW p \in Procs, Starts(p) \/ Tick(p) PROVE Sweeping(q)
  <2>1. CASE Announce(p) /\ served[p] # live[p]
    BY <1>2, <1>3, <2>1 DEF Announce
  <2>2. CASE pending' = [pending EXCEPT ![p] = Marking(p, live[p])]
    <3>1. Marking(p, live[p]) \in {<<>>, <<"list">>, <<"write">>, <<"list", "write">>}
      BY Joined DEF Marking
    <3>2. p # q
      BY <2>2, <3>1 DEF Sweeping, ServingTypes
    <3> QED
      BY <1>2, <2>2, <3>2
  <2> QED
    BY <1>1, <1>4, <2>1, <2>2 DEF Starts, Tick
<1>5. ASSUME NEW p \in Procs, Stops(p) PROVE Sweeping(q)
  <2>1. pending' = [pending EXCEPT ![p] = Withdrawal(p)] /\ Withdrawal(p) \in {<<>>, <<"delete">>}
    BY <1>5 DEF Stops, Withdrawal
  <2>2. p # q
    BY <2>1 DEF Sweeping, ServingTypes
  <2> QED
    BY <1>2, <2>1, <2>2
<1>6. ASSUME NEW p \in Procs, Withdraws(p) \/ Sweeps(p) \/ Writes(p) PROVE Sweeping(q)
  <2>1. pending' = [pending EXCEPT ![p] = Tail(pending[p])] /\ pending[p] # <<>> /\ Head(pending[p]) \in {"delete", "sweep", "write"}
    BY <1>6 DEF Withdraws, Sweeps, Writes, Doing, Done
  <2>2. pending[p] \in {<<"delete">>, <<"delete", "list">>, <<"sweep">>, <<"sweep", "write">>, <<"write">>}
    BY <1>0, <2>1, Heads DEF Fits
  <2>3. Tail(pending[p]) \in {<<>>, <<"list">>, <<"write">>}
    BY <2>2, Tails
  <2>4. p # q
    BY <2>1, <2>3 DEF Sweeping, ServingTypes
  <2> QED
    BY <1>2, <2>1, <2>4
<1>7. ASSUME NEW p \in Procs, Lists(p) PROVE Sweeping(q) \/ (Lists(q) /\ State(record) = "dead_pid")
  <2>1. CASE State(record) = "dead_pid"
    <3>1. pending' = [pending EXCEPT ![p] = <<"sweep">> \o Tail(pending[p])]
      BY <1>7, <2>1 DEF Lists
    <3> QED
      BY <1>2, <1>7, <2>1, <3>1
  <2>2. CASE State(record) # "dead_pid"
    <3>1. pending' = [pending EXCEPT ![p] = Tail(pending[p])] /\ pending[p] # <<>> /\ Head(pending[p]) = "list"
      BY <1>7, <2>2 DEF Lists, Doing
    <3>2. pending[p] \in {<<"list">>, <<"list", "write">>}
      BY <1>0, <3>1, Heads DEF Fits
    <3>3. Tail(pending[p]) \in {<<>>, <<"write">>}
      BY <3>2, Tails
    <3>4. p # q
      BY <3>1, <3>3 DEF Sweeping, ServingTypes
    <3> QED
      BY <1>2, <3>1, <3>4
  <2> QED
    BY <2>1, <2>2
<1>8. ASSUME NEW p \in Procs, MarkingFails(p) \/ Dies(p) PROVE Sweeping(q)
  <2>1. pending' = [pending EXCEPT ![p] = <<>>]
    BY <1>8 DEF MarkingFails, Dies
  <2>2. p # q
    BY <2>1 DEF Sweeping, ServingTypes
  <2> QED
    BY <1>2, <2>1, <2>2
<1>9. ASSUME NEW p \in Procs, Renamed(p) \/ Hangs(p) \/ PidReused(p) PROVE Sweeping(q)
  BY <1>1, <1>9 DEF Renamed, Hangs, PidReused, storeVars
<1>10. CASE Removed \/ Forwards \/ ChildPolls \/ ChildEnds \/ Elapse
  BY <1>1, <1>10 DEF Removed, Forwards, ChildPolls, ChildEnds, Elapse, storeVars
<1> QED
  BY <1>4, <1>5, <1>6, <1>7, <1>8, <1>9, <1>10 DEF ServingNext, Announcement

LEMMA StepSweeps == ASSUME ServedInv, ServingTypes', WindowFits, ServingNext, host = None PROVE SweepsHarmless'
<1> SUFFICES ASSUME NEW q \in Procs, Sweeping(q)' PROVE servedFor' = 0 \/ (lost' # NoTime /\ lost' <= Longest)
  BY DEF SweepsHarmless, Lately, Longest
<1>0. ServingTypes /\ AnnouncementsFit /\ CountsFit /\ RecordSound /\ SweepsHarmless
  BY DEF ServedInv, LossesHeal
<1>1. Longest \in Nat
  BY LivenessAssumption DEF Longest
<1>2. ~Elapse
  BY Distinct DEF Elapse, OnTime, Sweeping
<1>3. Follow
  BY <1>0, <1>2, InstantSteps DEF Instant, Forwards, ChildPolls, ChildEnds
<1>4. servedFor = 0 \/ Lately(Longest)
  <2>1. CASE Sweeping(q)
    BY <1>0, <2>1 DEF SweepsHarmless
  <2>2. CASE State(record) = "dead_pid"
    BY <1>0, <2>2, PollingFinds DEF IsServing
  <2> QED
    BY <1>0, <2>1, <2>2, NewSweeps
<1>5. CASE lost' = lost
  BY <1>3, <1>4, <1>5 DEF Follow, Lately
<1>6. CASE Loses(1)
  BY <1>0, <1>1, <1>6, LossKeeps DEF NoTime
<1> QED
  BY <1>0, <1>2, <1>5, <1>6, InstantSteps DEF Instant, Forwards, ChildPolls, ChildEnds

(* The step of one process leaves the others as they are. *)
LEMMA OthersFollow ==
    ASSUME NEW p \in Procs, Serves(p)' => Follows(p),
           \A q \in Procs \ {p} : /\ status'[q] = status[q] /\ served'[q] = served[q] /\ since'[q] = since[q]
                                  /\ published'[q] = published[q] /\ pending'[q] = pending[q]
    PROVE  \A q \in Procs : Serves(q)' => Follows(q)
  BY DEF Follows, Serves

LEMMA StepRecords == ASSUME ServedInv, ServingTypes', WindowFits, ServingNext, host = None PROVE RecordSound'
<1> USE Distinct
<1>0. ServingTypes /\ AnnouncementsFit /\ CountsFit /\ RecordSound
  BY DEF ServedInv, LossesHeal
<1>a. \A p \in Procs : Fits(p)
  BY <1>0 DEF AnnouncementsFit
<1>b. None \notin Sessions /\ Target \in Sessions /\ None \notin Procs
  BY LivenessAssumption
<1>d. \A n : Loses(n) /\ n = 0 => lost' = lost
  BY <1>0 DEF Loses, ServingTypes
<1>e. \A p : Loss(p) \in {0, 1}
  BY DEF Loss
<1>1. ASSUME NEW p \in Procs, Starts(p) PROVE RecordSound'
  <2>1. /\ served[p] # live[p] /\ pending[p] = <<>> /\ UNCHANGED <<status, published, record, lost>> /\ Follow
        /\ served' = [served EXCEPT ![p] = live[p]] /\ pending' = [pending EXCEPT ![p] = Withdrawal(p) \o Marking(p, live[p])]
        /\ since' = [since EXCEPT ![p] = IF served[p] = None THEN 0 ELSE @]
    BY <1>1 DEF Starts, Announce
  <2>2. ASSUME Serves(p)' PROVE Follows(p)
    <3>1. live[p] = Target
      BY <1>0, <2>1, <2>2 DEF Serves, ServingTypes
    <3>2. published'[p] = NoTime
      BY <1>a, <2>1, <3>1 DEF Fits
    <3>3. Withdrawal(p) \o Marking(p, live[p]) \in {<<"write">>, <<"list", "write">>}
      BY <2>1, <3>1, Announcing
    <3>4. pending'[p] # <<>>
      BY <1>0, <2>1, <3>3 DEF ServingTypes
    <3> QED
      BY <3>2, <3>4 DEF Follows
  <2>3. Undisturbed
    BY <1>0, <2>1, <2>2, OthersFollow DEF Undisturbed, RecordHolds, ServingTypes
  <2> QED
    BY <1>0, <2>3, UndisturbedKeeps
<1>2. ASSUME NEW p \in Procs, Stops(p) PROVE RecordSound'
  <2>1. UNCHANGED <<status, since, published, record, lost>> /\ Follow
        /\ served' = [served EXCEPT ![p] = None] /\ pending' = [pending EXCEPT ![p] = Withdrawal(p)]
    BY <1>2 DEF Stops
  <2>2. ~Serves(p)'
    BY <1>0, <1>b, <2>1 DEF Serves, ServingTypes
  <2>3. Undisturbed
    BY <1>0, <2>1, <2>2, OthersFollow DEF Undisturbed, RecordHolds, ServingTypes
  <2> QED
    BY <1>0, <2>3, UndisturbedKeeps
<1>3. ASSUME NEW p \in Procs, Tick(p) PROVE RecordSound'
  <2>1. UNCHANGED <<status, published, record, lost>> /\ Follow /\ pending[p] = <<>>
        /\ since' = [since EXCEPT ![p] = 0]
    BY <1>3 DEF Tick
  <2>2. \E x, y : served' = [served EXCEPT ![p] = x] /\ pending' = [pending EXCEPT ![p] = y]
    <3>1. served' = served => served' = [served EXCEPT ![p] = served[p]]
      BY <1>0 DEF ServingTypes
    <3>2. pending' = pending => pending' = [pending EXCEPT ![p] = pending[p]]
      BY <1>0 DEF ServingTypes
    <3> QED
      BY <1>3, <3>1, <3>2 DEF Tick, Announce
  <2>3. ASSUME Serves(p)' PROVE Follows(p)
    <3>1. CASE live[p] # served[p] /\ Announce(p)
      <4>1. live[p] = Target /\ pending'[p] = Withdrawal(p) \o Marking(p, live[p])
        BY <1>0, <2>1, <2>3, <3>1 DEF Announce, Serves, ServingTypes
      <4>2. published'[p] = NoTime
        BY <1>a, <2>1, <3>1, <4>1 DEF Fits
      <4>3. Withdrawal(p) \o Marking(p, live[p]) \in {<<"write">>, <<"list", "write">>}
        BY <3>1, <4>1, Announcing
      <4> QED
        BY <4>1, <4>2, <4>3 DEF Follows
    <3>2. CASE live[p] = served[p] /\ pending' = [pending EXCEPT ![p] = Marking(p, live[p])] /\ UNCHANGED served
      <4>1. Serves(p) /\ live[p] = Target
        BY <2>1, <2>3, <3>2 DEF Serves
      <4>2. pending'[p] = Marking(p, Target)
        BY <1>0, <3>2, <4>1 DEF ServingTypes
      <4>3. Marking(p, Target) \in {<<"write">>, <<"list", "write">>}
        BY Joined DEF Marking
      <4> QED
        BY <2>1, <4>1, <4>2, <4>3 DEF Follows
    <3>3. CASE Throttled(p) /\ UNCHANGED <<served, pending>>
      <4>1. Serves(p) /\ since'[p] = 0
        BY <1>0, <2>1, <2>3, <3>3 DEF Serves, ServingTypes
      <4> QED
        BY <2>1, <3>3, <4>1 DEF Follows, Throttled
    <3> QED
      BY <1>3, <3>1, <3>2, <3>3 DEF Tick
  <2>4. Undisturbed
    BY <1>0, <2>1, <2>2, <2>3, OthersFollow DEF Undisturbed, RecordHolds, ServingTypes
  <2> QED
    BY <1>0, <2>4, UndisturbedKeeps
<1>4. ASSUME NEW p \in Procs, Withdraws(p) PROVE RecordSound'
  <2>1. /\ UNCHANGED <<status, since, served>> /\ Follow /\ pending[p] # <<>> /\ Head(pending[p]) = "delete"
        /\ published' = [published EXCEPT ![p] = NoTime] /\ pending' = [pending EXCEPT ![p] = Tail(pending[p])]
        /\ (record' = NoRecord /\ Loses(Loss(p))) \/ Loses(1)
    BY <1>4 DEF Withdraws, Doing, Done, managerVars
  <2>2. ~Serves(p) /\ ~Serves(p)'
    BY <1>a, <2>1, Heads DEF Fits, Serves
  <2>3. CASE Loses(1)
    BY <1>0, <2>1, <2>3, LossKeeps
  <2>4. CASE record' = NoRecord /\ Loses(Loss(p)) /\ Loss(p) = 0
    <3>1. lost' = lost
      BY <1>d, <2>4
    <3>2. CASE record = NoRecord
      <4>1. Undisturbed
        BY <1>0, <2>1, <2>2, <2>4, <3>1, <3>2, OthersFollow DEF Undisturbed, RecordHolds, ServingTypes
      <4> QED
        BY <1>0, <4>1, UndisturbedKeeps
    <3>3. CASE record # NoRecord
      <4>1. \A q \in Procs : ~Serves(q)'
        BY <2>1, <2>2, <2>4, <3>3, NoOtherServes DEF Serves
      <4> QED
        BY <4>1, NobodyServes
    <3> QED
      BY <3>2, <3>3
  <2> QED
    BY <1>e, <2>1, <2>3, <2>4
<1>5. ASSUME NEW p \in Procs, Lists(p) PROVE RecordSound'
  <2>1. /\ UNCHANGED <<status, since, served, published, record, lost>> /\ Follow
        /\ pending[p] # <<>> /\ Head(pending[p]) = "list"
        /\ pending' \in {[pending EXCEPT ![p] = Tail(pending[p])], [pending EXCEPT ![p] = <<"sweep">> \o Tail(pending[p])]}
    BY <1>5 DEF Lists, Doing, managerVars
  <2>2. ASSUME Serves(p)' PROVE Follows(p)
    <3>1. Serves(p) /\ pending[p] = <<"list", "write">>
      BY <1>a, <2>1, <2>2, Heads DEF Fits, Serves
    <3>2. Tail(pending[p]) = <<"write">> /\ <<"sweep">> \o Tail(pending[p]) = <<"sweep", "write">>
      BY <3>1, Tails, Joined
    <3>3. pending'[p] # <<>>
      BY <1>0, <2>1, <3>2 DEF ServingTypes
    <3> QED
      BY <2>1, <3>1, <3>3 DEF Follows
  <2>3. Undisturbed
    BY <1>0, <2>1, <2>2, OthersFollow DEF Undisturbed, RecordHolds, ServingTypes
  <2> QED
    BY <1>0, <2>3, UndisturbedKeeps
<1>6. ASSUME NEW p \in Procs, Sweeps(p) PROVE RecordSound'
  <2>1. /\ UNCHANGED <<status, since, served, published>> /\ Follow /\ pending[p] # <<>> /\ Head(pending[p]) = "sweep"
        /\ record' = NoRecord /\ Loses(Loss(p)) /\ pending' = [pending EXCEPT ![p] = Tail(pending[p])]
    BY <1>6 DEF Sweeps, Doing, Done, managerVars
  <2>2. Sweeping(p) /\ published'[p] = NoTime
    BY <1>a, <2>1, Heads DEF Fits, Sweeping
  <2>3. Serves(p)' => pending'[p] = <<"write">>
    <3>1. Serves(p)' => pending[p] = <<"sweep", "write">>
      BY <1>a, <2>1, Heads DEF Fits, Serves
    <3> QED
      BY <1>0, <2>1, <3>1, Tails DEF ServingTypes
  <2>4. CASE Loss(p) = 1
    BY <1>0, <2>1, <2>4, LossKeeps
  <2>5. CASE Loss(p) = 0
    <3>1. lost' = lost
      BY <1>d, <2>1, <2>5
    <3>2. CASE record = NoRecord
      <4>1. Serves(p)' => Follows(p)
        BY <2>2, <2>3 DEF Follows
      <4>2. Undisturbed
        BY <1>0, <2>1, <3>1, <3>2, <4>1, OthersFollow DEF Undisturbed, RecordHolds, ServingTypes
      <4> QED
        BY <1>0, <4>2, UndisturbedKeeps
    <3>3. CASE record # NoRecord
      <4>1. \A q \in Procs : Serves(q)' => q = p
        BY <2>1, <2>5, <3>3, NoOtherServes DEF Serves
      <4>2. \A q \in Procs : Serves(q)' => Attested(q)'
        BY <2>2, <2>3, <4>1 DEF Attested
      <4>3. servedFor = 0 \/ Lately(Longest)
        BY <2>2 DEF ServedInv, LossesHeal, SweepsHarmless
      <4>4. servedFor' > 0 => (lost' # NoTime /\ lost' <= Longest)
        BY <1>0, <2>1, <3>1, <4>3 DEF Follow, Lately, ServingTypes
      <4> QED
        BY <4>2, <4>4 DEF RecordSound, Lately, Longest
    <3> QED
      BY <3>2, <3>3
  <2> QED
    BY <1>e, <2>4, <2>5
<1>7. ASSUME NEW p \in Procs, Writes(p) PROVE RecordSound'
  BY <1>0, <1>7, WritingKeeps
<1>8. ASSUME NEW p \in Procs, MarkingFails(p) PROVE RecordSound'
  BY <1>0, <1>8, LossKeeps DEF MarkingFails
<1>9. ASSUME NEW p \in Procs, Renamed(p) PROVE RecordSound'
  <2>1. UNCHANGED <<status, since, served, published, pending, record, lost>> /\ Follow
    BY <1>9 DEF Renamed, storeVars
  <2>2. Undisturbed
    BY <2>1 DEF Undisturbed, RecordHolds, Follows, Serves
  <2> QED
    BY <1>0, <2>2, UndisturbedKeeps
<1>10. ASSUME NEW p \in Procs, Hangs(p) PROVE RecordSound'
  <2>1. /\ UNCHANGED <<since, served, published, pending, record>> /\ Follow /\ status[p] \in {"up", "hung"}
        /\ status' = [status EXCEPT ![p] = IF @ = "up" THEN "hung" ELSE "up"]
        /\ Loses(0) \/ Loses(Loss(p))
    BY <1>10 DEF Hangs, managerVars, storeVars
  <2>2. CASE Loses(1)
    BY <1>0, <2>1, <2>2, LossKeeps
  <2>3. CASE Loses(0)
    <3>1. status'[p] \in {"up", "hung"} /\ \A q \in Procs \ {p} : status'[q] = status[q]
      BY <1>0, <2>1 DEF ServingTypes
    <3>2. \A q \in Procs : Serves(q)' => Serves(q)
      BY <2>1, <3>1 DEF Serves
    <3>3. RecordHolds => RecordHolds'
      <4>1. RecordHolds => record.by \in Procs
        BY <1>0 DEF RecordHolds, ServingTypes
      <4> QED
        BY <2>1, <3>1, <4>1 DEF RecordHolds
    <3>4. Undisturbed
      BY <1>0, <1>d, <2>1, <2>3, <3>2, <3>3 DEF Undisturbed, Follows
    <3> QED
      BY <1>0, <3>4, UndisturbedKeeps
  <2> QED
    BY <1>e, <2>1, <2>2, <2>3
<1>11. ASSUME NEW p \in Procs, Dies(p) PROVE RecordSound'
  <2>1. /\ UNCHANGED <<since, record>> /\ Follow
        /\ status' = [status EXCEPT ![p] = "dead"] /\ served' = [served EXCEPT ![p] = None]
        /\ published' = [published EXCEPT ![p] = NoTime] /\ pending' = [pending EXCEPT ![p] = <<>>]
        /\ Loses(IF record.by = p THEN Loss(p) ELSE 0)
    BY <1>11 DEF Dies
  <2>2. ~Serves(p)'
    BY <1>0, <1>b, <2>1 DEF Serves, ServingTypes
  <2>3. CASE Loses(1)
    BY <1>0, <2>1, <2>3, LossKeeps
  <2>4. CASE record.by = p /\ Loss(p) = 0
    <3>1. record # NoRecord
      BY <1>b, <2>4 DEF NoRecord
    <3>2. \A q \in Procs : ~Serves(q)'
      <4>1. \A q \in Procs \ {p} : status'[q] = status[q] /\ served'[q] = served[q]
        BY <1>0, <2>1 DEF ServingTypes
      <4> QED
        BY <2>2, <2>4, <3>1, <4>1, NoOtherServes DEF Serves
    <3>3. lost' = lost
      BY <1>d, <2>1, <2>4
    <3> QED
      BY <3>2, NobodyServes
  <2>5. CASE record.by # p
    <3>1. RecordHolds => RecordHolds'
      <4>1. RecordHolds => record.by \in Procs
        BY <1>0 DEF RecordHolds, ServingTypes
      <4> QED
        BY <1>0, <2>1, <2>5, <4>1 DEF RecordHolds, ServingTypes
    <3>2. lost' = lost
      BY <1>d, <2>1, <2>5
    <3>3. Undisturbed
      BY <1>0, <2>1, <2>2, <3>1, <3>2, OthersFollow DEF Undisturbed, ServingTypes
    <3> QED
      BY <1>0, <3>3, UndisturbedKeeps
  <2> QED
    BY <1>e, <2>1, <2>3, <2>4, <2>5
<1>12. ASSUME NEW p \in Procs, PidReused(p) PROVE RecordSound'
  <2>1. /\ UNCHANGED <<since, served, published, pending, record, lost>> /\ Follow /\ status[p] = "dead"
        /\ status' = [status EXCEPT ![p] = "reused"]
    BY <1>12 DEF PidReused, managerVars, storeVars
  <2>2. \A q \in Procs : Serves(q)' => Serves(q)
    BY <1>0, <2>1 DEF Serves, ServingTypes
  <2>3. RecordHolds => RecordHolds'
    <3>1. RecordHolds => record.by \in Procs
      BY <1>0 DEF RecordHolds, ServingTypes
    <3> QED
      BY <1>0, <2>1, <3>1 DEF RecordHolds, ServingTypes
  <2>4. Undisturbed
    BY <2>1, <2>2, <2>3 DEF Undisturbed, Follows
  <2> QED
    BY <1>0, <2>4, UndisturbedKeeps
<1>13. CASE Removed
  BY <1>0, <1>13, LossKeeps DEF Removed
<1>14. CASE Forwards
  <2>1. UNCHANGED <<status, since, served, published, pending, record, lost>> /\ Follow
    BY <1>14 DEF Forwards, managerVars, storeVars
  <2>2. Undisturbed
    BY <2>1 DEF Undisturbed, RecordHolds, Follows, Serves
  <2> QED
    BY <1>0, <2>2, UndisturbedKeeps
<1>15. CASE ChildPolls \/ ChildEnds
  <2>1. UNCHANGED <<status, since, served, published, pending, record, lost>> /\ Follow
    BY <1>15 DEF ChildPolls, ChildEnds, managerVars, storeVars
  <2>2. Undisturbed
    BY <2>1 DEF Undisturbed, RecordHolds, Follows, Serves
  <2> QED
    BY <1>0, <2>2, UndisturbedKeeps
<1>16. CASE Elapse
  BY <1>0, <1>16, ElapseKeeps
<1> QED
  BY <1>1, <1>2, <1>3, <1>4, <1>5, <1>6, <1>7, <1>8, <1>9, <1>10, <1>11, <1>12, <1>13, <1>14, <1>15, <1>16
     DEF ServingNext, Announcement

LEMMA ServedInvHolds == ASSUME WindowFits PROVE ServingSpec => []ServedInv
<1>1. ServingInit => ServedInv
  BY InitServing, InitFits, InitCounts, InitServed DEF ServedInv, ServingInv
<1>2. ServedInv /\ ServingTypes' /\ [ServingNext]_servingVars => ServedInv'
  <2> SUFFICES ASSUME ServedInv, ServingTypes', [ServingNext]_servingVars PROVE ServedInv'
    OBVIOUS
  <2>1. CASE ServingNext
    <3>1. AnnouncementsFit' /\ CountsFit'
      BY <2>1, StepFits, StepCounts DEF ServedInv
    <3>2. host' = None => host = None
      BY <2>1, InstantSteps DEF ServedInv, Instant, Forwards, ChildPolls, ChildEnds, Elapse, CountsFit
    <3>3. LossesHeal'
      BY <2>1, <3>2, StepRecords, StepLooks, StepSweeps DEF LossesHeal
    <3> QED
      BY <3>1, <3>3 DEF ServedInv
  <2>2. CASE UNCHANGED servingVars
    BY <2>2 DEF servingVars, managerVars, storeVars, waiterVars, ServedInv, AnnouncementsFit, Fits, Sweeping, CountsFit, Served, Polls,
                LossesHeal, SweepsHarmless, RecordSound, LooksBriefly, Attested, Lately, InVain, Brief, RecordHolds, Serves, Longest
  <2> QED
    BY <2>1, <2>2
<1> QED
  BY <1>1, <1>2, ServingTypeCorrect, PTL DEF ServingSpec

LEMMA GivesUpAlone ==
    ASSUME ServedInv, WindowFits, ServingNext, child = "waiting", child' = "gaveUp"
    PROVE  servedFor < Grace
<1>0. ServingTypes /\ CountsFit
  BY DEF ServedInv
<1>1. ChildPolls
  BY <1>0, InstantSteps DEF Instant, Forwards, ChildEnds, Elapse
<1>2. Window >= Grace
  BY <1>1 DEF ChildPolls
<1>3. /\ Refresh \in Nat \ {0} /\ Gap \in Nat \ {0} /\ Grace \in Nat /\ Grace > Gap + Longest /\ Longest \in Nat
      /\ unserved \in Nat \cup {NoTime} /\ servedFor \in Nat /\ polled \in Nat /\ polled <= Gap /\ lost \in Nat \cup {NoTime}
  BY <1>0, LivenessAssumption DEF WindowFits, Longest, ServingTypes
<1>4. ~IsServing /\ unserved # NoTime /\ unserved >= Grace
  BY <1>2, <1>3 DEF Window, NoTime
<1>5. CASE host # None
  <2>1. ~Served
    BY <1>0, <1>4, <1>5 DEF Served, Polls, IsServing, ServingTypes
  <2> QED
    BY <1>0, <1>3, <2>1 DEF CountsFit
<1>6. CASE host = None
  <2>1. RecordSound /\ LooksBriefly
    BY <1>6 DEF ServedInv, LossesHeal
  <2>2. CASE servedFor = 0
    BY <1>3, <2>2
  <2>3. CASE Lately(Longest)
    <3>1. lost \in Nat /\ Gap + lost < Grace /\ polled < Grace
      BY <1>3, <2>3 DEF Lately
    <3>2. Brief(unserved, servedFor, polled) \/ Brief(unserved, servedFor, Gap + lost)
      BY <2>1 DEF LooksBriefly, InVain
    <3> QED
      BY <1>3, <1>4, <3>1, <3>2 DEF Brief
  <2> QED
    BY <1>0, <1>4, <1>6, <2>1, <2>2, <2>3, PollingFinds
<1> QED
  BY <1>5, <1>6

(***************************************************************************)
(* A child never gives up on a session that has been polled for the whole  *)
(* of its grace window, whatever becomes of the record or of a call once   *)
(* in every such time: for any number of processes and of losses, and any  *)
(* lengths that fit.                                                       *)
(***************************************************************************)
THEOREM NobodyGivesUpServed == ASSUME WindowFits PROVE ServingSpec => ServedIsWaitedFor
<1>1. ServedInv /\ [ServingNext]_servingVars => [child = "waiting" /\ child' = "gaveUp" => servedFor < Grace]_servingVars
  BY GivesUpAlone
<1> QED
  BY <1>1, ServedInvHolds, PTL DEF ServingSpec, ServedIsWaitedFor
=============================================================================
