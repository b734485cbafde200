------------------------- MODULE PermissionGatesProofs -------------------------
(***************************************************************************)
(* Proofs about PermissionGates, for any calls, requests, shapes, links    *)
(* and sessions.                                                           *)
(***************************************************************************)
EXTENDS PermissionGates, SequenceTheorems, WellFoundedInduction, TLAPS

--------------------------------------------------------------------------------
(* The gates that the producers make, and the order they run in.           *)

Less == {p \in Nat \X Nat : p[1] < p[2]}

LEMMA LessWellFounded == IsWellFoundedOn(Less, Nat)
  <1>1. OpToRel(<, Nat) = Less
    BY DEF OpToRel, Less
  <1>2. QED
    BY <1>1, NatLessThanWellFounded

(* A set of positions has a first one. *)
LEMMA FirstExists ==
  ASSUME NEW T, T \subseteq Nat, T # {}
  PROVE  \E i \in T : \A j \in T : i <= j
  <1>1. PICK i \in T : \A j \in T : ~ (<<j, i>> \in Less)
    BY LessWellFounded, WFMin
  <1>2. \A j \in T : ~ (j < i)
    BY <1>1 DEF Less
  <1>3. QED
    BY <1>2

LEMMA VerdictsTyped ==
  ASSUME NEW a
  PROVE  Verdicts(a) \subseteq States
  BY DEF Verdicts, States

LEMMA StoppingTyped ==
  ASSUME NEW a \in Accesses, NEW v \in States, NEW grants \in SUBSET Accesses
  PROVE  Stopping(a, v, grants) \in Gates
  <1>1. a[1] \in Surfaces
    BY DEF Accesses
  <1>2. QED
    BY <1>1 DEF Stopping, Gates

LEMMA NoGateTyped == NoGate \in Gates
  BY DEF NoGate, Stopping, Gates, States

LEMMA UncoveredTyped ==
  ASSUME NEW accesses \in SUBSET Accesses, NEW checks \in Uncovered(accesses)
  PROVE  /\ DOMAIN checks \subseteq accesses
         /\ \A a \in DOMAIN checks : checks[a] \in States
  <1>1. PICK v \in [accesses -> States] : checks = [a \in {b \in accesses : v[b] # "allow"} |-> v[a]]
    BY DEF Uncovered
  <1>2. QED
    BY <1>1

(* What a producer makes is a gate. *)
LEMMA GatesTyped ==
  ASSUME NEW part \in [by : Producers, on : SUBSET Accesses]
  PROVE  GatesOf(part) \subseteq Gates
  <1>1. part.on \subseteq Accesses /\ part.by \in Producers
    OBVIOUS
  <1>2. CASE part.by = "bash_external"
    <2> SUFFICES ASSUME NEW g \in DescribeBashExternalDirectoryGate(part.on) PROVE g \in Gates
      BY <1>2 DEF GatesOf
    <2>1. PICK checks \in Uncovered(part.on) :
             \/ g = NoGate
             \/ \E a \in MostRestrictive(checks) : g = Stopping(a, checks[a], DOMAIN checks)
      BY DEF DescribeBashExternalDirectoryGate
    <2>2. /\ DOMAIN checks \subseteq Accesses
          /\ \A a \in DOMAIN checks : checks[a] \in States
      BY <1>1, UncoveredTyped
    <2>3. ASSUME NEW a \in MostRestrictive(checks) PROVE Stopping(a, checks[a], DOMAIN checks) \in Gates
      <3>1. a \in DOMAIN checks
        BY DEF MostRestrictive
      <3>2. QED
        BY <2>2, <3>1, StoppingTyped
    <2>4. QED
      BY <2>1, <2>3, NoGateTyped
  <1>3. CASE part.by = "bash_path"
    <2> SUFFICES ASSUME NEW g \in DescribeBashPathGate(part.on) PROVE g \in Gates
      BY <1>3 DEF GatesOf
    <2>1. PICK checks \in Uncovered(part.on) :
             \/ g = NoGate
             \/ \E a \in MostRestrictive(checks) : g = Stopping(a, checks[a], {a})
      BY DEF DescribeBashPathGate
    <2>2. /\ DOMAIN checks \subseteq Accesses
          /\ \A a \in DOMAIN checks : checks[a] \in States
      BY <1>1, UncoveredTyped
    <2>3. ASSUME NEW a \in MostRestrictive(checks) PROVE Stopping(a, checks[a], {a}) \in Gates
      <3>1. a \in DOMAIN checks
        BY DEF MostRestrictive
      <3>2. a \in Accesses /\ checks[a] \in States /\ {a} \in SUBSET Accesses
        BY <2>2, <3>1
      <3>3. QED
        BY <3>2, StoppingTyped
    <2>4. QED
      BY <2>1, <2>3, NoGateTyped
  <1>4. ASSUME NEW a \in part.on, NEW v \in Verdicts(a), NEW grants \in {{}, {a}}
        PROVE  Stopping(a, v, grants) \in Gates
    <2>1. a \in Accesses /\ v \in States /\ grants \in SUBSET Accesses
      BY <1>1, <1>4, VerdictsTyped
    <2>2. QED
      BY <2>1, StoppingTyped
  <1>5. CASE part.by = "path"
    <2>1. GatesOf(part) = UNION {DescribePathGate(a) : a \in part.on}
      BY <1>5 DEF GatesOf
    <2>2. ASSUME NEW a \in part.on PROVE DescribePathGate(a) \subseteq Gates
      BY <1>4, NoGateTyped DEF DescribePathGate
    <2>3. QED
      BY <2>1, <2>2
  <1>6. CASE part.by = "external"
    <2>1. GatesOf(part) = UNION {DescribeExternalDirectoryGate(a) : a \in part.on}
      BY <1>6 DEF GatesOf
    <2>2. ASSUME NEW a \in part.on PROVE DescribeExternalDirectoryGate(a) \subseteq Gates
      BY <1>4, NoGateTyped DEF DescribeExternalDirectoryGate
    <2>3. QED
      BY <2>1, <2>2
  <1>7. CASE part.by = "skill"
    <2>1. GatesOf(part) = UNION {DescribeSkillReadGate(a) : a \in part.on}
      BY <1>7 DEF GatesOf
    <2>2. ASSUME NEW a \in part.on PROVE DescribeSkillReadGate(a) \subseteq Gates
      BY <1>4, NoGateTyped DEF DescribeSkillReadGate
    <2>3. QED
      BY <2>1, <2>2
  <1>8. CASE part.by = "tool"
    <2>1. GatesOf(part) = UNION {DescribeToolGate(a) : a \in part.on}
      BY <1>8 DEF GatesOf
    <2>2. ASSUME NEW a \in part.on PROVE DescribeToolGate(a) \subseteq Gates
      BY <1>4 DEF DescribeToolGate
    <2>3. QED
      BY <2>1, <2>2
  <1>9. QED
    BY <1>1, <1>2, <1>3, <1>5, <1>6, <1>7, <1>8 DEF Producers

(* A denying gate runs alone. *)
DenyAlone(gs) == (\E i \in 1 .. Len(gs) : Denies(gs[i])) => Len(gs) = 1

LEMMA DenyFirstTyped ==
  ASSUME NEW n \in Nat \ {0}, NEW gs \in [1 .. n -> Gates]
  PROVE  DenyFirst(gs) \in Seq(Gates) /\ Len(DenyFirst(gs)) > 0 /\ DenyAlone(DenyFirst(gs))
  <1>1. CASE \E i \in 1 .. n : Denies(gs[i])
    <2> DEFINE T == {i \in 1 .. n : Denies(gs[i])}
    <2>1. PICK i \in T : \A j \in T : i <= j
      <3>1. T \subseteq Nat /\ T # {}
        BY <1>1
      <3>2. QED
        BY <3>1, FirstExists
    <2>2. Denies(gs[i]) /\ \A j \in 1 .. i - 1 : ~Denies(gs[j])
      BY <2>1
    <2>3. PICK k \in 1 .. n : DenyFirst(gs) = <<gs[k]>>
      BY <1>1, <2>2 DEF DenyFirst
    <2>4. gs[k] \in Gates
      OBVIOUS
    <2>5. QED
      BY <2>3, <2>4 DEF DenyAlone
  <1>2. CASE ~ \E i \in 1 .. n : Denies(gs[i])
    <2>1. DenyFirst(gs) = gs
      BY <1>2 DEF DenyFirst
    <2>2. gs \in Seq(Gates) /\ Len(gs) = n
      OBVIOUS
    <2>3. QED
      BY <1>2, <2>1, <2>2 DEF DenyAlone
  <1>3. QED
    BY <1>1, <1>2
--------------------------------------------------------------------------------
(* The inductive invariant.                                                *)

TypeSession ==
    /\ hasUI \in BOOLEAN /\ yolo \in BOOLEAN
    /\ authority \in {"none", "local", "relay", "deny"}

TypeGrants == rules \subseteq Rules /\ granted \subseteq Accesses \X Widths

TypeCalls ==
    /\ at \in [Asking -> Pending \cup {"idle", "parsing", "running", "allowed", "blocked"}]
    /\ gates \in [Asking -> Seq(Gates)]
    /\ decided \in [Asking -> Seq(Deciders)]
    /\ hops \in [Asking -> 0 .. MaxLinks]
    /\ terminal \in [Asking -> {"none", "local", "deny"}]

TypeDialogs ==
    /\ tail \in Tails
    /\ line \in [Tails -> Seq(Asking)]
    /\ shown \in [Tails -> BOOLEAN]
    /\ slot \in Tails \cup {0}

(* The states of a call whose gates are produced and that nobody refused. *)
Underway == Pending \cup {"running", "allowed"}

(* What lets a call pass a gate. *)
Passed(gate, by) ==
    /\ gate.check # "deny"
    /\ gate.check = "ask" => by # "policy"
    /\ by = "link" => LinkMayAllow(gate)

(* Where a call is among its gates: behind those that were decided, each    *)
(* rightly, and at an ask while it waits for an answer.                     *)
Gated(x) ==
    /\ at[x] \in {"idle", "parsing"} => decided[x] = <<>>
    /\ at[x] \in Underway =>
          /\ Len(gates[x]) > 0 /\ Len(decided[x]) <= Len(gates[x])
          /\ DenyAlone(gates[x])
          /\ \A i \in 1 .. Len(decided[x]) : Passed(gates[x][i], decided[x][i])
    /\ at[x] = "allowed" => Len(decided[x]) = Len(gates[x])
    /\ at[x] \in Pending => Len(decided[x]) < Len(gates[x]) /\ Current(x).check = "ask"

(* A line holds asks that wait, each once, and only that of the current    *)
(* tail those that are owed an answer; the slot shows the first of a line. *)
LinesFit ==
    /\ \A t \in Tails : \A i \in 1 .. Len(line[t]) :
          /\ at[line[t][i]] \in {"queued", "blocked"}
          /\ at[line[t][i]] = "queued" => t = tail
          /\ \A j \in 1 .. Len(line[t]) : line[t][i] = line[t][j] => i = j
    /\ \A t \in Tails : shown[t] => line[t] # <<>>
    /\ slot # 0 => shown[slot]

IInv ==
    /\ TypeOK
    /\ \A x \in Asking : Gated(x)
    /\ LinesFit
    /\ OneDialog
    /\ RulesAreTheGrants

LEMMA TypesTogether == TypeOK <=> TypeSession /\ TypeGrants /\ TypeCalls /\ TypeDialogs
  BY DEF TypeOK, TypeSession, TypeGrants, TypeCalls, TypeDialogs

LEMMA Tailed == Tails \subseteq Nat \ {0} /\ 1 \in Tails
  BY BoundsAssumption DEF Tails

LEMMA Initially == Init => IInv
  <1> SUFFICES ASSUME Init PROVE IInv
    OBVIOUS
  <1>1. TypeSession
    <2>1. hasUI \in BOOLEAN
      BY DEF Init
    <2>2. yolo \in BOOLEAN
      BY DEF Init
    <2>3. QED
      BY <2>1, <2>2 DEF Init, TypeSession
  <1>2. TypeGrants
    BY DEF Init, TypeGrants
  <1>3. TypeCalls
    BY BoundsAssumption DEF Init, TypeCalls
  <1>4. TypeDialogs
    BY Tailed DEF Init, TypeDialogs
  <1>5. ASSUME NEW x \in Asking PROVE Gated(x)
    BY DEF Init, Gated, Underway, Pending
  <1>6. LinesFit
    BY DEF Init, LinesFit
  <1>7. OneDialog
    BY DEF Init, OneDialog
  <1>8. RulesAreTheGrants
    BY DEF Init, RulesAreTheGrants
  <1>9. QED
    BY <1>1, <1>2, <1>3, <1>4, <1>5, <1>6, <1>7, <1>8, TypesTogether DEF IInv

(* The invariant at the steps, part by part. *)
LEMMA Stays ==
  ASSUME IInv, TypeSession', TypeGrants', TypeCalls', TypeDialogs',
         \A x \in Asking : Gated(x)', LinesFit', OneDialog', RulesAreTheGrants'
  PROVE  IInv'
  BY DEF IInv, TypeOK, TypeSession, TypeGrants, TypeCalls, TypeDialogs

LEMMA Parts ==
  ASSUME IInv
  PROVE  /\ TypeSession /\ TypeGrants /\ TypeCalls /\ TypeDialogs
         /\ \A x \in Asking : Gated(x)
         /\ LinesFit /\ OneDialog /\ RulesAreTheGrants
  BY TypesTogether DEF IInv

--------------------------------------------------------------------------------
(* What a step leaves alone.                                               *)

(* The gates of everybody else. *)
LEMMA OthersGated ==
  ASSUME NEW x \in Asking, Gated(x),
         at'[x] = at[x], gates'[x] = gates[x], decided'[x] = decided[x]
  PROVE  Gated(x)'
  BY DEF Gated, Current, Position

(* The lines, when an ask moves that is on none of them. *)
LEMMA OffTheLines ==
  ASSUME TypeCalls, TypeDialogs, LinesFit, OneDialog, UNCHANGED dialogVars,
         NEW x \in Asking, at[x] \notin {"queued", "blocked"},
         \A y \in Asking \ {x} : at'[y] = at[y]
  PROVE  LinesFit' /\ OneDialog'
  <1>1. \A t \in Tails : \A i \in 1 .. Len(line[t]) : line[t][i] \in Asking /\ line[t][i] # x
    BY DEF TypeDialogs, LinesFit
  <1>2. \A t \in Tails : \A i \in 1 .. Len(line[t]) : at'[line[t][i]] = at[line[t][i]]
    BY <1>1
  <1>3. LinesFit'
    BY <1>2 DEF LinesFit, dialogVars
  <1>4. \A t \in Tails : line[t] # <<>> => at'[Head(line[t])] = at[Head(line[t])]
    <2> SUFFICES ASSUME NEW t \in Tails, line[t] # <<>> PROVE at'[Head(line[t])] = at[Head(line[t])]
      OBVIOUS
    <2>1. Len(line[t]) > 0 /\ Head(line[t]) = line[t][1]
      BY DEF TypeDialogs
    <2>2. 1 \in 1 .. Len(line[t])
      BY <2>1 DEF TypeDialogs
    <2>3. QED
      BY <1>2, <2>1, <2>2
  <1>5. OneDialog'
    BY <1>4 DEF OneDialog, dialogVars
  <1>6. QED
    BY <1>3, <1>5

(* Somebody is refused. *)
LEMMA Refused ==
  ASSUME TypeCalls, \A y \in Asking : Gated(y), NEW x \in Asking,
         at' = [at EXCEPT ![x] = "blocked"], UNCHANGED <<gates, decided, hops, terminal>>
  PROVE  TypeCalls' /\ \A y \in Asking : Gated(y)'
  <1>1. TypeCalls'
    BY DEF TypeCalls
  <1>2. Gated(x)'
    BY DEF TypeCalls, Gated, Underway, Pending
  <1>3. ASSUME NEW y \in Asking, y # x PROVE Gated(y)'
    <2>1. at'[y] = at[y]
      BY <1>3 DEF TypeCalls
    <2>2. QED
      BY <2>1, OthersGated
  <1>4. QED
    BY <1>1, <1>2, <1>3

(* Somebody passes the gate they are at. *)
LEMMA Passes ==
  ASSUME TypeCalls, \A y \in Asking : Gated(y), NEW x \in Asking, NEW by \in Deciders,
         at[x] \in Underway, Position(x) <= Len(gates[x]), Passed(Current(x), by),
         Pass(x, by), UNCHANGED <<gates, hops, terminal>>
  PROVE  TypeCalls' /\ \A y \in Asking : Gated(y)'
  <1>1. decided[x] \in Seq(Deciders) /\ gates[x] \in Seq(Gates) /\ Gated(x)
    BY DEF TypeCalls
  <1>2. decided'[x] = Append(decided[x], by) /\ at'[x] = "running" /\ gates'[x] = gates[x]
    BY DEF TypeCalls, Pass
  <1>3. TypeCalls'
    BY <1>1, <1>2 DEF TypeCalls, Pass
  <1>4. Len(decided'[x]) = Len(decided[x]) + 1
    BY <1>1, <1>2
  <1>5. \A i \in 1 .. Len(decided[x]) + 1 : Passed(gates[x][i], decided'[x][i])
    <2> SUFFICES ASSUME NEW i \in 1 .. Len(decided[x]) + 1 PROVE Passed(gates[x][i], decided'[x][i])
      OBVIOUS
    <2>1. CASE i = Len(decided[x]) + 1
      <3>1. decided'[x][i] = by
        BY <1>1, <1>2, <2>1
      <3>2. QED
        BY <2>1, <3>1 DEF Current, Position
    <2>2. CASE i \in 1 .. Len(decided[x])
      <3>1. decided'[x][i] = decided[x][i]
        BY <1>1, <1>2, <2>2
      <3>2. QED
        BY <1>1, <2>2, <3>1 DEF Gated
    <2>3. QED
      BY <1>1, <2>1, <2>2
  <1>6. Gated(x)'
    <2>1. Len(gates[x]) > 0 /\ Len(decided'[x]) <= Len(gates[x]) /\ DenyAlone(gates[x])
      BY <1>1, <1>4 DEF Gated, Position
    <2>2. QED
      BY <1>2, <1>4, <1>5, <2>1 DEF Gated, Underway, Pending
  <1>7. ASSUME NEW y \in Asking, y # x PROVE Gated(y)'
    <2>1. at'[y] = at[y] /\ decided'[y] = decided[y]
      BY <1>7 DEF TypeCalls, Pass
    <2>2. QED
      BY <2>1, OthersGated
  <1>8. QED
    BY <1>3, <1>6, <1>7

(* Somebody waits, or waits on, at the ask they are at. *)
LEMMA Waits ==
  ASSUME TypeCalls, \A y \in Asking : Gated(y), NEW x \in Asking, NEW where \in Pending,
         at[x] \in Underway, Position(x) <= Len(gates[x]), Current(x).check = "ask",
         at' = [at EXCEPT ![x] = where], UNCHANGED <<gates, decided>>,
         hops' \in [Asking -> 0 .. MaxLinks], terminal' \in [Asking -> {"none", "local", "deny"}]
  PROVE  TypeCalls' /\ \A y \in Asking : Gated(y)'
  <1>1. TypeCalls'
    BY DEF TypeCalls
  <1>2. Gated(x)'
    <2>1. at'[x] = where /\ decided[x] \in Seq(Deciders) /\ gates[x] \in Seq(Gates) /\ Gated(x)
      BY DEF TypeCalls
    <2>2. Current(x)' = Current(x)
      BY DEF Current, Position
    <2>3. Len(decided[x]) < Len(gates[x])
      BY <2>1 DEF Position
    <2>4. QED
      BY <2>1, <2>2, <2>3 DEF Gated, Underway, Pending
  <1>3. ASSUME NEW y \in Asking, y # x PROVE Gated(y)'
    <2>1. at'[y] = at[y]
      BY <1>3 DEF TypeCalls
    <2>2. QED
      BY <2>1, OthersGated
  <1>4. QED
    BY <1>1, <1>2, <1>3

(* An ask is queued behind the others of the current tail. *)
LEMMA Queues ==
  ASSUME TypeCalls, TypeDialogs, LinesFit, OneDialog, NEW x \in Asking,
         at[x] \notin {"queued", "blocked"}, at' = [at EXCEPT ![x] = "queued"],
         line' = [line EXCEPT ![tail] = Append(@, x)], UNCHANGED <<tail, shown, slot>>
  PROVE  TypeDialogs' /\ LinesFit' /\ OneDialog'
  <1>1. tail \in Tails /\ line[tail] \in Seq(Asking) /\ line'[tail] = Append(line[tail], x)
    BY DEF TypeDialogs
  <1>2. TypeDialogs'
    <2>1. line' \in [Tails -> Seq(Asking)]
      BY <1>1 DEF TypeDialogs
    <2>2. QED
      BY <2>1 DEF TypeDialogs
  <1>3. \A t \in Tails : \A i \in 1 .. Len(line[t]) : line[t][i] \in Asking /\ line[t][i] # x
    BY DEF TypeDialogs, LinesFit
  <1>4. \A t \in Tails : \A i \in 1 .. Len(line[t]) : at'[line[t][i]] = at[line[t][i]]
    BY <1>3 DEF TypeCalls
  <1>5. at'[x] = "queued"
    BY DEF TypeCalls
  <1>6. \A t \in Tails \ {tail} : line'[t] = line[t]
    BY DEF TypeDialogs
  <1>7. /\ Len(line'[tail]) = Len(line[tail]) + 1 /\ line'[tail][Len(line[tail]) + 1] = x
        /\ \A i \in 1 .. Len(line[tail]) : line'[tail][i] = line[tail][i]
    BY <1>1
  <1>8. ASSUME NEW t \in Tails, NEW i \in 1 .. Len(line'[t])
        PROVE  /\ at'[line'[t][i]] \in {"queued", "blocked"}
               /\ at'[line'[t][i]] = "queued" => t = tail
               /\ \A j \in 1 .. Len(line'[t]) : line'[t][i] = line'[t][j] => i = j
    <2>1. CASE t # tail
      BY <1>4, <1>6, <1>8, <2>1 DEF LinesFit
    <2>2. CASE t = tail /\ i \in 1 .. Len(line[tail])
      <3>1. line'[t][i] = line[t][i] /\ at'[line'[t][i]] = at[line[t][i]] /\ line[t][i] # x
        BY <1>3, <1>4, <1>7, <2>2
      <3>2. ASSUME NEW j \in 1 .. Len(line'[t]), line'[t][i] = line'[t][j] PROVE i = j
        <4>1. j \in 1 .. Len(line[tail])
          BY <1>1, <1>7, <2>2, <3>1, <3>2
        <4>2. QED
          BY <1>7, <2>2, <3>1, <3>2, <4>1 DEF LinesFit
      <3>3. QED
        BY <2>2, <3>1, <3>2 DEF LinesFit
    <2>3. CASE t = tail /\ i = Len(line[tail]) + 1
      <3>1. line'[t][i] = x
        BY <1>7, <2>3
      <3>2. ASSUME NEW j \in 1 .. Len(line'[t]), line'[t][i] = line'[t][j] PROVE i = j
        BY <1>1, <1>3, <1>7, <2>3, <3>1, <3>2
      <3>3. QED
        BY <1>5, <2>3, <3>1, <3>2
    <2>4. QED
      BY <1>1, <1>7, <1>8, <2>1, <2>2, <2>3
  <1>9. ASSUME NEW t \in Tails, shown'[t] PROVE line'[t] # <<>> /\ Head(line'[t]) = Head(line[t]) /\ line[t] # <<>>
    <2>1. line[t] # <<>>
      BY <1>9 DEF LinesFit
    <2>2. CASE t # tail
      BY <1>6, <2>1, <2>2
    <2>3. CASE t = tail
      BY <1>1, <2>1, <2>3
    <2>4. QED
      BY <2>2, <2>3
  <1>10. LinesFit'
    <2>1. slot' # 0 => shown'[slot']
      BY DEF LinesFit
    <2>2. QED
      BY <1>8, <1>9, <2>1 DEF LinesFit
  <1>11. OneDialog'
    <2> SUFFICES ASSUME NEW t \in Tails, shown'[t], at'[Head(line'[t])] = "queued" PROVE slot = t
      BY DEF OneDialog
    <2>1. line[t] # <<>> /\ at'[Head(line[t])] = "queued"
      BY <1>9
    <2>2. Head(line[t]) = line[t][1] /\ 1 \in 1 .. Len(line[t])
      BY <2>1 DEF TypeDialogs
    <2>3. at[Head(line[t])] = "queued"
      BY <1>4, <2>1, <2>2
    <2>4. QED
      BY <2>1, <2>3 DEF OneDialog
  <1>12. QED
    BY <1>2, <1>10, <1>11

(* The waiting asks of the lines. *)
LineFits(t) ==
    \A i \in 1 .. Len(line[t]) :
        /\ at[line[t][i]] \in {"queued", "blocked"}
        /\ at[line[t][i]] = "queued" => t = tail
        /\ \A j \in 1 .. Len(line[t]) : line[t][i] = line[t][j] => i = j

(* The first of a line leaves it. *)
LEMMA FirstLeaves ==
  ASSUME TypeDialogs, LinesFit, NEW t \in Tails, line[t] # <<>>,
         line' = [line EXCEPT ![t] = Tail(@)], UNCHANGED tail,
         at[Head(line[t])] = "queued" \/ UNCHANGED at,
         \A y \in Asking \ {Head(line[t])} : at'[y] = at[y]
  PROVE  /\ line' \in [Tails -> Seq(Asking)]
         /\ \A u \in Tails : LineFits(u)'
         /\ \A u \in Tails \ {t} : \A i \in 1 .. Len(line[u]) : line'[u] = line[u] /\ at'[line[u][i]] = at[line[u][i]]
  <1>1. line[t] \in Seq(Asking) /\ Len(line[t]) > 0 /\ Head(line[t]) = line[t][1] /\ line[t][1] \in Asking
    BY DEF TypeDialogs
  <1>2. line'[t] = Tail(line[t]) /\ \A u \in Tails \ {t} : line'[u] = line[u]
    BY DEF TypeDialogs
  <1>3. line' \in [Tails -> Seq(Asking)]
    BY <1>1, <1>2 DEF TypeDialogs
  <1>4. ASSUME NEW u \in Tails \ {t}, NEW i \in 1 .. Len(line[u]) PROVE at'[line[u][i]] = at[line[u][i]]
    <2>1. line[u][i] \in Asking
      BY DEF TypeDialogs
    <2>2. CASE at[Head(line[t])] = "queued"
      <3>1. line[u][i] # line[t][1]
        BY <1>1, <2>2 DEF LinesFit
      <3>2. QED
        BY <1>1, <2>1, <3>1
    <2>3. QED
      BY <2>2
  <1>5. ASSUME NEW u \in Tails \ {t} PROVE LineFits(u)'
    BY <1>2, <1>4, <1>5 DEF LinesFit, LineFits
  <1>6. LineFits(t)'
    <2>1. Len(line'[t]) = Len(line[t]) - 1 /\ \A i \in 1 .. Len(line'[t]) : line'[t][i] = line[t][i + 1]
      <3>1. line[t] \in Seq(Asking) /\ line[t] # <<>> /\ line'[t] = Tail(line[t])
        BY <1>1, <1>2
      <3>2. /\ Len(Tail(line[t])) = Len(line[t]) - 1
            /\ \A i \in 1 .. Len(Tail(line[t])) : Tail(line[t])[i] = line[t][i + 1]
        BY <3>1, HeadTailProperties
      <3>3. QED
        BY <3>1, <3>2
    <2>2. ASSUME NEW i \in 1 .. Len(line'[t])
          PROVE  /\ i + 1 \in 1 .. Len(line[t])
                 /\ at'[line[t][i + 1]] = at[line[t][i + 1]]
      <3>1. i + 1 \in 1 .. Len(line[t]) /\ i + 1 # 1 /\ 1 \in 1 .. Len(line[t])
        BY <1>1, <2>1
      <3>2. line[t][i + 1] \in Asking /\ line[t][i + 1] # line[t][1]
        BY <1>1, <3>1 DEF LinesFit
      <3>3. QED
        BY <1>1, <3>1, <3>2
    <2>3. ASSUME NEW i \in 1 .. Len(line'[t])
          PROVE  /\ at'[line'[t][i]] \in {"queued", "blocked"}
                 /\ at'[line'[t][i]] = "queued" => t = tail
      <3>1. i + 1 \in 1 .. Len(line[t]) /\ at'[line'[t][i]] = at[line[t][i + 1]]
        BY <2>1, <2>2
      <3>2. QED
        BY <3>1 DEF LinesFit
    <2>4. ASSUME NEW i \in 1 .. Len(line'[t]), NEW j \in 1 .. Len(line'[t]), line'[t][i] = line'[t][j]
          PROVE  i = j
      <3>1. i + 1 \in 1 .. Len(line[t]) /\ j + 1 \in 1 .. Len(line[t]) /\ line[t][i + 1] = line[t][j + 1]
        BY <2>1, <2>2, <2>4
      <3>2. i + 1 = j + 1
        BY <3>1 DEF LinesFit
      <3>3. QED
        BY <1>1, <2>1, <3>2
    <2>5. QED
      BY <2>3, <2>4 DEF LineFits
  <1>7. QED
    BY <1>2, <1>3, <1>4, <1>5, <1>6

(* The dialog in the slot closes. *)
LEMMA Unmounts ==
  ASSUME TypeDialogs, LinesFit, OneDialog, slot # 0, Unmount(slot), UNCHANGED tail,
         at[Head(line[slot])] = "queued" \/ UNCHANGED at,
         \A y \in Asking \ {Head(line[slot])} : at'[y] = at[y]
  PROVE  TypeDialogs' /\ LinesFit' /\ OneDialog'
  <1>1. slot \in Tails /\ shown[slot] /\ line[slot] # <<>>
    BY DEF TypeDialogs, LinesFit
  <1>2. /\ line' \in [Tails -> Seq(Asking)]
        /\ \A u \in Tails : LineFits(u)'
        /\ \A u \in Tails \ {slot} : \A i \in 1 .. Len(line[u]) : line'[u] = line[u] /\ at'[line[u][i]] = at[line[u][i]]
    BY <1>1, FirstLeaves DEF Unmount
  <1>3. /\ slot' = 0 /\ shown' = [shown EXCEPT ![slot] = FALSE]
        /\ \A u \in Tails \ {slot} : line'[u] = line[u]
    BY DEF Unmount, TypeDialogs
  <1>4. shown' \in [Tails -> BOOLEAN]
    BY <1>3 DEF TypeDialogs
  <1>5. TypeDialogs'
    BY <1>2, <1>3, <1>4 DEF TypeDialogs
  <1>6. ASSUME NEW t \in Tails, shown'[t] PROVE t # slot /\ shown[t] /\ line'[t] = line[t] /\ line[t] # <<>>
    <2>1. t # slot /\ shown[t]
      BY <1>1, <1>3, <1>6 DEF TypeDialogs
    <2>2. QED
      BY <1>3, <2>1 DEF LinesFit
  <1>7. LinesFit'
    <2>1. \A t \in Tails : shown'[t] => line'[t] # <<>>
      BY <1>6
    <2>2. QED
      BY <1>2, <1>3, <2>1 DEF LinesFit, LineFits
  <1>8. OneDialog'
    <2> SUFFICES ASSUME NEW t \in Tails, shown'[t], at'[Head(line'[t])] = "queued" PROVE FALSE
      BY DEF OneDialog
    <2>1. t # slot /\ shown[t] /\ line'[t] = line[t] /\ line[t] # <<>>
      BY <1>6
    <2>2. Head(line[t]) = line[t][1] /\ 1 \in 1 .. Len(line[t])
      BY <2>1 DEF TypeDialogs
    <2>3. at[Head(line[t])] = "queued"
      BY <1>2, <2>1, <2>2
    <2>4. QED
      BY <2>1, <2>3 DEF OneDialog
  <1>9. QED
    BY <1>5, <1>7, <1>8

(* A grant is recorded. *)
LEMMA Records ==
  ASSUME TypeGrants, RulesAreTheGrants, NEW grants \in SUBSET Accesses, NEW width \in Widths, Record(grants, width)
  PROVE  TypeGrants' /\ RulesAreTheGrants'
  <1>1. TypeGrants'
    BY DEF TypeGrants, Record, Approve
  <1>2. ASSUME NEW r \in Rules
        PROVE  r \in Approve(AtWidth(grants, width)) <=>
                 \E a \in grants : /\ r[2] = a[2]
                                   /\ \/ r[1] = a[1]
                                      \/ /\ FamilyOf(r[1]) = FamilyOf(a[1])
                                         /\ a[1] = "path" \/ width = "family"
    <2>1. r[1] \in Surfaces \ {"path"} /\ \A a \in grants : a[1] \in Surfaces
      BY DEF Rules, Accesses
    <2>2. CASE width = "family"
      <3>1. AtWidth(grants, width) = {<<FamilyOf(a[1]), a[2]>> : a \in grants}
        BY <2>2 DEF AtWidth
      <3>2. r \in Approve(AtWidth(grants, width)) <=>
               \E a \in grants : r[1] \in Members(FamilyOf(a[1])) /\ r[2] = a[2]
        <4> DEFINE W == {<<FamilyOf(a[1]), a[2]>> : a \in grants}
        <4>1. r \in Approve(W) <=> \E w \in W : r[1] \in Members(w[1]) /\ r[2] = w[2]
          BY DEF Approve
        <4>2. \A a \in grants : <<FamilyOf(a[1]), a[2]>>[1] = FamilyOf(a[1]) /\ <<FamilyOf(a[1]), a[2]>>[2] = a[2]
          OBVIOUS
        <4>3. (\E w \in W : r[1] \in Members(w[1]) /\ r[2] = w[2]) <=>
                 \E a \in grants : r[1] \in Members(FamilyOf(a[1])) /\ r[2] = a[2]
          BY <4>2
        <4>4. QED
          BY <3>1, <4>1, <4>3
      <3>3. \A a \in grants : r[1] \in Members(FamilyOf(a[1])) <=> FamilyOf(r[1]) = FamilyOf(a[1])
        BY <2>1 DEF Members, FamilyOf, Surfaces
      <3>4. QED
        BY <2>2, <3>2, <3>3
    <2>3. CASE width = "proven"
      <3>1. r \in Approve(AtWidth(grants, width)) <=> \E a \in grants : r[1] \in Members(a[1]) /\ r[2] = a[2]
        BY <2>3 DEF Approve, AtWidth
      <3>2. \A a \in grants : r[1] \in Members(a[1]) <=>
                               \/ r[1] = a[1]
                               \/ FamilyOf(r[1]) = FamilyOf(a[1]) /\ a[1] = "path"
        BY <2>1 DEF Members, FamilyOf, Surfaces
      <3>3. QED
        BY <2>3, <3>1, <3>2
    <2>4. QED
      BY <2>2, <2>3 DEF Widths
  <1>3. ASSUME NEW r \in Rules
        PROVE  r \in rules' <=> \E g \in granted' : /\ r[2] = g[1][2]
                                                   /\ \/ r[1] = g[1][1]
                                                      \/ /\ FamilyOf(r[1]) = FamilyOf(g[1][1])
                                                         /\ g[1][1] = "path" \/ g[2] = "family"
    <2>1. r \in rules' <=> r \in rules \/ r \in Approve(AtWidth(grants, width))
      BY DEF Record
    <2>2. \A g \in granted' : g \in granted \/ (g[1] \in grants /\ g[2] = width)
      BY DEF Record
    <2>3. granted \subseteq granted' /\ \A a \in grants : <<a, width>> \in granted'
      BY DEF Record
    <2>4. r \in rules' => \E g \in granted' : /\ r[2] = g[1][2]
                                            /\ \/ r[1] = g[1][1]
                                               \/ /\ FamilyOf(r[1]) = FamilyOf(g[1][1])
                                                  /\ g[1][1] = "path" \/ g[2] = "family"
      <3>1. CASE r \in rules
        BY <2>3, <3>1 DEF RulesAreTheGrants
      <3>2. CASE r \in Approve(AtWidth(grants, width))
        <4>1. PICK a \in grants : /\ r[2] = a[2]
                                  /\ \/ r[1] = a[1]
                                     \/ /\ FamilyOf(r[1]) = FamilyOf(a[1])
                                        /\ a[1] = "path" \/ width = "family"
          BY <1>2, <3>2
        <4>2. <<a, width>> \in granted' /\ <<a, width>>[1] = a /\ <<a, width>>[2] = width
          BY <2>3
        <4>3. QED
          BY <4>1, <4>2
      <3>3. QED
        BY <2>1, <3>1, <3>2
    <2>5. ASSUME NEW g \in granted', r[2] = g[1][2],
                 \/ r[1] = g[1][1]
                 \/ /\ FamilyOf(r[1]) = FamilyOf(g[1][1])
                    /\ g[1][1] = "path" \/ g[2] = "family"
          PROVE  r \in rules'
      <3>1. CASE g \in granted
        BY <2>1, <2>5, <3>1 DEF RulesAreTheGrants
      <3>2. CASE g[1] \in grants /\ g[2] = width
        BY <1>2, <2>1, <2>5, <3>2
      <3>3. QED
        BY <2>2, <3>1, <3>2
    <2>6. QED
      BY <2>4, <2>5
  <1>4. RulesAreTheGrants'
    BY <1>3 DEF RulesAreTheGrants
  <1>5. QED
    BY <1>1, <1>4
--------------------------------------------------------------------------------
(* The steps of the session.                                               *)

LEMMA ActivateKeeps == ASSUME IInv, Activate PROVE IInv'
  <1>1. /\ TypeSession /\ TypeGrants /\ TypeCalls /\ TypeDialogs
        /\ \A x \in Asking : Gated(x)
        /\ LinesFit /\ OneDialog /\ RulesAreTheGrants
    BY Parts
  <1>2. hasUI' = hasUI /\ yolo' = yolo /\ UNCHANGED <<grantVars, callVars, dialogVars>>
    BY DEF Activate
  <1>3. authority' \in {"none", "local", "relay", "deny"}
    BY DEF Activate, Selectable
  <1>4. TypeSession'
    BY <1>1, <1>2, <1>3 DEF TypeSession
  <1>5. TypeGrants' /\ RulesAreTheGrants'
    BY <1>1, <1>2 DEF grantVars, TypeGrants, RulesAreTheGrants
  <1>6. TypeCalls' /\ TypeDialogs'
    BY <1>1, <1>2 DEF callVars, dialogVars, TypeCalls, TypeDialogs
  <1>7. \A x \in Asking : Gated(x)'
    BY <1>1, <1>2, OthersGated DEF callVars
  <1>8. LinesFit' /\ OneDialog'
    BY <1>1, <1>2 DEF callVars, dialogVars, LinesFit, OneDialog
  <1>9. QED
    BY <1>4, <1>5, <1>6, <1>7, <1>8, Stays

LEMMA SetYoloKeeps == ASSUME IInv, SetYolo PROVE IInv'
  <1>1. /\ TypeSession /\ TypeGrants /\ TypeCalls /\ TypeDialogs
        /\ \A x \in Asking : Gated(x)
        /\ LinesFit /\ OneDialog /\ RulesAreTheGrants
    BY Parts
  <1>2. hasUI' = hasUI /\ authority' = authority /\ UNCHANGED <<grantVars, callVars, dialogVars>>
    BY DEF SetYolo
  <1>3. yolo' \in BOOLEAN
    BY DEF SetYolo
  <1>4. TypeSession'
    BY <1>1, <1>2, <1>3 DEF TypeSession
  <1>5. TypeGrants' /\ RulesAreTheGrants'
    BY <1>1, <1>2 DEF grantVars, TypeGrants, RulesAreTheGrants
  <1>6. TypeCalls' /\ TypeDialogs'
    BY <1>1, <1>2 DEF callVars, dialogVars, TypeCalls, TypeDialogs
  <1>7. \A x \in Asking : Gated(x)'
    BY <1>1, <1>2, OthersGated DEF callVars
  <1>8. LinesFit' /\ OneDialog'
    BY <1>1, <1>2 DEF callVars, dialogVars, LinesFit, OneDialog
  <1>9. QED
    BY <1>4, <1>5, <1>6, <1>7, <1>8, Stays

LEMMA ShutdownKeeps == ASSUME IInv, Shutdown PROVE IInv'
  <1>1. /\ TypeSession /\ TypeGrants /\ TypeCalls /\ TypeDialogs
        /\ \A x \in Asking : Gated(x)
        /\ LinesFit /\ OneDialog /\ RulesAreTheGrants
    BY Parts
  <1>2. /\ hasUI' = hasUI /\ yolo' = yolo /\ authority' = "none"
        /\ rules' = {} /\ granted' = {}
        /\ UNCHANGED <<gates, decided, hops, terminal, line, shown>>
        /\ slot' \in {slot, 0} /\ tail' = tail + 1 /\ tail < MaxSessions
    BY DEF Shutdown, NextTail
  <1>3. \A x \in Asking : at'[x] = IF at[x] = "queued" THEN "blocked" ELSE at[x]
    BY DEF Shutdown, Released
  <1>4. TypeSession'
    BY <1>1, <1>2 DEF TypeSession
  <1>5. TypeGrants' /\ RulesAreTheGrants'
    BY <1>2 DEF TypeGrants, RulesAreTheGrants
  <1>6. TypeCalls'
    <2>1. at' \in [Asking -> Pending \cup {"idle", "parsing", "running", "allowed", "blocked"}]
      BY <1>1, <1>3 DEF Shutdown, TypeCalls
    <2>2. QED
      BY <1>1, <1>2, <2>1 DEF TypeCalls
  <1>7. TypeDialogs'
    <2>1. tail' \in Tails
      BY <1>1, <1>2, BoundsAssumption DEF TypeDialogs, Tails
    <2>2. QED
      BY <1>1, <1>2, <2>1 DEF TypeDialogs
  <1>8. ASSUME NEW x \in Asking PROVE Gated(x)'
    <2>1. CASE at[x] = "queued"
      <3>1. at'[x] = "blocked"
        BY <1>3, <2>1
      <3>2. QED
        BY <3>1 DEF Gated, Underway, Pending
    <2>2. CASE at[x] # "queued"
      BY <1>1, <1>2, <1>3, <2>2, OthersGated
    <2>3. QED
      BY <2>1, <2>2
  <1>9. \A t \in Tails : \A i \in 1 .. Len(line[t]) : at'[line[t][i]] = "blocked"
    <2>1. \A t \in Tails : \A i \in 1 .. Len(line[t]) : line[t][i] \in Asking
      BY <1>1 DEF TypeDialogs
    <2>2. QED
      BY <1>1, <1>3, <2>1 DEF LinesFit
  <1>10. LinesFit'
    <2>1. slot' # 0 => slot' = slot /\ slot # 0
      BY <1>2
    <2>2. slot' # 0 => shown'[slot']
      BY <1>1, <1>2, <2>1 DEF LinesFit
    <2>3. \A t \in Tails : shown'[t] => line'[t] # <<>>
      BY <1>1, <1>2 DEF LinesFit
    <2>4. \A t \in Tails : LineFits(t)'
      BY <1>1, <1>2, <1>9 DEF LinesFit, LineFits
    <2>5. QED
      BY <2>2, <2>3, <2>4 DEF LinesFit, LineFits
  <1>11. OneDialog'
    <2> SUFFICES ASSUME NEW t \in Tails, line[t] # <<>> PROVE at'[Head(line[t])] # "queued"
      BY <1>2 DEF OneDialog
    <2>1. Head(line[t]) = line[t][1] /\ 1 \in 1 .. Len(line[t])
      BY <1>1 DEF TypeDialogs
    <2>2. QED
      BY <1>9, <2>1
  <1>12. QED
    BY <1>4, <1>5, <1>6, <1>7, <1>8, <1>10, <1>11, Stays
--------------------------------------------------------------------------------
(* The steps of a call.                                                    *)

LEMMA CallMoves ==
  ASSUME IInv, UNCHANGED <<hasUI, yolo, grantVars>>, authority' \in {"none", "local", "relay", "deny"},
         TypeCalls', TypeDialogs', \A x \in Asking : Gated(x)', LinesFit', OneDialog'
  PROVE  IInv'
  <1>1. TypeSession /\ TypeGrants /\ RulesAreTheGrants
    BY Parts
  <1>2. TypeSession'
    BY <1>1 DEF TypeSession
  <1>3. TypeGrants' /\ RulesAreTheGrants'
    BY <1>1 DEF grantVars, TypeGrants, RulesAreTheGrants
  <1>4. QED
    BY <1>2, <1>3, Stays

(* A step of a call that touches no line. *)
LEMMA CallMovesAside ==
  ASSUME IInv, UNCHANGED <<hasUI, yolo, grantVars, dialogVars>>, authority' \in {"none", "local", "relay", "deny"},
         NEW x \in Asking, at[x] \notin {"queued", "blocked"}, NEW where, at' = [at EXCEPT ![x] = where],
         TypeCalls', \A y \in Asking : Gated(y)'
  PROVE  IInv'
  <1>1. /\ TypeSession /\ TypeGrants /\ TypeCalls /\ TypeDialogs
        /\ \A y \in Asking : Gated(y)
        /\ LinesFit /\ OneDialog /\ RulesAreTheGrants
    BY Parts
  <1>2. \A y \in Asking \ {x} : at'[y] = at[y]
    BY <1>1 DEF TypeCalls
  <1>3. TypeDialogs'
    BY <1>1 DEF dialogVars, TypeDialogs
  <1>4. LinesFit' /\ OneDialog'
    BY <1>1, <1>2, OffTheLines
  <1>5. QED
    BY <1>3, <1>4, CallMoves

LEMMA SessionStays ==
  ASSUME IInv, UNCHANGED sessionVars
  PROVE  UNCHANGED <<hasUI, yolo>> /\ authority' \in {"none", "local", "relay", "deny"}
  BY Parts DEF sessionVars, TypeSession

LEMMA BeginCallKeeps == ASSUME IInv, NEW c \in Calls, BeginCall(c) PROVE IInv'
  <1>1. /\ TypeSession /\ TypeGrants /\ TypeCalls /\ TypeDialogs
        /\ \A y \in Asking : Gated(y)
        /\ LinesFit /\ OneDialog /\ RulesAreTheGrants
    BY Parts
  <1>2. c \in Asking
    BY DEF Asking
  <1>3. at[c] = "idle" /\ at' = [at EXCEPT ![c] = "parsing"] /\ UNCHANGED <<gates, decided, hops, terminal>>
    BY DEF BeginCall
  <1>4. TypeCalls'
    BY <1>1, <1>3 DEF TypeCalls
  <1>5. ASSUME NEW y \in Asking PROVE Gated(y)'
    <2>1. CASE y = c
      <3>1. at'[c] = "parsing" /\ decided'[c] = <<>>
        BY <1>1, <1>2, <1>3 DEF TypeCalls, Gated
      <3>2. QED
        BY <2>1, <3>1 DEF Gated, Underway, Pending
    <2>2. CASE y # c
      BY <1>1, <1>3, <2>2, OthersGated DEF TypeCalls
    <2>3. QED
      BY <2>1, <2>2
  <1>6. authority' \in {"none", "local", "relay", "deny"} /\ UNCHANGED <<hasUI, yolo, grantVars, dialogVars>>
    BY DEF BeginCall, Selectable
  <1>7. QED
    BY <1>2, <1>3, <1>4, <1>5, <1>6, CallMovesAside

(* The gates are there. *)
LEMMA GatesMade ==
  ASSUME IInv, NEW x \in Asking, at[x] \in {"idle", "parsing"}, NEW gs \in Seq(Gates), Len(gs) > 0, DenyAlone(gs),
         gates' = [gates EXCEPT ![x] = gs], at' = [at EXCEPT ![x] = "running"],
         UNCHANGED <<sessionVars, grantVars, decided, hops, terminal, dialogVars>>
  PROVE  IInv'
  <1>1. /\ TypeSession /\ TypeGrants /\ TypeCalls /\ TypeDialogs
        /\ \A y \in Asking : Gated(y)
        /\ LinesFit /\ OneDialog /\ RulesAreTheGrants
    BY Parts
  <1>2. TypeCalls'
    BY <1>1 DEF TypeCalls
  <1>3. gates'[x] = gs /\ at'[x] = "running" /\ decided'[x] = <<>>
    BY <1>1 DEF TypeCalls, Gated
  <1>4. ASSUME NEW y \in Asking PROVE Gated(y)'
    <2>1. CASE y = x
      BY <1>3, <2>1 DEF Gated, Underway, Pending
    <2>2. CASE y # x
      BY <1>1, <2>2, OthersGated DEF TypeCalls
    <2>3. QED
      BY <2>1, <2>2
  <1>5. QED
    BY <1>2, <1>4, SessionStays, CallMovesAside

LEMMA ProduceGatesKeeps == ASSUME IInv, NEW c \in Calls, ProduceGates(c) PROVE IInv'
  <1>1. PICK shape \in CallShapes :
        \E gs \in [1 .. Len(shape) -> UNION {GatesOf(shape[i]) : i \in 1 .. Len(shape)}] :
          /\ \A i \in 1 .. Len(shape) : gs[i] \in GatesOf(shape[i])
          /\ gates' = [gates EXCEPT ![c] = DenyFirst(gs)]
    BY DEF ProduceGates
  <1>2. PICK gs \in [1 .. Len(shape) -> UNION {GatesOf(shape[i]) : i \in 1 .. Len(shape)}] :
          /\ \A i \in 1 .. Len(shape) : gs[i] \in GatesOf(shape[i])
          /\ gates' = [gates EXCEPT ![c] = DenyFirst(gs)]
    BY <1>1
  <1>3. shape \in Seq([by : Producers, on : SUBSET Accesses]) /\ shape # <<>>
    BY ShapesAssumption
  <1>4. Len(shape) \in Nat \ {0} /\ \A i \in 1 .. Len(shape) : shape[i] \in [by : Producers, on : SUBSET Accesses]
    <2> DEFINE P == [by : Producers, on : SUBSET Accesses]
    <2>1. shape \in Seq(P) /\ shape # <<>>
      BY <1>3
    <2> HIDE DEF P
    <2>2. Len(shape) \in Nat \ {0} /\ \A i \in 1 .. Len(shape) : shape[i] \in P
      BY <2>1
    <2>3. QED
      BY <2>2 DEF P
  <1>5. \A i \in 1 .. Len(shape) : gs[i] \in Gates
    BY <1>2, <1>4, GatesTyped
  <1>6. gs \in [1 .. Len(shape) -> Gates]
    BY <1>2, <1>5
  <1>7. DenyFirst(gs) \in Seq(Gates) /\ Len(DenyFirst(gs)) > 0 /\ DenyAlone(DenyFirst(gs))
    BY <1>4, <1>6, DenyFirstTyped
  <1>8. QED
    BY <1>2, <1>7, GatesMade DEF ProduceGates, Asking

LEMMA RequestGatesTyped ==
  ASSUME NEW accesses \in SUBSET Accesses
  PROVE  RequestGates(accesses) \subseteq Gates
  <1>1. Stopping(<<"unknown">>, "ask", {}) \in Gates
    BY DEF Stopping, Gates, States
  <1>2. ASSUME NEW a \in accesses, NEW grants \in {{}, {a}, accesses}, NEW v \in Verdicts(a)
        PROVE  Stopping(a, v, grants) \in Gates
    <2>1. a \in Accesses /\ grants \in SUBSET Accesses /\ v \in States
      BY VerdictsTyped
    <2>2. QED
      BY <2>1, StoppingTyped
  <1>3. ASSUME NEW g \in RequestGates(accesses), g # Stopping(<<"unknown">>, "ask", {})
        PROVE  \E a \in accesses : \E grants \in {{}, {a}, accesses} : \E v \in Verdicts(a) : g = Stopping(a, v, grants)
    BY <1>3 DEF RequestGates
  <1>4. ASSUME NEW g \in RequestGates(accesses) PROVE g \in Gates
    <2>1. CASE g = Stopping(<<"unknown">>, "ask", {})
      BY <1>1, <2>1
    <2>2. CASE g # Stopping(<<"unknown">>, "ask", {})
      <3>1. PICK a \in accesses : \E grants \in {{}, {a}, accesses} : \E v \in Verdicts(a) : g = Stopping(a, v, grants)
        BY <1>3, <2>2
      <3>2. PICK grants \in {{}, {a}, accesses} : \E v \in Verdicts(a) : g = Stopping(a, v, grants)
        BY <3>1
      <3>3. PICK v \in Verdicts(a) : g = Stopping(a, v, grants)
        BY <3>2
      <3>4. QED
        BY <1>2, <3>3
    <2>3. QED
      BY <2>1, <2>2
  <1>5. QED
    BY <1>4

LEMMA ServeRequestKeeps == ASSUME IInv, NEW r \in Requests, ServeRequest(r) PROVE IInv'
  <1>1. PICK accesses \in RequestShapes : \E gate \in RequestGates(accesses) : gates' = [gates EXCEPT ![r] = <<gate>>]
    BY DEF ServeRequest
  <1>2. PICK gate \in RequestGates(accesses) : gates' = [gates EXCEPT ![r] = <<gate>>]
    BY <1>1
  <1>3. accesses \in SUBSET Accesses
    BY ShapesAssumption
  <1>4. gate \in Gates
    BY <1>3, RequestGatesTyped
  <1>5. <<gate>> \in Seq(Gates) /\ Len(<<gate>>) > 0 /\ DenyAlone(<<gate>>)
    BY <1>4 DEF DenyAlone
  <1>6. r \in Asking /\ at[r] \in {"idle", "parsing"} /\ at' = [at EXCEPT ![r] = "running"]
        /\ UNCHANGED <<sessionVars, grantVars, decided, hops, terminal, dialogVars>>
    BY DEF ServeRequest, Asking
  <1>7. QED
    BY <1>2, <1>5, <1>6, GatesMade

(* A refusal that comes from elsewhere than the dialog. *)
LEMMA RefusalKeeps ==
  ASSUME IInv, NEW x \in Asking, at[x] \notin {"queued", "blocked"}, at' = [at EXCEPT ![x] = "blocked"],
         UNCHANGED <<sessionVars, grantVars, gates, decided, hops, terminal, dialogVars>>
  PROVE  IInv'
  <1>1. /\ TypeSession /\ TypeGrants /\ TypeCalls /\ TypeDialogs
        /\ \A y \in Asking : Gated(y)
        /\ LinesFit /\ OneDialog /\ RulesAreTheGrants
    BY Parts
  <1>2. TypeCalls' /\ \A y \in Asking : Gated(y)'
    BY <1>1, Refused
  <1>3. QED
    BY <1>2, SessionStays, CallMovesAside

(* A gate passed without the dialog. *)
LEMMA PassKeeps ==
  ASSUME IInv, NEW x \in Asking, NEW by \in Deciders, at[x] \in Underway \ {"queued"}, Position(x) <= Len(gates[x]),
         Passed(Current(x), by), Pass(x, by), UNCHANGED <<sessionVars, grantVars, gates, hops, terminal, dialogVars>>
  PROVE  IInv'
  <1>1. /\ TypeSession /\ TypeGrants /\ TypeCalls /\ TypeDialogs
        /\ \A y \in Asking : Gated(y)
        /\ LinesFit /\ OneDialog /\ RulesAreTheGrants
    BY Parts
  <1>2. TypeCalls' /\ \A y \in Asking : Gated(y)'
    BY <1>1, Passes
  <1>3. at[x] \notin {"queued", "blocked"} /\ at' = [at EXCEPT ![x] = "running"]
    BY DEF Underway, Pending, Pass
  <1>4. QED
    BY <1>2, <1>3, SessionStays, CallMovesAside

LEMMA ProducerThrowsKeeps == ASSUME IInv, NEW c \in Calls, ProducerThrows(c) PROVE IInv'
  BY RefusalKeeps DEF ProducerThrows, OnThrow, Asking

LEMMA GateAllowsKeeps == ASSUME IInv, NEW x \in Asking, GateAllows(x) PROVE IInv'
  <1>1. PICK by \in {"policy", "yolo"} : Pass(x, by) /\ Current(x).check = IF by = "policy" THEN "allow" ELSE "ask"
    BY DEF GateAllows
  <1>2. by \in Deciders /\ Passed(Current(x), by)
    BY <1>1 DEF Deciders, Passed
  <1>3. at[x] \in Underway \ {"queued"} /\ Position(x) <= Len(gates[x])
        /\ UNCHANGED <<sessionVars, grantVars, gates, hops, terminal, dialogVars>>
    BY DEF GateAllows, Underway
  <1>4. QED
    BY <1>1, <1>2, <1>3, PassKeeps

LEMMA GateDeniesKeeps == ASSUME IInv, NEW x \in Asking, GateDenies(x) PROVE IInv'
  BY RefusalKeeps DEF GateDenies

LEMMA RunsOutKeeps == ASSUME IInv, NEW x \in Asking, RunsOut(x) PROVE IInv'
  <1>1. /\ TypeSession /\ TypeGrants /\ TypeCalls /\ TypeDialogs
        /\ \A y \in Asking : Gated(y)
        /\ LinesFit /\ OneDialog /\ RulesAreTheGrants
    BY Parts
  <1>2. at[x] = "running" /\ Position(x) > Len(gates[x]) /\ at' = [at EXCEPT ![x] = "allowed"]
        /\ UNCHANGED <<sessionVars, grantVars, gates, decided, hops, terminal, dialogVars>>
    BY DEF RunsOut
  <1>3. TypeCalls'
    BY <1>1, <1>2 DEF TypeCalls
  <1>4. Gated(x)'
    <2>1. at'[x] = "allowed" /\ decided[x] \in Seq(Deciders) /\ gates[x] \in Seq(Gates) /\ Gated(x)
      BY <1>1, <1>2 DEF TypeCalls
    <2>2. Len(decided[x]) = Len(gates[x])
      BY <1>2, <2>1 DEF Gated, Position, Underway
    <2>3. QED
      BY <1>2, <2>1, <2>2 DEF Gated, Underway, Pending
  <1>5. ASSUME NEW y \in Asking, y # x PROVE Gated(y)'
    BY <1>1, <1>2, <1>5, OthersGated DEF TypeCalls
  <1>6. QED
    BY <1>2, <1>3, <1>4, <1>5, SessionStays, CallMovesAside

(* An ask that is handed to an authorizer, or on to the next. *)
LEMMA ConsultKeeps ==
  ASSUME IInv, NEW x \in Asking, NEW authorizer, Consult(x, authorizer), at[x] \in {"running", "link"},
         Position(x) <= Len(gates[x]), Current(x).check = "ask",
         hops' \in [Asking -> 0 .. MaxLinks], UNCHANGED <<sessionVars, grantVars, gates, decided, terminal, tail, shown, slot>>
  PROVE  IInv'
  <1>1. /\ TypeSession /\ TypeGrants /\ TypeCalls /\ TypeDialogs
        /\ \A y \in Asking : Gated(y)
        /\ LinesFit /\ OneDialog /\ RulesAreTheGrants
    BY Parts
  <1>2. at[x] \in Underway /\ terminal' \in [Asking -> {"none", "local", "deny"}]
    BY <1>1 DEF Underway, TypeCalls
  <1>3. CASE authorizer = "local"
    <2>1. at' = [at EXCEPT ![x] = "queued"] /\ line' = [line EXCEPT ![tail] = Append(@, x)]
      BY <1>3 DEF Consult
    <2>2. TypeCalls' /\ \A y \in Asking : Gated(y)'
      <3>1. "queued" \in Pending
        BY DEF Pending
      <3>2. QED
        BY <1>1, <1>2, <2>1, <3>1, Waits
    <2>3. TypeDialogs' /\ LinesFit' /\ OneDialog'
      BY <1>1, <2>1, Queues
    <2>4. QED
      BY <2>2, <2>3, SessionStays, CallMoves
  <1>4. CASE authorizer = "relay"
    <2>1. at' = [at EXCEPT ![x] = "relayed"] /\ UNCHANGED dialogVars
      BY <1>4 DEF Consult, dialogVars
    <2>2. TypeCalls' /\ \A y \in Asking : Gated(y)'
      <3>1. "relayed" \in Pending
        BY DEF Pending
      <3>2. QED
        BY <1>1, <1>2, <2>1, <3>1, Waits
    <2>3. QED
      BY <2>1, <2>2, SessionStays, CallMovesAside
  <1>5. CASE authorizer = "deny"
    <2>1. at' = [at EXCEPT ![x] = "blocked"] /\ UNCHANGED dialogVars
      BY <1>5 DEF Consult, dialogVars
    <2>2. TypeCalls'
      BY <1>1, <1>2, <2>1 DEF TypeCalls
    <2>3. ASSUME NEW y \in Asking PROVE Gated(y)'
      <3>1. CASE y = x
        <4>1. at'[y] = "blocked"
          BY <1>1, <2>1, <3>1 DEF TypeCalls
        <4>2. QED
          BY <4>1 DEF Gated, Underway, Pending
      <3>2. CASE y # x
        BY <1>1, <2>1, <3>2, OthersGated DEF TypeCalls
      <3>3. QED
        BY <3>1, <3>2
    <2>4. QED
      BY <2>1, <2>2, <2>3, SessionStays, CallMovesAside
  <1>6. QED
    BY <1>3, <1>4, <1>5 DEF Consult

LEMMA GateAsksKeeps == ASSUME IInv, NEW x \in Asking, GateAsks(x) PROVE IInv'
  <1>1. /\ TypeSession /\ TypeGrants /\ TypeCalls /\ TypeDialogs
        /\ \A y \in Asking : Gated(y)
        /\ LinesFit /\ OneDialog /\ RulesAreTheGrants
    BY Parts
  <1>2. /\ at[x] = "running" /\ Position(x) <= Len(gates[x]) /\ Current(x).check = "ask" /\ Escalate(x)
        /\ UNCHANGED <<sessionVars, grantVars, gates, decided, tail, shown, slot>>
    BY DEF GateAsks
  <1>3. CASE at' = [at EXCEPT ![x] = OnThrow] /\ UNCHANGED <<hops, terminal, line>>
    BY <1>2, <1>3, RefusalKeeps DEF OnThrow, dialogVars
  <1>4. CASE Consult(x, authority) /\ UNCHANGED <<hops, terminal>>
    <2>1. hops' \in [Asking -> 0 .. MaxLinks]
      BY <1>1, <1>4 DEF TypeCalls
    <2>2. QED
      BY <1>2, <1>4, <2>1, ConsultKeeps
  <1>5. CASE /\ authority \in {"local", "deny"}
             /\ \E n \in 1 .. MaxLinks : hops' = [hops EXCEPT ![x] = n]
             /\ terminal' = [terminal EXCEPT ![x] = authority]
             /\ at' = [at EXCEPT ![x] = "link"]
             /\ UNCHANGED line
    <2>1. hops' \in [Asking -> 0 .. MaxLinks] /\ terminal' \in [Asking -> {"none", "local", "deny"}]
      BY <1>1, <1>5, BoundsAssumption DEF TypeCalls
    <2>2. "link" \in Pending /\ at[x] \in Underway
      BY <1>2 DEF Pending, Underway
    <2>3. TypeCalls' /\ \A y \in Asking : Gated(y)'
      BY <1>1, <1>2, <1>5, <2>1, <2>2, Waits
    <2>4. UNCHANGED dialogVars
      BY <1>2, <1>5 DEF dialogVars
    <2>5. QED
      BY <1>2, <1>5, <2>3, <2>4, SessionStays, CallMovesAside
  <1>6. QED
    BY <1>2, <1>3, <1>4, <1>5 DEF Escalate

(* Whoever waits waits at an ask. *)
LEMMA AtAnAsk ==
  ASSUME IInv, NEW x \in Asking, at[x] \in Pending
  PROVE  at[x] \in Underway /\ Position(x) <= Len(gates[x]) /\ Current(x).check = "ask" /\ Current(x) \in Gates
  <1>1. TypeCalls /\ Gated(x)
    BY Parts
  <1>2. decided[x] \in Seq(Deciders) /\ gates[x] \in Seq(Gates)
    BY <1>1 DEF TypeCalls
  <1>3. Len(decided[x]) < Len(gates[x]) /\ Current(x).check = "ask"
    BY <1>1 DEF Gated
  <1>4. QED
    BY <1>2, <1>3 DEF Underway, Position, Current

LEMMA LinkKeeps == ASSUME IInv, NEW x \in Asking, LinkRules(x) PROVE IInv'
  <1>1. /\ TypeSession /\ TypeGrants /\ TypeCalls /\ TypeDialogs
        /\ \A y \in Asking : Gated(y)
        /\ LinesFit /\ OneDialog /\ RulesAreTheGrants
    BY Parts
  <1>2. at[x] = "link" /\ at[x] \in Pending
    BY DEF LinkRules, LinkAllows, LinkRefuses, LinkDefers, Pending
  <1>3. at[x] \in Underway /\ Position(x) <= Len(gates[x]) /\ Current(x).check = "ask"
    BY <1>2, AtAnAsk
  <1>4. CASE LinkAllows(x)
    <2>1. "link" \in Deciders /\ Passed(Current(x), "link")
      BY <1>3, <1>4 DEF LinkAllows, Passed, Deciders
    <2>2. Pass(x, "link") /\ UNCHANGED <<sessionVars, grantVars, gates, hops, terminal, dialogVars>>
      BY <1>4 DEF LinkAllows
    <2>3. QED
      BY <1>2, <1>3, <2>1, <2>2, PassKeeps
  <1>5. CASE LinkRefuses(x)
    BY <1>2, <1>5, RefusalKeeps DEF LinkRefuses
  <1>6. CASE LinkDefers(x)
    <2>1. /\ hops' = [hops EXCEPT ![x] = @ - 1] /\ hops[x] \in 0 .. MaxLinks
          /\ UNCHANGED <<sessionVars, grantVars, gates, decided, terminal, tail, shown, slot>>
      BY <1>1, <1>6 DEF LinkDefers, TypeCalls
    <2>2. CASE hops[x] = 1 /\ Consult(x, terminal[x])
      <3>1. hops' \in [Asking -> 0 .. MaxLinks]
        BY <1>1, <2>1, <2>2, BoundsAssumption DEF TypeCalls
      <3>2. QED
        BY <1>2, <1>3, <2>1, <2>2, <3>1, ConsultKeeps
    <2>3. CASE hops[x] > 1 /\ UNCHANGED <<at, line>>
      <3>1. hops' \in [Asking -> 0 .. MaxLinks]
        BY <1>1, <2>1, <2>3, BoundsAssumption DEF TypeCalls
      <3>2. TypeCalls' /\ \A y \in Asking : Gated(y)'
        BY <1>1, <2>1, <2>3, <3>1, OthersGated DEF TypeCalls
      <3>3. TypeDialogs' /\ LinesFit' /\ OneDialog'
        BY <1>1, <2>1, <2>3 DEF TypeDialogs, LinesFit, OneDialog
      <3>4. QED
        BY <2>1, <3>2, <3>3, SessionStays, CallMoves
    <2>4. QED
      BY <1>6, <2>2, <2>3 DEF LinkDefers
  <1>7. QED
    BY <1>4, <1>5, <1>6 DEF LinkRules

(* What an approval records. *)
LEMMA ApprovalRecords ==
  ASSUME TypeGrants, RulesAreTheGrants, NEW x, Current(x) \in Gates, NEW by, NEW whole \in BOOLEAN, ApproveWith(x, by, whole)
  PROVE  TypeGrants' /\ RulesAreTheGrants'
  <1>1. CASE UNCHANGED grantVars
    BY <1>1 DEF grantVars, TypeGrants, RulesAreTheGrants
  <1>2. CASE \E width \in Offered(Current(x).grants) : Record(Current(x).grants, width)
    <2>1. PICK width \in Offered(Current(x).grants) : Record(Current(x).grants, width)
      BY <1>2
    <2>2. width \in Widths /\ Current(x).grants \in SUBSET Accesses
      BY DEF Offered, Widths, Gates
    <2>3. QED
      BY <2>1, <2>2, Records
  <1>3. QED
    BY <1>1, <1>2 DEF ApproveWith

LEMMA RelayKeeps == ASSUME IInv, NEW x \in Asking, RelayAnswers(x) PROVE IInv'
  <1>1. /\ TypeSession /\ TypeGrants /\ TypeCalls /\ TypeDialogs
        /\ \A y \in Asking : Gated(y)
        /\ LinesFit /\ OneDialog /\ RulesAreTheGrants
    BY Parts
  <1>2. at[x] = "relayed" /\ at[x] \in Pending
    BY DEF RelayAnswers, RelayApproves, RelayRefuses, Pending
  <1>3. at[x] \in Underway /\ Position(x) <= Len(gates[x]) /\ Current(x).check = "ask" /\ Current(x) \in Gates
    BY <1>2, AtAnAsk
  <1>4. CASE RelayApproves(x)
    <2>1. /\ ApproveWith(x, "relay", FALSE) /\ Pass(x, "relay")
          /\ UNCHANGED <<sessionVars, gates, hops, terminal, dialogVars>>
      BY <1>4 DEF RelayApproves, ApproveWith
    <2>2. "relay" \in Deciders /\ Passed(Current(x), "relay")
      BY <1>3 DEF Passed, Deciders
    <2>3. TypeGrants' /\ RulesAreTheGrants'
      BY <1>1, <1>3, <2>1, ApprovalRecords
    <2>4. TypeCalls' /\ \A y \in Asking : Gated(y)'
      BY <1>1, <1>3, <2>1, <2>2, Passes
    <2>5. \A y \in Asking \ {x} : at'[y] = at[y]
      BY <1>1, <2>1 DEF TypeCalls, Pass
    <2>6. LinesFit' /\ OneDialog'
      BY <1>1, <1>2, <2>1, <2>5, OffTheLines
    <2>7. TypeSession'
      BY <1>1, <2>1 DEF TypeSession, sessionVars
    <2>8. TypeDialogs'
      BY <1>1, <2>1 DEF TypeDialogs, dialogVars
    <2>9. QED
      BY <2>3, <2>4, <2>6, <2>7, <2>8, Stays
  <1>5. CASE RelayRefuses(x)
    BY <1>2, <1>5, RefusalKeeps DEF RelayRefuses
  <1>6. QED
    BY <1>4, <1>5 DEF RelayAnswers

--------------------------------------------------------------------------------
(* The dialogs.                                                            *)

LEMMA FirstOfALine ==
  ASSUME TypeDialogs, NEW t \in Tails, line[t] # <<>>
  PROVE  Head(line[t]) \in Asking /\ Head(line[t]) = line[t][1] /\ 1 \in 1 .. Len(line[t])
  BY DEF TypeDialogs

LEMMA TakeTurnKeeps == ASSUME IInv, NEW t \in Tails, TakeTurn(t) PROVE IInv'
  <1>1. /\ TypeSession /\ TypeGrants /\ TypeCalls /\ TypeDialogs
        /\ \A y \in Asking : Gated(y)
        /\ LinesFit /\ OneDialog /\ RulesAreTheGrants
    BY Parts
  <1>2. line[t] # <<>> /\ ~shown[t] /\ UNCHANGED <<sessionVars, grantVars, callVars, tail>>
    BY DEF TakeTurn
  <1>3. TypeCalls' /\ \A y \in Asking : Gated(y)'
    BY <1>1, <1>2, OthersGated DEF callVars, TypeCalls
  <1>4. /\ Head(line[t]) \in Asking /\ Head(line[t]) = line[t][1] /\ 1 \in 1 .. Len(line[t])
    BY <1>1, <1>2, FirstOfALine
  <1>5. CASE at[Head(line[t])] = "queued" /\ shown' = [shown EXCEPT ![t] = TRUE] /\ slot' = t /\ UNCHANGED line
    <2>1. shown' \in [Tails -> BOOLEAN]
      BY <1>1, <1>5 DEF TypeDialogs
    <2>2. TypeDialogs'
      BY <1>1, <1>2, <1>5, <2>1 DEF TypeDialogs
    <2>3. \A u \in Tails \ {t} : shown'[u] = shown[u]
      BY <1>1, <1>5 DEF TypeDialogs
    <2>4. shown'[t]
      BY <1>1, <1>5 DEF TypeDialogs
    <2>5. LinesFit'
      <3>1. \A u \in Tails : shown'[u] => line'[u] # <<>>
        BY <1>1, <1>2, <1>5, <2>3 DEF LinesFit
      <3>2. \A u \in Tails : LineFits(u)'
        BY <1>1, <1>2, <1>5 DEF LinesFit, LineFits, callVars
      <3>3. QED
        BY <1>5, <2>4, <3>1, <3>2 DEF LinesFit, LineFits
    <2>6. t = tail
      BY <1>1, <1>4, <1>5 DEF LinesFit
    <2>7. OneDialog'
      <3> SUFFICES ASSUME NEW u \in Tails, line[u] # <<>>, at[Head(line[u])] = "queued" PROVE u = t
        BY <1>2, <1>5 DEF OneDialog, callVars
      <3>1. Head(line[u]) = line[u][1] /\ 1 \in 1 .. Len(line[u])
        BY <1>1, FirstOfALine
      <3>2. QED
        BY <1>1, <2>6, <3>1 DEF LinesFit
    <2>8. QED
      BY <1>2, <1>3, <2>2, <2>5, <2>7, SessionStays, CallMoves
  <1>6. CASE at[Head(line[t])] # "queued" /\ line' = [line EXCEPT ![t] = Tail(@)] /\ UNCHANGED <<shown, slot>>
    <2>1. UNCHANGED at
      BY <1>2 DEF callVars
    <2>2. /\ line' \in [Tails -> Seq(Asking)]
          /\ \A u \in Tails : LineFits(u)'
      BY <1>1, <1>2, <1>6, <2>1, FirstLeaves
    <2>3. \A u \in Tails \ {t} : line'[u] = line[u]
      BY <1>1, <1>6 DEF TypeDialogs
    <2>4. TypeDialogs'
      BY <1>1, <1>2, <1>6, <2>2 DEF TypeDialogs
    <2>5. ASSUME NEW u \in Tails, shown[u] PROVE line'[u] = line[u] /\ line[u] # <<>>
      <3>1. u # t
        BY <1>2, <2>5
      <3>2. QED
        BY <1>1, <2>3, <2>5, <3>1 DEF LinesFit
    <2>6. LinesFit'
      <3>1. \A u \in Tails : shown'[u] => line'[u] # <<>>
        BY <1>6, <2>5
      <3>2. slot' # 0 => shown'[slot']
        BY <1>1, <1>6 DEF LinesFit
      <3>3. QED
        BY <2>2, <3>1, <3>2 DEF LinesFit, LineFits
    <2>7. OneDialog'
      BY <1>1, <1>6, <2>1, <2>5 DEF OneDialog
    <2>8. QED
      BY <1>2, <1>3, <2>4, <2>6, <2>7, SessionStays, CallMoves
  <1>7. QED
    BY <1>5, <1>6 DEF TakeTurn

LEMMA HumanKeeps == ASSUME IInv, HumanAnswers PROVE IInv'
  <1>1. /\ TypeSession /\ TypeGrants /\ TypeCalls /\ TypeDialogs
        /\ \A y \in Asking : Gated(y)
        /\ LinesFit /\ OneDialog /\ RulesAreTheGrants
    BY Parts
  <1>2. slot # 0 /\ Unmount(slot) /\ UNCHANGED <<sessionVars, tail>>
    BY DEF HumanAnswers, HumanApproves, HumanRefuses, LateAnswer
  <1>3. slot \in Tails /\ line[slot] # <<>>
    BY <1>1, <1>2 DEF TypeDialogs, LinesFit
  <1>4. Head(line[slot]) \in Asking
    BY <1>1, <1>3, FirstOfALine
  <1> DEFINE x == Head(line[slot])
  <1>5. TypeSession'
    BY <1>1, <1>2 DEF TypeSession, sessionVars
  <1>6. CASE HumanApproves
    <2>1. /\ at[x] = "queued" /\ at[x] \in Pending
          /\ ApproveWith(x, "human", TRUE) /\ Pass(x, "human")
          /\ UNCHANGED <<gates, hops, terminal>>
      BY <1>6 DEF HumanApproves, ApproveWith, Pending
    <2>2. at[x] \in Underway /\ Position(x) <= Len(gates[x]) /\ Current(x).check = "ask" /\ Current(x) \in Gates
      BY <1>4, <2>1, AtAnAsk
    <2>3. "human" \in Deciders /\ Passed(Current(x), "human")
      BY <2>2 DEF Passed, Deciders
    <2>4. TypeGrants' /\ RulesAreTheGrants'
      BY <1>1, <2>1, <2>2, ApprovalRecords
    <2>5. TypeCalls' /\ \A y \in Asking : Gated(y)'
      BY <1>1, <1>4, <2>1, <2>2, <2>3, Passes
    <2>6. \A y \in Asking \ {x} : at'[y] = at[y]
      BY <1>1, <2>1 DEF TypeCalls, Pass
    <2>7. TypeDialogs' /\ LinesFit' /\ OneDialog'
      BY <1>1, <1>2, <2>1, <2>6, Unmounts
    <2>8. QED
      BY <1>5, <2>4, <2>5, <2>7, Stays
  <1>7. CASE HumanRefuses
    <2>1. at[x] = "queued" /\ at' = [at EXCEPT ![x] = "blocked"] /\ UNCHANGED <<grantVars, gates, decided, hops, terminal>>
      BY <1>7 DEF HumanRefuses
    <2>2. TypeCalls' /\ \A y \in Asking : Gated(y)'
      BY <1>1, <1>4, <2>1, Refused
    <2>3. \A y \in Asking \ {x} : at'[y] = at[y]
      BY <1>1, <2>1 DEF TypeCalls
    <2>4. TypeDialogs' /\ LinesFit' /\ OneDialog'
      BY <1>1, <1>2, <2>1, <2>3, Unmounts
    <2>5. QED
      BY <1>2, <2>1, <2>2, <2>4, SessionStays, CallMoves
  <1>8. CASE LateAnswer
    <2>1. UNCHANGED <<grantVars, callVars>>
      BY <1>8 DEF LateAnswer
    <2>2. UNCHANGED at
      BY <2>1 DEF callVars
    <2>3. TypeCalls' /\ \A y \in Asking : Gated(y)'
      BY <1>1, <2>1, OthersGated DEF callVars, TypeCalls
    <2>4. TypeDialogs' /\ LinesFit' /\ OneDialog'
      BY <1>1, <1>2, <2>2, Unmounts
    <2>5. QED
      BY <1>2, <2>1, <2>3, <2>4, SessionStays, CallMoves
  <1>9. QED
    BY <1>6, <1>7, <1>8 DEF HumanAnswers

--------------------------------------------------------------------------------
(* The theorems.                                                           *)

(* Every step preserves the invariant. *)
LEMMA StepKeeps == IInv /\ [Next]_vars => IInv'
  <1> SUFFICES ASSUME IInv, [Next]_vars PROVE IInv'
    OBVIOUS
  <1>1. CASE Activate
    BY <1>1, ActivateKeeps
  <1>2. CASE SetYolo
    BY <1>2, SetYoloKeeps
  <1>3. CASE Shutdown
    BY <1>3, ShutdownKeeps
  <1>4. ASSUME NEW c \in Calls, BeginCall(c) \/ Produces(c) PROVE IInv'
    BY <1>4, BeginCallKeeps, ProduceGatesKeeps, ProducerThrowsKeeps DEF Produces
  <1>5. ASSUME NEW r \in Requests, ServeRequest(r) PROVE IInv'
    BY <1>5, ServeRequestKeeps
  <1>6. ASSUME NEW x \in Asking, RunGate(x) PROVE IInv'
    BY <1>6, GateAllowsKeeps, GateDeniesKeeps, GateAsksKeeps, RunsOutKeeps DEF RunGate
  <1>7. ASSUME NEW x \in Asking, LinkRules(x) \/ RelayAnswers(x) PROVE IInv'
    BY <1>7, LinkKeeps, RelayKeeps
  <1>8. ASSUME NEW t \in Tails, TakeTurn(t) PROVE IInv'
    BY <1>8, TakeTurnKeeps
  <1>9. CASE HumanAnswers
    BY <1>9, HumanKeeps
  <1>10. CASE UNCHANGED vars
    <2>1. /\ TypeSession /\ TypeGrants /\ TypeCalls /\ TypeDialogs
          /\ \A y \in Asking : Gated(y)
          /\ LinesFit /\ OneDialog /\ RulesAreTheGrants
      BY Parts
    <2>2. UNCHANGED <<sessionVars, grantVars, callVars, dialogVars>>
      BY <1>10 DEF vars
    <2>3. TypeCalls' /\ \A y \in Asking : Gated(y)'
      BY <2>1, <2>2, OthersGated DEF callVars, TypeCalls
    <2>4. TypeDialogs' /\ LinesFit' /\ OneDialog'
      BY <2>1, <2>2 DEF dialogVars, callVars, TypeDialogs, LinesFit, OneDialog
    <2>5. QED
      BY <2>2, <2>3, <2>4, SessionStays, CallMoves
  <1>11. QED
    BY <1>1, <1>2, <1>3, <1>4, <1>5, <1>6, <1>7, <1>8, <1>9, <1>10 DEF Next

THEOREM Invariance == Spec => []IInv
  BY Initially, StepKeeps, PTL DEF Spec

(* The variables have their types in every reachable state. *)
THEOREM TypeCorrect == Spec => []TypeOK
  <1>1. IInv => TypeOK
    BY DEF IInv
  <1>2. QED
    BY <1>1, Invariance, PTL

(***************************************************************************)
(* A call that runs, a request that is approved, had each of its gates     *)
(* decided, and rightly, whatever threw, was released or shut down.        *)
(***************************************************************************)
THEOREM AllowedIsAuthorisedAlways == Spec => []AllowedIsAuthorised
  <1>1. IInv => AllowedIsAuthorised
    <2> SUFFICES ASSUME IInv, NEW x \in Asking, at[x] = "allowed"
                 PROVE  /\ Len(gates[x]) > 0 /\ Len(decided[x]) = Len(gates[x])
                        /\ \A i \in DOMAIN gates[x] :
                              /\ gates[x][i].check # "deny"
                              /\ gates[x][i].check = "ask" => decided[x][i] # "policy"
                              /\ decided[x][i] = "link" =>
                                    gates[x][i].surface \notin {"path", "path_read", "path_write", "unknown"}
      BY DEF AllowedIsAuthorised
    <2>1. TypeCalls /\ Gated(x)
      BY Parts
    <2>2. DOMAIN gates[x] = 1 .. Len(gates[x])
      BY <2>1 DEF TypeCalls
    <2>3. /\ Len(gates[x]) > 0 /\ Len(decided[x]) = Len(gates[x])
          /\ \A i \in 1 .. Len(decided[x]) : Passed(gates[x][i], decided[x][i])
      BY <2>1 DEF Gated, Underway
    <2>4. QED
      BY <2>2, <2>3 DEF Passed, LinkMayAllow
  <1>2. QED
    BY <1>1, Invariance, PTL

(* Nobody is asked about a call that one of its gates denies. *)
THEOREM NoQuestionForDeniedAlways == Spec => []NoQuestionForDenied
  <1>1. IInv => NoQuestionForDenied
    <2> SUFFICES ASSUME IInv, NEW x \in Asking, at[x] \in Pending, NEW i \in DOMAIN gates[x], Denies(gates[x][i])
                 PROVE  FALSE
      BY DEF NoQuestionForDenied
    <2>1. TypeCalls /\ Gated(x)
      BY Parts
    <2>2. decided[x] \in Seq(Deciders) /\ gates[x] \in Seq(Gates) /\ i \in 1 .. Len(gates[x])
      BY <2>1 DEF TypeCalls
    <2>3. /\ DenyAlone(gates[x]) /\ Len(decided[x]) < Len(gates[x]) /\ Current(x).check = "ask"
      BY <2>1 DEF Gated, Underway
    <2>4. Len(gates[x]) = 1 /\ i = 1 /\ Position(x) = 1
      BY <2>2, <2>3 DEF DenyAlone, Position
    <2>5. QED
      BY <2>3, <2>4 DEF Current, Denies
  <1>2. QED
    BY <1>1, Invariance, PTL

(* The dialog that is owed an answer is the one the host shows. *)
THEOREM OneDialogAlways == Spec => []OneDialog
  <1>1. IInv => OneDialog
    BY DEF IInv
  <1>2. QED
    BY <1>1, Invariance, PTL

(* The rules of a session are what was granted in it, no more and no less. *)
THEOREM RulesAreTheGrantsAlways == Spec => []RulesAreTheGrants
  <1>1. IInv => RulesAreTheGrants
    BY DEF IInv
  <1>2. QED
    BY <1>1, Invariance, PTL
================================================================================
