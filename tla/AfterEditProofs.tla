---------------------------- MODULE AfterEditProofs ----------------------------
(***************************************************************************)
(* What follows an edit: the safety of Autoformat, for any files, chains   *)
(* and number of flushes, and of the other package that hears of each      *)
(* edit, Reindexer (at the end), for any number of processes.              *)
(*                                                                         *)
(* WalkInv says of each file of a flush how far it has come while the      *)
(* groups are worked through (At), what is ahead of it, and when it counts *)
(* as claimed; TellInv what is already listed of what was formatted.       *)
(***************************************************************************)
EXTENDS Autoformat, Reindexer, FiniteSetTheorems, SequenceTheorems, TLAPS

GroupTypes == [wild : BOOLEAN, steps : Seq(Steps), files : SUBSET Files]

FlushTypes ==
    [phase : {"idle", "between", "stepping"}, groups : Seq(GroupTypes), wild : BOOLEAN,
     steps : Seq(Steps), inputs : SUBSET Files, working : SUBSET Files, handled : SUBSET Files,
     ran : BOOLEAN, changing : SUBSET Files, formatted : SUBSET Files, told : Seq(Files),
     took : SUBSET Files, saw : [Files -> SUBSET Nat], claimedAt : [Files -> Nat]]

Types == flush \in FlushTypes /\ touched \subseteq Files /\ IsFiniteSet(touched)

InWild == flush.phase = "stepping" /\ flush.wild

(* The groups that are still to come. *)
Coming == {flush.groups[i] : i \in DOMAIN flush.groups}
WildAhead == \E g \in Coming : g.wild
Ahead(f) == \E g \in Coming : ~g.wild /\ f \in g.files

(* The wildcard group comes first, and of no chain there are two groups. *)
GroupsFit ==
    /\ \A g \in Coming :
          IF g.wild THEN g.steps = Wild /\ g.files = flush.took
          ELSE g.files = {f \in flush.took : Own[f] = g.steps}
    /\ \A i, j \in DOMAIN flush.groups :
          i < j => ~flush.groups[j].wild /\ (~flush.groups[i].wild => flush.groups[i].steps # flush.groups[j].steps)

(* The group at work. *)
WorkFits ==
    /\ flush.working \subseteq flush.inputs /\ flush.inputs \subseteq flush.took
    /\ flush.phase # "stepping" => flush.inputs = {}
    /\ InWild => flush.inputs = flush.took /\ Len(flush.steps) <= Len(Wild)
    /\ flush.phase = "stepping" /\ ~flush.wild =>
          \A f \in flush.inputs : ~Ahead(f) /\ f \notin flush.handled /\ Len(flush.steps) <= Len(Own[f])

(* What comes after the wildcard group is everything that has a chain. *)
NothingSkipped == WildAhead \/ InWild => \A f \in flush.took : Ahead(f) \/ Own[f] = <<>>

ClaimsFit ==
    /\ \A f \in flush.handled : flush.claimedAt[f] > 0
    /\ \A f \in flush.inputs : f \in flush.working <=> flush.claimedAt[f] = 0
    /\ \A f \in flush.took : Ahead(f) /\ f \notin flush.handled /\ ~InWild => flush.claimedAt[f] = 0
    /\ WildAhead => flush.phase = "between" /\ flush.handled = {} /\ \A f \in flush.took : flush.claimedAt[f] = 0

(* How many steps are behind a file that nobody has claimed. *)
At(f) ==
    IF WildAhead THEN 0
    ELSE IF InWild THEN Len(Wild) - Len(flush.steps)
    ELSE IF f \in flush.inputs THEN (Len(Wild) + Len(Own[f])) - Len(flush.steps)
    ELSE IF Ahead(f) THEN Len(Wild)
    ELSE Len(Wild) + Len(Own[f])

Walked ==
    \A f \in flush.took : flush.saw[f] = 1 .. IF flush.claimedAt[f] > 0 THEN flush.claimedAt[f] ELSE At(f)

WalkInv == GroupsFit /\ WorkFits /\ NothingSkipped /\ ClaimsFit /\ Walked

(* What was formatted is on the list, or will be with the group at work. *)
Listed(list) == {list[i] : i \in DOMAIN list}

TellInv ==
    /\ flush.formatted \subseteq Listed(flush.told) \cup IF flush.phase = "stepping" /\ flush.ran THEN flush.changing ELSE {}
    /\ untold = {}
--------------------------------------------------------------------------------
(***************************************************************************)
(* The groups of a flush.                                                  *)
(***************************************************************************)
LEMMA ChainTypes == Wild \in Seq(Steps) /\ \A f \in Files : Own[f] \in Seq(Steps)
  BY ChainsAssumption

(* One group per chain, in any order, after the wildcard group. *)
LEMMA GroupsOf ==
    ASSUME NEW files \in SUBSET Files, IsFiniteSet(files), NEW groups \in Groups(files)
    PROVE  /\ groups \in Seq(GroupTypes)
           /\ \A i \in DOMAIN groups :
                 IF groups[i].wild THEN groups[i].steps = Wild /\ groups[i].files = files
                 ELSE groups[i].files = {f \in files : Own[f] = groups[i].steps}
           /\ \A i, j \in DOMAIN groups :
                 i < j => ~groups[j].wild /\ (~groups[i].wild => groups[i].steps # groups[j].steps)
           /\ \A f \in files : Own[f] = <<>> \/ \E i \in DOMAIN groups : ~groups[i].wild /\ f \in groups[i].files
           /\ Wild # <<>> /\ files # {} => \E i \in DOMAIN groups : groups[i].wild
           /\ Wild = <<>> \/ files = {} => \A i \in DOMAIN groups : ~groups[i].wild
<1> DEFINE wilds == IF Wild # <<>> /\ files # {} THEN <<[wild |-> TRUE, steps |-> Wild, files |-> files]>> ELSE <<>>
           all == {Own[f] : f \in files}
           chains == all \ {<<>>}
           n == Cardinality(chains)
           Group(chain) == [wild |-> FALSE, steps |-> chain, files |-> {f \in files : Own[f] = chain}]
<1>1. IsFiniteSet(chains) /\ n \in Nat
  <2> DEFINE own == [f \in files |-> Own[f]]
  <2>1. own \in Surjection(files, all)
    BY DEF Surjection
  <2>2. IsFiniteSet(all)
    BY <2>1, FS_Surjection
  <2>3. chains \in SUBSET all
    OBVIOUS
  <2> HIDE DEF all, chains
  <2>4. IsFiniteSet(chains)
    BY <2>2, <2>3, FS_Subset
  <2> QED
    BY <2>4, FS_CardinalityType DEF n
<1>2. chains \subseteq Seq(Steps)
  BY ChainTypes
<1>3. PICK order \in [1 .. n -> chains] :
          {order[i] : i \in DOMAIN order} = chains /\ groups = wilds \o [i \in 1 .. n |-> Group(order[i])]
  BY DEF Groups, Orders
<1> DEFINE own == [i \in 1 .. n |-> Group(order[i])]
<1>4. \A i, j \in 1 .. n : i # j => order[i] # order[j]
  <2> HIDE DEF chains
  <2>1. order \in Surjection(1 .. n, chains)
    BY <1>3 DEF Surjection
  <2>2. IsFiniteSet(1 .. n) /\ Cardinality(1 .. n) = n
    <3> HIDE DEF n
    <3> QED
      BY <1>1, FS_Interval
  <2>3. order \in Injection(1 .. n, chains)
    BY <2>1, <2>2, FS_SurjSameCardinalityImpliesInj
  <2> QED
    BY <2>3 DEF Injection, IsInjective
<1> HIDE DEF n
<1>5. \A i \in 1 .. n : order[i] \in Seq(Steps) /\ Group(order[i]) \in GroupTypes
  BY <1>2, <1>3 DEF GroupTypes
<1>6. own \in Seq(GroupTypes) /\ Len(own) = n /\ \A i \in 1 .. n : own[i] = Group(order[i])
  BY <1>1, <1>5
<1>7. wilds \in Seq(GroupTypes) /\ Len(wilds) \in {0, 1} /\ (Len(wilds) = 1 <=> Wild # <<>> /\ files # {})
  <2>1. [wild |-> TRUE, steps |-> Wild, files |-> files] \in GroupTypes
    BY ChainTypes DEF GroupTypes
  <2> HIDE DEF GroupTypes
  <2>2. CASE Wild # <<>> /\ files # {}
    BY <2>1, <2>2
  <2>3. CASE ~(Wild # <<>> /\ files # {})
    BY <2>3
  <2> QED
    BY <2>2, <2>3
<1>8. Len(wilds) = 1 => wilds[1] = [wild |-> TRUE, steps |-> Wild, files |-> files]
  BY <1>7
<1> DEFINE w == Len(wilds)
<1>9. /\ groups \in Seq(GroupTypes) /\ Len(groups) = w + n
      /\ \A i \in 1 .. w + n : groups[i] = IF i <= w THEN wilds[i] ELSE own[i - w]
  <2> HIDE DEF wilds, own
  <2>1. groups = wilds \o own
    BY <1>3 DEF own
  <2> QED
    BY <2>1, <1>1, <1>6, <1>7
<1> HIDE DEF wilds, own, w, chains
<1>10. w \in {0, 1} /\ (w = 1 <=> Wild # <<>> /\ files # {})
  BY <1>7 DEF w
<1>11. DOMAIN groups = 1 .. w + n
  BY <1>9
<1>12. \A i \in 1 .. w + n : i <= w => i = 1 /\ groups[i] = [wild |-> TRUE, steps |-> Wild, files |-> files]
  BY <1>8, <1>9, <1>10, <1>1 DEF w
<1>13. \A i \in 1 .. w + n :
          ~(i <= w) => /\ i - w \in 1 .. n /\ groups[i] = Group(order[i - w])
                       /\ ~groups[i].wild /\ groups[i].steps = order[i - w]
  BY <1>1, <1>6, <1>9, <1>10
<1>14. \A i \in DOMAIN groups :
          IF groups[i].wild THEN groups[i].steps = Wild /\ groups[i].files = files
          ELSE groups[i].files = {f \in files : Own[f] = groups[i].steps}
  BY <1>11, <1>12, <1>13
<1>15. \A i, j \in DOMAIN groups :
          i < j => ~groups[j].wild /\ (~groups[i].wild => groups[i].steps # groups[j].steps)
  <2> SUFFICES ASSUME NEW i \in 1 .. w + n, NEW j \in 1 .. w + n, i < j
               PROVE  ~groups[j].wild /\ (~groups[i].wild => groups[i].steps # groups[j].steps)
    BY <1>11
  <2>1. ~(j <= w)
    BY <1>10, <1>1
  <2>2. ~groups[i].wild => i - w \in 1 .. n /\ j - w \in 1 .. n /\ i - w # j - w /\ ~(i <= w)
    BY <1>10, <1>12, <1>13, <1>1, <2>1
  <2>3. ~groups[i].wild => order[i - w] # order[j - w]
    BY <2>2, <1>4
  <2> QED
    BY <2>1, <2>2, <2>3, <1>13
<1>16. \A f \in files : Own[f] = <<>> \/ \E i \in DOMAIN groups : ~groups[i].wild /\ f \in groups[i].files
  <2> SUFFICES ASSUME NEW f \in files, Own[f] # <<>>
               PROVE  \E i \in DOMAIN groups : ~groups[i].wild /\ f \in groups[i].files
    OBVIOUS
  <2>1. Own[f] \in chains
    BY DEF chains
  <2>2. PICK i \in 1 .. n : order[i] = Own[f]
    BY <2>1, <1>3
  <2>3. i + w \in 1 .. w + n /\ ~(i + w <= w) /\ (i + w) - w = i
    BY <1>1, <1>10
  <2>4. groups[i + w] = Group(order[i])
    BY <2>3, <1>13
  <2> QED
    BY <2>2, <2>3, <2>4, <1>11
<1>17. Wild # <<>> /\ files # {} => \E i \in DOMAIN groups : groups[i].wild
  <2> SUFFICES ASSUME Wild # <<>>, files # {} PROVE \E i \in DOMAIN groups : groups[i].wild
    OBVIOUS
  <2>1. w = 1 /\ 1 \in 1 .. w + n
    BY <1>10, <1>1
  <2> QED
    BY <2>1, <1>11, <1>12
<1>18. Wild = <<>> \/ files = {} => \A i \in DOMAIN groups : ~groups[i].wild
  <2> SUFFICES ASSUME Wild = <<>> \/ files = {}, NEW i \in 1 .. w + n PROVE ~groups[i].wild
    BY <1>11
  <2>1. ~(i <= w)
    BY <1>10, <1>1
  <2> QED
    BY <2>1, <1>13
<1> QED
  BY <1>9, <1>14, <1>15, <1>16, <1>17, <1>18

(* The groups after the first. *)
LEMMA AfterHead ==
    ASSUME NEW groups \in Seq(GroupTypes), groups # <<>>
    PROVE  /\ Head(groups) \in GroupTypes /\ Head(groups) = groups[1] /\ 1 \in DOMAIN groups
           /\ Tail(groups) \in Seq(GroupTypes)
           /\ \A i \in DOMAIN Tail(groups) : i \in Nat /\ i + 1 \in DOMAIN groups /\ 1 < i + 1 /\ Tail(groups)[i] = groups[i + 1]
           /\ \A i \in DOMAIN groups : i = 1 \/ (i - 1 \in DOMAIN Tail(groups) /\ Tail(groups)[i - 1] = groups[i])
<1> HIDE DEF GroupTypes
<1>1. Len(groups) \in Nat \ {0} /\ DOMAIN groups = 1 .. Len(groups) /\ Head(groups) = groups[1]
  OBVIOUS
<1>2. /\ Tail(groups) \in Seq(GroupTypes) /\ DOMAIN Tail(groups) = 1 .. Len(groups) - 1
      /\ \A i \in 1 .. Len(groups) - 1 : Tail(groups)[i] = groups[i + 1]
  OBVIOUS
<1>3. Head(groups) \in GroupTypes
  OBVIOUS
<1>4. \A i \in DOMAIN Tail(groups) : i \in Nat /\ i + 1 \in DOMAIN groups /\ 1 < i + 1 /\ Tail(groups)[i] = groups[i + 1]
  BY <1>1, <1>2
<1>5. ASSUME NEW i \in DOMAIN groups, i # 1
      PROVE  i - 1 \in DOMAIN Tail(groups) /\ Tail(groups)[i - 1] = groups[i]
  <2>1. i - 1 \in 1 .. Len(groups) - 1 /\ (i - 1) + 1 = i
    BY <1>1, <1>5
  <2> QED
    BY <2>1, <1>2
<1>6. \A i \in DOMAIN groups : i = 1 \/ (i - 1 \in DOMAIN Tail(groups) /\ Tail(groups)[i - 1] = groups[i])
  BY <1>5
<1>7. Head(groups) = groups[1] /\ 1 \in DOMAIN groups
  BY <1>1
<1>8. Tail(groups) \in Seq(GroupTypes)
  BY <1>2
<1> QED
  BY <1>3, <1>4, <1>6, <1>7, <1>8, Zenon

LEMMA StepsLeft ==
    ASSUME NEW steps \in Seq(Steps), steps # <<>>
    PROVE  Tail(steps) \in Seq(Steps) /\ Len(steps) \in Nat \ {0} /\ Len(Tail(steps)) = Len(steps) - 1
  OBVIOUS
--------------------------------------------------------------------------------
(***************************************************************************)
(* Types, and what a step of the walk does to the fields of the flush.     *)
(***************************************************************************)
Inv == Types /\ TellInv /\ WalkInv

(* The fields of a flush that WalkInv is about. *)
SameWalk(next) ==
    /\ next.phase = flush.phase /\ next.groups = flush.groups /\ next.wild = flush.wild /\ next.steps = flush.steps
    /\ next.inputs = flush.inputs /\ next.working = flush.working /\ next.handled = flush.handled
    /\ next.took = flush.took /\ next.saw = flush.saw /\ next.claimedAt = flush.claimedAt

(* Where the step at work stands in the way of a file. *)
Here(f) == (IF flush.wild THEN Len(Wild) ELSE Len(Wild) + Len(Own[f])) - Len(flush.steps) + 1

SteppedTo(next, unhandled) ==
    /\ next.phase = flush.phase /\ next.groups = flush.groups /\ next.wild = flush.wild /\ next.steps = Tail(flush.steps)
    /\ next.inputs = flush.inputs /\ next.working = unhandled /\ next.handled = flush.handled /\ next.took = flush.took
    /\ next.saw = [f \in Files |-> IF f \in flush.working THEN flush.saw[f] \cup {Here(f)} ELSE flush.saw[f]]
    /\ next.claimedAt = [f \in Files |-> IF f \in flush.working \ unhandled THEN Here(f) ELSE flush.claimedAt[f]]

LEMMA LengthOfWay ==
    ASSUME NEW f \in Files
    PROVE  /\ Len(Way(f)) = Len(Wild) + Len(Own[f])
           /\ Len(Wild) \in Nat /\ Len(Own[f]) \in Nat /\ (Len(Own[f]) = 0 <=> Own[f] = <<>>) /\ (Len(Wild) = 0 <=> Wild = <<>>)
  BY ChainTypes DEF Way

LEMMA InitInv == Init => Inv
<1> SUFFICES ASSUME Init PROVE Inv
  OBVIOUS
<1>1. Types
  BY FS_EmptySet DEF Init, Idle, Types, FlushTypes
<1>2. TellInv
  BY DEF Init, Idle, TellInv
<1>3. WalkInv
  BY DEF Init, Idle, WalkInv, GroupsFit, WorkFits, NothingSkipped, ClaimsFit, Walked, WildAhead, InWild, Ahead, Coming
<1> QED
  BY <1>1, <1>2, <1>3 DEF Inv

LEMMA OneAfter ==
    ASSUME NEW long \in Nat, NEW left \in Nat, left <= long, NEW here, here = long - left + 1, NEW at, at = long - left
    PROVE  at \in Nat /\ here = at + 1 /\ here \in Nat /\ here > 0 /\ here # 0
  OBVIOUS

LEMMA OneLess ==
    ASSUME NEW long \in Nat, NEW left \in Nat \ {0}, NEW now, now = left - 1, NEW at, at = long - left, NEW then, then = long - now
    PROVE  then = at + 1
  OBVIOUS

(* Here is where the step stands, and past what has been done. *)
LEMMA HereIs ==
    ASSUME Types, WalkInv, Stepping, NEW f \in flush.working
    PROVE  /\ f \in Files /\ Here(f) \in Nat /\ Here(f) > 0 /\ Here(f) # 0
           /\ Here(f) = Len(IF flush.wild THEN Wild ELSE Way(f)) - Len(flush.steps) + 1
           /\ Here(f) = At(f) + 1
           /\ ~WildAhead
<1>1. f \in Files /\ f \in flush.inputs /\ f \in flush.took
  BY DEF Types, FlushTypes, WalkInv, WorkFits
<1>2. Len(flush.steps) \in Nat
  BY DEF Types, FlushTypes
<1>3. ~WildAhead
  BY DEF WalkInv, ClaimsFit, Stepping
<1>4. CASE flush.wild
  <2>1. InWild
    BY <1>4 DEF InWild, Stepping
  <2>2. Len(flush.steps) <= Len(Wild)
    BY <2>1 DEF WalkInv, WorkFits
  <2>3. Here(f) = Len(Wild) - Len(flush.steps) + 1 /\ At(f) = Len(Wild) - Len(flush.steps)
    BY <1>3, <1>4, <2>1 DEF Here, At
  <2>4. Len(Wild) \in Nat
    BY <1>1, LengthOfWay
  <2>5. Here(f) = At(f) + 1 /\ Here(f) \in Nat /\ Here(f) > 0 /\ Here(f) # 0
    BY <1>2, <2>2, <2>3, <2>4, OneAfter, Zenon
  <2>6. Here(f) = Len(IF flush.wild THEN Wild ELSE Way(f)) - Len(flush.steps) + 1
    BY <1>4, <2>3
  <2> QED
    BY <1>1, <1>3, <2>5, <2>6
<1>5. CASE ~flush.wild
  <2>1. ~InWild
    BY <1>5 DEF InWild
  <2>2. Len(flush.steps) <= Len(Own[f])
    BY <1>1, <1>5 DEF WalkInv, WorkFits, Stepping
  <2>3. Here(f) = (Len(Wild) + Len(Own[f])) - Len(flush.steps) + 1 /\ At(f) = (Len(Wild) + Len(Own[f])) - Len(flush.steps)
    BY <1>1, <1>3, <1>5, <2>1 DEF Here, At
  <2>4. Len(Wild) \in Nat /\ Len(Own[f]) \in Nat /\ Len(Way(f)) = Len(Wild) + Len(Own[f])
    BY <1>1, LengthOfWay
  <2>5. Here(f) = At(f) + 1 /\ Here(f) \in Nat /\ Here(f) > 0 /\ Here(f) # 0
    <3>1. Len(Wild) + Len(Own[f]) \in Nat /\ Len(flush.steps) <= Len(Wild) + Len(Own[f])
      BY <1>2, <2>2, <2>4
    <3> QED
      BY <1>2, <2>3, <3>1, OneAfter, Zenon
  <2>6. Here(f) = Len(IF flush.wild THEN Wild ELSE Way(f)) - Len(flush.steps) + 1
    BY <1>5, <2>3, <2>4
  <2> QED
    BY <1>1, <1>3, <2>5, <2>6
<1> QED
  BY <1>4, <1>5 DEF Types, FlushTypes

(* What Stepped and Ran return. *)
LEMMA SteppedIs ==
    ASSUME Types, WalkInv, Stepping, NEW unhandled \in SUBSET flush.working
    PROVE  /\ Stepped(unhandled) \in FlushTypes
           /\ SteppedTo(Stepped(unhandled), unhandled)
           /\ Stepped(unhandled).ran = flush.ran /\ Stepped(unhandled).changing = flush.changing
           /\ Stepped(unhandled).formatted = flush.formatted /\ Stepped(unhandled).told = flush.told
<1>1. flush \in FlushTypes
  BY DEF Types
<1>2. Tail(flush.steps) \in Seq(Steps)
  BY <1>1, StepsLeft DEF Stepping, FlushTypes
<1> DEFINE at(f) == Len(IF flush.wild THEN Wild ELSE Way(f)) - Len(flush.steps) + 1
           saw == [f \in Files |-> IF f \in flush.working THEN flush.saw[f] \cup {at(f)} ELSE flush.saw[f]]
           claimedAt == [f \in Files |-> IF f \in flush.working \ unhandled THEN at(f) ELSE flush.claimedAt[f]]
<1>3. \A f \in flush.working : at(f) = Here(f) /\ at(f) \in Nat
  BY HereIs
<1>4. Stepped(unhandled) = [flush EXCEPT !.steps = Tail(flush.steps), !.working = unhandled, !.saw = saw, !.claimedAt = claimedAt]
  BY <1>1 DEF Stepped, FlushTypes
<1>5. saw = [f \in Files |-> IF f \in flush.working THEN flush.saw[f] \cup {Here(f)} ELSE flush.saw[f]]
  BY <1>3
<1>6. claimedAt = [f \in Files |-> IF f \in flush.working \ unhandled THEN Here(f) ELSE flush.claimedAt[f]]
  BY <1>3
<1>7. saw \in [Files -> SUBSET Nat] /\ claimedAt \in [Files -> Nat]
  BY <1>1, <1>3 DEF FlushTypes
<1> HIDE DEF saw, claimedAt
<1>8. unhandled \in SUBSET Files
  BY <1>1 DEF FlushTypes
<1> QED
  BY <1>1, <1>2, <1>4, <1>5, <1>6, <1>7, <1>8 DEF FlushTypes, SteppedTo

LEMMA RanIs ==
    ASSUME Types, WalkInv, Stepping, NEW unhandled \in SUBSET flush.working, NEW changed \in SUBSET flush.working
    PROVE  /\ Ran(unhandled, changed) \in FlushTypes
           /\ SteppedTo(Ran(unhandled, changed), unhandled)
           /\ Ran(unhandled, changed).ran = TRUE /\ Ran(unhandled, changed).changing = flush.changing \cup changed
           /\ Ran(unhandled, changed).formatted = flush.formatted \cup changed
           /\ Ran(unhandled, changed).told = flush.told
<1>1. /\ Stepped(unhandled) \in FlushTypes /\ SteppedTo(Stepped(unhandled), unhandled)
      /\ Stepped(unhandled).changing = flush.changing
      /\ Stepped(unhandled).formatted = flush.formatted /\ Stepped(unhandled).told = flush.told
  BY SteppedIs
<1>2. changed \in SUBSET Files
  BY DEF Types, FlushTypes
<1> DEFINE before == Stepped(unhandled)
<1>3. Ran(unhandled, changed) =
          [before EXCEPT !.ran = TRUE, !.changing = before.changing \cup changed, !.formatted = before.formatted \cup changed]
  BY <1>1 DEF Ran, FlushTypes
<1> HIDE DEF before
<1>4. before \in FlushTypes /\ SteppedTo(before, unhandled) /\ before.changing = flush.changing
      /\ before.formatted = flush.formatted /\ before.told = flush.told
  BY <1>1 DEF before
<1>5. before.changing \cup changed \in SUBSET Files /\ before.formatted \cup changed \in SUBSET Files
  BY <1>2, <1>4 DEF FlushTypes
<1> QED
  BY <1>3, <1>4, <1>5 DEF FlushTypes, SteppedTo
--------------------------------------------------------------------------------
(***************************************************************************)
(* The walk goes on.                                                       *)
(***************************************************************************)
LEMMA StandStill ==
    ASSUME WalkInv, SameWalk(flush')
    PROVE  WalkInv'
<1>1. /\ Coming' = Coming /\ (WildAhead' <=> WildAhead) /\ (InWild' <=> InWild)
      /\ \A f : Ahead(f)' <=> Ahead(f)
  BY DEF SameWalk, Coming, WildAhead, InWild, Ahead
<1>2. \A f : At(f)' = At(f)
  BY <1>1 DEF SameWalk, At
<1>3. GroupsFit'
  BY <1>1 DEF SameWalk, WalkInv, GroupsFit
<1>4. WorkFits'
  BY <1>1 DEF SameWalk, WalkInv, WorkFits
<1>5. NothingSkipped'
  BY <1>1 DEF SameWalk, WalkInv, NothingSkipped
<1>6. ClaimsFit'
  BY <1>1 DEF SameWalk, WalkInv, ClaimsFit
<1>7. Walked'
  BY <1>2 DEF SameWalk, WalkInv, Walked
<1> QED
  BY <1>3, <1>4, <1>5, <1>6, <1>7 DEF WalkInv

LEMMA OneMore == ASSUME NEW n \in Nat PROVE (1 .. n) \cup {n + 1} = 1 .. n + 1
  OBVIOUS

(* One step further, for the files that were not claimed before. *)
LEMMA StepForward ==
    ASSUME Types, WalkInv, Stepping, NEW unhandled \in SUBSET flush.working, SteppedTo(flush', unhandled)
    PROVE  WalkInv'
<1>1. /\ flush.working \subseteq flush.inputs /\ flush.inputs \subseteq flush.took /\ flush.took \subseteq Files
      /\ Len(flush.steps) \in Nat \ {0} /\ Len(Tail(flush.steps)) = Len(flush.steps) - 1
  BY StepsLeft DEF Types, FlushTypes, WalkInv, WorkFits, Stepping
<1>2. /\ flush'.phase = flush.phase /\ flush'.groups = flush.groups /\ flush'.wild = flush.wild
      /\ flush'.steps = Tail(flush.steps) /\ flush'.inputs = flush.inputs /\ flush'.working = unhandled
      /\ flush'.handled = flush.handled /\ flush'.took = flush.took
  BY DEF SteppedTo
<1>3. \A f \in Files :
          /\ flush'.saw[f] = IF f \in flush.working THEN flush.saw[f] \cup {Here(f)} ELSE flush.saw[f]
          /\ flush'.claimedAt[f] = IF f \in flush.working \ unhandled THEN Here(f) ELSE flush.claimedAt[f]
  BY DEF SteppedTo
<1>4. /\ Coming' = Coming /\ (WildAhead' <=> WildAhead) /\ (InWild' <=> InWild)
      /\ \A f \in Files : Ahead(f)' <=> Ahead(f)
  BY <1>2 DEF Coming, WildAhead, InWild, Ahead
<1>5. GroupsFit'
  BY <1>2, <1>4 DEF WalkInv, GroupsFit
<1>6. WorkFits'
  <2>1. flush'.working \subseteq flush'.inputs /\ flush'.inputs \subseteq flush'.took
    BY <1>1, <1>2
  <2>2. flush'.phase # "stepping" => flush'.inputs = {}
    BY <1>2 DEF WalkInv, WorkFits
  <2>3. InWild' => flush'.inputs = flush'.took /\ Len(flush'.steps) <= Len(Wild)
    BY <1>1, <1>2, <1>4, ChainTypes DEF WalkInv, WorkFits
  <2>4. ASSUME flush'.phase = "stepping" /\ ~flush'.wild, NEW f \in flush'.inputs
        PROVE  ~Ahead(f)' /\ f \notin flush'.handled /\ Len(flush'.steps) <= Len(Own[f])
    <3>1. f \in Files /\ Len(Own[f]) \in Nat
      BY <1>1, <1>2, LengthOfWay
    <3> QED
      BY <1>1, <1>2, <1>4, <2>4, <3>1 DEF WalkInv, WorkFits
  <2> QED
    BY <2>1, <2>2, <2>3, <2>4 DEF WorkFits
<1>7. NothingSkipped'
  BY <1>1, <1>2, <1>4 DEF WalkInv, NothingSkipped
<1>8. \A f \in flush.working : Here(f) \in Nat /\ Here(f) > 0 /\ Here(f) # 0 /\ Here(f) = At(f) + 1
  BY HereIs
<1>9. ~WildAhead
  BY DEF WalkInv, ClaimsFit, Stepping
<1>10. ClaimsFit'
  <2>1. ASSUME NEW f \in flush'.handled, f \in Files PROVE flush'.claimedAt[f] > 0
    BY <1>2, <1>3, <1>8, <2>1 DEF WalkInv, ClaimsFit
  <2>2. flush.handled \subseteq Files
    BY DEF Types, FlushTypes
  <2>3. \A f \in flush'.inputs : f \in flush'.working <=> flush'.claimedAt[f] = 0
    <3> SUFFICES ASSUME NEW f \in flush.inputs PROVE f \in unhandled <=> flush'.claimedAt[f] = 0
      BY <1>2
    <3>1. f \in Files /\ (f \in flush.working <=> flush.claimedAt[f] = 0)
      BY <1>1 DEF WalkInv, ClaimsFit
    <3>2. CASE f \in flush.working \ unhandled
      <4>1. flush'.claimedAt[f] = Here(f) /\ Here(f) # 0
        BY <1>3, <1>8, <3>1, <3>2
      <4> QED
        BY <3>2, <4>1
    <3>3. CASE f \notin flush.working \ unhandled
      BY <1>3, <3>1, <3>3
    <3> QED
      BY <3>2, <3>3
  <2>4. ASSUME NEW f \in flush'.took, Ahead(f)', f \notin flush'.handled, ~InWild' PROVE flush'.claimedAt[f] = 0
    <3>1. f \in Files /\ flush.claimedAt[f] = 0
      BY <1>1, <1>2, <1>4, <2>4 DEF WalkInv, ClaimsFit
    <3>2. f \notin flush.working
      BY <1>1, <1>2, <1>4, <2>4, <3>1 DEF WalkInv, WorkFits, Stepping, InWild
    <3> QED
      BY <1>3, <3>1, <3>2
  <2> QED
    BY <1>2, <1>4, <1>9, <2>1, <2>2, <2>3, <2>4 DEF ClaimsFit
<1>11. Walked'
  <2> SUFFICES ASSUME NEW f \in flush.took
               PROVE  flush'.saw[f] = 1 .. IF flush'.claimedAt[f] > 0 THEN flush'.claimedAt[f] ELSE At(f)'
    BY <1>2 DEF Walked
  <2>1. f \in Files /\ flush.saw[f] = 1 .. IF flush.claimedAt[f] > 0 THEN flush.claimedAt[f] ELSE At(f)
    BY <1>1 DEF WalkInv, Walked
  <2>2. CASE f \in flush.working
    <3>1. flush.claimedAt[f] = 0 /\ flush.saw[f] = 1 .. At(f)
      BY <1>1, <2>1, <2>2 DEF WalkInv, ClaimsFit
    <3>2. At(f)' = At(f) + 1
      <4>1. f \in flush.inputs /\ f \in flush'.inputs /\ Len(flush'.steps) = Len(flush.steps) - 1
        BY <1>1, <1>2, <2>2
      <4>2. Len(Wild) \in Nat /\ Len(Own[f]) \in Nat
        BY <2>1, LengthOfWay
      <4>3. CASE InWild
        <5>1. At(f) = Len(Wild) - Len(flush.steps) /\ At(f)' = Len(Wild) - Len(flush'.steps)
          BY <1>4, <1>9, <4>3 DEF At
        <5> QED
          <6>1. Len(flush.steps) \in Nat \ {0} /\ Len(flush'.steps) = Len(flush.steps) - 1 /\ Len(Wild) \in Nat
            BY <1>1, <4>1, <4>2
          <6>2. At(f)' = (Len(Wild) - Len(flush.steps)) + 1
            BY <5>1, <6>1, OneLess
          <6> QED
            BY <5>1, <6>2, Zenon
      <4>4. CASE ~InWild
        <5>1. /\ At(f) = (Len(Wild) + Len(Own[f])) - Len(flush.steps)
              /\ At(f)' = (Len(Wild) + Len(Own[f])) - Len(flush'.steps)
          BY <1>4, <1>9, <4>1, <4>4 DEF At
        <5>2. Len(Wild) + Len(Own[f]) \in Nat
          BY <4>2
        <5> QED
          <6>1. Len(flush.steps) \in Nat \ {0} /\ Len(flush'.steps) = Len(flush.steps) - 1
            BY <1>1, <4>1
          <6>2. At(f)' = ((Len(Wild) + Len(Own[f])) - Len(flush.steps)) + 1
            BY <5>1, <5>2, <6>1, OneLess
          <6> QED
            BY <5>1, <6>2, Zenon
      <4> QED
        BY <4>3, <4>4
    <3>3. At(f) \in Int /\ At(f) >= 0 /\ Here(f) = At(f) + 1
      <4>1. Here(f) \in Nat /\ Here(f) > 0 /\ Here(f) = At(f) + 1
        BY <1>8, <2>2
      <4>2. At(f) \in Int
        BY <1>1, <2>1, LengthOfWay DEF At
      <4> QED
        BY <4>1, <4>2
    <3>4. flush'.saw[f] = 1 .. At(f) + 1
      <4>1. flush'.saw[f] = (1 .. At(f)) \cup {At(f) + 1}
        BY <1>3, <2>1, <2>2, <3>1, <3>3
      <4>2. At(f) \in Nat
        BY <3>3
      <4> QED
        BY <4>1, <4>2, OneMore
    <3>5. CASE f \in unhandled
      <4>1. flush'.claimedAt[f] = 0
        BY <1>3, <2>1, <3>1, <3>5
      <4>2. ~(flush'.claimedAt[f] > 0)
        BY <4>1
      <4> QED
        BY <3>2, <3>4, <4>2
    <3>6. CASE f \notin unhandled
      BY <1>3, <1>8, <2>1, <2>2, <3>3, <3>4, <3>6
    <3> QED
      BY <3>5, <3>6
  <2>3. CASE f \notin flush.working
    <3>1. flush'.saw[f] = flush.saw[f] /\ flush'.claimedAt[f] = flush.claimedAt[f]
      BY <1>3, <2>1, <2>3
    <3>2. CASE flush.claimedAt[f] > 0
      BY <2>1, <3>1, <3>2
    <3>3. CASE ~(flush.claimedAt[f] > 0)
      <4>1. f \notin flush.inputs
        BY <2>1, <2>3, <3>3 DEF WalkInv, ClaimsFit, Types, FlushTypes
      <4>2. ~InWild
        BY <4>1 DEF WalkInv, WorkFits
      <4>3. At(f)' = At(f)
        BY <1>2, <1>4, <1>9, <2>1, <4>1, <4>2 DEF At
      <4> QED
        BY <2>1, <3>1, <3>3, <4>3
    <3> QED
      BY <3>2, <3>3
  <2> QED
    BY <2>2, <2>3
<1> QED
  BY <1>5, <1>6, <1>7, <1>10, <1>11 DEF WalkInv
--------------------------------------------------------------------------------
(***************************************************************************)
(* A flush begins, and a group.                                            *)
(***************************************************************************)
LEMMA BeginFlushKeeps == ASSUME Inv, BeginFlush PROVE Inv'
<1>1. PICK groups \in Groups(touched) : flush' = [Idle EXCEPT !.phase = "between", !.groups = groups, !.took = touched]
  BY DEF BeginFlush
<1>2. touched \in SUBSET Files /\ IsFiniteSet(touched)
  BY DEF Inv, Types
<1>3. groups \in Seq(GroupTypes)
  BY <1>1, <1>2, GroupsOf
<1>4. \A i \in DOMAIN groups :
          IF groups[i].wild THEN groups[i].steps = Wild /\ groups[i].files = touched
          ELSE groups[i].files = {f \in touched : Own[f] = groups[i].steps}
  BY <1>1, <1>2, GroupsOf
<1>5. \A i, j \in DOMAIN groups :
          i < j => ~groups[j].wild /\ (~groups[i].wild => groups[i].steps # groups[j].steps)
  BY <1>1, <1>2, GroupsOf
<1>6. \A f \in touched : Own[f] = <<>> \/ \E i \in DOMAIN groups : ~groups[i].wild /\ f \in groups[i].files
  BY <1>1, <1>2, GroupsOf
<1>7. Wild # <<>> /\ touched # {} => \E i \in DOMAIN groups : groups[i].wild
  BY <1>1, <1>2, GroupsOf
<1>8. /\ flush'.phase = "between" /\ flush'.groups = groups /\ flush'.wild = FALSE /\ flush'.steps = <<>>
      /\ flush'.inputs = {} /\ flush'.working = {} /\ flush'.handled = {} /\ flush'.took = touched
      /\ flush'.formatted = {} /\ flush'.saw = [f \in Files |-> {}] /\ flush'.claimedAt = [f \in Files |-> 0]
  BY <1>1 DEF Idle
<1>9. Types'
  <2>1. flush' \in FlushTypes
    <3>1. flush' = [phase |-> "between", groups |-> groups, wild |-> FALSE, steps |-> <<>>, inputs |-> {}, working |-> {},
                    handled |-> {}, ran |-> FALSE, changing |-> {}, formatted |-> {}, told |-> <<>>,
                    took |-> touched, saw |-> [f \in Files |-> {}], claimedAt |-> [f \in Files |-> 0]]
      BY <1>1 DEF Idle
    <3>2. <<>> \in Seq(Steps) /\ [f \in Files |-> {}] \in [Files -> SUBSET Nat] /\ [f \in Files |-> 0] \in [Files -> Nat]
      OBVIOUS
    <3> HIDE DEF GroupTypes
    <3> QED
      BY <1>2, <1>3, <3>1, <3>2 DEF FlushTypes
  <2> QED
    BY <2>1, FS_EmptySet DEF Types, BeginFlush
<1>10. TellInv'
  BY <1>8 DEF TellInv, BeginFlush, Inv
<1>11. GroupsFit'
  BY <1>4, <1>5, <1>8 DEF GroupsFit, Coming
<1>12. WorkFits'
  BY <1>8 DEF WorkFits, InWild
<1>13. NothingSkipped'
  BY <1>6, <1>8 DEF NothingSkipped, Ahead, Coming
<1>14. ClaimsFit'
  BY <1>2, <1>8 DEF ClaimsFit
<1>15. Walked'
  <2> SUFFICES ASSUME NEW f \in touched
               PROVE  flush'.saw[f] = 1 .. IF flush'.claimedAt[f] > 0 THEN flush'.claimedAt[f] ELSE At(f)'
    BY <1>8 DEF Walked
  <2>1. f \in Files /\ ~InWild' /\ f \notin flush'.inputs
    BY <1>2, <1>8 DEF InWild
  <2>2. At(f)' = 0
    <3>1. CASE WildAhead'
      BY <3>1 DEF At
    <3>2. CASE ~WildAhead'
      <4>1. Wild = <<>>
        BY <1>7, <1>8, <3>2 DEF WildAhead, Coming
      <4>2. Len(Wild) = 0 /\ Len(Wild) + Len(Own[f]) = Len(Own[f])
        BY <2>1, <4>1, LengthOfWay
      <4>3. ~Ahead(f)' => Len(Own[f]) = 0
        BY <1>6, <1>8, <2>1, LengthOfWay DEF Ahead, Coming
      <4> QED
        BY <2>1, <3>2, <4>2, <4>3 DEF At
    <3> QED
      BY <3>1, <3>2
  <2>3. flush'.saw[f] = {} /\ ~(flush'.claimedAt[f] > 0)
    BY <1>8, <2>1
  <2>4. {} = 1 .. 0
    OBVIOUS
  <2> QED
    BY <2>2, <2>3, <2>4
<1> QED
  BY <1>9, <1>10, <1>11, <1>12, <1>13, <1>14, <1>15 DEF Inv, WalkInv

(* What the first group is, and what is left when it is taken. *)
LEMMA FirstGroup ==
    ASSUME Types, WalkInv, flush.groups # <<>>, flush'.groups = Tail(flush.groups), flush'.took = flush.took
    PROVE  LET group == Head(flush.groups)
           IN  /\ group \in GroupTypes /\ Tail(flush.groups) \in Seq(GroupTypes)
               /\ GroupsFit' /\ ~WildAhead' /\ (WildAhead <=> group.wild)
               /\ IF group.wild THEN group.steps = Wild /\ group.files = flush.took
                  ELSE group.files = {f \in flush.took : Own[f] = group.steps}
               /\ \A f : Ahead(f) <=> Ahead(f)' \/ (~group.wild /\ f \in group.files)
               /\ ~group.wild => \A f \in group.files : ~Ahead(f)'
<1> DEFINE groups == flush.groups
           group == Head(flush.groups)
<1>1. groups \in Seq(GroupTypes)
  BY DEF Types, FlushTypes
<1>2. /\ group \in GroupTypes /\ group = groups[1] /\ 1 \in DOMAIN groups
      /\ Tail(groups) \in Seq(GroupTypes)
      /\ \A i \in DOMAIN Tail(groups) : i \in Nat /\ i + 1 \in DOMAIN groups /\ 1 < i + 1 /\ Tail(groups)[i] = groups[i + 1]
      /\ \A i \in DOMAIN groups : i = 1 \/ (i - 1 \in DOMAIN Tail(groups) /\ Tail(groups)[i - 1] = groups[i])
  BY <1>1, AfterHead
<1>3. \A i \in DOMAIN groups :
          IF groups[i].wild THEN groups[i].steps = Wild /\ groups[i].files = flush.took
          ELSE groups[i].files = {f \in flush.took : Own[f] = groups[i].steps}
  BY DEF WalkInv, GroupsFit, Coming
<1>4. \A i, j \in DOMAIN groups :
          i < j => ~groups[j].wild /\ (~groups[i].wild => groups[i].steps # groups[j].steps)
  BY DEF WalkInv, GroupsFit
<1> DEFINE rest == Tail(flush.groups)
<1>5. Coming' = {rest[i] : i \in DOMAIN rest} /\ Coming = {groups[i] : i \in DOMAIN groups}
  BY DEF Coming
<1>6. \A i \in DOMAIN rest : rest[i] = groups[i + 1] /\ i + 1 \in DOMAIN groups /\ ~rest[i].wild /\ (~group.wild => group.steps # rest[i].steps)
  BY <1>2, <1>4
<1>7. \A g \in Coming' : g \in Coming /\ ~g.wild /\ (~group.wild => group.steps # g.steps)
  BY <1>5, <1>6
<1>8. ASSUME NEW g \in Coming PROVE g = group \/ g \in Coming'
  <2>1. PICK i \in DOMAIN groups : g = groups[i]
    BY <1>5
  <2>2. i # 1 => i - 1 \in DOMAIN rest /\ rest[i - 1] = g
    BY <1>2, <2>1
  <2> HIDE DEF rest
  <2> QED
    BY <1>2, <1>5, <2>1, <2>2
<1>9. group \in Coming
  BY <1>2, <1>5
<1> HIDE DEF group, rest, groups
<1>10. ~WildAhead' /\ (WildAhead <=> group.wild)
  BY <1>7, <1>8, <1>9 DEF WildAhead
<1>11. IF group.wild THEN group.steps = Wild /\ group.files = flush.took
       ELSE group.files = {f \in flush.took : Own[f] = group.steps}
  BY <1>9 DEF WalkInv, GroupsFit
<1>12. \A f : Ahead(f) <=> Ahead(f)' \/ (~group.wild /\ f \in group.files)
  BY <1>7, <1>8, <1>9 DEF Ahead
<1>13. ASSUME ~group.wild, NEW f \in group.files PROVE ~Ahead(f)'
  <2>1. Own[f] = group.steps
    BY <1>11, <1>13
  <2>2. \A g \in Coming' : ~g.wild => g.files = {h \in flush.took : Own[h] = g.steps}
    BY <1>7 DEF WalkInv, GroupsFit
  <2> QED
    BY <1>7, <1>13, <2>1, <2>2 DEF Ahead
<1>14. GroupsFit'
  <2>1. \A g \in Coming' :
            IF g.wild THEN g.steps = Wild /\ g.files = flush'.took
            ELSE g.files = {f \in flush'.took : Own[f] = g.steps}
    BY <1>7 DEF WalkInv, GroupsFit
  <2>2. ASSUME NEW i \in DOMAIN rest, NEW j \in DOMAIN rest, i < j
        PROVE  ~rest[j].wild /\ (~rest[i].wild => rest[i].steps # rest[j].steps)
    <3>1. i + 1 \in DOMAIN groups /\ j + 1 \in DOMAIN groups /\ i + 1 < j + 1
      BY <1>2, <2>2 DEF rest, groups
    <3> QED
      BY <1>4, <1>6, <3>1
  <2>3. flush'.groups = rest
    BY DEF rest
  <2> QED
    BY <2>1, <2>2, <2>3 DEF GroupsFit
<1> QED
  BY <1>2, <1>10, <1>11, <1>12, <1>13, <1>14 DEF group, groups

LEMMA BeginGroupKeeps == ASSUME Inv, BeginGroup PROVE Inv'
<1> DEFINE group == Head(flush.groups)
           inputs == Inputs(group)
<1>1. Types /\ WalkInv /\ TellInv /\ flush \in FlushTypes /\ flush.phase = "between" /\ flush.groups # <<>>
  BY DEF Inv, Types, BeginGroup
<1>2. flush' = [flush EXCEPT !.groups = Tail(flush.groups), !.phase = IF inputs = {} THEN "between" ELSE "stepping",
                             !.wild = group.wild, !.steps = group.steps, !.inputs = inputs, !.working = inputs,
                             !.ran = FALSE, !.changing = {}]
  BY <1>1 DEF BeginGroup, FlushTypes
<1>3. /\ flush'.phase = (IF inputs = {} THEN "between" ELSE "stepping") /\ flush'.groups = Tail(flush.groups)
      /\ flush'.wild = group.wild /\ flush'.steps = group.steps /\ flush'.inputs = inputs /\ flush'.working = inputs
      /\ flush'.handled = flush.handled /\ flush'.took = flush.took /\ flush'.saw = flush.saw
      /\ flush'.claimedAt = flush.claimedAt /\ flush'.formatted = flush.formatted /\ flush'.told = flush.told
  BY <1>1, <1>2 DEF FlushTypes
<1>4. /\ group \in GroupTypes /\ Tail(flush.groups) \in Seq(GroupTypes)
      /\ GroupsFit' /\ ~WildAhead' /\ (WildAhead <=> group.wild)
      /\ IF group.wild THEN group.steps = Wild /\ group.files = flush.took
         ELSE group.files = {f \in flush.took : Own[f] = group.steps}
      /\ \A f : Ahead(f) <=> Ahead(f)' \/ (~group.wild /\ f \in group.files)
      /\ ~group.wild => \A f \in group.files : ~Ahead(f)'
  BY <1>1, <1>3, FirstGroup
<1>5. inputs = IF group.wild THEN group.files ELSE group.files \ flush.handled
  BY DEF Inputs
<1>6. flush.took \subseteq Files /\ flush.handled \subseteq Files /\ flush.inputs = {} /\ ~InWild
  BY <1>1 DEF Types, FlushTypes, WalkInv, WorkFits, InWild
<1> HIDE DEF inputs
<1>7. inputs \subseteq flush.took
  BY <1>4, <1>5
<1>8. Types'
  <2>1. group.wild \in BOOLEAN /\ group.steps \in Seq(Steps)
    BY <1>4 DEF GroupTypes
  <2>2. inputs \in SUBSET Files
    BY <1>6, <1>7
  <2> HIDE DEF group, GroupTypes
  <2>3. flush' \in FlushTypes
    BY <1>1, <1>2, <1>4, <2>1, <2>2 DEF FlushTypes
  <2> QED
    BY <1>1, <2>3 DEF Types, BeginGroup
<1> HIDE DEF group
<1>9. TellInv'
  BY <1>1, <1>3 DEF TellInv, BeginGroup
<1>10. InWild' <=> group.wild /\ inputs # {}
  BY <1>3 DEF InWild
<1>11. WorkFits'
  <2>1. flush'.working \subseteq flush'.inputs /\ flush'.inputs \subseteq flush'.took
        /\ (flush'.phase # "stepping" => flush'.inputs = {})
    BY <1>3, <1>7
  <2>2. InWild' => flush'.inputs = flush'.took /\ Len(flush'.steps) <= Len(Wild)
    <3>1. Len(Wild) \in Nat
      BY ChainTypes
    <3> QED
      BY <1>3, <1>4, <1>5, <1>10, <3>1
  <2>3. ASSUME flush'.phase = "stepping" /\ ~flush'.wild, NEW f \in flush'.inputs
        PROVE  ~Ahead(f)' /\ f \notin flush'.handled /\ Len(flush'.steps) <= Len(Own[f])
    <3>1. f \in group.files /\ f \notin flush.handled /\ ~Ahead(f)' /\ group.steps = Own[f] /\ f \in Files
      BY <1>3, <1>4, <1>5, <1>6, <2>3
    <3>2. Len(Own[f]) \in Nat
      BY <3>1, LengthOfWay
    <3> QED
      BY <1>3, <3>1, <3>2
  <2> QED
    BY <2>1, <2>2, <2>3 DEF WorkFits
<1>12. NothingSkipped'
  BY <1>1, <1>3, <1>4, <1>10 DEF WalkInv, NothingSkipped
<1>13. ClaimsFit'
  <2>1. \A f \in flush'.handled : flush'.claimedAt[f] > 0
    BY <1>1, <1>3 DEF WalkInv, ClaimsFit
  <2>2. \A f \in flush'.inputs : flush'.claimedAt[f] = 0
    BY <1>1, <1>3, <1>4, <1>5, <1>6, <1>7 DEF WalkInv, ClaimsFit
  <2>3. \A f \in flush'.took : Ahead(f)' /\ f \notin flush'.handled /\ ~InWild' => flush'.claimedAt[f] = 0
    BY <1>1, <1>3, <1>4, <1>6 DEF WalkInv, ClaimsFit
  <2> QED
    BY <1>3, <1>4, <2>1, <2>2, <2>3 DEF ClaimsFit
<1>14. Walked'
  <2> SUFFICES ASSUME NEW f \in flush.took
               PROVE  flush.saw[f] = 1 .. IF flush.claimedAt[f] > 0 THEN flush.claimedAt[f] ELSE At(f)'
    BY <1>3 DEF Walked
  <2>1. flush.saw[f] = 1 .. IF flush.claimedAt[f] > 0 THEN flush.claimedAt[f] ELSE At(f)
    BY <1>1 DEF WalkInv, Walked
  <2>2. flush.claimedAt[f] > 0 \/ At(f)' = At(f)
    <3>1. f \in Files /\ f \notin flush.inputs
      BY <1>6
    <3>2. Len(Wild) \in Nat /\ Len(Own[f]) \in Nat
      BY <3>1, LengthOfWay
    <3>3. CASE group.wild
      <4>1. At(f) = 0
        BY <1>4, <3>3 DEF At
      <4>2. InWild' /\ Len(flush'.steps) = Len(Wild)
        BY <1>3, <1>4, <1>5, <1>10, <3>3
      <4>3. At(f)' = Len(Wild) - Len(Wild)
        BY <1>4, <4>2 DEF At
      <4> QED
        BY <3>2, <4>1, <4>3
    <3>4. CASE ~group.wild
      <4>1. ~WildAhead /\ ~InWild' /\ At(f) = IF Ahead(f) THEN Len(Wild) ELSE Len(Wild) + Len(Own[f])
        BY <1>4, <1>6, <1>10, <3>1, <3>4 DEF At
      <4>2. CASE f \in inputs
        <5>1. Ahead(f) /\ Len(flush'.steps) = Len(Own[f])
          BY <1>3, <1>4, <1>5, <3>4, <4>2
        <5>2. At(f)' = (Len(Wild) + Len(Own[f])) - Len(Own[f])
          BY <1>3, <1>4, <4>1, <4>2, <5>1 DEF At
        <5> QED
          BY <3>2, <4>1, <5>1, <5>2
      <4>3. CASE f \in group.files /\ f \notin inputs
        BY <1>1, <1>5, <3>4, <4>3 DEF WalkInv, ClaimsFit
      <4>4. CASE f \notin group.files
        <5>1. f \notin inputs /\ (Ahead(f)' <=> Ahead(f))
          BY <1>4, <1>5, <3>4, <4>4
        <5> QED
          BY <1>3, <1>4, <4>1, <5>1 DEF At
      <4> QED
        BY <4>2, <4>3, <4>4
    <3> QED
      BY <3>3, <3>4
  <2> QED
    BY <2>1, <2>2
<1> QED
  BY <1>4, <1>8, <1>9, <1>11, <1>12, <1>13, <1>14 DEF Inv, WalkInv
--------------------------------------------------------------------------------
(***************************************************************************)
(* A group ends, and a flush.                                              *)
(***************************************************************************)
(* A list of the members of a set of files. *)
LEMMA OrderOf ==
    ASSUME NEW S \in SUBSET Files, NEW order \in Orders(S)
    PROVE  order \in Seq(Files) /\ Listed(order) = S
<1>1. Cardinality(S) \in Nat
  BY FilesAssumption, FS_Subset, FS_CardinalityType
<1> QED
  BY <1>1 DEF Orders, Listed

LEMMA Joined ==
    ASSUME NEW front \in Seq(Files), NEW back \in Seq(Files)
    PROVE  front \o back \in Seq(Files) /\ Listed(front \o back) = Listed(front) \cup Listed(back)
<1> DEFINE both == front \o back
           m == Len(front)
           n == Len(back)
<1>1. /\ both \in Seq(Files) /\ DOMAIN both = 1 .. m + n /\ m \in Nat /\ n \in Nat
      /\ DOMAIN front = 1 .. m /\ DOMAIN back = 1 .. n
      /\ \A i \in 1 .. m + n : both[i] = IF i <= m THEN front[i] ELSE back[i - m]
  OBVIOUS
<1> HIDE DEF both, m, n
<1>2. ASSUME NEW i \in DOMAIN both PROVE both[i] \in Listed(front) \cup Listed(back)
  <2>1. CASE i <= m
    <3>1. i \in DOMAIN front /\ both[i] = front[i]
      BY <1>1, <2>1
    <3> QED
      BY <3>1 DEF Listed
  <2>2. CASE ~(i <= m)
    <3>1. i - m \in DOMAIN back /\ both[i] = back[i - m]
      BY <1>1, <2>2
    <3> QED
      BY <3>1 DEF Listed
  <2> QED
    BY <2>1, <2>2
<1>3. ASSUME NEW i \in DOMAIN front PROVE front[i] \in Listed(both)
  <2>1. i \in DOMAIN both /\ both[i] = front[i]
    BY <1>1
  <2> QED
    BY <2>1 DEF Listed
<1>4. ASSUME NEW i \in DOMAIN back PROVE back[i] \in Listed(both)
  <2>1. i + m \in DOMAIN both /\ both[i + m] = back[i]
    BY <1>1
  <2> QED
    BY <2>1 DEF Listed
<1>5. Listed(both) = Listed(front) \cup Listed(back)
  BY <1>2, <1>3, <1>4 DEF Listed
<1> QED
  BY <1>1, <1>5 DEF both

(* A message accounts for all that is on its list, wherever it is cut. *)
LEMMA Accounted ==
    ASSUME NEW list \in Seq(Files), NEW formatted \in SUBSET Listed(list)
    PROVE  Unaccounted(formatted, list) = {}
<1> DEFINE beyond == {j \in DOMAIN list : j > MaxShown}
           hidden == {list[j] : j \in beyond}
           unnamed == formatted \ Shown(list)
           entry == [j \in beyond |-> list[j]]
<1>1. \A j \in DOMAIN list : j <= MaxShown \/ j > MaxShown
  BY MessageAssumption
<1>2. unnamed \in SUBSET hidden
  <2> SUFFICES ASSUME NEW f \in unnamed PROVE f \in hidden
    OBVIOUS
  <2>1. PICK i \in DOMAIN list : f = list[i]
    BY DEF Listed
  <2>2. ~(i <= MaxShown)
    BY <2>1 DEF Shown
  <2> QED
    BY <1>1, <2>1, <2>2
<1>3. IsFiniteSet(beyond)
  <2>1. Len(list) \in Nat /\ DOMAIN list = 1 .. Len(list)
    OBVIOUS
  <2>2. IsFiniteSet(1 .. Len(list))
    BY <2>1, FS_Interval
  <2>3. beyond \in SUBSET (1 .. Len(list))
    BY <2>1
  <2> QED
    BY <2>2, <2>3, FS_Subset
<1>4. entry \in Surjection(beyond, hidden)
  BY DEF Surjection
<1> HIDE DEF beyond, hidden, entry
<1>5. IsFiniteSet(hidden) /\ Cardinality(hidden) <= Cardinality(beyond)
  BY <1>3, <1>4, FS_Surjection
<1> HIDE DEF unnamed
<1>6. IsFiniteSet(unnamed) /\ Cardinality(unnamed) <= Cardinality(hidden)
  BY <1>2, <1>5, FS_Subset
<1>7. Cardinality(unnamed) \in Nat /\ Cardinality(hidden) \in Nat /\ Cardinality(beyond) \in Nat
  BY <1>3, <1>5, <1>6, FS_CardinalityType
<1>8. Cardinality(unnamed) <= Cardinality(beyond)
  BY <1>5, <1>6, <1>7
<1> QED
  BY <1>8 DEF Unaccounted, More, beyond, unnamed

LEMMA EndGroupKeeps == ASSUME Inv, EndGroup PROVE Inv'
<1>1. /\ Types /\ WalkInv /\ TellInv /\ flush \in FlushTypes
      /\ flush.phase = "stepping" /\ (flush.steps = <<>> \/ flush.working = {})
  BY DEF Inv, Types, EndGroup
<1>0. PICK changedFiles \in Orders(flush.changing) :
          flush' = [flush EXCEPT !.phase = "between", !.inputs = {}, !.working = {},
                                 !.handled = IF flush.wild THEN flush.inputs \ flush.working ELSE @,
                                 !.told = IF flush.ran THEN @ \o changedFiles ELSE @]
  BY DEF EndGroup, Reported
<1> DEFINE handled == IF flush.wild THEN flush.inputs \ flush.working ELSE flush.handled
           told == IF flush.ran THEN flush.told \o changedFiles ELSE flush.told
<1>2. flush' = [flush EXCEPT !.phase = "between", !.inputs = {}, !.working = {}, !.handled = handled, !.told = told]
  BY <1>0, <1>1 DEF FlushTypes
<1>3. /\ flush'.phase = "between" /\ flush'.groups = flush.groups /\ flush'.inputs = {} /\ flush'.working = {}
      /\ flush'.handled = handled /\ flush'.told = told /\ flush'.took = flush.took /\ flush'.saw = flush.saw
      /\ flush'.claimedAt = flush.claimedAt /\ flush'.formatted = flush.formatted
  BY <1>1, <1>2 DEF FlushTypes
<1>4. /\ handled \in SUBSET Files /\ told \in Seq(Files)
      /\ Listed(told) = Listed(flush.told) \cup IF flush.ran THEN flush.changing ELSE {}
  <2>1. flush.changing \in SUBSET Files /\ flush.told \in Seq(Files)
    BY <1>1 DEF FlushTypes
  <2>2. changedFiles \in Seq(Files) /\ Listed(changedFiles) = flush.changing
    BY <2>1, OrderOf
  <2>3. CASE flush.ran
    <3>1. told = flush.told \o changedFiles
      BY <2>3
    <3>2. told \in Seq(Files) /\ Listed(told) = Listed(flush.told) \cup flush.changing
      BY <2>1, <2>2, <3>1, Joined
    <3> QED
      BY <1>1, <2>3, <3>2 DEF FlushTypes
  <2>4. CASE ~flush.ran
    BY <1>1, <2>1, <2>4 DEF FlushTypes
  <2> QED
    BY <2>3, <2>4
<1>5. Types'
  <2> HIDE DEF handled, told, GroupTypes
  <2>1. flush' \in FlushTypes
    BY <1>1, <1>2, <1>4 DEF FlushTypes
  <2> QED
    BY <1>1, <2>1 DEF Types, EndGroup
<1>6. TellInv'
  <2> HIDE DEF handled, told
  <2>1. untold' = {} /\ flush'.phase # "stepping"
    BY <1>1, <1>3 DEF TellInv, EndGroup
  <2>2. flush.formatted \subseteq Listed(told)
    BY <1>1, <1>4 DEF TellInv
  <2>3. flush'.formatted \subseteq Listed(flush'.told)
    BY <1>3, <2>2
  <2> QED
    BY <2>1, <2>3 DEF TellInv
<1>7. /\ Coming' = Coming /\ (WildAhead' <=> WildAhead) /\ ~InWild' /\ ~WildAhead
      /\ \A f : Ahead(f)' <=> Ahead(f)
  BY <1>1, <1>3 DEF Coming, WildAhead, InWild, Ahead, WalkInv, ClaimsFit
<1>8. GroupsFit'
  BY <1>1, <1>3, <1>7 DEF WalkInv, GroupsFit
<1>9. WorkFits'
  BY <1>3, <1>7 DEF WorkFits
<1>10. NothingSkipped'
  BY <1>7 DEF NothingSkipped
<1>11. flush.working \subseteq flush.inputs /\ flush.inputs \subseteq flush.took /\ flush.took \subseteq Files
       /\ (flush.wild => InWild /\ flush.inputs = flush.took)
  BY <1>1 DEF WalkInv, WorkFits, FlushTypes, InWild
<1>12. \A f \in Files : flush.claimedAt[f] \in Nat
  BY <1>1 DEF FlushTypes
<1>13. ClaimsFit'
  <2>1. \A f \in handled : flush.claimedAt[f] > 0
    BY <1>1, <1>11, <1>12 DEF WalkInv, ClaimsFit
  <2>2. \A f \in flush.took : Ahead(f) /\ f \notin handled => flush.claimedAt[f] = 0
    <3>1. CASE flush.wild
      BY <1>1, <1>11, <3>1 DEF WalkInv, ClaimsFit
    <3>2. CASE ~flush.wild
      BY <1>1, <3>2 DEF WalkInv, ClaimsFit, InWild
    <3> QED
      BY <3>1, <3>2
  <2> HIDE DEF handled
  <2> QED
    BY <1>3, <1>7, <2>1, <2>2 DEF ClaimsFit
<1>14. Walked'
  <2> SUFFICES ASSUME NEW f \in flush.took
               PROVE  flush.saw[f] = 1 .. IF flush.claimedAt[f] > 0 THEN flush.claimedAt[f] ELSE At(f)'
    BY <1>3 DEF Walked
  <2>1. flush.saw[f] = 1 .. IF flush.claimedAt[f] > 0 THEN flush.claimedAt[f] ELSE At(f)
    BY <1>1 DEF WalkInv, Walked
  <2>2. flush.claimedAt[f] > 0 \/ At(f)' = At(f)
    <3>1. f \in Files /\ Len(Wild) \in Nat /\ Len(Own[f]) \in Nat /\ (Len(Own[f]) = 0 <=> Own[f] = <<>>)
      BY <1>11, LengthOfWay
    <3>2. At(f)' = IF Ahead(f) THEN Len(Wild) ELSE Len(Wild) + Len(Own[f])
      BY <1>3, <1>7 DEF At
    <3>3. CASE f \in flush.inputs
      <4>1. flush.claimedAt[f] > 0 \/ Len(flush.steps) = 0
        BY <1>1, <1>12, <3>1, <3>3 DEF WalkInv, ClaimsFit
      <4>2. CASE Len(flush.steps) = 0 /\ flush.wild
        <5>1. At(f) = Len(Wild) - 0
          BY <1>7, <1>11, <4>2 DEF At
        <5>2. Ahead(f) \/ Len(Own[f]) = 0
          BY <1>1, <1>11, <3>1, <4>2 DEF WalkInv, NothingSkipped
        <5>3. Len(Wild) - 0 = Len(Wild) /\ Len(Wild) + 0 = Len(Wild)
          BY <3>1
        <5> QED
          BY <3>2, <5>1, <5>2, <5>3, Zenon
      <4>3. CASE Len(flush.steps) = 0 /\ ~flush.wild
        <5>1. ~Ahead(f) /\ At(f) = (Len(Wild) + Len(Own[f])) - 0
          BY <1>1, <1>7, <3>3, <4>3 DEF At, WalkInv, WorkFits, InWild
        <5>2. (Len(Wild) + Len(Own[f])) - 0 = Len(Wild) + Len(Own[f])
          BY <3>1
        <5> QED
          BY <3>2, <5>1, <5>2
      <4> QED
        BY <4>1, <4>2, <4>3
    <3>4. CASE f \notin flush.inputs
      <4>1. ~InWild
        BY <1>11, <3>4 DEF InWild
      <4> QED
        BY <1>7, <3>2, <3>4, <4>1 DEF At
    <3> QED
      BY <3>3, <3>4
  <2> QED
    BY <2>1, <2>2
<1> QED
  BY <1>5, <1>6, <1>8, <1>9, <1>10, <1>13, <1>14 DEF Inv, WalkInv

(* When no group is left, every file has come to the end of its way. *)
LEMMA AllThrough ==
    ASSUME Inv PROVE WalksItsChain
<1> SUFFICES ASSUME flush.phase = "between" /\ flush.groups = <<>>, NEW f \in flush.took
             PROVE  flush.saw[f] = 1 .. IF flush.claimedAt[f] > 0 THEN flush.claimedAt[f] ELSE Len(Way(f))
  BY DEF WalksItsChain
<1>1. Coming = {}
  BY DEF Coming
<1>2. ~WildAhead /\ ~Ahead(f) /\ ~InWild
  BY <1>1 DEF WildAhead, Ahead, InWild
<1>3. f \in Files /\ f \notin flush.inputs
  BY DEF Inv, Types, FlushTypes, WalkInv, WorkFits
<1>4. At(f) = Len(Way(f))
  BY <1>2, <1>3, LengthOfWay DEF At
<1> QED
  BY <1>4 DEF Inv, WalkInv, Walked

LEMMA EndFlushKeeps == ASSUME Inv, EndFlush PROVE Inv'
<1>1. flush' = Idle /\ flush.phase = "between" /\ flush.formatted \subseteq Listed(flush.told) /\ untold = {}
  BY DEF EndFlush, Inv, TellInv
<1>2. untold' = {} /\ touched' = touched
  <2>1. flush.told \in Seq(Files)
    BY DEF Inv, Types, FlushTypes
  <2>2. Unaccounted(flush.formatted, flush.told) = {}
    BY <1>1, <2>1, Accounted
  <2> QED
    BY <1>1, <2>2 DEF EndFlush
<1>3. Types'
  BY <1>1, <1>2 DEF Idle, Types, FlushTypes, Inv
<1>4. TellInv'
  BY <1>1, <1>2 DEF Idle, TellInv
<1>5. WalkInv'
  BY <1>1 DEF Idle, WalkInv, GroupsFit, WorkFits, NothingSkipped, ClaimsFit, Walked, WildAhead, InWild, Ahead, Coming
<1> QED
  BY <1>3, <1>4, <1>5 DEF Inv
--------------------------------------------------------------------------------
(***************************************************************************)
(* The steps of a chain, and the theorems.                                 *)
(***************************************************************************)
LEMMA SteppedKeeps ==
    ASSUME Inv, Stepping, NEW unhandled \in SUBSET flush.working, flush' = Stepped(unhandled), UNCHANGED <<touched, untold>>
    PROVE  Inv'
<1>1. /\ Stepped(unhandled) \in FlushTypes /\ SteppedTo(Stepped(unhandled), unhandled)
      /\ Stepped(unhandled).ran = flush.ran /\ Stepped(unhandled).changing = flush.changing
      /\ Stepped(unhandled).formatted = flush.formatted /\ Stepped(unhandled).told = flush.told
  BY SteppedIs DEF Inv
<1>2. flush' \in FlushTypes /\ SteppedTo(flush', unhandled)
  BY <1>1
<1>3. WalkInv'
  BY <1>2, StepForward DEF Inv
<1>4. TellInv'
  BY <1>1, <1>2 DEF Inv, TellInv, SteppedTo
<1> QED
  BY <1>2, <1>3, <1>4 DEF Inv, Types

LEMMA RanKeeps ==
    ASSUME Inv, Stepping, NEW unhandled \in SUBSET flush.working, NEW changed \in SUBSET flush.working,
           flush' = Ran(unhandled, changed), UNCHANGED <<touched, untold>>
    PROVE  Inv'
<1>1. /\ Ran(unhandled, changed) \in FlushTypes /\ SteppedTo(Ran(unhandled, changed), unhandled)
      /\ Ran(unhandled, changed).ran = TRUE /\ Ran(unhandled, changed).changing = flush.changing \cup changed
      /\ Ran(unhandled, changed).formatted = flush.formatted \cup changed
      /\ Ran(unhandled, changed).told = flush.told
  BY RanIs DEF Inv
<1>2. flush' \in FlushTypes /\ SteppedTo(flush', unhandled)
  BY <1>1
<1>3. WalkInv'
  BY <1>2, StepForward DEF Inv
<1>4. flush'.phase = "stepping"
  BY <1>2 DEF SteppedTo, Stepping
<1>5. TellInv'
  BY <1>1, <1>4 DEF Inv, TellInv
<1> QED
  BY <1>2, <1>3, <1>5 DEF Inv, Types

LEMMA StepSkippedKeeps == ASSUME Inv, StepSkipped PROVE Inv'
<1>1. flush.working \in SUBSET flush.working
  OBVIOUS
<1> QED
  BY <1>1, SteppedKeeps DEF StepSkipped

LEMMA OrdinaryRunsKeeps == ASSUME Inv, OrdinaryRuns PROVE Inv'
<1>1. flush.working \in SUBSET flush.working
  OBVIOUS
<1>2. PICK changed \in SUBSET flush.working : flush' = Ran(flush.working, changed)
  BY DEF OrdinaryRuns
<1>3. Stepping /\ UNCHANGED <<touched, untold>>
  BY DEF OrdinaryRuns
<1> QED
  BY <1>1, <1>2, <1>3, RanKeeps

LEMMA BuiltinRunsKeeps == ASSUME Inv, BuiltinRuns PROVE Inv'
<1>1. Stepping /\ UNCHANGED <<touched, untold>>
  BY DEF BuiltinRuns
<1> DEFINE builtin == Chosen(Head(flush.steps))
<1>2. PICK unhandled \in Unhandled(builtin) :
          \/ \E changed \in SUBSET (flush.working \ unhandled) : flush' = Ran(unhandled, changed)
          \/ flush' = Stepped(unhandled)
  BY DEF BuiltinRuns
<1>3. unhandled \in SUBSET flush.working
  BY <1>2 DEF Unhandled
<1>4. CASE \E changed \in SUBSET (flush.working \ unhandled) : flush' = Ran(unhandled, changed)
  <2>1. PICK changed \in SUBSET (flush.working \ unhandled) : flush' = Ran(unhandled, changed)
    BY <1>4
  <2>2. changed \in SUBSET flush.working
    OBVIOUS
  <2> QED
    BY <1>1, <1>3, <2>1, <2>2, RanKeeps
<1>5. CASE flush' = Stepped(unhandled)
  BY <1>1, <1>3, <1>5, SteppedKeeps
<1> QED
  BY <1>2, <1>4, <1>5

LEMMA TouchKeeps == ASSUME Inv, NEW f \in Files, Touch(f) PROVE Inv'
<1>1. flush \in FlushTypes /\ touched \subseteq Files /\ IsFiniteSet(touched)
  BY DEF Inv, Types
<1>2. touched' = touched \cup {f} /\ untold' = untold
  BY DEF Touch
<1>3. flush' = IF f \in flush.inputs THEN [flush EXCEPT !.changing = flush.changing \cup {f}] ELSE flush
  BY <1>1 DEF Touch, FlushTypes
<1>4. flush.changing \cup {f} \in SUBSET Files
  BY <1>1 DEF FlushTypes
<1>5. flush' \in FlushTypes
  <2> HIDE DEF GroupTypes
  <2> QED
    BY <1>1, <1>3, <1>4 DEF FlushTypes
<1>6. /\ SameWalk(flush') /\ flush'.ran = flush.ran /\ flush'.formatted = flush.formatted /\ flush'.told = flush.told
      /\ flush.changing \subseteq flush'.changing
  BY <1>1, <1>3 DEF FlushTypes, SameWalk
<1>7. IsFiniteSet(touched') /\ touched' \subseteq Files
  BY <1>1, <1>2, FS_AddElement
<1>8. WalkInv'
  BY <1>6, StandStill DEF Inv
<1>9. TellInv'
  BY <1>2, <1>6 DEF Inv, TellInv, SameWalk
<1> QED
  BY <1>5, <1>7, <1>8, <1>9 DEF Inv, Types

LEMMA NextKeeps == ASSUME Inv, [Next]_vars PROVE Inv'
<1>1. ASSUME UNCHANGED <<touched, flush, untold>> PROVE Inv'
  <2>1. SameWalk(flush')
    BY <1>1 DEF SameWalk
  <2>2. WalkInv'
    BY <2>1, StandStill DEF Inv
  <2> QED
    BY <1>1, <2>2 DEF Inv, Types, TellInv
<1>2. CASE EnsureState
  BY <1>1, <1>2 DEF EnsureState
<1>3. CASE \E f \in Files : Touch(f)
  BY <1>3, TouchKeeps
<1>4. CASE TurnEnd \/ AgentEnd \/ BeginShutdown
  BY <1>1, <1>4 DEF TurnEnd, AgentEnd, BeginShutdown, QueueFlush
<1>5. CASE EndShutdown
  <2>1. UNCHANGED <<flush, untold>> /\ touched' = {}
    BY <1>5 DEF EndShutdown
  <2>2. SameWalk(flush')
    BY <2>1 DEF SameWalk
  <2>3. WalkInv'
    BY <2>2, StandStill DEF Inv
  <2>4. Types' /\ TellInv'
    BY <2>1, FS_EmptySet DEF Inv, Types, TellInv
  <2> QED
    BY <2>3, <2>4 DEF Inv
<1>6. CASE BeginFlush
  BY <1>6, BeginFlushKeeps
<1>7. CASE BeginGroup
  BY <1>7, BeginGroupKeeps
<1>8. CASE RunStep
  BY <1>8, StepSkippedKeeps, OrdinaryRunsKeeps, BuiltinRunsKeeps DEF RunStep
<1>9. CASE EndGroup
  BY <1>9, EndGroupKeeps
<1>10. CASE EndFlush
  BY <1>10, EndFlushKeeps
<1>11. CASE UNCHANGED vars
  BY <1>1, <1>11 DEF vars
<1> QED
  BY <1>2, <1>3, <1>4, <1>5, <1>6, <1>7, <1>8, <1>9, <1>10, <1>11 DEF Next, FlushSteps

LEMMA InvHolds == Spec => []Inv
<1>1. Init => Inv
  BY InitInv
<1>2. Inv /\ [Next]_vars => Inv'
  BY NextKeeps
<1> QED
  BY <1>1, <1>2, PTL DEF Spec

(***************************************************************************)
(* At the end of a flush every file it took was given to the steps of its  *)
(* chains in one piece, up to the one that claimed it: the walk of         *)
(* flushPrompt() and runFormatterGroup(), for any files and chains.        *)
(***************************************************************************)
THEOREM EveryFileWalks == Spec => []WalksItsChain
  BY InvHolds, AllThrough, PTL

(***************************************************************************)
(* Every file that changed behind the agent's back at the end of a turn is *)
(* named in the message or among those that the message says it leaves     *)
(* out: wherever buildSteeringMessageContent() cuts its list.              *)
(***************************************************************************)
THEOREM EveryChangeTold == Spec => []ToldOfEveryChange
<1>1. Inv => ToldOfEveryChange
  BY DEF Inv, TellInv, ToldOfEveryChange
<1> QED
  BY <1>1, InvHolds, PTL
--------------------------------------------------------------------------------
(***************************************************************************)
(* Reindexer.  Unless a build was asked for while a timer was set, the     *)
(* flag, the remembered promise and the one process alive agree            *)
(* (Agreement); that a change is not forgotten needs less and holds in any *)
(* case.                                                                   *)
(***************************************************************************)
(* What the flags say of the process alive, as long as nothing raced. *)
Agreement ==
    /\ \A a, b \in running : a = b
    /\ running # {} => inFlight /\ inflightPromise \in running
    /\ inFlight => ~debounceTimer
    /\ sessionPhase = "closing" => awaited \in running
    /\ sessionPhase = "closed" => running = {}

IndexInv ==
    /\ TypeOK
    /\ NoChangeForgotten
    /\ inFlight => running # {}
    /\ queued /\ sessionPhase = "open" => inFlight
    /\ sessionPhase # "open" => ~debounceTimer
    /\ sessionPhase = "open" => awaited = NoBuild
    /\ ~raced => Agreement

(* It holds initially. *)
LEMMA InitIndexInv == IndexInit => IndexInv
  BY DEF IndexInit, IndexInv, TypeOK, NoChangeForgotten, Agreement

(* Every step keeps it. *)
LEMMA NextIndexInv == IndexInv /\ [IndexNext]_indexVars => IndexInv'
<1> SUFFICES ASSUME IndexInv, [IndexNext]_indexVars PROVE IndexInv'
  OBVIOUS
<1> USE ReindexerAssumption DEF IndexInv, TypeOK, NoChangeForgotten, Agreement, askedVars, buildVars
<1>1. CASE Schedule
  BY <1>1 DEF Schedule
<1>2. CASE Shutdown
  BY <1>2 DEF Shutdown
<1>3. ASSUME NEW b \in Builds, TimerFires(b) PROVE IndexInv'
  BY <1>3 DEF TimerFires, Begin
<1>4. ASSUME NEW b \in Builds, RunNow(b) PROVE IndexInv'
  BY <1>4 DEF RunNow, Joins, Begin
<1>5. ASSUME NEW b \in Builds, Ends(b) PROVE IndexInv'
  <2>1. CASE queued /\ sessionPhase = "open"
    BY <1>5, <2>1 DEF Ends, Begin
  <2>2. CASE ~(queued /\ sessionPhase = "open")
    BY <1>5, <2>2 DEF Ends
  <2> QED
    BY <2>1, <2>2
<1>6. CASE UNCHANGED indexVars
  BY <1>6 DEF indexVars
<1> QED
  BY <1>1, <1>2, <1>3, <1>4, <1>5, <1>6 DEF IndexNext

(* Hence it holds in every behaviour. *)
LEMMA AlwaysIndexInv == IndexSpec => []IndexInv
<1>1. IndexInit => IndexInv
  BY InitIndexInv
<1>2. IndexInv /\ [IndexNext]_indexVars => IndexInv'
  BY NextIndexInv
<1> QED
  BY <1>1, <1>2, PTL DEF IndexSpec

(***************************************************************************)
(* Every variable has its type, and runReindex() never leaves the promise  *)
(* of a process that has ended to be joined or awaited.                    *)
(***************************************************************************)
THEOREM IndexTypeCorrect == IndexSpec => []TypeOK
<1>1. IndexInv => TypeOK
  BY DEF IndexInv
<1> QED
  BY <1>1, AlwaysIndexInv, PTL

(***************************************************************************)
(* No order of edits, commands and ends of processes makes schedule() and  *)
(* the draining in runReindex() forget a change.                           *)
(***************************************************************************)
THEOREM ChangesAreKept == IndexSpec => []NoChangeForgotten
<1>1. IndexInv => NoChangeForgotten
  BY DEF IndexInv
<1> QED
  BY <1>1, AlwaysIndexInv, PTL

(***************************************************************************)
(* The only way to two processes at a time is runNow() while a timer is    *)
(* set: startRun() and schedule() exclude every other.                     *)
(***************************************************************************)
THEOREM BuildsAreSerial == IndexSpec => []SerialUnlessRaced
<1>1. IndexInv => SerialUnlessRaced
  <2> SUFFICES ASSUME IndexInv, ~raced PROVE Cardinality(running) <= 1
    BY DEF SerialUnlessRaced
  <2>1. CASE running = {}
    BY <2>1, FS_EmptySet
  <2>2. CASE running # {}
    <3>1. PICK b \in running : running = {b}
      BY <2>2 DEF IndexInv, Agreement
    <3> QED
      BY <3>1, FS_Singleton
  <2> QED
    BY <2>1, <2>2
<1> QED
  BY <1>1, AlwaysIndexInv, PTL

(***************************************************************************)
(* shutdown() returns only when no process is left, but for that race.     *)
(***************************************************************************)
THEOREM ShutdownWaits == IndexSpec => []ShutdownIsQuiet
<1>1. IndexInv => ShutdownIsQuiet
  BY DEF IndexInv, Agreement, ShutdownIsQuiet
<1> QED
  BY <1>1, AlwaysIndexInv, PTL
================================================================================
