------------------------- MODULE PolicySurfaceProofs -------------------------
(***************************************************************************)
(* Safety of PolicySurface, for any texts, any tools and any number of     *)
(* edits.                                                                  *)
(*                                                                         *)
(* An answer may come through two caches, each under stamps that were      *)
(* taken before the file was read.  What makes that right is in IInv: no   *)
(* stamp is used twice, so that an entry under the stamp a file has now    *)
(* can only hold what the file says now (Holds), whenever it was put       *)
(* there; and what was right when the stamp was compared is remembered as  *)
(* seen since the question was asked (Known).                              *)
(***************************************************************************)
EXTENDS PolicySurface, SequenceTheorems, WellFoundedInduction, TLAPS

OnDisk == Texts \cup {"absent"}
Readable == OnDisk \cup {"unreadable"}

Queries ==
    [step : {"stamp", "stat", "exists", "read", "answered"}, key : Keys, todo : SUBSET Scopes,
     stamps : [Scopes -> Nat], at : Nat, texts : [Scopes -> Readable]]

Policies == [stamp : [Scopes -> Nat], texts : [Scopes -> Readable]]

Types ==
    /\ disk \in [Scopes -> OnDisk] /\ stamp \in [Scopes -> Nat] /\ edits \in Nat
    /\ trusted \in BOOLEAN /\ hasProject \in BOOLEAN /\ knownAgent \in Keys
    /\ fileCache \in [Scopes -> {NoText} \cup [stamp : Nat, text : Readable]]
    /\ resolved \in [Keys -> {NoPolicy} \cup Policies]
    /\ query \in {NoQuery} \cup Queries
    /\ seen \in [Scopes -> SUBSET OnDisk] /\ phantom \subseteq Scopes

(* No two contents of a file have the same stamp. *)
Stamped == \A s \in Scopes : stamp[s] <= edits /\ (stamp[s] = Missing <=> disk[s] = "absent")

(* What was cached for s under a stamp is right as long as s has it. *)
Holds(s, at, text) ==
    /\ at <= edits
    /\ at = stamp[s] /\ at # Missing => text = disk[s]
    /\ at = Missing => text = "absent" \/ s \in phantom

FilesHold == \A s \in Scopes : fileCache[s] # NoText => Holds(s, fileCache[s].stamp, fileCache[s].text)

PoliciesHold ==
    \A k \in Keys : resolved[k] # NoPolicy =>
        /\ \A s \in Consulted(k) : Holds(s, resolved[k].stamp[s], resolved[k].texts[s])
        /\ \A s \in Scopes \ Consulted(k) : resolved[k].texts[s] = "absent"

(* The text may be answered with, by AnswersFromCurrentTexts. *)
Known(s, text) ==
    \/ s \in phantom
    \/ text \in seen[s]
    \/ text = "unreadable" /\ "absent" \in seen[s]

(* The scopes the query is through with, in the pass it is in. *)
Passed == Consulted(query.key) \ query.todo

(* The stamp the query took is the one the resolved policy is under. *)
MayHit(s) == resolved[query.key] # NoPolicy /\ resolved[query.key].stamp[s] = query.stamps[s]

QueryFits ==
    query # NoQuery =>
        /\ \A s \in Scopes : disk[s] \in seen[s] /\ query.stamps[s] <= edits
        /\ query.at <= edits
        /\ query.todo \subseteq Consulted(query.key)
        /\ (query.step = "answered" <=> query.todo = {})
        /\ \A s \in Scopes \ Consulted(query.key) : query.texts[s] = "absent"
        /\ query.step = "stamp" =>
              /\ \A s \in Passed : MayHit(s) => Known(s, resolved[query.key].texts[s])
              /\ \A s \in Scopes \ Passed : query.stamps[s] = Missing
              /\ \A s \in Scopes : query.texts[s] = "absent"
        /\ query.step # "stamp" => \A s \in Passed : Known(s, query.texts[s])
        /\ query.step \in {"stat", "exists", "read"} =>
              \A s \in Passed : Holds(s, query.stamps[s], query.texts[s])

CacheInv == Types /\ Stamped /\ FilesHold /\ PoliciesHold /\ QueryFits

-----------------------------------------------------------------------------
(***************************************************************************)
(* The scopes and the orders they are visited in.                          *)
(***************************************************************************)
(* There are four scopes, and both orders go through all of them. *)
LEMMA ScopesAre ==
    /\ Scopes = {"global", "project", "agent", "project-agent"}
    /\ Range(StampOrder) = Scopes /\ Range(LoadOrder) = Scopes
  <1>1. Range(LoadOrder) = {"global", "project", "agent", "project-agent"}
    BY DEF Range, LoadOrder
  <1>2. Range(StampOrder) = {"global", "project", "agent", "project-agent"}
    BY DEF Range, StampOrder
  <1> QED
    BY <1>1, <1>2 DEF Scopes

(* The scopes looked at for a key, with their own global one among them. *)
LEMMA ConsultedAre ==
    ASSUME NEW key PROVE Consulted(key) \subseteq Scopes /\ "global" \in Consulted(key)
  BY ScopesAre DEF Consulted

(* What is next is one of those that are left. *)
LEMMA NextIsLeft ==
    ASSUME NEW order \in {LoadOrder, StampOrder}, NEW todo \in SUBSET Scopes, todo # {}
    PROVE  NextIn(order, todo) \in todo
  <1> DEFINE First(i) == order[i] \in todo /\ \A j \in DOMAIN order : order[j] \in todo => i <= j
  <1>1. DOMAIN order = 1 .. 4 /\ (\A s \in Scopes : \E i \in 1 .. 4 : order[i] = s)
    BY ScopesAre DEF LoadOrder, StampOrder
  <1>2. PICK i \in 1 .. 4 : order[i] \in todo
    BY <1>1
  <1>3. \E j \in 1 .. 4 : First(j)
    BY <1>1, <1>2
  <1> QED
    BY <1>1, <1>3 DEF NextIn

-----------------------------------------------------------------------------
(***************************************************************************)
(* The caches and the queries: CacheInv is an invariant.                   *)
(***************************************************************************)
LEMMA CacheInit == Init => CacheInv
  <1> SUFFICES ASSUME Init PROVE CacheInv
    OBVIOUS
  <1> USE TextsAssumption DEF Init, OnDisk, Missing
  <1>1. Types
    BY DEF Types, NoTexts, NoPolicies, Keys
  <1>2. Stamped
    BY DEF Stamped
  <1>3. FilesHold
    BY DEF FilesHold, NoTexts
  <1>4. PoliciesHold
    BY DEF PoliciesHold, NoPolicies
  <1>5. QueryFits
    BY DEF QueryFits
  <1> QED
    BY <1>1, <1>2, <1>3, <1>4, <1>5 DEF CacheInv

(* A new stamp was never given before, so that no entry becomes wrong. *)
LEMMA EditKeepsHolds ==
    ASSUME CacheInv, NEW s \in Editable, Edit(s), NEW r \in Scopes, NEW at \in Nat, NEW text, Holds(r, at, text)
    PROVE  Holds(r, at, text)'
  <1>1. /\ s \in Scopes /\ edits \in Nat /\ edits' = edits + 1 /\ phantom' = phantom
        /\ disk \in [Scopes -> OnDisk] /\ stamp \in [Scopes -> Nat]
    BY TextsAssumption DEF CacheInv, Types, Edit, cacheVars
  <1>2. PICK new \in OnDisk :
            /\ disk' = [disk EXCEPT ![s] = new]
            /\ stamp' = [stamp EXCEPT ![s] = IF new = "absent" THEN Missing ELSE edits + 1]
    BY DEF Edit, OnDisk
  <1> QED
    BY <1>1, <1>2 DEF Holds, Missing

LEMMA EditKeepsCaches ==
    ASSUME CacheInv, NEW s \in Editable, Edit(s)
    PROVE  CacheInv'
  <1>1. /\ s \in Scopes /\ edits \in Nat /\ edits' = edits + 1
        /\ disk \in [Scopes -> OnDisk] /\ stamp \in [Scopes -> Nat]
        /\ UNCHANGED <<hasProject, fileCache, resolved, phantom, query>>
    BY TextsAssumption DEF CacheInv, Types, Edit, cacheVars
  <1>2. PICK new \in OnDisk :
            /\ disk' = [disk EXCEPT ![s] = new]
            /\ stamp' = [stamp EXCEPT ![s] = IF new = "absent" THEN Missing ELSE edits + 1]
            /\ seen' = [seen EXCEPT ![s] = IF query.step = "none" THEN @ ELSE @ \cup {new}]
    BY DEF Edit, OnDisk
  <1>3. Types'
    <2>1. disk' \in [Scopes -> OnDisk] /\ stamp' \in [Scopes -> Nat] /\ edits' \in Nat
      BY <1>1, <1>2 DEF Missing
    <2>2. seen' \in [Scopes -> SUBSET OnDisk]
      BY <1>1, <1>2 DEF CacheInv, Types
    <2> QED
      BY <1>1, <2>1, <2>2 DEF CacheInv, Types, Edit, cacheVars, toolVars, turnVars
  <1>4. Stamped'
    BY <1>1, <1>2 DEF CacheInv, Stamped, Missing
  <1>5. FilesHold'
    <2> SUFFICES ASSUME NEW r \in Scopes, fileCache[r] # NoText
                 PROVE  Holds(r, fileCache[r].stamp, fileCache[r].text)'
      BY <1>1 DEF FilesHold
    <2>1. fileCache[r].stamp \in Nat
      BY DEF CacheInv, Types
    <2>2. Holds(r, fileCache[r].stamp, fileCache[r].text)
      BY DEF CacheInv, FilesHold
    <2> QED
      BY <1>1, <2>1, <2>2, EditKeepsHolds DEF Holds
  <1>6. PoliciesHold'
    <2> SUFFICES ASSUME NEW k \in Keys, resolved[k] # NoPolicy
                 PROVE  /\ \A r \in Consulted(k) : Holds(r, resolved[k].stamp[r], resolved[k].texts[r])'
                        /\ \A r \in Scopes \ Consulted(k) : resolved[k].texts[r] = "absent"
      BY <1>1 DEF PoliciesHold, Consulted
    <2>1. \A r \in Scopes : resolved[k].stamp[r] \in Nat
      BY DEF CacheInv, Types, Policies
    <2>2. /\ \A r \in Consulted(k) : Holds(r, resolved[k].stamp[r], resolved[k].texts[r])
          /\ \A r \in Scopes \ Consulted(k) : resolved[k].texts[r] = "absent"
      BY DEF CacheInv, PoliciesHold
    <2>3. ASSUME NEW r \in Consulted(k)
          PROVE  Holds(r, resolved[k].stamp[r], resolved[k].texts[r])'
      <3>1. r \in Scopes
        BY ConsultedAre
      <3> QED
        BY <1>1, <2>1, <2>2, <3>1, EditKeepsHolds DEF Holds
    <2> QED
      BY <2>2, <2>3
  <1>7. QueryFits'
    <2> SUFFICES ASSUME query # NoQuery PROVE QueryFits'
      BY <1>1 DEF QueryFits
    <2>1. query \in Queries /\ query.step # "none"
      BY DEF CacheInv, Types, Queries
    <2>2. \A r \in Scopes : seen[r] \subseteq seen'[r] /\ disk'[r] \in seen'[r]
      BY <1>1, <1>2, <2>1 DEF CacheInv, Types, QueryFits
    <2>3. \A r \in Scopes, text \in Readable : Known(r, text) => Known(r, text)'
      BY <1>1, <2>2 DEF Known
    <2>4. Consulted(query.key)' = Consulted(query.key) /\ Passed' = Passed /\ Passed \subseteq Scopes
      BY <1>1, ConsultedAre DEF Passed, Consulted
    <2>5. \A r \in Scopes : MayHit(r)' <=> MayHit(r)
      BY <1>1 DEF MayHit
    <2>6. \A r \in Passed : MayHit(r) => resolved[query.key].texts[r] \in Readable
      BY <2>1, <2>4 DEF MayHit, CacheInv, Types, Queries, Policies
    <2>7. \A r \in Scopes : query.stamps[r] \in Nat /\ query.texts[r] \in Readable
      BY <2>1 DEF Queries
    <2>8. query.step = "stamp" =>
              \A r \in Passed : MayHit(r)' => Known(r, resolved[query.key].texts[r])'
      BY <1>1, <2>3, <2>4, <2>5, <2>6 DEF CacheInv, QueryFits
    <2>9. query.step # "stamp" => \A r \in Passed : Known(r, query.texts[r])'
      BY <1>1, <2>3, <2>4, <2>7 DEF CacheInv, QueryFits
    <2>10. query.step \in {"stat", "exists", "read"} =>
              \A r \in Passed : Holds(r, query.stamps[r], query.texts[r])'
      BY <1>1, <2>4, <2>7, EditKeepsHolds DEF CacheInv, QueryFits
    <2>11. query.at <= edits' /\ \A r \in Scopes : query.stamps[r] <= edits'
      BY <1>1, <2>1 DEF CacheInv, QueryFits, Queries
    <2> QED
      BY <1>1, <2>2, <2>4, <2>8, <2>9, <2>10, <2>11 DEF CacheInv, QueryFits
  <1> QED
    BY <1>3, <1>4, <1>5, <1>6, <1>7 DEF CacheInv

(* What no query and no file touches. *)
LEMMA CachesRest ==
    ASSUME CacheInv, UNCHANGED <<disk, stamp, edits, hasProject, fileCache, resolved, phantom>>
    PROVE  Stamped' /\ FilesHold' /\ PoliciesHold'
  <1>1. Stamped'
    BY DEF CacheInv, Stamped
  <1>2. FilesHold'
    BY DEF CacheInv, FilesHold, Holds
  <1>3. PoliciesHold'
    BY DEF CacheInv, PoliciesHold, Holds, Consulted
  <1> QED
    BY <1>1, <1>2, <1>3

LEMMA BeginKeepsCaches ==
    ASSUME CacheInv, NEW key \in Keys, BeginQuery(key),
           UNCHANGED <<diskVars, trusted, hasProject, cacheVars, knownAgent>>
    PROVE  CacheInv'
  <1> USE DEF diskVars, cacheVars
  <1>1. /\ query' \in Queries /\ query'.step = "stamp" /\ query'.key = key /\ query'.at = Missing
        /\ query'.todo = Consulted(key) /\ query'.stamps = [s \in Scopes |-> Missing]
        /\ query'.texts = [s \in Scopes |-> "absent"]
    BY ScopesAre, ConsultedAre DEF BeginQuery, Queries, Missing, Readable, OnDisk
  <1>2. Types'
    BY <1>1 DEF BeginQuery, CacheInv, Types
  <1>3. QueryFits'
    <2>1. Consulted(query.key)' = Consulted(key) /\ Passed' = {} /\ query'.todo # {}
      BY <1>1, ConsultedAre DEF Passed, Consulted
    <2>2. \A s \in Scopes : disk'[s] \in seen'[s]
      BY DEF BeginQuery
    <2>3. edits' \in Nat
      BY DEF CacheInv, Types
    <2> QED
      BY <1>1, <2>1, <2>2, <2>3 DEF QueryFits, Missing
  <1> QED
    BY <1>2, <1>3, CachesRest DEF CacheInv

LEMMA EndKeepsCaches ==
    ASSUME CacheInv, query' = NoQuery, seen' = [s \in Scopes |-> {}],
           UNCHANGED <<diskVars, trusted, hasProject, cacheVars, knownAgent>>
    PROVE  CacheInv'
  <1> USE DEF diskVars, cacheVars
  <1>1. Types'
    BY DEF CacheInv, Types
  <1>2. QueryFits'
    BY DEF QueryFits
  <1> QED
    BY <1>1, <1>2, CachesRest DEF CacheInv

(* A stamp that agrees with the resolved policy's: what the policy was     *)
(* made of is what the file says at this moment.                           *)
LEMMA StampKeepsCaches ==
    ASSUME CacheInv, TakeStamp
    PROVE  CacheInv'
  <1> USE DEF diskVars, cacheVars
  <1> DEFINE s == NextIn(StampOrder, query.todo)
             stamps == [query.stamps EXCEPT ![s] = stamp[s]]
             left == query.todo \ {s}
  <1>1. query \in Queries /\ query # NoQuery /\ query.step = "stamp" /\ query.key \in Keys
    BY DEF TakeStamp, CacheInv, Types, NoQuery, Queries
  <1>2. s \in query.todo /\ s \in Scopes /\ query.todo \subseteq Consulted(query.key)
    BY <1>1, NextIsLeft DEF CacheInv, QueryFits, Queries
  <1>3. UNCHANGED <<disk, stamp, edits, trusted, hasProject, fileCache, resolved, phantom, seen, knownAgent>>
    BY DEF TakeStamp, turnVars
  <1>4. /\ stamps \in [Scopes -> Nat] /\ left \in SUBSET Scopes /\ Consulted(query.key) \subseteq Scopes
        /\ \A r \in Scopes : stamps[r] <= edits
    BY <1>1, <1>2, ConsultedAre DEF CacheInv, Types, Queries, Stamped, QueryFits
  <1>5. ASSUME NEW r \in Consulted(query.key) \ left, resolved[query.key] # NoPolicy,
               resolved[query.key].stamp[r] = stamps[r]
        PROVE  Known(r, resolved[query.key].texts[r])
    <2>1. CASE r = s
      <3>1. Holds(r, stamp[r], resolved[query.key].texts[r])
        BY <1>1, <1>2, <1>5, <2>1 DEF CacheInv, PoliciesHold, Queries
      <3>2. disk[r] \in seen[r] /\ (stamp[r] = Missing <=> disk[r] = "absent")
        BY <1>1, <1>2, <2>1 DEF CacheInv, QueryFits, Stamped
      <3> QED
        BY <3>1, <3>2 DEF Holds, Known
    <2>2. CASE r # s
      <3>1. r \in Passed /\ MayHit(r)
        BY <1>1, <1>4, <1>5, <2>2 DEF Passed, MayHit, Queries
      <3> QED
        BY <1>1, <3>1 DEF CacheInv, QueryFits
    <2> QED
      BY <2>1, <2>2
  <1> HIDE DEF s, stamps, left
  <1>6. CASE left # {}
    <2>1. query' = [query EXCEPT !.stamps = stamps, !.todo = left]
      BY <1>6 DEF TakeStamp, s, stamps, left
    <2>2. /\ query' \in Queries /\ query' # NoQuery /\ query'.step = "stamp" /\ query'.key = query.key
          /\ query'.todo = left /\ query'.stamps = stamps /\ query'.texts = query.texts /\ query'.at = query.at
      BY <1>1, <1>4, <2>1 DEF Queries, NoQuery
    <2>3. Types'
      BY <1>3, <2>2 DEF CacheInv, Types
    <2>4. /\ Consulted(query.key)' = Consulted(query.key) /\ Passed' = Consulted(query.key) \ left
          /\ \A r \in Scopes : Known(r, resolved[query.key].texts[r])' <=> Known(r, resolved[query.key].texts[r])
          /\ \A r \in Scopes : MayHit(r)' <=> resolved[query.key] # NoPolicy /\ resolved[query.key].stamp[r] = stamps[r]
      BY <1>3, <2>2 DEF Consulted, Passed, Known, MayHit
    <2>5. \A r \in Scopes \ Passed' : stamps[r] = Missing
      BY <1>1, <1>2, <1>4, <2>4 DEF CacheInv, QueryFits, Passed, Queries, stamps, left
    <2>6. QueryFits'
      BY <1>1, <1>2, <1>3, <1>4, <1>5, <1>6, <2>2, <2>4, <2>5 DEF CacheInv, QueryFits, left
    <2> QED
      BY <1>3, <2>3, <2>6, CachesRest DEF CacheInv
  <1>7. CASE left = {} /\ resolved[query.key].stamp = stamps
    <2>1. query' = [query EXCEPT !.stamps = stamps, !.todo = left, !.step = "answered",
                                 !.texts = resolved[query.key].texts]
      BY <1>7 DEF TakeStamp, s, stamps, left
    <2>2. resolved[query.key] # NoPolicy /\ resolved[query.key] \in Policies
      <3>1. DOMAIN stamps = Scopes /\ Scopes # {} /\ DOMAIN NoPolicy.stamp = {}
        BY <1>4, ScopesAre DEF NoPolicy
      <3> QED
        BY <1>1, <1>7, <3>1 DEF CacheInv, Types
    <2>3. /\ query' \in Queries /\ query' # NoQuery /\ query'.step = "answered" /\ query'.key = query.key
          /\ query'.todo = {} /\ query'.stamps = stamps /\ query'.at = query.at
          /\ query'.texts = resolved[query.key].texts
      BY <1>1, <1>4, <1>7, <2>1, <2>2 DEF Queries, NoQuery, Policies
    <2>4. Types'
      BY <1>3, <2>3 DEF CacheInv, Types
    <2>5. /\ Consulted(query.key)' = Consulted(query.key) /\ Passed' = Consulted(query.key)
          /\ \A r \in Scopes : Known(r, query.texts[r])' <=> Known(r, resolved[query.key].texts[r])
      BY <1>3, <2>3 DEF Consulted, Passed, Known
    <2>6. \A r \in Consulted(query.key) : Known(r, resolved[query.key].texts[r])
      BY <1>5, <1>7, <2>2
    <2>7. \A r \in Scopes \ Consulted(query.key) : resolved[query.key].texts[r] = "absent"
      BY <1>1, <2>2 DEF CacheInv, PoliciesHold
    <2>8. QueryFits'
      BY <1>1, <1>3, <1>4, <2>3, <2>5, <2>6, <2>7 DEF CacheInv, QueryFits
    <2> QED
      BY <1>3, <2>4, <2>8, CachesRest DEF CacheInv
  <1>8. CASE left = {} /\ resolved[query.key].stamp # stamps
    <2>1. query' = [query EXCEPT !.stamps = stamps, !.todo = Consulted(query.key), !.step = "stat"]
      BY <1>1, <1>8 DEF TakeStamp, Queries, s, stamps, left
    <2>2. /\ query' \in Queries /\ query' # NoQuery /\ query'.step = "stat" /\ query'.key = query.key
          /\ query'.todo = Consulted(query.key) /\ query'.stamps = stamps
          /\ query'.texts = query.texts /\ query'.at = query.at
      BY <1>1, <1>4, <2>1 DEF Queries, NoQuery
    <2>3. Types'
      BY <1>3, <2>2 DEF CacheInv, Types
    <2>4. Consulted(query.key)' = Consulted(query.key) /\ Passed' = {} /\ Consulted(query.key) # {}
      BY <1>3, <2>2, ConsultedAre DEF Consulted, Passed
    <2>5. QueryFits'
      BY <1>1, <1>3, <1>4, <2>2, <2>4 DEF CacheInv, QueryFits
    <2> QED
      BY <1>3, <2>3, <2>5, CachesRest DEF CacheInv
  <1> QED
    BY <1>6, <1>7, <1>8

(* A scope is loaded under the stamp `at': its text is known, and right    *)
(* for each stamp that is still that of the file.                          *)
LEMMA LoadKeepsCaches ==
    ASSUME CacheInv, query \in Queries, query.step \in {"stat", "exists", "read"},
           NEW s, s = NextIn(LoadOrder, query.todo), NEW text \in Readable, NEW at \in Nat,
           fileCache' = [fileCache EXCEPT ![s] = [stamp |-> at, text |-> text]],
           Loaded(s, text),
           at <= edits, Known(s, text), stamp[s] # Missing => text = disk[s] \/ stamp[s] \notin {at, query.stamps[s]},
           UNCHANGED <<diskVars, trusted, hasProject, seen, knownAgent>>
    PROVE  CacheInv'
  <1> USE DEF diskVars
  <1> DEFINE left == query.todo \ {s}
             texts == [query.texts EXCEPT ![s] = text]
  <1>1. query # NoQuery /\ query.key \in Keys /\ query.todo # {}
    BY DEF NoQuery, Queries, CacheInv, QueryFits
  <1>2. s \in query.todo /\ s \in Scopes /\ query.todo \subseteq Consulted(query.key)
    BY <1>1, NextIsLeft DEF CacheInv, QueryFits, Queries
  <1>3. /\ texts \in [Scopes -> Readable] /\ left \in SUBSET Scopes /\ Consulted(query.key) \subseteq Scopes
        /\ texts[s] = text /\ (\A r \in Scopes \ {s} : texts[r] = query.texts[r])
    BY <1>2, ConsultedAre DEF Queries
  <1>4. /\ phantom \subseteq phantom' /\ phantom' \subseteq Scopes
        /\ text # "absent" /\ Missing \in {query.stamps[s], at} => s \in phantom'
    BY <1>2 DEF Loaded, CacheInv, Types
  <1> DEFINE Knows(r, u) == r \in phantom' \/ u \in seen[r] \/ (u = "unreadable" /\ "absent" \in seen[r])
             Keeps(r, t, u) == /\ t <= edits
                               /\ t = stamp[r] /\ t # Missing => u = disk[r]
                               /\ t = Missing => u = "absent" \/ r \in phantom'
  <1>5. \A r \in Scopes, u \in Readable : Known(r, u) => Knows(r, u)
    BY <1>4 DEF Known
  <1>6. \A r \in Scopes, t \in Nat, u \in Readable : Holds(r, t, u) => Keeps(r, t, u)
    BY <1>4 DEF Holds
  <1>7. Keeps(s, at, text) /\ Keeps(s, query.stamps[s], text)
    <2>1. query.stamps[s] \in Nat /\ query.stamps[s] <= edits
      BY <1>1, <1>2 DEF CacheInv, QueryFits, Queries
    <2> QED
      BY <1>4, <2>1
  <1>8. Stamped'
    BY DEF CacheInv, Stamped
  <1> HIDE DEF Knows, Keeps
  <1>9. ASSUME NEW r \in Scopes, fileCache'[r] # NoText
        PROVE  Keeps(r, fileCache'[r].stamp, fileCache'[r].text)
    <2>1. CASE r = s
      BY <1>2, <1>7, <2>1 DEF CacheInv, Types
    <2>2. CASE r # s
      <3>1. fileCache'[r] = fileCache[r] /\ fileCache[r] # NoText
        BY <1>9, <2>2 DEF CacheInv, Types
      <3>2. /\ fileCache[r].stamp \in Nat /\ fileCache[r].text \in Readable
            /\ Holds(r, fileCache[r].stamp, fileCache[r].text)
        BY <3>1 DEF CacheInv, Types, FilesHold
      <3> QED
        BY <1>6, <3>1, <3>2
    <2> QED
      BY <2>1, <2>2
  <1>10. ASSUME NEW r \in Consulted(query.key) \ left
         PROVE  Knows(r, texts[r]) /\ Keeps(r, query.stamps[r], texts[r])
    <2>1. r \in Scopes /\ query.stamps[r] \in Nat /\ query.texts[r] \in Readable
      BY <1>3 DEF Queries
    <2>2. CASE r = s
      BY <1>3, <1>5, <1>7, <2>1, <2>2
    <2>3. CASE r # s
      <3>1. r \in Passed /\ texts[r] = query.texts[r]
        BY <1>3, <2>1, <2>3 DEF Passed
      <3>2. Known(r, query.texts[r]) /\ Holds(r, query.stamps[r], query.texts[r])
        BY <1>1, <3>1 DEF CacheInv, QueryFits
      <3> QED
        BY <1>5, <1>6, <2>1, <3>1, <3>2
    <2> QED
      BY <2>2, <2>3
  <1>11. \A r \in Scopes \ Consulted(query.key) : texts[r] = "absent"
    BY <1>1, <1>2, <1>3 DEF CacheInv, QueryFits
  <1>12. fileCache' \in [Scopes -> {NoText} \cup [stamp : Nat, text : Readable]]
    BY DEF CacheInv, Types
  <1>13. query.at <= edits /\ \A r \in Scopes : query.stamps[r] <= edits /\ disk[r] \in seen[r]
    BY <1>1 DEF CacheInv, QueryFits
  <1>14. ASSUME NEW k \in Keys, resolved[k] # NoPolicy
         PROVE  /\ \A r \in Consulted(k) : Keeps(r, resolved[k].stamp[r], resolved[k].texts[r])
                /\ \A r \in Scopes \ Consulted(k) : resolved[k].texts[r] = "absent"
    <2>1. \A r \in Scopes : resolved[k].stamp[r] \in Nat /\ resolved[k].texts[r] \in Readable
      BY <1>14 DEF CacheInv, Types, Policies
    <2>2. Consulted(k) \subseteq Scopes
      BY ConsultedAre
    <2> QED
      BY <1>6, <1>14, <2>1, <2>2 DEF CacheInv, PoliciesHold
  <1>15. \A k \in Keys : Consulted(k)' = Consulted(k)
    BY DEF Consulted
  <1>16. FilesHold'
    BY <1>9 DEF FilesHold, Holds, Keeps
  <1>17. ASSUME NEW now \in {"stat", "answered"},
                query' = [query EXCEPT !.step = now, !.todo = left, !.texts = texts],
                now = "answered" <=> left = {}
         PROVE  query' \in Queries /\ QueryFits'
    <2>1. /\ query' \in Queries /\ query' # NoQuery /\ query'.step = now /\ query'.key = query.key
          /\ query'.todo = left /\ query'.stamps = query.stamps /\ query'.texts = texts /\ query'.at = query.at
      BY <1>1, <1>3, <1>17 DEF Queries, NoQuery
    <2>2. Passed' = Consulted(query.key) \ left /\ Consulted(query.key)' = Consulted(query.key)
      BY <1>1, <1>15, <2>1 DEF Passed
    <2>3. \A r \in Passed' : Known(r, query.texts[r])' /\ Holds(r, query.stamps[r], query.texts[r])'
      BY <1>10, <2>1, <2>2 DEF Known, Holds, Knows, Keeps
    <2>4. left \subseteq Consulted(query.key)
      BY <1>2
    <2> QED
      BY <1>11, <1>13, <1>17, <2>1, <2>2, <2>3, <2>4 DEF QueryFits
  <1> HIDE DEF left, texts
  <1>18. CASE left # {}
    <2>1. query' = [query EXCEPT !.step = "stat", !.todo = left, !.texts = texts] /\ resolved' = resolved
      BY <1>18 DEF Loaded, left, texts, Queries
    <2>2. query' \in Queries /\ QueryFits'
      BY <1>17, <1>18, <2>1
    <2>3. PoliciesHold'
      BY <1>14, <1>15, <2>1 DEF PoliciesHold, Holds, Keeps
    <2>4. Types'
      BY <1>4, <1>12, <2>1, <2>2 DEF CacheInv, Types
    <2> QED
      BY <1>8, <1>16, <2>2, <2>3, <2>4 DEF CacheInv
  <1>19. CASE left = {}
    <2>1. /\ query' = [query EXCEPT !.step = "answered", !.todo = left, !.texts = texts]
          /\ resolved' = [resolved EXCEPT ![query.key] = [stamp |-> query.stamps, texts |-> texts]]
      BY <1>19 DEF Loaded, left, texts, Queries
    <2>2. query' \in Queries /\ QueryFits'
      BY <1>17, <1>19, <2>1
    <2>3. resolved' \in [Keys -> {NoPolicy} \cup Policies]
      BY <1>1, <1>3, <2>1 DEF CacheInv, Types, Policies, Queries
    <2>4. PoliciesHold'
      <3> SUFFICES ASSUME NEW k \in Keys, resolved'[k] # NoPolicy
                   PROVE  /\ \A r \in Consulted(k) : Keeps(r, resolved'[k].stamp[r], resolved'[k].texts[r])
                          /\ \A r \in Scopes \ Consulted(k) : resolved'[k].texts[r] = "absent"
        BY <1>15 DEF PoliciesHold, Holds, Keeps
      <3>1. CASE k = query.key
        <4>1. resolved'[k].stamp = query.stamps /\ resolved'[k].texts = texts
          BY <2>1, <3>1 DEF CacheInv, Types
        <4> QED
          BY <1>10, <1>11, <1>19, <3>1, <4>1
      <3>2. CASE k # query.key
        <4>1. resolved'[k] = resolved[k]
          BY <2>1, <3>2 DEF CacheInv, Types
        <4> QED
          BY <1>14, <4>1
      <3> QED
        BY <3>1, <3>2
    <2>5. Types'
      BY <1>4, <1>12, <2>2, <2>3 DEF CacheInv, Types
    <2> QED
      BY <1>8, <1>16, <2>2, <2>4, <2>5 DEF CacheInv
  <1> QED
    BY <1>18, <1>19

(* The next file is looked at further: nothing is known of it yet. *)
LEMMA LookKeepsCaches ==
    ASSUME CacheInv, query \in Queries, query.step \in {"stat", "exists"},
           NEW next \in {"exists", "read"}, NEW at \in Nat, at <= edits,
           query' = [query EXCEPT !.step = next, !.at = at],
           UNCHANGED <<diskVars, trusted, hasProject, cacheVars, seen, knownAgent>>
    PROVE  CacheInv'
  <1> USE DEF diskVars, cacheVars
  <1>1. query # NoQuery /\ query.todo # {}
    BY DEF CacheInv, QueryFits, NoQuery, Queries
  <1>2. /\ query' \in Queries /\ query' # NoQuery /\ query'.step = next /\ query'.key = query.key
        /\ query'.todo = query.todo /\ query'.stamps = query.stamps
        /\ query'.texts = query.texts /\ query'.at = at
    BY DEF Queries, NoQuery
  <1>3. Types'
    BY <1>2 DEF CacheInv, Types
  <1>4. Consulted(query.key)' = Consulted(query.key) /\ Passed' = Passed
    BY <1>2 DEF Consulted, Passed
  <1>5. QueryFits'
    BY <1>1, <1>2, <1>4 DEF CacheInv, QueryFits, Known, Holds
  <1> QED
    BY <1>3, <1>5, CachesRest DEF CacheInv

LEMMA StatKeepsCaches ==
    ASSUME CacheInv, Stat PROVE CacheInv'
  <1> DEFINE s == NextIn(LoadOrder, query.todo)
  <1>1. query \in Queries /\ query # NoQuery /\ query.step = "stat" /\ query.todo # {}
    BY DEF Stat, CacheInv, Types, NoQuery, Queries, QueryFits
  <1>2. s \in query.todo /\ s \in Scopes
    BY <1>1, NextIsLeft DEF Queries
  <1>3. /\ stamp[s] \in Nat /\ stamp[s] <= edits /\ (stamp[s] = Missing <=> disk[s] = "absent")
        /\ disk[s] \in seen[s]
    BY <1>1, <1>2 DEF CacheInv, Types, Stamped, QueryFits
  <1> HIDE DEF s
  <1>4. CASE /\ fileCache[s].stamp = stamp[s] /\ UNCHANGED fileCache /\ Loaded(s, fileCache[s].text)
    <2>1. fileCache[s] # NoText /\ fileCache[s] \in [stamp : Nat, text : Readable]
      BY <1>2, <1>3, <1>4 DEF CacheInv, Types, NoText
    <2>2. Holds(s, stamp[s], fileCache[s].text)
      BY <1>2, <1>4, <2>1 DEF CacheInv, FilesHold
    <2>3. Known(s, fileCache[s].text) /\ (stamp[s] # Missing => fileCache[s].text = disk[s])
      BY <1>3, <2>2 DEF Known, Holds
    <2>4. fileCache' = [fileCache EXCEPT ![s] = [stamp |-> stamp[s], text |-> fileCache[s].text]]
      BY <1>2, <1>4, <2>1 DEF CacheInv, Types
    <2>5. UNCHANGED <<diskVars, trusted, hasProject, seen, knownAgent>>
      BY <1>4 DEF Loaded, turnVars
    <2> QED
      BY <1>1, <1>2, <1>3, <1>4, <2>1, <2>3, <2>4, <2>5, LoadKeepsCaches DEF s
  <1>5. CASE /\ stamp[s] = Missing /\ Cached(s, Missing, "absent") /\ Loaded(s, "absent")
    <2>1. Known(s, "absent") /\ "absent" \in Readable
      BY <1>3, <1>5 DEF Known, Readable, OnDisk
    <2>2. UNCHANGED <<diskVars, trusted, hasProject, seen, knownAgent>>
      BY <1>5 DEF Loaded, turnVars
    <2> QED
      BY <1>1, <1>2, <1>3, <1>5, <2>1, <2>2, LoadKeepsCaches DEF Cached, s, Missing
  <1>6. CASE /\ query' = [query EXCEPT !.step = IF s \in AgentScopes THEN "read" ELSE "exists", !.at = stamp[s]]
             /\ UNCHANGED <<diskVars, trusted, hasProject, cacheVars, seen, toolVars, turnVars, calm>>
    BY <1>1, <1>3, <1>6, LookKeepsCaches DEF turnVars
  <1> QED
    BY <1>4, <1>5, <1>6 DEF Stat, s

LEMMA ExistsKeepsCaches ==
    ASSUME CacheInv, Exists PROVE CacheInv'
  <1> DEFINE s == NextIn(LoadOrder, query.todo)
  <1>1. query \in Queries /\ query # NoQuery /\ query.step = "exists" /\ query.todo # {}
    BY DEF Exists, CacheInv, Types, NoQuery, Queries, QueryFits
  <1>2. s \in query.todo /\ s \in Scopes
    BY <1>1, NextIsLeft DEF Queries
  <1>3. /\ (stamp[s] = Missing <=> disk[s] = "absent") /\ disk[s] \in seen[s]
        /\ query.at \in Nat /\ query.at <= edits
    BY <1>1, <1>2 DEF CacheInv, Types, Stamped, QueryFits, Queries
  <1> HIDE DEF s
  <1>4. CASE disk[s] = "absent" /\ Cached(s, query.at, "absent") /\ Loaded(s, "absent")
    <2>1. Known(s, "absent") /\ "absent" \in Readable
      BY <1>3, <1>4 DEF Known, Readable, OnDisk
    <2>2. UNCHANGED <<diskVars, trusted, hasProject, seen, knownAgent>>
      BY <1>4 DEF Loaded, turnVars
    <2> QED
      BY <1>1, <1>2, <1>3, <1>4, <2>1, <2>2, LoadKeepsCaches DEF Cached, s
  <1>5. CASE /\ query' = [query EXCEPT !.step = "read"]
             /\ UNCHANGED <<diskVars, trusted, hasProject, cacheVars, seen, toolVars, turnVars, calm>>
    <2>1. query' = [query EXCEPT !.step = "read", !.at = query.at]
      BY <1>1, <1>5 DEF Queries
    <2> QED
      BY <1>1, <1>3, <1>5, <2>1, LookKeepsCaches DEF turnVars
  <1> QED
    BY <1>4, <1>5 DEF Exists, s

LEMMA ReadKeepsCaches ==
    ASSUME CacheInv, Read PROVE CacheInv'
  <1> DEFINE s == NextIn(LoadOrder, query.todo)
             text == IF disk[s] = "absent" THEN "unreadable" ELSE disk[s]
  <1>1. query \in Queries /\ query # NoQuery /\ query.step = "read" /\ query.todo # {}
    BY DEF Read, CacheInv, Types, NoQuery, Queries, QueryFits
  <1>2. s \in query.todo /\ s \in Scopes
    BY <1>1, NextIsLeft DEF Queries
  <1>3. /\ (stamp[s] = Missing <=> disk[s] = "absent") /\ disk[s] \in seen[s] /\ disk[s] \in OnDisk
        /\ query.at \in Nat /\ query.at <= edits
    BY <1>1, <1>2 DEF CacheInv, Types, Stamped, QueryFits, Queries
  <1>4. Cached(s, query.at, text) /\ Loaded(s, text)
    BY DEF Read
  <1> HIDE DEF s
  <1>5. text \in Readable /\ Known(s, text) /\ (stamp[s] # Missing => text = disk[s])
    BY <1>3 DEF Readable, Known
  <1>6. UNCHANGED <<diskVars, trusted, hasProject, seen, knownAgent>>
    BY <1>4 DEF Loaded, turnVars
  <1> HIDE DEF text
  <1> QED
    BY <1>1, <1>2, <1>3, <1>4, <1>5, <1>6, LoadKeepsCaches DEF Cached, s

(* The steps that neither ask, read nor edit anything. *)
LEMMA RestKeepsCaches ==
    ASSUME CacheInv, UNCHANGED <<diskVars, hasProject, cacheVars, query, seen>>,
           trusted' \in BOOLEAN, knownAgent' \in Keys
    PROVE  CacheInv'
  <1> USE DEF diskVars, cacheVars
  <1>1. Types'
    BY DEF CacheInv, Types
  <1>2. QueryFits'
    BY DEF CacheInv, QueryFits, Passed, MayHit, Known, Holds, Consulted
  <1> QED
    BY <1>1, <1>2, CachesRest DEF CacheInv

(* A new loader knows nothing. *)
LEMMA ReloadKeepsCaches ==
    ASSUME CacheInv, Reload PROVE CacheInv'
  <1> USE DEF diskVars, turnVars
  <1>1. Types'
    BY DEF Reload, CacheInv, Types, NoTexts, NoPolicies
  <1>2. Stamped' /\ FilesHold' /\ PoliciesHold' /\ QueryFits'
    BY DEF Reload, CacheInv, Stamped, FilesHold, PoliciesHold, QueryFits, NoTexts, NoPolicies
  <1> QED
    BY <1>1, <1>2 DEF CacheInv

LEMMA StepKeepsCaches == CacheInv /\ [Next]_vars => CacheInv'
  <1> SUFFICES ASSUME CacheInv, [Next]_vars PROVE CacheInv'
    OBVIOUS
  <1>0. knownAgent \in Keys /\ trusted \in BOOLEAN
    BY DEF CacheInv, Types
  <1>1. ASSUME NEW s \in Editable, Edit(s) PROVE CacheInv'
    BY <1>1, EditKeepsCaches
  <1>2. ASSUME NEW k \in Keys, Ask(k) PROVE CacheInv'
    BY <1>2, BeginKeepsCaches DEF Ask, turnVars
  <1>3. CASE TakeStamp \/ Stat \/ Exists \/ Read
    BY <1>3, StampKeepsCaches, StatKeepsCaches, ExistsKeepsCaches, ReadKeepsCaches
  <1>4. CASE Answer \/ HearAboutTool
    BY <1>4, EndKeepsCaches DEF Answer, HearAboutTool, turnVars
  <1>5. CASE AskAboutTool
    BY <1>0, <1>5, BeginKeepsCaches DEF AskAboutTool, turnVars
  <1>6. CASE Reload
    BY <1>6, ReloadKeepsCaches
  <1>7. CASE BeginTurn
    <2>1. knownAgent' \in Keys
      BY <1>0, <1>7 DEF BeginTurn, Keys
    <2> QED
      BY <1>0, <1>7, <2>1, RestKeepsCaches DEF BeginTurn
  <1>8. CASE EndTurn \/ TrustChanges
    BY <1>0, <1>8, RestKeepsCaches DEF EndTurn, TrustChanges, turnVars
  <1>9. ASSUME NEW t \in Tools, Activate(t) \/ Unregister(t) \/ Deactivate(t) \/ Register(t) PROVE CacheInv'
    BY <1>0, <1>9, RestKeepsCaches DEF Activate, Unregister, Deactivate, Register, turnVars
  <1>10. CASE UNCHANGED vars
    BY <1>0, <1>10, RestKeepsCaches DEF vars, turnVars
  <1> QED
    BY <1>1, <1>2, <1>3, <1>4, <1>5, <1>6, <1>7, <1>8, <1>9, <1>10 DEF Next

LEMMA AlwaysCacheInv == Spec => []CacheInv
  BY CacheInit, StepKeepsCaches, PTL DEF Spec

(* What the policy answers was in the files since the question was asked,  *)
(* through both caches of resolvePermissions() and whatever is edited in   *)
(* between, but for a file that was created in just that time.             *)
THEOREM AnswersAreCurrent == Spec => []AnswersFromCurrentTexts
  <1>1. CacheInv => AnswersFromCurrentTexts
    <2> SUFFICES ASSUME CacheInv, query.step = "answered", NEW s \in Consulted(query.key) \ phantom
                 PROVE  query.texts[s] \in seen[s] \/ (query.texts[s] = "unreadable" /\ "absent" \in seen[s])
      BY DEF AnswersFromCurrentTexts
    <2>1. query # NoQuery /\ query.todo = {}
      BY DEF CacheInv, QueryFits, NoQuery
    <2>2. Known(s, query.texts[s])
      BY <2>1 DEF CacheInv, QueryFits, Passed
    <2> QED
      BY <2>2 DEF Known
  <1> QED
    BY <1>1, AlwaysCacheInv, PTL

(* No rule of a list that floorAllowsToAsk() went through allows anything. *)
LEMMA FlooredAllowsNothing ==
    ASSUME NEW rules, NEW surface, NEW value
    PROVE  Evaluate(surface, value, FloorAllowsToAsk(rules)) # "allow"
  <1> DEFINE floored == FloorAllowsToAsk(rules)
             matching == {i \in DOMAIN floored : RuleMatches(floored[i], surface, value)}
             last == {i \in matching : \A j \in matching : j <= i}
  <1>1. \A i \in DOMAIN floored : floored[i].action # "allow"
    BY DEF FloorAllowsToAsk
  <1>2. last # {} => (CHOOSE i \in last : TRUE) \in DOMAIN floored
    OBVIOUS
  <1>3. Evaluate(surface, value, floored) = IF last = {} THEN "ask" ELSE floored[CHOOSE i \in last : TRUE].action
    BY DEF Evaluate
  <1> QED
    BY <1>1, <1>2, <1>3

(* While the project's file or an agent's is invalid nothing is allowed,   *)
(* whichever cache the answer comes from (the floor of                     *)
(* resolvePermissions()).                                                  *)
THEOREM InvalidFailsClosed == Spec => []FailsClosed
  <1>1. CacheInv => FailsClosed
    <2> SUFFICES ASSUME CacheInv, query.step = "answered",
                        NEW s \in (Consulted(query.key) \ {"global"}) \ phantom,
                        \A text \in seen[s] : Invalid(text),
                        NEW t \in Tools, NEW v \in Values
                 PROVE  Evaluate(t, v, ComposedRules(query.texts)) # "allow"
      BY DEF FailsClosed
    <2>1. query # NoQuery /\ query.todo = {}
      BY DEF CacheInv, QueryFits, NoQuery
    <2>2. Known(s, query.texts[s])
      BY <2>1 DEF CacheInv, QueryFits, Passed
    <2>3. Invalid(query.texts[s])
      BY <2>2 DEF Known, Invalid
    <2>4. s \in FailClosedScopes(query.texts)
      BY <2>3, ConsultedAre DEF FailClosedScopes
    <2>5. ComposedRules(query.texts) =
              FloorAllowsToAsk(Compose(MergeScopes(
                  [i \in DOMAIN LoadOrder |-> ScopePermission(query.texts[LoadOrder[i]])])))
      BY <2>4 DEF ComposedRules
    <2> QED
      BY <2>5, FlooredAllowsNothing
  <1> QED
    BY <1>1, AlwaysCacheInv, PTL

-----------------------------------------------------------------------------
Turns == [step : {"asking"}, todo : SUBSET Tools, exposed : SUBSET Tools, withheld : SUBSET Tools]

SurfaceTypes ==
    /\ turn \in {NoTurn} \cup Turns /\ calm \in BOOLEAN
    /\ registered \subseteq Tools /\ active \subseteq registered /\ intended \subseteq registered
    /\ baseline \subseteq Tools /\ withheld \subseteq Tools

(* What the policy says now, for the agent known. *)
Now == [s \in Scopes |-> IF s \in Consulted(knownAgent) THEN disk[s] ELSE "absent"]

Hidden(t) == IsSurfaceFullyDenied(t, ComposedRules(Now))

(* The tools a turn looks at are those that others want active. *)
ToolsFit == Rebuilt = intended

TurnFits ==
    turn # NoTurn =>
        /\ turn.todo \cup turn.exposed \cup turn.withheld = Rebuilt
        /\ turn.exposed \cap turn.withheld = {} /\ turn.todo \cap (turn.exposed \cup turn.withheld) = {}
        /\ query # NoQuery => query.key = knownAgent

(* While nothing is edited a query reads what the files say. *)
CalmQuery ==
    calm /\ turn # NoTurn /\ query # NoQuery =>
        /\ \A s \in Consulted(knownAgent) : s \in Passed \/ query.step # "stamp" => query.stamps[s] = stamp[s]
        /\ query.step = "read" => disk[NextIn(LoadOrder, query.todo)] # "absent"
        /\ query.step # "stamp" => \A s \in Passed : s \in phantom \/ query.texts[s] = disk[s]

CalmTurn ==
    calm /\ turn # NoTurn /\ phantom = {} =>
        (\A t \in turn.exposed : ~Hidden(t)) /\ (\A t \in turn.withheld : Hidden(t))

CalmSurface == calm /\ turn = NoTurn /\ phantom = {} => active = {t \in intended : ~Hidden(t)}

SurfaceInv == SurfaceTypes /\ ToolsFit /\ TurnFits /\ CalmQuery /\ CalmTurn /\ CalmSurface

-----------------------------------------------------------------------------
(***************************************************************************)
(* Lists.  The provers cannot instantiate the induction theorems of the    *)
(* library, which take a predicate; a set of numbers does instead.         *)
(***************************************************************************)
(* Any natural numbers have a least one. *)
LEMMA LeastOf ==
    ASSUME NEW T \in SUBSET Nat, T # {} PROVE \E x \in T : \A y \in T : x <= y
  <1>1. PICK x \in T : \A y \in T : <<y, x>> \notin OpToRel(<, Nat)
    BY NatLessThanWellFounded, WFMin, Zenon
  <1>2. \A y \in T : ~(y < x)
    BY <1>1 DEF OpToRel
  <1> QED
    BY <1>2

(* Induction, of a set of numbers instead of a predicate. *)
LEMMA Upward ==
    ASSUME NEW n \in Nat, NEW G, 1 \in G, \A m \in 1 .. n : m # n /\ m \in G => m + 1 \in G
    PROVE  \A m \in 1 .. n : m \in G
  <1> DEFINE T == {m \in 1 .. n : m \notin G}
  <1> SUFFICES ASSUME T # {} PROVE FALSE
    OBVIOUS
  <1>0. T \in SUBSET Nat
    OBVIOUS
  <1>1. PICK m \in T : \A k \in T : m <= k
    <2> HIDE DEF T
    <2> QED
      BY <1>0, LeastOf
  <1>2. m - 1 \in 1 .. n /\ m - 1 \in G
    BY <1>1
  <1> QED
    BY <1>1, <1>2

(* A function on the first numbers is a list. *)
LEMMA FunctionIsList ==
    ASSUME NEW n \in Nat, NEW S, NEW f \in [1 .. n -> S] PROVE f \in Seq(S)
  OBVIOUS

(* A list of lists becomes a list of their elements. *)
LEMMA Flattened ==
    ASSUME NEW S, NEW seqs \in Seq(Seq(S)) PROVE FlattenSeq(seqs) \in Seq(S)
  <1> DEFINE n == Len(seqs)
             Unfolds(f, m) == f = [i \in 1 .. m |-> IF i = 1 THEN seqs[i] ELSE f[i - 1] \o seqs[i]]
             flatten == CHOOSE f : Unfolds(f, n)
             G == {m \in 1 .. n : \E f : Unfolds(f, m)}
             H == {m \in 1 .. n : flatten[m] \in Seq(S)}
  <1>1. n \in Nat /\ DOMAIN seqs = 1 .. n /\ \A i \in 1 .. n : seqs[i] \in Seq(S)
    BY LenProperties, ElementOfSeq
  <1>2. CASE n = 0
    BY <1>2, EmptySeq DEF FlattenSeq
  <1>3. CASE n # 0
    <2>0. 1 \in 1 .. n /\ n \in 1 .. n
      BY <1>1, <1>3
    <2> HIDE DEF n
    <2>1. 1 \in G
      <3>1. Unfolds([i \in 1 .. 1 |-> seqs[1]], 1)
        OBVIOUS
      <3> QED
        BY <2>0, <3>1
    <2>2. ASSUME NEW m \in 1 .. n, m # n, m \in G PROVE m + 1 \in G
      <3>1. PICK f : Unfolds(f, m)
        BY <2>2
      <3> DEFINE g == [i \in 1 .. m + 1 |-> IF i <= m THEN f[i] ELSE f[m] \o seqs[m + 1]]
      <3>0. m \in Nat /\ m >= 1
        BY <1>1
      <3>2. ASSUME NEW i \in 1 .. m + 1 PROVE g[i] = IF i = 1 THEN seqs[i] ELSE g[i - 1] \o seqs[i]
        <4>1. CASE i <= m
          <5>1. i \in 1 .. m /\ (i # 1 => i - 1 \in 1 .. m)
            BY <3>0, <4>1
          <5>2. f[i] = IF i = 1 THEN seqs[i] ELSE f[i - 1] \o seqs[i]
            BY <3>1, <5>1
          <5>3. g[i] = f[i]
            BY <4>1
          <5>4. i # 1 => g[i - 1] = f[i - 1]
            BY <3>0, <5>1
          <5> HIDE DEF g
          <5> QED
            BY <5>2, <5>3, <5>4
        <4>2. CASE i = m + 1
          <5>0. m + 1 \in 1 .. m + 1 /\ m \in 1 .. m + 1 /\ ~(m + 1 <= m) /\ m <= m
            BY <3>0
          <5>1. g[m + 1] = f[m] \o seqs[m + 1] /\ g[m] = f[m]
            BY <5>0
          <5>2. i # 1 /\ i - 1 = m
            BY <3>0, <4>2
          <5> HIDE DEF g
          <5> QED
            BY <4>2, <5>1, <5>2
        <4> QED
          BY <3>0, <4>1, <4>2
      <3>3. Unfolds(g, m + 1)
        BY <3>2
      <3>4. m + 1 \in 1 .. n
        BY <1>1, <2>2
      <3> HIDE DEF g, Unfolds
      <3> QED
        BY <3>3, <3>4
    <2>3. n \in G
      <3> HIDE DEF G
      <3> QED
        BY <1>1, <2>0, <2>1, <2>2, Upward
    <2>4. Unfolds(flatten, n)
      <3>1. \E f : Unfolds(f, n)
        BY <2>3
      <3> HIDE DEF Unfolds
      <3> QED
        BY <3>1
    <2> HIDE DEF flatten, G
    <2>5. \A m \in 1 .. n : flatten[m] = IF m = 1 THEN seqs[m] ELSE flatten[m - 1] \o seqs[m]
      BY <2>4
    <2>6. 1 \in H
      BY <1>1, <1>3, <2>5
    <2>7. ASSUME NEW m \in 1 .. n, m # n, m \in H PROVE m + 1 \in H
      <3>1. m + 1 \in 1 .. n /\ m + 1 # 1 /\ (m + 1) - 1 = m
        BY <1>1, <2>7
      <3>2. flatten[m + 1] = flatten[m] \o seqs[m + 1]
        BY <2>5, <3>1
      <3> QED
        BY <1>1, <2>7, <3>1, <3>2, ConcatProperties
    <2>8. n \in H
      <3> HIDE DEF H
      <3> QED
        BY <1>1, <2>0, <2>6, <2>7, Upward
    <2>9. FlattenSeq(seqs) = flatten[n]
      BY <1>3 DEF FlattenSeq, flatten, n
    <2> QED
      BY <2>8, <2>9
  <1> QED
    BY <1>2, <1>3

-----------------------------------------------------------------------------
(***************************************************************************)
(* What the policy composes is a list of rules with patterns of the files, *)
(* behind a default for everything.                                        *)
(***************************************************************************)
PatternRules == [pattern : Patterns, action : Actions]

(* An entry that is there is found. *)
LEMMA EntryFound ==
    ASSUME NEW permission \in Seq(Entries), NEW surface \in SurfacesOf(permission)
    PROVE  EntryOf(permission, surface) \in Entries
  <1> DEFINE I == {i \in 1 .. Len(permission) : permission[i].surface = surface}
  <1>1. Len(permission) \in Nat /\ DOMAIN permission = 1 .. Len(permission)
    BY LenProperties
  <1>2. I # {} /\ I \in SUBSET Nat
    BY <1>1 DEF SurfacesOf
  <1>3. SelectInSeq(permission, LAMBDA e : e.surface = surface) = Min(I)
    BY <1>2 DEF SelectInSeq
  <1>4. \E x \in I : \A y \in I : x <= y
    <2> HIDE DEF I
    <2> QED
      BY <1>2, LeastOf
  <1>5. Min(I) \in I
    BY <1>4 DEF Min
  <1> QED
    BY <1>1, <1>3, <1>5, ElementOfSeq DEF EntryOf

LEMMA SpreadIsList ==
    ASSUME NEW base \in Seq(PatternRules), NEW over \in Seq(PatternRules)
    PROVE  Spread(base, over) \in Seq(PatternRules)
  <1> DEFINE At(p) == SelectInSeq(over, LAMBDA r : r.pattern = p)
             kept == [i \in DOMAIN base |-> IF At(base[i].pattern) # 0 THEN over[At(base[i].pattern)] ELSE base[i]]
             added == [i \in DOMAIN over |-> IF over[i].pattern \in PatternsOf(base) THEN <<>> ELSE <<over[i]>>]
  <1>1. /\ Len(base) \in Nat /\ DOMAIN base = 1 .. Len(base) /\ \A i \in DOMAIN base : base[i] \in PatternRules
        /\ Len(over) \in Nat /\ DOMAIN over = 1 .. Len(over) /\ \A i \in DOMAIN over : over[i] \in PatternRules
    BY LenProperties, ElementOfSeq
  <1>2. ASSUME NEW p PROVE At(p) \in {0} \cup DOMAIN over
    <2> DEFINE I == {i \in 1 .. Len(over) : over[i].pattern = p}
    <2>1. At(p) = IF I # {} THEN Min(I) ELSE 0
      BY DEF SelectInSeq
    <2>2. I \in SUBSET Nat /\ I \subseteq DOMAIN over
      BY <1>1
    <2> HIDE DEF I
    <2>3. I # {} => Min(I) \in I
      BY <2>2, LeastOf DEF Min
    <2> QED
      BY <2>1, <2>2, <2>3
  <1>3. kept \in Seq(PatternRules)
    <2> HIDE DEF At
    <2>1. kept \in [1 .. Len(base) -> PatternRules]
      BY <1>1, <1>2
    <2> QED
      BY <1>1, <2>1, FunctionIsList
  <1>4. FlattenSeq(added) \in Seq(PatternRules)
    <2>1. added \in [1 .. Len(over) -> Seq(PatternRules)]
      BY <1>1
    <2>2. added \in Seq(Seq(PatternRules))
      BY <1>1, <2>1, FunctionIsList
    <2> QED
      BY <2>2, Flattened
  <1>5. Spread(base, over) = kept \o FlattenSeq(added)
    BY DEF Spread
  <1> QED
    BY <1>3, <1>4, <1>5, ConcatProperties

LEMMA MergeIsList ==
    ASSUME NEW base \in Seq(Entries), NEW over \in Seq(Entries)
    PROVE  MergeFlat(base, over) \in Seq(Entries)
  <1> DEFINE kept == [i \in DOMAIN base |->
                        IF base[i].surface \in SurfacesOf(over)
                        THEN Overridden(base[i], EntryOf(over, base[i].surface)) ELSE base[i]]
             added == [i \in DOMAIN over |-> IF over[i].surface \in SurfacesOf(base) THEN <<>> ELSE <<over[i]>>]
  <1>1. /\ Len(base) \in Nat /\ DOMAIN base = 1 .. Len(base) /\ \A i \in DOMAIN base : base[i] \in Entries
        /\ Len(over) \in Nat /\ DOMAIN over = 1 .. Len(over) /\ \A i \in DOMAIN over : over[i] \in Entries
    BY LenProperties, ElementOfSeq
  <1>2. ASSUME NEW lower \in Entries, NEW higher \in Entries PROVE Overridden(lower, higher) \in Entries
    <2>1. lower.rules \in Seq(PatternRules) /\ higher.rules \in Seq(PatternRules)
      BY DEF Entries, PatternRules
    <2>2. Spread(lower.rules, higher.rules) \in Seq(PatternRules)
      BY <2>1, SpreadIsList
    <2> QED
      BY <2>2 DEF Overridden, Entries, PatternRules
  <1>3. kept \in [1 .. Len(base) -> Entries]
    BY <1>1, <1>2, EntryFound
  <1>4. added \in [1 .. Len(over) -> Seq(Entries)]
    BY <1>1
  <1>5. kept \in Seq(Entries) /\ added \in Seq(Seq(Entries))
    BY <1>1, <1>3, <1>4, FunctionIsList
  <1>6. FlattenSeq(added) \in Seq(Entries)
    BY <1>5, Flattened
  <1>7. MergeFlat(base, over) = kept \o FlattenSeq(added)
    BY DEF MergeFlat
  <1> QED
    BY <1>5, <1>6, <1>7, ConcatProperties

(* A list that starts with a rule for everything, of patterns of the files. *)
WellComposed(rules) ==
    /\ Len(rules) \in Nat /\ DOMAIN rules = 1 .. Len(rules) /\ 1 \in DOMAIN rules
    /\ rules[1].surface = Anything /\ rules[1].pattern = Anything
    /\ \A i \in DOMAIN rules : rules[i].pattern \in Patterns

LEMMA ComposeIsList ==
    ASSUME NEW merged \in Seq(Entries) PROVE WellComposed(Compose(merged))
  <1> DEFINE R == [surface : STRING, pattern : Patterns, action : Actions]
             Of(i) == IF merged[i].surface = Anything THEN <<>>
                      ELSE [j \in DOMAIN merged[i].rules |->
                              [surface |-> merged[i].surface, pattern |-> merged[i].rules[j].pattern,
                               action |-> merged[i].rules[j].action]]
             lists == [i \in DOMAIN merged |-> Of(i)]
             default == DefaultRule(merged)
  <1>1. Len(merged) \in Nat /\ DOMAIN merged = 1 .. Len(merged) /\ \A i \in DOMAIN merged : merged[i] \in Entries
    BY LenProperties, ElementOfSeq
  <1>2. ASSUME NEW i \in DOMAIN merged PROVE Of(i) \in Seq(R)
    <2> DEFINE rules == merged[i].rules
    <2>1. merged[i].surface \in STRING /\ rules \in Seq(PatternRules)
      BY <1>1 DEF Entries, PatternRules
    <2>2. Len(rules) \in Nat /\ DOMAIN rules = 1 .. Len(rules) /\ \A j \in DOMAIN rules : rules[j] \in PatternRules
      BY <2>1, LenProperties, ElementOfSeq
    <2>3. CASE merged[i].surface = Anything
      BY <2>3, EmptySeq
    <2>4. CASE merged[i].surface # Anything
      <3>1. Of(i) \in [1 .. Len(rules) -> R]
        BY <2>1, <2>2, <2>4 DEF PatternRules
      <3> HIDE DEF Of, R
      <3> QED
        BY <2>2, <3>1, FunctionIsList
    <2> QED
      BY <2>3, <2>4
  <1> HIDE DEF R, Of
  <1>3. lists \in [1 .. Len(merged) -> Seq(R)]
    BY <1>1, <1>2
  <1>4. FlattenSeq(lists) \in Seq(R)
    BY <1>1, <1>3, FunctionIsList, Flattened
  <1>5. Compose(merged) = <<default>> \o FlattenSeq(lists)
    BY DEF Compose, ConfigRules, Of
  <1>6. default.surface = Anything /\ default.pattern = Anything /\ Anything \in Patterns
    BY TextsAssumption DEF DefaultRule
  <1> HIDE DEF default, lists
  <1>7. ASSUME NEW tail \in Seq(R) PROVE WellComposed(<<default>> \o tail)
    <2> DEFINE rules == <<default>> \o tail
    <2>1. /\ Len(tail) \in Nat /\ Len(rules) = 1 + Len(tail) /\ DOMAIN rules = 1 .. 1 + Len(tail)
          /\ rules[1] = default /\ \A i \in 1 .. Len(tail) : tail[i] \in R
      OBVIOUS
    <2>2. \A i \in DOMAIN rules : i # 1 => rules[i] = tail[i - 1] /\ i - 1 \in 1 .. Len(tail)
      BY <2>1
    <2> HIDE DEF rules
    <2> QED
      BY <1>6, <2>1, <2>2 DEF WellComposed, rules, R
  <1> QED
    BY <1>4, <1>5, <1>7

LEMMA FlooredIsList ==
    ASSUME NEW rules, WellComposed(rules) PROVE WellComposed(FloorAllowsToAsk(rules))
  <1> DEFINE floored == FloorAllowsToAsk(rules)
  <1>1. /\ DOMAIN floored = DOMAIN rules
        /\ \A i \in DOMAIN rules : floored[i].surface = rules[i].surface /\ floored[i].pattern = rules[i].pattern
    BY DEF FloorAllowsToAsk
  <1>2. floored \in Seq({floored[i] : i \in DOMAIN rules})
    BY <1>1, FunctionIsList DEF WellComposed, FloorAllowsToAsk
  <1>3. Len(floored) = Len(rules)
    BY <1>1, <1>2, LenProperties DEF WellComposed
  <1> QED
    BY <1>1, <1>3 DEF WellComposed

(* Whatever the files say, so are the rules. *)
LEMMA RulesAreList ==
    ASSUME NEW texts PROVE WellComposed(ComposedRules(texts))
  <1> DEFINE permissions == [i \in DOMAIN LoadOrder |-> ScopePermission(texts[LoadOrder[i]])]
  <1>1. \A text : ScopePermission(text) \in Seq(Entries)
    BY TextsAssumption, EmptySeq DEF ScopePermission
  <1>2. DOMAIN LoadOrder = 1 .. 4
    BY DEF LoadOrder
  <1>3. \A i \in 1 .. 4 : permissions[i] \in Seq(Entries)
    BY <1>1, <1>2
  <1> HIDE DEF permissions
  <1>4. MergeScopes(permissions) \in Seq(Entries)
    BY <1>3, MergeIsList DEF MergeScopes
  <1>5. WellComposed(Compose(MergeScopes(permissions)))
    BY <1>4, ComposeIsList
  <1> QED
    BY <1>5, FlooredIsList DEF ComposedRules, permissions

-----------------------------------------------------------------------------
(***************************************************************************)
(* The values that are probed stand for all that may be asked.             *)
(***************************************************************************)
(* The rules that apply to a value. *)
Applying(surface, value, rules) == {i \in DOMAIN rules : RuleMatches(rules[i], surface, value)}

LEMMA EvaluateByLast ==
    ASSUME NEW surface, NEW v, NEW w, NEW rules, NEW i \in Applying(surface, v, rules),
           i \in Applying(surface, w, rules), DOMAIN rules \subseteq Int,
           Applying(surface, w, rules) \subseteq Applying(surface, v, rules),
           \A j \in Applying(surface, v, rules) : j <= i
    PROVE  Evaluate(surface, v, rules) = Evaluate(surface, w, rules)
  <1> DEFINE LastOf(S) == {k \in S : \A j \in S : j <= k}
             V == Applying(surface, v, rules)
             W == Applying(surface, w, rules)
  <1>1. V \subseteq Int /\ W \subseteq V
    BY DEF Applying
  <1>2. Evaluate(surface, v, rules) = IF LastOf(V) = {} THEN "ask" ELSE rules[CHOOSE k \in LastOf(V) : TRUE].action
    BY DEF Evaluate, Applying
  <1>3. Evaluate(surface, w, rules) = IF LastOf(W) = {} THEN "ask" ELSE rules[CHOOSE k \in LastOf(W) : TRUE].action
    BY DEF Evaluate, Applying
  <1>4. LastOf(V) = {i} /\ LastOf(W) = {i}
    <2> HIDE DEF V, W
    <2>1. i \in V /\ i \in W /\ \A j \in V : j <= i
      BY DEF V, W
    <2>2. ASSUME NEW S \in SUBSET V, i \in S PROVE LastOf(S) = {i}
      <3>1. \A k \in LastOf(S) : i <= k /\ k <= i /\ k \in Int /\ i \in Int
        BY <1>1, <2>1, <2>2
      <3>2. i \in LastOf(S)
        BY <2>1, <2>2
      <3> QED
        BY <3>1, <3>2
    <2> QED
      BY <1>1, <2>1, <2>2
  <1> QED
    BY <1>2, <1>3, <1>4

(* isSurfaceFullyDenied(), which asks about the patterns alone, is right   *)
(* about everything that may be asked of the tool.                         *)
THEOREM ProbesAreExact ==
    ASSUME PatternLaws, NEW rules, WellComposed(rules), NEW t
    PROVE  Usable(t, rules) <=> ~IsSurfaceFullyDenied(t, rules)
  <1>1. ASSUME NEW v \in Values, Evaluate(t, v, rules) # "deny"
        PROVE  \E p \in ProbeValues(t, rules) : Evaluate(t, p, rules) # "deny"
    <2> DEFINE V == Applying(t, v, rules)
               n == Len(rules)
               Back == {n - i : i \in V}
    <2>1. 1 \in V /\ V \subseteq 1 .. n /\ n \in Nat
      BY DEF Applying, WellComposed, PatternLaws, RuleMatches, Reaches
    <2>2. \E i \in V : \A j \in V : j <= i
      <3> HIDE DEF V, n
      <3>1. Back \in SUBSET Nat /\ Back # {}
        BY <2>1
      <3>2. PICK b \in Back : \A c \in Back : b <= c
        <4> HIDE DEF Back
        <4> QED
          BY <3>1, LeastOf
      <3>3. PICK i \in V : b = n - i
        OBVIOUS
      <3>4. ASSUME NEW j \in V PROVE j <= i
        <4>1. n - i <= n - j
          BY <3>2, <3>3
        <4> QED
          BY <2>1, <4>1
      <3> QED
        BY <3>4
    <2>3. PICK i \in V : \A j \in V : j <= i
      BY <2>2
    <2> DEFINE p == rules[i].pattern
    <2>4. i \in DOMAIN rules /\ Reaches(rules[i], t) /\ <<p, v>> \in Matches /\ p \in Patterns
      BY <2>3 DEF Applying, RuleMatches, WellComposed
    <2>5. p \in ProbeValues(t, rules)
      BY <2>4 DEF ProbeValues
    <2>6. i \in Applying(t, p, rules)
      BY <2>4 DEF Applying, RuleMatches, PatternLaws
    <2>7. ASSUME NEW j \in Applying(t, p, rules) PROVE j \in V
      <3>1. j \in DOMAIN rules /\ rules[j].pattern \in Patterns /\ <<rules[j].pattern, p>> \in Matches /\ Reaches(rules[j], t)
        BY DEF Applying, RuleMatches, WellComposed
      <3>2. <<rules[j].pattern, v>> \in Matches
        BY <2>4, <3>1 DEF PatternLaws
      <3> QED
        BY <3>1, <3>2 DEF Applying, RuleMatches
    <2>8. DOMAIN rules \subseteq Int
      BY DEF WellComposed
    <2>9. Evaluate(t, v, rules) = Evaluate(t, p, rules)
      <3> HIDE DEF p
      <3> QED
        BY <2>3, <2>6, <2>7, <2>8, EvaluateByLast
    <2> QED
      BY <1>1, <2>5, <2>9
  <1>2. ASSUME NEW p \in ProbeValues(t, rules), Evaluate(t, p, rules) # "deny"
        PROVE  \E v \in Values : Evaluate(t, v, rules) # "deny"
    <2>1. p \in Patterns
      BY TextsAssumption DEF ProbeValues, WellComposed
    <2>2. PICK v \in Values : \A q \in Patterns : <<q, v>> \in Matches <=> <<q, p>> \in Matches
      BY <2>1 DEF PatternLaws
    <2>3. \A i \in DOMAIN rules : RuleMatches(rules[i], t, v) <=> RuleMatches(rules[i], t, p)
      BY <2>2 DEF RuleMatches, WellComposed
    <2> DEFINE LastOf(S) == {i \in S : \A j \in S : j <= i}
               Chosen(S) == IF LastOf(S) = {} THEN "ask" ELSE rules[CHOOSE i \in LastOf(S) : TRUE].action
    <2>4. Applying(t, v, rules) = Applying(t, p, rules)
      BY <2>3 DEF Applying
    <2>5. Evaluate(t, v, rules) = Evaluate(t, p, rules)
      <3>1. \A w : Evaluate(t, w, rules) = Chosen(Applying(t, w, rules))
        BY DEF Evaluate, Applying
      <3> QED
        BY <2>4, <3>1
    <2> QED
      BY <1>2, <2>5
  <1> QED
    BY <1>1, <1>2 DEF Usable, IsSurfaceFullyDenied

-----------------------------------------------------------------------------
(***************************************************************************)
(* The tools: SurfaceInv is an invariant, given CacheInv.                  *)
(***************************************************************************)
LEMMA SurfaceInit == Init => SurfaceInv
  <1> SUFFICES ASSUME Init PROVE SurfaceInv
    OBVIOUS
  <1> USE DEF Init
  <1>1. SurfaceTypes
    BY DEF SurfaceTypes
  <1>2. ToolsFit
    BY DEF ToolsFit, Rebuilt
  <1>3. TurnFits /\ CalmQuery /\ CalmTurn /\ CalmSurface
    BY DEF TurnFits, CalmQuery, CalmTurn, CalmSurface
  <1> QED
    BY <1>1, <1>2, <1>3 DEF SurfaceInv

(* What is denied depends on the files, on who is asked about and on the   *)
(* directory of the project alone.                                         *)
LEMMA HiddenRests ==
    ASSUME UNCHANGED <<disk, hasProject, knownAgent>>, NEW t
    PROVE  Hidden(t)' <=> Hidden(t)
  <1>1. Now' = Now
    BY DEF Now, Consulted
  <1> QED
    BY <1>1 DEF Hidden

(* A step that touches no tool, no turn and no file keeps all but what is  *)
(* said of the query.                                                      *)
LEMMA QueryKeepsSurface ==
    ASSUME SurfaceInv, UNCHANGED <<disk, hasProject, toolVars, turnVars, calm>>, phantom \subseteq phantom',
           query' # NoQuery /\ turn # NoTurn => query'.key = knownAgent
    PROVE  SurfaceTypes' /\ ToolsFit' /\ TurnFits' /\ CalmTurn' /\ CalmSurface'
  <1> USE DEF toolVars, turnVars
  <1>1. SurfaceTypes' /\ ToolsFit' /\ TurnFits'
    BY DEF SurfaceInv, SurfaceTypes, ToolsFit, TurnFits, Rebuilt
  <1>2. CalmTurn'
    BY HiddenRests DEF SurfaceInv, CalmTurn
  <1>3. CalmSurface'
    BY HiddenRests DEF SurfaceInv, CalmSurface
  <1> QED
    BY <1>1, <1>2, <1>3

LEMMA StampKeepsSurface ==
    ASSUME CacheInv, SurfaceInv, TakeStamp
    PROVE  SurfaceInv'
  <1> USE DEF diskVars, cacheVars
  <1> DEFINE s == NextIn(StampOrder, query.todo)
             stamps == [query.stamps EXCEPT ![s] = stamp[s]]
             left == query.todo \ {s}
  <1>1. query \in Queries /\ query # NoQuery /\ query.step = "stamp" /\ query.key \in Keys
    BY DEF TakeStamp, CacheInv, Types, NoQuery, Queries
  <1>2. s \in query.todo /\ s \in Scopes /\ query.todo \subseteq Consulted(query.key)
    BY <1>1, NextIsLeft DEF CacheInv, QueryFits, Queries
  <1>3. UNCHANGED <<disk, stamp, hasProject, resolved, phantom, toolVars, turnVars, calm>>
    BY DEF TakeStamp
  <1>4. /\ stamps \in [Scopes -> Nat] /\ Consulted(query.key) \subseteq Scopes
        /\ stamps[s] = stamp[s] /\ \A r \in Scopes \ {s} : stamps[r] = query.stamps[r]
    BY <1>1, <1>2, ConsultedAre DEF CacheInv, Types, Queries
  <1>5. \/ left # {} /\ query' = [query EXCEPT !.stamps = stamps, !.todo = left]
        \/ left = {} /\ resolved[query.key].stamp = stamps /\
           query' = [query EXCEPT !.stamps = stamps, !.todo = left, !.step = "answered",
                                  !.texts = resolved[query.key].texts]
        \/ left = {} /\ query' = [query EXCEPT !.stamps = stamps, !.todo = Consulted(query.key), !.step = "stat"]
    BY <1>1 DEF TakeStamp, Queries
  <1> HIDE DEF s, stamps, left
  <1>6. query' # NoQuery /\ query'.key = query.key /\ query'.stamps = stamps /\ query'.step # "read"
    BY <1>1, <1>5 DEF Queries, NoQuery
  <1>7. SurfaceTypes' /\ ToolsFit' /\ TurnFits' /\ CalmTurn' /\ CalmSurface'
    BY <1>1, <1>3, <1>6, QueryKeepsSurface DEF SurfaceInv, TurnFits
  <1>8. CalmQuery'
    <2> SUFFICES ASSUME calm, turn # NoTurn PROVE CalmQuery'
      BY <1>3 DEF CalmQuery, turnVars
    <2>1. query.key = knownAgent /\ Consulted(knownAgent)' = Consulted(query.key) /\ knownAgent' = knownAgent
      BY <1>1, <1>3 DEF SurfaceInv, TurnFits, Consulted, turnVars
    <2>2. \A r \in Consulted(query.key) \ left : stamps[r] = stamp[r]
      BY <1>1, <1>4, <2>1 DEF SurfaceInv, CalmQuery, Passed, left
    <2>3. CASE left # {} /\ query' = [query EXCEPT !.stamps = stamps, !.todo = left]
      <3>1. query'.todo = left /\ query'.step = "stamp"
        BY <1>1, <2>3 DEF Queries
      <3>2. Passed' = Consulted(query.key) \ left
        BY <1>6, <2>1, <3>1 DEF Passed
      <3> QED
        BY <1>3, <1>6, <2>1, <2>2, <3>1, <3>2 DEF CalmQuery
    <2>4. CASE /\ left = {} /\ resolved[query.key].stamp = stamps
               /\ query' = [query EXCEPT !.stamps = stamps, !.todo = left, !.step = "answered",
                                         !.texts = resolved[query.key].texts]
      <3>1. query'.todo = {} /\ query'.step = "answered" /\ query'.texts = resolved[query.key].texts
        BY <1>1, <2>4 DEF Queries
      <3>2. Passed' = Consulted(query.key)
        BY <1>6, <2>1, <3>1 DEF Passed
      <3>3. resolved[query.key] # NoPolicy
        <4>1. DOMAIN stamps = Scopes /\ Scopes # {} /\ DOMAIN NoPolicy.stamp = {}
          BY <1>4, ScopesAre DEF NoPolicy
        <4> QED
          BY <2>4, <4>1
      <3>4. ASSUME NEW r \in Consulted(query.key)
            PROVE  r \in phantom \/ resolved[query.key].texts[r] = disk[r]
        <4>1. Holds(r, stamp[r], resolved[query.key].texts[r])
          BY <1>1, <2>2, <2>4, <3>3 DEF CacheInv, PoliciesHold
        <4>2. stamp[r] = Missing <=> disk[r] = "absent"
          BY <1>4 DEF CacheInv, Stamped
        <4> QED
          BY <4>1, <4>2 DEF Holds
      <3> QED
        BY <1>3, <1>6, <2>1, <2>2, <2>4, <3>1, <3>2, <3>4 DEF CalmQuery
    <2>5. CASE left = {} /\ query' = [query EXCEPT !.stamps = stamps, !.todo = Consulted(query.key), !.step = "stat"]
      <3>1. query'.todo = Consulted(query.key) /\ query'.step = "stat"
        BY <1>1, <2>5 DEF Queries
      <3>2. Passed' = {}
        BY <1>6, <2>1, <3>1 DEF Passed
      <3> QED
        BY <1>3, <1>6, <2>1, <2>2, <2>5, <3>1, <3>2 DEF CalmQuery
    <2> QED
      BY <1>5, <2>3, <2>4, <2>5
  <1> QED
    BY <1>7, <1>8 DEF SurfaceInv

(* A loaded text is what the file says now, if nothing was edited. *)
LEMMA LoadKeepsSurface ==
    ASSUME CacheInv, SurfaceInv, query \in Queries, query.step \in {"stat", "exists", "read"},
           NEW s, s = NextIn(LoadOrder, query.todo), NEW text, Loaded(s, text), UNCHANGED diskVars,
           calm /\ turn # NoTurn => s \in phantom' \/ text = disk[s]
    PROVE  SurfaceInv'
  <1> USE DEF diskVars
  <1> DEFINE left == query.todo \ {s}
             texts == [query.texts EXCEPT ![s] = text]
  <1>1. query # NoQuery /\ query.key \in Keys /\ query.todo # {}
    BY DEF NoQuery, Queries, CacheInv, QueryFits
  <1>2. s \in query.todo /\ s \in Scopes /\ query.todo \subseteq Consulted(query.key)
    BY <1>1, NextIsLeft DEF CacheInv, QueryFits, Queries
  <1>3. UNCHANGED <<disk, stamp, hasProject, seen, toolVars, turnVars, calm>> /\ phantom \subseteq phantom'
    BY DEF Loaded
  <1>4. /\ texts[s] = text /\ (\A r \in Scopes \ {s} : texts[r] = query.texts[r])
        /\ Consulted(query.key) \subseteq Scopes
    BY <1>2, ConsultedAre DEF Queries
  <1>5. \E now \in {"stat", "answered"} :
            query' = [query EXCEPT !.step = now, !.todo = left, !.texts = texts]
    BY DEF Loaded, Queries
  <1> HIDE DEF texts, left
  <1>6. /\ query' # NoQuery /\ query'.key = query.key /\ query'.stamps = query.stamps
        /\ query'.todo = left /\ query'.texts = texts /\ query'.step \in {"stat", "answered"}
    BY <1>1, <1>5 DEF Queries, NoQuery
  <1>7. SurfaceTypes' /\ ToolsFit' /\ TurnFits' /\ CalmTurn' /\ CalmSurface'
    BY <1>1, <1>3, <1>6, QueryKeepsSurface DEF SurfaceInv, TurnFits
  <1>8. CalmQuery'
    <2> SUFFICES ASSUME calm, turn # NoTurn PROVE CalmQuery'
      BY <1>3 DEF CalmQuery, turnVars
    <2>1. query.key = knownAgent /\ Consulted(query.key)' = Consulted(query.key) /\ knownAgent' = knownAgent
      BY <1>1, <1>3, <1>6 DEF SurfaceInv, TurnFits, Consulted, turnVars
    <2>2. \A r \in Consulted(knownAgent) : query.stamps[r] = stamp[r]
      BY <1>1 DEF SurfaceInv, CalmQuery
    <2>3. Passed' = Consulted(query.key) \ left
      BY <1>6, <2>1 DEF Passed
    <2>4. ASSUME NEW r \in Consulted(query.key) \ left PROVE r \in phantom' \/ texts[r] = disk[r]
      <3>1. CASE r = s
        BY <1>4, <3>1
      <3>2. CASE r # s
        BY <1>1, <1>3, <1>4, <2>1, <2>4, <3>2 DEF SurfaceInv, CalmQuery, Passed, left
      <3> QED
        BY <3>1, <3>2
    <2>5. Consulted(knownAgent)' = Consulted(query.key)
      BY <1>6, <2>1, <1>3 DEF Consulted
    <2> QED
      BY <1>3, <1>6, <2>1, <2>2, <2>3, <2>4, <2>5 DEF CalmQuery
  <1> QED
    BY <1>7, <1>8 DEF SurfaceInv

(* A file is read only where it is, if nothing was edited. *)
LEMMA LookKeepsSurface ==
    ASSUME CacheInv, SurfaceInv, query \in Queries, query.step \in {"stat", "exists"},
           NEW next \in {"exists", "read"}, NEW at,
           query' = [query EXCEPT !.step = next, !.at = at],
           UNCHANGED <<diskVars, hasProject, phantom, toolVars, turnVars, calm>>,
           next = "read" => disk[NextIn(LoadOrder, query.todo)] # "absent"
    PROVE  SurfaceInv'
  <1> USE DEF diskVars
  <1>1. query # NoQuery
    BY DEF NoQuery, Queries
  <1>2. /\ query' # NoQuery /\ query'.step = next /\ query'.key = query.key
        /\ query'.todo = query.todo /\ query'.stamps = query.stamps /\ query'.texts = query.texts
    BY DEF Queries, NoQuery
  <1>3. SurfaceTypes' /\ ToolsFit' /\ TurnFits' /\ CalmTurn' /\ CalmSurface'
    BY <1>1, <1>2, QueryKeepsSurface DEF SurfaceInv, TurnFits
  <1>4. Passed' = Passed /\ Consulted(knownAgent)' = Consulted(knownAgent)
    BY <1>2 DEF Consulted, Passed, turnVars
  <1>5. CalmQuery'
    BY <1>1, <1>2, <1>4 DEF SurfaceInv, CalmQuery, turnVars
  <1> QED
    BY <1>3, <1>5 DEF SurfaceInv

LEMMA StatKeepsSurface ==
    ASSUME CacheInv, SurfaceInv, Stat PROVE SurfaceInv'
  <1> DEFINE s == NextIn(LoadOrder, query.todo)
  <1>1. query \in Queries /\ query # NoQuery /\ query.step = "stat" /\ query.todo # {}
    BY DEF Stat, CacheInv, Types, NoQuery, Queries, QueryFits
  <1>2. s \in query.todo /\ s \in Scopes
    BY <1>1, NextIsLeft DEF Queries
  <1>3. stamp[s] \in Nat /\ (stamp[s] = Missing <=> disk[s] = "absent")
    BY <1>1, <1>2 DEF CacheInv, Types, Stamped
  <1> HIDE DEF s
  <1>4. CASE /\ fileCache[s].stamp = stamp[s] /\ UNCHANGED fileCache /\ Loaded(s, fileCache[s].text)
    <2>1. fileCache[s] # NoText
      BY <1>2, <1>3, <1>4 DEF CacheInv, Types, NoText
    <2>2. Holds(s, stamp[s], fileCache[s].text)
      BY <1>2, <1>4, <2>1 DEF CacheInv, FilesHold
    <2>3. s \in phantom' \/ fileCache[s].text = disk[s]
      BY <1>3, <1>4, <2>2 DEF Holds, Loaded
    <2> QED
      BY <1>1, <1>4, <2>3, LoadKeepsSurface DEF s, Loaded
  <1>5. CASE /\ stamp[s] = Missing /\ Cached(s, Missing, "absent") /\ Loaded(s, "absent")
    BY <1>1, <1>3, <1>5, LoadKeepsSurface DEF s, Loaded
  <1>6. CASE /\ s \in AgentScopes => stamp[s] # Missing
             /\ query' = [query EXCEPT !.step = IF s \in AgentScopes THEN "read" ELSE "exists", !.at = stamp[s]]
             /\ UNCHANGED <<diskVars, trusted, hasProject, cacheVars, seen, toolVars, turnVars, calm>>
    <2>1. CASE s \in AgentScopes
      BY <1>1, <1>3, <1>6, <2>1, LookKeepsSurface DEF s, cacheVars
    <2>2. CASE s \notin AgentScopes
      BY <1>1, <1>6, <2>2, LookKeepsSurface DEF cacheVars
    <2> QED
      BY <2>1, <2>2
  <1> QED
    BY <1>4, <1>5, <1>6 DEF Stat, s

LEMMA ReadsKeepSurface ==
    ASSUME CacheInv, SurfaceInv, Exists \/ Read PROVE SurfaceInv'
  <1> DEFINE s == NextIn(LoadOrder, query.todo)
  <1>1. query \in Queries /\ query # NoQuery /\ query.step \in {"exists", "read"}
    BY DEF Exists, Read, CacheInv, Types, NoQuery, Queries
  <1>2. CASE Exists /\ disk[s] = "absent"
    <2>1. Loaded(s, "absent")
      BY <1>2 DEF Exists
    <2> HIDE DEF s
    <2> QED
      BY <1>1, <1>2, <2>1, LoadKeepsSurface DEF s, Loaded
  <1>3. CASE Exists /\ disk[s] # "absent"
    <2>1. /\ query' = [query EXCEPT !.step = "read", !.at = query.at]
          /\ UNCHANGED <<diskVars, trusted, hasProject, cacheVars, seen, toolVars, turnVars, calm>>
      BY <1>1, <1>3 DEF Exists, Queries
    <2> QED
      BY <1>1, <1>3, <2>1, LookKeepsSurface DEF cacheVars, Exists
  <1>4. CASE Read
    <2> DEFINE text == IF disk[s] = "absent" THEN "unreadable" ELSE disk[s]
    <2>1. Loaded(s, text)
      BY <1>4 DEF Read
    <2>2. calm /\ turn # NoTurn => text = disk[s]
      BY <1>1, <1>4 DEF Read, SurfaceInv, CalmQuery
    <2> HIDE DEF s, text
    <2> QED
      BY <1>1, <2>1, <2>2, LoadKeepsSurface DEF s, Loaded
  <1> QED
    BY <1>2, <1>3, <1>4

(* Asking and being answered leave the tools alone. *)
LEMMA AskKeepsSurface ==
    ASSUME SurfaceInv, NEW key, BeginQuery(key), turn # NoTurn => key = knownAgent,
           UNCHANGED <<diskVars, hasProject, phantom, toolVars, turnVars, calm>>
    PROVE  SurfaceInv'
  <1> USE DEF diskVars
  <1>1. /\ query' # NoQuery /\ query'.step = "stamp" /\ query'.key = key
        /\ query'.todo = Range(StampOrder) \cap Consulted(key)
    BY DEF BeginQuery, NoQuery
  <1>2. SurfaceTypes' /\ ToolsFit' /\ TurnFits' /\ CalmTurn' /\ CalmSurface'
    BY <1>1, QueryKeepsSurface
  <1>3. CalmQuery'
    <2>1. Passed' = {}
      BY <1>1, ScopesAre, ConsultedAre DEF Passed, Consulted
    <2> QED
      BY <1>1, <2>1 DEF CalmQuery
  <1> QED
    BY <1>2, <1>3 DEF SurfaceInv

LEMMA AnswerKeepsSurface ==
    ASSUME SurfaceInv, Answer PROVE SurfaceInv'
  <1>1. query' = NoQuery /\ UNCHANGED <<disk, hasProject, phantom, toolVars, turnVars, calm>>
    BY DEF Answer, diskVars, cacheVars
  <1>2. SurfaceTypes' /\ ToolsFit' /\ TurnFits' /\ CalmTurn' /\ CalmSurface'
    BY <1>1, QueryKeepsSurface
  <1> QED
    BY <1>1, <1>2 DEF SurfaceInv, CalmQuery

(* The answer to a calm turn is that of the files. *)
LEMMA CalmAnswers ==
    ASSUME CacheInv, SurfaceInv, calm, turn # NoTurn, phantom = {}, query.step = "answered"
    PROVE  query.texts = Now
  <1>1. query # NoQuery /\ query \in Queries /\ query.todo = {}
    BY DEF CacheInv, Types, QueryFits, NoQuery
  <1>2. query.key = knownAgent /\ Passed = Consulted(knownAgent)
    BY <1>1 DEF SurfaceInv, TurnFits, Passed
  <1>3. query.texts \in [Scopes -> Readable] /\ Consulted(knownAgent) \subseteq Scopes
    BY <1>1, ConsultedAre DEF Queries
  <1>4. \A s \in Consulted(knownAgent) : query.texts[s] = disk[s]
    BY <1>1, <1>2 DEF SurfaceInv, CalmQuery
  <1>5. \A s \in Scopes \ Consulted(knownAgent) : query.texts[s] = "absent"
    BY <1>1, <1>2 DEF CacheInv, QueryFits
  <1> QED
    BY <1>3, <1>4, <1>5 DEF Now

LEMMA HearKeepsSurface ==
    ASSUME CacheInv, SurfaceInv, HearAboutTool PROVE SurfaceInv'
  <1> DEFINE Denied(t) == IsSurfaceFullyDenied(t, ComposedRules(query.texts))
  <1>1. /\ turn # NoTurn /\ turn \in Turns /\ query' = NoQuery
        /\ UNCHANGED <<disk, hasProject, knownAgent, phantom, toolVars, baseline, withheld, calm>>
    BY DEF HearAboutTool, SurfaceInv, SurfaceTypes, NoTurn, diskVars, cacheVars
  <1>2. PICK t \in turn.todo :
            turn' = IF Denied(t)
                    THEN [turn EXCEPT !.todo = @ \ {t}, !.withheld = @ \cup {t}]
                    ELSE [turn EXCEPT !.todo = @ \ {t}, !.exposed = @ \cup {t}]
    BY DEF HearAboutTool
  <1>3. t \in Tools /\ turn.todo \subseteq Tools
    BY <1>1, <1>2 DEF Turns
  <1>4. calm /\ phantom = {} => (Denied(t) <=> Hidden(t))
    BY <1>1, CalmAnswers DEF Hidden, HearAboutTool
  <1> HIDE DEF Denied
  <1>5. /\ turn' \in Turns /\ turn' # NoTurn
        /\ turn'.todo = turn.todo \ {t}
        /\ turn'.withheld = IF Denied(t) THEN turn.withheld \cup {t} ELSE turn.withheld
        /\ turn'.exposed = IF Denied(t) THEN turn.exposed ELSE turn.exposed \cup {t}
    <2>1. CASE Denied(t)
      BY <1>1, <1>2, <1>3, <2>1 DEF Turns, NoTurn
    <2>2. CASE ~Denied(t)
      BY <1>1, <1>2, <1>3, <2>2 DEF Turns, NoTurn
    <2> QED
      BY <2>1, <2>2
  <1>6. SurfaceTypes' /\ ToolsFit' /\ Rebuilt' = Rebuilt
    BY <1>1, <1>5 DEF SurfaceInv, SurfaceTypes, ToolsFit, Rebuilt, toolVars
  <1>7. TurnFits'
    BY <1>1, <1>2, <1>5, <1>6 DEF SurfaceInv, TurnFits
  <1>8. CalmTurn'
    BY <1>1, <1>2, <1>4, <1>5, HiddenRests DEF SurfaceInv, CalmTurn
  <1>9. CalmQuery' /\ CalmSurface'
    BY <1>1, <1>5 DEF CalmQuery, CalmSurface
  <1> QED
    BY <1>6, <1>7, <1>8, <1>9 DEF SurfaceInv

LEMMA BeginTurnKeepsSurface ==
    ASSUME SurfaceInv, BeginTurn PROVE SurfaceInv'
  <1>1. /\ turn' = [step |-> "asking", todo |-> Rebuilt, exposed |-> {}, withheld |-> {}]
        /\ calm' = TRUE /\ query' = NoQuery
        /\ UNCHANGED <<toolVars, baseline, withheld>>
    BY DEF BeginTurn
  <1>2. Rebuilt \subseteq Tools /\ Rebuilt' = Rebuilt
    BY <1>1 DEF SurfaceInv, SurfaceTypes, Rebuilt, toolVars
  <1>3. SurfaceTypes' /\ ToolsFit'
    BY <1>1, <1>2 DEF SurfaceInv, SurfaceTypes, ToolsFit, Turns, toolVars
  <1>4. TurnFits' /\ CalmTurn' /\ CalmQuery' /\ CalmSurface'
    BY <1>1, <1>2 DEF TurnFits, CalmTurn, CalmQuery, CalmSurface, NoTurn
  <1> QED
    BY <1>3, <1>4 DEF SurfaceInv

(* The baseline a turn leaves behind is the one it started from. *)
LEMMA EndTurnKeepsSurface ==
    ASSUME SurfaceInv, EndTurn PROVE SurfaceInv'
  <1>1. /\ turn # NoTurn /\ turn \in Turns /\ turn.todo = {} /\ turn' = NoTurn
        /\ active' = turn.exposed /\ baseline' = turn.exposed \cup turn.withheld /\ withheld' = turn.withheld
        /\ UNCHANGED <<disk, hasProject, knownAgent, phantom, registered, intended, calm>>
    BY DEF EndTurn, SurfaceInv, SurfaceTypes, NoTurn, diskVars, cacheVars
  <1>2. /\ turn.exposed \cup turn.withheld = intended
        /\ turn.exposed \cap turn.withheld = {}
    BY <1>1 DEF SurfaceInv, TurnFits, ToolsFit
  <1>3. intended \subseteq registered /\ registered \subseteq Tools
    BY DEF SurfaceInv, SurfaceTypes
  <1>4. SurfaceTypes'
    BY <1>1, <1>2, <1>3 DEF SurfaceInv, SurfaceTypes
  <1>5. ToolsFit'
    BY <1>1, <1>2, <1>3 DEF ToolsFit, Rebuilt
  <1>6. CalmSurface'
    BY <1>1, <1>2, HiddenRests DEF SurfaceInv, CalmTurn, CalmSurface
  <1>7. TurnFits' /\ CalmQuery' /\ CalmTurn'
    BY <1>1 DEF TurnFits, CalmQuery, CalmTurn
  <1> QED
    BY <1>4, <1>5, <1>6, <1>7 DEF SurfaceInv

(* What others do to the tools between the turns they intend. *)
LEMMA OthersKeepSurface ==
    ASSUME SurfaceInv, NEW t \in Tools, Activate(t) \/ Unregister(t) \/ Deactivate(t) \/ Register(t)
    PROVE  SurfaceInv'
  <1>1. /\ turn = NoTurn /\ turn' = NoTurn
        /\ UNCHANGED <<disk, hasProject, knownAgent, phantom, baseline, withheld>>
    BY DEF Activate, Unregister, Deactivate, Register, OthersTouch, turnVars, diskVars, cacheVars
  <1>2. SurfaceTypes'
    BY <1>1 DEF SurfaceInv, SurfaceTypes, Activate, Unregister, Deactivate, Register
  <1>3. ToolsFit'
    BY <1>1 DEF SurfaceInv, SurfaceTypes, ToolsFit, Rebuilt, Activate, Unregister, Deactivate, Register
  <1>4. CalmSurface'
    BY <1>1, HiddenRests DEF SurfaceInv, CalmSurface, Activate, Unregister, Deactivate, Register
  <1>5. TurnFits' /\ CalmQuery' /\ CalmTurn'
    BY <1>1 DEF TurnFits, CalmQuery, CalmTurn
  <1> QED
    BY <1>2, <1>3, <1>4, <1>5 DEF SurfaceInv

(* An edit or a reload ends the calm. *)
LEMMA UncalmKeepsSurface ==
    ASSUME SurfaceInv, calm' = FALSE, UNCHANGED <<query, toolVars, turnVars>> PROVE SurfaceInv'
  <1> USE DEF toolVars, turnVars
  <1>1. SurfaceTypes' /\ ToolsFit' /\ TurnFits'
    BY DEF SurfaceInv, SurfaceTypes, ToolsFit, TurnFits, Rebuilt
  <1> QED
    BY <1>1 DEF SurfaceInv, CalmQuery, CalmTurn, CalmSurface

LEMMA StillKeepsSurface ==
    ASSUME SurfaceInv, UNCHANGED <<diskVars, hasProject, cacheVars, query, toolVars, turnVars, calm>>
    PROVE  SurfaceInv'
  <1> USE DEF diskVars, cacheVars
  <1>1. query' # NoQuery /\ turn # NoTurn => query'.key = knownAgent
    BY DEF SurfaceInv, TurnFits
  <1>2. SurfaceTypes' /\ ToolsFit' /\ TurnFits' /\ CalmTurn' /\ CalmSurface'
    BY <1>1, QueryKeepsSurface
  <1>3. CalmQuery'
    BY DEF SurfaceInv, CalmQuery, Passed, Consulted, turnVars
  <1> QED
    BY <1>2, <1>3 DEF SurfaceInv

LEMMA StepKeepsSurface == CacheInv /\ SurfaceInv /\ [Next]_vars => SurfaceInv'
  <1> SUFFICES ASSUME CacheInv, SurfaceInv, [Next]_vars PROVE SurfaceInv'
    OBVIOUS
  <1>1. ASSUME NEW s \in Editable, Edit(s) PROVE SurfaceInv'
    BY <1>1, UncalmKeepsSurface DEF Edit
  <1>2. ASSUME NEW k \in Keys, Ask(k) PROVE SurfaceInv'
    BY <1>2, AskKeepsSurface DEF Ask, cacheVars
  <1>3. CASE TakeStamp \/ Stat \/ Exists \/ Read
    BY <1>3, StampKeepsSurface, StatKeepsSurface, ReadsKeepSurface
  <1>4. CASE Answer \/ HearAboutTool
    BY <1>4, AnswerKeepsSurface, HearKeepsSurface
  <1>5. CASE AskAboutTool
    BY <1>5, AskKeepsSurface DEF AskAboutTool, cacheVars
  <1>6. CASE Reload
    BY <1>6, UncalmKeepsSurface DEF Reload
  <1>7. CASE BeginTurn \/ EndTurn
    BY <1>7, BeginTurnKeepsSurface, EndTurnKeepsSurface
  <1>8. CASE TrustChanges
    BY <1>8, StillKeepsSurface DEF TrustChanges
  <1>9. ASSUME NEW t \in Tools, Activate(t) \/ Unregister(t) \/ Deactivate(t) \/ Register(t) PROVE SurfaceInv'
    BY <1>9, OthersKeepSurface
  <1>10. CASE UNCHANGED vars
    BY <1>10, StillKeepsSurface DEF vars
  <1> QED
    BY <1>1, <1>2, <1>3, <1>4, <1>5, <1>6, <1>7, <1>8, <1>9, <1>10 DEF Next

LEMMA AlwaysSurfaceInv == Spec => []SurfaceInv
  <1>1. Spec => []CacheInv
    BY AlwaysCacheInv
  <1> QED
    BY <1>1, SurfaceInit, StepKeepsSurface, PTL DEF Spec

(* The tools a turn looks at are those that others want active: what the   *)
(* policy took away in an earlier one is among them, what another          *)
(* extension took away is not (ToolSurfaceBaseline.rebuild()).             *)
THEOREM BaselineKeepsIntent == Spec => []ToolsFit
  <1>1. SurfaceInv => ToolsFit
    BY DEF SurfaceInv
  <1> QED
    BY <1>1, AlwaysSurfaceInv, PTL

(* If wildcardMatch() keeps the laws of PatternLaws, the agent sees the     *)
(* tools others want active less those that the files deny outright, once  *)
(* a turn has begun after the last edit (shouldExposeTool()).              *)
THEOREM SurfaceShowsUsable == PatternLaws /\ Spec => []SurfaceFollowsPolicy
  <1>1. PatternLaws /\ SurfaceInv => SurfaceFollowsPolicy
    <2> SUFFICES ASSUME PatternLaws, SurfaceInv, calm, turn = NoTurn, phantom = {}
                 PROVE  active = {t \in intended : Usable(t, ComposedRules(Now))}
      BY DEF SurfaceFollowsPolicy, Now
    <2>1. active = {t \in intended : ~Hidden(t)}
      BY DEF SurfaceInv, CalmSurface
    <2>2. PICK now : now = Now
      OBVIOUS
    <2>3. \A t \in intended : Usable(t, ComposedRules(now)) <=> ~IsSurfaceFullyDenied(t, ComposedRules(now))
      BY RulesAreList, ProbesAreExact
    <2> QED
      BY <2>1, <2>2, <2>3 DEF Hidden
  <1>2. PatternLaws => PatternLaws'
    OBVIOUS
  <1> QED
    BY <1>1, <1>2, AlwaysSurfaceInv, PTL

(* What TypeOK says beyond the types in CacheInv and SurfaceInv. *)
Bounded == edits \in 1 .. MaxEdits /\ withheld \subseteq baseline

(* Every variable keeps its type. *)
THEOREM TypeCorrect == Spec => []TypeOK
  <1>1. Init => Bounded
    BY TextsAssumption DEF Init, Bounded
  <1>2. CacheInv /\ Bounded /\ [Next]_vars => Bounded'
    <2> SUFFICES ASSUME CacheInv, Bounded, [Next]_vars PROVE Bounded'
      OBVIOUS
    <2> USE DEF Bounded, diskVars, turnVars
    <2>1. ASSUME NEW s \in Editable, Edit(s) PROVE Bounded'
      BY <2>1, TextsAssumption DEF Edit, CacheInv, Types
    <2>2. ASSUME NEW k \in Keys, Ask(k) PROVE Bounded'
      BY <2>2 DEF Ask
    <2>3. CASE TakeStamp \/ Stat \/ Exists \/ Read \/ Answer
      BY <2>3 DEF TakeStamp, Stat, Exists, Read, Answer, Loaded
    <2>4. CASE BeginTurn \/ AskAboutTool \/ HearAboutTool \/ EndTurn
      BY <2>4 DEF BeginTurn, AskAboutTool, HearAboutTool, EndTurn
    <2>5. CASE Reload \/ TrustChanges
      BY <2>5 DEF Reload, TrustChanges
    <2>6. ASSUME NEW t \in Tools, Activate(t) \/ Unregister(t) \/ Deactivate(t) \/ Register(t) PROVE Bounded'
      BY <2>6 DEF Activate, Unregister, Deactivate, Register
    <2>7. CASE UNCHANGED vars
      BY <2>7 DEF vars
    <2> QED
      BY <2>1, <2>2, <2>3, <2>4, <2>5, <2>6, <2>7 DEF Next
  <1>3. CacheInv /\ SurfaceInv /\ Bounded => TypeOK
    <2> SUFFICES ASSUME CacheInv, SurfaceInv, Bounded PROVE TypeOK
      OBVIOUS
    <2>1. query.step \in {"none", "stamp", "stat", "exists", "read", "answered"}
      BY DEF CacheInv, Types, NoQuery, Queries
    <2>2. turn.step \in {"none", "asking"}
      BY DEF SurfaceInv, SurfaceTypes, NoTurn, Turns
    <2> QED
      BY <2>1, <2>2 DEF TypeOK, Bounded, CacheInv, Types, OnDisk, SurfaceInv, SurfaceTypes
  <1>4. Spec => []CacheInv
    BY AlwaysCacheInv
  <1>5. Spec => []SurfaceInv
    BY AlwaysSurfaceInv
  <1> QED
    BY <1>1, <1>2, <1>3, <1>4, <1>5, PTL DEF Spec

=============================================================================
