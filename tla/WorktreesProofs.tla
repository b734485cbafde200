--------------------------- MODULE WorktreesProofs ---------------------------
(***************************************************************************)
(* Proofs about Worktrees, for any work, any commands that may fail and any*)
(* bounds.                                                                 *)
(***************************************************************************)
EXTENDS Worktrees, TLAPS

-----------------------------------------------------------------------------
(* The inductive invariant.                                                *)

InUse == {"prepared", "restored", "working", "status", "commit", "branch", "remove"}

(* The checkout at each stage. *)
StagesFit ==
    /\ pc \in {"unborn", "prepared", "failed"} => written = {} /\ saved = {}
    /\ pc \in {"unborn", "prepared"} => revision = {} /\ head = {} /\ dirty = {}
    /\ pc \in InUse /\ dir => registered
    /\ pc \in {"commit", "branch", "remove"} => dir
    /\ pc \in {"branch", "remove"} => dirty = {}
    /\ pc \in {"unborn", "suspended", "idle", "failed"} => ~live

(* The registry holds one checkpoint; it is the one in memory but between  *)
(* a removal or a restoration and the save that follows.                   *)
OneCheckpoint ==
    /\ \A r, s \in saved : r = s
    /\ pc \in {"working", "status", "commit", "branch", "remove", "idle"} => saved = {revision}
    /\ pc \in {"restored", "suspended"} => saved # {}

(* A checkout never lags behind the checkpoints. *)
CheckoutIsAhead ==
    dir /\ registered => revision \subseteq head /\ \A r \in saved : r \subseteq head

(* What was not the child's own commit is on a branch, or in the checkpoint,*)
(* before the checkout is given up, but for what a checkpoint missed.      *)
CommitsAreBranched ==
    /\ pc \in {"prepared", "working", "status", "commit", "remove"} /\ dir =>
           \A r \in saved : head \subseteq Branched \cup r \cup own \cup unread
    /\ pc = "restored" /\ dir => head \subseteq revision \cup unread

(* A checkout git no longer lists holds nothing else. *)
UnlistedIsCopied ==
    dir /\ ~registered =>
        /\ head \cup dirty \subseteq Branched \cup revision \cup own \cup unread
        /\ \A r \in saved : head \cup dirty \subseteq Branched \cup r \cup own \cup unread

(* Until a checkpoint is torn, the checkout and the checkpoint hold all    *)
(* that no checkpoint missed.                                              *)
CheckpointHolds == ~torn => written \ gone \subseteq InCheckout \cup revision \cup unread

(* What was not the child's own commit, and no checkpoint missed, is safe  *)
(* with either checkpoint.                                                 *)
RescuedHolds ==
    /\ (written \ gone) \ (own \cup unread) \subseteq InCheckout \cup Branched \cup revision
    /\ \A r \in saved : (written \ gone) \ (own \cup unread)
            \subseteq InCheckout \cup Branched \cup r

IInv ==
    /\ StagesFit
    /\ OneCheckpoint
    /\ CheckoutIsAhead
    /\ CommitsAreBranched
    /\ UnlistedIsCopied
    /\ CheckpointHolds
    /\ RescuedHolds

-----------------------------------------------------------------------------
(* Type correctness.                                                       *)

(* What git tells is what is checked out or the checkpoint known before,   *)
(* and what that one misses is on record.                                  *)
LEMMA ReadingOf ==
    ASSUME NEW h, Reads(h)
    PROVE  /\ revision' \in {h, revision}
           /\ unread' = unread \cup (h \ revision')
  BY DEF Reads, Reading

LEMMA CurrentReading ==
    ASSUME CurrentRevision
    PROVE  /\ revision' \in {head, revision}
           /\ unread \subseteq unread' /\ unread' \subseteq unread \cup head
           /\ registered => head \subseteq revision' \cup unread'
           /\ revision' = revision \/ (registered /\ revision' = head)
  BY ReadingOf DEF CurrentRevision

LEMMA ReadingTyped ==
    ASSUME TypeOK, CurrentRevision PROVE revision' \subseteq Work /\ unread' \subseteq Work
  BY CurrentReading DEF TypeOK

THEOREM TypeCorrect == Spec => []TypeOK
  <1>1. Init => TypeOK
    <2> SUFFICES ASSUME Init PROVE TypeOK
      OBVIOUS
    <2>1. pc \in Stages /\ turns \in Nat /\ crashes \in Nat
      BY DEF Init, Stages
    <2>2. /\ dir \in BOOLEAN /\ registered \in BOOLEAN /\ live \in BOOLEAN
          /\ selected \in BOOLEAN /\ torn \in BOOLEAN
      BY DEF Init
    <2>3. branches \in Seq(SUBSET Work)
      BY DEF Init
    <2>4. /\ head \subseteq Work /\ dirty \subseteq Work /\ revision \subseteq Work
          /\ saved \subseteq SUBSET Work /\ written \subseteq Work /\ own \subseteq Work
          /\ gone \subseteq Work /\ unread \subseteq Work /\ promised \subseteq Nat \X SUBSET
              Work
      BY DEF Init
    <2>5. QED
      BY <2>1, <2>2, <2>3, <2>4 DEF TypeOK
  <1>2. TypeOK /\ [Next]_vars => TypeOK'
    <2> SUFFICES ASSUME TypeOK, [Next]_vars PROVE TypeOK'
      OBVIOUS
    <2> USE DEF TypeOK, Stages
    <2>1. CASE Prepare \/ PrepareFails
      BY <2>1 DEF Prepare, PrepareFails, treeVars, historyVars
    <2>2. CASE Save
      BY <2>2 DEF Save, treeVars, historyVars
    <2>3. ASSUME NEW w \in Work, Write(w) PROVE TypeOK'
      BY <2>3 DEF Write
    <2>4. CASE ChildCommit
      BY <2>4 DEF ChildCommit
    <2>5. CASE TurnEnds
      BY <2>5 DEF TurnEnds, treeVars, historyVars
    <2>6. CASE Check
      <3>1. /\ pc' \in Stages /\ live' \in BOOLEAN
            /\ revision' \subseteq Work /\ unread' \subseteq Work
        BY <2>6, ReadingTyped DEF Check, Finish, Fail, GoesOn
      <3>2. QED
        BY <2>6, <3>1 DEF Check, treeVars, historyVars
    <2>7. CASE CommitStaged
      <3>1. head' \subseteq Work /\ dirty' \subseteq Work
        BY <2>7 DEF CommitStaged
      <3>2. /\ pc' \in Stages /\ live' \in BOOLEAN
            /\ revision' \subseteq Work /\ unread' \subseteq Work
        <4>1. CASE Reads(head \cup dirty)
          <5>1. /\ revision' \in {head \cup dirty, revision}
                /\ unread' = unread \cup ((head \cup dirty) \ revision')
            BY <4>1, ReadingOf, Zenon
          <5>2. QED
            BY <2>7, <5>1 DEF CommitStaged, Finish, Fail, GoesOn
        <4>2. CASE ~Reads(head \cup dirty)
          BY <2>7, <4>2, ReadingTyped DEF CommitStaged, Finish, Fail, GoesOn
        <4>3. QED
          BY <4>1, <4>2
      <3>3. QED
        BY <2>7, <3>1, <3>2 DEF CommitStaged, historyVars
    <2>8. CASE CreateBranch
      <3>1. /\ pc' \in Stages /\ live' \in BOOLEAN
            /\ revision' \subseteq Work /\ unread' \subseteq Work
        BY <2>8, ReadingTyped DEF CreateBranch, Finish, Fail, GoesOn
      <3>2. branches' \in Seq(SUBSET Work)
        BY <2>8 DEF CreateBranch, NewBranch
      <3>3. QED
        BY <2>8, <3>1, <3>2 DEF CreateBranch, treeVars, historyVars
    <2>9. CASE Remove
      <3>1. /\ pc' \in Stages /\ live' \in BOOLEAN
            /\ revision' \subseteq Work /\ unread' \subseteq Work
        BY <2>9, ReadingTyped DEF Remove, Finish
      <3>2. promised' \subseteq Nat \X SUBSET Work
        BY <2>9 DEF Remove, Promise
      <3>3. QED
        BY <2>9, <3>1, <3>2 DEF Remove
    <2>10. CASE RemoveFails
      <3>1. /\ pc' \in Stages /\ live' \in BOOLEAN
            /\ revision' \subseteq Work /\ unread' \subseteq Work
        BY <2>10, ReadingTyped DEF RemoveFails, Finish
      <3>2. registered' \in BOOLEAN
        BY <2>10 DEF RemoveFails
      <3>3. QED
        BY <2>10, <3>1, <3>2 DEF RemoveFails, historyVars
    <2>11. CASE Resume
      <3>1. CASE Reattach
        BY <2>11, <3>1, ReadingTyped DEF Resume, Reattach, treeVars, historyVars
      <3>2. CASE Recreate
        BY <2>11, <3>2 DEF Resume, Recreate, treeVars, historyVars
      <3>3. QED
        BY <2>11, <3>1, <3>2 DEF Resume
    <2>12. CASE SelectPreserved \/ Decline
      BY <2>12 DEF SelectPreserved, Decline, treeVars, historyVars
    <2>13. CASE Discard
      <3>1. dir' \in BOOLEAN /\ registered' \in BOOLEAN /\ gone' \subseteq Work
        BY <2>13 DEF Discard
      <3>2. QED
        BY <2>13, <3>1 DEF Discard
    <2>14. CASE Cleared
      BY <2>14 DEF Cleared
    <2>15. CASE Crash
      <3>1. registered' \in BOOLEAN /\ torn' \in BOOLEAN /\ dir' = dir
        BY <2>15 DEF Crash, Recovered
      <3>2. pc' \in Stages /\ revision' \subseteq Work
        BY <2>15 DEF Crash
      <3>3. live' \in BOOLEAN /\ selected' \in BOOLEAN
        BY <2>15 DEF Crash
      <3>4. UNCHANGED <<head, dirty, branches, saved, turns, written, own, gone, unread,
      promised>>
        BY <2>15 DEF Crash
      <3>5. crashes' \in Nat
        BY <2>15 DEF Crash
      <3>6. dir' \in BOOLEAN
        BY <3>1
      <3>7. QED
        BY <3>1, <3>2, <3>3, <3>4, <3>5, <3>6
    <2>16. CASE UNCHANGED vars
      BY <2>16 DEF vars, treeVars, historyVars
    <2>17. QED
      BY <2>1, <2>2, <2>3, <2>4, <2>5, <2>6, <2>7, <2>8, <2>9, <2>10, <2>11, <2>12, <2>13,
         <2>14, <2>15, <2>16 DEF Next
  <1>3. QED
    BY <1>1, <1>2, PTL DEF Spec

-----------------------------------------------------------------------------
(* The inductive invariant holds.                                          *)

LEMMA BranchesStay == branches' = branches => Branched' = Branched
  BY DEF Branched

(* A new branch adds the revision it points at. *)
LEMMA BranchAdded ==
    ASSUME branches \in Seq(SUBSET Work), head \subseteq Work, branches' = NewBranch(head)
    PROVE  Branched' = Branched \cup head
  <1>1. /\ DOMAIN branches' = DOMAIN branches \cup {Len(branches) + 1}
        /\ \A i \in DOMAIN branches : branches'[i] = branches[i]
        /\ branches'[Len(branches) + 1] = head
    BY DEF NewBranch
  <1>2. QED
    BY <1>1 DEF Branched

LEMMA InvStart == Init => IInv
  <1> SUFFICES ASSUME Init PROVE IInv
    OBVIOUS
  <1> USE DEF Init
  <1>1. StagesFit /\ OneCheckpoint /\ CheckoutIsAhead
    BY DEF StagesFit, OneCheckpoint, CheckoutIsAhead, InUse
  <1>2. CommitsAreBranched /\ UnlistedIsCopied
    BY DEF CommitsAreBranched, UnlistedIsCopied
  <1>3. CheckpointHolds /\ RescuedHolds
    BY DEF CheckpointHolds, RescuedHolds
  <1>4. QED
    BY <1>1, <1>2, <1>3 DEF IInv

LEMMA InvStep ==
    ASSUME TypeOK, IInv, [Next]_vars
    PROVE  IInv'
  <1> USE DEF TypeOK, IInv
  <1>1. CASE Prepare
    <2>0. Branched' = Branched
      BY <1>1, BranchesStay DEF Prepare, treeVars, historyVars
    <2>1. StagesFit'
      BY <1>1 DEF Prepare, historyVars, StagesFit
    <2>2. OneCheckpoint'
      BY <1>1 DEF Prepare, OneCheckpoint
    <2>3. CheckoutIsAhead'
      BY <1>1 DEF Prepare, CheckoutIsAhead, StagesFit
    <2>4. CommitsAreBranched'
      BY <1>1 DEF Prepare, CommitsAreBranched, StagesFit
    <2>5. UnlistedIsCopied'
      BY <1>1 DEF Prepare, UnlistedIsCopied
    <2>6. CheckpointHolds'
      BY <1>1 DEF Prepare, historyVars, CheckpointHolds, InCheckout
    <2>7. RescuedHolds'
      BY <1>1, <2>0 DEF Prepare, historyVars, RescuedHolds, InCheckout
    <2>8. QED
      BY <2>1, <2>2, <2>3, <2>4, <2>5, <2>6, <2>7
  <1>2. CASE PrepareFails
    <2>0. Branched' = Branched
      BY <1>2, BranchesStay DEF PrepareFails, treeVars, historyVars
    <2>1. StagesFit'
      BY <1>2 DEF PrepareFails, historyVars, StagesFit, InUse
    <2>2. OneCheckpoint'
      BY <1>2 DEF PrepareFails, OneCheckpoint
    <2>3. CheckoutIsAhead'
      BY <1>2 DEF PrepareFails, CheckoutIsAhead, StagesFit
    <2>4. CommitsAreBranched'
      BY <1>2 DEF PrepareFails, CommitsAreBranched
    <2>5. UnlistedIsCopied'
      BY <1>2 DEF PrepareFails, treeVars, UnlistedIsCopied, StagesFit
    <2>6. CheckpointHolds'
      BY <1>2 DEF PrepareFails, historyVars, CheckpointHolds, StagesFit, InCheckout
    <2>7. RescuedHolds'
      BY <1>2 DEF PrepareFails, historyVars, RescuedHolds, StagesFit, InCheckout
    <2>8. QED
      BY <2>1, <2>2, <2>3, <2>4, <2>5, <2>6, <2>7
  <1>3. CASE Save
    <2>0. Branched' = Branched
      BY <1>3, BranchesStay DEF Save, treeVars, historyVars
    <2>1. StagesFit'
      BY <1>3 DEF Save, treeVars, StagesFit, InUse
    <2>2. OneCheckpoint'
      BY <1>3 DEF Save, OneCheckpoint
    <2>3. CheckoutIsAhead'
      BY <1>3 DEF Save, treeVars, CheckoutIsAhead
    <2>4. CommitsAreBranched'
      BY <1>3 DEF Save, treeVars, CommitsAreBranched, StagesFit
    <2>5. UnlistedIsCopied'
      BY <1>3, <2>0 DEF Save, treeVars, historyVars, UnlistedIsCopied
    <2>6. CheckpointHolds'
      BY <1>3 DEF Save, treeVars, historyVars, CheckpointHolds, InCheckout
    <2>7. RescuedHolds'
      BY <1>3, <2>0 DEF Save, treeVars, historyVars, RescuedHolds, InCheckout
    <2>8. QED
      BY <2>1, <2>2, <2>3, <2>4, <2>5, <2>6, <2>7
  <1>4. ASSUME NEW w \in Work, Write(w) PROVE IInv'
    <2>0. Branched' = Branched
      BY <1>4, BranchesStay DEF Write, treeVars, historyVars
    <2>1. StagesFit'
      BY <1>4 DEF Write, StagesFit
    <2>2. OneCheckpoint'
      BY <1>4 DEF Write, OneCheckpoint
    <2>3. CheckoutIsAhead'
      BY <1>4 DEF Write, CheckoutIsAhead
    <2>4. CommitsAreBranched'
      BY <1>4, <2>0 DEF Write, CommitsAreBranched
    <2>5. UnlistedIsCopied'
      BY <1>4 DEF Write, UnlistedIsCopied, StagesFit, InUse
    <2>6. CheckpointHolds'
      BY <1>4 DEF Write, CheckpointHolds, InCheckout
    <2>7. RescuedHolds'
      BY <1>4, <2>0 DEF Write, RescuedHolds, InCheckout
    <2>8. QED
      BY <2>1, <2>2, <2>3, <2>4, <2>5, <2>6, <2>7
  <1>5. CASE ChildCommit
    <2>0. Branched' = Branched
      BY <1>5, BranchesStay DEF ChildCommit, treeVars, historyVars
    <2>1. StagesFit'
      BY <1>5 DEF ChildCommit, StagesFit
    <2>2. OneCheckpoint'
      BY <1>5 DEF ChildCommit, OneCheckpoint
    <2>3. CheckoutIsAhead'
      BY <1>5 DEF ChildCommit, CheckoutIsAhead
    <2>4. CommitsAreBranched'
      BY <1>5, <2>0 DEF ChildCommit, CommitsAreBranched
    <2>5. UnlistedIsCopied'
      BY <1>5 DEF ChildCommit, UnlistedIsCopied
    <2>6. CheckpointHolds'
      BY <1>5 DEF ChildCommit, CheckpointHolds, InCheckout
    <2>7. RescuedHolds'
      BY <1>5, <2>0 DEF ChildCommit, RescuedHolds, InCheckout
    <2>8. QED
      BY <2>1, <2>2, <2>3, <2>4, <2>5, <2>6, <2>7
  <1>6. CASE TurnEnds
    <2>0. Branched' = Branched
      BY <1>6, BranchesStay DEF TurnEnds, treeVars, historyVars
    <2>1. StagesFit'
      BY <1>6 DEF TurnEnds, treeVars, StagesFit, InUse
    <2>2. OneCheckpoint'
      BY <1>6 DEF TurnEnds, OneCheckpoint
    <2>3. CheckoutIsAhead'
      BY <1>6 DEF TurnEnds, treeVars, CheckoutIsAhead
    <2>4. CommitsAreBranched'
      BY <1>6, <2>0 DEF TurnEnds, treeVars, historyVars, CommitsAreBranched
    <2>5. UnlistedIsCopied'
      BY <1>6 DEF TurnEnds, treeVars, UnlistedIsCopied, StagesFit, InUse
    <2>6. CheckpointHolds'
      BY <1>6 DEF TurnEnds, treeVars, historyVars, CheckpointHolds, InCheckout
    <2>7. RescuedHolds'
      BY <1>6, <2>0 DEF TurnEnds, treeVars, historyVars, RescuedHolds, InCheckout
    <2>8. QED
      BY <2>1, <2>2, <2>3, <2>4, <2>5, <2>6, <2>7
  <1>7. CASE Check
    <2>0. Branched' = Branched
      BY <1>7, BranchesStay DEF Check, Finish, Fail, GoesOn, treeVars, historyVars
    <2>1. StagesFit'
      BY <1>7 DEF Check, Finish, Fail, GoesOn, treeVars, StagesFit, InUse
    <2>2. OneCheckpoint'
      BY <1>7 DEF Check, Finish, Fail, GoesOn, OneCheckpoint
    <2>3. CheckoutIsAhead'
      BY CurrentReading, <1>7 DEF Check, Finish, Fail, GoesOn, treeVars, CheckoutIsAhead
    <2>4. CommitsAreBranched'
      BY <1>7, <2>0 DEF Check, Finish, Fail, GoesOn, treeVars, historyVars, CommitsAreBranched
    <2>5. UnlistedIsCopied'
      BY <1>7 DEF Check, Finish, Fail, GoesOn, treeVars, UnlistedIsCopied, StagesFit, InUse
    <2>6. CheckpointHolds'
      BY CurrentReading, <1>7
      DEF Check, Finish, Fail, GoesOn, treeVars, historyVars, CheckpointHolds, StagesFit, InUse,
          CheckoutIsAhead, InCheckout
    <2>7. RescuedHolds'
      BY CurrentReading, <1>7, <2>0
      DEF Check, Finish, Fail, GoesOn, treeVars, historyVars, RescuedHolds, StagesFit, InUse,
          CheckoutIsAhead,
          InCheckout
    <2>8. QED
      BY <2>1, <2>2, <2>3, <2>4, <2>5, <2>6, <2>7
  <1>8. CASE CommitStaged
    <2>9. /\ dir /\ registered /\ UNCHANGED <<dir, registered, saved, written, own, gone, torn>>
          /\ revision' \in {revision, head'}
          /\ head \subseteq head' /\ head \cup dirty = head' \cup dirty'
          /\ unread \subseteq unread'
      <3>1. CASE Reads(head \cup dirty) /\ head' = head \cup dirty /\ dirty' = {}
        <4>1. /\ revision' \in {head \cup dirty, revision}
              /\ unread' = unread \cup ((head \cup dirty) \ revision')
          BY <3>1, ReadingOf, Zenon
        <4>2. QED
          BY <1>8, <3>1, <4>1 DEF CommitStaged, StagesFit, InUse
      <3>2. CASE UNCHANGED <<head, dirty>> /\ CurrentRevision
        BY <1>8, <3>2, CurrentReading DEF CommitStaged, StagesFit, InUse
      <3>3. CASE head' = head \cup dirty /\ dirty' = {} /\ GoesOn("branch")
        BY <1>8, <3>3 DEF CommitStaged, GoesOn, StagesFit, InUse
      <3>4. QED
        BY <1>8, <3>1, <3>2, <3>3 DEF CommitStaged, Fail
    <2>0. Branched' = Branched
      BY <1>8, BranchesStay DEF CommitStaged
    <2>1. StagesFit'
      BY <1>8 DEF CommitStaged, Finish, Fail, GoesOn, StagesFit, InUse
    <2>2. OneCheckpoint'
      BY <1>8 DEF CommitStaged, Finish, Fail, GoesOn, OneCheckpoint
    <2>3. CheckoutIsAhead'
      BY <2>9 DEF CheckoutIsAhead
    <2>4. CommitsAreBranched'
      BY <1>8 DEF CommitStaged, Finish, Fail, GoesOn, CommitsAreBranched
    <2>5. UnlistedIsCopied'
      BY <2>9 DEF UnlistedIsCopied
    <2>6. CheckpointHolds'
      BY <2>9 DEF CheckpointHolds, CheckoutIsAhead, InCheckout
    <2>7. RescuedHolds'
      BY <2>9, <2>0 DEF RescuedHolds, CheckoutIsAhead, InCheckout
    <2>8. QED
      BY <2>1, <2>2, <2>3, <2>4, <2>5, <2>6, <2>7
  <1>9. CASE CreateBranch
    <2>0. \/ pc' = "suspended" /\ branches' = branches /\ Branched' = Branched
          \/ branches' = NewBranch(head) /\ Branched' = Branched \cup head
      <3>1. \/ pc' = "suspended" /\ branches' = branches
            \/ branches' = NewBranch(head)
        BY <1>9 DEF CreateBranch, Finish, Fail, GoesOn
      <3>2. branches \in Seq(SUBSET Work) /\ head \subseteq Work
        OBVIOUS
      <3>3. CASE pc' = "suspended" /\ branches' = branches
        <4>1. Branched' = Branched
          BY <3>3, BranchesStay
        <4>2. QED
          BY <3>3, <4>1
      <3>4. CASE branches' = NewBranch(head)
        <4>1. Branched' = Branched \cup head
          BY <3>2, <3>4, BranchAdded, Zenon
        <4>2. QED
          BY <3>4, <4>1
      <3>5. QED
        BY <3>1, <3>3, <3>4
    <2>1. StagesFit'
      <3>1. UNCHANGED <<dir, registered, dirty, written, saved>> /\ pc = "branch"
        BY <1>9 DEF CreateBranch, treeVars, historyVars
      <3>2. pc' = "remove" \/ (pc' = "suspended" /\ ~live')
        BY <1>9 DEF CreateBranch, Finish, Fail, GoesOn
      <3>3. dir /\ registered
        BY <3>1 DEF StagesFit, InUse
      <3>4. dirty = {}
        BY <3>1 DEF StagesFit
      <3>5. QED
        BY <3>1, <3>2, <3>3, <3>4 DEF StagesFit, InUse
    <2>2. OneCheckpoint'
      BY <1>9 DEF CreateBranch, Finish, Fail, GoesOn, OneCheckpoint
    <2>3. CheckoutIsAhead'
      BY CurrentReading, <1>9 DEF CreateBranch, Finish, Fail, GoesOn, treeVars, CheckoutIsAhead
    <2>4. CommitsAreBranched'
      BY <1>9, <2>0 DEF CreateBranch, Finish, Fail, GoesOn, treeVars, CommitsAreBranched
    <2>5. UnlistedIsCopied'
      BY <1>9 DEF CreateBranch, Finish, Fail, GoesOn, treeVars, UnlistedIsCopied, StagesFit,
          InUse
    <2>6. CheckpointHolds'
      BY CurrentReading, <1>9
      DEF CreateBranch, Finish, Fail, GoesOn, treeVars, historyVars, CheckpointHolds,
          StagesFit, InUse,
          CheckoutIsAhead, InCheckout
    <2>7. RescuedHolds'
      BY CurrentReading, <1>9, <2>0
      DEF CreateBranch, Finish, Fail, GoesOn, treeVars, historyVars, RescuedHolds, StagesFit,
          InUse,
          CheckoutIsAhead, InCheckout
    <2>8. QED
      BY <2>1, <2>2, <2>3, <2>4, <2>5, <2>6, <2>7
  <1>10. CASE Remove
    <2>0. Branched' = Branched
      BY <1>10, BranchesStay DEF Remove, Finish, treeVars, historyVars
    <2>1. StagesFit'
      BY <1>10 DEF Remove, Finish, StagesFit
    <2>2. OneCheckpoint'
      BY <1>10 DEF Remove, Finish, OneCheckpoint
    <2>3. CheckoutIsAhead'
      BY <1>10 DEF Remove, Finish, CheckoutIsAhead
    <2>4. CommitsAreBranched'
      BY <1>10 DEF Remove, Finish, CommitsAreBranched
    <2>5. UnlistedIsCopied'
      BY <1>10 DEF Remove, Finish, UnlistedIsCopied
    <2>6. CheckpointHolds'
      BY CurrentReading, <1>10
      DEF Remove, Finish, CheckpointHolds, StagesFit, InUse, CheckoutIsAhead, InCheckout
    <2>7. RescuedHolds'
      BY CurrentReading, <1>10, <2>0
      DEF Remove, Finish, RescuedHolds, StagesFit, InUse, OneCheckpoint, CheckoutIsAhead,
          CommitsAreBranched, InCheckout
    <2>8. QED
      BY <2>1, <2>2, <2>3, <2>4, <2>5, <2>6, <2>7
  <1>11. CASE RemoveFails
    <2>0. Branched' = Branched
      BY <1>11, BranchesStay DEF RemoveFails, Finish, treeVars, historyVars
    <2>1. StagesFit'
      BY <1>11 DEF RemoveFails, Finish, StagesFit, InUse
    <2>2. OneCheckpoint'
      BY <1>11 DEF RemoveFails, Finish, OneCheckpoint
    <2>3. CheckoutIsAhead'
      BY CurrentReading, <1>11 DEF RemoveFails, Finish, CheckoutIsAhead
    <2>4. CommitsAreBranched'
      BY <1>11 DEF RemoveFails, Finish, CommitsAreBranched
    <2>5. UnlistedIsCopied'
      BY CurrentReading, <1>11, <2>0
      DEF RemoveFails, Finish, historyVars, UnlistedIsCopied, StagesFit, OneCheckpoint,
          CommitsAreBranched
    <2>6. CheckpointHolds'
      BY CurrentReading, <1>11
      DEF RemoveFails, Finish, historyVars, CheckpointHolds, StagesFit, InUse, CheckoutIsAhead,
          InCheckout
    <2>7. RescuedHolds'
      BY CurrentReading, <1>11, <2>0
      DEF RemoveFails, Finish, historyVars, RescuedHolds, StagesFit, InUse, CheckoutIsAhead,
          InCheckout
    <2>8. QED
      BY <2>1, <2>2, <2>3, <2>4, <2>5, <2>6, <2>7
  <1>12. CASE Reattach /\ Resume
    <2>0. Branched' = Branched
      BY <1>12, BranchesStay DEF Resume, Reattach, treeVars, historyVars
    <2>1. StagesFit'
      BY <1>12 DEF Resume, Reattach, treeVars, StagesFit
    <2>2. OneCheckpoint'
      BY <1>12 DEF Resume, Reattach, OneCheckpoint
    <2>3. CheckoutIsAhead'
      BY CurrentReading, <1>12 DEF Resume, Reattach, treeVars, CheckoutIsAhead
    <2>4. CommitsAreBranched'
      BY CurrentReading, <1>12 DEF Resume, Reattach, treeVars, CommitsAreBranched
    <2>5. UnlistedIsCopied'
      BY <1>12 DEF Resume, Reattach, treeVars, UnlistedIsCopied
    <2>6. CheckpointHolds'
      BY CurrentReading, <1>12
      DEF Resume, Reattach, treeVars, historyVars, CheckpointHolds, CheckoutIsAhead, InCheckout
    <2>7. RescuedHolds'
      BY CurrentReading, <1>12, <2>0
      DEF Resume, Reattach, treeVars, historyVars, RescuedHolds, CheckoutIsAhead, InCheckout
    <2>8. QED
      BY <2>1, <2>2, <2>3, <2>4, <2>5, <2>6, <2>7
  <1>13. CASE Recreate /\ Resume
    <2>0. Branched' = Branched
      BY <1>13, BranchesStay DEF Resume, Recreate, treeVars, historyVars
    <2>1. StagesFit'
      BY <1>13 DEF Resume, Recreate, StagesFit
    <2>2. OneCheckpoint'
      BY <1>13 DEF Resume, Recreate, OneCheckpoint
    <2>3. CheckoutIsAhead'
      BY <1>13 DEF Resume, Recreate, CheckoutIsAhead, OneCheckpoint
    <2>4. CommitsAreBranched'
      BY <1>13 DEF Resume, Recreate, CommitsAreBranched
    <2>5. UnlistedIsCopied'
      BY <1>13 DEF Resume, Recreate, UnlistedIsCopied
    <2>6. CheckpointHolds'
      BY <1>13 DEF Resume, Recreate, historyVars, CheckpointHolds, InCheckout
    <2>7. RescuedHolds'
      BY <1>13, <2>0 DEF Resume, Recreate, historyVars, RescuedHolds, InCheckout
    <2>8. QED
      BY <2>1, <2>2, <2>3, <2>4, <2>5, <2>6, <2>7
  <1>14. CASE SelectPreserved \/ Decline
    <2>0. Branched' = Branched
      BY <1>14, BranchesStay DEF SelectPreserved, Decline, treeVars, historyVars
    <2>1. StagesFit'
      BY <1>14 DEF SelectPreserved, Decline, treeVars, historyVars, StagesFit
    <2>2. OneCheckpoint'
      BY <1>14 DEF SelectPreserved, Decline, OneCheckpoint
    <2>3. CheckoutIsAhead'
      BY <1>14 DEF SelectPreserved, Decline, treeVars, CheckoutIsAhead
    <2>4. CommitsAreBranched'
      BY <1>14, <2>0 DEF SelectPreserved, Decline, treeVars, historyVars, CommitsAreBranched
    <2>5. UnlistedIsCopied'
      BY <1>14, <2>0 DEF SelectPreserved, Decline, treeVars, historyVars, UnlistedIsCopied
    <2>6. CheckpointHolds'
      BY <1>14 DEF SelectPreserved, Decline, treeVars, historyVars, CheckpointHolds, InCheckout
    <2>7. RescuedHolds'
      BY <1>14, <2>0 DEF SelectPreserved, Decline, treeVars, historyVars, RescuedHolds,
          InCheckout
    <2>8. QED
      BY <2>1, <2>2, <2>3, <2>4, <2>5, <2>6, <2>7
  <1>15. CASE Discard
    <2>0. Branched' = Branched
      BY <1>15, BranchesStay DEF Discard, treeVars, historyVars
    <2>1. StagesFit'
      BY <1>15 DEF Discard, InCommand, StagesFit
    <2>2. OneCheckpoint'
      BY <1>15 DEF Discard, OneCheckpoint
    <2>3. CheckoutIsAhead'
      BY <1>15 DEF Discard, CheckoutIsAhead
    <2>4. CommitsAreBranched'
      BY <1>15, <2>0 DEF Discard, CommitsAreBranched
    <2>5. UnlistedIsCopied'
      <3>1. UNCHANGED <<head, dirty, branches, revision, saved, own, unread>>
        BY <1>15 DEF Discard
      <3>2. dir' = FALSE \/ UNCHANGED <<dir, registered>>
        BY <1>15 DEF Discard
      <3>3. QED
        BY <2>0, <3>1, <3>2 DEF UnlistedIsCopied
    <2>6. CheckpointHolds'
      BY <1>15 DEF Discard, CheckpointHolds, InCheckout
    <2>7. RescuedHolds'
      BY <1>15, <2>0 DEF Discard, RescuedHolds, InCheckout
    <2>8. QED
      BY <2>1, <2>2, <2>3, <2>4, <2>5, <2>6, <2>7
  <1>16. CASE Cleared
    <2>0. Branched' = Branched
      BY <1>16, BranchesStay DEF Cleared, treeVars, historyVars
    <2>1. StagesFit'
      BY <1>16 DEF Cleared, StagesFit
    <2>2. OneCheckpoint'
      BY <1>16 DEF Cleared, OneCheckpoint
    <2>3. CheckoutIsAhead'
      BY <1>16 DEF Cleared, CheckoutIsAhead
    <2>4. CommitsAreBranched'
      BY <1>16 DEF Cleared, CommitsAreBranched
    <2>5. UnlistedIsCopied'
      BY <1>16 DEF Cleared, UnlistedIsCopied
    <2>6. CheckpointHolds'
      BY <1>16 DEF Cleared, CheckpointHolds, InCheckout
    <2>7. RescuedHolds'
      BY <1>16, <2>0 DEF Cleared, RescuedHolds, InCheckout
    <2>8. QED
      BY <2>1, <2>2, <2>3, <2>4, <2>5, <2>6, <2>7
  <1>17. CASE Crash
    <2>0. Branched' = Branched
      BY <1>17, BranchesStay DEF Crash, Recovered, treeVars, historyVars
    <2>1. StagesFit'
      <3>1. /\ UNCHANGED <<head, dirty, saved, written>> /\ ~live'
            /\ pc \notin {"unborn", "failed"}
            /\ pc' = "idle" \/ (pc' = "failed" /\ saved = {})
        BY <1>17 DEF Crash
      <3>2. saved = {} => pc = "prepared"
        BY <3>1 DEF OneCheckpoint, Stages
      <3>3. QED
        BY <3>1, <3>2 DEF StagesFit, InUse
    <2>2. OneCheckpoint'
      BY <1>17 DEF Crash, Recovered, OneCheckpoint
    <2>3. CheckoutIsAhead'
      BY <1>17 DEF Crash, Recovered, CheckoutIsAhead
    <2>4. CommitsAreBranched'
      BY <1>17 DEF Crash, Recovered, CommitsAreBranched
    <2>5. UnlistedIsCopied'
      BY <1>17, <2>0 DEF Crash, Recovered, UnlistedIsCopied
    <2>6. CheckpointHolds'
      BY <1>17 DEF Crash, Recovered, CheckpointHolds, InCheckout
    <2>7. RescuedHolds'
      BY <1>17, <2>0 DEF Crash, Recovered, RescuedHolds, InCheckout
    <2>8. QED
      BY <2>1, <2>2, <2>3, <2>4, <2>5, <2>6, <2>7
  <1>18. CASE UNCHANGED vars
    <2>0. Branched' = Branched
      BY <1>18, BranchesStay DEF vars, treeVars, historyVars
    <2>1. StagesFit'
      BY <1>18 DEF vars, treeVars, historyVars, StagesFit
    <2>2. OneCheckpoint'
      BY <1>18 DEF vars, OneCheckpoint
    <2>3. CheckoutIsAhead'
      BY <1>18 DEF vars, treeVars, CheckoutIsAhead
    <2>4. CommitsAreBranched'
      BY <1>18, <2>0 DEF vars, treeVars, historyVars, CommitsAreBranched
    <2>5. UnlistedIsCopied'
      BY <1>18, <2>0 DEF vars, treeVars, historyVars, UnlistedIsCopied
    <2>6. CheckpointHolds'
      BY <1>18 DEF vars, treeVars, historyVars, CheckpointHolds, InCheckout
    <2>7. RescuedHolds'
      BY <1>18, <2>0 DEF vars, treeVars, historyVars, RescuedHolds, InCheckout
    <2>8. QED
      BY <2>1, <2>2, <2>3, <2>4, <2>5, <2>6, <2>7
  <1>19. QED
    BY <1>1, <1>2, <1>3, <1>4, <1>5, <1>6, <1>7, <1>8, <1>9, <1>10, <1>11, <1>12, <1>13,
        <1>14, <1>15, <1>16, <1>17, <1>18
    DEF Next, Resume

LEMMA Invariance == Spec => [](TypeOK /\ IInv)
  <1>1. IInv /\ TypeOK /\ [Next]_vars => IInv'
    BY InvStep
  <1>2. QED
    BY <1>1, InvStart, TypeCorrect, PTL DEF Spec

-----------------------------------------------------------------------------
(* What the checkpoint and the branches are good for.                      *)

(* Whatever git refuses and whenever the process dies, the child's work is *)
(* not lost, but for what a checkpoint missed.                             *)
THEOREM NoWorkIsLost == Spec => []WorkHasAHandle
  <1>1. TypeOK /\ IInv => WorkHasAHandle
    <2> SUFFICES ASSUME TypeOK, IInv PROVE WorkHasAHandle
      OBVIOUS
    <2>1. CASE torn
      BY <2>1 DEF IInv, RescuedHolds, WorkHasAHandle, Owed
    <2>2. CASE ~torn
      BY <2>2 DEF IInv, CheckpointHolds, WorkHasAHandle, Owed
    <2>3. QED
      BY <2>1, <2>2
  <1>2. QED
    BY <1>1, Invariance, PTL

(* A resumed child finds all it did before that no checkpoint missed. *)
THEOREM ResumesFromItsWork == Spec => []ResumeSeesItsWork
  <1>1. TypeOK /\ IInv => ResumeSeesItsWork
    <2> SUFFICES ASSUME TypeOK, IInv, pc \in {"restored", "working"}, dir, ~torn
                 PROVE  (written \ gone) \ unread \subseteq head \cup dirty
      BY DEF ResumeSeesItsWork
    <2>1. registered
      BY DEF IInv, StagesFit, InUse
    <2>2. revision \subseteq head
      BY <2>1 DEF IInv, CheckoutIsAhead
    <2>3. QED
      BY <2>2 DEF IInv, CheckpointHolds, InCheckout
  <1>2. QED
    BY <1>1, Invariance, PTL

(* Work that is nowhere but on disk is reported by the scan, unless the    *)
(* child had committed it by itself or a checkpoint had missed it.         *)
THEOREM UnsavedWorkIsReported == Spec => []AbandonedIsPreserved
  <1>1. TypeOK /\ IInv => AbandonedIsPreserved
    <2> SUFFICES ASSUME TypeOK, IInv, pc \in {"idle", "failed"},
                        ~(InCheckout \subseteq Branched \cup revision \cup own \cup unread)
                 PROVE  Preserved
      BY DEF AbandonedIsPreserved
    <2>1. dir /\ registered
      BY DEF IInv, UnlistedIsCopied, InCheckout
    <2>2. ~live
      BY DEF IInv, StagesFit
    <2>3. QED
      BY <2>1, <2>2 DEF Preserved
  <1>2. QED
    BY <1>1, Invariance, PTL

-----------------------------------------------------------------------------
(* A branch that was named.                                                *)

(* No branch moves and none disappears. *)
THEOREM PromisesAreKept == Spec => []PromisesKept
  <1>1. Init => PromisesKept
    BY DEF Init, PromisesKept
  <1>2. TypeOK /\ PromisesKept /\ [Next]_vars => PromisesKept'
    <2> SUFFICES ASSUME TypeOK, PromisesKept, [Next]_vars PROVE PromisesKept'
      OBVIOUS
    <2>1. CASE CreateBranch
      <3>1. promised' = promised /\ (branches' = branches \/ branches' = Append(branches, head))
        BY <2>1 DEF CreateBranch, NewBranch, historyVars
      <3>2. branches \in Seq(SUBSET Work)
        BY DEF TypeOK
      <3>3. ASSUME NEW p \in promised
            PROVE  p[1] \in DOMAIN branches' /\ p[2] \subseteq branches'[p[1]]
        <4>1. p[1] \in DOMAIN branches /\ p[2] \subseteq branches[p[1]]
          BY DEF PromisesKept
        <4>2. QED
          BY <3>1, <3>2, <4>1
      <3>4. QED
        BY <3>1, <3>3 DEF PromisesKept
    <2>2. CASE Remove
      <3>1. branches' = branches /\ branches \in Seq(SUBSET Work)
        BY <2>2 DEF Remove, TypeOK
      <3>2. CASE promised' = promised
        BY <3>1, <3>2 DEF PromisesKept
      <3>3. CASE /\ branches # <<>> /\ head = branches[Len(branches)]
                 /\ promised' = promised \cup {<<Len(branches), head>>}
        <4>1. Len(branches) \in DOMAIN branches
          BY <3>1, <3>3
        <4>2. QED
          BY <3>1, <3>3, <4>1 DEF PromisesKept
      <3>4. QED
        BY <2>2, <3>2, <3>3 DEF Remove, Promise
    <2>3. CASE UNCHANGED <<branches, promised>>
      BY <2>3 DEF PromisesKept
    <2>4. QED
      BY <2>1, <2>2, <2>3
      DEF Next, vars, historyVars, Prepare, PrepareFails, Save, Write, ChildCommit, TurnEnds,
          Check, CommitStaged, RemoveFails, Resume, SelectPreserved, Decline, Discard, Cleared,
          Crash
  <1>3. QED
    BY <1>1, <1>2, TypeCorrect, PTL DEF Spec

=============================================================================
