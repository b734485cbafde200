------------------------------ MODULE Worktrees ------------------------------
(***************************************************************************)
(* Where the work of an isolated child is, from its first turn to its last *)
(* resume: packages/pi-subagents-worktrees/src/worktree.ts,                *)
(* workspace-provider.ts, active-worktrees.ts, preserved.ts and            *)
(* preserved-command.ts, with the checkpoint the core keeps for the child  *)
(* (packages/pi-subagents/src/lifecycle/workspace-bracket.ts).             *)
(*                                                                         *)
(* One child and its checkout: children share neither a path nor a branch. *)
(* A revision is the set of changes its history holds; the revision the    *)
(* child started from is empty.  One action is one git command that        *)
(* changes something: the process may die between any two, and any of them *)
(* may fail.  What git itself does is modelled from the results the code   *)
(* provides for.                                                           *)
(***************************************************************************)
EXTENDS Integers, Sequences, FiniteSets

CONSTANTS
    Work,         \* the changes the child may make
    CanFail,      \* the git commands that may fail
    ChildCommits, \* whether the child also commits by itself
    PathsAgree,   \* whether git lists a checkout by the path the code made (no symbolic link)
    MaxCrashes,   \* bound: how often the process dies
    MaxTurns      \* bound: the turns of the child

Commands == {"status", "commit", "branch", "remove", "add", "rev-parse"}

ASSUME WorktreesAssumption ==
    /\ CanFail \subseteq Commands
    /\ ChildCommits \in BOOLEAN /\ PathsAgree \in BOOLEAN
    /\ MaxCrashes \in Nat
    /\ MaxTurns \in Nat

VARIABLES
    pc,         \* what the record is at
    dir,        \* the directory exists
    registered, \* git lists it as a worktree
    head,       \* the revision checked out in it
    dirty,      \* its changes that are not committed
    branches,   \* the child's rescue branches, in the order they were created
    revision,   \* the checkpoint: WorktreeInfo.revision, bracket.persisted
    saved,      \* the checkpoint in the durable registry: one, or none yet
    live,       \* ActiveWorktrees holds the path
    selected,   \* the user is asked to confirm the removal of the worktree
    turns, crashes,
    written,    \* history: all the child ever changed
    own,        \* history: what it committed by itself
    gone,       \* history: what the user or the system removed with the directory
    torn,       \* history: the process died holding a checkpoint it had not saved
    unread,     \* history: what was checked out when git did not tell a checkpoint's revision
    promised    \* history: what the child's results said is on which branch

treeVars == <<dir, registered, head, dirty>>
historyVars == <<written, own, gone, torn, unread, promised>>
vars == <<pc, treeVars, branches, revision, saved, live, selected, turns, crashes, historyVars>>

(***************************************************************************)
(* "unborn", "prepared" (its checkpoint not saved yet), "working"; the     *)
(* steps of cleanupWorktree(): "status", "commit", "branch", "remove";     *)
(* "suspended" (checkpoint not saved yet), "idle"; "restored" (not saved   *)
(* yet); "failed": the run ended, or was forgotten, without a checkpoint.  *)
(***************************************************************************)
Stages == {"unborn", "prepared", "working", "status", "commit", "branch", "remove",
           "suspended", "idle", "restored", "failed"}

(* The code runs git synchronously: between these nothing else of the      *)
(* process happens, but the process may die.                               *)
InCommand == pc \in {"status", "commit", "branch", "remove", "suspended"}

Branched == UNION {branches[i] : i \in DOMAIN branches}
InCheckout == IF dir THEN head \cup dirty ELSE {}

Init ==
    /\ pc = "unborn"
    /\ dir = FALSE /\ registered = FALSE /\ head = {} /\ dirty = {}
    /\ branches = <<>>
    /\ revision = {} /\ saved = {}
    /\ live = FALSE /\ selected = FALSE
    /\ turns = 0 /\ crashes = 0
    /\ written = {} /\ own = {} /\ gone = {} /\ torn = FALSE /\ unread = {}
    /\ promised = {}

-----------------------------------------------------------------------------
(* prepare(): a checkout for the first turn.                               *)

Prepare ==
    /\ pc = "unborn"
    /\ pc' = "prepared"
    /\ dir' = TRUE /\ registered' = TRUE
    /\ live' = TRUE
    /\ UNCHANGED <<head, dirty, branches, revision, saved, selected, turns, crashes,
                   historyVars>>

(* Creation fails closed: the run ends in an error. *)
PrepareFails ==
    /\ pc = "unborn" /\ "add" \in CanFail
    /\ pc' = "failed"
    /\ UNCHANGED <<treeVars, branches, revision, saved, live, selected, turns, crashes,
                   historyVars>>

(* persistRegistry() from onStateChanged, once the checkout is there.  What *)
(* a checkpoint missed is missed no more once one that holds it is saved.   *)
Save ==
    /\ pc \in {"prepared", "restored", "suspended"}
    /\ saved' = {revision}
    /\ unread' = unread \ revision
    /\ \/ pc = "suspended" /\ pc' = "idle" /\ UNCHANGED turns
       \/ pc # "suspended" /\ pc' = "working" /\ turns' = turns + 1
    /\ UNCHANGED <<treeVars, branches, revision, live, selected, crashes, written, own, gone,
                   torn, promised>>

-----------------------------------------------------------------------------
(* The child at work.                                                      *)

Write(w) ==
    /\ pc = "working" /\ dir /\ w \notin written
    /\ dirty' = dirty \cup {w}
    /\ written' = written \cup {w}
    /\ UNCHANGED <<pc, dir, registered, head, branches, revision, saved, live, selected,
                   turns, crashes, own, gone, torn, unread, promised>>

ChildCommit ==
    /\ pc = "working" /\ dir /\ registered /\ dirty # {} /\ ChildCommits
    /\ head' = head \cup dirty
    /\ dirty' = {}
    /\ own' = own \cup dirty
    /\ UNCHANGED <<pc, dir, registered, branches, revision, saved, live, selected, turns,
                   crashes, written, gone, torn, unread, promised>>

-----------------------------------------------------------------------------
(* cleanupWorktree(), when a turn ends or the child's session does not open.*)

(* currentRevision(): git's answer, or the last known value.  Git does not *)
(* know a checkout that it does not list.                                  *)
Reading(h) == {h} \cup IF "rev-parse" \in CanFail THEN {revision} ELSE {}

Reads(h) == \E rev \in Reading(h) : revision' = rev /\ unread' = unread \cup (h \ rev)

CurrentRevision == IF registered THEN Reads(head) ELSE UNCHANGED <<revision, unread>>

(* finish(): the checkpoint is taken and the worktree is no longer live. *)
Finish ==
    /\ pc' = "suspended"
    /\ live' = FALSE

(* A worktree whose fate is uncertain is left where it is. *)
Fail(command) == command \in CanFail /\ Finish /\ CurrentRevision

TurnEnds ==
    /\ pc = "working"
    /\ pc' = "status"
    /\ UNCHANGED <<treeVars, branches, revision, saved, live, selected, turns, crashes,
                   historyVars>>

(* A step of the cleanup that succeeds. *)
GoesOn(to) == pc' = to /\ UNCHANGED <<revision, unread, live>>

(* existsSync(), then git status *)
Check ==
    /\ pc = "status"
    /\ \/ ~dir /\ Finish /\ UNCHANGED <<revision, unread>>
       \/ dir /\ Fail("status")
       \/ dir /\ registered /\ dirty = {} /\ GoesOn("remove")
       \/ dir /\ registered /\ dirty # {} /\ GoesOn("commit")
    /\ UNCHANGED <<treeVars, branches, saved, selected, turns, crashes, written, own, gone,
                   torn, promised>>

(* commitStaged(), the retry past the hooks included.  A commit may have   *)
(* been made when git is reported to have failed (it was killed in a hook  *)
(* that follows): the retry then finds nothing to commit.                  *)
CommitStaged ==
    /\ pc = "commit"
    /\ \/ head' = head \cup dirty /\ dirty' = {} /\ GoesOn("branch")
       \/ UNCHANGED <<head, dirty>> /\ Fail("commit")
       \/ /\ head' = head \cup dirty /\ dirty' = {}
          /\ "commit" \in CanFail /\ Finish /\ Reads(head \cup dirty)
    /\ UNCHANGED <<dir, registered, branches, saved, selected, turns, crashes, written, own,
                   gone, torn, promised>>

(* Mutant of NewBranch: a name that is taken is moved to the new commit. *)
MoveBranch(rev) == <<rev>>

(* The name that is taken stays; a new one is made beside it. *)
NewBranch(rev) == Append(branches, rev)

(* createBranch(): the preferred name, or else one with a timestamp. *)
CreateBranch ==
    /\ pc = "branch"
    /\ \/ branches' = NewBranch(head) /\ GoesOn("remove")
       \/ UNCHANGED branches /\ Fail("branch")
    /\ UNCHANGED <<treeVars, saved, selected, turns, crashes, written, own, gone, torn, promised>>

(* What the result tells the parent: the branch this cleanup made, if any. *)
Promise ==
    promised' = IF branches # <<>> /\ head = branches[Len(branches)]
                THEN promised \cup {<<Len(branches), head>>} ELSE promised

(* removeWorktree(), whether or not git told the revision just before. *)
Remove ==
    /\ pc = "remove"
    /\ dir' = FALSE /\ registered' = FALSE
    /\ Finish /\ CurrentRevision
    /\ Promise
    /\ UNCHANGED <<head, dirty, branches, saved, selected, turns, crashes, written, own,
                   gone, torn>>

(* git refuses; it may have dropped its own entry all the same. *)
RemoveFails ==
    /\ pc = "remove"
    /\ "remove" \in CanFail
    /\ Finish
    /\ \/ registered' = FALSE /\ UNCHANGED <<revision, unread>>
       \/ UNCHANGED registered /\ CurrentRevision
    /\ UNCHANGED <<dir, head, dirty, branches, saved, selected, turns, crashes, written, own,
                   gone, torn, promised>>

-----------------------------------------------------------------------------
(* restoreWorktree(), when the record is resumed.                          *)

(* Mutant of Reattach: the checkout found on disk is reset to the checkpoint. *)
ResetOnReattach ==
    /\ dir /\ registered
    /\ head' = revision /\ dirty' = {}
    /\ UNCHANGED <<dir, registered, revision, unread>>

(* A directory that is still there is used as it is; one that git does not *)
(* list is refused.                                                        *)
Reattach ==
    /\ dir /\ registered /\ PathsAgree
    /\ CurrentRevision
    /\ UNCHANGED treeVars

(* The checkout is made again at the checkpoint. *)
Recreate ==
    /\ ~dir
    /\ dir' = TRUE /\ registered' = TRUE
    /\ head' = revision /\ dirty' = {}
    /\ UNCHANGED <<revision, unread>>

Resume ==
    /\ pc = "idle" /\ turns < MaxTurns
    /\ Reattach \/ Recreate
    /\ pc' = "restored"
    /\ live' = TRUE
    /\ UNCHANGED <<branches, saved, selected, turns, crashes, written, own, gone, torn, promised>>

-----------------------------------------------------------------------------
(* The user, the system, and the death of the process.                     *)

(* findPreservedWorktrees() *)
Preserved == dir /\ registered /\ ~live

SelectPreserved ==
    /\ ~InCommand /\ Preserved /\ ~selected
    /\ selected' = TRUE
    /\ UNCHANGED <<pc, treeVars, branches, revision, saved, live, turns, crashes, historyVars>>

Decline ==
    /\ ~InCommand /\ selected
    /\ selected' = FALSE
    /\ UNCHANGED <<pc, treeVars, branches, revision, saved, live, turns, crashes, historyVars>>

(* discardWorktree(), confirmed. *)
Discard ==
    /\ ~InCommand /\ selected
    /\ selected' = FALSE
    /\ \/ /\ dir /\ registered
          /\ dir' = FALSE /\ registered' = FALSE
          /\ gone' = gone \cup head \cup dirty
       \/ /\ dir => "remove" \in CanFail
          /\ UNCHANGED <<dir, registered, gone>>
    /\ UNCHANGED <<pc, head, dirty, branches, revision, saved, live, turns, crashes,
                   written, own, torn, unread, promised>>

(* The temporary directory is cleared. *)
Cleared ==
    /\ pc \in {"idle", "failed"} /\ dir
    /\ dir' = FALSE
    /\ gone' = gone \cup head \cup dirty
    /\ UNCHANGED <<pc, registered, head, dirty, branches, revision, saved, live, selected,
                   turns, crashes, written, own, torn, unread, promised>>

(* Mutant of Recovered: the next process clears what it finds registered. *)
RecoveredEmpty == dir' = FALSE /\ registered' = FALSE

(* pruneWorktrees() at startup drops only entries whose directory is gone. *)
Recovered == registered' = (registered /\ dir) /\ UNCHANGED dir

(* The process dies; the next one hydrates the record from the registry. *)
Crash ==
    /\ crashes < MaxCrashes /\ pc \notin {"unborn", "failed"}
    /\ crashes' = crashes + 1
    /\ Recovered
    /\ live' = FALSE /\ selected' = FALSE
    /\ \/ saved = {} /\ pc' = "failed" /\ UNCHANGED revision
       \/ revision' \in saved /\ pc' = "idle"
    /\ torn' = (torn \/ revision' # revision)
    /\ UNCHANGED <<head, dirty, branches, saved, turns, written, own, gone, unread,
                   promised>>

-----------------------------------------------------------------------------

Next ==
    \/ Prepare \/ PrepareFails \/ Save
    \/ \E w \in Work : Write(w)
    \/ ChildCommit \/ TurnEnds
    \/ Check \/ CommitStaged \/ CreateBranch \/ Remove \/ RemoveFails
    \/ Resume
    \/ SelectPreserved \/ Decline \/ Discard \/ Cleared \/ Crash

Spec == Init /\ [][Next]_vars

-----------------------------------------------------------------------------

(* Every variable has the values the code gives it. *)
TypeOK ==
    /\ pc \in Stages
    /\ dir \in BOOLEAN /\ registered \in BOOLEAN
    /\ head \subseteq Work /\ dirty \subseteq Work
    /\ branches \in Seq(SUBSET Work)
    /\ revision \subseteq Work
    /\ saved \subseteq SUBSET Work
    /\ live \in BOOLEAN /\ selected \in BOOLEAN
    /\ turns \in Nat /\ crashes \in Nat
    /\ written \subseteq Work /\ own \subseteq Work /\ gone \subseteq Work
    /\ torn \in BOOLEAN /\ unread \subseteq Work
    /\ promised \subseteq Nat \X SUBSET Work

(* What the user or the system did not remove, and no checkpoint missed: a *)
(* checkpoint that died with the process was the only trace of what the    *)
(* child had committed by itself, and one that git did not tell is older   *)
(* than what was checked out.                                              *)
Owed == (written \ gone) \ (unread \cup IF torn THEN own ELSE {})

(* Whatever git refuses and whenever the process dies, the child's work is *)
(* on disk, on a rescue branch or in the checkpoint a resume starts from,  *)
(* but for what a checkpoint missed.                                       *)
WorkHasAHandle == Owed \subseteq InCheckout \cup Branched \cup revision

(* A resumed child finds what it did before, but for what a checkpoint     *)
(* missed.                                                                 *)
ResumeSeesItsWork ==
    (pc \in {"restored", "working"} /\ dir /\ ~torn) =>
        (written \ gone) \ unread \subseteq head \cup dirty

(* A branch that a result named holds that turn's work from then on.       *)
PromisesKept == \A p \in promised : p[1] \in DOMAIN branches /\ p[2] \subseteq branches[p[1]]

(* Work that is nowhere but on disk, with no child at work there, is       *)
(* reported by the scan (unless the child had committed it by itself, or a *)
(* checkpoint had missed it before).                                       *)
AbandonedIsPreserved ==
    /\ pc \in {"idle", "failed"}
    /\ ~(InCheckout \subseteq Branched \cup revision \cup own \cup unread)
    => Preserved

(* worktree.ts, its header: a worktree is only removed once its outcome is *)
(* certain.  The code does not do so: when rev-parse fails the checkout is *)
(* removed all the same, and what only its HEAD held is lost.              *)
RemovedOnceCertain ==
    [][pc = "remove" /\ dir /\ ~dir' => head \subseteq Branched \cup revision']_vars

(* What the outcome "clean" says: there was nothing to save.               *)
NothingLeftToSave ==
    pc = "idle" => (written \ gone) \subseteq InCheckout \cup Branched

(* What the list of preserved worktrees says: none is in use by a child.   *)
RemovesNoLiveWorktree ==
    [][(dir /\ ~dir' /\ gone' # gone) => pc # "working"]_vars

=============================================================================
