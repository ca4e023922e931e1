--------------------------- MODULE WorkspaceMerge ---------------------------
(***************************************************************************)
(* Merging the branch of a Builder into the user's Git repository          *)
(* (services/merge-coordinator/src/merge-coordinator.ts, applyWorktree;    *)
(* services/workspace-manager/src/worktree-manager.ts, merge).             *)
(*                                                                         *)
(* An operation is a row of Git commands, each awaited, in a repository    *)
(* the user works in and other operations merge into.  The message of the  *)
(* merge commit holds the operation's key, so that a repeated operation    *)
(* can find itself in the log.  A command may fail or be killed by its     *)
(* timeout, and the gateway may die between two.                           *)
(***************************************************************************)
EXTENDS Naturals, FiniteSets

CONSTANTS
  Branches,   \* the worktrees of Builders, one branch each
  Merges,     \* operations; each has a key of its own
  BranchOf,   \* the branch each operation merges
  Direct,     \* the operations of the merge route, which may be repeated with their key
  MaxVersion, \* bound: revisions of a worktree
  MaxTroubles \* bound: failing commits, killed commands and deaths of the gateway, together

ASSUME MergeAssumption ==
  /\ BranchOf \in [Merges -> Branches] /\ Direct \subseteq Merges
  /\ MaxVersion \in Nat /\ MaxTroubles \in Nat

VARIABLES
  worktree,  \* of each branch: the version of its files, and the version last committed
  head,      \* the version of each branch that HEAD of the repository holds
  markers,   \* the operation keys in its log
  root,      \* its working tree: clean, with edits of the user, or in the middle of a merge
  at,        \* where each operation stands
  result,    \* what its caller was told
  asked,     \* the version its caller saw
  unsaved,   \* operations whose commit in the worktree failed
  troubles

mergeVars == <<worktree, head, markers, root, at, result, asked, unsaved, troubles>>

MergeTypeOK ==
  /\ worktree \in [Branches -> [files : 0 .. MaxVersion, committed : 0 .. MaxVersion]]
  /\ head \in [Branches -> 0 .. MaxVersion] /\ markers \subseteq Merges
  /\ root \in {"clean", "edited", "merging"}
  /\ at \in [Merges -> {"idle", "looking", "committing", "checking", "merging", "aborting", "over"}]
  /\ result \in [Merges -> {"none", "merged", "failed", "conflict"}]
  /\ asked \in [Merges -> 0 .. MaxVersion] /\ unsaved \subseteq Merges
  /\ troubles \in 0 .. MaxTroubles

MergeInit ==
  /\ worktree = [b \in Branches |-> [files |-> 0, committed |-> 0]]
  /\ head = [b \in Branches |-> 0] /\ markers = {} /\ root = "clean"
  /\ at = [o \in Merges |-> "idle"] /\ result = [o \in Merges |-> "none"]
  /\ asked = [o \in Merges |-> 0] /\ unsaved = {} /\ troubles = 0

-----------------------------------------------------------------------------
GoesTo(o, place) == at' = [at EXCEPT ![o] = place] /\ UNCHANGED result
Returns(o, outcome) == at' = [at EXCEPT ![o] = "over"] /\ result' = [result EXCEPT ![o] = outcome]
Trouble == troubles < MaxTroubles /\ troubles' = troubles + 1

BuilderWrites(b) ==
  /\ worktree[b].files < MaxVersion
  /\ worktree' = [worktree EXCEPT ![b].files = @ + 1]
  /\ UNCHANGED <<head, markers, root, at, result, asked, unsaved, troubles>>

(* Edits, or the end of a merge that somebody left in the repository.      *)
UserWorks ==
  /\ root' \in IF root = "clean" THEN {"edited"} ELSE {"clean"}
  /\ UNCHANGED <<worktree, head, markers, at, result, asked, unsaved, troubles>>

StartMerge(o) ==
  /\ at[o] = "idle" \/ (at[o] = "over" /\ o \in Direct)
  /\ GoesTo(o, "looking")
  /\ asked' = [asked EXCEPT ![o] = worktree[BranchOf[o]].files]
  /\ unsaved' = unsaved \ {o}
  /\ UNCHANGED <<worktree, head, markers, root, troubles>>

(* Mutated form: the marker names the task, not the operation.             *)
LookUpTask(o) ==
  /\ at[o] = "looking"
  /\ IF \E p \in markers : BranchOf[p] = BranchOf[o] THEN Returns(o, "merged") ELSE GoesTo(o, "committing")
  /\ UNCHANGED <<worktree, head, markers, root, asked, unsaved, troubles>>

(* git log --grep finds the operation, if it has merged before.            *)
LookUp(o) ==
  /\ at[o] = "looking"
  /\ IF o \in markers THEN Returns(o, "merged") ELSE GoesTo(o, "committing")
  /\ UNCHANGED <<worktree, head, markers, root, asked, unsaved, troubles>>

CommitWorktree(o) ==
  /\ at[o] = "committing" /\ GoesTo(o, "checking")
  /\ worktree' = [worktree EXCEPT ![BranchOf[o]].committed = worktree[BranchOf[o]].files]
  /\ UNCHANGED <<head, markers, root, asked, unsaved, troubles>>

(* The failure of a commit is swallowed.                                   *)
CommitFails(o) ==
  /\ at[o] = "committing" /\ GoesTo(o, "checking") /\ Trouble
  /\ unsaved' = unsaved \cup {o}
  /\ UNCHANGED <<worktree, head, markers, root, asked>>

CheckRoot(o) ==
  /\ at[o] = "checking"
  /\ IF root = "clean" THEN GoesTo(o, "merging") ELSE Returns(o, "failed")
  /\ UNCHANGED <<worktree, head, markers, root, asked, unsaved, troubles>>

UpToDate(b) == head[b] = worktree[b].committed

(* git merge, when no other merge is in its way.  Nothing is committed,    *)
(* and no key recorded, for a branch that HEAD holds already.              *)
GitMerge(o) ==
  LET b == BranchOf[o] IN
  /\ at[o] = "merging" /\ root # "merging"
  /\ Returns(o, "merged")
  /\ head' = [head EXCEPT ![b] = worktree[b].committed]
  /\ markers' = IF UpToDate(b) THEN markers ELSE markers \cup {o}
  /\ UNCHANGED <<worktree, root, asked, unsaved, troubles>>

(* The user's new edits would be overwritten.                              *)
GitRefuses(o) ==
  /\ at[o] = "merging" /\ root = "edited" /\ ~UpToDate(BranchOf[o])
  /\ Returns(o, "failed")
  /\ UNCHANGED <<worktree, head, markers, root, asked, unsaved, troubles>>

GitConflicts(o) ==
  /\ at[o] = "merging"
  /\ root = "merging" \/ (root = "clean" /\ ~UpToDate(BranchOf[o]))
  /\ GoesTo(o, "aborting") /\ root' = "merging"
  /\ UNCHANGED <<worktree, head, markers, asked, unsaved, troubles>>

(* Thirty seconds have passed; half the files may be merged.               *)
GitIsKilled(o) ==
  /\ at[o] = "merging" /\ root = "clean" /\ Trouble
  /\ Returns(o, "failed") /\ root' = "merging"
  /\ UNCHANGED <<worktree, head, markers, asked, unsaved>>

(* git merge --abort, if there is a merge to abort.                        *)
AbortMerge(o) ==
  /\ at[o] = "aborting" /\ Returns(o, "conflict")
  /\ root' = IF root = "merging" THEN "clean" ELSE root
  /\ UNCHANGED <<worktree, head, markers, asked, unsaved, troubles>>

(* Every command may fail; only a commit's failure goes unnoticed.         *)
CommandFails(o) ==
  /\ at[o] \in {"looking", "checking"} /\ Trouble
  /\ Returns(o, "failed")
  /\ UNCHANGED <<worktree, head, markers, root, asked, unsaved>>

(* The operation of a plan is not repeated then.                           *)
DieWhileMerging ==
  /\ Trouble /\ \E o \in Merges : at[o] \notin {"idle", "over"}
  /\ at' = [o \in Merges |-> IF at[o] = "idle" THEN "idle" ELSE "over"]
  /\ UNCHANGED <<worktree, head, markers, root, result, asked, unsaved>>

MergeStep(o) ==
  \/ LookUp(o) \/ CommitWorktree(o) \/ CommitFails(o) \/ CheckRoot(o) \/ GitMerge(o)
  \/ GitRefuses(o) \/ GitConflicts(o) \/ GitIsKilled(o) \/ AbortMerge(o) \/ CommandFails(o)

MergeNext ==
  \/ \E o \in Merges : StartMerge(o) \/ MergeStep(o)
  \/ \E b \in Branches : BuilderWrites(b)
  \/ UserWorks \/ DieWhileMerging

MergeSpec == MergeInit /\ [][MergeNext]_mergeVars

-----------------------------------------------------------------------------
(* What the operation of a plan reports as merged is in the repository:    *)
(* the files its caller saw, not only those a former operation found, and  *)
(* also when another operation merges the branch at the same time.  The    *)
(* one way out is the commit whose failure nobody looks at.                *)
MergedIsThere ==
  \A o \in Merges \ Direct :
    result[o] = "merged" /\ o \notin unsaved => head[BranchOf[o]] >= asked[o]

(* Operations that run to their end leave the user's repository without a  *)
(* merge in progress, whatever clashes and whoever merges besides.         *)
NothingIsLeftBehind ==
  root = "merging" => troubles > 0 \/ \E o \in Merges : at[o] = "aborting"

(* The inductive strengthening of the invariants above.  HEAD holds what   *)
(* was committed and that what was written; an operation past its commit   *)
(* has committed what its caller saw; the operation of a plan leaves its   *)
(* marker once, at its end.                                                *)
HeadFollowsWorktree == \A b \in Branches :
  head[b] <= worktree[b].committed /\ worktree[b].committed <= worktree[b].files

CommitHoldsAsked == \A o \in Merges :
  /\ at[o] # "idle" => asked[o] <= worktree[BranchOf[o]].files
  /\ at[o] \in {"checking", "merging", "aborting"} /\ o \notin unsaved =>
       asked[o] <= worktree[BranchOf[o]].committed

PlannedMergesOnce == \A o \in Merges \ Direct :
  at[o] # "over" => o \notin markers /\ result[o] = "none"

MergeInv ==
  /\ MergeTypeOK /\ HeadFollowsWorktree /\ CommitHoldsAsked /\ PlannedMergesOnce
  /\ MergedIsThere /\ NothingIsLeftBehind

(* Merging neither loses work of the Builders nor leaves the user with an  *)
(* unfinished merge.                                                       *)
MergeSafety == MergedIsThere /\ NothingIsLeftBehind
=============================================================================
