------------------------------ MODULE NewSibling ------------------------------
(***************************************************************************)
(* Publishing a new project next to the others of a workspace container    *)
(* (services/workspace-manager/src/worktree-manager.ts, applyNewSibling    *)
(* and finalizeNewSiblingApply, as MergeCoordinator.applyWorktree calls    *)
(* them).                                                                  *)
(*                                                                         *)
(* The file system has no transactions.  The directory is claimed by       *)
(* creating it, a marker file in it names the operation that fills it and  *)
(* says whether it is full, and the row of the worktree is written after   *)
(* that.  Every step may throw, the gateway may die between any two, and   *)
(* writing a file truncates it first.  The caller repeats the operation    *)
(* with the same key.                                                      *)
(***************************************************************************)
EXTENDS Naturals, FiniteSets

CONSTANTS
  Publishers,  \* apply operations whose projects have the same name
  Files,       \* how many files a project has
  MaxCuts,     \* bound: failing steps and deaths of the gateway, together
  User, Nobody

ASSUME PublisherAssumption ==
  /\ Files \in Nat \ {0} /\ MaxCuts \in Nat
  /\ User # Nobody /\ Publishers \cap {User, Nobody} = {}

VARIABLES
  folder,    \* the target directory: whether it exists, its marker and who wrote each file
  step,      \* where each operation stands
  copied,    \* how many files the operation has copied in this attempt
  recorded,  \* the operations whose key is in worktrees.applied_operation_key
  cuts       \* failures and deaths so far

siblingVars == <<folder, step, copied, recorded, cuts>>

Steps == {"idle", "staged", "made", "marking", "copying", "copied", "sealing",
          "published", "recorded", "over", "refused"}
NoMarker   == [by |-> Nobody, state |-> "none"]
TornMarker == [by |-> Nobody, state |-> "torn"]
OpenMarker(o) == [by |-> o, state |-> "open"]
FullMarker(o) == [by |-> o, state |-> "published"]
Marker ==
  {NoMarker, TornMarker} \cup {OpenMarker(o) : o \in Publishers} \cup {FullMarker(o) : o \in Publishers}

SiblingTypeOK ==
  /\ folder \in [exists : BOOLEAN, marker : Marker, files : [1 .. Files -> Publishers \cup {User, Nobody}]]
  /\ step \in [Publishers -> Steps] /\ copied \in [Publishers -> 0 .. Files]
  /\ recorded \subseteq Publishers /\ cuts \in 0 .. MaxCuts

SiblingInit ==
  /\ folder = [exists |-> FALSE, marker |-> NoMarker, files |-> [f \in 1 .. Files |-> Nobody]]
  /\ step = [o \in Publishers |-> "idle"] /\ copied = [o \in Publishers |-> 0]
  /\ recorded = {} /\ cuts = 0

-----------------------------------------------------------------------------
To(o, s) == step' = [step EXCEPT ![o] = s]
Mark(marker) == folder' = [folder EXCEPT !.marker = marker]

(* What applyNewSibling makes of a directory it finds.                     *)
Verdict(o) ==
  CASE folder.marker = OpenMarker(o) -> "copying"
    [] folder.marker = FullMarker(o) -> "published"
    [] folder.marker = NoMarker /\ o \in recorded -> "published"
    [] OTHER -> "refused"

(* Mutated form: only a published marker proves ownership.                 *)
LookForPublished(o) ==
  /\ step[o] \in {"idle", "refused"}
  /\ To(o, IF ~folder.exists THEN "staged"
           ELSE IF folder.marker = OpenMarker(o) THEN "refused" ELSE Verdict(o))
  /\ copied' = [copied EXCEPT ![o] = 0]
  /\ UNCHANGED <<folder, recorded, cuts>>

(* The operation starts, or is repeated.  For a free name the project is   *)
(* copied to a temporary directory first.                                  *)
Look(o) ==
  /\ step[o] \in {"idle", "refused"}
  /\ To(o, IF folder.exists THEN Verdict(o) ELSE "staged")
  /\ copied' = [copied EXCEPT ![o] = 0]
  /\ UNCHANGED <<folder, recorded, cuts>>

(* Mutated form: mkdir with recursive: true, which a directory that is     *)
(* there already does not fail.                                            *)
MakeFolderRecursively(o) ==
  /\ step[o] = "staged" /\ To(o, "made")
  /\ folder' = [folder EXCEPT !.exists = TRUE]
  /\ UNCHANGED <<copied, recorded, cuts>>

MakeFolder(o) ==
  /\ step[o] = "staged"
  /\ IF folder.exists THEN To(o, "refused") /\ UNCHANGED folder
     ELSE To(o, "made") /\ folder' = [folder EXCEPT !.exists = TRUE]
  /\ UNCHANGED <<copied, recorded, cuts>>

CreateMarker(o) ==
  /\ step[o] = "made" /\ folder.marker = NoMarker
  /\ To(o, "marking") /\ Mark(TornMarker)
  /\ UNCHANGED <<copied, recorded, cuts>>

WriteMarker(o) ==
  /\ step[o] = "marking" /\ To(o, "copying") /\ Mark(OpenMarker(o))
  /\ UNCHANGED <<copied, recorded, cuts>>

CopyFile(o) ==
  /\ step[o] = "copying"
  /\ folder' = [folder EXCEPT !.files[copied[o] + 1] = o]
  /\ copied' = [copied EXCEPT ![o] = @ + 1]
  /\ To(o, IF copied[o] + 1 = Files THEN "copied" ELSE "copying")
  /\ UNCHANGED <<recorded, cuts>>

TruncateMarker(o) ==
  /\ step[o] = "copied" /\ To(o, "sealing") /\ Mark(TornMarker)
  /\ UNCHANGED <<copied, recorded, cuts>>

SealMarker(o) ==
  /\ step[o] = "sealing" /\ To(o, "published") /\ Mark(FullMarker(o))
  /\ UNCHANGED <<copied, recorded, cuts>>

(* markNewSiblingApplied. *)
RecordApplied(o) ==
  /\ step[o] = "published" /\ To(o, "recorded")
  /\ recorded' = recorded \cup {o}
  /\ UNCHANGED <<folder, copied, cuts>>

(* finalizeNewSiblingApply takes the marker away.                          *)
RemoveMarker(o) ==
  /\ step[o] = "recorded" /\ folder.marker \in {NoMarker, FullMarker(o)}
  /\ To(o, "over") /\ Mark(NoMarker)
  /\ UNCHANGED <<copied, recorded, cuts>>

(* A step throws; the caller may repeat the operation.                     *)
StepFails(o) ==
  /\ step[o] \notin {"idle", "over", "refused"}
  /\ cuts < MaxCuts /\ cuts' = cuts + 1
  /\ To(o, "idle")
  /\ UNCHANGED <<folder, copied, recorded>>

(* The gateway dies and is started again.                                  *)
DieWhilePublishing ==
  /\ cuts < MaxCuts /\ cuts' = cuts + 1
  /\ \E o \in Publishers : step[o] \notin {"idle", "over", "refused"}
  /\ step' = [o \in Publishers |-> IF step[o] = "over" THEN "over" ELSE "idle"]
  /\ UNCHANGED <<folder, copied, recorded>>

(* The user makes a directory of that name.                                *)
UserMakesFolder ==
  /\ ~folder.exists
  /\ folder' = [folder EXCEPT !.exists = TRUE, !.files[1] = User]
  /\ UNCHANGED <<step, copied, recorded, cuts>>

PublishStep(o) ==
  \/ Look(o) \/ MakeFolder(o) \/ CreateMarker(o) \/ WriteMarker(o) \/ CopyFile(o)
  \/ TruncateMarker(o) \/ SealMarker(o) \/ RecordApplied(o) \/ RemoveMarker(o)

SiblingNext ==
  \/ \E o \in Publishers : PublishStep(o) \/ StepFails(o)
  \/ DieWhilePublishing \/ UserMakesFolder

SiblingSpec == SiblingInit /\ [][SiblingNext]_siblingVars

(* Steps end, and the caller repeats an operation that has not succeeded.  *)
SiblingFairSpec == SiblingSpec /\ \A o \in Publishers : WF_siblingVars(PublishStep(o))

-----------------------------------------------------------------------------
Writers == {folder.files[f] : f \in 1 .. Files} \ {Nobody}

(* Whatever operations and the user do at once, and however they are       *)
(* interrupted, the directory holds the files of one of them: nothing is   *)
(* written into a directory somebody else has made.                        *)
OneProject == Cardinality(Writers) <= 1

(* A project of which only some files are there carries a marker that says *)
(* so and names its operation: the repetition can tell its own half-done   *)
(* work from a directory of the user's, and goes on copying.               *)
PartialIsMarked ==
  \A o \in Publishers :
    o \in Writers /\ (\E f \in 1 .. Files : folder.files[f] # o) => folder.marker = OpenMarker(o)

(* The row of a worktree names the operation only when all its files are   *)
(* in the workspace, also when the answer was found by a repetition.       *)
RecordedIsComplete ==
  \A o \in recorded, f \in 1 .. Files : folder.files[f] = o

(* The inductive strengthening of the invariants above.  A directory that  *)
(* does not exist is empty and nobody publishes into it; the marker says   *)
(* the truth about the files; an operation past the creation of the        *)
(* directory finds the marker and the files it has left there; and only    *)
(* one operation fills a directory that has no marker yet.                 *)
Writes(o, fs) == \A f \in fs : folder.files[f] = o
Filling == {"made", "marking", "copying", "copied", "sealing", "published", "recorded"}

NothingBeforeTheFolder == ~folder.exists =>
  /\ folder.marker = NoMarker /\ Writes(Nobody, 1 .. Files) /\ recorded = {}
  /\ \A o \in Publishers : step[o] \notin Filling

OneWriter == \A f, g \in 1 .. Files : Nobody \in {folder.files[f], folder.files[g]} \/ folder.files[f] = folder.files[g]

MarkerIsTrue == \A o \in Publishers :
  /\ folder.marker = OpenMarker(o) => \A f \in 1 .. Files : folder.files[f] \in {o, Nobody}
  /\ folder.marker = FullMarker(o) => Writes(o, 1 .. Files)

StepsAreTrue == \A o \in Publishers :
  /\ step[o] = "made" => folder.marker = NoMarker
  /\ step[o] \in {"made", "marking"} => Writes(Nobody, 1 .. Files)
  /\ step[o] \in {"marking", "sealing"} => folder.marker = TornMarker
  /\ step[o] \in {"copying", "copied"} => folder.marker = OpenMarker(o)
  /\ step[o] = "copying" => copied[o] < Files /\ Writes(o, 1 .. copied[o])
  /\ step[o] \in {"copied", "sealing", "published", "recorded"} => Writes(o, 1 .. Files)
  /\ step[o] = "published" => folder.marker \in {NoMarker, FullMarker(o)}

NothingCopiedYet == \A o \in Publishers : step[o] \in {"staged", "made", "marking"} => copied[o] = 0

OneFiller == \A o, p \in Publishers :
  step[o] \in {"made", "marking"} /\ step[p] \in {"made", "marking"} => o = p

SiblingInv ==
  /\ SiblingTypeOK /\ NothingBeforeTheFolder /\ OneWriter
  /\ PartialIsMarked /\ RecordedIsComplete
  /\ MarkerIsTrue /\ StepsAreTrue /\ NothingCopiedYet /\ OneFiller

(* A project left half-published is completed by the repetition: a death   *)
(* in the middle of the copy does not strand it.                           *)
OpenIsFinished == \A o \in Publishers : []<>(folder.marker # OpenMarker(o))

(* A project directory is nobody else's, and marker and row say how far    *)
(* its publication has come.                                               *)
SiblingSafety == OneProject /\ PartialIsMarked /\ RecordedIsComplete
=============================================================================
