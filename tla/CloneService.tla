---------------------------- MODULE CloneService ----------------------------
(***************************************************************************)
(* GitCloneService: when the server starts it finds out, in the            *)
(* background, which clone it serves, and makes one where there is none.   *)
(* The process may stop between any two commands, and in the middle of     *)
(* git clone; what is on the disk then is what the next one finds.         *)
(***************************************************************************)
EXTENDS Naturals

CONSTANT MaxStarts   \* bound on the processes, one after the other

ASSUME StartsAssumption == MaxStarts \in Nat

VARIABLES
    options,    \* [repository: one is configured, named: git's settings name a remote]
    directory,  \* the working directory
    found,      \* history: the directory when the process started
    step,       \* how far DetectCloneConfiguration is
    task,       \* DetectedConfigurationTask
    starts

cloneVars == <<options, directory, found, step, task, starts>>

Options == [repository : BOOLEAN, named : BOOLEAN]

(* The directory is "none", without git; "noRemotes"; "other", with a      *)
(* remote, or several; or at a stage of GitClone: "partial", killed in git *)
(* clone, "cloned", "orphaned", on the branch __fake, "emptied", of files, *)
(* and "whole", without the branch that was cloned.                        *)
Directories ==
    {"none", "noRemotes", "other", "partial", "cloned", "orphaned", "emptied", "whole"}
CloneSteps == {"clone", "checkout", "rm", "branch"}
Working == {"load", "remotes", "configure"} \cup CloneSteps

-----------------------------------------------------------------------------
CloneInit ==
    /\ options \in Options
    /\ directory \in {"none", "noRemotes", "other", "whole"} /\ found = directory
    /\ step = "stopped" /\ task = "pending" /\ starts = 0

StartAsync ==
    /\ step = "stopped" /\ starts < MaxStarts
    /\ step' = "load" /\ task' = "pending"
    /\ found' = directory /\ starts' = starts + 1
    /\ UNCHANGED <<options, directory>>

(* A command succeeds and the next one is due.                             *)
Run(this, next, result) ==
    /\ step = this /\ step' = next
    /\ directory' = result
    /\ UNCHANGED <<options, found, task, starts>>

(* LoadRemotes takes any error of git for the lack of a git directory.     *)
EnsureGitClone ==
    \/ ~options.repository /\ Run("load", "remotes", directory)
    \/ options.repository /\ directory # "none" /\ Run("load", "configure", directory)
    \/ options.repository /\ Run("load", "clone", directory)

(* GitClone.Execute.  git clone itself refuses a directory with files.     *)
GitClone ==
    \/ directory = "none" /\ Run("clone", "checkout", "cloned")
    \/ Run("checkout", "rm", "orphaned")
    \/ Run("rm", "branch", "emptied")
    \/ Run("branch", "remotes", "whole")

GitRemote == directory # "none" /\ Run("remotes", "configure", directory)

SettleTask(outcome) ==
    /\ step' = "done" /\ task' = outcome
    /\ UNCHANGED <<options, directory, found, starts>>

(* The first remote of none is taken if the settings name none.            *)
Configure ==
    /\ step = "configure"
    /\ options.named \/ directory # "noRemotes"
    /\ SettleTask("configured")

(* The exception of a command, or of the status CloneFailed.               *)
ReadingFailsUnseen == step \in Working \ CloneSteps /\ step' = "done"
                 /\ UNCHANGED <<options, directory, found, task, starts>>
ReadingFails == step \in Working \ CloneSteps /\ SettleTask("failed")

CloneFailsUnseen == step \in CloneSteps /\ Run(step, "remotes", directory)
CloneFails == step \in CloneSteps /\ SettleTask("failed")

DetectCloneConfiguration ==
    EnsureGitClone \/ GitClone \/ GitRemote \/ Configure \/ ReadingFails \/ CloneFails

(* The process stops, and is started again.                                *)
Stop ==
    /\ step # "stopped" /\ starts < MaxStarts
    /\ step' = "stopped" /\ task' = "pending"
    /\ directory' \in {directory} \cup (IF step = "clone" /\ directory = "none" THEN {"partial"} ELSE {})
    /\ UNCHANGED <<options, found, starts>>

-----------------------------------------------------------------------------
CloneTypeOK ==
    /\ options \in Options
    /\ directory \in Directories /\ found \in Directories
    /\ step \in Working \cup {"stopped", "done"}
    /\ task \in {"pending", "configured", "failed"}
    /\ starts \in 0..MaxStarts

(* "If the working directory is empty, the repository as specified by      *)
(* `GIT__REPOSITORY` will be cloned", and if it is not, it will not        *)
(* (docs/env.md:10, 16): a server with a configuration serves the clone it *)
(* has made, whole, or the directory as it found it, which may be what an  *)
(* earlier process left of a clone.                                        *)
NewClonesAreWhole ==
    task = "configured" => directory = IF found = "none" THEN "whole" ELSE found
=============================================================================
