--------------------------- MODULE ExtensionInstall ---------------------------
(* Installing and updating one extension from its remote: resolving a commit,   *)
(* downloading it into a staging directory, installing its dependencies there,  *)
(* and swapping it into place through a backup, with a crash or a failing file  *)
(* operation at any step. Stopping the process is ExtensionService's part.      *)
EXTENDS Naturals

CONSTANTS Commits,   \* commits the remote may offer, in order
          MaxInstalls, \* bound on the jobs
          MaxFaults, \* bound on crashes and on moves that fail
          Partial    \* what an interrupted download leaves of a directory
ASSUME InstallAssumption == Commits \subseteq Nat \ {0} /\ MaxInstalls \in Nat /\ MaxFaults \in Nat /\ Partial \notin Nat

VARIABLES target, backup, staging, archive, repo, recorded, offered, step, commit, installs, faults
installVars == <<target, backup, staging, archive, repo, recorded, offered, step, commit, installs, faults>>

\* What a directory holds: the files of a commit, or less.
Absent == 0
Latest == 0   \* the commit of a job that asks for the newest compatible one
Contents == Commits \union {Absent, Partial}

Steps == {"idle", "check", "prepare", "resolve", "download", "extract", "checkout", "dependencies",
          "dropBackup", "backUp", "moveIn", "restore", "dropOld", "save", "clear"}
InstallTypeOK ==
    /\ {target, backup} \subseteq Commits \union {Absent}
    /\ staging \in Contents /\ archive \in BOOLEAN     \* the downloaded tarball
    /\ repo \in {"none", "partial", "cloned"}          \* the cached bare clone
    /\ recorded \in Commits \union {Absent}            \* state.commit_hash
    /\ offered \in Commits \union {Absent}
    /\ step \in Steps /\ commit \in Commits \union {Latest}
    /\ installs \in 0..MaxInstalls /\ faults \in 0..MaxFaults

InstallInit ==
    /\ target = Absent /\ backup = Absent /\ staging = Absent /\ archive = FALSE /\ repo = "none"
    /\ recorded = Absent /\ offered \in Commits /\ step = "idle" /\ commit = Latest
    /\ installs = 0 /\ faults = 0

-----------------------------------------------------------------------------
Goes(from, to) == step = from /\ step' = to
DirsKept == UNCHANGED <<target, backup, recorded>>
CountsKept == UNCHANGED <<offered, installs, faults>>
Faulty == faults < MaxFaults /\ faults' = faults + 1
\* Mutant: the staging directory stays.
FailQuietly == step' = "idle" /\ UNCHANGED staging
\* fail: the staging directory goes, and the error is reported.
FailJob == step' = "idle" /\ staging' = Absent

Install == \E c \in {Latest} \union {x \in Commits : x <= offered} :
    /\ Goes("idle", "prepare") /\ installs < MaxInstalls /\ installs' = installs + 1
    /\ commit' = c /\ DirsKept /\ UNCHANGED <<staging, archive, repo, offered, faults>>
Update ==
    /\ Goes("idle", "check") /\ target # Absent /\ installs < MaxInstalls /\ installs' = installs + 1
    /\ commit' = Latest /\ DirsKept /\ UNCHANGED <<staging, archive, repo, offered, faults>>

\* The bare clone is fetched once per job, and cloned afresh when it is not one.
Fetched == repo' \in {repo, "cloned"}
\* check_update: the newest compatible hash differs from the recorded one.
CheckUpdate ==
    /\ step = "check" /\ Fetched
    /\ \/ recorded # offered /\ step' = "prepare" /\ commit' = offered
       \/ step' = "idle" /\ commit' = commit    \* up to date, or the remote failed
    /\ DirsKept /\ CountsKept /\ UNCHANGED <<staging, archive>>

PrepareStaging ==
    /\ step = "prepare" /\ staging' = Absent /\ step' \in {"resolve", "idle"}
    /\ DirsKept /\ CountsKept /\ UNCHANGED <<archive, repo, commit>>
ResolveHash ==
    /\ step = "resolve" /\ DirsKept /\ CountsKept /\ UNCHANGED archive
    /\ \/ /\ step' \in {"download", "checkout"} /\ UNCHANGED staging
          /\ IF commit = Latest THEN commit' = offered /\ Fetched ELSE UNCHANGED <<commit, repo>>
       \/ commit = Latest /\ FailJob /\ UNCHANGED <<commit, repo>>

\* The known hosts offer tarballs: download, unpack, check the manifest, and
\* replace the staging directory; the tarball goes on every way out.
Download ==
    /\ step = "download" /\ DirsKept /\ CountsKept /\ UNCHANGED <<repo, commit>>
    /\ \/ step' = "extract" /\ archive' = TRUE /\ UNCHANGED staging
       \/ FailJob /\ archive' = FALSE
ExtractAndInstall ==
    /\ step = "extract" /\ archive' = FALSE /\ DirsKept /\ CountsKept /\ UNCHANGED <<repo, commit>>
    /\ (step' = "dependencies" /\ staging' = commit) \/ FailJob
\* Any other remote is checked out with git into the staging directory.
Checkout ==
    /\ step = "checkout" /\ DirsKept /\ CountsKept /\ UNCHANGED <<archive, commit>> /\ Fetched
    /\ (step' = "dependencies" /\ staging' = commit) \/ FailJob
\* pip installs into the staging directory; then the process is stopped.
InstallDependencies ==
    /\ step = "dependencies" /\ DirsKept /\ CountsKept /\ UNCHANGED <<archive, repo, commit>>
    /\ (step' = "dropBackup" /\ UNCHANGED staging) \/ FailJob

-----------------------------------------------------------------------------
\* _swap_dir, one file operation at a time.
SwapKept == UNCHANGED <<archive, repo, recorded, commit, offered, installs>>
DropBackup ==
    /\ step = "dropBackup" /\ backup' = Absent
    /\ step' = IF target = Absent THEN "moveIn" ELSE "backUp"
    /\ SwapKept /\ UNCHANGED <<target, staging, faults>>
BackUp ==
    /\ step = "backUp" /\ SwapKept
    /\ \/ step' = "moveIn" /\ backup' = target /\ target' = Absent /\ UNCHANGED <<staging, faults>>
       \/ Faulty /\ FailJob /\ UNCHANGED <<target, backup>>
MoveIn ==
    /\ step = "moveIn" /\ SwapKept /\ UNCHANGED backup
    /\ \/ step' = "dropOld" /\ target' = staging /\ staging' = Absent /\ UNCHANGED faults
       \/ step' = "restore" /\ Faulty /\ UNCHANGED <<target, staging>>
Restore ==
    /\ step = "restore" /\ SwapKept /\ FailJob
    /\ \/ target' = backup /\ backup' = Absent /\ UNCHANGED faults
       \/ backup # Absent /\ Faulty /\ UNCHANGED <<target, backup>>
DropOld ==
    /\ Goes("dropOld", "save") /\ backup' = Absent
    /\ SwapKept /\ UNCHANGED <<target, staging, faults>>
\* The manifest is loaded again, which may reject it, and the state saved.
SaveInstalledState ==
    /\ Goes("save", "clear") /\ recorded' \in {recorded, commit}
    /\ CountsKept /\ UNCHANGED <<target, backup, staging, archive, repo, commit>>
FinishInstall ==
    /\ Goes("clear", "idle") /\ staging' = Absent
    /\ DirsKept /\ CountsKept /\ UNCHANGED <<archive, repo, commit>>

\* The process ends at any step; what it was writing is left half written.
CrashInstall ==
    /\ step # "idle" /\ step' = "idle" /\ Faulty
    /\ staging' \in (IF step \in {"prepare", "resolve", "extract", "checkout", "dependencies"} THEN {staging, Partial} ELSE {staging})
    /\ repo' \in (IF step \in {"check", "resolve", "checkout"} /\ repo # "cloned" THEN {repo, "partial"} ELSE {repo})
    /\ DirsKept /\ UNCHANGED <<archive, commit, offered, installs>>

Publish == \E c \in Commits :
    /\ c > offered /\ offered' = c
    /\ UNCHANGED <<target, backup, staging, archive, repo, recorded, step, commit, installs, faults>>

InstallNext ==
    \/ Install \/ Update \/ CheckUpdate \/ PrepareStaging \/ ResolveHash \/ Download \/ ExtractAndInstall
    \/ Checkout \/ InstallDependencies \/ DropBackup \/ BackUp \/ MoveIn \/ Restore \/ DropOld
    \/ SaveInstalledState \/ FinishInstall \/ CrashInstall \/ Publish
InstallSpec == InstallInit /\ [][InstallNext]_installVars

-----------------------------------------------------------------------------
\* "Replace `target` with `new_dir`, rolling back to the original on failure":
\* one crash, or one move that fails, at any step of any job, leaves a whole copy
\* of an extension that was installed, in place, as a backup or still staged.
CopyKept == recorded # Absent => \E dir \in {target, backup, staging} : dir \in Commits

\* A job cleans up on each of its ways out: unless a crash or a failing move
\* interfered, no staged files, tarball or backup outlive it.
NothingLeft == step = "idle" /\ faults = 0 => staging = Absent /\ backup = Absent /\ ~archive

\* Both together: what a job leaves of the directories.
DirectoriesKept == CopyKept /\ NothingLeft
===============================================================================
