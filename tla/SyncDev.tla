------------------------------- MODULE SyncDev -------------------------------
(***************************************************************************)
(* git-sync-dev.mjs: brings the dev branch up to date with origin/main by  *)
(* merge or rebase, behind a backup branch, and pushes it.                 *)
(*                                                                         *)
(* A branch is the set of the commits it contains; a merge commit adds     *)
(* nothing to lose and is left out.  A commit is a change and the number   *)
(* of the rebase that copied it, 0 for the original.  A branch that does   *)
(* not exist yet is the empty set.                                         *)
(*                                                                         *)
(* External, as the script uses git: fetch makes the tracking branches     *)
(* those of the remote; a push that is not forced needs the remote branch  *)
(* to be contained in dev; --force-with-lease needs it to be origin/dev;   *)
(* --force-if-includes needs origin/dev to be contained in a tip dev had,  *)
(* by its reflog.  A push may take effect and fail all the same.           *)
(* Meanwhile another machine pushes to dev, after a pull or with copies    *)
(* rebased there; main advances; and an editor fetches in the background.  *)
(***************************************************************************)
EXTENDS Naturals

CONSTANTS
    Changes,     \* what commits change: bound of the commits made
    MaxRebases,  \* bound of the rebases, of this machine and of the other one
    Null

ASSUME SyncDevAssumption == MaxRebases \in Nat

VARIABLES
    dev,          \* the local branch
    originDev,    \* refs/remotes/origin/dev
    originMain,   \* refs/remotes/origin/main
    remoteDev,    \* dev at origin
    remoteMain,   \* main at origin
    backups,      \* the dev-backup branches
    reflogDev,    \* the tips of dev in its reflog
    objects,      \* the commits the clone has
    rebases,      \* the rebases so far
    syncPc,       \* what the script does
    operation,    \* its argument: "merge" or "rebase"; Null while no script runs
    devHistory    \* auxiliary: the commits dev ever had

remoteVars == <<remoteDev, remoteMain>>
trackingVars == <<originDev, originMain>>
syncVars == <<dev, trackingVars, remoteVars, backups, reflogDev, objects, rebases,
              syncPc, operation, devHistory>>

Commits == [change : Changes, copy : 0..MaxRebases]
ChangesOf(branch) == {commit.change : commit \in branch}

\* dev moves to a new tip.
MoveDev(branch) ==
    /\ dev' = branch
    /\ reflogDev' = reflogDev \cup {branch}
    /\ objects' = objects \cup branch
    /\ devHistory' = devHistory \cup branch

\* The commits of a branch that main lacks, copied on top of it: git skips a change
\* that main has.
Rebased(branch, main) ==
    main \cup {[change |-> c, copy |-> rebases + 1] : c \in ChangesOf(branch) \ ChangesOf(main)}

NextStep(pc) == syncPc' = pc /\ UNCHANGED operation

\* With 0 after a push, with 1 otherwise: nothing here depends on it.
ExitSync == syncPc' = "idle" /\ operation' = Null

(***************************************************************************)
(* The script                                                              *)
(***************************************************************************)

InvokeSync ==
    /\ syncPc = "idle"
    /\ syncPc' = "fetch"
    /\ operation' \in {"merge", "rebase"}
    /\ UNCHANGED <<dev, trackingVars, remoteVars, backups, reflogDev, objects, rebases, devHistory>>

FetchOrigin ==
    /\ originDev' = remoteDev
    /\ originMain' = remoteMain
    /\ objects' = objects \cup remoteDev \cup remoteMain

\* fetch origin and switch dev.
Fetch ==
    /\ syncPc = "fetch"
    /\ FetchOrigin
    /\ NextStep("check")
    /\ UNCHANGED <<dev, remoteVars, backups, reflogDev, rebases, devHistory>>

IncludesRemoteDev == originDev \subseteq dev

CheckRemoteDev ==
    /\ syncPc = "check"
    /\ IF IncludesRemoteDev THEN NextStep("backup") ELSE ExitSync
    /\ UNCHANGED <<dev, trackingVars, remoteVars, backups, reflogDev, objects, rebases, devHistory>>

\* Mutant: dev is rebased without a backup.
SkipBackup ==
    /\ syncPc = "backup"
    /\ NextStep(operation)
    /\ UNCHANGED <<dev, trackingVars, remoteVars, backups, reflogDev, objects, rebases, devHistory>>

Backup ==
    /\ syncPc = "backup"
    /\ backups' = backups \cup {dev}
    /\ NextStep(operation)
    /\ UNCHANGED <<dev, trackingVars, remoteVars, reflogDev, objects, rebases, devHistory>>

Merge ==
    /\ syncPc = "merge"
    /\ MoveDev(dev \cup originMain)
    /\ NextStep("push")
    /\ UNCHANGED <<trackingVars, remoteVars, backups, rebases>>

\* Nothing moves if dev is on top of main already, but a merge of main is undone
\* and the commits before it are copied.
Rebase ==
    /\ syncPc = "rebase"
    /\ \/ originMain \subseteq dev /\ UNCHANGED <<dev, reflogDev, objects, rebases, devHistory>>
       \/ /\ rebases < MaxRebases
          /\ MoveDev(Rebased(dev, originMain))
          /\ rebases' = rebases + 1
    /\ NextStep("forcePush")
    /\ UNCHANGED <<trackingVars, remoteVars, backups>>

\* A git command fails, a merge or rebase with conflicts for example, which the
\* developer then aborts.
AbortSync ==
    /\ syncPc # "idle"
    /\ ExitSync
    /\ UNCHANGED <<dev, trackingVars, remoteVars, backups, reflogDev, objects, rebases, devHistory>>

\* Mutant: --force-with-lease alone.
LeaseAccepted ==
    IF syncPc = "push" THEN remoteDev \subseteq dev ELSE remoteDev = originDev

PushAccepted ==
    IF syncPc = "push" THEN remoteDev \subseteq dev
    ELSE /\ remoteDev = originDev
         /\ \E tip \in reflogDev : originDev \subseteq tip

Push ==
    /\ syncPc \in {"push", "forcePush"}
    /\ PushAccepted
    /\ remoteDev' = dev
    /\ originDev' \in {dev, originDev}
    /\ ExitSync
    /\ UNCHANGED <<dev, originMain, remoteMain, backups, reflogDev, objects, rebases, devHistory>>

(***************************************************************************)
(* The developer, the editor and the other machine                         *)
(***************************************************************************)

NewChanges == Changes \ ChangesOf(objects \cup remoteDev \cup remoteMain)

Commit ==
    /\ syncPc = "idle"
    /\ \E c \in NewChanges : MoveDev(dev \cup {[change |-> c, copy |-> 0]})
    /\ UNCHANGED <<trackingVars, remoteVars, backups, rebases, syncPc, operation>>

\* git pull origin dev
PullDev ==
    /\ syncPc = "idle"
    /\ originDev' = remoteDev
    /\ MoveDev(dev \cup remoteDev)
    /\ UNCHANGED <<originMain, remoteVars, backups, rebases, syncPc, operation>>

BackgroundFetch ==
    /\ FetchOrigin
    /\ UNCHANGED <<dev, remoteVars, backups, reflogDev, rebases, syncPc, operation, devHistory>>

PushedElsewhere ==
    /\ \E c \in NewChanges : remoteDev' = remoteDev \cup {[change |-> c, copy |-> 0]}
    /\ UNCHANGED <<dev, trackingVars, remoteMain, backups, reflogDev, objects, rebases,
                   syncPc, operation, devHistory>>

RebasedElsewhere ==
    /\ rebases < MaxRebases
    /\ ~(remoteMain \subseteq remoteDev)
    /\ remoteDev' = Rebased(remoteDev, remoteMain)
    /\ rebases' = rebases + 1
    /\ UNCHANGED <<dev, trackingVars, remoteMain, backups, reflogDev, objects,
                   syncPc, operation, devHistory>>

\* A change of its own, or dev is merged into it.
MainAdvances ==
    /\ \/ \E c \in NewChanges : remoteMain' = remoteMain \cup {[change |-> c, copy |-> 0]}
       \/ remoteMain' = remoteMain \cup remoteDev
    /\ UNCHANGED <<dev, trackingVars, remoteDev, backups, reflogDev, objects, rebases,
                   syncPc, operation, devHistory>>

\* What prune-tags.mjs does to the clone at its end.
ExpireReflogs == reflogDev' = {}

CollectGarbage == objects' = UNION ({dev, originDev, originMain} \cup backups \cup reflogDev)

\* A fresh clone with dev checked out.
InitSync ==
    /\ dev = {} /\ originDev = {} /\ originMain = {} /\ remoteDev = {} /\ remoteMain = {}
    /\ backups = {} /\ reflogDev = {{}} /\ objects = {} /\ rebases = 0
    /\ syncPc = "idle" /\ operation = Null /\ devHistory = {}

NextSync ==
    \/ InvokeSync \/ Fetch \/ CheckRemoteDev \/ Backup \/ Merge \/ Rebase \/ Push \/ AbortSync
    \/ Commit \/ PullDev \/ BackgroundFetch
    \/ PushedElsewhere \/ RebasedElsewhere \/ MainAdvances

(***************************************************************************)
(* Properties                                                              *)
(***************************************************************************)

\* "It stops before touching anything when origin/dev has commits that the local
\* dev lacks, since the push would drop them": no change that dev has at origin is
\* ever dropped there, although others push, and an editor fetches, between the
\* check and the push.
PushDropsNothing == [][ChangesOf(remoteDev) \subseteq ChangesOf(remoteDev')]_syncVars

\* A commit that dev ever had stays in the clone, as it was before it was copied by a
\* rebase: the backups hold it when prune-tags.mjs expires the reflogs and deletes
\* what no branch contains.
SyncedCommitsSurvive == devHistory \subseteq objects
=============================================================================
