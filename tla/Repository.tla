----------------------------- MODULE Repository -----------------------------
(***************************************************************************)
(* The scripts that change the repository and its clone, run one at a time *)
(* from one terminal: prune-releases.mjs and remove-workflows.mjs          *)
(* (PagedDeletion), prune-tags.mjs (PruneTags) and git-sync-dev.mjs        *)
(* (SyncDev).  The last two meet in the clone: the fetch of prune-tags.mjs *)
(* moves the tracking branches, and its clean-up empties the reflog that a *)
(* forced push relies on and deletes the commits no branch contains.       *)
(***************************************************************************)
EXTENDS PagedDeletion, PruneTags, SyncDev

repositoryVars == <<listingVars, tagVars, syncVars>>

NoScript == listingPc = "idle" /\ tagsPc = "idle" /\ syncPc = "idle"

ListingStep ==
    /\ NextListing
    /\ listingPc = "idle" => NoScript
    /\ UNCHANGED <<tagVars, syncVars>>

TagStep ==
    /\ TagScript
    /\ tagsPc = "idle" => NoScript
    /\ UNCHANGED <<listingVars, syncVars>>

OtherTagStep ==
    /\ TagPushed \/ TagDeleted
    /\ UNCHANGED <<listingVars, syncVars>>

PruneFetch ==
    /\ PruneFetchedTags
    /\ FetchOrigin
    /\ UNCHANGED <<listingVars, dev, remoteVars, backups, reflogDev, rebases, syncPc, operation, devHistory>>

Cleanup ==
    /\ \/ CleanupReflogs /\ ExpireReflogs /\ UNCHANGED objects
       \/ CleanupObjects /\ CollectGarbage /\ UNCHANGED reflogDev
    /\ UNCHANGED <<listingVars, dev, trackingVars, remoteVars, backups, rebases, syncPc, operation, devHistory>>

SyncStep ==
    /\ NextSync
    /\ syncPc = "idle" /\ syncPc' # "idle" => NoScript
    /\ UNCHANGED <<listingVars, tagVars>>

Init == InitListing /\ InitTags /\ InitSync

Next == ListingStep \/ TagStep \/ OtherTagStep \/ PruneFetch \/ Cleanup \/ SyncStep

Spec == Init /\ [][Next]_repositoryVars
=============================================================================
