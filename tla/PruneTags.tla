------------------------------ MODULE PruneTags ------------------------------
(***************************************************************************)
(* prune-tags.mjs: deletes the tags without the prefix to keep from a      *)
(* remote, in groups, then from the clone, then expires the reflogs and    *)
(* collects garbage.                                                       *)
(*                                                                         *)
(* External, as the script uses git: a push --delete with a tag the remote *)
(* does not have deletes nothing and fails; one that fails otherwise may   *)
(* have deleted any of its tags; fetch --prune --prune-tags makes the tags *)
(* of the clone those of origin, whatever remote was pushed to; tag -d     *)
(* deletes tags of its list one by one and may fail for any of them, one   *)
(* that is not there or one it cannot delete.  Meanwhile others push and   *)
(* delete tags on the remotes.  The effects of fetch, reflog expire and gc *)
(* on branches are those of the module that composes this one.             *)
(***************************************************************************)
EXTENDS Naturals, FiniteSets, Sequences

CONSTANTS
    Remotes, Origin,  \* the remotes of the clone, origin among them
    Tags, KeptTags,   \* tag names, and those with the prefix to keep
    GroupSize         \* 50: the tags of one push or tag command

ASSUME PruneTagsAssumption ==
    /\ Origin \in Remotes
    /\ KeptTags \subseteq Tags
    /\ GroupSize \in Nat \ {0}

VARIABLES
    remoteTags,    \* the tags of each remote
    localTags,     \* the tags of the clone
    tagsPc,        \* what the script does
    remote,        \* its argument, origin by default
    tagsToDelete,  \* what ls-remote listed without the prefix
    tagsLeft,      \* those still to push or to delete here
    tagsExit,      \* the exit code
    recreated,     \* auxiliary: the tags others pushed since ls-remote
    undeleted      \* auxiliary: the tags of the clone that tag -d failed to delete

tagVars == <<remoteTags, localTags, tagsPc, remote, tagsToDelete, tagsLeft, tagsExit, recreated,
             undeleted>>

\* The groups a chunk of the remaining tags can be.
Groups(tags) == {group \in SUBSET tags :
                    Cardinality(group) = IF Cardinality(tags) < GroupSize
                                         THEN Cardinality(tags) ELSE GroupSize}

\* run until the question.
ListTags ==
    /\ tagsPc = "idle"
    /\ remote' \in Remotes
    /\ tagsToDelete' = remoteTags[remote'] \ KeptTags
    /\ tagsLeft' = tagsToDelete'
    /\ recreated' = {} /\ undeleted' = {}
    /\ IF tagsToDelete' = {}
       THEN tagsExit' = 0 /\ UNCHANGED tagsPc
       ELSE tagsPc' = "confirming" /\ UNCHANGED tagsExit
    /\ UNCHANGED <<remoteTags, localTags>>

ExitTags(code) ==
    /\ tagsPc' = "idle" /\ tagsExit' = code
    /\ tagsToDelete' = {} /\ tagsLeft' = {} /\ recreated' = {} /\ undeleted' = {}

\* A dry run ends before the question.
PlanOnly ==
    /\ tagsPc = "confirming"
    /\ ExitTags(0)
    /\ UNCHANGED <<remoteTags, localTags, remote>>

\* A failed git command ends the script, the first ones that list the tags included,
\* as does an answer other than y.  Only the failure of tag -d does not.
AbortTags ==
    /\ tagsPc # "deleting"
    /\ ExitTags(1)
    /\ UNCHANGED <<remoteTags, localTags, remote>>

ConfirmTags ==
    /\ tagsPc = "confirming"
    /\ tagsPc' = "pushing"
    /\ UNCHANGED <<remoteTags, localTags, remote, tagsToDelete, tagsLeft, tagsExit, recreated,
                   undeleted>>

DeleteRemoteTags ==
    /\ tagsPc = "pushing" /\ tagsLeft # {}
    /\ \E group \in Groups(tagsLeft) :
           /\ group \subseteq remoteTags[remote]
           /\ remoteTags' = [remoteTags EXCEPT ![remote] = @ \ group]
           /\ tagsLeft' = tagsLeft \ group
           /\ recreated' = recreated \ group
    /\ UNCHANGED <<localTags, tagsPc, remote, tagsToDelete, tagsExit, undeleted>>

\* The push fails after some of the group is deleted.
DeleteSomeRemoteTags ==
    /\ tagsPc = "pushing"
    /\ \E group \in Groups(tagsLeft) : \E gone \in SUBSET group :
           /\ group \subseteq remoteTags[remote]
           /\ remoteTags' = [remoteTags EXCEPT ![remote] = @ \ gone]
    /\ ExitTags(1)
    /\ UNCHANGED <<localTags, remote>>

\* Mutant: the local tags are taken for deleted by the fetch.
PruneFetchedTagsOnly ==
    /\ tagsPc = "pushing" /\ tagsLeft = {}
    /\ localTags' = remoteTags[Origin]
    /\ tagsPc' = "cleaning"
    /\ UNCHANGED <<remoteTags, remote, tagsToDelete, tagsLeft, tagsExit, recreated,
                   undeleted>>

PruneFetchedTags ==
    /\ tagsPc = "pushing" /\ tagsLeft = {}
    /\ localTags' = remoteTags[Origin]
    /\ tagsPc' = "deleting"
    /\ tagsLeft' = tagsToDelete
    /\ UNCHANGED <<remoteTags, remote, tagsToDelete, tagsExit, recreated,
                   undeleted>>

\* Any failure of tag -d is ignored (allowFailure), whichever tags it leaves.
DeleteLocalTags ==
    /\ tagsPc = "deleting"
    /\ IF tagsLeft = {}
       THEN tagsPc' = "cleaning" /\ UNCHANGED <<localTags, tagsLeft, undeleted>>
       ELSE \E group \in Groups(tagsLeft) : \E gone \in SUBSET group :
                /\ localTags' = localTags \ gone
                /\ undeleted' = undeleted \cup ((group \ gone) \cap localTags)
                /\ tagsLeft' = tagsLeft \ group
                /\ UNCHANGED tagsPc
    /\ UNCHANGED <<remoteTags, remote, tagsToDelete, tagsExit, recreated>>

\* reflog expire, then gc; the list of the remaining tags ends the script.
CleanupReflogs ==
    /\ tagsPc = "cleaning"
    /\ tagsPc' = "collecting"
    /\ UNCHANGED <<remoteTags, localTags, remote, tagsToDelete, tagsLeft, tagsExit, recreated,
                   undeleted>>

CleanupObjects ==
    /\ tagsPc = "collecting"
    /\ tagsPc' = "idle" /\ tagsExit' = 0
    /\ UNCHANGED <<remoteTags, localTags, remote, tagsToDelete, tagsLeft, recreated, undeleted>>

\* Others push and delete tags while the script runs.
TagPushed ==
    /\ tagsPc # "idle"
    /\ \E r \in Remotes : \E tag \in Tags \ remoteTags[r] :
           /\ remoteTags' = [remoteTags EXCEPT ![r] = @ \cup {tag}]
           /\ recreated' = IF r = remote THEN recreated \cup {tag} ELSE recreated
    /\ UNCHANGED <<localTags, tagsPc, remote, tagsToDelete, tagsLeft, tagsExit, undeleted>>

TagDeleted ==
    /\ tagsPc # "idle"
    /\ \E r \in Remotes : \E tag \in remoteTags[r] :
           remoteTags' = [remoteTags EXCEPT ![r] = @ \ {tag}]
    /\ UNCHANGED <<localTags, tagsPc, remote, tagsToDelete, tagsLeft, tagsExit, recreated,
                   undeleted>>

\* A clone with tags of its own.
InitTags ==
    /\ remoteTags \in [Remotes -> SUBSET Tags]
    /\ localTags \in SUBSET Tags
    /\ tagsPc = "idle" /\ remote = Origin
    /\ tagsToDelete = {} /\ tagsLeft = {}
    /\ tagsExit = 0 /\ recreated = {} /\ undeleted = {}

TagScript ==
    \/ ListTags \/ PlanOnly \/ ConfirmTags \/ DeleteRemoteTags \/ DeleteSomeRemoteTags
    \/ DeleteLocalTags \/ AbortTags

(***************************************************************************)
(* Properties                                                              *)
(***************************************************************************)

\* When the script exits with 0, it has seen to every tag it listed: one is left on
\* the remote only if someone pushed it again, and in the clone only if tag -d was
\* called for it and failed; not because the pushes were done in groups, or because
\* the fetch in between brought back what origin still has.  That a failed tag -d
\* leaves its tags in the clone with exit code 0 is how the script is.
PrunedTagsAccountedFor ==
    tagsPc = "idle" /\ tagsExit = 0 =>
        /\ tagsToDelete \cap localTags \subseteq undeleted
        /\ tagsToDelete \cap remoteTags[remote] \subseteq recreated
=============================================================================
