---------------------------- MODULE PagedDeletion ----------------------------
(***************************************************************************)
(* The scripts that delete what GitHub lists page by page: the releases    *)
(* whose tag has not the prefix to keep (prune-releases.mjs) and the       *)
(* workflow runs that are old or cancelled (remove-workflows.mjs).  Both   *)
(* collect every page first and delete one by one afterwards.              *)
(*                                                                         *)
(* Of an item the scripts read whether it is to be deleted ("doomed": a    *)
(* release with another tag; a completed run older than a week or          *)
(* cancelled), to be kept ("kept": its tag has the prefix or is blank; a   *)
(* recent run), or "active": a run that is queued or in progress.          *)
(*                                                                         *)
(* External: the listing is newest first; while a script runs, other       *)
(* people and the workflows themselves create items, delete them and       *)
(* change the status of a run.  A request may fail, whether or not it took *)
(* effect, and GitHub refuses to delete a run that is active.              *)
(***************************************************************************)
EXTENDS Filtering

CONSTANTS
    PageSize,  \* PAGE_SIZE: 100
    MaxItems   \* bound: the items that exist and are created during a run

ASSUME PagedDeletionAssumption == PageSize \in Nat \ {0} /\ MaxItems \in Nat \ {0}

VARIABLES
    items,       \* what GitHub has, in the order of the listing
    nextItem,    \* the id of the next item
    listingTool, \* the script at work: "releases" or "workflows"
    listingPc,   \* what it does
    dryRun,
    page,
    listed,      \* allReleases, allRuns: the items of the pages read so far
    doomed,      \* the ids still to delete
    failed,      \* a deletion failed
    listingExit, \* the exit code
    due,         \* auxiliary: the ids to delete ever since the script was invoked
    shifted      \* auxiliary: someone else deleted an item while the pages were read

localVars == <<dryRun, page, listed, doomed, failed>>
githubVars == <<items, nextItem, due, shifted>>
listingVars == <<githubVars, listingTool, listingPc, localVars, listingExit>>

Kinds == IF listingTool = "releases" THEN {"kept", "doomed"} ELSE {"kept", "doomed", "active"}

\* A run completes, is run again, or is cancelled or older than a week by now.
NextKinds(kind) == IF listingTool = "releases" THEN {} ELSE Kinds \ {kind}

Ids(sequence) == {sequence[i].id : i \in DOMAIN sequence}
Without(ids) == Filter(items, {i \in DOMAIN items : items[i].id \notin ids})

\* releasesToDelete; ACTIVE_STATUSES and getDeletionFlags.
ToDelete(sequence) == Filter(sequence, {i \in DOMAIN sequence : sequence[i].kind = "doomed"})

StartListing ==
    /\ listingPc = "idle"
    /\ listingPc' = "listing"
    /\ dryRun' \in BOOLEAN
    /\ due' = Ids(ToDelete(items)) /\ shifted' = FALSE
    /\ UNCHANGED <<items, nextItem, listingTool, page, listed, doomed, failed, listingExit>>

PruneReleases == listingTool = "releases" /\ StartListing
RemoveWorkflows == listingTool = "workflows" /\ StartListing

\* The process ends: what it collected is gone with it.
ExitListing(code) ==
    /\ listingPc' = "idle"
    /\ listingExit' = code
    /\ page' = 1 /\ listed' = <<>> /\ doomed' = <<>> /\ failed' = FALSE

Proceed(pc, sequence) ==
    /\ listingPc' = pc
    /\ doomed' = [i \in DOMAIN sequence |-> sequence[i].id]
    /\ listed' = <<>>
    /\ UNCHANGED <<page, failed, listingExit>>

\* prune-releases.mjs asks, if there is something to delete.
ReleasesListed(all) ==
    /\ listingTool = "releases"
    /\ IF ToDelete(all) = <<>> \/ dryRun THEN ExitListing(0) ELSE Proceed("confirming", ToDelete(all))

RunsListed(all) ==
    /\ listingTool = "workflows"
    /\ IF dryRun THEN ExitListing(0) ELSE Proceed("deleting", ToDelete(all))

ThisPage ==
    SubSeq(items, (page - 1) * PageSize + 1,
           IF page * PageSize < Len(items) THEN page * PageSize ELSE Len(items))

ReadOn ==
    /\ page' = page + 1 /\ listed' = listed \o ThisPage
    /\ UNCHANGED <<listingPc, doomed, failed, listingExit>>

\* Mutant: each page is deleted as soon as it is read.
ListAndDeletePage ==
    /\ listingPc = "listing"
    /\ items' = IF dryRun THEN items ELSE Without(Ids(ToDelete(ThisPage)))
    /\ IF Len(ThisPage) < PageSize THEN ExitListing(0) ELSE ReadOn
    /\ UNCHANGED <<nextItem, due, shifted, listingTool, dryRun>>

ListPage ==
    /\ listingPc = "listing"
    /\ IF Len(ThisPage) < PageSize
       THEN ReleasesListed(listed \o ThisPage) \/ RunsListed(listed \o ThisPage)
       ELSE ReadOn
    /\ UNCHANGED <<githubVars, listingTool, dryRun>>

\* gh fails, no repository is found, or the question is not answered with y.
AbortListing ==
    /\ listingPc \in {"listing", "confirming"}
    /\ ExitListing(1)
    /\ UNCHANGED <<githubVars, listingTool, dryRun>>

ConfirmDeletion ==
    /\ listingPc = "confirming"
    /\ listingPc' = "deleting"
    /\ UNCHANGED <<githubVars, listingTool, localVars, listingExit>>

\* An item that is active or gone by now, because it was listed twice for example,
\* cannot be deleted.
Deletable(id) == \E i \in DOMAIN items : items[i].id = id /\ items[i].kind # "active"

DeleteItem ==
    /\ listingPc = "deleting" /\ doomed # <<>>
    /\ doomed' = Tail(doomed)
    /\ \/ Deletable(Head(doomed)) /\ items' = Without({Head(doomed)}) /\ failed' \in {failed, TRUE}
       \/ UNCHANGED items /\ failed' = TRUE
    /\ UNCHANGED <<nextItem, due, shifted, listingTool, listingPc, dryRun, page, listed, listingExit>>

EndOfDeletion ==
    /\ listingPc = "deleting" /\ doomed = <<>>
    /\ ExitListing(IF failed THEN 1 ELSE 0)
    /\ UNCHANGED <<githubVars, listingTool, dryRun>>

(***************************************************************************)
(* GitHub, while a script runs                                             *)
(***************************************************************************)

CreateItem ==
    /\ listingPc # "idle" /\ nextItem <= MaxItems
    /\ nextItem' = nextItem + 1
    /\ \E kind \in Kinds : items' = <<[id |-> nextItem, kind |-> kind]>> \o items
    /\ UNCHANGED <<due, shifted, listingTool, listingPc, localVars, listingExit>>

ChangeItem ==
    /\ listingPc # "idle"
    /\ \E i \in DOMAIN items : \E kind \in NextKinds(items[i].kind) :
           /\ items' = [items EXCEPT ![i].kind = kind]
           /\ due' = due \ {items[i].id}
    /\ UNCHANGED <<nextItem, shifted, listingTool, listingPc, localVars, listingExit>>

DeletedElsewhere ==
    /\ listingPc # "idle"
    /\ \E id \in Ids(items) : items' = Without({id})
    /\ shifted' = (shifted \/ listingPc = "listing")
    /\ UNCHANGED <<nextItem, due, listingTool, listingPc, localVars, listingExit>>

\* A repository with a history.
InitListing ==
    /\ listingTool \in {"releases", "workflows"}
    /\ \E size \in 0..MaxItems : \E kinds \in [1..size -> Kinds] :
           /\ items = [i \in 1..size |-> [id |-> size + 1 - i, kind |-> kinds[i]]]
           /\ nextItem = size + 1
    /\ listingPc = "idle" /\ dryRun = TRUE /\ page = 1 /\ listed = <<>> /\ doomed = <<>>
    /\ failed = FALSE /\ listingExit = 0 /\ due = {} /\ shifted = FALSE

NextListing ==
    \/ PruneReleases \/ RemoveWorkflows
    \/ ListPage \/ AbortListing \/ ConfirmDeletion \/ DeleteItem \/ EndOfDeletion
    \/ CreateItem \/ ChangeItem \/ DeletedElsewhere

(***************************************************************************)
(* Properties                                                              *)
(***************************************************************************)

\* "Collects all pages before deleting runs so deletions cannot shift unvisited
\* runs onto earlier pages": a script that exits with 0 has deleted every item that
\* was there to delete since it was invoked, although new items shift the pages
\* while it reads them, unless someone else deleted an item meanwhile.
ExitZeroMeansDeleted ==
    listingPc = "idle" /\ ~dryRun /\ listingExit = 0 /\ ~shifted => due \cap Ids(items) = {}
=============================================================================
