-------------------------- MODULE RepositoryProofs --------------------------
(***************************************************************************)
(* The branches keep their commits, and no tag, release or workflow run to *)
(* be deleted is left out after a success, for every number of commits,    *)
(* rebases, tags, remotes, items and pages and however the scripts,        *)
(* GitHub, the other machine and the clean-up of prune-tags.mjs            *)
(* interleave.                                                             *)
(***************************************************************************)
EXTENDS Repository, FilteringProofs

(***************************************************************************)
(* git-sync-dev.mjs: changes and commits.  dev never loses a change, so    *)
(* that whatever tip of its reflog contains origin/dev, dev has the        *)
(* changes of it; and a rebase, the one step that drops commits from dev,  *)
(* comes after a backup of the branch it rebases.                          *)
(***************************************************************************)

TipsWithinDev == \A tip \in reflogDev : ChangesOf(tip) \subseteq ChangesOf(dev)

HistoryKept == devHistory \subseteq dev \cup UNION backups

BackedUp == syncPc \in {"merge", "rebase"} => dev \in backups

SyncInvariant == TipsWithinDev /\ HistoryKept /\ BackedUp /\ SyncedCommitsSurvive

\* A larger branch has more changes.
LEMMA ChangesMonotonic ==
    ASSUME NEW small, NEW large, small \subseteq large
    PROVE  ChangesOf(small) \subseteq ChangesOf(large)
  BY DEF ChangesOf

\* A rebase copies every change, or main has it.
LEMMA RebaseKeepsChanges ==
    ASSUME NEW branch, NEW main
    PROVE  ChangesOf(branch) \subseteq ChangesOf(Rebased(branch, main))
<1>1. ASSUME NEW c \in ChangesOf(branch), c \in ChangesOf(main)
      PROVE  c \in ChangesOf(Rebased(branch, main))
  BY <1>1 DEF ChangesOf, Rebased
<1>2. ASSUME NEW c \in ChangesOf(branch), c \notin ChangesOf(main)
      PROVE  c \in ChangesOf(Rebased(branch, main))
  <2> DEFINE copied == [change |-> c, copy |-> rebases + 1]
  <2>1. copied \in Rebased(branch, main)
    BY <1>2 DEF Rebased
  <2>2. copied.change = c
    OBVIOUS
  <2> HIDE DEF copied
  <2> QED BY <2>1, <2>2 DEF ChangesOf
<1> QED BY <1>1, <1>2

\* dev moves to a tip with its changes.
LEMMA MoveKeepsTips ==
    ASSUME TipsWithinDev, NEW branch, MoveDev(branch), ChangesOf(dev) \subseteq ChangesOf(branch)
    PROVE  TipsWithinDev'
<1>1. dev' = branch /\ reflogDev' = reflogDev \cup {branch}
  BY DEF MoveDev
<1>2. \A tip \in reflogDev : ChangesOf(tip) \subseteq ChangesOf(branch)
  BY DEF TipsWithinDev
<1>3. TipsWithinDev' = \A tip \in reflogDev' : ChangesOf(tip) \subseteq ChangesOf(dev')
  BY DEF TipsWithinDev
<1> QED BY <1>1, <1>2, <1>3

\* The moves of dev that add to it, by a merge, a commit or a pull.
LEMMA GrowingMove ==
    ASSUME SyncInvariant, NEW branch, dev \subseteq branch, MoveDev(branch),
           UNCHANGED backups, syncPc' \notin {"merge", "rebase"}
    PROVE  SyncInvariant'
<1>1. TipsWithinDev'
  BY MoveKeepsTips, ChangesMonotonic DEF SyncInvariant
<1>2. HistoryKept' /\ SyncedCommitsSurvive'
  BY DEF SyncInvariant, HistoryKept, SyncedCommitsSurvive, MoveDev
<1> QED BY <1>1, <1>2 DEF SyncInvariant, BackedUp

\* The steps that do not move dev, and only add backups and objects.
LEMMA DevStays ==
    ASSUME SyncInvariant, UNCHANGED <<dev, devHistory>>, reflogDev' \subseteq reflogDev,
           backups \subseteq backups', objects \subseteq objects',
           BackedUp'
    PROVE  SyncInvariant'
<1>1. TipsWithinDev'
  <2>1. \A tip \in reflogDev' : ChangesOf(tip) \subseteq ChangesOf(dev')
    BY DEF SyncInvariant, TipsWithinDev
  <2>2. TipsWithinDev' = \A tip \in reflogDev' : ChangesOf(tip) \subseteq ChangesOf(dev')
    BY DEF TipsWithinDev
  <2> QED BY <2>1, <2>2
<1>2. HistoryKept' /\ SyncedCommitsSurvive'
  BY DEF SyncInvariant, HistoryKept, SyncedCommitsSurvive
<1> QED BY <1>1, <1>2 DEF SyncInvariant

\* The fresh clone.
LEMMA SyncInit == InitSync => SyncInvariant
<1> SUFFICES ASSUME InitSync PROVE SyncInvariant
  OBVIOUS
<1>1. TipsWithinDev
  BY DEF InitSync, TipsWithinDev
<1>2. HistoryKept /\ BackedUp /\ SyncedCommitsSurvive
  BY DEF InitSync, HistoryKept, BackedUp, SyncedCommitsSurvive
<1> QED BY <1>1, <1>2 DEF SyncInvariant

\* The steps of the script, of the developer and of the other machine.
LEMMA SyncNext ==
    ASSUME SyncInvariant, NextSync PROVE SyncInvariant'
<1>1. CASE InvokeSync \/ Fetch \/ CheckRemoteDev \/ AbortSync
  <2>1. BackedUp'
    BY <1>1 DEF InvokeSync, Fetch, CheckRemoteDev, AbortSync, ExitSync, NextStep, BackedUp
  <2> QED BY <1>1, <2>1, DevStays DEF InvokeSync, Fetch, FetchOrigin, CheckRemoteDev, AbortSync
<1>2. CASE Backup
  BY <1>2, DevStays DEF Backup, BackedUp
<1>3. CASE Merge
  BY <1>3, GrowingMove DEF Merge, NextStep
<1>4. CASE Rebase
  <2>1. syncPc' = "forcePush" /\ UNCHANGED backups /\ dev \in backups
    BY <1>4 DEF Rebase, NextStep, SyncInvariant, BackedUp
  <2>2. CASE UNCHANGED <<dev, reflogDev, objects, devHistory>>
    BY <2>1, <2>2, DevStays DEF BackedUp
  <2>3. CASE MoveDev(Rebased(dev, originMain))
    <3>1. TipsWithinDev'
      BY <2>3, MoveKeepsTips, RebaseKeepsChanges DEF SyncInvariant
    <3>2. HistoryKept' /\ SyncedCommitsSurvive'
      BY <2>1, <2>3 DEF MoveDev, SyncInvariant, HistoryKept, SyncedCommitsSurvive
    <3> QED BY <2>1, <3>1, <3>2 DEF SyncInvariant, BackedUp
  <2> QED BY <1>4, <2>2, <2>3 DEF Rebase
<1>5. CASE Push
  <2>1. BackedUp'
    BY <1>5 DEF Push, ExitSync, BackedUp
  <2> QED BY <1>5, <2>1, DevStays DEF Push
<1>6. CASE Commit \/ PullDev
  BY <1>6, GrowingMove DEF Commit, PullDev
<1>7. CASE BackgroundFetch \/ PushedElsewhere \/ RebasedElsewhere \/ MainAdvances
  <2>1. UNCHANGED <<dev, devHistory, reflogDev, backups, syncPc>> /\ objects \subseteq objects'
    BY <1>7 DEF BackgroundFetch, FetchOrigin, PushedElsewhere, RebasedElsewhere, MainAdvances
  <2> QED BY <2>1, DevStays DEF SyncInvariant, BackedUp
<1> QED BY <1>1, <1>2, <1>3, <1>4, <1>5, <1>6, <1>7 DEF NextSync

\* What prune-tags.mjs does to the clone: its garbage collection spares what dev
\* and the backups contain.
LEMMA SyncPruned ==
    ASSUME SyncInvariant, PruneFetch \/ Cleanup PROVE SyncInvariant'
<1>1. UNCHANGED <<dev, devHistory, backups, syncPc>>
  BY DEF PruneFetch, Cleanup
<1>2. reflogDev' \subseteq reflogDev
  BY DEF PruneFetch, Cleanup, ExpireReflogs
<1>3. BackedUp' /\ HistoryKept'
  BY <1>1 DEF SyncInvariant, BackedUp, HistoryKept
<1>4. CASE objects \subseteq objects'
  BY <1>1, <1>2, <1>3, <1>4, DevStays
<1>5. CASE CollectGarbage
  <2>1. SyncedCommitsSurvive'
    BY <1>1, <1>5 DEF CollectGarbage, SyncInvariant, HistoryKept, SyncedCommitsSurvive
  <2>2. TipsWithinDev'
    <3>1. \A tip \in reflogDev' : ChangesOf(tip) \subseteq ChangesOf(dev')
      BY <1>1, <1>2 DEF SyncInvariant, TipsWithinDev
    <3>2. TipsWithinDev' = \A tip \in reflogDev' : ChangesOf(tip) \subseteq ChangesOf(dev')
      BY DEF TipsWithinDev
    <3> QED BY <3>1, <3>2
  <2> QED BY <1>3, <2>1, <2>2 DEF SyncInvariant
<1> QED BY <1>4, <1>5 DEF PruneFetch, FetchOrigin, Cleanup

\* The branches keep their invariant in every reachable state of the repository.
THEOREM SyncInvariantAlways == Spec => []SyncInvariant
<1>1. Init => SyncInvariant
  BY SyncInit DEF Init
<1>2. SyncInvariant /\ [Next]_repositoryVars => SyncInvariant'
  <2> SUFFICES ASSUME SyncInvariant, [Next]_repositoryVars PROVE SyncInvariant'
    OBVIOUS
  <2>1. CASE UNCHANGED syncVars
    <3>1. UNCHANGED <<dev, devHistory, reflogDev, backups, objects, syncPc>>
      BY <2>1 DEF syncVars
    <3> QED BY <3>1, DevStays DEF SyncInvariant, BackedUp
  <2> QED BY <2>1, SyncNext, SyncPruned DEF Next, repositoryVars, ListingStep, TagStep,
             OtherTagStep, SyncStep
<1> QED BY <1>1, <1>2, PTL DEF Spec

\* No commit that dev ever had leaves the clone, whatever is rebased and whenever
\* the clean-up of prune-tags.mjs runs: the backups hold it.
THEOREM SyncedCommitsAlwaysSurvive == Spec => []SyncedCommitsSurvive
<1>1. SyncInvariant => SyncedCommitsSurvive
  BY DEF SyncInvariant
<1> QED BY <1>1, SyncInvariantAlways, PTL

\* No push of the script drops a change that dev has at origin: a forced one is
\* accepted only if dev once contained what origin has, and dev keeps its changes.
THEOREM PushAlwaysDropsNothing == Spec => PushDropsNothing
<1>1. ASSUME SyncInvariant, [Next]_repositoryVars
      PROVE  [ChangesOf(remoteDev) \subseteq ChangesOf(remoteDev')]_syncVars
  <2>1. ASSUME UNCHANGED remoteDev PROVE ChangesOf(remoteDev) \subseteq ChangesOf(remoteDev')
    BY <2>1
  <2>2. ASSUME Push PROVE ChangesOf(remoteDev) \subseteq ChangesOf(remoteDev')
    <3>1. remoteDev' = dev /\ PushAccepted
      BY <2>2 DEF Push
    <3>2. CASE remoteDev \subseteq dev
      BY <3>1, <3>2, ChangesMonotonic
    <3>3. CASE remoteDev = originDev /\ \E tip \in reflogDev : originDev \subseteq tip
      <4>1. PICK tip \in reflogDev : originDev \subseteq tip
        BY <3>3
      <4>2. ChangesOf(originDev) \subseteq ChangesOf(tip)
        BY <4>1, ChangesMonotonic
      <4>3. ChangesOf(tip) \subseteq ChangesOf(dev)
        BY <1>1 DEF SyncInvariant, TipsWithinDev
      <4> QED BY <3>1, <3>3, <4>2, <4>3
    <3> QED BY <3>1, <3>2, <3>3 DEF PushAccepted
  <2>3. ASSUME PushedElsewhere PROVE ChangesOf(remoteDev) \subseteq ChangesOf(remoteDev')
    BY <2>3, ChangesMonotonic DEF PushedElsewhere
  <2>4. ASSUME RebasedElsewhere PROVE ChangesOf(remoteDev) \subseteq ChangesOf(remoteDev')
    BY <2>4, RebaseKeepsChanges DEF RebasedElsewhere
  <2>5. ASSUME NextSync PROVE ChangesOf(remoteDev) \subseteq ChangesOf(remoteDev')
    BY <2>1, <2>2, <2>3, <2>4, <2>5 DEF NextSync, InvokeSync, Fetch, CheckRemoteDev, Backup,
       Merge, Rebase, AbortSync, Commit, PullDev, BackgroundFetch, MainAdvances, remoteVars
  <2> QED
    BY <1>1, <2>1, <2>5 DEF Next, repositoryVars, syncVars, remoteVars, ListingStep, TagStep,
       OtherTagStep, PruneFetch, Cleanup, SyncStep
<1> QED BY <1>1, SyncInvariantAlways, PTL DEF Spec, PushDropsNothing

(***************************************************************************)
(* prune-tags.mjs: which of the tags to delete are still there, on the     *)
(* remote until they are pushed and in the clone until tag -d has deleted  *)
(* them or failed to.                                                      *)
(***************************************************************************)

GoneFromRemote == tagsToDelete \cap remoteTags[remote] \subseteq recreated

GoneFromClone == tagsToDelete \cap localTags \subseteq undeleted

PruningInvariant ==
    /\ remoteTags \in [Remotes -> SUBSET Tags] /\ remote \in Remotes
    /\ tagsPc \in {"confirming", "pushing"} =>
           tagsToDelete \cap remoteTags[remote] \subseteq recreated \cup tagsLeft
    /\ tagsPc = "deleting" => GoneFromRemote /\ tagsToDelete \cap localTags \subseteq tagsLeft \cup undeleted
    /\ tagsPc \in {"cleaning", "collecting"} => GoneFromRemote /\ GoneFromClone
    /\ tagsPc = "idle" /\ tagsExit = 0 => GoneFromRemote /\ GoneFromClone

\* The steps of prune-tags.mjs and of those who push and delete tags.
LEMMA PruningNext ==
    ASSUME PruningInvariant,
           TagScript \/ TagPushed \/ TagDeleted \/ PruneFetchedTags
               \/ CleanupReflogs \/ CleanupObjects
    PROVE  PruningInvariant'
<1> USE DEF PruningInvariant, GoneFromRemote, GoneFromClone
<1>1. CASE ListTags
  BY <1>1 DEF ListTags
<1>2. CASE PlanOnly \/ AbortTags
  BY <1>2 DEF PlanOnly, AbortTags, ExitTags
<1>3. CASE ConfirmTags
  BY <1>3 DEF ConfirmTags
<1>4. CASE DeleteRemoteTags
  <2>1. PICK group :
            /\ remoteTags' = [remoteTags EXCEPT ![remote] = @ \ group]
            /\ tagsLeft' = tagsLeft \ group
            /\ recreated' = recreated \ group
    BY <1>4 DEF DeleteRemoteTags
  <2>2. remoteTags'[remote] = remoteTags[remote] \ group
    BY <2>1
  <2>3. remoteTags' \in [Remotes -> SUBSET Tags]
    BY <2>1
  <2> QED BY <1>4, <2>1, <2>2, <2>3 DEF DeleteRemoteTags
<1>5. CASE DeleteSomeRemoteTags
  <2>1. remoteTags' \in [Remotes -> SUBSET Tags]
    BY <1>5 DEF DeleteSomeRemoteTags
  <2> QED BY <1>5, <2>1 DEF DeleteSomeRemoteTags, ExitTags
<1>6. CASE DeleteLocalTags
  BY <1>6 DEF DeleteLocalTags
<1>7. CASE TagPushed
  <2>1. PICK r \in Remotes : \E tag \in Tags :
            /\ remoteTags' = [remoteTags EXCEPT ![r] = @ \cup {tag}]
            /\ recreated' = IF r = remote THEN recreated \cup {tag} ELSE recreated
    BY <1>7 DEF TagPushed
  <2>2. PICK tag \in Tags :
            /\ remoteTags' = [remoteTags EXCEPT ![r] = @ \cup {tag}]
            /\ recreated' = IF r = remote THEN recreated \cup {tag} ELSE recreated
    BY <2>1
  <2>3. remoteTags' \in [Remotes -> SUBSET Tags]
    BY <2>2
  <2>4. remoteTags'[remote] = IF r = remote THEN remoteTags[remote] \cup {tag}
                              ELSE remoteTags[remote]
    BY <2>2
  <2> QED BY <1>7, <2>2, <2>3, <2>4 DEF TagPushed
<1>8. CASE TagDeleted
  <2>1. PICK r \in Remotes, tag \in Tags : remoteTags' = [remoteTags EXCEPT ![r] = @ \ {tag}]
    BY <1>8 DEF TagDeleted
  <2>2. remoteTags' \in [Remotes -> SUBSET Tags] /\ remoteTags'[remote] \subseteq remoteTags[remote]
    BY <2>1
  <2> QED BY <1>8, <2>2 DEF TagDeleted
<1>9. CASE PruneFetchedTags
  BY <1>9 DEF PruneFetchedTags
<1>10. CASE CleanupReflogs \/ CleanupObjects
  BY <1>10 DEF CleanupReflogs, CleanupObjects
<1> QED BY <1>1, <1>2, <1>3, <1>4, <1>5, <1>6, <1>7, <1>8, <1>9, <1>10 DEF TagScript

\* When prune-tags.mjs exits with 0, a tag it was to delete is in the clone only if
\* tag -d failed to delete it, and on the remote only if it was pushed again.
THEOREM PrunedTagsAlwaysAccountedFor == Spec => []PrunedTagsAccountedFor
<1>1. Init => PruningInvariant
  BY PruneTagsAssumption DEF Init, InitTags, PruningInvariant, GoneFromRemote, GoneFromClone
<1>2. PruningInvariant /\ [Next]_repositoryVars => PruningInvariant'
  <2> SUFFICES ASSUME PruningInvariant, [Next]_repositoryVars PROVE PruningInvariant'
    OBVIOUS
  <2>1. CASE UNCHANGED tagVars
    BY <2>1 DEF tagVars, PruningInvariant, GoneFromRemote, GoneFromClone
  <2> QED BY <2>1, PruningNext DEF Next, repositoryVars, ListingStep, TagStep, OtherTagStep,
             PruneFetch, Cleanup, SyncStep
<1>3. PruningInvariant => PrunedTagsAccountedFor
  BY DEF PruningInvariant, GoneFromRemote, GoneFromClone, PrunedTagsAccountedFor
<1> QED BY <1>1, <1>2, <1>3, PTL DEF Spec

(***************************************************************************)
(* prune-releases.mjs and remove-workflows.mjs: where the items that are   *)
(* due are while the pages are read and the deletion goes on, unless       *)
(* someone else deleted an item during the reading.                        *)
(***************************************************************************)

Item == [id : Nat, kind : {"kept", "doomed", "active"}]

\* The items before the page that is read next.
PagesRead == (page - 1) * PageSize

Recorded(sequence, item) == \E j \in DOMAIN sequence : sequence[j] = item

ListingTypeOK ==
    /\ items \in Seq(Item) /\ listed \in Seq(Item) /\ doomed \in Seq(Nat)
    /\ nextItem \in Nat /\ page \in Nat \ {0}
    /\ listingPc \in {"idle", "listing", "confirming", "deleting"}

\* The listing is newest first, so that an id is that of one item.
NewestFirst == \A i, j \in DOMAIN items : i < j => items[i].id > items[j].id

\* An item that is due is older than the next one and still to be deleted: its kind
\* has not changed.
DueItems ==
    /\ \A i \in DOMAIN items : items[i].id < nextItem
    /\ \A id \in due : id \in Nat /\ id < nextItem
    /\ \A i \in DOMAIN items : items[i].id \in due => items[i].kind = "doomed"

\* An item moves to later pages as others are created, so what is due was read or
\* is still ahead.
DueIsListedOrAhead ==
    listingPc = "listing" /\ ~shifted =>
        \A i \in DOMAIN items :
            items[i].id \in due => i > PagesRead \/ Recorded(listed, items[i])

DueIsDoomed ==
    listingPc \in {"confirming", "deleting"} /\ ~shifted /\ ~failed =>
        \A i \in DOMAIN items :
            items[i].id \in due => \E j \in DOMAIN doomed : doomed[j] = items[i].id

IdleIsReset == listingPc = "idle" => page = 1 /\ listed = <<>>

ListingInvariant ==
    /\ ListingTypeOK /\ NewestFirst /\ DueItems /\ IdleIsReset
    /\ DueIsListedOrAhead /\ DueIsDoomed /\ ExitZeroMeansDeleted

\* A concatenation has what its parts have.
LEMMA ConcatenationKeeps ==
    ASSUME NEW first \in Seq(Item), NEW second \in Seq(Item), NEW item
    PROVE  /\ Recorded(first, item) => Recorded(first \o second, item)
           /\ Recorded(second, item) => Recorded(first \o second, item)
<1>1. /\ Len(first) \in Nat /\ Len(second) \in Nat
      /\ DOMAIN first = 1..Len(first) /\ DOMAIN second = 1..Len(second)
      /\ DOMAIN (first \o second) = 1..(Len(first) + Len(second))
  OBVIOUS
<1>2. ASSUME NEW j \in DOMAIN first
      PROVE  j \in DOMAIN (first \o second) /\ (first \o second)[j] = first[j]
  BY <1>1
<1>3. ASSUME NEW j \in DOMAIN second
      PROVE  /\ Len(first) + j \in DOMAIN (first \o second)
             /\ (first \o second)[Len(first) + j] = second[j]
  BY <1>1
<1> QED BY <1>2, <1>3 DEF Recorded

\* Of a list, the items to delete are exactly the doomed ones.
LEMMA ToDeleteKeepsDoomed ==
    ASSUME NEW sequence \in Seq(Item)
    PROVE  /\ ToDelete(sequence) \in Seq(Item)
           /\ \A i \in DOMAIN sequence :
                  sequence[i].kind = "doomed" => Recorded(ToDelete(sequence), sequence[i])
           /\ \A j \in DOMAIN ToDelete(sequence) :
                  /\ ToDelete(sequence)[j].kind = "doomed"
                  /\ Recorded(sequence, ToDelete(sequence)[j])
<1> DEFINE kept == {i \in DOMAIN sequence : sequence[i].kind = "doomed"}
<1>1. kept \in SUBSET (DOMAIN sequence)
  OBVIOUS
<1>2. ToDelete(sequence) = Filter(sequence, kept)
  BY DEF ToDelete
<1>3. \A i \in kept : sequence[i].kind = "doomed" /\ i \in DOMAIN sequence
  OBVIOUS
<1>4. \A i \in DOMAIN sequence : sequence[i].kind = "doomed" => i \in kept
  OBVIOUS
<1> HIDE DEF kept
<1>5. Filter(sequence, kept) \in Seq(Item)
  BY <1>1, FilterType
<1>6. \A j \in DOMAIN Filter(sequence, kept) :
          Position(kept, j) \in kept /\ Filter(sequence, kept)[j] = sequence[Position(kept, j)]
  BY <1>1, FilterKeeps
<1>7. \A i \in kept : \E j \in DOMAIN Filter(sequence, kept) :
          Filter(sequence, kept)[j] = sequence[i]
  BY <1>1, FilterKeeps
<1> QED BY <1>2, <1>3, <1>4, <1>5, <1>6, <1>7 DEF Recorded

\* Without leaves the other items.
LEMMA WithoutKeepsOthers ==
    ASSUME items \in Seq(Item), NEW ids
    PROVE  /\ Without(ids) \in Seq(Item)
           /\ \A j \in DOMAIN Without(ids) :
                  Without(ids)[j].id \notin ids /\ Recorded(items, Without(ids)[j])
           /\ NewestFirst =>
                  \A i, j \in DOMAIN Without(ids) : i < j => Without(ids)[i].id > Without(ids)[j].id
<1> DEFINE kept == {i \in DOMAIN items : items[i].id \notin ids}
<1>1. kept \in SUBSET (DOMAIN items)
  OBVIOUS
<1>2. Without(ids) = Filter(items, kept)
  BY DEF Without
<1>3. \A i \in kept : items[i].id \notin ids /\ i \in DOMAIN items
  OBVIOUS
<1> HIDE DEF kept
<1>5. Filter(items, kept) \in Seq(Item)
  BY <1>1, FilterType
<1>6. \A j \in DOMAIN Filter(items, kept) :
          Position(kept, j) \in kept /\ Filter(items, kept)[j] = items[Position(kept, j)]
  BY <1>1, FilterKeeps
<1>7. ASSUME NewestFirst, NEW i \in DOMAIN Filter(items, kept), NEW j \in DOMAIN Filter(items, kept),
             i < j
      PROVE  Filter(items, kept)[i].id > Filter(items, kept)[j].id
  <2>1. Position(kept, i) < Position(kept, j)
    BY <1>1, <1>7, FilterKeepsOrder
  <2> QED BY <1>1, <1>6, <1>7, <2>1 DEF NewestFirst
<1> QED BY <1>2, <1>3, <1>5, <1>6, <1>7 DEF Recorded

\* A page has the items that follow those of the pages before it, and is the last
\* one if it is not full.
LEMMA PageType ==
    ASSUME ListingTypeOK
    PROVE  /\ PagesRead \in Nat /\ ThisPage \in Seq(Item)
           /\ \A i \in DOMAIN items :
                  i > PagesRead /\ i <= PagesRead + PageSize => Recorded(ThisPage, items[i])
           /\ Len(ThisPage) < PageSize =>
                  \A i \in DOMAIN items : i <= PagesRead + PageSize
<1> DEFINE first == PagesRead
<1>1. PageSize \in Nat /\ PageSize > 0 /\ page \in Nat /\ page >= 1
  BY PagedDeletionAssumption DEF ListingTypeOK
<1>2. first \in Nat
  BY <1>1 DEF PagesRead
<1>3. page * PageSize = first + PageSize
  BY <1>1 DEF PagesRead
<1>4. items \in Seq(Item) /\ Len(items) \in Nat /\ DOMAIN items = 1..Len(items)
  BY DEF ListingTypeOK
<1> DEFINE last == IF first + PageSize < Len(items) THEN first + PageSize ELSE Len(items)
<1>5. ThisPage = SubSeq(items, first + 1, last)
  BY <1>3 DEF ThisPage, PagesRead
<1> HIDE DEF first
<1>6. last \in Nat /\ last <= Len(items) /\ last <= first + PageSize
  BY <1>1, <1>2, <1>4
<1>7. \A i \in DOMAIN items : i <= first + PageSize => i <= last
  BY <1>1, <1>2, <1>4
<1>8. last # first + PageSize => last = Len(items)
  OBVIOUS
<1> HIDE DEF last
<1>9. /\ SubSeq(items, first + 1, last) \in Seq(Item)
      /\ first <= last => Len(SubSeq(items, first + 1, last)) = last - first
      /\ first > last => Len(SubSeq(items, first + 1, last)) = 0
      /\ \A k \in 1..(last - first) : SubSeq(items, first + 1, last)[k] = items[first + k]
  BY <1>2, <1>4, <1>6
<1>10. ASSUME NEW i \in DOMAIN items, i > first, i <= first + PageSize
       PROVE  Recorded(ThisPage, items[i])
  <2>1. i \in Nat /\ i <= last /\ first <= last
    BY <1>2, <1>4, <1>6, <1>7, <1>10
  <2>2. i - first \in 1..(last - first)
    BY <1>2, <1>6, <1>10, <2>1
  <2>3. i - first \in DOMAIN ThisPage
    BY <1>2, <1>5, <1>6, <1>9, <2>1, <2>2
  <2>4. ThisPage[i - first] = items[first + (i - first)]
    BY <1>5, <1>9, <2>2
  <2>5. first + (i - first) = i
    BY <1>2, <2>1
  <2> QED BY <2>3, <2>4, <2>5 DEF Recorded
<1>11. ASSUME Len(ThisPage) < PageSize, NEW i \in DOMAIN items PROVE i <= first + PageSize
  <2>1. CASE first <= last
    <3>1. last - first < PageSize
      BY <1>5, <1>9, <1>11, <2>1
    <3>2. last = Len(items)
      BY <1>1, <1>2, <1>6, <1>8, <3>1
    <3> QED BY <1>1, <1>2, <1>4, <1>6, <3>2
  <2>2. CASE first > last
    <3>1. last = Len(items)
      BY <1>1, <1>2, <1>6, <1>8, <2>2
    <3>2. i \in Nat /\ i <= last
      BY <1>4, <3>1
    <3> QED BY <1>1, <1>2, <1>6, <2>2, <3>2
  <2> QED BY <1>2, <1>6, <2>1, <2>2
<1> QED BY <1>2, <1>5, <1>9, <1>10, <1>11 DEF first

\* The script exits: with 0 only if nothing is left that is due.
LEMMA ExitKeepsInvariant ==
    ASSUME ListingInvariant, NEW code, ExitListing(code), UNCHANGED <<githubVars, dryRun>>,
           code = 0 /\ ~dryRun /\ ~shifted => due \cap Ids(items) = {}
    PROVE  ListingInvariant'
<1>1. ListingTypeOK'
  <2>1. <<>> \in Seq(Item) /\ <<>> \in Seq(Nat)
    OBVIOUS
  <2> QED BY <2>1 DEF ListingInvariant, ListingTypeOK, ExitListing, githubVars
<1>2. NewestFirst' /\ DueItems'
  BY DEF ListingInvariant, NewestFirst, DueItems, githubVars
<1>3. IdleIsReset' /\ DueIsListedOrAhead' /\ DueIsDoomed'
  BY DEF ExitListing, IdleIsReset, DueIsListedOrAhead, DueIsDoomed
<1>4. ExitZeroMeansDeleted'
  BY DEF ExitZeroMeansDeleted, ExitListing, githubVars, Ids
<1> QED BY <1>1, <1>2, <1>3, <1>4 DEF ListingInvariant

\* The ids are those of the recorded items.
LEMMA DueOfIds ==
    ASSUME \A i \in DOMAIN items : items[i].id \notin due
    PROVE  due \cap Ids(items) = {}
  BY DEF Ids

\* An id is that of one item.
LEMMA IdsUnique ==
    ASSUME ListingTypeOK, NewestFirst, NEW i \in DOMAIN items, NEW j \in DOMAIN items,
           items[i].id = items[j].id
    PROVE  i = j
<1>1. i \in Nat /\ j \in Nat /\ items[i] \in Item /\ items[j] \in Item
  BY DEF ListingTypeOK
<1>2. items[i].id \in Nat /\ items[j].id \in Nat
  BY <1>1 DEF Item
<1> QED BY <1>1, <1>2 DEF NewestFirst

\* A script is invoked: nothing is read, everything is ahead.
LEMMA StartKeepsInvariant ==
    ASSUME ListingInvariant, StartListing PROVE ListingInvariant'
<1>1. ListingTypeOK /\ NewestFirst /\ DueItems /\ IdleIsReset
  BY DEF ListingInvariant
<1>2. /\ items \in Seq(Item) /\ UNCHANGED <<items, nextItem, page, listed, doomed>>
      /\ due' = Ids(ToDelete(items)) /\ listingPc' = "listing" /\ page = 1
  BY <1>1 DEF ListingTypeOK, StartListing, IdleIsReset
<1>3. ListingTypeOK' /\ NewestFirst'
  BY <1>1, <1>2 DEF ListingTypeOK, NewestFirst
<1>4. ASSUME NEW id \in due'
      PROVE  \E i \in DOMAIN items : items[i].id = id /\ items[i].kind = "doomed"
  <2>1. PICK j \in DOMAIN ToDelete(items) : id = ToDelete(items)[j].id
    BY <1>2, <1>4 DEF Ids
  <2>2. Recorded(items, ToDelete(items)[j]) /\ ToDelete(items)[j].kind = "doomed"
    BY <1>2, ToDeleteKeepsDoomed
  <2> QED BY <2>1, <2>2 DEF Recorded
<1>5. DueItems'
  <2>0. ASSUME NEW i \in DOMAIN items PROVE items[i].id \in Nat /\ items[i].id < nextItem
    <3>1. items[i] \in Item
      BY <1>2, <2>0
    <3> QED BY <1>1, <2>0, <3>1 DEF Item, DueItems
  <2>1. \A id \in due' : id \in Nat /\ id < nextItem
    BY <1>4, <2>0
  <2>2. ASSUME NEW i \in DOMAIN items, items[i].id \in due' PROVE items[i].kind = "doomed"
    BY <1>1, <1>4, <2>2, IdsUnique
  <2> QED BY <1>2, <2>0, <2>1, <2>2 DEF DueItems
<1>6. DueIsListedOrAhead'
  <2>1. (page' - 1) * PageSize = 0
    BY <1>2, PagedDeletionAssumption
  <2>2. \A i \in DOMAIN items : i > 0
    BY <1>2
  <2> QED BY <1>2, <2>1, <2>2 DEF DueIsListedOrAhead, PagesRead
<1>7. IdleIsReset' /\ DueIsDoomed' /\ ExitZeroMeansDeleted'
  BY <1>2 DEF IdleIsReset, DueIsDoomed, ExitZeroMeansDeleted
<1> QED BY <1>3, <1>5, <1>6, <1>7 DEF ListingInvariant

\* What is due is in the pages read when the last one is.
LEMMA DueIsListed ==
    ASSUME ListingInvariant, listingPc = "listing", ~shifted, Len(ThisPage) < PageSize
    PROVE  \A i \in DOMAIN items :
               items[i].id \in due => Recorded(ToDelete(listed \o ThisPage), items[i])
<1> SUFFICES ASSUME NEW i \in DOMAIN items, items[i].id \in due
             PROVE  Recorded(ToDelete(listed \o ThisPage), items[i])
  OBVIOUS
<1>1. ListingTypeOK /\ listed \in Seq(Item) /\ ThisPage \in Seq(Item)
  BY PageType DEF ListingInvariant, ListingTypeOK
<1>2. Recorded(listed, items[i]) \/ Recorded(ThisPage, items[i])
  BY <1>1, PageType DEF ListingInvariant, DueIsListedOrAhead
<1>3. Recorded(listed \o ThisPage, items[i])
  BY <1>1, <1>2, ConcatenationKeeps
<1>4. PICK j \in DOMAIN (listed \o ThisPage) : (listed \o ThisPage)[j] = items[i]
  BY <1>3 DEF Recorded
<1>5. items[i].kind = "doomed"
  BY DEF ListingInvariant, DueItems
<1>6. listed \o ThisPage \in Seq(Item)
  BY <1>1
<1> QED BY <1>4, <1>5, <1>6, ToDeleteKeepsDoomed

\* A page is read.
LEMMA ListPageKeepsInvariant ==
    ASSUME ListingInvariant, ListPage PROVE ListingInvariant'
<1> DEFINE all == listed \o ThisPage
           found == ToDelete(all)
<1>1. ListingTypeOK /\ listed \in Seq(Item) /\ ThisPage \in Seq(Item)
  BY PageType DEF ListingInvariant, ListingTypeOK
<1>2. all \in Seq(Item) /\ found \in Seq(Item)
  <2>1. all \in Seq(Item)
    BY <1>1
  <2> QED BY <2>1, ToDeleteKeepsDoomed
<1>3. listingPc = "listing" /\ UNCHANGED <<githubVars, dryRun>>
  BY DEF ListPage
<1>4. NewestFirst' /\ DueItems'
  BY <1>3 DEF ListingInvariant, NewestFirst, DueItems, githubVars
<1>5. ASSUME ExitListing(0), found = <<>> \/ dryRun, Len(ThisPage) < PageSize
      PROVE  ListingInvariant'
  <2>1. ASSUME ~dryRun, ~shifted PROVE due \cap Ids(items) = {}
    <3>1. DOMAIN found = {}
      BY <1>5, <2>1
    <3>2. \A i \in DOMAIN items : items[i].id \notin due
      BY <1>3, <1>5, <2>1, <3>1, DueIsListed DEF Recorded
    <3> QED BY <3>2, DueOfIds
  <2> QED BY <1>3, <1>5, <2>1, ExitKeepsInvariant
<1>6. ASSUME NEW pc \in {"confirming", "deleting"}, Proceed(pc, found), Len(ThisPage) < PageSize
      PROVE  ListingInvariant'
  <2>1. /\ listingPc' = pc /\ doomed' = [i \in DOMAIN found |-> found[i].id]
        /\ listed' = <<>> /\ UNCHANGED <<page, failed>>
    BY <1>6 DEF Proceed
  <2> HIDE DEF all, found
  <2>2. ASSUME NEW i \in DOMAIN found PROVE found[i].id \in Nat
    <3>1. found[i] \in Item
      BY <1>2, <2>2
    <3> QED BY <3>1 DEF Item
  <2>3. doomed' \in Seq(Nat) /\ DOMAIN doomed' = DOMAIN found
    BY <1>2, <2>1, <2>2
  <2>4. <<>> \in Seq(Item)
    OBVIOUS
  <2>5. ListingTypeOK'
    BY <1>1, <1>3, <2>1, <2>3, <2>4 DEF ListingTypeOK, githubVars
  <2>6. DueIsDoomed'
    <3> SUFFICES ASSUME ~shifted, NEW i \in DOMAIN items, items[i].id \in due
                 PROVE  \E j \in DOMAIN doomed' : doomed'[j] = items[i].id
      BY <1>3 DEF DueIsDoomed, githubVars
    <3>1. Recorded(found, items[i])
      BY <1>3, <1>6, DueIsListed DEF found, all
    <3>2. PICK j \in DOMAIN found : found[j] = items[i]
      BY <3>1 DEF Recorded
    <3> QED BY <2>1, <2>3, <3>2
  <2>7. IdleIsReset' /\ DueIsListedOrAhead' /\ ExitZeroMeansDeleted'
    BY <2>1 DEF IdleIsReset, DueIsListedOrAhead, ExitZeroMeansDeleted
  <2> QED BY <1>4, <2>5, <2>6, <2>7 DEF ListingInvariant
<1>7. ASSUME ReadOn PROVE ListingInvariant'
  <2>1. page' = page + 1 /\ listed' = listed \o ThisPage /\ UNCHANGED <<listingPc, doomed, failed>>
    BY <1>7 DEF ReadOn
  <2>2. ListingTypeOK'
    <3>1. page' \in Nat \ {0}
      BY <1>1, <2>1 DEF ListingTypeOK
    <3> QED BY <1>1, <1>2, <1>3, <2>1, <3>1 DEF ListingTypeOK, githubVars
  <2>3. (page' - 1) * PageSize = PagesRead + PageSize
    BY <1>1, <2>1, PagedDeletionAssumption DEF ListingTypeOK, PagesRead
  <2>4. DueIsListedOrAhead'
    <3> SUFFICES ASSUME ~shifted, NEW i \in DOMAIN items, items[i].id \in due
                 PROVE  i > PagesRead + PageSize \/ Recorded(listed \o ThisPage, items[i])
      BY <1>3, <2>1, <2>3 DEF DueIsListedOrAhead, githubVars, PagesRead, Recorded
    <3>1. i > PagesRead \/ Recorded(listed, items[i])
      BY <1>3 DEF ListingInvariant, DueIsListedOrAhead
    <3>2. i \in Nat /\ PagesRead \in Nat /\ PageSize \in Nat
      BY <1>1, PageType, PagedDeletionAssumption DEF ListingTypeOK
    <3>3. i > PagesRead + PageSize \/ Recorded(ThisPage, items[i]) \/ Recorded(listed, items[i])
      BY <1>1, <3>1, <3>2, PageType
    <3> QED BY <1>1, <3>3, ConcatenationKeeps
  <2>5. IdleIsReset' /\ DueIsDoomed' /\ ExitZeroMeansDeleted'
    BY <1>3, <2>1 DEF IdleIsReset, DueIsDoomed, ExitZeroMeansDeleted
  <2> QED BY <1>4, <2>2, <2>4, <2>5 DEF ListingInvariant
<1> QED BY <1>5, <1>6, <1>7 DEF ListPage, ReleasesListed, RunsListed

\* A deletion keeps the order of the items and what is known of those that stay.
LEMMA RemovalKeepsListing ==
    ASSUME ListingTypeOK, NewestFirst, DueItems, NEW id, items' = Without({id}),
           doomed' \in Seq(Nat), UNCHANGED <<nextItem, due, page, listed, listingPc>>
    PROVE  /\ ListingTypeOK' /\ NewestFirst' /\ DueItems'
           /\ \A i \in DOMAIN items' : items'[i].id # id /\ Recorded(items, items'[i])
<1>1. items \in Seq(Item)
  BY DEF ListingTypeOK
<1>2. /\ items' \in Seq(Item)
      /\ \A i \in DOMAIN items' : items'[i].id # id /\ Recorded(items, items'[i])
      /\ \A i, j \in DOMAIN items' : i < j => items'[i].id > items'[j].id
  BY <1>1, WithoutKeepsOthers
<1>3. ListingTypeOK' /\ NewestFirst'
  BY <1>2 DEF ListingTypeOK, NewestFirst
<1>4. \A i \in DOMAIN items' : \E h \in DOMAIN items : items[h] = items'[i]
  BY <1>2 DEF Recorded
<1>5. DueItems'
  BY <1>4 DEF DueItems
<1> QED BY <1>2, <1>3, <1>5

\* A deletion that is tried: it deletes the item, or the script knows that it failed.
LEMMA DeleteItemKeepsInvariant ==
    ASSUME ListingInvariant, DeleteItem PROVE ListingInvariant'
<1>1. /\ ListingTypeOK /\ NewestFirst /\ DueItems
      /\ items \in Seq(Item) /\ doomed \in Seq(Nat) /\ doomed # <<>>
      /\ listingPc = "deleting"
      /\ UNCHANGED <<nextItem, due, shifted, listingPc, page, listed, dryRun>>
  BY DEF ListingInvariant, ListingTypeOK, DeleteItem
<1>2. doomed' = Tail(doomed)
  BY DEF DeleteItem
<1>3. doomed' \in Seq(Nat)
  BY <1>1, <1>2
<1>4. ASSUME NEW j \in DOMAIN doomed, doomed[j] # Head(doomed)
      PROVE  \E k \in DOMAIN doomed' : doomed'[k] = doomed[j]
  <2>1. j \in Nat /\ j > 1 /\ j <= Len(doomed) /\ Len(doomed) \in Nat
    BY <1>1, <1>4
  <2>2. j - 1 \in DOMAIN Tail(doomed) /\ Tail(doomed)[j - 1] = doomed[j]
    BY <1>1, <2>1
  <2> QED BY <1>2, <2>2
<1>5. IdleIsReset' /\ DueIsListedOrAhead' /\ ExitZeroMeansDeleted'
  BY <1>1 DEF IdleIsReset, DueIsListedOrAhead, ExitZeroMeansDeleted
<1>6. CASE UNCHANGED items /\ failed' = TRUE
  <2>1. ListingTypeOK' /\ NewestFirst' /\ DueItems'
    BY <1>1, <1>3, <1>6 DEF ListingTypeOK, NewestFirst, DueItems
  <2> QED BY <1>5, <1>6, <2>1 DEF ListingInvariant, DueIsDoomed
<1>7. CASE items' = Without({Head(doomed)}) /\ failed' \in {failed, TRUE}
  <2>1. /\ ListingTypeOK' /\ NewestFirst' /\ DueItems'
        /\ \A i \in DOMAIN items' : items'[i].id # Head(doomed) /\ Recorded(items, items'[i])
    BY <1>1, <1>3, <1>7, RemovalKeepsListing DEF ListingTypeOK
  <2>2. DueIsDoomed'
    <3> SUFFICES ASSUME ~shifted, ~failed, NEW i \in DOMAIN items', items'[i].id \in due
                 PROVE  \E k \in DOMAIN doomed' : doomed'[k] = items'[i].id
      BY <1>1, <1>7 DEF DueIsDoomed
    <3>1. PICK h \in DOMAIN items : items[h] = items'[i]
      BY <2>1 DEF Recorded
    <3>2. PICK j \in DOMAIN doomed : doomed[j] = items[h].id
      BY <1>1, <3>1 DEF ListingInvariant, DueIsDoomed
    <3> QED BY <1>4, <2>1, <3>1, <3>2
  <2> QED BY <1>5, <2>1, <2>2 DEF ListingInvariant
<1> QED BY <1>6, <1>7 DEF DeleteItem

\* The steps of the scripts after the pages are read.
LEMMA ScriptKeepsInvariant ==
    ASSUME ListingInvariant, AbortListing \/ ConfirmDeletion \/ EndOfDeletion
    PROVE  ListingInvariant'
<1>1. CASE AbortListing
  BY <1>1, ExitKeepsInvariant DEF AbortListing
<1>2. CASE ConfirmDeletion
  <2>1. listingPc = "confirming" /\ listingPc' = "deleting" /\ UNCHANGED <<githubVars, localVars>>
    BY <1>2 DEF ConfirmDeletion
  <2>2. ListingTypeOK' /\ NewestFirst' /\ DueItems'
    BY <2>1 DEF ListingInvariant, ListingTypeOK, NewestFirst, DueItems, githubVars, localVars
  <2>3. DueIsDoomed'
    BY <2>1 DEF ListingInvariant, DueIsDoomed, githubVars, localVars
  <2>4. IdleIsReset' /\ DueIsListedOrAhead' /\ ExitZeroMeansDeleted'
    BY <2>1 DEF IdleIsReset, DueIsListedOrAhead, ExitZeroMeansDeleted
  <2> QED BY <2>2, <2>3, <2>4 DEF ListingInvariant
<1>3. CASE EndOfDeletion
  <2>1. /\ listingPc = "deleting" /\ doomed = <<>> /\ UNCHANGED <<githubVars, dryRun>>
        /\ ExitListing(IF failed THEN 1 ELSE 0)
    BY <1>3 DEF EndOfDeletion
  <2>2. DOMAIN doomed = {}
    BY <2>1
  <2>3. ASSUME ~failed, ~shifted PROVE due \cap Ids(items) = {}
    <3>1. \A i \in DOMAIN items : items[i].id \notin due
      BY <2>1, <2>2, <2>3 DEF ListingInvariant, DueIsDoomed
    <3> QED BY <3>1, DueOfIds
  <2> DEFINE code == IF failed THEN 1 ELSE 0
  <2>4. ExitListing(code) /\ (code = 0 => ~failed)
    BY <2>1
  <2> HIDE DEF code
  <2> QED BY <2>1, <2>3, <2>4, ExitKeepsInvariant
<1> QED BY <1>1, <1>2, <1>3

\* An item is created: it is the newest one, and every other moves by one place.
LEMMA CreateItemKeepsInvariant ==
    ASSUME ListingInvariant, CreateItem PROVE ListingInvariant'
<1>1. /\ ListingTypeOK /\ NewestFirst /\ DueItems /\ items \in Seq(Item) /\ nextItem \in Nat
      /\ listingPc # "idle" /\ nextItem' = nextItem + 1
      /\ UNCHANGED <<due, shifted, listingPc, localVars>>
  BY DEF ListingInvariant, ListingTypeOK, CreateItem
<1>2. PICK kind \in Kinds : items' = <<[id |-> nextItem, kind |-> kind]>> \o items
  BY DEF CreateItem
<1> DEFINE new == [id |-> nextItem, kind |-> kind]
<1>3. new \in Item /\ new.id = nextItem
  BY <1>1 DEF Item, Kinds
<1>4. items' = <<new>> \o items
  BY <1>2
<1> HIDE DEF new
<1>5. /\ items' \in Seq(Item) /\ Len(items) \in Nat /\ DOMAIN items = 1..Len(items)
      /\ DOMAIN items' = 1..(Len(items) + 1) /\ items'[1] = new
  BY <1>1, <1>3, <1>4
<1>6. ASSUME NEW i \in DOMAIN items', i # 1
      PROVE  i - 1 \in DOMAIN items /\ items'[i] = items[i - 1]
  BY <1>1, <1>3, <1>4, <1>5, <1>6
<1>7. ASSUME NEW i \in DOMAIN items PROVE items[i].id \in Nat /\ items[i].id < nextItem
  <2>1. items[i] \in Item
    BY <1>1, <1>7
  <2> QED BY <1>1, <2>1 DEF Item, DueItems
<1>8. ListingTypeOK'
  BY <1>1, <1>5 DEF ListingTypeOK, localVars
<1>9. NewestFirst'
  <2> SUFFICES ASSUME NEW i \in DOMAIN items', NEW j \in DOMAIN items', i < j
               PROVE  items'[i].id > items'[j].id
    BY DEF NewestFirst
  <2>1. i \in Nat /\ j \in Nat /\ j # 1 /\ i >= 1
    BY <1>5
  <2>2. j - 1 \in DOMAIN items /\ items'[j] = items[j - 1]
    BY <1>6, <2>1
  <2>3. CASE i = 1
    BY <1>1, <1>3, <1>5, <1>7, <2>2, <2>3
  <2>4. CASE i # 1
    <3>1. i - 1 \in DOMAIN items /\ items'[i] = items[i - 1] /\ i - 1 < j - 1
      BY <1>6, <2>1, <2>4
    <3> QED BY <1>1, <2>2, <3>1 DEF NewestFirst
  <2> QED BY <2>3, <2>4
<1>10. \A id \in due : id \in Nat /\ id < nextItem
  BY <1>1 DEF DueItems
<1>11. nextItem \notin due
  BY <1>1, <1>10
<1>12. ASSUME NEW i \in DOMAIN items', items'[i].id \in due
       PROVE  i - 1 \in DOMAIN items /\ items'[i] = items[i - 1]
  BY <1>3, <1>5, <1>6, <1>11, <1>12
<1>13. DueItems'
  <2>1. ASSUME NEW i \in DOMAIN items' PROVE items'[i].id < nextItem + 1
    <3>1. CASE i = 1
      BY <1>1, <1>3, <1>5, <3>1
    <3>2. CASE i # 1
      BY <1>1, <1>6, <1>7, <3>2
    <3> QED BY <3>1, <3>2
  <2>2. ASSUME NEW id \in due PROVE id < nextItem + 1
    BY <1>1, <1>10, <2>2
  <2>3. \A i \in DOMAIN items' : items'[i].id \in due => items'[i].kind = "doomed"
    BY <1>1, <1>12 DEF DueItems
  <2> QED BY <1>1, <2>1, <2>2, <2>3 DEF DueItems
<1>14. DueIsListedOrAhead'
  <2> SUFFICES ASSUME listingPc = "listing", ~shifted, NEW i \in DOMAIN items', items'[i].id \in due
               PROVE  i > PagesRead \/ Recorded(listed, items'[i])
    BY <1>1 DEF DueIsListedOrAhead, PagesRead, Recorded, localVars
  <2>1. i - 1 \in DOMAIN items /\ items'[i] = items[i - 1]
    BY <1>12
  <2>2. i - 1 > PagesRead \/ Recorded(listed, items[i - 1])
    BY <2>1 DEF ListingInvariant, DueIsListedOrAhead
  <2>3. i \in Nat /\ PagesRead \in Nat
    BY <1>1, <1>5, PageType
  <2> QED BY <2>1, <2>2, <2>3
<1>15. DueIsDoomed'
  BY <1>1, <1>12 DEF ListingInvariant, DueIsDoomed, localVars
<1>16. IdleIsReset' /\ ExitZeroMeansDeleted'
  BY <1>1 DEF IdleIsReset, ExitZeroMeansDeleted
<1> QED BY <1>8, <1>9, <1>13, <1>14, <1>15, <1>16 DEF ListingInvariant

\* The kind of an item changes: it is no longer due.
LEMMA ChangeItemKeepsInvariant ==
    ASSUME ListingInvariant, ChangeItem PROVE ListingInvariant'
<1>1. /\ ListingTypeOK /\ NewestFirst /\ DueItems /\ items \in Seq(Item) /\ listingPc # "idle"
      /\ UNCHANGED <<nextItem, shifted, listingPc, localVars>>
  BY DEF ListingInvariant, ListingTypeOK, ChangeItem
<1>2. PICK c \in DOMAIN items :
          \E kind \in NextKinds(items[c].kind) :
              items' = [items EXCEPT ![c].kind = kind] /\ due' = due \ {items[c].id}
  BY DEF ChangeItem
<1>3. PICK kind \in NextKinds(items[c].kind) :
          items' = [items EXCEPT ![c].kind = kind] /\ due' = due \ {items[c].id}
  BY <1>2
<1>4. items[c] \in Item
  BY <1>1
<1> DEFINE changed == [items[c] EXCEPT !.kind = kind]
<1>5. changed \in Item /\ changed.id = items[c].id
  BY <1>4 DEF Item, NextKinds, Kinds
<1>6. items' = [items EXCEPT ![c] = changed]
  BY <1>3
<1> HIDE DEF changed
<1>7. items' \in Seq(Item) /\ DOMAIN items' = DOMAIN items
  BY <1>1, <1>5, <1>6
<1>8. \A i \in DOMAIN items : i # c => items'[i] = items[i]
  BY <1>1, <1>6
<1>9. \A i \in DOMAIN items : items'[i].id = items[i].id
  BY <1>1, <1>5, <1>6
<1>10. \A i \in DOMAIN items' : items'[i].id \in due' => items'[i] = items[i] /\ items[i].id \in due
  BY <1>3, <1>7, <1>8, <1>9
<1>11. ListingTypeOK'
  BY <1>1, <1>7 DEF ListingTypeOK, localVars
<1>12. NewestFirst'
  BY <1>1, <1>7, <1>9 DEF NewestFirst
<1>13. DueItems'
  BY <1>1, <1>3, <1>7, <1>9, <1>10 DEF DueItems
<1>14. DueIsListedOrAhead'
  <2> SUFFICES ASSUME listingPc = "listing", ~shifted, NEW i \in DOMAIN items', items'[i].id \in due'
               PROVE  i > PagesRead \/ Recorded(listed, items'[i])
    BY <1>1 DEF DueIsListedOrAhead, PagesRead, Recorded, localVars
  <2> QED BY <1>7, <1>10 DEF ListingInvariant, DueIsListedOrAhead
<1>15. DueIsDoomed'
  BY <1>1, <1>7, <1>10 DEF ListingInvariant, DueIsDoomed, localVars
<1>16. IdleIsReset' /\ ExitZeroMeansDeleted'
  BY <1>1 DEF IdleIsReset, ExitZeroMeansDeleted
<1> QED BY <1>11, <1>12, <1>13, <1>14, <1>15, <1>16 DEF ListingInvariant

\* Someone else deletes an item: while the pages are read, an unread item may move
\* to a page already read.
LEMMA DeletedElsewhereKeepsInvariant ==
    ASSUME ListingInvariant, DeletedElsewhere PROVE ListingInvariant'
<1>1. /\ ListingTypeOK /\ NewestFirst /\ DueItems /\ items \in Seq(Item) /\ listingPc # "idle"
      /\ shifted' = (shifted \/ listingPc = "listing")
      /\ UNCHANGED <<nextItem, due, listingPc, localVars>>
  BY DEF ListingInvariant, ListingTypeOK, DeletedElsewhere
<1>2. PICK id : items' = Without({id})
  BY DEF DeletedElsewhere
<1>3. /\ ListingTypeOK' /\ NewestFirst' /\ DueItems'
      /\ \A i \in DOMAIN items' : items'[i].id # id /\ Recorded(items, items'[i])
  BY <1>1, <1>2, RemovalKeepsListing DEF ListingTypeOK, localVars
<1>4. DueIsListedOrAhead'
  BY <1>1 DEF DueIsListedOrAhead
<1>5. DueIsDoomed'
  <2> SUFFICES ASSUME listingPc \in {"confirming", "deleting"}, ~shifted, ~failed,
                      NEW i \in DOMAIN items', items'[i].id \in due
               PROVE  \E j \in DOMAIN doomed : doomed[j] = items'[i].id
    BY <1>1 DEF DueIsDoomed, localVars
  <2>1. PICK h \in DOMAIN items : items[h] = items'[i]
    BY <1>3 DEF Recorded
  <2> QED BY <2>1 DEF ListingInvariant, DueIsDoomed
<1>6. IdleIsReset' /\ ExitZeroMeansDeleted'
  BY <1>1 DEF IdleIsReset, ExitZeroMeansDeleted
<1> QED BY <1>3, <1>4, <1>5, <1>6 DEF ListingInvariant

\* A repository with a history.
LEMMA InitKeepsInvariant == InitListing => ListingInvariant
<1> SUFFICES ASSUME InitListing PROVE ListingInvariant
  OBVIOUS
<1>1. PICK size \in 0..MaxItems : \E kinds \in [1..size -> Kinds] :
          /\ items = [i \in 1..size |-> [id |-> size + 1 - i, kind |-> kinds[i]]]
          /\ nextItem = size + 1
  BY DEF InitListing
<1>2. PICK kinds \in [1..size -> Kinds] :
          /\ items = [i \in 1..size |-> [id |-> size + 1 - i, kind |-> kinds[i]]]
          /\ nextItem = size + 1
  BY <1>1
<1>3. size \in Nat
  BY <1>1, PagedDeletionAssumption
<1>4. ASSUME NEW i \in 1..size
      PROVE  [id |-> size + 1 - i, kind |-> kinds[i]] \in Item
  <2>1. kinds[i] \in {"kept", "doomed", "active"}
    BY <1>2 DEF Kinds
  <2>2. size + 1 - i \in Nat
    BY <1>3
  <2> QED BY <2>1, <2>2 DEF Item
<1>5. items \in Seq(Item) /\ DOMAIN items = 1..size
  BY <1>2, <1>3, <1>4
<1>6. \A i \in DOMAIN items : items[i].id = size + 1 - i
  BY <1>2, <1>5
<1>7. listed \in Seq(Item) /\ doomed \in Seq(Nat)
  BY DEF InitListing
<1>8. ListingTypeOK
  BY <1>2, <1>3, <1>5, <1>7 DEF InitListing, ListingTypeOK
<1>9. NewestFirst
  BY <1>3, <1>5, <1>6 DEF NewestFirst
<1>10. DueItems
  BY <1>2, <1>3, <1>5, <1>6 DEF DueItems, InitListing
<1>11. IdleIsReset /\ DueIsListedOrAhead /\ DueIsDoomed /\ ExitZeroMeansDeleted
  BY DEF InitListing, IdleIsReset, DueIsListedOrAhead, DueIsDoomed, ExitZeroMeansDeleted
<1> QED BY <1>8, <1>9, <1>10, <1>11 DEF ListingInvariant

\* The steps that are not those of the listing scripts leave their state alone.
LEMMA ListingStays ==
    ASSUME ListingInvariant, UNCHANGED listingVars PROVE ListingInvariant'
<1>1. UNCHANGED <<githubVars, localVars, listingPc, listingExit>>
  BY DEF listingVars
<1>2. ListingTypeOK' /\ NewestFirst' /\ DueItems' /\ IdleIsReset'
  BY <1>1 DEF ListingInvariant, ListingTypeOK, NewestFirst, DueItems, IdleIsReset, githubVars,
              localVars
<1>3. DueIsListedOrAhead' /\ DueIsDoomed'
  BY <1>1 DEF ListingInvariant, DueIsListedOrAhead, DueIsDoomed, PagesRead, Recorded,
              githubVars, localVars
<1>4. ExitZeroMeansDeleted'
  BY <1>1 DEF ListingInvariant, ExitZeroMeansDeleted, Ids, githubVars, localVars
<1> QED BY <1>2, <1>3, <1>4 DEF ListingInvariant

\* The listing scripts keep their invariant in every reachable state of the
\* repository.
THEOREM ListingInvariantAlways == Spec => []ListingInvariant
<1>1. Init => ListingInvariant
  BY InitKeepsInvariant DEF Init
<1>2. ListingInvariant /\ [Next]_repositoryVars => ListingInvariant'
  <2> SUFFICES ASSUME ListingInvariant, [Next]_repositoryVars PROVE ListingInvariant'
    OBVIOUS
  <2>1. CASE NextListing
    BY <2>1, StartKeepsInvariant, ListPageKeepsInvariant, ScriptKeepsInvariant,
       DeleteItemKeepsInvariant, CreateItemKeepsInvariant, ChangeItemKeepsInvariant,
       DeletedElsewhereKeepsInvariant DEF NextListing, PruneReleases, RemoveWorkflows
  <2>2. CASE UNCHANGED listingVars
    BY <2>2, ListingStays
  <2> QED BY <2>1, <2>2 DEF Next, repositoryVars, ListingStep, TagStep, OtherTagStep,
             PruneFetch, Cleanup, SyncStep
<1> QED BY <1>1, <1>2, PTL DEF Spec

\* A script that collects every page before it deletes and exits with 0 has deleted
\* whatever was to be deleted when it was invoked, for every page size and number of
\* items and however many are created, changed and deleted meanwhile, unless someone
\* else deleted an item while the pages were read.
THEOREM ExitZeroAlwaysMeansDeleted == Spec => []ExitZeroMeansDeleted
<1>1. ListingInvariant => ExitZeroMeansDeleted
  BY DEF ListingInvariant
<1> QED BY <1>1, ListingInvariantAlways, PTL
=============================================================================
