---------------------------- MODULE MCRepository ----------------------------
(* A small instance of Repository.  The state spaces of the scripts would     *)
(* multiply, so a behaviour has one topic: the items on GitHub, the tags on   *)
(* any remotes, or the branches, where prune-tags.mjs prunes origin, whose    *)
(* one tag nobody else touches and tag -d does not fail to delete.            *)
EXTENDS Repository, TLC

CONSTANTS origin, fork, t1, t2, v1, c1, c2

VARIABLE topic

mcVars == <<repositoryVars, topic>>

OneTag == [r \in Remotes |-> IF r = origin THEN {t1} ELSE {}]

MCInit ==
    /\ topic \in {"items", "tags", "branches"}
    /\ Init
    /\ topic # "items" => items = <<>> /\ listingTool = "releases"
    /\ topic # "tags" => remoteTags = OneTag /\ localTags = {t1}

MCNext ==
    /\ UNCHANGED topic
    /\ \/ topic = "items" /\ ListingStep
       \/ topic # "items" /\ (TagStep \/ PruneFetch \/ Cleanup)
       \/ topic = "tags" /\ OtherTagStep
       \/ topic = "branches" /\ SyncStep
    /\ topic = "branches" => remote' = origin /\ undeleted' = {}

MCSpec == MCInit /\ [][MCNext]_mcVars

SyncSymmetry == Permutations(Changes)
=============================================================================
