---------------------------- MODULE Housekeeping ----------------------------
(***************************************************************************)
(* Ingest, retention, item delete and gc at work on the same catalogue and  *)
(* the same objects.  None of them locks anything: what one has read, the   *)
(* others may change before it acts on it.                                  *)
(***************************************************************************)
EXTENDS Ingest, Retention, ItemDelete, Gc

CONSTANTS
    Stock,     \* bound: the items catalogued at the start, with all files
    Leftover,  \* bound: objects that no item has, at the start
    ByHand     \* bound: items that an operator adds by hand, with s3 hrefs

ASSUME StockAssumption ==
    /\ Stock \in [Items -> ItemRecords \cup {NoItem}]
    /\ Leftover \subseteq Keys
    /\ \A i \in ByHand : i \in Items /\ Stock[i] = NoItem

VARIABLE reused   \* history: objects put again after a sweep listed them, or
                  \* old already when an operator posted the item that names them

keepers == <<prune, removal, sweep, reused>>
keepVars == <<vars, keepers>>

HousekeepingTypeOK ==
    /\ IngestTypeOK /\ RetentionTypeOK /\ ItemDeleteTypeOK /\ GcTypeOK
    /\ reused \subseteq Keys

Stocked == {i \in Items : Stock[i] # NoItem}

FilesOf(i) == {k \in Keys : FolderOf[k] = PrefixOf[i]}

HousekeepingInit ==
    /\ collections = {DomainOf[i] : i \in Stocked}
    /\ catalog = Stock
    /\ objects = [k \in Keys |-> IF k \in Leftover \/ \E i \in Stocked : k \in FilesOf(i)
                                 THEN "aged" ELSE "absent"]
    /\ IngestInit
    /\ RetentionInit
    /\ ItemDeleteInit
    /\ GcInit(Sweeps)
    /\ reused = {}

(* External: an operator copies files into the bucket, some of them perhaps *)
(* once more, and then posts an item that names them by s3 href, the form   *)
(* that gc and item delete expect (gc.rs:229-231, item.rs:5-6).             *)
PutByHand(i, k) ==
    /\ k \in FilesOf(i)
    /\ ~Catalogued(i)
    /\ PutObject(k)
    /\ reused' = IF \E g \in Sweeps : k \in sweep[g].listed
                    THEN reused \cup {k} ELSE reused
    /\ UNCHANGED <<collections, catalog, ingestVars, prune, removal, sweep>>

PostByHand(i) ==
    /\ ~Catalogued(i)
    /\ \A k \in FilesOf(i) : Stored(k)
    /\ \E c \in Classes :
         WriteItem(i, [run |-> NoRun, cls |-> c, curated |-> FALSE, enriched |-> FALSE, old |-> FALSE,
                       hrefs |-> {[scheme |-> "s3", name |-> k] : k \in FilesOf(i)}])
    /\ collections' = collections \cup {DomainOf[i]}
    /\ reused' = reused \cup {k \in FilesOf(i) : objects[k] = "aged"}
    /\ UNCHANGED <<objects, ingestVars, prune, removal, sweep>>

(* The minimum age of gc goes by since an object was written.  An operator  *)
(* is assumed to take less than that from the first file to the item.       *)
ObjectAges(k) ==
    /\ objects[k] = "fresh"
    /\ \A i \in ByHand : k \in FilesOf(i) => Catalogued(i)
    /\ objects' = [objects EXCEPT ![k] = "aged"]
    /\ UNCHANGED <<collections, catalog, ingestVars, keepers>>

HousekeepingNext ==
    \/ IngestNext /\ UNCHANGED keepers
    \/ RetentionNext /\ UNCHANGED <<ingestVars, removal, sweep, reused>>
    \/ ItemDeleteNext /\ UNCHANGED <<ingestVars, prune, sweep, reused>>
    \/ GcNext /\ UNCHANGED <<ingestVars, prune, removal, reused>>
    \/ \E i \in ByHand : PostByHand(i) \/ \E k \in Keys : PutByHand(i, k)
    \/ \E k \in Keys : ObjectAges(k)

HousekeepingSpec == HousekeepingInit /\ [][HousekeepingNext]_keepVars

(* The pod of a retention run keeps going until it ends or dies.            *)
HousekeepingFair ==
    /\ HousekeepingSpec
    /\ \A p \in Prunes : WF_keepVars(RetentionStep(p)
                            /\ UNCHANGED <<ingestVars, removal, sweep, reused>>)

-----------------------------------------------------------------------------
(* Retention.                                                               *)

Intact(i) == FilesOf(i) \subseteq {k \in Keys : Stored(k)}

(* Where no item has two deleters, an item that readers can find has lost   *)
(* files only while retention is between its folders and its DELETE, after  *)
(* that DELETE was refused or the run died, or because a call of an ingest  *)
(* task for it failed: item_exists takes a failure for "not there" and lets *)
(* the task upload into the folder that retention is deleting.              *)
DanglingIsExplained ==
    \A i \in Items : Catalogued(i) /\ ~Intact(i) =>
        \/ \E p \in Prunes : prune[p].item = i \/ i \in prune[p].refused
        \/ \E c \in Removals : Victim[c] = i /\ removal[c].pc \in {"assets", "stac", "aborted"}
        \/ \E r \in Runs : Target[r] = i /\ faults[r] > 0

(* What retention counts as deleted is gone with its files, if no call on   *)
(* the objects failed and no ingest task has touched the dataset since.     *)
PrunedLeavesNothing ==
    \A p \in Prunes : \A i \in prune[p].deleted :
        prune[p].faults = 0 /\ (\A r \in Runs : Target[r] = i => attempt[r] = 0)
            => ~Catalogued(i) /\ \A k \in FilesOf(i) : ~Stored(k)

(* A run that ends without failures has removed every expired item of its   *)
(* domains that was there when all began, if MaxPages pages hold them and   *)
(* none of its DELETEs was refused.                                         *)
PruneComplete ==
    \A p \in Prunes : prune[p].pc = "done" /\ prune[p].faults = 0 =>
        \A n \in DOMAIN Table[p] : LET d == Table[p][n] IN
            LET due == {i \in Stocked : DomainOf[i] = d /\ Stock[i].old} IN
            d \in Expiring /\ Cardinality(due) <= PageSize * MaxPages /\ prune[p].refused = {}
                => \A i \in due : ~Catalogued(i) \/ ~catalog[i].old

(* A young item, or one of a domain that keeps its data for ever, loses     *)
(* nothing to retention, whatever is pruned around it.                      *)
OthersKeepTheirFiles ==
    \A i \in Stocked :
        ~Stock[i].old \/ DomainOf[i] \notin Expiring =>
            \/ Catalogued(i) /\ Intact(i)
            \/ \E c \in Removals : Victim[c] = i

(* Retention comes to an end even if the catalogue refuses every DELETE and *)
(* the first page never shrinks.                                            *)
PruneEnds == \A p \in Prunes : <>(prune[p].pc \in {"done", "failed"})

(* "The flow is idempotent: deleting an item that is already gone is a      *)
(* no-op" (retention.py:16): when another deleter has removed the item and  *)
(* a task is putting the dataset back, retention leaves its upload alone.   *)
PruningGoneItemIsNoOp ==
    [][\A p \in Prunes, r \in Runs :
         (/\ prune[p].pc = "objects"
          /\ prune'[p].pc = "asset"
          /\ ~Catalogued(prune[p].item)
          /\ Target[r] = prune[p].item
          /\ pc[r] \in {"upload", "probeCollection", "createCollection", "postItem"})
             => objects' = objects]_keepVars

-----------------------------------------------------------------------------
(* Item delete and gc.                                                      *)

(* An object that an item names by an s3 href is missing only when somebody *)
(* deletes that item, for gc lists the bucket before it reads the items and *)
(* an item posted in between still protects its objects; or when gc deletes *)
(* by an age it read before the object was written again (gc.rs:116).       *)
S3NamesAreServed ==
    \A i \in Items : Catalogued(i) => \A k \in S3Names(i) :
        \/ Stored(k)
        \/ \E c \in Removals : Victim[c] = i /\ removal[c].pc \in {"assets", "stac", "aborted"}
        \/ \E p \in Prunes : prune[p].item = i
        \/ k \in reused /\ \E g \in Sweeps : k \in sweep[g].listed \ sweep[g].refs

(* gc leaves none of the objects that it decided to delete, unless someone  *)
(* has written them again.                                                  *)
SweepComplete ==
    \A g \in Sweeps : sweep[g].pc = "done" =>
        \A k \in sweep[g].listed \ sweep[g].refs :
            Stored(k) => k \in reused \/ \E r \in Runs : k \in Tree[r] /\ attempt[r] > 0

(* The command claims success only once the item is gone; and the objects   *)
(* its s3 hrefs named, when it had credentials.                             *)
ClaimsCoverS3 ==
    \A c \in Removals : removal[c].pc = "claimed" =>
        \/ /\ ~Catalogued(Victim[c])
           /\ HasCreds[c] => \A h \in removal[c].hrefs :
                                h.scheme = "s3" /\ h.name \in Keys => ~Stored(h.name)
        \/ \E r \in Runs : Target[r] = Victim[c] /\ attempt[r] > 0

(* "an orphan is an S3 object ... whose key is NOT referenced by any active *)
(* STAC item" (gc.rs:3-5): what gc deletes, no item in the catalogue names. *)
GcTakesOnlyUnreferenced ==
    [][\A g \in Sweeps : \A k \in sweep[g].orphans \ sweep'[g].orphans :
         ~ \E i \in Items : Catalogued(i) /\ \E h \in catalog[i].hrefs : h.name = k]_keepVars
=============================================================================
