-------------------------------- MODULE Lake --------------------------------
(***************************************************************************)
(* The two stores that every dashi component shares: the STAC catalogue     *)
(* served by stac-fastapi, and the object store behind the S3 API.  The     *)
(* components never talk to each other; they meet here.                     *)
(*                                                                          *)
(* A dataset is catalogued as an item of the collection of its domain.  Its *)
(* files live under one folder, domain/dataset_id/kind/ of the processed    *)
(* bucket, and its assets name files, or the folder itself, by href.        *)
(***************************************************************************)
EXTENDS Naturals, FiniteSets

CONSTANTS
    Domains,    \* domains; each is one STAC collection
    Items,      \* (domain, dataset id) pairs that can be catalogued
    Folders,    \* key prefixes that hold one tree of files each
    Keys,       \* object keys, over all buckets
    Runs,       \* Prefect task runs that can write items
    Classes,    \* classification codes
    DomainOf,   \* the domain of an item
    PrefixOf,   \* the folder of an item's processed files
    FolderOf,   \* the folder a key lives under
    NoItem,     \* what the catalogue holds for an item that is not there
    NoRun       \* the writer of an item that no ingest run posted

(* An asset's href: its scheme and what it names.                           *)
Hrefs == [scheme : {"http", "s3"}, name : Keys \cup Folders]

(* What the components read and write of a STAC item: the run it links back *)
(* to, its classification, whether it carries properties curated by hand,   *)
(* whether it carries the LLM's, whether its datetime lies before the       *)
(* retention cutoff, and its assets' hrefs.                                 *)
ItemRecords == [run : Runs \cup {NoRun}, cls : Classes, curated : BOOLEAN,
                enriched : BOOLEAN, old : BOOLEAN, hrefs : SUBSET Hrefs]

ASSUME LakeAssumption ==
    /\ DomainOf \in [Items -> Domains]
    /\ PrefixOf \in [Items -> Folders]
    /\ \A i, j \in Items : PrefixOf[i] = PrefixOf[j] => i = j
    /\ FolderOf \in [Keys -> Folders]
    /\ Keys \cap Folders = {}
    /\ NoRun \notin Runs
    /\ NoItem \notin ItemRecords
    /\ NoItem \notin Items

VARIABLES
    collections,  \* the domains whose collection exists
    catalog,      \* the item catalogued under each name, or NoItem
    objects       \* each key: absent, fresh (modified recently) or aged

lakeVars == <<collections, catalog, objects>>

LakeTypeOK ==
    /\ collections \subseteq Domains
    /\ catalog \in [Items -> ItemRecords \cup {NoItem}]
    /\ objects \in [Keys -> {"absent", "fresh", "aged"}]

-----------------------------------------------------------------------------

Catalogued(i) == catalog[i] # NoItem

Stored(k) == objects[k] # "absent"

StoredUnder(f) == {k \in Keys : FolderOf[k] = f /\ Stored(k)}

(* PUT of an object: it is there afterwards, with a new LastModified.       *)
PutObject(k) == objects' = [objects EXCEPT ![k] = "fresh"]

(* DELETE of a set of objects; deleting an absent key succeeds.             *)
DeleteObjects(S) ==
    objects' = [k \in Keys |-> IF k \in S THEN "absent" ELSE objects[k]]

(* A transaction of the STAC API that leaves i holding rec.                 *)
WriteItem(i, rec) == catalog' = [catalog EXCEPT ![i] = rec]

(* The folder an href leads to when its last path segment is cut off.       *)
FolderOfName(n) == IF n \in Folders THEN n ELSE FolderOf[n]
=============================================================================
