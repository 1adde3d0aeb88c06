--------------------------------- MODULE Gc ---------------------------------
(***************************************************************************)
(* dashictl gc --apply (dashictl/src/commands/gc.rs): list the bucket, then *)
(* collect the keys that items name, then delete the old objects no item    *)
(* named, one by one, after the operator has confirmed.                     *)
(***************************************************************************)
EXTENDS Lake

CONSTANTS
    Sweeps,    \* invocations of the command
    Bucket     \* the keys of the bucket each is given

SweepStates == [
    pc : {"list", "collections", "refs", "confirm", "delete", "done", "aborted"},
    listed : SUBSET Keys,      \* objects old enough when they were listed
    domains : SUBSET Domains,  \* collections whose items are still to be read
    refs : SUBSET Keys,        \* keys that items name by an s3 href
    orphans : SUBSET Keys]     \* objects still to be deleted

ASSUME GcAssumption == Bucket \in [Sweeps -> SUBSET Keys]

VARIABLE sweep

GcTypeOK == sweep \in [Sweeps -> SweepStates]

(* The sweeps of S are about to begin; the others have come to nothing.     *)
GcInit(S) ==
    sweep = [g \in Sweeps |->
        [pc |-> IF g \in S THEN "list" ELSE "aborted",
         listed |-> {}, domains |-> {}, refs |-> {}, orphans |-> {}]]

-----------------------------------------------------------------------------

(* Mutant of ListBucket: the age of an object is not looked at.             *)
ListBucketOfAnyAge(g) ==
    /\ sweep[g].pc = "list"
    /\ sweep' = [sweep EXCEPT ![g].pc = "collections",
                              ![g].listed = {k \in Bucket[g] : Stored(k)}]
    /\ UNCHANGED lakeVars

(* list_all, of which only what is older than the cutoff can matter later.  *)
ListBucket(g) ==
    /\ sweep[g].pc = "list"
    /\ sweep' = [sweep EXCEPT ![g].pc = "collections",
                              ![g].listed = {k \in Bucket[g] : objects[k] = "aged"}]
    /\ UNCHANGED lakeVars

ReadCollections(g) ==
    /\ sweep[g].pc = "collections"
    /\ sweep' = [sweep EXCEPT ![g].pc = "refs", ![g].domains = collections]
    /\ UNCHANGED lakeVars

S3Names(i) == {h.name : h \in {a \in catalog[i].hrefs : a.scheme = "s3"}} \cap Keys

(* The items of one collection, in one step for all of its pages: an item   *)
(* is on one page, and what is checked speaks of one item at a time.  Only  *)
(* s3 hrefs count as references.                                            *)
ReadReferences(g) ==
    /\ sweep[g].pc = "refs"
    /\ \E d \in sweep[g].domains :
         sweep' = [sweep EXCEPT ![g].domains = @ \ {d},
             ![g].refs = @ \cup UNION {S3Names(i) : i \in {j \in Items :
                                           DomainOf[j] = d /\ Catalogued(j)}}]
    /\ UNCHANGED lakeVars

FindOrphans(g) ==
    /\ sweep[g].pc = "refs"
    /\ sweep[g].domains = {}
    /\ sweep' = [sweep EXCEPT ![g].pc = "confirm",
                              ![g].orphans = sweep[g].listed \ sweep[g].refs]
    /\ UNCHANGED lakeVars

ConfirmSweep(g) ==
    /\ sweep[g].pc = "confirm"
    /\ sweep' = [sweep EXCEPT ![g].pc = IF sweep[g].orphans = {} THEN "done" ELSE "delete"]
    /\ UNCHANGED lakeVars

(* Mutant of DeleteOrphan: the command ends with one orphan left.           *)
DeleteOrphanButOne(g) ==
    /\ sweep[g].pc = "delete"
    /\ \E k \in sweep[g].orphans :
         /\ DeleteObjects({k})
         /\ sweep' = [sweep EXCEPT ![g].orphans = @ \ {k},
                                   ![g].pc = IF Cardinality(sweep[g].orphans) <= 2 THEN "done" ELSE @]
    /\ UNCHANGED <<collections, catalog>>

DeleteOrphan(g) ==
    /\ sweep[g].pc = "delete"
    /\ \E k \in sweep[g].orphans :
         /\ DeleteObjects({k})
         /\ sweep' = [sweep EXCEPT ![g].orphans = @ \ {k},
                                   ![g].pc = IF sweep[g].orphans = {k} THEN "done" ELSE @]
    /\ UNCHANGED <<collections, catalog>>

(* The operator declines, a call fails, or the command is interrupted.      *)
SweepAborts(g) ==
    /\ sweep[g].pc \notin {"done", "aborted"}
    /\ sweep' = [sweep EXCEPT ![g].pc = "aborted"]
    /\ UNCHANGED lakeVars

GcStep(g) ==
    \/ ListBucket(g) \/ ReadCollections(g) \/ ReadReferences(g)
    \/ FindOrphans(g) \/ ConfirmSweep(g) \/ DeleteOrphan(g)

GcNext == \E g \in Sweeps : GcStep(g) \/ SweepAborts(g)
=============================================================================
