----------------------------- MODULE Retention -----------------------------
(***************************************************************************)
(* The retention flow (flows/retention.py): for one domain after the other  *)
(* it lists a page of expired items, and for every item of the page deletes *)
(* the folder of each asset and then the item.  It works from the page it   *)
(* has read, whatever becomes of the items meanwhile.                       *)
(***************************************************************************)
EXTENDS Lake, Sequences

CONSTANTS
    Prunes,        \* runs of the retention flow
    Table,         \* the domains each run walks, in the order of domains.md
    Expiring,      \* the domains whose retention parses to a time span
    PageSize,      \* items per page
    MaxPages,      \* pages per domain
    PruneFaults    \* bound: failing calls of a run, DELETE of an item excepted

PrunePcs == {"nextDomain", "list", "feature", "asset", "objects", "done", "failed"}

PruneStates == [
    pc : PrunePcs,
    table : Seq(Domains),
    page : 0 .. MaxPages,               \* pages read of this domain
    batch : SUBSET Items,               \* features of the page still to do
    short : BOOLEAN,                    \* the page was not full
    read : [Items -> SUBSET Hrefs],     \* hrefs of the page's features
    item : Items \cup {NoItem},         \* the feature at hand
    assets : SUBSET Hrefs,              \* its assets still to delete
    keys : SUBSET Keys,                 \* the listing of one asset's folder
    deleted : SUBSET Items,             \* counted as deleted
    refused : SUBSET Items,             \* history: DELETE answered an error
    faults : Nat]                       \* history: other calls that failed

ASSUME RetentionAssumption ==
    /\ Table \in [Prunes -> Seq(Domains)]
    /\ Expiring \subseteq Domains
    /\ PageSize \in Nat \ {0}
    /\ MaxPages \in Nat \ {0}
    /\ PruneFaults \in [Prunes -> Nat]

VARIABLE prune

RetentionTypeOK == prune \in [Prunes -> PruneStates]

RetentionInit ==
    prune = [p \in Prunes |->
        [pc |-> "nextDomain", table |-> Table[p], page |-> 0, batch |-> {}, short |-> FALSE,
         read |-> [i \in Items |-> {}], item |-> NoItem, assets |-> {}, keys |-> {},
         deleted |-> {}, refused |-> {}, faults |-> 0]]

-----------------------------------------------------------------------------

(* Mutant of Expired: the listing is not restricted by datetime.            *)
ExpiredOrNot(d) == {i \in Items : DomainOf[i] = d /\ Catalogued(i)}

Expired(d) == {i \in Items : DomainOf[i] = d /\ Catalogued(i) /\ catalog[i].old}

(* A page of a listing: full unless there are too few.                      *)
Pages(S) ==
    {T \in SUBSET S : \/ Cardinality(T) = PageSize
                      \/ T = S /\ Cardinality(S) < PageSize}

PruneFault(p) == prune[p].faults < PruneFaults[p]

(* prune_domain of the next domain; with "indefinite" it returns at once.   *)
PruneDomain(p) ==
    /\ prune[p].pc = "nextDomain"
    /\ prune' = [prune EXCEPT ![p] =
         IF @.table = <<>> THEN [@ EXCEPT !.pc = "done"]
         ELSE IF Head(@.table) \in Expiring THEN [@ EXCEPT !.pc = "list", !.page = 0]
         ELSE [@ EXCEPT !.table = Tail(prune[p].table)]]
    /\ UNCHANGED lakeVars

LeaveDomain(s) == [s EXCEPT !.pc = "nextDomain", !.table = Tail(s.table)]

ListPage(p) ==
    /\ prune[p].pc = "list"
    /\ \E T \in Pages(Expired(Head(prune[p].table))) :
         prune' = [prune EXCEPT ![p] =
             IF T = {} THEN LeaveDomain(@)
             ELSE [@ EXCEPT !.pc = "feature", !.page = prune[p].page + 1, !.batch = T,
                            !.short = Cardinality(T) < PageSize,
                            !.read = [i \in Items |-> IF i \in T THEN catalog[i].hrefs ELSE {}]]]
    /\ UNCHANGED lakeVars

(* The page is answered with an error: the domain is left as it is.         *)
ListRefused(p) ==
    /\ prune[p].pc = "list"
    /\ PruneFault(p)
    /\ prune' = [prune EXCEPT ![p] = LeaveDomain([@ EXCEPT !.faults = prune[p].faults + 1])]
    /\ UNCHANGED lakeVars

TakeFeature(p) ==
    /\ prune[p].pc = "feature"
    /\ \E i \in prune[p].batch :
         prune' = [prune EXCEPT ![p].pc = "asset", ![p].batch = @ \ {i}, ![p].item = i,
                                ![p].assets = prune[p].read[i]]
    /\ UNCHANGED lakeVars

(* Mutants of FinishPage: only one page is read; pages are not limited, and *)
(* counted or not.                                                          *)
FinishAfterOnePage(p) ==
    /\ prune[p].pc = "feature"
    /\ prune[p].batch = {}
    /\ prune' = [prune EXCEPT ![p] = LeaveDomain(@)]
    /\ UNCHANGED lakeVars

FinishWhenShort(p) ==
    /\ prune[p].pc = "feature"
    /\ prune[p].batch = {}
    /\ prune' = [prune EXCEPT ![p] =
         IF @.short THEN LeaveDomain(@) ELSE [@ EXCEPT !.pc = "list", !.page = 0]]
    /\ UNCHANGED lakeVars

FinishWhenShortOnly(p) ==
    /\ prune[p].pc = "feature"
    /\ prune[p].batch = {}
    /\ prune' = [prune EXCEPT ![p] = IF @.short THEN LeaveDomain(@) ELSE [@ EXCEPT !.pc = "list"]]
    /\ UNCHANGED lakeVars

FinishPage(p) ==
    /\ prune[p].pc = "feature"
    /\ prune[p].batch = {}
    /\ prune' = [prune EXCEPT ![p] =
         IF @.short \/ @.page >= MaxPages THEN LeaveDomain(@) ELSE [@ EXCEPT !.pc = "list"]]
    /\ UNCHANGED lakeVars

(* delete_prefix: the folder of the href is listed ...                      *)
ListFolder(p) ==
    /\ prune[p].pc = "asset"
    /\ \E h \in prune[p].assets :
         prune' = [prune EXCEPT ![p].pc = "objects", ![p].assets = @ \ {h},
                                ![p].keys = StoredUnder(FolderOfName(h.name))]
    /\ UNCHANGED lakeVars

(* ... and what the listing had is deleted.                                 *)
DeleteFolder(p) ==
    /\ prune[p].pc = "objects"
    /\ DeleteObjects(prune[p].keys)
    /\ prune' = [prune EXCEPT ![p].pc = "asset", ![p].keys = {}]
    /\ UNCHANGED <<collections, catalog>>

(* A failure of either call is logged and passed over; the store may have   *)
(* deleted some of the keys, and reports the others in an unread answer.    *)
DeleteFolderFails(p) ==
    /\ prune[p].pc = "objects"
    /\ PruneFault(p)
    /\ \E T \in SUBSET prune[p].keys : T # prune[p].keys /\ DeleteObjects(T)
    /\ prune' = [prune EXCEPT ![p].pc = "asset", ![p].keys = {}, ![p].faults = @ + 1]
    /\ UNCHANGED <<collections, catalog>>

(* Mutants of DeleteItem: an asset is passed over; the item is kept when    *)
(* its files are gone already.                                              *)
DeleteItemFirst(p) ==
    LET i == prune[p].item IN
    /\ prune[p].pc = "asset"
    /\ IF Catalogued(i)
       THEN /\ WriteItem(i, NoItem)
            /\ prune' = [prune EXCEPT ![p].pc = "feature", ![p].item = NoItem,
                                      ![p].deleted = @ \cup {i}]
       ELSE /\ prune' = [prune EXCEPT ![p].pc = "feature", ![p].item = NoItem]
            /\ UNCHANGED catalog
    /\ UNCHANGED <<collections, objects>>

KeepItem(p) ==
    /\ prune[p].pc = "asset"
    /\ prune[p].assets = {}
    /\ prune' = [prune EXCEPT ![p].pc = "feature", ![p].item = NoItem]
    /\ UNCHANGED lakeVars

DeleteItem(p) ==
    LET i == prune[p].item IN
    /\ prune[p].pc = "asset"
    /\ prune[p].assets = {}
    /\ IF Catalogued(i)
       THEN /\ WriteItem(i, NoItem)
            /\ prune' = [prune EXCEPT ![p].pc = "feature", ![p].item = NoItem,
                                      ![p].deleted = @ \cup {i}]
       ELSE /\ prune' = [prune EXCEPT ![p].pc = "feature", ![p].item = NoItem]
            /\ UNCHANGED catalog
    /\ UNCHANGED <<collections, objects>>

(* The DELETE of an item is answered with an error, which is logged.        *)
DeleteItemRefused(p) ==
    /\ prune[p].pc = "asset"
    /\ prune[p].assets = {}
    /\ prune' = [prune EXCEPT ![p].pc = "feature", ![p].item = NoItem,
                              ![p].refused = @ \cup {prune[p].item}]
    /\ UNCHANGED lakeVars

(* A connection breaks or the pod dies: the task has no retries, the flow   *)
(* fails, and the domains after this one are not walked.                    *)
PruneDies(p) ==
    /\ prune[p].pc \notin {"done", "failed"}
    /\ PruneFault(p)
    /\ prune' = [prune EXCEPT ![p].pc = "failed", ![p].faults = @ + 1]
    /\ UNCHANGED lakeVars

RetentionStep(p) ==
    \/ PruneDomain(p) \/ ListPage(p) \/ TakeFeature(p) \/ FinishPage(p)
    \/ ListFolder(p) \/ DeleteFolder(p) \/ DeleteItem(p) \/ DeleteItemRefused(p)

RetentionFault(p) == ListRefused(p) \/ DeleteFolderFails(p) \/ PruneDies(p)

RetentionNext == \E p \in Prunes : RetentionStep(p) \/ RetentionFault(p)
=============================================================================
