------------------------- MODULE HousekeepingProofs -------------------------
(***************************************************************************)
(* What is proved about Retention at work beside ingest and item delete,    *)
(* for any number of runs, tasks, commands, domains, items and pages.       *)
(***************************************************************************)
EXTENDS Housekeeping, IngestProofs, FiniteSetTheorems

(* What retention may delete: items that were old when everything began, of *)
(* a domain whose data expires.                                             *)
Due == {i \in Stocked : Stock[i].old /\ DomainOf[i] \in Expiring}

(* Nobody makes an item old: one that is old is as it was at the start.     *)
OldIsStock ==
    \A i \in Items : Catalogued(i) /\ catalog[i].old => i \in Stocked /\ catalog[i] = Stock[i]

TaskOk(r) ==
    /\ todo[r] \subseteq Tree[r]
    /\ pc[r] \in Active => attempt[r] > 0

Folder(h) == {k \in Keys : FolderOf[k] = FolderOfName(h.name)}

(* Where a retention run stands.  Of the items it has read, the hrefs it    *)
(* has are those of the start.                                              *)
PruneOk(s) ==
    /\ s.pc = "list" => s.page < MaxPages
    /\ s.pc \in {"list", "feature", "asset", "objects"} =>
         s.table # <<>> /\ Head(s.table) \in Expiring
    /\ s.batch \subseteq Due
    /\ \A i \in s.batch : s.read[i] = Stock[i].hrefs
    /\ s.pc \in {"asset", "objects"} =>
         /\ s.item \in Due
         /\ s.read[s.item] = Stock[s.item].hrefs
         /\ s.assets \subseteq Stock[s.item].hrefs
    /\ s.pc = "objects" => \E h \in Stock[s.item].hrefs : s.keys \subseteq Folder(h)

HouseInv ==
    /\ HousekeepingTypeOK
    /\ AttemptsLeft
    /\ OldIsStock
    /\ \A r \in Runs : TaskOk(r)
    /\ \A p \in Prunes : PruneOk(prune[p])

-----------------------------------------------------------------------------
(* The steps of a retention run.                                            *)

LEMMA DueIsStocked ==
  \A i \in Due : i \in Items /\ i \notin ByHand /\ Stock[i] \in ItemRecords
BY StockAssumption DEF Due, Stocked

(* A listing of expired items of a domain whose data expires.               *)
LEMMA ExpiredIsDue ==
  ASSUME HouseInv, NEW d \in Expiring, NEW T \in Pages(Expired(d))
  PROVE  T \subseteq Due /\ \A i \in T : i \in Items /\ catalog[i] = Stock[i]
BY DEF Pages, Expired, HouseInv, OldIsStock, Due

LEMMA RetentionMoves ==
  ASSUME HouseInv, NEW p \in Prunes, RetentionStep(p) \/ RetentionFault(p)
  PROVE  \E s \in PruneStates : PruneOk(s) /\ prune' = [prune EXCEPT ![p] = s]
<1> DEFINE o == prune[p]
<1>1. o \in PruneStates /\ PruneOk(o)
  BY DEF HouseInv, HousekeepingTypeOK, RetentionTypeOK
<1>2. o.table \in Seq(Domains)
  BY <1>1 DEF PruneStates
<1>3. MaxPages \in Nat \ {0} /\ PageSize \in Nat \ {0}
  BY RetentionAssumption
<1>4. ASSUME NEW s \in PruneStates, PruneOk(s), s.table # <<>>
      PROVE  LeaveDomain(s) \in PruneStates /\ PruneOk(LeaveDomain(s))
  <2>1. Tail(s.table) \in Seq(Domains)
    BY <1>4 DEF PruneStates
  <2>2. LeaveDomain(s) \in PruneStates /\ LeaveDomain(s).pc = "nextDomain"
        /\ LeaveDomain(s).batch = s.batch /\ LeaveDomain(s).read = s.read
    BY <1>4, <2>1 DEF LeaveDomain, PruneStates, PrunePcs
  <2>3. QED
    BY <1>4, <2>2 DEF PruneOk
<1>5. CASE PruneDomain(p)
  <2>1. CASE o.table = <<>>
    <3> DEFINE s == [o EXCEPT !.pc = "done"]
    <3>1. s \in PruneStates /\ PruneOk(s)
      BY <1>1 DEF PruneStates, PrunePcs, PruneOk
    <3>2. QED
      BY <1>5, <2>1, <3>1 DEF PruneDomain
  <2>2. CASE o.table # <<>> /\ Head(o.table) \in Expiring
    <3> DEFINE s == [o EXCEPT !.pc = "list", !.page = 0]
    <3>1. s \in PruneStates /\ PruneOk(s)
      <4>1. s \in PruneStates
        <5>1. 0 \in 0 .. MaxPages /\ "list" \in PrunePcs
          BY <1>3 DEF PrunePcs
        <5>2. QED
          BY <1>1, <5>1 DEF PruneStates
      <4>2. s.pc = "list" /\ s.page = 0 /\ s.table = o.table /\ s.batch = o.batch /\ s.read = o.read
        BY <1>1 DEF PruneStates
      <4>3. PruneOk(s)
        BY <1>1, <1>3, <2>2, <4>2 DEF PruneOk
      <4>4. QED
        BY <4>1, <4>3
    <3>2. QED
      BY <1>5, <2>2, <3>1 DEF PruneDomain
  <2>3. CASE o.table # <<>> /\ Head(o.table) \notin Expiring
    <3> DEFINE s == [o EXCEPT !.table = Tail(@)]
    <3>1. Tail(o.table) \in Seq(Domains) /\ o.pc = "nextDomain"
      BY <1>2, <1>5, <2>3 DEF PruneDomain
    <3>2. s \in PruneStates /\ PruneOk(s)
      BY <1>1, <3>1 DEF PruneStates, PrunePcs, PruneOk
    <3>3. QED
      BY <1>5, <2>3, <3>2 DEF PruneDomain
  <2>4. QED
    BY <2>1, <2>2, <2>3
<1>6. CASE ListPage(p)
  <2>1. o.pc = "list" /\ o.table # <<>> /\ Head(o.table) \in Expiring /\ o.page < MaxPages
    BY <1>1, <1>6 DEF ListPage, PruneOk
  <2> DEFINE Page(T) == [o EXCEPT !.pc = "feature", !.page = @ + 1, !.batch = T,
                            !.short = Cardinality(T) < PageSize,
                            !.read = [i \in Items |-> IF i \in T THEN catalog[i].hrefs ELSE {}]]
  <2>2. PICK T \in Pages(Expired(Head(o.table))) :
          prune' = [prune EXCEPT ![p] = IF T = {} THEN LeaveDomain(o) ELSE Page(T)]
    BY <1>6 DEF ListPage
  <2>3. T \subseteq Due /\ \A i \in T : i \in Items /\ catalog[i] = Stock[i]
    BY <2>1, <2>2, ExpiredIsDue
  <2>4. \A i \in T : Stock[i].hrefs \subseteq Hrefs
    BY <2>3, DueIsStocked DEF ItemRecords
  <2>5. T \subseteq Items
    BY <2>3
  <2>6. [i \in Items |-> IF i \in T THEN catalog[i].hrefs ELSE {}] \in [Items -> SUBSET Hrefs]
    BY <2>3, <2>4
  <2>7. o.page + 1 \in 0 .. MaxPages
    BY <1>1, <1>3, <2>1 DEF PruneStates
  <2>8. (Cardinality(T) < PageSize) \in BOOLEAN
    OBVIOUS
  <2>9. /\ Page(T) \in PruneStates
        /\ Page(T).pc = "feature" /\ Page(T).batch = T /\ Page(T).table = o.table
        /\ Page(T).read = [i \in Items |-> IF i \in T THEN catalog[i].hrefs ELSE {}]
    BY <1>1, <2>5, <2>6, <2>7, <2>8 DEF PruneStates, PrunePcs
  <2>10. PruneOk(Page(T))
    BY <2>1, <2>3, <2>9 DEF PruneOk
  <2>11. QED
    BY <1>1, <1>4, <2>1, <2>2, <2>9, <2>10
<1>7. CASE ListRefused(p)
  <2> DEFINE s == [o EXCEPT !.faults = @ + 1]
  <2>1. s \in PruneStates /\ PruneOk(s) /\ s.table # <<>>
    <3>1. o.faults + 1 \in Nat /\ o.pc = "list"
      BY <1>1, <1>7 DEF PruneStates, ListRefused
    <3>2. s \in PruneStates
      BY <1>1, <3>1 DEF PruneStates
    <3>3. /\ s.pc = "list" /\ s.page = o.page /\ s.table = o.table
          /\ s.batch = o.batch /\ s.read = o.read
      BY <1>1, <3>1 DEF PruneStates
    <3>4. QED
      BY <1>1, <3>1, <3>2, <3>3 DEF PruneOk
  <2>2. prune' = [prune EXCEPT ![p] = LeaveDomain(s)]
    BY <1>7 DEF ListRefused
  <2> HIDE DEF s
  <2>3. QED
    BY <1>4, <2>1, <2>2
<1>8. CASE TakeFeature(p)
  <2>1. PICK i \in o.batch :
          prune' = [prune EXCEPT ![p].pc = "asset", ![p].batch = @ \ {i}, ![p].item = i,
                                 ![p].assets = o.read[i]]
    BY <1>8 DEF TakeFeature
  <2> DEFINE s == [o EXCEPT !.pc = "asset", !.batch = @ \ {i}, !.item = i, !.assets = o.read[i]]
  <2>2. prune' = [prune EXCEPT ![p] = s]
    BY <2>1 DEF HouseInv, HousekeepingTypeOK, RetentionTypeOK, PruneStates
  <2>3. o.pc = "feature" /\ i \in Items /\ i \in Due /\ o.read[i] = Stock[i].hrefs
    BY <1>1, <1>8, DueIsStocked DEF TakeFeature, PruneOk
  <2>4. s \in PruneStates
    BY <1>1, <2>3 DEF PruneStates, PrunePcs
  <2>5. PruneOk(s)
    BY <1>1, <2>3 DEF PruneOk, PruneStates
  <2>6. QED
    BY <2>2, <2>4, <2>5
<1>9. CASE FinishPage(p)
  <2> DEFINE s == [o EXCEPT !.pc = "list"]
  <2>1. o.pc = "feature" /\ o.page \in 0 .. MaxPages
    BY <1>1, <1>9 DEF FinishPage, PruneStates
  <2>2. ~(o.page >= MaxPages) => s \in PruneStates /\ PruneOk(s)
    BY <1>1, <1>3, <2>1 DEF PruneStates, PrunePcs, PruneOk
  <2>3. o.table # <<>>
    BY <1>1, <2>1 DEF PruneOk
  <2>4. QED
    BY <1>1, <1>4, <1>9, <2>2, <2>3 DEF FinishPage
<1>10. CASE ListFolder(p)
  <2>1. PICK h \in o.assets :
          prune' = [prune EXCEPT ![p].pc = "objects", ![p].assets = @ \ {h},
                                 ![p].keys = StoredUnder(FolderOfName(h.name))]
    BY <1>10 DEF ListFolder
  <2> DEFINE s == [o EXCEPT !.pc = "objects", !.assets = @ \ {h},
                            !.keys = StoredUnder(FolderOfName(h.name))]
  <2>2. prune' = [prune EXCEPT ![p] = s]
    BY <2>1 DEF HouseInv, HousekeepingTypeOK, RetentionTypeOK, PruneStates
  <2>3. /\ o.pc = "asset" /\ h \in Stock[o.item].hrefs
        /\ StoredUnder(FolderOfName(h.name)) \subseteq Folder(h)
    BY <1>1, <1>10 DEF ListFolder, PruneOk, StoredUnder, Folder
  <2>4. StoredUnder(FolderOfName(h.name)) \subseteq Keys
    BY DEF StoredUnder
  <2>5. s \in PruneStates
    BY <1>1, <2>4 DEF PruneStates, PrunePcs
  <2>6. PruneOk(s)
    BY <1>1, <2>3 DEF PruneOk, PruneStates
  <2>7. QED
    BY <2>2, <2>5, <2>6
<1>11. CASE DeleteFolder(p) \/ DeleteFolderFails(p)
  <2>1. PICK n \in {o.faults, o.faults + 1} :
          prune' = [prune EXCEPT ![p] = [o EXCEPT !.pc = "asset", !.keys = {}, !.faults = n]]
    BY <1>11 DEF DeleteFolder, DeleteFolderFails, HouseInv, HousekeepingTypeOK,
                 RetentionTypeOK, PruneStates
  <2> DEFINE s == [o EXCEPT !.pc = "asset", !.keys = {}, !.faults = n]
  <2>2. o.pc = "objects" /\ n \in Nat
    BY <1>1, <1>11 DEF DeleteFolder, DeleteFolderFails, PruneStates
  <2>3. s \in PruneStates /\ PruneOk(s)
    BY <1>1, <2>2 DEF PruneStates, PrunePcs, PruneOk
  <2>4. QED
    BY <2>1, <2>3
<1>12. CASE DeleteItem(p) \/ DeleteItemRefused(p)
  <2>1. o.pc = "asset" /\ o.item \in Items
    BY <1>1, <1>12, DueIsStocked DEF DeleteItem, DeleteItemRefused, PruneOk
  <2>2. o.deleted \in SUBSET Items /\ o.refused \in SUBSET Items
    BY <1>1 DEF PruneStates
  <2> DEFINE Left(D, R) == [o EXCEPT !.pc = "feature", !.item = NoItem, !.deleted = D, !.refused = R]
  <2>3. ASSUME NEW D \in SUBSET Items, NEW R \in SUBSET Items
        PROVE  Left(D, R) \in PruneStates /\ PruneOk(Left(D, R))
    BY <1>1, <2>1 DEF PruneStates, PrunePcs, PruneOk
  <2>4. CASE DeleteItemRefused(p)
    <3>1. prune' = [prune EXCEPT ![p] = Left(o.deleted, o.refused \cup {o.item})]
      BY <2>4 DEF DeleteItemRefused, HouseInv, HousekeepingTypeOK, RetentionTypeOK, PruneStates
    <3>2. o.refused \cup {o.item} \in SUBSET Items
      BY <2>1, <2>2
    <3> HIDE DEF Left
    <3>3. QED
      BY <2>2, <2>3, <3>1, <3>2
  <2>5. CASE DeleteItem(p) /\ Catalogued(o.item)
    <3>1. prune' = [prune EXCEPT ![p] = Left(o.deleted \cup {o.item}, o.refused)]
      BY <2>5 DEF DeleteItem, HouseInv, HousekeepingTypeOK, RetentionTypeOK, PruneStates
    <3>2. o.deleted \cup {o.item} \in SUBSET Items
      BY <2>1, <2>2
    <3> HIDE DEF Left
    <3>3. QED
      BY <2>2, <2>3, <3>1, <3>2
  <2>6. CASE DeleteItem(p) /\ ~Catalogued(o.item)
    <3>1. prune' = [prune EXCEPT ![p] = Left(o.deleted, o.refused)]
      BY <2>6 DEF DeleteItem, HouseInv, HousekeepingTypeOK, RetentionTypeOK, PruneStates
    <3> HIDE DEF Left
    <3>2. QED
      BY <2>2, <2>3, <3>1
  <2>7. QED
    BY <1>12, <2>4, <2>5, <2>6
<1>13. CASE PruneDies(p)
  <2> DEFINE s == [o EXCEPT !.pc = "failed", !.faults = @ + 1]
  <2>1. prune' = [prune EXCEPT ![p] = s]
    BY <1>13 DEF PruneDies, HouseInv, HousekeepingTypeOK, RetentionTypeOK, PruneStates
  <2>2. s \in PruneStates
    <3>1. o.faults + 1 \in Nat
      BY <1>1 DEF PruneStates
    <3>2. QED
      BY <1>1, <3>1 DEF PruneStates, PrunePcs
  <2>3. s.pc = "failed" /\ s.batch = o.batch /\ s.read = o.read
    BY <1>1 DEF PruneStates
  <2>4. PruneOk(s)
    BY <1>1, <2>3 DEF PruneOk
  <2>5. QED
    BY <2>1, <2>2, <2>4
<1>14. QED
  BY <1>5, <1>6, <1>7, <1>8, <1>9, <1>10, <1>11, <1>12, <1>13 DEF RetentionStep, RetentionFault

(* Retention touches the lake where it deletes what it has listed, and the  *)
(* item it has at hand.                                                     *)
LEMMA RetentionEffects ==
  ASSUME NEW p \in Prunes, RetentionStep(p) \/ RetentionFault(p)
  PROVE  \/ UNCHANGED lakeVars
         \/ /\ prune[p].pc = "objects"
            /\ \E T \in SUBSET prune[p].keys : DeleteObjects(T)
            /\ UNCHANGED <<collections, catalog>>
         \/ /\ prune[p].pc = "asset"
            /\ WriteItem(prune[p].item, NoItem)
            /\ UNCHANGED <<collections, objects>>
BY DEF RetentionStep, RetentionFault, PruneDomain, ListPage, ListRefused, TakeFeature, FinishPage,
       ListFolder, DeleteFolder, DeleteFolderFails, DeleteItem, DeleteItemRefused, PruneDies,
       lakeVars

-----------------------------------------------------------------------------
(* The steps of the others.                                                 *)

LEMMA DeleteObjectsType ==
  ASSUME LakeTypeOK, NEW S, DeleteObjects(S), UNCHANGED <<collections, catalog>>
  PROVE  LakeTypeOK'
BY DEF LakeTypeOK, DeleteObjects

LEMMA DeleteItemType ==
  ASSUME LakeTypeOK, NEW i, WriteItem(i, NoItem), UNCHANGED <<collections, objects>>
  PROVE  LakeTypeOK'
BY DEF LakeTypeOK, WriteItem

LEMMA RemovalMoves ==
  ASSUME ItemDeleteTypeOK, LakeTypeOK, NEW c \in Removals, ItemDeleteStep(c) \/ RemovalAborts(c)
  PROVE  ItemDeleteTypeOK'
<1> DEFINE o == removal[c]
<1>1. o \in RemovalStates /\ Victim[c] \in Items
  BY ItemDeleteAssumption DEF ItemDeleteTypeOK
<1>2. ASSUME NEW s \in RemovalStates, removal' = [removal EXCEPT ![c] = s]
      PROVE  ItemDeleteTypeOK'
  BY <1>2 DEF ItemDeleteTypeOK
<1>3. CASE FetchItem(c)
  <2>1. Catalogued(Victim[c]) => catalog[Victim[c]].hrefs \subseteq Hrefs
    BY <1>1 DEF Catalogued, LakeTypeOK, ItemRecords
  <2> DEFINE s == IF Catalogued(Victim[c])
                  THEN [pc |-> "confirm", hrefs |-> catalog[Victim[c]].hrefs, left |-> {}]
                  ELSE [o EXCEPT !.pc = "aborted"]
  <2>2. s \in RemovalStates
    BY <1>1, <2>1 DEF RemovalStates
  <2>3. removal' = [removal EXCEPT ![c] = s]
    BY <1>3 DEF FetchItem
  <2>4. QED
    BY <1>2, <2>2, <2>3
<1>4. CASE Confirm(c)
  <2> DEFINE s == IF HasCreds[c] THEN [o EXCEPT !.pc = "assets", !.left = o.hrefs]
                  ELSE [o EXCEPT !.pc = "stac"]
  <2>1. s \in RemovalStates
    BY <1>1 DEF RemovalStates
  <2>2. removal' = [removal EXCEPT ![c] = s]
    BY <1>4 DEF Confirm
  <2>3. QED
    BY <1>2, <2>1, <2>2
<1>5. CASE SkipAsset(c) \/ DeleteAsset(c)
  <2>1. PICK h \in o.left : removal' = [removal EXCEPT ![c].left = @ \ {h}]
    BY <1>5 DEF SkipAsset, DeleteAsset
  <2> DEFINE s == [o EXCEPT !.left = @ \ {h}]
  <2>2. s \in RemovalStates
    BY <1>1 DEF RemovalStates
  <2>3. removal' = [removal EXCEPT ![c] = s]
    BY <2>1 DEF ItemDeleteTypeOK, RemovalStates
  <2>4. QED
    BY <1>2, <2>2, <2>3
<1>6. CASE AssetsDone(c) \/ DeleteStac(c) \/ RemovalAborts(c)
  <2>1. PICK l \in {"stac", "claimed", "aborted"} : removal' = [removal EXCEPT ![c].pc = l]
    BY <1>6 DEF AssetsDone, DeleteStac, RemovalAborts
  <2> DEFINE s == [o EXCEPT !.pc = l]
  <2>2. s \in RemovalStates
    BY <1>1 DEF RemovalStates
  <2>3. removal' = [removal EXCEPT ![c] = s]
    BY <2>1 DEF ItemDeleteTypeOK, RemovalStates
  <2>4. QED
    BY <1>2, <2>2, <2>3
<1>7. QED
  BY <1>3, <1>4, <1>5, <1>6 DEF ItemDeleteStep

LEMMA RemovalEffects ==
  ASSUME NEW c \in Removals, ItemDeleteStep(c) \/ RemovalAborts(c)
  PROVE  \/ UNCHANGED lakeVars
         \/ /\ removal[c].pc = "assets"
            /\ \E h \in removal[c].left : h.scheme = "s3" /\ DeleteObjects({h.name})
            /\ UNCHANGED <<collections, catalog>>
         \/ /\ removal[c].pc = "stac"
            /\ WriteItem(Victim[c], NoItem)
            /\ UNCHANGED <<collections, objects>>
BY DEF ItemDeleteStep, FetchItem, Confirm, SkipAsset, DeleteAsset, AssetsDone, DeleteStac,
       RemovalAborts, lakeVars

LEMMA SweepMoves ==
  ASSUME GcTypeOK, LakeTypeOK, NEW g \in Sweeps, GcStep(g) \/ SweepAborts(g)
  PROVE  GcTypeOK'
<1> DEFINE o == sweep[g]
<1>1. o \in SweepStates /\ Bucket[g] \in SUBSET Keys
  BY GcAssumption DEF GcTypeOK
<1>2. ASSUME NEW s \in SweepStates, sweep' = [sweep EXCEPT ![g] = s]
      PROVE  GcTypeOK'
  BY <1>2 DEF GcTypeOK
<1>3. CASE ListBucket(g)
  <2> DEFINE s == [o EXCEPT !.pc = "collections", !.listed = {k \in Bucket[g] : objects[k] = "aged"}]
  <2>1. s \in SweepStates
    BY <1>1 DEF SweepStates
  <2>2. sweep' = [sweep EXCEPT ![g] = s]
    BY <1>3 DEF ListBucket, GcTypeOK, SweepStates
  <2>3. QED
    BY <1>2, <2>1, <2>2
<1>4. CASE ReadCollections(g)
  <2> DEFINE s == [o EXCEPT !.pc = "refs", !.domains = collections]
  <2>1. s \in SweepStates
    BY <1>1 DEF SweepStates, LakeTypeOK
  <2>2. sweep' = [sweep EXCEPT ![g] = s]
    BY <1>4 DEF ReadCollections, GcTypeOK, SweepStates
  <2>3. QED
    BY <1>2, <2>1, <2>2
<1>5. CASE ReadReferences(g)
  <2> DEFINE Names(d) == UNION {S3Names(i) : i \in {j \in Items : DomainOf[j] = d /\ Catalogued(j)}}
  <2>1. PICK d \in o.domains :
          sweep' = [sweep EXCEPT ![g].domains = @ \ {d}, ![g].refs = @ \cup Names(d)]
    BY <1>5 DEF ReadReferences
  <2>2. Names(d) \subseteq Keys
    BY DEF S3Names
  <2> HIDE DEF Names
  <2> DEFINE s == [o EXCEPT !.domains = @ \ {d}, !.refs = @ \cup Names(d)]
  <2>3. s \in SweepStates
    BY <1>1, <2>2 DEF SweepStates
  <2>4. sweep' = [sweep EXCEPT ![g] = s]
    BY <2>1 DEF GcTypeOK, SweepStates
  <2>5. QED
    BY <1>2, <2>3, <2>4
<1>6. CASE FindOrphans(g)
  <2> DEFINE s == [o EXCEPT !.pc = "confirm", !.orphans = o.listed \ o.refs]
  <2>1. s \in SweepStates
    BY <1>1 DEF SweepStates
  <2>2. sweep' = [sweep EXCEPT ![g] = s]
    BY <1>6 DEF FindOrphans, GcTypeOK, SweepStates
  <2>3. QED
    BY <1>2, <2>1, <2>2
<1>7. ASSUME NEW l \in {"delete", "done", "aborted"}, NEW S \in SUBSET o.orphans,
             sweep' = [sweep EXCEPT ![g] = [o EXCEPT !.pc = l, !.orphans = S]]
      PROVE  GcTypeOK'
  <2> DEFINE s == [o EXCEPT !.pc = l, !.orphans = S]
  <2>1. s \in SweepStates
    BY <1>1 DEF SweepStates
  <2>2. QED
    BY <1>2, <1>7, <2>1
<1>8. CASE ConfirmSweep(g)
  <2> DEFINE l == IF o.orphans = {} THEN "done" ELSE "delete"
  <2>1. sweep' = [sweep EXCEPT ![g] = [o EXCEPT !.pc = l, !.orphans = o.orphans]]
    BY <1>8 DEF ConfirmSweep, GcTypeOK, SweepStates
  <2>2. QED
    BY <1>7, <2>1
<1>9. CASE DeleteOrphan(g)
  <2>1. PICK k \in o.orphans :
          sweep' = [sweep EXCEPT ![g].orphans = @ \ {k},
                                 ![g].pc = IF o.orphans = {k} THEN "done" ELSE @]
    BY <1>9 DEF DeleteOrphan
  <2> DEFINE l == IF o.orphans = {k} THEN "done" ELSE "delete"
  <2>2. sweep' = [sweep EXCEPT ![g] = [o EXCEPT !.pc = l, !.orphans = o.orphans \ {k}]]
    BY <1>9, <2>1 DEF DeleteOrphan, GcTypeOK, SweepStates
  <2>3. QED
    BY <1>7, <2>2
<1>10. CASE SweepAborts(g)
  <2>1. sweep' = [sweep EXCEPT ![g] = [o EXCEPT !.pc = "aborted", !.orphans = o.orphans]]
    BY <1>10 DEF SweepAborts, GcTypeOK, SweepStates
  <2>2. QED
    BY <1>7, <2>1
<1>11. QED
  BY <1>3, <1>4, <1>5, <1>6, <1>8, <1>9, <1>10 DEF GcStep

LEMMA SweepEffects ==
  ASSUME NEW g \in Sweeps, GcStep(g) \/ SweepAborts(g)
  PROVE  \/ UNCHANGED lakeVars
         \/ /\ sweep[g].pc = "delete"
            /\ \E k \in sweep[g].orphans : DeleteObjects({k})
            /\ UNCHANGED <<collections, catalog>>
BY DEF GcStep, ListBucket, ReadCollections, ReadReferences, FindOrphans, ConfirmSweep,
       DeleteOrphan, SweepAborts, lakeVars

-----------------------------------------------------------------------------
(* Type correctness.                                                        *)

(* What a step of ingest does to the lake.                                  *)
LEMMA IngestEffects ==
  ASSUME HouseInv, IngestNext
  PROVE  \/ UNCHANGED lakeVars
         \/ \E r \in Runs :
              /\ pc[r] = "upload"
              /\ \E k \in todo[r] : PutObject(k)
              /\ UNCHANGED <<collections, catalog>>
         \/ \E r \in Runs :
              /\ pc[r] = "createCollection"
              /\ collections' = collections \cup {DomainOf[Target[r]]}
              /\ UNCHANGED <<catalog, objects>>
         \/ \E r \in Runs :
              /\ pc[r] \in {"postItem", "putItem"}
              /\ WriteItem(Target[r], BuildItem(r))
              /\ UNCHANGED <<collections, objects>>
<1>1. ASSUME NEW r \in Runs, TaskStep(r) \/ TaskFault(r)
      PROVE  \/ UNCHANGED lakeVars
             \/ /\ pc[r] = "upload"
                /\ \E k \in todo[r] : PutObject(k)
                /\ UNCHANGED <<collections, catalog>>
             \/ /\ pc[r] = "createCollection"
                /\ collections' = collections \cup {DomainOf[Target[r]]}
                /\ UNCHANGED <<catalog, objects>>
             \/ /\ pc[r] \in {"postItem", "putItem"}
                /\ WriteItem(Target[r], BuildItem(r))
                /\ UNCHANGED <<collections, objects>>
  BY <1>1 DEF TaskStep, TaskFault, StartAttempt, Validate, ProbeItem, Transform, UploadFile,
              UploadDone, ProbeCollection, CreateCollection, PostItem, PutItem,
              UseCachedResult, ProbeItemFails, CallFails, AnswerLost, lakeVars
<1>2. ASSUME NEW f \in Flows, FlowStep(f) \/ FlowFault(f) PROVE UNCHANGED lakeVars
  BY <1>2 DEF FlowStep, FlowFault, StartFlow, FetchFails, CompleteFlow, FailFlow, CrashFlow
<1>3. QED
  BY <1>1, <1>2 DEF IngestNext

LEMMA TasksStep ==
  ASSUME HouseInv, IngestNext, NEW s \in Runs
  PROVE  TaskOk(s)' /\ attempt'[s] >= attempt[s]
<1> USE DEF HouseInv, HousekeepingTypeOK, IngestTypeOK, TaskTypeOK
<1>1. /\ TaskOk(s) /\ TypeInv /\ Tree[s] \subseteq Keys
      /\ attempt[s] \in Nat /\ Retries \in Nat
  BY IngestAssumption DEF TypeInv
<1>2. ASSUME NEW r \in Runs, TaskStep(r) \/ TaskFault(r), s # r PROVE TaskOk(s)' /\ attempt'[s] >= attempt[s]
  BY <1>1, <1>2, TaskFrame DEF TaskOk
<1>3. CASE TaskStep(s)
  <2>1. CASE StartAttempt(s)
    BY <1>1, <2>1 DEF StartAttempt, MayStart, TaskOk
  <2>2. CASE Validate(s) \/ ProbeItem(s) \/ UploadDone(s) \/ ProbeCollection(s)
             \/ CreateCollection(s) \/ PostItem(s) \/ PutItem(s)
    <3>1. pc[s] \in Active /\ attempt' = attempt /\ (todo'[s] = todo[s] \/ todo'[s] = {})
      BY <2>2 DEF Validate, ProbeItem, UploadDone, ProbeCollection, CreateCollection, PostItem,
                  PutItem, Advance, Return, LoseRace, Raise, Active
    <3>2. QED
      BY <1>1, <3>1 DEF TaskOk
  <2>3. CASE Transform(s)
    <3>1. /\ pc[s] \in Active /\ attempt' = attempt
          /\ todo'[s] = todo[s] \/ todo'[s] = {} \/ todo'[s] = Tree[s]
      BY <2>3 DEF Transform, Return, Raise, Active
    <3>2. QED
      BY <1>1, <3>1 DEF TaskOk
  <2>4. CASE UploadFile(s)
    <3>1. pc[s] \in Active /\ attempt' = attempt /\ todo'[s] \subseteq todo[s]
      BY <2>4 DEF UploadFile, Active
    <3>2. QED
      BY <1>1, <3>1 DEF TaskOk
  <2>5. QED
    BY <1>3, <2>1, <2>2, <2>3, <2>4 DEF TaskStep
<1>4. CASE TaskFault(s)
  <2>1. /\ attempt' = attempt /\ (todo'[s] = todo[s] \/ todo'[s] = {})
        /\ pc'[s] \in Active => pc[s] \in Active
    BY <1>4 DEF TaskFault, UseCachedResult, ProbeItemFails, CallFails, AnswerLost, Fault, Raise,
                Goto, Active
  <2>2. QED
    BY <1>1, <2>1 DEF TaskOk
<1>5. ASSUME NEW f \in Flows, FlowStep(f) \/ FlowFault(f)
      PROVE  TaskOk(s)' /\ attempt'[s] >= attempt[s]
  <2>1. todo' = todo /\ attempt' = attempt /\ (pc'[s] = pc[s] \/ pc'[s] = "lost")
    BY <1>5 DEF FlowStep, FlowFault, StartFlow, FetchFails, CompleteFlow, FailFlow,
                CrashFlow, taskVars
  <2>2. QED
    BY <1>1, <2>1 DEF TaskOk, Active
<1>6. QED
  BY <1>2, <1>3, <1>4, <1>5 DEF IngestNext

(* A step of the others leaves the tasks alone.                             *)
LEMMA TasksStutter ==
  ASSUME HouseInv, UNCHANGED ingestVars
  PROVE  AttemptsLeft' /\ TaskTypeOK' /\ \A r \in Runs : TaskOk(r)'
BY DEF HouseInv, AttemptsLeft, HousekeepingTypeOK, IngestTypeOK, TaskTypeOK, TaskOk,
       ingestVars, taskVars

(* Writing an item that is not old, or deleting one, makes none old.        *)
LEMMA WriteKeepsOld ==
  ASSUME HouseInv, NEW i, NEW rec, WriteItem(i, rec), rec = NoItem \/ ~rec.old
  PROVE  OldIsStock'
BY DEF HouseInv, HousekeepingTypeOK, IngestTypeOK, LakeTypeOK, OldIsStock, WriteItem, Catalogued

PostedByHand(i, c) ==
    [run |-> NoRun, cls |-> c, curated |-> FALSE, enriched |-> FALSE, old |-> FALSE,
     hrefs |-> {[scheme |-> "s3", name |-> k] : k \in FilesOf(i)}]

LEMMA PostedByHandType ==
  ASSUME NEW i, NEW c \in Classes
  PROVE  PostedByHand(i, c) \in ItemRecords
<1>1. {[scheme |-> "s3", name |-> k] : k \in FilesOf(i)} \in SUBSET Hrefs
  BY DEF FilesOf, Hrefs
<1>2. QED
  BY <1>1 DEF PostedByHand, ItemRecords

LEMMA HandMoves ==
  ASSUME HouseInv, NEW i \in ByHand
  PROVE  /\ i \in Items /\ Stock[i] = NoItem
         /\ \A k \in Keys : PutByHand(i, k) => LakeTypeOK' /\ reused' \subseteq Keys
         /\ PostByHand(i) => /\ LakeTypeOK' /\ OldIsStock' /\ reused' \subseteq Keys
                             /\ \E c \in Classes : WriteItem(i, PostedByHand(i, c))
<1> USE DEF HouseInv, HousekeepingTypeOK, IngestTypeOK
<1>1. i \in Items /\ Stock[i] = NoItem /\ DomainOf[i] \in Domains
  BY StockAssumption, LakeAssumption
<1>2. ASSUME NEW k \in Keys, PutByHand(i, k) PROVE LakeTypeOK' /\ reused' \subseteq Keys
  BY <1>2, PutObjectType DEF PutByHand
<1>3. ASSUME PostByHand(i)
      PROVE  /\ LakeTypeOK' /\ OldIsStock' /\ reused' \subseteq Keys
             /\ \E c \in Classes : WriteItem(i, PostedByHand(i, c))
  <2>1. PICK c \in Classes : WriteItem(i, PostedByHand(i, c))
    BY <1>3 DEF PostByHand, PostedByHand
  <2>2. PostedByHand(i, c) \in ItemRecords /\ ~PostedByHand(i, c).old
    BY PostedByHandType DEF PostedByHand
  <2>3. LakeTypeOK'
    BY <1>1, <1>3, <2>1, <2>2 DEF PostByHand, WriteItem, LakeTypeOK
  <2>4. reused' \subseteq Keys
    BY <1>3 DEF PostByHand, FilesOf
  <2>5. QED
    BY <2>1, <2>2, <2>3, <2>4, WriteKeepsOld
<1>4. QED
  BY <1>1, <1>2, <1>3

LEMMA AgesType ==
  ASSUME LakeTypeOK, NEW k \in Keys, ObjectAges(k)
  PROVE  LakeTypeOK' /\ catalog' = catalog
BY DEF LakeTypeOK, ObjectAges

LEMMA OldStutter ==
  ASSUME OldIsStock, catalog' = catalog
  PROVE  OldIsStock'
BY DEF OldIsStock, Catalogued

LEMMA HouseStep == HouseInv /\ [HousekeepingNext]_keepVars => HouseInv'
<1> SUFFICES ASSUME HouseInv, [HousekeepingNext]_keepVars PROVE HouseInv'
  OBVIOUS
<1>1. /\ LakeTypeOK /\ TaskTypeOK /\ RetentionTypeOK /\ ItemDeleteTypeOK /\ GcTypeOK
      /\ reused \subseteq Keys /\ AttemptsLeft /\ OldIsStock /\ TypeInv
      /\ \A p \in Prunes : PruneOk(prune[p])
  BY DEF HouseInv, HousekeepingTypeOK, IngestTypeOK, TypeInv
<1>2. UNCHANGED prune => RetentionTypeOK' /\ \A p \in Prunes : PruneOk(prune'[p])
  BY <1>1 DEF RetentionTypeOK
<1>3. UNCHANGED removal => ItemDeleteTypeOK'
  BY <1>1 DEF ItemDeleteTypeOK
<1>4. UNCHANGED sweep => GcTypeOK'
  BY <1>1 DEF GcTypeOK
<1>5. UNCHANGED ingestVars => AttemptsLeft' /\ TaskTypeOK' /\ \A r \in Runs : TaskOk(r)'
  BY TasksStutter
<1>6. UNCHANGED lakeVars => LakeTypeOK' /\ OldIsStock'
  BY <1>1, LakeStutter, OldStutter DEF lakeVars
<1> DEFINE Goal == /\ LakeTypeOK' /\ TaskTypeOK' /\ AttemptsLeft' /\ OldIsStock'
                   /\ \A r \in Runs : TaskOk(r)'
                   /\ RetentionTypeOK' /\ \A p \in Prunes : PruneOk(prune'[p])
                   /\ ItemDeleteTypeOK' /\ GcTypeOK' /\ reused' \subseteq Keys
<1> SUFFICES Goal
  BY DEF HouseInv, HousekeepingTypeOK, IngestTypeOK
<1>7. CASE IngestNext /\ UNCHANGED keepers
  <2>1. TypeInv'
    BY <1>1, <1>7, TypeStep DEF Next
  <2>2. OldIsStock'
    <3>1. \A r \in Runs : WriteItem(Target[r], BuildItem(r)) => OldIsStock'
      BY WriteKeepsOld DEF BuildItem
    <3>2. QED
      BY <1>1, <1>7, <3>1, IngestEffects, OldStutter DEF lakeVars
  <2>3. QED
    BY <1>1, <1>2, <1>3, <1>4, <1>7, <2>1, <2>2, TasksStep DEF keepers, TypeInv, IngestTypeOK
<1>8. CASE RetentionNext /\ UNCHANGED <<ingestVars, removal, sweep, reused>>
  <2>1. PICK p \in Prunes : RetentionStep(p) \/ RetentionFault(p)
    BY <1>8 DEF RetentionNext
  <2>2. PICK s \in PruneStates : PruneOk(s) /\ prune' = [prune EXCEPT ![p] = s]
    BY <2>1, RetentionMoves
  <2>3. RetentionTypeOK' /\ \A q \in Prunes : PruneOk(prune'[q])
    BY <1>1, <2>2 DEF RetentionTypeOK
  <2>4. LakeTypeOK' /\ OldIsStock'
    BY <1>1, <1>6, <2>1, RetentionEffects, DeleteObjectsType, DeleteItemType, OldStutter,
       WriteKeepsOld
  <2>5. QED
    BY <1>1, <1>3, <1>4, <1>5, <1>8, <2>3, <2>4
<1>9. CASE ItemDeleteNext /\ UNCHANGED <<ingestVars, prune, sweep, reused>>
  <2>1. PICK c \in Removals : ItemDeleteStep(c) \/ RemovalAborts(c)
    BY <1>9 DEF ItemDeleteNext
  <2>2. LakeTypeOK' /\ OldIsStock'
    BY <1>1, <1>6, <2>1, RemovalEffects, DeleteObjectsType, DeleteItemType, OldStutter,
       WriteKeepsOld
  <2>3. QED
    BY <1>1, <1>2, <1>4, <1>5, <1>9, <2>1, <2>2, RemovalMoves
<1>10. CASE GcNext /\ UNCHANGED <<ingestVars, prune, removal, reused>>
  <2>1. PICK g \in Sweeps : GcStep(g) \/ SweepAborts(g)
    BY <1>10 DEF GcNext
  <2>2. LakeTypeOK' /\ OldIsStock'
    BY <1>1, <1>6, <2>1, SweepEffects, DeleteObjectsType, OldStutter
  <2>3. QED
    BY <1>1, <1>2, <1>3, <1>5, <1>10, <2>1, <2>2, SweepMoves
<1>11. CASE \E i \in ByHand : PostByHand(i) \/ \E k \in Keys : PutByHand(i, k)
  <2>1. UNCHANGED <<ingestVars, prune, removal, sweep>>
    BY <1>11 DEF PostByHand, PutByHand
  <2>2. LakeTypeOK' /\ OldIsStock' /\ reused' \subseteq Keys
    BY <1>1, <1>11, HandMoves, OldStutter DEF PutByHand
  <2>3. QED
    BY <1>2, <1>3, <1>4, <1>5, <2>1, <2>2
<1>12. CASE \E k \in Keys : ObjectAges(k)
  <2>1. UNCHANGED <<ingestVars, prune, removal, sweep, reused>>
    BY <1>12 DEF ObjectAges, keepers
  <2>2. QED
    BY <1>1, <1>2, <1>3, <1>4, <1>5, <1>12, <2>1, AgesType, OldStutter
<1>13. CASE UNCHANGED keepVars
  BY <1>1, <1>2, <1>3, <1>4, <1>5, <1>6, <1>13 DEF keepVars, vars, keepers
<1>14. QED
  BY <1>7, <1>8, <1>9, <1>10, <1>11, <1>12, <1>13 DEF HousekeepingNext

(* Whatever is in the lake, before anybody has begun.                       *)
LEMMA HouseBegins ==
  ASSUME LakeTypeOK, OldIsStock, IngestInit, RetentionInit, ItemDeleteInit, GcTypeOK, reused = {}
  PROVE  HouseInv
<1>2. TaskTypeOK /\ AttemptsLeft /\ \A r \in Runs : TaskOk(r)
  BY IngestAssumption DEF IngestInit, TaskTypeOK, AttemptsLeft, TaskOk, Active
<1>3. RetentionTypeOK /\ \A p \in Prunes : PruneOk(prune[p])
  <2>1. \A p \in Prunes : prune[p] \in PruneStates
    BY RetentionAssumption DEF RetentionInit, PruneStates, PrunePcs
  <2>2. prune = [p \in Prunes |-> prune[p]]
    BY DEF RetentionInit
  <2>3. \A p \in Prunes : PruneOk(prune[p])
    BY DEF RetentionInit, PruneOk
  <2>4. QED
    BY <2>1, <2>2, <2>3 DEF RetentionTypeOK
<1>4. ItemDeleteTypeOK
  BY DEF ItemDeleteInit, ItemDeleteTypeOK, RemovalStates
<1>5. QED
  BY <1>2, <1>3, <1>4 DEF HouseInv, HousekeepingTypeOK, IngestTypeOK

LEMMA HouseInit == HousekeepingInit => HouseInv
<1> SUFFICES ASSUME HousekeepingInit PROVE HouseInv
  OBVIOUS
<1>1. LakeTypeOK /\ OldIsStock
  BY StockAssumption, LakeAssumption
     DEF HousekeepingInit, LakeTypeOK, OldIsStock, Stocked, Catalogued
<1>2. GcTypeOK
  BY DEF HousekeepingInit, GcInit, GcTypeOK, SweepStates
<1>3. QED
  BY <1>1, <1>2, HouseBegins DEF HousekeepingInit

LEMMA HouseAlways == HousekeepingSpec => []HouseInv
BY HouseInit, HouseStep, PTL DEF HousekeepingSpec

(* Whatever ingest, retention, item delete, gc and an operator do to the    *)
(* lake in whatever order, every variable keeps its type.                   *)
THEOREM HousekeepingTypesAlways == HousekeepingSpec => []HousekeepingTypeOK
<1>1. HouseInv => HousekeepingTypeOK
  BY DEF HouseInv
<1>2. QED
  BY <1>1, HouseAlways, PTL

-----------------------------------------------------------------------------
(* Who may lose what.                                                       *)

(* What the catalogue holds at the start: items whose assets all name their *)
(* own folder or files in it, as ingest makes them, and at least one.       *)
Own(i, H) == \A h \in H : FolderOfName(h.name) = PrefixOf[i]

StockNamesItsFiles ==
    \A i \in Stocked : Stock[i].hrefs # {} /\ Own(i, Stock[i].hrefs)

(* Then every item there ever is names its own files, and so does what item *)
(* delete has fetched of it.                                                *)
OwnInv ==
    /\ \A i \in Items : Catalogued(i) => Own(i, catalog[i].hrefs)
    /\ \A c \in Removals : /\ Own(Victim[c], removal[c].hrefs)
                           /\ removal[c].left \subseteq removal[c].hrefs

LEMMA FoldersApart ==
  ASSUME NEW i \in Items, NEW j \in Items, NEW k \in FilesOf(i), k \in FilesOf(j)
  PROVE  i = j
BY LakeAssumption DEF FilesOf

LEMMA KeysAreNoFolders == \A k \in Keys : FolderOfName(k) = FolderOf[k]
BY LakeAssumption DEF FolderOfName

LEMMA BuildItemOwn ==
  ASSUME NEW r \in Runs
  PROVE  Own(Target[r], BuildItem(r).hrefs)
<1>1. \A n \in AssetNames(r) : FolderOfName(n) = PrefixOf[Target[r]]
  BY IngestAssumption, LakeAssumption DEF AssetNames, FolderOfName
<1>2. QED
  BY <1>1 DEF Own, BuildItem

LEMMA PostedByHandOwn ==
  ASSUME NEW i, NEW c
  PROVE  Own(i, PostedByHand(i, c).hrefs)
<1>1. \A k \in FilesOf(i) : FolderOfName(k) = PrefixOf[i]
  BY KeysAreNoFolders DEF FilesOf
<1>2. QED
  BY <1>1 DEF Own, PostedByHand

LEMMA WriteOwn ==
  ASSUME HouseInv, OwnInv, NEW i \in Items, NEW rec, WriteItem(i, rec),
         rec = NoItem \/ Own(i, rec.hrefs), UNCHANGED removal
  PROVE  OwnInv'
<1>1. \A j \in Items : Catalogued(j)' => Own(j, catalog'[j].hrefs)
  BY DEF HouseInv, HousekeepingTypeOK, IngestTypeOK, LakeTypeOK, OwnInv, WriteItem, Catalogued
<1>2. QED
  BY <1>1 DEF OwnInv

LEMMA OwnStutter ==
  ASSUME OwnInv, UNCHANGED <<catalog, removal>>
  PROVE  OwnInv'
BY DEF OwnInv, Catalogued

LEMMA OwnRemoval ==
  ASSUME HouseInv, OwnInv, NEW c \in Removals, ItemDeleteStep(c) \/ RemovalAborts(c)
  PROVE  OwnInv'
<1> DEFINE o == removal[c]
<1>1. /\ o \in RemovalStates /\ Own(Victim[c], o.hrefs) /\ o.left \subseteq o.hrefs
      /\ Victim[c] \in Items
  BY ItemDeleteAssumption DEF HouseInv, HousekeepingTypeOK, ItemDeleteTypeOK, OwnInv
<1>2. \A j \in Items : Catalogued(j)' => Own(j, catalog'[j].hrefs)
  <2>1. ASSUME WriteItem(Victim[c], NoItem) PROVE \A j \in Items : Catalogued(j)' => catalog'[j] = catalog[j]
    BY <2>1 DEF HouseInv, HousekeepingTypeOK, IngestTypeOK, LakeTypeOK, WriteItem, Catalogued
  <2>2. QED
    BY <2>1, RemovalEffects DEF OwnInv, Catalogued, lakeVars
<1>3. /\ \A d \in Removals : d # c => removal'[d] = removal[d]
      /\ \/ removal'[c].hrefs = o.hrefs /\ removal'[c].left \subseteq o.hrefs
         \/ /\ Catalogued(Victim[c])
            /\ removal'[c].hrefs = catalog[Victim[c]].hrefs /\ removal'[c].left = {}
  <2> USE DEF HouseInv, HousekeepingTypeOK, ItemDeleteTypeOK
  <2>1. CASE FetchItem(c)
    BY <1>1, <2>1 DEF FetchItem, RemovalStates
  <2>2. CASE Confirm(c)
    BY <1>1, <2>2 DEF Confirm, RemovalStates
  <2>3. CASE SkipAsset(c) \/ DeleteAsset(c)
    <3>1. PICK h \in o.left : removal' = [removal EXCEPT ![c].left = @ \ {h}]
      BY <2>3 DEF SkipAsset, DeleteAsset
    <3>2. QED
      BY <1>1, <3>1 DEF RemovalStates
  <2>4. CASE AssetsDone(c) \/ DeleteStac(c) \/ RemovalAborts(c)
    BY <1>1, <2>4 DEF AssetsDone, DeleteStac, RemovalAborts, RemovalStates
  <2>5. QED
    BY <2>1, <2>2, <2>3, <2>4 DEF ItemDeleteStep
<1>4. QED
  BY <1>1, <1>2, <1>3 DEF OwnInv

LEMMA OwnStep ==
  ASSUME HouseInv, OwnInv, [HousekeepingNext]_keepVars
  PROVE  OwnInv'
<1>1. CASE IngestNext /\ UNCHANGED keepers
  <2>1. \A r \in Runs : Target[r] \in Items
    BY IngestAssumption
  <2>2. QED
    BY <1>1, <2>1, IngestEffects, WriteOwn, BuildItemOwn, OwnStutter DEF keepers, lakeVars
<1>2. CASE RetentionNext /\ UNCHANGED <<ingestVars, removal, sweep, reused>>
  <2>1. PICK p \in Prunes : RetentionStep(p) \/ RetentionFault(p)
    BY <1>2 DEF RetentionNext
  <2>2. prune[p].pc = "asset" => prune[p].item \in Items
    BY DueIsStocked DEF HouseInv, PruneOk
  <2>3. QED
    BY <1>2, <2>1, <2>2, RetentionEffects, WriteOwn, OwnStutter DEF lakeVars
<1>3. CASE ItemDeleteNext /\ UNCHANGED <<ingestVars, prune, sweep, reused>>
  BY <1>3, OwnRemoval DEF ItemDeleteNext
<1>4. CASE GcNext /\ UNCHANGED <<ingestVars, prune, removal, reused>>
  BY <1>4, SweepEffects, OwnStutter DEF GcNext, lakeVars
<1>5. ASSUME NEW i \in ByHand, PostByHand(i) PROVE OwnInv'
  BY <1>5, HandMoves, PostedByHandOwn, WriteOwn DEF PostByHand
<1>6. ASSUME NEW i \in ByHand, NEW k \in Keys, PutByHand(i, k) PROVE OwnInv'
  BY <1>6, OwnStutter DEF PutByHand
<1>7. ASSUME NEW k \in Keys, ObjectAges(k) PROVE OwnInv'
  BY <1>7, OwnStutter DEF ObjectAges, keepers
<1>8. CASE UNCHANGED keepVars
  BY <1>8, OwnStutter DEF keepVars, vars, lakeVars, keepers
<1>9. QED
  BY <1>1, <1>2, <1>3, <1>4, <1>5, <1>6, <1>7, <1>8 DEF HousekeepingNext

LEMMA OwnInit ==
  ASSUME StockNamesItsFiles, HousekeepingInit
  PROVE  OwnInv
BY DEF HousekeepingInit, ItemDeleteInit, StockNamesItsFiles, OwnInv, Own, Stocked, Catalogued

(* What a run has listed to delete is in the folder of the item at hand.    *)
LEMMA ListedIsOwn ==
  ASSUME StockNamesItsFiles, HouseInv, NEW p \in Prunes, prune[p].pc = "objects"
  PROVE  prune[p].item \in Due /\ prune[p].keys \subseteq FilesOf(prune[p].item)
<1>1. PruneOk(prune[p])
  BY DEF HouseInv
<1>2. prune[p].item \in Due
  BY <1>1 DEF PruneOk
<1>3. PICK h \in Stock[prune[p].item].hrefs : prune[p].keys \subseteq Folder(h)
  BY <1>1 DEF PruneOk
<1>4. FolderOfName(h.name) = PrefixOf[prune[p].item]
  BY <1>2, <1>3 DEF Due, StockNamesItsFiles, Own
<1>5. QED
  BY <1>2, <1>3, <1>4 DEF Folder, FilesOf

LEMMA FilesLost ==
  ASSUME StockNamesItsFiles, HouseInv, OwnInv, [HousekeepingNext]_keepVars,
         NEW k \in Keys, Stored(k), ~Stored(k)'
  PROVE  \/ \E p \in Prunes : /\ prune[p].pc = "objects" /\ prune[p].item \in Due
                              /\ k \in FilesOf(prune[p].item)
                              /\ RetentionStep(p) \/ RetentionFault(p)
                              /\ UNCHANGED <<collections, catalog, ingestVars, removal, sweep, reused>>
         \/ \E c \in Removals : /\ removal[c].pc = "assets" /\ k \in FilesOf(Victim[c])
                                /\ ItemDeleteStep(c) \/ RemovalAborts(c)
                                /\ UNCHANGED <<collections, catalog, ingestVars, prune, sweep, reused>>
         \/ \E g \in Sweeps : /\ sweep[g].pc = "delete" /\ k \in sweep[g].orphans
                              /\ GcStep(g) \/ SweepAborts(g)
                              /\ UNCHANGED <<collections, catalog, ingestVars, prune, removal, reused>>
<1> USE DEF Stored
<1>1. LakeTypeOK
  BY DEF HouseInv, HousekeepingTypeOK, IngestTypeOK
<1>2. ~UNCHANGED objects
  OBVIOUS
<1>3. \A j : ~PutObject(j)
  BY <1>1 DEF PutObject, LakeTypeOK
<1>4. ASSUME NEW S, DeleteObjects(S) PROVE k \in S
  BY <1>4 DEF DeleteObjects
<1>5. ~(IngestNext /\ UNCHANGED keepers)
  BY <1>2, <1>3, IngestEffects DEF lakeVars
<1>6. CASE RetentionNext /\ UNCHANGED <<ingestVars, removal, sweep, reused>>
  <2>1. PICK p \in Prunes : RetentionStep(p) \/ RetentionFault(p)
    BY <1>6 DEF RetentionNext
  <2>2. /\ prune[p].pc = "objects" /\ k \in prune[p].keys
        /\ UNCHANGED <<collections, catalog>>
    BY <1>2, <1>4, <2>1, RetentionEffects DEF lakeVars
  <2>3. QED
    BY <1>6, <2>1, <2>2, ListedIsOwn
<1>7. CASE ItemDeleteNext /\ UNCHANGED <<ingestVars, prune, sweep, reused>>
  <2>1. PICK c \in Removals : ItemDeleteStep(c) \/ RemovalAborts(c)
    BY <1>7 DEF ItemDeleteNext
  <2>2. /\ removal[c].pc = "assets" /\ UNCHANGED <<collections, catalog>>
        /\ \E h \in removal[c].left : k = h.name
    BY <1>2, <1>4, <2>1, RemovalEffects DEF lakeVars
  <2>3. FolderOfName(k) = PrefixOf[Victim[c]]
    BY <2>2 DEF OwnInv, Own
  <2>4. k \in FilesOf(Victim[c])
    BY <2>3, KeysAreNoFolders DEF FilesOf
  <2>5. QED
    BY <1>7, <2>1, <2>2, <2>4
<1>8. CASE GcNext /\ UNCHANGED <<ingestVars, prune, removal, reused>>
  BY <1>2, <1>4, <1>8, SweepEffects DEF GcNext, lakeVars
<1>9. ASSUME NEW i \in ByHand PROVE ~PostByHand(i) /\ \A j \in Keys : ~PutByHand(i, j)
  BY <1>2, <1>3 DEF PostByHand, PutByHand
<1>10. ASSUME NEW j \in Keys PROVE ~ObjectAges(j)
  BY <1>1 DEF ObjectAges, LakeTypeOK
<1>11. ~UNCHANGED keepVars
  BY <1>2 DEF keepVars, vars, lakeVars
<1>12. QED
  BY <1>5, <1>6, <1>7, <1>8, <1>9, <1>10, <1>11 DEF HousekeepingNext

LEMMA ItemsLost ==
  ASSUME HouseInv, [HousekeepingNext]_keepVars, NEW i \in Items, Catalogued(i), ~Catalogued(i)'
  PROVE  \/ \E p \in Prunes : /\ prune[p].pc = "asset" /\ prune[p].item = i /\ i \in Due
                              /\ RetentionStep(p) \/ RetentionFault(p)
         \/ \E c \in Removals : removal[c].pc = "stac" /\ Victim[c] = i
<1> USE DEF Catalogued
<1>1. LakeTypeOK
  BY DEF HouseInv, HousekeepingTypeOK, IngestTypeOK
<1>2. ~UNCHANGED catalog
  OBVIOUS
<1>3. ASSUME NEW j, WriteItem(j, NoItem) PROVE j = i
  BY <1>1, <1>3 DEF WriteItem, LakeTypeOK
<1>4. ~(IngestNext /\ UNCHANGED keepers)
  <2>1. \A r \in Runs : ~WriteItem(Target[r], BuildItem(r))
    BY <1>1, BuildItemType, LakeAssumption DEF WriteItem, LakeTypeOK
  <2>2. QED
    BY <1>2, <2>1, IngestEffects DEF lakeVars
<1>5. CASE RetentionNext /\ UNCHANGED <<ingestVars, removal, sweep, reused>>
  <2>1. PICK p \in Prunes : RetentionStep(p) \/ RetentionFault(p)
    BY <1>5 DEF RetentionNext
  <2>2. prune[p].pc = "asset" /\ prune[p].item = i
    BY <1>2, <1>3, <2>1, RetentionEffects DEF lakeVars
  <2>3. QED
    BY <2>1, <2>2 DEF HouseInv, PruneOk
<1>6. CASE ItemDeleteNext /\ UNCHANGED <<ingestVars, prune, sweep, reused>>
  BY <1>2, <1>3, <1>6, RemovalEffects DEF ItemDeleteNext, lakeVars
<1>7. ~(GcNext /\ UNCHANGED <<ingestVars, prune, removal, reused>>)
  BY <1>2, SweepEffects DEF GcNext, lakeVars
<1>8. ASSUME NEW j \in ByHand PROVE ~PostByHand(j) /\ \A k \in Keys : ~PutByHand(j, k)
  <2>1. \A c \in Classes : PostedByHand(j, c) # NoItem
    BY PostedByHandType, LakeAssumption
  <2>2. ~PostByHand(j)
    BY <1>1, <2>1, HandMoves DEF WriteItem, LakeTypeOK
  <2>3. QED
    BY <1>2, <2>2 DEF PutByHand
<1>9. ASSUME NEW k \in Keys PROVE ~ObjectAges(k)
  BY <1>2 DEF ObjectAges
<1>10. ~UNCHANGED keepVars
  BY <1>2 DEF keepVars, vars, lakeVars
<1>11. QED
  BY <1>4, <1>5, <1>6, <1>7, <1>8, <1>9, <1>10 DEF HousekeepingNext

LEMMA OwnAlways == StockNamesItsFiles => (HousekeepingSpec => [](HouseInv /\ OwnInv))
<1> SUFFICES ASSUME StockNamesItsFiles PROVE HousekeepingSpec => [](HouseInv /\ OwnInv)
  OBVIOUS
<1>1. HousekeepingInit => HouseInv /\ OwnInv
  BY HouseInit, OwnInit
<1>2. HouseInv /\ OwnInv /\ [HousekeepingNext]_keepVars => (HouseInv /\ OwnInv)'
  BY HouseStep, OwnStep
<1>3. QED
  BY <1>1, <1>2, PTL DEF HousekeepingSpec

(* Where nobody sweeps the bucket, what is young or in a domain that keeps  *)
(* its data for ever, and what nobody deletes by its name, keeps its files. *)
THEOREM OthersAlwaysKeep ==
  StockNamesItsFiles /\ Sweeps = {} => (HousekeepingSpec => []OthersKeepTheirFiles)
<1> SUFFICES ASSUME StockNamesItsFiles, Sweeps = {}
             PROVE  HousekeepingSpec => []OthersKeepTheirFiles
  OBVIOUS
<1>1. HousekeepingInit => OthersKeepTheirFiles
  BY StockAssumption
     DEF HousekeepingInit, OthersKeepTheirFiles, Stocked, Catalogued, Intact, FilesOf, Stored
<1>2. HouseInv /\ OwnInv /\ OthersKeepTheirFiles /\ [HousekeepingNext]_keepVars
        => OthersKeepTheirFiles'
  <2> SUFFICES ASSUME HouseInv, OwnInv, OthersKeepTheirFiles, [HousekeepingNext]_keepVars,
                      NEW i \in Stocked, ~Stock[i].old \/ DomainOf[i] \notin Expiring,
                      \A c \in Removals : Victim[c] # i
               PROVE  Catalogued(i)' /\ Intact(i)'
    BY DEF OthersKeepTheirFiles
  <2>1. i \notin Due /\ i \in Items /\ Catalogued(i) /\ Intact(i)
    BY DEF Due, Stocked, OthersKeepTheirFiles
  <2>2. Catalogued(i)'
    BY <2>1, ItemsLost
  <2>3. ASSUME NEW k \in FilesOf(i) PROVE Stored(k)'
    <3>1. k \in Keys /\ Stored(k)
      BY <2>1 DEF FilesOf, Intact
    <3>2. /\ \A p \in Prunes : prune[p].item \in Due => k \notin FilesOf(prune[p].item)
          /\ \A c \in Removals : k \notin FilesOf(Victim[c])
      BY <2>1, FoldersApart, DueIsStocked, ItemDeleteAssumption
    <3>3. QED
      BY <3>1, <3>2, FilesLost
  <2>4. QED
    BY <2>2, <2>3 DEF Intact, FilesOf
<1>3. QED
  BY <1>1, <1>2, OwnAlways, PTL DEF HousekeepingSpec

-----------------------------------------------------------------------------
(* What retention counts as deleted.                                        *)

Untouched(i) == \A r \in Runs : Target[r] = i => attempt[r] = 0

Emptied(i) == \A k \in FilesOf(i) : ~Stored(k)

(* Without a failed call and a task for the dataset, every folder that the  *)
(* run has been through is empty, and what it lists is all there is.        *)
Thorough(s) ==
    /\ s.deleted \subseteq Due
    /\ s.faults = 0 =>
         /\ \A i \in s.deleted : Untouched(i) => ~Catalogued(i) /\ Emptied(i)
         /\ s.pc = "asset" /\ Untouched(s.item) /\ s.assets # Stock[s.item].hrefs
              => Emptied(s.item)
         /\ s.pc = "objects" /\ Untouched(s.item)
              => \A k \in FilesOf(s.item) : Stored(k) => k \in s.keys

(* What no task works on and no operator adds by hand, nobody puts back.    *)
LEMMA NothingComes ==
  ASSUME HouseInv, [HousekeepingNext]_keepVars, NEW i \in Items, i \notin ByHand, Untouched(i)'
  PROVE  /\ Untouched(i)
         /\ Catalogued(i)' => Catalogued(i)
         /\ \A k \in FilesOf(i) : Stored(k)' => Stored(k)
<1>1. /\ LakeTypeOK
      /\ \A r \in Runs : TaskOk(r) /\ attempt[r] \in Nat
  BY DEF HouseInv, HousekeepingTypeOK, IngestTypeOK, TaskTypeOK
<1>2. CASE IngestNext /\ UNCHANGED keepers
  <2>1. Untouched(i)
    BY <1>1, <1>2, TasksStep DEF Untouched, HouseInv, HousekeepingTypeOK, IngestTypeOK, TaskTypeOK
  <2>2. \A r \in Runs : pc[r] \in Active => Target[r] # i
    BY <1>1, <2>1 DEF Untouched, TaskOk
  <2>3. ASSUME NEW r \in Runs, pc[r] = "upload", NEW k \in todo[r], PutObject(k)
        PROVE  \A j \in FilesOf(i) : Stored(j)' => Stored(j)
    <3>1. FolderOf[k] = PrefixOf[Target[r]] /\ Target[r] \in Items /\ Target[r] # i
      BY <1>1, <2>2, <2>3, IngestAssumption DEF TaskOk, Active
    <3>2. k \notin FilesOf(i)
      BY <1>1, <3>1, LakeAssumption DEF FilesOf
    <3>3. QED
      BY <1>1, <2>3, <3>2 DEF PutObject, Stored, LakeTypeOK, FilesOf
  <2>4. ASSUME NEW r \in Runs, pc[r] \in {"postItem", "putItem"},
               WriteItem(Target[r], BuildItem(r))
        PROVE  Catalogued(i)' => Catalogued(i)
    <3>1. Target[r] # i
      BY <2>2, <2>4 DEF Active
    <3>2. QED
      BY <1>1, <2>4, <3>1 DEF WriteItem, LakeTypeOK, Catalogued
  <2>5. QED
    BY <1>2, <2>1, <2>3, <2>4, IngestEffects DEF lakeVars, Catalogued, Stored
<1>3. ASSUME UNCHANGED ingestVars PROVE Untouched(i)
  BY <1>3 DEF Untouched, ingestVars, taskVars
<1>4. ASSUME NEW S, DeleteObjects(S) PROVE \A k \in FilesOf(i) : Stored(k)' => Stored(k)
  BY <1>4 DEF DeleteObjects, Stored, FilesOf
<1>5. ASSUME NEW j, WriteItem(j, NoItem) PROVE Catalogued(i)' => Catalogued(i)
  BY <1>1, <1>5 DEF WriteItem, LakeTypeOK, Catalogued
<1>6. CASE RetentionNext /\ UNCHANGED <<ingestVars, removal, sweep, reused>>
  BY <1>3, <1>4, <1>5, <1>6, RetentionEffects DEF RetentionNext, lakeVars, Catalogued, Stored
<1>7. CASE ItemDeleteNext /\ UNCHANGED <<ingestVars, prune, sweep, reused>>
  BY <1>3, <1>4, <1>5, <1>7, RemovalEffects DEF ItemDeleteNext, lakeVars, Catalogued, Stored
<1>8. CASE GcNext /\ UNCHANGED <<ingestVars, prune, removal, reused>>
  BY <1>3, <1>4, <1>8, SweepEffects DEF GcNext, lakeVars, Catalogued, Stored
<1>9. ASSUME NEW j \in ByHand, PostByHand(j)
      PROVE  /\ UNCHANGED <<ingestVars, objects>>
             /\ Catalogued(i)' => Catalogued(i)
  BY <1>1, <1>9, HandMoves DEF PostByHand, WriteItem, LakeTypeOK, Catalogued
<1>10. ASSUME NEW j \in ByHand, NEW k \in Keys, PutByHand(j, k)
       PROVE  /\ UNCHANGED <<ingestVars, catalog>>
              /\ \A l \in FilesOf(i) : Stored(l)' => Stored(l)
  <2>1. k \notin FilesOf(i)
    BY <1>1, <1>10, FoldersApart, HandMoves DEF PutByHand
  <2>2. QED
    BY <1>1, <1>10, <2>1 DEF PutByHand, PutObject, Stored, LakeTypeOK, FilesOf
<1>11. ASSUME NEW k \in Keys, ObjectAges(k)
       PROVE  /\ UNCHANGED <<ingestVars, catalog>>
              /\ \A l \in FilesOf(i) : Stored(l)' => Stored(l)
  BY <1>1, <1>11 DEF ObjectAges, Stored, LakeTypeOK, FilesOf
<1>12. CASE UNCHANGED keepVars
  BY <1>3, <1>12 DEF keepVars, vars, lakeVars, Catalogued, Stored
<1>13. QED
  BY <1>2, <1>3, <1>6, <1>7, <1>8, <1>9, <1>10, <1>11, <1>12
     DEF HousekeepingNext, Catalogued, Stored

(* A run that stands still goes on having been thorough.                    *)
LEMMA ThoroughStutter ==
  ASSUME HouseInv, [HousekeepingNext]_keepVars, NEW s, PruneOk(s), Thorough(s)
  PROVE  Thorough(s)'
<1>1. \A i \in Due : Untouched(i)' =>
        /\ Untouched(i)
        /\ Catalogued(i)' => Catalogued(i)
        /\ Emptied(i) => Emptied(i)'
        /\ \A k \in FilesOf(i) : Stored(k)' => Stored(k)
  BY NothingComes, DueIsStocked DEF Emptied
<1>2. s.pc \in {"asset", "objects"} => s.item \in Due
  BY DEF PruneOk
<1>3. QED
  BY <1>1, <1>2 DEF Thorough

LEMMA ThoroughStep ==
  ASSUME StockNamesItsFiles, HouseInv, [HousekeepingNext]_keepVars,
         NEW p \in Prunes, RetentionStep(p) \/ RetentionFault(p),
         NEW o, o = prune[p], Thorough(o), NEW n, n = prune'[p]
  PROVE  Thorough(n)'
<1>1. /\ o \in PruneStates /\ PruneOk(o) /\ Thorough(o) /\ Thorough(o)'
      /\ prune \in [Prunes -> PruneStates]
  BY ThoroughStutter DEF HouseInv, HousekeepingTypeOK, RetentionTypeOK
<1>2. o.faults \in Nat
  BY <1>1 DEF PruneStates
<1>3. ASSUME n.deleted = o.deleted, n.pc \notin {"asset", "objects"}, n.faults = 0 => o.faults = 0
      PROVE  Thorough(n)'
  BY <1>1, <1>3 DEF Thorough
<1>4. CASE PruneDomain(p) \/ ListPage(p) \/ ListRefused(p) \/ FinishPage(p)
             \/ DeleteItemRefused(p) \/ PruneDies(p)
  <2> DEFINE Aside(s) == /\ s.deleted = o.deleted /\ s.pc \notin {"asset", "objects"}
                         /\ s.faults = o.faults \/ s.faults = o.faults + 1
  <2> SUFFICES Aside(n)
    BY <1>2, <1>3
  <2>1. ASSUME NEW s \in PruneStates, s.deleted = o.deleted,
               s.faults = o.faults \/ s.faults = o.faults + 1
        PROVE  Aside(LeaveDomain(s))
    BY <2>1 DEF LeaveDomain, PruneStates
  <2>2. CASE PruneDomain(p)
    <3>1. \/ n = [o EXCEPT !.pc = "done"]
          \/ n = [o EXCEPT !.pc = "list", !.page = 0]
          \/ o.pc = "nextDomain" /\ n = [o EXCEPT !.table = Tail(o.table)]
      BY <1>1, <2>2 DEF PruneDomain
    <3>2. QED
      BY <1>1, <3>1 DEF PruneStates
  <2>3. CASE ListPage(p)
    <3>1. \/ n = LeaveDomain(o)
          \/ n.deleted = o.deleted /\ n.pc = "feature" /\ n.faults = o.faults
      BY <1>1, <2>3 DEF ListPage, PruneStates
    <3>2. QED
      BY <1>1, <2>1, <3>1
  <2>4. CASE ListRefused(p)
    <3> DEFINE s == [o EXCEPT !.faults = o.faults + 1]
    <3>1. n = LeaveDomain(s)
      BY <1>1, <2>4 DEF ListRefused
    <3>2. s.deleted = o.deleted /\ s.faults = o.faults + 1
      BY <1>1 DEF PruneStates
    <3>3. s \in PruneStates
      <4>1. o.faults + 1 \in Nat
        BY <1>2
      <4>2. QED
        BY <1>1, <4>1 DEF PruneStates
    <3> HIDE DEF s
    <3>4. QED
      BY <2>1, <3>1, <3>2, <3>3
  <2>5. CASE FinishPage(p)
    <3>1. n = LeaveDomain(o) \/ n = [o EXCEPT !.pc = "list"]
      BY <1>1, <2>5 DEF FinishPage
    <3>2. QED
      BY <1>1, <2>1, <3>1 DEF PruneStates
  <2>6. CASE DeleteItemRefused(p) \/ PruneDies(p)
    BY <1>1, <2>6 DEF DeleteItemRefused, PruneDies, PruneStates
  <2>7. QED
    BY <1>4, <2>2, <2>3, <2>4, <2>5, <2>6
<1>5. CASE TakeFeature(p)
  <2>1. PICK i \in o.batch :
          prune' = [prune EXCEPT ![p].pc = "asset", ![p].batch = @ \ {i}, ![p].item = i,
                                 ![p].assets = o.read[i]]
    BY <1>5 DEF TakeFeature
  <2>2. /\ n.pc = "asset" /\ n.deleted = o.deleted /\ n.faults = o.faults
        /\ n.item = i /\ n.assets = Stock[i].hrefs
    BY <1>1, <2>1 DEF PruneStates, PruneOk
  <2>3. QED
    BY <1>1, <2>2 DEF Thorough
<1>6. CASE ListFolder(p)
  <2>1. PICK h \in o.assets :
          prune' = [prune EXCEPT ![p].pc = "objects", ![p].assets = @ \ {h},
                                 ![p].keys = StoredUnder(FolderOfName(h.name))]
    BY <1>6 DEF ListFolder
  <2>2. /\ n.pc = "objects" /\ n.deleted = o.deleted /\ n.faults = o.faults
        /\ n.item = o.item /\ n.keys = StoredUnder(FolderOfName(h.name))
    BY <1>1, <2>1 DEF PruneStates
  <2>3. FolderOfName(h.name) = PrefixOf[o.item]
    BY <1>1, <1>6, <2>1 DEF ListFolder, PruneOk, Due, StockNamesItsFiles, Own
  <2>4. \A k \in FilesOf(n.item) : Stored(k) => k \in n.keys
    BY <2>2, <2>3 DEF StoredUnder, FilesOf
  <2>5. UNCHANGED objects
    BY <1>6 DEF ListFolder, lakeVars
  <2>6. QED
    BY <1>1, <2>2, <2>4, <2>5 DEF Thorough, Stored
<1>7. CASE DeleteFolder(p)
  <2>1. /\ n.pc = "asset" /\ n.deleted = o.deleted /\ n.faults = o.faults /\ n.item = o.item
        /\ o.pc = "objects" /\ DeleteObjects(o.keys)
    BY <1>1, <1>7 DEF DeleteFolder, PruneStates
  <2>2. \A k \in FilesOf(o.item) : ~Stored(k)' \/ (Stored(k) /\ k \notin o.keys)
    BY <2>1 DEF DeleteObjects, Stored, FilesOf
  <2>3. Untouched(o.item)' => Untouched(o.item)
    BY <1>1, <2>1, NothingComes, DueIsStocked DEF PruneOk
  <2>4. QED
    BY <1>1, <2>1, <2>2, <2>3 DEF Thorough, Emptied
<1>8. CASE DeleteFolderFails(p)
  <2>1. n.deleted = o.deleted /\ n.faults = o.faults + 1
    BY <1>1, <1>8 DEF DeleteFolderFails, PruneStates
  <2>2. QED
    BY <1>1, <1>2, <2>1 DEF Thorough
<1>9. CASE DeleteItem(p)
  <2>1. /\ o.pc = "asset" /\ o.assets = {} /\ n.pc = "feature" /\ n.faults = o.faults
        /\ \/ n.deleted = o.deleted
           \/ /\ n.deleted = o.deleted \cup {o.item}
              /\ WriteItem(o.item, NoItem) /\ UNCHANGED objects
    BY <1>1, <1>9 DEF DeleteItem, PruneStates
  <2>2. o.item \in Due /\ o.item \in Items /\ Stock[o.item].hrefs # {}
    BY <1>1, <2>1, DueIsStocked DEF PruneOk, Due, StockNamesItsFiles
  <2>3. CASE n.deleted = o.deleted
    BY <1>3, <2>1, <2>3
  <2>4. CASE n.deleted = o.deleted \cup {o.item} /\ WriteItem(o.item, NoItem) /\ UNCHANGED objects
    <3>1. ~Catalogued(o.item)'
      BY <2>2, <2>4 DEF WriteItem, Catalogued, HouseInv, HousekeepingTypeOK, IngestTypeOK, LakeTypeOK
    <3>2. n.faults = 0 /\ Untouched(o.item)' => Emptied(o.item)'
      BY <2>1, <2>2, <2>4, <1>1, NothingComes DEF Thorough, Emptied, Stored
    <3>3. QED
      BY <1>1, <2>1, <2>2, <2>4, <3>1, <3>2 DEF Thorough
  <2>5. QED
    BY <2>1, <2>3, <2>4
<1>10. QED
  BY <1>4, <1>5, <1>6, <1>7, <1>8, <1>9 DEF RetentionStep, RetentionFault

(* Only a step of the run itself moves it.                                  *)
LEMMA OtherPrunes ==
  ASSUME HouseInv, [HousekeepingNext]_keepVars, NEW p \in Prunes
  PROVE  prune'[p] = prune[p] \/ RetentionStep(p) \/ RetentionFault(p)
<1>1. CASE RetentionNext
  <2>1. PICK q \in Prunes : RetentionStep(q) \/ RetentionFault(q)
    BY <1>1 DEF RetentionNext
  <2>2. PICK s \in PruneStates : prune' = [prune EXCEPT ![q] = s]
    BY <2>1, RetentionMoves
  <2>3. QED
    BY <2>1, <2>2 DEF HouseInv, HousekeepingTypeOK, RetentionTypeOK
<1>2. UNCHANGED prune \/ RetentionNext
  BY DEF HousekeepingNext, keepers, keepVars, PostByHand, PutByHand, ObjectAges
<1>3. QED
  BY <1>1, <1>2

(* What a run of retention counts as deleted, if none of its calls on the   *)
(* store failed and no task has worked on the dataset, is gone for good,    *)
(* its files with it, whatever else deletes, sweeps or prunes.              *)
THEOREM PrunedAlwaysLeavesNothing ==
  StockNamesItsFiles => (HousekeepingSpec => []PrunedLeavesNothing)
<1> SUFFICES ASSUME StockNamesItsFiles PROVE HousekeepingSpec => []PrunedLeavesNothing
  OBVIOUS
<1> DEFINE AllThorough == \A p \in Prunes : Thorough(prune[p])
<1>1. HousekeepingInit => AllThorough
  BY DEF HousekeepingInit, RetentionInit, Thorough
<1>2. HouseInv /\ AllThorough /\ [HousekeepingNext]_keepVars => AllThorough'
  <2> SUFFICES ASSUME HouseInv, AllThorough, [HousekeepingNext]_keepVars, NEW p \in Prunes
               PROVE  Thorough(prune[p])'
    OBVIOUS
  <2>1. PICK o, n : o = prune[p] /\ n = prune'[p]
    OBVIOUS
  <2>2. PruneOk(o) /\ Thorough(o)
    BY <2>1 DEF HouseInv
  <2>3. Thorough(n)'
    BY <2>1, <2>2, ThoroughStutter, ThoroughStep, OtherPrunes
  <2>4. QED
    BY <2>1, <2>3 DEF Thorough, Untouched, Emptied, FilesOf, Stored, Catalogued
<1>3. AllThorough => PrunedLeavesNothing
  BY DEF Thorough, Untouched, Emptied, FilesOf, PrunedLeavesNothing
<1>4. QED
  BY <1>1, <1>2, <1>3, HouseAlways, PTL DEF HousekeepingSpec

-----------------------------------------------------------------------------
(* Items without files.                                                     *)

(* One run of retention is at work, and nothing else deletes.               *)
OneDeleter == (\A p, q \in Prunes : p = q) /\ Removals = {} /\ Sweeps = {}

TreesFillFolders == \A r \in Runs : Tree[r] = FilesOf(Target[r])

(* The items that a run has still to delete.                                *)
Play(s) ==
    IF s.pc = "feature" THEN s.batch
    ELSE IF s.pc \in {"asset", "objects"} THEN s.batch \cup {s.item}
    ELSE {}

AtHand(s) ==
    /\ s.pc \in {"nextDomain", "list", "feature", "done"} => s.item = NoItem
    /\ s.pc \in {"asset", "objects"} => s.item \notin s.batch

Late == {"transform", "upload", "probeCollection", "createCollection", "postItem", "putItem"}

(* A task whose probe was answered works on a dataset that was not there:   *)
(* retention neither has it in hand nor will it list it, and so what the    *)
(* task has uploaded stays.                                                 *)
Undisturbed(r) ==
    faults[r] = 0 /\ pc[r] \in Late =>
        /\ \A p \in Prunes : Target[r] \notin Play(prune[p])
        /\ Catalogued(Target[r]) => ~catalog[Target[r]].old
        /\ UploadKept(r)

DanglingInv ==
    /\ \A p \in Prunes : /\ AtHand(prune[p])
                         /\ \A i \in Play(prune[p]) : Catalogued(i)
    /\ \A r \in Runs : Undisturbed(r)
    /\ DanglingIsExplained

LEMMA PlayIsDue ==
  ASSUME HouseInv, NEW p \in Prunes
  PROVE  Play(prune[p]) \subseteq Due
BY DEF HouseInv, PruneOk, Play

(* How a step of a run changes what it has in hand.                         *)
LEMMA PlayMoves ==
  ASSUME HouseInv, NEW p \in Prunes, RetentionStep(p) \/ RetentionFault(p),
         NEW o, o = prune[p], AtHand(o), NEW n, n = prune'[p]
  PROVE  /\ AtHand(n)
         /\ o.refused \subseteq n.refused
         /\ \/ /\ UNCHANGED catalog
               /\ o.item \in Items => n.item = o.item \/ o.item \in n.refused
               /\ \A i \in Play(n) : i \in Play(o) \/ (Catalogued(i) /\ catalog[i].old)
            \/ /\ UNCHANGED catalog
               /\ o.item \in Items => ~Catalogued(o.item)
               /\ Play(n) \subseteq Play(o)
            \/ /\ WriteItem(o.item, NoItem)
               /\ o.item \in Due
               /\ Play(n) \subseteq Play(o) \ {o.item}
<1>1. /\ o \in PruneStates /\ PruneOk(o) /\ prune \in [Prunes -> PruneStates]
      /\ NoItem \notin Items
  BY LakeAssumption DEF HouseInv, HousekeepingTypeOK, RetentionTypeOK
<1>2. CASE PruneDomain(p)
  <2>1. /\ UNCHANGED catalog /\ n.item = o.item /\ n.refused = o.refused
        /\ o.pc = "nextDomain" /\ n.pc \in {"nextDomain", "list", "done"}
    <3>1. \/ n = [o EXCEPT !.pc = "done"]
          \/ n = [o EXCEPT !.pc = "list", !.page = 0]
          \/ n = [o EXCEPT !.table = Tail(o.table)]
      BY <1>1, <1>2 DEF PruneDomain
    <3>2. UNCHANGED catalog /\ o.pc = "nextDomain"
      BY <1>2 DEF PruneDomain, lakeVars
    <3>3. QED
      BY <1>1, <3>1, <3>2 DEF PruneStates
  <2>2. QED
    BY <1>1, <2>1 DEF AtHand, Play
<1>3. ASSUME n.pc = "nextDomain", n.item = o.item, n.refused = o.refused, o.pc \in {"list", "feature"},
             UNCHANGED catalog
      PROVE  AtHand(n) /\ o.refused \subseteq n.refused /\ Play(n) = {} /\ o.item \notin Items
  BY <1>1, <1>3 DEF AtHand, Play
<1>4. CASE ListPage(p)
  <2>1. PICK T \in Pages(Expired(Head(o.table))) :
          prune' = [prune EXCEPT ![p] =
              IF T = {} THEN LeaveDomain(prune[p])
              ELSE [prune[p] EXCEPT !.pc = "feature", !.page = prune[p].page + 1, !.batch = T,
                            !.short = Cardinality(T) < PageSize,
                            !.read = [i \in Items |-> IF i \in T THEN catalog[i].hrefs ELSE {}]]]
    BY <1>4 DEF ListPage
  <2>2. \A i \in T : Catalogued(i) /\ catalog[i].old
    BY <2>1 DEF Pages, Expired
  <2>3. UNCHANGED catalog /\ o.pc = "list"
    BY <1>4 DEF ListPage, lakeVars
  <2>4. CASE T = {}
    <3>1. n.pc = "nextDomain" /\ n.item = o.item /\ n.refused = o.refused
      BY <1>1, <2>1, <2>4 DEF LeaveDomain, PruneStates
    <3>2. QED
      BY <1>3, <2>3, <3>1
  <2>5. CASE T # {}
    <3>1. n.pc = "feature" /\ n.item = o.item /\ n.refused = o.refused /\ n.batch = T
      BY <1>1, <2>1, <2>5 DEF PruneStates
    <3>2. QED
      BY <1>1, <2>2, <2>3, <3>1 DEF AtHand, Play
  <2>6. QED
    BY <2>4, <2>5
<1>5. CASE ListRefused(p)
  <2>1. /\ n.pc = "nextDomain" /\ n.item = o.item /\ n.refused = o.refused
        /\ UNCHANGED catalog /\ o.pc = "list"
    BY <1>1, <1>5 DEF ListRefused, LeaveDomain, PruneStates, lakeVars
  <2>2. QED
    BY <1>3, <2>1
<1>6. CASE TakeFeature(p)
  <2>1. PICK i \in o.batch :
          prune' = [prune EXCEPT ![p].pc = "asset", ![p].batch = @ \ {i}, ![p].item = i,
                                 ![p].assets = o.read[i]]
    BY <1>6 DEF TakeFeature
  <2>2. /\ n.pc = "asset" /\ n.batch = o.batch \ {i} /\ n.item = i /\ n.refused = o.refused
        /\ o.pc = "feature" /\ UNCHANGED catalog
    BY <1>1, <1>6, <2>1 DEF PruneStates, TakeFeature, lakeVars
  <2>3. QED
    BY <1>1, <2>1, <2>2 DEF AtHand, Play
<1>7. CASE FinishPage(p)
  <2>1. n = LeaveDomain(o) \/ n = [o EXCEPT !.pc = "list"]
    BY <1>1, <1>7 DEF FinishPage
  <2>2. o.pc = "feature" /\ UNCHANGED catalog
    BY <1>7 DEF FinishPage, lakeVars
  <2>3. n.pc \in {"nextDomain", "list"} /\ n.item = o.item /\ n.refused = o.refused
    BY <1>1, <2>1 DEF LeaveDomain, PruneStates
  <2>4. QED
    BY <1>1, <2>2, <2>3 DEF AtHand, Play
<1>8. CASE ListFolder(p) \/ DeleteFolder(p) \/ DeleteFolderFails(p)
  <2>1. /\ o.pc \in {"asset", "objects"} /\ n.pc \in {"asset", "objects"}
        /\ n.item = o.item /\ n.refused = o.refused /\ n.batch = o.batch /\ UNCHANGED catalog
    <3>1. CASE ListFolder(p)
      BY <1>1, <3>1 DEF ListFolder, PruneStates, lakeVars
    <3>2. CASE DeleteFolder(p)
      BY <1>1, <3>2 DEF DeleteFolder, PruneStates
    <3>3. CASE DeleteFolderFails(p)
      <4>1. prune' = [prune EXCEPT ![p].pc = "asset", ![p].keys = {}, ![p].faults = @ + 1]
        BY <3>3 DEF DeleteFolderFails
      <4>2. n.pc = "asset" /\ n.item = o.item /\ n.refused = o.refused /\ n.batch = o.batch
        BY <1>1, <4>1 DEF PruneStates
      <4>3. QED
        BY <1>1, <3>3, <4>2 DEF DeleteFolderFails
    <3>4. QED
      BY <1>8, <3>1, <3>2, <3>3
  <2>2. QED
    BY <1>1, <2>1 DEF AtHand, Play
<1>9. CASE DeleteItem(p)
  <2>1. /\ o.pc = "asset" /\ n.pc = "feature" /\ n.item = NoItem /\ n.batch = o.batch
        /\ n.refused = o.refused
        /\ WriteItem(o.item, NoItem) \/ (~Catalogued(o.item) /\ UNCHANGED catalog)
    BY <1>1, <1>9 DEF DeleteItem, PruneStates
  <2>2. QED
    BY <1>1, <2>1 DEF AtHand, Play, PruneOk
<1>10. CASE DeleteItemRefused(p)
  <2>1. /\ o.pc = "asset" /\ n.pc = "feature" /\ n.item = NoItem /\ n.batch = o.batch
        /\ n.refused = o.refused \cup {o.item} /\ UNCHANGED catalog
    BY <1>1, <1>10 DEF DeleteItemRefused, PruneStates, lakeVars
  <2>2. QED
    BY <1>1, <2>1 DEF AtHand, Play
<1>11. CASE PruneDies(p)
  <2>1. n.pc = "failed" /\ n.item = o.item /\ n.refused = o.refused /\ UNCHANGED catalog
    BY <1>1, <1>11 DEF PruneDies, PruneStates, lakeVars
  <2>2. QED
    BY <1>1, <2>1 DEF AtHand, Play
<1>12. QED
  BY <1>2, <1>4, <1>5, <1>6, <1>7, <1>8, <1>9, <1>10, <1>11 DEF RetentionStep, RetentionFault

(* What a step other than ingest's does to what the tasks depend on.        *)
LEMMA UndisturbedByOthers ==
  ASSUME HouseInv, NEW r \in Runs, Undisturbed(r), UNCHANGED ingestVars,
         \A p \in Prunes : Target[r] \in Play(prune'[p]) => Target[r] \in Play(prune[p])
                              \/ (Catalogued(Target[r]) /\ catalog[Target[r]].old),
         Catalogued(Target[r])' => \/ catalog'[Target[r]] = catalog[Target[r]]
                                   \/ ~catalog'[Target[r]].old,
         \A k \in FilesOf(Target[r]) : faults[r] = 0 /\ pc[r] \in Late /\ Stored(k) => Stored(k)'
  PROVE  Undisturbed(r)'
<1> SUFFICES ASSUME faults[r] = 0, pc[r] \in Late
             PROVE  /\ \A p \in Prunes : Target[r] \notin Play(prune'[p])
                    /\ Catalogued(Target[r])' => ~catalog'[Target[r]].old
                    /\ UploadKept(r)'
  BY DEF Undisturbed, ingestVars, taskVars
<1>1. /\ \A p \in Prunes : Target[r] \notin Play(prune[p])
      /\ Catalogued(Target[r]) => ~catalog[Target[r]].old
      /\ UploadKept(r)
  BY DEF Undisturbed
<1>2. Tree[r] \subseteq FilesOf(Target[r])
  BY IngestAssumption DEF FilesOf
<1>3. UploadKept(r)'
  BY <1>1, <1>2 DEF UploadKept, Whole, ingestVars, taskVars
<1>4. QED
  BY <1>1, <1>3 DEF Catalogued

LEMMA DanglingRetention ==
  ASSUME StockNamesItsFiles, OneDeleter, HouseInv, OwnInv, DanglingInv,
         [HousekeepingNext]_keepVars, NEW p \in Prunes, RetentionStep(p) \/ RetentionFault(p),
         UNCHANGED <<ingestVars, removal, sweep, reused>>
  PROVE  DanglingInv'
<1>1. PICK o, n : o = prune[p] /\ n = prune'[p]
  OBVIOUS
<1>2. /\ Prunes = {p} /\ Removals = {} /\ Sweeps = {} /\ LakeTypeOK /\ AtHand(o)
      /\ \A i \in Play(o) : Catalogued(i)
      /\ Play(o) \subseteq Due
      /\ NoItem \notin Items
  BY <1>1, PlayIsDue, LakeAssumption
     DEF OneDeleter, DanglingInv, HouseInv, HousekeepingTypeOK, IngestTypeOK
<1>3. /\ AtHand(n)
      /\ o.refused \subseteq n.refused
      /\ \/ /\ UNCHANGED catalog
            /\ o.item \in Items => n.item = o.item \/ o.item \in n.refused
            /\ \A i \in Play(n) : i \in Play(o) \/ (Catalogued(i) /\ catalog[i].old)
         \/ /\ UNCHANGED catalog
            /\ o.item \in Items => ~Catalogued(o.item)
            /\ Play(n) \subseteq Play(o)
         \/ /\ WriteItem(o.item, NoItem)
            /\ o.item \in Due
            /\ Play(n) \subseteq Play(o) \ {o.item}
  BY <1>1, <1>2, PlayMoves
<1>4. \A i \in Items : /\ Catalogued(i)' => catalog'[i] = catalog[i]
                       /\ i \in Play(n) => Catalogued(i)'
  BY <1>2, <1>3 DEF WriteItem, LakeTypeOK, Catalogued
<1>5. ASSUME NEW k \in Keys, Stored(k), ~Stored(k)'
      PROVE  /\ o.pc = "objects" /\ o.item \in Play(o) /\ o.item \in Items
             /\ k \in FilesOf(o.item)
             /\ n.item = o.item
  <2>1. o.pc = "objects" /\ o.item \in Due /\ k \in FilesOf(o.item) /\ UNCHANGED catalog
    BY <1>1, <1>2, <1>5, FilesLost
  <2>2. DeleteFolder(p) \/ DeleteFolderFails(p) \/ PruneDies(p)
    BY <1>1, <2>1 DEF RetentionStep, RetentionFault, PruneDomain, ListPage, ListRefused, TakeFeature,
                      FinishPage, ListFolder, DeleteItem, DeleteItemRefused
  <2>3. o \in PruneStates /\ prune \in [Prunes -> PruneStates]
    BY <1>1 DEF HouseInv, HousekeepingTypeOK, RetentionTypeOK
  <2>4. n.item = o.item
    BY <1>1, <2>2, <2>3 DEF DeleteFolder, DeleteFolderFails, PruneDies, PruneStates
  <2>5. QED
    BY <2>1, <2>4, DueIsStocked DEF Play
<1>6. ASSUME NEW r \in Runs PROVE Undisturbed(r)'
  <2>1. Undisturbed(r) /\ Target[r] \in Items
    BY IngestAssumption DEF DanglingInv
  <2>2. ASSUME NEW k \in FilesOf(Target[r]), faults[r] = 0, pc[r] \in Late, Stored(k)
        PROVE  Stored(k)'
    <3>1. Target[r] \notin Play(o)
      BY <1>1, <2>1, <2>2 DEF Undisturbed
    <3>2. k \in Keys
      BY DEF FilesOf
    <3>3. QED
      BY <1>5, <2>1, <2>2, <3>1, <3>2, FoldersApart
  <2>3. \A q \in Prunes : Target[r] \in Play(prune'[q]) => Target[r] \in Play(prune[q])
                              \/ (Catalogued(Target[r]) /\ catalog[Target[r]].old)
    BY <1>1, <1>2, <1>3
  <2>4. QED
    BY <1>4, <2>1, <2>2, <2>3, UndisturbedByOthers
<1>7. DanglingIsExplained'
  <2> SUFFICES ASSUME NEW i \in Items, Catalogued(i)', ~Intact(i)',
                      \A r \in Runs : Target[r] = i => ~(faults'[r] > 0)
               PROVE  n.item = i \/ i \in n.refused
    BY <1>1, <1>2 DEF DanglingIsExplained
  <2>1. Catalogued(i) /\ \A r \in Runs : Target[r] = i => ~(faults[r] > 0)
    BY <1>4 DEF Catalogued, ingestVars, taskVars
  <2>2. CASE Intact(i)
    <3>1. PICK k \in FilesOf(i) : k \in Keys /\ Stored(k) /\ ~Stored(k)'
      BY <2>2 DEF Intact, FilesOf
    <3>2. QED
      BY <1>5, <3>1, FoldersApart
  <2>3. CASE ~Intact(i)
    <3>1. o.item = i \/ i \in o.refused
      BY <1>1, <1>2, <2>1, <2>3 DEF DanglingInv, DanglingIsExplained
    <3>2. WriteItem(o.item, NoItem) /\ o.item = i => ~Catalogued(i)'
      BY <1>2 DEF WriteItem, LakeTypeOK, Catalogued
    <3>3. QED
      BY <1>3, <2>1, <3>1, <3>2
  <2>4. QED
    BY <2>2, <2>3
<1>8. \A i \in Play(n) : i \in Items /\ Catalogued(i)'
  <2>1. PruneOk(n)
    BY <1>1, HouseStep DEF HouseInv
  <2>2. QED
    BY <1>4, <2>1, DueIsStocked DEF PruneOk, Play
<1>9. \A q \in Prunes : AtHand(prune'[q]) /\ \A i \in Play(prune'[q]) : Catalogued(i)'
  BY <1>1, <1>2, <1>3, <1>8
<1>10. QED
  BY <1>6, <1>7, <1>9 DEF DanglingInv

LEMMA FaultsStay ==
  ASSUME HouseInv, IngestNext
  PROVE  \A r \in Runs : faults[r] \in Nat /\ faults'[r] \in Nat /\ faults'[r] >= faults[r]
<1> USE DEF HouseInv, HousekeepingTypeOK, IngestTypeOK, TaskTypeOK
<1>1. ASSUME NEW r \in Runs, TaskStep(r)
      PROVE  faults' = faults
  BY <1>1 DEF TaskStep, StartAttempt, Validate, ProbeItem, Transform, UploadFile, UploadDone,
              ProbeCollection, CreateCollection, PostItem, PutItem, Advance, Return, LoseRace
<1>2. ASSUME NEW r \in Runs, TaskFault(r)
      PROVE  faults' = faults \/ faults' = [faults EXCEPT ![r] = @ + 1]
  BY <1>2 DEF TaskFault, UseCachedResult, ProbeItemFails, CallFails, AnswerLost, Fault
<1>3. ASSUME NEW f \in Flows, FlowStep(f) \/ FlowFault(f) PROVE faults' = faults
  BY <1>3 DEF FlowStep, FlowFault, StartFlow, FetchFails, CompleteFlow, FailFlow, CrashFlow,
              taskVars
<1>4. QED
  BY <1>1, <1>2, <1>3 DEF IngestNext

(* Without a failed call, a task gets past its probe only by an answer, and *)
(* the answer was that the item is not there.                               *)
LEMMA ProbedInTime ==
  ASSUME HouseInv, IngestNext, NEW r \in Runs, faults'[r] = 0, pc'[r] \in Late
  PROVE  pc[r] \in Late \/ (pc[r] = "probeItem" /\ ~Catalogued(Target[r]) /\ pc'[r] = "transform")
<1> USE DEF HouseInv, HousekeepingTypeOK, IngestTypeOK, TaskTypeOK
<1>1. TypeInv /\ faults[r] \in Nat
  BY DEF TypeInv
<1>2. ASSUME NEW s \in Runs, TaskStep(s) \/ TaskFault(s), s # r PROVE pc[r] \in Late
  BY <1>1, <1>2, TaskFrame
<1>3. CASE TaskStep(r)
  <2>1. CASE StartAttempt(r) \/ Validate(r)
    BY <2>1 DEF StartAttempt, Validate, Advance, Return, Goto, Late
  <2>2. CASE ProbeItem(r)
    BY <2>2 DEF ProbeItem, Advance, Return, Goto, Late
  <2>3. CASE ~StartAttempt(r) /\ ~Validate(r) /\ ~ProbeItem(r)
    BY <1>3, <2>3 DEF TaskStep, Transform, UploadFile, UploadDone, ProbeCollection,
                      CreateCollection, PostItem, PutItem, Late
  <2>4. QED
    BY <2>1, <2>2, <2>3
<1>4. CASE TaskFault(r)
  <2>1. CASE UseCachedResult(r)
    BY <2>1 DEF UseCachedResult, Goto, Late
  <2>2. CASE ProbeItemFails(r)
    BY <1>1, <2>2 DEF ProbeItemFails
  <2>3. CASE CallFails(r) \/ AnswerLost(r)
    BY <2>3 DEF CallFails, AnswerLost, Late
  <2>4. QED
    BY <1>4, <2>1, <2>2, <2>3 DEF TaskFault
<1>5. ASSUME NEW f \in Flows, FlowStep(f) \/ FlowFault(f) PROVE pc[r] \in Late
  BY <1>5 DEF FlowStep, FlowFault, StartFlow, FetchFails, CompleteFlow, FailFlow, CrashFlow,
              taskVars, Late
<1>6. QED
  BY <1>2, <1>3, <1>4, <1>5 DEF IngestNext

LEMMA DanglingIngest ==
  ASSUME TreesFillFolders, HouseInv, DanglingInv, IngestNext, UNCHANGED keepers
  PROVE  DanglingInv'
<1>1. /\ TypeInv /\ LakeTypeOK /\ [Next]_vars /\ prune' = prune
      /\ \A r \in Runs : Target[r] \in Items
  BY IngestAssumption DEF HouseInv, HousekeepingTypeOK, IngestTypeOK, TypeInv, keepers, Next
<1>2. /\ \A k \in Keys : Stored(k) => Stored(k)'
      /\ \A i \in Items : Catalogued(i) => Catalogued(i)'
  BY <1>1, Monotone
<1>3. \A i \in Items : catalog'[i] = catalog[i] \/ ~catalog'[i].old
  <2>1. \A r \in Runs : ~BuildItem(r).old
    BY DEF BuildItem
  <2>2. QED
    BY <1>1, <2>1, CatalogSteps DEF WriteItem, LakeTypeOK
<1>4. \A p \in Prunes : AtHand(prune'[p]) /\ \A i \in Play(prune'[p]) : Catalogued(i)'
  BY <1>1, <1>2, PlayIsDue, DueIsStocked DEF DanglingInv
<1>5. ASSUME NEW r \in Runs, faults'[r] = 0, pc'[r] \in Late
      PROVE  /\ \A p \in Prunes : Target[r] \notin Play(prune'[p])
             /\ Catalogued(Target[r])' => ~catalog'[Target[r]].old
             /\ UploadKept(r)'
  <2>1. faults[r] = 0
    BY <1>5, FaultsStay
  <2>2. CASE pc[r] \in Late
    <3>1. /\ \A p \in Prunes : Target[r] \notin Play(prune[p])
          /\ Catalogued(Target[r]) => ~catalog[Target[r]].old
          /\ UploadKept(r)
      BY <2>1, <2>2 DEF DanglingInv, Undisturbed
    <3>2. QED
      BY <1>1, <1>3, <3>1, UploadStep DEF Catalogued
  <2>3. CASE pc[r] = "probeItem" /\ ~Catalogued(Target[r]) /\ pc'[r] = "transform"
    <3>1. \A p \in Prunes : Target[r] \notin Play(prune[p])
      BY <2>3 DEF DanglingInv
    <3>2. UploadKept(r)'
      BY <2>3 DEF UploadKept
    <3>3. Catalogued(Target[r])' => ~catalog'[Target[r]].old
      BY <1>1, <1>3, <2>3 DEF Catalogued
    <3>4. QED
      BY <1>1, <3>1, <3>2, <3>3
  <2>4. QED
    BY <1>5, <2>2, <2>3, ProbedInTime
<1>6. DanglingIsExplained'
  <2> SUFFICES ASSUME NEW i \in Items, Catalogued(i)', ~Intact(i)',
                      \A r \in Runs : Target[r] = i => ~(faults'[r] > 0)
               PROVE  \/ \E p \in Prunes : prune'[p].item = i \/ i \in prune'[p].refused
                      \/ \E c \in Removals : Victim[c] = i
                            /\ removal'[c].pc \in {"assets", "stac", "aborted"}
    BY DEF DanglingIsExplained
  <2>1. ~Intact(i) /\ \A r \in Runs : Target[r] = i => faults[r] = 0
    BY <1>2, FaultsStay DEF Intact
  <2>2. CASE Catalogued(i)
    BY <2>1, <2>2 DEF DanglingInv, DanglingIsExplained, keepers
  <2>3. CASE ~Catalogued(i)
    <3>1. PICK r \in Runs : pc[r] \in {"postItem", "putItem"} /\ WriteItem(Target[r], BuildItem(r))
      BY <1>1, <2>3, CatalogSteps DEF Catalogued
    <3>2. Target[r] = i
      BY <1>1, <2>3, <3>1 DEF WriteItem, LakeTypeOK, Catalogued
    <3>3. UploadKept(r)
      BY <2>1, <3>1, <3>2 DEF DanglingInv, Undisturbed, Late
    <3>4. Whole(r)
      BY <3>1, <3>3 DEF UploadKept
    <3>5. QED
      BY <2>1, <3>2, <3>4 DEF Whole, Intact, FilesOf, TreesFillFolders
  <2>4. QED
    BY <2>2, <2>3
<1>7. QED
  BY <1>4, <1>5, <1>6 DEF DanglingInv, Undisturbed

(* A step that deletes nothing and moves neither a task nor a run.          *)
LEMMA DanglingOthers ==
  ASSUME HouseInv, DanglingInv, UNCHANGED <<ingestVars, prune, removal>>,
         \A k \in Keys : Stored(k) => Stored(k)',
         \A i \in Items : \/ catalog'[i] = catalog[i]
                          \/ Catalogued(i)' /\ ~catalog'[i].old /\ Intact(i)'
  PROVE  DanglingInv'
<1>1. \A r \in Runs : Target[r] \in Items
  BY IngestAssumption
<1>2. \A p \in Prunes : AtHand(prune'[p]) /\ \A i \in Play(prune'[p]) : Catalogued(i)'
  BY PlayIsDue, DueIsStocked DEF DanglingInv, Catalogued
<1>3. ASSUME NEW r \in Runs PROVE Undisturbed(r)'
  <2>1. Undisturbed(r)
    BY DEF DanglingInv
  <2>2. \A k \in FilesOf(Target[r]) : Stored(k) => Stored(k)'
    BY DEF FilesOf
  <2>3. QED
    BY <1>1, <2>1, <2>2, UndisturbedByOthers
<1>4. DanglingIsExplained'
  <2> SUFFICES ASSUME NEW i \in Items, Catalogued(i)', ~Intact(i)'
               PROVE  \/ \E p \in Prunes : prune[p].item = i \/ i \in prune[p].refused
                      \/ \E c \in Removals : Victim[c] = i
                            /\ removal[c].pc \in {"assets", "stac", "aborted"}
                      \/ \E r \in Runs : Target[r] = i /\ faults[r] > 0
    BY DEF DanglingIsExplained, ingestVars, taskVars
  <2>1. Catalogued(i) /\ ~Intact(i)
    BY DEF Catalogued, Intact
  <2>2. QED
    BY <2>1 DEF DanglingInv, DanglingIsExplained
<1>5. QED
  BY <1>2, <1>3, <1>4 DEF DanglingInv

LEMMA DanglingStep ==
  ASSUME StockNamesItsFiles, OneDeleter, TreesFillFolders, HouseInv, OwnInv, DanglingInv,
         [HousekeepingNext]_keepVars
  PROVE  DanglingInv'
<1>1. LakeTypeOK /\ Removals = {} /\ Sweeps = {}
  BY DEF HouseInv, HousekeepingTypeOK, IngestTypeOK, OneDeleter
<1>2. CASE IngestNext /\ UNCHANGED keepers
  BY <1>2, DanglingIngest
<1>3. CASE RetentionNext /\ UNCHANGED <<ingestVars, removal, sweep, reused>>
  BY <1>3, DanglingRetention DEF RetentionNext
<1>4. ~ItemDeleteNext /\ ~GcNext
  BY <1>1 DEF ItemDeleteNext, GcNext
<1>5. ASSUME NEW i \in ByHand, PostByHand(i) PROVE DanglingInv'
  <2>1. UNCHANGED <<ingestVars, prune, removal, objects>>
    BY <1>5 DEF PostByHand
  <2>2. PICK c \in Classes : WriteItem(i, PostedByHand(i, c))
    BY <1>5, HandMoves
  <2>3. \A k \in FilesOf(i) : Stored(k)
    BY <1>5 DEF PostByHand
  <2>4. Intact(i)'
    BY <2>1, <2>3 DEF Intact, Stored, FilesOf
  <2>5. ~PostedByHand(i, c).old /\ PostedByHand(i, c) # NoItem
    BY PostedByHandType, LakeAssumption DEF PostedByHand
  <2>6. \A j \in Items : \/ catalog'[j] = catalog[j]
                         \/ Catalogued(j)' /\ ~catalog'[j].old /\ Intact(j)'
    BY <1>1, <2>2, <2>4, <2>5 DEF WriteItem, LakeTypeOK, Catalogued
  <2>7. QED
    BY <2>1, <2>6, DanglingOthers DEF Stored
<1>6. ASSUME NEW i \in ByHand, NEW k \in Keys, PutByHand(i, k) PROVE DanglingInv'
  <2>1. \A j \in Keys : Stored(j) => Stored(j)'
    BY <1>1, <1>6 DEF PutByHand, PutObject, Stored, LakeTypeOK
  <2>2. QED
    BY <1>6, <2>1, DanglingOthers DEF PutByHand
<1>7. ASSUME NEW k \in Keys, ObjectAges(k) PROVE DanglingInv'
  <2>1. \A j \in Keys : Stored(j) => Stored(j)'
    BY <1>1, <1>7 DEF ObjectAges, Stored, LakeTypeOK
  <2>2. QED
    BY <1>7, <2>1, DanglingOthers DEF ObjectAges, keepers
<1>8. CASE UNCHANGED keepVars
  BY <1>8, DanglingOthers DEF keepVars, vars, lakeVars, keepers, Stored
<1>9. QED
  BY <1>2, <1>3, <1>4, <1>5, <1>6, <1>7, <1>8 DEF HousekeepingNext

LEMMA DanglingInit ==
  ASSUME HousekeepingInit
  PROVE  DanglingInv
<1>1. \A p \in Prunes : AtHand(prune[p]) /\ Play(prune[p]) = {}
  BY DEF HousekeepingInit, RetentionInit, AtHand, Play
<1>2. \A r \in Runs : Undisturbed(r)
  BY DEF HousekeepingInit, IngestInit, Undisturbed, Late
<1>3. DanglingIsExplained
  BY StockAssumption
     DEF HousekeepingInit, DanglingIsExplained, Catalogued, Intact, Stored, Stocked, FilesOf
<1>4. QED
  BY <1>1, <1>2, <1>3 DEF DanglingInv

(* Where one run of retention is all that deletes, an item in the catalogue *)
(* lacks files only between retention's deletes, after a refused DELETE or  *)
(* the death of the run, or because a call of a task for it failed.         *)
THEOREM DanglingAlwaysExplained ==
  StockNamesItsFiles /\ OneDeleter /\ TreesFillFolders
    => (HousekeepingSpec => []DanglingIsExplained)
<1> SUFFICES ASSUME StockNamesItsFiles, OneDeleter, TreesFillFolders
             PROVE  HousekeepingSpec => []DanglingIsExplained
  OBVIOUS
<1>1. HousekeepingInit => DanglingInv
  BY DanglingInit
<1>2. HouseInv /\ OwnInv /\ DanglingInv /\ [HousekeepingNext]_keepVars => DanglingInv'
  BY DanglingStep
<1>3. DanglingInv => DanglingIsExplained
  BY DEF DanglingInv
<1>4. QED
  BY <1>1, <1>2, <1>3, OwnAlways, PTL DEF HousekeepingSpec

-----------------------------------------------------------------------------
(* Pages.  What a run of retention has to remove of a domain, and what of   *)
(* it is gone or young again.                                               *)

DueOf(d) == {i \in Stocked : DomainOf[i] = d /\ Stock[i].old}

Cleared(d) == DueOf(d) \ Expired(d)

(* A run that reads all the pages it may reads all of the domain.           *)
Coverable(d) == d \in Expiring /\ Cardinality(DueOf(d)) <= PageSize * MaxPages

(* Where a run without failures stands: a domain of its table is still to   *)
(* be walked or has been cleared; and with each page of the domain in hand  *)
(* there are PageSize items more that are cleared, or are about to be.      *)
Counting(p, s) ==
    /\ s.pc \in {"feature", "asset", "objects"} => Play(s) \subseteq DueOf(Head(s.table))
    /\ s.faults = 0 /\ s.refused = {} =>
         /\ \A m \in DOMAIN Table[p] :
              \/ \E n \in DOMAIN s.table : s.table[n] = Table[p][m]
              \/ Coverable(Table[p][m]) => Expired(Table[p][m]) = {}
         /\ s.pc = "done" => s.table = <<>>
         /\ s.pc = "list" => Cardinality(Cleared(Head(s.table))) >= PageSize * s.page
         /\ s.pc \in {"feature", "asset", "objects"} =>
              IF s.short THEN Expired(Head(s.table)) \subseteq Play(s)
              ELSE Cardinality(Cleared(Head(s.table)) \cup Play(s)) >= PageSize * s.page

LEMMA OldStaysOld ==
  ASSUME HouseInv, [HousekeepingNext]_keepVars
  PROVE  \A d : Expired(d)' \subseteq Expired(d)
<1>1. LakeTypeOK
  BY DEF HouseInv, HousekeepingTypeOK, IngestTypeOK
<1>2. ASSUME NEW i, NEW rec, WriteItem(i, rec), rec = NoItem \/ ~rec.old
      PROVE  \A d : Expired(d)' \subseteq Expired(d)
  BY <1>1, <1>2 DEF WriteItem, LakeTypeOK, Expired, Catalogued
<1>3. ASSUME catalog' = catalog PROVE \A d : Expired(d)' \subseteq Expired(d)
  BY <1>3 DEF Expired, Catalogued
<1>4. CASE IngestNext
  <2>1. catalog' = catalog \/ \E r \in Runs : WriteItem(Target[r], BuildItem(r))
    BY <1>4, IngestEffects DEF lakeVars
  <2>2. \A r \in Runs : ~BuildItem(r).old
    BY DEF BuildItem
  <2>3. QED
    BY <1>2, <1>3, <2>1, <2>2
<1>5. CASE RetentionNext \/ ItemDeleteNext \/ GcNext
  <2>1. catalog' = catalog \/ \E i : WriteItem(i, NoItem)
    BY <1>5, RetentionEffects, RemovalEffects, SweepEffects
       DEF RetentionNext, ItemDeleteNext, GcNext, lakeVars
  <2>2. QED
    BY <1>2, <1>3, <2>1
<1>6. CASE \E i \in ByHand : PostByHand(i)
  <2>1. PICK i, c : WriteItem(i, PostedByHand(i, c))
    BY <1>6, HandMoves
  <2>2. QED
    BY <1>2, <2>1 DEF PostedByHand
<1>7. CASE \E k \in Keys : ObjectAges(k) \/ \E i \in ByHand : PutByHand(i, k)
  BY <1>1, <1>3, <1>7, AgesType DEF PutByHand
<1>8. CASE UNCHANGED keepVars
  BY <1>3, <1>8 DEF keepVars, vars, lakeVars
<1>9. QED
  BY <1>4, <1>5, <1>6, <1>7, <1>8 DEF HousekeepingNext

LEMMA DueIsFinite ==
  ASSUME IsFiniteSet(Stocked), NEW d
  PROVE  /\ IsFiniteSet(DueOf(d)) /\ Cardinality(DueOf(d)) \in Nat
         /\ IsFiniteSet(Cleared(d)) /\ Cardinality(Cleared(d)) \in Nat
<1>1. DueOf(d) \in SUBSET Stocked /\ Cleared(d) \in SUBSET DueOf(d)
  BY DEF DueOf, Cleared
<1>2. IsFiniteSet(DueOf(d))
  BY <1>1, FS_Subset
<1>3. QED
  BY <1>1, <1>2, FS_Subset, FS_CardinalityType

LEMMA LargerCounts ==
  ASSUME NEW S, NEW T, IsFiniteSet(T), S \subseteq T, NEW n \in Nat, Cardinality(S) >= n
  PROVE  Cardinality(T) >= n
<1>1. /\ IsFiniteSet(S) /\ Cardinality(S) <= Cardinality(T)
  BY FS_Subset
<1>2. Cardinality(S) \in Nat /\ Cardinality(T) \in Nat
  BY <1>1, FS_CardinalityType
<1>3. QED
  BY <1>1, <1>2

(* One page more.                                                           *)
LEMMA PageCounts ==
  ASSUME NEW S, NEW T, IsFiniteSet(S), IsFiniteSet(T), S \cap T = {},
         Cardinality(T) = PageSize, NEW n \in Nat, Cardinality(S) >= PageSize * n
  PROVE  Cardinality(S \cup T) >= PageSize * (n + 1)
<1>1. PageSize \in Nat
  BY RetentionAssumption
<1>2. Cardinality(S) \in Nat
  BY FS_CardinalityType
<1>3. Cardinality(S \cup T) = Cardinality(S) + Cardinality(T) - Cardinality(S \cap T)
  BY FS_Union
<1>4. Cardinality(S \cap T) = 0
  BY FS_EmptySet
<1>5. Cardinality(S \cup T) = Cardinality(S) + PageSize
  BY <1>1, <1>2, <1>3, <1>4
<1>6. PageSize * (n + 1) = PageSize * n + PageSize
  BY <1>1
<1>7. PageSize * n \in Nat
  BY <1>1
<1> HIDE <1>6
<1>8. QED
  BY <1>1, <1>2, <1>5, <1>6, <1>7

(* All pages read, or nothing left to read: the domain is cleared.          *)
LEMMA AllPages ==
  ASSUME HouseInv, IsFiniteSet(Stocked), NEW d, Coverable(d),
         Cardinality(Cleared(d)) >= PageSize * MaxPages
  PROVE  Expired(d) = {}
<1>1. Expired(d) \subseteq DueOf(d)
  BY DEF HouseInv, OldIsStock, Expired, DueOf
<1>2. PageSize * MaxPages \in Nat
  BY RetentionAssumption
<1>3. Cleared(d) \in SUBSET DueOf(d)
  BY DEF Cleared
<1>4. Cardinality(Cleared(d)) <= Cardinality(DueOf(d))
  BY <1>3, DueIsFinite, FS_Subset
<1>5. Cardinality(Cleared(d)) = Cardinality(DueOf(d))
  BY <1>2, <1>4, DueIsFinite DEF Coverable
<1>6. Cleared(d) = DueOf(d)
  BY <1>3, <1>5, DueIsFinite, FS_Subset
<1>7. QED
  BY <1>1, <1>6 DEF Cleared

LEMMA CountingStutter ==
  ASSUME HouseInv, [HousekeepingNext]_keepVars, IsFiniteSet(Stocked),
         NEW p \in Prunes, NEW s \in PruneStates, Counting(p, s)
  PROVE  Counting(p, s)'
<1> DEFINE h == Head(s.table)
<1>1. \A d : Expired(d)' \subseteq Expired(d) /\ Cleared(d) \subseteq Cleared(d)'
             /\ Cleared(d)' \subseteq DueOf(d)
  BY OldStaysOld DEF Cleared
<1>2. PageSize * s.page \in Nat
  BY RetentionAssumption DEF PruneStates
<1>3. ASSUME NEW S, S \subseteq DueOf(h), Cardinality(Cleared(h) \cup S) >= PageSize * s.page
      PROVE  Cardinality(Cleared(h)' \cup S) >= PageSize * s.page
  <2>1. Cleared(h)' \cup S \in SUBSET DueOf(h)
    BY <1>1, <1>3
  <2>2. IsFiniteSet(Cleared(h)' \cup S)
    BY <2>1, DueIsFinite, FS_Subset
  <2>3. QED
    BY <1>1, <1>2, <1>3, <2>2, LargerCounts
<1>4. Cardinality(Cleared(h)) >= PageSize * s.page => Cardinality(Cleared(h)') >= PageSize * s.page
  <2>1. Cleared(h) \cup {} = Cleared(h) /\ Cleared(h)' \cup {} = Cleared(h)'
    OBVIOUS
  <2>2. QED
    BY <1>3, <2>1
<1>5. \A d : (Coverable(d) => Expired(d) = {}) => (Coverable(d) => Expired(d)' = {})
  BY <1>1
<1> HIDE DEF h
<1>6. QED
  BY <1>1, <1>3, <1>4, <1>5 DEF Counting, h

LEMMA HeadOrTail ==
  ASSUME NEW S, NEW s \in Seq(S), s # <<>>, NEW n \in DOMAIN s
  PROVE  s[n] = Head(s) \/ \E m \in DOMAIN Tail(s) : Tail(s)[m] = s[n]
<1>1. Len(s) \in Nat /\ DOMAIN s = 1 .. Len(s) /\ Head(s) = s[1]
  OBVIOUS
<1>2. CASE n = 1
  BY <1>1, <1>2
<1>3. CASE n # 1
  <2>1. n - 1 \in 1 .. Len(Tail(s)) /\ Tail(s)[n - 1] = s[n]
    BY <1>1, <1>3
  <2>2. Tail(s) \in Seq(S)
    OBVIOUS
  <2>3. DOMAIN Tail(s) = 1 .. Len(Tail(s))
    BY <2>2
  <2>4. QED
    BY <2>1, <2>3
<1>4. QED
  BY <1>2, <1>3

LEMMA CountingStep ==
  ASSUME HouseInv, [HousekeepingNext]_keepVars, IsFiniteSet(Stocked),
         NEW p \in Prunes, RetentionStep(p) \/ RetentionFault(p),
         NEW o, o = prune[p], Counting(p, o), NEW n, n = prune'[p]
  PROVE  Counting(p, n)'
<1> DEFINE h == Head(o.table)
<1>1. /\ o \in PruneStates /\ PruneOk(o) /\ prune \in [Prunes -> PruneStates]
      /\ Table \in [Prunes -> Seq(Domains)]
  BY RetentionAssumption DEF HouseInv, HousekeepingTypeOK, RetentionTypeOK
<1>2. Counting(p, o)'
  BY <1>1, CountingStutter
<1>3. o.table \in Seq(Domains) /\ o.page \in 0 .. MaxPages /\ o.faults \in Nat
  BY <1>1 DEF PruneStates
<1>4. \A d : Expired(d)' \subseteq Expired(d) /\ Expired(d) \subseteq DueOf(d)
  BY OldStaysOld DEF HouseInv, OldIsStock, Expired, DueOf
<1>5. MaxPages \in Nat /\ PageSize \in Nat \ {0} /\ o.page \in Nat
  BY <1>3, RetentionAssumption
(* A domain leaves the table, cleared or not to be cleared.                 *)
<1>6. ASSUME o.table # <<>>, n.table = Tail(o.table), n.faults = o.faults, n.refused = o.refused,
             n.faults = 0 /\ n.refused = {} /\ Coverable(h) => Expired(h)' = {}
      PROVE  n.faults = 0 /\ n.refused = {} =>
               \A m \in DOMAIN Table[p] :
                 \/ \E k \in DOMAIN n.table : n.table[k] = Table[p][m]
                 \/ Coverable(Table[p][m]) => Expired(Table[p][m])' = {}
  <2>1. SUFFICES ASSUME n.faults = 0, n.refused = {}, NEW m \in DOMAIN Table[p],
                        NEW d, d = Table[p][m], Coverable(d)
                 PROVE  (\E k \in DOMAIN n.table : n.table[k] = d) \/ Expired(d)' = {}
    OBVIOUS
  <2>2. \/ \E k \in DOMAIN o.table : o.table[k] = d
        \/ Expired(d) = {}
    BY <1>6, <2>1 DEF Counting
  <2>3. CASE \E k \in DOMAIN o.table : o.table[k] = d
    <3>1. PICK k \in DOMAIN o.table : o.table[k] = d
      BY <2>3
    <3>2. d = h \/ \E l \in DOMAIN n.table : n.table[l] = d
      BY <1>6, <1>3, <3>1, HeadOrTail
    <3>3. QED
      BY <1>6, <2>1, <3>2
  <2>4. CASE Expired(d) = {}
    BY <1>4, <2>4
  <2>5. QED
    BY <2>2, <2>3, <2>4
(* The domain in hand is left, cleared if it could be.                      *)
<1>7. ASSUME o.pc \in {"list", "feature"}, n.table = Tail(o.table), n.pc = "nextDomain",
             n.faults = o.faults, n.refused = o.refused,
             o.faults = 0 /\ o.refused = {} /\ Coverable(h) => Expired(h)' = {}
      PROVE  Counting(p, n)'
  <2>1. o.table # <<>>
    BY <1>1, <1>7 DEF PruneOk
  <2>2. n.faults = 0 /\ n.refused = {} =>
          \A m \in DOMAIN Table[p] :
            \/ \E k \in DOMAIN n.table : n.table[k] = Table[p][m]
            \/ Coverable(Table[p][m]) => Expired(Table[p][m])' = {}
    BY <1>6, <1>7, <2>1
  <2>3. QED
    BY <1>7, <2>2 DEF Counting
(* A call has failed: nothing is promised of the rest.                      *)
<1>8. ASSUME n.faults = o.faults + 1, n.pc \notin {"feature", "asset", "objects"}
      PROVE  Counting(p, n)'
  BY <1>3, <1>8 DEF Counting
<1>9. CASE PruneDomain(p)
  <2>1. /\ o.pc = "nextDomain" /\ n.faults = o.faults /\ n.refused = o.refused
        /\ \/ n.pc = "done" /\ n.table = o.table /\ o.table = <<>>
           \/ n.pc = "list" /\ n.page = 0 /\ n.table = o.table
           \/ /\ n.pc = "nextDomain" /\ n.table = Tail(o.table) /\ o.table # <<>>
              /\ h \notin Expiring
    BY <1>1, <1>9 DEF PruneDomain, PruneStates
  <2>2. CASE n.pc = "done"
    BY <1>2, <2>1, <2>2 DEF Counting
  <2>3. CASE n.pc = "list"
    <3>1. Cardinality(Cleared(Head(n.table))') >= PageSize * n.page
      <4>1. \A d : Cleared(d)' \in SUBSET DueOf(d)
        BY DEF Cleared
      <4>2. \A d : Cardinality(Cleared(d)') \in Nat
        BY <4>1, DueIsFinite, FS_Subset, FS_CardinalityType
      <4>3. PageSize * n.page = 0
        BY <1>5, <2>1, <2>3
      <4>4. QED
        BY <4>2, <4>3
    <3>2. QED
      BY <1>2, <2>1, <2>3, <3>1 DEF Counting
  <2>4. CASE n.pc = "nextDomain"
    <3>1. n.table = Tail(o.table) /\ o.table # <<>> /\ ~Coverable(h)
      BY <2>1, <2>4 DEF Coverable
    <3>2. n.faults = 0 /\ n.refused = {} =>
            \A m \in DOMAIN Table[p] :
              \/ \E k \in DOMAIN n.table : n.table[k] = Table[p][m]
              \/ Coverable(Table[p][m]) => Expired(Table[p][m])' = {}
      BY <1>6, <2>1, <3>1
    <3>3. QED
      BY <2>4, <3>2 DEF Counting
  <2>5. QED
    BY <2>1, <2>2, <2>3, <2>4
<1>10. CASE ListPage(p)
  <2>1. PICK T \in Pages(Expired(h)) :
          prune' = [prune EXCEPT ![p] =
              IF T = {} THEN LeaveDomain(prune[p])
              ELSE [prune[p] EXCEPT !.pc = "feature", !.page = prune[p].page + 1, !.batch = T,
                            !.short = Cardinality(T) < PageSize,
                            !.read = [i \in Items |-> IF i \in T THEN catalog[i].hrefs ELSE {}]]]
    BY <1>10 DEF ListPage
  <2>2. /\ o.pc = "list" /\ T \subseteq Expired(h)
        /\ Cardinality(T) = PageSize \/ (T = Expired(h) /\ Cardinality(T) < PageSize)
    BY <1>10, <2>1 DEF ListPage, Pages
  <2>3. UNCHANGED catalog
    BY <1>10 DEF ListPage, lakeVars
  <2>4. \A d : Expired(d)' = Expired(d) /\ Cleared(d)' = Cleared(d)
    BY <2>3 DEF Expired, Cleared, Catalogued
  <2>5. CASE T = {}
    <3>1. n.pc = "nextDomain" /\ n.table = Tail(o.table) /\ n.faults = o.faults
          /\ n.refused = o.refused
      BY <1>1, <2>1, <2>5 DEF LeaveDomain, PruneStates
    <3>2. Expired(h) = {}
      BY <1>5, <2>2, <2>5, FS_EmptySet
    <3>3. QED
      BY <1>7, <2>2, <2>4, <3>1, <3>2
  <2>6. CASE T # {}
    <3>1. /\ n.pc = "feature" /\ n.table = o.table /\ n.faults = o.faults /\ n.refused = o.refused
          /\ n.batch = T /\ n.page = o.page + 1
      BY <1>1, <2>1, <2>6 DEF PruneStates
    <3>0. n.short <=> Cardinality(T) < PageSize
      BY <1>1, <2>1, <2>6, Zenon DEF PruneStates
    <3>2. Play(n) = T /\ T \subseteq DueOf(h)
      BY <1>4, <2>2, <3>1 DEF Play
    <3>3. n.short => Expired(h) \subseteq T
      BY <1>5, <2>2, <3>0
    <3>4. ASSUME o.faults = 0, o.refused = {}, ~n.short
          PROVE  Cardinality(Cleared(h) \cup T) >= PageSize * n.page
      <4>1. Cardinality(T) = PageSize
        BY <2>2, <3>0, <3>4
      <4>2. T \in SUBSET DueOf(h) /\ Cleared(h) \in SUBSET DueOf(h) /\ Cleared(h) \cap T = {}
        BY <2>2, <3>2 DEF Cleared
      <4>3. IsFiniteSet(T) /\ IsFiniteSet(Cleared(h))
        BY <4>2, DueIsFinite, FS_Subset
      <4>4. Cardinality(Cleared(h)) >= PageSize * o.page
        BY <2>2, <3>4 DEF Counting
      <4>5. QED
        BY <1>5, <3>1, <4>1, <4>2, <4>3, <4>4, PageCounts
    <3>5. n.faults = 0 /\ n.refused = {} =>
            /\ \A m \in DOMAIN Table[p] :
                 \/ \E k \in DOMAIN n.table : n.table[k] = Table[p][m]
                 \/ Coverable(Table[p][m]) => Expired(Table[p][m])' = {}
            /\ IF n.short THEN Expired(h)' \subseteq Play(n)
               ELSE Cardinality(Cleared(h)' \cup Play(n)) >= PageSize * n.page
      BY <1>2, <2>4, <3>1, <3>2, <3>3, <3>4 DEF Counting
    <3>6. QED
      BY <3>1, <3>2, <3>5 DEF Counting
  <2>7. QED
    BY <2>5, <2>6
<1>11. CASE ListRefused(p) \/ PruneDies(p)
  <2>1. n.faults = o.faults + 1 /\ n.pc \in {"nextDomain", "failed"}
    <3>1. CASE ListRefused(p)
      BY <1>1, <3>1 DEF ListRefused, LeaveDomain, PruneStates
    <3>2. CASE PruneDies(p)
      BY <1>1, <3>2 DEF PruneDies, PruneStates
    <3>3. QED
      BY <1>11, <3>1, <3>2
  <2>2. QED
    BY <1>8, <2>1
(* Nothing but what is in hand changes, and it stays in hand or is removed. *)
<1>12. ASSUME o.pc \in {"feature", "asset", "objects"}, n.pc \in {"feature", "asset", "objects"},
              n.table = o.table, n.page = o.page, n.short = o.short,
              n.faults = o.faults \/ n.faults = o.faults + 1, o.refused = n.refused,
              Play(n) \subseteq Play(o), \A i \in Play(o) \ Play(n) : i \notin Expired(h)'
       PROVE  Counting(p, n)'
  <2>1. Play(o) \subseteq DueOf(h)
    BY <1>12 DEF Counting
  <2>2. Cleared(h)' \cup Play(o) = Cleared(h)' \cup Play(n)
    BY <1>12, <2>1 DEF Cleared
  <2>3. Expired(h)' \subseteq Play(o) => Expired(h)' \subseteq Play(n)
    BY <1>12
  <2>4. n.faults = 0 => o.faults = 0
    BY <1>3, <1>12
  <2>5. n.faults = 0 /\ n.refused = {} =>
          /\ \A m \in DOMAIN Table[p] :
               \/ \E k \in DOMAIN n.table : n.table[k] = Table[p][m]
               \/ Coverable(Table[p][m]) => Expired(Table[p][m])' = {}
          /\ IF n.short THEN Expired(h)' \subseteq Play(n)
             ELSE Cardinality(Cleared(h)' \cup Play(n)) >= PageSize * n.page
    BY <1>2, <1>12, <2>2, <2>3, <2>4 DEF Counting
  <2>6. QED
    BY <1>12, <2>1, <2>5 DEF Counting
<1>13. CASE TakeFeature(p)
  <2>1. PICK i \in o.batch :
          prune' = [prune EXCEPT ![p].pc = "asset", ![p].batch = @ \ {i}, ![p].item = i,
                                 ![p].assets = o.read[i]]
    BY <1>13 DEF TakeFeature
  <2>2. /\ n.pc = "asset" /\ n.batch = o.batch \ {i} /\ n.item = i /\ n.refused = o.refused
        /\ n.table = o.table /\ n.page = o.page /\ n.short = o.short /\ n.faults = o.faults
        /\ o.pc = "feature"
    BY <1>1, <1>13, <2>1 DEF PruneStates, TakeFeature
  <2>3. Play(n) = Play(o)
    BY <2>1, <2>2 DEF Play
  <2>4. QED
    BY <1>12, <2>2, <2>3
<1>14. CASE FinishPage(p)
  <2>1. /\ o.pc = "feature" /\ o.batch = {} /\ UNCHANGED catalog
        /\ n = IF o.short \/ o.page >= MaxPages THEN LeaveDomain(o) ELSE [o EXCEPT !.pc = "list"]
    BY <1>1, <1>14 DEF FinishPage, lakeVars
  <2>2. Play(o) = {} /\ \A d : Cleared(d) \cup {} = Cleared(d)
    BY <2>1 DEF Play
  <2>3. \A d : Expired(d)' = Expired(d) /\ Cleared(d)' = Cleared(d)
    BY <2>1 DEF Expired, Cleared, Catalogued
  <2>4. CASE o.short \/ o.page >= MaxPages
    <3>1. n.pc = "nextDomain" /\ n.table = Tail(o.table) /\ n.faults = o.faults
          /\ n.refused = o.refused
      BY <1>1, <2>1, <2>4 DEF LeaveDomain, PruneStates
    <3>2. ASSUME o.faults = 0, o.refused = {}, Coverable(h) PROVE Expired(h) = {}
      <4>1. CASE o.short
        BY <2>1, <2>2, <3>2, <4>1 DEF Counting
      <4>2. CASE ~o.short
        <5>1. o.page = MaxPages
          BY <1>3, <1>5, <2>4, <4>2
        <5>2. Cardinality(Cleared(h)) >= PageSize * MaxPages
          BY <2>1, <2>2, <3>2, <4>2, <5>1 DEF Counting
        <5>3. QED
          BY <3>2, <5>2, AllPages
      <4>3. QED
        BY <4>1, <4>2
    <3>3. QED
      BY <1>7, <2>1, <2>3, <3>1, <3>2
  <2>5. CASE ~(o.short \/ o.page >= MaxPages)
    <3>1. /\ n.pc = "list" /\ n.table = o.table /\ n.page = o.page /\ n.faults = o.faults
          /\ n.refused = o.refused
      BY <1>1, <2>1, <2>5 DEF PruneStates
    <3>2. o.faults = 0 /\ o.refused = {} => Cardinality(Cleared(h)) >= PageSize * o.page
      BY <2>1, <2>2, <2>5 DEF Counting
    <3>3. n.faults = 0 /\ n.refused = {} =>
            /\ \A m \in DOMAIN Table[p] :
                 \/ \E k \in DOMAIN n.table : n.table[k] = Table[p][m]
                 \/ Coverable(Table[p][m]) => Expired(Table[p][m])' = {}
            /\ Cardinality(Cleared(h)') >= PageSize * n.page
      BY <1>2, <2>3, <3>1, <3>2 DEF Counting
    <3>4. QED
      BY <3>1, <3>3 DEF Counting
  <2>6. QED
    BY <2>4, <2>5
<1>15. CASE ListFolder(p) \/ DeleteFolder(p) \/ DeleteFolderFails(p)
  <2>1. /\ o.pc \in {"asset", "objects"} /\ n.pc \in {"asset", "objects"} /\ n.item = o.item
        /\ n.refused = o.refused /\ n.batch = o.batch /\ n.table = o.table
        /\ n.page = o.page /\ n.short = o.short /\ n.faults \in {o.faults, o.faults + 1}
    <3>1. CASE ListFolder(p)
      BY <1>1, <3>1 DEF ListFolder, PruneStates
    <3>2. CASE DeleteFolder(p)
      BY <1>1, <3>2 DEF DeleteFolder, PruneStates
    <3>3. CASE DeleteFolderFails(p)
      BY <1>1, <3>3 DEF DeleteFolderFails, PruneStates
    <3>4. QED
      BY <1>15, <3>1, <3>2, <3>3
  <2>2. Play(n) = Play(o)
    BY <2>1 DEF Play
  <2>3. QED
    BY <1>12, <2>1, <2>2
<1>16. CASE DeleteItem(p)
  <2>1. /\ o.pc = "asset" /\ n.pc = "feature" /\ n.batch = o.batch /\ n.faults = o.faults
        /\ n.refused = o.refused /\ n.table = o.table /\ n.page = o.page /\ n.short = o.short
        /\ WriteItem(o.item, NoItem) \/ (~Catalogued(o.item) /\ UNCHANGED catalog)
    BY <1>1, <1>16 DEF DeleteItem, PruneStates
  <2>2. ~Catalogued(o.item)'
    BY <1>1, <2>1, DueIsStocked
       DEF PruneOk, WriteItem, Catalogued, HouseInv, HousekeepingTypeOK, IngestTypeOK, LakeTypeOK
  <2>3. o.item \notin Expired(h)'
    BY <2>2 DEF Expired
  <2>4. Play(n) = o.batch /\ Play(o) = o.batch \cup {o.item}
    BY <2>1 DEF Play
  <2>5. QED
    BY <1>12, <2>1, <2>3, <2>4
<1>17. CASE DeleteItemRefused(p)
  <2>1. /\ o.pc = "asset" /\ n.pc = "feature" /\ n.batch = o.batch /\ n.table = o.table
        /\ n.refused = o.refused \cup {o.item}
    BY <1>1, <1>17 DEF DeleteItemRefused, PruneStates
  <2>2. n.refused # {} /\ Play(n) \subseteq Play(o) /\ Play(o) \subseteq DueOf(h)
    BY <2>1 DEF Play, Counting
  <2>3. QED
    BY <2>1, <2>2 DEF Counting
<1>18. QED
  BY <1>9, <1>10, <1>11, <1>13, <1>14, <1>15, <1>16, <1>17 DEF RetentionStep, RetentionFault

(* A run of retention that ends without a failure has removed what it found *)
(* old in each domain it walked, if the domain's pages were enough, for any *)
(* table of domains, any sizes of a page and whatever works next to it.     *)
THEOREM PruneAlwaysComplete ==
  IsFiniteSet(Stocked) => (HousekeepingSpec => []PruneComplete)
<1> SUFFICES ASSUME IsFiniteSet(Stocked) PROVE HousekeepingSpec => []PruneComplete
  OBVIOUS
<1> DEFINE AllCount == \A p \in Prunes : Counting(p, prune[p])
<1>1. HousekeepingInit => AllCount
  BY DEF HousekeepingInit, RetentionInit, Counting
<1>2. HouseInv /\ AllCount /\ [HousekeepingNext]_keepVars => AllCount'
  <2> SUFFICES ASSUME HouseInv, AllCount, [HousekeepingNext]_keepVars, NEW p \in Prunes
               PROVE  Counting(p, prune[p])'
    OBVIOUS
  <2>1. PICK o, n : o = prune[p] /\ n = prune'[p]
    OBVIOUS
  <2>2. o \in PruneStates /\ Counting(p, o)
    BY <2>1 DEF HouseInv, HousekeepingTypeOK, RetentionTypeOK
  <2>3. Counting(p, n)'
    BY <2>1, <2>2, CountingStutter, CountingStep, OtherPrunes
  <2>4. QED
    BY <2>1, <2>3 DEF Counting, Play
<1>3. AllCount => PruneComplete
  <2> SUFFICES ASSUME AllCount, NEW p \in Prunes, prune[p].pc = "done", prune[p].faults = 0,
                      prune[p].refused = {}, NEW m \in DOMAIN Table[p], Coverable(Table[p][m])
               PROVE  \A i \in DueOf(Table[p][m]) : ~Catalogued(i) \/ ~catalog[i].old
    BY DEF PruneComplete, Coverable, DueOf
  <2>1. Counting(p, prune[p]) /\ DOMAIN <<>> = {}
    OBVIOUS
  <2>2. Expired(Table[p][m]) = {}
    BY <2>1 DEF Counting
  <2>3. QED
    BY <2>2 DEF Expired, DueOf, Stocked
<1>4. QED
  BY <1>1, <1>2, <1>3, HouseAlways, PTL DEF HousekeepingSpec

-----------------------------------------------------------------------------
(* That a retention run ends, whatever fails and whatever the catalogue     *)
(* refuses: what a step changes of it lowers the domains left, or in the    *)
(* same domain the pages left, or on the same page the features left, or    *)
(* for the same feature the assets left.                                    *)

FiniteStock == IsFiniteSet(Stocked) /\ \A i \in Stocked : IsFiniteSet(Stock[i].hrefs)

DomainsLeft(s) == IF s.pc \in {"done", "failed"} THEN 0
                  ELSE IF s.pc = "nextDomain" THEN 2 * Len(s.table) + 1
                  ELSE 2 * Len(s.table)

PagesLeft(s) == MaxPages - s.page

FeaturesLeft(s) == IF s.pc = "feature" THEN 2 * Cardinality(s.batch) + 1
                   ELSE IF s.pc \in {"asset", "objects"} THEN 2 * Cardinality(s.batch) + 2
                   ELSE 0

AssetsLeft(s) == IF s.pc = "asset" THEN 2 * Cardinality(s.assets)
                 ELSE IF s.pc = "objects" THEN 2 * Cardinality(s.assets) + 1
                 ELSE 0

PruneRank(s) == <<DomainsLeft(s), PagesLeft(s), FeaturesLeft(s), AssetsLeft(s)>>

LEMMA PruneFinite ==
  ASSUME FiniteStock, NEW s \in PruneStates, PruneOk(s)
  PROVE  /\ s.table \in Seq(Domains) /\ Len(s.table) \in Nat
         /\ s.pc \in {"list", "feature", "asset", "objects"} => Len(s.table) > 0
         /\ MaxPages \in Nat /\ s.page \in 0 .. MaxPages
         /\ IsFiniteSet(s.batch) /\ Cardinality(s.batch) \in Nat
         /\ s.pc \in {"asset", "objects"} => IsFiniteSet(s.assets) /\ Cardinality(s.assets) \in Nat
<1>1. s.table \in Seq(Domains) /\ s.page \in 0 .. MaxPages /\ MaxPages \in Nat
  BY RetentionAssumption DEF PruneStates
<1>2. Len(s.table) \in Nat /\ (s.table # <<>> => Len(s.table) > 0)
  BY <1>1
<1>3. s.pc \in {"list", "feature", "asset", "objects"} => s.table # <<>>
  BY DEF PruneOk
<1>4. s.batch \subseteq Stocked
  BY DEF PruneOk, Due
<1>5. IsFiniteSet(s.batch)
  BY <1>4, FS_Subset DEF FiniteStock
<1>6. ASSUME s.pc \in {"asset", "objects"} PROVE IsFiniteSet(s.assets)
  <2>1. s.item \in Stocked /\ s.assets \subseteq Stock[s.item].hrefs
    BY <1>6 DEF PruneOk, Due
  <2>2. QED
    BY <2>1, FS_Subset DEF FiniteStock
<1>7. QED
  BY <1>1, <1>2, <1>3, <1>5, <1>6, FS_CardinalityType

LEMMA PruneRanks ==
  ASSUME FiniteStock, NEW s \in PruneStates, PruneOk(s)
  PROVE  /\ DomainsLeft(s) \in Nat /\ PagesLeft(s) \in Nat
         /\ FeaturesLeft(s) \in Nat /\ AssetsLeft(s) \in Nat
<1>1. /\ Len(s.table) \in Nat /\ MaxPages \in Nat /\ s.page \in 0 .. MaxPages
      /\ Cardinality(s.batch) \in Nat
      /\ s.pc \in {"asset", "objects"} => Cardinality(s.assets) \in Nat
  BY PruneFinite
<1>2. DomainsLeft(s) \in Nat
  BY <1>1 DEF DomainsLeft
<1>3. PagesLeft(s) \in Nat
  BY <1>1 DEF PagesLeft
<1>4. FeaturesLeft(s) \in Nat
  BY <1>1 DEF FeaturesLeft
<1>5. AssetsLeft(s) \in Nat
  BY <1>1 DEF AssetsLeft
<1>6. QED
  BY <1>2, <1>3, <1>4, <1>5

LEMMA PruneDescends ==
  ASSUME HouseInv, FiniteStock, NEW p \in Prunes, RetentionStep(p) \/ RetentionFault(p)
  PROVE  <<PruneRank(prune'[p]), PruneRank(prune[p])>> \in Lower(4)
<1> DEFINE o == prune[p]
           n == prune'[p]
<1>1. /\ o \in PruneStates /\ PruneOk(o) /\ prune \in [Prunes -> PruneStates]
  BY DEF HouseInv, HousekeepingTypeOK, RetentionTypeOK
<1>2. n \in PruneStates /\ PruneOk(n)
  <2>1. PICK s \in PruneStates : PruneOk(s) /\ prune' = [prune EXCEPT ![p] = s]
    BY RetentionMoves
  <2>2. n = s
    BY <1>1, <2>1
  <2>3. QED
    BY <2>1, <2>2
<1>3. /\ DomainsLeft(o) \in Nat /\ PagesLeft(o) \in Nat /\ FeaturesLeft(o) \in Nat
      /\ AssetsLeft(o) \in Nat
      /\ DomainsLeft(n) \in Nat /\ PagesLeft(n) \in Nat /\ FeaturesLeft(n) \in Nat
      /\ AssetsLeft(n) \in Nat
  BY <1>1, <1>2, PruneRanks
<1>4. /\ o.table \in Seq(Domains) /\ Len(o.table) \in Nat
      /\ o.pc \in {"list", "feature", "asset", "objects"} => Len(o.table) > 0
      /\ MaxPages \in Nat /\ o.page \in 0 .. MaxPages
      /\ IsFiniteSet(o.batch) /\ Cardinality(o.batch) \in Nat
      /\ o.pc \in {"asset", "objects"} => IsFiniteSet(o.assets) /\ Cardinality(o.assets) \in Nat
  BY <1>1, PruneFinite
<1>5. o.table # <<>> => Len(Tail(o.table)) = Len(o.table) - 1
  BY <1>4
<1>6. SUFFICES \/ DomainsLeft(n) < DomainsLeft(o)
               \/ /\ DomainsLeft(n) = DomainsLeft(o)
                  /\ \/ PagesLeft(n) < PagesLeft(o)
                     \/ /\ PagesLeft(n) = PagesLeft(o)
                        /\ \/ FeaturesLeft(n) < FeaturesLeft(o)
                           \/ FeaturesLeft(n) = FeaturesLeft(o) /\ AssetsLeft(n) < AssetsLeft(o)
  BY <1>3, Lower4, Zenon DEF PruneRank
(* A domain is left.                                                        *)
<1>7. ASSUME o.pc \in {"list", "feature"}, n.pc = "nextDomain", n.table = Tail(o.table)
      PROVE  DomainsLeft(n) < DomainsLeft(o)
  BY <1>4, <1>5, <1>7 DEF DomainsLeft
<1>8. CASE PruneDomain(p)
  <2>1. /\ o.pc = "nextDomain"
        /\ \/ n.pc = "done" /\ n.table = o.table
           \/ n.pc = "list" /\ n.table = o.table
           \/ n.pc = "nextDomain" /\ n.table = Tail(o.table) /\ o.table # <<>>
    BY <1>1, <1>8 DEF PruneDomain, PruneStates
  <2>2. CASE n.pc = "done"
    BY <1>4, <2>1, <2>2 DEF DomainsLeft
  <2>3. CASE n.pc = "list" /\ n.table = o.table
    BY <1>4, <2>1, <2>3 DEF DomainsLeft
  <2>4. CASE n.pc = "nextDomain" /\ n.table = Tail(o.table) /\ o.table # <<>>
    BY <1>4, <1>5, <2>1, <2>4 DEF DomainsLeft
  <2>5. QED
    BY <2>1, <2>2, <2>3, <2>4
<1>9. CASE ListPage(p)
  <2>1. PICK T \in Pages(Expired(Head(o.table))) :
          prune' = [prune EXCEPT ![p] =
              IF T = {} THEN LeaveDomain(prune[p])
              ELSE [prune[p] EXCEPT !.pc = "feature", !.page = prune[p].page + 1, !.batch = T,
                            !.short = Cardinality(T) < PageSize,
                            !.read = [i \in Items |-> IF i \in T THEN catalog[i].hrefs ELSE {}]]]
    BY <1>9 DEF ListPage
  <2>2. o.pc = "list"
    BY <1>9 DEF ListPage
  <2>3. CASE T = {}
    <3>1. n.pc = "nextDomain" /\ n.table = Tail(o.table)
      BY <1>1, <2>1, <2>3 DEF LeaveDomain, PruneStates
    <3>2. QED
      BY <1>7, <2>2, <3>1
  <2>4. CASE T # {}
    <3>1. n.pc = "feature" /\ n.table = o.table /\ n.page = o.page + 1
      BY <1>1, <2>1, <2>4 DEF PruneStates
    <3>2. DomainsLeft(n) = DomainsLeft(o) /\ PagesLeft(n) < PagesLeft(o)
      BY <1>4, <2>2, <3>1 DEF DomainsLeft, PagesLeft
    <3>3. QED
      BY <3>2
  <2>5. QED
    BY <2>3, <2>4
<1>10. CASE ListRefused(p)
  <2>1. o.pc = "list" /\ n.pc = "nextDomain" /\ n.table = Tail(o.table)
    BY <1>1, <1>10 DEF ListRefused, LeaveDomain, PruneStates
  <2>2. QED
    BY <1>7, <2>1
<1>11. CASE TakeFeature(p)
  <2>1. PICK i \in o.batch :
          prune' = [prune EXCEPT ![p].pc = "asset", ![p].batch = @ \ {i}, ![p].item = i,
                                 ![p].assets = o.read[i]]
    BY <1>11 DEF TakeFeature
  <2>2. /\ o.pc = "feature" /\ n.pc = "asset" /\ n.table = o.table /\ n.page = o.page
        /\ n.batch = o.batch \ {i}
    BY <1>1, <1>11, <2>1 DEF TakeFeature, PruneStates
  <2>3. Cardinality(n.batch) \in Nat /\ Cardinality(o.batch) = Cardinality(n.batch) + 1
    BY <1>4, <2>2, OneLess
  <2>4. /\ DomainsLeft(n) = DomainsLeft(o) /\ PagesLeft(n) = PagesLeft(o)
        /\ FeaturesLeft(n) < FeaturesLeft(o)
    BY <2>2, <2>3 DEF DomainsLeft, PagesLeft, FeaturesLeft
  <2>5. QED
    BY <2>4
<1>12. CASE FinishPage(p)
  <2>1. /\ o.pc = "feature" /\ o.batch = {}
        /\ n = IF o.short \/ o.page >= MaxPages THEN LeaveDomain(o) ELSE [o EXCEPT !.pc = "list"]
    BY <1>1, <1>12 DEF FinishPage
  <2>2. CASE o.short \/ o.page >= MaxPages
    <3>1. n.pc = "nextDomain" /\ n.table = Tail(o.table)
      BY <1>1, <2>1, <2>2 DEF LeaveDomain, PruneStates
    <3>2. QED
      BY <1>7, <2>1, <3>1
  <2>3. CASE ~(o.short \/ o.page >= MaxPages)
    <3>1. n.pc = "list" /\ n.table = o.table /\ n.page = o.page
      BY <1>1, <2>1, <2>3 DEF PruneStates
    <3>2. /\ DomainsLeft(n) = DomainsLeft(o) /\ PagesLeft(n) = PagesLeft(o)
          /\ FeaturesLeft(n) < FeaturesLeft(o)
      BY <1>4, <2>1, <3>1 DEF DomainsLeft, PagesLeft, FeaturesLeft
    <3>3. QED
      BY <3>2
  <2>4. QED
    BY <2>2, <2>3
<1>13. CASE ListFolder(p)
  <2>1. PICK h \in o.assets :
          prune' = [prune EXCEPT ![p].pc = "objects", ![p].assets = @ \ {h},
                                 ![p].keys = StoredUnder(FolderOfName(h.name))]
    BY <1>13 DEF ListFolder
  <2>2. /\ o.pc = "asset" /\ n.pc = "objects" /\ n.table = o.table /\ n.page = o.page
        /\ n.batch = o.batch /\ n.assets = o.assets \ {h}
    BY <1>1, <1>13, <2>1 DEF ListFolder, PruneStates
  <2>3. Cardinality(n.assets) \in Nat /\ Cardinality(o.assets) = Cardinality(n.assets) + 1
    BY <1>4, <2>2, OneLess
  <2>4. /\ DomainsLeft(n) = DomainsLeft(o) /\ PagesLeft(n) = PagesLeft(o)
        /\ FeaturesLeft(n) = FeaturesLeft(o) /\ AssetsLeft(n) < AssetsLeft(o)
    BY <2>2, <2>3 DEF DomainsLeft, PagesLeft, FeaturesLeft, AssetsLeft
  <2>5. QED
    BY <2>4
<1>14. CASE DeleteFolder(p) \/ DeleteFolderFails(p)
  <2>1. /\ o.pc = "objects" /\ n.pc = "asset" /\ n.table = o.table /\ n.page = o.page
        /\ n.batch = o.batch /\ n.assets = o.assets
    <3>1. CASE DeleteFolder(p)
      BY <1>1, <3>1 DEF DeleteFolder, PruneStates
    <3>2. CASE DeleteFolderFails(p)
      BY <1>1, <3>2 DEF DeleteFolderFails, PruneStates
    <3>3. QED
      BY <1>14, <3>1, <3>2
  <2>2. /\ DomainsLeft(n) = DomainsLeft(o) /\ PagesLeft(n) = PagesLeft(o)
        /\ FeaturesLeft(n) = FeaturesLeft(o) /\ AssetsLeft(n) < AssetsLeft(o)
    BY <1>4, <2>1 DEF DomainsLeft, PagesLeft, FeaturesLeft, AssetsLeft
  <2>3. QED
    BY <2>2
<1>15. CASE DeleteItem(p) \/ DeleteItemRefused(p)
  <2>1. /\ o.pc = "asset" /\ n.pc = "feature" /\ n.table = o.table /\ n.page = o.page
        /\ n.batch = o.batch
    <3>1. CASE DeleteItem(p)
      BY <1>1, <3>1 DEF DeleteItem, PruneStates
    <3>2. CASE DeleteItemRefused(p)
      BY <1>1, <3>2 DEF DeleteItemRefused, PruneStates
    <3>3. QED
      BY <1>15, <3>1, <3>2
  <2>2. /\ DomainsLeft(n) = DomainsLeft(o) /\ PagesLeft(n) = PagesLeft(o)
        /\ FeaturesLeft(n) < FeaturesLeft(o)
    BY <1>4, <2>1 DEF DomainsLeft, PagesLeft, FeaturesLeft
  <2>3. QED
    BY <2>2
<1>16. CASE PruneDies(p)
  <2>1. /\ o.pc = "nextDomain" \/ o.pc \in {"list", "feature", "asset", "objects"}
        /\ n.pc = "failed"
    BY <1>1, <1>16 DEF PruneDies, PruneStates, PrunePcs
  <2>2. DomainsLeft(o) > 0
    BY <1>4, <2>1 DEF DomainsLeft
  <2>3. DomainsLeft(n) = 0
    BY <2>1 DEF DomainsLeft
  <2>4. QED
    BY <2>2, <2>3
<1>17. QED
  BY <1>8, <1>9, <1>10, <1>11, <1>12, <1>13, <1>14, <1>15, <1>16
     DEF RetentionStep, RetentionFault

PrunesDescend ==
    \A p \in Prunes : \/ prune'[p] = prune[p]
                      \/ <<PruneRank(prune'[p]), PruneRank(prune[p])>> \in Lower(4)

(* No step of a retention run, and nothing that befalls it, leaves it with  *)
(* as much to do as before, over any stock of finitely many items with      *)
(* finitely many assets: a page whose deletes are all refused comes back, and *)
(* it is the cap on pages that ends the loop (flows/retention.py:134).      *)
THEOREM PruneAlwaysDescends == FiniteStock => (HousekeepingSpec => [][PrunesDescend]_keepVars)
<1> SUFFICES ASSUME FiniteStock PROVE HousekeepingSpec => [][PrunesDescend]_keepVars
  OBVIOUS
<1>1. HouseInv /\ [HousekeepingNext]_keepVars => PrunesDescend
  BY OtherPrunes, PruneDescends DEF PrunesDescend
<1>2. QED
  BY <1>1, HouseAlways, PTL DEF HousekeepingSpec
=============================================================================
