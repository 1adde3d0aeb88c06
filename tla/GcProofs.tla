------------------------------ MODULE GcProofs ------------------------------
(***************************************************************************)
(* What is proved about gc and item delete at work beside the others, for   *)
(* any number of commands, runs, items and keys.                            *)
(***************************************************************************)
EXTENDS HousekeepingProofs

-----------------------------------------------------------------------------
(* What gc has decided to delete is gone when it is done.                   *)

(* An object that somebody may have written since a sweep began.            *)
Rewritten(k) == k \in reused \/ \E r \in Runs : k \in Tree[r] /\ attempt[r] > 0

SweptClean(g) ==
    /\ sweep[g].pc = "confirm" => sweep[g].orphans = sweep[g].listed \ sweep[g].refs
    /\ sweep[g].pc \in {"delete", "done"} =>
         /\ sweep[g].orphans \subseteq sweep[g].listed \ sweep[g].refs
         /\ \A k \in (sweep[g].listed \ sweep[g].refs) \ sweep[g].orphans :
              Stored(k) => Rewritten(k)
    /\ sweep[g].pc = "done" => sweep[g].orphans = {}

(* Who writes an object that a sweep has listed leaves a trace.             *)
LEMMA WritesLeaveTraces ==
  ASSUME HouseInv, [HousekeepingNext]_keepVars, NEW k \in Keys
  PROVE  /\ Rewritten(k) => Rewritten(k)'
         /\ (\E g \in Sweeps : k \in sweep[g].listed) /\ Stored(k)' => Stored(k) \/ Rewritten(k)'
<1>1. /\ LakeTypeOK
      /\ \A r \in Runs : TaskOk(r) /\ attempt[r] \in Nat
  BY DEF HouseInv, HousekeepingTypeOK, IngestTypeOK, TaskTypeOK
<1>2. CASE IngestNext /\ UNCHANGED keepers
  <2>1. \A r \in Runs : attempt'[r] \in Nat /\ attempt'[r] >= attempt[r]
    <3>1. HouseInv'
      BY HouseStep
    <3>2. QED
      BY <1>2, <3>1, TasksStep DEF HouseInv, HousekeepingTypeOK, IngestTypeOK, TaskTypeOK
  <2>2. Rewritten(k) => Rewritten(k)'
    BY <1>1, <1>2, <2>1 DEF Rewritten, keepers
  <2>3. ASSUME NEW r \in Runs, pc[r] = "upload", NEW j \in todo[r], PutObject(j), j = k
        PROVE  Rewritten(k)'
    BY <1>1, <2>1, <2>3 DEF Rewritten, TaskOk, Active
  <2>4. ASSUME NEW j, PutObject(j), j # k PROVE Stored(k)' => Stored(k)
    BY <1>1, <2>4 DEF PutObject, Stored, LakeTypeOK
  <2>5. QED
    BY <1>2, <2>2, <2>3, <2>4, IngestEffects DEF lakeVars, Stored
<1>3. ASSUME UNCHANGED ingestVars, reused \subseteq reused' PROVE Rewritten(k) => Rewritten(k)'
  BY <1>3 DEF Rewritten, ingestVars, taskVars
<1>4. ASSUME NEW S, DeleteObjects(S) PROVE Stored(k)' => Stored(k)
  BY <1>4 DEF DeleteObjects, Stored
<1>5. CASE RetentionNext /\ UNCHANGED <<ingestVars, removal, sweep, reused>>
  BY <1>3, <1>4, <1>5, RetentionEffects DEF RetentionNext, lakeVars, Stored
<1>6. CASE ItemDeleteNext /\ UNCHANGED <<ingestVars, prune, sweep, reused>>
  BY <1>3, <1>4, <1>6, RemovalEffects DEF ItemDeleteNext, lakeVars, Stored
<1>7. CASE GcNext /\ UNCHANGED <<ingestVars, prune, removal, reused>>
  BY <1>3, <1>4, <1>7, SweepEffects DEF GcNext, lakeVars, Stored
<1>8. ASSUME NEW i \in ByHand, PostByHand(i)
      PROVE  UNCHANGED <<ingestVars, objects>> /\ reused \subseteq reused'
  BY <1>8 DEF PostByHand
<1>9. ASSUME NEW i \in ByHand, NEW j \in Keys, PutByHand(i, j)
      PROVE  /\ UNCHANGED ingestVars /\ reused \subseteq reused'
             /\ (\E g \in Sweeps : k \in sweep[g].listed) /\ Stored(k)' => Stored(k) \/ k \in reused'
  <2>1. j # k => (Stored(k)' => Stored(k))
    BY <1>1, <1>9 DEF PutByHand, PutObject, Stored, LakeTypeOK
  <2>2. QED
    BY <1>9, <2>1 DEF PutByHand
<1>10. ASSUME NEW j \in Keys, ObjectAges(j)
       PROVE  UNCHANGED <<ingestVars, reused>> /\ (Stored(k)' => Stored(k))
  BY <1>1, <1>10 DEF ObjectAges, Stored, LakeTypeOK, keepers
<1>11. CASE UNCHANGED keepVars
  BY <1>3, <1>11 DEF keepVars, vars, lakeVars, keepers, Stored
<1>12. QED
  BY <1>2, <1>3, <1>5, <1>6, <1>7, <1>8, <1>9, <1>10, <1>11
     DEF HousekeepingNext, Stored, Rewritten

(* What a step of the command changes in its state.                         *)
SweepChange(g, o, n) ==
    \/ /\ o.pc = "list" /\ n.pc = "collections"
       /\ n.listed = {k \in Bucket[g] : objects[k] = "aged"}
       /\ UNCHANGED lakeVars
    \/ /\ n.listed = o.listed
       /\ o.pc = "collections" /\ n.pc = "refs" /\ n.domains = collections
       /\ UNCHANGED lakeVars
    \/ /\ n.listed = o.listed
       /\ o.pc = "refs" /\ n.pc = "refs"
       /\ \E d \in o.domains :
            /\ n.domains = o.domains \ {d}
            /\ n.refs = o.refs \cup UNION {S3Names(i) : i \in {j \in Items :
                                              DomainOf[j] = d /\ Catalogued(j)}}
       /\ UNCHANGED lakeVars
    \/ /\ n.listed = o.listed /\ n.refs = o.refs
       /\ \/ /\ o.pc = "refs" /\ n.pc = "confirm" /\ o.domains = {}
             /\ n.orphans = o.listed \ o.refs
             /\ UNCHANGED lakeVars
          \/ /\ o.pc = "confirm" /\ n.pc = IF o.orphans = {} THEN "done" ELSE "delete"
             /\ n.orphans = o.orphans
             /\ UNCHANGED lakeVars
          \/ /\ o.pc = "delete"
             /\ \E k \in o.orphans :
                  /\ DeleteObjects({k})
                  /\ n.orphans = o.orphans \ {k}
                  /\ n.pc = IF o.orphans = {k} THEN "done" ELSE "delete"
             /\ UNCHANGED <<collections, catalog>>
          \/ n.pc = "aborted" /\ o.pc # "done" /\ UNCHANGED lakeVars

LEMMA SweepChanges ==
  ASSUME HouseInv, NEW g \in Sweeps, GcStep(g) \/ SweepAborts(g)
  PROVE  SweepChange(g, sweep[g], sweep'[g])
<1> DEFINE o == sweep[g]
           n == sweep'[g]
<1> USE DEF SweepChange
<1>1. o \in SweepStates /\ sweep \in [Sweeps -> SweepStates]
  BY DEF HouseInv, HousekeepingTypeOK, GcTypeOK
<1>2. CASE ListBucket(g)
  BY <1>1, <1>2 DEF ListBucket, SweepStates
<1>3. CASE ReadCollections(g)
  BY <1>1, <1>3 DEF ReadCollections, SweepStates
<1>4. CASE ReadReferences(g)
  <2> DEFINE Names(d) == UNION {S3Names(i) : i \in {j \in Items : DomainOf[j] = d /\ Catalogued(j)}}
  <2>1. PICK d \in o.domains :
          sweep' = [sweep EXCEPT ![g].domains = @ \ {d}, ![g].refs = @ \cup Names(d)]
    BY <1>4 DEF ReadReferences
  <2>2. o.pc = "refs" /\ UNCHANGED lakeVars
    BY <1>4 DEF ReadReferences
  <2> HIDE DEF Names
  <2>3. /\ n.pc = o.pc /\ n.listed = o.listed
        /\ n.domains = o.domains \ {d} /\ n.refs = o.refs \cup Names(d)
    BY <1>1, <2>1 DEF SweepStates
  <2> USE DEF Names
  <2>4. QED
    BY <2>2, <2>3
<1>5. CASE FindOrphans(g)
  BY <1>1, <1>5 DEF FindOrphans, SweepStates
<1>6. CASE ConfirmSweep(g)
  BY <1>1, <1>6 DEF ConfirmSweep, SweepStates
<1>7. CASE DeleteOrphan(g)
  <2>1. PICK k \in o.orphans :
          /\ DeleteObjects({k})
          /\ sweep' = [sweep EXCEPT ![g].orphans = @ \ {k},
                                    ![g].pc = IF o.orphans = {k} THEN "done" ELSE @]
    BY <1>7 DEF DeleteOrphan
  <2>2. o.pc = "delete" /\ UNCHANGED <<collections, catalog>>
    BY <1>7 DEF DeleteOrphan
  <2>3. /\ n.listed = o.listed /\ n.refs = o.refs /\ n.orphans = o.orphans \ {k}
        /\ n.pc = IF o.orphans = {k} THEN "done" ELSE "delete"
    BY <1>1, <2>1, <2>2 DEF SweepStates
  <2>4. QED
    BY <2>1, <2>2, <2>3
<1>8. CASE SweepAborts(g)
  BY <1>1, <1>8 DEF SweepAborts, SweepStates
<1>9. QED
  BY <1>2, <1>3, <1>4, <1>5, <1>6, <1>7, <1>8 DEF GcStep

(* Only the command itself changes its state.                               *)
LEMMA SweepFrame ==
  ASSUME HouseInv, [HousekeepingNext]_keepVars, NEW g \in Sweeps, sweep'[g] # sweep[g]
  PROVE  /\ GcStep(g) \/ SweepAborts(g)
         /\ UNCHANGED <<ingestVars, prune, removal, reused>>
<1>1. ~UNCHANGED sweep
  OBVIOUS
<1>2. CASE GcNext /\ UNCHANGED <<ingestVars, prune, removal, reused>>
  <2>1. PICK f \in Sweeps : GcStep(f) \/ SweepAborts(f)
    BY <1>2 DEF GcNext
  <2>2. f # g => sweep'[g] = sweep[g]
    BY <2>1 DEF GcStep, ListBucket, ReadCollections, ReadReferences, FindOrphans, ConfirmSweep,
                DeleteOrphan, SweepAborts, HouseInv, HousekeepingTypeOK, GcTypeOK
  <2>3. QED
    BY <1>2, <2>1, <2>2
<1>3. QED
  BY <1>1, <1>2 DEF HousekeepingNext, keepers, keepVars, PostByHand, PutByHand, ObjectAges

LEMMA SweptStep ==
  ASSUME HouseInv, [HousekeepingNext]_keepVars, NEW g \in Sweeps, SweptClean(g)
  PROVE  SweptClean(g)'
<1>1. PICK o, n : o = sweep[g] /\ n = sweep'[g]
  OBVIOUS
<1>2. o \in SweepStates
  BY <1>1 DEF HouseInv, HousekeepingTypeOK, GcTypeOK
<1>3. \A k \in o.listed : /\ Rewritten(k) => Rewritten(k)'
                          /\ Stored(k)' => Stored(k) \/ Rewritten(k)'
  BY <1>1, <1>2, WritesLeaveTraces DEF SweepStates
<1>4. /\ o.pc = "confirm" => o.orphans = o.listed \ o.refs
      /\ o.pc \in {"delete", "done"} =>
           /\ o.orphans \subseteq o.listed \ o.refs
           /\ \A k \in (o.listed \ o.refs) \ o.orphans : Stored(k) => Rewritten(k)
      /\ o.pc = "done" => o.orphans = {}
  BY <1>1 DEF SweptClean
<1> SUFFICES /\ n.pc = "confirm" => n.orphans = n.listed \ n.refs
             /\ n.pc \in {"delete", "done"} =>
                  /\ n.orphans \subseteq n.listed \ n.refs
                  /\ \A k \in (n.listed \ n.refs) \ n.orphans : Stored(k)' => Rewritten(k)'
             /\ n.pc = "done" => n.orphans = {}
  BY <1>1 DEF SweptClean
<1>5. CASE n = o
  BY <1>3, <1>4, <1>5
<1>6. CASE n # o
  <2>1. GcStep(g) \/ SweepAborts(g)
    BY <1>1, <1>6, SweepFrame
  <2>2. \A S : DeleteObjects(S) => \A k \in S \cap Keys : ~Stored(k)'
    BY DEF DeleteObjects, Stored
  <2>3. o.orphans \subseteq Keys
    BY <1>2 DEF SweepStates
  <2>4. \/ n.pc \notin {"confirm", "delete", "done"}
        \/ /\ n.listed = o.listed /\ n.refs = o.refs
           /\ \/ n.pc = "confirm" /\ n.orphans = o.listed \ o.refs
              \/ /\ o.pc = "confirm" /\ n.pc = IF o.orphans = {} THEN "done" ELSE "delete"
                 /\ n.orphans = o.orphans
              \/ /\ o.pc = "delete"
                 /\ \E k \in o.orphans :
                      /\ DeleteObjects({k})
                      /\ n.orphans = o.orphans \ {k}
                      /\ n.pc = IF o.orphans = {k} THEN "done" ELSE "delete"
    BY <1>1, <2>1, SweepChanges DEF SweepChange
  <2>5. CASE o.pc = "delete" /\ n.listed = o.listed /\ n.refs = o.refs /\ n.pc # "confirm"
    <3>1. n.pc = "aborted" \/ n.pc \in {"delete", "done"}
      BY <1>1, <2>1, <2>5, SweepChanges DEF SweepChange
    <3>2. CASE n.pc \in {"delete", "done"}
      <4>1. PICK k \in o.orphans : /\ DeleteObjects({k})
                                   /\ n.orphans = o.orphans \ {k}
                                   /\ n.pc = IF o.orphans = {k} THEN "done" ELSE "delete"
        BY <2>4, <2>5, <3>2
      <4>2. ~Stored(k)'
        BY <2>2, <2>3, <4>1
      <4>3. QED
        BY <1>3, <1>4, <2>5, <4>1, <4>2
    <3>3. QED
      BY <3>1, <3>2
  <2>6. QED
    BY <1>3, <1>4, <2>4, <2>5
<1>7. QED
  BY <1>5, <1>6

(* However it meets the others, a sweep that is done has left none of the   *)
(* objects it decided to delete, but for what was written again.            *)
THEOREM SweepAlwaysComplete == HousekeepingSpec => []SweepComplete
<1> DEFINE SweptInv == \A g \in Sweeps : SweptClean(g)
<1>1. HousekeepingInit => SweptInv
  BY DEF HousekeepingInit, GcInit, SweptClean
<1>2. HouseInv /\ SweptInv /\ [HousekeepingNext]_keepVars => SweptInv'
  <2> SUFFICES ASSUME HouseInv, SweptInv, [HousekeepingNext]_keepVars, NEW g \in Sweeps
               PROVE  SweptClean(g)'
    OBVIOUS
  <2>1. QED
    BY SweptStep
<1>3. SweptInv => SweepComplete
  BY DEF SweptClean, SweepComplete, Rewritten
<1>4. QED
  BY <1>1, <1>2, <1>3, HouseAlways, PTL DEF HousekeepingSpec

-----------------------------------------------------------------------------
(* What item delete claims.                                                 *)

(* Where a command stands that deletes an item no task works on.            *)
Claim(c) ==
    /\ removal[c].pc \in {"confirm", "stac", "claimed"} => removal[c].left = {}
    /\ Untouched(Victim[c]) =>
         /\ removal[c].pc = "claimed" => ~Catalogued(Victim[c])
         /\ HasCreds[c] /\ removal[c].pc \in {"assets", "stac", "claimed"} =>
              \A h \in removal[c].hrefs \ removal[c].left :
                 h.scheme = "s3" /\ h.name \in Keys => ~Stored(h.name)

(* What a step of the command changes in its state.                         *)
RemovalChange(c, o, n) ==
    \/ o.pc = "fetch" /\ n.pc = "confirm" /\ n.left = {}
    \/ n.pc = "aborted"
    \/ /\ n.hrefs = o.hrefs
       /\ \/ /\ o.pc = "confirm"
             /\ \/ HasCreds[c] /\ n.pc = "assets" /\ n.left = o.hrefs
                \/ ~HasCreds[c] /\ n.pc = "stac" /\ n.left = o.left
          \/ /\ o.pc = "assets" /\ n.pc = "assets"
             /\ \E h \in o.left : /\ n.left = o.left \ {h}
                                  /\ h.scheme # "s3" \/ DeleteObjects({h.name})
          \/ o.pc = "assets" /\ n.pc = "stac" /\ o.left = {} /\ n.left = {}
          \/ /\ o.pc = "stac" /\ n.pc = "claimed" /\ n.left = o.left
             /\ WriteItem(Victim[c], NoItem) /\ UNCHANGED objects

LEMMA RemovalChanges ==
  ASSUME HouseInv, NEW c \in Removals, ItemDeleteStep(c) \/ RemovalAborts(c)
  PROVE  RemovalChange(c, removal[c], removal'[c])
<1> DEFINE o == removal[c]
           n == removal'[c]
<1> USE DEF RemovalChange
<1>1. /\ o \in RemovalStates /\ removal \in [Removals -> RemovalStates]
      /\ HasCreds[c] \in BOOLEAN
  BY ItemDeleteAssumption DEF HouseInv, HousekeepingTypeOK, ItemDeleteTypeOK
<1>2. CASE FetchItem(c)
  BY <1>1, <1>2 DEF FetchItem, RemovalStates
<1>3. CASE Confirm(c)
  BY <1>1, <1>3 DEF Confirm, RemovalStates
<1>4. CASE SkipAsset(c) \/ DeleteAsset(c)
  <2>1. PICK h \in o.left : /\ removal' = [removal EXCEPT ![c].left = @ \ {h}]
                            /\ h.scheme # "s3" \/ DeleteObjects({h.name})
    BY <1>4 DEF SkipAsset, DeleteAsset
  <2>2. o.pc = "assets"
    BY <1>4 DEF SkipAsset, DeleteAsset
  <2>3. n.pc = o.pc /\ n.hrefs = o.hrefs /\ n.left = o.left \ {h}
    BY <1>1, <2>1 DEF RemovalStates
  <2>4. QED
    BY <2>1, <2>2, <2>3
<1>5. CASE AssetsDone(c)
  BY <1>1, <1>5 DEF AssetsDone, RemovalStates
<1>6. CASE DeleteStac(c)
  BY <1>1, <1>6 DEF DeleteStac, RemovalStates
<1>7. CASE RemovalAborts(c)
  BY <1>1, <1>7 DEF RemovalAborts, RemovalStates
<1>8. QED
  BY <1>2, <1>3, <1>4, <1>5, <1>6, <1>7 DEF ItemDeleteStep

(* Only the command itself changes its state.                               *)
LEMMA RemovalFrame ==
  ASSUME HouseInv, [HousekeepingNext]_keepVars, NEW c \in Removals, removal'[c] # removal[c]
  PROVE  /\ ItemDeleteStep(c) \/ RemovalAborts(c)
         /\ UNCHANGED <<ingestVars, prune, sweep, reused>>
<1>1. ~UNCHANGED removal
  OBVIOUS
<1>2. CASE ItemDeleteNext /\ UNCHANGED <<ingestVars, prune, sweep, reused>>
  <2>1. PICK b \in Removals : ItemDeleteStep(b) \/ RemovalAborts(b)
    BY <1>2 DEF ItemDeleteNext
  <2>2. b # c => removal'[c] = removal[c]
    BY <2>1 DEF ItemDeleteStep, FetchItem, Confirm, SkipAsset, DeleteAsset, AssetsDone, DeleteStac,
                RemovalAborts, HouseInv, HousekeepingTypeOK, ItemDeleteTypeOK
  <2>3. QED
    BY <1>2, <2>1, <2>2
<1>3. QED
  BY <1>1, <1>2 DEF HousekeepingNext, keepers, keepVars, PostByHand, PutByHand, ObjectAges

LEMMA ClaimStep ==
  ASSUME HouseInv, OwnInv, [HousekeepingNext]_keepVars,
         NEW c \in Removals, Victim[c] \notin ByHand, Claim(c)
  PROVE  Claim(c)'
<1>1. PICK o, n : o = removal[c] /\ n = removal'[c]
  OBVIOUS
<1>2. /\ LakeTypeOK /\ Victim[c] \in Items
      /\ Own(Victim[c], o.hrefs) /\ o.left \subseteq o.hrefs
  BY <1>1, ItemDeleteAssumption DEF OwnInv, HouseInv, HousekeepingTypeOK, IngestTypeOK
<1>3. Untouched(Victim[c])' =>
        /\ Untouched(Victim[c])
        /\ Catalogued(Victim[c])' => Catalogued(Victim[c])
        /\ \A k \in FilesOf(Victim[c]) : Stored(k)' => Stored(k)
  BY <1>2, NothingComes
<1>4. \A h \in o.hrefs : h.name \in Keys => h.name \in FilesOf(Victim[c])
  BY <1>2, KeysAreNoFolders DEF Own, FilesOf
<1>5. /\ o.pc \in {"confirm", "stac", "claimed"} => o.left = {}
      /\ Untouched(Victim[c]) =>
           /\ o.pc = "claimed" => ~Catalogued(Victim[c])
           /\ HasCreds[c] /\ o.pc \in {"assets", "stac", "claimed"} =>
                \A h \in o.hrefs \ o.left : h.scheme = "s3" /\ h.name \in Keys => ~Stored(h.name)
  BY <1>1 DEF Claim
<1> SUFFICES /\ n.pc \in {"confirm", "stac", "claimed"} => n.left = {}
             /\ Untouched(Victim[c])' =>
                  /\ n.pc = "claimed" => ~Catalogued(Victim[c])'
                  /\ HasCreds[c] /\ n.pc \in {"assets", "stac", "claimed"} =>
                       \A h \in n.hrefs \ n.left :
                          h.scheme = "s3" /\ h.name \in Keys => ~Stored(h.name)'
  BY <1>1 DEF Claim
<1>6. CASE n = o
  BY <1>3, <1>4, <1>5, <1>6
<1>7. CASE n # o
  <2>1. RemovalChange(c, o, n)
    BY <1>1, <1>7, RemovalFrame, RemovalChanges
  <2>2. \A k \in Keys : DeleteObjects({k}) => ~Stored(k)'
    BY DEF DeleteObjects, Stored
  <2>3. WriteItem(Victim[c], NoItem) => ~Catalogued(Victim[c])'
    BY <1>2 DEF WriteItem, Catalogued, LakeTypeOK
  <2>4. n.pc \in {"confirm", "stac", "claimed"} => n.left = {}
    BY <1>5, <2>1 DEF RemovalChange
  <2>5. Untouched(Victim[c])' /\ n.pc = "claimed" => ~Catalogued(Victim[c])'
    BY <1>5, <2>1, <2>3 DEF RemovalChange
  <2>6. ASSUME Untouched(Victim[c])', HasCreds[c], n.pc \in {"assets", "stac", "claimed"},
               NEW h \in n.hrefs \ n.left, h.scheme = "s3", h.name \in Keys
        PROVE  ~Stored(h.name)'
    <3>1. CASE o.pc = "confirm" /\ n.left = o.hrefs /\ n.hrefs = o.hrefs
      BY <2>6, <3>1
    <3>2. CASE /\ o.pc \in {"assets", "stac"} /\ n.hrefs = o.hrefs
               /\ \/ n.left = o.left
                  \/ \E a \in o.left : /\ n.left = o.left \ {a}
                                       /\ a.scheme # "s3" \/ DeleteObjects({a.name})
      <4>1. CASE h \in o.left
        BY <2>2, <2>6, <3>2, <4>1
      <4>2. CASE h \notin o.left
        BY <1>3, <1>4, <1>5, <2>6, <3>2, <4>2
      <4>3. QED
        BY <4>1, <4>2
    <3>3. QED
      BY <2>1, <2>6, <3>1, <3>2 DEF RemovalChange
  <2>7. QED
    BY <2>4, <2>5, <2>6
<1>8. QED
  BY <1>6, <1>7

(* Where no victim is an item that operators add, a command claims success  *)
(* only when the item is gone and, with credentials, every object it named  *)
(* by an s3 href, unless an ingest task has been at work on the dataset.    *)
THEOREM ClaimsAlwaysCoverS3 ==
  StockNamesItsFiles /\ (\A c \in Removals : Victim[c] \notin ByHand)
    => (HousekeepingSpec => []ClaimsCoverS3)
<1> SUFFICES ASSUME StockNamesItsFiles, \A c \in Removals : Victim[c] \notin ByHand
             PROVE  HousekeepingSpec => []ClaimsCoverS3
  OBVIOUS
<1> DEFINE ClaimInv == \A c \in Removals : Claim(c)
<1>1. HousekeepingInit => ClaimInv
  BY DEF HousekeepingInit, ItemDeleteInit, Claim
<1>2. HouseInv /\ OwnInv /\ ClaimInv /\ [HousekeepingNext]_keepVars => ClaimInv'
  <2> SUFFICES ASSUME HouseInv, OwnInv, ClaimInv, [HousekeepingNext]_keepVars, NEW c \in Removals
               PROVE  Claim(c)'
    OBVIOUS
  <2>1. QED
    BY ClaimStep
<1>3. HouseInv /\ ClaimInv => ClaimsCoverS3
  <2> SUFFICES ASSUME HouseInv, ClaimInv, NEW c \in Removals, removal[c].pc = "claimed",
                      \A r \in Runs : Target[r] = Victim[c] => ~(attempt[r] > 0)
               PROVE  /\ ~Catalogued(Victim[c])
                      /\ HasCreds[c] => \A h \in removal[c].hrefs :
                                           h.scheme = "s3" /\ h.name \in Keys => ~Stored(h.name)
    BY DEF ClaimsCoverS3
  <2>1. Untouched(Victim[c])
    <3>1. \A r \in Runs : attempt[r] \in Nat
      BY DEF HouseInv, HousekeepingTypeOK, IngestTypeOK, TaskTypeOK
    <3>2. QED
      BY <3>1 DEF Untouched
  <2>2. QED
    BY <2>1 DEF Claim
<1>4. QED
  BY <1>1, <1>2, <1>3, OwnAlways, PTL DEF HousekeepingSpec

-----------------------------------------------------------------------------
(* Objects that items name by s3 hrefs.                                     *)

(* The folders that operators fill by hand are not ingest's.                *)
TasksSpareByHand == \A r \in Runs : Target[r] \notin ByHand

(* No item that names an object by s3 href expires.                         *)
DueHasNoS3 == \A i \in Due : \A h \in Stock[i].hrefs : h.scheme # "s3"

(* A collection exists before its items, so gc finds it when it asks.       *)
DomainsInv ==
    /\ \A i \in Items : Catalogued(i) => DomainOf[i] \in collections
    /\ \A r \in Runs : pc[r] \in {"postItem", "putItem"} => DomainOf[Target[r]] \in collections

(* Ingest writes http hrefs only.                                           *)
S3Origin ==
    \A i \in Items : Catalogued(i) /\ S3Names(i) # {} =>
        i \in ByHand \/ (i \in Stocked /\ catalog[i] = Stock[i])

(* What an operator has put where a sweep has listed is known to be new.    *)
FreshInv ==
    \A g \in Sweeps, i \in ByHand : \A k \in FilesOf(i) :
        k \in sweep[g].listed /\ objects[k] = "fresh" => k \in reused

(* How far a sweep that has listed k is from learning that i names it.      *)
Known(s, i, k) ==
    \/ k \in reused
    \/ s.pc \in {"list", "collections", "aborted"}
    \/ s.pc = "refs" /\ (k \in s.refs \/ DomainOf[i] \in s.domains)
    \/ s.pc \in {"confirm", "delete", "done"} /\ k \in s.refs

KnownInv ==
    \A g \in Sweeps, i \in Items : \A k \in S3Names(i) :
        Catalogued(i) /\ k \in sweep[g].listed => Known(sweep[g], i, k)

Excused(i, k) ==
    \/ \E c \in Removals : Victim[c] = i /\ removal[c].pc \in {"assets", "stac", "aborted"}
    \/ /\ k \in reused
       /\ \E g \in Sweeps : /\ sweep[g].pc \in {"delete", "done", "aborted"}
                            /\ k \in sweep[g].listed \ sweep[g].refs

ServedInv ==
    /\ DomainsInv /\ S3Origin /\ FreshInv /\ KnownInv
    /\ \A g \in Sweeps : SweptClean(g)
    /\ \A i \in Items : \A k \in S3Names(i) : Catalogued(i) => Stored(k) \/ Excused(i, k)

LEMMA S3NamesOwn ==
  ASSUME OwnInv, NEW i \in Items, Catalogued(i), NEW k \in S3Names(i)
  PROVE  k \in FilesOf(i)
<1>1. Own(i, catalog[i].hrefs)
  BY DEF OwnInv
<1>2. k \in Keys /\ FolderOfName(k) = PrefixOf[i]
  BY <1>1 DEF Own, S3Names
<1>3. QED
  BY <1>2, KeysAreNoFolders DEF FilesOf

(* Who writes an item that names objects by s3 href is an operator.         *)
LEMMA S3Comes ==
  ASSUME HouseInv, [HousekeepingNext]_keepVars, NEW i \in Items, Catalogued(i)',
         NEW k, k \in S3Names(i)'
  PROVE  \/ catalog'[i] = catalog[i] /\ Catalogued(i) /\ k \in S3Names(i)
         \/ i \in ByHand /\ PostByHand(i) /\ k \in FilesOf(i)
<1>1. LakeTypeOK
  BY DEF HouseInv, HousekeepingTypeOK, IngestTypeOK
<1>2. catalog'[i] = catalog[i] => Catalogued(i) /\ k \in S3Names(i)
  BY DEF Catalogued, S3Names
<1>3. ASSUME NEW j, NEW rec, WriteItem(j, rec), j # i PROVE catalog'[i] = catalog[i]
  BY <1>1, <1>3 DEF WriteItem, LakeTypeOK
<1>4. ASSUME NEW rec, WriteItem(i, rec) PROVE catalog'[i] = rec
  BY <1>1, <1>4 DEF WriteItem, LakeTypeOK
<1>5. ASSUME NEW j, WriteItem(j, NoItem) PROVE catalog'[i] = catalog[i]
  BY <1>3, <1>4, <1>5 DEF Catalogued
<1>6. ASSUME NEW r \in Runs, WriteItem(Target[r], BuildItem(r)) PROVE catalog'[i] = catalog[i]
  <2>1. \A h \in BuildItem(r).hrefs : h.scheme = "http"
    BY DEF BuildItem
  <2>2. catalog'[i] # BuildItem(r)
    BY <2>1 DEF S3Names
  <2>3. QED
    BY <1>3, <1>4, <1>6, <2>2
<1>7. CASE IngestNext /\ UNCHANGED keepers
  BY <1>2, <1>6, <1>7, IngestEffects DEF lakeVars
<1>8. CASE RetentionNext /\ UNCHANGED <<ingestVars, removal, sweep, reused>>
  BY <1>2, <1>5, <1>8, RetentionEffects DEF RetentionNext, lakeVars
<1>9. CASE ItemDeleteNext /\ UNCHANGED <<ingestVars, prune, sweep, reused>>
  BY <1>2, <1>5, <1>9, RemovalEffects DEF ItemDeleteNext, lakeVars
<1>10. CASE GcNext /\ UNCHANGED <<ingestVars, prune, removal, reused>>
  BY <1>2, <1>10, SweepEffects DEF GcNext, lakeVars
<1>11. ASSUME NEW j \in ByHand, PostByHand(j)
       PROVE  catalog'[i] = catalog[i] \/ (i = j /\ k \in FilesOf(i))
  <2>1. PICK c \in Classes : WriteItem(j, PostedByHand(j, c))
    BY <1>11, HandMoves
  <2>2. CASE i = j
    <3>1. catalog'[i].hrefs = {[scheme |-> "s3", name |-> f] : f \in FilesOf(i)}
      BY <1>4, <2>1, <2>2 DEF PostedByHand
    <3>2. QED
      BY <2>2, <3>1 DEF S3Names
  <2>3. QED
    BY <1>3, <2>1, <2>2
<1>12. ASSUME NEW j \in ByHand, NEW f \in Keys, PutByHand(j, f) PROVE catalog'[i] = catalog[i]
  BY <1>12 DEF PutByHand
<1>13. ASSUME NEW f \in Keys, ObjectAges(f) PROVE catalog'[i] = catalog[i]
  BY <1>13 DEF ObjectAges
<1>14. CASE UNCHANGED keepVars
  BY <1>2, <1>14 DEF keepVars, vars, lakeVars
<1>15. QED
  BY <1>2, <1>7, <1>8, <1>9, <1>10, <1>11, <1>12, <1>13, <1>14 DEF HousekeepingNext

LEMMA CollectionsGrow ==
  ASSUME HouseInv, [HousekeepingNext]_keepVars
  PROVE  collections \subseteq collections'
<1>1. IngestNext => collections \subseteq collections'
  BY IngestEffects DEF lakeVars
<1>2. RetentionNext => collections \subseteq collections'
  BY RetentionEffects DEF RetentionNext, lakeVars
<1>3. ItemDeleteNext => collections \subseteq collections'
  BY RemovalEffects DEF ItemDeleteNext, lakeVars
<1>4. GcNext => collections \subseteq collections'
  BY SweepEffects DEF GcNext, lakeVars
<1>5. QED
  BY <1>1, <1>2, <1>3, <1>4
     DEF HousekeepingNext, PostByHand, PutByHand, ObjectAges, keepVars, vars, lakeVars

LEMMA DomainsStep ==
  ASSUME HouseInv, DomainsInv, [HousekeepingNext]_keepVars
  PROVE  DomainsInv'
<1>1. /\ LakeTypeOK /\ TaskTypeOK /\ TypeInv /\ collections \subseteq collections'
      /\ \A r \in Runs : Target[r] \in Items
  BY CollectionsGrow, IngestAssumption DEF HouseInv, HousekeepingTypeOK, IngestTypeOK, TypeInv
<1>2. ASSUME NEW i, NEW rec, WriteItem(i, rec), rec = NoItem \/ DomainOf[i] \in collections'
      PROVE  \A j \in Items : Catalogued(j)' => DomainOf[j] \in collections'
  BY <1>1, <1>2 DEF DomainsInv, WriteItem, LakeTypeOK, Catalogued
<1>3. ASSUME catalog' = catalog
      PROVE  \A j \in Items : Catalogued(j)' => DomainOf[j] \in collections'
  BY <1>1, <1>3 DEF DomainsInv, Catalogued
<1>4. ASSUME UNCHANGED ingestVars
      PROVE  \A r \in Runs : pc'[r] \in {"postItem", "putItem"} => DomainOf[Target[r]] \in collections'
  BY <1>1, <1>4 DEF DomainsInv, ingestVars, taskVars
<1>5. CASE IngestNext /\ UNCHANGED keepers
  <2>1. \A j \in Items : Catalogued(j)' => DomainOf[j] \in collections'
    <3>1. \A r \in Runs : pc[r] \in {"postItem", "putItem"} => DomainOf[Target[r]] \in collections'
      BY <1>1 DEF DomainsInv
    <3>2. QED
      BY <1>2, <1>3, <1>5, <3>1, IngestEffects DEF lakeVars
  <2>2. ASSUME NEW r \in Runs, pc'[r] \in {"postItem", "putItem"}
        PROVE  DomainOf[Target[r]] \in collections'
    <3>1. CASE pc[r] \in {"postItem", "putItem"}
      BY <1>1, <3>1 DEF DomainsInv
    <3>2. CASE pc[r] \notin {"postItem", "putItem"}
      <4>1. ASSUME NEW f \in Flows, FlowStep(f) \/ FlowFault(f)
            PROVE  pc'[r] = pc[r] \/ pc'[r] = "lost"
        BY <1>1, <4>1 DEF FlowStep, FlowFault, StartFlow, FetchFails, CompleteFlow, FailFlow,
                          CrashFlow, taskVars, TaskTypeOK
      <4>2. TaskStep(r) \/ TaskFault(r)
        BY <1>1, <1>5, <2>2, <3>2, <4>1, TaskFrame DEF IngestNext
      <4>3. ProbeCollection(r) \/ CreateCollection(r)
        <5> USE DEF Goto, Advance, Return, Raise, Fault, LoseRace, TaskTypeOK
        <5>1. CASE TaskStep(r)
          BY <1>1, <2>2, <3>2, <5>1 DEF TaskStep, StartAttempt, Validate, ProbeItem, Transform,
                                        UploadFile, UploadDone, PostItem, PutItem
        <5>2. CASE TaskFault(r)
          BY <1>1, <2>2, <3>2, <5>2 DEF TaskFault, UseCachedResult, ProbeItemFails, CallFails,
                                        AnswerLost
        <5>3. QED
          BY <4>2, <5>1, <5>2
      <4>4. QED
        BY <1>1, <2>2, <4>3 DEF ProbeCollection, CreateCollection, Advance, Goto, LoseRace, Raise,
                                TaskTypeOK
    <3>3. QED
      BY <3>1, <3>2
  <2>3. QED
    BY <2>1, <2>2 DEF DomainsInv
<1>6. CASE RetentionNext /\ UNCHANGED <<ingestVars, removal, sweep, reused>>
  BY <1>2, <1>3, <1>4, <1>6, RetentionEffects DEF RetentionNext, lakeVars, DomainsInv
<1>7. CASE ItemDeleteNext /\ UNCHANGED <<ingestVars, prune, sweep, reused>>
  BY <1>2, <1>3, <1>4, <1>7, RemovalEffects DEF ItemDeleteNext, lakeVars, DomainsInv
<1>8. CASE GcNext /\ UNCHANGED <<ingestVars, prune, removal, reused>>
  BY <1>3, <1>4, <1>8, SweepEffects DEF GcNext, lakeVars, DomainsInv
<1>9. ASSUME NEW i \in ByHand, PostByHand(i) PROVE DomainsInv'
  <2>1. DomainOf[i] \in collections' /\ UNCHANGED ingestVars
    BY <1>9 DEF PostByHand
  <2>2. PICK c \in Classes : WriteItem(i, PostedByHand(i, c))
    BY <1>9, HandMoves
  <2>3. QED
    BY <1>2, <1>4, <2>1, <2>2 DEF DomainsInv
<1>10. ASSUME NEW i \in ByHand, NEW k \in Keys, PutByHand(i, k) PROVE DomainsInv'
  BY <1>3, <1>4, <1>10 DEF PutByHand, DomainsInv
<1>11. ASSUME NEW k \in Keys, ObjectAges(k) PROVE DomainsInv'
  BY <1>3, <1>4, <1>11 DEF ObjectAges, DomainsInv
<1>12. CASE UNCHANGED keepVars
  BY <1>3, <1>4, <1>12 DEF keepVars, vars, lakeVars, DomainsInv
<1>13. QED
  BY <1>5, <1>6, <1>7, <1>8, <1>9, <1>10, <1>11, <1>12 DEF HousekeepingNext

LEMMA ReusedGrows ==
  ASSUME [HousekeepingNext]_keepVars
  PROVE  reused \subseteq reused'
BY DEF HousekeepingNext, keepers, PostByHand, PutByHand, ObjectAges, keepVars

(* Who makes an object of such a folder fresh is an operator.               *)
LEMMA FreshComes ==
  ASSUME TasksSpareByHand, HouseInv, [HousekeepingNext]_keepVars,
         NEW i \in ByHand, NEW k \in FilesOf(i), objects[k] # "fresh", objects'[k] = "fresh"
  PROVE  \E j \in ByHand : PutByHand(j, k)
<1>1. LakeTypeOK /\ k \in Keys /\ i \in Items
  BY HandMoves DEF HouseInv, HousekeepingTypeOK, IngestTypeOK, FilesOf
<1>2. ASSUME NEW j, PutObject(j) PROVE j = k
  BY <1>1, <1>2 DEF PutObject, LakeTypeOK
<1>3. ASSUME NEW S, DeleteObjects(S) PROVE FALSE
  BY <1>1, <1>3 DEF DeleteObjects
<1>4. ~UNCHANGED objects
  OBVIOUS
<1>5. ~(IngestNext /\ UNCHANGED keepers)
  <2>1. \A r \in Runs : k \notin todo[r]
    BY <1>1, FoldersApart, IngestAssumption DEF HouseInv, TaskOk, TasksSpareByHand, FilesOf
  <2>2. QED
    BY <1>2, <1>4, <2>1, IngestEffects DEF lakeVars
<1>6. ~(RetentionNext /\ UNCHANGED <<ingestVars, removal, sweep, reused>>)
  BY <1>3, <1>4, RetentionEffects DEF RetentionNext, lakeVars
<1>7. ~(ItemDeleteNext /\ UNCHANGED <<ingestVars, prune, sweep, reused>>)
  BY <1>3, <1>4, RemovalEffects DEF ItemDeleteNext, lakeVars
<1>8. ~(GcNext /\ UNCHANGED <<ingestVars, prune, removal, reused>>)
  BY <1>3, <1>4, SweepEffects DEF GcNext, lakeVars
<1>9. ASSUME NEW j \in Keys PROVE ~ObjectAges(j)
  BY <1>1 DEF ObjectAges, LakeTypeOK
<1>10. ASSUME NEW j \in ByHand PROVE ~PostByHand(j)
  BY <1>4 DEF PostByHand
<1>11. \A j \in ByHand, f \in Keys : PutByHand(j, f) => f = k
  BY <1>2 DEF PutByHand
<1>12. QED
  BY <1>4, <1>5, <1>6, <1>7, <1>8, <1>9, <1>10, <1>11 DEF HousekeepingNext, keepVars, vars, lakeVars

LEMMA FreshStep ==
  ASSUME TasksSpareByHand, HouseInv, FreshInv, [HousekeepingNext]_keepVars
  PROVE  FreshInv'
<1> SUFFICES ASSUME NEW g \in Sweeps, NEW i \in ByHand, NEW k \in FilesOf(i),
                    k \in sweep'[g].listed, objects'[k] = "fresh"
             PROVE  k \in reused'
  BY DEF FreshInv, FilesOf
<1>1. CASE k \in sweep[g].listed /\ objects[k] = "fresh"
  BY <1>1, ReusedGrows DEF FreshInv
<1>2. CASE objects[k] # "fresh"
  <2>1. PICK j \in ByHand : PutByHand(j, k)
    BY <1>2, FreshComes
  <2>2. k \in sweep[g].listed
    BY <2>1 DEF PutByHand
  <2>3. QED
    BY <2>1, <2>2 DEF PutByHand
<1>3. CASE k \notin sweep[g].listed /\ objects[k] = "fresh"
  <2>1. SweepChange(g, sweep[g], sweep'[g])
    BY <1>3, SweepFrame, SweepChanges
  <2>2. sweep'[g].listed # sweep[g].listed
    BY <1>3
  <2>3. QED
    BY <1>3, <2>1, <2>2 DEF SweepChange
<1>4. QED
  BY <1>1, <1>2, <1>3

LEMMA OriginStep ==
  ASSUME HouseInv, S3Origin, [HousekeepingNext]_keepVars
  PROVE  S3Origin'
<1> SUFFICES ASSUME NEW i \in Items, Catalogued(i)', NEW k, k \in S3Names(i)', i \notin ByHand
             PROVE  i \in Stocked /\ catalog'[i] = Stock[i]
  BY DEF S3Origin
<1>1. catalog'[i] = catalog[i] /\ Catalogued(i) /\ k \in S3Names(i)
  BY S3Comes
<1>2. QED
  BY <1>1 DEF S3Origin

LEMMA KnownStep ==
  ASSUME HouseInv, DomainsInv, FreshInv, KnownInv, [HousekeepingNext]_keepVars
  PROVE  KnownInv'
<1> SUFFICES ASSUME NEW g \in Sweeps, NEW i \in Items, Catalogued(i)',
                    NEW k, k \in S3Names(i)', k \in sweep'[g].listed,
                    NEW o, o = sweep[g], NEW n, n = sweep'[g]
             PROVE  Known(n, i, k)'
  BY DEF KnownInv, Known
<1>1. reused \subseteq reused'
  BY ReusedGrows
<1>2. CASE i \in ByHand /\ PostByHand(i) /\ k \in FilesOf(i)
  <2>1. k \in sweep[g].listed /\ Stored(k) /\ k \in Keys
    BY <1>2 DEF PostByHand, FilesOf
  <2>2. objects[k] \in {"fresh", "aged"}
    BY <2>1 DEF HouseInv, HousekeepingTypeOK, IngestTypeOK, LakeTypeOK, Stored
  <2>3. k \in reused'
    BY <1>2, <2>1, <2>2 DEF PostByHand, FreshInv
  <2>4. QED
    BY <2>3 DEF Known
<1>3. CASE catalog'[i] = catalog[i] /\ Catalogued(i) /\ k \in S3Names(i)
  <2>1. k \in o.listed => Known(o, i, k)
    BY <1>3 DEF KnownInv
  <2>2. CASE n = o
    BY <1>1, <2>1, <2>2 DEF Known
  <2>3. CASE n # o
    <3>1. SweepChange(g, o, n)
      BY <2>3, SweepFrame, SweepChanges
    <3>2. CASE n.pc \in {"collections", "aborted"}
      BY <3>2 DEF Known
    <3>3. CASE o.pc = "collections" /\ n.pc = "refs" /\ n.domains = collections
      BY <1>3, <3>3 DEF Known, DomainsInv
    <3>4. CASE /\ n.listed = o.listed /\ o.pc = "refs" /\ n.pc = "refs"
               /\ \E d \in o.domains :
                    /\ n.domains = o.domains \ {d}
                    /\ n.refs = o.refs \cup UNION {S3Names(j) : j \in {m \in Items :
                                                      DomainOf[m] = d /\ Catalogued(m)}}
      <4>1. PICK d \in o.domains :
              /\ n.domains = o.domains \ {d}
              /\ n.refs = o.refs \cup UNION {S3Names(j) : j \in {m \in Items :
                                                DomainOf[m] = d /\ Catalogued(m)}}
        BY <3>4
      <4>2. DomainOf[i] = d => k \in n.refs
        BY <1>3, <4>1
      <4>3. k \in reused \/ k \in n.refs \/ DomainOf[i] \in n.domains
        BY <2>1, <3>4, <4>1, <4>2 DEF Known
      <4>4. QED
        BY <1>1, <3>4, <4>3 DEF Known
    <3>5. CASE /\ n.listed = o.listed /\ n.refs = o.refs
               /\ \/ o.pc = "refs" /\ n.pc = "confirm" /\ o.domains = {}
                  \/ o.pc \in {"confirm", "delete"} /\ n.pc \in {"delete", "done"}
      BY <1>1, <2>1, <3>5 DEF Known
    <3>6. QED
      BY <3>1, <3>2, <3>3, <3>4, <3>5 DEF SweepChange
  <2>4. QED
    BY <2>2, <2>3
<1>4. QED
  BY <1>2, <1>3, S3Comes

LEMMA ExcusedStep ==
  ASSUME HouseInv, [HousekeepingNext]_keepVars, NEW i \in Items, Catalogued(i)',
         NEW k, Excused(i, k)
  PROVE  Excused(i, k)'
<1>1. ASSUME NEW c \in Removals, Victim[c] = i, removal[c].pc \in {"assets", "stac", "aborted"}
      PROVE  removal'[c].pc \in {"assets", "stac", "aborted"}
  <2>1. CASE removal'[c] = removal[c]
    BY <1>1, <2>1
  <2>2. CASE removal'[c] # removal[c]
    <3>1. RemovalChange(c, removal[c], removal'[c])
      BY <2>2, RemovalFrame, RemovalChanges
    <3>2. ~WriteItem(i, NoItem)
      BY DEF WriteItem, Catalogued, HouseInv, HousekeepingTypeOK, IngestTypeOK, LakeTypeOK
    <3>3. QED
      BY <1>1, <3>1, <3>2 DEF RemovalChange
  <2>3. QED
    BY <2>1, <2>2
<1>2. ASSUME NEW g \in Sweeps, sweep[g].pc \in {"delete", "done", "aborted"}
      PROVE  /\ sweep'[g].pc \in {"delete", "done", "aborted"}
             /\ sweep'[g].listed = sweep[g].listed /\ sweep'[g].refs = sweep[g].refs
  <2>1. CASE sweep'[g] = sweep[g]
    BY <1>2, <2>1
  <2>2. CASE sweep'[g] # sweep[g]
    <3>1. SweepChange(g, sweep[g], sweep'[g])
      BY <2>2, SweepFrame, SweepChanges
    <3>2. QED
      BY <1>2, <3>1 DEF SweepChange
  <2>3. QED
    BY <2>1, <2>2
<1>3. QED
  BY <1>1, <1>2, ReusedGrows DEF Excused

LEMMA ServedStep ==
  ASSUME StockNamesItsFiles, DueHasNoS3, HouseInv, OwnInv, ServedInv, [HousekeepingNext]_keepVars,
         NEW i \in Items, Catalogued(i)', NEW k, k \in S3Names(i)'
  PROVE  Stored(k)' \/ Excused(i, k)'
<1>1. CASE i \in ByHand /\ PostByHand(i) /\ k \in FilesOf(i)
  BY <1>1 DEF PostByHand, Stored
<1>2. CASE catalog'[i] = catalog[i] /\ Catalogued(i) /\ k \in S3Names(i)
  <2>1. k \in FilesOf(i) /\ k \in Keys
    BY <1>2, S3NamesOwn DEF FilesOf
  <2>2. CASE Excused(i, k)
    BY <2>2, ExcusedStep
  <2>3. CASE Stored(k) /\ ~Stored(k)'
    <3>1. ASSUME NEW p \in Prunes, prune[p].item \in Due, k \in FilesOf(prune[p].item)
          PROVE  FALSE
      <4>1. i \in Due
        BY <2>1, <3>1, FoldersApart, DueIsStocked
      <4>2. catalog[i] = Stock[i]
        BY <1>2, <4>1, DueIsStocked DEF ServedInv, S3Origin
      <4>3. QED
        BY <1>2, <4>1, <4>2 DEF S3Names, DueHasNoS3
    <3>2. ASSUME NEW c \in Removals, removal[c].pc = "assets", k \in FilesOf(Victim[c]),
                 ItemDeleteStep(c) \/ RemovalAborts(c)
          PROVE  Excused(i, k)'
      <4>1. Victim[c] = i
        BY <2>1, <3>2, FoldersApart, ItemDeleteAssumption
      <4>2. Excused(i, k)
        BY <3>2, <4>1 DEF Excused
      <4>3. QED
        BY <4>2, ExcusedStep
    <3>3. ASSUME NEW g \in Sweeps, sweep[g].pc = "delete", k \in sweep[g].orphans
          PROVE  Excused(i, k)'
      <4>1. k \in sweep[g].listed \ sweep[g].refs
        BY <3>3 DEF ServedInv, SweptClean
      <4>2. Known(sweep[g], i, k)
        BY <1>2, <4>1 DEF ServedInv, KnownInv
      <4>3. k \in reused
        BY <3>3, <4>1, <4>2 DEF Known
      <4>4. Excused(i, k)
        BY <3>3, <4>1, <4>3 DEF Excused
      <4>5. QED
        BY <4>4, ExcusedStep
    <3>4. QED
      BY <2>1, <2>3, <3>1, <3>2, <3>3, FilesLost
  <2>4. QED
    BY <1>2, <2>2, <2>3 DEF ServedInv
<1>3. QED
  BY <1>1, <1>2, S3Comes

LEMMA ServedInit ==
  ASSUME StockNamesItsFiles, HousekeepingInit
  PROVE  ServedInv
<1>1. HouseInv /\ OwnInv
  BY HouseInit, OwnInit
<1>2. DomainsInv
  BY DEF HousekeepingInit, IngestInit, DomainsInv, Stocked, Catalogued
<1>3. S3Origin
  BY DEF HousekeepingInit, S3Origin, Stocked, Catalogued
<1>4. \A g \in Sweeps : sweep[g].listed = {} /\ SweptClean(g)
  BY DEF HousekeepingInit, GcInit, SweptClean
<1>5. FreshInv /\ KnownInv
  BY <1>4 DEF FreshInv, KnownInv
<1>6. ASSUME NEW i \in Items, NEW k \in S3Names(i), Catalogued(i) PROVE Stored(k)
  <2>1. k \in FilesOf(i) /\ k \in Keys
    BY <1>1, <1>6, S3NamesOwn DEF FilesOf
  <2>2. i \in Stocked
    BY <1>6 DEF HousekeepingInit, Stocked, Catalogued
  <2>3. QED
    BY <2>1, <2>2 DEF HousekeepingInit, Stored
<1>7. QED
  BY <1>2, <1>3, <1>4, <1>5, <1>6 DEF ServedInv

(* Where ingest keeps out of the folders operators fill, and no item with   *)
(* s3 hrefs expires, an object that an item names by s3 href is missing     *)
(* only while somebody deletes that item, or when gc deletes by an age that *)
(* it read before the object was written again.                             *)
THEOREM S3NamesAlwaysServed ==
  StockNamesItsFiles /\ TasksSpareByHand /\ DueHasNoS3
    => (HousekeepingSpec => []S3NamesAreServed)
<1> SUFFICES ASSUME StockNamesItsFiles, TasksSpareByHand, DueHasNoS3
             PROVE  HousekeepingSpec => []S3NamesAreServed
  OBVIOUS
<1>1. HousekeepingInit => ServedInv
  BY ServedInit
<1>2. HouseInv /\ OwnInv /\ ServedInv /\ [HousekeepingNext]_keepVars => ServedInv'
  <2> SUFFICES ASSUME HouseInv, OwnInv, ServedInv, [HousekeepingNext]_keepVars
               PROVE  ServedInv'
    OBVIOUS
  <2>1. DomainsInv' /\ S3Origin' /\ FreshInv' /\ KnownInv'
    BY DomainsStep, OriginStep, FreshStep, KnownStep DEF ServedInv
  <2>2. \A g \in Sweeps : SweptClean(g)'
    BY SweptStep DEF ServedInv
  <2>3. \A i \in Items : Catalogued(i)' => \A k \in S3Names(i)' : Stored(k)' \/ Excused(i, k)'
    BY ServedStep
  <2>4. QED
    BY <2>1, <2>2, <2>3 DEF ServedInv
<1>3. ServedInv => S3NamesAreServed
  BY DEF ServedInv, Excused, S3NamesAreServed
<1>4. QED
  BY <1>1, <1>2, <1>3, OwnAlways, PTL DEF HousekeepingSpec
=============================================================================
