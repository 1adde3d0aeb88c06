--------------------------- MODULE AnnotateProofs ---------------------------
(***************************************************************************)
(* What the catalogue promises survives its unconditional writes: for any   *)
(* number of ingest tasks, enrich runs, tiles jobs and edits, whatever an   *)
(* item is made to hold, by whoever wrote it last, can be fetched.          *)
(***************************************************************************)
EXTENDS Annotate, IngestProofs

Link(j) == [scheme |-> "http", name |-> TilesetJson[j]]

Uploaded(j) == \A k \in TileKeys[j] : Stored(k)

(* What the item record rec of i refers to is there: the files of its       *)
(* dataset, and where it links a tileset the tiles of a job that uploaded   *)
(* one by that name.                                                        *)
HoldsUp(i, rec) ==
    /\ rec.run \in Runs
    /\ Target[rec.run] = i
    /\ Whole(rec.run)
    /\ \A j \in TileJobs : Link(j) \in rec.hrefs
           => \E k \in TileJobs : TilesetJson[k] = TilesetJson[j] /\ Uploaded(k)

(* The versions of i that can be in the catalogue now or later: the current *)
(* one, and those that a job has read and may write back.                   *)
Known(i) ==
    ({catalog[i]} \cup {enrich[e].read[i] : e \in Enrichers}
        \cup {tiles[j].read : j \in {k \in TileJobs : Cloud[k] = i}}) \ {NoItem}

KnownHoldUp == \A i \in Items : \A rec \in Known(i) : HoldsUp(i, rec)

(* An enrich run has read the items it still has to handle.                 *)
HasRead(e) ==
    /\ \A i \in enrich[e].todo : enrich[e].read[i] # NoItem
    /\ enrich[e].pc \in {"ask", "put"} =>
         enrich[e].item \in Items /\ enrich[e].read[enrich[e].item] # NoItem

(* A tiles job patches its item after the last of its uploads.              *)
HasUploaded(j) ==
    /\ tiles[j].pc = "upload" => \A k \in TileKeys[j] \ tiles[j].todo : Stored(k)
    /\ tiles[j].pc \in {"get", "put"} => Uploaded(j)
    /\ tiles[j].pc = "put" => tiles[j].read # NoItem

WritersTypeOK == EnrichTypeOK /\ TilesTypeOK /\ edited \subseteq Items

WritersInv ==
    /\ WritersTypeOK
    /\ \A e \in Enrichers : HasRead(e)
    /\ \A j \in TileJobs : HasUploaded(j)

AnnotateInv == TypeInv /\ UploadsKept /\ WritersInv /\ KnownHoldUp

-----------------------------------------------------------------------------
(* Nothing is deleted, so that what held up once holds up for good.         *)

Kept == \A k \in Keys : Stored(k) => Stored(k)'

LEMMA HoldsUpKept ==
  ASSUME Kept, NEW i \in Items, NEW rec, HoldsUp(i, rec)
  PROVE  HoldsUp(i, rec)'
<1>1. ASSUME NEW r \in Runs, Whole(r) PROVE Whole(r)'
  BY <1>1, IngestAssumption DEF Kept, Whole, IngestAssumption
<1>2. ASSUME NEW j \in TileJobs, Uploaded(j) PROVE Uploaded(j)'
  BY <1>2, TilesAssumption DEF Kept, Uploaded, TilesAssumption
<1>3. QED
  BY <1>1, <1>2 DEF HoldsUp

(* A version that is written or read anew has to be looked at, and no other. *)
LEMMA KnownStep ==
  ASSUME KnownHoldUp, Kept,
         \A i \in Items : \A rec \in Known(i)' : rec \in Known(i) \/ HoldsUp(i, rec)
  PROVE  KnownHoldUp'
BY HoldsUpKept DEF KnownHoldUp

LEMMA HasUploadedKept ==
  ASSUME Kept, NEW j \in TileJobs, HasUploaded(j), tiles'[j] = tiles[j]
  PROVE  HasUploaded(j)'
BY TilesAssumption DEF HasUploaded, Kept, Uploaded, TilesAssumption

(* What ingest posts: the dataset of its task, and no tileset.              *)
LEMMA PostedHoldsUp ==
  ASSUME NEW r \in Runs, Whole(r)
  PROVE  HoldsUp(Target[r], BuildItem(r))
<1>1. ASSUME NEW j \in TileJobs PROVE Link(j) \notin BuildItem(r).hrefs
  <2>1. TilesetJson[j] \notin AssetNames(r)
    BY AnnotateAssumption, IngestAssumption, LakeAssumption, TilesAssumption
       DEF AnnotateAssumption, IngestAssumption, LakeAssumption, TilesAssumption, AssetNames
  <2>2. QED
    BY <2>1 DEF Link, BuildItem
<1>2. BuildItem(r).run = r
  BY DEF BuildItem
<1>3. QED
  BY <1>1, <1>2 DEF HoldsUp

(* What a job or a curator makes of a version that holds up.                *)
LEMMA RewrittenHoldsUp ==
  ASSUME NEW i \in Items, NEW rec, NEW new, HoldsUp(i, rec),
         new.run = rec.run, new.hrefs = rec.hrefs
  PROVE  HoldsUp(i, new)
BY DEF HoldsUp

-----------------------------------------------------------------------------
(* Ingest next to the other writers.                                        *)

LEMMA IngestKeepsInv ==
  ASSUME AnnotateInv, [Next]_vars, UNCHANGED writers
  PROVE  AnnotateInv'
<1>1. TypeInv' /\ UploadsKept' /\ Kept
  BY TypeStep, UploadsStep, Monotone DEF AnnotateInv, Kept
<1>2. UNCHANGED enrich /\ UNCHANGED tiles /\ UNCHANGED edited
  BY DEF writers
<1>3. WritersInv'
  <2>1. WritersTypeOK'
    BY <1>2 DEF AnnotateInv, WritersInv, WritersTypeOK, EnrichTypeOK, TilesTypeOK
  <2>2. \A e \in Enrichers : HasRead(e)'
    BY <1>2 DEF AnnotateInv, WritersInv, HasRead
  <2>3. \A j \in TileJobs : HasUploaded(j)'
    BY <1>1, <1>2, HasUploadedKept DEF AnnotateInv, WritersInv
  <2>4. QED
    BY <2>1, <2>2, <2>3 DEF WritersInv
<1>4. ASSUME NEW i \in Items, NEW rec \in Known(i)' PROVE rec \in Known(i) \/ HoldsUp(i, rec)
  <2>1. CASE catalog'[i] = catalog[i]
    BY <1>2, <1>4, <2>1 DEF Known
  <2>2. CASE catalog'[i] # catalog[i]
    <3>1. PICK r \in Runs : /\ pc[r] \in {"postItem", "putItem"}
                            /\ WriteItem(Target[r], BuildItem(r))
      BY <2>2, CatalogSteps DEF AnnotateInv
    <3>2. Target[r] = i /\ catalog'[i] = BuildItem(r)
      BY <2>2, <3>1 DEF WriteItem, AnnotateInv, TypeInv, IngestTypeOK, LakeTypeOK
    <3>3. HoldsUp(i, BuildItem(r))
      BY <3>1, <3>2, PostedHoldsUp DEF AnnotateInv, UploadsKept, UploadKept, Whole
    <3>4. rec \in Known(i) \/ rec = BuildItem(r)
      BY <1>2, <1>4, <3>2 DEF Known
    <3>5. QED
      BY <3>3, <3>4
  <2>3. QED
    BY <2>1, <2>2
<1>5. KnownHoldUp'
  BY <1>1, <1>4, KnownStep DEF AnnotateInv
<1>6. QED
  BY <1>1, <1>3, <1>5 DEF AnnotateInv

(* The writers that are not ingest leave its tasks alone.                   *)
LEMMA TasksUntouched ==
  ASSUME TypeInv, UploadsKept, LakeTypeOK', Kept, UNCHANGED ingestVars
  PROVE  TypeInv' /\ UploadsKept'
<1>1. TypeInv'
  BY DEF TypeInv, IngestTypeOK, TaskTypeOK, AttemptsLeft, ingestVars, taskVars
<1>2. UNCHANGED pc /\ UNCHANGED todo
  BY DEF ingestVars, taskVars
<1>3. UploadsKept'
  BY <1>2, IngestAssumption DEF UploadsKept, UploadKept, Kept, IngestAssumption, Whole
<1>4. QED
  BY <1>1, <1>3

-----------------------------------------------------------------------------
(* The enrich flow.                                                         *)

LEMMA AnsweredType ==
  ASSUME EnrichTypeOK, NEW e \in Enrichers, NEW i \in Items, NEW a \in Answers, Answered(e, i, a)
  PROVE  /\ EnrichTypeOK'
         /\ enrich'[e].read = enrich[e].read
         /\ enrich'[e].todo = enrich[e].todo \ {i}
         /\ enrich'[e].pc = "next"
         /\ \A f \in Enrichers \ {e} : enrich'[f] = enrich[f]
<1> DEFINE o == enrich[e]
           ans == [o.answer EXCEPT ![i] = a]
           s == [o EXCEPT !.pc = "next", !.todo = o.todo \ {i}, !.item = NoItem,
                          !.titled = FALSE, !.answer = ans]
<1>1. o \in EnrichStates
  BY DEF EnrichTypeOK
<1>2. ans \in [Items -> Answers]
  BY <1>1 DEF EnrichStates
<1> HIDE DEF ans
<1>3. /\ s \in EnrichStates /\ s.read = o.read /\ s.todo = o.todo \ {i} /\ s.pc = "next"
  BY <1>1, <1>2 DEF EnrichStates
<1>4. enrich' = [enrich EXCEPT ![e] = s]
  BY <1>1 DEF Answered, EnrichTypeOK, EnrichStates, ans
<1> HIDE DEF s
<1>5. QED
  BY <1>3, <1>4 DEF EnrichTypeOK

(* Each step of an enrich run, of the things that count here: it drops an   *)
(* item, takes one up, or reads the catalogue; and what it writes is a      *)
(* version it has read.                                                     *)
LEMMA EnrichEffect ==
  ASSUME AnnotateInv, NEW e \in Enrichers, EnrichStep(e) \/ EnrichFault(e)
  PROVE  /\ UNCHANGED <<collections, objects>>
         /\ EnrichTypeOK'
         /\ HasRead(e)'
         /\ \A f \in Enrichers \ {e} : enrich'[f] = enrich[f]
         /\ \A i \in Items : enrich'[e].read[i] \in {enrich[e].read[i], catalog[i], NoItem}
         /\ \/ UNCHANGED catalog
            \/ \E i \in Items, b \in BOOLEAN :
                 /\ enrich[e].read[i] # NoItem
                 /\ catalog' = [catalog EXCEPT ![i] = [enrich[e].read[i] EXCEPT !.enriched = b]]
<1> DEFINE o == enrich[e]
<1>0. /\ EnrichTypeOK /\ o \in EnrichStates /\ HasRead(e)
      /\ catalog \in [Items -> ItemRecords \cup {NoItem}]
  BY DEF AnnotateInv, WritersInv, WritersTypeOK, EnrichTypeOK, TypeInv, IngestTypeOK, LakeTypeOK
<1>1. ASSUME NEW i \in Items, NEW a \in Answers, Answered(e, i, a)
      PROVE  /\ EnrichTypeOK' /\ HasRead(e)'
             /\ \A f \in Enrichers \ {e} : enrich'[f] = enrich[f]
             /\ enrich'[e].read = o.read
  BY <1>0, <1>1, AnsweredType DEF HasRead
<1>2. ASSUME NEW s \in EnrichStates, enrich' = [enrich EXCEPT ![e] = s]
      PROVE  /\ EnrichTypeOK' /\ enrich'[e] = s
             /\ \A f \in Enrichers \ {e} : enrich'[f] = enrich[f]
  BY <1>0, <1>2 DEF EnrichTypeOK
<1>3. CASE ListItems(e)
  <2>1. PICK T \in Listings(InCollection(Collection[e])) :
          enrich' = [enrich EXCEPT ![e].pc = "next", ![e].todo = T,
             ![e].read = [i \in Items |-> IF i \in T THEN catalog[i] ELSE NoItem]]
    BY <1>3 DEF ListItems
  <2> DEFINE read == [i \in Items |-> IF i \in T THEN catalog[i] ELSE NoItem]
             s == [o EXCEPT !.pc = "next", !.todo = T, !.read = read]
  <2>2. T \subseteq Items /\ \A i \in T : Catalogued(i)
    BY <2>1 DEF Listings, InCollection
  <2>3. read \in [Items -> ItemRecords \cup {NoItem}]
    BY <1>0
  <2>4. \A i \in Items : read[i] = IF i \in T THEN catalog[i] ELSE NoItem
    OBVIOUS
  <2>5. enrich' = [enrich EXCEPT ![e] = s]
    BY <1>0, <2>1 DEF EnrichTypeOK, EnrichStates
  <2> HIDE DEF read
  <2>6. s \in EnrichStates /\ s.pc = "next" /\ s.todo = T /\ s.read = read
    BY <1>0, <2>2, <2>3 DEF EnrichStates
  <2> HIDE DEF s
  <2>7. QED
    BY <1>2, <1>3, <2>2, <2>4, <2>5, <2>6 DEF HasRead, ListItems, lakeVars, Catalogued
<1>4. CASE TakeItem(e)
  <2>1. PICK i \in o.todo :
          \/ \E a \in Answers : Answered(e, i, a)
          \/ enrich' = [enrich EXCEPT ![e].pc = "ask", ![e].item = i]
    BY <1>4 DEF TakeItem, Answers
  <2>2. i \in Items /\ o.read[i] # NoItem
    BY <1>0, <2>1 DEF EnrichStates, HasRead
  <2>3. CASE \E a \in Answers : Answered(e, i, a)
    BY <1>1, <1>4, <2>2, <2>3 DEF TakeItem, lakeVars
  <2>4. CASE enrich' = [enrich EXCEPT ![e].pc = "ask", ![e].item = i]
    <3> DEFINE s == [o EXCEPT !.pc = "ask", !.item = i]
    <3>1. /\ s \in EnrichStates /\ s.pc = "ask" /\ s.todo = o.todo /\ s.read = o.read
          /\ s.item = i
      BY <1>0, <2>2 DEF EnrichStates
    <3>2. enrich' = [enrich EXCEPT ![e] = s]
      BY <1>0, <2>4 DEF EnrichTypeOK, EnrichStates
    <3> HIDE DEF s
    <3>3. EnrichTypeOK' /\ enrich'[e] = s /\ \A f \in Enrichers \ {e} : enrich'[f] = enrich[f]
      BY <1>2, <3>1, <3>2
    <3>4. HasRead(e)'
      BY <1>0, <2>2, <3>1, <3>3 DEF HasRead
    <3>5. UNCHANGED <<collections, catalog, objects>>
      BY <1>4 DEF TakeItem, lakeVars
    <3>6. QED
      BY <3>1, <3>3, <3>4, <3>5
  <2>5. QED
    BY <2>1, <2>3, <2>4
<1>5. CASE AskLlm(e)
  <2>1. PICK b \in BOOLEAN : enrich' = [enrich EXCEPT ![e].pc = "put", ![e].titled = b]
    BY <1>5 DEF AskLlm
  <2> DEFINE s == [o EXCEPT !.pc = "put", !.titled = b]
  <2>2. /\ s \in EnrichStates /\ s.pc = "put" /\ s.todo = o.todo /\ s.read = o.read
        /\ s.item = o.item
    BY <1>0, <2>1 DEF EnrichStates
  <2>3. enrich' = [enrich EXCEPT ![e] = s] /\ o.pc = "ask"
    BY <1>0, <1>5, <2>1 DEF EnrichTypeOK, EnrichStates, AskLlm
  <2> HIDE DEF s
  <2>4. EnrichTypeOK' /\ enrich'[e] = s /\ \A f \in Enrichers \ {e} : enrich'[f] = enrich[f]
    BY <1>2, <2>2, <2>3
  <2>5. HasRead(e)'
    BY <1>0, <2>2, <2>3, <2>4 DEF HasRead
  <2>6. UNCHANGED <<collections, catalog, objects>>
    BY <1>5 DEF AskLlm, lakeVars
  <2>7. QED
    BY <2>2, <2>4, <2>5, <2>6
<1>6. CASE AskFails(e)
  BY <1>0, <1>1, <1>6 DEF AskFails, Answers, HasRead, lakeVars
<1>7. CASE PutEnriched(e) \/ PutEnrichedFails(e)
  <2>1. o.item \in Items /\ o.read[o.item] # NoItem /\ o.titled \in BOOLEAN
    BY <1>0, <1>7 DEF PutEnriched, PutEnrichedFails, HasRead, EnrichStates
  <2>2. \E a \in Answers : Answered(e, o.item, a)
    BY <1>7 DEF PutEnriched, PutEnrichedFails, Answers
  <2>3. \/ UNCHANGED catalog
        \/ catalog' = [catalog EXCEPT ![o.item] = [o.read[o.item] EXCEPT !.enriched = o.titled]]
    BY <1>7 DEF PutEnriched, PutEnrichedFails, WriteItem, Enriched
  <2>4. QED
    BY <1>1, <1>7, <2>1, <2>2, <2>3 DEF PutEnriched, PutEnrichedFails
<1>8. CASE EnrichDone(e) \/ ListFails(e)
  <2>1. PICK label \in {"done", "failed"} : enrich' = [enrich EXCEPT ![e].pc = label]
    BY <1>8 DEF EnrichDone, ListFails
  <2> DEFINE s == [o EXCEPT !.pc = label]
  <2>2. s \in EnrichStates /\ s.pc = label /\ s.todo = o.todo /\ s.read = o.read
    BY <1>0, <2>1 DEF EnrichStates
  <2>3. enrich' = [enrich EXCEPT ![e] = s]
    BY <1>0, <2>1 DEF EnrichTypeOK, EnrichStates
  <2> HIDE DEF s
  <2>4. QED
    BY <1>0, <1>2, <1>8, <2>2, <2>3 DEF HasRead, EnrichDone, ListFails, lakeVars
<1>9. QED
  BY <1>3, <1>4, <1>5, <1>6, <1>7, <1>8 DEF EnrichStep, EnrichFault

LEMMA EnrichKeepsInv ==
  ASSUME AnnotateInv, NEW e \in Enrichers, EnrichStep(e) \/ EnrichFault(e),
         UNCHANGED <<ingestVars, tiles, edited>>
  PROVE  AnnotateInv'
<1> USE EnrichEffect
<1>0. /\ TypeInv /\ LakeTypeOK /\ KnownHoldUp /\ UploadsKept /\ WritersInv
      /\ enrich[e] \in EnrichStates
  BY DEF AnnotateInv, TypeInv, IngestTypeOK, WritersInv, WritersTypeOK, EnrichTypeOK
<1>1. Kept /\ UNCHANGED objects
  BY DEF Kept, Stored
<1>2. ASSUME NEW i \in Items, enrich[e].read[i] # NoItem, NEW b \in BOOLEAN
      PROVE  /\ [enrich[e].read[i] EXCEPT !.enriched = b] \in ItemRecords
             /\ HoldsUp(i, [enrich[e].read[i] EXCEPT !.enriched = b])
  <2>1. enrich[e].read[i] \in ItemRecords
    BY <1>0, <1>2 DEF EnrichStates
  <2>2. HoldsUp(i, enrich[e].read[i])
    BY <1>0, <1>2 DEF KnownHoldUp, Known
  <2> DEFINE rec == enrich[e].read[i]
             new == [rec EXCEPT !.enriched = b]
  <2>3. new \in ItemRecords /\ new.run = rec.run /\ new.hrefs = rec.hrefs
    BY <2>1 DEF ItemRecords
  <2> HIDE DEF rec, new
  <2>4. HoldsUp(i, rec) => HoldsUp(i, new)
    BY <2>3, RewrittenHoldsUp
  <2>5. QED
    BY <2>2, <2>3, <2>4 DEF rec, new
<1>3. LakeTypeOK'
  BY <1>0, <1>2 DEF LakeTypeOK
<1>4. TypeInv' /\ UploadsKept'
  BY <1>0, <1>1, <1>3, TasksUntouched
<1>5. WritersInv'
  <2>1. WritersTypeOK'
    BY <1>0 DEF WritersInv, WritersTypeOK, TilesTypeOK
  <2>2. \A f \in Enrichers : HasRead(f)'
    BY <1>0 DEF WritersInv, HasRead
  <2>3. \A j \in TileJobs : HasUploaded(j)'
    BY <1>0, <1>1, HasUploadedKept DEF WritersInv
  <2>4. QED
    BY <2>1, <2>2, <2>3 DEF WritersInv
<1>6. ASSUME NEW i \in Items, NEW rec \in Known(i)' PROVE rec \in Known(i) \/ HoldsUp(i, rec)
  <2>1. rec # NoItem
        /\ \/ rec = catalog'[i]
           \/ \E f \in Enrichers : rec = enrich'[f].read[i]
           \/ \E j \in TileJobs : Cloud[j] = i /\ rec = tiles[j].read
    BY <1>6 DEF Known
  <2>2. CASE rec = catalog'[i]
    <3>1. CASE catalog'[i] = catalog[i]
      BY <2>1, <2>2, <3>1 DEF Known
    <3>2. CASE catalog'[i] # catalog[i]
      <4>1. PICK n \in Items, b \in BOOLEAN :
              /\ enrich[e].read[n] # NoItem
              /\ catalog' = [catalog EXCEPT ![n] = [enrich[e].read[n] EXCEPT !.enriched = b]]
        BY <3>2
      <4> DEFINE new == [enrich[e].read[n] EXCEPT !.enriched = b]
      <4>2. HoldsUp(n, new)
        BY <1>2, <4>1
      <4>3. catalog' = [catalog EXCEPT ![n] = new]
        BY <4>1
      <4> HIDE DEF new
      <4>4. n = i /\ catalog'[i] = new
        BY <1>0, <3>2, <4>3 DEF LakeTypeOK
      <4>5. QED
        BY <2>2, <4>2, <4>4
    <3>3. QED
      BY <3>1, <3>2
  <2>3. CASE \E f \in Enrichers : rec = enrich'[f].read[i]
    BY <2>1, <2>3 DEF Known
  <2>4. CASE \E j \in TileJobs : Cloud[j] = i /\ rec = tiles[j].read
    BY <2>1, <2>4 DEF Known
  <2>5. QED
    BY <2>1, <2>2, <2>3, <2>4
<1>7. KnownHoldUp'
  BY <1>0, <1>1, <1>6, KnownStep
<1>8. QED
  BY <1>4, <1>5, <1>7 DEF AnnotateInv

-----------------------------------------------------------------------------
(* The 3D Tiles job.                                                        *)

LEMMA TilesEffect ==
  ASSUME AnnotateInv, NEW j \in TileJobs, TilesStep(j) \/ TilesFault(j)
  PROVE  /\ Kept /\ UNCHANGED collections /\ objects' \in [Keys -> {"absent", "fresh", "aged"}]
         /\ TilesTypeOK'
         /\ HasUploaded(j)'
         /\ \A k \in TileJobs \ {j} : tiles'[k] = tiles[k]
         /\ tiles'[j].read \in {tiles[j].read, catalog[Cloud[j]], NoItem}
         /\ \/ UNCHANGED catalog
            \/ /\ tiles[j].pc = "put"
               /\ catalog' = [catalog EXCEPT ![Cloud[j]] = WithTileset(j)]
<1> DEFINE o == tiles[j]
<1> USE DEF TilesEnded
<1>0. /\ TilesTypeOK /\ o \in TileStates /\ HasUploaded(j)
      /\ catalog \in [Items -> ItemRecords \cup {NoItem}]
      /\ objects \in [Keys -> {"absent", "fresh", "aged"}]
      /\ Cloud[j] \in Items /\ TileKeys[j] \subseteq Keys
  BY TilesAssumption DEF TilesAssumption, AnnotateInv, WritersInv, WritersTypeOK, TilesTypeOK,
                         TypeInv, IngestTypeOK, LakeTypeOK
<1>1. ASSUME NEW s \in TileStates, tiles' = [tiles EXCEPT ![j] = s]
      PROVE  /\ TilesTypeOK' /\ tiles'[j] = s
             /\ \A k \in TileJobs \ {j} : tiles'[k] = tiles[k]
  BY <1>0, <1>1 DEF TilesTypeOK
<1>2. ASSUME UNCHANGED lakeVars
      PROVE  Kept /\ UNCHANGED collections /\ UNCHANGED catalog
             /\ objects' \in [Keys -> {"absent", "fresh", "aged"}]
  BY <1>0, <1>2 DEF lakeVars, Kept, Stored
<1>3. CASE Convert(j)
  <2>1. PICK s \in {[o EXCEPT !.pc = "upload", !.todo = TileKeys[j]], [o EXCEPT !.pc = "failed"]} :
          tiles' = [tiles EXCEPT ![j] = s]
    BY <1>3 DEF Convert
  <2>2. s \in TileStates /\ s.read = o.read
        /\ \/ s.pc = "upload" /\ s.todo = TileKeys[j]
           \/ s.pc = "failed"
    BY <1>0, <2>1 DEF TileStates
  <2>3. HasUploaded(j)'
    BY <1>1, <2>1, <2>2 DEF HasUploaded
  <2>4. QED
    BY <1>1, <1>2, <1>3, <2>1, <2>2, <2>3 DEF Convert
<1>4. CASE UploadTile(j)
  <2>1. PICK k \in o.todo : PutObject(k) /\ tiles' = [tiles EXCEPT ![j].todo = o.todo \ {k}]
    BY <1>0, <1>4 DEF UploadTile, TilesTypeOK
  <2> DEFINE s == [o EXCEPT !.todo = o.todo \ {k}]
  <2>2. s \in TileStates /\ s.read = o.read /\ s.pc = "upload" /\ s.todo = o.todo \ {k}
    BY <1>0, <1>4, <2>1 DEF TileStates, UploadTile
  <2>3. tiles' = [tiles EXCEPT ![j] = s] /\ o.pc = "upload"
    BY <1>0, <1>4, <2>1 DEF TilesTypeOK, TileStates, UploadTile
  <2> HIDE DEF s
  <2>4. k \in Keys /\ Stored(k)' /\ Kept /\ objects' \in [Keys -> {"absent", "fresh", "aged"}]
    BY <1>0, <2>1 DEF TileStates, PutObject, Stored, Kept
  <2>5. TilesTypeOK' /\ tiles'[j] = s /\ \A n \in TileJobs \ {j} : tiles'[n] = tiles[n]
    BY <1>1, <2>2, <2>3
  <2>6. HasUploaded(j)'
    BY <1>0, <2>2, <2>3, <2>4, <2>5 DEF HasUploaded, Kept
  <2>7. UNCHANGED <<collections, catalog>>
    BY <1>4 DEF UploadTile
  <2>8. QED
    BY <2>2, <2>4, <2>5, <2>6, <2>7
<1>5. CASE TilesUploaded(j)
  <2> DEFINE s == [o EXCEPT !.pc = "get"]
  <2>1. s \in TileStates /\ s.read = o.read /\ s.pc = "get"
    BY <1>0 DEF TileStates
  <2>2. tiles' = [tiles EXCEPT ![j] = s] /\ o.pc = "upload" /\ o.todo = {}
    BY <1>5 DEF TilesUploaded
  <2> HIDE DEF s
  <2>3. Kept /\ UNCHANGED collections /\ UNCHANGED catalog
        /\ objects' \in [Keys -> {"absent", "fresh", "aged"}]
    BY <1>2, <1>5 DEF TilesUploaded
  <2>4. TilesTypeOK' /\ tiles'[j] = s /\ \A n \in TileJobs \ {j} : tiles'[n] = tiles[n]
    BY <1>1, <2>1, <2>2
  <2>5. HasUploaded(j)'
    BY <1>0, <2>1, <2>2, <2>3, <2>4 DEF HasUploaded, Kept, Uploaded
  <2>6. QED
    BY <2>1, <2>3, <2>4, <2>5
<1>6. CASE GetItem(j)
  <2>1. Kept /\ UNCHANGED collections /\ UNCHANGED catalog
        /\ objects' \in [Keys -> {"absent", "fresh", "aged"}] /\ o.pc = "get"
    BY <1>2, <1>6 DEF GetItem
  <2>2. Uploaded(j)'
    BY <1>0, <2>1 DEF HasUploaded, Kept, Uploaded
  <2>3. CASE Catalogued(Cloud[j])
    <3> DEFINE s == [o EXCEPT !.pc = "put", !.read = catalog[Cloud[j]]]
    <3>1. s \in TileStates /\ s.read = catalog[Cloud[j]] /\ s.pc = "put"
      BY <1>0 DEF TileStates
    <3>2. tiles' = [tiles EXCEPT ![j] = s]
      BY <1>6, <2>3 DEF GetItem
    <3> HIDE DEF s
    <3>3. TilesTypeOK' /\ tiles'[j] = s /\ \A n \in TileJobs \ {j} : tiles'[n] = tiles[n]
      BY <1>1, <3>1, <3>2
    <3>4. HasUploaded(j)'
      BY <2>2, <2>3, <3>1, <3>3 DEF HasUploaded, Catalogued
    <3>5. QED
      BY <2>1, <3>1, <3>3, <3>4
  <2>4. CASE ~Catalogued(Cloud[j])
    <3> DEFINE s == [o EXCEPT !.pc = "unlinked"]
    <3>1. s \in TileStates /\ s.read = o.read /\ s.pc = "unlinked"
      BY <1>0 DEF TileStates
    <3>2. tiles' = [tiles EXCEPT ![j] = s]
      BY <1>6, <2>4 DEF GetItem
    <3> HIDE DEF s
    <3>3. TilesTypeOK' /\ tiles'[j] = s /\ \A n \in TileJobs \ {j} : tiles'[n] = tiles[n]
      BY <1>1, <3>1, <3>2
    <3>4. HasUploaded(j)'
      BY <3>1, <3>3 DEF HasUploaded
    <3>5. QED
      BY <2>1, <3>1, <3>3, <3>4
  <2>5. QED
    BY <2>3, <2>4
<1>7. CASE PutTileset(j) \/ TileJobFails(j) \/ TilesetNotLinked(j)
  <2>1. PICK label \in TilesEnded : tiles' = [tiles EXCEPT ![j].pc = label]
    BY <1>7 DEF PutTileset, TileJobFails, TilesetNotLinked
  <2> DEFINE s == [o EXCEPT !.pc = label]
  <2>2. s \in TileStates /\ s.read = o.read /\ s.pc = label
    BY <1>0, <2>1 DEF TileStates
  <2>3. tiles' = [tiles EXCEPT ![j] = s]
    BY <2>1
  <2> HIDE DEF s
  <2>4. TilesTypeOK' /\ tiles'[j] = s /\ \A n \in TileJobs \ {j} : tiles'[n] = tiles[n]
    BY <1>1, <2>2, <2>3
  <2>5. HasUploaded(j)'
    BY <2>1, <2>2, <2>4 DEF HasUploaded
  <2>6. UNCHANGED <<collections, objects>>
        /\ \/ UNCHANGED catalog
           \/ o.pc = "put" /\ catalog' = [catalog EXCEPT ![Cloud[j]] = WithTileset(j)]
    BY <1>7 DEF PutTileset, TileJobFails, TilesetNotLinked, PutTaken, lakeVars, WriteItem
  <2>7. Kept /\ objects' \in [Keys -> {"absent", "fresh", "aged"}]
    BY <1>0, <2>6 DEF Kept, Stored
  <2>8. QED
    BY <2>1, <2>2, <2>4, <2>5, <2>6, <2>7
<1>8. QED
  BY <1>3, <1>4, <1>5, <1>6, <1>7 DEF TilesStep, TilesFault

(* The version a tiles job writes back: its link leads to what it uploaded. *)
LEMMA LinkedHoldsUp ==
  ASSUME NEW j \in TileJobs, tiles[j].read \in ItemRecords, Uploaded(j),
         NEW i \in Items, HoldsUp(i, tiles[j].read)
  PROVE  WithTileset(j) \in ItemRecords /\ HoldsUp(i, WithTileset(j))
<1> DEFINE rec == tiles[j].read
           new == [rec EXCEPT !.hrefs = rec.hrefs \cup {Link(j)}]
<1>1. Link(j) \in Hrefs
  BY TilesAssumption DEF TilesAssumption, Link, Hrefs
<1>2. new \in ItemRecords /\ new.run = rec.run /\ new.hrefs = rec.hrefs \cup {Link(j)}
  BY <1>1 DEF ItemRecords
<1>3. WithTileset(j) = new
  BY DEF WithTileset, Link
<1> HIDE DEF new, rec
<1>4. ASSUME NEW k \in TileJobs, Link(k) \in new.hrefs
      PROVE  \E n \in TileJobs : TilesetJson[n] = TilesetJson[k] /\ Uploaded(n)
  <2>1. CASE Link(k) = Link(j)
    BY <2>1 DEF Link
  <2>2. CASE Link(k) \in rec.hrefs
    BY <2>2 DEF HoldsUp, rec
  <2>3. QED
    BY <1>2, <1>4, <2>1, <2>2
<1>5. HoldsUp(i, new)
  BY <1>2, <1>4 DEF HoldsUp, rec
<1>6. QED
  BY <1>2, <1>3, <1>5

LEMMA TilesKeepInv ==
  ASSUME AnnotateInv, NEW j \in TileJobs, TilesStep(j) \/ TilesFault(j),
         UNCHANGED <<ingestVars, enrich, edited>>
  PROVE  AnnotateInv'
<1> USE TilesEffect
<1>0. /\ TypeInv /\ LakeTypeOK /\ KnownHoldUp /\ UploadsKept /\ WritersInv
      /\ tiles[j] \in TileStates /\ HasUploaded(j) /\ Cloud[j] \in Items
  BY TilesAssumption DEF TilesAssumption, AnnotateInv, TypeInv, IngestTypeOK, WritersInv,
                         WritersTypeOK, TilesTypeOK
<1>1. ASSUME tiles[j].pc = "put"
      PROVE  WithTileset(j) \in ItemRecords /\ HoldsUp(Cloud[j], WithTileset(j))
  <2>1. tiles[j].read \in ItemRecords /\ Uploaded(j) /\ tiles[j].read # NoItem
    BY <1>0, <1>1 DEF TileStates, HasUploaded
  <2>2. HoldsUp(Cloud[j], tiles[j].read)
    BY <1>0, <2>1 DEF KnownHoldUp, Known
  <2>3. QED
    BY <1>0, <2>1, <2>2, LinkedHoldsUp
<1>2. LakeTypeOK'
  BY <1>0, <1>1 DEF LakeTypeOK
<1>3. TypeInv' /\ UploadsKept'
  BY <1>0, <1>2, TasksUntouched
<1>4. WritersInv'
  <2>1. WritersTypeOK'
    BY <1>0 DEF WritersInv, WritersTypeOK, EnrichTypeOK
  <2>2. \A f \in Enrichers : HasRead(f)'
    BY <1>0 DEF WritersInv, HasRead
  <2>3. \A k \in TileJobs : HasUploaded(k)'
    BY <1>0, HasUploadedKept DEF WritersInv
  <2>4. QED
    BY <2>1, <2>2, <2>3 DEF WritersInv
<1>5. ASSUME NEW i \in Items, NEW rec \in Known(i)' PROVE rec \in Known(i) \/ HoldsUp(i, rec)
  <2>1. rec # NoItem
        /\ \/ rec = catalog'[i]
           \/ \E f \in Enrichers : rec = enrich[f].read[i]
           \/ \E k \in TileJobs : Cloud[k] = i /\ rec = tiles'[k].read
    BY <1>5 DEF Known
  <2>2. CASE rec = catalog'[i]
    <3>1. CASE catalog'[i] = catalog[i]
      BY <2>1, <2>2, <3>1 DEF Known
    <3>2. CASE catalog'[i] # catalog[i]
      <4>1. /\ tiles[j].pc = "put"
            /\ catalog' = [catalog EXCEPT ![Cloud[j]] = WithTileset(j)]
        BY <3>2
      <4>2. Cloud[j] = i /\ catalog'[i] = WithTileset(j)
        BY <1>0, <3>2, <4>1 DEF LakeTypeOK
      <4>3. QED
        BY <1>1, <2>2, <4>1, <4>2
    <3>3. QED
      BY <3>1, <3>2
  <2>3. CASE \E f \in Enrichers : rec = enrich[f].read[i]
    BY <2>1, <2>3 DEF Known
  <2>4. CASE \E k \in TileJobs : Cloud[k] = i /\ rec = tiles'[k].read
    BY <2>1, <2>4 DEF Known
  <2>5. QED
    BY <2>1, <2>2, <2>3, <2>4
<1>6. KnownHoldUp'
  BY <1>0, <1>5, KnownStep
<1>7. QED
  BY <1>3, <1>4, <1>6 DEF AnnotateInv

-----------------------------------------------------------------------------
(* The curator.                                                             *)

LEMMA CuratorKeepsInv ==
  ASSUME AnnotateInv, NEW n \in Items, Curate(n)
  PROVE  AnnotateInv'
<1>0. /\ TypeInv /\ LakeTypeOK /\ KnownHoldUp /\ UploadsKept /\ WritersInv
  BY DEF AnnotateInv, TypeInv, IngestTypeOK
<1>1. PICK c \in Classes : catalog' = [catalog EXCEPT ![n] = [catalog[n] EXCEPT !.curated = TRUE, !.cls = c]]
  BY DEF Curate, WriteItem
<1>2. /\ UNCHANGED ingestVars /\ enrich' = enrich /\ tiles' = tiles
      /\ edited' = edited \cup {n} /\ collections' = collections /\ objects' = objects
  BY DEF Curate
<1> DEFINE rec == catalog[n]
           new == [rec EXCEPT !.curated = TRUE, !.cls = c]
<1>3. rec \in ItemRecords /\ rec \in Known(n)
  BY <1>0 DEF LakeTypeOK, Curate, Catalogued, Known
<1>4. new \in ItemRecords /\ new.run = rec.run /\ new.hrefs = rec.hrefs
  BY <1>3 DEF ItemRecords
<1>5. HoldsUp(n, rec)
  BY <1>0, <1>3 DEF KnownHoldUp
<1>6. catalog' = [catalog EXCEPT ![n] = new]
  BY <1>1
<1> HIDE DEF rec, new
<1>7. HoldsUp(n, new)
  BY <1>4, <1>5, RewrittenHoldsUp
<1>8. Kept
  BY <1>2 DEF Kept, Stored
<1>9. LakeTypeOK'
  BY <1>0, <1>2, <1>4, <1>6 DEF LakeTypeOK
<1>10. TypeInv' /\ UploadsKept'
  BY <1>0, <1>2, <1>8, <1>9, TasksUntouched
<1>11. WritersInv'
  <2>1. WritersTypeOK'
    BY <1>0, <1>2 DEF WritersInv, WritersTypeOK, EnrichTypeOK, TilesTypeOK
  <2>2. \A f \in Enrichers : HasRead(f)'
    BY <1>0, <1>2 DEF WritersInv, HasRead
  <2>3. \A j \in TileJobs : HasUploaded(j)'
    BY <1>0, <1>2, <1>8, HasUploadedKept DEF WritersInv
  <2>4. QED
    BY <2>1, <2>2, <2>3 DEF WritersInv
<1>12. ASSUME NEW i \in Items, NEW v \in Known(i)' PROVE v \in Known(i) \/ HoldsUp(i, v)
  <2>1. CASE i = n
    <3>1. catalog'[i] = new
      BY <1>0, <1>6, <2>1 DEF LakeTypeOK
    <3>2. v \in Known(i) \/ v = new
      BY <1>2, <1>12, <3>1 DEF Known
    <3>3. QED
      BY <1>7, <2>1, <3>2
  <2>2. CASE i # n
    <3>1. catalog'[i] = catalog[i]
      BY <1>0, <1>6, <2>2 DEF LakeTypeOK
    <3>2. QED
      BY <1>2, <1>12, <3>1 DEF Known
  <2>3. QED
    BY <2>1, <2>2
<1>13. KnownHoldUp'
  BY <1>0, <1>8, <1>12, KnownStep
<1>14. QED
  BY <1>10, <1>11, <1>13 DEF AnnotateInv

-----------------------------------------------------------------------------

LEMMA AnnotateInitially == AnnotateInit => AnnotateInv
<1> SUFFICES ASSUME AnnotateInit PROVE AnnotateInv
  OBVIOUS
<1>1. Init /\ EnrichInit /\ TilesInit /\ edited = {}
  BY DEF AnnotateInit
<1>2. TypeInv /\ UploadsKept
  BY <1>1, BackedInit DEF BackedInv
<1>3. WritersInv
  BY <1>1 DEF EnrichInit, TilesInit, WritersInv, WritersTypeOK, EnrichTypeOK, TilesTypeOK,
              EnrichStates, TileStates, Answers, HasRead, HasUploaded
<1>4. KnownHoldUp
  BY <1>1 DEF Init, EnrichInit, TilesInit, KnownHoldUp, Known
<1>5. QED
  BY <1>2, <1>3, <1>4 DEF AnnotateInv

LEMMA AnnotateStep ==
  AnnotateInv /\ [AnnotateNext]_annotateVars => AnnotateInv'
<1> SUFFICES ASSUME AnnotateInv, [AnnotateNext]_annotateVars PROVE AnnotateInv'
  OBVIOUS
<1>1. CASE IngestNext /\ UNCHANGED writers
  BY <1>1, IngestKeepsInv DEF Next
<1>2. CASE EnrichNext /\ UNCHANGED <<ingestVars, tiles, edited>>
  BY <1>2, EnrichKeepsInv DEF EnrichNext
<1>3. CASE TilesNext /\ UNCHANGED <<ingestVars, enrich, edited>>
  BY <1>3, TilesKeepInv DEF TilesNext
<1>4. CASE \E i \in Items : Curate(i)
  BY <1>4, CuratorKeepsInv
<1>5. CASE UNCHANGED annotateVars
  BY <1>5, IngestKeepsInv DEF annotateVars
<1>6. QED
  BY <1>1, <1>2, <1>3, <1>4, <1>5 DEF AnnotateNext

LEMMA AnnotateAlways == AnnotateSpec => []AnnotateInv
BY AnnotateInitially, AnnotateStep, PTL DEF AnnotateSpec

(* The writers of items keep every variable within its type.                *)
THEOREM AnnotateTypesAlways == AnnotateSpec => []AnnotateTypeOK
<1>1. AnnotateInv => AnnotateTypeOK
  BY DEF AnnotateInv, TypeInv, WritersInv, WritersTypeOK, AnnotateTypeOK
<1>2. QED
  BY <1>1, AnnotateAlways, PTL

(* Jobs that upload the same tileset.json upload the same tiles.  The      *)
(* script names the folder after the dataset id without its domain          *)
(* (generate-3dtiles.sh:27), so this is for the operator to see to.         *)
TilesetsNameContent ==
    \A j, k \in TileJobs : TilesetJson[j] = TilesetJson[k] => TileKeys[j] = TileKeys[k]

(* Whoever follows the tileset3d asset of an item finds every tile: the     *)
(* uploads come before the PUT, and no stale version that any writer puts   *)
(* back can name a tileset that is not there.                               *)
THEOREM TilesetsAlwaysBacked == TilesetsNameContent => (AnnotateSpec => []TilesetsBacked)
<1> SUFFICES ASSUME TilesetsNameContent PROVE AnnotateSpec => []TilesetsBacked
  OBVIOUS
<1>1. AnnotateInv => TilesetsBacked
  BY DEF AnnotateInv, KnownHoldUp, Known, HoldsUp, TilesetsBacked, TilesetsNameContent, Link,
         Uploaded, Catalogued
<1>2. QED
  BY <1>1, AnnotateAlways, PTL
-----------------------------------------------------------------------------
(* Lost updates and the class of what is sent: what becomes of the versions *)
(* of an item.                                                              *)

(* An enrich run lists once; it sends only what it has listed as not        *)
(* enriched and of an allowed class, and handles each item once.            *)
Chosen(e) == LET o == enrich[e] IN
    /\ o.pc = "list" => \A i \in Items : o.read[i] = NoItem
    /\ \A i \in o.todo : o.answer[i] = "none"
    /\ \A i \in Items : o.answer[i] # "none" => o.read[i] # NoItem
    /\ o.pc \in {"ask", "put"} =>
         /\ o.item \in o.todo
         /\ ~o.read[o.item].enriched
         /\ o.read[o.item].cls \in Allowed

(* A tiles job reads its item once; it is done when it has written it.      *)
ReadOnce(j) ==
    /\ tiles[j].pc \in {"idle", "upload", "get"} => tiles[j].read = NoItem
    /\ tiles[j].pc \in {"put", "done"} => tiles[j].read # NoItem

(* What is not catalogued has never been: nobody has read or edited it.     *)
Unknown(i) == ~Catalogued(i) => Known(i) = {} /\ i \notin edited

(* The task of an item that is not replaced has posted it, once.            *)
PostedOnce(i) ==
    Catalogued(i) /\ ~Replaced(i) => \A r \in Runs : Target[r] = i => pc[r] = "done"

(* The versions of an item differ in their class only by the edit.          *)
OneClass(i) ==
    ~Replaced(i) =>
        /\ \A rec \in Known(i) : rec.curated => i \in edited
        /\ \A rec, old \in Known(i) : rec.curated = old.curated => rec.cls = old.cls

(* What LostUpdatesAreExplained says of one item.                           *)
Traced(i) ==
    /\ \A e \in Enrichers :
         enrich[e].answer[i] = "enriched" /\ ~catalog[i].enriched
            => \E rec \in PutBack(i, e) : ~rec.enriched
    /\ \A j \in TileJobs :
         Cloud[j] = i /\ tiles[j].pc = "done" /\ Link(j) \notin catalog[i].hrefs
            => \E rec \in PutBack(i, j) : Link(j) \notin rec.hrefs
    /\ i \in edited /\ ~catalog[i].curated => \E rec \in PutBack(i, NoItem) : ~rec.curated

HistoryInv ==
    /\ \A e \in Enrichers : Chosen(e)
    /\ \A j \in TileJobs : ReadOnce(j)
    /\ \A i \in Items : /\ Unknown(i)
                        /\ PostedOnce(i)
                        /\ OneClass(i)
                        /\ Catalogued(i) /\ ~Replaced(i) => Traced(i)

(* A step of an enrich run leaves what it has read and answered; where it   *)
(* writes, it writes what it has read, and that was not enriched.           *)
LEMMA EnrichHistory ==
  ASSUME AnnotateInv, NEW e \in Enrichers, Chosen(e), EnrichStep(e) \/ EnrichFault(e)
  PROVE  /\ Chosen(e)'
         /\ \A i \in Items :
              /\ enrich'[e].read[i] \in {enrich[e].read[i], catalog[i]}
              /\ enrich[e].read[i] # NoItem => enrich'[e].read[i] = enrich[e].read[i]
              /\ enrich[e].answer[i] # "none" => enrich'[e].answer[i] = enrich[e].answer[i]
              /\ \/ /\ catalog'[i] = catalog[i]
                    /\ enrich'[e].answer[i] = "enriched" => enrich[e].answer[i] = "enriched"
                 \/ /\ enrich[e].read[i] # NoItem
                    /\ ~enrich[e].read[i].enriched
                    /\ enrich'[e].answer[i] \in Sent
                    /\ \E b \in BOOLEAN :
                         /\ catalog'[i] = [enrich[e].read[i] EXCEPT !.enriched = b]
                         /\ enrich'[e].answer[i] = "enriched" => b
<1> DEFINE o == enrich[e]
<1>0. /\ EnrichTypeOK /\ o \in EnrichStates /\ HasRead(e)
      /\ catalog \in [Items -> ItemRecords \cup {NoItem}]
  BY DEF AnnotateInv, WritersInv, WritersTypeOK, EnrichTypeOK, TypeInv, IngestTypeOK, LakeTypeOK
<1>1. ASSUME NEW i \in o.todo, NEW a \in Answers \ {"none"}, Answered(e, i, a)
      PROVE  /\ Chosen(e)'
             /\ enrich'[e].read = o.read
             /\ enrich'[e].answer[i] = a /\ o.answer[i] = "none"
             /\ \A n \in Items \ {i} : enrich'[e].answer[n] = o.answer[n]
  <2> DEFINE ans == [o.answer EXCEPT ![i] = a]
             s == [o EXCEPT !.pc = "next", !.todo = o.todo \ {i}, !.item = NoItem,
                            !.titled = FALSE, !.answer = ans]
  <2>1. i \in Items /\ o.answer[i] = "none" /\ o.read[i] # NoItem /\ o.todo \subseteq Items
    BY <1>0, <1>1 DEF EnrichStates, Chosen, HasRead
  <2>2. ans[i] = a /\ \A n \in Items \ {i} : ans[n] = o.answer[n]
    BY <1>0, <2>1 DEF EnrichStates
  <2>3. enrich' = [enrich EXCEPT ![e] = s]
    BY <1>0, <1>1 DEF Answered, EnrichTypeOK, EnrichStates
  <2> HIDE DEF ans
  <2>4. s.read = o.read /\ s.todo = o.todo \ {i} /\ s.pc = "next" /\ s.answer = ans
    BY <1>0 DEF EnrichStates
  <2> HIDE DEF s
  <2>5. enrich'[e] = s
    BY <1>0, <2>3 DEF EnrichTypeOK
  <2>6. Chosen(e)'
    BY <2>1, <2>2, <2>4, <2>5 DEF Chosen
  <2>7. QED
    BY <2>1, <2>2, <2>4, <2>5, <2>6
<1>2. ASSUME NEW s \in EnrichStates, enrich' = [enrich EXCEPT ![e] = s]
      PROVE  enrich'[e] = s
  BY <1>0, <1>2 DEF EnrichTypeOK
<1>3. CASE ListItems(e)
  <2>1. PICK T \in Listings(InCollection(Collection[e])) :
          enrich' = [enrich EXCEPT ![e].pc = "next", ![e].todo = T,
             ![e].read = [i \in Items |-> IF i \in T THEN catalog[i] ELSE NoItem]]
    BY <1>3 DEF ListItems
  <2> DEFINE read == [i \in Items |-> IF i \in T THEN catalog[i] ELSE NoItem]
             s == [o EXCEPT !.pc = "next", !.todo = T, !.read = read]
  <2>2. T \subseteq Items
    BY <2>1 DEF Listings, InCollection
  <2>3. read \in [Items -> ItemRecords \cup {NoItem}]
        /\ \A i \in Items : read[i] \in {catalog[i], NoItem}
    BY <1>0
  <2>4. enrich' = [enrich EXCEPT ![e] = s]
    BY <1>0, <2>1 DEF EnrichTypeOK, EnrichStates
  <2> HIDE DEF read
  <2>5. /\ s \in EnrichStates /\ s.pc = "next" /\ s.todo = T /\ s.read = read
        /\ s.answer = o.answer
    BY <1>0, <2>2, <2>3 DEF EnrichStates
  <2> HIDE DEF s
  <2>6. enrich'[e] = s
    BY <1>2, <2>4, <2>5
  <2>7. \A i \in Items : o.read[i] = NoItem /\ o.answer[i] = "none"
    BY <1>3, <1>0 DEF ListItems, Chosen
  <2>8. Chosen(e)'
    BY <2>2, <2>5, <2>6, <2>7 DEF Chosen
  <2>9. UNCHANGED catalog
    BY <1>3 DEF ListItems, lakeVars
  <2>10. QED
    BY <2>3, <2>5, <2>6, <2>7, <2>8, <2>9
<1>4. CASE TakeItem(e)
  <2>1. PICK i \in o.todo :
          \/ Answered(e, i, "classification") \/ Answered(e, i, "already")
          \/ /\ o.read[i].cls \in Allowed /\ ~o.read[i].enriched
             /\ enrich' = [enrich EXCEPT ![e].pc = "ask", ![e].item = i]
    BY <1>4 DEF TakeItem
  <2>2. i \in Items /\ o.read[i] # NoItem /\ o.pc = "next" /\ UNCHANGED catalog
    BY <1>0, <1>4, <2>1 DEF EnrichStates, HasRead, TakeItem, lakeVars
  <2>3. CASE Answered(e, i, "classification") \/ Answered(e, i, "already")
    <3>1. PICK a \in {"classification", "already"} : Answered(e, i, a)
      BY <2>3
    <3>2. a \in Answers \ {"none"} /\ a # "enriched"
      BY <3>1 DEF Answers
    <3>3. /\ Chosen(e)' /\ enrich'[e].read = o.read
          /\ enrich'[e].answer[i] = a /\ o.answer[i] = "none"
          /\ \A n \in Items \ {i} : enrich'[e].answer[n] = o.answer[n]
      BY <1>1, <3>1, <3>2
    <3>4. QED
      BY <2>2, <3>2, <3>3
  <2>4. CASE /\ o.read[i].cls \in Allowed /\ ~o.read[i].enriched
             /\ enrich' = [enrich EXCEPT ![e].pc = "ask", ![e].item = i]
    <3> DEFINE s == [o EXCEPT !.pc = "ask", !.item = i]
    <3>1. /\ s \in EnrichStates /\ s.pc = "ask" /\ s.todo = o.todo /\ s.read = o.read
          /\ s.item = i /\ s.answer = o.answer
      BY <1>0, <2>2 DEF EnrichStates
    <3>2. enrich' = [enrich EXCEPT ![e] = s]
      BY <1>0, <2>4 DEF EnrichTypeOK, EnrichStates
    <3> HIDE DEF s
    <3>3. enrich'[e] = s
      BY <1>2, <3>1, <3>2
    <3>4. Chosen(e)'
      BY <2>1, <2>2, <2>4, <3>1, <3>3 DEF Chosen
    <3>5. QED
      BY <2>2, <3>1, <3>3, <3>4
  <2>5. QED
    BY <2>1, <2>3, <2>4
<1>5. CASE AskLlm(e)
  <2>1. PICK b \in BOOLEAN : enrich' = [enrich EXCEPT ![e].pc = "put", ![e].titled = b]
    BY <1>5 DEF AskLlm
  <2> DEFINE s == [o EXCEPT !.pc = "put", !.titled = b]
  <2>2. /\ s \in EnrichStates /\ s.pc = "put" /\ s.todo = o.todo /\ s.read = o.read
        /\ s.item = o.item /\ s.answer = o.answer
    BY <1>0, <2>1 DEF EnrichStates
  <2>3. enrich' = [enrich EXCEPT ![e] = s] /\ o.pc = "ask" /\ UNCHANGED catalog
    BY <1>0, <1>5, <2>1 DEF EnrichTypeOK, EnrichStates, AskLlm, lakeVars
  <2> HIDE DEF s
  <2>4. enrich'[e] = s
    BY <1>2, <2>2, <2>3
  <2>5. Chosen(e)'
    BY <2>2, <2>3, <2>4 DEF Chosen
  <2>6. QED
    BY <2>2, <2>3, <2>4, <2>5
<1>6. CASE AskFails(e) \/ PutEnriched(e) \/ PutEnrichedFails(e)
  <2> DEFINE i == o.item
  <2>1. /\ i \in o.todo /\ i \in Items /\ o.read[i] \in ItemRecords /\ ~o.read[i].enriched
        /\ o.titled \in BOOLEAN
    BY <1>0, <1>6 DEF AskFails, PutEnriched, PutEnrichedFails, HasRead, Chosen, EnrichStates
  <2>2. PICK a \in Sent :
          /\ Answered(e, i, a)
          /\ \/ UNCHANGED catalog /\ a # "enriched"
             \/ /\ catalog' = [catalog EXCEPT ![i] = [o.read[i] EXCEPT !.enriched = o.titled]]
                /\ a = "enriched" => o.titled
    BY <1>6 DEF AskFails, PutEnriched, PutEnrichedFails, Sent, WriteItem, Enriched, lakeVars
  <2> HIDE DEF i
  <2>3. a \in Answers \ {"none"}
    BY <2>2 DEF Answers, Sent
  <2>4. /\ Chosen(e)' /\ enrich'[e].read = o.read
        /\ enrich'[e].answer[i] = a /\ o.answer[i] = "none"
        /\ \A n \in Items \ {i} : enrich'[e].answer[n] = o.answer[n]
    BY <1>1, <2>1, <2>2, <2>3
  <2>5. \/ UNCHANGED catalog /\ a # "enriched"
        \/ /\ catalog'[i] = [o.read[i] EXCEPT !.enriched = o.titled]
           /\ a = "enriched" => o.titled
           /\ \A n \in Items \ {i} : catalog'[n] = catalog[n]
    BY <1>0, <2>1, <2>2
  <2>6. o.read[i] # NoItem
    BY <2>1, LakeAssumption DEF LakeAssumption
  <2>7. QED
    BY <2>1, <2>2, <2>4, <2>5, <2>6
<1>7. CASE EnrichDone(e) \/ ListFails(e)
  <2>1. PICK label \in {"done", "failed"} : enrich' = [enrich EXCEPT ![e].pc = label]
    BY <1>7 DEF EnrichDone, ListFails
  <2> DEFINE s == [o EXCEPT !.pc = label]
  <2>2. /\ s \in EnrichStates /\ s.pc = label /\ s.todo = o.todo /\ s.read = o.read
        /\ s.answer = o.answer
    BY <1>0, <2>1 DEF EnrichStates
  <2>3. enrich' = [enrich EXCEPT ![e] = s] /\ UNCHANGED catalog
    BY <1>7, <2>1 DEF EnrichDone, ListFails, lakeVars
  <2> HIDE DEF s
  <2>4. enrich'[e] = s
    BY <1>2, <2>2, <2>3
  <2>5. Chosen(e)'
    BY <2>1, <2>2, <2>4 DEF Chosen
  <2>6. QED
    BY <2>2, <2>3, <2>4, <2>5
<1>8. QED
  BY <1>3, <1>4, <1>5, <1>6, <1>7 DEF EnrichStep, EnrichFault

(* Likewise a tiles job.                                                    *)
LEMMA TilesHistory ==
  ASSUME AnnotateInv, NEW j \in TileJobs, ReadOnce(j), TilesStep(j) \/ TilesFault(j)
  PROVE  /\ ReadOnce(j)'
         /\ tiles'[j].read \in {tiles[j].read, catalog[Cloud[j]]}
         /\ tiles[j].read # NoItem => tiles'[j].read = tiles[j].read
         /\ tiles[j].pc \in TilesEnded => tiles'[j].pc = tiles[j].pc
         /\ \/ /\ UNCHANGED catalog
               /\ tiles'[j].pc = "done" => tiles[j].pc = "done"
            \/ /\ tiles[j].read # NoItem
               /\ tiles'[j].read = tiles[j].read
               /\ tiles'[j].pc \in TilesEnded
               /\ catalog' = [catalog EXCEPT ![Cloud[j]] = WithTileset(j)]
<1> DEFINE o == tiles[j]
<1> USE DEF TilesEnded
<1>0. /\ TilesTypeOK /\ o \in TileStates /\ TileKeys[j] \subseteq Keys /\ Cloud[j] \in Items
      /\ catalog \in [Items -> ItemRecords \cup {NoItem}]
  BY TilesAssumption DEF TilesAssumption, AnnotateInv, WritersInv, WritersTypeOK, TilesTypeOK,
                         TypeInv, IngestTypeOK, LakeTypeOK
<1>1. ASSUME NEW s, tiles' = [tiles EXCEPT ![j] = s] PROVE tiles'[j] = s
  BY <1>0, <1>1 DEF TilesTypeOK
<1>2. CASE Convert(j) \/ UploadTile(j) \/ TilesUploaded(j)
  <2>1. PICK label \in {"upload", "get", "failed"}, T \in SUBSET Keys :
          tiles' = [tiles EXCEPT ![j] = [o EXCEPT !.pc = label, !.todo = T]]
    <3>1. CASE Convert(j)
      <4>1. CASE Stored(Source[j])
        BY <1>0, <3>1, <4>1 DEF Convert
      <4>2. CASE ~Stored(Source[j])
        <5>1. [o EXCEPT !.pc = "failed"] = [o EXCEPT !.pc = "failed", !.todo = o.todo]
          BY <1>0 DEF TileStates
        <5>2. QED
          BY <1>0, <3>1, <4>2, <5>1 DEF Convert, TileStates
      <4>3. QED
        BY <4>1, <4>2
    <3>2. CASE UploadTile(j)
      <4>1. PICK k \in o.todo : tiles' = [tiles EXCEPT ![j].todo = o.todo \ {k}] /\ o.pc = "upload"
        BY <1>0, <3>2 DEF UploadTile, TilesTypeOK
      <4>2. [o EXCEPT !.todo = o.todo \ {k}] = [o EXCEPT !.pc = "upload", !.todo = o.todo \ {k}]
        BY <1>0, <4>1 DEF TileStates
      <4>3. o.todo \ {k} \subseteq Keys
        BY <1>0 DEF TileStates
      <4>4. QED
        BY <1>0, <4>1, <4>2, <4>3 DEF TilesTypeOK
    <3>3. CASE TilesUploaded(j)
      <4>1. [o EXCEPT !.pc = "get"] = [o EXCEPT !.pc = "get", !.todo = o.todo]
        BY <1>0 DEF TileStates
      <4>2. QED
        BY <1>0, <3>3, <4>1 DEF TilesUploaded, TileStates
    <3>4. QED
      BY <1>2, <3>1, <3>2, <3>3
  <2> DEFINE s == [o EXCEPT !.pc = label, !.todo = T]
  <2>2. s.pc = label /\ s.read = o.read
    BY <1>0 DEF TileStates
  <2>3. tiles' = [tiles EXCEPT ![j] = s]
    BY <2>1
  <2> HIDE DEF s
  <2>4. tiles'[j] = s
    BY <1>1, <2>3
  <2>5. o.pc \in {"idle", "upload"} /\ UNCHANGED catalog
    BY <1>2 DEF Convert, UploadTile, TilesUploaded, lakeVars
  <2>6. ReadOnce(j)'
    BY <2>1, <2>2, <2>4, <2>5 DEF ReadOnce
  <2>7. QED
    BY <2>1, <2>2, <2>4, <2>5, <2>6
<1>3. CASE GetItem(j)
  <2>1. PICK label \in {"put", "unlinked"}, rec \in {o.read, catalog[Cloud[j]]} :
          /\ tiles' = [tiles EXCEPT ![j] = [o EXCEPT !.pc = label, !.read = rec]]
          /\ label = "put" => rec # NoItem
    <3>1. CASE Catalogued(Cloud[j])
      BY <1>0, <1>3, <3>1 DEF GetItem, Catalogued
    <3>2. CASE ~Catalogued(Cloud[j])
      <4>1. [o EXCEPT !.pc = "unlinked"] = [o EXCEPT !.pc = "unlinked", !.read = o.read]
        BY <1>0 DEF TileStates
      <4>2. QED
        BY <1>0, <1>3, <3>2, <4>1 DEF GetItem
    <3>3. QED
      BY <3>1, <3>2
  <2> DEFINE s == [o EXCEPT !.pc = label, !.read = rec]
  <2>2. s.pc = label /\ s.read = rec
    BY <1>0 DEF TileStates
  <2>3. tiles' = [tiles EXCEPT ![j] = s]
    BY <2>1
  <2> HIDE DEF s
  <2>4. tiles'[j] = s
    BY <1>1, <2>3
  <2>5. o.pc = "get" /\ o.read = NoItem /\ UNCHANGED catalog
    BY <1>3 DEF GetItem, lakeVars, ReadOnce
  <2>6. ReadOnce(j)'
    BY <2>1, <2>2, <2>4 DEF ReadOnce
  <2>7. QED
    BY <2>1, <2>2, <2>4, <2>5, <2>6
<1>4. CASE PutTileset(j) \/ TileJobFails(j) \/ TilesetNotLinked(j)
  <2>1. PICK label \in TilesEnded :
          /\ tiles' = [tiles EXCEPT ![j].pc = label]
          /\ \/ UNCHANGED catalog /\ label # "done"
             \/ o.pc = "put" /\ catalog' = [catalog EXCEPT ![Cloud[j]] = WithTileset(j)]
    BY <1>4 DEF PutTileset, TileJobFails, TilesetNotLinked, PutTaken, WriteItem, lakeVars
  <2> DEFINE s == [o EXCEPT !.pc = label]
  <2>2. s.pc = label /\ s.read = o.read
    BY <1>0 DEF TileStates
  <2>3. tiles' = [tiles EXCEPT ![j] = s] /\ o.pc \in {"upload", "get", "put"}
    BY <1>4, <2>1 DEF PutTileset, TileJobFails, TilesetNotLinked
  <2> HIDE DEF s
  <2>4. tiles'[j] = s
    BY <1>1, <2>3
  <2>5. ReadOnce(j)'
    BY <2>1, <2>2, <2>4 DEF ReadOnce
  <2>6. o.pc = "put" => o.read # NoItem
    BY DEF ReadOnce
  <2>7. QED
    BY <2>1, <2>2, <2>3, <2>4, <2>5, <2>6
<1>5. QED
  BY <1>2, <1>3, <1>4 DEF TilesStep, TilesFault

(* A task that is done stays done, and a failed call is remembered.         *)
LEMMA IngestHistory ==
  ASSUME TypeInv, [Next]_vars
  PROVE  /\ \A r \in Runs : /\ pc[r] = "done" => pc'[r] = "done"
                            /\ faults[r] > 0 => faults'[r] > 0
         /\ \/ catalog' = catalog
            \/ \E r \in Runs : /\ WriteItem(Target[r], BuildItem(r))
                               /\ pc'[r] = "done" \/ faults'[r] > 0
<1> USE DEF Goto, Advance, Return, Raise, Fault, LoseRace, TypeInv, IngestTypeOK, TaskTypeOK
<1>1. ASSUME NEW r \in Runs, TaskStep(r) \/ TaskFault(r)
      PROVE  /\ pc[r] # "done"
             /\ faults[r] > 0 => faults'[r] > 0
             /\ \/ catalog' = catalog
                \/ /\ WriteItem(Target[r], BuildItem(r))
                   /\ pc'[r] = "done" \/ faults'[r] > 0
  <2>1. CASE TaskStep(r)
    BY <2>1 DEF TaskStep, StartAttempt, MayStart, Validate, ProbeItem, Transform, UploadFile,
              UploadDone, ProbeCollection, CreateCollection, PostItem, PutItem, lakeVars
  <2>2. CASE TaskFault(r)
    BY <2>2 DEF TaskFault, UseCachedResult, MayStart, ProbeItemFails, CallFails, AnswerLost, lakeVars
  <2>3. QED
    BY <1>1, <2>1, <2>2
<1>2. ASSUME NEW f \in Flows, FlowStep(f) \/ FlowFault(f)
      PROVE  /\ catalog' = catalog
             /\ faults' = faults
             /\ \A r \in Runs : pc[r] = "done" => pc'[r] = "done"
  BY <1>2 DEF FlowStep, FlowFault, StartFlow, FetchFails, CompleteFlow, FailFlow, CrashFlow,
              lakeVars, taskVars
<1>3. CASE \E r \in Runs : TaskStep(r) \/ TaskFault(r)
  <2>1. PICK r \in Runs : TaskStep(r) \/ TaskFault(r)
    BY <1>3
  <2>2. \A s \in Runs \ {r} : pc'[s] = pc[s] /\ faults'[s] = faults[s]
    BY <2>1, TaskFrame
  <2>3. QED
    BY <1>1, <2>1, <2>2
<1>4. CASE \E f \in Flows : FlowStep(f) \/ FlowFault(f)
  BY <1>2, <1>4
<1>5. CASE UNCHANGED vars
  BY <1>5 DEF vars, lakeVars, ingestVars, taskVars
<1>6. QED
  BY <1>3, <1>4, <1>5 DEF Next, IngestNext

(* Nobody forgets what he has read of i, or what he has sent.               *)
Remembered(i) ==
    /\ \A e \in Enrichers :
         /\ enrich[e].read[i] # NoItem => enrich'[e].read[i] = enrich[e].read[i]
         /\ enrich[e].answer[i] # "none" => enrich'[e].answer[i] = enrich[e].answer[i]
    /\ \A j \in TileJobs :
         /\ tiles[j].read # NoItem => tiles'[j].read = tiles[j].read
         /\ tiles[j].pc \in TilesEnded => tiles'[j].pc = tiles[j].pc

LEMMA PutBackGrows ==
  ASSUME NEW i \in Items, Remembered(i), NEW w PROVE PutBack(i, w) \subseteq PutBack(i, w)'
BY DEF Remembered, PutBack, Sent

(* What was traced stays traced where the item is left alone and nobody     *)
(* claims something new, and as far as i goes nothing depends on the rest.  *)
LEMMA TracedKept ==
  ASSUME NEW i \in Items, Remembered(i), Traced(i), catalog'[i] = catalog[i],
         \A e \in Enrichers : enrich'[e].answer[i] = "enriched" => enrich[e].answer[i] = "enriched",
         \A j \in TileJobs : Cloud[j] = i /\ tiles'[j].pc = "done" => tiles[j].pc = "done",
         i \in edited' => i \in edited
  PROVE  Traced(i)'
<1>1. \A w : PutBack(i, w) \subseteq PutBack(i, w)'
  BY PutBackGrows
<1>2. ASSUME NEW e \in Enrichers, enrich'[e].answer[i] = "enriched", ~catalog'[i].enriched
      PROVE  \E rec \in PutBack(i, e)' : ~rec.enriched
  BY <1>1, <1>2 DEF Traced
<1>3. ASSUME NEW j \in TileJobs, Cloud[j] = i, tiles'[j].pc = "done", Link(j) \notin catalog'[i].hrefs
      PROVE  \E rec \in PutBack(i, j)' : Link(j) \notin rec.hrefs
  BY <1>1, <1>3 DEF Traced
<1>4. ASSUME i \in edited', ~catalog'[i].curated
      PROVE  \E rec \in PutBack(i, NoItem)' : ~rec.curated
  BY <1>1, <1>4 DEF Traced
<1>5. QED
  BY <1>2, <1>3, <1>4 DEF Traced

(* A job that sends back a version it has read is the explanation of what   *)
(* that version lacks.                                                      *)
LEMMA TracedSent ==
  ASSUME NEW i \in Items, NEW w, w # NoItem, NEW rec, \A v : v # w => rec \in PutBack(i, v)',
         ~catalog'[i].enriched => ~rec.enriched,
         rec.hrefs \subseteq catalog'[i].hrefs,
         rec.curated => catalog'[i].curated,
         w \in Enrichers => (enrich'[w].answer[i] = "enriched" => catalog'[i].enriched),
         w \in TileJobs => Link(w) \in catalog'[i].hrefs
  PROVE  Traced(i)'
<1>1. ASSUME NEW e \in Enrichers, enrich'[e].answer[i] = "enriched", ~catalog'[i].enriched
      PROVE  \E old \in PutBack(i, e)' : ~old.enriched
  BY <1>1
<1>2. ASSUME NEW j \in TileJobs, Link(j) \notin catalog'[i].hrefs
      PROVE  \E old \in PutBack(i, j)' : Link(j) \notin old.hrefs
  BY <1>2
<1>3. ASSUME ~catalog'[i].curated PROVE \E old \in PutBack(i, NoItem)' : ~old.curated
  BY <1>3
<1>4. QED
  BY <1>1, <1>2, <1>3 DEF Traced

(* Nothing new is known of i: every version bears the marks of one that was *)
(* known before.                                                            *)
NothingNew(i) ==
    \A new \in Known(i)' : \E rec \in Known(i) : new.curated = rec.curated /\ new.cls = rec.cls

LEMMA NothingNewKeeps ==
  ASSUME NEW i \in Items, NothingNew(i), Catalogued(i) => Catalogued(i)',
         Unknown(i), PostedOnce(i), OneClass(i), UNCHANGED <<ingestVars, edited>>
  PROVE  /\ Unknown(i)' /\ PostedOnce(i)' /\ OneClass(i)'
         /\ Catalogued(i)' => Catalogued(i)
         /\ Replaced(i)' => Replaced(i)
         /\ Replaced(i) => Replaced(i)'
<1>1. UNCHANGED pc /\ UNCHANGED faults
  BY DEF ingestVars, taskVars
<1>2. Replaced(i)' <=> Replaced(i)
  BY <1>1 DEF Replaced
<1>3. Catalogued(i)' => Catalogued(i)
  <2>1. Catalogued(i)' => Known(i)' # {}
    BY DEF Catalogued, Known
  <2>2. Known(i)' # {} => Known(i) # {}
    BY DEF NothingNew
  <2>3. QED
    BY <2>1, <2>2 DEF Unknown
<1>4. Unknown(i)'
  BY DEF Unknown, NothingNew
<1>5. PostedOnce(i)'
  BY <1>1, <1>2, <1>3 DEF PostedOnce
<1>6. OneClass(i)'
  <2> SUFFICES ASSUME ~Replaced(i)
      PROVE  /\ \A rec \in Known(i)' : rec.curated => i \in edited
             /\ \A rec, old \in Known(i)' : rec.curated = old.curated => rec.cls = old.cls
    BY <1>2 DEF OneClass
  <2>1. /\ \A rec \in Known(i) : rec.curated => i \in edited
        /\ \A rec, old \in Known(i) : rec.curated = old.curated => rec.cls = old.cls
    BY DEF OneClass
  <2>2. \A rec \in Known(i)' : rec.curated => i \in edited
    BY <2>1 DEF NothingNew
  <2>3. ASSUME NEW rec \in Known(i)', NEW old \in Known(i)', rec.curated = old.curated
        PROVE  rec.cls = old.cls
    <3>1. PICK r \in Known(i) : rec.curated = r.curated /\ rec.cls = r.cls
      BY DEF NothingNew
    <3>2. PICK s \in Known(i) : old.curated = s.curated /\ old.cls = s.cls
      BY DEF NothingNew
    <3>3. QED
      BY <2>1, <2>3, <3>1, <3>2
  <2>4. QED
    BY <2>2, <2>3
<1>7. QED
  BY <1>2, <1>3, <1>4, <1>5, <1>6

-----------------------------------------------------------------------------
(* The writers, one after the other.                                        *)

LEMMA EnrichKeepsHistory ==
  ASSUME AnnotateInv, HistoryInv, NEW e \in Enrichers, EnrichStep(e) \/ EnrichFault(e),
         UNCHANGED <<ingestVars, tiles, edited>>
  PROVE  HistoryInv'
<1>0. /\ EnrichTypeOK /\ enrich[e] \in EnrichStates
      /\ catalog \in [Items -> ItemRecords \cup {NoItem}]
      /\ Chosen(e) /\ NoItem \notin ItemRecords
  BY LakeAssumption
     DEF LakeAssumption, AnnotateInv, WritersInv, WritersTypeOK, EnrichTypeOK, TypeInv, IngestTypeOK, LakeTypeOK, HistoryInv
<1>1. \A f \in Enrichers \ {e} : enrich'[f] = enrich[f]
  BY EnrichEffect
<1>2. Chosen(e)'
  BY <1>0, EnrichHistory
<1>3. \A f \in Enrichers : Chosen(f)'
  BY <1>1, <1>2 DEF HistoryInv, Chosen
<1>4. \A j \in TileJobs : ReadOnce(j)'
  BY DEF HistoryInv, ReadOnce
<1>5. ASSUME NEW i \in Items
      PROVE  Unknown(i)' /\ PostedOnce(i)' /\ OneClass(i)'
             /\ (Catalogued(i)' /\ ~Replaced(i)' => Traced(i)')
  <2> DEFINE o == enrich[e]
             n == enrich'[e]
  <2>0. Unknown(i) /\ PostedOnce(i) /\ OneClass(i) /\ (Catalogued(i) /\ ~Replaced(i) => Traced(i))
    BY DEF HistoryInv
  <2>1. /\ n.read[i] \in {o.read[i], catalog[i]}
        /\ o.read[i] # NoItem => n.read[i] = o.read[i]
        /\ o.answer[i] # "none" => n.answer[i] = o.answer[i]
    BY <1>0, EnrichHistory
  <2>2. Remembered(i)
    BY <1>1, <2>1 DEF Remembered
  <2>3. \A new \in Known(i)' : new \in Known(i) \/ new = catalog'[i]
    BY <1>1, <2>1 DEF Known
  <2>4. CASE /\ catalog'[i] = catalog[i]
             /\ n.answer[i] = "enriched" => o.answer[i] = "enriched"
    <3>1. NothingNew(i) /\ (Catalogued(i) => Catalogued(i)')
      BY <2>3, <2>4 DEF NothingNew, Known, Catalogued
    <3>2. Traced(i) => Traced(i)'
      BY <1>1, <2>2, <2>4, TracedKept
    <3>3. QED
      BY <2>0, <3>1, <3>2, NothingNewKeeps
  <2>5. CASE /\ o.read[i] # NoItem
             /\ ~o.read[i].enriched
             /\ n.answer[i] \in Sent
             /\ \E b \in BOOLEAN :
                  /\ catalog'[i] = [o.read[i] EXCEPT !.enriched = b]
                  /\ n.answer[i] = "enriched" => b
    <3> DEFINE rec == o.read[i]
    <3>1. PICK b \in BOOLEAN : catalog'[i] = [rec EXCEPT !.enriched = b] /\ (n.answer[i] = "enriched" => b)
      BY <2>5
    <3>2. rec \in ItemRecords /\ rec \in Known(i)
      BY <1>0, <2>5 DEF EnrichStates, Known
    <3> DEFINE new == [rec EXCEPT !.enriched = b]
    <3>3. /\ new \in ItemRecords /\ new.curated = rec.curated /\ new.cls = rec.cls
          /\ new.hrefs = rec.hrefs /\ new.enriched = b
      BY <3>2 DEF ItemRecords
    <3>4. catalog'[i] = new
      BY <3>1
    <3> HIDE DEF new
    <3>5. NothingNew(i) /\ (Catalogued(i) => Catalogued(i)')
      BY <1>0, <2>3, <3>2, <3>3, <3>4 DEF NothingNew, Catalogued
    <3>6. \A v : v # e => rec \in PutBack(i, v)'
      BY <2>1, <2>5 DEF PutBack
    <3>7. e # NoItem /\ e \notin TileJobs
      BY AnnotateAssumption DEF AnnotateAssumption
    <3>8. ~rec.enriched
      BY <2>5
    <3> HIDE DEF rec
    <3>9. Traced(i)'
      BY <3>1, <3>3, <3>4, <3>6, <3>7, <3>8, TracedSent
    <3>10. QED
      BY <2>0, <3>5, <3>9, NothingNewKeeps
  <2>6. QED
    BY <1>0, <2>4, <2>5, EnrichHistory
<1>6. QED
  BY <1>3, <1>4, <1>5 DEF HistoryInv

LEMMA TilesKeepHistory ==
  ASSUME AnnotateInv, HistoryInv, NEW j \in TileJobs, TilesStep(j) \/ TilesFault(j),
         UNCHANGED <<ingestVars, enrich, edited>>
  PROVE  HistoryInv'
<1>0. /\ TilesTypeOK /\ tiles[j] \in TileStates /\ Cloud[j] \in Items
      /\ catalog \in [Items -> ItemRecords \cup {NoItem}]
      /\ ReadOnce(j) /\ NoItem \notin ItemRecords
  BY LakeAssumption, TilesAssumption
     DEF LakeAssumption, TilesAssumption, AnnotateInv, WritersInv, WritersTypeOK, TilesTypeOK,
         TypeInv, IngestTypeOK, LakeTypeOK, HistoryInv
<1>1. \A k \in TileJobs \ {j} : tiles'[k] = tiles[k]
  BY TilesEffect
<1>2. /\ ReadOnce(j)'
      /\ tiles'[j].read \in {tiles[j].read, catalog[Cloud[j]]}
      /\ tiles[j].read # NoItem => tiles'[j].read = tiles[j].read
      /\ tiles[j].pc \in TilesEnded => tiles'[j].pc = tiles[j].pc
      /\ \/ /\ UNCHANGED catalog
            /\ tiles'[j].pc = "done" => tiles[j].pc = "done"
         \/ /\ tiles[j].read # NoItem
            /\ tiles'[j].read = tiles[j].read
            /\ tiles'[j].pc \in TilesEnded
            /\ catalog' = [catalog EXCEPT ![Cloud[j]] = WithTileset(j)]
  BY <1>0, TilesHistory
<1>3. \A k \in TileJobs : ReadOnce(k)'
  BY <1>1, <1>2 DEF HistoryInv, ReadOnce
<1>4. \A e \in Enrichers : Chosen(e)'
  BY DEF HistoryInv, Chosen
<1>5. ASSUME NEW i \in Items
      PROVE  Unknown(i)' /\ PostedOnce(i)' /\ OneClass(i)'
             /\ (Catalogued(i)' /\ ~Replaced(i)' => Traced(i)')
  <2> DEFINE o == tiles[j]
             n == tiles'[j]
  <2>0. Unknown(i) /\ PostedOnce(i) /\ OneClass(i) /\ (Catalogued(i) /\ ~Replaced(i) => Traced(i))
    BY DEF HistoryInv
  <2>1. Remembered(i)
    BY <1>1, <1>2 DEF Remembered
  <2>2. \A new \in Known(i)' : new \in Known(i) \/ new = catalog'[i]
    BY <1>1, <1>2 DEF Known
  <2>3. CASE /\ catalog'[i] = catalog[i]
             /\ Cloud[j] = i /\ n.pc = "done" => o.pc = "done"
    <3>1. NothingNew(i) /\ (Catalogued(i) => Catalogued(i)')
      BY <2>2, <2>3 DEF NothingNew, Known, Catalogued
    <3>2. Traced(i) => Traced(i)'
      BY <1>1, <2>1, <2>3, TracedKept
    <3>3. QED
      BY <2>0, <3>1, <3>2, NothingNewKeeps
  <2>4. CASE /\ Cloud[j] = i
             /\ o.read # NoItem
             /\ n.read = o.read
             /\ n.pc \in TilesEnded
             /\ catalog' = [catalog EXCEPT ![Cloud[j]] = WithTileset(j)]
    <3> DEFINE rec == o.read
               new == [rec EXCEPT !.hrefs = rec.hrefs \cup {Link(j)}]
    <3>1. rec \in ItemRecords /\ rec \in Known(i)
      BY <1>0, <2>4 DEF TileStates, Known
    <3>2. Link(j) \in Hrefs
      BY TilesAssumption DEF TilesAssumption, Link, Hrefs
    <3>3. /\ new \in ItemRecords /\ new.curated = rec.curated /\ new.cls = rec.cls
          /\ new.hrefs = rec.hrefs \cup {Link(j)} /\ new.enriched = rec.enriched
      BY <3>1, <3>2 DEF ItemRecords
    <3>4. catalog'[i] = new
      BY <1>0, <2>4 DEF WithTileset, Link
    <3> HIDE DEF new
    <3>5. NothingNew(i) /\ (Catalogued(i) => Catalogued(i)')
      BY <1>0, <2>2, <3>1, <3>3, <3>4 DEF NothingNew, Catalogued
    <3>6. \A v : v # j => rec \in PutBack(i, v)'
      BY <2>4 DEF PutBack
    <3>7. j # NoItem /\ j \notin Enrichers
      BY AnnotateAssumption DEF AnnotateAssumption
    <3> HIDE DEF rec
    <3>8. Traced(i)'
      BY <3>3, <3>4, <3>6, <3>7, TracedSent
    <3>9. QED
      BY <2>0, <3>5, <3>8, NothingNewKeeps
  <2>5. QED
    BY <1>0, <1>2, <2>3, <2>4
<1>6. QED
  BY <1>3, <1>4, <1>5 DEF HistoryInv

(* An item that is not replaced is posted by one task, once: before that    *)
(* nobody knows of it.                                                      *)
LEMMA IngestKeepsHistory ==
  ASSUME AnnotateInv, HistoryInv, [Next]_vars, UNCHANGED writers
  PROVE  HistoryInv'
<1>0. TypeInv /\ catalog \in [Items -> ItemRecords \cup {NoItem}] /\ NoItem \notin ItemRecords
  BY LakeAssumption DEF LakeAssumption, AnnotateInv, TypeInv, IngestTypeOK, LakeTypeOK
<1>1. UNCHANGED enrich /\ UNCHANGED tiles /\ UNCHANGED edited
  BY DEF writers
<1>2. /\ \A r \in Runs : /\ pc[r] = "done" => pc'[r] = "done"
                         /\ faults[r] > 0 => faults'[r] > 0
      /\ \/ catalog' = catalog
         \/ \E r \in Runs : /\ WriteItem(Target[r], BuildItem(r))
                            /\ pc'[r] = "done" \/ faults'[r] > 0
  BY <1>0, IngestHistory
<1>3. (\A e \in Enrichers : Chosen(e)') /\ (\A j \in TileJobs : ReadOnce(j)')
  BY <1>1 DEF HistoryInv, Chosen, ReadOnce
<1>4. ASSUME NEW i \in Items
      PROVE  Unknown(i)' /\ PostedOnce(i)' /\ OneClass(i)'
             /\ (Catalogued(i)' /\ ~Replaced(i)' => Traced(i)')
  <2>0. Unknown(i) /\ PostedOnce(i) /\ OneClass(i) /\ (Catalogued(i) /\ ~Replaced(i) => Traced(i))
    BY DEF HistoryInv
  <2>1. ~Replaced(i)' => ~Replaced(i)
    BY <1>2 DEF Replaced
  <2>2. Catalogued(i) => Catalogued(i)'
    BY <1>0, Monotone
  <2>3. CASE catalog'[i] = catalog[i]
    <3>1. Known(i)' = Known(i) /\ (Catalogued(i)' <=> Catalogued(i))
      BY <1>1, <2>3 DEF Known, Catalogued
    <3>2. Traced(i) => Traced(i)'
      BY <1>1, <2>3 DEF Traced, PutBack
    <3>3. Unknown(i)' /\ OneClass(i)'
      BY <1>1, <2>0, <2>1, <3>1 DEF Unknown, OneClass
    <3>4. PostedOnce(i)'
      BY <1>2, <2>0, <2>1, <3>1 DEF PostedOnce
    <3>5. QED
      BY <2>0, <2>1, <3>1, <3>2, <3>3, <3>4
  <2>4. CASE catalog'[i] # catalog[i]
    <3>1. PICK r \in Runs : /\ WriteItem(Target[r], BuildItem(r))
                            /\ pc'[r] = "done" \/ faults'[r] > 0
      BY <1>2, <2>4
    <3>2. Target[r] = i /\ catalog'[i] = BuildItem(r)
      BY <1>0, <2>4, <3>1 DEF WriteItem
    <3>3. pc[r] \in {"postItem", "putItem"} \/ Replaced(i)'
      <4>1. PICK s \in Runs : pc[s] \in {"postItem", "putItem"} /\ WriteItem(Target[s], BuildItem(s))
        BY <1>0, <2>4, CatalogSteps
      <4>2. Target[s] = i
        BY <1>0, <2>4, <4>1 DEF WriteItem
      <4>3. QED
        BY <3>2, <4>1, <4>2 DEF Replaced
    <3>4. Catalogued(i)'
      BY <1>0, <3>2, BuildItemType DEF Catalogued
    <3>5. Unknown(i)'
      BY <3>4 DEF Unknown
    <3>6. ASSUME ~Replaced(i)' PROVE PostedOnce(i)' /\ OneClass(i)' /\ Traced(i)'
      <4>1. ~Catalogued(i)
        BY <2>0, <2>1, <3>2, <3>3, <3>6 DEF PostedOnce
      <4>2. Known(i) = {} /\ i \notin edited
        BY <2>0, <4>1 DEF Unknown
      <4>3. \A s \in Runs : Target[s] = i => s = r
        BY <3>2, <3>6 DEF Replaced
      <4>4. ~(faults'[r] > 0)
        BY <3>2, <3>6 DEF Replaced
      <4>5. PostedOnce(i)'
        BY <3>1, <4>3, <4>4 DEF PostedOnce
      <4>6. Known(i)' \subseteq {BuildItem(r)}
        BY <1>1, <3>2, <4>2 DEF Known
      <4>7. OneClass(i)'
        BY <4>6 DEF OneClass, BuildItem
      <4>8. \A e \in Enrichers : enrich[e].read[i] = NoItem
        BY <4>2 DEF Known
      <4>9. \A e \in Enrichers : enrich'[e].answer[i] # "enriched"
        BY <1>1, <4>8 DEF HistoryInv, Chosen
      <4>10. \A j \in TileJobs : Cloud[j] = i => tiles[j].read = NoItem
        BY <4>2 DEF Known
      <4>11. \A j \in TileJobs : Cloud[j] = i => tiles'[j].pc # "done"
        BY <1>1, <4>10 DEF HistoryInv, ReadOnce
      <4>12. Traced(i)'
        BY <1>1, <4>2, <4>9, <4>11 DEF Traced
      <4>13. QED
        BY <4>5, <4>7, <4>12
    <3>7. CASE Replaced(i)'
      BY <3>5, <3>7 DEF PostedOnce, OneClass
    <3>8. QED
      BY <3>5, <3>6, <3>7
  <2>5. QED
    BY <2>3, <2>4
<1>5. QED
  BY <1>3, <1>4 DEF HistoryInv

LEMMA CuratorKeepsHistory ==
  ASSUME AnnotateInv, HistoryInv, NEW n \in Items, Curate(n)
  PROVE  HistoryInv'
<1>0. catalog \in [Items -> ItemRecords \cup {NoItem}] /\ NoItem \notin ItemRecords
  BY LakeAssumption DEF LakeAssumption, AnnotateInv, TypeInv, IngestTypeOK, LakeTypeOK
<1>1. /\ UNCHANGED ingestVars /\ enrich' = enrich /\ tiles' = tiles
      /\ edited' = edited \cup {n} /\ n \notin edited /\ Catalogued(n)
  BY DEF Curate
<1>2. UNCHANGED pc /\ UNCHANGED faults
  BY <1>1 DEF ingestVars, taskVars
<1>3. PICK c \in Classes : catalog' = [catalog EXCEPT ![n] = [catalog[n] EXCEPT !.curated = TRUE, !.cls = c]]
  BY DEF Curate, WriteItem
<1> DEFINE rec == catalog[n]
           new == [rec EXCEPT !.curated = TRUE, !.cls = c]
<1>4. rec \in ItemRecords /\ rec \in Known(n)
  BY <1>0, <1>1 DEF Catalogued, Known
<1>5. /\ new \in ItemRecords /\ new.curated = TRUE /\ new.cls = c
      /\ new.enriched = rec.enriched /\ new.hrefs = rec.hrefs
  BY <1>4 DEF ItemRecords
<1>6. catalog'[n] = new /\ \A i \in Items \ {n} : catalog'[i] = catalog[i]
  BY <1>0, <1>3
<1> HIDE DEF new
<1>7. (\A e \in Enrichers : Chosen(e)') /\ (\A j \in TileJobs : ReadOnce(j)')
  BY <1>1 DEF HistoryInv, Chosen, ReadOnce
<1>8. ASSUME NEW i \in Items
      PROVE  Unknown(i)' /\ PostedOnce(i)' /\ OneClass(i)'
             /\ (Catalogued(i)' /\ ~Replaced(i)' => Traced(i)')
  <2>0. Unknown(i) /\ PostedOnce(i) /\ OneClass(i) /\ (Catalogued(i) /\ ~Replaced(i) => Traced(i))
    BY DEF HistoryInv
  <2>1. Replaced(i)' <=> Replaced(i)
    BY <1>2 DEF Replaced
  <2>2. Remembered(i)
    BY <1>1 DEF Remembered
  <2>3. CASE i # n
    <3>1. catalog'[i] = catalog[i] /\ (i \in edited' <=> i \in edited)
      BY <1>1, <1>6, <2>3
    <3>2. Known(i)' = Known(i) /\ (Catalogued(i)' <=> Catalogued(i))
      BY <1>1, <3>1 DEF Known, Catalogued
    <3>3. Traced(i) => Traced(i)'
      BY <1>1, <2>2, <3>1, TracedKept
    <3>4. Unknown(i)' /\ PostedOnce(i)' /\ OneClass(i)'
      BY <1>2, <2>0, <2>1, <3>1, <3>2 DEF Unknown, PostedOnce, OneClass
    <3>5. QED
      BY <2>0, <2>1, <3>2, <3>3, <3>4
  <2>4. CASE i = n
    <3>1. Catalogued(i)'
      BY <1>0, <1>5, <1>6, <2>4 DEF Catalogued
    <3>2. Unknown(i)' /\ PostedOnce(i)'
      BY <1>1, <1>2, <2>0, <2>1, <2>4, <3>1 DEF Unknown, PostedOnce
    <3>3. ASSUME ~Replaced(i) PROVE OneClass(i)'
      <4>1. /\ \A v \in Known(i) : ~v.curated
            /\ \A u, v \in Known(i) : u.curated = v.curated => u.cls = v.cls
        BY <1>1, <2>0, <2>4, <3>3 DEF OneClass
      <4>2. \A v \in Known(i)' : v \in Known(i) \/ v = new
        BY <1>1, <1>6, <2>4 DEF Known
      <4>3. i \in edited'
        BY <1>1, <2>4
      <4>4. ASSUME NEW u \in Known(i)', NEW v \in Known(i)', u.curated = v.curated
            PROVE  u.cls = v.cls
        BY <1>5, <4>1, <4>2, <4>4
      <4>5. QED
        BY <4>3, <4>4 DEF OneClass
    <3>4. ASSUME Traced(i) PROVE Traced(i)'
      <4>1. \A w : PutBack(i, w)' = PutBack(i, w)
        BY <1>1 DEF PutBack
      <4>2. catalog'[i].enriched = catalog[i].enriched /\ catalog'[i].hrefs = catalog[i].hrefs
            /\ catalog'[i].curated
        BY <1>5, <1>6, <2>4
      <4>3. QED
        BY <1>1, <3>4, <4>1, <4>2 DEF Traced
    <3>5. OneClass(i)'
      BY <2>1, <3>3 DEF OneClass
    <3>6. QED
      BY <1>1, <2>0, <2>1, <2>4, <3>2, <3>4, <3>5
  <2>5. QED
    BY <2>3, <2>4
<1>9. QED
  BY <1>7, <1>8 DEF HistoryInv

-----------------------------------------------------------------------------

LEMMA HistoryInitially == AnnotateInit => HistoryInv
<1> SUFFICES ASSUME AnnotateInit PROVE HistoryInv
  OBVIOUS
<1>1. /\ \A i \in Items : catalog[i] = NoItem
      /\ \A e \in Enrichers : /\ enrich[e].pc = "list" /\ enrich[e].todo = {}
                              /\ \A i \in Items : /\ enrich[e].read[i] = NoItem
                                                  /\ enrich[e].answer[i] = "none"
      /\ \A j \in TileJobs : tiles[j].pc = "idle" /\ tiles[j].read = NoItem
      /\ edited = {}
  BY DEF AnnotateInit, Init, EnrichInit, TilesInit
<1>2. \A i \in Items : Known(i) = {} /\ ~Catalogued(i)
  BY <1>1 DEF Known, Catalogued
<1>3. QED
  BY <1>1, <1>2 DEF HistoryInv, Chosen, ReadOnce, Unknown, PostedOnce, OneClass

LEMMA HistoryStep == AnnotateInv /\ HistoryInv /\ [AnnotateNext]_annotateVars => HistoryInv'
<1> SUFFICES ASSUME AnnotateInv, HistoryInv, [AnnotateNext]_annotateVars PROVE HistoryInv'
  OBVIOUS
<1>1. CASE IngestNext /\ UNCHANGED writers
  BY <1>1, IngestKeepsHistory DEF Next
<1>2. CASE EnrichNext /\ UNCHANGED <<ingestVars, tiles, edited>>
  BY <1>2, EnrichKeepsHistory DEF EnrichNext
<1>3. CASE TilesNext /\ UNCHANGED <<ingestVars, enrich, edited>>
  BY <1>3, TilesKeepHistory DEF TilesNext
<1>4. CASE \E i \in Items : Curate(i)
  BY <1>4, CuratorKeepsHistory
<1>5. CASE UNCHANGED annotateVars
  BY <1>5, IngestKeepsHistory DEF annotateVars
<1>6. QED
  BY <1>1, <1>2, <1>3, <1>4, <1>5 DEF AnnotateNext

LEMMA HistoryAlways == AnnotateSpec => [](AnnotateInv /\ HistoryInv)
<1>1. AnnotateInit => AnnotateInv /\ HistoryInv
  BY AnnotateInitially, HistoryInitially
<1>2. AnnotateInv /\ HistoryInv /\ [AnnotateNext]_annotateVars => (AnnotateInv /\ HistoryInv)'
  BY AnnotateStep, HistoryStep
<1>3. QED
  BY <1>1, <1>2, PTL DEF AnnotateSpec

(* However many jobs write an item back whole, an update that is no longer  *)
(* there was undone by one that had read the item without it.               *)
THEOREM LostUpdatesAlwaysExplained == AnnotateSpec => []LostUpdatesAreExplained
<1>1. HistoryInv => LostUpdatesAreExplained
  BY DEF HistoryInv, Traced, LostUpdatesAreExplained, Link
<1>2. QED
  BY <1>1, HistoryAlways, PTL

(* What the LLM is asked about was in an allowed class when it was listed;  *)
(* if the catalogue has it otherwise, a curator came later, or a job undid  *)
(* what the curator had allowed.                                            *)
THEOREM SensitiveNeverSent == AnnotateSpec => []SensitiveIsNotSent
<1>1. ASSUME AnnotateInv, HistoryInv PROVE SensitiveIsNotSent
  <2> SUFFICES ASSUME NEW e \in Enrichers, enrich[e].pc = "ask", Catalogued(enrich[e].item),
                      ~Replaced(enrich[e].item), catalog[enrich[e].item].cls \notin Allowed
      PROVE  \/ enrich[e].item \in edited /\ ~enrich[e].read[enrich[e].item].curated
             \/ \E rec \in PutBack(enrich[e].item, e) : rec.cls \notin Allowed
    BY DEF SensitiveIsNotSent
  <2> DEFINE i == enrich[e].item
             mine == enrich[e].read[i]
             now == catalog[i]
  <2>1. i \in Items /\ mine # NoItem /\ mine.cls \in Allowed
    BY <1>1 DEF AnnotateInv, WritersInv, HasRead, HistoryInv, Chosen
  <2>2. mine \in Known(i) /\ now \in Known(i)
    BY <2>1 DEF Known, Catalogued
  <2>3. mine \in ItemRecords /\ now \in ItemRecords
    BY <1>1, <2>1 DEF AnnotateInv, WritersInv, WritersTypeOK, EnrichTypeOK, EnrichStates,
                      TypeInv, IngestTypeOK, LakeTypeOK, Catalogued
  <2>4. mine.curated \in BOOLEAN /\ now.curated \in BOOLEAN
    BY <2>3 DEF ItemRecords
  <2>5. /\ \A rec \in Known(i) : rec.curated => i \in edited
        /\ \A rec, old \in Known(i) : rec.curated = old.curated => rec.cls = old.cls
        /\ Traced(i)
    BY <1>1, <2>1 DEF HistoryInv, OneClass
  <2> HIDE DEF mine, now
  <2>6. mine.curated # now.curated
    BY <2>1, <2>2, <2>5 DEF now
  <2>7. CASE now.curated
    BY <2>2, <2>4, <2>5, <2>6, <2>7 DEF mine
  <2>8. CASE ~now.curated
    <3>1. mine.curated /\ i \in edited
      BY <2>2, <2>4, <2>5, <2>6, <2>8
    <3>2. PICK rec \in PutBack(i, NoItem) : ~rec.curated
      BY <2>5, <2>8, <3>1 DEF Traced, now
    <3>3. rec \in Known(i)
      BY <3>2 DEF PutBack, Known
    <3>4. rec \in ItemRecords
      <4>1. rec # NoItem /\ (\/ \E f \in Enrichers : rec = enrich[f].read[i]
                             \/ \E k \in TileJobs : rec = tiles[k].read)
        BY <3>2 DEF PutBack
      <4>2. QED
        BY <1>1, <2>1, <4>1 DEF AnnotateInv, WritersInv, WritersTypeOK, EnrichTypeOK,
                                EnrichStates, TilesTypeOK, TileStates
    <3>5. rec.curated = now.curated
      BY <2>4, <2>8, <3>2, <3>4 DEF ItemRecords
    <3>6. rec.cls \notin Allowed
      BY <2>2, <2>5, <3>3, <3>5 DEF now
    <3>7. rec # mine
      BY <3>1, <3>2
    <3>8. rec \in PutBack(i, e)
      BY <3>2, <3>7, AnnotateAssumption DEF AnnotateAssumption, PutBack, mine
    <3>9. QED
      BY <3>6, <3>8
  <2>9. QED
    BY <2>7, <2>8
<1>2. QED
  BY <1>1, HistoryAlways, PTL

-----------------------------------------------------------------------------
(* That enrich runs and tiles jobs end.  An enrich run strikes an item off  *)
(* its list whatever becomes of it, so it must still be on the list while   *)
(* it is at hand.                                                           *)

ItemAtHand(e) ==
    enrich[e].pc \in {"ask", "put"} => enrich[e].item \in enrich[e].todo

Unlisted(s) == IF s.pc = "list" THEN 1 ELSE 0

EnrichStage(s) ==
    CASE s.pc = "next" -> 3
      [] s.pc = "ask" -> 2
      [] s.pc = "put" -> 1
      [] OTHER -> 0

EnrichRank(s) == <<Unlisted(s), Cardinality(s.todo), EnrichStage(s)>>

TilesStage(s) ==
    CASE s.pc = "idle" -> 4
      [] s.pc = "upload" -> 3
      [] s.pc = "get" -> 2
      [] s.pc = "put" -> 1
      [] OTHER -> 0

TilesRank(s) == <<TilesStage(s), Cardinality(s.todo)>>

LEMMA EnrichDescends ==
  ASSUME AnnotateInv, IsFiniteSet(Items), NEW e \in Enrichers, ItemAtHand(e),
         EnrichStep(e) \/ EnrichFault(e)
  PROVE  /\ <<EnrichRank(enrich'[e]), EnrichRank(enrich[e])>> \in Lower(3)
         /\ ItemAtHand(e)'
         /\ \A f \in Enrichers \ {e} : enrich'[f] = enrich[f]
<1> DEFINE o == enrich[e]
           s == enrich'[e]
<1>0. /\ EnrichTypeOK /\ o \in EnrichStates /\ HasRead(e)
  BY DEF AnnotateInv, WritersInv, WritersTypeOK, EnrichTypeOK
<1>1. s \in EnrichStates /\ \A f \in Enrichers \ {e} : enrich'[f] = enrich[f]
  BY EnrichEffect DEF EnrichTypeOK
<1>2. /\ IsFiniteSet(o.todo) /\ Cardinality(o.todo) \in Nat /\ Cardinality(s.todo) \in Nat
      /\ Unlisted(o) \in Nat /\ Unlisted(s) \in Nat
      /\ EnrichStage(o) \in Nat /\ EnrichStage(s) \in Nat
  <2>1. o.todo \in SUBSET Items /\ s.todo \in SUBSET Items
    BY <1>0, <1>1 DEF EnrichStates
  <2>2. IsFiniteSet(o.todo) /\ IsFiniteSet(s.todo)
    BY <2>1, FS_Subset
  <2>3. /\ Unlisted(o) \in Nat /\ Unlisted(s) \in Nat
        /\ EnrichStage(o) \in Nat /\ EnrichStage(s) \in Nat
    BY DEF Unlisted, EnrichStage
  <2>4. QED
    BY <2>2, <2>3, FS_CardinalityType
<1> SUFFICES /\ s.pc \in {"ask", "put"} => s.item \in s.todo
             /\ \/ Unlisted(s) < Unlisted(o)
                \/ /\ Unlisted(s) = Unlisted(o)
                   /\ \/ Cardinality(s.todo) < Cardinality(o.todo)
                      \/ /\ Cardinality(s.todo) = Cardinality(o.todo)
                         /\ EnrichStage(s) < EnrichStage(o)
  BY <1>1, <1>2, Lower3, Zenon DEF EnrichRank, ItemAtHand
(* An item is struck off.                                                   *)
<1>3. ASSUME NEW i \in o.todo, NEW a \in Answers, Answered(e, i, a), o.pc # "list"
      PROVE  /\ s.pc = "next" /\ Unlisted(s) = Unlisted(o)
             /\ Cardinality(s.todo) < Cardinality(o.todo)
  <2>1. i \in Items
    BY <1>0, <1>3 DEF EnrichStates
  <2>2. s.pc = "next" /\ s.todo = o.todo \ {i}
    BY <1>0, <1>3, <2>1, AnsweredType
  <2>3. QED
    BY <1>2, <1>3, <2>2, OneLess DEF Unlisted
<1>4. CASE ListItems(e)
  <2>1. o.pc = "list" /\ s.pc = "next"
    BY <1>0, <1>4 DEF ListItems, EnrichTypeOK, EnrichStates
  <2>2. QED
    BY <2>1 DEF Unlisted
<1>5. CASE TakeItem(e)
  <2>1. PICK i \in o.todo :
          \/ \E a \in Answers : Answered(e, i, a)
          \/ enrich' = [enrich EXCEPT ![e].pc = "ask", ![e].item = i]
    BY <1>5 DEF TakeItem, Answers
  <2>2. o.pc = "next"
    BY <1>5 DEF TakeItem
  <2>3. CASE \E a \in Answers : Answered(e, i, a)
    BY <1>3, <2>2, <2>3
  <2>4. CASE enrich' = [enrich EXCEPT ![e].pc = "ask", ![e].item = i]
    <3>1. s.pc = "ask" /\ s.item = i /\ s.todo = o.todo
      BY <1>0, <2>4 DEF EnrichTypeOK, EnrichStates
    <3>2. QED
      BY <2>1, <2>2, <3>1 DEF Unlisted, EnrichStage
  <2>5. QED
    BY <2>1, <2>3, <2>4
<1>6. CASE AskLlm(e)
  <2>1. o.pc = "ask" /\ s.pc = "put" /\ s.item = o.item /\ s.todo = o.todo
    BY <1>0, <1>6 DEF AskLlm, EnrichTypeOK, EnrichStates
  <2>2. QED
    BY <2>1 DEF ItemAtHand, Unlisted, EnrichStage
<1>7. CASE AskFails(e) \/ PutEnriched(e) \/ PutEnrichedFails(e)
  <2>1. o.pc \in {"ask", "put"} /\ o.item \in o.todo
    BY <1>7 DEF AskFails, PutEnriched, PutEnrichedFails, ItemAtHand
  <2>2. \E a \in Answers : Answered(e, o.item, a)
    BY <1>7 DEF AskFails, PutEnriched, PutEnrichedFails, Answers
  <2>3. QED
    BY <1>3, <2>1, <2>2
<1>8. CASE EnrichDone(e)
  <2>1. o.pc = "next" /\ s.pc = "done" /\ s.todo = o.todo
    BY <1>0, <1>8 DEF EnrichDone, EnrichTypeOK, EnrichStates
  <2>2. QED
    BY <2>1 DEF Unlisted, EnrichStage
<1>9. CASE ListFails(e)
  <2>1. o.pc = "list" /\ s.pc = "failed"
    BY <1>0, <1>9 DEF ListFails, EnrichTypeOK, EnrichStates
  <2>2. QED
    BY <2>1 DEF Unlisted
<1>10. QED
  BY <1>4, <1>5, <1>6, <1>7, <1>8, <1>9 DEF EnrichStep, EnrichFault

LEMMA TilesDescend ==
  ASSUME AnnotateInv, IsFiniteSet(Keys), NEW j \in TileJobs, TilesStep(j) \/ TilesFault(j)
  PROVE  /\ <<TilesRank(tiles'[j]), TilesRank(tiles[j])>> \in Lower(2)
         /\ \A k \in TileJobs \ {j} : tiles'[k] = tiles[k]
<1> DEFINE o == tiles[j]
           s == tiles'[j]
<1>0. TilesTypeOK /\ o \in TileStates
  BY DEF AnnotateInv, WritersInv, WritersTypeOK, TilesTypeOK
<1>1. s \in TileStates /\ \A k \in TileJobs \ {j} : tiles'[k] = tiles[k]
  BY TilesEffect DEF TilesTypeOK
<1>2. /\ IsFiniteSet(o.todo) /\ Cardinality(o.todo) \in Nat /\ Cardinality(s.todo) \in Nat
      /\ TilesStage(o) \in Nat /\ TilesStage(s) \in Nat
  <2>1. o.todo \in SUBSET Keys /\ s.todo \in SUBSET Keys
    BY <1>0, <1>1 DEF TileStates
  <2>2. IsFiniteSet(o.todo) /\ IsFiniteSet(s.todo)
    BY <2>1, FS_Subset
  <2>3. TilesStage(o) \in Nat /\ TilesStage(s) \in Nat
    BY DEF TilesStage
  <2>4. QED
    BY <2>2, <2>3, FS_CardinalityType
<1> SUFFICES \/ TilesStage(s) < TilesStage(o)
             \/ TilesStage(s) = TilesStage(o) /\ Cardinality(s.todo) < Cardinality(o.todo)
  BY <1>1, <1>2, Lower2, Zenon DEF TilesRank
<1>3. CASE Convert(j)
  <2>1. o.pc = "idle" /\ s.pc \in {"upload", "failed"}
    BY <1>0, <1>3 DEF Convert, TilesTypeOK, TileStates
  <2>2. QED
    BY <2>1 DEF TilesStage
<1>4. CASE UploadTile(j)
  <2>1. PICK k \in o.todo : tiles' = [tiles EXCEPT ![j].todo = @ \ {k}]
    BY <1>4 DEF UploadTile
  <2>2. s.pc = o.pc /\ s.todo = o.todo \ {k}
    BY <1>0, <2>1 DEF TilesTypeOK, TileStates
  <2>3. Cardinality(s.todo) < Cardinality(o.todo)
    BY <1>2, <2>2, OneLess
  <2>4. QED
    BY <2>2, <2>3 DEF TilesStage
<1>5. CASE TilesUploaded(j)
  <2>1. o.pc = "upload" /\ s.pc = "get"
    BY <1>0, <1>5 DEF TilesUploaded, TilesTypeOK, TileStates
  <2>2. QED
    BY <2>1 DEF TilesStage
<1>6. CASE GetItem(j)
  <2>1. o.pc = "get" /\ s.pc \in {"put", "unlinked"}
    BY <1>0, <1>6 DEF GetItem, TilesTypeOK, TileStates
  <2>2. QED
    BY <2>1 DEF TilesStage
<1>7. CASE PutTileset(j) \/ TileJobFails(j) \/ TilesetNotLinked(j)
  <2>1. o.pc \in {"upload", "get", "put"} /\ s.pc \in {"done", "unlinked", "failed"}
    BY <1>0, <1>7 DEF PutTileset, TileJobFails, TilesetNotLinked, TilesTypeOK, TileStates
  <2>2. TilesStage(o) > 0 /\ TilesStage(s) = 0
    BY <2>1 DEF TilesStage
  <2>3. QED
    BY <2>2
<1>8. QED
  BY <1>3, <1>4, <1>5, <1>6, <1>7 DEF TilesStep, TilesFault

AnnotationsDescend ==
    /\ \A e \in Enrichers :
         enrich'[e] = enrich[e] \/ <<EnrichRank(enrich'[e]), EnrichRank(enrich[e])>> \in Lower(3)
    /\ \A j \in TileJobs :
         tiles'[j] = tiles[j] \/ <<TilesRank(tiles'[j]), TilesRank(tiles[j])>> \in Lower(2)

(* No step of an enrich run or a tiles job, whatever the catalogue answers  *)
(* and the other writers do, leaves it with as much to do as before: a      *)
(* per-item error is one item less (flows/enrich.py:10-11).                 *)
THEOREM AnnotationsAlwaysDescend ==
  IsFiniteSet(Items) /\ IsFiniteSet(Keys) =>
    (AnnotateSpec => [][AnnotationsDescend]_annotateVars)
<1> SUFFICES ASSUME IsFiniteSet(Items), IsFiniteSet(Keys)
             PROVE  AnnotateSpec => [][AnnotationsDescend]_annotateVars
  OBVIOUS
<1> DEFINE AtHandInv == \A e \in Enrichers : ItemAtHand(e)
<1>1. AnnotateInit => AtHandInv
  BY DEF AnnotateInit, EnrichInit, ItemAtHand
<1>2. AnnotateInv /\ AtHandInv /\ [AnnotateNext]_annotateVars => AtHandInv' /\ AnnotationsDescend
  <2> SUFFICES ASSUME AnnotateInv, AtHandInv, [AnnotateNext]_annotateVars
               PROVE  AtHandInv' /\ AnnotationsDescend
    OBVIOUS
  <2>1. CASE EnrichNext /\ UNCHANGED tiles
    <3>1. PICK e \in Enrichers : EnrichStep(e) \/ EnrichFault(e)
      BY <2>1 DEF EnrichNext
    <3>2. /\ <<EnrichRank(enrich'[e]), EnrichRank(enrich[e])>> \in Lower(3)
          /\ ItemAtHand(e)'
          /\ \A f \in Enrichers \ {e} : enrich'[f] = enrich[f]
      BY <3>1, EnrichDescends
    <3>3. AtHandInv'
      BY <3>2 DEF ItemAtHand
    <3>4. QED
      BY <2>1, <3>2, <3>3 DEF AnnotationsDescend
  <2>2. CASE TilesNext /\ UNCHANGED enrich
    <3>1. PICK j \in TileJobs : TilesStep(j) \/ TilesFault(j)
      BY <2>2 DEF TilesNext
    <3>2. AtHandInv'
      BY <2>2 DEF ItemAtHand
    <3>3. QED
      BY <2>2, <3>1, <3>2, TilesDescend DEF AnnotationsDescend
  <2>3. CASE UNCHANGED <<enrich, tiles>>
    BY <2>3 DEF ItemAtHand, AnnotationsDescend
  <2>4. QED
    BY <2>1, <2>2, <2>3 DEF AnnotateNext, annotateVars, writers, Curate
<1>3. QED
  BY <1>1, <1>2, AnnotateAlways, PTL DEF AnnotateSpec
=============================================================================
