------------------------------ MODULE Annotate ------------------------------
(***************************************************************************)
(* The writers of a catalogued item at work together: ingest that replaces  *)
(* it, the enrich flow and the 3D Tiles job that read it, change it and     *)
(* write it back whole, and people who edit it.  The catalogue has no       *)
(* conditional writes.                                                      *)
(***************************************************************************)
EXTENDS Ingest, Enrich, Tiles

(* Ingest writes to the processed bucket, tilesets lie in the curated one.  *)
ASSUME AnnotateAssumption ==
    /\ \A j \in TileJobs, r \in Runs : TilesetJson[j] \notin Tree[r]
    /\ Enrichers \cap TileJobs = {}
    /\ NoItem \notin Enrichers \cup TileJobs

VARIABLE edited    \* history: the items that somebody has edited

writers == <<enrich, tiles, edited>>
annotateVars == <<vars, writers>>

AnnotateTypeOK ==
    IngestTypeOK /\ EnrichTypeOK /\ TilesTypeOK /\ edited \subseteq Items

AnnotateInit ==
    /\ Init
    /\ EnrichInit
    /\ TilesInit
    /\ edited = {}

(* External: a curator corrects properties of an item and may classify it   *)
(* anew, in one transaction.                                                *)
Curate(i) ==
    /\ i \notin edited
    /\ Catalogued(i)
    /\ \E c \in Classes : WriteItem(i, [catalog[i] EXCEPT !.curated = TRUE, !.cls = c])
    /\ edited' = edited \cup {i}
    /\ UNCHANGED <<collections, objects, ingestVars, enrich, tiles>>

AnnotateNext ==
    \/ IngestNext /\ UNCHANGED writers
    \/ EnrichNext /\ UNCHANGED <<ingestVars, tiles, edited>>
    \/ TilesNext /\ UNCHANGED <<ingestVars, enrich, edited>>
    \/ \E i \in Items : Curate(i)

AnnotateSpec == AnnotateInit /\ [][AnnotateNext]_annotateVars

(* The flow run and the pod of the job keep going until they end or die.    *)
AnnotateFair ==
    /\ AnnotateSpec
    /\ \A e \in Enrichers :
         WF_annotateVars(EnrichStep(e) /\ UNCHANGED <<ingestVars, tiles, edited>>)
    /\ \A j \in TileJobs :
         WF_annotateVars(TilesStep(j) /\ UNCHANGED <<ingestVars, enrich, edited>>)

-----------------------------------------------------------------------------

(* Whoever follows the tileset3d asset of an item can fetch every tile: the *)
(* whole tileset is uploaded before the item is read and written back, and  *)
(* no stale write brings an asset in that was never uploaded.               *)
TilesetsBacked ==
    \A i \in Items : Catalogued(i) =>
        \A j \in TileJobs :
            [scheme |-> "http", name |-> TilesetJson[j]] \in catalog[i].hrefs
                => \A k \in TileKeys[j] : Stored(k)

(* Ingest may replace an item that is there: after a failed call of a task, *)
(* or when two tasks were past the probe.                                   *)
Replaced(i) ==
    \/ \E r \in Runs : Target[r] = i /\ faults[r] > 0
    \/ \E r, s \in Runs : r # s /\ Target[r] = i /\ Target[s] = i

(* What an enrich run notes down when it has, or may have, sent the item.   *)
Sent == {"enriched", "untitled", "error"}

(* The versions of an item that jobs other than w had read and have sent    *)
(* back, as far as one can tell from how they ended.                        *)
PutBack(i, w) ==
    ({enrich[e].read[i] : e \in {f \in Enrichers \ {w} : enrich[f].answer[i] \in Sent}}
        \cup {tiles[j].read : j \in {k \in TileJobs \ {w} :
                                   Cloud[k] = i /\ tiles[k].pc \in TilesEnded}}) \ {NoItem}

(* The link, the title and the edit that somebody has written to an item    *)
(* are there for good, unless ingest replaced the item or another job has   *)
(* sent back a version it had read before.                                  *)
LostUpdatesAreExplained ==
    \A i \in Items : Catalogued(i) /\ ~Replaced(i) =>
        /\ \A e \in Enrichers :
             enrich[e].answer[i] = "enriched" /\ ~catalog[i].enriched
                 => \E rec \in PutBack(i, e) : ~rec.enriched
        /\ \A j \in TileJobs :
             LET link == [scheme |-> "http", name |-> TilesetJson[j]] IN
             Cloud[j] = i /\ tiles[j].pc = "done" /\ link \notin catalog[i].hrefs
                 => \E rec \in PutBack(i, j) : link \notin rec.hrefs
        /\ i \in edited /\ ~catalog[i].curated
                 => \E rec \in PutBack(i, NoItem) : ~rec.curated

(* "sensitive content does not get sent to a third-party LLM" (enrich.py:6, *)
(* flows/enrich.py:40): while the LLM is asked about an item, the catalogue *)
(* has it in a class that is not allowed only if a curator put it there     *)
(* after the listing, or a job wrote an older version of it back, or ingest *)
(* replaced it.                                                             *)
SensitiveIsNotSent ==
    \A e \in Enrichers : LET i == enrich[e].item IN
        enrich[e].pc = "ask" /\ Catalogued(i) /\ ~Replaced(i) /\ catalog[i].cls \notin Allowed =>
            \/ i \in edited /\ ~enrich[e].read[i].curated
            \/ \E rec \in PutBack(i, e) : rec.cls \notin Allowed

(* "per-item errors are logged + counted, never abort the run"              *)
(* (flows/enrich.py:10-11): once it has its listing, an enrich run gets to  *)
(* the end of it; and a tiles job that is at work succeeds or fails.        *)
AnnotationsEnd ==
    /\ \A e \in Enrichers : (enrich[e].pc = "next") ~> (enrich[e].pc = "done")
    /\ \A j \in TileJobs : (tiles[j].pc # "idle") ~> (tiles[j].pc \in TilesEnded)
=============================================================================
