------------------------------- MODULE Derive -------------------------------
(***************************************************************************)
(* Datasets are read while they are written and deleted: promotions and     *)
(* PMTiles jobs list folders of the processed bucket and download what they *)
(* find, next to ingest and to the jobs that delete.                        *)
(***************************************************************************)
EXTENDS Housekeeping, Iceberg, Pmtiles

CONSTANT AtWork    \* bound: the sets of jobs that are at work together

ASSUME AtWorkAssumption == AtWork \subseteq SUBSET (Sweeps \cup Promotions \cup Layers)

products == <<icebergVars, pmtilesVars>>
deriveVars == <<keepVars, products>>

DeriveTypeOK == HousekeepingTypeOK /\ IcebergTypeOK /\ PmtilesTypeOK

DeriveInit ==
    /\ Init /\ RetentionInit /\ ItemDeleteInit /\ reused = {}
    /\ \E S \in AtWork : GcInit(S) /\ IcebergInit(S) /\ PmtilesInit(S)

DeriveNext ==
    \/ HousekeepingNext /\ UNCHANGED products
    \/ IcebergNext /\ UNCHANGED <<ingestVars, keepers, pmtilesVars>>
    \/ PmtilesNext /\ UNCHANGED <<ingestVars, keepers, icebergVars>>

(* Kubernetes runs the pods of a job until it is complete or has failed.    *)
DeriveSpec ==
    /\ DeriveInit /\ [][DeriveNext]_deriveVars
    /\ \A l \in Layers :
         WF_deriveVars(LayerStep(l) /\ UNCHANGED <<ingestVars, keepers, icebergVars>>)

-----------------------------------------------------------------------------

(* A sweep has decided to delete some of these keys.                        *)
Swept(S) ==
    \E g \in Sweeps : /\ sweep[g].pc \in {"confirm", "delete", "done", "aborted"}
                      /\ (sweep[g].listed \ sweep[g].refs) \cap S # {}

(* A dataset is read whole or not at all: a snapshot lacks Parquet files of *)
(* its dataset only when the prefix was listed before ingest had catalogued *)
(* it, or after gc had set out to delete files of it.                       *)
SnapshotsAreWhole ==
    \A t \in Tables : tables[t] # NoTable =>
        \A n \in DOMAIN tables[t] : LET s == tables[t][n] IN
            s.posted /\ ~Swept(Parts[s.by]) => s.parts = Parts[s.by]

(* "subsequent calls append a new snapshot" (iceberg.py:69-70): whatever    *)
(* other promotions do at the same time, the rows of a promotion that has   *)
(* succeeded are in its table, once.                                        *)
AppendsAreKept ==
    \A p \in Promotions : promotion[p].pc = "done" =>
        /\ tables[TableOf[p]] # NoTable
        /\ \E n \in DOMAIN tables[TableOf[p]] :
             /\ tables[TableOf[p]][n].by = p
             /\ \A m \in DOMAIN tables[TableOf[p]] : tables[TableOf[p]][m].by = p => m = n

(* Iceberg implements SnapshotLog: whatever the interleaving of promotions, *)
(* and whatever call of theirs fails or loses its answer, readers see each  *)
(* table created once and grow by whole snapshots, none of which is changed *)
(* or dropped, and no promotion, succeeded or failed, adds more than one.   *)
OutcomeOf(p) == IF promotion[p].pc \in {"done", "failed"} THEN promotion[p].pc ELSE "pending"

Log == INSTANCE SnapshotLog WITH
    Writers <- Promotions,
    Rows    <- Parts,
    outcome <- [p \in Promotions |-> OutcomeOf(p)]

TablesOnlyGrow == Log!Spec

(* An archive that is served lacks parts of its layer only for the same two *)
(* reasons, or because ogr2ogr failed on some: a download never does.       *)
ArchivesAreWhole ==
    \A l \in Layers :
        \/ archive[l] = NoArchive
        \/ archive[l].parts = LayerParts[l]
        \/ ~archive[l].posted \/ archive[l].dropped \/ Swept(LayerParts[l])

(* A PMTiles job completes or is given up, whatever fails.                  *)
LayersEnd == \A l \in Layers : <>(job[l].pc \in {"complete", "failed"})

(* Violated.  "exit successfully and let the caller move on.  Hard-failing  *)
(* here turns every Job into BackoffLimitExceeded" (generate-pmtiles.sh:81, *)
(* of a layer without .parquet files): a job is given up only if a file was *)
(* found or a call failed.                                                  *)
EmptyLayersAreSkipped == \A l \in Layers : job[l].pc = "failed" => job[l].excuse
=============================================================================
