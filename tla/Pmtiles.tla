------------------------------ MODULE Pmtiles ------------------------------
(***************************************************************************)
(* The PMTiles jobs (tippecanoe/generate-pmtiles.sh, one per layer, applied *)
(* by scripts/pmtiles-generate.sh): list and download the Parquet files of  *)
(* a layer, convert them one by one, build the archive and upload it over   *)
(* the one that is there.  Kubernetes restarts a container that fails.      *)
(***************************************************************************)
EXTENDS Lake

CONSTANTS
    Layers,         \* layers, with one job each
    LayerDataset,   \* the item whose files lie under the prefix of each
    LayerParts,     \* the .parquet keys under that prefix
    BackoffLimit,   \* restarts of a job's container
    NoArchive       \* what the tiles prefix holds for a layer at first

Archives == [parts : SUBSET Keys, posted : BOOLEAN, dropped : BOOLEAN]

JobStates == [
    pc : {"list", "download", "convert", "upload", "complete", "failed"},
    attempt : 1 .. BackoffLimit + 1,
    left : SUBSET Keys,      \* listed, still to be downloaded
    got : SUBSET Keys,       \* downloaded, then: converted
    posted : BOOLEAN,        \* history: the dataset was catalogued when listed
    dropped : BOOLEAN,       \* history: an ogr2ogr call failed
    excuse : BOOLEAN]        \* history: some attempt found a file, or a call failed

ASSUME PmtilesAssumption ==
    /\ LayerDataset \in [Layers -> Items]
    /\ LayerParts \in [Layers -> SUBSET Keys]
    /\ BackoffLimit \in Nat
    /\ NoArchive \notin Archives

VARIABLES
    job,       \* the job of each layer
    archive    \* tiles/<layer>.pmtiles in the curated bucket

pmtilesVars == <<job, archive>>

PmtilesTypeOK ==
    /\ job \in [Layers -> JobStates]
    /\ archive \in [Layers -> Archives \cup {NoArchive}]

(* An attempt that begins, or what remains of the last one.                 *)
Fresh(label, n, excuse) ==
    [pc |-> label, attempt |-> n, left |-> {}, got |-> {},
     posted |-> FALSE, dropped |-> FALSE, excuse |-> excuse]

(* The jobs of S have been applied; those of other layers have failed.      *)
PmtilesInit(S) ==
    /\ job = [l \in Layers |-> Fresh(IF l \in S THEN "list" ELSE "failed", 1, l \notin S)]
    /\ archive = [l \in Layers |-> NoArchive]

-----------------------------------------------------------------------------

Become(l, s) == job' = [job EXCEPT ![l] = s]

(* Mutants of AttemptFails: one restart too many, and no count of them.     *)
RestartOnceTooOften(l, excuse) ==
    Become(l, IF job[l].attempt <= BackoffLimit + 1
              THEN Fresh("list", job[l].attempt + 1, excuse)
              ELSE Fresh("failed", job[l].attempt, excuse))

RestartForever(l, excuse) == Become(l, Fresh("list", job[l].attempt, excuse))

(* set -e ends the script; the container is started again, or given up.     *)
AttemptFails(l, excuse) ==
    Become(l, IF job[l].attempt <= BackoffLimit
              THEN Fresh("list", job[l].attempt + 1, excuse)
              ELSE Fresh("failed", job[l].attempt, excuse))

(* With no .parquet under the prefix sys.exit(0) ends the embedded Python   *)
(* alone, and the shell script goes on with an empty directory.             *)
ListLayer(l) ==
    LET found == {k \in LayerParts[l] : Stored(k)} IN
    /\ job[l].pc = "list"
    /\ Become(l, [job[l] EXCEPT !.pc = IF found = {} THEN "convert" ELSE "download",
                                !.left = found,
                                !.posted = Catalogued(LayerDataset[l]),
                                !.excuse = @ \/ found # {}])
    /\ UNCHANGED <<archive, lakeVars>>

DownloadLayer(l) ==
    /\ job[l].pc = "download"
    /\ \E k \in job[l].left :
         LET rest == job[l].left \ {k} IN
         IF Stored(k)
         THEN Become(l, [job[l] EXCEPT !.left = rest, !.got = @ \cup {k},
                                       !.pc = IF rest = {} THEN "convert" ELSE "download"])
         ELSE AttemptFails(l, TRUE)
    /\ UNCHANGED <<archive, lakeVars>>

(* Mutant of ConvertLayer: every file starts the FlatGeobuf anew.           *)
ConvertOverwriting(l) ==
    /\ job[l].pc = "convert"
    /\ \E k \in job[l].got : Become(l, [job[l] EXCEPT !.pc = "upload", !.got = {k}])
    /\ UNCHANGED <<archive, lakeVars>>

(* ogr2ogr appends file after file to one FlatGeobuf; "|| true" passes over *)
(* those it fails on, and over the unexpanded *.parquet of a layer without  *)
(* files.  With nothing converted, tippecanoe has no input and fails.       *)
ConvertLayer(l) ==
    /\ job[l].pc = "convert"
    /\ \E converted \in SUBSET job[l].got :
         IF converted = {}
         THEN AttemptFails(l, job[l].excuse)
         ELSE Become(l, [job[l] EXCEPT !.pc = "upload", !.got = converted,
                                       !.dropped = converted # job[l].got])
    /\ UNCHANGED <<archive, lakeVars>>

Built(l) == [parts |-> job[l].got, posted |-> job[l].posted, dropped |-> job[l].dropped]

UploadLayer(l) ==
    /\ job[l].pc = "upload"
    /\ archive' = [archive EXCEPT ![l] = Built(l)]
    /\ Become(l, Fresh("complete", job[l].attempt, job[l].excuse))
    /\ UNCHANGED lakeVars

(* A call fails, or the pod is killed, before or after the upload.          *)
AttemptBreaks(l) ==
    /\ job[l].pc \in {"list", "download", "convert", "upload"}
    /\ \/ UNCHANGED archive
       \/ job[l].pc = "upload" /\ archive' = [archive EXCEPT ![l] = Built(l)]
    /\ AttemptFails(l, TRUE)
    /\ UNCHANGED lakeVars

LayerStep(l) == ListLayer(l) \/ DownloadLayer(l) \/ ConvertLayer(l) \/ UploadLayer(l)

PmtilesNext == \E l \in Layers : LayerStep(l) \/ AttemptBreaks(l)
=============================================================================
