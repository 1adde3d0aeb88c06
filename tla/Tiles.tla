------------------------------- MODULE Tiles -------------------------------
(***************************************************************************)
(* The 3D Tiles job (py3dtiles/generate-3dtiles.sh): convert a point cloud, *)
(* upload the tileset, then GET the item, add the tileset3d asset and PUT   *)
(* the item back.                                                           *)
(***************************************************************************)
EXTENDS Lake

CONSTANTS
    TileJobs,     \* jobs that 3dtiles-generate.sh has applied
    Cloud,        \* the item of each
    Source,       \* the key of its data asset
    TileKeys,     \* the keys of the tileset a job uploads
    TilesetJson   \* the key of tileset.json among them

(* The job has patched the item, done without, or died.                     *)
TilesEnded == {"done", "unlinked", "failed"}

TileStates == [
    pc : {"idle", "upload", "get", "put"} \cup TilesEnded,
    todo : SUBSET Keys,
    read : ItemRecords \cup {NoItem}]

ASSUME TilesAssumption ==
    /\ Cloud \in [TileJobs -> Items]
    /\ Source \in [TileJobs -> Keys]
    /\ TileKeys \in [TileJobs -> SUBSET Keys]
    /\ TilesetJson \in [TileJobs -> Keys]
    /\ \A j \in TileJobs : TilesetJson[j] \in TileKeys[j]

VARIABLE tiles

TilesTypeOK == tiles \in [TileJobs -> TileStates]

TilesInit == tiles = [j \in TileJobs |-> [pc |-> "idle", todo |-> {}, read |-> NoItem]]

-----------------------------------------------------------------------------

(* The script found the item in the catalogue; the job downloads its source *)
(* and converts it.                                                         *)
Convert(j) ==
    /\ tiles[j].pc = "idle"
    /\ Catalogued(Cloud[j])
    /\ tiles' = [tiles EXCEPT ![j] =
         IF Stored(Source[j]) THEN [@ EXCEPT !.pc = "upload", !.todo = TileKeys[j]]
         ELSE [@ EXCEPT !.pc = "failed"]]
    /\ UNCHANGED lakeVars

UploadTile(j) ==
    /\ tiles[j].pc = "upload"
    /\ \E k \in tiles[j].todo :
         /\ PutObject(k)
         /\ tiles' = [tiles EXCEPT ![j].todo = @ \ {k}]
    /\ UNCHANGED <<collections, catalog>>

(* Mutant of TilesUploaded: the item is patched while tiles are under way.  *)
TilesUploading(j) ==
    /\ tiles[j].pc = "upload"
    /\ tiles' = [tiles EXCEPT ![j].pc = "get"]
    /\ UNCHANGED lakeVars

TilesUploaded(j) ==
    /\ tiles[j].pc = "upload"
    /\ tiles[j].todo = {}
    /\ tiles' = [tiles EXCEPT ![j].pc = "get"]
    /\ UNCHANGED lakeVars

(* A job whose item cannot be read leaves the tileset without an asset.     *)
GetItem(j) ==
    /\ tiles[j].pc = "get"
    /\ tiles' = [tiles EXCEPT ![j] =
         IF Catalogued(Cloud[j]) THEN [@ EXCEPT !.pc = "put", !.read = catalog[Cloud[j]]]
         ELSE [@ EXCEPT !.pc = "unlinked"]]
    /\ UNCHANGED lakeVars

WithTileset(j) ==
    [tiles[j].read EXCEPT !.hrefs = @ \cup {[scheme |-> "http", name |-> TilesetJson[j]]}]

(* The PUT replaces the item; it is answered 404 when the item is gone.     *)
PutTileset(j) ==
    /\ tiles[j].pc = "put"
    /\ IF Catalogued(Cloud[j])
       THEN /\ WriteItem(Cloud[j], WithTileset(j))
            /\ tiles' = [tiles EXCEPT ![j].pc = "done"]
       ELSE /\ UNCHANGED catalog
            /\ tiles' = [tiles EXCEPT ![j].pc = "unlinked"]
    /\ UNCHANGED <<collections, objects>>

(* The catalogue may have taken the PUT before its answer went wrong.       *)
PutTaken(j) ==
    /\ tiles[j].pc = "put"
    /\ Catalogued(Cloud[j])
    /\ WriteItem(Cloud[j], WithTileset(j))
    /\ UNCHANGED <<collections, objects>>

(* A call fails or the pod dies: set -e ends the job, backoffLimit is 0.    *)
TileJobFails(j) ==
    /\ tiles[j].pc \in {"upload", "get", "put"}
    /\ tiles' = [tiles EXCEPT ![j].pc = "failed"]
    /\ UNCHANGED lakeVars \/ PutTaken(j)

(* An HTTP error to the GET or the PUT ends the job in success.             *)
TilesetNotLinked(j) ==
    /\ tiles[j].pc \in {"get", "put"}
    /\ tiles' = [tiles EXCEPT ![j].pc = "unlinked"]
    /\ UNCHANGED lakeVars \/ PutTaken(j)

TilesStep(j) ==
    Convert(j) \/ UploadTile(j) \/ TilesUploaded(j) \/ GetItem(j) \/ PutTileset(j)

TilesFault(j) == TileJobFails(j) \/ TilesetNotLinked(j)

TilesNext == \E j \in TileJobs : TilesStep(j) \/ TilesFault(j)
=============================================================================
