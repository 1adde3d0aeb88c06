------------------------------- MODULE MCGc -------------------------------
(* dashictl gc sweeps the bucket while item delete removes a dataset that   *)
(* ingest has put there and one with s3 hrefs, an operator adds a third by  *)
(* hand, and dashi-ingest is run again on the first.                        *)
EXTENDS Housekeeping, TLC

CONSTANTS gc1, rmHttp, rmS3, cmd, again, roads, scene, tile, terrain,
          pRoads, pScene, pTile, kRoads, kScene, kTile1, kTile2, int

MCDomainOf == [i \in Items |-> terrain]
MCPrefixOf == roads :> pRoads @@ scene :> pScene @@ tile :> pTile
MCFolderOf == kRoads :> pRoads @@ kScene :> pScene @@ kTile1 :> pTile @@ kTile2 :> pTile
MCFlowOf   == [r \in Runs |-> cmd]
MCOrder    == [r \in Runs |-> 1]
MCTarget   == [r \in Runs |-> roads]
MCTree     == [r \in Runs |-> {kRoads}]
MCSidecar  == [r \in Runs |-> kRoads]
MCClassOf  == [r \in Runs |-> int]
MCKinds    == [i \in Items |-> IF i = scene THEN "pointcloud" ELSE "raster"]
MCFiles    == [i \in Items |-> {"good"}]
MCCacheKey == [r \in Runs |-> r]
MCFaults   == [r \in Runs |-> 0]

MCStock ==
    [i \in Items |->
        IF i = tile THEN NoItem
        ELSE [run |-> NoRun, cls |-> int, curated |-> FALSE, enriched |-> FALSE, old |-> FALSE,
              hrefs |-> {[scheme |-> IF i = roads THEN "http" ELSE "s3", name |-> k] : k \in FilesOf(i)}]]

MCTable       == [p \in Prunes |-> <<>>]
MCPruneFaults == [p \in Prunes |-> 0]
MCVictim      == rmHttp :> roads @@ rmS3 :> scene
MCHasCreds    == [c \in Removals |-> TRUE]
MCBucket      == [g \in Sweeps |-> Keys]
=============================================================================
