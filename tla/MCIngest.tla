------------------------------ MODULE MCIngest ------------------------------
(* A Prefect flow with two datasets of one domain, and a dashi-ingest       *)
(* command at work on the first of them at the same time.                   *)
EXTENDS Ingest, TLC

CONSTANTS flowA, cmdB, a1, a2, b1, roads, scan, terrain, pRoads, pScan,
          roadsPart, roadsMeta, scanCopc, scanMeta, int

MCDomainOf == [i \in Items |-> terrain]
MCPrefixOf == roads :> pRoads @@ scan :> pScan
MCFolderOf == roadsPart :> pRoads @@ roadsMeta :> pRoads @@ scanCopc :> pScan @@ scanMeta :> pScan
MCFlowOf   == a1 :> flowA @@ a2 :> flowA @@ b1 :> cmdB
MCOrder    == a1 :> 1 @@ a2 :> 2 @@ b1 :> 1
MCTarget   == a1 :> roads @@ a2 :> scan @@ b1 :> roads
MCTree     == [r \in Runs |-> {k \in Keys : FolderOf[k] = PrefixOf[Target[r]]}]
MCSidecar  == a1 :> roadsMeta @@ a2 :> scanMeta @@ b1 :> roadsMeta
MCClassOf  == [r \in Runs |-> int]
MCKinds    == roads :> "vector" @@ scan :> "pointcloud"
MCFiles    == roads :> {"good", "empty"} @@ scan :> PointcloudFiles
MCFaults   == a1 :> 2 @@ a2 :> 1 @@ b1 :> 1
MCCacheKey == [r \in Runs |-> r]
=============================================================================
