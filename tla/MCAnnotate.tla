----------------------------- MODULE MCAnnotate -----------------------------
(* A flow ingests two point clouds of a domain; while it does, the enrich   *)
(* flow walks the domain, the first cloud gets its tileset and its item is  *)
(* edited.                                                                  *)
EXTENDS Annotate, TLC

CONSTANTS flowA, a1, a2, enrich1, tiles1, trees, walls, terrain, pTrees, pWalls, pTiles,
          treesLaz, wallsLaz, tilesetJson, tilePnts, pub, rst

MCDomainOf == [i \in Items |-> terrain]
MCPrefixOf == trees :> pTrees @@ walls :> pWalls
MCFolderOf == treesLaz :> pTrees @@ wallsLaz :> pWalls @@ tilesetJson :> pTiles @@ tilePnts :> pTiles
MCFlowOf   == [r \in Runs |-> flowA]
MCOrder    == a1 :> 1 @@ a2 :> 2
MCTarget   == a1 :> trees @@ a2 :> walls
MCTree     == a1 :> {treesLaz} @@ a2 :> {wallsLaz}
MCSidecar  == a1 :> treesLaz @@ a2 :> wallsLaz
MCClassOf  == a1 :> pub @@ a2 :> rst
MCKinds    == [i \in Items |-> "pointcloud"]
MCFiles    == [i \in Items |-> {"good"}]
MCCacheKey == [r \in Runs |-> r]
MCFaults   == a1 :> 1 @@ a2 :> 0

MCCollection  == [e \in Enrichers |-> terrain]
MCCloud       == [j \in TileJobs |-> trees]
MCSource      == [j \in TileJobs |-> treesLaz]
MCTileKeys    == [j \in TileJobs |-> {tilesetJson, tilePnts}]
MCTilesetJson == [j \in TileJobs |-> tilesetJson]
=============================================================================
