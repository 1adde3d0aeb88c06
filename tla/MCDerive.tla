------------------------------ MODULE MCDerive ------------------------------
(* dashi-ingest puts a vector dataset of two Parquet files into the lake;   *)
(* meanwhile two promotions append it to the same new table, or a PMTiles   *)
(* job tiles it, and gc sweeps the bucket.                                  *)
EXTENDS Derive, TLC

CONSTANTS cmd, a1, gc1, p1, p2, roadsLayer, roads, terrain, pRoads, part0, part1, meta,
          int, roadsTable, space

MCDomainOf == [i \in Items |-> terrain]
MCPrefixOf == [i \in Items |-> pRoads]
MCFolderOf == [k \in Keys |-> pRoads]
MCFlowOf   == [r \in Runs |-> cmd]
MCOrder    == [r \in Runs |-> 1]
MCTarget   == [r \in Runs |-> roads]
MCTree     == [r \in Runs |-> Keys]
MCSidecar  == [r \in Runs |-> meta]
MCClassOf  == [r \in Runs |-> int]
MCKinds    == [i \in Items |-> "vector"]
MCFiles    == [i \in Items |-> {"good"}]
MCCacheKey == [r \in Runs |-> r]
MCFaults   == [r \in Runs |-> 0]

MCStock       == [i \in Items |-> NoItem]
MCTable       == [p \in Prunes |-> <<>>]
MCPruneFaults == [p \in Prunes |-> 0]
MCVictim      == [c \in Removals |-> roads]
MCHasCreds    == [c \in Removals |-> TRUE]
MCBucket      == [g \in Sweeps |-> Keys]

MCDataset      == [p \in Promotions |-> roads]
MCParts        == [p \in Promotions |-> {part0, part1}]
MCTableOf      == [p \in Promotions |-> roadsTable]
MCNamespaceOf  == [t \in Tables |-> space]
MCLayerDataset == [l \in Layers |-> roads]
MCLayerParts   == [l \in Layers |-> {part0, part1}]
=============================================================================
