---------------------------- MODULE MCIngestLive ----------------------------
(* Two Prefect flows are started for the same sound dataset, in a domain    *)
(* that has no collection yet, with the same arguments.                     *)
EXTENDS Ingest, TLC

CONSTANTS flowA, flowB, a1, b1, roads, terrain, pRoads, part, meta, int, args

MCDomainOf == roads :> terrain
MCPrefixOf == roads :> pRoads
MCFolderOf == part :> pRoads @@ meta :> pRoads
MCFlowOf   == a1 :> flowA @@ b1 :> flowB
MCOrder    == [r \in Runs |-> 1]
MCTarget   == [r \in Runs |-> roads]
MCTree     == [r \in Runs |-> Keys]
MCSidecar  == [r \in Runs |-> meta]
MCClassOf  == [r \in Runs |-> int]
MCKinds    == [i \in Items |-> "vector"]
MCFiles    == [i \in Items |-> {"good"}]
MCCacheKey == [r \in Runs |-> args]
MCFaults   == [r \in Runs |-> 3]
=============================================================================
