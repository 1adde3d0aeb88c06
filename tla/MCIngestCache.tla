--------------------------- MODULE MCIngestCache ---------------------------
(* A Prefect flow ingests a file from a mounted path; the file is replaced, *)
(* and a second flow is started with the same parameters.                   *)
EXTENDS Ingest, TLC

CONSTANTS flowA, flowB, a1, b1, monday, tuesday, terrain, pMonday, pTuesday,
          kMonday, kTuesday, int, args

MCDomainOf == [i \in Items |-> terrain]
MCPrefixOf == monday :> pMonday @@ tuesday :> pTuesday
MCFolderOf == kMonday :> pMonday @@ kTuesday :> pTuesday
MCFlowOf   == a1 :> flowA @@ b1 :> flowB
MCOrder    == [r \in Runs |-> 1]
MCTarget   == a1 :> monday @@ b1 :> tuesday
MCTree     == a1 :> {kMonday} @@ b1 :> {kTuesday}
MCSidecar  == a1 :> kMonday @@ b1 :> kTuesday
MCClassOf  == [r \in Runs |-> int]
MCKinds    == [i \in Items |-> "raster"]
MCFiles    == [i \in Items |-> {"good"}]
MCCacheKey == [r \in Runs |-> args]
MCFaults   == [r \in Runs |-> 0]
=============================================================================
