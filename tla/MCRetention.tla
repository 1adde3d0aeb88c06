---------------------------- MODULE MCRetention ----------------------------
(* A retention run walks a domain with three expired items, two to a page,  *)
(* and one that keeps its data for ever, while dashi-ingest is run again    *)
(* on the file of one of the expired items.                                 *)
EXTENDS Housekeeping, TLC

CONSTANTS prune1, cmd, again, rm, scan, echo, swath, now, archive, radar, survey,
          pScan, pEcho, pSwath, pNow, pArchive,
          scanPart, scanMeta, kEcho, kSwath, kNow, kArchive, int

MCDomainOf == [i \in Items |-> IF i = archive THEN survey ELSE radar]
MCPrefixOf == scan :> pScan @@ echo :> pEcho @@ swath :> pSwath @@ now :> pNow
                @@ archive :> pArchive
MCFolderOf == scanPart :> pScan @@ scanMeta :> pScan @@ kEcho :> pEcho
                @@ kSwath :> pSwath @@ kNow :> pNow @@ kArchive :> pArchive
MCFlowOf   == [r \in Runs |-> cmd]
MCOrder    == [r \in Runs |-> 1]
MCTarget   == [r \in Runs |-> scan]
MCTree     == [r \in Runs |-> {scanPart, scanMeta}]
MCSidecar  == [r \in Runs |-> scanMeta]
MCClassOf  == [r \in Runs |-> int]
MCKinds    == [i \in Items |-> IF i = scan THEN "vector" ELSE "raster"]
MCFiles    == [i \in Items |-> {"good"}]
MCCacheKey == [r \in Runs |-> r]
MCFaults   == [r \in Runs |-> 1]

Http(names) == {[scheme |-> "http", name |-> n] : n \in names}

MCStock ==
    [i \in Items |->
        [run |-> NoRun, cls |-> int, curated |-> FALSE, enriched |-> FALSE, old |-> i # now,
         hrefs |-> Http(IF i = scan THEN {pScan, scanMeta} ELSE FilesOf(i))]]

MCTable       == [p \in Prunes |-> <<survey, radar>>]
MCPruneFaults == [p \in Prunes |-> 1]
MCVictim      == [c \in Removals |-> scan]
MCHasCreds    == [c \in Removals |-> TRUE]
MCBucket      == [g \in Sweeps |-> Keys]
=============================================================================
