------------------------------ MODULE MCSubmit ------------------------------
(* A user submits two files on the upload page and, if that ends badly or   *)
(* the first submission is cancelled, once more; dashictl ingest is given   *)
(* an object that is being copied into the bucket.  Their domain is there   *)
(* with a ceiling, or two domain creates and one ensure_collection race to  *)
(* create it.                                                               *)
EXTENDS Submit, TLC

CONSTANTS web, cmd, roads, readme, feed, torn, incoming, terrain, pub, int,
          c1, c2, e1

MCKind       == roads :> "good" @@ readme :> "unknown" @@ feed :> "good" @@ torn :> "flawed"
MCPicked     == web :> <<roads, readme>>
MCNamed      == cmd :> incoming
MCStagedFiles == incoming :> {feed, torn}
MCRank       == pub :> 0 @@ int :> 1
MCAsked      == [c \in Clients |-> [domain |-> terrain, cls |-> int]]
MCTries      == web :> 2 @@ cmd :> 1
MCCeilings   == terrain :> {Absent, pub}
MCGiven      == c1 :> pub @@ c2 :> int
MCDomainAt   == [x \in Creates \cup Ensures |-> terrain]
=============================================================================
