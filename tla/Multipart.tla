----------------------------- MODULE Multipart -----------------------------
(***************************************************************************)
(* Large uploads: /multipart/start, one presigned PUT per part, and then    *)
(* /multipart/complete or /multipart/abort (ingest-api multipart.py), as    *)
(* driven by the browser, whose workers share a cursor over the parts       *)
(* (lib/multipart.ts), and by dashictl, which sends one part after the      *)
(* other (commands/ingest.rs).                                              *)
(***************************************************************************)
EXTENDS Naturals, FiniteSets

CONSTANTS
    Uploads,        \* uploads, one per client
    Browsers,       \* those that a browser drives; dashictl drives the others
    Workers,        \* the browser's concurrency
    DefaultPart,    \* settings.multipart_part_size_bytes
    MinPart,        \* _S3_MIN_PART
    MaxParts,       \* _S3_MAX_PARTS
    Mebi,           \* what a scaled part size is rounded up to
    Lengths         \* bound: the content lengths each upload is tried with

ASSUME MultipartAssumption ==
    /\ Browsers \subseteq Uploads
    /\ \A n \in {Workers, DefaultPart, MinPart, MaxParts, Mebi} : n \in Nat \ {0}
    /\ Lengths \in [Uploads -> SUBSET (Nat \ {0})]

Larger(a, b) == IF a > b THEN a ELSE b

Smaller(a, b) == IF a < b THEN a ELSE b

CeilDiv(a, b) == (a + b - 1) \div b

(* Mutant of PartSize: the scaled size is rounded down.                     *)
PartSizeDown(size) ==
    LET base == Larger(DefaultPart, MinPart) IN
    IF CeilDiv(size, base) <= MaxParts THEN base ELSE ((size \div MaxParts) \div Mebi) * Mebi

(* _compute_part_size: the default, unless that makes too many parts.       *)
PartSize(size) ==
    LET base == Larger(DefaultPart, MinPart) IN
    IF CeilDiv(size, base) <= MaxParts
    THEN base
    ELSE CeilDiv(CeilDiv(size, MaxParts), Mebi) * Mebi

PartCount(size) == CeilDiv(size, PartSize(size))

(* The bytes of part n that the clients cut from a file: [offset, end).     *)
Slice(size, n) ==
    LET offset == (n - 1) * PartSize(size) IN
    offset .. (Smaller(size, offset + PartSize(size)) - 1)

AllParts == 1 .. MaxParts

ClientPcs == {"start", "parts", "abort", "complete", "done", "failed"}

ClientStates == [
    pc : ClientPcs,
    cursor : Nat,              \* parts handed to workers so far
    sending : SUBSET AllParts, \* PUTs under way
    results : SUBSET AllParts, \* parts whose ETag came back
    errors : BOOLEAN,          \* some worker has failed
    blame : SUBSET {"abort", "complete", "network", "died"}]  \* history

VARIABLES
    length,    \* the length of each file; never changes
    client,
    store,     \* the upload in the store: none, open, completed or aborted
    held,      \* parts the store holds for the upload
    object     \* the parts the finished object is made of

multipartVars == <<length, client, store, held, object>>

MultipartTypeOK ==
    /\ length \in [Uploads -> Nat]
    /\ client \in [Uploads -> ClientStates]
    /\ store \in [Uploads -> {"none", "open", "completed", "aborted"}]
    /\ held \in [Uploads -> SUBSET AllParts]
    /\ object \in [Uploads -> SUBSET AllParts]

MultipartInit ==
    /\ length \in [Uploads -> UNION {Lengths[u] : u \in Uploads}]
    /\ \A u \in Uploads : length[u] \in Lengths[u]
    /\ client = [u \in Uploads |-> [pc |-> "start", cursor |-> 0, sending |-> {},
                                    results |-> {}, errors |-> FALSE, blame |-> {}]]
    /\ store = [u \in Uploads |-> "none"]
    /\ held = [u \in Uploads |-> {}]
    /\ object = [u \in Uploads |-> {}]

-----------------------------------------------------------------------------

Count(u) == PartCount(length[u])

Width(u) == IF u \in Browsers THEN Smaller(Workers, Count(u)) ELSE 1

End(u, pc, why) == client' = [client EXCEPT ![u].pc = pc, ![u].blame = @ \cup why]

StartUpload(u) ==
    /\ client[u].pc = "start"
    /\ store' = [store EXCEPT ![u] = "open"]
    /\ client' = [client EXCEPT ![u].pc = "parts"]
    /\ UNCHANGED <<length, held, object>>

(* /multipart/start fails, or its answer is lost and nobody knows the id.   *)
StartFails(u) ==
    /\ client[u].pc = "start"
    /\ \/ UNCHANGED store
       \/ store' = [store EXCEPT ![u] = "open"]
    /\ End(u, "failed", {"network"})
    /\ UNCHANGED <<length, held, object>>

(* Mutants of TakePart: the cursor runs past the plan; the last part is     *)
(* only taken while another one is under way.                               *)
TakePartBeyondPlan(u) ==
    LET n == client[u].cursor + 1 IN
    /\ client[u].pc = "parts"
    /\ ~client[u].errors
    /\ Cardinality(client[u].sending) < Width(u)
    /\ client' = [client EXCEPT ![u].cursor = n, ![u].sending = @ \cup {n}]
    /\ UNCHANGED <<length, store, held, object>>

TakeLastPartAlone(u) ==
    LET n == client[u].cursor + 1 IN
    /\ client[u].pc = "parts"
    /\ n <= Count(u)
    /\ ~client[u].errors
    /\ n < Count(u) \/ client[u].sending # {}
    /\ Cardinality(client[u].sending) < Width(u)
    /\ client' = [client EXCEPT ![u].cursor = n, ![u].sending = @ \cup {n}]
    /\ UNCHANGED <<length, store, held, object>>

(* while (cursor < plan.length && errors.length === 0)                      *)
TakePart(u) ==
    LET n == client[u].cursor + 1 IN
    /\ client[u].pc = "parts"
    /\ n <= Count(u)
    /\ ~client[u].errors
    /\ Cardinality(client[u].sending) < Width(u)
    /\ client' = [client EXCEPT ![u].cursor = n, ![u].sending = @ \cup {n}]
    /\ UNCHANGED <<length, store, held, object>>

PutPart(u, n) ==
    /\ n \in client[u].sending
    /\ held' = [held EXCEPT ![u] = @ \cup {n}]
    /\ client' = [client EXCEPT ![u].sending = @ \ {n}, ![u].results = @ \cup {n}]
    /\ UNCHANGED <<length, store, object>>

(* A PUT is refused, its presigned URL has expired, or the store has it and *)
(* the answer does not arrive.  A browser lets the other workers finish.    *)
(* dashictl asks for an abort after a refusal, but not after a broken       *)
(* connection, a short read or a missing ETag.                              *)
PutPartFails(u, n) ==
    /\ n \in client[u].sending
    /\ \E gone \in BOOLEAN :
         /\ held' = [held EXCEPT ![u] = IF gone THEN @ \cup {n} ELSE @]
         /\ client' = [client EXCEPT ![u].sending = @ \ {n}, ![u].errors = TRUE]
    /\ UNCHANGED <<length, store, object>>

AllWorkersReturned(u) ==
    /\ client[u].pc = "parts"
    /\ client[u].sending = {}
    /\ client[u].errors \/ client[u].cursor = Count(u)

(* Mutants of FinishParts: errors are forgotten; nobody aborts.             *)
FinishPartsAnyway(u) ==
    /\ AllWorkersReturned(u)
    /\ client' = [client EXCEPT ![u].pc = "complete"]
    /\ UNCHANGED <<length, store, held, object>>

FinishPartsNoAbort(u) ==
    /\ AllWorkersReturned(u)
    /\ client' = [client EXCEPT ![u].pc = IF client[u].errors THEN "failed" ELSE "complete"]
    /\ UNCHANGED <<length, store, held, object>>

FinishParts(u) ==
    /\ AllWorkersReturned(u)
    /\ client' = [client EXCEPT ![u].pc = IF client[u].errors THEN "abort" ELSE "complete"]
    /\ UNCHANGED <<length, store, held, object>>

DashictlBails(u) ==
    /\ AllWorkersReturned(u)
    /\ u \notin Browsers
    /\ client[u].errors
    /\ End(u, "failed", {"network"})
    /\ UNCHANGED <<length, store, held, object>>

(* The store forgets the parts of an upload that is aborted.                *)
AbortUpload(u) ==
    /\ client[u].pc = "abort"
    /\ store' = [store EXCEPT ![u] = "aborted"]
    /\ held' = [held EXCEPT ![u] = {}]
    /\ End(u, "failed", {})
    /\ UNCHANGED <<length, object>>

(* Best effort: a failing abort is swallowed.                               *)
AbortFails(u) ==
    /\ client[u].pc = "abort"
    /\ End(u, "failed", {"abort"})
    /\ UNCHANGED <<length, store, held, object>>

(* CompleteMultipartUpload assembles the parts that are named to it.        *)
Assemble(u) ==
    /\ client[u].results \subseteq held[u]
    /\ store' = [store EXCEPT ![u] = "completed"]
    /\ object' = [object EXCEPT ![u] = client[u].results]
    /\ held' = [held EXCEPT ![u] = {}]

CompleteUpload(u) ==
    /\ client[u].pc = "complete"
    /\ Assemble(u)
    /\ End(u, "done", {})
    /\ UNCHANGED length

(* It fails, or its answer is lost.  Neither client aborts the upload then. *)
CompleteFails(u) ==
    /\ client[u].pc = "complete"
    /\ \/ UNCHANGED <<store, held, object>>
       \/ Assemble(u)
    /\ End(u, "failed", {"complete"})
    /\ UNCHANGED length

(* The tab is closed, or the command interrupted.                           *)
ClientDies(u) ==
    /\ client[u].pc \notin {"done", "failed"}
    /\ client' = [client EXCEPT ![u].pc = "failed", ![u].sending = {},
                                ![u].blame = @ \cup {"died"}]
    /\ UNCHANGED <<length, store, held, object>>

MultipartStep(u) ==
    \/ StartUpload(u) \/ TakePart(u) \/ FinishParts(u) \/ AbortUpload(u) \/ CompleteUpload(u)
    \/ \E n \in AllParts : PutPart(u, n)

MultipartFault(u) ==
    \/ StartFails(u) \/ DashictlBails(u) \/ AbortFails(u) \/ CompleteFails(u) \/ ClientDies(u)
    \/ \E n \in AllParts : PutPartFails(u, n)

MultipartNext == \E u \in Uploads : MultipartStep(u) \/ MultipartFault(u)

MultipartSpec == MultipartInit /\ [][MultipartNext]_multipartVars

(* The event loop of the browser and the command go on.                     *)
MultipartFair == MultipartSpec /\ \A u \in Uploads : WF_multipartVars(MultipartStep(u))

-----------------------------------------------------------------------------

(* Whatever the length, the parts fit the store's limits and the slices the *)
(* clients cut are the file: every byte is in exactly one part, none of     *)
(* them is empty, and only the last is smaller than the store demands.      *)
PlanCoversFile ==
    \A u \in Uploads : LET n == Count(u) IN
        /\ n \in 1 .. MaxParts
        /\ UNION {Slice(length[u], i) : i \in 1 .. n} = 0 .. (length[u] - 1)
        /\ \A i, j \in 1 .. n : i # j => Slice(length[u], i) \cap Slice(length[u], j) = {}
        /\ \A i \in 1 .. (n - 1) : Cardinality(Slice(length[u], i)) >= MinPart
        /\ Slice(length[u], n) # {}

(* An object that an upload leaves is the whole file: workers that stop at  *)
(* an error, in whatever order they return, never lead to an object that    *)
(* lacks a part; and a client that reports success has left one.            *)
ObjectsAreWhole ==
    \A u \in Uploads :
        /\ store[u] = "completed" => object[u] = 1 .. Count(u)
        /\ client[u].pc = "done" => store[u] = "completed"

(* "On any part failure the upload aborts server-side ... so RustFS doesn't *)
(* retain orphaned parts" (multipart.ts:13-14): parts stay behind a client  *)
(* that has ended only if the call to start, complete or abort failed, the  *)
(* client died, or it was dashictl and the connection broke.                *)
LeftPartsAreExplained ==
    \A u \in Uploads :
        client[u].pc \in {"done", "failed"} /\ store[u] = "open" => client[u].blame # {}

(* No worker waits for another: an upload that is started ends.             *)
UploadsEnd == \A u \in Uploads : <>(client[u].pc \in {"done", "failed"})
=============================================================================
