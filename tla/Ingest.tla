------------------------------- MODULE Ingest -------------------------------
(***************************************************************************)
(* The ingest pipeline: runner.ingest_one as the body of a Prefect task     *)
(* (flows/ingest.py) or of the dashi-ingest command (cli.py).               *)
(*                                                                          *)
(* A flow discovers the datasets of its source and starts one task per      *)
(* dataset.  A task is a sequence of calls to two remote stores, and every  *)
(* call can fail before or after it took effect; Prefect then runs the task *)
(* again from the top, up to Retries more times.  Tasks of different flows  *)
(* may work on the same dataset at the same time.                           *)
(***************************************************************************)
EXTENDS Lake

CONSTANTS
    Flows,      \* flow runs, and invocations of the command
    CliFlows,   \* those that are invocations of dashi-ingest
    CacheKeys,  \* hashes of a task's arguments
    FlowOf,     \* the flow a task belongs to
    Order,      \* the position of a task in the discovery of its flow
    Target,     \* the item of a task: hash of file name, content and layer
    Tree,       \* the keys of the files a task's transform writes
    Sidecar,    \* the key of _metadata.json among them
    ClassOf,    \* the classification a task was started with
    Files,      \* bound: what the file of each dataset may turn out to be
    Kind,       \* what detect.classify takes each dataset for
    CacheKey,   \* the cache key of a task
    Retries,    \* how often Prefect runs a failed task again
    MaxFaults   \* bound: how many calls of each task fail

(* What the detected file turns out to be.                                  *)
Inputs == {"invalid", "noLaspy", "noPdal", "empty", "broken", "good"}

(* What there is to find depends on the kind.  Validators refuse a file as  *)
(* "invalid" and transforms fail on one that is "broken"; a vector layer    *)
(* may turn out to have no geometry, a point cloud no bounds, and only for  *)
(* point clouds a tool can be missing.                                      *)
VectorFiles == {"invalid", "empty", "broken", "good"}
RasterFiles == {"invalid", "broken", "good"}
PointcloudFiles == Inputs

Findable == [vector |-> VectorFiles, raster |-> RasterFiles, pointcloud |-> PointcloudFiles]

Kinds == DOMAIN Findable

Verdicts == {"ingested", "already", "skipped", "rejected"}

Outcomes == [status : Verdicts, item : Items \cup {NoItem}]

NoOutcome == [status |-> "none", item |-> NoItem]

Active == {"validate", "probeItem", "transform", "upload", "probeCollection",
           "createCollection", "postItem", "putItem"}

ASSUME IngestAssumption ==
    /\ CliFlows \subseteq Flows
    /\ FlowOf \in [Runs -> Flows]
    /\ Order \in [Runs -> Nat]
    /\ Target \in [Runs -> Items]
    /\ Tree \in [Runs -> SUBSET Keys]
    /\ Sidecar \in [Runs -> Keys]
    /\ \A r \in Runs : /\ Sidecar[r] \in Tree[r]
                       /\ \A k \in Tree[r] : FolderOf[k] = PrefixOf[Target[r]]
    /\ ClassOf \in [Runs -> Classes]
    /\ Kind \in [Items -> Kinds]
    /\ Files \in [Items -> SUBSET Inputs]
    /\ \A i \in Items : Files[i] \subseteq Findable[Kind[i]]
    /\ CacheKey \in [Runs -> CacheKeys]
    /\ Retries \in Nat
    /\ MaxFaults \in [Runs -> Nat]

VARIABLES
    input,    \* what each dataset's file is; never changes
    flow,     \* pending, running, completed, failed or crashed
    pc,       \* where each task is
    todo,     \* the files an attempt still has to upload
    attempt,  \* attempts a task has begun
    outcome,  \* what a task returned
    cache,    \* Prefect's result cache
    faults,   \* history: calls of a task that failed
    races     \* history: calls of a task that lost a race

taskVars == <<pc, todo, attempt, outcome, cache, faults, races>>
ingestVars == <<input, flow, taskVars>>
vars == <<lakeVars, ingestVars>>

TaskTypeOK ==
    /\ input \in [Items -> Inputs]
    /\ flow \in [Flows -> {"pending", "running", "completed", "failed", "crashed"}]
    /\ pc \in [Runs -> Active \cup {"scheduled", "done", "failed", "lost"}]
    /\ todo \in [Runs -> SUBSET Keys]
    /\ attempt \in [Runs -> 0 .. Retries + 1]
    /\ outcome \in [Runs -> Outcomes \cup {NoOutcome}]
    /\ cache \in [CacheKeys -> Outcomes \cup {NoOutcome}]
    /\ faults \in [Runs -> Nat]
    /\ races \in [Runs -> Nat]

IngestTypeOK == LakeTypeOK /\ TaskTypeOK

IngestInit ==
    /\ input \in [Items -> Inputs]
    /\ \A i \in Items : input[i] \in Files[i]
    /\ flow = [f \in Flows |-> "pending"]
    /\ pc = [r \in Runs |-> "scheduled"]
    /\ todo = [r \in Runs |-> {}]
    /\ attempt = [r \in Runs |-> 0]
    /\ outcome = [r \in Runs |-> NoOutcome]
    /\ cache = [c \in CacheKeys |-> NoOutcome]
    /\ faults = [r \in Runs |-> 0]
    /\ races = [r \in Runs |-> 0]

Init ==
    /\ collections = {}
    /\ catalog = [i \in Items |-> NoItem]
    /\ objects = [k \in Keys |-> "absent"]
    /\ IngestInit

-----------------------------------------------------------------------------
(* How an attempt moves on, ends, or is thrown back.                        *)

Input(r) == input[Target[r]]

Goto(r, label) == pc' = [pc EXCEPT ![r] = label]

Cli(r) == FlowOf[r] \in CliFlows

(* The task returns an outcome; Prefect keeps it under the task's cache key. *)
Return(r, status, item) ==
    LET result == [status |-> status, item |-> item] IN
    /\ Goto(r, "done")
    /\ outcome' = [outcome EXCEPT ![r] = result]
    /\ cache' = IF Cli(r) THEN cache ELSE [cache EXCEPT ![CacheKey[r]] = result]
    /\ UNCHANGED <<todo, attempt, faults, races>>

(* Mutants of Raise: one retry too many, and one too few.                   *)
RaiseOnceTooOften(r) ==
    /\ IF ~Cli(r) /\ attempt[r] <= Retries + 1
       THEN Goto(r, "scheduled")
       ELSE Goto(r, "failed")
    /\ todo' = [todo EXCEPT ![r] = {}]
    /\ UNCHANGED <<attempt, outcome, cache>>

RaiseTooEarly(r) ==
    /\ IF ~Cli(r) /\ attempt[r] < Retries
       THEN Goto(r, "scheduled")
       ELSE Goto(r, "failed")
    /\ todo' = [todo EXCEPT ![r] = {}]
    /\ UNCHANGED <<attempt, outcome, cache>>

(* An exception leaves ingest_one.  Prefect schedules another attempt while *)
(* there are retries left; the command has none.                            *)
Raise(r) ==
    /\ IF ~Cli(r) /\ attempt[r] <= Retries
       THEN Goto(r, "scheduled")
       ELSE Goto(r, "failed")
    /\ todo' = [todo EXCEPT ![r] = {}]
    /\ UNCHANGED <<attempt, outcome, cache>>

(* The network or a server fails the call the task is in.                   *)
Fault(r) ==
    /\ faults[r] < MaxFaults[r]
    /\ faults' = [faults EXCEPT ![r] = @ + 1]
    /\ Raise(r)
    /\ UNCHANGED races

(* The store refuses the call because another client was faster.            *)
LoseRace(r) ==
    /\ races' = [races EXCEPT ![r] = @ + 1]
    /\ Raise(r)
    /\ UNCHANGED faults

Advance(r, label) ==
    /\ Goto(r, label)
    /\ UNCHANGED <<todo, attempt, outcome, cache, faults, races>>

-----------------------------------------------------------------------------
(* The steps of ingest_one.                                                 *)

Mates(r) == {s \in Runs : FlowOf[s] = FlowOf[r]}

(* A worker picks the task up.  The command takes its datasets one after    *)
(* the other; tasks of a Prefect flow run side by side, and one that waits  *)
(* for its retry goes on even when the flow has already failed.             *)
MayStart(r) ==
    /\ pc[r] = "scheduled"
    /\ \/ flow[FlowOf[r]] = "running"
       \/ flow[FlowOf[r]] = "failed" /\ attempt[r] > 0
    /\ Cli(r) => \A s \in Mates(r) : Order[s] < Order[r] => pc[s] = "done"

StartAttempt(r) ==
    /\ MayStart(r)
    /\ pc' = [pc EXCEPT ![r] = "validate"]
    /\ attempt' = [attempt EXCEPT ![r] = @ + 1]
    /\ UNCHANGED <<todo, outcome, cache, faults, races, lakeVars>>

(* A task with the same arguments has completed before: the body is not run. *)
UseCachedResult(r) ==
    /\ MayStart(r)
    /\ ~Cli(r)
    /\ cache[CacheKey[r]] # NoOutcome
    /\ Goto(r, "done")
    /\ outcome' = [outcome EXCEPT ![r] = cache[CacheKey[r]]]
    /\ UNCHANGED <<todo, attempt, cache, faults, races, lakeVars>>

Validate(r) ==
    /\ pc[r] = "validate"
    /\ CASE Input(r) = "noLaspy" -> Return(r, "skipped", NoItem)
         [] Input(r) = "invalid" -> Return(r, "rejected", NoItem)
         [] OTHER -> Advance(r, "probeItem")
    /\ UNCHANGED lakeVars

(* Mutant of ProbeItem: the probe looks for files instead of the item.      *)
ProbeFiles(r) ==
    /\ pc[r] = "probeItem"
    /\ IF StoredUnder(PrefixOf[Target[r]]) # {}
       THEN Return(r, "already", Target[r])
       ELSE Advance(r, "transform")
    /\ UNCHANGED lakeVars

(* item_exists: anything but a 200 counts as "not there", failures too.     *)
ProbeItem(r) ==
    /\ pc[r] = "probeItem"
    /\ IF Catalogued(Target[r])
       THEN Return(r, "already", Target[r])
       ELSE Advance(r, "transform")
    /\ UNCHANGED lakeVars

ProbeItemFails(r) ==
    /\ pc[r] = "probeItem"
    /\ faults[r] < MaxFaults[r]
    /\ faults' = [faults EXCEPT ![r] = @ + 1]
    /\ Goto(r, "transform")
    /\ UNCHANGED <<todo, attempt, outcome, cache, races, lakeVars>>

(* The transform writes the files of the tree into a temporary directory.   *)
Transform(r) ==
    /\ pc[r] = "transform"
    /\ \/ /\ Input(r) = "noPdal"
          /\ Return(r, "skipped", Target[r])
       \/ /\ Input(r) = "empty"
          /\ Return(r, "rejected", Target[r])
       \/ /\ Input(r) = "broken"
          /\ Raise(r)
          /\ UNCHANGED <<faults, races>>
       \/ /\ Input(r) = "good"
          /\ Goto(r, "upload")
          /\ todo' = [todo EXCEPT ![r] = Tree[r]]
          /\ UNCHANGED <<attempt, outcome, cache, faults, races>>
    /\ UNCHANGED lakeVars

(* upload_tree: one PUT per file, in the order the directory walk has.      *)
UploadFile(r) ==
    /\ pc[r] = "upload"
    /\ \E k \in todo[r] :
         /\ PutObject(k)
         /\ todo' = [todo EXCEPT ![r] = @ \ {k}]
    /\ UNCHANGED <<collections, catalog, pc, attempt, outcome, cache, faults, races>>

(* Mutant of UploadDone: the item is posted while files are under way.      *)
UploadInBackground(r) ==
    /\ pc[r] = "upload"
    /\ Advance(r, "probeCollection")
    /\ UNCHANGED lakeVars

UploadDone(r) ==
    /\ pc[r] = "upload"
    /\ todo[r] = {}
    /\ Advance(r, "probeCollection")
    /\ UNCHANGED lakeVars

(* ensure_collection: GET, and POST when the answer is 404.                 *)
ProbeCollection(r) ==
    /\ pc[r] = "probeCollection"
    /\ IF DomainOf[Target[r]] \in collections
       THEN Advance(r, "postItem")
       ELSE Advance(r, "createCollection")
    /\ UNCHANGED lakeVars

(* Mutant of CreateCollection: the task waits while the collection exists.  *)
CreateCollectionAlone(r) ==
    /\ pc[r] = "createCollection"
    /\ DomainOf[Target[r]] \notin collections
    /\ collections' = collections \cup {DomainOf[Target[r]]}
    /\ Advance(r, "postItem")
    /\ UNCHANGED <<catalog, objects>>

(* The POST is answered 409, and raised, when another task was faster.      *)
CreateCollection(r) ==
    LET d == DomainOf[Target[r]] IN
    /\ pc[r] = "createCollection"
    /\ \/ /\ d \notin collections
          /\ collections' = collections \cup {d}
          /\ Advance(r, "postItem")
       \/ /\ d \in collections
          /\ LoseRace(r)
          /\ UNCHANGED collections
    /\ UNCHANGED <<catalog, objects>>

(* The data asset of a vector dataset names the folder itself.              *)
AssetNames(r) ==
    IF Kind[Target[r]] = "vector" THEN {PrefixOf[Target[r]], Sidecar[r]} ELSE Tree[r]

BuildItem(r) ==
    [run |-> r, cls |-> ClassOf[r], curated |-> FALSE, enriched |-> FALSE, old |-> FALSE,
     hrefs |-> {[scheme |-> "http", name |-> n] : n \in AssetNames(r)}]

(* post_item: POST, and PUT when the answer is 409.                         *)
PostItem(r) ==
    /\ pc[r] = "postItem"
    /\ IF Catalogued(Target[r])
       THEN /\ Advance(r, "putItem")
            /\ UNCHANGED catalog
       ELSE /\ WriteItem(Target[r], BuildItem(r))
            /\ Return(r, "ingested", Target[r])
    /\ UNCHANGED <<collections, objects>>

(* The PUT is answered 404, and raised, when the item is gone meanwhile.    *)
PutItem(r) ==
    /\ pc[r] = "putItem"
    /\ IF Catalogued(Target[r])
       THEN /\ WriteItem(Target[r], BuildItem(r))
            /\ Return(r, "ingested", Target[r])
       ELSE /\ LoseRace(r)
            /\ UNCHANGED catalog
    /\ UNCHANGED <<collections, objects>>

(* A call of the attempt fails without an effect ...                        *)
CallFails(r) ==
    /\ pc[r] \in {"upload", "probeCollection", "createCollection", "postItem", "putItem"}
    /\ Fault(r)
    /\ UNCHANGED lakeVars

(* ... or has its effect and its answer is lost.                            *)
AnswerLost(r) ==
    /\ \/ /\ pc[r] = "upload"
          /\ \E k \in todo[r] : PutObject(k)
          /\ UNCHANGED <<collections, catalog>>
       \/ /\ pc[r] = "createCollection"
          /\ collections' = collections \cup {DomainOf[Target[r]]}
          /\ UNCHANGED <<catalog, objects>>
       \/ /\ \/ pc[r] = "postItem" /\ ~Catalogued(Target[r])
             \/ pc[r] = "putItem" /\ Catalogued(Target[r])
          /\ WriteItem(Target[r], BuildItem(r))
          /\ UNCHANGED <<collections, objects>>
    /\ Fault(r)

-----------------------------------------------------------------------------
(* The flow around the tasks.                                               *)

Tasks(f) == {r \in Runs : FlowOf[r] = f}

(* The flow fetches its source and discovers its datasets.                  *)
StartFlow(f) ==
    /\ flow[f] = "pending"
    /\ flow' = [flow EXCEPT ![f] = "running"]
    /\ UNCHANGED <<lakeVars, input, taskVars>>

FetchFails(f) ==
    /\ flow[f] = "pending"
    /\ flow' = [flow EXCEPT ![f] = "failed"]
    /\ UNCHANGED <<lakeVars, input, taskVars>>

(* Mutant of CompleteFlow: the flow waits for its tasks, not their results. *)
CompleteAfterAll(f) ==
    /\ flow[f] = "running"
    /\ \A r \in Tasks(f) : pc[r] \in {"done", "failed"}
    /\ flow' = [flow EXCEPT ![f] = "completed"]
    /\ UNCHANGED <<lakeVars, input, taskVars>>

(* [f.result() for f in outcomes]                                           *)
CompleteFlow(f) ==
    /\ flow[f] = "running"
    /\ \A r \in Tasks(f) : pc[r] = "done"
    /\ flow' = [flow EXCEPT ![f] = "completed"]
    /\ UNCHANGED <<lakeVars, input, taskVars>>

FailFlow(f) ==
    /\ flow[f] = "running"
    /\ \E r \in Tasks(f) :
         /\ pc[r] = "failed"
         /\ \A s \in Tasks(f) : Order[s] < Order[r] => pc[s] = "done"
    /\ flow' = [flow EXCEPT ![f] = "failed"]
    /\ UNCHANGED <<lakeVars, input, taskVars>>

(* The pod or the process dies, with every task in it.                      *)
CrashFlow(f) ==
    /\ flow[f] \in {"running", "failed"}
    /\ flow' = [flow EXCEPT ![f] = "crashed"]
    /\ pc' = [r \in Runs |-> IF r \in Tasks(f) /\ pc[r] \notin {"done", "failed"}
                             THEN "lost" ELSE pc[r]]
    /\ UNCHANGED <<lakeVars, input, todo, attempt, outcome, cache, faults, races>>

-----------------------------------------------------------------------------

TaskStep(r) ==
    /\ \/ StartAttempt(r) \/ Validate(r) \/ ProbeItem(r) \/ Transform(r)
       \/ UploadFile(r) \/ UploadDone(r) \/ ProbeCollection(r)
       \/ CreateCollection(r) \/ PostItem(r) \/ PutItem(r)
    /\ UNCHANGED <<input, flow>>

TaskFault(r) ==
    /\ UseCachedResult(r) \/ ProbeItemFails(r) \/ CallFails(r) \/ AnswerLost(r)
    /\ UNCHANGED <<input, flow>>

FlowStep(f) == StartFlow(f) \/ CompleteFlow(f) \/ FailFlow(f)

FlowFault(f) == FetchFails(f) \/ CrashFlow(f)

Ended == {"completed", "failed", "crashed"}

(* Every flow has ended and no task of one is still at work.                *)
Quiet ==
    /\ \A f \in Flows : flow[f] \in Ended
    /\ \A r \in Runs : pc[r] \notin Active /\ ~MayStart(r)

IngestNext ==
    \/ \E r \in Runs : TaskStep(r) \/ TaskFault(r)
    \/ \E f \in Flows : FlowStep(f) \/ FlowFault(f)

Next == IngestNext \/ (Quiet /\ UNCHANGED vars)

Spec == Init /\ [][Next]_vars

(* The Prefect worker and the threads of a flow run keep going; faults and  *)
(* crashes are not obliged to happen.                                       *)
Fairness ==
    /\ \A r \in Runs : WF_vars(TaskStep(r))
    /\ \A f \in Flows : WF_vars(FlowStep(f))

FairSpec == Spec /\ Fairness

-----------------------------------------------------------------------------
(* What ingest promises while nobody deletes.                               *)

Whole(r) == \A k \in Tree[r] : Stored(k)

(* Whoever finds an item in the catalogue can fetch every file of the run   *)
(* it links back to: upload_tree has finished before post_item is called,   *)
(* whatever other tasks, retries and lost answers came between.             *)
ItemsBacked ==
    \A i \in Items : Catalogued(i) =>
        /\ catalog[i].run \in Runs
        /\ Target[catalog[i].run] = i
        /\ Whole(catalog[i].run)

(* A task that reports "ingested", or "already ingested" after the probe,   *)
(* speaks of an item that is in the catalogue under the task's own id.      *)
ReportsAreTrue ==
    \A r \in Runs : outcome[r].status \in {"ingested", "already"} =>
        /\ outcome[r].item = Target[r]
        /\ Catalogued(Target[r])

(* retries=2 is enough: a task whose file is sound fails for good only if   *)
(* as many of its calls failed as it has retries.  The race two tasks run   *)
(* in ensure_collection costs a task one attempt, but only once.            *)
RetriesAbsorb ==
    \A r \in Runs :
        pc[r] = "failed" /\ ~Cli(r) /\ Input(r) # "broken" => faults[r] >= Retries

(* A flow run that ends as completed has delivered: every sound file it     *)
(* discovered is catalogued, with all its objects.                          *)
CompletedFlowsDelivered ==
    \A f \in Flows : flow[f] = "completed" =>
        \A r \in Tasks(f) : Input(r) = "good" =>
            Catalogued(Target[r]) /\ Whole(catalog[Target[r]].run)

(* Files are named by what is in them: two tasks with the same arguments    *)
(* are about the same dataset.                                              *)
PathsNameContent ==
    \A r, s \in Runs : CacheKey[r] = CacheKey[s] => Target[r] = Target[s]

(* "re-runs of the same content are no-ops" (flows/ingest.py:62): a task    *)
(* that Prefect answers from its cache is about the dataset of the answer.  *)
CacheMeansSameContent ==
    \A r \in Runs :
        pc[r] = "done" /\ outcome[r].item # NoItem => outcome[r].item = Target[r]

(* Ingest implements Publication: what it stores before the item is posted  *)
(* is invisible, and the verdict of a task is what its outcome says.        *)
VerdictOf(r) ==
    CASE pc[r] \in {"failed", "lost"} -> "failed"
      [] pc[r] = "done" /\ outcome[r].status \in {"ingested", "already"} -> "catalogued"
      [] pc[r] = "done" /\ outcome[r].status \in {"skipped", "rejected"} -> "declined"
      [] OTHER -> "pending"

Promise == INSTANCE Publication WITH
    complete  <- {i \in Items : \E r \in Runs : Target[r] = i /\ Whole(r)},
    published <- {i \in Items : Catalogued(i)},
    verdict   <- [r \in Runs |-> VerdictOf(r)]

(* Tasks, retries, races and lost answers are invisible to a reader: as far *)
(* as the catalogue and the reports go, ingest publishes atomically.        *)
PublishesAtomically == Promise!Spec

(* A sound file of a flow that runs ends up in the catalogue, unless the    *)
(* flow fails or dies: retries end, and nobody waits for somebody.          *)
SoundFilesGetCatalogued ==
    \A r \in Runs :
        (Input(r) = "good" /\ flow[FlowOf[r]] = "running")
            ~> (Catalogued(Target[r]) \/ flow[FlowOf[r]] \in {"failed", "crashed"})

(* Every flow that starts ends.                                             *)
FlowsEnd == \A f \in Flows : (flow[f] = "running") ~> (flow[f] \in Ended)
=============================================================================
