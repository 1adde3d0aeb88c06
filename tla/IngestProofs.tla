---------------------------- MODULE IngestProofs ----------------------------
(***************************************************************************)
(* What is proved about Ingest, for any number of flows, tasks, datasets,   *)
(* files, retries and faults.                                               *)
(***************************************************************************)
EXTENDS Ingest, Descent

(* A task is given another attempt only while it has one left.              *)
AttemptsLeft == \A r \in Runs : pc[r] = "scheduled" => attempt[r] <= Retries

TypeInv == IngestTypeOK /\ AttemptsLeft

(* Where an attempt stands, the files it has been through are stored.       *)
UploadKept(r) ==
    /\ pc[r] = "upload" => \A k \in Tree[r] \ todo[r] : Stored(k)
    /\ pc[r] \in {"probeCollection", "createCollection", "postItem", "putItem"}
         => Whole(r)

UploadsKept == \A r \in Runs : UploadKept(r)

BackedInv == TypeInv /\ UploadsKept /\ ItemsBacked

-----------------------------------------------------------------------------
(* Type correctness.                                                        *)

(* post_item sends a well-formed item: its hrefs name the files of the run  *)
(* or the folder they are in.                                               *)
LEMMA BuildItemType == \A r \in Runs : BuildItem(r) \in ItemRecords
<1> SUFFICES ASSUME NEW r \in Runs PROVE BuildItem(r) \in ItemRecords
  OBVIOUS
<1> USE IngestAssumption, LakeAssumption
<1>1. AssetNames(r) \subseteq Keys \cup Folders
  BY DEF AssetNames
<1>2. {[scheme |-> "http", name |-> n] : n \in AssetNames(r)} \in SUBSET Hrefs
  BY <1>1 DEF Hrefs
<1>3. QED
  BY <1>2 DEF BuildItem, ItemRecords

TaskInv == TaskTypeOK /\ AttemptsLeft

(* The ways an attempt moves on, ends or is thrown back keep the types of   *)
(* the task variables.                                                      *)
LEMMA AdvanceType ==
  ASSUME TaskInv, NEW r \in Runs, NEW label \in Active, Advance(r, label),
         UNCHANGED <<input, flow>>
  PROVE  TaskInv'
BY DEF TaskInv, TaskTypeOK, AttemptsLeft, Advance, Goto, Active

LEMMA ReturnType ==
  ASSUME TaskInv, NEW r \in Runs, NEW status \in Verdicts,
         NEW item \in Items \cup {NoItem}, Return(r, status, item),
         UNCHANGED <<input, flow>>
  PROVE  TaskInv'
<1> DEFINE result == [status |-> status, item |-> item]
<1>1. result \in Outcomes \cup {NoOutcome}
  BY DEF Outcomes
<1>2. outcome' = [outcome EXCEPT ![r] = result]
  BY DEF Return
<1>3. cache' = cache \/ cache' = [cache EXCEPT ![CacheKey[r]] = result]
  BY DEF Return
<1> HIDE DEF result
<1>4. outcome' \in [Runs -> Outcomes \cup {NoOutcome}]
  BY <1>1, <1>2 DEF TaskInv, TaskTypeOK
<1>5. cache' \in [CacheKeys -> Outcomes \cup {NoOutcome}]
  BY <1>1, <1>3, IngestAssumption DEF TaskInv, TaskTypeOK
<1>6. /\ pc' = [pc EXCEPT ![r] = "done"]
      /\ UNCHANGED <<todo, attempt, faults, races, input, flow>>
  BY DEF Return, Goto
<1>7. QED
  BY <1>4, <1>5, <1>6 DEF TaskInv, TaskTypeOK, AttemptsLeft

LEMMA RaiseType ==
  ASSUME TaskInv, NEW r \in Runs, Raise(r), UNCHANGED <<input, flow>>,
         faults' \in [Runs -> Nat], races' \in [Runs -> Nat]
  PROVE  TaskInv'
BY DEF TaskInv, TaskTypeOK, AttemptsLeft, Raise, Goto

LEMMA FaultType ==
  ASSUME TaskInv, NEW r \in Runs, Fault(r), UNCHANGED <<input, flow>>
  PROVE  TaskInv'
<1>1. faults' \in [Runs -> Nat] /\ races' \in [Runs -> Nat]
  BY DEF Fault, TaskInv, TaskTypeOK
<1>2. QED
  BY <1>1, RaiseType DEF Fault

LEMMA LoseRaceType ==
  ASSUME TaskInv, NEW r \in Runs, LoseRace(r), UNCHANGED <<input, flow>>
  PROVE  TaskInv'
<1>1. faults' \in [Runs -> Nat] /\ races' \in [Runs -> Nat]
  BY DEF LoseRace, TaskInv, TaskTypeOK
<1>2. QED
  BY <1>1, RaiseType DEF LoseRace

(* The two stores keep their types under every transaction a task makes.    *)
LEMMA WriteItemType ==
  ASSUME LakeTypeOK, NEW r \in Runs, WriteItem(Target[r], BuildItem(r)),
         UNCHANGED <<collections, objects>>
  PROVE  LakeTypeOK'
BY BuildItemType, IngestAssumption DEF LakeTypeOK, WriteItem

LEMMA PutObjectType ==
  ASSUME LakeTypeOK, NEW k, PutObject(k), UNCHANGED <<collections, catalog>>
  PROVE  LakeTypeOK'
BY DEF LakeTypeOK, PutObject

LEMMA LakeStutter ==
  ASSUME LakeTypeOK, UNCHANGED lakeVars
  PROVE  LakeTypeOK'
BY DEF LakeTypeOK, lakeVars

(* No step changes the type of a variable, and no task is scheduled again   *)
(* once its attempts are used up.                                           *)
LEMMA TypeStep == TypeInv /\ [Next]_vars => TypeInv'
<1> SUFFICES ASSUME LakeTypeOK, TaskInv, [Next]_vars PROVE LakeTypeOK' /\ TaskInv'
  BY DEF TypeInv, IngestTypeOK, TaskInv
<1>1. ASSUME NEW r \in Runs, TaskStep(r) PROVE LakeTypeOK' /\ TaskInv'
  <2> USE <1>1
  <2>1. UNCHANGED <<input, flow>>
    BY DEF TaskStep
  <2>2. Target[r] \in Items /\ Tree[r] \subseteq Keys /\ DomainOf[Target[r]] \in Domains
    BY IngestAssumption, LakeAssumption
  <2>3. CASE StartAttempt(r)
    <3>1. TaskInv'
      BY <2>1, <2>3, IngestAssumption
         DEF StartAttempt, MayStart, TaskInv, TaskTypeOK, AttemptsLeft, Active
    <3>2. QED
      BY <2>3, <3>1, LakeStutter DEF StartAttempt
  <2>4. CASE Validate(r)
    <3>1. UNCHANGED lakeVars
      BY <2>4 DEF Validate
    <3>2. \/ Return(r, "skipped", NoItem)
          \/ Return(r, "rejected", NoItem)
          \/ Advance(r, "probeItem")
      BY <2>4 DEF Validate
    <3>3. QED
      BY <2>1, <3>1, <3>2, LakeStutter, ReturnType, AdvanceType DEF Verdicts, Active
  <2>5. CASE ProbeItem(r)
    <3>1. UNCHANGED lakeVars
      BY <2>5 DEF ProbeItem
    <3>2. Return(r, "already", Target[r]) \/ Advance(r, "transform")
      BY <2>5 DEF ProbeItem
    <3>3. QED
      BY <2>1, <2>2, <3>1, <3>2, LakeStutter, ReturnType, AdvanceType DEF Verdicts, Active
  <2>6. CASE Transform(r)
    <3>1. UNCHANGED lakeVars
      BY <2>6 DEF Transform
    <3>2. CASE \/ Return(r, "skipped", Target[r])
               \/ Return(r, "rejected", Target[r])
      BY <2>1, <2>2, <3>1, <3>2, LakeStutter, ReturnType DEF Verdicts
    <3>3. CASE Raise(r) /\ UNCHANGED <<faults, races>>
      BY <2>1, <3>1, <3>3, LakeStutter, RaiseType DEF TaskInv, TaskTypeOK
    <3>4. CASE /\ Goto(r, "upload")
               /\ todo' = [todo EXCEPT ![r] = Tree[r]]
               /\ UNCHANGED <<attempt, outcome, cache, faults, races>>
      <4>1. TaskInv'
        BY <2>1, <2>2, <3>4 DEF TaskInv, TaskTypeOK, AttemptsLeft, Goto, Active
      <4>2. QED
        BY <3>1, <4>1, LakeStutter
    <3>5. QED
      BY <2>6, <3>2, <3>3, <3>4 DEF Transform
  <2>7. CASE UploadFile(r)
    <3>1. LakeTypeOK'
      BY <2>7, PutObjectType DEF UploadFile
    <3>2. TaskInv'
      BY <2>1, <2>7 DEF UploadFile, TaskInv, TaskTypeOK, AttemptsLeft
    <3>3. QED
      BY <3>1, <3>2
  <2>8. CASE UploadDone(r)
    BY <2>1, <2>8, LakeStutter, AdvanceType DEF UploadDone, Active
  <2>9. CASE ProbeCollection(r)
    BY <2>1, <2>9, LakeStutter, AdvanceType DEF ProbeCollection, Active
  <2>10. CASE CreateCollection(r)
    <3>1. LakeTypeOK'
      BY <2>2, <2>10 DEF CreateCollection, LakeTypeOK
    <3>2. TaskInv'
      BY <2>1, <2>10, LoseRaceType, AdvanceType DEF CreateCollection, Active
    <3>3. QED
      BY <3>1, <3>2
  <2>11. CASE PostItem(r)
    <3>1. CASE Advance(r, "putItem") /\ UNCHANGED lakeVars
      BY <2>1, <3>1, AdvanceType, LakeStutter DEF Active
    <3>2. CASE /\ WriteItem(Target[r], BuildItem(r))
               /\ Return(r, "ingested", Target[r])
               /\ UNCHANGED <<collections, objects>>
      BY <2>1, <2>2, <3>2, ReturnType, WriteItemType DEF Verdicts
    <3>3. QED
      BY <2>11, <3>1, <3>2 DEF PostItem, lakeVars
  <2>12. CASE PutItem(r)
    <3>1. CASE LoseRace(r) /\ UNCHANGED lakeVars
      BY <2>1, <3>1, LoseRaceType, LakeStutter
    <3>2. CASE /\ WriteItem(Target[r], BuildItem(r))
               /\ Return(r, "ingested", Target[r])
               /\ UNCHANGED <<collections, objects>>
      BY <2>1, <2>2, <3>2, ReturnType, WriteItemType DEF Verdicts
    <3>3. QED
      BY <2>12, <3>1, <3>2 DEF PutItem, lakeVars
  <2>13. QED
    BY <2>3, <2>4, <2>5, <2>6, <2>7, <2>8, <2>9, <2>10, <2>11, <2>12 DEF TaskStep
<1>2. ASSUME NEW r \in Runs, TaskFault(r) PROVE LakeTypeOK' /\ TaskInv'
  <2> USE <1>2
  <2>1. UNCHANGED <<input, flow>>
    BY DEF TaskFault
  <2>2. CASE UseCachedResult(r)
    <3>1. cache[CacheKey[r]] \in Outcomes \cup {NoOutcome}
      BY IngestAssumption DEF TaskInv, TaskTypeOK
    <3>2. TaskInv'
      BY <2>1, <2>2, <3>1 DEF UseCachedResult, Goto, TaskInv, TaskTypeOK, AttemptsLeft
    <3>3. QED
      BY <2>2, <3>2, LakeStutter DEF UseCachedResult
  <2>3. CASE ProbeItemFails(r)
    <3>1. TaskInv'
      BY <2>1, <2>3 DEF ProbeItemFails, Goto, TaskInv, TaskTypeOK, AttemptsLeft, Active
    <3>2. QED
      BY <2>3, <3>1, LakeStutter DEF ProbeItemFails
  <2>4. CASE CallFails(r)
    BY <2>1, <2>4, FaultType, LakeStutter DEF CallFails
  <2>5. CASE AnswerLost(r)
    <3>1. TaskInv'
      BY <2>1, <2>5, FaultType DEF AnswerLost
    <3>2. CASE (\E k \in todo[r] : PutObject(k)) /\ UNCHANGED <<collections, catalog>>
      BY <3>1, <3>2, PutObjectType
    <3>3. CASE /\ collections' = collections \cup {DomainOf[Target[r]]}
               /\ UNCHANGED <<catalog, objects>>
      BY <3>1, <3>3, IngestAssumption, LakeAssumption DEF LakeTypeOK
    <3>4. CASE WriteItem(Target[r], BuildItem(r)) /\ UNCHANGED <<collections, objects>>
      BY <3>1, <3>4, WriteItemType
    <3>5. QED
      BY <2>5, <3>2, <3>3, <3>4 DEF AnswerLost
  <2>6. QED
    BY <2>2, <2>3, <2>4, <2>5 DEF TaskFault
<1>3. ASSUME NEW f \in Flows, FlowStep(f) \/ FlowFault(f) PROVE LakeTypeOK' /\ TaskInv'
  <2>1. UNCHANGED <<lakeVars, input, todo, attempt, outcome, cache, faults, races>>
    BY <1>3 DEF FlowStep, FlowFault, StartFlow, FetchFails, CompleteFlow, FailFlow,
                CrashFlow, taskVars
  <2>2. flow' \in [Flows -> {"pending", "running", "completed", "failed", "crashed"}]
    BY <1>3 DEF FlowStep, FlowFault, StartFlow, FetchFails, CompleteFlow, FailFlow,
                CrashFlow, TaskInv, TaskTypeOK
  <2>3. pc' = pc \/ pc' = [r \in Runs |-> IF r \in Tasks(f) /\ pc[r] \notin {"done", "failed"}
                                          THEN "lost" ELSE pc[r]]
    BY <1>3 DEF FlowStep, FlowFault, StartFlow, FetchFails, CompleteFlow, FailFlow,
                CrashFlow, taskVars
  <2>4. TaskInv'
    BY <2>1, <2>2, <2>3 DEF TaskInv, TaskTypeOK, AttemptsLeft
  <2>5. QED
    BY <2>1, <2>4, LakeStutter
<1>4. CASE UNCHANGED vars
  BY <1>4 DEF vars, lakeVars, ingestVars, taskVars, LakeTypeOK, TaskInv, TaskTypeOK,
              AttemptsLeft
<1>5. QED
  BY <1>1, <1>2, <1>3, <1>4 DEF Next, IngestNext

LEMMA TypeInit == Init => TypeInv
BY IngestAssumption, LakeAssumption
   DEF Init, IngestInit, TypeInv, IngestTypeOK, LakeTypeOK, TaskTypeOK, AttemptsLeft

(* Every variable keeps its type, and a task never begins more than one     *)
(* attempt and its retries.                                                 *)
THEOREM TypeCorrect == Spec => []IngestTypeOK
<1>1. Init => TypeInv
  BY TypeInit
<1>2. TypeInv => IngestTypeOK
  BY DEF TypeInv
<1>3. QED
  BY <1>1, <1>2, TypeStep, PTL DEF Spec

-----------------------------------------------------------------------------
(* What a step can do to the stores.                                        *)

(* Nothing that is stored or catalogued goes away: ingest never deletes.    *)
LEMMA Monotone ==
  ASSUME TypeInv, [Next]_vars
  PROVE  /\ \A k \in Keys : Stored(k) => Stored(k)'
         /\ \A i \in Items : Catalogued(i) => Catalogued(i)'
         /\ collections \subseteq collections'
<1> USE DEF Stored, Catalogued, PutObject, WriteItem, lakeVars
<1> LakeTypeOK
  BY DEF TypeInv, IngestTypeOK
<1>1. \A r \in Runs : BuildItem(r) # NoItem
  BY BuildItemType, LakeAssumption
<1>2. ASSUME NEW r \in Runs, TaskStep(r) \/ TaskFault(r)
      PROVE  \/ UNCHANGED lakeVars
             \/ /\ \E k \in todo[r] : PutObject(k)
                /\ UNCHANGED <<collections, catalog>>
             \/ /\ WriteItem(Target[r], BuildItem(r))
                /\ UNCHANGED <<collections, objects>>
             \/ /\ collections' = collections \cup {DomainOf[Target[r]]}
                /\ UNCHANGED <<catalog, objects>>
  BY <1>2 DEF TaskStep, TaskFault, StartAttempt, Validate, ProbeItem, Transform, UploadFile,
              UploadDone, ProbeCollection, CreateCollection, PostItem, PutItem,
              UseCachedResult, ProbeItemFails, CallFails, AnswerLost
<1>3. ASSUME NEW f \in Flows, FlowStep(f) \/ FlowFault(f) PROVE UNCHANGED lakeVars
  BY <1>3 DEF FlowStep, FlowFault, StartFlow, FetchFails, CompleteFlow, FailFlow, CrashFlow
<1>4. CASE UNCHANGED vars
  BY <1>4 DEF vars
<1>5. CASE IngestNext
  BY <1>1, <1>2, <1>3, <1>5 DEF IngestNext, LakeTypeOK
<1>6. QED
  BY <1>4, <1>5 DEF Next

-----------------------------------------------------------------------------
(* Items are backed by their files.                                         *)

(* A task that stands still keeps what it has uploaded.                     *)
LEMMA UploadKeptStutter ==
  ASSUME TypeInv, [Next]_vars, NEW r \in Runs, UploadKept(r), todo'[r] = todo[r],
         pc'[r] = pc[r] \/ pc'[r] \notin {"upload", "probeCollection",
                                         "createCollection", "postItem", "putItem"}
  PROVE  UploadKept(r)'
BY Monotone, IngestAssumption DEF UploadKept, Whole

(* A step of a task leaves the other tasks where they are.                  *)
LEMMA TaskFrame ==
  ASSUME TypeInv, NEW r \in Runs, TaskStep(r) \/ TaskFault(r), NEW s \in Runs, s # r
  PROVE  /\ pc'[s] = pc[s] /\ todo'[s] = todo[s] /\ attempt'[s] = attempt[s]
         /\ outcome'[s] = outcome[s] /\ faults'[s] = faults[s] /\ races'[s] = races[s]
<1> USE DEF Goto, Advance, Return, Raise, Fault, LoseRace, TypeInv, IngestTypeOK, TaskTypeOK
<1>1. CASE TaskStep(r)
  BY <1>1 DEF TaskStep, StartAttempt, Validate, ProbeItem, Transform, UploadFile,
              UploadDone, ProbeCollection, CreateCollection, PostItem, PutItem
<1>2. CASE TaskFault(r)
  BY <1>2 DEF TaskFault, UseCachedResult, ProbeItemFails, CallFails, AnswerLost
<1>3. QED
  BY <1>1, <1>2

(* Each step keeps the record of what has been uploaded.                    *)
LEMMA UploadStep ==
  ASSUME TypeInv, [Next]_vars, NEW s \in Runs, UploadKept(s)
  PROVE  UploadKept(s)'
<1>1. UploadKept(s)
  OBVIOUS
<1> DEFINE Late == {"upload", "probeCollection", "createCollection", "postItem", "putItem"}
<1>2. ASSUME NEW r \in Runs, TaskStep(r) \/ TaskFault(r), s # r PROVE UploadKept(s)'
  BY <1>1, <1>2, TaskFrame, UploadKeptStutter
<1>3. CASE TaskStep(s)
  <2> USE DEF TypeInv, IngestTypeOK, TaskTypeOK
  <2>1. CASE StartAttempt(s) \/ Validate(s) \/ ProbeItem(s)
    <3>1. pc'[s] \notin Late
      BY <2>1 DEF StartAttempt, Validate, ProbeItem, Goto, Advance, Return
    <3>2. QED
      BY <3>1 DEF UploadKept
  <2>2. CASE Transform(s)
    <3>1. pc'[s] \notin Late \/ (pc'[s] = "upload" /\ todo'[s] = Tree[s])
      BY <2>2 DEF Transform, Goto, Return, Raise
    <3>2. QED
      BY <3>1 DEF UploadKept
  <2>3. CASE UploadFile(s)
    <3>1. PICK k \in todo[s] : PutObject(k) /\ todo' = [todo EXCEPT ![s] = @ \ {k}]
      BY <2>3 DEF UploadFile
    <3>2. k \in Keys /\ objects'[k] = "fresh"
      BY <3>1 DEF PutObject, LakeTypeOK
    <3>3. Tree[s] \ todo'[s] \subseteq (Tree[s] \ todo[s]) \cup {k}
      BY <3>1
    <3>4. pc'[s] = "upload" /\ pc[s] = "upload"
      BY <2>3 DEF UploadFile
    <3>5. QED
      BY <1>1, <3>2, <3>3, <3>4, Monotone, IngestAssumption DEF UploadKept, Stored
  <2>4. CASE UploadDone(s)
    BY <1>1, <2>4, Monotone, IngestAssumption DEF UploadDone, Advance, Goto, UploadKept, Whole
  <2>5. CASE ProbeCollection(s) \/ CreateCollection(s) \/ PostItem(s) \/ PutItem(s)
    <3>1. pc[s] \in Late \ {"upload"} /\ pc'[s] # "upload"
      BY <2>5 DEF ProbeCollection, CreateCollection, PostItem, PutItem, Advance, Goto,
                  Return, LoseRace, Raise
    <3>2. QED
      BY <1>1, <3>1, Monotone, IngestAssumption DEF UploadKept, Whole
  <2>6. QED
    BY <1>3, <2>1, <2>2, <2>3, <2>4, <2>5 DEF TaskStep
<1>4. CASE TaskFault(s)
  <2>1. pc'[s] \notin Late
    BY <1>4 DEF TaskFault, UseCachedResult, ProbeItemFails, CallFails, AnswerLost, Fault,
                Raise, Goto, TypeInv, IngestTypeOK, TaskTypeOK
  <2>2. QED
    BY <2>1 DEF UploadKept
<1>5. ASSUME NEW f \in Flows, FlowStep(f) \/ FlowFault(f) PROVE UploadKept(s)'
  <2>1. todo' = todo /\ (pc'[s] = pc[s] \/ pc'[s] = "lost")
    BY <1>5 DEF FlowStep, FlowFault, StartFlow, FetchFails, CompleteFlow, FailFlow,
                CrashFlow, taskVars
  <2>2. QED
    BY <1>1, <2>1, UploadKeptStutter
<1>6. CASE UNCHANGED vars
  BY <1>1, <1>6, UploadKeptStutter DEF vars, ingestVars, taskVars
<1>7. QED
  BY <1>2, <1>3, <1>4, <1>5, <1>6 DEF Next, IngestNext

LEMMA UploadsStep == TypeInv /\ UploadsKept /\ [Next]_vars => UploadsKept'
BY UploadStep DEF UploadsKept

(* The catalogue changes only where a task posts or puts its own item.      *)
LEMMA CatalogSteps ==
  ASSUME TypeInv, [Next]_vars
  PROVE  \/ catalog' = catalog
         \/ \E r \in Runs : /\ pc[r] \in {"postItem", "putItem"}
                            /\ WriteItem(Target[r], BuildItem(r))
<1> USE DEF lakeVars
<1>1. ASSUME NEW r \in Runs, TaskStep(r) \/ TaskFault(r)
      PROVE  \/ catalog' = catalog
             \/ /\ pc[r] \in {"postItem", "putItem"}
                /\ WriteItem(Target[r], BuildItem(r))
  BY <1>1 DEF TaskStep, TaskFault, StartAttempt, Validate, ProbeItem, Transform, UploadFile,
              UploadDone, ProbeCollection, CreateCollection, PostItem, PutItem,
              UseCachedResult, ProbeItemFails, CallFails, AnswerLost
<1>2. ASSUME NEW f \in Flows, FlowStep(f) \/ FlowFault(f) PROVE catalog' = catalog
  BY <1>2 DEF FlowStep, FlowFault, StartFlow, FetchFails, CompleteFlow, FailFlow, CrashFlow
<1>3. QED
  BY <1>1, <1>2 DEF Next, IngestNext, vars

LEMMA BackedStep == BackedInv /\ [Next]_vars => ItemsBacked'
<1> SUFFICES ASSUME BackedInv, [Next]_vars, NEW i \in Items, Catalogued(i)'
             PROVE  /\ catalog'[i].run \in Runs
                    /\ Target[catalog'[i].run] = i
                    /\ Whole(catalog[i].run)'
  BY DEF ItemsBacked
<1>1. \A r \in Runs : Whole(r) => Whole(r)'
  BY Monotone, IngestAssumption DEF BackedInv, Whole
<1>2. CASE catalog'[i] = catalog[i]
  BY <1>1, <1>2 DEF BackedInv, ItemsBacked, Catalogued
<1>3. CASE catalog'[i] # catalog[i]
  <2>1. PICK r \in Runs : /\ pc[r] \in {"postItem", "putItem"}
                          /\ WriteItem(Target[r], BuildItem(r))
    BY <1>3, CatalogSteps DEF BackedInv
  <2>2. Target[r] = i /\ catalog'[i] = BuildItem(r)
    BY <1>3, <2>1 DEF WriteItem, BackedInv, TypeInv, IngestTypeOK, LakeTypeOK
  <2>3. Whole(r)
    BY <2>1 DEF BackedInv, UploadsKept, UploadKept
  <2>4. QED
    BY <1>1, <2>2, <2>3 DEF BuildItem
<1>4. QED
  BY <1>2, <1>3

LEMMA BackedInit == Init => BackedInv
BY TypeInit DEF Init, IngestInit, BackedInv, UploadsKept, UploadKept, ItemsBacked, Catalogued

(* The files of a catalogued item are all there, whatever tasks, retries,   *)
(* lost answers and crashes came before.                                    *)
THEOREM ItemsAlwaysBacked == Spec => []ItemsBacked
<1>1. Init => BackedInv
  BY BackedInit
<1>2. BackedInv /\ [Next]_vars => BackedInv'
  BY TypeStep, UploadsStep, BackedStep DEF BackedInv
<1>3. BackedInv => ItemsBacked
  BY DEF BackedInv
<1>4. QED
  BY <1>1, <1>2, <1>3, PTL DEF Spec

-----------------------------------------------------------------------------
(* Reports are true, and completed flows have delivered.                    *)

(* What a result says of the dataset i: it is true, and positive when the   *)
(* file of i is sound.                                                      *)
TrueOf(result, i) ==
    /\ result.status \in {"ingested", "already"} => result.item = i /\ Catalogued(i)
    /\ input[i] = "good" => result.status \notin {"skipped", "rejected"}

ReportOf(r) ==
    /\ TrueOf(outcome[r], Target[r])
    /\ TrueOf(cache[CacheKey[r]], Target[r])
    /\ pc[r] = "done" => outcome[r] # NoOutcome
    /\ flow[FlowOf[r]] = "completed" => pc[r] = "done"

ReportsInv == \A r \in Runs : ReportOf(r)

(* Where the results of a step come from: a task returns what it has found  *)
(* out, or copies what its cache key holds.                                 *)
LEMMA Results ==
  ASSUME TypeInv, NEW r \in Runs, TaskStep(r) \/ TaskFault(r), [Next]_vars
  PROVE  \/ /\ outcome'[r] = outcome[r] /\ cache' = cache
            /\ pc'[r] = "done" => pc[r] = "done"
         \/ /\ outcome'[r] = cache[CacheKey[r]] /\ cache' = cache
            /\ cache[CacheKey[r]] # NoOutcome
         \/ \E result \in Outcomes :
              /\ TrueOf(result, Target[r])'
              /\ outcome'[r] = result
              /\ cache' \in {cache, [cache EXCEPT ![CacheKey[r]] = result]}
<1> USE DEF TypeInv, IngestTypeOK, TaskTypeOK
<1>0. /\ input' = input /\ Target[r] \in Items
      /\ Catalogued(Target[r]) => Catalogued(Target[r])'
  BY Monotone, IngestAssumption DEF TaskStep, TaskFault
<1>1. ASSUME NEW status \in Verdicts, NEW item \in Items \cup {NoItem},
             Return(r, status, item), TrueOf([status |-> status, item |-> item], Target[r])'
      PROVE  \E result \in Outcomes :
              /\ TrueOf(result, Target[r])'
              /\ outcome'[r] = result
              /\ cache' \in {cache, [cache EXCEPT ![CacheKey[r]] = result]}
  <2>1. [status |-> status, item |-> item] \in Outcomes
    BY DEF Outcomes
  <2>2. outcome'[r] = [status |-> status, item |-> item]
    BY <1>1 DEF Return
  <2>3. cache' \in {cache, [cache EXCEPT ![CacheKey[r]] = [status |-> status, item |-> item]]}
    BY <1>1 DEF Return
  <2>4. QED
    BY <1>1, <2>1, <2>2, <2>3
<1>2. CASE Validate(r)
  <2>1. \/ Input(r) # "good" /\ Return(r, "skipped", NoItem)
        \/ Input(r) # "good" /\ Return(r, "rejected", NoItem)
        \/ Advance(r, "probeItem")
    BY <1>2 DEF Validate
  <2>2. CASE Advance(r, "probeItem")
    BY <2>2 DEF Advance, Goto
  <2>3. QED
    BY <1>0, <1>1, <2>1, <2>2 DEF Verdicts, TrueOf, Input
<1>3. CASE ProbeItem(r)
  <2>1. \/ Catalogued(Target[r]) /\ Return(r, "already", Target[r])
        \/ Advance(r, "transform")
    BY <1>3 DEF ProbeItem
  <2>2. CASE Advance(r, "transform")
    BY <2>2 DEF Advance, Goto
  <2>3. QED
    BY <1>0, <1>1, <2>1, <2>2 DEF Verdicts, TrueOf
<1>4. CASE Transform(r)
  <2>1. \/ Input(r) # "good" /\ Return(r, "skipped", Target[r])
        \/ Input(r) # "good" /\ Return(r, "rejected", Target[r])
        \/ /\ pc'[r] \in {"scheduled", "failed", "upload"}
           /\ outcome' = outcome /\ cache' = cache
    BY <1>4 DEF Transform, Raise, Goto
  <2>2. QED
    BY <1>0, <1>1, <2>1 DEF Verdicts, TrueOf, Input
<1>5. ASSUME WriteItem(Target[r], BuildItem(r)), Return(r, "ingested", Target[r])
      PROVE  \E result \in Outcomes :
              /\ TrueOf(result, Target[r])'
              /\ outcome'[r] = result
              /\ cache' \in {cache, [cache EXCEPT ![CacheKey[r]] = result]}
  <2>1. Catalogued(Target[r])'
    BY <1>0, <1>5, BuildItemType, LakeAssumption DEF WriteItem, Catalogued, LakeTypeOK
  <2>2. QED
    BY <1>0, <1>1, <1>5, <2>1 DEF Verdicts, TrueOf
<1>6. CASE PostItem(r)
  BY <1>5, <1>6 DEF PostItem, Advance, Goto
<1>7. CASE PutItem(r)
  BY <1>5, <1>7 DEF PutItem, LoseRace, Raise, Goto
<1>8. CASE \/ StartAttempt(r) \/ UploadFile(r) \/ UploadDone(r) \/ ProbeCollection(r)
           \/ CreateCollection(r)
  BY <1>8 DEF StartAttempt, UploadFile, UploadDone, ProbeCollection, CreateCollection,
              Advance, Goto, LoseRace, Raise
<1>9. CASE TaskFault(r)
  BY <1>9 DEF TaskFault, UseCachedResult, ProbeItemFails, CallFails, AnswerLost, Fault,
              Raise, Goto
<1>10. QED
  BY <1>2, <1>3, <1>4, <1>6, <1>7, <1>8, <1>9 DEF TaskStep

LEMMA ReportsStep ==
  ASSUME PathsNameContent, TypeInv, ReportsInv, [Next]_vars
  PROVE  ReportsInv'
<1> SUFFICES ASSUME NEW s \in Runs PROVE ReportOf(s)'
  BY DEF ReportsInv
<1> USE DEF TypeInv, IngestTypeOK, TaskTypeOK
<1>1. /\ Target[s] \in Items /\ CacheKey[s] \in CacheKeys /\ FlowOf[s] \in Flows
      /\ Catalogued(Target[s]) => Catalogued(Target[s])'
  BY Monotone, IngestAssumption
<1>2. ReportOf(s)
  BY DEF ReportsInv
<1>3. ASSUME NEW r \in Runs, TaskStep(r) \/ TaskFault(r) PROVE ReportOf(s)'
  <2>1. input' = input /\ flow' = flow
    BY <1>3 DEF TaskStep, TaskFault
  <2>2. TrueOf(cache[CacheKey[s]], Target[s])'
    <3>1. CASE cache'[CacheKey[s]] = cache[CacheKey[s]]
      BY <1>1, <1>2, <2>1, <3>1 DEF ReportOf, TrueOf
    <3>2. CASE cache'[CacheKey[s]] # cache[CacheKey[s]]
      <4>1. PICK result \in Outcomes :
              /\ TrueOf(result, Target[r])'
              /\ cache' \in {cache, [cache EXCEPT ![CacheKey[r]] = result]}
        BY <1>3, <3>2, Results
      <4>2. CacheKey[s] = CacheKey[r] /\ cache'[CacheKey[s]] = result
        BY <1>1, <3>2, <4>1
      <4>3. Target[s] = Target[r]
        BY <4>2 DEF PathsNameContent
      <4>4. QED
        BY <4>1, <4>2, <4>3 DEF TrueOf
    <3>3. QED
      BY <3>1, <3>2
  <2>3. CASE s # r
    <3>1. outcome'[s] = outcome[s] /\ pc'[s] = pc[s]
      BY <1>3, <2>3, TaskFrame
    <3>2. QED
      BY <1>1, <1>2, <2>1, <2>2, <3>1 DEF ReportOf, TrueOf
  <2>4. CASE s = r
    <3>1. pc[r] # "done"
      BY <1>3 DEF TaskStep, TaskFault, StartAttempt, MayStart, Validate, ProbeItem, Transform,
                  UploadFile, UploadDone, ProbeCollection, CreateCollection, PostItem, PutItem,
                  UseCachedResult, ProbeItemFails, CallFails, AnswerLost
    <3>2. TrueOf(outcome[s], Target[s])' /\ (pc'[s] = "done" => outcome'[s] # NoOutcome)
      <4>1. CASE outcome'[r] = outcome[r] /\ (pc'[r] = "done" => pc[r] = "done")
        BY <1>1, <1>2, <2>1, <2>4, <3>1, <4>1 DEF ReportOf, TrueOf
      <4>2. CASE outcome'[r] = cache[CacheKey[r]] /\ cache[CacheKey[r]] # NoOutcome
        BY <1>1, <1>2, <2>1, <2>4, <4>2 DEF ReportOf, TrueOf
      <4>3. ASSUME NEW result \in Outcomes, TrueOf(result, Target[r])', outcome'[r] = result
            PROVE  TrueOf(outcome[s], Target[s])' /\ outcome'[s] # NoOutcome
        BY <2>4, <4>3 DEF TrueOf, Outcomes, NoOutcome, Verdicts
      <4>4. QED
        BY <1>3, <2>4, <4>1, <4>2, <4>3, Results
    <3>3. QED
      BY <1>2, <2>1, <2>2, <2>4, <3>1, <3>2 DEF ReportOf
  <2>5. QED
    BY <2>3, <2>4
<1>4. ASSUME NEW f \in Flows, FlowStep(f) \/ FlowFault(f) PROVE ReportOf(s)'
  <2>1. /\ UNCHANGED <<input, outcome, cache>>
        /\ pc'[s] = pc[s] \/ pc'[s] = "lost"
        /\ pc[s] = "done" => pc'[s] = "done"
    BY <1>4 DEF FlowStep, FlowFault, StartFlow, FetchFails, CompleteFlow, FailFlow,
                CrashFlow, taskVars
  <2>2. flow'[FlowOf[s]] = "completed" => flow[FlowOf[s]] = "completed" \/ pc[s] = "done"
    BY <1>1, <1>4 DEF FlowStep, FlowFault, StartFlow, FetchFails, CompleteFlow, FailFlow,
                CrashFlow, Tasks
  <2>3. QED
    BY <1>1, <1>2, <2>1, <2>2 DEF ReportOf, TrueOf
<1>5. CASE UNCHANGED vars
  BY <1>1, <1>2, <1>5 DEF vars, ingestVars, taskVars, ReportOf, TrueOf
<1>6. QED
  BY <1>3, <1>4, <1>5 DEF Next, IngestNext

LEMMA ReportsInit == Init => ReportsInv
BY IngestAssumption DEF Init, IngestInit, ReportsInv, ReportOf, TrueOf, NoOutcome

(* If equal arguments mean equal datasets, then a task that reports its     *)
(* dataset as ingested, or as ingested already, is right, also when Prefect *)
(* answers it from the cache.                                               *)
THEOREM ReportsAlwaysTrue == PathsNameContent => (Spec => []ReportsAreTrue)
<1> SUFFICES ASSUME PathsNameContent PROVE Spec => []ReportsAreTrue
  OBVIOUS
<1>1. Init => TypeInv /\ ReportsInv
  BY TypeInit, ReportsInit
<1>2. TypeInv /\ ReportsInv /\ [Next]_vars => (TypeInv /\ ReportsInv)'
  BY TypeStep, ReportsStep
<1>3. ReportsInv => ReportsAreTrue
  BY DEF ReportsInv, ReportOf, TrueOf, ReportsAreTrue
<1>4. QED
  BY <1>1, <1>2, <1>3, PTL DEF Spec

(* Under the same assumption a completed flow has delivered every sound     *)
(* file it discovered.                                                      *)
THEOREM CompletedAlwaysDelivered == PathsNameContent => (Spec => []CompletedFlowsDelivered)
<1> SUFFICES ASSUME PathsNameContent PROVE Spec => []CompletedFlowsDelivered
  OBVIOUS
<1>1. Init => BackedInv /\ ReportsInv
  BY BackedInit, ReportsInit
<1>2. BackedInv /\ ReportsInv /\ [Next]_vars => (BackedInv /\ ReportsInv)'
  BY TypeStep, UploadsStep, BackedStep, ReportsStep DEF BackedInv
<1>3. BackedInv /\ ReportsInv => CompletedFlowsDelivered
  <2> SUFFICES ASSUME BackedInv, ReportsInv, NEW f \in Flows, flow[f] = "completed",
                      NEW r \in Tasks(f), Input(r) = "good"
               PROVE  Catalogued(Target[r]) /\ Whole(catalog[Target[r]].run)
    BY DEF CompletedFlowsDelivered
  <2>1. r \in Runs /\ FlowOf[r] = f /\ Target[r] \in Items
    BY IngestAssumption DEF Tasks
  <2>2. ReportOf(r)
    BY <2>1 DEF ReportsInv
  <2>3. outcome[r] # NoOutcome /\ outcome[r].status \notin {"skipped", "rejected"}
    BY <2>1, <2>2 DEF ReportOf, TrueOf, Input
  <2>4. outcome[r] \in Outcomes
    BY <2>1, <2>3 DEF BackedInv, TypeInv, IngestTypeOK, TaskTypeOK
  <2>5. Catalogued(Target[r])
    BY <2>2, <2>3, <2>4 DEF ReportOf, TrueOf, Outcomes, Verdicts
  <2>6. QED
    BY <2>1, <2>5 DEF BackedInv, ItemsBacked
<1>4. QED
  BY <1>1, <1>2, <1>3, PTL DEF Spec

-----------------------------------------------------------------------------
(* Retries absorb what can go wrong once.                                   *)

(* Every attempt a task has lost is accounted for by a failed call or by    *)
(* the one race it can lose; after that race the collection is there.       *)
Accounted(r) ==
    /\ races[r] <= 1
    /\ races[r] = 1 => DomainOf[Target[r]] \in collections
    /\ pc[r] = "createCollection" => races[r] = 0
    /\ pc[r] = "putItem" => Catalogued(Target[r])
    /\ ~Cli(r) /\ Input(r) # "broken" =>
         /\ pc[r] = "scheduled" => attempt[r] <= faults[r] + races[r]
         /\ pc[r] \in Active => attempt[r] <= faults[r] + races[r] + 1
         /\ pc[r] = "failed" => Retries < faults[r] + races[r]

AccountsInv == \A r \in Runs : Accounted(r)

LEMMA AccountsInit == Init => AccountsInv
BY DEF Init, IngestInit, AccountsInv, Accounted, Active

(* An attempt that raises has its failure on the account.                   *)
LEMMA RaiseAccounted ==
  ASSUME TypeInv, NEW r \in Runs, Raise(r), input' = input, pc[r] \in Active,
         Accounted(r), races'[r] <= 1, faults'[r] \in Nat, races'[r] \in Nat,
         races'[r] = 1 => DomainOf[Target[r]] \in collections',
         faults'[r] + races'[r] = faults[r] + races[r] + 1
  PROVE  Accounted(r)'
<1> USE DEF TypeInv, IngestTypeOK, TaskTypeOK
<1>1. /\ pc'[r] \in {"scheduled", "failed"}
      /\ pc'[r] = "failed" => Cli(r) \/ ~(attempt[r] <= Retries)
      /\ attempt' = attempt
  BY DEF Raise, Goto
<1>2. /\ attempt[r] \in Nat /\ faults[r] \in Nat /\ races[r] \in Nat
      /\ Retries \in Nat
  BY IngestAssumption
<1>3. ~Cli(r) /\ Input(r) # "broken" => attempt[r] <= faults[r] + races[r] + 1
  BY DEF Accounted
<1>4. QED
  BY <1>1, <1>2, <1>3 DEF Accounted, Input, Cli, Active

LEMMA AccountsStep == TypeInv /\ AccountsInv /\ [Next]_vars => AccountsInv'
<1> SUFFICES ASSUME TypeInv, AccountsInv, [Next]_vars, NEW s \in Runs
             PROVE  Accounted(s)'
  BY DEF AccountsInv
<1> USE DEF TypeInv, IngestTypeOK, TaskTypeOK
<1>1. Accounted(s)
  BY DEF AccountsInv
<1>2. /\ Target[s] \in Items
      /\ Catalogued(Target[s]) => Catalogued(Target[s])'
      /\ DomainOf[Target[s]] \in collections => DomainOf[Target[s]] \in collections'
      /\ attempt[s] \in Nat /\ faults[s] \in Nat /\ races[s] \in Nat
  BY Monotone, IngestAssumption
<1>3. ASSUME NEW r \in Runs, TaskStep(r) \/ TaskFault(r), s # r PROVE Accounted(s)'
  <2>1. input' = input
    BY <1>3 DEF TaskStep, TaskFault
  <2>2. QED
    BY <1>1, <1>2, <1>3, <2>1, TaskFrame DEF Accounted, Input, Cli
<1>4. ASSUME input' = input, UNCHANGED <<attempt, races>>, faults'[s] \in Nat,
             faults[s] <= faults'[s], pc[s] \in Active,
             pc'[s] \in (Active \ {"createCollection", "putItem"}) \cup {"done"}
      PROVE  Accounted(s)'
  BY <1>1, <1>2, <1>4 DEF Accounted, Input, Cli, Active
<1>5. CASE TaskStep(s)
  <2>0. input' = input
    BY <1>5 DEF TaskStep
  <2> USE <2>0
  <2>1. CASE StartAttempt(s)
    BY <1>1, <1>2, <2>1 DEF StartAttempt, MayStart, Accounted, Input, Cli, Active
  <2>2. CASE Validate(s) \/ ProbeItem(s) \/ UploadFile(s) \/ UploadDone(s)
    BY <1>2, <1>4, <2>2 DEF Validate, ProbeItem, UploadFile, UploadDone, Advance, Return,
                            Goto, Active
  <2>3. CASE Transform(s)
    <3>1. CASE Input(s) = "broken" /\ Raise(s) /\ UNCHANGED <<faults, races>>
      BY <1>1, <1>2, <2>3, <3>1 DEF Transform, Raise, Goto, Accounted, Input, Cli, Active
    <3>2. CASE ~(Input(s) = "broken")
      BY <1>2, <1>4, <2>3, <3>2 DEF Transform, Return, Goto, Active
    <3>3. QED
      BY <2>3, <3>1, <3>2 DEF Transform
  <2>4. CASE ProbeCollection(s)
    <3>1. CASE DomainOf[Target[s]] \in collections
      BY <1>2, <1>4, <2>4, <3>1 DEF ProbeCollection, Advance, Goto, Active
    <3>2. CASE DomainOf[Target[s]] \notin collections
      BY <1>1, <1>2, <2>4, <3>2 DEF ProbeCollection, Advance, Goto, Accounted, Active, Input, Cli
    <3>3. QED
      BY <3>1, <3>2
  <2>5. CASE CreateCollection(s)
    <3>1. CASE Advance(s, "postItem")
      BY <1>2, <1>4, <2>5, <3>1 DEF CreateCollection, Advance, Goto, Active
    <3>2. CASE DomainOf[Target[s]] \in collections /\ LoseRace(s)
      <4>1. races[s] = 0 /\ races'[s] = 1 /\ faults' = faults /\ pc[s] \in Active
        BY <1>1, <1>2, <2>5, <3>2 DEF CreateCollection, Accounted, LoseRace, Active
      <4>2. QED
        BY <1>1, <1>2, <3>2, <4>1, RaiseAccounted DEF LoseRace
    <3>3. QED
      BY <2>5, <3>1, <3>2 DEF CreateCollection
  <2>6. CASE PostItem(s)
    <3>1. CASE Catalogued(Target[s]) /\ Advance(s, "putItem")
      BY <1>1, <1>2, <2>6, <3>1 DEF PostItem, Advance, Goto, Accounted, Active, Input, Cli
    <3>2. CASE Return(s, "ingested", Target[s])
      BY <1>2, <1>4, <2>6, <3>2 DEF PostItem, Return, Goto, Active
    <3>3. QED
      BY <2>6, <3>1, <3>2 DEF PostItem
  <2>7. CASE PutItem(s)
    <3>1. Catalogued(Target[s])
      BY <1>1, <2>7 DEF PutItem, Accounted
    <3>2. QED
      BY <1>2, <1>4, <2>7, <3>1 DEF PutItem, Return, Goto, Active
  <2>8. QED
    BY <1>5, <2>1, <2>2, <2>3, <2>4, <2>5, <2>6, <2>7 DEF TaskStep
<1>6. CASE TaskFault(s)
  <2>0. input' = input
    BY <1>6 DEF TaskFault
  <2> USE <2>0
  <2>1. CASE UseCachedResult(s)
    BY <1>1, <1>2, <2>1 DEF UseCachedResult, MayStart, Goto, Accounted, Active, Input, Cli
  <2>2. CASE ProbeItemFails(s)
    BY <1>2, <1>4, <2>2 DEF ProbeItemFails, Goto, Active
  <2>3. CASE CallFails(s) \/ AnswerLost(s)
    <3>1. Fault(s) /\ pc[s] \in Active
      BY <2>3 DEF CallFails, AnswerLost, Active
    <3>2. Raise(s) /\ faults'[s] = faults[s] + 1 /\ races' = races
      BY <1>2, <3>1 DEF Fault
    <3>3. QED
      BY <1>1, <1>2, <3>1, <3>2, RaiseAccounted DEF Accounted
  <2>4. QED
    BY <1>6, <2>1, <2>2, <2>3 DEF TaskFault
<1>7. ASSUME NEW f \in Flows, FlowStep(f) \/ FlowFault(f) PROVE Accounted(s)'
  <2>1. /\ UNCHANGED <<lakeVars, input, attempt, faults, races>>
        /\ pc'[s] = pc[s] \/ pc'[s] = "lost"
    BY <1>7 DEF FlowStep, FlowFault, StartFlow, FetchFails, CompleteFlow, FailFlow,
                CrashFlow, taskVars
  <2>2. QED
    BY <1>1, <2>1 DEF Accounted, Input, Cli, Active, Catalogued, lakeVars
<1>8. CASE UNCHANGED vars
  BY <1>1, <1>8 DEF vars, lakeVars, ingestVars, taskVars, Accounted, Input, Cli, Catalogued
<1>9. QED
  BY <1>3, <1>5, <1>6, <1>7, <1>8 DEF Next, IngestNext

(* A task with a sound file fails for good only after as many failed calls  *)
(* as it has retries, for any number of tasks that compete with it: the     *)
(* race for the collection costs it one attempt and no more.                *)
THEOREM RetriesAlwaysAbsorb == Spec => []RetriesAbsorb
<1>1. Init => TypeInv /\ AccountsInv
  BY TypeInit, AccountsInit
<1>2. TypeInv /\ AccountsInv /\ [Next]_vars => (TypeInv /\ AccountsInv)'
  BY TypeStep, AccountsStep
<1>3. TypeInv /\ AccountsInv => RetriesAbsorb
  <2> SUFFICES ASSUME TypeInv, NEW r \in Runs, Accounted(r), pc[r] = "failed", ~Cli(r),
                      Input(r) # "broken"
               PROVE  faults[r] >= Retries
    BY DEF AccountsInv, RetriesAbsorb
  <2>1. faults[r] \in Nat /\ races[r] \in Nat /\ Retries \in Nat
    BY IngestAssumption DEF TypeInv, IngestTypeOK, TaskTypeOK
  <2>2. QED
    BY <2>1 DEF Accounted
<1>4. QED
  BY <1>1, <1>2, <1>3, PTL DEF Spec

-----------------------------------------------------------------------------
(* Ingest implements Publication, if equal arguments mean equal datasets.   *)

(* The state of Publication, as Ingest has it.                              *)
Completed == {i \in Items : \E r \in Runs : Target[r] = i /\ Whole(r)}
Published == {i \in Items : Catalogued(i)}
VerdictsGiven == [r \in Runs |-> VerdictOf(r)]

(* An attempt uploads the files of its own dataset only.                    *)
TodoInv == \A r \in Runs : todo[r] \subseteq Tree[r]

PublicationInv == BackedInv /\ ReportsInv /\ TodoInv

LEMMA TodoStep ==
  ASSUME TypeInv, TodoInv, [Next]_vars
  PROVE  TodoInv'
<1> SUFFICES ASSUME NEW s \in Runs PROVE todo'[s] \subseteq Tree[s]
  BY DEF TodoInv
<1> USE DEF TypeInv, IngestTypeOK, TaskTypeOK
<1>0. todo[s] \subseteq Tree[s]
  BY DEF TodoInv
<1>1. ASSUME NEW r \in Runs, TaskStep(r) \/ TaskFault(r) PROVE todo'[s] \subseteq Tree[s]
  <2>1. CASE s # r
    BY <1>0, <1>1, <2>1, TaskFrame
  <2>2. CASE s = r
    <3>1. todo'[r] \subseteq todo[r] \/ todo'[r] = Tree[r]
      BY <1>1 DEF TaskStep, TaskFault, StartAttempt, Validate, ProbeItem, Transform, UploadFile,
                  UploadDone, ProbeCollection, CreateCollection, PostItem, PutItem,
                  UseCachedResult, ProbeItemFails, CallFails, AnswerLost,
                  Goto, Advance, Return, Raise, Fault, LoseRace
    <3>2. QED
      BY <1>0, <2>2, <3>1
  <2>3. QED
    BY <2>1, <2>2
<1>2. ASSUME NEW f \in Flows, FlowStep(f) \/ FlowFault(f) PROVE UNCHANGED todo
  BY <1>2 DEF FlowStep, FlowFault, StartFlow, FetchFails, CompleteFlow, FailFlow,
              CrashFlow, taskVars
<1>3. QED
  BY <1>0, <1>1, <1>2 DEF Next, IngestNext, vars, ingestVars, taskVars

-----------------------------------------------------------------------------
(* What a step shows of the stores and the tasks.                           *)

LEMMA StoresStutter ==
  ASSUME UNCHANGED lakeVars
  PROVE  Completed' = Completed /\ Published' = Published
BY DEF Completed, Published, lakeVars, Whole, Stored, Catalogued

LEMMA CompletedStutter == ASSUME UNCHANGED objects PROVE Completed' = Completed
BY DEF Completed, Whole, Stored

LEMMA PublishedStutter == ASSUME UNCHANGED catalog PROVE Published' = Published
BY DEF Published, Catalogued

(* A file that arrives completes the dataset of its task, or none.          *)
LEMMA FileArrives ==
  ASSUME PublicationInv, NEW r \in Runs, NEW k \in todo[r], PutObject(k)
  PROVE  Completed' = Completed \/ Completed' = Completed \cup {Target[r]}
<1>1. k \in Keys /\ FolderOf[k] = PrefixOf[Target[r]] /\ Target[r] \in Items
  BY IngestAssumption DEF PublicationInv, TodoInv
<1>2. \A l \in Keys : Stored(l)' <=> Stored(l) \/ l = k
  BY <1>1 DEF PutObject, Stored, PublicationInv, BackedInv, TypeInv, IngestTypeOK, LakeTypeOK
<1>3. ASSUME NEW s \in Runs, Whole(s) PROVE Whole(s)'
  BY <1>2, <1>3, IngestAssumption DEF Whole
<1>4. ASSUME NEW s \in Runs, Whole(s)', ~Whole(s) PROVE Target[s] = Target[r]
  <2>1. k \in Tree[s]
    BY <1>2, <1>4, IngestAssumption DEF Whole
  <2>2. PrefixOf[Target[s]] = PrefixOf[Target[r]] /\ Target[s] \in Items
    BY <1>1, <2>1, IngestAssumption
  <2>3. QED
    BY <1>1, <2>2, LakeAssumption
<1>5. \A i \in Items : i \in Completed => i \in Completed'
  BY <1>3 DEF Completed
<1>6. \A i \in Items : i \in Completed' => i \in Completed \/ i = Target[r]
  BY <1>4 DEF Completed
<1>7. QED
  BY <1>5, <1>6 DEF Completed

LEMMA ItemArrives ==
  ASSUME PublicationInv, NEW r \in Runs, WriteItem(Target[r], BuildItem(r))
  PROVE  Published' = Published \cup {Target[r]}
BY BuildItemType, LakeAssumption, IngestAssumption
   DEF WriteItem, Published, Catalogued, PublicationInv, BackedInv, TypeInv, IngestTypeOK, LakeTypeOK

(* The verdict of a task, by where the task is.                             *)
LEMMA VerdictIs ==
  ASSUME PublicationInv, NEW r \in Runs
  PROVE  /\ pc[r] \in {"failed", "lost"} => VerdictOf(r) = "failed"
         /\ pc[r] \in Active \cup {"scheduled"} => VerdictOf(r) = "pending"
         /\ pc[r] = "done" => VerdictOf(r) \in {"catalogued", "declined"}
         /\ VerdictOf(r) = "pending" => pc[r] \in Active \cup {"scheduled"}
<1>1. pc[r] \in Active \cup {"scheduled", "done", "failed", "lost"}
  BY DEF PublicationInv, BackedInv, TypeInv, IngestTypeOK, TaskTypeOK
<1>2. pc[r] = "done" => outcome[r].status \in Verdicts
  BY DEF PublicationInv, BackedInv, TypeInv, IngestTypeOK, TaskTypeOK, ReportsInv, ReportOf, Outcomes
<1>3. QED
  BY <1>1, <1>2 DEF VerdictOf, Active, Verdicts

LEMMA VerdictsFrame ==
  ASSUME TypeInv, NEW r \in Runs, TaskStep(r) \/ TaskFault(r)
  PROVE  /\ VerdictOf(r)' = VerdictOf(r) => VerdictsGiven' = VerdictsGiven
         /\ VerdictsGiven' = [VerdictsGiven EXCEPT ![r] = VerdictOf(r)']
<1>1. \A s \in Runs : s # r => VerdictOf(s)' = VerdictOf(s)
  BY TaskFrame DEF VerdictOf
<1>2. QED
  BY <1>1 DEF VerdictsGiven

-----------------------------------------------------------------------------
(* The steps of Publication, in these terms.                                *)

LEMMA AsStutter ==
  ASSUME Completed' = Completed, Published' = Published, VerdictsGiven' = VerdictsGiven
  PROVE  UNCHANGED Promise!vars
BY DEF Promise!vars, Completed, Published, VerdictsGiven

LEMMA AsComplete ==
  ASSUME NEW i \in Items, Completed' = Completed \cup {i}, Published' = Published,
         VerdictsGiven' = VerdictsGiven
  PROVE  Promise!Next
<1>1. Promise!Complete(i)
  BY DEF Promise!Complete, Completed, Published, VerdictsGiven
<1>2. QED
  BY <1>1 DEF Promise!Next

LEMMA AsPublish ==
  ASSUME NEW r \in Runs, Target[r] \in Completed, Completed' = Completed,
         Published' = Published \cup {Target[r]},
         \/ VerdictsGiven' = VerdictsGiven
         \/ /\ VerdictsGiven[r] = "pending"
            /\ \E v \in {"catalogued", "failed"} :
                 VerdictsGiven' = [VerdictsGiven EXCEPT ![r] = v]
  PROVE  Promise!Next
<1>1. Promise!Publish(r)
  BY DEF Promise!Publish, Promise!Report, Completed, Published, VerdictsGiven
<1>2. QED
  BY <1>1 DEF Promise!Next

LEMMA AsVerdict ==
  ASSUME NEW r \in Runs, Completed' = Completed, Published' = Published,
         VerdictsGiven[r] = "pending", NEW v,
         VerdictsGiven' = [VerdictsGiven EXCEPT ![r] = v],
         v = "declined" \/ (v = "catalogued" /\ Target[r] \in Published)
  PROVE  Promise!Next
<1>1. Promise!Confirm(r) \/ Promise!Decline(r)
  BY DEF Promise!Confirm, Promise!Decline, Promise!Report, Completed, Published, VerdictsGiven
<1>2. QED
  BY <1>1 DEF Promise!Next

LEMMA AsGiveUp ==
  ASSUME NEW S \in SUBSET Runs, \A r \in S : VerdictsGiven[r] = "pending",
         VerdictsGiven' = [r \in Runs |-> IF r \in S THEN "failed" ELSE VerdictsGiven[r]],
         NEW T \in SUBSET {Target[r] : r \in S}, Completed' = Completed \cup T,
         Published' = Published
  PROVE  Promise!Next
<1>1. Promise!GiveUp(S)
  BY DEF Promise!GiveUp, Completed, Published, VerdictsGiven
<1>2. QED
  BY <1>1 DEF Promise!Next

Shown == Promise!Next \/ UNCHANGED Promise!vars

(* Only a task that is scheduled or at work does anything.                  *)
LEMMA OnlyAtWork ==
  ASSUME PublicationInv, NEW r \in Runs, TaskStep(r) \/ TaskFault(r)
  PROVE  /\ pc[r] \in Active \cup {"scheduled"}
         /\ VerdictOf(r) = "pending" /\ VerdictsGiven[r] = "pending"
<1>1. pc[r] \in Active \cup {"scheduled"}
  BY DEF Active, TaskStep, TaskFault, StartAttempt, MayStart, Validate, ProbeItem, Transform,
     UploadFile, UploadDone, ProbeCollection, CreateCollection, PostItem, PutItem,
     UseCachedResult, ProbeItemFails, CallFails, AnswerLost
<1>2. QED
  BY <1>1, VerdictIs DEF VerdictsGiven

(* The verdict that is given with a state and an outcome.                   *)
LEMMA VerdictNext ==
  ASSUME NEW r \in Runs
  PROVE  /\ pc'[r] \in Active \cup {"scheduled"} => VerdictOf(r)' = "pending"
         /\ pc'[r] = "failed" => VerdictOf(r)' = "failed"
         /\ pc'[r] = "done" /\ outcome'[r].status \in {"ingested", "already"}
              => VerdictOf(r)' = "catalogued"
         /\ pc'[r] = "done" /\ outcome'[r].status \in {"skipped", "rejected"}
              => VerdictOf(r)' = "declined"
BY DEF VerdictOf, Active

(* The task goes on, or gives up; readers see nothing of it.                *)
LEMMA TaskGoesOn ==
  ASSUME PublicationInv, NEW r \in Runs, TaskStep(r) \/ TaskFault(r),
         pc'[r] \in Active \cup {"scheduled", "failed"}, UNCHANGED catalog,
         Completed' = Completed \/ Completed' = Completed \cup {Target[r]}
  PROVE  Shown
<1>1. VerdictOf(r) = "pending" /\ VerdictsGiven[r] = "pending"
  BY OnlyAtWork
<1>2. Published' = Published /\ Target[r] \in Items
  BY PublishedStutter, IngestAssumption
<1>3. CASE pc'[r] \in Active \cup {"scheduled"}
  <2>1. VerdictsGiven' = VerdictsGiven
    BY <1>1, <1>3, VerdictNext, VerdictsFrame DEF PublicationInv, BackedInv
  <2>2. QED
    BY <1>2, <2>1, AsStutter, AsComplete DEF Shown
<1>4. CASE pc'[r] = "failed"
  <2>1. VerdictsGiven' = [VerdictsGiven EXCEPT ![r] = "failed"]
    BY <1>4, VerdictNext, VerdictsFrame DEF PublicationInv, BackedInv
  <2>2. VerdictsGiven' = [s \in Runs |-> IF s \in {r} THEN "failed" ELSE VerdictsGiven[s]]
    BY <2>1 DEF VerdictsGiven
  <2>3. PICK T \in {{}, {Target[r]}} : Completed' = Completed \cup T
    OBVIOUS
  <2>4. T \in SUBSET {Target[s] : s \in {r}} /\ {r} \in SUBSET Runs
    BY <2>3
  <2>5. Promise!Next
    BY <1>1, <1>2, <2>2, <2>3, <2>4, AsGiveUp
  <2>6. QED
    BY <2>5 DEF Shown
<1>5. QED
  BY <1>3, <1>4

(* The task ends with a verdict that changes nothing else.                  *)
LEMMA TaskReports ==
  ASSUME PublicationInv, NEW r \in Runs, TaskStep(r) \/ TaskFault(r),
         pc'[r] = "done", UNCHANGED lakeVars,
         \/ outcome'[r].status \in {"skipped", "rejected"}
         \/ outcome'[r].status \in {"ingested", "already"} /\ Catalogued(Target[r])
  PROVE  Shown
<1>1. VerdictsGiven[r] = "pending"
  BY OnlyAtWork
<1>2. Published' = Published /\ Completed' = Completed /\ Target[r] \in Items
  BY StoresStutter, IngestAssumption
<1>3. VerdictsGiven' = [VerdictsGiven EXCEPT ![r] = VerdictOf(r)']
  BY VerdictsFrame DEF PublicationInv, BackedInv
<1>4. \/ VerdictOf(r)' = "declined"
      \/ VerdictOf(r)' = "catalogued" /\ Target[r] \in Published
  BY <1>2, VerdictNext DEF Published
<1>5. Promise!Next
  BY <1>1, <1>2, <1>3, <1>4, AsVerdict
<1>6. QED
  BY <1>5 DEF Shown

(* The item is posted, and whatever becomes of the task it was complete.    *)
LEMMA TaskPublishes ==
  ASSUME PublicationInv, NEW r \in Runs, TaskStep(r) \/ TaskFault(r),
         pc[r] \in {"postItem", "putItem"}, WriteItem(Target[r], BuildItem(r)),
         UNCHANGED objects,
         \/ pc'[r] \in {"scheduled", "failed"}
         \/ pc'[r] = "done" /\ outcome'[r].status = "ingested"
  PROVE  Shown
<1>1. VerdictOf(r) = "pending" /\ VerdictsGiven[r] = "pending"
  BY OnlyAtWork
<1>2. Target[r] \in Completed
  BY IngestAssumption DEF Completed, PublicationInv, BackedInv, UploadsKept, UploadKept
<1>3. Completed' = Completed /\ Published' = Published \cup {Target[r]}
  BY CompletedStutter, ItemArrives
<1>4. VerdictOf(r)' \in {"pending", "failed", "catalogued"}
  BY VerdictNext
<1>5. \/ VerdictsGiven' = VerdictsGiven
      \/ \E v \in {"catalogued", "failed"} : VerdictsGiven' = [VerdictsGiven EXCEPT ![r] = v]
  BY <1>1, <1>4, VerdictsFrame DEF PublicationInv, BackedInv
<1>6. Promise!Next
  BY <1>1, <1>2, <1>3, <1>5, AsPublish
<1>7. QED
  BY <1>6 DEF Shown

LEMMA ReturnShows ==
  ASSUME PublicationInv, NEW r \in Runs, NEW status, NEW item, Return(r, status, item)
  PROVE  pc'[r] = "done" /\ outcome'[r].status = status
BY DEF Return, Goto, PublicationInv, BackedInv, TypeInv, IngestTypeOK, TaskTypeOK

LEMMA MovesShow ==
  ASSUME PublicationInv, NEW r \in Runs
  PROVE  /\ \A label : Advance(r, label) \/ Goto(r, label) => pc'[r] = label
         /\ Raise(r) => pc'[r] \in {"scheduled", "failed"}
BY DEF Advance, Goto, Raise, PublicationInv, BackedInv, TypeInv, IngestTypeOK, TaskTypeOK

(* What a reader sees of the steps of a task.                               *)
LEMMA TaskStepShown ==
  ASSUME PublicationInv, NEW r \in Runs, TaskStep(r)
  PROVE  Shown
<1>1. CASE StartAttempt(r) \/ UploadDone(r) \/ ProbeCollection(r)
  <2>1. UNCHANGED lakeVars
    BY <1>1 DEF StartAttempt, UploadDone, ProbeCollection
  <2>2. pc'[r] \in Active
    BY <1>1, MovesShow DEF StartAttempt, UploadDone, ProbeCollection, Goto, Active
  <2>3. QED
    BY <2>1, <2>2, TaskGoesOn, StoresStutter DEF lakeVars
<1>2. CASE Validate(r)
  <2>1. \/ Return(r, "skipped", NoItem) \/ Return(r, "rejected", NoItem)
        \/ Advance(r, "probeItem")
    BY <1>2 DEF Validate
  <2>2. UNCHANGED lakeVars
    BY <1>2 DEF Validate
  <2>3. QED
    BY <2>1, <2>2, ReturnShows, MovesShow, TaskReports, TaskGoesOn, StoresStutter
       DEF lakeVars, Active
<1>3. CASE ProbeItem(r)
  <2>1. \/ Catalogued(Target[r]) /\ Return(r, "already", Target[r])
        \/ Advance(r, "transform")
    BY <1>3 DEF ProbeItem
  <2>2. UNCHANGED lakeVars
    BY <1>3 DEF ProbeItem
  <2>3. QED
    BY <2>1, <2>2, ReturnShows, MovesShow, TaskReports, TaskGoesOn, StoresStutter
       DEF lakeVars, Active
<1>4. CASE Transform(r)
  <2>1. \/ Return(r, "skipped", Target[r]) \/ Return(r, "rejected", Target[r])
        \/ Raise(r) \/ Goto(r, "upload")
    BY <1>4 DEF Transform
  <2>2. UNCHANGED lakeVars
    BY <1>4 DEF Transform
  <2>3. QED
    BY <2>1, <2>2, ReturnShows, MovesShow, TaskReports, TaskGoesOn, StoresStutter
       DEF lakeVars, Active
<1>5. CASE UploadFile(r)
  <2>1. PICK k \in todo[r] : PutObject(k)
    BY <1>5 DEF UploadFile
  <2>2. pc'[r] \in Active /\ UNCHANGED catalog
    BY <1>5 DEF UploadFile, Active
  <2>3. QED
    BY <2>1, <2>2, FileArrives, TaskGoesOn
<1>6. CASE CreateCollection(r)
  <2>1. UNCHANGED <<catalog, objects>> /\ (Advance(r, "postItem") \/ Raise(r))
    BY <1>6 DEF CreateCollection, LoseRace
  <2>2. QED
    BY <2>1, MovesShow, TaskGoesOn, CompletedStutter DEF Active
<1>7. CASE PostItem(r) \/ PutItem(r)
  <2>1. \/ UNCHANGED catalog /\ (Advance(r, "putItem") \/ Raise(r))
        \/ WriteItem(Target[r], BuildItem(r)) /\ Return(r, "ingested", Target[r])
    BY <1>7 DEF PostItem, PutItem, LoseRace
  <2>2. UNCHANGED objects /\ pc[r] \in {"postItem", "putItem"}
    BY <1>7 DEF PostItem, PutItem
  <2>3. QED
    BY <2>1, <2>2, ReturnShows, MovesShow, TaskGoesOn, TaskPublishes, CompletedStutter DEF Active
<1>8. QED
  BY <1>1, <1>2, <1>3, <1>4, <1>5, <1>6, <1>7 DEF TaskStep

LEMMA TaskFaultShown ==
  ASSUME PublicationInv, NEW r \in Runs, TaskFault(r)
  PROVE  Shown
<1>1. CASE UseCachedResult(r)
  <2>1. /\ pc'[r] = "done" /\ outcome'[r] = cache[CacheKey[r]] /\ UNCHANGED lakeVars
        /\ cache[CacheKey[r]] \in Outcomes
    BY <1>1, IngestAssumption
       DEF UseCachedResult, Goto, PublicationInv, BackedInv, TypeInv, IngestTypeOK, TaskTypeOK
  <2>2. /\ outcome'[r].status \in Verdicts
        /\ outcome'[r].status \in {"ingested", "already"} => Catalogued(Target[r])
    BY <2>1 DEF PublicationInv, ReportsInv, ReportOf, TrueOf, Outcomes
  <2>3. QED
    BY <2>1, <2>2, TaskReports DEF Verdicts
<1>2. CASE ProbeItemFails(r)
  <2>1. pc'[r] \in Active /\ UNCHANGED lakeVars
    BY <1>2, MovesShow DEF ProbeItemFails, Active
  <2>2. QED
    BY <2>1, TaskGoesOn, StoresStutter DEF lakeVars
<1>3. CASE CallFails(r)
  <2>1. pc'[r] \in {"scheduled", "failed"} /\ UNCHANGED lakeVars
    BY <1>3, MovesShow DEF CallFails, Fault
  <2>2. QED
    BY <2>1, TaskGoesOn, StoresStutter DEF lakeVars
<1>4. CASE AnswerLost(r)
  <2>1. pc'[r] \in {"scheduled", "failed"}
    BY <1>4, MovesShow DEF AnswerLost, Fault
  <2>2. \/ UNCHANGED catalog /\ \E k \in todo[r] : PutObject(k)
        \/ UNCHANGED <<catalog, objects>>
        \/ /\ WriteItem(Target[r], BuildItem(r)) /\ UNCHANGED objects
           /\ pc[r] \in {"postItem", "putItem"}
    BY <1>4 DEF AnswerLost
  <2>3. QED
    BY <2>1, <2>2, FileArrives, CompletedStutter, TaskGoesOn, TaskPublishes
<1>5. QED
  BY <1>1, <1>2, <1>3, <1>4 DEF TaskFault

(* A flow that ends shows nothing; one that dies takes its tasks with it.   *)
LEMMA FlowShown ==
  ASSUME PublicationInv, NEW f \in Flows, FlowStep(f) \/ FlowFault(f)
  PROVE  Shown
<1>1. UNCHANGED lakeVars /\ UNCHANGED outcome
  BY DEF FlowStep, FlowFault, StartFlow, FetchFails, CompleteFlow, FailFlow, CrashFlow, taskVars
<1>2. Published' = Published /\ Completed' = Completed
  BY <1>1, StoresStutter
<1>3. CASE UNCHANGED pc
  <2>1. VerdictsGiven' = VerdictsGiven
    BY <1>1, <1>3 DEF VerdictsGiven, VerdictOf
  <2>2. QED
    BY <1>2, <2>1, AsStutter DEF Shown
<1>4. CASE pc' = [r \in Runs |-> IF r \in Tasks(f) /\ pc[r] \notin {"done", "failed"}
                                 THEN "lost" ELSE pc[r]]
  <2> DEFINE S == {r \in Tasks(f) : pc[r] \notin {"done", "failed", "lost"}}
  <2>1. S \in SUBSET Runs
    BY DEF Tasks
  <2>2. ASSUME NEW r \in Runs
        PROVE  VerdictOf(r)' = IF r \in S THEN "failed" ELSE VerdictsGiven[r]
    <3>1. CASE r \in S
      BY <1>4, <3>1 DEF VerdictOf
    <3>2. CASE r \notin S
      BY <1>1, <1>4, <3>2 DEF VerdictOf, VerdictsGiven
    <3>3. QED
      BY <3>1, <3>2
  <2>3. \A r \in S : VerdictsGiven[r] = "pending"
    BY <2>1 DEF VerdictsGiven, VerdictOf
  <2> HIDE DEF S
  <2>4. VerdictsGiven' = [r \in Runs |-> IF r \in S THEN "failed" ELSE VerdictsGiven[r]]
    BY <2>2 DEF VerdictsGiven
  <2>5. {} \in SUBSET {Target[r] : r \in S} /\ Completed' = Completed \cup {}
    BY <1>2
  <2>6. Promise!Next
    BY <1>2, <2>1, <2>3, <2>4, <2>5, AsGiveUp
  <2>7. QED
    BY <2>6 DEF Shown
<1>5. QED
  BY <1>3, <1>4 DEF FlowStep, FlowFault, StartFlow, FetchFails, CompleteFlow, FailFlow,
                    CrashFlow, taskVars

LEMMA InitShown == Init => Promise!Init
<1> SUFFICES ASSUME Init PROVE Promise!Init
  OBVIOUS
<1>1. \A r \in Runs : VerdictOf(r) = "pending"
  BY DEF Init, IngestInit, VerdictOf
<1>2. \A i \in Items : ~Catalogued(i)
  BY DEF Init, Catalogued
<1>3. \A r \in Runs : ~Whole(r)
  BY IngestAssumption DEF Init, Whole, Stored
<1>4. QED
  BY <1>1, <1>2, <1>3 DEF Promise!Init

(* Ingest implements Publication: tasks, retries, races, lost answers and   *)
(* crashes are steps that no reader sees, except the one that publishes a   *)
(* complete dataset and the one that gives a true verdict.                  *)
THEOREM AlwaysPublishesAtomically == PathsNameContent => (Spec => PublishesAtomically)
<1> SUFFICES ASSUME PathsNameContent PROVE Spec => PublishesAtomically
  OBVIOUS
<1>1. Init => PublicationInv
  BY BackedInit, ReportsInit DEF PublicationInv, TodoInv, Init, IngestInit
<1>2. PublicationInv /\ [Next]_vars => PublicationInv'
  BY TypeStep, UploadsStep, BackedStep, ReportsStep, TodoStep DEF PublicationInv, BackedInv
<1>3. PublicationInv /\ [Next]_vars => [Promise!Next]_(Promise!vars)
  <2> SUFFICES ASSUME PublicationInv, [Next]_vars PROVE Shown
    BY DEF Shown
  <2>1. CASE UNCHANGED vars
    <3>1. VerdictsGiven' = VerdictsGiven
      BY <2>1 DEF vars, ingestVars, taskVars, VerdictsGiven, VerdictOf
    <3>2. QED
      BY <2>1, <3>1, StoresStutter, AsStutter DEF vars, Shown
  <2>2. QED
    BY <2>1, TaskStepShown, TaskFaultShown, FlowShown DEF Next, IngestNext
<1>4. QED
  BY <1>1, <1>2, <1>3, InitShown, PTL DEF Spec, PublishesAtomically, Promise!Spec

-----------------------------------------------------------------------------
(* That flows end.  An attempt that is thrown back stays in the round it is *)
(* in; only the next attempt opens a new one, and those are numbered.       *)

TaskStage(label) ==
    CASE label = "validate" -> 9
      [] label = "probeItem" -> 8
      [] label = "transform" -> 7
      [] label = "upload" -> 6
      [] label = "probeCollection" -> 5
      [] label = "createCollection" -> 4
      [] label = "postItem" -> 3
      [] label = "putItem" -> 2
      [] label = "scheduled" -> 1
      [] OTHER -> 0

FlowStage(f) ==
    CASE flow[f] = "pending" -> 3
      [] flow[f] = "running" -> 2
      [] flow[f] \in {"completed", "failed"} -> 1
      [] OTHER -> 0

TaskRank(r) == <<Retries + 1 - attempt[r], TaskStage(pc[r]), Cardinality(todo[r])>>

Ranked(r) ==
    /\ Retries + 1 - attempt[r] \in Nat
    /\ TaskStage(pc[r]) \in Nat
    /\ IsFiniteSet(todo[r]) /\ Cardinality(todo[r]) \in Nat

LEMMA TasksRanked ==
  ASSUME IsFiniteSet(Keys), TypeInv, NEW r \in Runs
  PROVE  Ranked(r)
<1>1. todo[r] \in SUBSET Keys /\ attempt[r] \in 0 .. Retries + 1 /\ Retries \in Nat
  BY IngestAssumption DEF TypeInv, IngestTypeOK, TaskTypeOK
<1>2. IsFiniteSet(todo[r])
  BY <1>1, FS_Subset
<1>3. TaskStage(pc[r]) \in Nat
  BY DEF TaskStage
<1>4. QED
  BY <1>1, <1>2, <1>3, FS_CardinalityType DEF Ranked

(* What a task does, or is done to it, opens its next attempt, leads it     *)
(* closer to the end of the one it is in, or uploads a file.                *)
LEMMA TaskChanges ==
  ASSUME TypeInv, NEW r \in Runs, TaskStep(r) \/ TaskFault(r)
  PROVE  \/ attempt'[r] = attempt[r] + 1
         \/ attempt'[r] = attempt[r] /\ TaskStage(pc'[r]) < TaskStage(pc[r])
         \/ /\ attempt'[r] = attempt[r] /\ pc'[r] = pc[r]
            /\ \E k \in todo[r] : todo'[r] = todo[r] \ {k}
<1> USE DEF TypeInv, IngestTypeOK, TaskTypeOK
<1>1. CASE StartAttempt(r)
  <2>1. attempt'[r] = attempt[r] + 1
    BY <1>1 DEF StartAttempt
  <2>2. QED
    BY <2>1
<1>2. CASE UploadFile(r)
  <2>1. attempt'[r] = attempt[r] /\ pc'[r] = pc[r]
    BY <1>2 DEF UploadFile
  <2>2. \E k \in todo[r] : todo'[r] = todo[r] \ {k}
    BY <1>2 DEF UploadFile
  <2>3. QED
    BY <2>1, <2>2
<1>3. ASSUME pc[r] \in Active, pc'[r] \in {"scheduled", "failed", "done"}
      PROVE  TaskStage(pc'[r]) < TaskStage(pc[r])
  BY <1>3 DEF Active, TaskStage
<1>4. CASE \/ Validate(r) \/ ProbeItem(r) \/ Transform(r) \/ UploadDone(r) \/ ProbeCollection(r)
           \/ CreateCollection(r) \/ PostItem(r) \/ PutItem(r)
  <2> USE DEF Goto, Advance, Return, Raise, LoseRace
  <2>1. attempt'[r] = attempt[r]
    BY <1>4 DEF Validate, ProbeItem, Transform, UploadDone, ProbeCollection,
                CreateCollection, PostItem, PutItem
  <2>2. TaskStage(pc'[r]) < TaskStage(pc[r])
    <3>1. CASE Validate(r)
      <4>1. pc[r] = "validate" /\ pc'[r] \in {"done", "probeItem"}
        BY <3>1 DEF Validate
      <4>2. QED
        BY <4>1 DEF TaskStage
    <3>2. CASE ProbeItem(r)
      <4>1. pc[r] = "probeItem" /\ pc'[r] \in {"done", "transform"}
        BY <3>2 DEF ProbeItem
      <4>2. QED
        BY <4>1 DEF TaskStage
    <3>3. CASE Transform(r)
      <4>1. pc[r] = "transform" /\ pc'[r] \in {"done", "scheduled", "failed", "upload"}
        BY <3>3 DEF Transform
      <4>2. QED
        BY <4>1 DEF TaskStage
    <3>4. CASE UploadDone(r)
      <4>1. pc[r] = "upload" /\ pc'[r] = "probeCollection"
        BY <3>4 DEF UploadDone
      <4>2. QED
        BY <4>1 DEF TaskStage
    <3>5. CASE ProbeCollection(r)
      <4>1. pc[r] = "probeCollection" /\ pc'[r] \in {"postItem", "createCollection"}
        BY <3>5 DEF ProbeCollection
      <4>2. QED
        BY <4>1 DEF TaskStage
    <3>6. CASE CreateCollection(r)
      <4>1. pc[r] = "createCollection" /\ pc'[r] \in {"postItem", "scheduled", "failed"}
        BY <3>6 DEF CreateCollection
      <4>2. QED
        BY <4>1 DEF TaskStage
    <3>7. CASE PostItem(r)
      <4>1. pc[r] = "postItem" /\ pc'[r] \in {"putItem", "done"}
        BY <3>7 DEF PostItem
      <4>2. QED
        BY <4>1 DEF TaskStage
    <3>8. CASE PutItem(r)
      <4>1. pc[r] = "putItem" /\ pc'[r] \in {"done", "scheduled", "failed"}
        BY <3>8 DEF PutItem
      <4>2. QED
        BY <4>1 DEF TaskStage
    <3>9. QED
      BY <1>4, <3>1, <3>2, <3>3, <3>4, <3>5, <3>6, <3>7, <3>8
  <2>3. QED
    BY <2>1, <2>2
<1>5. CASE TaskFault(r)
  <2> USE DEF Goto, Raise, Fault
  <2>1. attempt'[r] = attempt[r]
    BY <1>5 DEF TaskFault, UseCachedResult, ProbeItemFails, CallFails, AnswerLost
  <2>2. \/ pc[r] = "scheduled" /\ pc'[r] = "done"
        \/ pc[r] = "probeItem" /\ pc'[r] = "transform"
        \/ pc[r] \in Active /\ pc'[r] \in {"scheduled", "failed"}
    BY <1>5 DEF TaskFault, UseCachedResult, MayStart, ProbeItemFails, CallFails, AnswerLost, Active
  <2>3. QED
    BY <1>3, <2>1, <2>2 DEF TaskStage
<1>6. QED
  BY <1>1, <1>2, <1>4, <1>5 DEF TaskStep

TaskDescends(r) == <<TaskRank(r)', TaskRank(r)>> \in Lower(3)

LEMMA TaskGoesDown ==
  ASSUME TypeInv, NEW r \in Runs, TaskStep(r) \/ TaskFault(r), Ranked(r), Ranked(r)'
  PROVE  TaskDescends(r)
<1> DEFINE a == Retries + 1 - attempt[r]
           b == Retries + 1 - attempt'[r]
<1>1. /\ a \in Nat /\ b \in Nat
      /\ TaskStage(pc[r]) \in Nat /\ TaskStage(pc'[r]) \in Nat
      /\ IsFiniteSet(todo[r]) /\ Cardinality(todo[r]) \in Nat /\ Cardinality(todo'[r]) \in Nat
  BY DEF Ranked, TaskStage
<1>2. Retries \in Nat /\ attempt[r] \in Nat
  BY IngestAssumption DEF TypeInv, IngestTypeOK, TaskTypeOK
<1>3. \/ b < a
      \/ /\ b = a
         /\ \/ TaskStage(pc'[r]) < TaskStage(pc[r])
            \/ /\ TaskStage(pc'[r]) = TaskStage(pc[r])
               /\ Cardinality(todo'[r]) < Cardinality(todo[r])
  <2>1. CASE attempt'[r] = attempt[r] + 1
    BY <1>2, <2>1
  <2>2. CASE attempt'[r] = attempt[r] /\ TaskStage(pc'[r]) < TaskStage(pc[r])
    BY <2>2
  <2>3. CASE /\ attempt'[r] = attempt[r] /\ pc'[r] = pc[r]
             /\ \E k \in todo[r] : todo'[r] = todo[r] \ {k}
    <3>1. PICK k \in todo[r] : todo'[r] = todo[r] \ {k}
      BY <2>3
    <3>2. Cardinality(todo'[r]) < Cardinality(todo[r])
      BY <1>1, <3>1, OneLess
    <3>3. QED
      BY <2>3, <3>2
  <2>4. QED
    BY <2>1, <2>2, <2>3, TaskChanges
<1> HIDE DEF a, b
<1>4. << <<b, TaskStage(pc'[r]), Cardinality(todo'[r])>>,
         <<a, TaskStage(pc[r]), Cardinality(todo[r])>> >> \in Lower(3)
  BY <1>1, <1>3, Lower3, Zenon
<1>5. QED
  BY <1>4 DEF TaskDescends, TaskRank, a, b, TaskStage

(* A flow goes down only, and takes its tasks with it when it crashes.      *)
LEMMA FlowGoesDown ==
  ASSUME TypeInv, NEW f \in Flows, FlowStep(f) \/ FlowFault(f), \A r \in Runs : Ranked(r)
  PROVE  /\ FlowStage(f)' < FlowStage(f)
         /\ \A g \in Flows \ {f} : flow'[g] = flow[g]
         /\ \A r \in Runs : TaskRank(r)' = TaskRank(r) \/ TaskDescends(r)
<1> USE DEF TypeInv, IngestTypeOK, TaskTypeOK
<1>1. /\ \/ flow[f] = "pending" /\ flow'[f] \in {"running", "failed"}
         \/ flow[f] = "running" /\ flow'[f] \in {"completed", "failed", "crashed"}
         \/ flow[f] = "failed" /\ flow'[f] = "crashed"
      /\ \A g \in Flows \ {f} : flow'[g] = flow[g]
  BY DEF FlowStep, FlowFault, StartFlow, FetchFails, CompleteFlow, FailFlow, CrashFlow
<1>2. FlowStage(f)' < FlowStage(f)
  BY <1>1 DEF FlowStage
<1>3. ASSUME NEW r \in Runs PROVE TaskRank(r)' = TaskRank(r) \/ TaskDescends(r)
  <2>1. /\ attempt'[r] = attempt[r] /\ todo'[r] = todo[r]
        /\ pc'[r] = pc[r] \/ (pc'[r] = "lost" /\ pc[r] \notin {"done", "failed"})
    BY DEF FlowStep, FlowFault, StartFlow, FetchFails, CompleteFlow, FailFlow, CrashFlow, taskVars
  <2>2. CASE pc'[r] = pc[r]
    BY <2>1, <2>2 DEF TaskRank, TaskStage
  <2>3. CASE pc'[r] = "lost" /\ pc[r] \notin {"done", "failed", "lost"}
    <3>1. pc[r] \in Active \cup {"scheduled"}
      BY <2>3
    <3>2. TaskStage("lost") < TaskStage(pc[r]) /\ TaskStage("lost") \in Nat
      BY <3>1 DEF TaskStage, Active
    <3> DEFINE a == Retries + 1 - attempt[r]
               c == Cardinality(todo[r])
    <3>3. a \in Nat /\ c \in Nat /\ TaskStage(pc[r]) \in Nat
      BY DEF Ranked
    <3> HIDE DEF a, c
    <3>4. << <<a, TaskStage("lost"), c>>, <<a, TaskStage(pc[r]), c>> >> \in Lower(3)
      BY <3>2, <3>3, Lower3, Zenon
    <3>5. QED
      BY <2>1, <2>3, <3>4 DEF TaskDescends, TaskRank, a, c, TaskStage
  <2>4. QED
    BY <2>1, <2>2, <2>3
<1>4. QED
  BY <1>1, <1>2, <1>3

(* Some task or flow goes down, and none goes up.                           *)
IngestDescends ==
    /\ \A r \in Runs : TaskRank(r)' = TaskRank(r) \/ TaskDescends(r)
    /\ \A f \in Flows : FlowStage(f)' = FlowStage(f) \/ FlowStage(f)' < FlowStage(f)
    /\ \/ \E r \in Runs : TaskDescends(r)
       \/ \E f \in Flows : FlowStage(f)' < FlowStage(f)

(* Retries end: whatever happens, a failed call, a lost race and a crash    *)
(* included, lowers the rank of a task or of a flow and raises none, so     *)
(* that no flow goes on for ever, however its tasks get in each other's way.*)
THEOREM IngestAlwaysDescends == IsFiniteSet(Keys) => (Spec => [][IngestDescends]_vars)
<1> SUFFICES ASSUME IsFiniteSet(Keys) PROVE Spec => [][IngestDescends]_vars
  OBVIOUS
<1> DEFINE AllRanked == \A r \in Runs : Ranked(r)
<1>1. ASSUME TypeInv, AllRanked, AllRanked', IngestNext PROVE IngestDescends
  <2>1. ASSUME NEW r \in Runs, TaskStep(r) \/ TaskFault(r) PROVE IngestDescends
    <3>1. TaskDescends(r)
      BY <1>1, <2>1, TaskGoesDown
    <3>2. ASSUME NEW s \in Runs, s # r PROVE TaskRank(s)' = TaskRank(s)
      BY <1>1, <2>1, <3>2, TaskFrame DEF TaskRank, TaskStage
    <3>3. flow' = flow
      BY <2>1 DEF TaskStep, TaskFault
    <3>4. \A f \in Flows : FlowStage(f)' = FlowStage(f)
      BY <3>3 DEF FlowStage
    <3>5. QED
      BY <3>1, <3>2, <3>4, Zenon DEF IngestDescends
  <2>2. ASSUME NEW f \in Flows, FlowStep(f) \/ FlowFault(f) PROVE IngestDescends
    <3>1. /\ FlowStage(f)' < FlowStage(f)
          /\ \A g \in Flows \ {f} : flow'[g] = flow[g]
          /\ \A r \in Runs : TaskRank(r)' = TaskRank(r) \/ TaskDescends(r)
      BY <1>1, <2>2, FlowGoesDown
    <3>2. \A g \in Flows \ {f} : FlowStage(g)' = FlowStage(g)
      BY <3>1 DEF FlowStage
    <3>3. QED
      BY <3>1, <3>2, Zenon DEF IngestDescends
  <2>3. QED
    BY <1>1, <2>1, <2>2 DEF IngestNext
<1>2. TypeInv => AllRanked
  BY TasksRanked
<1> HIDE DEF AllRanked
<1>3. TypeInv /\ AllRanked /\ AllRanked' /\ [Next]_vars => [IngestDescends]_vars
  BY <1>1 DEF Next
<1>4. QED
  BY <1>2, <1>3, TypeInit, TypeStep, PTL DEF Spec

-----------------------------------------------------------------------------
(* That no flow is stuck while it runs.                                     *)

(* A file that was refused gets no further, and a task is lost only with    *)
(* its flow.                                                                *)
OnItsWay(r) ==
    /\ pc[r] \in {"probeItem", "transform"} => Input(r) \notin {"invalid", "noLaspy"}
    /\ pc[r] = "lost" => flow[FlowOf[r]] = "crashed"

WayInv == \A r \in Runs : OnItsWay(r)

LEMMA WayStep == TypeInv /\ WayInv /\ [Next]_vars => WayInv'
<1> SUFFICES ASSUME TypeInv, WayInv, [Next]_vars, NEW s \in Runs PROVE OnItsWay(s)'
  BY DEF WayInv
<1> USE DEF TypeInv, IngestTypeOK, TaskTypeOK
<1>1. OnItsWay(s) /\ FlowOf[s] \in Flows
  BY IngestAssumption DEF WayInv
<1>2. ASSUME NEW r \in Runs, TaskStep(r) \/ TaskFault(r) PROVE OnItsWay(s)'
  <2>1. input' = input /\ flow' = flow
    BY <1>2 DEF TaskStep, TaskFault
  <2>2. CASE s # r
    <3>1. pc'[s] = pc[s]
      BY <1>2, <2>2, TaskFrame
    <3>2. QED
      BY <1>1, <2>1, <3>1 DEF OnItsWay, Input
  <2>3. CASE s = r
    <3>1. /\ pc'[r] # "lost"
          /\ pc'[r] = "probeItem" => Input(r) \notin {"invalid", "noLaspy"} \/ pc[r] = "probeItem"
          /\ pc'[r] = "transform" => pc[r] \in {"probeItem", "transform"}
      BY <1>2 DEF TaskStep, TaskFault, StartAttempt, MayStart, Validate, ProbeItem, Transform,
                  UploadFile, UploadDone, ProbeCollection, CreateCollection, PostItem, PutItem,
                  UseCachedResult, ProbeItemFails, CallFails, AnswerLost, Goto, Advance,
                  Return, Raise, Fault, LoseRace
    <3>2. QED
      BY <1>1, <2>1, <2>3, <3>1 DEF OnItsWay, Input
  <2>4. QED
    BY <2>2, <2>3
<1>3. ASSUME NEW f \in Flows, FlowStep(f) \/ FlowFault(f) PROVE OnItsWay(s)'
  <2>1. CASE CrashFlow(f)
    <3>1. flow' = [flow EXCEPT ![f] = "crashed"] /\ input' = input
      BY <2>1 DEF CrashFlow
    <3>2. \/ pc'[s] = pc[s]
          \/ pc'[s] = "lost" /\ FlowOf[s] = f
      BY <2>1 DEF CrashFlow, Tasks
    <3>3. QED
      BY <1>1, <3>1, <3>2 DEF OnItsWay, Input
  <2>2. CASE StartFlow(f) \/ FetchFails(f) \/ CompleteFlow(f) \/ FailFlow(f)
    <3>1. pc' = pc /\ input' = input
      BY <2>2 DEF StartFlow, FetchFails, CompleteFlow, FailFlow, taskVars
    <3>2. flow[FlowOf[s]] = "crashed" => flow'[FlowOf[s]] = "crashed"
      BY <1>1, <2>2 DEF StartFlow, FetchFails, CompleteFlow, FailFlow
    <3>3. QED
      BY <1>1, <3>1, <3>2 DEF OnItsWay, Input
  <2>3. QED
    BY <1>3, <2>1, <2>2 DEF FlowStep, FlowFault
<1>4. CASE UNCHANGED vars
  BY <1>1, <1>4 DEF vars, ingestVars, taskVars, OnItsWay, Input
<1>5. QED
  BY <1>2, <1>3, <1>4 DEF Next, IngestNext

LEMMA WayInit == Init => WayInv
BY DEF Init, IngestInit, WayInv, OnItsWay

(* The step an attempt is at can be taken, with or without success.         *)
AttemptDue(r) ==
    /\ pc[r] \in Active
    /\ pc[r] = "transform" => Input(r) \in {"noPdal", "empty", "broken", "good"}

MovesOn(f) ==
    \/ \A r \in Tasks(f) : pc[r] = "done"
    \/ \E r \in Tasks(f) : /\ pc[r] = "failed"
                           /\ \A s \in Tasks(f) : Order[s] < Order[r] => pc[s] = "done"
    \/ \E r \in Tasks(f) : MayStart(r) \/ AttemptDue(r)

FlowsMoveOn == \A f \in Flows : flow[f] = "running" => MovesOn(f)

(* No task waits for ever for another: while a flow runs it can end, or one *)
(* of its tasks can begin an attempt or go on with one; of the command,     *)
(* which takes its datasets in order, it is the first that is not done.     *)
THEOREM FlowsAlwaysMoveOn == Spec => []FlowsMoveOn
<1>1. ASSUME TypeInv, WayInv, NEW f \in Flows, flow[f] = "running",
             ~(\A r \in Tasks(f) : pc[r] = "done")
      PROVE  MovesOn(f)
  <2> DEFINE late == {r \in Tasks(f) : pc[r] # "done"}
  <2>1. late # {} /\ late \subseteq Runs /\ \A r \in Runs : Order[r] \in Nat
    BY <1>1, IngestAssumption DEF Tasks
  <2>2. PICK r \in late : \A s \in late : Order[r] <= Order[s]
    <3> DEFINE places == {Order[s] : s \in late}
    <3>1. places \subseteq Nat /\ places # {}
      BY <2>1
    <3>2. PICK x \in places : \A y \in places : x <= y
      BY <3>1, Least
    <3>3. QED
      BY <3>2
  <2>3. \A s \in Tasks(f) : Order[s] < Order[r] => pc[s] = "done"
    <3>1. \A s \in late : ~(Order[s] < Order[r])
      BY <2>1, <2>2
    <3>2. QED
      BY <3>1
  <2>4. /\ r \in Tasks(f) /\ r \in Runs /\ FlowOf[r] = f /\ OnItsWay(r) /\ pc[r] # "done"
        /\ Mates(r) = Tasks(f)
    BY <1>1 DEF WayInv, Tasks, Mates
  <2>5. pc[r] \in Active \cup {"scheduled", "failed"}
    BY <1>1, <2>4 DEF TypeInv, IngestTypeOK, TaskTypeOK, OnItsWay
  <2>6. CASE pc[r] = "failed"
    BY <2>3, <2>4, <2>6 DEF MovesOn
  <2>7. CASE pc[r] = "scheduled"
    <3>1. MayStart(r)
      BY <1>1, <2>3, <2>4, <2>7 DEF MayStart
    <3>2. QED
      BY <2>4, <3>1 DEF MovesOn
  <2>8. CASE pc[r] \in Active
    <3>1. Input(r) \in Inputs
      BY <1>1, <2>4, IngestAssumption DEF TypeInv, IngestTypeOK, TaskTypeOK, Input
    <3>2. AttemptDue(r)
      BY <2>4, <2>8, <3>1 DEF AttemptDue, OnItsWay, Inputs
    <3>3. QED
      BY <2>4, <3>2 DEF MovesOn
  <2>9. QED
    BY <2>5, <2>6, <2>7, <2>8
<1>2. TypeInv /\ WayInv => FlowsMoveOn
  <2>1. ASSUME NEW f \in Flows, \A r \in Tasks(f) : pc[r] = "done" PROVE MovesOn(f)
    BY <2>1 DEF MovesOn
  <2>2. QED
    BY <1>1, <2>1 DEF FlowsMoveOn
<1>3. QED
  BY <1>2, TypeInit, TypeStep, WayInit, WayStep, PTL DEF Spec
=============================================================================
