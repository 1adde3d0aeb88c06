# A TLA+ model of dashi

dashi is a geospatial data lake: files are uploaded or found in a bucket, a
pipeline validates and converts them and catalogues each as a STAC item, and a
set of flows, jobs and commands enrich, derive from, prune and sweep what is
there. No component talks to another. They meet in two stores without locks or
conditional writes, the STAC catalogue (pgstac behind stac-fastapi) and the S3
store (RustFS); what one component has read, any other may change before it
acts on it. That is what these modules are about.

Paths below are relative to `src/poc/`.

## 1. Inventory

### 1.1 The two stores: `Lake`

State: which collections exist, the item under each name, and for each key
whether an object is there and whether it is older than the minimum age of gc.
Both are external and modelled as the code uses them: each request is one
linearizable step, POST of an item is refused with 409 when it is there, PUT
and DELETE with 404 when it is not, a DELETE of an absent object succeeds, and
nothing is conditional on what a client has read. A dataset is an item of the
collection of its domain, and its files lie under one folder
(`domain/dataset_id/kind/`, `ingest/src/dashi_ingest/storage.py`). Of an item
the model keeps what some component reads or writes: its run, classification,
hrefs, and flags for "edited by hand", "enriched", "older than the retention
cutoff".

### 1.2 Components

| component (code) | state | operations | what makes it right |
|---|---|---|---|
| **ingest pipeline**: `ingest/src/dashi_ingest/runner.py`, `stac.py`, `storage.py`, `flows/ingest.py`, `cli.py` | tasks with attempts, Prefect's result cache, flow states | discover, validate, probe, transform, upload file by file, ensure the collection, POST or PUT the item; retry; use a cached result | an item never names files that are not there; a report is true; races and lost answers are absorbed by retries; a completed flow has delivered |
| **retention**: `flows/retention.py` | page, feature, asset at hand, counters | list expired items page by page, per asset list and delete its folder, delete the item | ends; leaves nothing of what it counts as deleted; takes nothing else; a failure leaves the item to be found again |
| **item delete**: `dashictl/src/commands/item.rs` | fetched hrefs | fetch, confirm, DELETE per s3 asset, DELETE item, claim | what is claimed covers the s3 assets |
| **gc**: `dashictl/src/commands/gc.rs` | listing, references, orphans | list the bucket, read references, confirm, delete | takes orphans only; takes all of them or fails |
| **enrich**: `flows/enrich.py`, `enrich.py` | the listed items, the LLM's answer | list, gate on classification, ask, PUT the whole item | loses no other writer's update, but for what it read too early; asks about nothing sensitive, but for what changed after the listing; no item stops a run |
| **3D Tiles job**: `py3dtiles/generate-3dtiles.sh` | tiles still to upload, the item read | convert, upload, GET, PUT the whole item | a linked tileset is whole |
| **Iceberg promotion**: `flows/iceberg.py` | listing, rows read, table version | namespace, list, download, create or load, append | a snapshot is a whole dataset; appends are kept |
| **PMTiles jobs**: `tippecanoe/generate-pmtiles.sh`, `scripts/pmtiles-generate.sh` | attempt, listing, converted files | list, download, convert, upload; restart | an archive is a whole layer; jobs end |
| **multipart upload**: `services/ingest-api/.../multipart.py`, `web/ingest/src/lib/multipart.ts`, `dashictl/src/commands/ingest.rs` | shared cursor, parts sent, upload in the store | start, PUT parts from several workers, complete or abort | the plan covers the file; an object is a whole file; parts are not left behind |
| **submission**: `web/ingest/src/routes/Ingest.tsx`, `Register.tsx`, `ingest.rs`, ingest-api `presign.py` `register.py` `scan.py` `trigger.py` | stage and entries of a page, the ceiling read | land, scan, gate, check the ceiling, create a run per file | ceilings hold; no upload runs twice; a submission is all or nothing |
| **domains**: `dashictl/src/commands/domain.rs`, `stac.py` (`ensure_collection`), ingest-api `domains.py` | the ceiling of each collection; creates between their POST and its answer, calls of `ensure_collection` between their GET and POST | create with a ceiling; GET, then POST without one; list | a reported ceiling is in force |

Read-only parts (tile and query endpoints, catalogue, runs and viewer pages,
`dashictl audit`, `doctor`, `runs`), wrappers of external programs (`dashictl
backup`, the backup jobs, bootstrap and deployment scripts), trusted headers
(authentication) and static pages are not modelled: they keep no state that
another part relies on, or their effect lies in programs outside the
repository. `PROJECT.json` lists every one with its reason.

### 1.3 What is hard here

- Two writers of one thing: tasks racing for a collection or an item,
  whole-item PUTs by enrich, the tileset job, ingest and people, two promotions
  creating one table.
- A reader of a folder that is being filled or emptied: promotions, PMTiles
  jobs, gc.
- A deleter that acts on an old listing: retention, item delete, gc.
- An answer that is lost after the call took effect, followed by a retry.
- A failure halfway: through an upload, a cascade of deletes, a series of runs.
- A cache that never expires, under a key that does not contain the content.
- A check and an act with other people's steps in between: the gate of enrich,
  the ceiling of `/trigger`, the probe for a collection, the age of an object.
- Boundaries: sizes at which the part plan changes, page limits, the limit on
  restarts.

`hazards` in `PROJECT.json` has each with its line and the properties that
watch over it.

## 2. Modules

| module | models | actions and the code they stand for |
|---|---|---|
| `Lake` | the two stores | `PutObject`, `DeleteObjects`, `WriteItem`: one request each |
| `Ingest` | `ingest_one` and the flow around it | one action per remote call, in the order of the function: `Validate` `ProbeItem` `Transform` `UploadFile` `UploadDone` `ProbeCollection` `CreateCollection` `PostItem` `PutItem`; `CallFails` and `AnswerLost` for a call without effect and one without answer; `StartAttempt`, `UseCachedResult`, `Raise` for Prefect; `StartFlow` `CompleteFlow` `FailFlow` `CrashFlow` for the flow |
| `Publication` | the abstract promise of ingest | a dataset becomes visible in one step, complete, and each task gives one true verdict |
| `Retention` | `prune_domain` for each domain | `ListPage` `TakeFeature` `ListFolder` `DeleteFolder` `DeleteItem` `FinishPage`, and how each fails |
| `ItemDelete` | `item delete --apply` | `FetchItem` `Confirm` `SkipAsset` `DeleteAsset` `DeleteStac`; abort anywhere |
| `Gc` | `gc --apply` | `ListBucket` `ReadCollections` (one unpaged request in the code, too) `ReadReferences` (a collection at a time: its pages are read in one step, for an item is on one page and every property speaks of single items) `FindOrphans` `ConfirmSweep` `DeleteOrphan`; abort anywhere |
| `Housekeeping` | composes `Ingest`, `Retention`, `ItemDelete`, `Gc` | adds the passing of gc's minimum age, and an operator who copies objects, old ones perhaps once more (`PutByHand`, `Leftover`), and posts an item with s3 hrefs; `reused` is history, the objects whose age a sweep may have read before they were written again |
| `Enrich` | the enrich flow | `ListItems` `TakeItem` (the gate) `AskLlm` `PutEnriched`; `AskFails` and `PutEnrichedFails`, which are counted and passed over |
| `Tiles` | the 3D Tiles job | `Convert` `UploadTile` `GetItem` `PutTileset`; an error or a time limit ends the job before the PUT has taken effect or after it (`PutTaken`) |
| `Annotate` | composes `Ingest`, `Enrich`, `Tiles` | adds a curator, who edits an item and may classify it anew |
| `SnapshotLog` | the abstract promise of Iceberg tables to their writers | a table is created once and empty, each snapshot is added in one step, whole, and none is changed or dropped; a writer adds at most one |
| `Iceberg` | the promotion | `CheckNamespace` ... `LoadTable` `AppendRows` (an optimistic commit) |
| `Pmtiles` | the job of a layer | `ListLayer` `DownloadLayer` `ConvertLayer` `UploadLayer`, `AttemptFails`. A layer in which nothing is found goes on to the conversion with nothing, as the script does, and the attempt fails there; `excuse` is history, whether an attempt found something or a call of it failed |
| `Derive` | composes `Housekeeping`, `Iceberg`, `Pmtiles` | nothing of its own |
| `Multipart` | upload in parts | `PartSize` as the server computes it, `Slice` as the clients cut; workers that take and send parts |
| `Submit` | from files to flow runs | `Upload` or `Register`, `Scan`, `Submit` (the gate), `CheckCeiling`, `CreateRun`; reset, retry, change of the form. Beside them `domain create` (`CreatePosts`, then `CreateReports`, or `CreateFails` before or after the POST had its effect) and `ensure_collection` (`EnsureGets`, `EnsurePosts`, `EnsureFails`), any number of both at once. `ensure_collection` waits for no flow run of `/trigger`: flows started by hand and `dashi-ingest` call it as well. `author` and `seen` are history |
| `Descent` | the order in which ranks descend | tuples of naturals compared from the left; no code |
| `IngestProofs` `SubmitProofs` `MultipartProofs` `AnnotateProofs` `DeriveProofs` `HousekeepingProofs` `GcProofs` | theorems, section 4 | |

An `MC...` module gives the constants of an instance their values. Definitions
that a comment calls a mutant are variants of the definition after them with a
plausible mistake; `PROJECT.json` names the property that each one breaks.

Choices that recur:

- A call is one step. It may fail before it took effect or after; where the
  code treats the two alike the model has both.
- What a file turns out to be is chosen once, among what its kind admits
  (`Findable`): validators and transforms are abstracted to how they end. The
  names of the files a transform writes are a constant (`Tree`).
- Counters of failures, races and attempts that no code keeps are history
  variables, marked so; no action reads them but through the bounds
  (`MaxFaults`, `PruneFaults`).
- Where the repository does not agree with itself on an external service, the
  model has both: `domain.rs:143` says that POST /collections creates and
  updates, `stac.py` raises what the POST answers when the collection is there.
  `Submit!upserts` is chosen once and never changes.
- Where two keys are equal in the code only through a content hash
  (`dataset_id` is a hash of file name, content and layer), equality is the
  model's: the same dataset is the same item.

## 3. Model checking

| run | instance | what it shows |
|---|---|---|
| `ingest` | a flow of two tasks (retries 2, three failing calls), a command with one failing call on the first dataset; a vector file that may be empty and a point cloud that may be anything | 1.2 million states. Items are backed, reports are true, races never exhaust retries by themselves, completed flows have delivered |
| `ingest_live` | two flows for one dataset of a new domain with the same arguments, three failing calls each | `Ingest` implements `Publication`; sound files get catalogued and flows end |
| `retention` | three expired items, two to a page, one young, one in a domain without retention; a re-ingest; one failing call of each | an item without its files has a named reason, pruned items leave nothing, the run is complete, spares others, and ends |
| `gc` | a sweep, two item deletes, an object left over from before that an operator copies again and names in an item, a re-ingest | s3 references are honoured whatever is posted during the sweep, but for objects written again after their age was read; a sweep that ends is complete; a claim covers the s3 assets |
| `annotate` | two tasks, the first with a failing call, an enrich run, a tileset job, one edit per item | a linked tileset is whole; an update is lost only to a job that read the item before it; the LLM is asked about a sensitive item only when it became so after the listing, or through a stale write; runs and jobs end |
| `derive` | two promotions into one new table, a promotion and gc, or a PMTiles job and gc, each with a task that ingests the dataset | a snapshot or an archive is incomplete only for a named reason; appends survive; the promotions implement `SnapshotLog`; jobs end |
| `multipart` | a browser with two workers on twelve lengths around the boundaries, dashictl on one | every byte is in one part, objects are whole, left parts have a named reason, uploads end |
| `submit` | a page with two files and two submissions, a command on an object that is still arriving; a domain that has a ceiling, or that two `domain create` and an `ensure_collection` race to create meanwhile; a catalogue that upserts or does not | 650,000 states. Ceilings hold, reported ones too, no upload runs twice, all or nothing, submissions end |

### Bounds, and why they are enough

- *Tasks and items.* Nothing in `ingest_one` involves more than one dataset
  but the collection of the domain, and what two tasks do to each other they
  do through one item, one folder or one collection. Two tasks on one dataset
  and a third on another of the same domain cover these pairs. The theorems
  need no bound.
- *Failures.* `MaxFaults` of two with two retries lets a task use up its
  retries; three in `ingest_live` let it fail for good by faults alone.
  In `annotate` retries are zero: with one failing call a task that is run
  again finds what the first attempt has posted, so that a retry adds no
  write to the item and only multiplies the states.
- *Domains.* One in `submit`, for domains share no state; two creates, with
  different ceilings, and one `ensure_collection`, so that a report can be
  overtaken by either. `Together` says who is at work: the command with all
  three; the page with a create and the `ensure_collection`; page and command
  with a create. All at once multiplies the states by seven and adds no new
  kind of pair. The command names an object that is staged; the theorems have no
  such bound, and cover an object that a page has uploaded.
- *Pages.* Three expired items with pages of two need a second page and leave
  a short one; `MaxPages` of two stops a loop over refused items. The code has
  200 and 50.
- *Part plan.* The default size, minimum, limit on the parts and rounding are 4, 2, 4
  and 3 bytes (16 MiB, 5 MiB, 10,000 and 1 MiB in the code), lengths one byte to
  either side of every change of plan.
- *Retries of the user.* Two submissions: the second meets what the first has
  left. A third meets nothing else.
- *gc.* A listing of one page and an age with two values: an object is below
  or above the minimum age, and passes it at any moment. The model assumes
  that an operator takes less than the minimum age from the first file to the
  item, which is what the minimum age is for.

`CHECK_DEADLOCK FALSE` is set where every part is a job or a command that
ends: when all have ended, nothing is left to happen. `ingest` and
`ingest_live` have an explicit step for that (`Quiet`), so that a task that is
stuck would be reported. `submit` can stop as well: when the submissions are
used up, and the collection is created, nothing is left to do.

### Fairness

Weak fairness only, and only for the program's own steps: a task and a flow
(`Ingest!Fairness`: the Prefect worker and the threads of a flow run keep
going), a retention run, the flow run of enrich and the pod of a tileset job
(`AnnotateFair`), the pod of a PMTiles job, a client of the ingest API
(every call is answered or fails), the workers of an upload. Faults, crashes
and users are never obliged to act, and none is excluded: liveness is stated
as "ends", or "is catalogued unless the flow fails or dies".

### Where the code and its words disagree

Each is a run of its own that TLC ends with a counterexample.

1. `cache`: results are cached for ever under a hash of the task's arguments
   (`ingest/src/dashi_ingest/flows/ingest.py`), with the comment "re-runs of
   the same content are no-ops". The content is not among the arguments: a
   replaced file at a mounted path is taken for the old one.
2. `gc_referenced`: gc takes an orphan to be an object "whose key is NOT
   referenced by any active STAC item", but recognises only `s3://` hrefs,
   and ingest writes `http` ones. It deletes files of catalogued items.
3. `empty_layer`: a layer without data should "exit successfully", since
   "hard-failing here turns every Job into BackoffLimitExceeded". The
   `sys.exit(0)` in `generate-pmtiles.sh` ends only the Python of the
   here-document. The script goes on, tippecanoe has no input and fails, every
   restart does the same, and the job is given up although no call of it failed.
4. `retention_overlap`: "deleting an item that is already gone is a no-op",
   but the folders of a listed item are deleted without a look at the item,
   and with them an upload that has started since.

Others are visible in the code alone and have no run. `item.rs` says that
"the command never claims success on a partial delete", but assets with other
than s3 hrefs, which are those that ingest writes, are skipped with a warning,
the item is deleted and success claimed; this is the narrow reading of an href
that `gc_referenced` shows, and `ClaimsCoverS3` is about the others. Retention
only logs a folder that it cannot delete, and deletes the item all the same:
`PrunedLeavesNothing` speaks of runs without failed calls. The enrich flow reads
one page of at most 200 items of what it calls "every item in a collection",
and its header says that it never overwrites what people have curated while it
PUTs the whole item back as it was listed (`LostUpdatesAreExplained` names
this as a reason). `generate-pmtiles.sh` says that ogr2ogr reads all Parquet
files while `|| true` passes over those on which it fails (`ArchivesAreWhole`
names this one). `domains.py` shows `int` as the ceiling of a collection that
has none, and `trigger.py` enforces none there (`CeilingsHold` excepts these).
`POST /collections` is an upsert for the comment in `domain.rs` (whose header
says PUT) and an error for `stac.py`; were it an upsert, an
`ensure_collection` with a stale probe would wipe a ceiling, and of two creates
the one that reports first would be overruled (`ReportedCeilingsHold`).

## 4. Proofs

The theorems hold for all values of the constants that satisfy the assumptions
of the modules (`LakeAssumption`, `IngestAssumption` and so on, each of which
TLC evaluates in a run). Each `...Always` theorem is an inductive invariant:
it holds initially, every action keeps it, it implies the property.

### Ingest (`IngestProofs`)

| theorem | says | argument |
|---|---|---|
| `TypeCorrect` | `IngestTypeOK` always | `TypeInv` adds that a scheduled task has an attempt left; without it a counter of attempts could pass `Retries + 1` |
| `ItemsAlwaysBacked` | `ItemsBacked` always | `BackedInv` adds `UploadsKept`: what an attempt has uploaded is stored, and past the upload the whole tree is. Other tasks never remove objects (`Monotone`), so a step of one task cannot disturb another's part |
| `ReportsAlwaysTrue` | `ReportsAreTrue`, if `PathsNameContent` | `ReportsInv` extends the statement to the cached results. The lemma `Results` says where an outcome may come from |
| `CompletedAlwaysDelivered` | `CompletedFlowsDelivered`, if `PathsNameContent` | from the three above: a task of a completed flow is done, and a sound file is neither declined nor left without an item |
| `RetriesAlwaysAbsorb` | `RetriesAbsorb` always | `AccountsInv` is the account of a task's attempts: each ended by a fault or by a lost race, and a task loses the race for its collection at most once, since collections stay |
| `AlwaysPublishesAtomically` | `Ingest` implements `Publication`, if `PathsNameContent` | Initial states map to initial states, and each step of `Ingest` to one of `Publication` or to none: an upload is a step when it stores the last missing file of a dataset, a POST when the item is new, a return when it gives a verdict. `PublicationInv` adds to the invariants above that an attempt uploads files of its own dataset only |

`PathsNameContent` (equal cache keys, equal dataset) is an assumption the code
does not guarantee for mounted paths: run `cache` is the counterexample. It
holds for `s3://` sources, which are downloaded into a new directory each time.
These theorems are about ingest by itself, where nobody deletes; what remains
of them next to retention, item delete and gc is the matter of
`HousekeepingProofs` and `GcProofs`.

### Writers of items (`AnnotateProofs`)

`AnnotateInv` says of every version of an item that is catalogued, or that a
job has read and may write back (`Known`), that it holds up: its files are
stored, and the tiles of each tileset it links. `Known` is what makes this
inductive, for the catalogue alone says nothing of the versions that come back
to it. A PUT can then bring in only a version that holds up (`KnownStep`), and
what holds up keeps doing so because none of these programs deletes
(`HoldsUpKept`). The half of it about tiles is `TilesetsAlwaysBacked`;
the half about files is what `ItemsAlwaysBacked` says of ingest alone, and keeps
holding since these writers change no asset but the tileset.

`HistoryInv` is about what becomes of these versions. `Traced` says of the
version in the catalogue: an edit, an enrichment or a link that was made and is
not in it was missing in a version that another writer has put back, or may
have, for an answer that was lost leaves both possible (`PutBack`). It holds
because whoever writes an item writes what it has read and adds to it, and
because an enrich run reads an item and sends it back at most once (`Chosen`),
and so does a tileset job (`ReadOnce`): a writer whose version is in the
catalogue is among those that `PutBack` names. `LostUpdatesAlwaysExplained` is
`Traced` in other words. `SensitiveNeverSent` needs `OneClass` as well: two
versions of an item with the same flag "edited" are of one class, since only
the edit changes it. (That a curator edits an item once is a bound of the
model, and of the two theorems.)

`TilesetsAlwaysBacked` alone supposes `TilesetsNameContent`: jobs that upload
the same `tileset.json` upload the same tiles. The script names the folder of a
tileset after the dataset id alone, so two domains with the same id share it;
the id is a hash of the content, which is the ground for the hypothesis. The
other theorems about what these writers do suppose nothing, but that those on
rank suppose finite sets.

### Promotions and layers (`DeriveProofs`)

`AppendsAreAlwaysKept`: a promotion that has succeeded has its rows in the
table once. `DeriveInv` adds that a promotion has appended nothing before its
end and that the table it has created or loaded stays. The proof has one lemma
for each of the three things a step does to the tables (`TablesKept`,
`TableAdded`, `SnapshotAdded`). It rests on the commit being refused when the
table has moved on (`Current`), which is the Iceberg catalogue's part. What the
other components do next to it is of no concern: they leave the tables alone.

`SnapshotsAlwaysWhole` and `ArchivesAlwaysWhole` say that what is derived from
a catalogued dataset is the whole of it, but for the reasons the properties
name. `LastingInv` is about the lake: of a dataset that is read (`Sources`), a
file that an attempt at ingest has put, and every file once the item is
catalogued, is there or a sweep has it among what it decided to delete; and a
sweep does not change its mind (`SweptGrows`). `FilesLost` and `FoldersApart`,
of `HousekeepingProofs`, show that nobody else comes near these files.
`ReadersInv` follows a reader from there: of a dataset that was catalogued when
it listed, what it has still to download and what it has downloaded are
together all but what a sweep took (`Listed`, `Tiled`), since a 404 ends the
attempt and a new attempt lists anew. The two theorems suppose that no item
delete is given a dataset that is read (`NobodyDeletesSources`; the lake begins
empty, so nothing in it is old enough for retention), that a task writes all
files of its dataset (`TreesFillFolders`) and that readers look for files of
their dataset (`PartsAreFiles`). Item deletes of other datasets, retention runs
and operators may be at work. `DeriveTypesAlways` supposes nothing.

`TablesAlwaysGrow` is the refinement of `SnapshotLog`, for any number of
promotions, tables and files, and supposes nothing. The log of a table is the
table, and a writer's outcome is "pending" until its run has ended. `LogBegins`
maps the initial states; in a step of the table (`LogStep`) a creation is
`Create`, a commit `Commit`, a failure `GiveUp`, and all else changes nothing
that readers see. An append whose answer is lost is one step that commits and
gives up: the rows are there and the run failed. `LogInv` adds to `DeriveInv`
that what a promotion turns to the table with is some of its files and not none
(`GotInv`), and that is what makes every snapshot one of the abstract ones.

### Multipart uploads (`MultipartProofs`)

`PlansAlwaysCover` is arithmetic, for every length and all limits that satisfy
`MultipartAssumption`: the part size meets both limits of the store
(`PartSizeMeetsLimits`), and the slices cover the file (`PlanCovers`). For
`ObjectsAreAlwaysWhole` and `LeftPartsAlwaysExplained` the invariant says of
each part where it is: ahead of the cursor, in the hands of one worker, or
stored; and that an upload which ends without an error has no worker left at a
part. `MultipartTypesAlways` comes with it.

### Submissions (`SubmitProofs`)

`SubmitInv` has three parts. `PageInv` relates the stage of a client to what it
has landed and scanned; `RunsInv` relates the flow runs to it: a run names a
submission that has begun, entries of the present one are behind the page's
index, and the domain and class are those of the page; `DomainInv` is about
the ceilings, from the moment a POST has had its effect and not only from its
report (`SentCeilingsHold`): the ceiling is in force, or a later POST has
replaced it and is the one that `author` names. It is inductive because a
collection is never deleted: while there is none, no create has had an effect
(`NeverThere`), so an `ensure_collection` that goes on to its POST has seen
none (`SeenNobody`). From them follow
`CeilingsAlwaysHold`, `ReportedCeilingsAlwaysHold`, `UploadsAlwaysRunOnce`
(keys of uploads are minted, and a submission that failed is never resumed;
an object that somebody registers may be anybody's upload)
and `AllOrNothingAlways`.

### Retention among the others (`HousekeepingProofs`)

`HouseInv` is the invariant for everything that works on the lake: types; that
nobody makes an item old (`OldIsStock`), so that an old item is as it was at
the start; that a task uploads files of its own dataset, in an attempt it has
begun (`TaskOk`); and that whatever a retention run has read of an item is what
the item had at the start (`PruneOk`). Two lemmas carry the rest: `FilesLost`
names the three steps that can remove an object, `ItemsLost` the two that can
remove an item, and what each has in hand. `OthersAlwaysKeep`,
`PrunedAlwaysLeavesNothing` and `DanglingAlwaysExplained` suppose
`StockNamesItsFiles`: the items of the start name files of their own folder, as
ingest and the operators make them; `OwnInv` keeps it.

| theorem | supposes | argument |
|---|---|---|
| `HousekeepingTypesAlways` | nothing | part of `HouseInv` |
| `OthersAlwaysKeep` | no gc | retention has only old items of expiring domains in hand, item delete only its victim, and folders are apart |
| `PrunedAlwaysLeavesNothing` | | `Thorough` says where a run without failures stands: folders it is through with are empty, and what it has listed of the one in hand is all there is. `NothingComes` keeps this while the others work: only a task or an operator brings files or items back |
| `PruneAlwaysComplete` | the items of the start are finitely many | `Counting`: after each page that was full, `PageSize` items more have left the catalogue or are in hand, and nobody makes an item old again (`OldStaysOld`); so after the last page, or one that was not full, nothing old is left (`AllPages`) |
| `DanglingAlwaysExplained` | one retention run, no other deleter; a task writes all files of its dataset | `DanglingInv` relates the two actors: a task that has passed its probe without a failure works on an item that is in nobody's hands (`Undisturbed`), and what retention has in hand is catalogued. So the probe and the listing exclude each other, unless a failing probe is taken for "not there". Run `retention_overlap` shows that a second deleter breaks it |

### gc and item delete (`GcProofs`)

| theorem | supposes | argument |
|---|---|---|
| `SweepAlwaysComplete` | nothing | `SweptClean`: what a sweep decided to delete is either still to be deleted, or gone, or rewritten, and whoever rewrites an object a sweep has listed leaves a trace (`WritesLeaveTraces`) |
| `ClaimsAlwaysCoverS3` | `StockNamesItsFiles`; victims are not added by hand | `Claim` follows a command from asset to asset; `NothingComes` keeps what it has done |
| `S3NamesAlwaysServed` | `StockNamesItsFiles`; ingest keeps out of folders filled by hand; no item with s3 hrefs expires | `KnownInv`: for an object that a sweep has listed and an item names, the sweep has its name already, or has the item's collection still to read, or the object is known to have been written again. It needs that the collection of an item is there before the item (`DomainsInv`: gc reads the collections after its listing), that ingest writes no s3 hrefs (`S3Origin`), and that a fresh object where the sweep has listed an old one is in `reused` (`FreshInv`) |

### Nothing goes on for ever (`Descent` and the proofs of each component)

That a job ends has two halves. The one that needs fairness is left to TLC:
what can go on does. The other is safety, and proved: nothing can go round in
circles. Each process has a rank, a tuple of naturals compared from the left,
and every step that changes the process lowers it, faults, refusals and crashes
included. `LowerIsWellFounded` says that no rank descends for ever, for tuples
of any length; `Lower2` to `Lower4` compare them place by place, and `OneLess`
gives the step of the commonest kind, a set that has lost an element.

| theorem | rank, from the left | supposes |
|---|---|---|
| `IngestAlwaysDescends` | of a task: attempts left, stage of the attempt, files to upload; of a flow: its state. Each step lowers one of these and raises none, so the system as a whole comes to rest | finitely many keys |
| `PruneAlwaysDescends` | domains, pages of the domain, features of the page, assets of the feature. Where every DELETE is refused the page stays the same, and the count of pages goes down | finitely many items at the start, with finitely many assets |
| `AnnotationsAlwaysDescend` | of an enrich run: whether it has listed, items left, stage of the item at hand, which stays on the list until it is struck off (`ItemAtHand`); of a tileset job: stage, tiles left | finitely many items and keys |
| `DerivationsAlwaysDescend` | of a promotion: stage, files left; of a PMTiles job: restarts left, stage, files left | finitely many keys |
| `UploadsAlwaysDescend` | stage, parts not handed out, PUTs under way: handing out a part makes the last larger and the one before it smaller | |
| `SubmissionsAlwaysDescend` | between two turns of its user: files or entries left, calls left for the one at hand | |

Two theorems go some way into the other half: that while something is under way,
there is something to do. `FlowsAlwaysMoveOn`: a flow that runs can end, or one
of its tasks can begin an attempt or go on with one. A command takes its
datasets in order, and it is the first that is not done (`Least`) which moves;
`WayInv` adds that a file that was refused has left the pipeline.
`SomethingIsAlwaysDue`: until an upload has ended, a worker can take a part, or a
PUT is under way, or all workers have returned, and completion is only asked
for when the store has all the parts that it names. Neither speaks of ENABLED:
the guards are written out.

### What stays with TLC

Liveness itself (`SoundFilesGetCatalogued`, `FlowsEnd`, `PruneEnds`,
`LayersEnd`, `UploadsEnd`, `SubmissionsEnd`, `AnnotationsEnd`): it needs
ENABLED and fairness, out of the prover's reach; of each, but for
`SoundFilesGetCatalogued`, the half that is safety is proved above. All other
properties of the passing runs are proved, under the suppositions that this
section names. No module declares a RECURSIVE operator, so that all of them can
be proved about.

## 5. What is left

- The flow run that a submission creates is not yet followed into `Ingest`: the
  object is read again then, and may have changed since it was scanned.
- A run with a listing that exceeds enrich's limit, and a sweep next to
  retention, would cost more states than they show at present.

Not modelled, and why: the tile and query endpoints, the catalogue, runs and
viewer pages and `dashictl audit`, `doctor` and `runs` answer requests from
what others have written and keep nothing between two requests; `backup`, the
backup jobs and the bootstrap scripts call external programs whose effect is
outside the repository; `user` and `backfill` are stubs; authentication trusts
headers set by the ingress. Within the modelled parts, geometry, coordinate
systems, H3 partitioning and the metadata that transforms compute are numeric
library calls, abstracted to how they end.
