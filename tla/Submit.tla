------------------------------- MODULE Submit -------------------------------
(***************************************************************************)
(* How files become flow runs: the upload page (routes/Ingest.tsx), the     *)
(* register page (routes/Register.tsx) and dashictl ingest drive the same   *)
(* calls of the ingest API: land the file, /scan it, and /trigger a Prefect *)
(* run, which looks up the ceiling of the domain first.                     *)
(***************************************************************************)
EXTENDS Naturals, Sequences, FiniteSets

CONSTANTS
    Clients,    \* browser pages and invocations of dashictl ingest
    Pages,      \* the browser pages among them
    Registers,  \* clients that name an object instead of sending files
    Files,      \* file contents
    Kind,       \* what /scan finds in a file: good, flawed or unknown
    Picked,     \* the files the other clients are given, in their order
    Named,      \* the object each register client names
    Staged,     \* objects that others bring into the landing bucket
    StagedFiles, \* bound: what each of them may hold once it is whole
    Domains,
    Classes,
    Rank,       \* CLASSIFICATION_RANK
    Asked,      \* the classification at first, and the domain given to dashictl
    Ceilings,   \* bound: the ceilings the domains may start with
    Tries,      \* bound: submissions of each client
    Creates,    \* invocations of dashictl domain create
    Given,      \* the ceiling each of them is given
    Ensures,    \* calls of ensure_collection, in a task or in dashi-ingest
    DomainAt,   \* the domain of each of both
    Together,   \* bound: the sets of clients and of these that work together
    Nothing     \* no object, no domain picked on a page, nobody

Empty == "empty"     \* an object of zero bytes
Absent == "absent"   \* a domain without a collection
Open == "open"       \* a collection without a ceiling
Unread == "unread"   \* to /trigger: the catalogue did not answer 200

ASSUME SubmitAssumption ==
    /\ Pages \subseteq Clients
    /\ Registers \subseteq Clients
    /\ Kind \in [Files -> {"good", "flawed", "unknown"}]
    /\ Picked \in [Clients \ Registers -> Seq(Files) \ {<<>>}]
    /\ StagedFiles \in [Staged -> SUBSET Files]
    /\ \A c \in Clients \ (Pages \cup Registers) : Len(Picked[c]) = 1
    /\ Rank \in [Classes -> Nat]
    /\ Asked \in [Clients -> [domain : Domains, cls : Classes]]
    /\ Ceilings \in [Domains -> SUBSET (Classes \cup {Open, Absent})]
    /\ Tries \in [Clients -> Nat \ {0}]
    /\ \A c \in Clients \ Pages : Tries[c] = 1
    /\ Given \in [Creates -> Classes]
    /\ DomainAt \in [Creates \cup Ensures -> Domains]
    /\ Creates \cap Ensures = {}
    /\ Classes \cap {Open, Absent, Unread} = {}
    /\ Nothing \notin Files \cup Domains \cup {Empty} \cup Creates \cup Ensures

(* /presign and /multipart/start mint a new key for every upload.           *)
Uploads ==
    UNION {{c} \X (1 .. Tries[c]) \X DOMAIN Picked[c] : c \in Clients \ Registers}

LandingKeys == Uploads \cup Staged

ASSUME LandingAssumption ==
    /\ Uploads \cap Staged = {}
    /\ Named \in [Registers -> LandingKeys]

Entries == [key : LandingKeys, kind : {"good", "flawed", "unknown"}]

FlowRuns == [by : Clients, try : Nat, entry : Nat, key : LandingKeys,
             domain : Domains, cls : Classes, ceiling : Classes \cup {Open, Unread}]

Busy == {"land", "scan", "check", "create"}

ClientStates == [
    pc : Busy \cup {"idle", "scanned", "done", "error"},
    try : Nat,                       \* submissions begun
    domain : Domains \cup {Nothing},
    cls : Classes,
    index : Nat,                     \* the file or the entry at hand
    entries : Seq(Entries),          \* files landed and scanned
    ceiling : Classes \cup {Open, Unread},  \* as /trigger has read it
    failed : SUBSET Nat]             \* history: submissions that ended in error

CreateStates == {"ready", "sent", "reported", "failed"}

EnsureStates == [
    pc : {"ready", "missed", "ended"},
    seen : SUBSET Creates]  \* history: creates of its domain before its GET

VARIABLES
    page,      \* the state of each client
    landing,   \* the landing bucket
    ceilings,  \* dashi:max_classification of each domain's collection
    flowRuns,  \* the runs that Prefect has created
    upserts,   \* whether POST /collections replaces a collection; never changes
    creates,   \* how far each invocation of domain create is
    ensures,   \* the same for each call of ensure_collection
    author     \* history: whose POST has made each collection what it is

domainVars == <<ceilings, upserts, creates, ensures, author>>
submitVars == <<page, landing, flowRuns, domainVars>>

SubmitTypeOK ==
    /\ page \in [Clients -> ClientStates]
    /\ landing \in [LandingKeys -> Files \cup {Nothing, Empty}]
    /\ ceilings \in [Domains -> Classes \cup {Open, Absent}]
    /\ flowRuns \subseteq FlowRuns
    /\ upserts \in BOOLEAN
    /\ creates \in [Creates -> CreateStates]
    /\ ensures \in [Ensures -> EnsureStates]
    /\ author \in [Domains -> Creates \cup Ensures \cup {Nothing}]

(* Who is not among the active does nothing.                                *)
InitPage(c, active) ==
    [pc |-> "idle", try |-> IF c \in active THEN 0 ELSE Tries[c],
     domain |-> IF c \in Pages THEN Nothing ELSE Asked[c].domain,
     cls |-> Asked[c].cls, index |-> 1, entries |-> <<>>, ceiling |-> Unread, failed |-> {}]

SubmitInit ==
    /\ landing = [k \in LandingKeys |-> Nothing]
    /\ ceilings \in [Domains -> Classes \cup {Open, Absent}]
    /\ \A d \in Domains : ceilings[d] \in Ceilings[d]
    /\ flowRuns = {}
    /\ upserts \in BOOLEAN
    /\ \E active \in Together :
         /\ page = [c \in Clients |-> InitPage(c, active)]
         /\ creates = [k \in Creates |-> IF k \in active THEN "ready" ELSE "failed"]
         /\ ensures = [t \in Ensures |->
                          [pc |-> IF t \in active THEN "ready" ELSE "ended", seen |-> {}]]
    /\ author = [d \in Domains |-> Nothing]

-----------------------------------------------------------------------------

Step(c, s) == page' = [page EXCEPT ![c] = s]

(* The objects that client c submits at a time.                             *)
Count(c) == IF c \in Registers THEN 1 ELSE Len(Picked[c])

(* A submission ends: what was uploaded and scanned for it is forgotten.    *)
Ended(c, label) ==
    [page[c] EXCEPT !.pc = label, !.entries = <<>>, !.index = 1, !.ceiling = Unread]

(* Mutant of Fail: after an error the page goes back to what it has scanned. *)
FailToScanned(c) ==
    Step(c, [page[c] EXCEPT !.pc = IF page[c].pc \in {"check", "create"}
                                   THEN "scanned" ELSE "error",
                            !.index = 1, !.failed = @ \cup {page[c].try}])

(* Mutant of Fail: an error in the middle of a submission passes for its end. *)
FailQuietly(c) == Step(c, Ended(c, "done"))

(* A mutation throws: the page shows the error, the command prints it.      *)
Fail(c) == Step(c, [Ended(c, "error") EXCEPT !.failed = @ \cup {page[c].try}])

KeyOf(c) == IF c \in Registers THEN Named[c] ELSE <<c, page[c].try, page[c].index>>

(* "Upload + scan", "Validate + scan", or the start of the command.         *)
Begin(c) ==
    /\ page[c].pc = "idle"
    /\ page[c].domain # Nothing
    /\ page[c].try < Tries[c]
    /\ Step(c, [page[c] EXCEPT !.pc = "land", !.try = @ + 1])
    /\ UNCHANGED <<landing, flowRuns, domainVars>>

(* GET /domains: what a picker of domains offers.                           *)
Offered == {d \in Domains : ceilings[d] # Absent}

(* Until a submission is under way its form can be changed.                 *)
ChangeForm(c) ==
    /\ c \in Pages
    /\ page[c].pc \notin Busy
    /\ \E d \in Offered, cl \in Classes :
         Step(c, [page[c] EXCEPT !.domain = d, !.cls = cl])
    /\ UNCHANGED <<landing, flowRuns, domainVars>>

(* A file is sent, in one PUT or in parts, under the key minted for it.     *)
Upload(c) ==
    /\ page[c].pc = "land"
    /\ c \notin Registers
    /\ landing' = [landing EXCEPT ![KeyOf(c)] = Picked[c][page[c].index]]
    /\ Step(c, [page[c] EXCEPT !.pc = "scan"])
    /\ UNCHANGED <<flowRuns, domainVars>>

(* /register: the object exists and is not empty.                           *)
Register(c) ==
    /\ page[c].pc = "land"
    /\ c \in Registers
    /\ IF landing[Named[c]] \in {Nothing, Empty}
       THEN Fail(c)
       ELSE Step(c, [page[c] EXCEPT !.pc = "scan"])
    /\ UNCHANGED <<landing, flowRuns, domainVars>>

KindOf(k) == IF landing[k] = Empty THEN "unknown" ELSE Kind[landing[k]]

(* Mutant of Scan: an object nothing is found in is left without a kind.    *)
ScanKnownOnly(c) ==
    LET k == KeyOf(c) IN
    /\ page[c].pc = "scan"
    /\ Step(c, [page[c] EXCEPT
           !.entries = Append(@, [key |-> k, kind |-> IF KindOf(k) = "unknown"
                                                      THEN Nothing ELSE KindOf(k)]),
           !.index = @ + 1,
           !.pc = IF page[c].index = Count(c) THEN "scanned" ELSE "land"])
    /\ UNCHANGED <<landing, flowRuns, domainVars>>

(* /scan downloads the object and runs the detection and the validators.    *)
Scan(c) ==
    LET entry == [key |-> KeyOf(c), kind |-> KindOf(KeyOf(c))] IN
    /\ page[c].pc = "scan"
    /\ Step(c, [page[c] EXCEPT !.entries = Append(@, entry), !.index = @ + 1,
                    !.pc = IF page[c].index = Count(c) THEN "scanned" ELSE "land"])
    /\ UNCHANGED <<landing, flowRuns, domainVars>>

(* The page wants something to ingest in at least one of its files; the     *)
(* command wants its file to be without errors.                             *)
Admitted(c) ==
    LET es == page[c].entries IN
    IF c \in Pages
    THEN \E i \in DOMAIN es : es[i].kind # "unknown"
    ELSE es[1].kind = "good"

(* The user presses "Submit", or the command goes on.                       *)
Submit(c) ==
    /\ page[c].pc = "scanned"
    /\ Admitted(c)
    /\ Step(c, [page[c] EXCEPT !.pc = "check", !.index = 1])
    /\ UNCHANGED <<landing, flowRuns, domainVars>>

(* The command stops: there are errors, or it was given --dry-run.          *)
StopAfterScan(c) ==
    /\ page[c].pc = "scanned"
    /\ c \notin Pages
    /\ \/ ~Admitted(c) /\ Fail(c)
       \/ Admitted(c) /\ Step(c, Ended(c, "done"))
    /\ UNCHANGED <<landing, flowRuns, domainVars>>

(* Mutant of CheckCeiling: the ranks are compared the wrong way round.      *)
CheckCeilingSwapped(c) ==
    LET max == ceilings[page[c].domain] IN
    /\ page[c].pc = "check"
    /\ IF max \in Classes /\ Rank[page[c].cls] < Rank[max]
       THEN Fail(c)
       ELSE Step(c, [page[c] EXCEPT !.pc = "create",
                                    !.ceiling = IF max = Absent THEN Unread ELSE max])
    /\ UNCHANGED <<landing, flowRuns, domainVars>>

(* /trigger reads the collection; 403 when the ceiling is exceeded.         *)
CheckCeiling(c) ==
    LET max == ceilings[page[c].domain] IN
    /\ page[c].pc = "check"
    /\ IF max \in Classes /\ Rank[page[c].cls] > Rank[max]
       THEN Fail(c)
       ELSE Step(c, [page[c] EXCEPT !.pc = "create",
                                    !.ceiling = IF max = Absent THEN Unread ELSE max])
    /\ UNCHANGED <<landing, flowRuns, domainVars>>

(* The catalogue answers with an error, and /trigger goes on.               *)
CeilingUnread(c) ==
    /\ page[c].pc = "check"
    /\ Step(c, [page[c] EXCEPT !.pc = "create", !.ceiling = Unread])
    /\ UNCHANGED <<landing, flowRuns, domainVars>>

AddRun(c) ==
    flowRuns' = flowRuns \cup
        {[by |-> c, try |-> page[c].try, entry |-> page[c].index,
          key |-> page[c].entries[page[c].index].key,
          domain |-> page[c].domain, cls |-> page[c].cls, ceiling |-> page[c].ceiling]}

(* Mutant of CreateRun: the page stays with the entry it has a run for.     *)
CreateRunAgain(c) ==
    /\ page[c].pc = "create"
    /\ AddRun(c)
    /\ Step(c, [page[c] EXCEPT !.pc = "check"])
    /\ UNCHANGED <<landing, domainVars>>

(* Prefect creates the flow run; the page goes on with its next entry.      *)
CreateRun(c) ==
    /\ page[c].pc = "create"
    /\ AddRun(c)
    /\ Step(c, IF page[c].index = Len(page[c].entries)
               THEN Ended(c, "done")
               ELSE [page[c] EXCEPT !.pc = "check", !.index = @ + 1])
    /\ UNCHANGED <<landing, domainVars>>

(* A call of the API fails, before or after it had its effect.              *)
CallFailed(c) ==
    /\ \/ /\ page[c].pc \in Busy
          /\ UNCHANGED <<landing, flowRuns>>
       \/ /\ page[c].pc = "land" /\ c \notin Registers
          /\ landing' = [landing EXCEPT ![KeyOf(c)] = Picked[c][page[c].index]]
          /\ UNCHANGED flowRuns
       \/ /\ page[c].pc = "create"
          /\ AddRun(c)
          /\ UNCHANGED landing
    /\ Fail(c)
    /\ UNCHANGED domainVars

(* "cancel", "ingest another" and "try again".                              *)
Reset(c) ==
    /\ c \in Pages
    /\ page[c].pc \in {"scanned", "done", "error"}
    /\ Step(c, Ended(c, "idle"))
    /\ UNCHANGED <<landing, flowRuns, domainVars>>

(* External: rclone or a partner brings an object into the landing bucket;  *)
(* at first it may be empty (register.py:13).                               *)
StageObject(k) ==
    /\ \/ /\ landing[k] = Nothing
          /\ landing' = [landing EXCEPT ![k] = Empty]
       \/ /\ landing[k] \in {Nothing, Empty}
          /\ \E f \in StagedFiles[k] : landing' = [landing EXCEPT ![k] = f]
    /\ UNCHANGED <<page, flowRuns, domainVars>>

(* The two clients of POST /collections disagree on what it does with a     *)
(* collection that is there: to domain.rs:144 it is an upsert, in stac.py   *)
(* the answer is an error that is raised.  The model has both.              *)
Postable(d) == upserts \/ ceilings[d] = Absent

Post(d, ceiling, who) ==
    /\ ceilings' = [ceilings EXCEPT ![d] = ceiling]
    /\ author' = [author EXCEPT ![d] = who]

(* dashictl domain create sends a collection with a ceiling ...             *)
CreatePosts(k) ==
    LET d == DomainAt[k] IN
    /\ creates[k] = "ready"
    /\ \/ /\ Postable(d)
          /\ Post(d, Given[k], k)
          /\ creates' = [creates EXCEPT ![k] = "sent"]
       \/ /\ ~Postable(d)
          /\ creates' = [creates EXCEPT ![k] = "failed"]
          /\ UNCHANGED <<ceilings, author>>
    /\ UNCHANGED <<page, landing, flowRuns, upserts, ensures>>

(* ... and reports it; ...                                                  *)
CreateReports(k) ==
    /\ creates[k] = "sent"
    /\ creates' = [creates EXCEPT ![k] = "reported"]
    /\ UNCHANGED <<page, landing, flowRuns, ceilings, upserts, ensures, author>>

(* ... or the POST fails, or its answer is lost, or (with --json) the GET   *)
(* of what to print fails.                                                  *)
CreateFails(k) ==
    /\ creates[k] \in {"ready", "sent"}
    /\ creates' = [creates EXCEPT ![k] = "failed"]
    /\ UNCHANGED <<page, landing, flowRuns, ceilings, upserts, ensures, author>>

Sent(d) == {k \in Creates : DomainAt[k] = d /\ creates[k] \in {"sent", "reported"}}

EnsureAt(t, label, seen) == ensures' = [ensures EXCEPT ![t] = [pc |-> label, seen |-> seen]]

(* Mutant of EnsureGets: whatever the GET has found, the POST follows.      *)
EnsureGoesOn(t) ==
    /\ ensures[t].pc = "ready"
    /\ EnsureAt(t, "missed", Sent(DomainAt[t]))
    /\ UNCHANGED <<page, landing, flowRuns, ceilings, upserts, creates, author>>

(* ensure_collection, at any time: flows run from /trigger, from Prefect by *)
(* hand and from dashi-ingest.  Its GET finds the collection or gets a 404. *)
EnsureGets(t) ==
    /\ ensures[t].pc = "ready"
    /\ IF ceilings[DomainAt[t]] = Absent
       THEN EnsureAt(t, "missed", Sent(DomainAt[t]))
       ELSE EnsureAt(t, "ended", {})
    /\ UNCHANGED <<page, landing, flowRuns, ceilings, upserts, creates, author>>

(* A collection without a ceiling is sent, whoever created it since; if it  *)
(* is refused, or the answer is lost, the task raises.                      *)
EnsurePosts(t) ==
    /\ ensures[t].pc = "missed"
    /\ IF Postable(DomainAt[t]) THEN Post(DomainAt[t], Open, t) ELSE UNCHANGED <<ceilings, author>>
    /\ EnsureAt(t, "ended", ensures[t].seen)
    /\ UNCHANGED <<page, landing, flowRuns, upserts, creates>>

(* The GET or the POST fails without an effect.                             *)
EnsureFails(t) ==
    /\ ensures[t].pc \in {"ready", "missed"}
    /\ EnsureAt(t, "ended", ensures[t].seen)
    /\ UNCHANGED <<page, landing, flowRuns, ceilings, upserts, creates, author>>

CreateStep(k) == CreatePosts(k) \/ CreateReports(k) \/ CreateFails(k)

EnsureStep(t) == EnsureGets(t) \/ EnsurePosts(t) \/ EnsureFails(t)

Call(c) ==
    Upload(c) \/ Register(c) \/ Scan(c) \/ CheckCeiling(c) \/ CreateRun(c) \/ StopAfterScan(c)

UserStep(c) == Begin(c) \/ ChangeForm(c) \/ Submit(c) \/ Reset(c)

SubmitNext ==
    \/ \E c \in Clients : Call(c) \/ UserStep(c) \/ CeilingUnread(c) \/ CallFailed(c)
    \/ \E k \in Staged : StageObject(k)
    \/ \E k \in Creates : CreateStep(k)
    \/ \E t \in Ensures : EnsureStep(t)

SubmitSpec == SubmitInit /\ [][SubmitNext]_submitVars

(* Every call is answered or fails; users are free to do nothing.           *)
SubmitFair == SubmitSpec /\ \A c \in Clients : WF_submitVars(Call(c))

-----------------------------------------------------------------------------

RunsOf(c, t) == {r \in flowRuns : r.by = c /\ r.try = t}

(* /trigger enforces the ceiling of the domain (trigger.py:50): a run whose *)
(* classification exceeds the ceiling its domain has now was created when   *)
(* the domain had none, when the catalogue did not answer, or the ceiling   *)
(* has been changed since /trigger read it.                                 *)
CeilingsHold ==
    \A r \in flowRuns :
        ceilings[r.domain] \in Classes /\ Rank[r.cls] > Rank[ceilings[r.domain]]
            => r.ceiling \in {Open, Unread} \/ r.ceiling # ceilings[r.domain]

(* "Classification ceiling ... is enforced server-side" (domain.rs:8): a    *)
(* ceiling that dashictl has reported for a domain is in force.  Only a     *)
(* catalogue that upserts can lose it: to another domain create, answered   *)
(* or not, or to an ensure_collection whose GET came before it and whose    *)
(* POST comes after it.                                                     *)
ReportedCeilingsHold ==
    \A k \in Creates : LET d == DomainAt[k] IN
        creates[k] = "reported" /\ ceilings[d] # Given[k] =>
            /\ upserts
            /\ \/ author[d] \in Creates \ {k} /\ ceilings[d] = Given[author[d]]
               \/ /\ author[d] \in Ensures /\ ceilings[d] = Open
                  /\ k \notin ensures[author[d]].seen

(* Retries never ingest an upload twice: whatever fails between /trigger    *)
(* and its answer, of two runs for one object one is the run of a client    *)
(* that has registered the object and not uploaded it.                      *)
UploadsRunOnce ==
    \A r, s \in flowRuns :
        r # s /\ r.key = s.key => r.by \in Registers \/ s.by \in Registers

(* "One Prefect run per submitted file" (Ingest.tsx:217): a submission that *)
(* is over and has not ended in error has created a run for each of its     *)
(* files, in the domain and with the classification that all of them share, *)
(* or none at all.                                                          *)
AllOrNothing ==
    \A c \in Clients : \A t \in 1 .. page[c].try :
        t \notin page[c].failed /\ ~(t = page[c].try /\ page[c].pc \in Busy) =>
            \/ RunsOf(c, t) = {}
            \/ /\ {r.entry : r \in RunsOf(c, t)} = 1 .. Count(c)
               /\ Cardinality(RunsOf(c, t)) = Count(c)
               /\ \A r \in RunsOf(c, t) : IF c \in Registers THEN r.key = Named[c]
                                          ELSE landing[r.key] = Picked[c][r.entry]
               /\ \A r, s \in RunsOf(c, t) : r.domain = s.domain /\ r.cls = s.cls

(* A submission that is under way comes to an end, or to its user.          *)
SubmissionsEnd == \A c \in Clients : (page[c].pc \in Busy) ~> (page[c].pc \notin Busy)
=============================================================================
