---------------------------- MODULE Publication ----------------------------
(***************************************************************************)
(* What ingest promises, without tasks, retries or calls: a dataset becomes *)
(* visible in one step, complete, and stays; and every task gives at most   *)
(* one verdict, which is true when it is given.                             *)
(***************************************************************************)
CONSTANTS
    Items,    \* the datasets
    Runs,     \* the tasks
    Target    \* the dataset of each task

VARIABLES
    complete,   \* datasets whose every file is stored
    published,  \* datasets that readers can find
    verdict     \* what each task has reported

vars == <<complete, published, verdict>>

Init ==
    /\ complete = {}
    /\ published = {}
    /\ verdict = [r \in Runs |-> "pending"]

Report(r, v) ==
    /\ verdict[r] = "pending"
    /\ verdict' = [verdict EXCEPT ![r] = v]

(* Files arrive one by one, unseen; the last one completes a dataset.       *)
Complete(i) ==
    /\ complete' = complete \cup {i}
    /\ UNCHANGED <<published, verdict>>

(* The task's dataset appears; the task reports it, or goes on, or gives up *)
(* because it never learns of it.                                           *)
Publish(r) ==
    /\ Target[r] \in complete
    /\ published' = published \cup {Target[r]}
    /\ UNCHANGED verdict \/ Report(r, "catalogued") \/ Report(r, "failed")
    /\ UNCHANGED complete

(* The task finds its dataset published already.                            *)
Confirm(r) ==
    /\ Target[r] \in published
    /\ Report(r, "catalogued")
    /\ UNCHANGED <<complete, published>>

(* The file is not fit for the catalogue, or cannot be handled here.        *)
Decline(r) ==
    /\ Report(r, "declined")
    /\ UNCHANGED <<complete, published>>

(* Tasks fail, alone or with their flow; the last file of one may be there. *)
GiveUp(S) ==
    /\ \A r \in S : verdict[r] = "pending"
    /\ verdict' = [r \in Runs |-> IF r \in S THEN "failed" ELSE verdict[r]]
    /\ \E T \in SUBSET {Target[r] : r \in S} : complete' = complete \cup T
    /\ UNCHANGED published

Next ==
    \/ \E i \in Items : Complete(i)
    \/ \E r \in Runs : Publish(r) \/ Confirm(r) \/ Decline(r)
    \/ \E S \in SUBSET Runs : GiveUp(S)

Spec == Init /\ [][Next]_vars
=============================================================================
