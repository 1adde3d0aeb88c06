------------------------------ MODULE Iceberg ------------------------------
(***************************************************************************)
(* The promotion flow (flows/iceberg.py): download every Parquet file under *)
(* a prefix, then create the Iceberg table or load it, and append the rows  *)
(* as a new snapshot.  The prefix is listed, the catalogue never asked.     *)
(***************************************************************************)
EXTENDS Lake, Sequences

CONSTANTS
    Promotions,    \* runs of the flow
    Dataset,       \* the item whose files lie under the prefix of each
    Parts,         \* the .parquet keys under that prefix
    TableOf,       \* the table of each
    Tables,
    Namespaces,
    NamespaceOf,   \* the namespace of a table
    NoTable        \* what the Iceberg catalogue holds for an absent table

Snapshots == [by : Promotions, parts : SUBSET Keys, posted : BOOLEAN]

PromotionStates == [
    pc : {"namespace", "createNamespace", "list", "download", "table", "create",
          "load", "append", "done", "failed"},
    left : SUBSET Keys,      \* listed, still to be downloaded
    got : SUBSET Keys,       \* read into the Arrow table
    version : Nat,           \* snapshots of the table when it was loaded
    posted : BOOLEAN]        \* history: the dataset was catalogued when listed

ASSUME IcebergAssumption ==
    /\ Dataset \in [Promotions -> Items]
    /\ Parts \in [Promotions -> SUBSET Keys]
    /\ TableOf \in [Promotions -> Tables]
    /\ NamespaceOf \in [Tables -> Namespaces]
    /\ NoTable \notin Seq(Snapshots)

VARIABLES
    promotion,
    namespaces,    \* those that exist
    tables         \* the snapshots of each table, or NoTable

icebergVars == <<promotion, namespaces, tables>>

IcebergTypeOK ==
    /\ promotion \in [Promotions -> PromotionStates]
    /\ namespaces \subseteq Namespaces
    /\ \A t \in Tables : tables[t] # NoTable => tables[t] \in Seq(Snapshots)

(* What a promotion starts from, and what remains of it at its end.         *)
Forgotten(label) == [pc |-> label, left |-> {}, got |-> {}, version |-> 0, posted |-> FALSE]

(* The promotions of S are about to begin; the others have failed early.    *)
IcebergInit(S) ==
    /\ promotion = [p \in Promotions |-> Forgotten(IF p \in S THEN "namespace" ELSE "failed")]
    /\ namespaces = {}
    /\ tables = [t \in Tables |-> NoTable]

-----------------------------------------------------------------------------

Proceed(p, s) == promotion' = [promotion EXCEPT ![p] = s]

At(p, label) == promotion[p].pc = label

(* A step that fails raises, and the flow has no retries.                   *)
On(p, ok, label) ==
    Proceed(p, IF ok THEN [promotion[p] EXCEPT !.pc = label] ELSE Forgotten("failed"))

Namespace(p) == NamespaceOf[TableOf[p]]

CheckNamespace(p) ==
    /\ At(p, "namespace")
    /\ On(p, TRUE, IF Namespace(p) \in namespaces THEN "list" ELSE "createNamespace")
    /\ UNCHANGED <<namespaces, tables, lakeVars>>

(* Raised when another promotion was faster.                                *)
CreateNamespace(p) ==
    /\ At(p, "createNamespace")
    /\ On(p, Namespace(p) \notin namespaces, "list")
    /\ namespaces' = namespaces \cup {Namespace(p)}
    /\ UNCHANGED <<tables, lakeVars>>

(* Mutant of ListParquet: not every page of the listing is read.            *)
ListSomeParquet(p) ==
    /\ At(p, "list")
    /\ \E S \in SUBSET {k \in Parts[p] : Stored(k)} :
         IF S = {} THEN On(p, FALSE, "download")
         ELSE Proceed(p, [promotion[p] EXCEPT !.pc = "download", !.left = S,
                                              !.posted = Catalogued(Dataset[p])])
    /\ UNCHANGED <<namespaces, tables, lakeVars>>

(* "no .parquet files under ..." is raised when there are none.             *)
ListParquet(p) ==
    LET found == {k \in Parts[p] : Stored(k)} IN
    /\ At(p, "list")
    /\ IF found = {} THEN On(p, FALSE, "download")
       ELSE Proceed(p, [promotion[p] EXCEPT !.pc = "download", !.left = found,
                                            !.posted = Catalogued(Dataset[p])])
    /\ UNCHANGED <<namespaces, tables, lakeVars>>

(* A file that has been deleted since it was listed is answered with a 404. *)
Download(p) ==
    /\ At(p, "download")
    /\ \E k \in promotion[p].left :
         IF Stored(k)
         THEN LET rest == promotion[p].left \ {k} IN
              Proceed(p, [promotion[p] EXCEPT !.left = rest, !.got = @ \cup {k},
                              !.pc = IF rest = {} THEN "table" ELSE "download"])
         ELSE On(p, FALSE, "table")
    /\ UNCHANGED <<namespaces, tables, lakeVars>>

CheckTable(p) ==
    /\ At(p, "table")
    /\ On(p, TRUE, IF tables[TableOf[p]] = NoTable THEN "create" ELSE "load")
    /\ UNCHANGED <<namespaces, tables, lakeVars>>

(* Mutant of CreateTable: a table that is there by now is replaced.         *)
CreateOrReplaceTable(p) ==
    /\ At(p, "create")
    /\ On(p, TRUE, "append")
    /\ tables' = [tables EXCEPT ![TableOf[p]] = <<>>]
    /\ UNCHANGED <<namespaces, lakeVars>>

(* Raised when another promotion was faster.                                *)
CreateTable(p) ==
    LET t == TableOf[p] IN
    /\ At(p, "create")
    /\ On(p, tables[t] = NoTable, "append")
    /\ tables' = IF tables[t] = NoTable THEN [tables EXCEPT ![t] = <<>>] ELSE tables
    /\ UNCHANGED <<namespaces, lakeVars>>

LoadTable(p) ==
    /\ At(p, "load")
    /\ Proceed(p, [promotion[p] EXCEPT !.pc = "append", !.version = Len(tables[TableOf[p]])])
    /\ UNCHANGED <<namespaces, tables, lakeVars>>

(* The table as it was loaded, and one more snapshot.                       *)
Extended(p) ==
    Append(SubSeq(tables[TableOf[p]], 1, promotion[p].version),
           [by |-> p, parts |-> promotion[p].got, posted |-> promotion[p].posted])

(* External: a commit names the snapshot it was built on, and the Iceberg   *)
(* catalogue refuses it when that is no longer the current one.             *)
Current(p) == Len(tables[TableOf[p]]) = promotion[p].version

AppendRows(p) ==
    /\ At(p, "append")
    /\ Proceed(p, Forgotten(IF Current(p) THEN "done" ELSE "failed"))
    /\ tables' = IF Current(p) THEN [tables EXCEPT ![TableOf[p]] = Extended(p)] ELSE tables
    /\ UNCHANGED <<namespaces, lakeVars>>

(* Mutant of AppendUnanswered: the append is tried again.                   *)
AppendAgain(p) ==
    /\ At(p, "append")
    /\ Current(p)
    /\ Proceed(p, [promotion[p] EXCEPT !.version = @ + 1])
    /\ tables' = [tables EXCEPT ![TableOf[p]] = Extended(p)]
    /\ UNCHANGED <<namespaces, lakeVars>>

(* The rows are appended and the answer is lost.                            *)
AppendUnanswered(p) ==
    /\ At(p, "append")
    /\ Current(p)
    /\ Proceed(p, Forgotten("failed"))
    /\ tables' = [tables EXCEPT ![TableOf[p]] = Extended(p)]
    /\ UNCHANGED <<namespaces, lakeVars>>

(* A call fails or the pod is killed.                                       *)
PromotionFails(p) ==
    /\ promotion[p].pc \notin {"done", "failed"}
    /\ On(p, FALSE, "failed")
    /\ UNCHANGED <<namespaces, tables, lakeVars>>

PromotionStep(p) ==
    \/ CheckNamespace(p) \/ CreateNamespace(p) \/ ListParquet(p) \/ Download(p)
    \/ CheckTable(p) \/ CreateTable(p) \/ LoadTable(p) \/ AppendRows(p)

IcebergNext ==
    \E p \in Promotions : PromotionStep(p) \/ AppendUnanswered(p) \/ PromotionFails(p)
=============================================================================
