---------------------------- MODULE SnapshotLog ----------------------------
(***************************************************************************)
(* What the promotions promise to the readers of the tables, without the    *)
(* calls of a promotion and whatever works next to it: a table is created   *)
(* once, empty, and then only grows, by one snapshot of one promotion at a  *)
(* time, each of rows of that promotion's own; and each promotion adds at   *)
(* most one, and has succeeded only if it has.                              *)
(***************************************************************************)
EXTENDS Sequences

CONSTANTS
    Writers,    \* the promotions
    Tables,
    TableOf,    \* the table of each promotion
    Rows,       \* the files each promotion may read
    Snapshots,
    NoTable     \* a table that has not been created

VARIABLES
    tables,     \* the snapshots of each table, or NoTable
    outcome     \* of each promotion

vars == <<tables, outcome>>

Init ==
    /\ tables = [t \in Tables |-> NoTable]
    /\ outcome \in [Writers -> {"pending", "failed"}]

Create(w) ==
    /\ outcome[w] = "pending"
    /\ tables[TableOf[w]] = NoTable
    /\ tables' = [tables EXCEPT ![TableOf[w]] = <<>>]
    /\ UNCHANGED outcome

(* The promotion learns of it or not.                                       *)
Commit(w) ==
    /\ outcome[w] = "pending"
    /\ tables[TableOf[w]] # NoTable
    /\ \E s \in Snapshots :
         /\ s.by = w /\ s.parts # {} /\ s.parts \subseteq Rows[w]
         /\ tables' = [tables EXCEPT ![TableOf[w]] = Append(@, s)]
    /\ \E o \in {"done", "failed"} : outcome' = [outcome EXCEPT ![w] = o]

GiveUp(w) ==
    /\ outcome[w] = "pending"
    /\ outcome' = [outcome EXCEPT ![w] = "failed"]
    /\ UNCHANGED tables

Next == \E w \in Writers : Create(w) \/ Commit(w) \/ GiveUp(w)

Spec == Init /\ [][Next]_vars
=============================================================================
