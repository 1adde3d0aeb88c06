---------------------------- MODULE DeriveProofs ----------------------------
(***************************************************************************)
(* What is derived from the lake, for any number of promotions, tables,     *)
(* layers and files, and whatever ingest and the jobs that delete do        *)
(* meanwhile: promotions keep each other's rows, and a snapshot or an       *)
(* archive of a dataset lacks nothing but for the reasons that              *)
(* SnapshotsAreWhole and ArchivesAreWhole name.                             *)
(***************************************************************************)
EXTENDS Derive, GcProofs, SequenceTheorems, TLAPS

(* The snapshots of table t that promotion p has appended.                  *)
By(p, t) ==
    IF tables[t] = NoTable THEN {} ELSE {n \in DOMAIN tables[t] : tables[t][n].by = p}

TablesInv == tables = [t \in Tables |-> tables[t]] /\ IcebergTypeOK

(* A promotion appends at most once, at its end, to a table that is there.  *)
OnceInv(p) ==
    /\ promotion[p].pc \in {"load", "append"} => tables[TableOf[p]] # NoTable
    /\ promotion[p].pc \notin {"done", "failed"} => \A t \in Tables : By(p, t) = {}
    /\ promotion[p].pc = "done" => \E n \in Nat : By(p, TableOf[p]) = {n}

DeriveInv == TablesInv /\ \A p \in Promotions : OnceInv(p)

-----------------------------------------------------------------------------

LEMMA DeriveInitially == ASSUME DeriveInit PROVE DeriveInv
<1> PICK S \in AtWork : IcebergInit(S)
  BY DEF DeriveInit
<1>1. TablesInv
  BY DEF TablesInv, IcebergTypeOK, IcebergInit, Forgotten, PromotionStates
<1>2. \A p \in Promotions : OnceInv(p)
  BY IcebergAssumption DEF OnceInv, By, IcebergInit, Forgotten, IcebergAssumption
<1>3. QED
  BY <1>1, <1>2 DEF DeriveInv

(* Extended(p) adds one snapshot, by p, to the table it was loaded from.    *)
LEMMA ExtendedIsAppend ==
  ASSUME TablesInv, NEW p \in Promotions, tables[TableOf[p]] # NoTable, Current(p)
  PROVE  Extended(p) = Append(tables[TableOf[p]],
                              [by |-> p, parts |-> promotion[p].got, posted |-> promotion[p].posted])
<1>1. tables[TableOf[p]] \in Seq(Snapshots)
  BY IcebergAssumption DEF TablesInv, IcebergTypeOK, IcebergAssumption
<1>2. SubSeq(tables[TableOf[p]], 1, Len(tables[TableOf[p]])) = tables[TableOf[p]]
  BY <1>1, SubSeqFull
<1>3. QED
  BY <1>2 DEF Extended, Current


LEMMA ExtendedOnce ==
  ASSUME TablesInv, NEW p \in Promotions, tables[TableOf[p]] # NoTable, Current(p)
  PROVE  /\ Extended(p) \in Seq(Snapshots)
         /\ Extended(p) # NoTable
         /\ Len(Extended(p)) = promotion[p].version + 1
         /\ \A n \in 1 .. promotion[p].version : Extended(p)[n] = tables[TableOf[p]][n]
         /\ Extended(p)[promotion[p].version + 1] =
              [by |-> p, parts |-> promotion[p].got, posted |-> promotion[p].posted]
<1> DEFINE t == tables[TableOf[p]]
           s == [by |-> p, parts |-> promotion[p].got, posted |-> promotion[p].posted]
<1>1. t \in Seq(Snapshots) /\ promotion[p] \in PromotionStates
  BY IcebergAssumption DEF TablesInv, IcebergTypeOK, IcebergAssumption
<1>2. s \in Snapshots
  BY <1>1 DEF Snapshots, PromotionStates
<1>3. promotion[p].version = Len(t)
  BY DEF Current
<1>4. Extended(p) = Append(t, s)
  BY ExtendedIsAppend
<1> HIDE DEF s, t
<1>5. /\ Append(t, s) \in Seq(Snapshots)
      /\ Len(Append(t, s)) = Len(t) + 1
      /\ \A n \in 1 .. Len(t) : Append(t, s)[n] = t[n]
      /\ Append(t, s)[Len(t) + 1] = s
  BY <1>1, <1>2, AppendProperties
<1>6. QED
  BY <1>3, <1>4, <1>5, IcebergAssumption DEF IcebergAssumption, t, s

-----------------------------------------------------------------------------
(* The three things a step of promotion p does to the tables: nothing, an   *)
(* empty table where there is none, or one snapshot more.                   *)

LEMMA TablesKept ==
  ASSUME DeriveInv, NEW p \in Promotions, NEW s \in PromotionStates,
         promotion' = [promotion EXCEPT ![p] = s], UNCHANGED tables, namespaces' \subseteq Namespaces,
         s.pc # "done",
         s.pc \in {"load", "append"} => tables[TableOf[p]] # NoTable,
         s.pc = "failed" \/ promotion[p].pc \notin {"done", "failed"}
  PROVE  DeriveInv'
<1>1. TablesInv'
  BY DEF DeriveInv, TablesInv, IcebergTypeOK
<1>2. ASSUME NEW q \in Promotions PROVE OnceInv(q)'
  <2>1. promotion \in [Promotions -> PromotionStates] /\ OnceInv(q)
    BY DEF DeriveInv, TablesInv, IcebergTypeOK
  <2>2. \A t \in Tables : By(q, t)' = By(q, t)
    BY DEF By
  <2>3. By(q, TableOf[q])' = By(q, TableOf[q])
    BY DEF By
  <2>4. QED
    BY <2>1, <2>2, <2>3 DEF OnceInv
<1>3. QED
  BY <1>1, <1>2 DEF DeriveInv

LEMMA TableAdded ==
  ASSUME DeriveInv, NEW p \in Promotions, NEW s \in PromotionStates,
         promotion' = [promotion EXCEPT ![p] = s], UNCHANGED namespaces,
         promotion[p].pc = "create", s.pc = "append",
         tables[TableOf[p]] = NoTable,
         tables' = [tables EXCEPT ![TableOf[p]] = <<>>]
  PROVE  DeriveInv'
<1>1. TableOf[p] \in Tables /\ <<>> \in Seq(Snapshots) /\ <<>> # NoTable
  BY IcebergAssumption, EmptySeq DEF IcebergAssumption
<1>2. TablesInv'
  BY <1>1 DEF DeriveInv, TablesInv, IcebergTypeOK
<1>3. ASSUME NEW q \in Promotions PROVE OnceInv(q)'
  <2>1. promotion \in [Promotions -> PromotionStates] /\ OnceInv(q) /\ TableOf[q] \in Tables
    BY IcebergAssumption DEF IcebergAssumption, DeriveInv, TablesInv, IcebergTypeOK
  <2>2. ASSUME NEW t \in Tables PROVE By(q, t)' = By(q, t)
    <3>1. CASE t # TableOf[p]
      BY <3>1 DEF By, DeriveInv, TablesInv
    <3>2. CASE t = TableOf[p]
      <4>1. tables'[t] = <<>> /\ tables[t] = NoTable
        BY <3>2, <1>1 DEF DeriveInv, TablesInv
      <4>2. DOMAIN tables'[t] = {}
        BY <4>1
      <4>3. QED
        BY <4>1, <4>2, <1>1 DEF By
    <3>3. QED
      BY <3>1, <3>2
  <2>3. tables[TableOf[q]] # NoTable => tables'[TableOf[q]] # NoTable
    BY <1>1, <2>1 DEF DeriveInv, TablesInv
  <2>4. tables'[TableOf[p]] # NoTable
    BY <1>1 DEF DeriveInv, TablesInv
  <2>5. promotion'[q] = IF q = p THEN s ELSE promotion[q]
    BY <2>1
  <2>6. QED
    BY <2>1, <2>2, <2>3, <2>4, <2>5 DEF OnceInv
<1>4. QED
  BY <1>2, <1>3 DEF DeriveInv

LEMMA SnapshotAdded ==
  ASSUME DeriveInv, NEW p \in Promotions, NEW s \in PromotionStates,
         promotion' = [promotion EXCEPT ![p] = s], UNCHANGED namespaces,
         promotion[p].pc = "append", s.pc \in {"done", "failed"}, Current(p),
         tables' = [tables EXCEPT ![TableOf[p]] = Extended(p)]
  PROVE  DeriveInv'
<1> DEFINE v == promotion[p].version
<1>0. /\ promotion \in [Promotions -> PromotionStates]
      /\ TableOf \in [Promotions -> Tables]
      /\ tables[TableOf[p]] # NoTable
  BY IcebergAssumption DEF IcebergAssumption, DeriveInv, TablesInv, IcebergTypeOK, OnceInv
<1>1. /\ tables[TableOf[p]] \in Seq(Snapshots)
      /\ v = Len(tables[TableOf[p]])
      /\ v \in Nat
  BY <1>0 DEF DeriveInv, TablesInv, IcebergTypeOK, Current, PromotionStates
<1>2. /\ Extended(p) \in Seq(Snapshots)
      /\ Extended(p) # NoTable
      /\ Len(Extended(p)) = v + 1
      /\ \A n \in 1 .. v : Extended(p)[n] = tables[TableOf[p]][n]
      /\ Extended(p)[v + 1].by = p
  <2>1. Extended(p)[v + 1] = [by |-> p, parts |-> promotion[p].got, posted |-> promotion[p].posted]
    BY <1>0, ExtendedOnce DEF DeriveInv
  <2>2. Extended(p)[v + 1].by = p
    BY <2>1
  <2>3. QED
    BY <1>0, <2>2, ExtendedOnce DEF DeriveInv
<1> HIDE DEF v
<1>3. \A t \in Tables : tables'[t] = IF t = TableOf[p] THEN Extended(p) ELSE tables[t]
  BY DEF DeriveInv, TablesInv
<1>4. TablesInv'
  BY <1>0, <1>2, <1>3 DEF DeriveInv, TablesInv, IcebergTypeOK
<1>5. /\ DOMAIN tables[TableOf[p]] = 1 .. v
      /\ DOMAIN Extended(p) = 1 .. (v + 1)
  BY <1>1, <1>2
<1>6. ASSUME NEW q \in Promotions, q # p, NEW t \in Tables PROVE By(q, t)' = By(q, t)
  <2>1. CASE t # TableOf[p]
    BY <1>3, <2>1 DEF By
  <2>2. CASE t = TableOf[p]
    <3>1. By(q, t)' = {n \in 1 .. (v + 1) : Extended(p)[n].by = q}
      BY <1>2, <1>3, <1>5, <2>2 DEF By
    <3>2. By(q, t) = {n \in 1 .. v : tables[t][n].by = q}
      BY <1>0, <1>5, <2>2 DEF By
    <3>3. v + 1 \in 1 .. (v + 1) /\ (1 .. (v + 1)) = (1 .. v) \cup {v + 1}
      BY <1>1
    <3>4. QED
      BY <1>2, <1>6, <2>2, <3>1, <3>2, <3>3
  <2>3. QED
    BY <2>1, <2>2
<1>7. By(p, TableOf[p])' = {v + 1}
  <2>1. By(p, TableOf[p]) = {}
    BY <1>0 DEF DeriveInv, OnceInv
  <2>2. \A n \in 1 .. v : tables[TableOf[p]][n].by # p
    BY <1>0, <1>5, <2>1 DEF By
  <2>3. By(p, TableOf[p])' = {n \in 1 .. (v + 1) : Extended(p)[n].by = p}
    BY <1>0, <1>2, <1>3, <1>5 DEF By
  <2>4. v + 1 \in 1 .. (v + 1) /\ (1 .. (v + 1)) = (1 .. v) \cup {v + 1}
    BY <1>1
  <2>5. QED
    BY <1>2, <2>2, <2>3, <2>4
<1>8. ASSUME NEW q \in Promotions PROVE OnceInv(q)'
  <2>1. CASE q = p
    <3>1. promotion'[p] = s /\ v + 1 \in Nat
      BY <1>0, <1>1
    <3>2. QED
      BY <1>7, <2>1, <3>1 DEF OnceInv
  <2>2. CASE q # p
    <3>1. promotion'[q] = promotion[q] /\ OnceInv(q) /\ TableOf[q] \in Tables
      BY <1>0, <2>2 DEF DeriveInv
    <3>2. tables[TableOf[q]] # NoTable => tables'[TableOf[q]] # NoTable
      BY <1>2, <1>3, <3>1
    <3>3. QED
      BY <1>6, <2>2, <3>1, <3>2 DEF OnceInv
  <2>3. QED
    BY <2>1, <2>2
<1>9. QED
  BY <1>4, <1>8 DEF DeriveInv

-----------------------------------------------------------------------------

LEMMA PromotionKeepsInv ==
  ASSUME DeriveInv, NEW p \in Promotions,
         PromotionStep(p) \/ AppendUnanswered(p) \/ PromotionFails(p)
  PROVE  DeriveInv'
<1> DEFINE o == promotion[p]
<1>0. /\ o \in PromotionStates
      /\ OnceInv(p)
      /\ TableOf[p] \in Tables
      /\ Namespace(p) \in Namespaces
      /\ namespaces \subseteq Namespaces
  BY IcebergAssumption DEF IcebergAssumption, DeriveInv, TablesInv, IcebergTypeOK, Namespace
<1>1. \A label \in {"done", "failed"} :
        Forgotten(label) \in PromotionStates /\ Forgotten(label).pc = label
  BY DEF Forgotten, PromotionStates
<1>2. \A label \in {"namespace", "createNamespace", "list", "download", "table", "create",
                    "load", "append"} :
        [o EXCEPT !.pc = label] \in PromotionStates /\ [o EXCEPT !.pc = label].pc = label
  BY <1>0 DEF PromotionStates
<1>3. CASE CheckNamespace(p)
  BY <1>0, <1>2, <1>3, TablesKept DEF CheckNamespace, On, Proceed, At
<1>4. CASE CreateNamespace(p)
  BY <1>0, <1>1, <1>2, <1>4, TablesKept DEF CreateNamespace, On, Proceed, At
<1>5. CASE ListParquet(p)
  <2> DEFINE found == {k \in Parts[p] : Stored(k)}
             s == [o EXCEPT !.pc = "download", !.left = found, !.posted = Catalogued(Dataset[p])]
  <2>1. s \in PromotionStates /\ s.pc = "download"
    BY <1>0, IcebergAssumption DEF PromotionStates, IcebergAssumption, Catalogued
  <2>2. promotion' = [promotion EXCEPT ![p] = Forgotten("failed")]
        \/ promotion' = [promotion EXCEPT ![p] = s]
    BY <1>5 DEF ListParquet, On, Proceed
  <2> HIDE DEF s
  <2>3. UNCHANGED <<namespaces, tables>> /\ o.pc = "list"
    BY <1>5 DEF ListParquet, At
  <2>4. QED
    BY <1>0, <1>1, <2>1, <2>2, <2>3, TablesKept
<1>6. CASE Download(p)
  <2>1. PICK k \in o.left :
          \/ Proceed(p, [o EXCEPT !.left = o.left \ {k}, !.got = o.got \cup {k},
                                  !.pc = IF o.left \ {k} = {} THEN "table" ELSE "download"])
          \/ On(p, FALSE, "table")
    BY <1>6 DEF Download
  <2> DEFINE s == [o EXCEPT !.left = o.left \ {k}, !.got = o.got \cup {k},
                            !.pc = IF o.left \ {k} = {} THEN "table" ELSE "download"]
  <2>2. s \in PromotionStates /\ s.pc \in {"table", "download"}
    BY <1>0 DEF PromotionStates
  <2>3. promotion' = [promotion EXCEPT ![p] = Forgotten("failed")]
        \/ promotion' = [promotion EXCEPT ![p] = s]
    BY <2>1 DEF On, Proceed
  <2> HIDE DEF s
  <2>4. UNCHANGED <<namespaces, tables>> /\ o.pc = "download"
    BY <1>6 DEF Download, At
  <2>5. QED
    BY <1>0, <1>1, <2>2, <2>3, <2>4, TablesKept
<1>7. CASE CheckTable(p)
  BY <1>0, <1>2, <1>7, TablesKept DEF CheckTable, On, Proceed, At
<1>8. CASE CreateTable(p)
  <2>1. CASE tables[TableOf[p]] = NoTable
    BY <1>2, <1>8, <2>1, TableAdded DEF CreateTable, On, Proceed, At
  <2>2. CASE tables[TableOf[p]] # NoTable
    BY <1>0, <1>1, <1>8, <2>2, TablesKept DEF CreateTable, On, Proceed, At
  <2>3. QED
    BY <2>1, <2>2
<1>9. CASE LoadTable(p)
  <2> DEFINE s == [o EXCEPT !.pc = "append", !.version = Len(tables[TableOf[p]])]
  <2>1. tables[TableOf[p]] # NoTable /\ o.pc = "load"
    BY <1>0, <1>9 DEF LoadTable, At, OnceInv
  <2>2. Len(tables[TableOf[p]]) \in Nat
    BY <1>0, <2>1 DEF DeriveInv, TablesInv, IcebergTypeOK
  <2>3. s \in PromotionStates /\ s.pc = "append"
    BY <1>0, <2>2 DEF PromotionStates
  <2>4. promotion' = [promotion EXCEPT ![p] = s] /\ UNCHANGED <<namespaces, tables>>
    BY <1>9 DEF LoadTable, Proceed
  <2> HIDE DEF s
  <2>5. QED
    BY <1>0, <2>1, <2>3, <2>4, TablesKept
<1>10. CASE AppendRows(p)
  <2>1. CASE Current(p)
    BY <1>1, <1>10, <2>1, SnapshotAdded DEF AppendRows, Proceed, At
  <2>2. CASE ~Current(p)
    BY <1>0, <1>1, <1>10, <2>2, TablesKept DEF AppendRows, Proceed, At
  <2>3. QED
    BY <2>1, <2>2
<1>11. CASE AppendUnanswered(p)
  BY <1>1, <1>11, SnapshotAdded DEF AppendUnanswered, Proceed, At
<1>12. CASE PromotionFails(p)
  BY <1>0, <1>1, <1>12, TablesKept DEF PromotionFails, On, Proceed
<1>13. QED
  BY <1>3, <1>4, <1>5, <1>6, <1>7, <1>8, <1>9, <1>10, <1>11, <1>12 DEF PromotionStep

LEMMA InvStep == ASSUME DeriveInv, [DeriveNext]_deriveVars PROVE DeriveInv'
<1>1. CASE UNCHANGED icebergVars
  <2>1. UNCHANGED <<promotion, namespaces, tables>>
    BY <1>1 DEF icebergVars
  <2>2. TablesInv'
    BY <2>1 DEF DeriveInv, TablesInv, IcebergTypeOK
  <2>3. ASSUME NEW p \in Promotions PROVE OnceInv(p)'
    <3>1. OnceInv(p)
      BY DEF DeriveInv
    <3>2. \A t \in Tables : By(p, t)' = By(p, t)
      BY <2>1 DEF By
    <3>3. By(p, TableOf[p])' = By(p, TableOf[p])
      BY <2>1 DEF By
    <3>4. QED
      BY <2>1, <3>1, <3>2, <3>3 DEF OnceInv
  <2>4. QED
    BY <2>2, <2>3 DEF DeriveInv
<1>2. CASE IcebergNext
  BY <1>2, PromotionKeepsInv DEF IcebergNext
<1>3. QED
  BY <1>1, <1>2 DEF DeriveNext, deriveVars, products

LEMMA InvAlways == DeriveSpec => []DeriveInv
BY DeriveInitially, InvStep, PTL DEF DeriveSpec

(* Whatever else is going on, the state of the promotions stays within its  *)
(* type: a table that exists always holds a sequence of snapshots.          *)
THEOREM PromotionTypesAlways == DeriveSpec => []IcebergTypeOK
<1>1. DeriveInv => IcebergTypeOK
  BY DEF DeriveInv, TablesInv
<1>2. QED
  BY <1>1, InvAlways, PTL

(* The rows of a promotion that has succeeded are in its table once, for    *)
(* good: flows/iceberg.py:69-70 calls later runs appends, and the          *)
(* catalogue's refusal of a commit on an old snapshot is what it rests on.  *)
THEOREM AppendsAreAlwaysKept == DeriveSpec => []AppendsAreKept
<1>1. ASSUME DeriveInv, NEW p \in Promotions, promotion[p].pc = "done"
      PROVE  /\ tables[TableOf[p]] # NoTable
             /\ \E n \in DOMAIN tables[TableOf[p]] :
                  /\ tables[TableOf[p]][n].by = p
                  /\ \A m \in DOMAIN tables[TableOf[p]] : tables[TableOf[p]][m].by = p => m = n
  <2>1. PICK n \in Nat : By(p, TableOf[p]) = {n}
    BY <1>1 DEF DeriveInv, OnceInv
  <2>2. QED
    BY <2>1 DEF By
<1>2. DeriveInv => AppendsAreKept
  BY <1>1 DEF AppendsAreKept
<1>3. QED
  BY <1>2, InvAlways, PTL

-----------------------------------------------------------------------------
(* What the derived products can miss.  Of a dataset that is read, a file   *)
(* that ingest has put is there, or a sweep has it among what it decided to *)
(* delete, as long as nobody else deletes the dataset.                      *)

Sources == {Dataset[p] : p \in Promotions} \cup {LayerDataset[l] : l \in Layers}

(* The lake begins empty, as DeriveInit has it, so that nothing in it comes *)
(* of the age that retention deletes; and no item delete is given a source. *)
NobodyDeletesSources ==
    /\ Stocked = {}
    /\ \A c \in Removals : Victim[c] \notin Sources

(* What a promotion or a layer reads are files of its dataset.              *)
PartsAreFiles ==
    /\ \A p \in Promotions : Parts[p] \subseteq FilesOf(Dataset[p])
    /\ \A l \in Layers : LayerParts[l] \subseteq FilesOf(LayerDataset[l])

Lasting(k) == Stored(k) \/ Swept({k})

(* What an attempt has put, UploadKept but for the sweeps.                  *)
LeftBehind(r) ==
    /\ pc[r] = "upload" => \A k \in Tree[r] \ todo[r] : Lasting(k)
    /\ pc[r] \in {"probeCollection", "createCollection", "postItem", "putItem"}
         => \A k \in Tree[r] : Lasting(k)

LastingInv ==
    /\ HouseInv /\ OwnInv
    /\ \A g \in Sweeps : SweptClean(g)
    /\ \A r \in Runs : Target[r] \in Sources => LeftBehind(r)
    /\ \A i \in Sources : Catalogued(i) => \A k \in FilesOf(i) : Lasting(k)

LEMMA SourcesAreItems == Sources \subseteq Items
BY IcebergAssumption, PmtilesAssumption DEF Sources, IcebergAssumption, PmtilesAssumption

(* A sweep does not change its mind.                                        *)
LEMMA SweptGrows ==
  ASSUME HouseInv, [HousekeepingNext]_keepVars, NEW S, Swept(S)
  PROVE  Swept(S)'
<1> DEFINE Decided == {"confirm", "delete", "done", "aborted"}
<1>1. PICK g \in Sweeps : /\ sweep[g].pc \in Decided
                          /\ (sweep[g].listed \ sweep[g].refs) \cap S # {}
  BY DEF Swept
<1>2. /\ sweep'[g].pc \in Decided
      /\ sweep'[g].listed = sweep[g].listed /\ sweep'[g].refs = sweep[g].refs
  <2>1. CASE sweep'[g] = sweep[g]
    BY <1>1, <2>1
  <2>2. CASE sweep'[g] # sweep[g]
    <3>1. SweepChange(g, sweep[g], sweep'[g])
      BY <2>2, SweepFrame, SweepChanges
    <3>2. QED
      BY <1>1, <3>1 DEF SweepChange
  <2>3. QED
    BY <2>1, <2>2
<1>3. QED
  BY <1>1, <1>2 DEF Swept

LEMMA SweptMore == ASSUME NEW S, NEW T, S \subseteq T, Swept(S) PROVE Swept(T)
BY DEF Swept

(* What is deleted of a source has been decided on.                         *)
LEMMA LastingStays ==
  ASSUME NobodyDeletesSources, HouseInv, OwnInv, \A g \in Sweeps : SweptClean(g),
         [HousekeepingNext]_keepVars, NEW i \in Sources, NEW k \in FilesOf(i), Lasting(k)
  PROVE  Lasting(k)'
<1>1. Swept({k}) => Swept({k})'
  BY SweptGrows
<1>2. ASSUME Stored(k), ~Stored(k)' PROVE Swept({k})
  <2>1. k \in Keys /\ StockNamesItsFiles /\ Due = {}
    BY DEF FilesOf, NobodyDeletesSources, StockNamesItsFiles, Due
  <2>2. ASSUME NEW c \in Removals PROVE k \notin FilesOf(Victim[c])
    <3>1. Victim[c] \in Items /\ i \in Items /\ Victim[c] # i
      BY ItemDeleteAssumption, SourcesAreItems DEF NobodyDeletesSources
    <3>2. QED
      BY <3>1, FoldersApart
  <2>3. PICK g \in Sweeps : sweep[g].pc = "delete" /\ k \in sweep[g].orphans
    BY <1>2, <2>1, <2>2, FilesLost
  <2>4. k \in sweep[g].listed \ sweep[g].refs
    BY <2>3 DEF SweptClean
  <2>5. QED
    BY <2>3, <2>4 DEF Swept
<1>3. QED
  BY <1>1, <1>2 DEF Lasting

(* A task that stands still keeps what it has put.                          *)
LEMMA LeftStutter ==
  ASSUME NobodyDeletesSources, TreesFillFolders, LastingInv, [HousekeepingNext]_keepVars,
         NEW r \in Runs, Target[r] \in Sources, todo'[r] = todo[r],
         pc'[r] = pc[r] \/ pc'[r] \notin {"upload", "probeCollection",
                                         "createCollection", "postItem", "putItem"}
  PROVE  LeftBehind(r)'
<1>1. LeftBehind(r)
  BY DEF LastingInv
<1>2. \A k \in Tree[r] : Lasting(k) => Lasting(k)'
  BY LastingStays DEF LastingInv, TreesFillFolders
<1>3. QED
  BY <1>1, <1>2 DEF LeftBehind

LEMMA LeftStep ==
  ASSUME NobodyDeletesSources, TreesFillFolders, LastingInv, [HousekeepingNext]_keepVars,
         NEW s \in Runs, Target[s] \in Sources
  PROVE  LeftBehind(s)'
<1> DEFINE Loaded == {"upload", "probeCollection", "createCollection", "postItem", "putItem"}
<1>0. /\ TypeInv /\ TaskTypeOK /\ LakeTypeOK
      /\ Tree[s] \subseteq Keys
      /\ LeftBehind(s)
  BY IngestAssumption
     DEF LastingInv, HouseInv, HousekeepingTypeOK, IngestTypeOK, TypeInv
<1>1. \A k \in Tree[s] : Lasting(k) => Lasting(k)'
  BY LastingStays DEF LastingInv, TreesFillFolders
<1>2. ASSUME NEW r \in Runs, TaskStep(r) \/ TaskFault(r), s # r PROVE LeftBehind(s)'
  BY <1>0, <1>2, TaskFrame, LeftStutter
<1>3. CASE TaskStep(s)
  <2> USE DEF TaskTypeOK
  <2>1. CASE StartAttempt(s) \/ Validate(s) \/ ProbeItem(s)
    <3>1. pc'[s] \notin Loaded
      BY <1>0, <2>1 DEF StartAttempt, Validate, ProbeItem, Goto, Advance, Return
    <3>2. QED
      BY <3>1 DEF LeftBehind
  <2>2. CASE Transform(s)
    <3>1. pc'[s] \notin Loaded \/ (pc'[s] = "upload" /\ todo'[s] = Tree[s])
      BY <1>0, <2>2 DEF Transform, Goto, Return, Raise
    <3>2. QED
      BY <3>1 DEF LeftBehind
  <2>3. CASE UploadFile(s)
    <3>1. PICK k \in todo[s] : PutObject(k) /\ todo' = [todo EXCEPT ![s] = @ \ {k}]
      BY <2>3 DEF UploadFile
    <3>2. k \in Keys /\ objects'[k] = "fresh"
      BY <1>0, <3>1 DEF PutObject, LakeTypeOK
    <3>3. Tree[s] \ todo'[s] \subseteq (Tree[s] \ todo[s]) \cup {k}
      BY <1>0, <3>1
    <3>4. pc'[s] = "upload" /\ pc[s] = "upload"
      BY <2>3 DEF UploadFile
    <3>5. Lasting(k)'
      BY <3>2 DEF Lasting, Stored
    <3>6. QED
      BY <1>0, <1>1, <3>3, <3>4, <3>5 DEF LeftBehind
  <2>4. CASE UploadDone(s)
    <3>1. pc[s] = "upload" /\ todo[s] = {} /\ pc'[s] = "probeCollection"
      BY <1>0, <2>4 DEF UploadDone, Advance, Goto
    <3>2. QED
      BY <1>0, <1>1, <3>1 DEF LeftBehind
  <2>5. CASE ProbeCollection(s) \/ CreateCollection(s) \/ PostItem(s) \/ PutItem(s)
    <3>1. pc[s] \in Loaded \ {"upload"} /\ pc'[s] # "upload"
      BY <1>0, <2>5 DEF ProbeCollection, CreateCollection, PostItem, PutItem, Advance, Goto,
                  Return, LoseRace, Raise
    <3>2. QED
      BY <1>0, <1>1, <3>1 DEF LeftBehind
  <2>6. QED
    BY <1>3, <2>1, <2>2, <2>3, <2>4, <2>5 DEF TaskStep
<1>4. CASE TaskFault(s)
  <2>1. pc'[s] \notin Loaded
    BY <1>0, <1>4 DEF TaskFault, UseCachedResult, ProbeItemFails, CallFails, AnswerLost, Fault,
                Raise, Goto, TaskTypeOK
  <2>2. QED
    BY <2>1 DEF LeftBehind
<1>5. ASSUME NEW f \in Flows, FlowStep(f) \/ FlowFault(f) PROVE LeftBehind(s)'
  <2>1. todo' = todo /\ (pc'[s] = pc[s] \/ pc'[s] = "lost")
    BY <1>5 DEF FlowStep, FlowFault, StartFlow, FetchFails, CompleteFlow, FailFlow,
                CrashFlow, taskVars
  <2>2. QED
    BY <2>1, LeftStutter
<1>6. CASE UNCHANGED ingestVars
  BY <1>6, LeftStutter DEF ingestVars, taskVars
<1>7. CASE IngestNext
  BY <1>2, <1>3, <1>4, <1>5, <1>7 DEF IngestNext
<1>8. IngestNext \/ UNCHANGED ingestVars
  BY DEF HousekeepingNext, PostByHand, PutByHand, ObjectAges, keepVars, vars
<1>9. QED
  BY <1>6, <1>7, <1>8

(* The files of a source that somebody can find.                            *)
LEMMA CataloguedLast ==
  ASSUME NobodyDeletesSources, TreesFillFolders, LastingInv, [HousekeepingNext]_keepVars,
         NEW i \in Sources, Catalogued(i)', NEW k \in FilesOf(i)
  PROVE  Lasting(k)'
<1>0. /\ LakeTypeOK /\ i \in Items
      /\ Catalogued(i) => Lasting(k)
      /\ \A r \in Runs : Target[r] = i => LeftBehind(r)
  BY SourcesAreItems DEF LastingInv, HouseInv, HousekeepingTypeOK, IngestTypeOK
<1>1. Lasting(k) => Lasting(k)'
  BY <1>0, LastingStays DEF LastingInv
<1>2. CASE catalog' = catalog
  BY <1>0, <1>1, <1>2 DEF Catalogued
<1>3. ASSUME NEW r \in Runs, pc[r] \in {"postItem", "putItem"}, WriteItem(Target[r], BuildItem(r))
      PROVE  Lasting(k)'
  <2>1. CASE Target[r] = i
    <3>1. k \in Tree[r]
      BY <2>1 DEF TreesFillFolders
    <3>2. QED
      BY <1>0, <1>1, <1>3, <2>1, <3>1 DEF LeftBehind
  <2>2. CASE Target[r] # i
    BY <1>0, <1>1, <1>3, <2>2 DEF WriteItem, Catalogued, LakeTypeOK
  <2>3. QED
    BY <2>1, <2>2
<1>4. ASSUME NEW j \in ByHand, PostByHand(j) PROVE Lasting(k)'
  <2>1. PICK rec : WriteItem(j, rec)
    BY <1>4 DEF PostByHand
  <2>2. CASE j = i
    BY <1>1, <1>4, <2>2 DEF PostByHand, Lasting
  <2>3. CASE j # i
    BY <1>0, <1>1, <2>1, <2>3 DEF WriteItem, Catalogued, LakeTypeOK
  <2>4. QED
    BY <2>2, <2>3
<1>5. CASE IngestNext /\ UNCHANGED keepers
  BY <1>2, <1>3, <1>5, IngestEffects DEF LastingInv, lakeVars
<1>6. CASE GcNext
  BY <1>2, <1>6, SweepEffects DEF GcNext, lakeVars
<1>7. ASSUME NEW j, WriteItem(j, NoItem) PROVE Lasting(k)'
  BY <1>0, <1>1, <1>7 DEF WriteItem, Catalogued, LakeTypeOK
<1>8. CASE RetentionNext
  BY <1>2, <1>7, <1>8, RetentionEffects DEF RetentionNext, lakeVars
<1>9. CASE ItemDeleteNext
  BY <1>2, <1>7, <1>9, RemovalEffects DEF ItemDeleteNext, lakeVars
<1>10. QED
  BY <1>2, <1>4, <1>5, <1>6, <1>8, <1>9
     DEF HousekeepingNext, PutByHand, ObjectAges, keepVars, vars, lakeVars

LEMMA LastingStep ==
  ASSUME NobodyDeletesSources, TreesFillFolders, LastingInv, [HousekeepingNext]_keepVars
  PROVE  LastingInv'
<1>1. HouseInv' /\ OwnInv'
  BY HouseStep, OwnStep DEF LastingInv
<1>2. \A g \in Sweeps : SweptClean(g)'
  BY SweptStep DEF LastingInv
<1>3. ASSUME NEW i \in Sources, Catalogued(i)', NEW k \in FilesOf(i)' PROVE Lasting(k)'
  <2>1. k \in FilesOf(i)
    BY DEF FilesOf
  <2>2. QED
    BY <1>3, <2>1, CataloguedLast
<1>4. QED
  BY <1>1, <1>2, <1>3, LeftStep DEF LastingInv

(* The lake is empty at first.                                              *)
LEMMA LastingInit == ASSUME DeriveInit PROVE LastingInv
<1> PICK S \in AtWork : GcInit(S)
  BY DEF DeriveInit
<1> USE DEF DeriveInit, Init
<1>1. LakeTypeOK /\ OldIsStock
  BY LakeAssumption DEF LakeTypeOK, OldIsStock, Catalogued
<1>2. GcTypeOK
  BY DEF GcInit, GcTypeOK, SweepStates
<1>3. HouseInv
  BY <1>1, <1>2, HouseBegins
<1>4. \A g \in Sweeps : SweptClean(g)
  BY DEF GcInit, SweptClean
<1>5. \A r \in Runs : LeftBehind(r)
  BY DEF IngestInit, LeftBehind
<1>6. \A i \in Items : ~Catalogued(i)
  BY DEF Catalogued
<1>7. OwnInv
  BY <1>6 DEF OwnInv, Own, ItemDeleteInit
<1>8. QED
  BY <1>3, <1>4, <1>5, <1>6, <1>7, SourcesAreItems DEF LastingInv

(* Who moves: the lake and its keepers, a promotion, or a PMTiles job.      *)
LEMMA Movers ==
  ASSUME [DeriveNext]_deriveVars
  PROVE  \/ [HousekeepingNext]_keepVars /\ UNCHANGED products
         \/ UNCHANGED keepVars /\ IcebergNext /\ UNCHANGED pmtilesVars
         \/ UNCHANGED keepVars /\ PmtilesNext /\ UNCHANGED icebergVars
<1>1. IcebergNext => UNCHANGED lakeVars
  BY DEF IcebergNext, PromotionStep, CheckNamespace, CreateNamespace, ListParquet, Download,
         CheckTable, CreateTable, LoadTable, AppendRows, AppendUnanswered, PromotionFails, lakeVars
<1>2. PmtilesNext => UNCHANGED lakeVars
  BY DEF PmtilesNext, LayerStep, ListLayer, DownloadLayer, ConvertLayer, UploadLayer, AttemptBreaks,
         lakeVars
<1>3. QED
  BY <1>1, <1>2 DEF DeriveNext, deriveVars, keepVars, vars

-----------------------------------------------------------------------------
(* What has been read.                                                      *)

(* All of T, or a sweep has set out to delete of it.                        *)
AllOf(T, S) == S = T \/ Swept(T)

(* A listing of a dataset that is catalogued finds all its files.           *)
LEMMA ListingFinds ==
  ASSUME LastingInv, NEW i \in Sources, Catalogued(i), NEW T, T \subseteq FilesOf(i)
  PROVE  AllOf(T, {k \in T : Stored(k)})
<1>1. CASE \A k \in T : Stored(k)
  BY <1>1 DEF AllOf
<1>2. ASSUME NEW k \in T, ~Stored(k) PROVE Swept(T)
  <2>1. Swept({k})
    BY <1>2 DEF LastingInv, Lasting
  <2>2. QED
    BY <2>1, SweptMore
<1>3. QED
  BY <1>1, <1>2 DEF AllOf

Listed(p, s) ==
    /\ s.pc \in {"namespace", "createNamespace", "list"} => s.got = {}
    /\ s.pc = "download" /\ s.posted => AllOf(Parts[p], s.left \cup s.got)
    /\ s.pc \in {"table", "create", "load", "append"} /\ s.posted => AllOf(Parts[p], s.got)

LEMMA ListedStep ==
  ASSUME PartsAreFiles, DeriveInv, LastingInv, NEW p \in Promotions, Listed(p, promotion[p]),
         PromotionStep(p) \/ AppendUnanswered(p) \/ PromotionFails(p)
  PROVE  /\ Listed(p, promotion'[p])
         /\ \A q \in Promotions \ {p} : promotion'[q] = promotion[q]
<1> DEFINE o == promotion[p]
           s == promotion'[p]
<1>0. promotion \in [Promotions -> PromotionStates] /\ o \in PromotionStates
  BY DEF DeriveInv, TablesInv, IcebergTypeOK
<1>1. \A q \in Promotions \ {p} : promotion'[q] = promotion[q]
  BY <1>0 DEF PromotionStep, CheckNamespace, CreateNamespace, ListParquet, Download,
         CheckTable, CreateTable, LoadTable, AppendRows, AppendUnanswered, PromotionFails,
         On, Proceed
<1> SUFFICES Listed(p, s)
  BY <1>1
<1>2. \A label \in {"done", "failed"} : Listed(p, Forgotten(label))
  BY DEF Listed, Forgotten
<1>3. \A n : Proceed(p, n) => s = n
  BY <1>0 DEF Proceed
<1>4. ASSUME NEW label, NEW ok, On(p, ok, label)
      PROVE  \/ s = Forgotten("failed")
             \/ s.pc = label /\ s.got = o.got /\ s.left = o.left /\ s.posted = o.posted
  <2>1. s = Forgotten("failed") \/ s = [o EXCEPT !.pc = label]
    BY <1>3, <1>4 DEF On
  <2>2. QED
    BY <1>0, <2>1 DEF PromotionStates
<1>5. CASE CheckNamespace(p) \/ CreateNamespace(p)
  <2>1. \/ s = Forgotten("failed")
        \/ s.pc \in {"createNamespace", "list"} /\ s.got = o.got
    BY <1>4, <1>5 DEF CheckNamespace, CreateNamespace
  <2>2. o.got = {}
    BY <1>5 DEF CheckNamespace, CreateNamespace, At, Listed
  <2>3. QED
    BY <1>2, <2>1, <2>2 DEF Listed
<1>6. CASE ListParquet(p)
  <2> DEFINE found == {k \in Parts[p] : Stored(k)}
             n == [o EXCEPT !.pc = "download", !.left = found, !.posted = Catalogued(Dataset[p])]
  <2>1. On(p, FALSE, "download") \/ Proceed(p, n)
    BY <1>6 DEF ListParquet
  <2>2. o.got = {}
    BY <1>6 DEF ListParquet, At, Listed
  <2>3. Catalogued(Dataset[p]) => AllOf(Parts[p], found)
    BY ListingFinds DEF Sources, PartsAreFiles
  <2> HIDE DEF found
  <2>4. CASE On(p, FALSE, "download")
    BY <1>2, <1>3, <2>4 DEF On
  <2>5. CASE Proceed(p, n)
    <3>1. n.pc = "download" /\ n.left = found /\ n.got = {} /\ n.posted = Catalogued(Dataset[p])
      BY <1>0, <2>2 DEF PromotionStates
    <3>2. n.left \cup n.got = found
      BY <3>1
    <3> HIDE DEF n
    <3>3. Listed(p, n)
      BY <2>3, <3>1, <3>2 DEF Listed
    <3>4. QED
      BY <1>3, <2>5, <3>3
  <2>6. QED
    BY <2>1, <2>4, <2>5
<1>7. CASE Download(p)
  <2>1. PICK k \in o.left :
          \/ Proceed(p, [o EXCEPT !.left = o.left \ {k}, !.got = o.got \cup {k},
                                  !.pc = IF o.left \ {k} = {} THEN "table" ELSE "download"])
          \/ On(p, FALSE, "table")
    BY <1>7 DEF Download
  <2> DEFINE n == [o EXCEPT !.left = o.left \ {k}, !.got = o.got \cup {k},
                            !.pc = IF o.left \ {k} = {} THEN "table" ELSE "download"]
  <2>2. o.posted => AllOf(Parts[p], o.left \cup o.got)
    BY <1>7 DEF Download, At, Listed
  <2>3. /\ n.left = o.left \ {k} /\ n.got = o.got \cup {k} /\ n.posted = o.posted
        /\ n.pc = IF o.left \ {k} = {} THEN "table" ELSE "download"
    BY <1>0 DEF PromotionStates
  <2>4. n.left \cup n.got = o.left \cup o.got /\ (n.pc = "table" => n.got = o.left \cup o.got)
    BY <2>3
  <2>5. Proceed(p, n) \/ On(p, FALSE, "table")
    BY <2>1
  <2> HIDE DEF n
  <2>6. Listed(p, n)
    BY <2>2, <2>3, <2>4 DEF Listed
  <2>7. QED
    BY <1>2, <1>3, <2>5, <2>6 DEF On
<1>8. CASE CheckTable(p) \/ CreateTable(p) \/ LoadTable(p)
  <2>1. CASE LoadTable(p)
    <3> DEFINE n == [o EXCEPT !.pc = "append", !.version = Len(tables[TableOf[p]])]
    <3>1. n.pc = "append" /\ n.got = o.got /\ n.posted = o.posted
      BY <1>0 DEF PromotionStates
    <3>2. s = n
      BY <1>3, <2>1 DEF LoadTable
    <3>3. QED
      BY <2>1, <3>1, <3>2 DEF LoadTable, At, Listed
  <2>2. CASE CheckTable(p) \/ CreateTable(p)
    <3>1. \/ s = Forgotten("failed")
          \/ s.pc \in {"create", "load", "append"} /\ s.got = o.got /\ s.posted = o.posted
      BY <1>4, <2>2 DEF CheckTable, CreateTable
    <3>2. o.posted => AllOf(Parts[p], o.got)
      BY <2>2 DEF CheckTable, CreateTable, At, Listed
    <3>3. QED
      BY <1>2, <3>1, <3>2 DEF Listed
  <2>3. QED
    BY <1>8, <2>1, <2>2
<1>9. CASE AppendRows(p) \/ AppendUnanswered(p) \/ PromotionFails(p)
  BY <1>2, <1>3, <1>9 DEF AppendRows, AppendUnanswered, PromotionFails, On
<1>10. QED
  BY <1>5, <1>6, <1>7, <1>8, <1>9 DEF PromotionStep

Snapped(s) == s.posted => AllOf(Parts[s.by], s.parts)

LEMMA SnapshotsStep ==
  ASSUME DeriveInv, NEW p \in Promotions, Listed(p, promotion[p]), SnapshotsAreWhole,
         PromotionStep(p) \/ AppendUnanswered(p) \/ PromotionFails(p)
  PROVE  \A t \in Tables : tables'[t] # NoTable =>
            \A n \in DOMAIN tables'[t] : Snapped(tables'[t][n])
<1> DEFINE o == promotion[p]
           w == TableOf[p]
<1>0. /\ w \in Tables /\ OnceInv(p) /\ TablesInv
      /\ o \in PromotionStates
  BY IcebergAssumption DEF IcebergAssumption, DeriveInv, TablesInv, IcebergTypeOK
<1>1. \A t \in Tables : tables[t] # NoTable => \A n \in DOMAIN tables[t] : Snapped(tables[t][n])
  BY DEF SnapshotsAreWhole, Snapped, AllOf
<1>2. CASE UNCHANGED tables
  BY <1>1, <1>2
<1>3. CASE tables' = [tables EXCEPT ![w] = <<>>]
  BY <1>0, <1>1, <1>3 DEF TablesInv
<1>4. CASE o.pc = "append" /\ Current(p) /\ tables' = [tables EXCEPT ![w] = Extended(p)]
  <2> DEFINE v == o.version
             new == [by |-> p, parts |-> o.got, posted |-> o.posted]
  <2>1. tables[w] # NoTable /\ tables[w] \in Seq(Snapshots) /\ v = Len(tables[w]) /\ v \in Nat
    BY <1>0, <1>4 DEF OnceInv, TablesInv, IcebergTypeOK, Current, PromotionStates
  <2>2. /\ Extended(p) \in Seq(Snapshots)
        /\ Len(Extended(p)) = v + 1
        /\ \A n \in 1 .. v : Extended(p)[n] = tables[w][n]
        /\ Extended(p)[v + 1] = new
    BY <1>4, <2>1, ExtendedOnce DEF DeriveInv
  <2>3. Snapped(new)
    <3>1. o.posted => AllOf(Parts[p], o.got)
      BY <1>4 DEF Listed
    <3>2. QED
      BY <3>1 DEF Snapped
  <2> HIDE DEF new, v
  <2>4. DOMAIN Extended(p) = 1 .. (v + 1) /\ DOMAIN tables[w] = 1 .. v
    BY <2>1, <2>2
  <2>5. \A n \in 1 .. v : Snapped(tables[w][n])
    BY <1>0, <1>1, <2>1, <2>4
  <2>6. \A n \in 1 .. (v + 1) : n \in 1 .. v \/ n = v + 1
    BY <2>1
  <2>7. \A n \in DOMAIN Extended(p) : Snapped(Extended(p)[n])
    BY <2>2, <2>3, <2>4, <2>5, <2>6
  <2>8. \A t \in Tables : tables'[t] = IF t = w THEN Extended(p) ELSE tables[t]
    BY <1>4 DEF DeriveInv, TablesInv
  <2>9. QED
    BY <1>1, <2>7, <2>8
<1>5. QED
  BY <1>2, <1>3, <1>4 DEF PromotionStep, CheckNamespace, CreateNamespace, ListParquet, Download,
         CheckTable, CreateTable, LoadTable, AppendRows, AppendUnanswered, PromotionFails, At

-----------------------------------------------------------------------------
(* The same for the job of a layer, but for the files ogr2ogr failed on.    *)

Tiled(l, s) ==
    /\ s.pc = "list" => s.got = {}
    /\ s.pc = "download" /\ s.posted => AllOf(LayerParts[l], s.left \cup s.got)
    /\ s.pc = "convert" /\ s.posted => AllOf(LayerParts[l], s.got)
    /\ s.pc = "upload" /\ s.posted /\ ~s.dropped => AllOf(LayerParts[l], s.got)

LEMMA TiledStep ==
  ASSUME PartsAreFiles, LastingInv, PmtilesTypeOK, NEW l \in Layers, Tiled(l, job[l]),
         LayerStep(l) \/ AttemptBreaks(l)
  PROVE  /\ \E s \in JobStates : Tiled(l, s) /\ job' = [job EXCEPT ![l] = s]
         /\ \/ UNCHANGED archive
            \/ /\ archive' = [archive EXCEPT ![l] = Built(l)]
               /\ Built(l).posted /\ ~Built(l).dropped => AllOf(LayerParts[l], Built(l).parts)
<1> DEFINE o == job[l]
           Goal == \E s \in JobStates : Tiled(l, s) /\ job' = [job EXCEPT ![l] = s]
<1>0. o \in JobStates /\ BackoffLimit \in Nat
  BY PmtilesAssumption DEF PmtilesTypeOK, PmtilesAssumption
<1>1. \A label \in {"list", "complete", "failed"}, n \in 1 .. BackoffLimit + 1, e \in BOOLEAN :
        Fresh(label, n, e) \in JobStates /\ Tiled(l, Fresh(label, n, e))
  BY DEF Fresh, JobStates, Tiled
<1>2. ASSUME NEW e \in BOOLEAN, AttemptFails(l, e) PROVE Goal
  <2>1. /\ o.attempt \in 1 .. BackoffLimit + 1
        /\ o.attempt <= BackoffLimit => o.attempt + 1 \in 1 .. BackoffLimit + 1
    BY <1>0 DEF JobStates
  <2>2. QED
    BY <1>1, <1>2, <2>1 DEF AttemptFails, Become
<1>3. CASE ListLayer(l)
  <2> DEFINE found == {k \in LayerParts[l] : Stored(k)}
             s == [o EXCEPT !.pc = IF found = {} THEN "convert" ELSE "download",
                            !.left = found, !.posted = Catalogued(LayerDataset[l]),
                            !.excuse = o.excuse \/ found # {}]
  <2>1. job' = [job EXCEPT ![l] = s]
    BY <1>3 DEF ListLayer, Become
  <2>3. Catalogued(LayerDataset[l]) => AllOf(LayerParts[l], found)
    BY ListingFinds DEF Sources, PartsAreFiles
  <2>4. found \in SUBSET Keys
    BY PmtilesAssumption DEF PmtilesAssumption
  <2> HIDE DEF found
  <2>5. /\ s \in JobStates /\ s.left = found /\ s.got = o.got
        /\ s.posted = Catalogued(LayerDataset[l])
        /\ s.pc = "download" \/ (s.pc = "convert" /\ found = {})
    BY <1>0, <2>4 DEF JobStates, Catalogued
  <2>6. s.left \cup s.got = found /\ (s.pc = "convert" => s.got = found)
    BY <1>3, <2>5 DEF ListLayer, Tiled
  <2>7. Tiled(l, s)
    BY <2>3, <2>5, <2>6 DEF Tiled
  <2> HIDE DEF s
  <2>8. QED
    BY <1>3, <2>1, <2>5, <2>7 DEF ListLayer
<1>4. CASE DownloadLayer(l)
  <2>1. PICK k \in o.left :
          \/ Become(l, [o EXCEPT !.left = o.left \ {k}, !.got = o.got \cup {k},
                                 !.pc = IF o.left \ {k} = {} THEN "convert" ELSE "download"])
          \/ AttemptFails(l, TRUE)
    BY <1>4 DEF DownloadLayer
  <2> DEFINE s == [o EXCEPT !.left = o.left \ {k}, !.got = o.got \cup {k},
                            !.pc = IF o.left \ {k} = {} THEN "convert" ELSE "download"]
  <2>2. /\ s \in JobStates /\ s.left = o.left \ {k} /\ s.got = o.got \cup {k}
        /\ s.posted = o.posted
        /\ s.pc = IF o.left \ {k} = {} THEN "convert" ELSE "download"
    BY <1>0 DEF JobStates
  <2>3. s.left \cup s.got = o.left \cup o.got /\ (s.pc = "convert" => s.got = o.left \cup o.got)
    BY <2>2
  <2>4. Tiled(l, s)
    BY <1>4, <2>2, <2>3 DEF DownloadLayer, Tiled
  <2>5. job' = [job EXCEPT ![l] = s] \/ AttemptFails(l, TRUE)
    BY <2>1 DEF Become
  <2> HIDE DEF s
  <2>6. QED
    BY <1>2, <1>4, <2>2, <2>4, <2>5 DEF DownloadLayer
<1>5. CASE ConvertLayer(l)
  <2>1. PICK c \in SUBSET o.got :
          \/ Become(l, [o EXCEPT !.pc = "upload", !.got = c, !.dropped = c # o.got])
          \/ AttemptFails(l, o.excuse)
    BY <1>5 DEF ConvertLayer
  <2> DEFINE s == [o EXCEPT !.pc = "upload", !.got = c, !.dropped = c # o.got]
  <2>2. /\ s \in JobStates /\ s.pc = "upload" /\ s.got = c /\ s.posted = o.posted
        /\ s.dropped = (c # o.got)
    BY <1>0 DEF JobStates
  <2>3. Tiled(l, s)
    BY <1>5, <2>2 DEF ConvertLayer, Tiled
  <2>4. job' = [job EXCEPT ![l] = s] \/ AttemptFails(l, o.excuse)
    BY <2>1 DEF Become
  <2>5. o.excuse \in BOOLEAN
    BY <1>0 DEF JobStates
  <2> HIDE DEF s
  <2>6. QED
    BY <1>2, <1>5, <2>2, <2>3, <2>4, <2>5 DEF ConvertLayer
<1>6. o.pc = "upload" /\ Built(l).posted /\ ~Built(l).dropped => AllOf(LayerParts[l], Built(l).parts)
  BY DEF Built, Tiled
<1>7. CASE UploadLayer(l)
  <2>1. o.attempt \in 1 .. BackoffLimit + 1 /\ o.excuse \in BOOLEAN
    BY <1>0 DEF JobStates
  <2>2. QED
    BY <1>1, <1>6, <1>7, <2>1 DEF UploadLayer, Become
<1>8. CASE AttemptBreaks(l)
  BY <1>2, <1>6, <1>8 DEF AttemptBreaks
<1>9. QED
  BY <1>3, <1>4, <1>5, <1>7, <1>8 DEF LayerStep

-----------------------------------------------------------------------------
ReadersInv ==
    /\ DeriveInv /\ PmtilesTypeOK /\ LastingInv
    /\ \A p \in Promotions : Listed(p, promotion[p])
    /\ \A l \in Layers : Tiled(l, job[l])
    /\ SnapshotsAreWhole /\ ArchivesAreWhole

LEMMA PmtilesInitially == ASSUME DeriveInit PROVE PmtilesTypeOK
<1> PICK S \in AtWork : PmtilesInit(S)
  BY DEF DeriveInit
<1>1. \A label \in {"list", "failed"}, e \in BOOLEAN : Fresh(label, 1, e) \in JobStates
  BY PmtilesAssumption DEF PmtilesAssumption, Fresh, JobStates
<1>2. QED
  BY <1>1 DEF PmtilesTypeOK, PmtilesInit

LEMMA ReadersInit == DeriveInit => ReadersInv
<1> SUFFICES ASSUME DeriveInit PROVE ReadersInv
  OBVIOUS
<1> PICK S \in AtWork : IcebergInit(S) /\ PmtilesInit(S)
  BY DEF DeriveInit
<1>1. DeriveInv /\ LastingInv
  BY DeriveInitially, LastingInit
<1>2. PmtilesTypeOK
  BY PmtilesInitially
<1>3. \A p \in Promotions : Listed(p, promotion[p])
  BY DEF IcebergInit, Forgotten, Listed
<1>4. \A l \in Layers : Tiled(l, job[l])
  BY DEF PmtilesInit, Fresh, Tiled
<1>5. SnapshotsAreWhole /\ ArchivesAreWhole
  BY DEF IcebergInit, PmtilesInit, SnapshotsAreWhole, ArchivesAreWhole
<1>6. QED
  BY <1>1, <1>2, <1>3, <1>4, <1>5 DEF ReadersInv

(* While the others work, what has been read stays as complete as it was.   *)
LEMMA ReadersWait ==
  ASSUME ReadersInv, [HousekeepingNext]_keepVars, UNCHANGED products
  PROVE  /\ PmtilesTypeOK'
         /\ \A p \in Promotions : Listed(p, promotion[p])'
         /\ \A l \in Layers : Tiled(l, job[l])'
         /\ SnapshotsAreWhole' /\ ArchivesAreWhole'
<1>0. HouseInv /\ UNCHANGED <<promotion, tables, job, archive>>
  BY DEF ReadersInv, LastingInv, products, icebergVars, pmtilesVars
<1>1. \A T : Swept(T) => Swept(T)'
  BY <1>0, SweptGrows
<1>2. \A T, U : AllOf(T, U) => AllOf(T, U)'
  BY <1>1 DEF AllOf
<1>3. PmtilesTypeOK'
  BY <1>0 DEF ReadersInv, PmtilesTypeOK
<1>4. ASSUME NEW p \in Promotions PROVE Listed(p, promotion[p])'
  BY <1>0, <1>2 DEF ReadersInv, Listed
<1>5. ASSUME NEW l \in Layers PROVE Tiled(l, job[l])'
  BY <1>0, <1>2 DEF ReadersInv, Tiled
<1>6. SnapshotsAreWhole'
  BY <1>0, <1>1 DEF ReadersInv, SnapshotsAreWhole
<1>7. ArchivesAreWhole'
  BY <1>0, <1>1 DEF ReadersInv, ArchivesAreWhole
<1>8. QED
  BY <1>3, <1>4, <1>5, <1>6, <1>7

LEMMA ReadersStep ==
  ASSUME NobodyDeletesSources, TreesFillFolders, PartsAreFiles, ReadersInv, [DeriveNext]_deriveVars
  PROVE  ReadersInv'
<1>0. [HousekeepingNext]_keepVars
  BY Movers
<1>1. DeriveInv' /\ LastingInv'
  BY <1>0, InvStep, LastingStep DEF ReadersInv
<1>2. CASE UNCHANGED products
  BY <1>0, <1>1, <1>2, ReadersWait DEF ReadersInv
<1>3. UNCHANGED keepVars => \A T : Swept(T)' <=> Swept(T)
  BY DEF keepVars, keepers, Swept
<1>4. CASE UNCHANGED keepVars /\ IcebergNext /\ UNCHANGED pmtilesVars
  <2>1. PICK p \in Promotions : PromotionStep(p) \/ AppendUnanswered(p) \/ PromotionFails(p)
    BY <1>4 DEF IcebergNext
  <2>2. \A T, U : AllOf(T, U)' <=> AllOf(T, U)
    BY <1>3, <1>4 DEF AllOf
  <2>3. /\ Listed(p, promotion'[p])
        /\ \A q \in Promotions \ {p} : promotion'[q] = promotion[q]
    BY <2>1, ListedStep DEF ReadersInv
  <2>4. ASSUME NEW q \in Promotions PROVE Listed(q, promotion[q])'
    <3>1. Listed(q, promotion'[q])
      BY <2>3 DEF ReadersInv
    <3>2. QED
      BY <2>2, <3>1 DEF Listed
  <2>5. SnapshotsAreWhole'
    <3>1. \A t \in Tables : tables'[t] # NoTable =>
             \A n \in DOMAIN tables'[t] : Snapped(tables'[t][n])
      BY <2>1, SnapshotsStep DEF ReadersInv
    <3>2. QED
      BY <1>3, <1>4, <3>1 DEF SnapshotsAreWhole, Snapped, AllOf
  <2>6. UNCHANGED <<job, archive>>
    BY <1>4 DEF pmtilesVars
  <2>7. PmtilesTypeOK'
    BY <2>6 DEF ReadersInv, PmtilesTypeOK
  <2>8. ASSUME NEW l \in Layers PROVE Tiled(l, job[l])'
    BY <2>2, <2>6 DEF ReadersInv, Tiled
  <2>9. ArchivesAreWhole'
    BY <1>3, <1>4, <2>6 DEF ReadersInv, ArchivesAreWhole
  <2>10. QED
    BY <1>1, <2>4, <2>5, <2>7, <2>8, <2>9 DEF ReadersInv
<1>5. CASE UNCHANGED keepVars /\ PmtilesNext /\ UNCHANGED icebergVars
  <2>1. PICK l \in Layers : LayerStep(l) \/ AttemptBreaks(l)
    BY <1>5 DEF PmtilesNext
  <2>2. \A T, U : AllOf(T, U)' <=> AllOf(T, U)
    BY <1>3, <1>5 DEF AllOf
  <2>3. PICK s \in JobStates : Tiled(l, s) /\ job' = [job EXCEPT ![l] = s]
    BY <2>1, TiledStep DEF ReadersInv
  <2>4. \/ UNCHANGED archive
        \/ /\ archive' = [archive EXCEPT ![l] = Built(l)]
           /\ Built(l).posted /\ ~Built(l).dropped => AllOf(LayerParts[l], Built(l).parts)
    BY <2>1, TiledStep DEF ReadersInv
  <2>5. job \in [Layers -> JobStates] /\ archive \in [Layers -> Archives \cup {NoArchive}]
    BY DEF ReadersInv, PmtilesTypeOK
  <2>6. Built(l) \in Archives
    BY <2>5 DEF Built, Archives, JobStates
  <2>7. PmtilesTypeOK'
    BY <2>3, <2>4, <2>5, <2>6 DEF PmtilesTypeOK
  <2>8. ASSUME NEW m \in Layers PROVE Tiled(m, job[m])'
    <3>1. Tiled(m, job'[m])
      BY <2>3, <2>5 DEF ReadersInv
    <3>2. QED
      BY <2>2, <3>1 DEF Tiled
  <2>9. ASSUME NEW m \in Layers
        PROVE  \/ archive'[m] = NoArchive
               \/ archive'[m].parts = LayerParts[m]
               \/ ~archive'[m].posted \/ archive'[m].dropped \/ Swept(LayerParts[m])'
    <3>1. CASE archive'[m] = archive[m]
      BY <1>3, <1>5, <3>1 DEF ReadersInv, ArchivesAreWhole
    <3>2. CASE archive'[m] # archive[m]
      <4>1. m = l /\ archive'[m] = Built(l)
        BY <2>4, <2>5, <3>2
      <4>2. QED
        BY <1>3, <1>5, <2>4, <3>2, <4>1 DEF AllOf
    <3>3. QED
      BY <3>1, <3>2
  <2>10. ArchivesAreWhole'
    BY <2>9 DEF ArchivesAreWhole
  <2>11. UNCHANGED <<promotion, tables>>
    BY <1>5 DEF icebergVars
  <2>12. ASSUME NEW p \in Promotions PROVE Listed(p, promotion[p])'
    BY <2>2, <2>11 DEF ReadersInv, Listed
  <2>13. SnapshotsAreWhole'
    BY <1>3, <1>5, <2>11 DEF ReadersInv, SnapshotsAreWhole
  <2>14. QED
    BY <1>1, <2>7, <2>8, <2>10, <2>12, <2>13 DEF ReadersInv
<1>6. QED
  BY <1>2, <1>4, <1>5, Movers

LEMMA ReadersAlways ==
  NobodyDeletesSources /\ TreesFillFolders /\ PartsAreFiles => (DeriveSpec => []ReadersInv)
<1> SUFFICES ASSUME NobodyDeletesSources, TreesFillFolders, PartsAreFiles
             PROVE  DeriveSpec => []ReadersInv
  OBVIOUS
<1>1. ReadersInv /\ [DeriveNext]_deriveVars => ReadersInv'
  BY ReadersStep
<1>2. QED
  BY <1>1, ReadersInit, PTL DEF DeriveSpec

(* A promotion that lists a prefix after its dataset was catalogued appends *)
(* the whole dataset, for every number of files and sweeps, unless gc has   *)
(* decided to delete some of it: a 404 ends the run instead of a snapshot.  *)
THEOREM SnapshotsAlwaysWhole ==
  NobodyDeletesSources /\ TreesFillFolders /\ PartsAreFiles => (DeriveSpec => []SnapshotsAreWhole)
<1> SUFFICES ASSUME NobodyDeletesSources /\ TreesFillFolders /\ PartsAreFiles
             PROVE  DeriveSpec => []SnapshotsAreWhole
  OBVIOUS
<1>1. ReadersInv => SnapshotsAreWhole
  BY DEF ReadersInv
<1>2. QED
  BY <1>1, ReadersAlways, PTL

(* The same of an archive, with one reason more: a file that ogr2ogr fails  *)
(* on is passed over.  No restart of the job uploads half a layer.          *)
THEOREM ArchivesAlwaysWhole ==
  NobodyDeletesSources /\ TreesFillFolders /\ PartsAreFiles => (DeriveSpec => []ArchivesAreWhole)
<1> SUFFICES ASSUME NobodyDeletesSources /\ TreesFillFolders /\ PartsAreFiles
             PROVE  DeriveSpec => []ArchivesAreWhole
  OBVIOUS
<1>1. ReadersInv => ArchivesAreWhole
  BY DEF ReadersInv
<1>2. QED
  BY <1>1, ReadersAlways, PTL
-----------------------------------------------------------------------------
(* Types, of everything at once.                                            *)

LEMMA PmtilesTypes == ASSUME PmtilesTypeOK, PmtilesNext PROVE PmtilesTypeOK'
<1> PICK l \in Layers : LayerStep(l) \/ AttemptBreaks(l)
  BY DEF PmtilesNext
<1> DEFINE o == job[l]
<1>0. o \in JobStates /\ BackoffLimit \in Nat
  BY PmtilesAssumption DEF PmtilesTypeOK, PmtilesAssumption
<1>1. \E s \in JobStates : job' = [job EXCEPT ![l] = s]
  <2>1. \A label \in {"list", "complete", "failed"}, n \in 1 .. BackoffLimit + 1, e \in BOOLEAN :
          Fresh(label, n, e) \in JobStates
    BY DEF Fresh, JobStates
  <2>2. o.attempt \in 1 .. BackoffLimit + 1 /\ o.excuse \in BOOLEAN
    BY <1>0 DEF JobStates
  <2>3. ASSUME NEW e \in BOOLEAN, AttemptFails(l, e)
        PROVE  \E s \in JobStates : job' = [job EXCEPT ![l] = s]
    <3>1. o.attempt <= BackoffLimit => o.attempt + 1 \in 1 .. BackoffLimit + 1
      BY <1>0, <2>2
    <3>2. QED
      BY <2>1, <2>2, <2>3, <3>1 DEF AttemptFails, Become
  <2>4. CASE ListLayer(l)
    <3> DEFINE found == {k \in LayerParts[l] : Stored(k)}
               s == [o EXCEPT !.pc = IF found = {} THEN "convert" ELSE "download",
                              !.left = found, !.posted = Catalogued(LayerDataset[l]),
                              !.excuse = o.excuse \/ found # {}]
    <3>1. s \in JobStates
      BY <1>0, PmtilesAssumption DEF PmtilesAssumption, JobStates, Catalogued
    <3>2. job' = [job EXCEPT ![l] = s]
      BY <2>4 DEF ListLayer, Become
    <3> HIDE DEF s
    <3>3. QED
      BY <3>1, <3>2
  <2>5. CASE DownloadLayer(l)
    <3>1. PICK k \in o.left :
            \/ Become(l, [o EXCEPT !.left = o.left \ {k}, !.got = o.got \cup {k},
                                   !.pc = IF o.left \ {k} = {} THEN "convert" ELSE "download"])
            \/ AttemptFails(l, TRUE)
      BY <2>5 DEF DownloadLayer
    <3>2. [o EXCEPT !.left = o.left \ {k}, !.got = o.got \cup {k},
                    !.pc = IF o.left \ {k} = {} THEN "convert" ELSE "download"] \in JobStates
      BY <1>0 DEF JobStates
    <3>3. QED
      BY <2>3, <3>1, <3>2 DEF Become
  <2>6. CASE ConvertLayer(l)
    <3>1. PICK c \in SUBSET o.got :
            \/ Become(l, [o EXCEPT !.pc = "upload", !.got = c, !.dropped = c # o.got])
            \/ AttemptFails(l, o.excuse)
      BY <2>6 DEF ConvertLayer
    <3>2. [o EXCEPT !.pc = "upload", !.got = c, !.dropped = c # o.got] \in JobStates
      BY <1>0 DEF JobStates
    <3>3. QED
      BY <2>2, <2>3, <3>1, <3>2 DEF Become
  <2>7. CASE UploadLayer(l)
    BY <2>1, <2>2, <2>7 DEF UploadLayer, Become
  <2>8. CASE AttemptBreaks(l)
    BY <2>3, <2>8 DEF AttemptBreaks
  <2>9. QED
    BY <2>4, <2>5, <2>6, <2>7, <2>8 DEF LayerStep
<1>2. UNCHANGED archive \/ archive' = [archive EXCEPT ![l] = Built(l)]
  BY DEF LayerStep, ListLayer, DownloadLayer, ConvertLayer, UploadLayer, AttemptBreaks
<1>3. Built(l) \in Archives
  BY <1>0 DEF Built, Archives, JobStates
<1>4. QED
  BY <1>1, <1>2, <1>3 DEF PmtilesTypeOK

DeriveTypesInv == HouseInv /\ DeriveInv /\ PmtilesTypeOK

LEMMA DeriveTypesInvAlways == DeriveSpec => []DeriveTypesInv
<1>1. DeriveInit => DeriveTypesInv
  <2> SUFFICES ASSUME DeriveInit PROVE DeriveTypesInv
    OBVIOUS
  <2>1. HouseInv /\ DeriveInv
    BY LastingInit, DeriveInitially DEF LastingInv
  <2>2. PmtilesTypeOK
    BY PmtilesInitially
  <2>3. QED
    BY <2>1, <2>2 DEF DeriveTypesInv
<1>2. DeriveTypesInv /\ [DeriveNext]_deriveVars => DeriveTypesInv'
  <2> SUFFICES ASSUME DeriveTypesInv, [DeriveNext]_deriveVars PROVE DeriveTypesInv'
    OBVIOUS
  <2>1. HouseInv' /\ DeriveInv'
    BY Movers, HouseStep, InvStep DEF DeriveTypesInv
  <2>2. CASE PmtilesNext
    BY <2>1, <2>2, PmtilesTypes DEF DeriveTypesInv
  <2>3. CASE UNCHANGED pmtilesVars
    BY <2>1, <2>3 DEF DeriveTypesInv, PmtilesTypeOK, pmtilesVars
  <2>4. QED
    BY <2>2, <2>3, Movers DEF products
<1>3. QED
  BY <1>1, <1>2, PTL DEF DeriveSpec

(* Everything that works on the lake, at once and in any order: ingest, the *)
(* deleters, promotions and PMTiles jobs keep every variable in its type.   *)
THEOREM DeriveTypesAlways == DeriveSpec => []DeriveTypeOK
<1>1. DeriveTypesInv => DeriveTypeOK
  BY DEF DeriveTypesInv, DeriveTypeOK, HouseInv, DeriveInv, TablesInv
<1>2. QED
  BY <1>1, DeriveTypesInvAlways, PTL

-----------------------------------------------------------------------------
(* Promotions and PMTiles jobs end: a promotion goes on with its next step, *)
(* and a job too, or starts over with one restart less.                     *)

PromotionStage(s) ==
    CASE s.pc = "namespace" -> 8
      [] s.pc = "createNamespace" -> 7
      [] s.pc = "list" -> 6
      [] s.pc = "download" -> 5
      [] s.pc = "table" -> 4
      [] s.pc = "create" -> 3
      [] s.pc = "load" -> 2
      [] s.pc = "append" -> 1
      [] OTHER -> 0

PromotionRank(s) == <<PromotionStage(s), Cardinality(s.left)>>

JobStage(s) ==
    CASE s.pc = "list" -> 4
      [] s.pc = "download" -> 3
      [] s.pc = "convert" -> 2
      [] s.pc = "upload" -> 1
      [] OTHER -> 0

RestartsLeft(s) == BackoffLimit + 1 - s.attempt

JobRank(s) == <<RestartsLeft(s), JobStage(s), Cardinality(s.left)>>

LEMMA KeysLeft ==
  ASSUME IsFiniteSet(Keys), NEW S \in SUBSET Keys
  PROVE  IsFiniteSet(S) /\ Cardinality(S) \in Nat
BY FS_Subset, FS_CardinalityType

LEMMA PromotionDescends ==
  ASSUME DeriveInv, IsFiniteSet(Keys), NEW p \in Promotions,
         PromotionStep(p) \/ AppendUnanswered(p) \/ PromotionFails(p)
  PROVE  /\ <<PromotionRank(promotion'[p]), PromotionRank(promotion[p])>> \in Lower(2)
         /\ \A q \in Promotions \ {p} : promotion'[q] = promotion[q]
<1> DEFINE o == promotion[p]
           s == promotion'[p]
<1>0. promotion \in [Promotions -> PromotionStates] /\ o \in PromotionStates
  BY DEF DeriveInv, TablesInv, IcebergTypeOK
<1>1. \A q \in Promotions \ {p} : promotion'[q] = promotion[q]
  BY <1>0 DEF PromotionStep, CheckNamespace, CreateNamespace, ListParquet, Download,
         CheckTable, CreateTable, LoadTable, AppendRows, AppendUnanswered, PromotionFails,
         On, Proceed
<1>2. s \in PromotionStates
  <2>1. DeriveInv'
    BY PromotionKeepsInv
  <2>2. QED
    BY <2>1 DEF DeriveInv, TablesInv, IcebergTypeOK
<1>3. /\ IsFiniteSet(o.left) /\ Cardinality(o.left) \in Nat /\ Cardinality(s.left) \in Nat
      /\ PromotionStage(o) \in Nat /\ PromotionStage(s) \in Nat
  <2>1. o.left \in SUBSET Keys /\ s.left \in SUBSET Keys
    BY <1>0, <1>2 DEF PromotionStates
  <2>2. PromotionStage(o) \in Nat /\ PromotionStage(s) \in Nat
    BY DEF PromotionStage
  <2>3. QED
    BY <2>1, <2>2, KeysLeft
<1> SUFFICES \/ PromotionStage(s) < PromotionStage(o)
             \/ /\ PromotionStage(s) = PromotionStage(o)
                /\ Cardinality(s.left) < Cardinality(o.left)
  BY <1>1, <1>3, Lower2, Zenon DEF PromotionRank
<1>4. \A n : Proceed(p, n) => s = n
  BY <1>0 DEF Proceed
<1>5. \A label \in {"done", "failed"} : PromotionStage(Forgotten(label)) = 0
  BY DEF Forgotten, PromotionStage
<1>6. \A label : [o EXCEPT !.pc = label].pc = label
  BY <1>0 DEF PromotionStates
<1>7. ASSUME o.pc \in {"namespace", "createNamespace", "list", "download", "table", "create",
                       "load", "append"},
             s = Forgotten("done") \/ s = Forgotten("failed")
      PROVE  PromotionStage(s) < PromotionStage(o)
  <2>1. PromotionStage(o) > 0
    BY <1>7 DEF PromotionStage
  <2>2. QED
    BY <1>5, <1>7, <2>1
<1>8. CASE CheckNamespace(p)
  <2>1. o.pc = "namespace" /\ s.pc \in {"createNamespace", "list"}
    BY <1>4, <1>6, <1>8 DEF CheckNamespace, At, On
  <2>2. QED
    BY <2>1 DEF PromotionStage
<1>9. CASE CreateNamespace(p)
  <2>1. o.pc = "createNamespace" /\ (s.pc = "list" \/ s = Forgotten("failed"))
    BY <1>4, <1>6, <1>9 DEF CreateNamespace, At, On
  <2>2. CASE s.pc = "list"
    BY <2>1, <2>2 DEF PromotionStage
  <2>3. QED
    BY <1>7, <2>1, <2>2
<1>10. CASE ListParquet(p)
  <2> DEFINE n == [o EXCEPT !.pc = "download", !.left = {k \in Parts[p] : Stored(k)},
                            !.posted = Catalogued(Dataset[p])]
  <2>1. o.pc = "list" /\ (s = Forgotten("failed") \/ s = n)
    BY <1>4, <1>10 DEF ListParquet, At, On
  <2>2. n.pc = "download"
    BY <1>0 DEF PromotionStates
  <2> HIDE DEF n
  <2>3. CASE s = n
    BY <2>1, <2>2, <2>3 DEF PromotionStage
  <2>4. QED
    BY <1>7, <2>1, <2>3
<1>11. CASE Download(p)
  <2>1. PICK k \in o.left :
          \/ Proceed(p, [o EXCEPT !.left = o.left \ {k}, !.got = o.got \cup {k},
                                  !.pc = IF o.left \ {k} = {} THEN "table" ELSE "download"])
          \/ On(p, FALSE, "table")
    BY <1>11 DEF Download
  <2> DEFINE n == [o EXCEPT !.left = o.left \ {k}, !.got = o.got \cup {k},
                            !.pc = IF o.left \ {k} = {} THEN "table" ELSE "download"]
  <2>2. o.pc = "download" /\ (s = Forgotten("failed") \/ s = n)
    BY <1>4, <1>11, <2>1 DEF Download, At, On
  <2>3. n.pc \in {"table", "download"} /\ n.left = o.left \ {k}
    BY <1>0 DEF PromotionStates
  <2> HIDE DEF n
  <2>4. CASE s = n
    <3>1. Cardinality(s.left) < Cardinality(o.left)
      BY <1>3, <2>3, <2>4, OneLess
    <3>2. s.pc = "table" \/ s.pc = "download"
      BY <2>3, <2>4
    <3>3. QED
      BY <2>2, <3>1, <3>2 DEF PromotionStage
  <2>5. QED
    BY <1>7, <2>2, <2>4
<1>12. CASE CheckTable(p)
  <2>1. o.pc = "table" /\ s.pc \in {"create", "load"}
    BY <1>4, <1>6, <1>12 DEF CheckTable, At, On
  <2>2. QED
    BY <2>1 DEF PromotionStage
<1>13. CASE CreateTable(p)
  <2>1. o.pc = "create" /\ (s.pc = "append" \/ s = Forgotten("failed"))
    BY <1>4, <1>6, <1>13 DEF CreateTable, At, On
  <2>2. CASE s.pc = "append"
    BY <2>1, <2>2 DEF PromotionStage
  <2>3. QED
    BY <1>7, <2>1, <2>2
<1>14. CASE LoadTable(p)
  <2>1. o.pc = "load" /\ s.pc = "append"
    BY <1>0, <1>4, <1>14 DEF LoadTable, At, PromotionStates
  <2>2. QED
    BY <2>1 DEF PromotionStage
<1>15. CASE AppendRows(p) \/ AppendUnanswered(p)
  BY <1>4, <1>7, <1>15 DEF AppendRows, AppendUnanswered, At
<1>16. CASE PromotionFails(p)
  <2>1. s = Forgotten("failed")
    BY <1>4, <1>16 DEF PromotionFails, On
  <2>2. o.pc \in {"namespace", "createNamespace", "list", "download", "table", "create",
                  "load", "append"}
    BY <1>0, <1>16 DEF PromotionFails, PromotionStates
  <2>3. QED
    BY <1>7, <2>1, <2>2
<1>17. QED
  BY <1>8, <1>9, <1>10, <1>11, <1>12, <1>13, <1>14, <1>15, <1>16 DEF PromotionStep

LEMMA JobDescends ==
  ASSUME PmtilesTypeOK, IsFiniteSet(Keys), NEW l \in Layers, LayerStep(l) \/ AttemptBreaks(l)
  PROVE  /\ <<JobRank(job'[l]), JobRank(job[l])>> \in Lower(3)
         /\ \A m \in Layers \ {l} : job'[m] = job[m]
<1> DEFINE o == job[l]
           s == job'[l]
<1>0. /\ job \in [Layers -> JobStates] /\ o \in JobStates /\ BackoffLimit \in Nat
      /\ o.attempt \in 1 .. BackoffLimit + 1
  BY PmtilesAssumption DEF PmtilesTypeOK, PmtilesAssumption, JobStates
<1>1. \A m \in Layers \ {l} : job'[m] = job[m]
  BY <1>0 DEF LayerStep, ListLayer, DownloadLayer, ConvertLayer, UploadLayer, AttemptBreaks,
              AttemptFails, Become
<1>2. s \in JobStates
  <2>1. PmtilesTypeOK'
    BY PmtilesTypes DEF PmtilesNext
  <2>2. QED
    BY <2>1 DEF PmtilesTypeOK
<1>3. /\ IsFiniteSet(o.left) /\ Cardinality(o.left) \in Nat /\ Cardinality(s.left) \in Nat
      /\ JobStage(o) \in Nat /\ JobStage(s) \in Nat
      /\ RestartsLeft(o) \in Nat /\ RestartsLeft(s) \in Nat
  <2>1. o.left \in SUBSET Keys /\ s.left \in SUBSET Keys
    BY <1>0, <1>2 DEF JobStates
  <2>2. JobStage(o) \in Nat /\ JobStage(s) \in Nat
    BY DEF JobStage
  <2>3. s.attempt \in 1 .. BackoffLimit + 1
    BY <1>2 DEF JobStates
  <2>4. RestartsLeft(o) \in Nat /\ RestartsLeft(s) \in Nat
    BY <1>0, <2>3 DEF RestartsLeft
  <2>5. QED
    BY <2>1, <2>2, <2>4, KeysLeft
<1> SUFFICES \/ RestartsLeft(s) < RestartsLeft(o)
             \/ /\ RestartsLeft(s) = RestartsLeft(o)
                /\ \/ JobStage(s) < JobStage(o)
                   \/ JobStage(s) = JobStage(o) /\ Cardinality(s.left) < Cardinality(o.left)
  BY <1>1, <1>3, Lower3, Zenon DEF JobRank
<1>4. \A n : Become(l, n) => s = n
  BY <1>0 DEF Become
<1>5. ASSUME NEW e, AttemptFails(l, e), o.pc \in {"list", "download", "convert", "upload"}
      PROVE  \/ RestartsLeft(s) < RestartsLeft(o)
             \/ RestartsLeft(s) = RestartsLeft(o) /\ JobStage(s) < JobStage(o)
  <2>1. CASE o.attempt <= BackoffLimit
    <3>1. s.attempt = o.attempt + 1
      BY <1>4, <1>5, <2>1 DEF AttemptFails, Fresh
    <3>2. QED
      BY <1>0, <3>1 DEF RestartsLeft
  <2>2. CASE ~(o.attempt <= BackoffLimit)
    <3>1. s.attempt = o.attempt /\ s.pc = "failed"
      BY <1>4, <1>5, <2>2 DEF AttemptFails, Fresh
    <3>2. JobStage(s) < JobStage(o)
      BY <1>5, <3>1 DEF JobStage
    <3>3. QED
      BY <3>1, <3>2 DEF RestartsLeft
  <2>3. QED
    BY <2>1, <2>2
(* A step of the same attempt.                                              *)
<1>6. ASSUME s.attempt = o.attempt PROVE RestartsLeft(s) = RestartsLeft(o)
  BY <1>6 DEF RestartsLeft
<1>7. CASE ListLayer(l)
  <2> DEFINE found == {k \in LayerParts[l] : Stored(k)}
             n == [o EXCEPT !.pc = IF found = {} THEN "convert" ELSE "download",
                            !.left = found, !.posted = Catalogued(LayerDataset[l]),
                            !.excuse = o.excuse \/ found # {}]
  <2>1. o.pc = "list" /\ s = n
    BY <1>4, <1>7 DEF ListLayer
  <2>2. n.pc \in {"convert", "download"} /\ n.attempt = o.attempt
    BY <1>0 DEF JobStates
  <2> HIDE DEF n
  <2>3. s.attempt = o.attempt /\ s.pc \in {"convert", "download"}
    BY <2>1, <2>2
  <2>4. QED
    BY <1>6, <2>1, <2>3 DEF JobStage
<1>8. CASE DownloadLayer(l)
  <2>1. PICK k \in o.left :
          \/ Become(l, [o EXCEPT !.left = o.left \ {k}, !.got = o.got \cup {k},
                                 !.pc = IF o.left \ {k} = {} THEN "convert" ELSE "download"])
          \/ AttemptFails(l, TRUE)
    BY <1>8 DEF DownloadLayer
  <2> DEFINE n == [o EXCEPT !.left = o.left \ {k}, !.got = o.got \cup {k},
                            !.pc = IF o.left \ {k} = {} THEN "convert" ELSE "download"]
  <2>2. o.pc = "download" /\ (AttemptFails(l, TRUE) \/ s = n)
    BY <1>4, <1>8, <2>1 DEF DownloadLayer
  <2>3. n.pc \in {"convert", "download"} /\ n.left = o.left \ {k} /\ n.attempt = o.attempt
    BY <1>0 DEF JobStates
  <2> HIDE DEF n
  <2>4. CASE s = n
    <3>1. Cardinality(s.left) < Cardinality(o.left)
      BY <1>3, <2>3, <2>4, OneLess
    <3>2. s.pc = "convert" \/ s.pc = "download"
      BY <2>3, <2>4
    <3>3. JobStage(s) < JobStage(o) \/ JobStage(s) = JobStage(o)
      BY <2>2, <3>2 DEF JobStage
    <3>4. QED
      BY <1>6, <2>3, <2>4, <3>1, <3>3
  <2>5. QED
    BY <1>5, <2>2, <2>4
<1>9. CASE ConvertLayer(l)
  <2>1. PICK c \in SUBSET o.got :
          \/ Become(l, [o EXCEPT !.pc = "upload", !.got = c, !.dropped = c # o.got])
          \/ AttemptFails(l, o.excuse)
    BY <1>9 DEF ConvertLayer
  <2>2. o.pc = "convert"
    BY <1>9 DEF ConvertLayer
  <2>3. CASE Become(l, [o EXCEPT !.pc = "upload", !.got = c, !.dropped = c # o.got])
    <3>1. s.pc = "upload" /\ s.attempt = o.attempt
      BY <1>0, <1>4, <2>3 DEF JobStates
    <3>2. QED
      BY <1>6, <2>2, <3>1 DEF JobStage
  <2>4. QED
    BY <1>5, <2>1, <2>2, <2>3
<1>10. CASE UploadLayer(l)
  <2>1. o.pc = "upload" /\ s.pc = "complete" /\ s.attempt = o.attempt
    BY <1>4, <1>10 DEF UploadLayer, Fresh
  <2>2. QED
    BY <1>6, <2>1 DEF JobStage
<1>11. CASE AttemptBreaks(l)
  BY <1>5, <1>11 DEF AttemptBreaks
<1>12. QED
  BY <1>7, <1>8, <1>9, <1>10, <1>11 DEF LayerStep

DerivationsDescend ==
    /\ \A p \in Promotions :
         \/ promotion'[p] = promotion[p]
         \/ <<PromotionRank(promotion'[p]), PromotionRank(promotion[p])>> \in Lower(2)
    /\ \A l \in Layers :
         job'[l] = job[l] \/ <<JobRank(job'[l]), JobRank(job[l])>> \in Lower(3)

(* No step of a promotion or of a PMTiles job, and no pod that dies under   *)
(* it, leaves it with as much to do as before: a job starts over only with  *)
(* one of its restarts (backoffLimit) spent.                                *)
THEOREM DerivationsAlwaysDescend ==
  IsFiniteSet(Keys) => (DeriveSpec => [][DerivationsDescend]_deriveVars)
<1> SUFFICES ASSUME IsFiniteSet(Keys) PROVE DeriveSpec => [][DerivationsDescend]_deriveVars
  OBVIOUS
<1>1. DeriveTypesInv /\ [DeriveNext]_deriveVars => DerivationsDescend
  <2> SUFFICES ASSUME DeriveTypesInv, [DeriveNext]_deriveVars PROVE DerivationsDescend
    OBVIOUS
  <2>1. CASE UNCHANGED products
    BY <2>1 DEF products, icebergVars, pmtilesVars, DerivationsDescend
  <2>2. CASE IcebergNext /\ UNCHANGED pmtilesVars
    BY <2>2, PromotionDescends DEF DeriveTypesInv, IcebergNext, pmtilesVars, DerivationsDescend
  <2>3. CASE PmtilesNext /\ UNCHANGED icebergVars
    BY <2>3, JobDescends DEF DeriveTypesInv, PmtilesNext, icebergVars, DerivationsDescend
  <2>4. QED
    BY <2>1, <2>2, <2>3, Movers
<1>2. QED
  BY <1>1, DeriveTypesInvAlways, PTL DEF DeriveSpec

-----------------------------------------------------------------------------
(* That the tables only grow.                                               *)

(* What a promotion has of its dataset: some of its files, and not none     *)
(* once it turns to the table.                                              *)
GotInv(p) ==
    /\ promotion[p].left \subseteq Parts[p]
    /\ promotion[p].got \subseteq Parts[p]
    /\ promotion[p].pc \in {"table", "create", "load", "append"} => promotion[p].got # {}

LogInv == DeriveInv /\ \A p \in Promotions : GotInv(p)

Reported == [p \in Promotions |-> OutcomeOf(p)]

LEMMA GotStep ==
  ASSUME LogInv, NEW p \in Promotions, PromotionStep(p) \/ AppendUnanswered(p) \/ PromotionFails(p)
  PROVE  \A q \in Promotions : GotInv(q)'
<1> DEFINE o == promotion[p]
           s == promotion'[p]
           Has(n) == /\ n.left \subseteq Parts[p] /\ n.got \subseteq Parts[p]
                     /\ n.pc \in {"table", "create", "load", "append"} => n.got # {}
<1>0. promotion \in [Promotions -> PromotionStates] /\ o \in PromotionStates /\ Has(o)
  BY DEF LogInv, DeriveInv, TablesInv, IcebergTypeOK, GotInv
<1>1. \A q \in Promotions \ {p} : promotion'[q] = promotion[q]
  BY <1>0 DEF PromotionStep, CheckNamespace, CreateNamespace, ListParquet, Download,
         CheckTable, CreateTable, LoadTable, AppendRows, AppendUnanswered, PromotionFails,
         On, Proceed
<1>2. SUFFICES Has(s)
  BY <1>1 DEF LogInv, GotInv
<1>3. \A n : Proceed(p, n) => s = n
  BY <1>0 DEF Proceed
<1>4. \A label \in {"done", "failed"} : Has(Forgotten(label))
  BY DEF Forgotten
<1>5. ASSUME NEW label, NEW ok, On(p, ok, label)
      PROVE  s = Forgotten("failed") \/ (s.pc = label /\ s.got = o.got /\ s.left = o.left)
  <2>1. s = Forgotten("failed") \/ s = [o EXCEPT !.pc = label]
    BY <1>3, <1>5 DEF On
  <2>2. QED
    BY <1>0, <2>1 DEF PromotionStates
<1>6. CASE CheckNamespace(p) \/ CreateNamespace(p)
  <2>1. s = Forgotten("failed") \/ (/\ s.pc \in {"createNamespace", "list"}
                                    /\ s.got = o.got /\ s.left = o.left)
    BY <1>5, <1>6 DEF CheckNamespace, CreateNamespace
  <2>2. QED
    BY <1>0, <1>4, <2>1
<1>7. CASE ListParquet(p)
  <2> DEFINE n == [o EXCEPT !.pc = "download", !.left = {k \in Parts[p] : Stored(k)},
                            !.posted = Catalogued(Dataset[p])]
  <2>1. s = Forgotten("failed") \/ s = n
    BY <1>3, <1>7 DEF ListParquet, On
  <2>2. n.pc = "download" /\ n.left \subseteq Parts[p] /\ n.got = o.got
    BY <1>0 DEF PromotionStates
  <2> HIDE DEF n
  <2>3. QED
    BY <1>0, <1>4, <2>1, <2>2
<1>8. CASE Download(p)
  <2>1. PICK k \in o.left :
          \/ Proceed(p, [o EXCEPT !.left = o.left \ {k}, !.got = o.got \cup {k},
                                  !.pc = IF o.left \ {k} = {} THEN "table" ELSE "download"])
          \/ On(p, FALSE, "table")
    BY <1>8 DEF Download
  <2> DEFINE n == [o EXCEPT !.left = o.left \ {k}, !.got = o.got \cup {k},
                            !.pc = IF o.left \ {k} = {} THEN "table" ELSE "download"]
  <2>2. s = Forgotten("failed") \/ s = n
    BY <1>3, <2>1 DEF On
  <2>3. n.left = o.left \ {k} /\ n.got = o.got \cup {k}
    BY <1>0 DEF PromotionStates
  <2> HIDE DEF n
  <2>4. QED
    BY <1>0, <1>4, <2>2, <2>3
<1>9. CASE CheckTable(p) \/ CreateTable(p)
  <2>1. s = Forgotten("failed") \/ (s.got = o.got /\ s.left = o.left)
    BY <1>5, <1>9 DEF CheckTable, CreateTable
  <2>2. o.got # {}
    BY <1>0, <1>9 DEF CheckTable, CreateTable, At
  <2>3. QED
    BY <1>0, <1>4, <2>1, <2>2
<1>10. CASE LoadTable(p)
  <2>1. s = [o EXCEPT !.pc = "append", !.version = Len(tables[TableOf[p]])] /\ o.pc = "load"
    BY <1>3, <1>10 DEF LoadTable, At
  <2>2. s.got = o.got /\ s.left = o.left /\ o.got # {}
    BY <1>0, <2>1 DEF PromotionStates
  <2>3. QED
    BY <1>0, <2>2
<1>11. CASE AppendRows(p) \/ AppendUnanswered(p) \/ PromotionFails(p)
  BY <1>3, <1>4, <1>11 DEF AppendRows, AppendUnanswered, PromotionFails, On
<1>12. QED
  BY <1>6, <1>7, <1>8, <1>9, <1>10, <1>11 DEF PromotionStep

(* A step of promotion p, as the readers of the tables see it.              *)
LEMMA LogStep ==
  ASSUME LogInv, NEW p \in Promotions, PromotionStep(p) \/ AppendUnanswered(p) \/ PromotionFails(p)
  PROVE  [Log!Next]_(Log!vars)
<1> DEFINE o == promotion[p]
           s == promotion'[p]
           t == TableOf[p]
           Running == {"namespace", "createNamespace", "list", "download", "table", "create",
                       "load", "append"}
           Becomes(v) == Reported' = [Reported EXCEPT ![p] = v]
<1>0. /\ promotion \in [Promotions -> PromotionStates] /\ o \in PromotionStates
      /\ t \in Tables /\ TablesInv /\ OnceInv(p) /\ GotInv(p)
  BY IcebergAssumption
     DEF IcebergAssumption, LogInv, DeriveInv, TablesInv, IcebergTypeOK
<1>1. \A q \in Promotions \ {p} : promotion'[q] = promotion[q]
  BY <1>0 DEF PromotionStep, CheckNamespace, CreateNamespace, ListParquet, Download,
         CheckTable, CreateTable, LoadTable, AppendRows, AppendUnanswered, PromotionFails,
         On, Proceed
<1>2. o.pc \in Running
  BY <1>0 DEF PromotionStep, CheckNamespace, CreateNamespace, ListParquet, Download,
         CheckTable, CreateTable, LoadTable, AppendRows, AppendUnanswered, PromotionFails, At,
         PromotionStates
<1>3. Reported[p] = "pending"
  BY <1>2 DEF Reported, OutcomeOf
<1>4. \A n : Proceed(p, n) => s = n
  BY <1>0 DEF Proceed
<1>5. ASSUME s.pc \in Running PROVE UNCHANGED Reported
  <2>1. \A q \in Promotions : OutcomeOf(q)' = OutcomeOf(q)
    BY <1>1, <1>2, <1>5 DEF OutcomeOf
  <2>2. QED
    BY <2>1 DEF Reported
<1>6. ASSUME NEW v \in {"done", "failed"}, s = Forgotten(v) PROVE Becomes(v)
  <2>1. s.pc = v
    BY <1>6 DEF Forgotten
  <2>2. OutcomeOf(p)' = v /\ \A q \in Promotions \ {p} : OutcomeOf(q)' = OutcomeOf(q)
    BY <1>1, <2>1 DEF OutcomeOf
  <2>3. QED
    BY <2>2 DEF Reported
<1>7. CASE s.pc \in Running /\ UNCHANGED tables
  BY <1>5, <1>7 DEF Log!vars, Reported
<1>8. CASE s = Forgotten("failed") /\ UNCHANGED tables
  <2>1. Log!GiveUp(p)
    BY <1>3, <1>6, <1>8 DEF Log!GiveUp, Reported
  <2>2. QED
    BY <2>1 DEF Log!Next
<1>9. CASE s.pc \in Running /\ tables[t] = NoTable /\ tables' = [tables EXCEPT ![t] = <<>>]
  <2>1. Log!Create(p)
    BY <1>3, <1>5, <1>9 DEF Log!Create, Reported
  <2>2. QED
    BY <2>1 DEF Log!Next
<1>10. CASE /\ o.pc = "append" /\ Current(p) /\ s \in {Forgotten("done"), Forgotten("failed")}
            /\ tables' = [tables EXCEPT ![t] = Extended(p)]
  <2> DEFINE new == [by |-> p, parts |-> o.got, posted |-> o.posted]
  <2>1. tables[t] # NoTable /\ o.got # {} /\ o.got \subseteq Parts[p]
    BY <1>0, <1>10 DEF OnceInv, GotInv
  <2>2. new \in Snapshots /\ new.by = p /\ new.parts # {} /\ new.parts \subseteq Parts[p]
    BY <1>0, <2>1 DEF Snapshots, PromotionStates
  <2>3. Extended(p) = Append(tables[t], new)
    BY <1>0, <1>10, <2>1, ExtendedIsAppend
  <2> HIDE DEF new
  <2>4. tables' = [tables EXCEPT ![t] = Append(@, new)]
    BY <1>10, <2>3
  <2>5. \E v \in {"done", "failed"} : Becomes(v)
    BY <1>6, <1>10
  <2>6. Log!Commit(p)
    BY <1>3, <2>1, <2>2, <2>4, <2>5 DEF Log!Commit, Reported
  <2>7. QED
    BY <2>6 DEF Log!Next
<1>11. \A label \in Running : [o EXCEPT !.pc = label].pc = label
  BY <1>0 DEF PromotionStates
<1>12. CASE CheckNamespace(p) \/ CreateNamespace(p) \/ CheckTable(p)
  <2>1. (s.pc \in Running \/ s = Forgotten("failed")) /\ UNCHANGED tables
    BY <1>4, <1>11, <1>12 DEF CheckNamespace, CreateNamespace, CheckTable, On
  <2>2. QED
    BY <1>7, <1>8, <2>1
<1>13. CASE ListParquet(p)
  <2>1. (s.pc \in Running \/ s = Forgotten("failed")) /\ UNCHANGED tables
    BY <1>0, <1>4, <1>13 DEF ListParquet, On, PromotionStates
  <2>2. QED
    BY <1>7, <1>8, <2>1
<1>14. CASE Download(p)
  <2>1. (s.pc \in Running \/ s = Forgotten("failed")) /\ UNCHANGED tables
    BY <1>0, <1>4, <1>14 DEF Download, On, PromotionStates
  <2>2. QED
    BY <1>7, <1>8, <2>1
<1>15. CASE CreateTable(p)
  <2>1. CASE tables[t] = NoTable
    <3>1. s.pc = "append" /\ tables' = [tables EXCEPT ![t] = <<>>]
      BY <1>4, <1>11, <1>15, <2>1 DEF CreateTable, On
    <3>2. QED
      BY <1>9, <2>1, <3>1
  <2>2. CASE tables[t] # NoTable
    BY <1>4, <1>8, <1>15, <2>2 DEF CreateTable, On
  <2>3. QED
    BY <2>1, <2>2
<1>16. CASE LoadTable(p)
  <2>1. s.pc = "append" /\ UNCHANGED tables
    BY <1>0, <1>4, <1>16 DEF LoadTable, PromotionStates
  <2>2. QED
    BY <1>7, <2>1
<1>17. CASE AppendRows(p) \/ AppendUnanswered(p)
  BY <1>4, <1>8, <1>10, <1>17 DEF AppendRows, AppendUnanswered, At
<1>18. CASE PromotionFails(p)
  BY <1>4, <1>8, <1>18 DEF PromotionFails, On
<1>19. QED
  BY <1>12, <1>13, <1>14, <1>15, <1>16, <1>17, <1>18 DEF PromotionStep

LEMMA LogBegins == DeriveInit => LogInv /\ Log!Init
<1> SUFFICES ASSUME DeriveInit PROVE LogInv /\ Log!Init
  OBVIOUS
<1> PICK S \in AtWork : IcebergInit(S)
  BY DEF DeriveInit
<1>1. LogInv
  BY DeriveInitially DEF LogInv, GotInv, IcebergInit, Forgotten
<1>2. \A p \in Promotions : OutcomeOf(p) \in {"pending", "failed"}
  BY DEF OutcomeOf, IcebergInit, Forgotten
<1>3. Log!Init
  BY <1>2 DEF Log!Init, IcebergInit
<1>4. QED
  BY <1>1, <1>3

(* Promotions implement SnapshotLog, for any number of them on any number   *)
(* of tables, and whatever ingest and the deleters do to the files they     *)
(* read: no snapshot is ever changed, dropped or doubled.                   *)
THEOREM TablesAlwaysGrow == DeriveSpec => TablesOnlyGrow
<1>1. LogInv /\ [DeriveNext]_deriveVars => LogInv' /\ [Log!Next]_(Log!vars)
  <2> SUFFICES ASSUME LogInv, [DeriveNext]_deriveVars
               PROVE  LogInv' /\ [Log!Next]_(Log!vars)
    OBVIOUS
  <2>1. DeriveInv'
    BY InvStep DEF LogInv
  <2>2. CASE UNCHANGED icebergVars
    <3>1. UNCHANGED <<promotion, tables>>
      BY <2>2 DEF icebergVars
    <3>2. \A p \in Promotions : OutcomeOf(p)' = OutcomeOf(p)
      BY <3>1 DEF OutcomeOf
    <3>3. QED
      BY <2>1, <3>1, <3>2 DEF LogInv, GotInv, Log!vars
  <2>3. CASE IcebergNext
    BY <2>1, <2>3, GotStep, LogStep DEF IcebergNext, LogInv
  <2>4. QED
    BY <2>2, <2>3 DEF DeriveNext, deriveVars, products
<1>2. QED
  BY <1>1, LogBegins, PTL DEF DeriveSpec, TablesOnlyGrow, Log!Spec
=============================================================================
