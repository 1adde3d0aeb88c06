---------------------------- MODULE SubmitProofs ----------------------------
(***************************************************************************)
(* What is proved about Submit, for any number of pages, commands, files,   *)
(* submissions, domains and classes.                                        *)
(***************************************************************************)
EXTENDS Submit, Descent

(* The key under which client c has its j-th object of submission t.        *)
KeyFor(c, t, j) == IF c \in Registers THEN Named[c] ELSE <<c, t, j>>

Landed(k) == landing[k] # Nothing

(* Where a client stands, and what it has landed and scanned so far.        *)
ClientInv(c) ==
    /\ page[c] \in ClientStates
    /\ page[c].try <= Tries[c]
    /\ page[c].pc # "idle" => page[c].try >= 1 /\ page[c].domain \in Domains
    /\ page[c].pc = "idle" => page[c].entries = <<>> /\ page[c].index = 1
    /\ page[c].pc \in {"land", "scan"}
         => page[c].index \in 1 .. Count(c) /\ Len(page[c].entries) = page[c].index - 1
    /\ page[c].pc \in {"scanned", "check", "create"} => Len(page[c].entries) = Count(c)
    /\ page[c].pc \in {"check", "create"} => page[c].index \in 1 .. Count(c)
    /\ \A j \in DOMAIN page[c].entries :
         /\ page[c].entries[j].key = KeyFor(c, page[c].try, j)
         /\ Landed(page[c].entries[j].key)
    /\ page[c].pc = "scan" => Landed(KeyOf(c))
    /\ page[c].pc = "create" /\ page[c].ceiling \in Classes
         => Rank[page[c].cls] <= Rank[page[c].ceiling]

StoreInv ==
    /\ landing \in [LandingKeys -> Files \cup {Nothing, Empty}]
    /\ \A c \in Clients \ Registers : \A t \in 1 .. Tries[c], j \in DOMAIN Picked[c] :
         landing[<<c, t, j>>] \in {Nothing, Picked[c][j]}

PageInv == StoreInv /\ page \in [Clients -> ClientStates] /\ \A c \in Clients : ClientInv(c)

-----------------------------------------------------------------------------
(* The constants.                                                           *)

LEMMA CountType ==
  ASSUME NEW c \in Clients
  PROVE  /\ Count(c) \in Nat \ {0}
         /\ Tries[c] \in Nat \ {0}
         /\ c \notin Registers => /\ Picked[c] \in Seq(Files)
                                  /\ DOMAIN Picked[c] = 1 .. Count(c)
BY SubmitAssumption DEF Count

LEMMA KeyType ==
  ASSUME NEW c \in Clients, NEW t \in 1 .. Tries[c], NEW j \in 1 .. Count(c)
  PROVE  KeyFor(c, t, j) \in LandingKeys
BY LandingAssumption, CountType DEF KeyFor, LandingKeys, Uploads

-----------------------------------------------------------------------------
(* Clients and the landing bucket.                                          *)

LEMMA KeyOfType ==
  ASSUME NEW c \in Clients, ClientInv(c), page[c].pc \in {"land", "scan"}
  PROVE  /\ KeyOf(c) = KeyFor(c, page[c].try, page[c].index)
         /\ KeyOf(c) \in LandingKeys
         /\ page[c].try \in 1 .. Tries[c]
         /\ page[c].index \in 1 .. Count(c)
<1>1. page[c].try \in 1 .. Tries[c] /\ page[c].index \in 1 .. Count(c)
  BY CountType DEF ClientInv, ClientStates
<1>2. QED
  BY <1>1, KeyType DEF KeyOf, KeyFor

LEMMA EntryKeys ==
  ASSUME NEW c \in Clients, page[c] \in ClientStates
  PROVE  \A j \in DOMAIN page[c].entries : page[c].entries[j] \in Entries
                                            /\ page[c].entries[j].key \in LandingKeys
<1>1. page[c].entries \in Seq(Entries)
  BY DEF ClientStates
<1>2. \A j \in DOMAIN page[c].entries : page[c].entries[j] \in Entries
  BY <1>1
<1>3. QED
  BY <1>2 DEF Entries

(* What a client has landed stays: the others only have to look after       *)
(* themselves.                                                              *)
LEMMA ClientKept ==
  ASSUME NEW c \in Clients, ClientInv(c), page'[c] = page[c],
         \A k \in LandingKeys : Landed(k) => Landed(k)'
  PROVE  ClientInv(c)'
<1>1. \A j \in DOMAIN page[c].entries : page[c].entries[j].key \in LandingKeys
  BY EntryKeys DEF ClientInv
<1>2. page[c].pc = "scan" => KeyOf(c) \in LandingKeys /\ KeyOf(c)' = KeyOf(c)
  BY KeyOfType DEF KeyOf
<1>3. QED
  BY <1>1, <1>2 DEF ClientInv

LEMMA PageKept ==
  ASSUME PageInv, NEW c \in Clients, NEW s, Step(c, s), ClientInv(c)', StoreInv',
         \A k \in LandingKeys : Landed(k) => Landed(k)'
  PROVE  PageInv'
<1>1. page' = [page EXCEPT ![c] = s] /\ page'[c] = s
  BY DEF PageInv, Step
<1>2. s \in ClientStates
  BY <1>1 DEF ClientInv
<1>3. ASSUME NEW d \in Clients PROVE ClientInv(d)'
  <2>1. CASE d = c
    BY <2>1
  <2>2. CASE d # c
    BY <2>2, <1>1, ClientKept DEF PageInv
  <2>3. QED
    BY <2>1, <2>2
<1>4. QED
  BY <1>1, <1>2, <1>3 DEF PageInv

(* The form in which most steps use it: the bucket is left alone.           *)
LEMMA PageMoved ==
  ASSUME PageInv, NEW c \in Clients, NEW s, Step(c, s), ClientInv(c)', UNCHANGED landing
  PROVE  PageInv'
<1>1. StoreInv' /\ \A k \in LandingKeys : Landed(k) => Landed(k)'
  BY DEF PageInv, StoreInv, Landed
<1>2. QED
  BY <1>1, PageKept

(* The end of a submission, and its failure.                                *)
LEMMA MovedType ==
  ASSUME NEW p \in ClientStates, NEW label \in Busy \cup {"idle", "scanned", "done", "error"},
         NEW es \in Seq(Entries), NEW n \in Nat, NEW m \in Classes \cup {Open, Unread}
  PROVE  [p EXCEPT !.pc = label, !.entries = es, !.index = n, !.ceiling = m] \in ClientStates
BY DEF ClientStates

LEMMA EndedType ==
  ASSUME NEW c \in Clients, page[c] \in ClientStates,
         NEW label \in {"idle", "done", "error"}
  PROVE  /\ Ended(c, label) \in ClientStates
         /\ Ended(c, label).pc = label
         /\ Ended(c, label).entries = <<>>
         /\ Ended(c, label).index = 1
         /\ Ended(c, label).try = page[c].try
         /\ Ended(c, label).domain = page[c].domain
         /\ Ended(c, label).failed = page[c].failed
<1>1. <<>> \in Seq(Entries) /\ 1 \in Nat /\ Unread \in Classes \cup {Open, Unread}
  OBVIOUS
<1>2. Ended(c, label) \in ClientStates
  BY <1>1, MovedType DEF Ended
<1>3. QED
  BY <1>2 DEF Ended, ClientStates

LEMMA EndedInv ==
  ASSUME PageInv, NEW c \in Clients, page[c].pc # "idle",
         NEW s \in ClientStates, Step(c, s),
         s.pc \in {"idle", "done", "error"}, s.entries = <<>>, s.index = 1,
         s.try = page[c].try, s.domain = page[c].domain
  PROVE  ClientInv(c)'
<1>1. page'[c] = s
  BY DEF PageInv, Step
<1>2. QED
  BY <1>1 DEF ClientInv, PageInv

LEMMA FailInv ==
  ASSUME PageInv, NEW c \in Clients, page[c].pc # "idle", Fail(c)
  PROVE  ClientInv(c)'
<1> DEFINE t == Ended(c, "error")
           s == [t EXCEPT !.failed = @ \cup {page[c].try}]
<1>1. page[c] \in ClientStates
  BY DEF PageInv
<1>2. /\ t \in ClientStates /\ t.pc = "error" /\ t.entries = <<>> /\ t.index = 1
      /\ t.try = page[c].try /\ t.domain = page[c].domain
  BY <1>1, EndedType
<1>3. Step(c, s)
  BY DEF Fail
<1>4. page[c].try \in Nat
  BY <1>1 DEF ClientStates
<1> HIDE DEF t
<1>5. /\ s \in ClientStates /\ s.pc = "error" /\ s.entries = <<>> /\ s.index = 1
      /\ s.try = page[c].try /\ s.domain = page[c].domain
  BY <1>2, <1>4 DEF ClientStates
<1> HIDE DEF s
<1>6. QED
  BY <1>3, <1>5, EndedInv

LEMMA DoneInv ==
  ASSUME PageInv, NEW c \in Clients, NEW label \in {"idle", "done"}, page[c].pc # "idle",
         Step(c, Ended(c, label))
  PROVE  ClientInv(c)'
<1>1. page[c] \in ClientStates
  BY DEF PageInv
<1>2. QED
  BY <1>1, EndedType, EndedInv

(* A new state of a client that is under way.                               *)
LEMMA MoveInv ==
  ASSUME PageInv, NEW c \in Clients, NEW s \in ClientStates, Step(c, s),
         s.try = page[c].try, s.domain = page[c].domain, s.entries = page[c].entries,
         page[c].pc # "idle",
         s.pc \in {"scanned", "check", "create"} /\ page[c].pc \in {"scanned", "check", "create"},
         s.pc \in {"check", "create"} => s.index \in 1 .. Count(c),
         s.pc = "create" /\ s.ceiling \in Classes => Rank[s.cls] <= Rank[s.ceiling],
         UNCHANGED landing
  PROVE  ClientInv(c)'
<1>1. page'[c] = s
  BY DEF PageInv, Step
<1>2. ClientInv(c)
  BY DEF PageInv
<1>3. QED
  BY <1>1, <1>2 DEF ClientInv, Landed

LEMMA BeginInv ==
  ASSUME PageInv, NEW c \in Clients, Begin(c)
  PROVE  PageInv'
<1> DEFINE t == page[c].try + 1
           s == [page[c] EXCEPT !.pc = "land", !.try = t]
<1>1. page[c] \in ClientStates /\ ClientInv(c)
  BY DEF PageInv
<1>2. t \in Nat /\ page[c].domain \in Domains /\ 1 <= t /\ t <= Tries[c]
  BY <1>1, CountType DEF ClientStates, Begin
<1>3. Step(c, s)
  BY DEF Begin
<1> HIDE DEF t
<1>4. /\ s \in ClientStates /\ s.pc = "land" /\ s.try = t
      /\ s.domain = page[c].domain /\ s.entries = page[c].entries /\ s.index = page[c].index
  BY <1>1, <1>2 DEF ClientStates, Busy
<1>5. page'[c] = s
  BY <1>3 DEF PageInv, Step
<1> HIDE DEF s
<1>6. ClientInv(c)'
  BY <1>1, <1>2, <1>4, <1>5, CountType DEF ClientInv, Begin
<1>7. QED
  BY <1>3, <1>6, PageMoved DEF Begin

LEMMA ChangeFormInv ==
  ASSUME PageInv, NEW c \in Clients, ChangeForm(c)
  PROVE  PageInv'
<1> USE DEF ChangeForm
<1>1. PICK d \in Domains, cl \in Classes :
        Step(c, [page[c] EXCEPT !.domain = d, !.cls = cl])
  BY DEF Offered
<1> DEFINE s == [page[c] EXCEPT !.domain = d, !.cls = cl]
<1>2. page[c] \in ClientStates /\ ClientInv(c)
  BY DEF PageInv
<1>3. /\ s \in ClientStates /\ s.pc = page[c].pc /\ s.try = page[c].try
      /\ s.domain = d /\ s.entries = page[c].entries /\ s.index = page[c].index
  BY <1>2 DEF ClientStates
<1>4. page'[c] = s
  BY <1>1 DEF PageInv, Step
<1>5. Step(c, s)
  BY <1>1
<1> HIDE DEF s
<1>6. ClientInv(c)'
  BY <1>2, <1>3, <1>4 DEF ClientInv, Landed, Busy
<1>7. QED
  BY <1>5, <1>6, PageMoved

(* A file arrives under the key minted for it.                              *)
LEMMA StoreGrows ==
  ASSUME PageInv, NEW c \in Clients, c \notin Registers, page[c].pc = "land",
         landing' = [landing EXCEPT ![KeyOf(c)] = Picked[c][page[c].index]]
  PROVE  /\ StoreInv'
         /\ landing'[KeyOf(c)] # Nothing
         /\ \A k \in LandingKeys : Landed(k) => Landed(k)'
<1> DEFINE k == KeyOf(c)
           f == Picked[c][page[c].index]
<1>1. page[c] \in ClientStates /\ ClientInv(c)
  BY DEF PageInv
<1>2. /\ k \in LandingKeys /\ k = <<c, page[c].try, page[c].index>>
      /\ page[c].try \in 1 .. Tries[c] /\ page[c].index \in 1 .. Count(c)
  BY <1>1, KeyOfType DEF KeyOf
<1>3. f \in Files /\ f # Nothing
  BY <1>2, CountType, SubmitAssumption
<1>4. landing' = [landing EXCEPT ![k] = f]
  OBVIOUS
<1>5. \A l \in LandingKeys : Landed(l) => Landed(l)'
  BY <1>3, <1>4 DEF Landed, PageInv, StoreInv
<1>6. landing'[k] # Nothing
  BY <1>2, <1>3, <1>4 DEF PageInv, StoreInv
<1>7. landing' \in [LandingKeys -> Files \cup {Nothing, Empty}]
  BY <1>2, <1>3, <1>4 DEF PageInv, StoreInv
<1>8. ASSUME NEW d \in Clients \ Registers, NEW t \in 1 .. Tries[d], NEW j \in DOMAIN Picked[d]
      PROVE  landing'[<<d, t, j>>] \in {Nothing, Picked[d][j]}
  <2>1. <<d, t, j>> \in LandingKeys
    BY KeyType, CountType DEF KeyFor
  <2>2. CASE <<d, t, j>> = k
    <3>1. d = c /\ j = page[c].index
      BY <1>2, <2>2
    <3>2. QED
      BY <3>1, <2>1, <2>2, <1>4 DEF PageInv, StoreInv
  <2>3. CASE <<d, t, j>> # k
    BY <2>1, <2>3, <1>4 DEF PageInv, StoreInv
  <2>4. QED
    BY <2>2, <2>3
<1>9. QED
  BY <1>5, <1>6, <1>7, <1>8 DEF StoreInv

LEMMA UploadInv ==
  ASSUME PageInv, NEW c \in Clients, Upload(c)
  PROVE  PageInv'
<1> DEFINE s == [page[c] EXCEPT !.pc = "scan"]
<1>1. page[c] \in ClientStates /\ ClientInv(c)
  BY DEF PageInv
<1>2. /\ StoreInv' /\ landing'[KeyOf(c)] # Nothing
      /\ \A k \in LandingKeys : Landed(k) => Landed(k)'
  BY StoreGrows DEF Upload
<1>3. Step(c, s)
  BY DEF Upload
<1>4. /\ s \in ClientStates /\ s.pc = "scan" /\ s.try = page[c].try /\ s.domain = page[c].domain
      /\ s.entries = page[c].entries /\ s.index = page[c].index
  BY <1>1 DEF ClientStates, Busy
<1>5. page'[c] = s
  BY <1>3 DEF PageInv, Step
<1> HIDE DEF s
<1>6. KeyOf(c)' = KeyOf(c)
  BY <1>4, <1>5 DEF KeyOf
<1>7. \A j \in DOMAIN page[c].entries : page[c].entries[j].key \in LandingKeys
  BY <1>1, EntryKeys
<1>8. ClientInv(c)'
  BY <1>1, <1>2, <1>4, <1>5, <1>6, <1>7 DEF ClientInv, Upload, Landed
<1>9. QED
  BY <1>2, <1>3, <1>8, PageKept

LEMMA RegisterInv ==
  ASSUME PageInv, NEW c \in Clients, Register(c)
  PROVE  PageInv'
<1>1. page[c] \in ClientStates /\ ClientInv(c)
  BY DEF PageInv
<1>2. UNCHANGED landing
  BY DEF Register
<1>3. CASE Fail(c)
  BY <1>2, <1>3, FailInv, PageMoved DEF Register, Fail
<1>4. CASE Landed(Named[c]) /\ Step(c, [page[c] EXCEPT !.pc = "scan"])
  <2> DEFINE s == [page[c] EXCEPT !.pc = "scan"]
  <2>1. /\ s \in ClientStates /\ s.pc = "scan" /\ s.try = page[c].try /\ s.domain = page[c].domain
        /\ s.entries = page[c].entries /\ s.index = page[c].index
    BY <1>1 DEF ClientStates, Busy
  <2>2. page'[c] = s
    BY <1>4 DEF PageInv, Step
  <2> HIDE DEF s
  <2>3. Landed(KeyOf(c))'
    BY <1>2, <1>4 DEF KeyOf, Landed, Register
  <2>4. ClientInv(c)'
    BY <1>1, <1>2, <2>1, <2>2, <2>3 DEF ClientInv, Landed, Register
  <2>5. QED
    BY <1>2, <1>4, <2>4, PageMoved
<1>5. QED
  BY <1>3, <1>4 DEF Register, Landed

LEMMA ScanInv ==
  ASSUME PageInv, NEW c \in Clients, Scan(c)
  PROVE  PageInv'
<1> DEFINE k == KeyOf(c)
           es == page[c].entries
           fs == Append(es, [key |-> k, kind |-> KindOf(k)])
           n == page[c].index + 1
           label == IF page[c].index = Count(c) THEN "scanned" ELSE "land"
           s == [page[c] EXCEPT !.entries = fs, !.index = n, !.pc = label]
<1>1. page[c] \in ClientStates /\ ClientInv(c) /\ UNCHANGED landing
  BY DEF PageInv, Scan
<1>2. /\ k \in LandingKeys /\ k = KeyFor(c, page[c].try, page[c].index)
      /\ page[c].index \in 1 .. Count(c) /\ Landed(k) /\ Len(es) = page[c].index - 1
      /\ page[c].try >= 1 /\ page[c].domain \in Domains
  BY <1>1, KeyOfType DEF Scan, ClientInv
<1>3. KindOf(k) \in {"good", "flawed", "unknown"}
  BY <1>2, SubmitAssumption DEF KindOf, Landed, PageInv, StoreInv
<1>4. [key |-> k, kind |-> KindOf(k)] \in Entries
  BY <1>2, <1>3 DEF Entries
<1>5. es \in Seq(Entries)
  BY <1>1 DEF ClientStates
<1>6. /\ fs \in Seq(Entries) /\ Len(fs) = page[c].index /\ DOMAIN fs = 1 .. page[c].index
      /\ fs[page[c].index].key = k
      /\ \A j \in 1 .. page[c].index : j # page[c].index => j \in DOMAIN es /\ fs[j] = es[j]
  BY <1>2, <1>4, <1>5, CountType
<1>7. Step(c, s)
  BY DEF Scan
<1>8. n \in Nat /\ n = page[c].index + 1 /\ Count(c) \in Nat
  BY <1>2, CountType
<1>9. /\ label \in {"scanned", "land"}
      /\ label = "scanned" <=> page[c].index = Count(c)
  OBVIOUS
<1> HIDE DEF fs, n, label
<1>10. /\ s \in ClientStates /\ s.pc = label /\ s.try = page[c].try /\ s.domain = page[c].domain
       /\ s.entries = fs /\ s.index = n
  BY <1>1, <1>6, <1>8, <1>9 DEF ClientStates, Busy
<1>11. page'[c] = s
  BY <1>7 DEF PageInv, Step
<1> HIDE DEF s
<1>12. \A j \in 1 .. page[c].index :
          fs[j].key = KeyFor(c, page[c].try, j) /\ landing[fs[j].key] # Nothing
  <2> SUFFICES ASSUME NEW j \in 1 .. page[c].index
               PROVE  fs[j].key = KeyFor(c, page[c].try, j) /\ landing[fs[j].key] # Nothing
    OBVIOUS
  <2>1. CASE j = page[c].index
    BY <1>2, <1>6, <2>1 DEF Landed
  <2>2. CASE j # page[c].index
    BY <1>1, <1>6, <2>2 DEF ClientInv, Landed
  <2>3. QED
    BY <2>1, <2>2
<1> HIDE DEF k, es
<1>13. ClientInv(c)'
  <2>1. \A j \in DOMAIN fs : fs[j].key = KeyFor(c, s.try, j) /\ landing'[fs[j].key] # Nothing
    BY <1>1, <1>6, <1>10, <1>12
  <2>2. label = "land" => n \in 1 .. Count(c) /\ Len(fs) = n - 1
    BY <1>2, <1>6, <1>8, <1>9
  <2>3. label = "scanned" => Len(fs) = Count(c)
    BY <1>6, <1>9
  <2>4. s.try <= Tries[c] /\ s.try >= 1 /\ s.domain \in Domains
    BY <1>1, <1>2, <1>10 DEF ClientInv
  <2>5. QED
    BY <1>9, <1>10, <1>11, <2>1, <2>2, <2>3, <2>4 DEF ClientInv, Landed
<1>14. QED
  BY <1>1, <1>7, <1>13, PageMoved

LEMMA SubmitClickInv ==
  ASSUME PageInv, NEW c \in Clients, Submit(c)
  PROVE  PageInv'
<1> DEFINE s == [page[c] EXCEPT !.pc = "check", !.index = 1]
<1>1. page[c] \in ClientStates /\ 1 \in 1 .. Count(c) /\ Step(c, s) /\ UNCHANGED landing
  BY CountType DEF PageInv, Submit
<1>2. /\ s \in ClientStates /\ s.pc = "check" /\ s.try = page[c].try /\ s.domain = page[c].domain
      /\ s.entries = page[c].entries /\ s.index = 1
  BY <1>1 DEF ClientStates, Busy
<1> HIDE DEF s
<1>3. QED
  BY <1>1, <1>2, MoveInv, PageMoved DEF Submit

LEMMA StopAfterScanInv ==
  ASSUME PageInv, NEW c \in Clients, StopAfterScan(c)
  PROVE  PageInv'
<1>1. UNCHANGED landing /\ page[c].pc # "idle"
  BY DEF StopAfterScan
<1>2. CASE Fail(c)
  BY <1>1, <1>2, FailInv, PageMoved DEF Fail
<1>3. CASE Step(c, Ended(c, "done"))
  BY <1>1, <1>3, DoneInv, PageMoved
<1>4. QED
  BY <1>2, <1>3 DEF StopAfterScan

(* /trigger has looked at the ceiling, or has not been able to.             *)
LEMMA CheckedInv ==
  ASSUME PageInv, NEW c \in Clients, page[c].pc = "check",
         NEW m \in Classes \cup {Open, Unread}, m \in Classes => Rank[page[c].cls] <= Rank[m],
         Step(c, [page[c] EXCEPT !.pc = "create", !.ceiling = m]), UNCHANGED landing
  PROVE  PageInv'
<1> DEFINE s == [page[c] EXCEPT !.pc = "create", !.ceiling = m]
<1>1. page[c] \in ClientStates /\ page[c].index \in 1 .. Count(c)
  BY DEF PageInv, ClientInv
<1>2. /\ s \in ClientStates /\ s.pc = "create" /\ s.try = page[c].try /\ s.domain = page[c].domain
      /\ s.entries = page[c].entries /\ s.index = page[c].index
      /\ s.cls = page[c].cls /\ s.ceiling = m
  BY <1>1 DEF ClientStates, Busy
<1> HIDE DEF s
<1>3. QED
  BY <1>1, <1>2, MoveInv, PageMoved DEF s

LEMMA CheckCeilingInv ==
  ASSUME PageInv, ceilings \in [Domains -> Classes \cup {Open, Absent}],
         NEW c \in Clients, CheckCeiling(c)
  PROVE  PageInv'
<1> DEFINE max == ceilings[page[c].domain]
           m == IF max = Absent THEN Unread ELSE max
<1>1. page[c] \in ClientStates /\ page[c].domain \in Domains /\ UNCHANGED landing
  BY DEF PageInv, ClientInv, CheckCeiling
<1>2. max \in Classes \cup {Open, Absent}
  BY <1>1
<1>3. CASE Fail(c)
  BY <1>1, <1>3, FailInv, PageMoved DEF Fail, CheckCeiling
<1>4. CASE /\ ~(max \in Classes /\ Rank[page[c].cls] > Rank[max])
           /\ Step(c, [page[c] EXCEPT !.pc = "create", !.ceiling = m])
  <2>1. page[c].cls \in Classes
    BY <1>1 DEF ClientStates
  <2>2. m \in Classes \cup {Open, Unread} /\ (m \in Classes => m = max)
    BY <1>2, SubmitAssumption
  <2>3. m \in Classes => Rank[page[c].cls] <= Rank[m]
    <3> HIDE DEF max, m
    <3>1. Rank \in [Classes -> Nat]
      BY SubmitAssumption
    <3>2. QED
      BY <1>4, <2>1, <2>2, <3>1
  <2> HIDE DEF max, m
  <2>4. QED
    BY <1>1, <1>4, <2>2, <2>3, CheckedInv DEF CheckCeiling
<1>5. QED
  BY <1>3, <1>4 DEF CheckCeiling

LEMMA CeilingUnreadInv ==
  ASSUME PageInv, NEW c \in Clients, CeilingUnread(c)
  PROVE  PageInv'
BY CheckedInv, SubmitAssumption DEF CeilingUnread

LEMMA CreateRunInv ==
  ASSUME PageInv, NEW c \in Clients, CreateRun(c)
  PROVE  PageInv'
<1> DEFINE n == page[c].index + 1
           s == [page[c] EXCEPT !.pc = "check", !.index = n]
<1>1. /\ page[c] \in ClientStates /\ page[c].index \in 1 .. Count(c) /\ Count(c) \in Nat
      /\ Len(page[c].entries) = Count(c) /\ UNCHANGED landing
  BY CountType DEF PageInv, ClientInv, CreateRun
<1>2. CASE Step(c, Ended(c, "done"))
  BY <1>1, <1>2, DoneInv, PageMoved DEF CreateRun
<1>3. CASE page[c].index # Len(page[c].entries) /\ Step(c, s)
  <2>1. n \in 1 .. Count(c) /\ n \in Nat
    BY <1>1, <1>3
  <2> HIDE DEF n
  <2>2. /\ s \in ClientStates /\ s.pc = "check" /\ s.try = page[c].try
        /\ s.domain = page[c].domain /\ s.entries = page[c].entries /\ s.index = n
    BY <1>1, <2>1 DEF ClientStates, Busy
  <2> HIDE DEF s
  <2>3. QED
    BY <1>1, <1>3, <2>1, <2>2, MoveInv, PageMoved DEF CreateRun
<1>4. QED
  BY <1>2, <1>3 DEF CreateRun

LEMMA CallFailedInv ==
  ASSUME PageInv, NEW c \in Clients, CallFailed(c)
  PROVE  PageInv'
<1>1. StoreInv' /\ \A k \in LandingKeys : Landed(k) => Landed(k)'
  <2>1. CASE UNCHANGED landing
    BY <2>1 DEF PageInv, StoreInv, Landed
  <2>2. CASE /\ page[c].pc = "land" /\ c \notin Registers
             /\ landing' = [landing EXCEPT ![KeyOf(c)] = Picked[c][page[c].index]]
    BY <2>2, StoreGrows
  <2>3. QED
    BY <2>1, <2>2 DEF CallFailed
<1>2. page[c].pc # "idle" /\ Fail(c)
  BY DEF CallFailed, Busy
<1>3. QED
  BY <1>1, <1>2, FailInv, PageKept DEF Fail

LEMMA ResetInv ==
  ASSUME PageInv, NEW c \in Clients, Reset(c)
  PROVE  PageInv'
BY DoneInv, PageMoved DEF Reset

(* A staged object is none of those that the clients upload.                *)
LEMMA StageObjectInv ==
  ASSUME PageInv, NEW k \in Staged, StageObject(k)
  PROVE  PageInv'
<1>1. PICK f \in Files \cup {Empty} : landing' = [landing EXCEPT ![k] = f]
  BY SubmitAssumption DEF StageObject
<1>2. k \in LandingKeys /\ f # Nothing /\ UNCHANGED page
  BY SubmitAssumption DEF StageObject, LandingKeys
<1>3. \A l \in LandingKeys : Landed(l) => Landed(l)'
  BY <1>1, <1>2 DEF Landed, PageInv, StoreInv
<1>4. StoreInv'
  <2>1. landing' \in [LandingKeys -> Files \cup {Nothing, Empty}]
    BY <1>1, <1>2 DEF PageInv, StoreInv
  <2>2. ASSUME NEW d \in Clients \ Registers, NEW t \in 1 .. Tries[d], NEW j \in DOMAIN Picked[d]
        PROVE  landing'[<<d, t, j>>] \in {Nothing, Picked[d][j]}
    <3>1. <<d, t, j>> \in Uploads /\ <<d, t, j>> \in LandingKeys
      BY DEF Uploads, LandingKeys
    <3>2. <<d, t, j>> # k
      BY <3>1, LandingAssumption
    <3>3. QED
      BY <1>1, <3>1, <3>2 DEF PageInv, StoreInv
  <2>3. QED
    BY <2>1, <2>2 DEF StoreInv
<1>5. QED
  BY <1>2, <1>3, <1>4, ClientKept DEF PageInv

(* Those that create collections leave the rest alone.                      *)
LEMMA OthersKeepPages ==
  ASSUME (\E k \in Creates : CreateStep(k)) \/ (\E t \in Ensures : EnsureStep(t))
  PROVE  UNCHANGED <<page, landing, flowRuns>>
BY DEF CreateStep, CreatePosts, CreateReports, CreateFails,
   EnsureStep, EnsureGets, EnsurePosts, EnsureFails

LEMMA PageStep ==
  ASSUME PageInv, ceilings \in [Domains -> Classes \cup {Open, Absent}], [SubmitNext]_submitVars
  PROVE  PageInv'
<1>1. ASSUME NEW c \in Clients, Call(c) \/ UserStep(c) \/ CeilingUnread(c) \/ CallFailed(c)
      PROVE  PageInv'
  BY <1>1, UploadInv, RegisterInv, ScanInv, CheckCeilingInv, CreateRunInv, StopAfterScanInv,
     BeginInv, ChangeFormInv, SubmitClickInv, ResetInv, CeilingUnreadInv, CallFailedInv
     DEF Call, UserStep
<1>2. ASSUME NEW k \in Staged, StageObject(k) PROVE PageInv'
  BY <1>2, StageObjectInv
<1>3. ASSUME UNCHANGED <<page, landing>> PROVE PageInv'
  BY <1>3, ClientKept DEF PageInv, StoreInv, Landed
<1>4. ASSUME (\E k \in Creates : CreateStep(k)) \/ (\E t \in Ensures : EnsureStep(t))
      PROVE  UNCHANGED <<page, landing>>
  BY <1>4, OthersKeepPages
<1>5. QED
  BY <1>1, <1>2, <1>3, <1>4 DEF SubmitNext, submitVars

-----------------------------------------------------------------------------
(* The runs that clients have created.                                      *)

Before == {"land", "scan", "scanned"}
Triggering == {"check", "create"}

(* A run is for one of the objects of its submission; while the submission  *)
(* goes on, for one that the client is past.                                *)
RunInv(r) == LET c == r.by IN
    /\ r \in FlowRuns
    /\ r.try \in 1 .. page[c].try
    /\ r.entry \in 1 .. Count(c)
    /\ r.key = KeyFor(c, r.try, r.entry)
    /\ Landed(r.key)
    /\ r.ceiling \in Classes => Rank[r.cls] <= Rank[r.ceiling]
    /\ r.try = page[c].try =>
         /\ page[c].pc \notin Before
         /\ page[c].pc \in Triggering =>
              r.entry < page[c].index /\ r.domain = page[c].domain /\ r.cls = page[c].cls

OneRunEach ==
    \A r, s \in flowRuns : r.by = s.by /\ r.try = s.try /\ r.entry = s.entry => r = s

HasRuns(c, t, n) == \A e \in 1 .. n : \E r \in RunsOf(c, t) : r.entry = e

Alike(c, t) == \A r, s \in RunsOf(c, t) : r.domain = s.domain /\ r.cls = s.cls

(* A submission has runs for what it is past; one that is over without an   *)
(* error has all of them or none.                                           *)
SubmissionInv(c) ==
    /\ page[c].pc \in Triggering => HasRuns(c, page[c].try, page[c].index - 1)
    /\ \A t \in 1 .. page[c].try :
         t \notin page[c].failed /\ ~(t = page[c].try /\ page[c].pc \in Busy) =>
             RunsOf(c, t) = {} \/ (HasRuns(c, t, Count(c)) /\ Alike(c, t))

RunsInv ==
    /\ \A r \in flowRuns : RunInv(r)
    /\ OneRunEach
    /\ \A c \in Clients : SubmissionInv(c)

(* What a client may do while it creates no run.                            *)
QuietMove(c) ==
    /\ \A d \in Clients : d # c => page'[d] = page[d]
    /\ page'[c].try = page[c].try
    /\ page[c].failed \subseteq page'[c].failed
    /\ page'[c].pc \in Before => page[c].pc \in Before
    /\ page'[c].pc \in Triggering =>
         \/ /\ page[c].pc \in Triggering
            /\ page'[c].index = page[c].index
            /\ page'[c].domain = page[c].domain
            /\ page'[c].cls = page[c].cls
         \/ page[c].pc = "scanned" /\ page'[c].index = 1
    /\ page[c].pc \in Triggering =>
         page'[c].pc \in Triggering \/ page[c].try \in page'[c].failed

LEMMA FailMove ==
  ASSUME PageInv, NEW c \in Clients, Fail(c)
  PROVE  QuietMove(c) /\ page'[c].pc = "error"
<1> DEFINE t == Ended(c, "error")
           s == [t EXCEPT !.failed = @ \cup {page[c].try}]
<1>1. page[c] \in ClientStates
  BY DEF PageInv
<1>2. /\ t \in ClientStates /\ t.pc = "error"
      /\ t.try = page[c].try /\ t.failed = page[c].failed
  BY <1>1, EndedType
<1>3. /\ page'[c] = s
      /\ \A d \in Clients : d # c => page'[d] = page[d]
  BY DEF Fail, PageInv, Step
<1> HIDE DEF t
<1>4. s.pc = "error" /\ s.try = page[c].try /\ s.failed = page[c].failed \cup {page[c].try}
  BY <1>2 DEF ClientStates
<1> HIDE DEF s
<1>5. QED
  BY <1>3, <1>4 DEF QuietMove, Before, Triggering

LEMMA EndMove ==
  ASSUME PageInv, NEW c \in Clients, NEW label \in {"idle", "done"},
         page[c].pc \notin Triggering, Step(c, Ended(c, label))
  PROVE  QuietMove(c)
<1>1. page[c] \in ClientStates
  BY DEF PageInv
<1>2. /\ Ended(c, label).pc = label /\ Ended(c, label).try = page[c].try
      /\ Ended(c, label).failed = page[c].failed
  BY <1>1, EndedType
<1>3. /\ page'[c] = Ended(c, label)
      /\ \A d \in Clients : d # c => page'[d] = page[d]
  BY DEF PageInv, Step
<1>4. QED
  BY <1>2, <1>3 DEF QuietMove, Before, Triggering

(* A client moves to the state s.                                           *)
LEMMA MovedTo ==
  ASSUME PageInv, NEW c \in Clients, NEW s, Step(c, s)
  PROVE  page'[c] = s /\ \A d \in Clients : d # c => page'[d] = page[d]
BY DEF PageInv, Step

LEMMA ChangeFormMove ==
  ASSUME PageInv, NEW c \in Clients, ChangeForm(c)
  PROVE  QuietMove(c)
<1>1. PICK d \in Domains, cl \in Classes :
        Step(c, [page[c] EXCEPT !.domain = d, !.cls = cl])
  BY DEF ChangeForm, Offered
<1> DEFINE s == [page[c] EXCEPT !.domain = d, !.cls = cl]
<1>2. page[c] \in ClientStates /\ page[c].pc \notin Busy
  BY DEF PageInv, ChangeForm
<1>3. s.pc = page[c].pc /\ s.try = page[c].try /\ s.failed = page[c].failed
  BY <1>2 DEF ClientStates
<1>4. page'[c] = s /\ \A e \in Clients : e # c => page'[e] = page[e]
  BY <1>1, MovedTo
<1> HIDE DEF s
<1>5. QED
  BY <1>2, <1>3, <1>4 DEF QuietMove, Before, Triggering, Busy

LEMMA UploadMove ==
  ASSUME PageInv, NEW c \in Clients, page[c].pc = "land",
         Step(c, [page[c] EXCEPT !.pc = "scan"])
  PROVE  QuietMove(c)
<1> DEFINE s == [page[c] EXCEPT !.pc = "scan"]
<1>1. page[c] \in ClientStates
  BY DEF PageInv
<1>2. s.pc = "scan" /\ s.try = page[c].try /\ s.failed = page[c].failed
  BY <1>1 DEF ClientStates
<1>3. page'[c] = s /\ \A e \in Clients : e # c => page'[e] = page[e]
  BY MovedTo
<1> HIDE DEF s
<1>4. QED
  BY <1>2, <1>3 DEF QuietMove, Before, Triggering

LEMMA ScanMove ==
  ASSUME PageInv, NEW c \in Clients, Scan(c)
  PROVE  QuietMove(c)
<1> DEFINE fs == Append(page[c].entries, [key |-> KeyOf(c), kind |-> KindOf(KeyOf(c))])
           n == page[c].index + 1
           label == IF page[c].index = Count(c) THEN "scanned" ELSE "land"
           s == [page[c] EXCEPT !.entries = fs, !.index = n, !.pc = label]
<1>1. page[c] \in ClientStates /\ page[c].pc = "scan" /\ label \in {"scanned", "land"}
  BY DEF PageInv, Scan
<1>2. Step(c, s)
  BY DEF Scan
<1> HIDE DEF fs, n, label
<1>3. s.pc = label /\ s.try = page[c].try /\ s.failed = page[c].failed
  BY <1>1 DEF ClientStates
<1>4. page'[c] = s /\ \A e \in Clients : e # c => page'[e] = page[e]
  BY <1>2, MovedTo
<1> HIDE DEF s
<1>5. QED
  BY <1>1, <1>3, <1>4 DEF QuietMove, Before, Triggering

LEMMA SubmitMove ==
  ASSUME PageInv, NEW c \in Clients, Submit(c)
  PROVE  QuietMove(c)
<1> DEFINE s == [page[c] EXCEPT !.pc = "check", !.index = 1]
<1>1. page[c] \in ClientStates /\ page[c].pc = "scanned" /\ Step(c, s)
  BY DEF PageInv, Submit
<1>2. s.pc = "check" /\ s.index = 1 /\ s.try = page[c].try /\ s.failed = page[c].failed
  BY <1>1 DEF ClientStates
<1>3. page'[c] = s /\ \A e \in Clients : e # c => page'[e] = page[e]
  BY <1>1, MovedTo
<1> HIDE DEF s
<1>4. QED
  BY <1>1, <1>2, <1>3 DEF QuietMove, Before, Triggering

LEMMA CheckedMove ==
  ASSUME PageInv, NEW c \in Clients, page[c].pc = "check", NEW m,
         Step(c, [page[c] EXCEPT !.pc = "create", !.ceiling = m])
  PROVE  QuietMove(c)
<1> DEFINE s == [page[c] EXCEPT !.pc = "create", !.ceiling = m]
<1>1. page[c] \in ClientStates
  BY DEF PageInv
<1>2. /\ s.pc = "create" /\ s.try = page[c].try /\ s.failed = page[c].failed
      /\ s.index = page[c].index /\ s.domain = page[c].domain /\ s.cls = page[c].cls
  BY <1>1 DEF ClientStates
<1>3. page'[c] = s /\ \A e \in Clients : e # c => page'[e] = page[e]
  BY MovedTo
<1> HIDE DEF s
<1>4. QED
  BY <1>2, <1>3 DEF QuietMove, Before, Triggering

(* Only CreateRun, and a call of it that fails, make runs.                  *)
LEMMA QuietSteps ==
  ASSUME PageInv, NEW c \in Clients,
         \/ ChangeForm(c) \/ Upload(c) \/ Register(c) \/ Scan(c) \/ Submit(c) \/ StopAfterScan(c)
         \/ CheckCeiling(c) \/ CeilingUnread(c) \/ Reset(c)
         \/ CallFailed(c) /\ UNCHANGED flowRuns
  PROVE  QuietMove(c) /\ UNCHANGED flowRuns
<1>1. CASE ChangeForm(c)
  BY <1>1, ChangeFormMove DEF ChangeForm
<1>2. CASE Upload(c)
  BY <1>2, UploadMove DEF Upload
<1>3. CASE Register(c)
  BY <1>3, UploadMove, FailMove DEF Register
<1>4. CASE Scan(c)
  BY <1>4, ScanMove DEF Scan
<1>5. CASE Submit(c)
  BY <1>5, SubmitMove DEF Submit
<1>6. CASE StopAfterScan(c)
  BY <1>6, FailMove, EndMove DEF StopAfterScan, Triggering
<1>7. CASE CheckCeiling(c)
  BY <1>7, CheckedMove, FailMove DEF CheckCeiling
<1>8. CASE CeilingUnread(c)
  BY <1>8, CheckedMove DEF CeilingUnread
<1>9. CASE Reset(c)
  BY <1>9, EndMove DEF Reset, Triggering
<1>10. CASE CallFailed(c) /\ UNCHANGED flowRuns
  BY <1>10, FailMove DEF CallFailed
<1>11. QED
  BY <1>1, <1>2, <1>3, <1>4, <1>5, <1>6, <1>7, <1>8, <1>9, <1>10

LEMMA QuietKept ==
  ASSUME PageInv, RunsInv, NEW c \in Clients, QuietMove(c), UNCHANGED flowRuns,
         \A k \in LandingKeys : Landed(k) => Landed(k)'
  PROVE  RunsInv'
<1>1. ASSUME NEW r \in flowRuns PROVE RunInv(r)'
  <2>1. RunInv(r) /\ r.by \in Clients /\ r.key \in LandingKeys
    BY DEF RunsInv, RunInv, FlowRuns
  <2>2. CASE r.by # c
    BY <2>1, <2>2 DEF RunInv, QuietMove
  <2>3. CASE r.by = c
    BY <2>1, <2>3 DEF RunInv, QuietMove, Before
  <2>4. QED
    BY <2>2, <2>3
<1>2. \A d \in Clients, t \in Nat : RunsOf(d, t)' = RunsOf(d, t)
  BY DEF RunsOf
<1>3. ASSUME NEW d \in Clients PROVE SubmissionInv(d)'
  <2>1. SubmissionInv(d) /\ page[d] \in ClientStates /\ page[d].try \in Nat
    BY DEF RunsInv, PageInv, ClientStates
  <2>2. CASE d # c
    BY <2>1, <2>2, <1>2 DEF SubmissionInv, HasRuns, Alike, QuietMove, RunsOf
  <2>3. CASE d = c
    <3>1. (page[c].pc \in Triggering => HasRuns(c, page[c].try, page[c].index - 1))'
      <4>1. CASE page[c].pc \in Triggering /\ page'[c].index = page[c].index
        BY <2>1, <2>3, <4>1 DEF SubmissionInv, HasRuns, QuietMove, RunsOf
      <4>2. CASE page'[c].index = 1
        BY <4>2 DEF HasRuns
      <4>3. QED
        BY <4>1, <4>2 DEF QuietMove
    <3>2. ASSUME NEW t \in 1 .. page[c].try, t \notin page'[c].failed,
                 ~(t = page[c].try /\ page'[c].pc \in Busy)
          PROVE  RunsOf(c, t) = {} \/ (HasRuns(c, t, Count(c)) /\ Alike(c, t))
      <4>1. CASE ~(t = page[c].try /\ page[c].pc \in Busy)
        BY <2>1, <2>3, <3>2, <4>1 DEF SubmissionInv, QuietMove
      <4>2. CASE t = page[c].try /\ page[c].pc \in Busy
        <5>1. page[c].pc \in Before
          BY <3>2, <4>2 DEF QuietMove, Busy, Before, Triggering
        <5>2. RunsOf(c, t) = {}
          BY <4>2, <5>1 DEF RunsOf, RunsInv, RunInv
        <5>3. QED
          BY <5>2
      <4>3. QED
        BY <4>1, <4>2
    <3>3. page'[c].try = page[c].try
      BY DEF QuietMove
    <3>4. \A t \in 1 .. page[c].try : /\ HasRuns(c, t, Count(c))' = HasRuns(c, t, Count(c))
                                     /\ Alike(c, t)' = Alike(c, t)
                                     /\ RunsOf(c, t)' = RunsOf(c, t)
      BY DEF HasRuns, Alike, RunsOf, Count
    <3>5. QED
      BY <2>3, <3>1, <3>2, <3>3, <3>4 DEF SubmissionInv
  <2>4. QED
    BY <2>2, <2>3
<1>4. QED
  BY <1>1, <1>3 DEF RunsInv, OneRunEach

LEMMA BeginKept ==
  ASSUME PageInv, RunsInv, NEW c \in Clients, Begin(c)
  PROVE  RunsInv'
<1> DEFINE t == page[c].try + 1
           s == [page[c] EXCEPT !.pc = "land", !.try = t]
<1>1. page[c] \in ClientStates /\ page[c].try \in Nat /\ page[c].pc = "idle"
  BY DEF PageInv, ClientStates, Begin
<1>2. Step(c, s) /\ UNCHANGED <<flowRuns, landing>>
  BY DEF Begin
<1>3. t \in Nat /\ t = page[c].try + 1
  BY <1>1
<1> HIDE DEF t
<1>4. s.pc = "land" /\ s.try = t /\ s.failed = page[c].failed
  BY <1>1, <1>3 DEF ClientStates
<1>5. page'[c] = s /\ \A e \in Clients : e # c => page'[e] = page[e]
  BY <1>2, MovedTo
<1> HIDE DEF s
<1>6. ASSUME NEW r \in flowRuns PROVE RunInv(r)'
  <2>1. RunInv(r) /\ r.by \in Clients
    BY DEF RunsInv, RunInv, FlowRuns
  <2>2. CASE r.by # c
    BY <1>2, <1>5, <2>1, <2>2 DEF RunInv, Landed
  <2>3. CASE r.by = c
    BY <1>1, <1>2, <1>3, <1>4, <1>5, <2>1, <2>3 DEF RunInv, Landed
  <2>4. QED
    BY <2>2, <2>3
<1>7. ASSUME NEW d \in Clients PROVE SubmissionInv(d)'
  <2>1. SubmissionInv(d)
    BY DEF RunsInv
  <2>2. CASE d # c
    BY <1>2, <1>5, <2>1, <2>2 DEF SubmissionInv, HasRuns, Alike, RunsOf
  <2>3. CASE d = c
    <3>1. \A n \in 1 .. t : n # t => n \in 1 .. page[c].try
      BY <1>1, <1>3
    <3>2. page[c].pc \notin Busy /\ "land" \in Busy /\ "land" \notin Triggering
      BY <1>1 DEF Busy, Triggering
    <3>3. QED
      BY <1>2, <1>4, <1>5, <2>1, <2>3, <3>1, <3>2 DEF SubmissionInv, HasRuns, Alike, RunsOf, Count
  <2>4. QED
    BY <2>2, <2>3
<1>8. QED
  BY <1>2, <1>6, <1>7 DEF RunsInv, OneRunEach

(* A run is created; the client goes on with the next object, is done with  *)
(* its submission, or takes it for failed.                                  *)
MakingMove(c) ==
    /\ \A d \in Clients : d # c => page'[d] = page[d]
    /\ page'[c].try = page[c].try
    /\ page[c].failed \subseteq page'[c].failed
    /\ \/ /\ page'[c].pc = "check"
          /\ page'[c].index = page[c].index + 1
          /\ page'[c].domain = page[c].domain
          /\ page'[c].cls = page[c].cls
       \/ page'[c].pc = "done" /\ page[c].index = Count(c)
       \/ page'[c].pc = "error" /\ page[c].try \in page'[c].failed

NewRun(c) ==
    [by |-> c, try |-> page[c].try, entry |-> page[c].index,
     key |-> page[c].entries[page[c].index].key,
     domain |-> page[c].domain, cls |-> page[c].cls, ceiling |-> page[c].ceiling]

LEMMA NewRunType ==
  ASSUME PageInv, NEW c \in Clients, page[c].pc = "create"
  PROVE  LET r == NewRun(c) IN
         /\ r \in FlowRuns /\ r.by = c /\ r.try = page[c].try /\ r.entry = page[c].index
         /\ r.try \in 1 .. page[c].try
         /\ r.entry \in 1 .. Count(c)
         /\ r.key = KeyFor(c, r.try, r.entry)
         /\ Landed(r.key)
         /\ r.domain = page[c].domain /\ r.cls = page[c].cls /\ r.ceiling = page[c].ceiling
         /\ r.ceiling \in Classes => Rank[r.cls] <= Rank[r.ceiling]
<1> DEFINE i == page[c].index
           e == page[c].entries[i]
<1>1. ClientInv(c) /\ page[c] \in ClientStates
  BY DEF PageInv
<1>2. /\ i \in 1 .. Count(c) /\ Len(page[c].entries) = Count(c) /\ page[c].try >= 1
      /\ page[c].domain \in Domains
  BY <1>1 DEF ClientInv
<1>3. i \in DOMAIN page[c].entries /\ page[c].try \in Nat /\ i \in Nat
  BY <1>1, <1>2, CountType DEF ClientStates
<1>4. e.key \in LandingKeys /\ e.key = KeyFor(c, page[c].try, i) /\ Landed(e.key)
  BY <1>1, <1>3, EntryKeys DEF ClientInv
<1>5. page[c].cls \in Classes /\ page[c].ceiling \in Classes \cup {Open, Unread}
  BY <1>1 DEF ClientStates
<1>6. page[c].ceiling \in Classes => Rank[page[c].cls] <= Rank[page[c].ceiling]
  BY <1>1 DEF ClientInv
<1>7. NewRun(c) \in FlowRuns
  BY <1>2, <1>3, <1>4, <1>5 DEF NewRun, FlowRuns
<1> HIDE DEF i, e
<1>8. QED
  BY <1>2, <1>3, <1>4, <1>6, <1>7 DEF NewRun, i, e

LEMMA MakingKept ==
  ASSUME PageInv, RunsInv, NEW c \in Clients, page[c].pc = "create", AddRun(c),
         MakingMove(c), UNCHANGED landing
  PROVE  RunsInv'
<1>0. PICK n \in FlowRuns, t \in Nat, i \in Nat :
        n = NewRun(c) /\ t = page[c].try /\ i = page[c].index
  BY NewRunType DEF PageInv, ClientStates
<1>1. /\ n.by = c /\ n.try = t /\ n.entry = i
      /\ n.try \in 1 .. t /\ n.entry \in 1 .. Count(c)
      /\ n.key = KeyFor(c, n.try, n.entry) /\ Landed(n.key)
      /\ n.domain = page[c].domain /\ n.cls = page[c].cls
      /\ n.ceiling \in Classes => Rank[n.cls] <= Rank[n.ceiling]
  BY <1>0, NewRunType
<1>2. flowRuns' = flowRuns \cup {n}
  BY <1>0 DEF AddRun, NewRun
<1>3. /\ \A d \in Clients : d # c => page'[d] = page[d]
      /\ page'[c].try = t /\ page[c].try = t /\ page[c].index = i
      /\ page[c].failed \subseteq page'[c].failed
      /\ \/ /\ page'[c].pc = "check" /\ page'[c].index = i + 1
            /\ page'[c].domain = page[c].domain /\ page'[c].cls = page[c].cls
         \/ page'[c].pc = "done" /\ i = Count(c)
         \/ page'[c].pc = "error" /\ t \in page'[c].failed
  BY <1>0 DEF MakingMove
<1>4. ASSUME NEW r \in flowRuns PROVE RunInv(r)'
  <2>1. RunInv(r) /\ r.by \in Clients /\ r.entry \in Nat
    BY DEF RunsInv, RunInv, FlowRuns
  <2>2. CASE r.by # c
    BY <1>3, <2>1, <2>2 DEF RunInv, Landed
  <2>3. CASE r.by = c
    BY <1>3, <2>1, <2>3 DEF RunInv, Landed, Before, Triggering
  <2>4. QED
    BY <2>2, <2>3
<1>5. RunInv(n)'
  BY <1>1, <1>3 DEF RunInv, Landed, Before, Triggering
<1>6. \A r \in flowRuns : r.by = c /\ r.try = t =>
         r.entry < i /\ r.domain = page[c].domain /\ r.cls = page[c].cls
  BY <1>3 DEF RunsInv, RunInv, Triggering
<1>7. OneRunEach'
  <2>1. \A r \in flowRuns : r.by = c /\ r.try = t => r.entry # i
    BY <1>6 DEF RunsInv, RunInv, FlowRuns
  <2>2. QED
    BY <1>1, <1>2, <2>1 DEF OneRunEach, RunsInv
<1>8. /\ RunsOf(c, t)' = RunsOf(c, t) \cup {n}
      /\ \A d \in Clients, u \in Nat : ~(d = c /\ u = t) => RunsOf(d, u)' = RunsOf(d, u)
  BY <1>1, <1>2 DEF RunsOf
<1>9. ASSUME NEW d \in Clients PROVE SubmissionInv(d)'
  <2>1. SubmissionInv(d) /\ page[d].try \in Nat
    BY DEF RunsInv, PageInv, ClientStates
  <2>2. CASE d # c
    BY <1>3, <1>8, <2>1, <2>2 DEF SubmissionInv, HasRuns, Alike
  <2>3. CASE d = c
    <3>1. \A e \in 1 .. i : \E r \in RunsOf(c, t)' : r.entry = e
      <4>1. \A e \in 1 .. i - 1 : \E r \in RunsOf(c, t) : r.entry = e
        BY <1>3, <2>1, <2>3 DEF SubmissionInv, Triggering, HasRuns
      <4>2. \A e \in 1 .. i : e = i \/ e \in 1 .. i - 1
        OBVIOUS
      <4>3. QED
        BY <1>1, <1>8, <4>1, <4>2
    <3>2. \A r, s \in RunsOf(c, t)' : r.domain = s.domain /\ r.cls = s.cls
      BY <1>1, <1>6, <1>8 DEF RunsOf
    <3>3. (page[c].pc \in Triggering => HasRuns(c, page[c].try, page[c].index - 1))'
      BY <1>3, <3>1 DEF Triggering, HasRuns
    <3>4. ASSUME NEW u \in 1 .. t, u \notin page'[c].failed,
                 ~(u = t /\ page'[c].pc \in Busy)
          PROVE  (RunsOf(c, u) = {} \/ (HasRuns(c, u, Count(c)) /\ Alike(c, u)))'
      <4>1. CASE u = t
        <5>1. i = Count(c)
          BY <1>3, <3>4, <4>1 DEF Busy
        <5>2. QED
          BY <3>1, <3>2, <4>1, <5>1 DEF HasRuns, Alike
      <4>2. CASE u # t
        <5>1. RunsOf(c, u) = {} \/ (HasRuns(c, u, Count(c)) /\ Alike(c, u))
          BY <1>3, <2>1, <2>3, <3>4, <4>2 DEF SubmissionInv
        <5>2. RunsOf(c, u)' = RunsOf(c, u)
          BY <1>8, <4>2
        <5>3. QED
          BY <5>1, <5>2 DEF HasRuns, Alike
      <4>3. QED
        BY <4>1, <4>2
    <3>5. QED
      BY <1>3, <2>3, <3>3, <3>4 DEF SubmissionInv
  <2>4. QED
    BY <2>2, <2>3
<1>10. QED
  BY <1>2, <1>4, <1>5, <1>7, <1>9 DEF RunsInv

LEMMA CreateRunMove ==
  ASSUME PageInv, NEW c \in Clients, CreateRun(c)
  PROVE  MakingMove(c)
<1> DEFINE i == page[c].index + 1
           s == [page[c] EXCEPT !.pc = "check", !.index = i]
<1>1. page[c] \in ClientStates /\ Len(page[c].entries) = Count(c)
  BY DEF PageInv, ClientInv, CreateRun
<1>2. CASE page[c].index = Count(c) /\ Step(c, Ended(c, "done"))
  <2>1. /\ Ended(c, "done").pc = "done" /\ Ended(c, "done").try = page[c].try
        /\ Ended(c, "done").failed = page[c].failed
    BY <1>1, EndedType
  <2>2. page'[c] = Ended(c, "done") /\ \A d \in Clients : d # c => page'[d] = page[d]
    BY <1>2, MovedTo
  <2>3. QED
    BY <1>2, <2>1, <2>2 DEF MakingMove
<1>3. CASE Step(c, s)
  <2>1. i = page[c].index + 1
    OBVIOUS
  <2> HIDE DEF i
  <2>2. /\ s.pc = "check" /\ s.try = page[c].try /\ s.failed = page[c].failed
        /\ s.index = i /\ s.domain = page[c].domain /\ s.cls = page[c].cls
    BY <1>1 DEF ClientStates
  <2>3. page'[c] = s /\ \A d \in Clients : d # c => page'[d] = page[d]
    BY <1>3, MovedTo
  <2> HIDE DEF s
  <2>4. QED
    BY <2>1, <2>2, <2>3 DEF MakingMove
<1>4. QED
  BY <1>1, <1>2, <1>3 DEF CreateRun

LEMMA FailedMakingMove ==
  ASSUME PageInv, NEW c \in Clients, Fail(c)
  PROVE  MakingMove(c)
<1> DEFINE t == Ended(c, "error")
           s == [t EXCEPT !.failed = @ \cup {page[c].try}]
<1>1. page[c] \in ClientStates
  BY DEF PageInv
<1>2. /\ t \in ClientStates /\ t.pc = "error"
      /\ t.try = page[c].try /\ t.failed = page[c].failed
  BY <1>1, EndedType
<1>3. page'[c] = s /\ \A d \in Clients : d # c => page'[d] = page[d]
  BY MovedTo DEF Fail
<1> HIDE DEF t
<1>4. s.pc = "error" /\ s.try = page[c].try /\ s.failed = page[c].failed \cup {page[c].try}
  BY <1>2 DEF ClientStates
<1> HIDE DEF s
<1>5. QED
  BY <1>3, <1>4 DEF MakingMove

(* Nothing that has landed is taken away.                                   *)
LEMMA StepsLand ==
  ASSUME PageInv, NEW c \in Clients,
         Call(c) \/ UserStep(c) \/ CeilingUnread(c) \/ CallFailed(c)
  PROVE  \A k \in LandingKeys : Landed(k) => Landed(k)'
<1>1. CASE UNCHANGED landing
  BY <1>1 DEF Landed
<1>2. CASE /\ c \notin Registers /\ page[c].pc = "land"
           /\ landing' = [landing EXCEPT ![KeyOf(c)] = Picked[c][page[c].index]]
  BY <1>2, StoreGrows
<1>3. QED
  BY <1>1, <1>2 DEF Call, UserStep, Upload, Register, Scan, CheckCeiling, CreateRun,
     StopAfterScan, Begin, ChangeForm, Submit, Reset, CeilingUnread, CallFailed

LEMMA StageObjectLands ==
  ASSUME PageInv, NEW k \in Staged, StageObject(k)
  PROVE  \A l \in LandingKeys : Landed(l) => Landed(l)'
<1>1. PICK f \in Files \cup {Empty} : landing' = [landing EXCEPT ![k] = f]
  BY SubmitAssumption DEF StageObject
<1>2. f # Nothing
  BY SubmitAssumption
<1>3. QED
  BY <1>1, <1>2 DEF Landed, PageInv, StoreInv

LEMMA RunsStay ==
  ASSUME PageInv, RunsInv, UNCHANGED <<page, flowRuns>>,
         \A k \in LandingKeys : Landed(k) => Landed(k)'
  PROVE  RunsInv'
<1>1. \A r \in flowRuns : RunInv(r)'
  BY DEF RunsInv, RunInv, FlowRuns
<1>2. QED
  BY <1>1 DEF RunsInv, OneRunEach, SubmissionInv, HasRuns, Alike, RunsOf

LEMMA RunsStep ==
  ASSUME PageInv, RunsInv, [SubmitNext]_submitVars
  PROVE  RunsInv'
<1>1. ASSUME NEW c \in Clients, Call(c) \/ UserStep(c) \/ CeilingUnread(c) \/ CallFailed(c)
      PROVE  RunsInv'
  <2>1. \A k \in LandingKeys : Landed(k) => Landed(k)'
    BY <1>1, StepsLand
  <2>2. CASE Begin(c)
    BY <2>2, BeginKept
  <2>3. CASE CreateRun(c)
    BY <2>3, CreateRunMove, MakingKept DEF CreateRun
  <2>4. CASE CallFailed(c) /\ flowRuns' # flowRuns
    <3>1. page[c].pc = "create" /\ AddRun(c) /\ UNCHANGED landing /\ Fail(c)
      BY <2>4 DEF CallFailed
    <3>2. QED
      BY <3>1, FailedMakingMove, MakingKept
  <2>5. CASE \/ ChangeForm(c) \/ Upload(c) \/ Register(c) \/ Scan(c) \/ Submit(c)
             \/ StopAfterScan(c) \/ CheckCeiling(c) \/ CeilingUnread(c) \/ Reset(c)
             \/ CallFailed(c) /\ UNCHANGED flowRuns
    BY <2>1, <2>5, QuietSteps, QuietKept
  <2>6. QED
    BY <1>1, <2>2, <2>3, <2>4, <2>5 DEF Call, UserStep
<1>2. ASSUME NEW k \in Staged, StageObject(k) PROVE RunsInv'
  BY <1>2, StageObjectLands, RunsStay DEF StageObject
<1>3. ASSUME UNCHANGED <<page, landing, flowRuns>> PROVE RunsInv'
  BY <1>3, RunsStay DEF Landed
<1>4. ASSUME (\E k \in Creates : CreateStep(k)) \/ (\E t \in Ensures : EnsureStep(t))
      PROVE  UNCHANGED <<page, landing, flowRuns>>
  BY <1>4, OthersKeepPages
<1>5. QED
  BY <1>1, <1>2, <1>3, <1>4 DEF SubmitNext, submitVars

-----------------------------------------------------------------------------
(* The ceilings.                                                            *)

DomainTypeOK ==
    /\ ceilings \in [Domains -> Classes \cup {Open, Absent}]
    /\ upserts \in BOOLEAN
    /\ creates \in [Creates -> CreateStates]
    /\ ensures \in [Ensures -> EnsureStates]
    /\ author \in [Domains -> Creates \cup Ensures \cup {Nothing}]

(* A collection is never deleted: while there is none, nobody has created   *)
(* it, so an ensure_collection that goes on to its POST has seen nobody.    *)
NeverThere(d) == ceilings[d] = Absent => Sent(d) = {}

SeenNobody == \A t \in Ensures : ensures[t].seen = {}

(* A ceiling whose POST had its effect is in force, reported or not yet, or *)
(* a later POST to a catalogue that upserts has replaced it.                *)
Replaced(k) == LET d == DomainAt[k] IN
    /\ upserts
    /\ \/ author[d] \in Creates \ {k} /\ ceilings[d] = Given[author[d]]
       \/ author[d] \in Ensures /\ ceilings[d] = Open /\ k \notin ensures[author[d]].seen

InForce(k) == ceilings[DomainAt[k]] = Given[k]

SentCeilingsHold ==
    \A k \in Creates : creates[k] \in {"sent", "reported"} => InForce(k) \/ Replaced(k)

DomainInv ==
    /\ DomainTypeOK
    /\ \A d \in Domains : NeverThere(d)
    /\ SeenNobody
    /\ SentCeilingsHold

LEMMA DomainAtType ==
  /\ \A x \in Creates \cup Ensures : DomainAt[x] \in Domains
  /\ \A k \in Creates : Given[k] \in Classes /\ Given[k] # Absent
  /\ Open # Absent
BY SubmitAssumption DEF Open, Absent

LEMMA DomainsKept ==
  ASSUME DomainInv, UNCHANGED domainVars
  PROVE  DomainInv'
BY DEF DomainInv, DomainTypeOK, NeverThere, Sent, SeenNobody, SentCeilingsHold, InForce,
   Replaced, domainVars

LEMMA ClientsKeepDomains ==
  ASSUME NEW c \in Clients, Call(c) \/ UserStep(c) \/ CeilingUnread(c) \/ CallFailed(c)
  PROVE  UNCHANGED domainVars
BY DEF Call, UserStep, Upload, Register, Scan, CheckCeiling, CreateRun, StopAfterScan, Begin,
   ChangeForm, Submit, Reset, CeilingUnread, CallFailed

(* A POST that has its effect: what it replaces is another's.               *)
LEMMA PostKept ==
  ASSUME DomainInv, NEW x \in Creates \cup Ensures, NEW g \in Classes \cup {Open},
         Postable(DomainAt[x]), Post(DomainAt[x], g, x),
         x \in Creates => g = Given[x] /\ creates[x] = "ready",
         x \in Ensures => g = Open,
         upserts' = upserts, DomainTypeOK', SeenNobody',
         \A k \in Creates : k # x => creates'[k] = creates[k]
  PROVE  DomainInv'
<1> DEFINE d == DomainAt[x]
<1>1. d \in Domains /\ g # Absent
  BY DomainAtType, SubmitAssumption
<1>2. /\ ceilings'[d] = g /\ author'[d] = x
      /\ \A e \in Domains : e # d => ceilings'[e] = ceilings[e] /\ author'[e] = author[e]
  BY <1>1 DEF Post, DomainInv, DomainTypeOK
<1>3. ASSUME NEW e \in Domains PROVE NeverThere(e)'
  <2>1. CASE e = d
    BY <1>1, <1>2, <2>1 DEF NeverThere
  <2>2. CASE e # d
    <3>1. ceilings'[e] = ceilings[e] /\ NeverThere(e)
      BY <1>2, <2>2 DEF DomainInv
    <3>2. \A k \in Creates : DomainAt[k] = e => k # x /\ creates'[k] = creates[k]
      BY <2>2
    <3>3. QED
      BY <3>1, <3>2 DEF NeverThere, Sent
  <2>3. QED
    BY <2>1, <2>2
<1>4. ASSUME NEW k \in Creates, creates'[k] \in {"sent", "reported"}
      PROVE  InForce(k)' \/ Replaced(k)'
  <2>1. DomainAt[k] \in Domains
    BY DomainAtType
  <2>2. CASE k = x
    BY <1>2, <2>2 DEF InForce
  <2>3. CASE k # x /\ DomainAt[k] # d
    <3>1. InForce(k) \/ Replaced(k)
      BY <1>4, <2>3 DEF DomainInv, SentCeilingsHold
    <3>2. author[DomainAt[k]] \in Ensures => k \notin ensures'[author[DomainAt[k]]].seen
      BY DEF SeenNobody
    <3>3. QED
      BY <1>2, <2>1, <2>3, <3>1, <3>2 DEF InForce, Replaced
  <2>4. CASE k # x /\ DomainAt[k] = d
    <3>1. upserts
      <4>1. k \in Sent(d)
        BY <1>4, <2>4 DEF Sent
      <4>2. ceilings[d] # Absent
        BY <1>1, <4>1 DEF DomainInv, NeverThere
      <4>3. QED
        BY <4>2 DEF Postable
    <3>2. CASE x \in Creates
      BY <1>2, <2>4, <3>1, <3>2 DEF Replaced
    <3>3. CASE x \in Ensures
      BY <1>2, <2>4, <3>1, <3>3 DEF Replaced, SeenNobody
    <3>4. QED
      BY <3>2, <3>3
  <2>5. QED
    BY <2>2, <2>3, <2>4
<1>5. QED
  BY <1>3, <1>4 DEF DomainInv, SentCeilingsHold

(* The answer of a create, and its end.                                     *)
LEMMA AnswerKept ==
  ASSUME DomainInv, NEW k \in Creates, NEW label \in {"reported", "failed"},
         label = "reported" => creates[k] = "sent",
         creates' = [creates EXCEPT ![k] = label],
         UNCHANGED <<ceilings, upserts, ensures, author>>
  PROVE  DomainInv'
<1>1. DomainTypeOK' /\ SeenNobody'
  BY DEF DomainInv, DomainTypeOK, SeenNobody, CreateStates
<1>2. \A j \in Creates : creates'[j] \in {"sent", "reported"} => creates[j] \in {"sent", "reported"}
  BY DEF DomainInv, DomainTypeOK
<1>3. \A d \in Domains : NeverThere(d)'
  BY <1>2 DEF DomainInv, NeverThere, Sent
<1>4. SentCeilingsHold'
  BY <1>2 DEF DomainInv, SentCeilingsHold, InForce, Replaced
<1>5. QED
  BY <1>1, <1>3, <1>4 DEF DomainInv

LEMMA CreateKept ==
  ASSUME DomainInv, NEW k \in Creates, CreateStep(k)
  PROVE  DomainInv'
<1>1. CASE CreateReports(k)
  BY <1>1, AnswerKept DEF CreateReports
<1>2. CASE CreateFails(k)
  BY <1>2, AnswerKept DEF CreateFails
<1>3. CASE CreatePosts(k) /\ UNCHANGED <<ceilings, author>>
           /\ creates' = [creates EXCEPT ![k] = "failed"]
  BY <1>3, AnswerKept DEF CreatePosts
<1>4. CASE /\ creates[k] = "ready" /\ Postable(DomainAt[k]) /\ Post(DomainAt[k], Given[k], k)
           /\ creates' = [creates EXCEPT ![k] = "sent"] /\ UNCHANGED <<upserts, ensures>>
  <2>1. SeenNobody' /\ DomainTypeOK'
    BY <1>4, DomainAtType DEF Post, DomainInv, DomainTypeOK, SeenNobody, CreateStates
  <2>2. k \notin Ensures /\ Given[k] \in Classes
    BY SubmitAssumption
  <2>3. \A j \in Creates : j # k => creates'[j] = creates[j]
    BY <1>4 DEF DomainInv, DomainTypeOK
  <2>4. QED
    BY <1>4, <2>1, <2>2, <2>3, PostKept
<1>5. QED
  BY <1>1, <1>2, <1>3, <1>4 DEF CreateStep, CreatePosts

(* ensure_collection goes on to another stage, having seen nobody.          *)
LEMMA EnsureAtType ==
  ASSUME DomainInv, NEW t \in Ensures, NEW label \in {"missed", "ended"}, EnsureAt(t, label, {})
  PROVE  SeenNobody' /\ ensures' \in [Ensures -> EnsureStates]
BY DEF EnsureAt, DomainInv, DomainTypeOK, SeenNobody, EnsureStates

LEMMA StageKept ==
  ASSUME DomainInv, NEW t \in Ensures, NEW label \in {"missed", "ended"}, EnsureAt(t, label, {}),
         UNCHANGED <<ceilings, upserts, creates, author>>
  PROVE  DomainInv'
<1>1. SeenNobody' /\ DomainTypeOK'
  BY EnsureAtType DEF DomainInv, DomainTypeOK
<1>2. \A d \in Domains : NeverThere(d)'
  BY DEF DomainInv, NeverThere, Sent
<1>3. SentCeilingsHold'
  BY <1>1 DEF DomainInv, SentCeilingsHold, InForce, Replaced, SeenNobody
<1>4. QED
  BY <1>1, <1>2, <1>3 DEF DomainInv

LEMMA EnsureKept ==
  ASSUME DomainInv, NEW t \in Ensures, EnsureStep(t)
  PROVE  DomainInv'
<1>1. ensures[t].seen = {} /\ DomainAt[t] \in Domains
  BY DomainAtType DEF DomainInv, SeenNobody
<1>2. CASE EnsureGets(t)
  <2>1. ceilings[DomainAt[t]] = Absent => Sent(DomainAt[t]) = {}
    BY <1>1 DEF DomainInv, NeverThere
  <2>2. EnsureAt(t, "missed", {}) \/ EnsureAt(t, "ended", {})
    BY <1>2, <2>1 DEF EnsureGets
  <2>3. QED
    BY <1>2, <2>2, StageKept DEF EnsureGets
<1>3. CASE EnsureFails(t)
  BY <1>1, <1>3, StageKept DEF EnsureFails
<1>4. CASE EnsurePosts(t) /\ ~Postable(DomainAt[t])
  BY <1>1, <1>4, StageKept DEF EnsurePosts
<1>5. CASE EnsurePosts(t) /\ Postable(DomainAt[t])
  <2>1. /\ Post(DomainAt[t], Open, t) /\ EnsureAt(t, "ended", {})
        /\ UNCHANGED <<upserts, creates>>
    BY <1>1, <1>5 DEF EnsurePosts
  <2>2. SeenNobody' /\ DomainTypeOK'
    BY <1>1, <2>1, EnsureAtType DEF Post, DomainInv, DomainTypeOK
  <2>3. t \notin Creates
    BY SubmitAssumption
  <2>4. QED
    BY <1>5, <2>1, <2>2, <2>3, PostKept
<1>6. QED
  BY <1>2, <1>3, <1>4, <1>5 DEF EnsureStep

LEMMA DomainStep ==
  ASSUME DomainInv, [SubmitNext]_submitVars
  PROVE  DomainInv'
<1>1. CASE UNCHANGED domainVars
  BY <1>1, DomainsKept
<1>2. ASSUME NEW k \in Staged, StageObject(k) PROVE DomainInv'
  BY <1>1, <1>2 DEF StageObject
<1>3. ASSUME NEW c \in Clients, Call(c) \/ UserStep(c) \/ CeilingUnread(c) \/ CallFailed(c)
      PROVE  DomainInv'
  BY <1>1, <1>3, ClientsKeepDomains
<1>4. QED
  BY <1>1, <1>2, <1>3, CreateKept, EnsureKept DEF SubmitNext, submitVars

-----------------------------------------------------------------------------
(* Together.                                                                *)

SubmitInv == PageInv /\ RunsInv /\ DomainInv

LEMMA InitPages ==
  ASSUME SubmitInit
  PROVE  PageInv
<1>1. landing = [k \in LandingKeys |-> Nothing]
  BY DEF SubmitInit
<1>2. StoreInv
  <2>1. \A c \in Clients \ Registers : \A t \in 1 .. Tries[c], j \in DOMAIN Picked[c] :
          <<c, t, j>> \in LandingKeys
    BY DEF Uploads, LandingKeys
  <2>2. QED
    BY <1>1, <2>1 DEF StoreInv
<1>3. ASSUME NEW c \in Clients PROVE page[c] \in ClientStates /\ ClientInv(c)
  <2>0. PICK active \in Together : page[c] = InitPage(c, active)
    BY DEF SubmitInit
  <2> DEFINE d == IF c \in Pages THEN Nothing ELSE Asked[c].domain
             n == IF c \in active THEN 0 ELSE Tries[c]
             s == [pc |-> "idle", try |-> n, domain |-> d, cls |-> Asked[c].cls, index |-> 1,
                   entries |-> <<>>, ceiling |-> Unread, failed |-> {}]
  <2>1. page[c] = s
    BY <2>0 DEF InitPage
  <2>2. d \in Domains \cup {Nothing} /\ Asked[c].cls \in Classes /\ n \in 0 .. Tries[c]
    BY SubmitAssumption, CountType
  <2> HIDE DEF d, n
  <2>3. s \in ClientStates
    BY <2>2 DEF ClientStates
  <2>4. s.pc = "idle" /\ s.try = n /\ s.index = 1 /\ s.entries = <<>>
    OBVIOUS
  <2> HIDE DEF s
  <2>5. QED
    BY <2>1, <2>2, <2>3, <2>4, CountType DEF ClientInv
<1>4. page \in [Clients -> ClientStates]
  BY <1>3 DEF SubmitInit
<1>5. QED
  BY <1>2, <1>3, <1>4 DEF PageInv

LEMMA InitRuns ==
  ASSUME SubmitInit
  PROVE  RunsInv
<1>1. \A c \in Clients : page[c].pc = "idle"
  BY DEF SubmitInit, InitPage
<1>2. flowRuns = {} /\ \A c \in Clients, t \in Nat : RunsOf(c, t) = {}
  BY DEF SubmitInit, RunsOf
<1>3. ASSUME NEW c \in Clients PROVE \A t \in 1 .. page[c].try : RunsOf(c, t) = {}
  BY <1>2 DEF RunsOf
<1>4. QED
  BY <1>1, <1>2, <1>3 DEF RunsInv, OneRunEach, SubmissionInv, Triggering

LEMMA InitDomains ==
  ASSUME SubmitInit
  PROVE  DomainInv
<1>1. /\ \A k \in Creates : creates[k] \in {"ready", "failed"}
      /\ \A t \in Ensures : ensures[t] \in EnsureStates /\ ensures[t].seen = {}
      /\ creates \in [Creates -> CreateStates]
      /\ ensures \in [Ensures -> EnsureStates]
  BY DEF SubmitInit, CreateStates, EnsureStates
<1>2. DomainTypeOK
  BY <1>1 DEF SubmitInit, DomainTypeOK
<1>3. QED
  BY <1>1, <1>2 DEF DomainInv, NeverThere, Sent, SeenNobody, SentCeilingsHold

LEMMA InvAlways == SubmitSpec => []SubmitInv
<1>1. SubmitInit => SubmitInv
  BY InitPages, InitRuns, InitDomains DEF SubmitInv
<1>2. SubmitInv /\ [SubmitNext]_submitVars => SubmitInv'
  BY PageStep, RunsStep, DomainStep DEF SubmitInv, DomainInv, DomainTypeOK
<1>3. QED
  BY <1>1, <1>2, PTL DEF SubmitSpec

(* Type correctness: whatever clients, tasks and dashictl do.               *)
THEOREM SubmitTypesAlways == SubmitSpec => []SubmitTypeOK
<1>1. SubmitInv => SubmitTypeOK
  BY DEF SubmitInv, PageInv, StoreInv, RunsInv, RunInv, DomainInv, DomainTypeOK, SubmitTypeOK
<1>2. QED
  BY <1>1, InvAlways, PTL

(* /trigger lets no run through that exceeds a ceiling it has read, for any *)
(* number of clients, domains and classes.                                  *)
THEOREM CeilingsAlwaysHold == SubmitSpec => []CeilingsHold
<1>1. SubmitInv => CeilingsHold
  <2> SUFFICES ASSUME SubmitInv, NEW r \in flowRuns, ceilings[r.domain] \in Classes,
                      Rank[r.cls] > Rank[ceilings[r.domain]], r.ceiling = ceilings[r.domain]
               PROVE  FALSE
    BY DEF CeilingsHold
  <2>1. r.cls \in Classes /\ (r.ceiling \in Classes => Rank[r.cls] <= Rank[r.ceiling])
    BY DEF SubmitInv, RunsInv, RunInv, FlowRuns
  <2>2. \A cl \in Classes : Rank[cl] \in Nat
    BY SubmitAssumption
  <2>3. QED
    BY <2>1, <2>2
<1>2. QED
  BY <1>1, InvAlways, PTL

(* The ceiling that dashictl has reported is lost only to another POST of a *)
(* create, or of an ensure_collection whose GET came before, in a catalogue *)
(* that upserts.                                                            *)
THEOREM ReportedCeilingsAlwaysHold == SubmitSpec => []ReportedCeilingsHold
<1>1. SubmitInv => ReportedCeilingsHold
  BY DEF SubmitInv, DomainInv, SentCeilingsHold, InForce, Replaced, ReportedCeilingsHold
<1>2. QED
  BY <1>1, InvAlways, PTL

(* Whatever fails and is tried again, an upload is never ingested twice,    *)
(* unless its object is registered as well.                                 *)
THEOREM UploadsAlwaysRunOnce == SubmitSpec => []UploadsRunOnce
<1>1. SubmitInv => UploadsRunOnce
  <2> SUFFICES ASSUME SubmitInv, NEW r \in flowRuns, NEW s \in flowRuns,
                      r # s, r.key = s.key, r.by \notin Registers, s.by \notin Registers
               PROVE  FALSE
    BY DEF UploadsRunOnce
  <2>1. /\ r.by \in Clients /\ r.key = KeyFor(r.by, r.try, r.entry)
        /\ s.by \in Clients /\ s.key = KeyFor(s.by, s.try, s.entry)
    BY DEF SubmitInv, RunsInv, RunInv, FlowRuns
  <2>2. <<r.by, r.try, r.entry>> = <<s.by, s.try, s.entry>>
    BY <2>1 DEF KeyFor
  <2>3. r.by = s.by /\ r.try = s.try /\ r.entry = s.entry
    BY <2>2
  <2>4. QED
    BY <2>3 DEF SubmitInv, RunsInv, OneRunEach
<1>2. QED
  BY <1>1, InvAlways, PTL

(* The runs of a submission are counted by its objects.                     *)
LEMMA RunsCounted ==
  ASSUME SubmitInv, NEW c \in Clients, NEW t \in Nat, HasRuns(c, t, Count(c))
  PROVE  /\ {r.entry : r \in RunsOf(c, t)} = 1 .. Count(c)
         /\ Cardinality(RunsOf(c, t)) = Count(c)
<1> DEFINE f == [e \in 1 .. Count(c) |-> CHOOSE r \in RunsOf(c, t) : r.entry = e]
<1>1. \A e \in 1 .. Count(c) : f[e] \in RunsOf(c, t) /\ f[e].entry = e
  BY DEF HasRuns
<1>2. \A r \in RunsOf(c, t) : r.entry \in 1 .. Count(c)
  BY DEF RunsOf, SubmitInv, RunsInv, RunInv
<1>3. \A r, s \in RunsOf(c, t) : r.entry = s.entry => r = s
  BY DEF RunsOf, SubmitInv, RunsInv, OneRunEach
<1>4. f \in [1 .. Count(c) -> RunsOf(c, t)]
  BY <1>1
<1> HIDE DEF f
<1>5. \A d, e \in 1 .. Count(c) : f[d] = f[e] => d = e
  BY <1>1
<1>6. \A r \in RunsOf(c, t) : \E e \in 1 .. Count(c) : f[e] = r
  BY <1>1, <1>2, <1>3
<1>7. f \in Bijection(1 .. Count(c), RunsOf(c, t))
  BY <1>4, <1>5, <1>6 DEF Bijection, Injection, Surjection, IsInjective
<1>8. Cardinality(RunsOf(c, t)) = Count(c)
  BY <1>7, CountType, FS_CountingElements DEF ExistsBijection
<1>9. QED
  BY <1>1, <1>2, <1>8

(* A submission that has not failed created one run for each of its files,  *)
(* alike and over the content that was picked, or none.                     *)
THEOREM AllOrNothingAlways == SubmitSpec => []AllOrNothing
<1>1. SubmitInv => AllOrNothing
  <2> SUFFICES ASSUME SubmitInv, NEW c \in Clients, NEW t \in 1 .. page[c].try,
                      t \notin page[c].failed, ~(t = page[c].try /\ page[c].pc \in Busy),
                      RunsOf(c, t) # {}
               PROVE  /\ {r.entry : r \in RunsOf(c, t)} = 1 .. Count(c)
                      /\ Cardinality(RunsOf(c, t)) = Count(c)
                      /\ \A r \in RunsOf(c, t) : IF c \in Registers THEN r.key = Named[c]
                                                 ELSE landing[r.key] = Picked[c][r.entry]
                      /\ \A r, s \in RunsOf(c, t) : r.domain = s.domain /\ r.cls = s.cls
    BY DEF AllOrNothing
  <2>1. HasRuns(c, t, Count(c)) /\ Alike(c, t)
    BY DEF SubmitInv, RunsInv, SubmissionInv
  <2>2. t \in Nat /\ t \in 1 .. Tries[c]
    BY CountType DEF SubmitInv, PageInv, ClientInv, ClientStates
  <2>3. ASSUME NEW r \in RunsOf(c, t)
        PROVE  IF c \in Registers THEN r.key = Named[c] ELSE landing[r.key] = Picked[c][r.entry]
    <3>1. /\ r.entry \in 1 .. Count(c) /\ r.key = KeyFor(c, t, r.entry) /\ Landed(r.key)
      BY DEF RunsOf, SubmitInv, RunsInv, RunInv
    <3>2. CASE c \in Registers
      BY <3>1, <3>2 DEF KeyFor
    <3>3. CASE c \notin Registers
      BY <2>2, <3>1, <3>3, CountType DEF KeyFor, Landed, SubmitInv, PageInv, StoreInv
    <3>4. QED
      BY <3>2, <3>3
  <2>4. QED
    BY <2>1, <2>2, <2>3, RunsCounted DEF Alike
<1>2. QED
  BY <1>1, InvAlways, PTL

-----------------------------------------------------------------------------
(* That submissions end: the files, and later the entries, that are left,   *)
(* and for the one at hand the calls that are left.                         *)

CallsLeft(s) == IF s.pc \in {"land", "check"} THEN 1 ELSE 0

SubmissionRank(c, s) == <<Count(c) - s.index, CallsLeft(s)>>

(* What a client that is under way does, or has done to it: it goes on to   *)
(* the next call for the object at hand, or to the next object.             *)
LEMMA UnderWay ==
  ASSUME PageInv, NEW c \in Clients, page[c].pc \in Busy, page'[c].pc \in Busy,
         Call(c) \/ UserStep(c) \/ CeilingUnread(c) \/ CallFailed(c)
  PROVE  \/ page'[c].index = page[c].index /\ CallsLeft(page'[c]) < CallsLeft(page[c])
         \/ page'[c].index = page[c].index + 1 /\ page[c].index < Count(c)
<1> DEFINE o == page[c]
           s == page'[c]
<1>0. /\ page \in [Clients -> ClientStates] /\ o \in ClientStates /\ ClientInv(c)
      /\ o.index \in 1 .. Count(c) /\ o.index \in Nat /\ Count(c) \in Nat \ {0}
      /\ o.pc \in {"check", "create"} => Len(o.entries) = Count(c)
  <2>1. page \in [Clients -> ClientStates] /\ o \in ClientStates /\ ClientInv(c)
    BY DEF PageInv
  <2>2. QED
    BY <2>1, CountType DEF ClientInv, ClientStates, Busy
<1>1. ASSUME NEW t, Step(c, t) PROVE s = t
  BY <1>0, <1>1 DEF Step
<1>2. ~Fail(c)
  <2>1. SUFFICES ASSUME Fail(c) PROVE s.pc = "error"
    BY DEF Busy
  <2>2. page'[c] = [Ended(c, "error") EXCEPT !.failed = @ \cup {page[c].try}]
    BY <1>1, <2>1 DEF Fail
  <2>3. Ended(c, "error") \in ClientStates /\ Ended(c, "error").pc = "error"
    BY <1>0, EndedType
  <2>4. QED
    BY <2>2, <2>3 DEF ClientStates
<1>3. ASSUME NEW label \in {"idle", "done"} PROVE ~Step(c, Ended(c, label))
  <2>1. Ended(c, label).pc = label
    BY <1>0, EndedType
  <2>2. QED
    BY <1>1, <2>1 DEF Busy
<1>4. CASE Upload(c) \/ Register(c)
  <2>1. o.pc = "land" /\ Step(c, [o EXCEPT !.pc = "scan"])
    BY <1>2, <1>4 DEF Upload, Register
  <2>2. s = [o EXCEPT !.pc = "scan"]
    BY <1>1, <2>1
  <2>3. s.pc = "scan" /\ s.index = o.index
    BY <1>0, <2>2 DEF ClientStates
  <2>4. QED
    BY <2>1, <2>3 DEF CallsLeft
<1>5. CASE Scan(c)
  <2> DEFINE es == Append(o.entries, [key |-> KeyOf(c), kind |-> KindOf(KeyOf(c))])
             n == o.index + 1
             label == IF o.index = Count(c) THEN "scanned" ELSE "land"
  <2>1. Step(c, [o EXCEPT !.entries = es, !.index = n, !.pc = label])
    BY <1>5 DEF Scan
  <2>2. s = [o EXCEPT !.entries = es, !.index = n, !.pc = label]
    BY <1>1, <2>1
  <2> HIDE DEF es
  <2>3. s.index = n /\ s.pc = label
    BY <1>0, <2>2 DEF ClientStates
  <2>4. label = "land"
    BY <2>3 DEF Busy
  <2>5. QED
    BY <1>0, <2>3, <2>4
<1>6. CASE CheckCeiling(c) \/ CeilingUnread(c)
  <2>1. o.pc = "check"
    BY <1>6 DEF CheckCeiling, CeilingUnread
  <2>2. PICK m : Step(c, [o EXCEPT !.pc = "create", !.ceiling = m])
    BY <1>2, <1>6 DEF CheckCeiling, CeilingUnread
  <2>3. s = [o EXCEPT !.pc = "create", !.ceiling = m]
    BY <1>1, <2>2
  <2>4. s.pc = "create" /\ s.index = o.index
    BY <1>0, <2>3 DEF ClientStates
  <2>5. QED
    BY <2>1, <2>4 DEF CallsLeft
<1>7. CASE CreateRun(c)
  <2>1. o.pc = "create" /\ Len(o.entries) = Count(c)
    BY <1>0, <1>7 DEF CreateRun
  <2>2. o.index # Len(o.entries) /\ Step(c, [o EXCEPT !.pc = "check", !.index = o.index + 1])
    BY <1>3, <1>7 DEF CreateRun
  <2>3. s = [o EXCEPT !.pc = "check", !.index = o.index + 1]
    BY <1>1, <2>2
  <2>4. s.index = o.index + 1
    BY <1>0, <2>3 DEF ClientStates
  <2>5. QED
    BY <1>0, <2>1, <2>2, <2>4
<1>8. ~StopAfterScan(c) /\ ~UserStep(c) /\ ~CallFailed(c)
  BY <1>2 DEF StopAfterScan, UserStep, Begin, ChangeForm, Submit, Reset, CallFailed, Busy
<1>9. QED
  BY <1>4, <1>5, <1>6, <1>7, <1>8 DEF Call

SubmissionsDescend ==
    \A c \in Clients :
        page[c].pc \in Busy /\ page'[c].pc \in Busy =>
            \/ page'[c] = page[c]
            \/ <<SubmissionRank(c, page'[c]), SubmissionRank(c, page[c])>> \in Lower(2)

(* A submission that is under way makes finitely many calls before it comes *)
(* to an end or back to its user, whatever the answers are and whatever     *)
(* other clients and tasks do: no answer makes a client go back.            *)
THEOREM SubmissionsAlwaysDescend == SubmitSpec => [][SubmissionsDescend]_submitVars
<1>1. ASSUME PageInv, SubmitNext, NEW c \in Clients, page[c].pc \in Busy, page'[c].pc \in Busy,
             page'[c] # page[c]
      PROVE  <<SubmissionRank(c, page'[c]), SubmissionRank(c, page[c])>> \in Lower(2)
  <2>1. Call(c) \/ UserStep(c) \/ CeilingUnread(c) \/ CallFailed(c)
    <3>1. ASSUME NEW d \in Clients, d # c,
                 Call(d) \/ UserStep(d) \/ CeilingUnread(d) \/ CallFailed(d)
          PROVE  page'[c] = page[c]
      BY <1>1, <3>1 DEF PageInv, Call, UserStep, CeilingUnread, CallFailed, Upload, Register, Scan,
            CheckCeiling, CreateRun, StopAfterScan, Begin, ChangeForm, Submit, Reset, Fail, Step
    <3>2. ASSUME \/ \E k \in Staged : StageObject(k)
                 \/ \E k \in Creates : CreateStep(k)
                 \/ \E t \in Ensures : EnsureStep(t)
          PROVE  page' = page
      BY <3>2, OthersKeepPages DEF StageObject
    <3>3. QED
      BY <1>1, <3>1, <3>2 DEF SubmitNext
  <2>2. \/ page'[c].index = page[c].index /\ CallsLeft(page'[c]) < CallsLeft(page[c])
        \/ page'[c].index = page[c].index + 1 /\ page[c].index < Count(c)
    BY <1>1, <2>1, UnderWay
  <2>3. page[c].index \in Nat /\ page[c].index <= Count(c) /\ Count(c) \in Nat
    BY <1>1, CountType DEF PageInv, ClientInv, ClientStates, Busy
  <2> DEFINE a == Count(c) - page'[c].index
             b == Count(c) - page[c].index
  <2>4. a \in Nat /\ b \in Nat /\ CallsLeft(page[c]) \in Nat /\ CallsLeft(page'[c]) \in Nat
    BY <2>2, <2>3 DEF CallsLeft
  <2>5. a < b \/ (a = b /\ CallsLeft(page'[c]) < CallsLeft(page[c]))
    BY <2>2, <2>3
  <2> HIDE DEF a, b
  <2>6. << <<a, CallsLeft(page'[c])>>, <<b, CallsLeft(page[c])>> >> \in Lower(2)
    BY <2>4, <2>5, Lower2, Zenon
  <2>7. QED
    BY <2>6 DEF SubmissionRank, a, b
<1>2. SubmitInv /\ [SubmitNext]_submitVars => [SubmissionsDescend]_submitVars
  BY <1>1, Zenon DEF SubmitInv, SubmissionsDescend
<1>3. QED
  BY <1>2, InvAlways, PTL DEF SubmitSpec
=============================================================================
