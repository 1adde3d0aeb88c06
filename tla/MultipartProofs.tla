-------------------------- MODULE MultipartProofs --------------------------
(***************************************************************************)
(* What is proved about Multipart, for any number of uploads, workers and   *)
(* parts, any part sizes and files of any length.                           *)
(***************************************************************************)
EXTENDS Multipart, Descent

(* Rounded division, by what it is for.                                     *)
LEMMA DivBounds ==
  ASSUME NEW a \in Nat, NEW b \in Nat \ {0}
  PROVE  a \div b \in Nat /\ (a \div b) * b <= a /\ a < (a \div b) * b + b
OBVIOUS

LEMMA CeilDivBounds ==
  ASSUME NEW a \in Nat \ {0}, NEW b \in Nat \ {0}
  PROVE  /\ CeilDiv(a, b) \in Nat \ {0}
         /\ a <= CeilDiv(a, b) * b
         /\ (CeilDiv(a, b) - 1) * b < a
<1> DEFINE q == (a + b - 1) \div b
<1>1. a + b - 1 \in Nat
  OBVIOUS
<1>2. q \in Nat /\ q * b <= a + b - 1 /\ a + b - 1 < q * b + b
  BY <1>1, DivBounds
<1> HIDE DEF q
<1>3. (q - 1) * b = q * b - b
  BY <1>2
<1>4. q # 0
  BY <1>2
<1>5. QED
  BY <1>2, <1>3, <1>4 DEF CeilDiv, q

(* Comparing products with a common factor.                                 *)
LEMMA Products ==
  ASSUME NEW a \in Int, NEW b \in Int, NEW p \in Nat \ {0}
  PROVE  /\ a * p < b * p <=> a < b
         /\ a <= b => a * p <= b * p
         /\ (a - 1) * p = a * p - p
         /\ (a + 1) * p = a * p + p
<1>1. ASSUME a < b PROVE a * p < b * p
  BY <1>1
<1>2. ASSUME b <= a PROVE b * p <= a * p
  BY <1>2
<1>3. QED
  BY <1>1, <1>2

LEMMA BaseType ==
  /\ Larger(DefaultPart, MinPart) \in Nat \ {0}
  /\ Larger(DefaultPart, MinPart) >= MinPart
BY MultipartAssumption DEF Larger

(* _compute_part_size meets both limits of the store, for every length.     *)
LEMMA PartSizeMeetsLimits ==
  ASSUME NEW size \in Nat \ {0}
  PROVE  /\ PartSize(size) \in Nat \ {0}
         /\ PartSize(size) >= MinPart
         /\ PartCount(size) \in 1 .. MaxParts
<1> DEFINE base == Larger(DefaultPart, MinPart)
           need == CeilDiv(size, MaxParts)
           scaled == CeilDiv(need, Mebi) * Mebi
<1>0. /\ base \in Nat \ {0} /\ base >= MinPart
      /\ MaxParts \in Nat \ {0} /\ Mebi \in Nat \ {0} /\ MinPart \in Nat \ {0}
  BY BaseType, MultipartAssumption
<1>1. CASE CeilDiv(size, base) <= MaxParts
  <2>1. PartSize(size) = base
    BY <1>1 DEF PartSize
  <2>2. CeilDiv(size, base) \in Nat \ {0}
    BY <1>0, CeilDivBounds
  <2>3. QED
    BY <1>0, <1>1, <2>1, <2>2 DEF PartCount
<1>2. CASE ~(CeilDiv(size, base) <= MaxParts)
  <2>1. PartSize(size) = scaled
    BY <1>2 DEF PartSize
  <2>2. /\ need \in Nat \ {0} /\ size <= need * MaxParts /\ (need - 1) * MaxParts < size
    BY <1>0, CeilDivBounds
  <2>3. CeilDiv(need, Mebi) \in Nat \ {0} /\ need <= CeilDiv(need, Mebi) * Mebi
    BY <1>0, <2>2, CeilDivBounds
  <2>4. scaled \in Nat \ {0} /\ need <= scaled
    BY <1>0, <2>3
  <2>5. base * MaxParts < size
    <3>1. /\ CeilDiv(size, base) \in Nat \ {0} /\ (CeilDiv(size, base) - 1) * base < size
      BY <1>0, CeilDivBounds
    <3>2. MaxParts <= CeilDiv(size, base) - 1
      BY <1>0, <1>2, <3>1
    <3>3. MaxParts * base <= (CeilDiv(size, base) - 1) * base
      BY <1>0, <3>1, <3>2, Products
    <3>4. MaxParts * base = base * MaxParts /\ MaxParts * base \in Nat
      BY <1>0
    <3>5. (CeilDiv(size, base) - 1) * base \in Int
      BY <1>0, <3>1
    <3>6. QED
      BY <3>1, <3>3, <3>4, <3>5
  <2> HIDE DEF base, need, scaled
  <2>6. base < need
    <3>1. base * MaxParts < need * MaxParts
      BY <1>0, <2>2, <2>5
    <3>2. QED
      BY <1>0, <2>2, <3>1, Products
  <2>7. size <= MaxParts * scaled
    <3>1. need * MaxParts <= scaled * MaxParts
      BY <1>0, <2>2, <2>4, Products
    <3>2. scaled * MaxParts = MaxParts * scaled
      BY <1>0, <2>4
    <3>3. QED
      BY <1>0, <2>2, <2>4, <3>1, <3>2
  <2>8. CeilDiv(size, scaled) \in Nat \ {0} /\ (CeilDiv(size, scaled) - 1) * scaled < size
    BY <2>4, CeilDivBounds
  <2>9. CeilDiv(size, scaled) - 1 < MaxParts
    <3>1. (CeilDiv(size, scaled) - 1) * scaled < MaxParts * scaled
      BY <1>0, <2>4, <2>7, <2>8
    <3>2. QED
      BY <1>0, <2>4, <2>8, <3>1, Products
  <2>10. QED
    BY <1>0, <2>1, <2>2, <2>4, <2>6, <2>8, <2>9 DEF PartCount
<1>3. QED
  BY <1>1, <1>2

-----------------------------------------------------------------------------
(* The slices.                                                              *)

(* Part n ends where the next begins; the last one ends with the file.      *)
LEMMA SliceBounds ==
  ASSUME NEW size \in Nat \ {0}
  PROVE  LET p == PartSize(size)
             n == PartCount(size) IN
         /\ \A i \in 1 .. n - 1 : i * p < size
         /\ size <= n * p
         /\ \A i \in 1 .. n : /\ (i - 1) * p \in Nat
                              /\ (i - 1) * p < size
                              /\ (i - 1) * p + p = i * p
<1> DEFINE p == PartSize(size)
           n == PartCount(size)
<1>1. p \in Nat \ {0} /\ n \in Nat \ {0}
  BY PartSizeMeetsLimits, MultipartAssumption
<1>2. size <= n * p /\ (n - 1) * p < size
  BY <1>1, CeilDivBounds DEF PartCount
<1> HIDE DEF p, n
<1>3. ASSUME NEW i \in 1 .. n PROVE (i - 1) * p \in Nat /\ (i - 1) * p < size
  <2>1. (i - 1) * p <= (n - 1) * p
    BY <1>1, Products
  <2>2. (i - 1) * p \in Nat /\ (n - 1) * p \in Nat
    BY <1>1
  <2>3. QED
    BY <1>2, <2>1, <2>2
<1>4. \A i \in 1 .. n : (i - 1) * p + p = i * p /\ i * p \in Nat
  BY <1>1, Products
<1>5. ASSUME NEW i \in 1 .. n - 1 PROVE i * p < size
  <2>1. i + 1 \in 1 .. n /\ (i + 1) - 1 = i
    BY <1>1
  <2>2. QED
    BY <1>3, <2>1
<1>6. QED
  BY <1>2, <1>3, <1>4, <1>5 DEF p, n

LEMMA PlanCovers ==
  ASSUME NEW size \in Nat \ {0}
  PROVE  LET n == PartCount(size) IN
         /\ n \in 1 .. MaxParts
         /\ UNION {Slice(size, i) : i \in 1 .. n} = 0 .. (size - 1)
         /\ \A i, j \in 1 .. n : i # j => Slice(size, i) \cap Slice(size, j) = {}
         /\ \A i \in 1 .. (n - 1) : Cardinality(Slice(size, i)) >= MinPart
         /\ Slice(size, n) # {}
<1> DEFINE p == PartSize(size)
           n == PartCount(size)
<1>1. /\ p \in Nat \ {0} /\ n \in 1 .. MaxParts /\ n \in Nat \ {0} /\ p >= MinPart
      /\ MinPart \in Nat
  BY PartSizeMeetsLimits, MultipartAssumption
<1>2. /\ size <= n * p
      /\ \A i \in 1 .. n - 1 : i * p < size
      /\ \A i \in 1 .. n : (i - 1) * p \in Nat /\ (i - 1) * p < size /\ (i - 1) * p + p = i * p
  BY SliceBounds
<1>3. \A i \in 1 .. n : Slice(size, i) = (i - 1) * p .. (Smaller(size, i * p) - 1)
  BY <1>2 DEF Slice
<1> HIDE DEF p, n
<1>4. ASSUME NEW i \in 1 .. n, NEW x \in Slice(size, i)
      PROVE  x \in Int /\ (i - 1) * p <= x /\ x < i * p /\ x \in 0 .. (size - 1)
  <2>1. i * p \in Nat /\ (i - 1) * p \in Nat
    BY <1>1, <1>2
  <2>2. QED
    BY <1>3, <2>1 DEF Smaller
<1>5. ASSUME NEW x \in 0 .. (size - 1) PROVE \E i \in 1 .. n : x \in Slice(size, i)
  <2> DEFINE q == x \div p
  <2>1. q \in Nat /\ q * p <= x /\ x < q * p + p
    BY <1>1, DivBounds
  <2> HIDE DEF q
  <2>2. q < n
    <3>1. q * p < n * p
      BY <1>1, <1>2, <2>1
    <3>2. QED
      BY <1>1, <2>1, <3>1, Products
  <2>3. q + 1 \in 1 .. n /\ (q + 1) - 1 = q
    BY <1>1, <2>1, <2>2
  <2>4. (q + 1) * p = q * p + p
    BY <1>1, <2>1, Products
  <2>5. x \in Slice(size, q + 1)
    <3>1. Slice(size, q + 1) = q * p .. (Smaller(size, q * p + p) - 1)
      BY <1>3, <2>3, <2>4
    <3>2. q * p \in Nat
      BY <1>1, <2>1
    <3>3. QED
      BY <1>1, <2>1, <3>1, <3>2 DEF Smaller
  <2>6. QED
    BY <2>3, <2>5
<1>6. ASSUME NEW i \in 1 .. n, NEW j \in 1 .. n, i < j
      PROVE  Slice(size, i) \cap Slice(size, j) = {}
  <2>1. i * p <= (j - 1) * p /\ i * p \in Int /\ (j - 1) * p \in Int
    BY <1>1, <1>6, Products
  <2>2. QED
    BY <1>4, <2>1
<1>7. ASSUME NEW i \in 1 .. n - 1 PROVE Cardinality(Slice(size, i)) >= MinPart
  <2>1. i \in 1 .. n /\ (i - 1) * p \in Nat /\ (i - 1) * p + p = i * p /\ i * p < size
    BY <1>1, <1>2
  <2>2. Slice(size, i) = (i - 1) * p .. (i * p - 1)
    BY <1>1, <1>3, <2>1 DEF Smaller
  <2> DEFINE a == (i - 1) * p
             b == i * p - 1
  <2>3. a \in Int /\ b \in Int /\ b - a + 1 = p /\ a <= b
    BY <1>1, <2>1
  <2> HIDE DEF a, b
  <2>4. Cardinality(a .. b) = p
    BY <2>3, FS_Interval
  <2>5. QED
    BY <1>1, <2>2, <2>4 DEF a, b
<1>8. Slice(size, n) # {}
  <2>1. size - 1 \in 0 .. (size - 1)
    OBVIOUS
  <2>2. PICK i \in 1 .. n : size - 1 \in Slice(size, i)
    BY <1>5, <2>1
  <2>3. CASE i = n
    BY <2>2, <2>3
  <2>4. CASE i # n
    BY <1>1, <1>2, <1>4, <2>2, <2>4
  <2>5. QED
    BY <2>3, <2>4
<1>9. QED
  <2>1. UNION {Slice(size, i) : i \in 1 .. n} = 0 .. (size - 1)
    BY <1>4, <1>5
  <2>2. \A i, j \in 1 .. n : i # j => Slice(size, i) \cap Slice(size, j) = {}
    <3>1. \A i, j \in 1 .. n : i # j => i < j \/ j < i
      BY <1>1
    <3>2. QED
      BY <1>6, <3>1
  <2>3. QED
    BY <1>1, <1>7, <1>8, <2>1, <2>2 DEF n

-----------------------------------------------------------------------------
(* Clients and the store.                                                   *)

(* As long as no worker has failed, the parts that were handed out are      *)
(* those under way and those whose ETag came back; these the store holds.   *)
UploadInv(u) == LET s == client[u] IN
    /\ s \in ClientStates
    /\ s.cursor <= Count(u)
    /\ s.pc # "parts" => s.sending = {}
    /\ s.pc = "start" => store[u] = "none" /\ s.cursor = 0
    /\ s.pc \in {"parts", "abort", "complete"} => store[u] = "open"
    /\ s.sending \cup s.results \subseteq 1 .. s.cursor
    /\ s.pc = "parts" /\ ~s.errors => s.sending \cup s.results = 1 .. s.cursor
    /\ s.pc = "complete" => s.results = 1 .. Count(u)
    /\ store[u] = "open" => s.results \subseteq held[u]
    /\ store[u] = "completed" => object[u] = 1 .. Count(u)
    /\ s.pc = "done" => store[u] = "completed"
    /\ s.pc = "failed" /\ store[u] = "open" => s.blame # {}

MultipartInv ==
    /\ \A u \in Uploads : length[u] \in Nat \ {0}
    /\ MultipartTypeOK
    /\ \A u \in Uploads : UploadInv(u)

LEMMA CountType ==
  ASSUME MultipartInv, NEW u \in Uploads
  PROVE  Count(u) \in 1 .. MaxParts /\ MaxParts \in Nat \ {0}
BY PartSizeMeetsLimits, MultipartAssumption DEF MultipartInv, Count

(* What one client does is nothing to the other uploads.                    *)
OnlyUpload(u) ==
    /\ UNCHANGED length
    /\ \A v \in Uploads : v # u => /\ client'[v] = client[v]
                                   /\ store'[v] = store[v]
                                   /\ held'[v] = held[v]
                                   /\ object'[v] = object[v]

LEMMA OneUpload ==
  ASSUME MultipartInv, NEW u \in Uploads, OnlyUpload(u), MultipartTypeOK', UploadInv(u)'
  PROVE  MultipartInv'
<1>1. ASSUME NEW v \in Uploads, v # u PROVE UploadInv(v)'
  BY <1>1 DEF OnlyUpload, UploadInv, MultipartInv, Count
<1>2. QED
  BY <1>1 DEF OnlyUpload, MultipartInv

(* The client of u moves to state s.                                        *)
LEMMA ClientMoves ==
  ASSUME MultipartInv, NEW u \in Uploads, NEW s \in ClientStates,
         client' = [client EXCEPT ![u] = s]
  PROVE  /\ client' \in [Uploads -> ClientStates]
         /\ client'[u] = s
         /\ \A v \in Uploads : v # u => client'[v] = client[v]
BY DEF MultipartInv, MultipartTypeOK

LEMMA EndMoves ==
  ASSUME MultipartInv, NEW u \in Uploads, NEW pc \in ClientPcs,
         NEW why \in SUBSET {"abort", "complete", "network", "died"}, End(u, pc, why)
  PROVE  /\ client' \in [Uploads -> ClientStates]
         /\ client'[u] \in ClientStates
         /\ \A v \in Uploads : v # u => client'[v] = client[v]
         /\ client'[u].pc = pc /\ client'[u].cursor = client[u].cursor
         /\ client'[u].sending = client[u].sending /\ client'[u].results = client[u].results
         /\ client'[u].blame = client[u].blame \cup why
<1> DEFINE b == client[u].blame \cup why
           s == [client[u] EXCEPT !.pc = pc, !.blame = b]
<1>1. client[u] \in ClientStates /\ b \in SUBSET {"abort", "complete", "network", "died"}
  BY DEF MultipartInv, MultipartTypeOK, ClientStates
<1>2. client' = [client EXCEPT ![u] = s]
  BY DEF End, MultipartInv, MultipartTypeOK
<1> HIDE DEF b
<1>3. /\ s \in ClientStates /\ s.pc = pc /\ s.cursor = client[u].cursor /\ s.blame = b
      /\ s.sending = client[u].sending /\ s.results = client[u].results
  BY <1>1 DEF ClientStates
<1> HIDE DEF s
<1>4. QED
  BY <1>2, <1>3, ClientMoves DEF b

LEMMA StartUploadStep ==
  ASSUME MultipartInv, NEW u \in Uploads, StartUpload(u)
  PROVE  MultipartInv'
<1> DEFINE s == [client[u] EXCEPT !.pc = "parts"]
<1>1. client[u] \in ClientStates /\ UploadInv(u) /\ client[u].pc = "start"
  BY DEF MultipartInv, MultipartTypeOK, StartUpload
<1>2. client' = [client EXCEPT ![u] = s]
  BY DEF StartUpload
<1>3. /\ s \in ClientStates /\ s.pc = "parts" /\ s.cursor = client[u].cursor
      /\ s.sending = client[u].sending /\ s.results = client[u].results
  BY <1>1 DEF ClientStates, ClientPcs
<1> HIDE DEF s
<1>4. /\ client' \in [Uploads -> ClientStates] /\ client'[u] = s
      /\ \A v \in Uploads : v # u => client'[v] = client[v]
  BY <1>2, <1>3, ClientMoves
<1>5. MultipartTypeOK' /\ OnlyUpload(u) /\ store'[u] = "open"
  BY <1>4 DEF MultipartInv, MultipartTypeOK, StartUpload, OnlyUpload
<1>6. UploadInv(u)'
  BY <1>1, <1>3, <1>4, <1>5 DEF UploadInv, StartUpload, Count
<1>7. QED
  BY <1>5, <1>6, OneUpload

LEMMA StartFailsStep ==
  ASSUME MultipartInv, NEW u \in Uploads, StartFails(u)
  PROVE  MultipartInv'
<1>1. /\ client' \in [Uploads -> ClientStates] /\ client'[u] \in ClientStates
      /\ \A v \in Uploads : v # u => client'[v] = client[v]
      /\ client'[u].pc = "failed" /\ client'[u].cursor = client[u].cursor
      /\ client'[u].sending = client[u].sending /\ client'[u].results = client[u].results
      /\ client'[u].blame # {}
  BY EndMoves DEF StartFails, ClientPcs
<1>2. MultipartTypeOK' /\ OnlyUpload(u) /\ store'[u] \in {"none", "open"}
  BY <1>1 DEF MultipartInv, MultipartTypeOK, StartFails, OnlyUpload, UploadInv
<1>3. UploadInv(u)'
  BY <1>1, <1>2 DEF MultipartInv, UploadInv, StartFails, Count
<1>4. QED
  BY <1>2, <1>3, OneUpload

(* A part is handed to a worker only from within the plan.                  *)
LEMMA TakePartStep ==
  ASSUME MultipartInv, NEW u \in Uploads, TakePart(u)
  PROVE  MultipartInv'
<1> DEFINE n == client[u].cursor + 1
           ps == client[u].sending \cup {n}
           s == [client[u] EXCEPT !.cursor = n, !.sending = ps]
<1>1. /\ client[u] \in ClientStates /\ UploadInv(u) /\ client[u].pc = "parts"
      /\ n <= Count(u) /\ ~client[u].errors /\ n \in Nat
      /\ UNCHANGED <<length, store, held, object>>
  BY DEF MultipartInv, MultipartTypeOK, TakePart, ClientStates
<1>2. client' = [client EXCEPT ![u] = s]
  BY DEF TakePart, MultipartInv, MultipartTypeOK
<1>3. n \in 1 .. Count(u) /\ ps \in SUBSET AllParts /\ n = client[u].cursor + 1
      /\ client[u].cursor \in Nat /\ 1 .. n = (1 .. client[u].cursor) \cup {n}
  BY <1>1, CountType DEF ClientStates, AllParts
<1>4. ps = client[u].sending \cup {n}
  OBVIOUS
<1> HIDE DEF n, ps
<1>5. /\ s \in ClientStates /\ s.pc = "parts" /\ s.cursor = n /\ s.sending = ps
      /\ s.results = client[u].results /\ s.errors = client[u].errors
  BY <1>1, <1>3 DEF ClientStates
<1> HIDE DEF s
<1>6. /\ client' \in [Uploads -> ClientStates] /\ client'[u] = s
      /\ \A v \in Uploads : v # u => client'[v] = client[v]
  BY <1>2, <1>5, ClientMoves
<1>7. MultipartTypeOK' /\ OnlyUpload(u)
  BY <1>1, <1>6 DEF MultipartInv, MultipartTypeOK, OnlyUpload
<1>8. UploadInv(u)'
  BY <1>1, <1>3, <1>4, <1>5, <1>6 DEF UploadInv, Count
<1>9. QED
  BY <1>7, <1>8, OneUpload

LEMMA PutPartStep ==
  ASSUME MultipartInv, NEW u \in Uploads, NEW n \in AllParts, PutPart(u, n)
  PROVE  MultipartInv'
<1> DEFINE ps == client[u].sending \ {n}
           rs == client[u].results \cup {n}
           s == [client[u] EXCEPT !.sending = ps, !.results = rs]
<1>1. /\ client[u] \in ClientStates /\ UploadInv(u) /\ n \in client[u].sending
      /\ UNCHANGED <<length, store, object>>
      /\ held' = [held EXCEPT ![u] = held[u] \cup {n}]
  BY DEF MultipartInv, MultipartTypeOK, PutPart
<1>2. client[u].pc = "parts" /\ held[u] \subseteq AllParts
  BY <1>1 DEF UploadInv, MultipartInv, MultipartTypeOK
<1>3. client' = [client EXCEPT ![u] = s]
  BY DEF PutPart, MultipartInv, MultipartTypeOK
<1>4. ps \in SUBSET AllParts /\ rs \in SUBSET AllParts
      /\ ps \cup rs = client[u].sending \cup client[u].results
      /\ rs = client[u].results \cup {n}
  BY <1>1 DEF ClientStates
<1> HIDE DEF ps, rs
<1>5. /\ s \in ClientStates /\ s.pc = "parts" /\ s.cursor = client[u].cursor
      /\ s.sending = ps /\ s.results = rs /\ s.errors = client[u].errors
  BY <1>1, <1>2, <1>4 DEF ClientStates
<1> HIDE DEF s
<1>6. /\ client' \in [Uploads -> ClientStates] /\ client'[u] = s
      /\ \A v \in Uploads : v # u => client'[v] = client[v]
  BY <1>3, <1>5, ClientMoves
<1>7. MultipartTypeOK' /\ OnlyUpload(u) /\ held'[u] = held[u] \cup {n}
  BY <1>1, <1>2, <1>6 DEF MultipartInv, MultipartTypeOK, OnlyUpload
<1>8. UploadInv(u)'
  BY <1>1, <1>2, <1>4, <1>5, <1>6, <1>7 DEF UploadInv, Count
<1>9. QED
  BY <1>7, <1>8, OneUpload

LEMMA PutPartFailsStep ==
  ASSUME MultipartInv, NEW u \in Uploads, NEW n \in AllParts, PutPartFails(u, n)
  PROVE  MultipartInv'
<1> DEFINE ps == client[u].sending \ {n}
           s == [client[u] EXCEPT !.sending = ps, !.errors = TRUE]
<1>1. PICK gone \in BOOLEAN :
        /\ held' = [held EXCEPT ![u] = IF gone THEN @ \cup {n} ELSE @]
        /\ client' = [client EXCEPT ![u].sending = @ \ {n}, ![u].errors = TRUE]
  BY DEF PutPartFails
<1>2. /\ client[u] \in ClientStates /\ UploadInv(u) /\ client[u].pc = "parts"
      /\ UNCHANGED <<length, store, object>>
  BY DEF MultipartInv, MultipartTypeOK, PutPartFails, UploadInv
<1>3. client' = [client EXCEPT ![u] = s]
  BY <1>1 DEF MultipartInv, MultipartTypeOK
<1>4. ps \in SUBSET AllParts /\ ps \subseteq client[u].sending
  BY <1>2 DEF ClientStates
<1> HIDE DEF ps
<1>5. /\ s \in ClientStates /\ s.pc = "parts" /\ s.cursor = client[u].cursor
      /\ s.sending = ps /\ s.results = client[u].results /\ s.errors
  BY <1>2, <1>4 DEF ClientStates
<1> HIDE DEF s
<1>6. /\ client' \in [Uploads -> ClientStates] /\ client'[u] = s
      /\ \A v \in Uploads : v # u => client'[v] = client[v]
  BY <1>3, <1>5, ClientMoves
<1>7. /\ held' \in [Uploads -> SUBSET AllParts] /\ held[u] \subseteq held'[u]
      /\ \A v \in Uploads : v # u => held'[v] = held[v]
  BY <1>1 DEF MultipartInv, MultipartTypeOK
<1>8. MultipartTypeOK' /\ OnlyUpload(u)
  BY <1>2, <1>6, <1>7 DEF MultipartInv, MultipartTypeOK, OnlyUpload
<1>9. UploadInv(u)'
  BY <1>2, <1>4, <1>5, <1>6, <1>7 DEF UploadInv, Count
<1>10. QED
  BY <1>8, <1>9, OneUpload

(* The workers have returned: without an error they have brought back every *)
(* part of the plan.                                                        *)
LEMMA FinishPartsStep ==
  ASSUME MultipartInv, NEW u \in Uploads, FinishParts(u)
  PROVE  MultipartInv'
<1> DEFINE next == IF client[u].errors THEN "abort" ELSE "complete"
           s == [client[u] EXCEPT !.pc = next]
<1>1. /\ client[u] \in ClientStates /\ UploadInv(u) /\ client[u].pc = "parts"
      /\ client[u].sending = {} /\ (client[u].errors \/ client[u].cursor = Count(u))
      /\ UNCHANGED <<length, store, held, object>>
  BY DEF MultipartInv, MultipartTypeOK, FinishParts, AllWorkersReturned
<1>2. client' = [client EXCEPT ![u] = s]
  BY DEF FinishParts
<1>3. next \in {"abort", "complete"} /\ (next = "complete" => ~client[u].errors)
  OBVIOUS
<1> HIDE DEF next
<1>4. /\ s \in ClientStates /\ s.pc = next /\ s.cursor = client[u].cursor
      /\ s.sending = {} /\ s.results = client[u].results
  BY <1>1, <1>3 DEF ClientStates, ClientPcs
<1> HIDE DEF s
<1>5. /\ client' \in [Uploads -> ClientStates] /\ client'[u] = s
      /\ \A v \in Uploads : v # u => client'[v] = client[v]
  BY <1>2, <1>4, ClientMoves
<1>6. MultipartTypeOK' /\ OnlyUpload(u)
  BY <1>1, <1>5 DEF MultipartInv, MultipartTypeOK, OnlyUpload
<1>7. UploadInv(u)'
  BY <1>1, <1>3, <1>4, <1>5 DEF UploadInv, Count
<1>8. QED
  BY <1>6, <1>7, OneUpload

LEMMA AbortStep ==
  ASSUME MultipartInv, NEW u \in Uploads, AbortUpload(u) \/ AbortFails(u) \/ DashictlBails(u)
  PROVE  MultipartInv'
<1>1. PICK why \in SUBSET {"abort", "complete", "network", "died"} :
        End(u, "failed", why) /\ (why = {} => AbortUpload(u))
  BY DEF AbortUpload, AbortFails, DashictlBails
<1>2. /\ client' \in [Uploads -> ClientStates] /\ client'[u] \in ClientStates
      /\ \A v \in Uploads : v # u => client'[v] = client[v]
      /\ client'[u].pc = "failed" /\ client'[u].cursor = client[u].cursor
      /\ client'[u].sending = client[u].sending /\ client'[u].results = client[u].results
      /\ client'[u].blame = client[u].blame \cup why
  BY <1>1, EndMoves DEF ClientPcs
<1>3. /\ UploadInv(u) /\ client[u].pc \in {"parts", "abort"} /\ client[u].sending = {}
  BY DEF MultipartInv, UploadInv, AbortUpload, AbortFails, DashictlBails, AllWorkersReturned
<1>4. CASE AbortUpload(u)
  <2>1. MultipartTypeOK' /\ OnlyUpload(u) /\ store'[u] = "aborted"
    BY <1>2, <1>4 DEF MultipartInv, MultipartTypeOK, AbortUpload, OnlyUpload
  <2>2. UploadInv(u)'
    BY <1>2, <1>3, <1>4, <2>1 DEF UploadInv, AbortUpload, Count
  <2>3. QED
    BY <2>1, <2>2, OneUpload
<1>5. CASE (AbortFails(u) \/ DashictlBails(u)) /\ why # {}
  <2>1. UNCHANGED <<length, store, held, object>>
    BY <1>5 DEF AbortFails, DashictlBails
  <2>2. MultipartTypeOK' /\ OnlyUpload(u)
    BY <1>2, <2>1 DEF MultipartInv, MultipartTypeOK, OnlyUpload
  <2>3. UploadInv(u)'
    BY <1>2, <1>3, <1>5, <2>1 DEF UploadInv, Count
  <2>4. QED
    BY <2>2, <2>3, OneUpload
<1>6. QED
  BY <1>1, <1>4, <1>5

(* Whatever is assembled is the whole file.                                 *)
LEMMA CompleteStep ==
  ASSUME MultipartInv, NEW u \in Uploads, CompleteUpload(u) \/ CompleteFails(u)
  PROVE  MultipartInv'
<1>1. PICK pc \in {"done", "failed"}, why \in SUBSET {"abort", "complete", "network", "died"} :
        /\ End(u, pc, why)
        /\ Assemble(u) \/ (pc = "failed" /\ why # {} /\ UNCHANGED <<store, held, object>>)
  BY DEF CompleteUpload, CompleteFails
<1>2. /\ client' \in [Uploads -> ClientStates] /\ client'[u] \in ClientStates
      /\ \A v \in Uploads : v # u => client'[v] = client[v]
      /\ client'[u].pc = pc /\ client'[u].cursor = client[u].cursor
      /\ client'[u].sending = client[u].sending /\ client'[u].results = client[u].results
      /\ client'[u].blame = client[u].blame \cup why
  BY <1>1, EndMoves DEF ClientPcs
<1>3. /\ UploadInv(u) /\ client[u].pc = "complete" /\ client[u].sending = {}
      /\ client[u].results = 1 .. Count(u) /\ client[u].results \in SUBSET AllParts
      /\ UNCHANGED length
  BY DEF MultipartInv, MultipartTypeOK, UploadInv, CompleteUpload, CompleteFails, ClientStates
<1>4. CASE Assemble(u)
  <2>1. /\ MultipartTypeOK' /\ OnlyUpload(u) /\ store'[u] = "completed"
        /\ object'[u] = 1 .. Count(u)
    BY <1>2, <1>3, <1>4 DEF MultipartInv, MultipartTypeOK, Assemble, OnlyUpload
  <2>2. UploadInv(u)'
    BY <1>1, <1>2, <1>3, <2>1 DEF UploadInv, Count
  <2>3. QED
    BY <2>1, <2>2, OneUpload
<1>5. CASE pc = "failed" /\ why # {} /\ UNCHANGED <<store, held, object>>
  <2>1. MultipartTypeOK' /\ OnlyUpload(u)
    BY <1>2, <1>3, <1>5 DEF MultipartInv, MultipartTypeOK, OnlyUpload
  <2>2. UploadInv(u)'
    BY <1>2, <1>3, <1>5 DEF UploadInv, Count
  <2>3. QED
    BY <2>1, <2>2, OneUpload
<1>6. QED
  BY <1>1, <1>4, <1>5

LEMMA ClientDiesStep ==
  ASSUME MultipartInv, NEW u \in Uploads, ClientDies(u)
  PROVE  MultipartInv'
<1> DEFINE b == client[u].blame \cup {"died"}
           s == [client[u] EXCEPT !.pc = "failed", !.sending = {}, !.blame = b]
<1>1. /\ client[u] \in ClientStates /\ UploadInv(u)
      /\ UNCHANGED <<length, store, held, object>>
      /\ b \in SUBSET {"abort", "complete", "network", "died"} /\ b # {}
  BY DEF MultipartInv, MultipartTypeOK, ClientDies, ClientStates
<1>2. client' = [client EXCEPT ![u] = s]
  BY DEF ClientDies, MultipartInv, MultipartTypeOK
<1> HIDE DEF b
<1>3. /\ s \in ClientStates /\ s.pc = "failed" /\ s.cursor = client[u].cursor
      /\ s.sending = {} /\ s.results = client[u].results /\ s.blame = b
  BY <1>1 DEF ClientStates, ClientPcs
<1> HIDE DEF s
<1>4. /\ client' \in [Uploads -> ClientStates] /\ client'[u] = s
      /\ \A v \in Uploads : v # u => client'[v] = client[v]
  BY <1>2, <1>3, ClientMoves
<1>5. MultipartTypeOK' /\ OnlyUpload(u)
  BY <1>1, <1>4 DEF MultipartInv, MultipartTypeOK, OnlyUpload
<1>6. UploadInv(u)'
  BY <1>1, <1>3, <1>4 DEF UploadInv, Count
<1>7. QED
  BY <1>5, <1>6, OneUpload

LEMMA InitInv == MultipartInit => MultipartInv
<1> SUFFICES ASSUME MultipartInit PROVE MultipartInv
  OBVIOUS
<1>1. \A u \in Uploads : length[u] \in Nat \ {0}
  BY MultipartAssumption DEF MultipartInit
<1>2. ASSUME NEW u \in Uploads
      PROVE  /\ client[u] \in ClientStates /\ client[u].pc = "start" /\ client[u].cursor = 0
             /\ client[u].sending = {} /\ client[u].results = {} /\ store[u] = "none"
  BY DEF MultipartInit, ClientStates, ClientPcs
<1>3. MultipartTypeOK
  BY <1>1, <1>2 DEF MultipartInit, MultipartTypeOK
<1>4. ASSUME NEW u \in Uploads PROVE UploadInv(u)
  <2>1. Count(u) \in Nat
    BY <1>1, PartSizeMeetsLimits, MultipartAssumption DEF Count
  <2>2. QED
    BY <1>2, <2>1 DEF UploadInv
<1>5. QED
  BY <1>1, <1>3, <1>4 DEF MultipartInv

LEMMA InvAlways == MultipartSpec => []MultipartInv
<1>1. MultipartInv /\ [MultipartNext]_multipartVars => MultipartInv'
  <2> SUFFICES ASSUME MultipartInv, [MultipartNext]_multipartVars PROVE MultipartInv'
    OBVIOUS
  <2>1. CASE UNCHANGED multipartVars
    BY <2>1 DEF multipartVars, MultipartInv, MultipartTypeOK, UploadInv, Count
  <2>2. CASE MultipartNext
    BY <2>2, StartUploadStep, StartFailsStep, TakePartStep, PutPartStep, PutPartFailsStep,
       FinishPartsStep, AbortStep, CompleteStep, ClientDiesStep
       DEF MultipartNext, MultipartStep, MultipartFault
  <2>3. QED
    BY <2>1, <2>2
<1>2. QED
  BY <1>1, InitInv, PTL DEF MultipartSpec

(* Type correctness: no worker is handed a part number the store refuses.   *)
THEOREM MultipartTypesAlways == MultipartSpec => []MultipartTypeOK
<1>1. MultipartInv => MultipartTypeOK
  BY DEF MultipartInv
<1>2. QED
  BY <1>1, InvAlways, PTL

(* The plan of every upload covers its file: for every length, every part   *)
(* size and every limit on the number of parts.                             *)
THEOREM PlansAlwaysCover == MultipartSpec => []PlanCoversFile
<1>1. MultipartInv => PlanCoversFile
  BY PlanCovers DEF MultipartInv, PlanCoversFile, Count
<1>2. QED
  BY <1>1, InvAlways, PTL

(* Whichever workers fail, in whatever order they return, an object that an *)
(* upload leaves is the whole file.                                         *)
THEOREM ObjectsAreAlwaysWhole == MultipartSpec => []ObjectsAreWhole
<1>1. MultipartInv => ObjectsAreWhole
  BY DEF MultipartInv, UploadInv, ObjectsAreWhole
<1>2. QED
  BY <1>1, InvAlways, PTL

(* A client that has ended leaves parts behind only after a failed call, a  *)
(* broken connection or its own death.                                      *)
THEOREM LeftPartsAlwaysExplained == MultipartSpec => []LeftPartsAreExplained
<1>1. MultipartInv => LeftPartsAreExplained
  BY DEF MultipartInv, UploadInv, LeftPartsAreExplained
<1>2. QED
  BY <1>1, InvAlways, PTL

-----------------------------------------------------------------------------
(* That uploads end.  Handing out a part makes the plan shorter and the set *)
(* of PUTs under way larger, an answer makes that set smaller.              *)

UploadStage(s) ==
    CASE s.pc = "start" -> 3
      [] s.pc = "parts" -> 2
      [] s.pc \in {"abort", "complete"} -> 1
      [] OTHER -> 0

UploadRank(s, count) == <<UploadStage(s), count - s.cursor, Cardinality(s.sending)>>

Ranked(u) ==
    /\ IsFiniteSet(client[u].sending) /\ Cardinality(client[u].sending) \in Nat
    /\ UploadStage(client[u]) \in Nat
    /\ Count(u) \in Nat /\ client[u].cursor \in Nat /\ Count(u) - client[u].cursor \in Nat

LEMMA UploadsRanked ==
  ASSUME MultipartInv, NEW u \in Uploads
  PROVE  Ranked(u)
<1>1. IsFiniteSet(AllParts)
  BY FS_Interval, MultipartAssumption DEF AllParts
<1>2. client[u].sending \in SUBSET AllParts /\ client[u].cursor \in Nat
      /\ client[u].cursor <= Count(u)
  BY DEF MultipartInv, UploadInv, ClientStates
<1>3. UploadStage(client[u]) \in Nat
  BY DEF UploadStage
<1>4. QED
  BY <1>1, <1>2, <1>3, CountType, FS_Subset, FS_CardinalityType DEF Ranked

(* The client of u itself, after a step of it.                              *)
LEMMA UploadChanges ==
  ASSUME MultipartInv, NEW u \in Uploads, MultipartStep(u) \/ MultipartFault(u)
  PROVE  LET o == client[u]
             s == client'[u] IN
         /\ \A v \in Uploads \ {u} : client'[v] = client[v]
         /\ UNCHANGED length
         /\ \/ UploadStage(s) < UploadStage(o)
            \/ /\ UploadStage(s) = UploadStage(o)
               /\ o.cursor < Count(u) /\ s.cursor = o.cursor + 1
            \/ /\ UploadStage(s) = UploadStage(o) /\ s.cursor = o.cursor
               /\ \E n \in o.sending : s.sending = o.sending \ {n}
<1>0. /\ client[u] \in ClientStates /\ UploadInv(u)
      /\ client \in [Uploads -> ClientStates]
  BY DEF MultipartInv, MultipartTypeOK
<1>1. CASE StartUpload(u) \/ StartFails(u)
  BY <1>0, <1>1 DEF StartUpload, StartFails, End, UploadStage, ClientStates
<1>2. CASE TakePart(u)
  <2>1. /\ client[u].cursor < Count(u) /\ client'[u].cursor = client[u].cursor + 1
        /\ client'[u].pc = client[u].pc /\ \A v \in Uploads \ {u} : client'[v] = client[v]
        /\ UNCHANGED length
    BY <1>0, <1>2, CountType DEF TakePart, ClientStates
  <2>2. QED
    BY <2>1 DEF UploadStage
<1>3. CASE \E n \in AllParts : PutPart(u, n) \/ PutPartFails(u, n)
  <2>1. PICK n \in client[u].sending : client'[u].sending = client[u].sending \ {n}
    BY <1>0, <1>3 DEF PutPart, PutPartFails, ClientStates
  <2>2. /\ client'[u].cursor = client[u].cursor /\ client'[u].pc = client[u].pc
        /\ \A v \in Uploads \ {u} : client'[v] = client[v] /\ UNCHANGED length
    BY <1>0, <1>3 DEF PutPart, PutPartFails, ClientStates
  <2>3. UNCHANGED length
    BY <1>3 DEF PutPart, PutPartFails
  <2>4. QED
    BY <2>1, <2>2, <2>3 DEF UploadStage
<1>4. CASE FinishParts(u) \/ DashictlBails(u)
  <2>1. client[u].pc = "parts" /\ client'[u].pc \in {"abort", "complete", "failed"}
    BY <1>0, <1>4 DEF FinishParts, DashictlBails, AllWorkersReturned, End, ClientStates
  <2>2. UNCHANGED length /\ \A v \in Uploads \ {u} : client'[v] = client[v]
    BY <1>0, <1>4 DEF FinishParts, DashictlBails, End
  <2>3. QED
    BY <2>1, <2>2 DEF UploadStage
<1>5. CASE AbortUpload(u) \/ AbortFails(u) \/ CompleteUpload(u) \/ CompleteFails(u)
  <2>1. client[u].pc \in {"abort", "complete"} /\ client'[u].pc \in {"done", "failed"}
    BY <1>0, <1>5 DEF AbortUpload, AbortFails, CompleteUpload, CompleteFails, End, ClientStates
  <2>2. UNCHANGED length /\ \A v \in Uploads \ {u} : client'[v] = client[v]
    BY <1>0, <1>5 DEF AbortUpload, AbortFails, CompleteUpload, CompleteFails, End
  <2>3. QED
    BY <2>1, <2>2 DEF UploadStage
<1>6. CASE ClientDies(u)
  <2>1. client[u].pc \in {"start", "parts", "abort", "complete"} /\ client'[u].pc = "failed"
    BY <1>0, <1>6 DEF ClientDies, ClientStates, ClientPcs
  <2>2. UNCHANGED length /\ \A v \in Uploads \ {u} : client'[v] = client[v]
    BY <1>0, <1>6 DEF ClientDies
  <2>3. QED
    BY <2>1, <2>2 DEF UploadStage
<1>7. QED
  BY <1>1, <1>2, <1>3, <1>4, <1>5, <1>6 DEF MultipartStep, MultipartFault

UploadsDescend ==
    \A u \in Uploads :
        client'[u] = client[u]
        \/ <<UploadRank(client'[u], Count(u)'), UploadRank(client[u], Count(u))>> \in Lower(3)

(* An upload ends: whatever its client does, or is done to it, lowers its   *)
(* rank, so that a client changes finitely often, whatever the number of    *)
(* its workers, the order in which they return and those that fail.         *)
THEOREM UploadsAlwaysDescend == MultipartSpec => [][UploadsDescend]_multipartVars
<1>1. ASSUME MultipartInv, NEW u \in Uploads, MultipartStep(u) \/ MultipartFault(u),
             Ranked(u), Ranked(u)'
      PROVE  UploadsDescend
  <2> DEFINE o == client[u]
             s == client'[u]
  <2>2. /\ \A v \in Uploads \ {u} : client'[v] = client[v]
        /\ Count(u)' = Count(u)
        /\ \/ UploadStage(s) < UploadStage(o)
           \/ /\ UploadStage(s) = UploadStage(o)
              /\ o.cursor < Count(u) /\ s.cursor = o.cursor + 1
           \/ /\ UploadStage(s) = UploadStage(o) /\ s.cursor = o.cursor
              /\ \E n \in o.sending : s.sending = o.sending \ {n}
    BY <1>1, UploadChanges DEF Count
  <2>3. /\ IsFiniteSet(o.sending) /\ Cardinality(o.sending) \in Nat /\ UploadStage(o) \in Nat
        /\ Count(u) \in Nat /\ o.cursor \in Nat /\ Count(u) - o.cursor \in Nat
    BY <1>1 DEF Ranked
  <2>4. /\ Cardinality(s.sending) \in Nat /\ UploadStage(s) \in Nat
        /\ s.cursor \in Nat /\ Count(u) - s.cursor \in Nat
    BY <1>1, <2>2 DEF Ranked, UploadStage
  <2>5. ASSUME NEW n \in o.sending, s.sending = o.sending \ {n}
        PROVE  Cardinality(s.sending) < Cardinality(o.sending)
    BY <2>3, <2>5, OneLess
  <2>6. <<UploadRank(s, Count(u)), UploadRank(o, Count(u))>> \in Lower(3)
    <3>1. \/ UploadStage(s) < UploadStage(o)
          \/ /\ UploadStage(s) = UploadStage(o)
             /\ \/ Count(u) - s.cursor < Count(u) - o.cursor
                \/ /\ Count(u) - s.cursor = Count(u) - o.cursor
                   /\ Cardinality(s.sending) < Cardinality(o.sending)
      BY <2>2, <2>3, <2>4, <2>5
    <3>2. QED
      BY <2>3, <2>4, <3>1, Lower3, Zenon DEF UploadRank
  <2>7. QED
    BY <2>2, <2>6 DEF UploadsDescend
<1>2. MultipartInv => \A u \in Uploads : Ranked(u)
  BY UploadsRanked
<1>3. MultipartInv /\ (\A u \in Uploads : Ranked(u)) /\ (\A u \in Uploads : Ranked(u))'
      /\ [MultipartNext]_multipartVars => [UploadsDescend]_multipartVars
  BY <1>1 DEF MultipartNext
<1>4. QED
  BY <1>2, <1>3, InvAlways, PTL DEF MultipartSpec

-----------------------------------------------------------------------------
(* That no upload is stuck: until it has ended, one of the things its       *)
(* client does by itself is due.                                            *)

Due(u) ==
    \/ client[u].pc \in {"start", "abort"}
    \/ client[u].sending # {}
    \/ /\ client[u].pc = "parts" /\ ~client[u].errors
       /\ client[u].cursor + 1 <= Count(u) /\ Cardinality(client[u].sending) < Width(u)
    \/ AllWorkersReturned(u)
    \/ client[u].pc = "complete" /\ client[u].results \subseteq held[u]

SomethingIsDue == \A u \in Uploads : client[u].pc \notin {"done", "failed"} => Due(u)

(* A client never waits for something that does not come: a worker is free  *)
(* to take the next part, or a PUT is under way, or the workers have        *)
(* returned; and when it asks for completion the store holds every part.    *)
THEOREM SomethingIsAlwaysDue == MultipartSpec => []SomethingIsDue
<1>1. ASSUME MultipartInv, NEW u \in Uploads, client[u].pc \notin {"done", "failed"}
      PROVE  Due(u)
  <2>1. UploadInv(u) /\ client[u] \in ClientStates
    BY <1>1 DEF MultipartInv, UploadInv
  <2>2. client[u].pc \in {"start", "parts", "abort", "complete"}
    BY <1>1, <2>1 DEF ClientStates, ClientPcs
  <2>3. CASE client[u].pc \in {"start", "abort"}
    BY <2>3 DEF Due
  <2>4. CASE client[u].pc = "complete"
    BY <2>1, <2>4 DEF Due, UploadInv
  <2>5. CASE client[u].pc = "parts"
    <3>1. Width(u) \in Nat \ {0}
      BY <1>1, CountType, MultipartAssumption DEF Width, Smaller
    <3>2. Cardinality({}) = 0
      BY FS_EmptySet
    <3>3. client[u].cursor \in Nat /\ client[u].cursor <= Count(u) /\ Count(u) \in Nat
      BY <1>1, <2>1, CountType DEF UploadInv, ClientStates
    <3>4. QED
      BY <2>5, <3>1, <3>2, <3>3 DEF Due, AllWorkersReturned
  <2>6. QED
    BY <2>2, <2>3, <2>4, <2>5
<1>2. MultipartInv => SomethingIsDue
  BY <1>1 DEF SomethingIsDue
<1>3. QED
  BY <1>2, InvAlways, PTL
=============================================================================
