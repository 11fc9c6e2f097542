------------------------ MODULE HistoryUploadProofs ------------------------
(* Theorems about HistoryUpload, for every set of uploads, every number of *)
(* versions and of batches, and every bound: the server shows whole        *)
(* versions only, and a cursor, an acknowledged chunk and a finished       *)
(* upload mean that the content is stored.                                 *)
EXTENDS HistoryUpload, FiniteSetTheorems, SequenceTheorems, TLAPS

-----------------------------------------------------------------------------
(* The inductive invariant.  Nothing numbers the uploads of a session and  *)
(* nothing serialises them; what keeps them apart is that each has an id   *)
(* of its own, and at most one batch between the agent and the server.     *)

(* A batch of u is in the queue q; at most one is.                         *)
Contents(q) == {q[i] : i \in 1 .. Len(q)}
IsItems(m, u) == m.type = "items" /\ m.upload = u
Pending(q, u) == \E m \in Contents(q) : IsItems(m, u)
Once(q, u) == \A i, j \in 1 .. Len(q) : IsItems(q[i], u) /\ IsItems(q[j], u) => i = j

(* An upload has one batch under way: to the server over the connection or *)
(* in the reader of the lost one, or as an answer on its way or received.  *)
OneUnderWay ==
  \A u \in Uploads :
    /\ Once(wire, u) /\ Once(buffered, u) /\ Once(back, u)
    /\ Pending(wire, u) => ~Pending(buffered, u) /\ ~Pending(back, u) /\ ack[u] = "none"
    /\ Pending(buffered, u) => ~Pending(back, u) /\ ack[u] = "none"
    /\ Pending(back, u) => ack[u] = "none"

(* The staging tables hold the first k batches of the upload.              *)
Got(u, k) ==
  /\ received[u] = 0 .. k - 1
  /\ staged[u] = {<<up[u].read, b>> : b \in 0 .. k - 1}
  /\ uploaded[u] = IF k = 0 THEN NoUpload
                   ELSE [count |-> BatchCount[up[u].read], final |-> FALSE]

(* The batch the upload sent last has been stored.                         *)
Saved(u) ==
  IF up[u].batch + 1 < BatchCount[up[u].read]
  THEN Got(u, up[u].batch + 1) ELSE up[u].read <= newest

Early == {"idle", "scan", "check"}

(* What is on its way is what its upload sent last.                        *)
OfItsUpload(m) ==
  /\ up[m.upload].pc \notin Early
  /\ m.version = up[m.upload].read /\ m.batch = up[m.upload].batch

Sent(m) ==
  /\ m.type = "items" => OfItsUpload(m) /\ Got(m.upload, m.batch)
  /\ m.type = "cursor" => m.version <= newest

Answered(a) ==
  /\ a.type = "items" => OfItsUpload(a) /\ (a.result = "acked" => Saved(a.upload))
  /\ a.type = "chunk" => (a.result = "acked" => a.version \in chunks)

MessagesTrue ==
  /\ \A m \in Contents(wire) \cup Contents(buffered) : Sent(m)
  /\ \A a \in Contents(back) : Answered(a)

(* What an upload has scanned and read when.                               *)
InTurn(u) ==
  /\ up[u].pc \in Early => up[u].read = 0 /\ up[u].batch = 0 /\ ack[u] = "none" /\ Got(u, 0)
  /\ up[u].pc = "check" => up[u].seen > 0
  /\ up[u].pc = "wait" => up[u].seen > 0 /\ up[u].seen <= up[u].read
  /\ up[u].read > 0 => up[u].batch < BatchCount[up[u].read]
  /\ ack[u] = "acked" => Saved(u)

(* The two uploads after a run.                                            *)
AfterRun(u) ==
  KindOf[u] = "sync" =>
    /\ up[u].pc # "chunk"
    /\ ~Ended(u) => up[Then[u]].pc = "idle"
    /\ up[u].pc = "done" => up[u].seen <= newest

(* The tables agree with what was stored.                                  *)
TablesTrue ==
  /\ stored = {} \/ \E v \in 1 .. newest : stored = Items(v)
  /\ cursor <= newest /\ confirmed <= newest
  /\ AckedChunkStored

Uploading ==
  OneUnderWay /\ MessagesTrue /\ TablesTrue /\ \A u \in Uploads : InTurn(u) /\ AfterRun(u)
-----------------------------------------------------------------------------
(* What the ends of a queue do to what is in it.                           *)

LEMMA EmptyContents ==
  Contents(<<>>) = {} /\ \A u : Once(<<>>, u) /\ ~Pending(<<>>, u)
<1>1. 1 .. Len(<<>>) = {}
  BY EmptySeq
<1>2. QED
  BY <1>1 DEF Contents, Once, Pending

LEMMA AppendContents ==
  ASSUME NEW S, NEW q \in Seq(S), NEW m \in S
  PROVE  /\ Append(q, m) \in Seq(S)
         /\ Contents(Append(q, m)) = Contents(q) \cup {m}
         /\ \A u : /\ Pending(Append(q, m), u) <=> Pending(q, u) \/ IsItems(m, u)
                   /\ Once(q, u) /\ (IsItems(m, u) => ~Pending(q, u)) => Once(Append(q, m), u)
<1> DEFINE r == Append(q, m)
<1>1. r \in Seq(S) /\ Len(q) \in Nat /\ Len(r) = Len(q) + 1 /\ r[Len(q) + 1] = m
      /\ \A i \in 1 .. Len(q) : r[i] = q[i]
  BY AppendProperties, LenProperties
<1> HIDE DEF r
<1>2. 1 .. Len(r) = (1 .. Len(q)) \cup {Len(q) + 1} /\ Len(q) + 1 \notin 1 .. Len(q)
  BY <1>1
<1>3. Contents(r) = Contents(q) \cup {m}
  BY <1>1, <1>2 DEF Contents
<1>4. \A u : Pending(r, u) <=> Pending(q, u) \/ IsItems(m, u)
  BY <1>3 DEF Pending
<1>5. ASSUME NEW u, Once(q, u), IsItems(m, u) => ~Pending(q, u) PROVE Once(r, u)
  <2>1. \A i \in 1 .. Len(q) : IsItems(r[i], u) => ~IsItems(m, u) /\ IsItems(q[i], u)
    BY <1>1, <1>5 DEF Pending, Contents
  <2>2. ASSUME NEW i \in 1 .. Len(r), NEW j \in 1 .. Len(r), IsItems(r[i], u), IsItems(r[j], u)
        PROVE  i = j
    BY <1>1, <1>2, <1>5, <2>1, <2>2 DEF Once
  <2>3. QED
    BY <2>2 DEF Once
<1>6. QED
  BY <1>1, <1>3, <1>4, <1>5 DEF r

LEMMA TailContents ==
  ASSUME NEW S, NEW q \in Seq(S), q # <<>>
  PROVE  /\ Head(q) \in S /\ Tail(q) \in Seq(S) /\ Head(q) \in Contents(q)
         /\ Contents(Tail(q)) \subseteq Contents(q)
         /\ \A u : /\ Pending(Tail(q), u) => Pending(q, u)
                   /\ Once(q, u) => Once(Tail(q), u)
                   /\ Once(q, u) /\ IsItems(Head(q), u) => ~Pending(Tail(q), u)
<1> DEFINE r == Tail(q)
<1>1. /\ Len(q) \in Nat /\ Len(q) # 0 /\ r \in Seq(S) /\ Len(r) = Len(q) - 1
      /\ \A i \in 1 .. Len(r) : r[i] = q[i + 1]
      /\ Head(q) = q[1] /\ Head(q) \in S
  BY HeadTailProperties, LenProperties, EmptySeq
<1> HIDE DEF r
<1>2. /\ \A i \in 1 .. Len(r) : i + 1 \in 1 .. Len(q) /\ i + 1 # 1
      /\ 1 \in 1 .. Len(q)
  BY <1>1
<1>3. Head(q) \in Contents(q) /\ Contents(r) \subseteq Contents(q)
  BY <1>1, <1>2 DEF Contents
<1>4. \A u : Pending(r, u) => Pending(q, u)
  BY <1>3 DEF Pending
<1>5. ASSUME NEW u, Once(q, u) PROVE Once(r, u)
  <2>1. ASSUME NEW i \in 1 .. Len(r), NEW j \in 1 .. Len(r), IsItems(r[i], u), IsItems(r[j], u)
        PROVE  i = j
    <3>1. i + 1 = j + 1
      BY <1>1, <1>2, <1>5, <2>1 DEF Once
    <3>2. QED
      BY <1>1, <3>1
  <2>2. QED
    BY <2>1 DEF Once
<1>6. ASSUME NEW u, Once(q, u), IsItems(Head(q), u) PROVE ~Pending(r, u)
  <2>1. ASSUME NEW i \in 1 .. Len(r), IsItems(r[i], u) PROVE FALSE
    BY <1>1, <1>2, <1>6, <2>1 DEF Once
  <2>2. QED
    BY <2>1 DEF Pending, Contents
<1>7. QED
  BY <1>1, <1>3, <1>4, <1>5, <1>6 DEF r

LEMMA PrefixContents ==
  ASSUME NEW S, NEW q \in Seq(S), NEW n \in 0 .. Len(q)
  PROVE  /\ SubSeq(q, 1, n) \in Seq(S)
         /\ Contents(SubSeq(q, 1, n)) \subseteq Contents(q)
         /\ \A u : /\ Pending(SubSeq(q, 1, n), u) => Pending(q, u)
                   /\ Once(q, u) => Once(SubSeq(q, 1, n), u)
<1> DEFINE r == SubSeq(q, 1, n)
<1>1. Len(q) \in Nat /\ \A i \in 1 .. Len(q) : q[i] \in S
  BY LenProperties, ElementOfSeq
<1>2. n \in Int /\ \A i \in 1 .. n : i \in 1 .. Len(q)
  BY <1>1
<1>3. /\ r \in Seq(S) /\ Len(r) = IF 1 <= n THEN n - 1 + 1 ELSE 0
      /\ \A i \in 1 .. n - 1 + 1 : r[i] = q[1 + i - 1]
  BY <1>1, <1>2, SubSeqProperties
<1> HIDE DEF r
<1>4. Len(r) = n
  BY <1>3
<1>5. \A i \in 1 .. Len(r) : r[i] = q[i] /\ i \in 1 .. Len(q)
  BY <1>2, <1>3, <1>4
<1>6. Contents(r) \subseteq Contents(q)
  BY <1>5 DEF Contents
<1>7. \A u : Pending(r, u) => Pending(q, u)
  BY <1>6 DEF Pending
<1>8. \A u : Once(q, u) => Once(r, u)
  BY <1>5 DEF Once
<1>9. QED
  BY <1>3, <1>6, <1>7, <1>8 DEF r

-----------------------------------------------------------------------------
(* What the server's transaction computes.                                 *)

LEMMA ItemsOfOne ==
  ASSUME NEW v \in Versions
  PROVE  /\ Items(v) # {} /\ Items(v) \subseteq Versions \X Nat
         /\ Whole(Items(v)) = {v}
         /\ \A w \in Versions : Items(w) = Items(v) => w = v
<1>1. BatchCount[v] \in Nat \ {0}
  BY UploadAssumption
<1>2. <<v, 0>> \in Items(v)
  BY <1>1 DEF Items
<1>3. \A w \in Versions : <<v, 0>> \in Items(w) => w = v
  BY DEF Items
<1>4. Items(v) \subseteq Versions \X Nat
  BY <1>1 DEF Items
<1>5. QED
  BY <1>2, <1>3, <1>4 DEF Whole

(* newest follows what is shown.                                           *)
LEMMA LatestOfOne ==
  ASSUME NEW v \in Versions, newest \in Nat
  PROVE  Latest(Items(v)) = IF v > newest THEN v ELSE newest
BY ItemsOfOne DEF Latest

(* Once the first k batches are staged, the next one completes them only   *)
(* if it is the last.                                                      *)
LEMMA StagingOfBatch ==
  ASSUME TypeOK, NEW m \in ToServer, m.type = "items", OfItsUpload(m), Got(m.upload, m.batch),
         m.batch < BatchCount[m.version]
  PROVE  /\ Ready(m) <=> Final(m)
         /\ StagedRows(m) = {<<m.version, b>> : b \in 0 .. m.batch}
         /\ StagedCount(m) = BatchCount[m.version]
         /\ received[m.upload] \cup {m.batch} = 0 .. m.batch
         /\ Final(m) => {<<m.version, b>> : b \in 0 .. m.batch} = Items(m.version)
<1>1. /\ m.upload \in Uploads /\ m.version \in Versions /\ m.batch \in Nat
      /\ BatchCount[m.version] \in Nat \ {0} /\ m.version = up[m.upload].read
  BY UploadAssumption DEF ToServer, OfItsUpload
<1>2. /\ received[m.upload] = 0 .. m.batch - 1
      /\ staged[m.upload] = {<<m.version, b>> : b \in 0 .. m.batch - 1}
      /\ uploaded[m.upload] = NoUpload \/ uploaded[m.upload] = [count |-> BatchCount[m.version],
                                                               final |-> FALSE]
  BY <1>1 DEF Got
<1>3. 0 .. m.batch = (0 .. m.batch - 1) \cup {m.batch} /\ m.batch \notin 0 .. m.batch - 1
  BY <1>1
<1>4. received[m.upload] \cup {m.batch} = 0 .. m.batch
  BY <1>2, <1>3
<1>5. Cardinality(0 .. m.batch) = m.batch + 1
  <2>1. 0 \in Int /\ m.batch \in Int
    BY <1>1
  <2>2. Cardinality(0 .. m.batch) = IF 0 > m.batch THEN 0 ELSE m.batch - 0 + 1
    BY <2>1, FS_Interval
  <2>3. QED
    BY <1>1, <2>2
<1>6. StagedCount(m) = BatchCount[m.version] /\ uploaded[m.upload].final = FALSE
  BY <1>1, <1>2 DEF StagedCount, NoUpload
<1>7. Ready(m) <=> Final(m)
  <2>1. Ready(m) <=> Final(m) /\ Cardinality(0 .. m.batch) >= StagedCount(m)
    BY <1>4, <1>6 DEF Ready
  <2>2. Final(m) <=> m.batch + 1 = BatchCount[m.version]
    BY DEF Final
  <2>3. QED
    BY <1>1, <1>5, <1>6, <2>1, <2>2
<1>8. StagedRows(m) = {<<m.version, b>> : b \in 0 .. m.batch}
  <2>1. \A b \in 0 .. m.batch - 1 : <<m.version, b>>[2] # m.batch
    BY <1>1
  <2>2. {i \in staged[m.upload] : i[2] # m.batch} = {<<m.version, b>> : b \in 0 .. m.batch - 1}
    BY <1>2, <2>1
  <2>3. QED
    BY <1>3, <2>2 DEF StagedRows
<1>9. ASSUME Final(m) PROVE {<<m.version, b>> : b \in 0 .. m.batch} = Items(m.version)
  <2>1. BatchCount[m.version] - 1 = m.batch
    BY <1>1, <1>9 DEF Final
  <2>2. QED
    BY <2>1 DEF Items
<1>10. QED
  BY <1>4, <1>6, <1>7, <1>8, <1>9

LEMMA NewestGrows ==
  ASSUME TypeOK, NEW v \in 1 .. file, stored' = Items(v), newest' = Latest(stored')
  PROVE  /\ newest' = (IF v > newest THEN v ELSE newest)
         /\ newest' \in 0 .. file /\ newest <= newest' /\ v <= newest'
         /\ stored' \subseteq Versions \X Nat
<1>1. file \in 1 .. MaxVersion /\ newest \in 0 .. file /\ v \in Versions /\ MaxVersion \in Nat
  BY UploadAssumption DEF TypeOK, Versions
<1>2. newest' = IF v > newest THEN v ELSE newest
  BY <1>1, LatestOfOne
<1>3. QED
  BY <1>1, <1>2, ItemsOfOne

(* A batch that is stored: staged as the next one of its upload, or the    *)
(* last one, and the session shows the version of the upload.              *)
LEMMA SavingItems ==
  ASSUME TypeOK, Uploading, NEW m \in ToServer, m.type = "items", Sent(m), SaveHistoryItems(m),
         up' = up
  PROVE  /\ \/ UNCHANGED <<stored, newest>>
            \/ stored' = Items(m.version) /\ newest' = Latest(stored')
         /\ m.version \in 1 .. file /\ m.upload \in Uploads
         /\ Saved(m.upload)'
         /\ staged' \in [Uploads -> SUBSET (Versions \X Nat)]
         /\ received' \in [Uploads -> SUBSET Nat]
         /\ uploaded' \in [Uploads -> [count : Nat, final : BOOLEAN]]
         /\ \A u \in Uploads \ {m.upload} :
              staged'[u] = staged[u] /\ received'[u] = received[u] /\ uploaded'[u] = uploaded[u]
<1> DEFINE u == m.upload
           v == m.version
           b == m.batch
<1>1. /\ u \in Uploads /\ v \in Versions /\ b \in Nat /\ BatchCount[v] \in Nat \ {0}
      /\ OfItsUpload(m) /\ Got(u, b) /\ up[u].read = v /\ up[u].batch = b
  BY UploadAssumption DEF ToServer, Sent, OfItsUpload
<1>2. v \in 1 .. file /\ b < BatchCount[v]
  <2>1. up[u].read \in 0 .. file /\ v \in 1 .. MaxVersion /\ MaxVersion \in Nat /\ file \in Nat
    BY <1>1, UploadAssumption DEF TypeOK, Versions
  <2>2. up[u].read > 0 => up[u].batch < BatchCount[up[u].read]
    BY <1>1 DEF Uploading, InTurn
  <2>3. QED
    BY <1>1, <2>1, <2>2
<1>3. /\ staged \in [Uploads -> SUBSET (Versions \X Nat)] /\ received \in [Uploads -> SUBSET Nat]
      /\ uploaded \in [Uploads -> [count : Nat, final : BOOLEAN]]
  BY DEF TypeOK
<1>4. /\ Ready(m) <=> Final(m)
      /\ StagedRows(m) = {<<v, i>> : i \in 0 .. b}
      /\ StagedCount(m) = BatchCount[v]
      /\ received[u] \cup {b} = 0 .. b
      /\ Final(m) => {<<v, i>> : i \in 0 .. b} = Items(v)
  BY <1>1, <1>2, StagingOfBatch
<1>5. CASE SaveDirect(m)
  <2>1. BatchCount[v] = 1 /\ b = 0 /\ UNCHANGED staging
    BY <1>1, <1>2, <1>5 DEF SaveDirect, ShouldStage
  <2>2. Final(m)
    BY <1>1, <2>1 DEF Final
  <2>3. stored' = {<<v, 0>>} /\ newest' = Latest(stored')
    BY <1>5, <2>1 DEF SaveDirect, Reset
  <2>4. {<<v, i>> : i \in 0 .. b} = {<<v, 0>>}
    BY <2>1
  <2>5. stored' = Items(v)
    BY <1>4, <2>2, <2>3, <2>4
  <2>6. v <= newest'
    BY <1>2, <2>3, <2>5, NewestGrows
  <2>7. Saved(u)'
    BY <1>1, <2>1, <2>6 DEF Saved
  <2>8. QED
    BY <1>1, <1>2, <1>3, <2>1, <2>3, <2>5, <2>7 DEF staging
<1>6. CASE Stage(m)
  <2>1. b + 1 < BatchCount[v]
    BY <1>1, <1>2, <1>4, <1>6 DEF Stage, Final
  <2>2. /\ staged' = [staged EXCEPT ![u] = {<<v, i>> : i \in 0 .. b}]
        /\ received' = [received EXCEPT ![u] = 0 .. b]
        /\ uploaded' = [uploaded EXCEPT ![u] = [count |-> BatchCount[v],
                                                final |-> @.final \/ Final(m)]]
        /\ UNCHANGED <<stored, newest>>
    BY <1>1, <1>3, <1>4, <1>6 DEF Stage
  <2>3. uploaded[u].final = FALSE /\ ~Final(m)
    BY <1>1, <1>4, <1>6 DEF Got, NoUpload, Stage
  <2>4. uploaded'[u] = [count |-> BatchCount[v], final |-> FALSE]
    BY <1>1, <1>3, <2>2, <2>3
  <2>5. (b + 1) - 1 = b /\ b + 1 # 0
    BY <1>1
  <2>6. Got(u, b + 1)'
    BY <1>1, <1>3, <2>2, <2>4, <2>5 DEF Got
  <2>7. Saved(u)'
    BY <1>1, <2>1, <2>6 DEF Saved
  <2>8. {<<v, i>> : i \in 0 .. b} \subseteq Versions \X Nat /\ 0 .. b \subseteq Nat
    BY <1>1
  <2>9. \A x \in Uploads \ {u} :
          staged'[x] = staged[x] /\ received'[x] = received[x] /\ uploaded'[x] = uploaded[x]
    BY <1>3, <2>2
  <2>10. uploaded' \in [Uploads -> [count : Nat, final : BOOLEAN]]
    BY <1>1, <1>3, <2>2, <2>3
  <2>11. QED
    BY <1>1, <1>2, <1>3, <2>2, <2>7, <2>8, <2>9, <2>10
<1>7. CASE CommitUpload(m)
  <2>1. Final(m)
    BY <1>4, <1>7 DEF CommitUpload
  <2>2. stored' = Items(v) /\ newest' = Latest(stored')
    BY <1>4, <1>7, <2>1 DEF CommitUpload
  <2>3. b + 1 = BatchCount[v] /\ v <= newest'
    BY <1>2, <2>1, <2>2, NewestGrows DEF Final
  <2>4. Saved(u)'
    BY <1>1, <2>3 DEF Saved
  <2>5. /\ staged' = [staged EXCEPT ![u] = {}] /\ received' = [received EXCEPT ![u] = {}]
        /\ uploaded' = [uploaded EXCEPT ![u] = NoUpload]
    BY <1>7 DEF CommitUpload
  <2>6. QED
    BY <1>1, <1>2, <1>3, <2>2, <2>4, <2>5 DEF NoUpload
<1>8. QED
  BY <1>5, <1>6, <1>7 DEF SaveHistoryItems

-----------------------------------------------------------------------------
(* What keeps a message, an answer and a stored batch true.                *)

IInv == TypeOK /\ Uploading

(* The rows of u in the staging tables, and what it read, are as before.   *)
StagingKept(u) ==
  staged'[u] = staged[u] /\ received'[u] = received[u] /\ uploaded'[u] = uploaded[u]
ReadKept(u) ==
  /\ up'[u].read = up[u].read /\ up'[u].batch = up[u].batch
  /\ up[u].pc \notin Early => up'[u].pc \notin Early

LEMMA SavedKept ==
  ASSUME TypeOK, NEW u \in Uploads, ReadKept(u), StagingKept(u),
         newest' \in Nat, newest <= newest'
  PROVE  /\ \A k : Got(u, k) => Got(u, k)'
         /\ Saved(u) => Saved(u)'
<1>1. \A k : Got(u, k) => Got(u, k)'
  BY DEF Got, ReadKept, StagingKept
<1>2. ASSUME Saved(u) PROVE Saved(u)'
  <2>1. up[u].read \in Nat /\ newest \in Nat
    BY DEF TypeOK, Versions
  <2>2. CASE up[u].batch + 1 < BatchCount[up[u].read]
    BY <1>1, <1>2, <2>2 DEF Saved, ReadKept
  <2>3. CASE ~(up[u].batch + 1 < BatchCount[up[u].read])
    <3>1. up[u].read <= newest'
      BY <1>2, <2>1, <2>3 DEF Saved
    <3>2. QED
      BY <2>3, <3>1 DEF Saved, ReadKept
  <2>4. QED
    BY <2>2, <2>3
<1>3. QED
  BY <1>1, <1>2

LEMMA SentKept ==
  ASSUME TypeOK, NEW m \in ToServer, Sent(m), newest' \in Nat, newest <= newest',
         m.type = "items" => ReadKept(m.upload) /\ StagingKept(m.upload)
  PROVE  Sent(m)'
<1>1. m.upload \in Uploads /\ m.version \in Nat /\ newest \in Nat
  BY DEF ToServer, TypeOK, Versions
<1>2. ASSUME m.type = "items" PROVE OfItsUpload(m)' /\ Got(m.upload, m.batch)'
  <2>1. OfItsUpload(m) /\ Got(m.upload, m.batch)
    BY <1>2 DEF Sent
  <2>2. OfItsUpload(m)'
    BY <1>2, <2>1 DEF OfItsUpload, ReadKept
  <2>3. QED
    BY <1>1, <1>2, <2>1, <2>2, SavedKept
<1>3. m.type = "cursor" => m.version <= newest'
  BY <1>1 DEF Sent
<1>4. QED
  BY <1>2, <1>3 DEF Sent

LEMMA AnsweredKept ==
  ASSUME TypeOK, NEW a \in ToAgent, Answered(a), newest' \in Nat, newest <= newest',
         chunks \subseteq chunks',
         a.type = "items" => ReadKept(a.upload) /\ StagingKept(a.upload)
  PROVE  Answered(a)'
<1>1. a.upload \in Uploads
  BY DEF ToAgent
<1>2. ASSUME a.type = "items"
      PROVE  OfItsUpload(a)' /\ (a.result = "acked" => Saved(a.upload)')
  <2>1. OfItsUpload(a) /\ (a.result = "acked" => Saved(a.upload))
    BY <1>2 DEF Answered
  <2>2. OfItsUpload(a)'
    BY <1>2, <2>1 DEF OfItsUpload, ReadKept
  <2>3. QED
    BY <1>1, <1>2, <2>1, <2>2, SavedKept
<1>3. QED
  BY <1>2 DEF Answered

-----------------------------------------------------------------------------
(* Steps of an upload that send no batch.                                  *)

(* What such a step may do to u.                                           *)
Moved(u) ==
  /\ ReadKept(u)
  /\ ack'[u] \in {ack[u], "none"}
  /\ up'[u].pc \in Early => up[u].pc \in Early
  /\ up'[u].pc = "check" => up'[u].seen > 0
  /\ up'[u].pc = "wait" => up[u].pc = "wait" /\ up'[u].seen = up[u].seen
  /\ KindOf[u] = "sync" => /\ up'[u].pc # "chunk"
                           /\ up'[u].pc \notin {"done", "failed"} => up'[Then[u]].pc = "idle"
                           /\ up'[u].pc = "done" => up'[u].seen <= newest

LEMMA InTurnKept ==
  ASSUME TypeOK, NEW u \in Uploads, InTurn(u), Moved(u), UNCHANGED server
  PROVE  InTurn(u)' /\ AfterRun(u)'
<1>1. StagingKept(u) /\ newest' \in Nat /\ newest <= newest' /\ newest' = newest
  BY DEF StagingKept, server, staging, TypeOK, Versions
<1>2. ReadKept(u) /\ ack'[u] \in {ack[u], "none"}
  BY DEF Moved
<1>3. ack'[u] = "acked" => Saved(u)'
  BY <1>1, <1>2, SavedKept DEF InTurn
<1>4. ASSUME up'[u].pc \in Early
      PROVE  up'[u].read = 0 /\ up'[u].batch = 0 /\ ack'[u] = "none" /\ Got(u, 0)'
  <2>1. up[u].pc \in Early
    BY <1>4 DEF Moved
  <2>2. up[u].read = 0 /\ up[u].batch = 0 /\ ack[u] = "none" /\ Got(u, 0)
    BY <2>1 DEF InTurn
  <2>3. QED
    BY <1>1, <1>2, <2>2, SavedKept DEF ReadKept
<1>5. /\ up'[u].pc = "check" => up'[u].seen > 0
      /\ up'[u].pc = "wait" => up'[u].seen > 0 /\ up'[u].seen <= up'[u].read
      /\ up'[u].read > 0 => up'[u].batch < BatchCount[up'[u].read]
  BY <1>2 DEF Moved, InTurn, ReadKept
<1>6. InTurn(u)'
  BY <1>3, <1>4, <1>5 DEF InTurn
<1>7. AfterRun(u)'
  BY <1>1 DEF Moved, AfterRun, Ended
<1>8. QED
  BY <1>6, <1>7

(* The messages stay true while the server does nothing and nothing new is *)
(* put into a queue.                                                       *)
LEMMA MessagesKept ==
  ASSUME TypeOK, MessagesTrue, UNCHANGED server,
         \A u \in Uploads : ReadKept(u),
         \A m \in (Contents(wire) \cup Contents(buffered))' \ (Contents(wire) \cup Contents(buffered)) :
           Sent(m)',
         Contents(back') \subseteq Contents(back)
  PROVE  MessagesTrue'
<1>1. /\ newest' \in Nat /\ newest <= newest' /\ chunks \subseteq chunks'
      /\ \A u \in Uploads : StagingKept(u)
  BY DEF StagingKept, server, staging, TypeOK, Versions
<1>2. /\ \A m \in Contents(wire) \cup Contents(buffered) : m \in ToServer /\ m.upload \in Uploads
      /\ \A a \in Contents(back) : a \in ToAgent /\ a.upload \in Uploads
  <2>1. /\ \A i \in 1 .. Len(wire) : wire[i] \in ToServer
        /\ \A i \in 1 .. Len(buffered) : buffered[i] \in ToServer
        /\ \A i \in 1 .. Len(back) : back[i] \in ToAgent
    BY ElementOfSeq DEF TypeOK
  <2>2. QED
    BY <2>1 DEF Contents, ToServer, ToAgent
<1>3. \A m \in Contents(wire) \cup Contents(buffered) : Sent(m)'
  BY <1>1, <1>2, SentKept DEF MessagesTrue
<1>4. \A a \in Contents(back) : Answered(a)'
  BY <1>1, <1>2, AnsweredKept DEF MessagesTrue
<1>5. QED
  BY <1>3, <1>4 DEF MessagesTrue

(* A step after which every upload has moved at most.                      *)
LEMMA QuietStep ==
  ASSUME IInv, \A u \in Uploads : Moved(u), UNCHANGED <<server, wire, buffered, back, local>>
  PROVE  Uploading'
<1>1. /\ TypeOK /\ MessagesTrue /\ OneUnderWay /\ TablesTrue
      /\ \A u \in Uploads : InTurn(u) /\ ReadKept(u) /\ ack'[u] \in {ack[u], "none"}
  BY DEF IInv, Uploading, Moved
<1>2. MessagesTrue'
  BY <1>1, MessagesKept
<1>3. OneUnderWay'
  BY <1>1 DEF OneUnderWay, Once, Pending, Contents
<1>4. TablesTrue'
  BY <1>1 DEF TablesTrue, AckedChunkStored, server, local, Items
<1>5. \A u \in Uploads : InTurn(u)' /\ AfterRun(u)'
  BY <1>1, InTurnKept
<1>6. QED
  BY <1>2, <1>3, <1>4, <1>5 DEF Uploading

-----------------------------------------------------------------------------
(* The end of the items of u: the chunks, or the second upload after a     *)
(* run.                                                                    *)

UpType == [pc : PC, seen : 0 .. file, read : 0 .. file, batch : Nat]

(* The upload that follows a run has not begun while the first one runs,   *)
(* and follows this one only.                                              *)
LEMMA SecondUpload ==
  ASSUME IInv, NEW t \in Uploads, KindOf[t] = "sync"
  PROVE  /\ Then[t] \in Uploads /\ KindOf[Then[t]] = "post"
         /\ ~Ended(t) => up[Then[t]].pc = "idle"
         /\ \A u \in Uploads : KindOf[u] = "sync" /\ u # t => Then[u] # Then[t]
<1>1. t \in DOMAIN Then
  BY UploadAssumption
<1>2. Then[t] \in Uploads /\ KindOf[Then[t]] = "post"
  BY <1>1, UploadAssumption
<1>3. ~Ended(t) => up[Then[t]].pc = "idle"
  BY DEF IInv, Uploading, AfterRun
<1>4. \A u \in Uploads : KindOf[u] = "sync" /\ u # t => Then[u] # Then[t]
  BY <1>1, UploadAssumption
<1>5. QED
  BY <1>2, <1>3, <1>4

(* An upload whose pc does not change, nor that of the one that follows.   *)
LEMMA Unmoved ==
  ASSUME IInv, NEW u \in Uploads, up'[u] = up[u], ack'[u] \in {ack[u], "none"},
         KindOf[u] = "sync" /\ ~Ended(u) => up'[Then[u]].pc = up[Then[u]].pc
  PROVE  Moved(u)
<1>1. InTurn(u) /\ AfterRun(u)
  BY DEF IInv, Uploading
<1>2. KindOf[u] = "sync" => /\ up'[u].pc # "chunk"
                            /\ up'[u].pc \notin {"done", "failed"} => up'[Then[u]].pc = "idle"
                            /\ up'[u].pc = "done" => up'[u].seen <= newest
  BY <1>1 DEF AfterRun, Ended
<1>3. QED
  BY <1>1, <1>2 DEF Moved, InTurn, ReadKept

LEMMA AfterItemsMoves ==
  ASSUME IInv, NEW u \in Uploads, up[u].pc \in {"check", "wait"}, NEW pc \in {"done", "failed"},
         KindOf[u] = "sync" /\ pc = "done" => up[u].seen <= newest,
         up' = AfterItems(up, u, pc),
         ack' = ack \/ ack' = [ack EXCEPT ![u] = "none"]
  PROVE  /\ \A x \in Uploads : Moved(x)
         /\ up' \in [Uploads -> UpType]
         /\ ack' \in [Uploads -> Answers]
<1>1. up \in [Uploads -> UpType] /\ ack \in [Uploads -> Answers]
  BY DEF IInv, TypeOK, UpType
<1>2. ack' \in [Uploads -> Answers] /\ \A x \in Uploads : ack'[x] \in {ack[x], "none"}
  BY <1>1 DEF Answers
<1>3. ~Ended(u)
  BY DEF Ended
<1>4. {"done", "failed", "chunk", "scan"} \subseteq PC
  BY DEF PC
<1>5. CASE KindOf[u] = "sync"
  <2> DEFINE p == Then[u]
  <2>1. p \in Uploads /\ p # u /\ KindOf[p] = "post" /\ up[p].pc = "idle"
    BY <1>3, <1>5, SecondUpload
  <2>2. up' = [up EXCEPT ![u].pc = pc, ![p].pc = "scan"]
    BY <1>5 DEF AfterItems
  <2>3. /\ up'[u] = [up[u] EXCEPT !.pc = pc] /\ up'[p] = [up[p] EXCEPT !.pc = "scan"]
        /\ \A x \in Uploads \ {u, p} : up'[x] = up[x]
    BY <1>1, <2>1, <2>2
  <2>4. up' \in [Uploads -> UpType]
    BY <1>1, <1>4, <2>1, <2>2 DEF UpType
  <2>5. Moved(u)
    BY <1>1, <1>2, <1>5, <2>3 DEF Moved, ReadKept, Early, UpType
  <2>6. Moved(p)
    BY <1>1, <1>2, <2>1, <2>3 DEF Moved, ReadKept, Early, UpType
  <2>7. ASSUME NEW x \in Uploads \ {u, p} PROVE Moved(x)
    <3>1. KindOf[x] = "sync" => up'[Then[x]] = up[Then[x]]
      BY <1>5, <2>1, <2>3, SecondUpload
    <3>2. QED
      BY <1>2, <2>3, <3>1, Unmoved
  <2>8. QED
    BY <1>2, <2>4, <2>5, <2>6, <2>7
<1>6. CASE KindOf[u] # "sync"
  <2>1. PICK q \in {"done", "failed", "chunk"} : up' = [up EXCEPT ![u].pc = q]
    BY <1>6 DEF AfterItems
  <2>2. /\ up'[u] = [up[u] EXCEPT !.pc = q] /\ \A x \in Uploads \ {u} : up'[x] = up[x]
    BY <1>1, <2>1
  <2>3. up' \in [Uploads -> UpType]
    BY <1>1, <1>4, <2>1 DEF UpType
  <2>4. Moved(u)
    BY <1>1, <1>2, <1>6, <2>1, <2>2 DEF Moved, ReadKept, Early, UpType
  <2>5. ASSUME NEW x \in Uploads \ {u} PROVE Moved(x)
    <3>1. KindOf[x] = "sync" /\ ~Ended(x) => up'[Then[x]].pc = up[Then[x]].pc
      BY <2>2, SecondUpload
    <3>2. QED
      BY <1>2, <2>2, <3>1, Unmoved
  <2>6. QED
    BY <1>2, <2>3, <2>4, <2>5
<1>7. QED
  BY <1>5, <1>6

-----------------------------------------------------------------------------
(* The steps that put nothing into a queue keep the invariant.             *)

(* What the types need of a step that leaves the file and the server.      *)
LEMMA TypesKept ==
  ASSUME TypeOK, UNCHANGED <<planned, file, server>>,
         up' \in [Uploads -> UpType],
         \A u \in Uploads : up'[u].pc = "wait" => up'[u].batch < BatchCount[up'[u].read],
         ack' \in [Uploads -> Answers],
         cursor' \in 0 .. file, chunk' \in [sha : 0 .. file, acked : BOOLEAN], conn' \in BOOLEAN,
         wire' \in Seq(ToServer), buffered' \in Seq(ToServer), back' \in Seq(ToAgent),
         drops' \in Nat, failures' \in Nat
  PROVE  TypeOK'
BY DEF TypeOK, UpType, server, staging

LEMMA MovedWaits ==
  ASSUME TypeOK, NEW u \in Uploads, Moved(u)
  PROVE  up'[u].pc = "wait" => up'[u].batch < BatchCount[up'[u].read]
BY DEF TypeOK, Moved, ReadKept

(* An upload that begins, or goes on, before it has read.                  *)
LEMMA OneMoves ==
  ASSUME IInv, NEW u \in Uploads, NEW pc \in {"scan", "check"},
         up' = [up EXCEPT ![u].pc = pc] \/ up' = [up EXCEPT ![u].pc = pc, ![u].seen = file],
         pc = "check" => up'[u].seen = file,
         (up[u].pc = "idle" /\ KindOf[u] # "post") \/ up[u].pc = "scan",
         UNCHANGED ack
  PROVE  (\A x \in Uploads : Moved(x)) /\ up' \in [Uploads -> UpType]
<1>1. up \in [Uploads -> UpType] /\ file \in 1 .. MaxVersion /\ MaxVersion \in Nat
  BY UploadAssumption DEF IInv, TypeOK, UpType, Versions
<1>2. /\ up'[u].pc = pc /\ up'[u].read = up[u].read /\ up'[u].batch = up[u].batch
      /\ up'[u].seen \in 0 .. file
      /\ \A x \in Uploads \ {u} : up'[x] = up[x]
  BY <1>1 DEF UpType
<1>3. up' \in [Uploads -> UpType]
  BY <1>1 DEF UpType, PC
<1>4. KindOf[u] = "sync" => up'[Then[u]].pc = "idle"
  BY <1>2, SecondUpload DEF Ended
<1>5. Moved(u)
  BY <1>1, <1>2, <1>4 DEF Moved, ReadKept, Early
<1>6. ASSUME NEW x \in Uploads \ {u} PROVE Moved(x)
  <2>1. KindOf[x] = "sync" /\ ~Ended(x) => up'[Then[x]].pc = up[Then[x]].pc
    BY <1>2, SecondUpload
  <2>2. QED
    BY <1>2, <2>1, Unmoved
<1>7. QED
  BY <1>3, <1>5, <1>6

LEMMA QuietIInv ==
  ASSUME IInv, \A x \in Uploads : Moved(x), up' \in [Uploads -> UpType],
         ack' \in [Uploads -> Answers],
         UNCHANGED <<planned, file, local, link, server, counted>>
  PROVE  IInv'
<1>1. Uploading'
  BY QuietStep DEF link
<1>2. TypeOK /\ \A u \in Uploads : up'[u].pc = "wait" => up'[u].batch < BatchCount[up'[u].read]
  BY MovedWaits DEF IInv
<1>3. TypeOK'
  BY <1>2, TypesKept DEF TypeOK, local, link, counted
<1>4. QED
  BY <1>1, <1>3 DEF IInv

LEMMA QuietActions ==
  ASSUME IInv, NEW u \in Uploads,
         RunEnds(u) \/ Refresh(u) \/ Scan(u) \/ ScanFails(u) \/ Rejected(u) \/ TimedOut(u)
  PROVE  IInv'
<1>1. /\ UNCHANGED <<planned, file, ack, local, link, server, counted>>
      /\ ack' \in [Uploads -> Answers]
  BY DEF RunEnds, Refresh, Scan, ScanFails, Rejected, TimedOut, IInv, TypeOK
<1>2. CASE RunEnds(u) \/ Refresh(u)
  <2>1. up' = [up EXCEPT ![u].pc = "scan"] /\ up[u].pc = "idle" /\ KindOf[u] # "post"
    BY <1>2 DEF RunEnds, Refresh
  <2>2. QED
    BY <1>1, <2>1, OneMoves, QuietIInv
<1>3. CASE Scan(u)
  <2>1. up' = [up EXCEPT ![u].pc = "check", ![u].seen = file] /\ up[u].pc = "scan"
    BY <1>3 DEF Scan, At
  <2>2. up'[u].seen = file
    BY <2>1 DEF IInv, TypeOK
  <2>3. QED
    BY <1>1, <2>1, <2>2, OneMoves, QuietIInv
<1>4. CASE Rejected(u) \/ TimedOut(u)
  <2>1. up' = AfterItems(up, u, "failed") /\ up[u].pc = "wait"
    BY <1>4 DEF Rejected, TimedOut, At
  <2>2. QED
    BY <1>1, <2>1, AfterItemsMoves, QuietIInv
<1>5. CASE ScanFails(u)
  <2>1. up[u].pc = "scan" /\ ~Ended(u) /\ up \in [Uploads -> UpType]
    BY <1>5 DEF ScanFails, At, Ended, IInv, TypeOK, UpType
  <2>2. CASE KindOf[u] = "sync"
    <3> DEFINE p == Then[u]
    <3>1. p \in Uploads /\ p # u /\ KindOf[p] = "post" /\ up[p].pc = "idle"
      BY <2>1, <2>2, SecondUpload
    <3>2. up' = [up EXCEPT ![u].pc = "failed", ![p].pc = "scan"]
      BY <1>5, <2>2 DEF ScanFails
    <3>3. /\ up'[u] = [up[u] EXCEPT !.pc = "failed"] /\ up'[p] = [up[p] EXCEPT !.pc = "scan"]
          /\ \A x \in Uploads \ {u, p} : up'[x] = up[x]
      BY <2>1, <3>1, <3>2
    <3>4. up' \in [Uploads -> UpType]
      BY <2>1, <3>1, <3>2 DEF UpType, PC
    <3>5. Moved(u) /\ Moved(p)
      BY <1>1, <2>1, <2>2, <3>1, <3>3 DEF Moved, ReadKept, Early, UpType
    <3>6. ASSUME NEW x \in Uploads \ {u, p} PROVE Moved(x)
      <4>1. KindOf[x] = "sync" => up'[Then[x]] = up[Then[x]]
        BY <2>2, <3>1, <3>3, SecondUpload
      <4>2. QED
        BY <1>1, <3>3, <4>1, Unmoved
    <3>7. QED
      BY <1>1, <3>4, <3>5, <3>6, QuietIInv
  <2>3. CASE KindOf[u] # "sync"
    <3>1. up' = [up EXCEPT ![u].pc = "failed"]
      BY <1>5, <2>3 DEF ScanFails
    <3>2. up'[u] = [up[u] EXCEPT !.pc = "failed"] /\ \A x \in Uploads \ {u} : up'[x] = up[x]
      BY <2>1, <3>1
    <3>3. up' \in [Uploads -> UpType]
      BY <2>1, <3>1 DEF UpType, PC
    <3>4. Moved(u)
      BY <1>1, <2>1, <2>3, <3>2 DEF Moved, ReadKept, Early, UpType
    <3>5. ASSUME NEW x \in Uploads \ {u} PROVE Moved(x)
      <4>1. KindOf[x] = "sync" /\ ~Ended(x) => up'[Then[x]].pc = up[Then[x]].pc
        BY <2>1, <3>2, SecondUpload
      <4>2. QED
        BY <1>1, <3>2, <4>1, Unmoved
    <3>6. QED
      BY <1>1, <3>3, <3>4, <3>5, QuietIInv
  <2>4. QED
    BY <2>2, <2>3
<1>6. QED
  BY <1>2, <1>3, <1>4, <1>5

LEMMA GrowKeeps ==
  ASSUME IInv, Grow
  PROVE  IInv'
<1>1. /\ file' = file + 1 /\ file \in 1 .. MaxVersion /\ file < MaxVersion /\ MaxVersion \in Nat
      /\ UNCHANGED <<planned, up, ack, local, link, server, counted>>
  BY UploadAssumption DEF Grow, process, IInv, TypeOK, Versions
<1>2. 0 .. file \subseteq 0 .. file' /\ file' \in Versions
  BY <1>1 DEF Versions
<1>3. up' \in [Uploads -> [pc : PC, seen : 0 .. file', read : 0 .. file', batch : Nat]]
  BY <1>1, <1>2 DEF IInv, TypeOK
<1>4. chunk' \in [sha : 0 .. file', acked : BOOLEAN]
  BY <1>1, <1>2 DEF IInv, TypeOK, local
<1>5. cursor' \in 0 .. file' /\ confirmed' \in 0 .. file' /\ newest' \in 0 .. file'
  BY <1>1, <1>2 DEF IInv, TypeOK, local, server
<1>6. TypeOK'
  BY <1>1, <1>2, <1>3, <1>4, <1>5 DEF IInv, TypeOK, local, link, server, staging, counted
<1>7. \A u \in Uploads : KindOf[u] = "sync" => Then[u] \in Uploads
  BY SecondUpload
<1>8. \A u \in Uploads : Moved(u)
  BY <1>1, Unmoved
<1>9. Uploading'
  BY <1>1, <1>8, QuietStep DEF link
<1>10. QED
  BY <1>6, <1>9 DEF IInv

LEMMA ConnectKeeps ==
  ASSUME IInv, NEW u \in Uploads, Connect(u)
  PROVE  IInv'
<1>1. /\ up' = [up EXCEPT ![u].pc = "scan"] /\ up[u].pc = "idle" /\ KindOf[u] # "post"
      /\ conn' = TRUE
      /\ UNCHANGED <<planned, file, ack, local, wire, buffered, back, server, counted>>
  BY DEF Connect
<1>2. (\A x \in Uploads : Moved(x)) /\ up' \in [Uploads -> UpType]
  BY <1>1, OneMoves
<1>3. Uploading'
  BY <1>1, <1>2, QuietStep
<1>4. TypeOK /\ \A x \in Uploads : up'[x].pc = "wait" => up'[x].batch < BatchCount[up'[x].read]
  BY <1>2, MovedWaits DEF IInv
<1>5. TypeOK'
  BY <1>1, <1>2, <1>4, TypesKept DEF TypeOK, local, counted
<1>6. QED
  BY <1>3, <1>5 DEF IInv

(* A lost connection: what the server may still read of it was sent.       *)
LEMMA DropKeeps ==
  ASSUME IInv, NEW n \in 0 .. Len(wire), Drop(n)
  PROVE  IInv'
<1>1. /\ drops' = drops + 1 /\ conn' = FALSE /\ wire' = <<>> /\ back' = <<>>
      /\ buffered = <<>> /\ buffered' = SubSeq(wire, 1, n)
      /\ up' = [u \in Uploads |-> IF Running(u) /\ KindOf[u] \in {"connect", "command"}
                                  THEN [up[u] EXCEPT !.pc = "failed"] ELSE up[u]]
      /\ UNCHANGED <<planned, file, ack, local, server, failures>>
  BY DEF Drop
<1>2. TypeOK /\ MessagesTrue /\ OneUnderWay /\ TablesTrue /\ wire \in Seq(ToServer)
      /\ \A u \in Uploads : InTurn(u) /\ AfterRun(u)
  BY DEF IInv, Uploading, TypeOK
<1>3. up \in [Uploads -> UpType]
  BY <1>2 DEF TypeOK, UpType
<1>4. up' \in [Uploads -> UpType]
  BY <1>1, <1>3 DEF UpType, PC
<1>5. ASSUME NEW u \in Uploads PROVE Moved(u)
  <2>1. CASE up'[u] = up[u]
    <3>1. ASSUME KindOf[u] = "sync" PROVE up'[Then[u]].pc = up[Then[u]].pc
      BY <1>1, <1>5, <3>1, SecondUpload
    <3>2. QED
      BY <1>1, <2>1, <3>1, Unmoved
  <2>2. CASE up'[u] # up[u]
    <3>1. up'[u] = [up[u] EXCEPT !.pc = "failed"] /\ KindOf[u] # "sync"
      BY <1>1, <2>2
    <3>2. QED
      BY <1>1, <1>3, <3>1 DEF Moved, ReadKept, Early, UpType
  <2>3. QED
    BY <2>1, <2>2
<1>6. Contents(wire') = {} /\ Contents(back') = {} /\ Contents(buffered') \subseteq Contents(wire)
      /\ buffered' \in Seq(ToServer)
      /\ \A u : /\ Once(wire', u) /\ ~Pending(wire', u) /\ Once(back', u) /\ ~Pending(back', u)
                /\ Pending(buffered', u) => Pending(wire, u)
                /\ Once(wire, u) => Once(buffered', u)
  BY <1>1, <1>2, EmptyContents, PrefixContents
<1>7. MessagesTrue'
  <2>1. (Contents(wire) \cup Contents(buffered))' \subseteq Contents(wire) \cup Contents(buffered)
    BY <1>6
  <2>2. \A u \in Uploads : ReadKept(u)
    BY <1>5 DEF Moved
  <2>3. Contents(back') \subseteq Contents(back)
    BY <1>6
  <2>4. QED
    BY <1>1, <1>2, <2>1, <2>2, <2>3, MessagesKept
<1>8. OneUnderWay'
  BY <1>1, <1>2, <1>6 DEF OneUnderWay
<1>9. TablesTrue'
  BY <1>1, <1>2 DEF TablesTrue, AckedChunkStored, server, local, Items
<1>10. \A u \in Uploads : InTurn(u)' /\ AfterRun(u)'
  BY <1>1, <1>2, <1>5, InTurnKept
<1>11. TypeOK'
  <2>1. \A u \in Uploads : up'[u].pc = "wait" => up'[u].batch < BatchCount[up'[u].read]
    BY <1>2, <1>5, MovedWaits
  <2>2. wire' \in Seq(ToServer) /\ back' \in Seq(ToAgent)
    BY <1>1, EmptySeq
  <2>3. /\ ack' \in [Uploads -> Answers] /\ cursor' \in 0 .. file
        /\ chunk' \in [sha : 0 .. file, acked : BOOLEAN]
        /\ drops' \in Nat /\ failures' \in Nat
    BY <1>1, <1>2 DEF TypeOK, local
  <2>4. UNCHANGED <<planned, file, server>> /\ conn' \in BOOLEAN
    BY <1>1
  <2>5. QED
    BY <1>2, <1>4, <1>6, <2>1, <2>2, <2>3, <2>4, TypesKept
<1>12. QED
  BY <1>7, <1>8, <1>9, <1>10, <1>11 DEF IInv, Uploading

-----------------------------------------------------------------------------
(* The steps that send or receive keep the invariant.                      *)

(* No batch of u is under way.                                             *)
Silent(u) == ~Pending(wire, u) /\ ~Pending(buffered, u) /\ ~Pending(back, u)

LEMMA SilentUpload ==
  ASSUME IInv, NEW u \in Uploads, up[u].pc \in Early \/ ack[u] # "none"
  PROVE  Silent(u)
<1>1. CASE ack[u] # "none"
  BY <1>1 DEF IInv, Uploading, OneUnderWay, Silent
<1>2. CASE up[u].pc \in Early
  <2>1. \A m \in Contents(wire) \cup Contents(buffered) \cup Contents(back) : ~IsItems(m, u)
    BY <1>2 DEF IInv, Uploading, MessagesTrue, Sent, Answered, OfItsUpload, IsItems
  <2>2. QED
    BY <2>1 DEF Silent, Pending
<1>3. QED
  BY <1>1, <1>2

(* Messages other than batches are added to the queue.                     *)
LEMMA OtherSent ==
  ASSUME IInv, NEW m \in ToServer, m.type # "items", m.type = "cursor" => m.version <= newest,
         wire' = Append(wire, m) \/ wire' = wire, UNCHANGED <<server, buffered, back>>,
         \A u \in Uploads : Moved(u)
  PROVE  /\ wire' \in Seq(ToServer)
         /\ MessagesTrue' /\ OneUnderWay' /\ \A u \in Uploads : InTurn(u)' /\ AfterRun(u)'
<1>1. /\ TypeOK /\ MessagesTrue /\ OneUnderWay /\ wire \in Seq(ToServer)
      /\ \A u \in Uploads : InTurn(u) /\ ReadKept(u) /\ ack'[u] \in {ack[u], "none"}
  BY DEF IInv, Uploading, Moved, TypeOK
<1>2. /\ wire' \in Seq(ToServer) /\ Contents(wire') \subseteq Contents(wire) \cup {m}
      /\ \A u : (Pending(wire', u) => Pending(wire, u)) /\ (Once(wire, u) => Once(wire', u))
  <2>1. \A u : ~IsItems(m, u)
    BY DEF IsItems
  <2>2. CASE wire' = wire
    BY <1>1, <2>2
  <2>3. CASE wire' = Append(wire, m)
    BY <1>1, <2>1, <2>3, AppendContents
  <2>4. QED
    BY <2>2, <2>3
<1>3. Sent(m)'
  BY DEF Sent, server
<1>4. MessagesTrue'
  <2>1. \A x \in (Contents(wire) \cup Contents(buffered))' \ (Contents(wire) \cup Contents(buffered)) :
          x = m
    BY <1>2
  <2>2. Contents(back') \subseteq Contents(back)
    OBVIOUS
  <2>3. QED
    BY <1>1, <1>3, <2>1, <2>2, MessagesKept
<1>5. OneUnderWay'
  BY <1>1, <1>2 DEF OneUnderWay
<1>6. \A u \in Uploads : InTurn(u)' /\ AfterRun(u)'
  BY <1>1, InTurnKept
<1>7. QED
  BY <1>2, <1>4, <1>5, <1>6

(* A batch is sent when nothing of the upload is under way.                *)
LEMMA BatchSent ==
  ASSUME IInv, NEW u \in Uploads, NEW v \in 1 .. file, NEW b \in Nat,
         UNCHANGED <<planned, file, local, conn, buffered, back, server, counted>>,
         SendItems(u, v, b), conn, Silent(u),
         up[u].pc \in {"check", "wait"}, up[u].pc = "wait" => up[u].read = v,
         0 < up[u].seen, up[u].seen <= v, b < BatchCount[v],
         IF up[u].pc = "wait" THEN Got(u, b) ELSE b = 0
  PROVE  IInv'
<1> DEFINE m == Message(u, "items", v, b)
<1>1. /\ TypeOK /\ MessagesTrue /\ OneUnderWay /\ TablesTrue /\ wire \in Seq(ToServer)
      /\ \A x \in Uploads : InTurn(x) /\ AfterRun(x)
      /\ up \in [Uploads -> UpType] /\ ack \in [Uploads -> Answers]
  BY DEF IInv, Uploading, TypeOK, UpType
<1>2. /\ ack' = [ack EXCEPT ![u] = "none"] /\ wire' = Append(wire, m)
      /\ up' = [up EXCEPT ![u].pc = "wait", ![u].read = v, ![u].batch = b]
  BY DEF SendItems
<1>3. v \in Versions /\ m \in ToServer /\ v \in 0 .. file
  BY <1>1, UploadAssumption DEF TypeOK, Versions, Message, ToServer
<1>4. /\ up'[u].pc = "wait" /\ up'[u].read = v /\ up'[u].batch = b /\ up'[u].seen = up[u].seen
      /\ ack'[u] = "none"
      /\ \A x \in Uploads \ {u} : up'[x] = up[x] /\ ack'[x] = ack[x]
  BY <1>1, <1>2 DEF UpType
<1>5. up' \in [Uploads -> UpType] /\ ack' \in [Uploads -> Answers]
  <2>1. "wait" \in PC /\ "none" \in Answers
    BY DEF PC, Answers
  <2>2. ack' \in [Uploads -> Answers]
    BY <1>1, <1>2, <2>1
  <2>3. up' \in [Uploads -> UpType]
    BY <1>1, <1>2, <1>3, <2>1 DEF UpType
  <2>4. QED
    BY <2>2, <2>3
<1>6. Got(u, b)'
  <2>1. Got(u, b)
    BY <1>1 DEF InTurn, Early
  <2>2. CASE up[u].pc = "wait"
    BY <1>4, <2>1, <2>2 DEF Got, server, staging
  <2>3. CASE b = 0
    <3>1. \A x : x \notin 0 .. b - 1
      BY <2>3
    <3>2. QED
      BY <2>1, <2>3, <3>1 DEF Got, server, staging
  <2>4. QED
    BY <2>2, <2>3
<1>7. /\ wire' \in Seq(ToServer) /\ Contents(wire') = Contents(wire) \cup {m}
      /\ \A x \in Uploads \ {u} : /\ Pending(wire', x) => Pending(wire, x)
                                  /\ Once(wire, x) => Once(wire', x)
      /\ Once(wire', u)
  <2>1. \A x : IsItems(m, x) <=> x = u
    BY DEF IsItems, Message
  <2>2. QED
    BY <1>1, <1>2, <1>3, <2>1, AppendContents DEF Silent, OneUnderWay
<1>8. OneUnderWay'
  <2>1. ~Pending(buffered', u) /\ ~Pending(back', u)
    BY DEF Silent
  <2>2. QED
    BY <1>1, <1>4, <1>7, <2>1 DEF OneUnderWay
<1>9. ASSUME NEW x \in Uploads \ {u} PROVE Moved(x)
  <2>1. KindOf[x] = "sync" /\ ~Ended(x) => up'[Then[x]].pc = up[Then[x]].pc
    BY <1>4, SecondUpload
  <2>2. QED
    BY <1>4, <2>1, Unmoved
<1>11. /\ \A x \in Contents(wire) \cup Contents(buffered) : x \in ToServer /\ x.upload \in Uploads
       /\ \A a \in Contents(back) : a \in ToAgent /\ a.upload \in Uploads
  <2>1. /\ \A i \in 1 .. Len(wire) : wire[i] \in ToServer
        /\ \A i \in 1 .. Len(buffered) : buffered[i] \in ToServer
        /\ \A i \in 1 .. Len(back) : back[i] \in ToAgent
    BY <1>1, ElementOfSeq DEF TypeOK
  <2>2. QED
    BY <2>1 DEF Contents, ToServer, ToAgent
<1>12. /\ newest' \in Nat /\ newest <= newest' /\ chunks \subseteq chunks'
       /\ \A x \in Uploads : StagingKept(x)
  BY <1>1 DEF StagingKept, server, staging, TypeOK, Versions
<1>13. MessagesTrue'
  <2>1. \A x \in Contents(wire) \cup Contents(buffered) \cup Contents(back) : ~IsItems(x, u)
    BY DEF Silent, Pending
  <2>2. ASSUME NEW x \in Contents(wire) \cup Contents(buffered) PROVE Sent(x)'
    <3>1. x.type = "items" => ReadKept(x.upload)
      BY <1>9, <1>11, <2>1 DEF Moved, IsItems
    <3>2. QED
      BY <1>1, <1>11, <1>12, <3>1, SentKept DEF MessagesTrue
  <2>3. ASSUME NEW a \in Contents(back) PROVE Answered(a)'
    <3>1. a.type = "items" => ReadKept(a.upload)
      BY <1>9, <1>11, <2>1 DEF Moved, IsItems
    <3>2. QED
      BY <1>1, <1>11, <1>12, <3>1, AnsweredKept DEF MessagesTrue
  <2>4. Sent(m)'
    BY <1>4, <1>6 DEF Sent, Message, OfItsUpload, Early
  <2>5. QED
    BY <1>7, <2>2, <2>3, <2>4 DEF MessagesTrue
<1>14. TablesTrue'
  BY <1>1 DEF TablesTrue, AckedChunkStored, server, local, Items
<1>15. ASSUME NEW x \in Uploads PROVE InTurn(x)' /\ AfterRun(x)'
  <2>1. CASE x # u
    BY <1>1, <1>9, <2>1, InTurnKept
  <2>2. CASE x = u
    <3>1. InTurn(u)'
      BY <1>4 DEF InTurn, Early
    <3>2. AfterRun(u)'
      <4>1. KindOf[u] = "sync" => up'[Then[u]].pc = "idle"
        BY <1>4, SecondUpload DEF Ended
      <4>2. QED
        BY <1>4, <4>1 DEF AfterRun
    <3>3. QED
      BY <2>2, <3>1, <3>2
  <2>3. QED
    BY <2>1, <2>2
<1>16. TypeOK'
  <2>1. \A x \in Uploads : up'[x].pc = "wait" => up'[x].batch < BatchCount[up'[x].read]
    BY <1>1, <1>4, <1>9, MovedWaits
  <2>2. QED
    BY <1>1, <1>5, <1>7, <2>1, TypesKept DEF TypeOK, local, counted
<1>17. QED
  BY <1>8, <1>13, <1>14, <1>15, <1>16 DEF IInv, Uploading

(* Without a connection the upload ends.                                   *)
LEMMA BatchNotSent ==
  ASSUME IInv, NEW u \in Uploads, NEW v \in Nat, NEW b \in Nat,
         UNCHANGED <<planned, file, local, conn, buffered, back, server, counted>>,
         SendItems(u, v, b), ~conn, up[u].pc \in {"check", "wait"}
  PROVE  IInv'
<1>1. /\ ack' = [ack EXCEPT ![u] = "none"] /\ up' = AfterItems(up, u, "failed")
      /\ UNCHANGED <<planned, file, local, link, server, counted>>
  BY DEF SendItems, link
<1>2. QED
  BY <1>1, AfterItemsMoves, QuietIInv

LEMMA CheckCursorKeeps ==
  ASSUME IInv, NEW u \in Uploads, CheckCursor(u)
  PROVE  IInv'
<1>1. /\ UNCHANGED <<planned, file, local, conn, buffered, back, server, counted>>
      /\ up[u].pc = "check"
      /\ IF Synced(u) THEN up' = AfterItems(up, u, "done") /\ UNCHANGED <<ack, wire>>
         ELSE SendItems(u, file, 0)
  BY DEF CheckCursor, At
<1>2. /\ file \in 1 .. MaxVersion /\ MaxVersion \in Nat /\ up[u].seen \in 0 .. file
      /\ up[u].seen > 0 /\ cursor <= newest /\ ack \in [Uploads -> Answers]
      /\ BatchCount[file] > 0
  BY <1>1, UploadAssumption DEF IInv, TypeOK, Uploading, InTurn, TablesTrue, Versions
<1>3. CASE Synced(u)
  <2>1. up[u].seen <= newest
    BY <1>2, <1>3 DEF Synced
  <2>2. UNCHANGED <<planned, file, local, link, server, counted>>
    BY <1>1, <1>3 DEF link
  <2>3. QED
    BY <1>1, <1>3, <2>1, <2>2, AfterItemsMoves, QuietIInv
<1>4. CASE ~Synced(u) /\ ~conn
  BY <1>1, <1>2, <1>4, BatchNotSent
<1>5. CASE ~Synced(u) /\ conn
  <2>1. Silent(u)
    BY <1>1, SilentUpload DEF Early
  <2>2. file \in 1 .. file /\ 0 \in Nat /\ 0 < up[u].seen /\ up[u].seen <= file /\ 0 < BatchCount[file]
    BY <1>2
  <2>3. SendItems(u, file, 0) /\ conn
    BY <1>1, <1>5
  <2>4. QED
    BY <1>1, <2>1, <2>2, <2>3, BatchSent
<1>6. QED
  BY <1>3, <1>4, <1>5

(* The version an upload waits for, and what its answer means.             *)
LEMMA Waiting ==
  ASSUME IInv, NEW u \in Uploads, up[u].pc = "wait"
  PROVE  /\ up[u].read \in 1 .. file /\ up[u].batch \in Nat /\ newest \in Nat
         /\ up[u].seen \in 1 .. file /\ up[u].seen <= up[u].read
         /\ BatchCount[up[u].read] \in Nat /\ up[u].batch < BatchCount[up[u].read]
         /\ ack[u] = "acked" => Saved(u)
<1>1. /\ file \in 1 .. MaxVersion /\ MaxVersion \in Nat /\ newest \in Nat
      /\ up[u].read \in 0 .. file /\ up[u].seen \in 0 .. file /\ up[u].batch \in Nat
      /\ up[u].batch < BatchCount[up[u].read]
  BY UploadAssumption DEF IInv, TypeOK, Versions
<1>2. up[u].seen > 0 /\ up[u].seen <= up[u].read /\ (ack[u] = "acked" => Saved(u))
  BY DEF IInv, Uploading, InTurn
<1>3. BatchCount[up[u].read] \in Nat
  BY <1>1, <1>2, UploadAssumption DEF Versions
<1>4. QED
  BY <1>1, <1>2, <1>3

LEMMA NextBatchKeeps ==
  ASSUME IInv, NEW u \in Uploads, NextBatch(u)
  PROVE  IInv'
<1> DEFINE v == up[u].read
           b == up[u].batch + 1
<1>1. /\ UNCHANGED <<planned, file, local, conn, buffered, back, server, counted>>
      /\ up[u].pc = "wait" /\ ack[u] = "acked" /\ ~LastBatch(u) /\ SendItems(u, v, b)
  BY DEF NextBatch, At
<1>2. /\ v \in 1 .. file /\ b \in Nat /\ 0 < up[u].seen /\ up[u].seen <= v
      /\ b < BatchCount[v] /\ Saved(u)
  BY <1>1, Waiting DEF LastBatch
<1>3. Got(u, b)
  BY <1>2 DEF Saved
<1>4. Silent(u)
  BY <1>1, SilentUpload
<1>5. v \in Nat
  BY <1>2
<1>6. QED
  BY <1>1, <1>2, <1>3, <1>4, <1>5, BatchSent, BatchNotSent

LEMMA SaveCursorKeeps ==
  ASSUME IInv, NEW u \in Uploads, SaveCursor(u)
  PROVE  IInv' /\ cursor' = up[u].seen /\ up[u].seen \in 1 .. newest
<1> DEFINE m == Message(u, "cursor", up[u].seen, 0)
<1>1. /\ UNCHANGED <<planned, file, ack, chunk, conn, buffered, back, server, counted>>
      /\ up[u].pc = "wait" /\ ack[u] = "acked" /\ LastBatch(u)
      /\ cursor' = up[u].seen
      /\ wire' = Append(wire, m) \/ wire' = wire
  BY DEF SaveCursor, At, SaveSyncCursor
<1>2. PICK pc \in {"done", "failed"} : up' = AfterItems(up, u, pc)
  BY DEF SaveCursor
<1>3. up[u].seen \in 1 .. file /\ up[u].seen \in 1 .. newest
  <2>1. Saved(u) /\ ~(up[u].batch + 1 < BatchCount[up[u].read])
    BY <1>1, Waiting DEF LastBatch
  <2>2. up[u].read <= newest
    BY <2>1 DEF Saved
  <2>3. QED
    BY <1>1, <2>2, Waiting
<1>4. /\ \A x \in Uploads : Moved(x)
      /\ up' \in [Uploads -> UpType] /\ ack' \in [Uploads -> Answers]
  BY <1>1, <1>2, <1>3, AfterItemsMoves
<1>5. m \in ToServer /\ m.type # "items" /\ m.version <= newest
  <2>1. up[u].seen \in Versions
    BY <1>3, UploadAssumption DEF IInv, TypeOK, Versions
  <2>2. QED
    BY <1>3, <2>1 DEF Message, ToServer
<1>6. /\ wire' \in Seq(ToServer)
      /\ MessagesTrue' /\ OneUnderWay' /\ \A x \in Uploads : InTurn(x)' /\ AfterRun(x)'
  BY <1>1, <1>4, <1>5, OtherSent
<1>7. TablesTrue'
  BY <1>1, <1>3 DEF IInv, Uploading, TablesTrue, AckedChunkStored, server, Items
<1>8. TypeOK'
  <2>1. TypeOK /\ \A x \in Uploads : up'[x].pc = "wait" => up'[x].batch < BatchCount[up'[x].read]
    BY <1>4, MovedWaits DEF IInv
  <2>2. cursor' \in 0 .. file
    BY <1>1, <1>3
  <2>3. QED
    BY <1>1, <1>4, <1>6, <2>1, <2>2, TypesKept DEF TypeOK, counted
<1>9. QED
  BY <1>1, <1>3, <1>6, <1>7, <1>8 DEF IInv, Uploading

LEMMA UploadChunkKeeps ==
  ASSUME IInv, NEW u \in Uploads, UploadChunk(u)
  PROVE  IInv'
<1> DEFINE m == Message(u, "chunk", file, 0)
<1>1. /\ UNCHANGED <<planned, file, ack, cursor, conn, buffered, back, server, counted>>
      /\ up[u].pc = "chunk" /\ up' = [up EXCEPT ![u].pc = "done"]
      /\ chunk' = IF chunk.sha = file THEN chunk ELSE [sha |-> file, acked |-> FALSE]
      /\ wire' = Append(wire, m) \/ wire' = wire
  BY DEF UploadChunk, At, Go, SaveHistoryChunk
<1>2. /\ TypeOK /\ TablesTrue /\ file \in Versions /\ file \in 0 .. file
      /\ \A x \in Uploads : AfterRun(x)
      /\ up \in [Uploads -> UpType]
  <2>1. TypeOK /\ TablesTrue /\ \A x \in Uploads : AfterRun(x)
    BY DEF IInv, Uploading
  <2>2. file \in Versions /\ file \in 0 .. file
    BY <2>1, UploadAssumption DEF TypeOK, Versions
  <2>3. QED
    BY <2>1, <2>2 DEF TypeOK, UpType
<1>3. up' \in [Uploads -> UpType]
  BY <1>1, <1>2 DEF UpType, PC
<1>4. up'[u] = [up[u] EXCEPT !.pc = "done"] /\ \A x \in Uploads \ {u} : up'[x] = up[x]
  BY <1>1, <1>2
<1>5. Moved(u)
  <2>1. KindOf[u] # "sync"
    BY <1>1, <1>2 DEF AfterRun
  <2>2. QED
    BY <1>1, <1>2, <1>4, <2>1 DEF Moved, ReadKept, Early, UpType
<1>6. ASSUME NEW x \in Uploads \ {u} PROVE Moved(x)
  <2>1. KindOf[x] = "sync" /\ ~Ended(x) => up'[Then[x]].pc = up[Then[x]].pc
    BY <1>1, <1>4, SecondUpload
  <2>2. QED
    BY <1>1, <1>4, <2>1, Unmoved
<1>7. m \in ToServer /\ m.type = "chunk"
  BY <1>2 DEF Message, ToServer
<1>8. /\ wire' \in Seq(ToServer)
      /\ MessagesTrue' /\ OneUnderWay' /\ \A x \in Uploads : InTurn(x)' /\ AfterRun(x)'
  BY <1>1, <1>5, <1>6, <1>7, OtherSent
<1>9. AckedChunkStored'
  <2>1. CASE chunk.sha = file
    BY <1>1, <1>2, <2>1 DEF TablesTrue, AckedChunkStored, server
  <2>2. CASE chunk.sha # file
    BY <1>1, <2>2 DEF AckedChunkStored
  <2>3. QED
    BY <2>1, <2>2
<1>10. TablesTrue'
  BY <1>1, <1>2, <1>9 DEF TablesTrue, server, Items
<1>11. TypeOK'
  <2>1. \A x \in Uploads : up'[x].pc = "wait" => up'[x].batch < BatchCount[up'[x].read]
    BY <1>2, <1>5, <1>6, MovedWaits
  <2>2. chunk \in [sha : 0 .. file, acked : BOOLEAN]
    BY <1>2 DEF TypeOK
  <2>3. chunk' \in [sha : 0 .. file, acked : BOOLEAN]
    BY <1>1, <1>2, <2>2
  <2>4. ack' \in [Uploads -> Answers]
    BY <1>1, <1>2 DEF TypeOK
  <2>5. QED
    BY <1>1, <1>2, <1>3, <1>8, <2>1, <2>3, <2>4, TypesKept DEF TypeOK, counted
<1>12. QED
  BY <1>8, <1>10, <1>11 DEF IInv, Uploading

(* An ack the agent reads: it is about the batch of its upload that was    *)
(* sent last, and no other one is under way.                               *)
LEMMA ReceiveAckKeeps ==
  ASSUME IInv, ReceiveAck
  PROVE  IInv'
<1> DEFINE a == Head(back)
           w == a.upload
<1>1. /\ UNCHANGED <<planned, file, up, cursor, conn, wire, buffered, server, counted>>
      /\ back # <<>> /\ back' = Tail(back)
      /\ ack' = IF a.type = "items" /\ up[w].pc = "wait" /\ up[w].batch = a.batch /\ ack[w] = "none"
                THEN [ack EXCEPT ![w] = a.result] ELSE ack
      /\ chunk' = IF a.type = "chunk" /\ a.result = "acked" /\ chunk.sha = a.version
                  THEN [chunk EXCEPT !.acked = TRUE] ELSE chunk
  BY DEF ReceiveAck, ResolveHistoryAck, MarkHistoryChunkAcked, At
<1>2. /\ TypeOK /\ MessagesTrue /\ OneUnderWay /\ TablesTrue /\ back \in Seq(ToAgent)
      /\ \A u \in Uploads : InTurn(u) /\ AfterRun(u)
      /\ ack \in [Uploads -> Answers]
  BY DEF IInv, Uploading, TypeOK
<1>3. /\ a \in ToAgent /\ back' \in Seq(ToAgent) /\ a \in Contents(back)
      /\ Contents(back') \subseteq Contents(back)
      /\ \A u : /\ Pending(back', u) => Pending(back, u)
                /\ Once(back, u) => Once(back', u)
                /\ Once(back, u) /\ IsItems(a, u) => ~Pending(back', u)
  BY <1>1, <1>2, TailContents
<1>4. Answered(a) /\ w \in Uploads /\ a.result \in Answers
  BY <1>2, <1>3 DEF MessagesTrue, ToAgent
<1>5. /\ ack' \in [Uploads -> Answers]
      /\ \A u \in Uploads : \/ ack'[u] = ack[u]
                            \/ IsItems(a, u) /\ u = w /\ ack'[u] = a.result /\ up[u].pc = "wait"
  BY <1>1, <1>2, <1>4 DEF IsItems
<1>6. \A u \in Uploads : ReadKept(u) /\ StagingKept(u)
  BY <1>1 DEF ReadKept, StagingKept, server, staging
<1>7. MessagesTrue'
  <2>1. \A m \in (Contents(wire) \cup Contents(buffered))' : m \in Contents(wire) \cup Contents(buffered)
    BY <1>1
  <2>2. QED
    BY <1>1, <1>2, <1>3, <1>6, <2>1, MessagesKept
<1>8. OneUnderWay'
  <2>1. ASSUME NEW u \in Uploads, IsItems(a, u)
        PROVE  ~Pending(wire, u) /\ ~Pending(buffered, u) /\ ~Pending(back', u)
    <3>1. Pending(back, u)
      BY <1>3, <2>1 DEF Pending
    <3>2. QED
      BY <1>2, <1>3, <2>1, <3>1 DEF OneUnderWay
  <2>2. \A u \in Uploads : ack'[u] = ack[u] \/ IsItems(a, u)
    BY <1>5
  <2>3. QED
    BY <1>1, <1>2, <1>3, <2>1, <2>2 DEF OneUnderWay
<1>9. ASSUME NEW u \in Uploads PROVE InTurn(u)' /\ AfterRun(u)'
  <2>1. InTurn(u) /\ AfterRun(u)
    BY <1>2
  <2>2. \A k : Got(u, k)' <=> Got(u, k)
    BY <1>1 DEF Got, server, staging
  <2>3. Saved(u)' <=> Saved(u)
    BY <1>1 DEF Saved, Got, server, staging
  <2>4. ack'[u] = "acked" => Saved(u)
    BY <1>4, <1>5, <2>1 DEF InTurn, Answered, IsItems
  <2>5. up[u].pc \in Early => ack'[u] = ack[u]
    BY <1>5 DEF Early
  <2>6. InTurn(u)'
    BY <1>1, <2>1, <2>2, <2>3, <2>4, <2>5 DEF InTurn
  <2>7. AfterRun(u)'
    BY <1>1, <2>1 DEF AfterRun, Ended, server
  <2>8. QED
    BY <2>6, <2>7
<1>10. chunk' \in [sha : 0 .. file, acked : BOOLEAN] /\ AckedChunkStored'
  <2>1. chunk \in [sha : 0 .. file, acked : BOOLEAN] /\ AckedChunkStored
    BY <1>2 DEF TypeOK, TablesTrue
  <2>2. CASE a.type = "chunk" /\ a.result = "acked" /\ chunk.sha = a.version
    <3>1. chunk' = [chunk EXCEPT !.acked = TRUE] /\ chunk.sha \in chunks
      BY <1>1, <1>4, <2>2 DEF Answered
    <3>2. chunk'.sha \in chunks'
      BY <1>1, <2>1, <3>1 DEF server
    <3>3. QED
      BY <2>1, <3>1, <3>2 DEF AckedChunkStored
  <2>3. CASE ~(a.type = "chunk" /\ a.result = "acked" /\ chunk.sha = a.version)
    <3>1. chunk' = chunk
      BY <1>1, <2>3
    <3>2. QED
      BY <1>1, <2>1, <3>1 DEF AckedChunkStored, server
  <2>4. QED
    BY <2>2, <2>3
<1>11. TablesTrue'
  BY <1>1, <1>2, <1>10 DEF TablesTrue, server, Items
<1>12. TypeOK'
  BY <1>1, <1>2, <1>3, <1>5, <1>10, TypesKept DEF TypeOK, UpType, counted
<1>13. QED
  BY <1>7, <1>8, <1>9, <1>11, <1>12 DEF IInv, Uploading

-----------------------------------------------------------------------------
(* The server: what it does with a message keeps its tables and its answer *)
(* true.                                                                   *)

(* What the server shows is as before, or the whole version it was sent.   *)
Shows(m) ==
  \/ UNCHANGED <<stored, newest>>
  \/ m.version \in 1 .. file /\ stored' = Items(m.version) /\ newest' = Latest(stored')

ServerType ==
  /\ stored \subseteq Versions \X Nat
  /\ staged \in [Uploads -> SUBSET (Versions \X Nat)]
  /\ received \in [Uploads -> SUBSET Nat]
  /\ uploaded \in [Uploads -> [count : Nat, final : BOOLEAN]]
  /\ confirmed \in 0 .. file /\ chunks \subseteq Versions /\ newest \in 0 .. file
  /\ failures \in Nat

(* What there is to know of a message that was handled.                    *)
HandledWell(m, answer) ==
  /\ ServerType' /\ TablesTrue'
  /\ newest <= newest' /\ chunks \subseteq chunks'
  /\ \A u \in Uploads : ~IsItems(m, u) => StagingKept(u)
  /\ \/ answer = <<>>
     \/ \E a \in ToAgent : /\ answer = <<a>> /\ a.type = m.type /\ a.upload = m.upload
                           /\ Answered(a)'
  /\ \/ Shows(m) /\ UNCHANGED confirmed
     \/ UNCHANGED <<stored, newest>> /\ confirmed' = m.version /\ m.version \in 1 .. newest

LEMMA ReplyType ==
  ASSUME NEW m \in ToServer, NEW r \in {"acked", "failed"}, m.type # "cursor"
  PROVE  /\ Reply(m, r) \in ToAgent /\ Reply(m, r).type = m.type
         /\ Reply(m, r).upload = m.upload /\ Reply(m, r).version = m.version
         /\ Reply(m, r).batch = m.batch /\ Reply(m, r).result = r
BY DEF Reply, ToServer, ToAgent, Answers

LEMMA ShownIsTrue ==
  ASSUME TypeOK, TablesTrue, NEW m \in ToServer, Shows(m),
         UNCHANGED <<file, local, confirmed>>, chunks \subseteq chunks'
  PROVE  /\ TablesTrue' /\ newest' \in 0 .. file /\ newest <= newest'
         /\ stored' \subseteq Versions \X Nat
<1>1. /\ newest \in 0 .. file /\ file \in 1 .. MaxVersion /\ MaxVersion \in Nat
      /\ cursor \in 0 .. file /\ confirmed \in 0 .. file /\ stored \subseteq Versions \X Nat
  BY UploadAssumption DEF TypeOK, Versions
<1>2. AckedChunkStored'
  BY DEF TablesTrue, AckedChunkStored, local
<1>3. CASE UNCHANGED <<stored, newest>>
  BY <1>1, <1>2, <1>3 DEF TablesTrue, local, Items
<1>4. CASE m.version \in 1 .. file /\ stored' = Items(m.version) /\ newest' = Latest(stored')
  <2>1. /\ newest' \in 0 .. file /\ newest <= newest' /\ m.version <= newest'
        /\ stored' \subseteq Versions \X Nat
    BY <1>4, NewestGrows
  <2>2. \E v \in 1 .. newest' : stored' = Items(v)'
    <3>1. m.version \in 1 .. newest' /\ stored' = Items(m.version)'
      BY <1>1, <1>4, <2>1 DEF Items
    <3>2. QED
      BY <3>1
  <2>3. cursor' <= newest' /\ confirmed' <= newest'
    <3>1. cursor <= newest /\ confirmed <= newest /\ cursor' = cursor /\ confirmed' = confirmed
      BY DEF TablesTrue, local
    <3>2. QED
      BY <1>1, <2>1, <3>1
  <2>4. QED
    BY <1>2, <2>1, <2>2, <2>3 DEF TablesTrue
<1>5. QED
  BY <1>3, <1>4 DEF Shows

LEMMA HandledItems ==
  ASSUME IInv, NEW m \in ToServer, Sent(m), NEW answer, HandleItems(m, answer),
         UNCHANGED <<file, up, ack, local>>
  PROVE  HandledWell(m, answer)
<1>1. /\ TypeOK /\ Uploading /\ TablesTrue /\ ServerType
      /\ m.type = "items" /\ m.upload \in Uploads /\ UNCHANGED <<confirmed, chunks>>
      /\ OfItsUpload(m)
  BY DEF HandleItems, IInv, Uploading, TypeOK, ServerType, ToServer, Sent
<1>2. failures' \in Nat
  BY <1>1 DEF HandleItems, ServerType
<1>3. \A u : ~IsItems(m, u) => u # m.upload
  BY <1>1 DEF IsItems
<1>4. CASE SaveHistoryItems(m) /\ (answer = <<>> \/ answer = <<Reply(m, "acked")>>)
  <2>1. /\ Shows(m) /\ Saved(m.upload)'
        /\ staged' \in [Uploads -> SUBSET (Versions \X Nat)]
        /\ received' \in [Uploads -> SUBSET Nat]
        /\ uploaded' \in [Uploads -> [count : Nat, final : BOOLEAN]]
        /\ \A u \in Uploads \ {m.upload} : StagingKept(u)
    BY <1>1, <1>4, SavingItems DEF Shows, StagingKept
  <2>2. /\ TablesTrue' /\ newest' \in 0 .. file /\ newest <= newest'
        /\ stored' \subseteq Versions \X Nat
    BY <1>1, <2>1, ShownIsTrue
  <2>3. ServerType'
    BY <1>1, <1>2, <2>1, <2>2 DEF ServerType, Versions
  <2>4. Answered(Reply(m, "acked"))'
    <3>1. OfItsUpload(m)'
      BY <1>1 DEF OfItsUpload
    <3>2. QED
      BY <1>1, <2>1, <3>1, ReplyType DEF Answered, OfItsUpload
  <2>5. Reply(m, "acked") \in ToAgent /\ Reply(m, "acked").type = m.type
        /\ Reply(m, "acked").upload = m.upload
    BY <1>1, ReplyType
  <2>6. QED
    BY <1>1, <1>3, <1>4, <2>1, <2>2, <2>3, <2>4, <2>5 DEF HandledWell
<1>5. CASE answer = <<Reply(m, "failed")>> /\ UNCHANGED <<stored, staging, newest>>
  <2>1. \A u \in Uploads : StagingKept(u)
    BY <1>5 DEF StagingKept, staging
  <2>2. Shows(m)
    BY <1>5 DEF Shows
  <2>3. TablesTrue' /\ newest <= newest'
    BY <1>1, <2>2, ShownIsTrue
  <2>4. ServerType'
    BY <1>1, <1>2, <1>5 DEF ServerType, staging, Versions
  <2>5. Answered(Reply(m, "failed"))'
    <3>1. OfItsUpload(m)'
      BY <1>1 DEF OfItsUpload
    <3>2. QED
      BY <1>1, <3>1, ReplyType DEF Answered, OfItsUpload
  <2>6. Reply(m, "failed") \in ToAgent /\ Reply(m, "failed").type = m.type
        /\ Reply(m, "failed").upload = m.upload
    BY <1>1, ReplyType
  <2>7. QED
    BY <1>1, <1>5, <2>1, <2>2, <2>3, <2>4, <2>5, <2>6 DEF HandledWell
<1>6. QED
  BY <1>4, <1>5 DEF HandleItems

LEMMA Handled ==
  ASSUME IInv, NEW m \in ToServer, Sent(m), NEW answer, Handle(m, answer),
         UNCHANGED <<file, up, ack, local>>
  PROVE  HandledWell(m, answer)
<1>1. /\ TypeOK /\ TablesTrue /\ ServerType /\ m.version \in Versions
      /\ file \in 1 .. MaxVersion /\ MaxVersion \in Nat
  BY UploadAssumption DEF IInv, Uploading, TypeOK, ServerType, ToServer, Versions
<1>2. CASE HandleItems(m, answer)
  BY <1>2, HandledItems
<1>3. CASE HandleChunk(m, answer)
  <2>1. /\ chunks' = chunks \cup {m.version} /\ answer = <<Reply(m, "acked")>> /\ m.type = "chunk"
        /\ UNCHANGED <<stored, staging, newest, confirmed, failures>>
    BY <1>3 DEF HandleChunk
  <2>2. \A u \in Uploads : StagingKept(u)
    BY <2>1 DEF StagingKept, staging
  <2>3. Shows(m) /\ chunks \subseteq chunks'
    BY <2>1 DEF Shows
  <2>4. TablesTrue' /\ newest <= newest'
    BY <1>1, <2>1, <2>3, ShownIsTrue
  <2>5. ServerType'
    BY <1>1, <2>1 DEF ServerType, staging, Versions
  <2>6. /\ Reply(m, "acked") \in ToAgent /\ Reply(m, "acked").type = m.type
        /\ Reply(m, "acked").upload = m.upload /\ Answered(Reply(m, "acked"))'
    BY <2>1, ReplyType DEF Answered
  <2>7. QED
    BY <2>1, <2>2, <2>3, <2>4, <2>5, <2>6 DEF HandledWell
<1>4. CASE HandleCursor(m, answer)
  <2>1. /\ confirmed' = m.version /\ answer = <<>> /\ m.type = "cursor" /\ m.version <= newest
        /\ UNCHANGED <<stored, staging, newest, chunks, failures>>
    BY <1>4 DEF HandleCursor, Sent
  <2>2. \A u \in Uploads : StagingKept(u)
    BY <2>1 DEF StagingKept, staging
  <2>3. m.version \in 1 .. newest /\ newest \in 0 .. file /\ newest <= newest'
    BY <1>1, <2>1 DEF ServerType, Versions
  <2>4. TablesTrue'
    BY <1>1, <2>1 DEF TablesTrue, AckedChunkStored, local, Items
  <2>5. ServerType'
    BY <1>1, <2>1, <2>3 DEF ServerType, staging, Versions
  <2>6. QED
    BY <2>1, <2>2, <2>3, <2>4, <2>5 DEF HandledWell
<1>5. QED
  BY <1>2, <1>3, <1>4 DEF Handle

(* The message leaves its queue, the answer is put into the other one or   *)
(* is lost.                                                                *)
LEMMA ServerStep ==
  ASSUME IInv, NEW m \in Contents(wire) \cup Contents(buffered), m \in ToServer,
         NEW answer, HandledWell(m, answer), back' = back \/ back' = back \o answer,
         UNCHANGED <<planned, file, process, local, conn, drops>>,
         wire' \in Seq(ToServer), buffered' \in Seq(ToServer),
         Contents(wire') \subseteq Contents(wire),
         Contents(buffered') \subseteq Contents(buffered),
         \A u \in Uploads : /\ Once(wire, u) => Once(wire', u)
                            /\ Once(buffered, u) => Once(buffered', u)
                            /\ IsItems(m, u) => ~Pending(wire', u) /\ ~Pending(buffered', u)
  PROVE  IInv'
<1>1. /\ TypeOK /\ MessagesTrue /\ OneUnderWay /\ TablesTrue
      /\ wire \in Seq(ToServer) /\ buffered \in Seq(ToServer) /\ back \in Seq(ToAgent)
      /\ \A u \in Uploads : InTurn(u) /\ AfterRun(u)
  BY DEF IInv, Uploading, TypeOK
<1>2. /\ ServerType' /\ TablesTrue'
      /\ newest <= newest' /\ chunks \subseteq chunks' /\ newest \in Nat /\ newest' \in Nat
      /\ \A u \in Uploads : ~IsItems(m, u) => StagingKept(u)
  <2>1. newest \in Nat
    BY <1>1 DEF TypeOK, Versions
  <2>2. file' = file /\ file \in Nat
    BY <1>1, UploadAssumption DEF TypeOK, Versions
  <2>3. newest' \in Nat
    BY <2>2 DEF HandledWell, ServerType
  <2>4. QED
    BY <2>1, <2>3 DEF HandledWell
<1>3. \A u \in Uploads : ReadKept(u) /\ up'[u] = up[u] /\ ack'[u] = ack[u]
  BY DEF process, ReadKept
<1>4. /\ \A u \in Uploads : /\ Pending(wire', u) => Pending(wire, u)
                            /\ Pending(buffered', u) => Pending(buffered, u)
                            /\ IsItems(m, u) => ~Pending(back, u) /\ ack[u] = "none"
  <2>1. \A u : /\ Pending(wire', u) => Pending(wire, u)
               /\ Pending(buffered', u) => Pending(buffered, u)
               /\ IsItems(m, u) => Pending(wire, u) \/ Pending(buffered, u)
    BY DEF Pending
  <2>2. QED
    BY <1>1, <2>1 DEF OneUnderWay
<1>5. /\ back' \in Seq(ToAgent)
      /\ \/ Contents(back') \subseteq Contents(back)
         \/ \E a \in ToAgent : Contents(back') = Contents(back) \cup {a} /\ Answered(a)'
      /\ \A u \in Uploads : /\ Pending(back', u) => Pending(back, u) \/ IsItems(m, u)
                            /\ Once(back, u) => Once(back', u)
  <2>1. CASE back' = back
    <3>1. Contents(back') = Contents(back)
      BY <2>1
    <3>2. QED
      BY <1>1, <2>1, <3>1
  <2>2. CASE back' = back \o answer /\ answer = <<>>
    <3>1. back' = back
      BY <1>1, <2>2, ConcatEmptySeq
    <3>2. QED
      BY <2>1, <3>1
  <2>3. CASE back' = back \o answer /\ answer # <<>>
    <3>1. PICK a \in ToAgent : /\ answer = <<a>> /\ a.type = m.type /\ a.upload = m.upload
                               /\ Answered(a)'
      BY <2>3 DEF HandledWell
    <3>2. back' = Append(back, a)
      BY <1>1, <2>3, <3>1, AppendIsConcat
    <3>3. \A u : IsItems(a, u) <=> IsItems(m, u)
      BY <3>1 DEF IsItems
    <3>4. /\ back' \in Seq(ToAgent) /\ Contents(back') = Contents(back) \cup {a}
          /\ \A u \in Uploads : /\ Pending(back', u) => Pending(back, u) \/ IsItems(a, u)
                                /\ Once(back, u) /\ (IsItems(a, u) => ~Pending(back, u))
                                     => Once(back', u)
      BY <1>1, <3>1, <3>2, AppendContents
    <3>5. \A u \in Uploads : /\ Pending(back', u) => Pending(back, u) \/ IsItems(m, u)
                             /\ Once(back, u) => Once(back', u)
      BY <1>4, <3>3, <3>4
    <3>6. QED
      BY <3>1, <3>4, <3>5
  <2>4. QED
    BY <2>1, <2>2, <2>3
<1>6. OneUnderWay'
  <2>1. ASSUME NEW u \in Uploads
        PROVE  /\ Once(wire', u) /\ Once(buffered', u) /\ Once(back', u)
               /\ Pending(wire', u) => ~Pending(buffered', u) /\ ~Pending(back', u) /\ ack'[u] = "none"
               /\ Pending(buffered', u) => ~Pending(back', u) /\ ack'[u] = "none"
               /\ Pending(back', u) => ack'[u] = "none"
    <3>1. Once(wire', u) /\ Once(buffered', u) /\ Once(back', u)
      BY <1>1, <1>5 DEF OneUnderWay
    <3>2. CASE IsItems(m, u)
      BY <1>3, <1>4, <3>1, <3>2
    <3>3. CASE ~IsItems(m, u)
      <4>1. /\ Pending(wire', u) => Pending(wire, u)
            /\ Pending(buffered', u) => Pending(buffered, u)
            /\ Pending(back', u) => Pending(back, u)
        BY <1>4, <1>5, <3>3
      <4>2. QED
        BY <1>1, <1>3, <3>1, <4>1 DEF OneUnderWay
    <3>4. QED
      BY <3>2, <3>3
  <2>2. QED
    BY <2>1 DEF OneUnderWay
<1>7. MessagesTrue'
  <2>1. ASSUME NEW x \in (Contents(wire) \cup Contents(buffered))' PROVE Sent(x)'
    <3>1. x \in ToServer /\ x.upload \in Uploads /\ Sent(x)
      <4>1. /\ \A i \in 1 .. Len(wire) : wire[i] \in ToServer
            /\ \A i \in 1 .. Len(buffered) : buffered[i] \in ToServer
        BY <1>1, ElementOfSeq
      <4>2. x \in ToServer
        BY <4>1 DEF Contents
      <4>3. QED
        BY <1>1, <4>2 DEF MessagesTrue, ToServer
    <3>2. x.type = "items" => ~IsItems(m, x.upload)
      <4>1. x \in Contents(wire') \/ x \in Contents(buffered')
        BY <2>1
      <4>2. QED
        BY <3>1, <4>1 DEF Pending, IsItems
    <3>3. x.type = "items" => ReadKept(x.upload) /\ StagingKept(x.upload)
      BY <1>2, <1>3, <3>1, <3>2
    <3>4. QED
      BY <1>1, <1>2, <3>1, <3>3, SentKept
  <2>2. ASSUME NEW a \in Contents(back') PROVE Answered(a)'
    <3>1. CASE a \in Contents(back)
      <4>1. a \in ToAgent /\ a.upload \in Uploads /\ Answered(a)
        <5>1. \A i \in 1 .. Len(back) : back[i] \in ToAgent
          BY <1>1, ElementOfSeq
        <5>2. QED
          BY <1>1, <3>1, <5>1 DEF MessagesTrue, ToAgent, Contents
      <4>2. a.type = "items" => ~IsItems(m, a.upload)
        BY <1>4, <3>1, <4>1 DEF Pending, IsItems
      <4>3. a.type = "items" => ReadKept(a.upload) /\ StagingKept(a.upload)
        BY <1>2, <1>3, <4>1, <4>2
      <4>4. QED
        BY <1>1, <1>2, <4>1, <4>3, AnsweredKept
    <3>2. CASE a \notin Contents(back)
      BY <1>5, <2>2, <3>2
    <3>3. QED
      BY <3>1, <3>2
  <2>3. QED
    BY <2>1, <2>2 DEF MessagesTrue
<1>8. ASSUME NEW u \in Uploads PROVE InTurn(u)' /\ AfterRun(u)'
  <2>1. AfterRun(u)'
    <3>1. up[u].pc = "done" /\ KindOf[u] = "sync" => up[u].seen <= newest'
      <4>1. up[u].seen \in Nat
        BY <1>1 DEF TypeOK, Versions
      <4>2. QED
        BY <1>1, <1>2, <4>1 DEF AfterRun
    <3>2. QED
      BY <1>1, <3>1 DEF AfterRun, Ended, process
  <2>2. CASE IsItems(m, u)
    <3>1. up[u].pc \notin Early /\ ack'[u] = "none"
      <4>1. Sent(m)
        BY <1>1 DEF MessagesTrue
      <4>2. QED
        BY <1>3, <1>4, <2>2, <4>1 DEF Sent, OfItsUpload, IsItems
    <3>2. InTurn(u)'
      BY <1>1, <1>3, <3>1 DEF InTurn
    <3>3. QED
      BY <2>1, <3>2
  <2>3. CASE ~IsItems(m, u)
    <3>1. (\A k : Got(u, k) => Got(u, k)') /\ (Saved(u) => Saved(u)')
      BY <1>1, <1>2, <1>3, <2>3, SavedKept
    <3>2. InTurn(u)'
      BY <1>1, <1>3, <3>1 DEF InTurn
    <3>3. QED
      BY <2>1, <3>2
  <2>4. QED
    BY <2>2, <2>3
<1>9. TypeOK'
  BY <1>1, <1>2, <1>5 DEF TypeOK, ServerType, process, local
<1>10. QED
  BY <1>2, <1>6, <1>7, <1>8, <1>9 DEF IInv, Uploading

LEMMA ReceiveKeeps ==
  ASSUME IInv, Receive
  PROVE  IInv' /\ \E m \in ToServer : \E answer : HandledWell(m, answer)
<1> DEFINE m == Head(wire)
<1>1. PICK answer \in Answer(m) : Handle(m, answer) /\ back' = back \o answer
  BY DEF Receive
<1>2. /\ wire # <<>> /\ wire' = Tail(wire)
      /\ UNCHANGED <<planned, file, process, local, conn, buffered, drops>>
  BY DEF Receive
<1>3. wire \in Seq(ToServer) /\ buffered \in Seq(ToServer) /\ OneUnderWay /\ MessagesTrue
  BY DEF IInv, Uploading, TypeOK
<1>4. /\ m \in ToServer /\ wire' \in Seq(ToServer) /\ m \in Contents(wire)
      /\ Contents(wire') \subseteq Contents(wire)
      /\ \A u : /\ Once(wire, u) => Once(wire', u)
                /\ Once(wire, u) /\ IsItems(m, u) => ~Pending(wire', u)
  BY <1>2, <1>3, TailContents
<1>5. Sent(m)
  BY <1>3, <1>4 DEF MessagesTrue
<1>6. HandledWell(m, answer)
  BY <1>1, <1>2, <1>4, <1>5, Handled DEF process
<1>7. ASSUME NEW u \in Uploads
      PROVE  /\ Once(wire, u) => Once(wire', u)
             /\ Once(buffered, u) => Once(buffered', u)
             /\ IsItems(m, u) => ~Pending(wire', u) /\ ~Pending(buffered', u)
  <2>1. IsItems(m, u) => Pending(wire, u)
    BY <1>4 DEF Pending
  <2>2. QED
    BY <1>2, <1>3, <1>4, <2>1 DEF OneUnderWay
<1>8. IInv'
  BY <1>1, <1>2, <1>3, <1>4, <1>6, <1>7, ServerStep
<1>9. QED
  BY <1>4, <1>6, <1>8

LEMMA ReceiveBufferedKeeps ==
  ASSUME IInv, ReceiveBuffered
  PROVE  IInv' /\ \E m \in ToServer : \E answer : HandledWell(m, answer)
<1> DEFINE m == Head(buffered)
<1>1. PICK answer \in Answer(m) : Handle(m, answer)
  BY DEF ReceiveBuffered
<1>2. /\ buffered # <<>> /\ buffered' = Tail(buffered)
      /\ UNCHANGED <<planned, file, process, local, conn, wire, back, drops>>
  BY DEF ReceiveBuffered
<1>3. wire \in Seq(ToServer) /\ buffered \in Seq(ToServer) /\ OneUnderWay /\ MessagesTrue
  BY DEF IInv, Uploading, TypeOK
<1>4. /\ m \in ToServer /\ buffered' \in Seq(ToServer) /\ m \in Contents(buffered)
      /\ Contents(buffered') \subseteq Contents(buffered)
      /\ \A u : /\ Once(buffered, u) => Once(buffered', u)
                /\ Once(buffered, u) /\ IsItems(m, u) => ~Pending(buffered', u)
  BY <1>2, <1>3, TailContents
<1>5. Sent(m)
  BY <1>3, <1>4 DEF MessagesTrue
<1>6. HandledWell(m, answer)
  BY <1>1, <1>2, <1>4, <1>5, Handled DEF process
<1>7. ASSUME NEW u \in Uploads
      PROVE  /\ Once(wire, u) => Once(wire', u)
             /\ Once(buffered, u) => Once(buffered', u)
             /\ IsItems(m, u) => ~Pending(wire', u) /\ ~Pending(buffered', u)
  <2>1. IsItems(m, u) => Pending(buffered, u)
    BY <1>4 DEF Pending
  <2>2. QED
    BY <1>2, <1>3, <1>4, <2>1 DEF OneUnderWay
<1>8. IInv'
  BY <1>2, <1>3, <1>4, <1>6, <1>7, ServerStep
<1>9. QED
  BY <1>4, <1>6, <1>8

-----------------------------------------------------------------------------
(* The invariant holds in every reachable state.                           *)

LEMMA InitIInv ==
  Init => IInv
<1> SUFFICES ASSUME Init PROVE IInv
  OBVIOUS
<1>1. /\ planned \in Scenarios /\ file = 1 /\ up = [u \in Uploads |-> Idle]
      /\ ack = [u \in Uploads |-> "none"] /\ cursor = 0 /\ chunk = NoChunk
      /\ conn = FALSE /\ wire = <<>> /\ buffered = <<>> /\ back = <<>>
      /\ stored = {} /\ confirmed = 0 /\ chunks = {} /\ newest = 0
      /\ staged = [u \in Uploads |-> {}] /\ received = [u \in Uploads |-> {}]
      /\ uploaded = [u \in Uploads |-> NoUpload] /\ drops = 0 /\ failures = 0
  BY DEF Init
<1>2. /\ \A u \in Uploads : up[u] = Idle /\ ack[u] = "none" /\ Got(u, 0)
      /\ "idle" \in PC /\ "none" \in Answers /\ 0 \in 0 .. file /\ file \in Versions
  <2>1. \A b : b \notin 0 .. 0 - 1
    OBVIOUS
  <2>2. file \in Versions /\ 0 \in 0 .. file
    BY <1>1, UploadAssumption DEF Versions
  <2>3. QED
    BY <1>1, <2>1, <2>2 DEF PC, Answers, Got
<1>3. TypeOK
  <2>1. up \in [Uploads -> [pc : PC, seen : 0 .. file, read : 0 .. file, batch : Nat]]
    BY <1>1, <1>2 DEF Idle
  <2>2. /\ \A u \in Uploads : up[u].pc # "wait"
        /\ ack \in [Uploads -> Answers]
    BY <1>1, <1>2 DEF Idle
  <2>3. chunk \in [sha : 0 .. file, acked : BOOLEAN] /\ uploaded \in [Uploads -> [count : Nat, final : BOOLEAN]]
    BY <1>1, <1>2 DEF NoChunk, NoUpload
  <2>4. wire \in Seq(ToServer) /\ buffered \in Seq(ToServer) /\ back \in Seq(ToAgent)
    BY <1>1, EmptySeq
  <2>5. conn \in BOOLEAN
    BY <1>1
  <2>6. QED
    BY <1>1, <1>2, <2>1, <2>2, <2>3, <2>4, <2>5 DEF TypeOK
<1>4. OneUnderWay /\ MessagesTrue
  BY <1>1, EmptyContents DEF OneUnderWay, MessagesTrue
<1>5. TablesTrue
  BY <1>1 DEF TablesTrue, AckedChunkStored, NoChunk
<1>6. \A u \in Uploads : InTurn(u)
  BY <1>2 DEF InTurn, Idle
<1>7. \A u \in Uploads : AfterRun(u)
  <2>1. \A u \in Uploads : KindOf[u] = "sync" => Then[u] \in Uploads
    BY UploadAssumption
  <2>2. QED
    BY <1>2, <2>1 DEF AfterRun, Idle
<1>8. QED
  BY <1>3, <1>4, <1>5, <1>6, <1>7 DEF IInv, Uploading

LEMMA NextIInv ==
  IInv /\ [Next]_vars => IInv'
<1> SUFFICES ASSUME IInv, [Next]_vars PROVE IInv'
  OBVIOUS
<1>1. CASE Grow
  BY <1>1, GrowKeeps
<1>2. CASE ReceiveAck
  BY <1>2, ReceiveAckKeeps
<1>3. CASE Receive
  BY <1>3, ReceiveKeeps
<1>4. CASE ReceiveBuffered
  BY <1>4, ReceiveBufferedKeeps
<1>5. ASSUME NEW n \in 0 .. Len(wire), Drop(n) PROVE IInv'
  BY <1>5, DropKeeps
<1>6. ASSUME NEW u \in Uploads, Connect(u) PROVE IInv'
  BY <1>6, ConnectKeeps
<1>7. ASSUME NEW u \in Uploads,
             RunEnds(u) \/ Refresh(u) \/ Scan(u) \/ ScanFails(u) \/ Rejected(u) \/ TimedOut(u)
      PROVE  IInv'
  BY <1>7, QuietActions
<1>8. ASSUME NEW u \in Uploads, CheckCursor(u) PROVE IInv'
  BY <1>8, CheckCursorKeeps
<1>9. ASSUME NEW u \in Uploads, NextBatch(u) PROVE IInv'
  BY <1>9, NextBatchKeeps
<1>10. ASSUME NEW u \in Uploads, SaveCursor(u) PROVE IInv'
  BY <1>10, SaveCursorKeeps
<1>11. ASSUME NEW u \in Uploads, UploadChunk(u) PROVE IInv'
  BY <1>11, UploadChunkKeeps
<1>12. CASE UNCHANGED vars
  <2>1. TypeOK'
    BY <1>12 DEF vars, process, local, link, server, staging, counted, IInv, TypeOK
  <2>2. OneUnderWay' /\ MessagesTrue'
    <3>1. /\ TypeOK /\ MessagesTrue /\ OneUnderWay
          /\ UNCHANGED <<server, up, ack, wire, buffered, back>>
      BY <1>12 DEF vars, process, link, IInv, Uploading
    <3>2. \A u \in Uploads : ReadKept(u)
      BY <3>1 DEF ReadKept
    <3>3. Contents(back') \subseteq Contents(back)
      BY <3>1
    <3>4. (Contents(wire) \cup Contents(buffered))' \subseteq Contents(wire) \cup Contents(buffered)
      BY <3>1
    <3>5. MessagesTrue'
      BY <3>1, <3>2, <3>3, <3>4, MessagesKept
    <3>6. OneUnderWay'
      BY <3>1 DEF OneUnderWay
    <3>7. QED
      BY <3>5, <3>6
  <2>3. TablesTrue'
    BY <1>12 DEF vars, local, server, IInv, Uploading, TablesTrue, AckedChunkStored, Items
  <2>4. \A u \in Uploads : InTurn(u)' /\ AfterRun(u)'
    BY <1>12 DEF vars, process, server, staging, IInv, Uploading, InTurn, AfterRun, Saved, Got, Ended
  <2>5. QED
    BY <2>1, <2>2, <2>3, <2>4 DEF IInv, Uploading
<1>13. QED
  BY <1>1, <1>2, <1>3, <1>4, <1>5, <1>6, <1>7, <1>8, <1>9, <1>10, <1>11, <1>12 DEF Next, Step

(* What is on its way, what waits for an ack and what the tables hold stay *)
(* in agreement, whichever uploads overlap and whatever is lost.           *)
THEOREM UploadInvariant ==
  Spec => []IInv
<1>1. Init => IInv
  BY InitIInv
<1>2. IInv /\ [Next]_vars => IInv'
  BY NextIInv
<1>3. QED
  BY <1>1, <1>2, PTL DEF Spec

-----------------------------------------------------------------------------
(* Every variable keeps its type; the counters of an upload stay within    *)
(* the file and its batches.                                               *)
THEOREM TypeCorrect ==
  Spec => []TypeOK
<1>1. IInv => TypeOK
  BY DEF IInv
<1>2. QED
  BY <1>1, UploadInvariant, PTL

(* A chunk marked acknowledged is stored at the server with this content   *)
(* (SaveHistoryChunk, MarkHistoryChunkAcked), whatever acks are delayed.   *)
THEOREM AckedIsStored ==
  Spec => []AckedChunkStored
<1>1. IInv => AckedChunkStored
  BY DEF IInv, Uploading, TablesTrue
<1>2. QED
  BY <1>1, UploadInvariant, PTL

(* An upload after a run that ended well has stored a version at least as  *)
(* new as the one it scanned (syncRunHistory, uploadHistoryItems).         *)
THEOREM DoneMeansStored ==
  Spec => []DoneIsStored
<1>1. IInv => DoneIsStored
  BY DEF IInv, Uploading, AfterRun, DoneIsStored, At
<1>2. QED
  BY <1>1, UploadInvariant, PTL

-----------------------------------------------------------------------------
(* The refinement of SessionHistory.                                       *)

LEMMA ShownVersion ==
  /\ stored = {} => Shown = 0
  /\ \A v \in Versions : stored = Items(v) => Shown = v
<1>1. ASSUME stored = {} PROVE Shown = 0
  <2>1. Whole(stored) = {}
    BY <1>1, ItemsOfOne DEF Whole
  <2>2. QED
    BY <1>1, <2>1 DEF Shown
<1>2. ASSUME NEW v \in Versions, stored = Items(v) PROVE Shown = v
  <2>1. stored # {} /\ Whole(stored) = {v}
    BY <1>2, ItemsOfOne
  <2>2. (CHOOSE w \in Whole(stored) : TRUE) = v
    BY <2>1
  <2>3. QED
    BY <2>1, <2>2 DEF Shown
<1>3. QED
  BY <1>1, <1>2

LEMMA InitShown ==
  Init => Abstract!Init
BY ShownVersion DEF Init, Abstract!Init

LEMMA StepShown ==
  IInv /\ [Next]_vars => [Abstract!Next]_(Abstract!vars)
<1> SUFFICES ASSUME IInv, [Next]_vars PROVE Abstract!Next \/ UNCHANGED Abstract!vars
  OBVIOUS
<1>1. /\ file \in 1 .. MaxVersion /\ MaxVersion \in Nat /\ newest \in 0 .. file
      /\ \A v \in 1 .. newest : v \in 1 .. file
  BY UploadAssumption DEF IInv, TypeOK, Versions
<1>2. UNCHANGED stored => UNCHANGED Shown
  BY DEF Shown, Whole, Items
<1>3. ASSUME UNCHANGED <<file, cursor, server>> PROVE UNCHANGED Abstract!vars
  BY <1>2, <1>3 DEF server, Abstract!vars
<1>4. CASE Grow
  <2>1. file' = file + 1 /\ UNCHANGED <<cursor, server>>
    BY <1>4 DEF Grow, local
  <2>2. Abstract!Grow
    BY <1>2, <2>1 DEF Abstract!Grow, server
  <2>3. QED
    BY <2>2 DEF Abstract!Next
<1>5. ASSUME NEW m \in ToServer, NEW answer, HandledWell(m, answer), UNCHANGED <<file, cursor>>
      PROVE  Abstract!Next \/ UNCHANGED Abstract!vars
  <2>1. CASE UNCHANGED <<stored, newest, confirmed>>
    BY <1>2, <1>5, <2>1 DEF Abstract!vars
  <2>2. CASE /\ UNCHANGED confirmed
             /\ m.version \in 1 .. file /\ stored' = Items(m.version) /\ newest' = Latest(stored')
    <3>1. m.version \in Versions /\ newest' = (IF m.version > newest THEN m.version ELSE newest)
      BY <1>1, <2>2, LatestOfOne DEF Versions
    <3>2. Shown' = m.version
      <4>1. stored' = Items(m.version)'
        BY <2>2 DEF Items
      <4>2. (\A v \in Versions : stored = Items(v) => Shown = v)'
        BY ShownVersion, PTL
      <4>3. QED
        BY <3>1, <4>1, <4>2 DEF Versions
    <3>3. Abstract!Publish(m.version)
      BY <1>5, <2>2, <3>1, <3>2 DEF Abstract!Publish
    <3>4. QED
      BY <2>2, <3>3 DEF Abstract!Next
  <2>3. CASE UNCHANGED <<stored, newest>> /\ confirmed' = m.version /\ m.version \in 1 .. newest
    <3>1. Abstract!Confirm(m.version)
      BY <1>2, <1>5, <2>3 DEF Abstract!Confirm
    <3>2. QED
      BY <1>1, <2>3, <3>1 DEF Abstract!Next
  <2>4. QED
    BY <1>5, <2>1, <2>2, <2>3 DEF HandledWell, Shows
<1>6. CASE Receive
  <2>1. UNCHANGED <<file, cursor>>
    BY <1>6 DEF Receive, local
  <2>2. QED
    BY <1>5, <1>6, <2>1, ReceiveKeeps
<1>7. CASE ReceiveBuffered
  <2>1. UNCHANGED <<file, cursor>>
    BY <1>7 DEF ReceiveBuffered, local
  <2>2. QED
    BY <1>5, <1>7, <2>1, ReceiveBufferedKeeps
<1>8. ASSUME NEW u \in Uploads, SaveCursor(u) PROVE Abstract!Next
  <2>1. /\ UNCHANGED <<file, server>> /\ cursor' = up[u].seen /\ up[u].seen \in 1 .. newest
    BY <1>8, SaveCursorKeeps DEF SaveCursor
  <2>2. Abstract!Sync(up[u].seen)
    BY <1>2, <2>1 DEF Abstract!Sync, server
  <2>3. QED
    BY <1>1, <2>1, <2>2 DEF Abstract!Next
<1>9. CASE ReceiveAck
  BY <1>3, <1>9 DEF ReceiveAck
<1>10. ASSUME NEW n \in 0 .. Len(wire), Drop(n) PROVE UNCHANGED Abstract!vars
  BY <1>3, <1>10 DEF Drop, local
<1>11. ASSUME NEW u \in Uploads,
              Connect(u) \/ RunEnds(u) \/ Refresh(u) \/ ScanFails(u) \/ TimedOut(u)
       PROVE  UNCHANGED Abstract!vars
  BY <1>3, <1>11 DEF Connect, RunEnds, Refresh, ScanFails, TimedOut, local
<1>12. ASSUME NEW u \in Uploads,
              Scan(u) \/ CheckCursor(u) \/ Rejected(u) \/ NextBatch(u) \/ UploadChunk(u)
       PROVE  UNCHANGED Abstract!vars
  BY <1>3, <1>12 DEF Scan, CheckCursor, Rejected, NextBatch, UploadChunk, local
<1>13. CASE UNCHANGED vars
  BY <1>3, <1>13 DEF vars, local
<1>14. QED
  BY <1>4, <1>6, <1>7, <1>8, <1>9, <1>10, <1>11, <1>12, <1>13 DEF Next, Step

(* A reader of the server sees one whole version of the session's history, *)
(* and a cursor is remembered only for what was stored: the uploads        *)
(* implement SessionHistory (history_upload.go, uploadHistoryItems).       *)
THEOREM UploadsShowWholeVersions ==
  Spec => ShowsWholeVersions
<1>1. Init => Abstract!Init
  BY InitShown
<1>2. IInv /\ [Next]_vars => [Abstract!Next]_(Abstract!vars)
  BY StepShown
<1>3. QED
  BY <1>1, <1>2, UploadInvariant, PTL DEF Spec, ShowsWholeVersions, Abstract!Spec
=============================================================================
