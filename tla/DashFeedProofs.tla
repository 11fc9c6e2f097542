--------------------------- MODULE DashFeedProofs ---------------------------
(* Theorems about DashFeed and RunProjections, for every script of events, *)
(* every set of connections, instances and rebuilds, and every bound: the  *)
(* tables are complete and those of the agent unless a rebuild was         *)
(* disturbed, and the page skips no event between its snapshot and the     *)
(* live events.                                                            *)
EXTENDS DashFeed, FiniteSetTheorems, SequenceTheorems, TLAPS

-----------------------------------------------------------------------------
(* The inductive invariant: the tables.                                    *)

Locked == saving # NoSave => saving.seq \in Seqs \ Stored

(* A rebuild that is under way replays in order what is left, and has the  *)
(* run to itself or has torn the tables.                                   *)
Ascends(q) == \A i, j \in DOMAIN q : i < j => q[i] < q[j]

Rebuilds(w) ==
  /\ Rebuilding(w) => rebuild[w].todo # <<>> /\ Ascends(rebuild[w].todo)
  /\ rebuild[w].pc \in Clearing /\ rebuild[w].alone => Range(rebuild[w].todo) = Stored
  /\ Rebuilding(w) /\ ~rebuild[w].alone => torn
  /\ Rebuilding(w) /\ rebuild[w].alone => saving = NoSave /\ \A v \in Admins \ {w} : ~Rebuilding(v)

(* What an undisturbed rebuild has projected so far: the tables it has not *)
(* cleared yet are as they were.                                           *)
Past(x) == Stored \ Range(x.todo)
SoFar(x, ahead) == Past(x) \cup IF x.pc \in ahead THEN {} ELSE {Head(x.todo)}

TablesSoFar(x) ==
  /\ x.pc # "steps" => steps = {s \in SoFar(x, Clearing \cup {"cursor", "read", "write"}) : IsStep(s)}
  /\ x.pc \in {"run"} \cup Replaying =>
       timeline = {s \in SoFar(x, {"run", "cursor", "read", "write", "line"}) : script[s].codex}
  /\ x.pc \in Replaying => cursor = Max(SoFar(x, {"cursor"}) \cup {0})

Replayed(x) == Len(stored) - Len(x.todo) + (IF x.pc \in {"line", "state"} THEN 1 ELSE 0)

MirrorSoFar(x) ==
  Stored = 1 .. Len(stored) =>
    /\ \A i \in DOMAIN x.todo : x.todo[i] = Len(stored) - Len(x.todo) + i
    /\ x.pc \in {"tools", "timeline", "run"} \cup Replaying => messages = Mirror[Replayed(x)].messages
    /\ x.pc \in {"timeline", "run"} \cup Replaying => tools = Mirror[Replayed(x)].tools

(* An agent's message has its row read before it is written.               *)
ReadBefore(x) ==
  x.pc = "write" /\ script[Head(x.todo)].kind \in AssistantKinds => x.read = LastRow(messages)

Alone ==
  \A w \in Admins :
    Rebuilding(w) /\ rebuild[w].alone =>
      TablesSoFar(rebuild[w]) /\ MirrorSoFar(rebuild[w]) /\ ReadBefore(rebuild[w])

ReadLocked == Quiet /\ ~torn /\ saving # NoSave => saving.read = LastRow(messages)

Projecting ==
  /\ Locked /\ \A w \in Admins : Rebuilds(w)
  /\ Alone /\ ReadLocked /\ TablesComplete /\ MatchesMirror

-----------------------------------------------------------------------------
(* The inductive invariant: the feed.                                      *)

(* The event being saved is the one a reader saves, and what a reader      *)
(* broadcasts is stored.                                                   *)
Readers ==
  \A c \in Conns :
    /\ reader[c].at = "saving" => saving # NoSave /\ saving.seq = reader[c].seq
    /\ reader[c].at \in {"local", "accepted", "publish"} => reader[c].seq \in Stored
    /\ reader[c].at = "idle" => reader[c].seq = 0

(* Only the newest connections were used, and without Redis there is one   *)
(* instance.                                                               *)
Used ==
  /\ \A c \in Conns : c > conn => pipe[c] = <<>> /\ reader[c] = NoReader
  /\ conn = 1 => bus[InstOf[1]] = <<>>
  /\ dash.inst # NoInst => dash.inst \in Running
  /\ rebuilds \in Nat /\ (rebuilds = 0 => ~torn /\ \A w \in Admins : rebuild[w].pc = "idle")

(* The page's subscription at the places of its handler.                   *)
Serving ==
  /\ dash.pc = "off" <=> dash.inst = NoInst
  /\ dash.pc = "off" => dash = NoDash
  /\ dash.run => planned.watch = "run" /\ dash.pc \notin {"off", "subscribe"}
  /\ dash.session => planned.watch = "session" /\ dash.pc \in {"views", "finish", "live"}
  /\ dash.pc \in {"mark", "list"} => planned.watch = "run"
  /\ dash.pc \in {"mark", "views", "list", "finish", "live"} => dash.run \/ dash.session
  /\ \A x \in {dash.after, dash.seq, dash.through} : x \in Stored \cup {0}
  /\ \A i \in DOMAIN dash.send : /\ dash.send[i].events \subseteq Stored
                                 /\ dash.pc # "live" => dash.send[i].type = "run.event"

(* Events that come in order on one connection are stored without a gap.   *)
Before(s) == 1 .. s - 1

InTurn ==
  Sequential =>
    /\ \A s \in Stored : Before(s) \subseteq Stored
    /\ reader[1].at = "saving" => Before(reader[1].seq) \subseteq Stored
    /\ \A k \in DOMAIN pipe[1] : \A t \in Before(pipe[1][k]) :
         t \in Stored \cup {reader[1].seq} \/ \E j \in 1 .. k - 1 : pipe[1][j] = t
    /\ reader[1].at \in {"local", "accepted", "publish"} => \A s \in Stored : s <= reader[1].seq
    /\ \A i \in Instances :
         /\ Ascends(bus[i])
         /\ reader[1].at \in {"local", "accepted", "publish"} => \A k \in DOMAIN bus[i] : bus[i][k] < reader[1].seq

(* What a live event on its way to the page is above, or the snapshot has. *)
OnItsWay(s) ==
  \/ /\ reader[1].seq = s
     /\ reader[1].at \in {"local", "accepted"} \/ (reader[1].at = "publish" /\ InstOf[1] # dash.inst)
  \/ s \in Range(bus[dash.inst])

Wanted ==
  Sequential /\ dash.run /\ dash.inst # NoInst =>
    \A s \in Stored : OnItsWay(s) => s > dash.seq \/ s <= dash.after \/ s <= dash.through

(* Where what the page has not been told yet is.                           *)
Sent(s) == \E i \in DOMAIN dash.send : s \in dash.send[i].events
Told(s) == s \in shown \cup lost \/ Sent(s)

RunFed ==
  Sequential /\ dash.run =>
    /\ dash.pc \in {"views", "list", "finish", "live"} =>
         dash.after <= dash.through /\ \A s \in Stored : s > dash.through => Reaches(s)
    /\ dash.pc \in {"finish", "live"} =>
         \A s \in Stored : s > dash.after /\ s <= dash.through =>
           IF dash.pc = "live" THEN Told(s) ELSE s \in dash.list \cup lost
    /\ rebuilds = 0 =>
         /\ dash.pc \in {"list", "finish"} =>
              {s \in Stored : s <= dash.through /\ IsStep(s)} \subseteq dash.rows
         /\ dash.pc = "finish" => \A s \in dash.list : s <= dash.through

SessionFed ==
  dash.session /\ rebuilds = 0 /\ dash.pc = "finish" =>
    \A s \in timeline : script[s].codex => s \in dash.list \/ Reaches(s)

Feeding ==
  Readers /\ Used /\ Serving /\ InTurn /\ Wanted /\ RunFed /\ SessionFed /\ NothingSkipped /\ SnapshotWhole

-----------------------------------------------------------------------------
(* Sets of sequence numbers have a greatest member and an order.           *)

(* Among sets of finite subsets there is a smallest.                       *)
LEMMA SmallestSet ==
  ASSUME NEW n \in Nat, NEW Bad, Bad # {}, \A X \in Bad : X \subseteq 0 .. n
  PROVE  \E X \in Bad : \A Y \in Bad : Y \subseteq X => Y = X
<1> DEFINE S == 0 .. n
<1>1. IsFiniteSet(S)
  BY FS_Interval
<1>2. Bad \subseteq FiniteSubsetsOf(S)
  BY <1>1, FS_Subset DEF FiniteSubsetsOf
<1>3. IsWellFoundedOn(StrictSubsetOrdering(S), FiniteSubsetsOf(S))
  BY FS_StrictSubsetOrderingWellFounded
<1>4. \E X \in Bad : \A Y \in Bad : ~(<<Y, X>> \in StrictSubsetOrdering(S))
  BY <1>2, <1>3, WFMin
<1>5. PICK X \in Bad : \A Y \in Bad : ~(<<Y, X>> \in StrictSubsetOrdering(S))
  BY <1>4
<1>6. ASSUME NEW Y \in Bad, Y \subseteq X, Y # X PROVE FALSE
  BY <1>2, <1>5, <1>6 DEF StrictSubsetOrdering, FiniteSubsetsOf
<1> QED
  BY <1>5, <1>6

LEMMA Greatest ==
  ASSUME NEW n \in Nat, NEW S \in SUBSET (0 .. n), S # {}
  PROVE  Max(S) \in S /\ \A y \in S : y <= Max(S)
<1> DEFINE Bad == {X \in SUBSET (0 .. n) : X # {} /\ ~\E m \in X : \A y \in X : m >= y}
<1>1. ASSUME Bad # {} PROVE FALSE
  <2>1. PICK X \in Bad : \A Y \in Bad : Y \subseteq X => Y = X
    <3>1. \A X \in Bad : X \subseteq 0 .. n
      OBVIOUS
    <3> HIDE DEF Bad
    <3> QED
      BY <1>1, <3>1, SmallestSet
  <2>2. PICK a \in X : TRUE
    OBVIOUS
  <2> DEFINE Y == X \ {a}
  <2>3. X # {a}
    OBVIOUS
  <2>4. Y # {} /\ Y \subseteq X /\ Y # X /\ Y \subseteq 0 .. n
    BY <2>2, <2>3
  <2>5. PICK m \in Y : \A y \in Y : m >= y
    BY <2>1, <2>4
  <2>6. a \in Nat /\ m \in Nat /\ a \in X /\ m \in X /\ \A y \in X : y \in Nat
    BY <2>2, <2>4, <2>5
  <2>7. (\A y \in X : a >= y) \/ (\A y \in X : m >= y)
    BY <2>5, <2>6
  <2> QED
    BY <2>6, <2>7
<1>2. \E m \in S : \A y \in S : m >= y
  BY <1>1
<1>3. Max(S) \in S /\ \A y \in S : Max(S) >= y
  BY <1>2 DEF Max
<1> QED
  BY <1>3

LEMMA OrderExists ==
  ASSUME NEW n \in Nat, NEW S \in SUBSET (1 .. n)
  PROVE  \E q \in [1 .. Cardinality(S) -> S] : Ascends(q)
<1> DEFINE Good(X) == \E q \in [1 .. Cardinality(X) -> X] : Ascends(q)
           Bad == {X \in SUBSET (0 .. n) : X \subseteq 1 .. n /\ ~Good(X)}
<1>1. ASSUME Bad # {} PROVE FALSE
  <2>1. PICK X \in Bad : \A Y \in Bad : Y \subseteq X => Y = X
    <3>1. \A X \in Bad : X \subseteq 0 .. n
      OBVIOUS
    <3> HIDE DEF Bad
    <3> QED
      BY <1>1, <3>1, SmallestSet
  <2>2. X # {}
    <3>1. Cardinality({}) = 0
      BY FS_EmptySet
    <3>2. Good({})
      <4> DEFINE q == [i \in 1 .. 0 |-> i]
      <4>1. q \in [1 .. 0 -> {}] /\ Ascends(q)
        BY DEF Ascends
      <4> HIDE DEF q
      <4> QED
        BY <3>1, <4>1
    <3> QED
      BY <2>1, <3>2
  <2> DEFINE m == Max(X)
             Y == X \ {m}
             k == Cardinality(Y)
  <2>3. m \in X /\ \A y \in X : y <= m
    BY <2>2, Greatest
  <2>4. IsFiniteSet(X)
    <3>1. IsFiniteSet(0 .. n) /\ X \in SUBSET (0 .. n)
      BY FS_Interval
    <3> QED
      BY <3>1, FS_Subset
  <2>5. IsFiniteSet(Y) /\ k \in Nat /\ Cardinality(X) = k + 1
    <3>1. IsFiniteSet(Y) /\ k = Cardinality(X) - 1
      BY <2>3, <2>4, FS_RemoveElement
    <3>2. k \in Nat /\ Cardinality(X) \in Nat
      BY <2>4, <3>1, FS_CardinalityType
    <3> QED
      BY <3>1, <3>2
  <2>6. Good(Y)
    <3>1. Y \subseteq X /\ Y # X
      BY <2>3
    <3> QED
      BY <2>1, <3>1
  <2>7. PICK q \in [1 .. k -> Y] : Ascends(q)
    BY <2>6
  <2> DEFINE p == [i \in 1 .. k + 1 |-> IF i = k + 1 THEN m ELSE q[i]]
  <2>8. \A i \in 1 .. k : q[i] \in X /\ q[i] # m
    BY <2>7
  <2>9. \A x \in X : x \in Nat
    OBVIOUS
  <2> HIDE DEF m, Y, k
  <2>10. p \in [1 .. k + 1 -> X]
    BY <2>3, <2>5, <2>7, <2>8
  <2>11. Ascends(p)
    <3> SUFFICES ASSUME NEW i \in 1 .. k + 1, NEW j \in 1 .. k + 1, i < j PROVE p[i] < p[j]
      BY <2>10 DEF Ascends
    <3>1. i \in 1 .. k /\ p[i] = q[i]
      BY <2>5
    <3>2. CASE j = k + 1
      <4>1. p[j] = m
        BY <3>2
      <4>2. q[i] <= m /\ q[i] # m /\ q[i] \in Nat /\ m \in Nat
        BY <2>3, <2>8, <2>9, <3>1
      <4> QED
        BY <3>1, <4>1, <4>2
    <3>3. CASE j # k + 1
      <4>1. j \in 1 .. k /\ p[j] = q[j]
        BY <2>5, <3>3
      <4> QED
        BY <2>7, <3>1, <4>1 DEF Ascends
    <3> QED
      BY <3>2, <3>3
  <2> HIDE DEF p
  <2> QED
    BY <2>1, <2>5, <2>10, <2>11
<1>2. S \in SUBSET (0 .. n)
  OBVIOUS
<1> QED
  BY <1>1, <1>2

LEMMA OrderOf ==
  ASSUME NEW n \in Nat, NEW S \in SUBSET (1 .. n)
  PROVE  /\ InOrder(S) \in Seq(S) /\ Ascends(InOrder(S)) /\ Range(InOrder(S)) = S
         /\ Len(InOrder(S)) = Cardinality(S) /\ Cardinality(S) \in Nat
<1> DEFINE q == InOrder(S)
           k == Cardinality(S)
<1>1. q \in [1 .. k -> S] /\ Ascends(q)
  BY OrderExists DEF InOrder, Ascends
<1>2. IsFiniteSet(S) /\ k \in Nat
  <2>1. IsFiniteSet(1 .. n)
    BY FS_Interval
  <2>2. IsFiniteSet(S)
    BY <2>1, FS_Subset
  <2> QED
    BY <2>2, FS_CardinalityType
<1>3. q \in Seq(S) /\ Len(q) = k /\ DOMAIN q = 1 .. k
  <2> HIDE DEF q, k
  <2> QED
    BY <1>1, <1>2
<1>4. q \in Injection(1 .. k, S)
  <2>1. \A i, j \in 1 .. k : q[i] = q[j] => i = j
    <3> SUFFICES ASSUME NEW i \in 1 .. k, NEW j \in 1 .. k, q[i] = q[j], i # j PROVE FALSE
      OBVIOUS
    <3>1. i < j \/ j < i
      BY <1>2
    <3>2. q[i] < q[j] \/ q[j] < q[i]
      BY <1>1, <1>3, <3>1 DEF Ascends
    <3>3. q[i] \in Nat /\ q[j] \in Nat
      <4>1. q[i] \in S /\ q[j] \in S
        BY <1>1
      <4>2. \A x \in S : x \in Nat
        OBVIOUS
      <4> QED
        BY <4>1, <4>2
    <3> QED
      BY <3>2, <3>3
  <2> QED
    BY <1>1, <2>1 DEF Injection, IsInjective
<1>5. Cardinality(1 .. k) = k
  BY <1>2, FS_Interval
<1>6. q \in Surjection(1 .. k, S)
  BY <1>2, <1>4, <1>5, FS_Injection
<1>7. Range(q) = S
  <2> HIDE DEF q
  <2> QED
    BY <1>1, <1>6 DEF Surjection, Range
<1> QED
  BY <1>1, <1>2, <1>3, <1>7

-----------------------------------------------------------------------------
(* The agent's tables, one event after the other.                          *)

LEMMA MirrorUnfolds ==
  ASSUME script \in Seq(Events)
  PROVE  /\ Mirror[0] = [messages |-> {}, tools |-> [i \in Items |-> NoTool]]
         /\ \A n \in 1 .. Len(script) : Mirror[n] = MirrorNext(Mirror[n - 1], n)
<1> DEFINE L == Len(script)
           None == [messages |-> {}, tools |-> [i \in Items |-> NoTool]]
           F(g, n) == IF n = 0 THEN None ELSE MirrorNext(g[n - 1], n)
           P(m) == \E g : g = [n \in 0 .. m |-> F(g, n)]
           Good == {m \in 0 .. L : P(m)}
<1>1. L \in Nat
  OBVIOUS
<1>2. P(0)
  <2> DEFINE g == [n \in 0 .. 0 |-> None]
  <2>1. g = [n \in 0 .. 0 |-> F(g, n)]
    <3>1. \A n \in 0 .. 0 : n = 0
      OBVIOUS
    <3> QED
      BY <3>1
  <2> QED
    BY <2>1
<1>3. ASSUME NEW m \in 0 .. L, P(m), m + 1 <= L PROVE P(m + 1)
  <2>1. PICK g : g = [n \in 0 .. m |-> F(g, n)]
    BY <1>3
  <2> DEFINE h == [n \in 0 .. m + 1 |-> IF n = m + 1 THEN F(g, n) ELSE g[n]]
  <2>2. m \in Nat
    BY <1>1
  <2>3. ASSUME NEW n \in 0 .. m + 1 PROVE h[n] = F(h, n)
    <3>1. CASE n = 0
      <4>1. g[0] = F(g, 0)
        BY <2>1, <2>2
      <4>2. h[n] = g[0]
        BY <2>2, <3>1
      <4> QED
        BY <3>1, <4>1, <4>2
    <3>2. CASE n # 0
      <4>1. n - 1 \in 0 .. m /\ n - 1 \in 0 .. m + 1 /\ n - 1 # m + 1
        BY <2>2, <3>2
      <4>2. h[n - 1] = g[n - 1]
        BY <4>1
      <4>3. F(h, n) = F(g, n)
        BY <4>2
      <4>4. h[n] = F(g, n)
        <5>1. CASE n = m + 1
          BY <5>1
        <5>2. CASE n # m + 1
          <6>1. n \in 0 .. m
            BY <2>2, <5>2
          <6>2. g[n] = F(g, n)
            BY <2>1, <6>1
          <6> QED
            BY <5>2, <6>2
        <5> QED
          BY <5>1, <5>2
      <4> QED
        BY <4>3, <4>4
    <3> QED
      BY <3>1, <3>2
  <2>4. h = [n \in 0 .. m + 1 |-> F(h, n)]
    <3> DEFINE k == [n \in 0 .. m + 1 |-> F(h, n)]
    <3>1. \A n \in 0 .. m + 1 : h[n] = k[n]
      BY <2>3
    <3>2. DOMAIN h = 0 .. m + 1 /\ DOMAIN k = 0 .. m + 1
      OBVIOUS
    <3>3. h = [n \in 0 .. m + 1 |-> h[n]] /\ k = [n \in 0 .. m + 1 |-> k[n]]
      OBVIOUS
    <3> HIDE DEF h, k, F
    <3>4. h = k
      BY <3>1, <3>3
    <3> QED
      BY <3>4 DEF k
  <2> QED
    BY <2>4
<1>4. P(L)
  <2>1. 0 \in Good
    BY <1>1, <1>2
  <2> DEFINE m == Max(Good)
  <2>2. m \in Good /\ \A k \in Good : k <= m
    <3> HIDE DEF P
    <3> QED
      BY <1>1, <2>1, Greatest
  <2>3. CASE m = L
    BY <2>2, <2>3
  <2>4. CASE m # L
    <3> HIDE DEF m, P
    <3>1. m + 1 \in 0 .. L /\ m + 1 <= L
      BY <1>1, <2>2, <2>4
    <3>2. m + 1 \in Good
      BY <1>3, <2>2, <3>1
    <3> QED
      BY <1>1, <2>2, <3>2
  <2> QED
    BY <2>3, <2>4
<1>5. Mirror = [n \in 0 .. L |-> F(Mirror, n)]
  BY <1>4 DEF Mirror
<1> HIDE DEF F
<1>6. \A n \in 0 .. L : Mirror[n] = F(Mirror, n)
  BY <1>5
<1> USE DEF F
<1>7. 0 \in 0 .. L /\ \A n \in 1 .. L : n \in 0 .. L /\ n # 0
  BY <1>1
<1> QED
  BY <1>6, <1>7

-----------------------------------------------------------------------------
(* Types of what the projection of an event writes.                        *)

Rows(rows) == rows \subseteq RowType /\ \A r1, r2 \in rows : r1.start = r2.start => r1 = r2

LEMMA SeqsAre ==
  ASSUME script \in Seq(Events)
  PROVE  /\ Len(script) \in Nat /\ Seqs = 1 .. Len(script) /\ Seqs \subseteq 0 .. Len(script)
         /\ \A s \in Seqs : s \in Nat /\ s > 0 /\ script[s] \in Events
BY DEF Seqs

LEMMA RowFields ==
  ASSUME NEW r \in RowType
  PROVE  /\ r.start \in 0 .. Len(script) /\ r.end \in 0 .. Len(script)
         /\ r.content \in Seq(Seqs) /\ r.status \in {"none", "streaming", "done"}
BY DEF RowType

LEMMA NoRowTyped ==
  ASSUME script \in Seq(Events)
  PROVE  NoRow \in RowType
<1>1. <<>> \in Seq(Seqs)
  OBVIOUS
<1>2. 0 \in 0 .. Len(script)
  OBVIOUS
<1> QED
  BY <1>1, <1>2 DEF NoRow, RowType

LEMMA LastRowIs ==
  ASSUME script \in Seq(Events), NEW rows \in SUBSET RowType
  PROVE  LastRow(rows) \in RowType /\ (rows # {} => LastRow(rows) \in rows)
<1>1. CASE rows = {}
  BY <1>1, NoRowTyped DEF LastRow
<1>2. CASE rows # {}
  <2> DEFINE starts == {r.start : r \in rows}
  <2>1. \A r \in rows : r.start \in 0 .. Len(script)
    BY RowFields
  <2>2. starts \subseteq 0 .. Len(script) /\ starts # {} /\ Len(script) \in Nat
    BY <1>2, <2>1
  <2>3. Max(starts) \in starts /\ \A y \in starts : y <= Max(starts)
    <3> HIDE DEF starts
    <3> QED
      BY <2>2, Greatest
  <2>4. \E r \in rows : \A q \in rows : q.start <= r.start
    BY <2>3
  <2> QED
    BY <1>2, <2>4 DEF LastRow
<1> QED
  BY <1>1, <1>2

LEMMA TextTyped ==
  ASSUME script \in Seq(Events), NEW s \in Seqs
  PROVE  Text(s) \in Seq(Seqs)
<1> DEFINE S == {t \in 1 .. s : script[t].item = script[s].item /\ script[t].kind \in AssistantKinds}
<1>1. InOrder(S) \in Seq(S)
  <2>1. S \in SUBSET (1 .. s) /\ s \in Nat
    BY SeqsAre
  <2> HIDE DEF S
  <2> QED
    BY <2>1, OrderOf
<1>2. S \subseteq Seqs
  BY SeqsAre
<1>3. InOrder(S) \in Seq(Seqs)
  <2> HIDE DEF S
  <2> QED
    BY <1>1, <1>2
<1>4. <<s>> \in Seq(Seqs)
  OBVIOUS
<1> QED
  BY <1>3, <1>4 DEF Text

LEMMA MessagesTyped ==
  ASSUME script \in Seq(Events), NEW s \in Seqs, NEW rows, Rows(rows), NEW read \in RowType
  PROVE  Rows(Messages(rows, s, read))
<1> DEFINE done == script[s].kind = "assistant.message.done"
           text == IF done THEN Text(s) ELSE read.content \o Text(s)
           new  == [start |-> IF read = NoRow THEN s ELSE read.start, end |-> s, content |-> text,
                    status |-> IF done THEN "done" ELSE "streaming"]
<1>1. text \in Seq(Seqs)
  <2>1. Text(s) \in Seq(Seqs) /\ read.content \in Seq(Seqs)
    BY TextTyped, RowFields
  <2>2. read.content \o Text(s) \in Seq(Seqs)
    BY <2>1
  <2> QED
    BY <2>1, <2>2
<1>2. s \in 0 .. Len(script) /\ read.start \in 0 .. Len(script)
  BY SeqsAre, RowFields
<1>3. new \in RowType
  <2> HIDE DEF text, done
  <2> QED
    BY <1>1, <1>2 DEF RowType
<1>4. Rows(Put(rows, new))
  <2> HIDE DEF new
  <2> QED
    BY <1>3 DEF Rows, Put
<1>5. Messages(rows, s, read) = rows \/ Messages(rows, s, read) = Put(rows, new)
  BY DEF Messages, WriteMessage
<1> QED
  BY <1>4, <1>5

LEMMA ToolsTyped ==
  ASSUME script \in Seq(Events), NEW s \in Seqs, NEW calls \in ToolType
  PROVE  Tools(calls, s) \in ToolType
<1> DEFINE call == [end |-> s, status |-> ToolStatus(script[s].kind)]
<1>1. call \in [end : 0 .. Len(script), status : {"none", "running", "done", "output"}]
  BY SeqsAre DEF ToolStatus
<1>2. Tools(calls, s) = calls \/ Tools(calls, s) = [calls EXCEPT ![script[s].item] = call]
  BY DEF Tools
<1> HIDE DEF call
<1> QED
  BY <1>1, <1>2 DEF ToolType

LEMMA NoToolsTyped ==
  ASSUME script \in Seq(Events)
  PROVE  [i \in Items |-> NoTool] \in ToolType
BY DEF NoTool, ToolType

LEMMA CursorTyped ==
  ASSUME script \in Seq(Events), NEW s \in Seqs, NEW n \in 0 .. Len(script)
  PROVE  Cursor(n, s) \in {n, s} /\ n <= Cursor(n, s) /\ s <= Cursor(n, s)
<1>1. {n, s} \in SUBSET (0 .. Len(script)) /\ {n, s} # {} /\ Len(script) \in Nat
  BY SeqsAre
<1> QED
  BY <1>1, Greatest DEF Cursor

LEMMA StatusTyped ==
  ASSUME NEW s, NEW old \in {"accepted", "rebuilding", "running", "done"}
  PROVE  Status(old, s) \in {"accepted", "rebuilding", "running", "done"}
BY DEF Status
-----------------------------------------------------------------------------
(* The statements of a rebuild.                                            *)

LEMMA LeastIs ==
  ASSUME NEW S \in SUBSET Nat, NEW m \in S, \A y \in S : m <= y
  PROVE  Min(S) = m
<1>1. Min(S) \in S /\ \A y \in S : Min(S) <= y
  BY DEF Min
<1>2. Min(S) <= m /\ m <= Min(S) /\ Min(S) \in Nat /\ m \in Nat
  BY <1>1
<1> QED
  BY <1>2

(* The statement that follows, if the event needs another one.             *)
Follows(s, pc) ==
  CASE pc = "cursor" -> IF script[s].kind \in AssistantKinds THEN "read" ELSE "write"
    [] pc = "read" -> "write"
    [] pc = "write" -> IF script[s].codex THEN "line"
                       ELSE IF Status("other", s) # "other" THEN "state" ELSE "none"
    [] pc = "line" -> IF Status("other", s) # "other" THEN "state" ELSE "none"
    [] pc = "state" -> "none"

Ahead(s, pc) ==
  {i \in DOMAIN Statements : /\ \E j \in 1 .. i - 1 : Statements[j] = pc
                             /\ Needs(s, Statements[i])}

LEMMA StatementAt ==
  /\ DOMAIN Statements = 1 .. 5
  /\ Statements[1] = "cursor" /\ Statements[2] = "read" /\ Statements[3] = "write"
  /\ Statements[4] = "line" /\ Statements[5] = "state"
BY DEF Statements

LEMMA FollowsIs ==
  ASSUME NEW s, NEW pc \in Replaying
  PROVE  /\ Ahead(s, pc) = {} => Follows(s, pc) = "none"
         /\ Ahead(s, pc) # {} => Follows(s, pc) = Statements[Min(Ahead(s, pc))]
<1> DEFINE A == Ahead(s, pc)
<1>1. ASSUME NEW k \in 1 .. 5, Statements[k] = pc
      PROVE  A = {i \in 1 .. 5 : i > k /\ Needs(s, Statements[i])}
  <2>1. ASSUME NEW i \in 1 .. 5 PROVE (\E j \in 1 .. i - 1 : Statements[j] = pc) <=> i > k
    BY <1>1, StatementAt
  <2> QED
    BY <2>1, StatementAt DEF Ahead
<1>2. A \in SUBSET Nat
  BY StatementAt DEF Ahead
<1>3. CASE pc = "cursor"
  <2>1. A = {i \in 1 .. 5 : i > 1 /\ Needs(s, Statements[i])}
    BY <1>1, <1>3, StatementAt
  <2>2. 3 \in A /\ (2 \in A <=> script[s].kind \in AssistantKinds)
    BY <2>1, StatementAt DEF Needs
  <2>3. \A y \in A : y \in Nat /\ y >= 2
    BY <2>1
  <2> HIDE DEF A
  <2>4. CASE 2 \in A
    <3>1. Min(A) = 2
      BY <1>2, <2>3, <2>4, LeastIs
    <3> QED
      BY <1>3, <2>2, <2>4, <3>1, StatementAt DEF A, Follows
  <2>5. CASE 2 \notin A
    <3>1. \A y \in A : 3 <= y
      BY <2>3, <2>5
    <3>2. Min(A) = 3
      BY <1>2, <2>2, <3>1, LeastIs
    <3> QED
      BY <1>3, <2>2, <2>5, <3>2, StatementAt DEF A, Follows
  <2> QED
    BY <2>4, <2>5
<1>4. CASE pc = "read"
  <2>1. A = {i \in 1 .. 5 : i > 2 /\ Needs(s, Statements[i])}
    BY <1>1, <1>4, StatementAt
  <2>2. 3 \in A /\ \A y \in A : 3 <= y
    BY <2>1, StatementAt DEF Needs
  <2>3. Min(A) = 3
    <3> HIDE DEF A
    <3> QED
      BY <1>2, <2>2, LeastIs
  <2> QED
    BY <1>4, <2>2, <2>3, StatementAt DEF Follows
<1>5. ASSUME pc = "write" \/ pc = "line" \/ pc = "state" PROVE
      /\ 4 \in A <=> pc = "write" /\ script[s].codex
      /\ 5 \in A <=> pc # "state" /\ Status("other", s) # "other"
      /\ A \subseteq {4, 5}
  <2>1. CASE pc = "write"
    <3>1. A = {i \in 1 .. 5 : i > 3 /\ Needs(s, Statements[i])}
      BY <1>1, <2>1, StatementAt
    <3> QED
      BY <2>1, <3>1, StatementAt DEF Needs
  <2>2. CASE pc = "line"
    <3>1. A = {i \in 1 .. 5 : i > 4 /\ Needs(s, Statements[i])}
      BY <1>1, <2>2, StatementAt
    <3> QED
      BY <2>2, <3>1, StatementAt DEF Needs
  <2>3. CASE pc = "state"
    <3>1. A = {i \in 1 .. 5 : i > 5 /\ Needs(s, Statements[i])}
      BY <1>1, <2>3, StatementAt
    <3> QED
      BY <2>3, <3>1
  <2> QED
    BY <1>5, <2>1, <2>2, <2>3
<1>6. CASE pc = "write" \/ pc = "line" \/ pc = "state"
  <2> HIDE DEF A
  <2>1. CASE 4 \in A
    <3>1. Min(A) = 4
      BY <1>2, <1>5, <1>6, <2>1, LeastIs
    <3> QED
      BY <1>5, <1>6, <2>1, <3>1, StatementAt DEF A, Follows
  <2>2. CASE 4 \notin A /\ 5 \in A
    <3>1. \A y \in A : 5 <= y
      BY <1>5, <1>6, <2>2
    <3>2. Min(A) = 5
      BY <1>2, <2>2, <3>1, LeastIs
    <3> QED
      BY <1>5, <1>6, <2>2, <3>2, StatementAt DEF A, Follows
  <2>3. CASE 4 \notin A /\ 5 \notin A
    <3>1. A = {}
      BY <1>5, <1>6, <2>3
    <3> QED
      BY <1>5, <1>6, <2>3, <3>1 DEF A, Follows
  <2> QED
    BY <2>1, <2>2, <2>3
<1> QED
  BY <1>3, <1>4, <1>6 DEF Replaying

(* What the record of a rebuild becomes when a statement is done.          *)
Over(x) == Follows(Head(x.todo), x.pc) = "none" /\ Tail(x.todo) = <<>>

After(x, read) ==
  IF Follows(Head(x.todo), x.pc) # "none"
  THEN [x EXCEPT !.pc = Follows(Head(x.todo), x.pc), !.read = read]
  ELSE [x EXCEPT !.pc = IF Tail(x.todo) = <<>> THEN "done" ELSE "cursor",
                 !.todo = Tail(x.todo), !.read = NoRow]

LEMMA StatementPC ==
  ASSUME NEW i \in DOMAIN Statements
  PROVE  Statements[i] \in Replaying /\ Statements[i] # "none"
BY StatementAt DEF Replaying

LEMMA ThenIs ==
  ASSUME NEW w \in Admins, NEW read, rebuild[w].pc \in Replaying, Then(w, rebuild[w].pc, read)
  PROVE  /\ rebuild' = [rebuild EXCEPT ![w] = After(rebuild[w], read)]
         /\ torn' = (torn /\ ~(Over(rebuild[w]) /\ rebuild[w].alone))
         /\ late' = (late /\ ~(Over(rebuild[w]) /\ rebuild[w].alone))
<1> DEFINE x == rebuild[w]
           A == Ahead(Head(x.todo), x.pc)
           over == A = {} /\ Tail(x.todo) = <<>>
<1>1. /\ rebuild' = [rebuild EXCEPT ![w] =
              IF A # {} THEN [x EXCEPT !.pc = Statements[Min(A)], !.read = read]
              ELSE [x EXCEPT !.pc = IF over THEN "done" ELSE "cursor", !.todo = Tail(x.todo), !.read = NoRow]]
      /\ torn' = (torn /\ ~(over /\ x.alone)) /\ late' = (late /\ ~(over /\ x.alone))
  BY DEF Then, Ahead
<1>2. /\ A = {} => Follows(Head(x.todo), x.pc) = "none"
      /\ A # {} => Follows(Head(x.todo), x.pc) = Statements[Min(A)]
  BY FollowsIs
<1>3. A # {} => Statements[Min(A)] # "none"
  <2>1. ASSUME A # {} PROVE Min(A) \in A
    <3>1. PICK a \in A : TRUE
      BY <2>1
    <3>2. A \subseteq 1 .. 5
      BY StatementAt DEF Ahead
    <3> HIDE DEF A
    <3>3. CASE 1 \in A
      <4>1. Min(A) = 1
        BY <3>2, <3>3, LeastIs
      <4> QED
        BY <3>3, <4>1
    <3>4. CASE 1 \notin A /\ 2 \in A
      <4>1. Min(A) = 2
        BY <3>2, <3>4, LeastIs
      <4> QED
        BY <3>4, <4>1
    <3>5. CASE 1 \notin A /\ 2 \notin A /\ 3 \in A
      <4>1. Min(A) = 3
        BY <3>2, <3>5, LeastIs
      <4> QED
        BY <3>5, <4>1
    <3>6. CASE 1 \notin A /\ 2 \notin A /\ 3 \notin A /\ 4 \in A
      <4>1. Min(A) = 4
        BY <3>2, <3>6, LeastIs
      <4> QED
        BY <3>6, <4>1
    <3>7. CASE 1 \notin A /\ 2 \notin A /\ 3 \notin A /\ 4 \notin A
      <4>1. a = 5
        BY <3>1, <3>2, <3>7
      <4>2. Min(A) = 5
        BY <3>1, <3>2, <3>7, <4>1, LeastIs
      <4> QED
        BY <3>1, <4>1, <4>2
    <3> QED
      BY <3>3, <3>4, <3>5, <3>6, <3>7
  <2>2. A \subseteq DOMAIN Statements
    BY DEF Ahead
  <2> HIDE DEF A
  <2> QED
    BY <2>1, <2>2, StatementPC
<1> HIDE DEF A, x
<1>4. over <=> Over(x)
  BY <1>2, <1>3 DEF Over
<1>5. (IF A # {} THEN [x EXCEPT !.pc = Statements[Min(A)], !.read = read]
       ELSE [x EXCEPT !.pc = IF over THEN "done" ELSE "cursor", !.todo = Tail(x.todo), !.read = NoRow])
      = After(x, read)
  <2>1. CASE A # {}
    BY <1>2, <1>3, <2>1 DEF After
  <2>2. CASE A = {}
    BY <1>2, <2>2 DEF After
  <2> QED
    BY <2>1, <2>2
<1> QED
  BY <1>1, <1>4, <1>5 DEF x

LEMMA FollowsPC ==
  ASSUME NEW s, NEW pc \in Replaying
  PROVE  Follows(s, pc) \in Replaying \cup {"none"}
BY DEF Follows, Replaying

-----------------------------------------------------------------------------
(* Types of the run.                                                       *)

Rebuilder == [pc : {"idle", "done"} \cup Clearing \cup Replaying,
              todo : Seq(Stored), read : RowType, alone : BOOLEAN]

EventsTyped == script \in Seq(Events) /\ stored \in Seq(Seqs) /\ IsInjective(stored)
TablesTyped ==
  /\ Rows(messages) /\ tools \in ToolType /\ steps \subseteq Stored /\ timeline \subseteq Stored
  /\ cursor \in 0 .. Len(script) /\ status \in {"accepted", "rebuilding", "running", "done"}
SaveTyped == saving \in [seq : 0 .. Len(script), read : RowType]
RebuildsTyped == rebuild \in [Admins -> Rebuilder]
FlagsTyped == torn \in BOOLEAN /\ late \in BOOLEAN

LEMMA RunTypeIs ==
  RunTypeOK <=> EventsTyped /\ TablesTyped /\ SaveTyped /\ RebuildsTyped /\ FlagsTyped
BY DEF RunTypeOK, EventsTyped, TablesTyped, SaveTyped, RebuildsTyped, FlagsTyped, Rebuilder, Rows

LEMMA RunTypeIsNext ==
  RunTypeOK' <=> EventsTyped' /\ TablesTyped' /\ SaveTyped' /\ RebuildsTyped' /\ FlagsTyped'
BY DEF RunTypeOK, EventsTyped, TablesTyped, SaveTyped, RebuildsTyped, FlagsTyped, Rebuilder, Rows

LEMMA RebuilderFields ==
  ASSUME NEW x \in Rebuilder
  PROVE  /\ x.pc \in {"idle", "done"} \cup Clearing \cup Replaying /\ x.todo \in Seq(Stored)
         /\ x.read \in RowType /\ x.alone \in BOOLEAN
         /\ x = [pc |-> x.pc, todo |-> x.todo, read |-> x.read, alone |-> x.alone]
BY DEF Rebuilder

LEMMA StoredAre ==
  ASSUME EventsTyped
  PROVE  /\ Stored \subseteq Seqs /\ \A s \in Stored : s \in Nat /\ s > 0 /\ s <= Len(script)
         /\ DOMAIN stored = 1 .. Len(stored) /\ Len(stored) \in Nat
         /\ Stored = {stored[i] : i \in 1 .. Len(stored)}
<1>1. Stored = {stored[i] : i \in 1 .. Len(stored)} /\ DOMAIN stored = 1 .. Len(stored)
  BY DEF EventsTyped, Stored, Range
<1>2. \A i \in 1 .. Len(stored) : stored[i] \in Seqs
  BY DEF EventsTyped
<1>3. Stored \subseteq Seqs
  BY <1>1, <1>2
<1> QED
  BY <1>1, <1>3, SeqsAre DEF EventsTyped

LEMMA TodoAre ==
  ASSUME EventsTyped, RebuildsTyped, NEW w \in Admins
  PROVE  /\ rebuild[w] \in Rebuilder
         /\ rebuild[w].todo # <<>> =>
              /\ Head(rebuild[w].todo) \in Stored /\ Head(rebuild[w].todo) \in Seqs
              /\ Tail(rebuild[w].todo) \in Seq(Stored)
<1>1. rebuild[w] \in Rebuilder
  BY DEF RebuildsTyped
<1>2. rebuild[w].todo \in Seq(Stored)
  BY <1>1, RebuilderFields
<1> QED
  BY <1>1, <1>2, StoredAre

LEMMA AfterTyped ==
  ASSUME NEW x \in Rebuilder, x.pc \in Replaying, x.todo # <<>>, NEW read \in RowType, script \in Seq(Events)
  PROVE  After(x, read) \in Rebuilder
<1> DEFINE next == Follows(Head(x.todo), x.pc)
<1>1. x.todo \in Seq(Stored) /\ Tail(x.todo) \in Seq(Stored) /\ x.read \in RowType /\ x.alone \in BOOLEAN
  BY RebuilderFields
<1>2. next \in Replaying \cup {"none"}
  BY FollowsPC
<1>3. NoRow \in RowType
  BY NoRowTyped
<1> HIDE DEF next
<1>4. CASE next # "none"
  <2>1. After(x, read) = [x EXCEPT !.pc = next, !.read = read]
    BY <1>4 DEF After, next
  <2> QED
    BY <1>1, <1>2, <1>4, <2>1 DEF Rebuilder
<1>5. CASE next = "none"
  <2>1. After(x, read) = [x EXCEPT !.pc = IF Tail(x.todo) = <<>> THEN "done" ELSE "cursor",
                                   !.todo = Tail(x.todo), !.read = NoRow]
    BY <1>5 DEF After, next
  <2> QED
    BY <1>1, <1>3, <2>1 DEF Rebuilder, Replaying
<1> QED
  BY <1>4, <1>5

LEMMA SameScript ==
  ASSUME script' = script
  PROVE  Seqs' = Seqs /\ RowType' = RowType /\ ToolType' = ToolType
BY DEF Seqs, RowType, ToolType

LEMMA SameStored ==
  ASSUME script' = script, stored' = stored
  PROVE  Stored' = Stored /\ Rebuilder' = Rebuilder
<1>1. Stored' = Stored
  BY DEF Stored
<1> QED
  BY <1>1, SameScript DEF Rebuilder

LEMMA RowsNext ==
  ASSUME script' = script, Rows(messages')
  PROVE  Rows(messages)'
BY SameScript DEF Rows

LEMMA SaveBeginType ==
  ASSUME RunTypeOK, NEW s \in Seqs, SaveBegin(s)
  PROVE  RunTypeOK'
<1>1. /\ EventsTyped /\ TablesTyped /\ SaveTyped /\ RebuildsTyped /\ FlagsTyped
      /\ script' = script /\ stored' = stored /\ tables' = tables /\ row' = row
  BY RunTypeIs DEF SaveBegin
<1>2. /\ Seqs' = Seqs /\ RowType' = RowType /\ ToolType' = ToolType
      /\ Stored' = Stored /\ Rebuilder' = Rebuilder
  BY <1>1, SameScript, SameStored
<1>3. EventsTyped' /\ TablesTyped'
  <2>1. Rows(messages)'
    BY <1>1, RowsNext DEF TablesTyped, tables
  <2> QED
    BY <1>1, <1>2, <2>1 DEF EventsTyped, TablesTyped, tables, row
<1>4. SaveTyped'
  <2>1. LastRow(messages) \in RowType /\ s \in 0 .. Len(script)
    BY <1>1, LastRowIs, SeqsAre DEF TablesTyped, EventsTyped, Rows
  <2> QED
    BY <1>1, <1>2, <2>1 DEF SaveTyped, SaveBegin
<1>5. RebuildsTyped'
  <2>1. \A w \in Admins : [rebuild[w] EXCEPT !.alone = FALSE] \in Rebuilder
    BY <1>1 DEF RebuildsTyped, Rebuilder
  <2>2. rebuild' = [w \in Admins |-> [rebuild[w] EXCEPT !.alone = FALSE]]
    BY DEF SaveBegin
  <2> QED
    BY <1>2, <2>1, <2>2 DEF RebuildsTyped
<1>6. FlagsTyped'
  BY <1>1 DEF SaveBegin, FlagsTyped
<1> QED
  BY <1>3, <1>4, <1>5, <1>6, RunTypeIsNext

LEMMA StoreMore ==
  ASSUME EventsTyped, NEW s \in Seqs \ Stored, stored' = Append(stored, s), script' = script
  PROVE  /\ EventsTyped' /\ Stored' = Stored \cup {s} /\ Len(stored') = Len(stored) + 1
         /\ Rebuilder \subseteq Rebuilder'
<1>1. Len(stored) \in Nat /\ DOMAIN stored = 1 .. Len(stored) /\ stored \in Seq(Seqs)
  BY StoredAre DEF EventsTyped
<1>2. /\ Len(stored') = Len(stored) + 1 /\ stored' \in Seq(Seqs)
      /\ \A i \in 1 .. Len(stored) : stored'[i] = stored[i]
      /\ stored'[Len(stored) + 1] = s /\ DOMAIN stored' = 1 .. Len(stored) + 1
  BY <1>1
<1>3. Stored = {stored[i] : i \in 1 .. Len(stored)}
  BY StoredAre
<1>4. Stored' = {stored'[i] : i \in 1 .. Len(stored) + 1}
  BY <1>2 DEF Stored, Range
<1>5. 1 .. Len(stored) + 1 = (1 .. Len(stored)) \cup {Len(stored) + 1}
  BY <1>1
<1>6. Stored' = Stored \cup {s}
  BY <1>2, <1>3, <1>4, <1>5
<1>7. IsInjective(stored')
  <2> SUFFICES ASSUME NEW a \in 1 .. Len(stored) + 1, NEW b \in 1 .. Len(stored) + 1, stored'[a] = stored'[b]
               PROVE  a = b
    BY <1>2 DEF IsInjective
  <2>1. \A x, y \in 1 .. Len(stored) : stored[x] = stored[y] => x = y
    BY <1>1 DEF EventsTyped, IsInjective
  <2>2. \A x \in 1 .. Len(stored) : stored[x] # s
    BY <1>3
  <2> QED
    BY <1>1, <1>2, <2>1, <2>2
<1>8. EventsTyped'
  BY <1>2, <1>7, SameScript DEF EventsTyped
<1>9. Seq(Stored) \subseteq Seq(Stored')
  BY <1>6
<1>10. Rebuilder \subseteq Rebuilder'
  BY <1>9, SameScript DEF Rebuilder
<1> QED
  BY <1>2, <1>6, <1>8, <1>10

LEMMA SaveCommitType ==
  ASSUME RunTypeOK, saving.seq \in Seqs \ Stored, SaveCommit
  PROVE  RunTypeOK'
<1> DEFINE s == saving.seq
<1>1. /\ EventsTyped /\ TablesTyped /\ SaveTyped /\ RebuildsTyped /\ FlagsTyped
      /\ script' = script /\ stored' = Append(stored, s) /\ rebuild' = rebuild /\ torn' = torn
      /\ s \in Seqs \ Stored /\ script \in Seq(Events)
  BY RunTypeIs DEF SaveCommit, EventsTyped
<1>2. /\ EventsTyped' /\ Stored' = Stored \cup {s} /\ Rebuilder \subseteq Rebuilder'
      /\ Seqs' = Seqs /\ RowType' = RowType /\ ToolType' = ToolType
  BY <1>1, StoreMore, SameScript
<1>3. TablesTyped'
  <2>1. Rows(messages')
    <3>1. saving.read \in RowType
      BY <1>1 DEF SaveTyped
    <3> QED
      BY <1>1, <3>1, MessagesTyped DEF TablesTyped, SaveCommit
  <2>2. tools' \in ToolType
    BY <1>1, ToolsTyped DEF TablesTyped, SaveCommit
  <2>3. steps' \subseteq Stored' /\ timeline' \subseteq Stored'
    BY <1>1, <1>2 DEF TablesTyped, SaveCommit, Steps, Lines
  <2>4. cursor' \in 0 .. Len(script)
    BY <1>1, CursorTyped, SeqsAre DEF TablesTyped, SaveCommit
  <2>5. status' \in {"accepted", "rebuilding", "running", "done"}
    BY <1>1, StatusTyped DEF TablesTyped, SaveCommit
  <2>6. Rows(messages)'
    BY <1>1, <2>1, RowsNext
  <2> QED
    BY <1>1, <1>2, <2>2, <2>3, <2>4, <2>5, <2>6 DEF TablesTyped
<1>4. SaveTyped'
  BY <1>1, <1>2, NoRowTyped DEF SaveCommit, SaveTyped, NoSave
<1>5. RebuildsTyped'
  BY <1>1, <1>2 DEF RebuildsTyped
<1>6. FlagsTyped'
  BY <1>1 DEF SaveCommit, FlagsTyped
<1> QED
  BY <1>2, <1>3, <1>4, <1>5, <1>6, RunTypeIsNext

LEMMA IdleTyped ==
  ASSUME EventsTyped
  PROVE  Idle \in Rebuilder
<1>1. <<>> \in Seq(Stored) /\ NoRow \in RowType
  BY NoRowTyped DEF EventsTyped
<1> QED
  BY <1>1 DEF Idle, Rebuilder

LEMMA SelectIs ==
  ASSUME RunTypeOK, NEW w \in Admins, Select(w)
  PROVE  /\ rebuild'[w] = [pc |-> "steps", todo |-> InOrder(Stored), read |-> NoRow,
                           alone |-> Quiet /\ saving = NoSave]
         /\ \A v \in Admins \ {w} : rebuild'[v] = [rebuild[v] EXCEPT !.alone = FALSE]
         /\ torn' = (torn \/ ~(Quiet /\ saving = NoSave))
         /\ Ascends(InOrder(Stored)) /\ Range(InOrder(Stored)) = Stored
         /\ InOrder(Stored) \in Seq(Stored) /\ InOrder(Stored) # <<>>
         /\ Len(InOrder(Stored)) = Cardinality(Stored) /\ Cardinality(Stored) \in Nat
<1>1. EventsTyped /\ stored # <<>>
  BY RunTypeIs DEF Select
<1>2. Stored \in SUBSET (1 .. Len(script)) /\ Len(script) \in Nat
  BY <1>1, StoredAre, SeqsAre DEF EventsTyped
<1>3. /\ Ascends(InOrder(Stored)) /\ Range(InOrder(Stored)) = Stored
      /\ InOrder(Stored) \in Seq(Stored)
      /\ Len(InOrder(Stored)) = Cardinality(Stored) /\ Cardinality(Stored) \in Nat
  BY <1>2, OrderOf
<1>4. Stored # {}
  <2>1. Len(stored) >= 1
    BY <1>1 DEF EventsTyped
  <2>2. 1 \in 1 .. Len(stored)
    BY <1>1, <2>1, StoredAre
  <2> QED
    BY <1>1, <2>2, StoredAre
<1>5. InOrder(Stored) # <<>>
  <2>1. Range(<<>>) = {}
    BY DEF Range
  <2> QED
    BY <1>3, <1>4, <2>1
<1>6. rebuild' = [v \in Admins |->
             IF v = w THEN [pc |-> "steps", todo |-> InOrder(Stored), read |-> NoRow,
                            alone |-> Quiet /\ saving = NoSave]
             ELSE [rebuild[v] EXCEPT !.alone = FALSE]]
  BY DEF Select
<1>7. torn' = (torn \/ ~(Quiet /\ saving = NoSave))
  BY DEF Select
<1> QED
  BY <1>3, <1>5, <1>6, <1>7

LEMMA OtherTypes ==
  ASSUME RunTypeOK, script' = script, stored' = stored, saving' = saving,
         Rows(messages'), tools' \in ToolType, steps' \subseteq Stored, timeline' \subseteq Stored,
         cursor' \in 0 .. Len(script), status' \in {"accepted", "rebuilding", "running", "done"},
         rebuild' \in [Admins -> Rebuilder], torn' \in BOOLEAN, late' \in BOOLEAN
  PROVE  RunTypeOK'
<1>1. EventsTyped /\ SaveTyped
  BY RunTypeIs
<1>2. /\ Seqs' = Seqs /\ RowType' = RowType /\ ToolType' = ToolType
      /\ Stored' = Stored /\ Rebuilder' = Rebuilder
  BY SameScript, SameStored
<1>3. EventsTyped' /\ SaveTyped' /\ RebuildsTyped' /\ FlagsTyped'
  BY <1>1, <1>2 DEF EventsTyped, SaveTyped, RebuildsTyped, FlagsTyped
<1>4. TablesTyped'
  BY <1>2, RowsNext DEF TablesTyped
<1> QED
  BY <1>3, <1>4, RunTypeIsNext

LEMMA SelectType ==
  ASSUME RunTypeOK, NEW w \in Admins, Select(w)
  PROVE  RunTypeOK'
<1>1. EventsTyped /\ TablesTyped /\ RebuildsTyped /\ FlagsTyped
  BY RunTypeIs
<1>2. /\ script' = script /\ projections' = projections /\ late' = late
  BY DEF Select
<1>3. rebuild' \in [Admins -> Rebuilder]
  <2>1. NoRow \in RowType
    BY <1>1, NoRowTyped DEF EventsTyped
  <2>2. [pc |-> "steps", todo |-> InOrder(Stored), read |-> NoRow, alone |-> Quiet /\ saving = NoSave] \in Rebuilder
    <3>1. InOrder(Stored) \in Seq(Stored)
      BY SelectIs
    <3>2. (Quiet /\ saving = NoSave) \in BOOLEAN
      BY Zenon
    <3> HIDE DEF Quiet
    <3> QED
      BY <2>1, <3>1, <3>2 DEF Rebuilder, Clearing
  <2>3. \A v \in Admins : [rebuild[v] EXCEPT !.alone = FALSE] \in Rebuilder
    BY <1>1 DEF RebuildsTyped, Rebuilder
  <2>4. DOMAIN rebuild' = Admins /\ rebuild' = [v \in Admins |-> rebuild'[v]]
    BY DEF Select
  <2>5. \A v \in Admins : rebuild'[v] \in Rebuilder
    BY <2>2, <2>3, SelectIs
  <2> QED
    BY <2>4, <2>5
<1>4. torn' \in BOOLEAN
  BY <1>1, SelectIs DEF FlagsTyped
<1> QED
  BY <1>1, <1>2, <1>3, <1>4, OtherTypes DEF projections, tables, row, TablesTyped, FlagsTyped

LEMMA ClearType ==
  ASSUME RunTypeOK, NEW w \in Admins, Clear(w)
  PROVE  RunTypeOK'
<1>1. EventsTyped /\ TablesTyped /\ RebuildsTyped /\ FlagsTyped /\ script \in Seq(Events)
  BY RunTypeIs DEF EventsTyped
<1>2. script' = script /\ stored' = stored /\ saving' = saving /\ torn' = torn /\ late' = late
  BY DEF Clear
<1>3. rebuild' \in [Admins -> Rebuilder]
  <2>1. PICK pc \in {"messages", "tools", "timeline", "run", "cursor"} : rebuild' = [rebuild EXCEPT ![w].pc = pc]
    BY DEF Clear, Go
  <2>2. [rebuild[w] EXCEPT !.pc = pc] \in Rebuilder
    BY <1>1 DEF RebuildsTyped, Rebuilder, Clearing, Replaying
  <2> QED
    BY <1>1, <2>1, <2>2 DEF RebuildsTyped
<1>4. Rows(messages')
  BY <1>1 DEF Clear, TablesTyped, tables, Rows
<1>5. tools' \in ToolType
  BY <1>1, NoToolsTyped DEF Clear, TablesTyped, tables
<1>6. steps' \subseteq Stored /\ timeline' \subseteq Stored
  BY <1>1 DEF Clear, TablesTyped, tables
<1>7. cursor' \in 0 .. Len(script) /\ status' \in {"accepted", "rebuilding", "running", "done"}
  BY <1>1, SeqsAre DEF Clear, TablesTyped, row
<1> QED
  BY <1>1, <1>2, <1>3, <1>4, <1>5, <1>6, <1>7, OtherTypes DEF FlagsTyped

LEMMA ReplayType ==
  ASSUME RunTypeOK, NEW w \in Admins, rebuild[w].todo # <<>>, Replay(w)
  PROVE  RunTypeOK'
<1> DEFINE x == rebuild[w]
           s == Head(x.todo)
<1>1. EventsTyped /\ TablesTyped /\ RebuildsTyped /\ FlagsTyped /\ script \in Seq(Events)
  BY RunTypeIs DEF EventsTyped
<1>2. x \in Rebuilder /\ s \in Stored /\ s \in Seqs
  BY <1>1, TodoAre
<1>3. script' = script /\ stored' = stored /\ saving' = saving
  BY DEF Replay
<1>4. PICK read \in RowType : Then(w, x.pc, read) /\ x.pc \in Replaying
  <2>1. NoRow \in RowType /\ LastRow(messages) \in RowType
    BY <1>1, NoRowTyped, LastRowIs DEF TablesTyped, Rows
  <2> QED
    BY <2>1 DEF Replay, Replaying
<1>5. After(x, read) \in Rebuilder
  BY <1>1, <1>2, <1>4, AfterTyped
<1>6. rebuild' = [rebuild EXCEPT ![w] = After(x, read)] /\ torn' \in BOOLEAN /\ late' \in BOOLEAN
  BY <1>1, <1>4, ThenIs DEF FlagsTyped
<1>7. rebuild' \in [Admins -> Rebuilder]
  BY <1>1, <1>5, <1>6 DEF RebuildsTyped
<1>8. Rows(messages') /\ tools' \in ToolType
  <2>1. x.read \in RowType
    BY <1>2, RebuilderFields
  <2>2. Rows(Messages(messages, s, x.read)) /\ Tools(tools, s) \in ToolType
    BY <1>1, <1>2, <2>1, MessagesTyped, ToolsTyped DEF TablesTyped
  <2> QED
    BY <1>1, <2>2 DEF Replay, TablesTyped, tables
<1>9. steps' \subseteq Stored /\ timeline' \subseteq Stored
  BY <1>1, <1>2 DEF Replay, TablesTyped, tables, Steps, Lines
<1>10. cursor' \in 0 .. Len(script) /\ status' \in {"accepted", "rebuilding", "running", "done"}
  <2>1. Cursor(cursor, s) \in 0 .. Len(script)
    BY <1>1, <1>2, CursorTyped, SeqsAre DEF TablesTyped
  <2>2. Status(status, s) \in {"accepted", "rebuilding", "running", "done"}
    BY <1>1, StatusTyped DEF TablesTyped
  <2> QED
    BY <1>1, <2>1, <2>2 DEF Replay, TablesTyped, row
<1> QED
  BY <1>1, <1>3, <1>6, <1>7, <1>8, <1>9, <1>10, OtherTypes

LEMMA AbortType ==
  ASSUME RunTypeOK, NEW w \in Admins, Abort(w)
  PROVE  RunTypeOK'
<1>1. EventsTyped /\ TablesTyped /\ RebuildsTyped /\ FlagsTyped
  BY RunTypeIs
<1>2. rebuild' \in [Admins -> Rebuilder]
  BY <1>1, IdleTyped DEF Abort, RebuildsTyped
<1> QED
  BY <1>1, <1>2, OtherTypes DEF Abort, projections, tables, row, TablesTyped, FlagsTyped

LEMMA SameRunType ==
  ASSUME RunTypeOK, UNCHANGED runVars
  PROVE  RunTypeOK'
<1>1. EventsTyped /\ TablesTyped /\ RebuildsTyped /\ FlagsTyped
  BY RunTypeIs
<1> QED
  BY <1>1, OtherTypes DEF runVars, projections, repair, tables, row, TablesTyped, FlagsTyped, RebuildsTyped

-----------------------------------------------------------------------------
(* What is left to replay, the greatest of some events, and the agent's    *)
(* tables while the script stays what it is.                               *)

LEMMA GreatestIs ==
  ASSUME NEW S \in SUBSET Nat, NEW m \in S, \A y \in S : y <= m
  PROVE  Max(S) = m
<1>1. Max(S) \in S /\ \A y \in S : Max(S) >= y
  BY DEF Max
<1>2. Max(S) <= m /\ m <= Max(S) /\ Max(S) \in Nat /\ m \in Nat
  BY <1>1
<1> QED
  BY <1>2

LEMMA GreatestOfMore ==
  ASSUME script \in Seq(Events), NEW S \in SUBSET Seqs, NEW s \in Seqs
  PROVE  Max(S \cup {s} \cup {0}) = Cursor(Max(S \cup {0}), s)
<1> DEFINE T == S \cup {0}
           U == S \cup {s} \cup {0}
           c == Cursor(Max(T), s)
<1>1. T \subseteq 0 .. Len(script) /\ Len(script) \in Nat /\ T # {}
  BY SeqsAre
<1>2. Max(T) \in T /\ \A y \in T : y <= Max(T)
  <2> HIDE DEF T
  <2> QED
    BY <1>1, Greatest
<1>3. c \in {Max(T), s} /\ Max(T) <= c /\ s <= c
  <2>1. Max(T) \in 0 .. Len(script)
    BY <1>1, <1>2
  <2> QED
    BY <2>1, CursorTyped
<1>4. c \in U /\ U \subseteq Nat
  BY <1>2, <1>3, SeqsAre
<1>5. ASSUME NEW y \in U PROVE y <= c
  <2>1. y \in Nat /\ c \in Nat /\ Max(T) \in Nat
    BY <1>1, <1>2, <1>4
  <2>2. y = s \/ y <= Max(T)
    BY <1>2
  <2> QED
    BY <1>3, <2>1, <2>2
<1> HIDE DEF U, c
<1> QED
  BY <1>4, <1>5, GreatestIs DEF U, c

LEMMA HeadOff ==
  ASSUME NEW S, NEW q \in Seq(S), q # <<>>, Ascends(q), S \subseteq Nat
  PROVE  /\ Head(q) \in S /\ Tail(q) \in Seq(S) /\ Ascends(Tail(q)) /\ Len(Tail(q)) = Len(q) - 1
         /\ \A i \in 1 .. Len(q) - 1 : Tail(q)[i] = q[i + 1]
         /\ Range(q) = {Head(q)} \cup Range(Tail(q)) /\ Head(q) \notin Range(Tail(q))
         /\ Range(q) \subseteq S /\ Len(q) \in Nat /\ Len(q) > 0 /\ Head(q) = q[1]
         /\ (Tail(q) = <<>> => Range(Tail(q)) = {}) /\ DOMAIN Tail(q) = 1 .. Len(q) - 1
<1> DEFINE t == Tail(q)
           n == Len(q)
<1>1. n \in Nat /\ n > 0 /\ DOMAIN q = 1 .. n /\ Head(q) = q[1] /\ \A i \in 1 .. n : q[i] \in S
  BY EmptySeq
<1>2. t \in Seq(S) /\ Len(t) = n - 1 /\ DOMAIN t = 1 .. n - 1 /\ \A i \in 1 .. n - 1 : t[i] = q[i + 1]
  BY <1>1
<1> HIDE DEF t, n
<1>3. Ascends(t)
  <2> SUFFICES ASSUME NEW i \in 1 .. n - 1, NEW j \in 1 .. n - 1, i < j PROVE t[i] < t[j]
    BY <1>2 DEF Ascends
  <2>1. i + 1 \in 1 .. n /\ j + 1 \in 1 .. n /\ i + 1 < j + 1
    BY <1>1
  <2>2. q[i + 1] < q[j + 1]
    BY <1>1, <2>1 DEF Ascends
  <2> QED
    BY <1>2, <2>2
<1>4. Range(q) = {q[i] : i \in 1 .. n} /\ Range(t) = {t[i] : i \in 1 .. n - 1}
  BY <1>1, <1>2 DEF Range
<1>5. Range(t) = {q[i] : i \in 2 .. n}
  <2>1. \A i \in 1 .. n - 1 : i + 1 \in 2 .. n
    BY <1>1
  <2>2. \A i \in 2 .. n : i - 1 \in 1 .. n - 1 /\ t[i - 1] = q[i]
    BY <1>1, <1>2
  <2> QED
    BY <1>2, <1>4, <2>1, <2>2
<1>6. 1 .. n = {1} \cup 2 .. n
  BY <1>1
<1>7. Range(q) = {Head(q)} \cup Range(t)
  BY <1>1, <1>4, <1>5, <1>6
<1>8. ASSUME Head(q) \in Range(t) PROVE FALSE
  <2>1. PICK i \in 2 .. n : q[i] = q[1]
    BY <1>1, <1>5, <1>8
  <2>2. 1 \in 1 .. n /\ i \in 1 .. n /\ 1 < i
    BY <1>1
  <2>3. q[1] < q[i] /\ q[1] \in Nat /\ q[i] \in Nat
    BY <1>1, <2>2 DEF Ascends
  <2> QED
    BY <2>1, <2>3
<1>9. Range(q) \subseteq S
  BY <1>1, <1>4
<1>10. t = <<>> => Range(t) = {}
  BY DEF Range
<1> QED
  BY <1>1, <1>2, <1>3, <1>7, <1>8, <1>9, <1>10 DEF t, n

(* The agent's tables are what its events make of them, in every state.    *)
Unfolds ==
  /\ Mirror[0] = [messages |-> {}, tools |-> [i \in Items |-> NoTool]]
  /\ \A n \in 1 .. Len(script) : Mirror[n] = MirrorNext(Mirror[n - 1], n)

LEMMA UnfoldsAlways == script \in Seq(Events) => Unfolds
BY MirrorUnfolds DEF Unfolds

LEMMA UnfoldsNext == (script \in Seq(Events))' => Unfolds'
BY UnfoldsAlways, PTL

LEMMA SameEffects ==
  ASSUME script' = script
  PROVE  /\ \A s : IsStep(s)' = IsStep(s)
         /\ \A m, n : MirrorNext(m, n)' = MirrorNext(m, n)
<1>1. \A s : Text(s)' = Text(s)
  <2> TAKE s
  <2>1. {t \in 1 .. s : script'[t].item = script'[s].item /\ script'[t].kind \in AssistantKinds}
        = {t \in 1 .. s : script[t].item = script[s].item /\ script[t].kind \in AssistantKinds}
    OBVIOUS
  <2> QED
    BY <2>1 DEF Text
<1>2. \A rows, s, read : Messages(rows, s, read)' = Messages(rows, s, read)
  <2> TAKE rows, s, read
  <2>1. Text(s)' = Text(s)
    BY <1>1
  <2>2. WriteMessage(rows, s, read)' = WriteMessage(rows, s, read)
    BY <2>1 DEF WriteMessage, Put
  <2> QED
    BY <2>2 DEF Messages
<1>3. \A calls, s : Tools(calls, s)' = Tools(calls, s)
  BY DEF Tools
<1>4. \A s : IsStep(s)' = IsStep(s)
  BY DEF IsStep
<1> QED
  BY <1>2, <1>3, <1>4 DEF MirrorNext

LEMMA SameMirror ==
  ASSUME script \in Seq(Events), script' = script
  PROVE  \A n \in 0 .. Len(script) : Mirror'[n] = Mirror[n]
<1> DEFINE L == Len(script)
           Good == {m \in 0 .. L : \A n \in 0 .. m : Mirror'[n] = Mirror[n]}
<1>1. /\ Mirror[0] = Mirror'[0]
      /\ \A n \in 1 .. L : Mirror[n] = MirrorNext(Mirror[n - 1], n)
      /\ L \in Nat
  BY UnfoldsAlways, UnfoldsNext DEF Unfolds
<1>2. \A n \in 1 .. L : Mirror'[n] = MirrorNext(Mirror'[n - 1], n)
  <2>1. \A n \in 1 .. L : Mirror'[n] = MirrorNext(Mirror[n - 1], n)'
    BY UnfoldsNext DEF Unfolds
  <2> QED
    BY <2>1, SameEffects
<1>3. 0 \in Good
  BY <1>1
<1> DEFINE m == Max(Good)
<1>4. m \in Good /\ \A k \in Good : k <= m
  <2>1. Good \subseteq 0 .. L /\ Good # {}
    BY <1>3
  <2> HIDE DEF Good
  <2> QED
    BY <1>1, <2>1, Greatest
<1>5. CASE m = L
  BY <1>4, <1>5
<1>6. CASE m # L
  <2> HIDE DEF m
  <2>1. m \in 0 .. L /\ m + 1 \in 1 .. L /\ m + 1 \in 0 .. L /\ \A n \in 0 .. m : Mirror'[n] = Mirror[n]
    BY <1>1, <1>4, <1>6
  <2>2. Mirror'[m + 1] = Mirror[m + 1]
    <3>1. (m + 1) - 1 = m /\ m \in 0 .. m
      BY <1>1, <2>1
    <3> QED
      BY <1>1, <1>2, <2>1, <3>1
  <2>3. \A n \in 0 .. m + 1 : n \in 0 .. m \/ n = m + 1
    BY <1>1, <2>1
  <2>4. m + 1 \in Good
    BY <2>1, <2>2, <2>3
  <2> QED
    BY <1>1, <1>4, <2>1, <2>4
<1> QED
  BY <1>5, <1>6

-----------------------------------------------------------------------------
(* Saving an event.                                                        *)

LEMMA SaveBeginKeeps ==
  ASSUME RunTypeOK, Projecting, NEW s \in Seqs, SaveBegin(s)
  PROVE  Projecting'
<1>1. /\ script \in Seq(Events) /\ RebuildsTyped /\ script' = script /\ stored' = stored
      /\ tables' = tables /\ row' = row /\ late' = late /\ s \notin Stored
      /\ saving = NoSave /\ saving' = [seq |-> s, read |-> LastRow(messages)]
  BY RunTypeIs DEF SaveBegin, EventsTyped
<1>2. Stored' = Stored /\ Seqs' = Seqs
  BY <1>1, SameScript, SameStored
<1>3. \A w \in Admins : /\ rebuild'[w].pc = rebuild[w].pc /\ rebuild'[w].todo = rebuild[w].todo
                        /\ rebuild'[w].alone = FALSE
  BY <1>1 DEF SaveBegin, RebuildsTyped, Rebuilder
<1>4. torn' = (torn \/ ~Quiet)
  BY DEF SaveBegin
<1>5. \A w \in Admins : Rebuilding(w)' <=> Rebuilding(w)
  BY <1>3 DEF Rebuilding
<1>6. Quiet' <=> Quiet
  BY <1>5 DEF Quiet
<1>7. Locked'
  <2>1. saving'.seq = s
    BY <1>1
  <2> QED
    BY <1>1, <1>2, <2>1 DEF Locked
<1>8. \A w \in Admins : Rebuilds(w)'
  <2> TAKE w \in Admins
  <2>1. Rebuilds(w)
    BY DEF Projecting
  <2>2. Rebuilding(w) => torn'
    BY <1>4 DEF Quiet
  <2> QED
    BY <1>2, <1>3, <1>5, <2>1, <2>2 DEF Rebuilds
<1>9. Alone'
  BY <1>3 DEF Alone
<1>10. ReadLocked'
  <2>1. saving'.read = LastRow(messages) /\ messages' = messages
    BY <1>1 DEF tables
  <2> QED
    BY <2>1 DEF ReadLocked
<1>11. (Quiet /\ ~torn)' => Quiet /\ ~torn
  BY <1>4, <1>6
<1>12. TablesComplete'
  BY <1>1, <1>2, <1>11, SameEffects DEF Projecting, TablesComplete, tables, row
<1>13. MatchesMirror'
  <2>1. Stored = 1 .. Len(stored) => Mirror'[Len(stored)] = Mirror[Len(stored)]
    <3>1. EventsTyped
      BY RunTypeIs
    <3>2. Stored = 1 .. Len(stored) => Len(stored) \in 0 .. Len(script)
      <4>1. ASSUME Stored = 1 .. Len(stored), Len(stored) # 0 PROVE Len(stored) <= Len(script)
        <5>1. Len(stored) \in Stored
          BY <3>1, <4>1, StoredAre
        <5> QED
          BY <3>1, <5>1, StoredAre
      <4> QED
        BY <1>1, <3>1, <4>1, StoredAre
    <3> QED
      BY <1>1, <3>2, SameMirror
  <2> QED
    BY <1>1, <1>2, <1>11, <2>1 DEF Projecting, MatchesMirror, tables
<1> QED
  BY <1>7, <1>8, <1>9, <1>10, <1>12, <1>13 DEF Projecting

LEMMA SameMirrorOf ==
  ASSUME EventsTyped, script' = script, Stored = 1 .. Len(stored)
  PROVE  Len(stored) \in 0 .. Len(script) /\ \A n \in 0 .. Len(stored) : Mirror'[n] = Mirror[n]
<1>1. Len(stored) \in Nat /\ script \in Seq(Events)
  BY StoredAre DEF EventsTyped
<1>2. Len(stored) # 0 => Len(stored) \in Stored
  BY <1>1
<1>3. Len(stored) \in 0 .. Len(script)
  BY <1>1, <1>2, StoredAre, SeqsAre
<1>4. \A n \in 0 .. Len(stored) : n \in 0 .. Len(script)
  BY <1>1, <1>3
<1> QED
  BY <1>1, <1>3, <1>4, SameMirror

LEMMA SaveCommitKeeps ==
  ASSUME RunTypeOK, Projecting, SaveCommit
  PROVE  Projecting'
<1> DEFINE s == saving.seq
           n == Len(stored)
<1>1. /\ EventsTyped /\ script' = script /\ stored' = Append(stored, s) /\ rebuild' = rebuild /\ torn' = torn
      /\ saving' = NoSave /\ saving # NoSave /\ s \in Seqs \ Stored /\ script \in Seq(Events)
  BY RunTypeIs DEF SaveCommit, EventsTyped, Projecting, Locked
<1>2. Stored' = Stored \cup {s} /\ Len(stored') = n + 1 /\ n \in Nat
  BY <1>1, StoreMore, StoredAre
<1>3. \A w \in Admins : Rebuilding(w) => ~rebuild[w].alone
  BY <1>1 DEF Projecting, Rebuilds
<1>4. /\ \A w \in Admins : Rebuilding(w)' <=> Rebuilding(w)
      /\ Quiet' <=> Quiet
  BY <1>1 DEF Rebuilding, Quiet
<1>5. Locked' /\ ReadLocked'
  BY <1>1 DEF Locked, ReadLocked, NoSave
<1>6. \A w \in Admins : Rebuilds(w)'
  <2> TAKE w \in Admins
  <2>1. Rebuilds(w)
    BY DEF Projecting
  <2>2. rebuild[w].pc \in Clearing => Rebuilding(w)
    BY DEF Rebuilding
  <2> QED
    BY <1>1, <1>3, <1>4, <2>1, <2>2 DEF Rebuilds, Ascends
<1>7. Alone'
  BY <1>1, <1>3, <1>4 DEF Alone
<1>8. TablesComplete'
  <2> SUFFICES ASSUME Quiet, ~torn
               PROVE  /\ steps' = {t \in Stored' : IsStep(t)'} /\ timeline' = {t \in Stored' : script[t].codex}
                      /\ cursor' = Max(Stored' \cup {0})
    BY <1>1, <1>4 DEF TablesComplete
  <2>1. /\ steps = {t \in Stored : IsStep(t)} /\ timeline = {t \in Stored : script[t].codex}
        /\ cursor = Max(Stored \cup {0})
    BY DEF Projecting, TablesComplete
  <2>2. steps' = Steps(steps, s) /\ timeline' = Lines(timeline, s) /\ cursor' = Cursor(cursor, s)
    BY DEF SaveCommit
  <2>3. Max(Stored \cup {s} \cup {0}) = Cursor(Max(Stored \cup {0}), s)
    BY <1>1, StoredAre, GreatestOfMore
  <2>4. steps' = {t \in Stored' : IsStep(t)}
    BY <1>2, <2>1, <2>2 DEF Steps
  <2>5. timeline' = {t \in Stored' : script[t].codex}
    BY <1>2, <2>1, <2>2 DEF Lines
  <2> QED
    BY <1>1, <1>2, <2>1, <2>2, <2>3, <2>4, <2>5, SameEffects
<1>9. MatchesMirror'
  <2> SUFFICES ASSUME Quiet, ~torn, ~late', Stored' = 1 .. n + 1
               PROVE  messages' = Mirror'[n + 1].messages /\ tools' = Mirror'[n + 1].tools
    BY <1>1, <1>2, <1>4 DEF MatchesMirror
  <2>1. ~late /\ \A t \in Stored : t \in Nat /\ ~(t > s)
    BY <1>1, StoredAre DEF SaveCommit
  <2>2. s \in 1 .. n + 1 /\ n + 1 \in Stored \cup {s}
    BY <1>2
  <2>3. s = n + 1
    BY <1>1, <1>2, <2>1, <2>2
  <2>4. Stored = 1 .. n
    <3>1. Stored = (1 .. n + 1) \ {n + 1}
      BY <1>1, <1>2, <2>3
    <3> QED
      BY <1>2, <3>1
  <2>5. messages = Mirror[n].messages /\ tools = Mirror[n].tools
    BY <2>1, <2>4 DEF Projecting, MatchesMirror
  <2>6. saving.read = LastRow(messages)
    BY <1>1 DEF Projecting, ReadLocked
  <2>7. Mirror[n + 1] = MirrorNext(Mirror[n], n + 1)
    <3>1. n + 1 \in 1 .. Len(script) /\ (n + 1) - 1 = n
      BY <1>1, <1>2, <2>3, SeqsAre
    <3> QED
      BY <1>1, <3>1, MirrorUnfolds
  <2>8. Mirror'[n + 1] = Mirror[n + 1]
    <3>1. n + 1 \in 0 .. Len(script)
      BY <1>1, <2>3, SeqsAre
    <3> QED
      BY <1>1, <3>1, SameMirror
  <2>9. messages' = Messages(messages, s, saving.read) /\ tools' = Tools(tools, s)
    BY DEF SaveCommit
  <2> HIDE DEF s, n
  <2> QED
    BY <2>3, <2>5, <2>6, <2>7, <2>8, <2>9 DEF MirrorNext, s
<1> QED
  BY <1>5, <1>6, <1>7, <1>8, <1>9 DEF Projecting

-----------------------------------------------------------------------------
(* A rebuild starts, clears the tables and breaks off.                     *)

(* n ascending numbers out of 1 .. n are all of them.                      *)
LEMMA AllInOrder ==
  ASSUME NEW n \in Nat, NEW q \in Seq(1 .. n), Len(q) = n, Ascends(q)
  PROVE  \A i \in 1 .. n : q[i] = i
<1> DEFINE AtLeast == {m \in 0 .. n : \A k \in 1 .. m : q[k] >= k}
           AtMost == {m \in 0 .. n : \A k \in 1 .. n : k > n - m => q[k] <= k}
<1>1. \A i \in 1 .. n : q[i] \in 1 .. n
  OBVIOUS
<1>2. \A i, j \in 1 .. n : i < j => q[i] < q[j]
  BY DEF Ascends
<1>3. n \in AtLeast
  <2> DEFINE m == Max(AtLeast)
  <2>1. 0 \in AtLeast
    OBVIOUS
  <2>2. m \in AtLeast /\ \A k \in AtLeast : k <= m
    <3>1. AtLeast \in SUBSET (0 .. n) /\ AtLeast # {}
      BY <2>1
    <3> HIDE DEF AtLeast
    <3> QED
      BY <3>1, Greatest
  <2>3. CASE m # n
    <3> HIDE DEF m
    <3>1. m \in 0 .. n /\ m + 1 \in 0 .. n /\ m + 1 \in 1 .. n /\ \A k \in 1 .. m : q[k] >= k
      BY <2>2, <2>3
    <3>2. q[m + 1] >= m + 1
      <4>1. CASE m = 0
        BY <1>1, <3>1, <4>1
      <4>2. CASE m # 0
        <5>1. m \in 1 .. n /\ m \in 1 .. m /\ m < m + 1
          BY <3>1, <4>2
        <5>2. q[m] < q[m + 1] /\ q[m] >= m /\ q[m] \in Nat /\ q[m + 1] \in Nat
          BY <1>1, <1>2, <3>1, <5>1
        <5> QED
          BY <3>1, <5>2
      <4> QED
        BY <4>1, <4>2
    <3>3. \A k \in 1 .. m + 1 : k \in 1 .. m \/ k = m + 1
      BY <3>1
    <3>4. m + 1 \in AtLeast
      BY <3>1, <3>2, <3>3
    <3>5. m + 1 <= m
      <4> HIDE DEF AtLeast
      <4> QED
        BY <2>2, <3>4
    <3> QED
      BY <3>1, <3>5
  <2> QED
    BY <2>2, <2>3
<1>4. n \in AtMost
  <2> DEFINE m == Max(AtMost)
  <2>1. 0 \in AtMost
    OBVIOUS
  <2>2. m \in AtMost /\ \A k \in AtMost : k <= m
    <3>1. AtMost \in SUBSET (0 .. n) /\ AtMost # {}
      BY <2>1
    <3> HIDE DEF AtMost
    <3> QED
      BY <3>1, Greatest
  <2>3. CASE m # n
    <3> HIDE DEF m
    <3>1. m \in 0 .. n /\ m + 1 \in 0 .. n /\ n - m \in 1 .. n /\ \A k \in 1 .. n : k > n - m => q[k] <= k
      BY <2>2, <2>3
    <3>2. q[n - m] <= n - m
      <4>1. CASE m = 0
        <5>1. n - m = n /\ q[n] \in 1 .. n
          BY <1>1, <3>1, <4>1
        <5> QED
          BY <5>1
      <4>2. CASE m # 0
        <5>1. n - m + 1 \in 1 .. n /\ n - m < n - m + 1
          BY <3>1, <4>2
        <5>2. q[n - m] < q[n - m + 1] /\ q[n - m + 1] <= n - m + 1 /\ q[n - m] \in Nat /\ q[n - m + 1] \in Nat
          BY <1>1, <1>2, <3>1, <5>1
        <5> QED
          BY <3>1, <5>2
      <4> QED
        BY <4>1, <4>2
    <3>3. \A k \in 1 .. n : k > n - (m + 1) => k > n - m \/ k = n - m
      BY <3>1
    <3>4. m + 1 \in AtMost
      BY <3>1, <3>2, <3>3
    <3> QED
      BY <2>2, <3>1, <3>4
  <2> QED
    BY <2>2, <2>3
<1>5. \A i \in 1 .. n : q[i] >= i /\ q[i] <= i /\ q[i] \in Nat
  <2>1. \A i \in 1 .. n : i \in 1 .. n /\ i > n - n
    OBVIOUS
  <2> QED
    BY <1>1, <1>3, <1>4, <2>1
<1> QED
  BY <1>5

LEMMA SelectKeeps ==
  ASSUME RunTypeOK, Projecting, NEW w \in Admins, Select(w)
  PROVE  Projecting'
<1> DEFINE alone == Quiet /\ saving = NoSave
           q == InOrder(Stored)
<1>1. /\ script' = script /\ stored' = stored /\ saving' = saving /\ EventsTyped /\ RebuildsTyped
      /\ Stored' = Stored /\ Seqs' = Seqs
  <2>1. script' = script /\ stored' = stored /\ saving' = saving
    BY DEF Select, projections
  <2> QED
    BY <2>1, RunTypeIs, SameScript, SameStored
<1>2. /\ rebuild'[w] = [pc |-> "steps", todo |-> q, read |-> NoRow, alone |-> alone]
      /\ \A v \in Admins \ {w} : rebuild'[v] = [rebuild[v] EXCEPT !.alone = FALSE]
      /\ torn' = (torn \/ ~alone)
      /\ Ascends(q) /\ Range(q) = Stored /\ q \in Seq(Stored) /\ q # <<>>
      /\ Len(q) = Cardinality(Stored) /\ Cardinality(Stored) \in Nat
  BY SelectIs
<1> HIDE DEF q
<1>3. rebuild'[w].pc = "steps" /\ rebuild'[w].todo = q /\ rebuild'[w].alone = alone
  <2> HIDE DEF alone
  <2> QED
    BY <1>2
<1>4. \A v \in Admins \ {w} : /\ rebuild'[v].pc = rebuild[v].pc /\ rebuild'[v].todo = rebuild[v].todo
                              /\ rebuild'[v].alone = FALSE
  BY <1>1, <1>2 DEF RebuildsTyped, Rebuilder
<1>5. Rebuilding(w)' /\ \A v \in Admins \ {w} : Rebuilding(v)' <=> Rebuilding(v)
  BY <1>3, <1>4 DEF Rebuilding, Clearing
<1>6. ~Quiet'
  BY <1>5 DEF Quiet
<1>7. Locked'
  BY <1>1 DEF Projecting, Locked
<1>8. ASSUME NEW v \in Admins PROVE Rebuilds(v)'
  <2>1. CASE v = w
    BY <1>1, <1>2, <1>3, <1>5, <2>1 DEF Rebuilds, Quiet
  <2>2. CASE v # w
    <3>1. Rebuilds(v)
      BY DEF Projecting
    <3>2. Rebuilding(v) => torn'
      BY <1>2 DEF Quiet
    <3> QED
      BY <1>1, <1>4, <1>5, <2>2, <3>1, <3>2 DEF Rebuilds
  <2> QED
    BY <2>1, <2>2
<1>9. Alone'
  <2> SUFFICES ASSUME NEW v \in Admins, Rebuilding(v)', rebuild'[v].alone
               PROVE  TablesSoFar(rebuild[v])' /\ MirrorSoFar(rebuild[v])' /\ ReadBefore(rebuild[v])'
    BY DEF Alone
  <2>1. v = w
    BY <1>4
  <2>2. MirrorSoFar(rebuild[v])'
    <3> SUFFICES ASSUME Stored = 1 .. Len(stored), NEW i \in DOMAIN q
                 PROVE  q[i] = Len(stored) - Len(q) + i
      BY <1>1, <1>3, <2>1 DEF MirrorSoFar, Replaying
    <3>1. Len(stored) \in Nat
      BY <1>1, StoredAre
    <3>2. Len(q) = Len(stored)
      <4>1. Cardinality(1 .. Len(stored)) = IF 1 > Len(stored) THEN 0 ELSE Len(stored) - 1 + 1
        BY <3>1, FS_Interval
      <4> QED
        BY <1>2, <3>1, <4>1
    <3>3. q[i] = i /\ i \in Nat
      <4>1. q \in Seq(1 .. Len(stored)) /\ i \in 1 .. Len(stored)
        BY <1>2, <3>2
      <4> QED
        BY <1>2, <3>1, <3>2, <4>1, AllInOrder
    <3> QED
      BY <3>1, <3>2, <3>3
  <2> QED
    BY <1>3, <2>1, <2>2 DEF TablesSoFar, ReadBefore, Replaying
<1>10. ReadLocked' /\ TablesComplete' /\ MatchesMirror'
  BY <1>6 DEF ReadLocked, TablesComplete, MatchesMirror
<1> QED
  BY <1>7, <1>8, <1>9, <1>10 DEF Projecting

LEMMA AbortKeeps ==
  ASSUME RunTypeOK, Projecting, NEW w \in Admins, Abort(w)
  PROVE  Projecting'
<1>1. /\ script' = script /\ stored' = stored /\ saving' = saving /\ torn' = TRUE
      /\ messages' = messages /\ tools' = tools /\ steps' = steps /\ timeline' = timeline /\ cursor' = cursor
      /\ rebuild' = [rebuild EXCEPT ![w] = Idle] /\ EventsTyped /\ RebuildsTyped
  BY RunTypeIs DEF Abort, projections, tables, row
<1>2. Stored' = Stored /\ Seqs' = Seqs
  BY <1>1, SameScript, SameStored
<1>3. rebuild'[w] = Idle /\ \A v \in Admins \ {w} : rebuild'[v] = rebuild[v]
  BY <1>1 DEF RebuildsTyped
<1>4. ~Rebuilding(w)' /\ \A v \in Admins \ {w} : Rebuilding(v)' <=> Rebuilding(v)
  BY <1>3 DEF Rebuilding, Idle, Clearing, Replaying
<1>5. Locked'
  BY <1>1, <1>2 DEF Projecting, Locked
<1>6. ASSUME NEW v \in Admins PROVE Rebuilds(v)'
  <2>1. CASE v = w
    BY <1>3, <1>4, <2>1 DEF Rebuilds, Idle, Clearing
  <2>2. CASE v # w
    <3>1. Rebuilds(v)
      BY DEF Projecting
    <3> QED
      BY <1>1, <1>2, <1>3, <1>4, <2>2, <3>1 DEF Rebuilds
  <2> QED
    BY <2>1, <2>2
<1>7. Rebuilding(w) /\ \A v \in Admins : Rebuilding(v) /\ rebuild[v].alone => v = w
  <2>1. Rebuilding(w)
    BY DEF Abort
  <2> QED
    BY <2>1 DEF Projecting, Rebuilds
<1>8. Alone'
  BY <1>3, <1>4, <1>7 DEF Alone
<1>9. ReadLocked' /\ TablesComplete' /\ MatchesMirror'
  BY <1>1 DEF ReadLocked, TablesComplete, MatchesMirror
<1> QED
  BY <1>5, <1>6, <1>8, <1>9 DEF Projecting

-----------------------------------------------------------------------------
(* A statement of a rebuild.                                               *)

Complete ==
  /\ steps = {s \in Stored : IsStep(s)} /\ timeline = {s \in Stored : script[s].codex}
  /\ cursor = Max(Stored \cup {0})

AsMirrored ==
  Stored = 1 .. Len(stored) =>
    messages = Mirror[Len(stored)].messages /\ tools = Mirror[Len(stored)].tools

(* A rebuild that has not the run to itself leaves it torn.                *)
LEMMA TornStepKeeps ==
  ASSUME Projecting, NEW w \in Admins, Rebuilding(w), ~rebuild[w].alone, rebuild'[w].alone = FALSE,
         script' = script, stored' = stored, saving' = saving,
         torn' = torn, \A v \in Admins \ {w} : rebuild'[v] = rebuild[v],
         Rebuilding(w)' => rebuild'[w].todo # <<>> /\ Ascends(rebuild'[w].todo)
  PROVE  Projecting'
<1>1. Stored' = Stored /\ Seqs' = Seqs
  BY SameScript, SameStored
<1>2. torn'
  BY DEF Projecting, Rebuilds
<1>3. \A v \in Admins \ {w} : Rebuilding(v)' <=> Rebuilding(v)
  BY DEF Rebuilding
<1>4. \A v \in Admins \ {w} : ~(Rebuilding(v) /\ rebuild[v].alone)
  BY DEF Projecting, Rebuilds
<1>5. Locked'
  BY <1>1 DEF Projecting, Locked
<1>6. ASSUME NEW v \in Admins PROVE Rebuilds(v)'
  <2>1. CASE v = w
    BY <1>2, <2>1 DEF Rebuilds
  <2>2. CASE v # w
    <3>1. Rebuilds(v)
      BY DEF Projecting
    <3>2. rebuild[v].pc \in Clearing => Rebuilding(v)
      BY DEF Rebuilding
    <3> QED
      BY <1>1, <1>2, <1>3, <1>4, <2>2, <3>1, <3>2 DEF Rebuilds
  <2> QED
    BY <2>1, <2>2
<1>7. Alone'
  BY <1>3, <1>4 DEF Alone
<1>8. ReadLocked' /\ TablesComplete' /\ MatchesMirror'
  BY <1>2 DEF ReadLocked, TablesComplete, MatchesMirror
<1> QED
  BY <1>5, <1>6, <1>7, <1>8 DEF Projecting

LEMMA AloneStepKeeps ==
  ASSUME Projecting, NEW w \in Admins, Rebuilding(w), rebuild[w].alone,
         script' = script, stored' = stored, saving' = saving,
         \A v \in Admins \ {w} : rebuild'[v] = rebuild[v], rebuild'[w].alone = TRUE,
         Rebuilding(w)' =>
           /\ rebuild'[w].todo # <<>> /\ Ascends(rebuild'[w].todo)
           /\ rebuild'[w].pc \in Clearing => Range(rebuild'[w].todo) = Stored
           /\ TablesSoFar(rebuild[w])' /\ MirrorSoFar(rebuild[w])' /\ ReadBefore(rebuild[w])',
         ~Rebuilding(w)' => Complete' /\ AsMirrored'
  PROVE  Projecting'
<1>1. Stored' = Stored /\ Seqs' = Seqs
  BY SameScript, SameStored
<1>2. saving = NoSave /\ \A v \in Admins \ {w} : ~Rebuilding(v)
  BY DEF Projecting, Rebuilds
<1>3. \A v \in Admins \ {w} : ~Rebuilding(v)'
  BY <1>2 DEF Rebuilding
<1>4. Locked' /\ ReadLocked'
  BY <1>2 DEF Locked, ReadLocked
<1>5. ASSUME NEW v \in Admins PROVE Rebuilds(v)'
  <2>1. CASE v = w
    <3>1. rebuild'[w].pc \in Clearing => Rebuilding(w)'
      BY DEF Rebuilding
    <3> QED
      BY <1>1, <1>2, <1>3, <2>1, <3>1 DEF Rebuilds
  <2>2. CASE v # w
    <3>1. rebuild'[v].pc \in Clearing => Rebuilding(v)'
      BY DEF Rebuilding
    <3> QED
      BY <1>3, <2>2, <3>1 DEF Rebuilds
  <2> QED
    BY <2>1, <2>2
<1>6. Alone'
  BY <1>3 DEF Alone
<1>7. TablesComplete'
  <2>1. Quiet' => ~Rebuilding(w)'
    BY DEF Quiet
  <2> QED
    BY <2>1 DEF TablesComplete, Complete
<1>8. MatchesMirror'
  <2>1. Quiet' => ~Rebuilding(w)'
    BY DEF Quiet
  <2> QED
    BY <2>1 DEF MatchesMirror, AsMirrored
<1> QED
  BY <1>4, <1>5, <1>6, <1>7, <1>8 DEF Projecting

LEMMA ClearKeeps ==
  ASSUME RunTypeOK, Projecting, NEW w \in Admins, Clear(w)
  PROVE  Projecting'
<1> DEFINE x == rebuild[w]
           n == Len(stored)
<1>1. /\ script' = script /\ stored' = stored /\ saving' = saving /\ torn' = torn /\ late' = late
      /\ EventsTyped /\ RebuildsTyped /\ x \in Rebuilder
  BY RunTypeIs DEF Clear, RebuildsTyped
<1>2. Stored' = Stored /\ Seqs' = Seqs
  BY <1>1, SameScript, SameStored
<1>3. x.pc \in Clearing /\ Rebuilding(w)
  BY DEF Clear, Rebuilding, Clearing
<1>4. PICK pc \in {"messages", "tools", "timeline", "run", "cursor"} : rebuild' = [rebuild EXCEPT ![w].pc = pc]
  BY DEF Clear, Go
<1>5. /\ rebuild'[w].pc = pc /\ rebuild'[w].todo = x.todo /\ rebuild'[w].alone = x.alone
      /\ \A v \in Admins \ {w} : rebuild'[v] = rebuild[v]
  BY <1>1, <1>4 DEF RebuildsTyped, Rebuilder
<1>6. x.todo # <<>> /\ Ascends(x.todo)
  BY <1>3 DEF Projecting, Rebuilds
<1>7. CASE ~x.alone
  <2>1. rebuild'[w].alone = FALSE
    BY <1>1, <1>5, <1>7, RebuilderFields
  <2> QED
    BY <1>1, <1>3, <1>5, <1>6, <1>7, <2>1, TornStepKeeps
<1>8. CASE x.alone
  <2>1. Range(x.todo) = Stored /\ TablesSoFar(x) /\ MirrorSoFar(x)
    BY <1>3, <1>8 DEF Projecting, Rebuilds, Alone
  <2>2. \A A : pc \in A => SoFar(rebuild[w], A)' = {}
    BY <1>2, <1>5, <2>1 DEF SoFar, Past
  <2>3. \A A : x.pc \in A => SoFar(x, A) = {}
    BY <2>1 DEF SoFar, Past
  <2>4. TablesSoFar(rebuild[w])'
    <3>1. steps' = {}
      <4>1. x.pc # "steps" => steps = {}
        BY <1>3, <2>1, <2>3 DEF TablesSoFar
      <4> QED
        BY <4>1 DEF Clear, tables
    <3>2. pc \in {"run"} \cup Replaying => timeline' = {}
      <4>1. pc \in {"run", "cursor"} => x.pc \in {"timeline", "run"}
        BY <1>1, <1>5 DEF Clear, Go, RebuildsTyped, Rebuilder
      <4>2. x.pc = "timeline" => timeline' = {}
        BY DEF Clear
      <4>3. x.pc = "run" => timeline = {} /\ timeline' = timeline
        BY <2>1, <2>3 DEF TablesSoFar, Clear, tables
      <4> QED
        BY <4>1, <4>2, <4>3 DEF Replaying
    <3>3. pc \in Replaying => cursor' = Max(SoFar(rebuild[w], {"cursor"})' \cup {0})
      <4>1. pc \in Replaying => pc = "cursor" /\ cursor' = 0
        BY <1>1, <1>5 DEF Clear, Go, RebuildsTyped, Rebuilder, Replaying
      <4>2. Max({} \cup {0}) = 0
        BY GreatestIs
      <4> QED
        BY <2>2, <4>1, <4>2
    <3>4. pc # "steps" => steps' = {s \in SoFar(rebuild[w], Clearing \cup {"cursor", "read", "write"})' : IsStep(s)'}
      BY <2>2, <3>1 DEF Clearing
    <3>5. pc \in {"run"} \cup Replaying =>
             timeline' = {s \in SoFar(rebuild[w], {"run", "cursor", "read", "write", "line"})' : script'[s].codex}
      BY <2>2, <3>2 DEF Replaying
    <3> QED
      BY <1>5, <3>3, <3>4, <3>5 DEF TablesSoFar
  <2>5. MirrorSoFar(rebuild[w])'
    <3> SUFFICES ASSUME Stored = 1 .. n
                 PROVE  /\ \A i \in DOMAIN x.todo : x.todo[i] = n - Len(x.todo) + i
                        /\ pc \in {"tools", "timeline", "run"} \cup Replaying =>
                             messages' = Mirror'[Replayed(rebuild[w])'].messages
                        /\ pc \in {"timeline", "run"} \cup Replaying =>
                             tools' = Mirror'[Replayed(rebuild[w])'].tools
      BY <1>1, <1>2, <1>5 DEF MirrorSoFar
    <3>1. \A i \in DOMAIN x.todo : x.todo[i] = n - Len(x.todo) + i
      BY <2>1 DEF MirrorSoFar
    <3>2. n = Len(x.todo)
      <4>1. x.todo \in Seq(Stored) /\ n \in Nat
        BY <1>1, RebuilderFields, StoredAre
      <4>2. Len(x.todo) \in Nat /\ Len(x.todo) > 0 /\ DOMAIN x.todo = 1 .. Len(x.todo)
        BY <1>6, <4>1
      <4>3. x.todo[1] \in 1 .. n /\ x.todo[1] = n - Len(x.todo) + 1
        <5>1. 1 \in DOMAIN x.todo
          BY <4>2
        <5>2. x.todo[1] \in Stored
          BY <4>1, <5>1
        <5> QED
          BY <3>1, <5>1, <5>2
      <4>4. PICK i \in DOMAIN x.todo : x.todo[i] = 1
        <5>1. 1 \in Range(x.todo)
          BY <2>1, <4>1, <4>3
        <5> QED
          BY <5>1 DEF Range
      <4>5. n - Len(x.todo) + i = 1 /\ i \in Nat /\ i >= 1
        BY <3>1, <4>2, <4>4
      <4> QED
        BY <4>1, <4>2, <4>3, <4>5
    <3>3. Replayed(rebuild[w])' = 0 /\ (x.pc \in {"tools", "timeline", "run"} => Replayed(x) = 0)
      BY <1>1, <1>3, <1>5, <3>2, StoredAre DEF Replayed, Clearing
    <3>4. Mirror'[0] = Mirror[0] /\ Mirror[0] = [messages |-> {}, tools |-> [i \in Items |-> NoTool]]
      <4>1. 0 \in 0 .. Len(stored)
        BY <1>1, StoredAre
      <4>2. Mirror'[0] = Mirror[0]
        BY <1>1, <4>1, SameMirrorOf
      <4> QED
        BY <1>1, <4>2, MirrorUnfolds DEF EventsTyped
    <3>5. pc \in {"tools", "timeline", "run"} \cup Replaying => messages' = {}
      <4>1. pc \in {"tools", "timeline", "run", "cursor"} => x.pc \in {"messages", "tools", "timeline", "run"}
        BY <1>1, <1>5 DEF Clear, Go, RebuildsTyped, Rebuilder
      <4>2. x.pc = "messages" => messages' = {}
        BY DEF Clear
      <4>3. x.pc \in {"tools", "timeline", "run"} => messages = {} /\ messages' = messages
        <5>1. x.pc \in {"tools", "timeline", "run"} => messages = Mirror[0].messages
          BY <2>1, <3>3 DEF MirrorSoFar
        <5>2. x.pc \in {"tools", "timeline", "run"} => messages' = messages
          BY DEF Clear, tables
        <5> QED
          BY <3>4, <5>1, <5>2
      <4> QED
        BY <4>1, <4>2, <4>3 DEF Replaying
    <3>6. pc \in {"timeline", "run"} \cup Replaying => tools' = [i \in Items |-> NoTool]
      <4>1. pc \in {"timeline", "run", "cursor"} => x.pc \in {"tools", "timeline", "run"}
        BY <1>1, <1>5 DEF Clear, Go, RebuildsTyped, Rebuilder
      <4>2. x.pc = "tools" => tools' = [i \in Items |-> NoTool]
        BY DEF Clear
      <4>3. x.pc \in {"timeline", "run"} => tools = [i \in Items |-> NoTool] /\ tools' = tools
        <5>1. x.pc \in {"timeline", "run"} => tools = Mirror[0].tools
          BY <2>1, <3>3 DEF MirrorSoFar
        <5>2. x.pc \in {"timeline", "run"} => tools' = tools
          BY DEF Clear, tables
        <5> QED
          BY <3>4, <5>1, <5>2
      <4> QED
        BY <4>1, <4>2, <4>3 DEF Replaying
    <3> QED
      BY <3>1, <3>3, <3>4, <3>5, <3>6
  <2>6. ReadBefore(rebuild[w])'
    BY <1>5 DEF ReadBefore
  <2>7. Rebuilding(w)' /\ rebuild'[w].alone = TRUE
    BY <1>1, <1>5, <1>8 DEF Rebuilding, Clearing, Replaying, Rebuilder
  <2> QED
    BY <1>1, <1>3, <1>5, <1>6, <1>8, <2>1, <2>4, <2>5, <2>6, <2>7, AloneStepKeeps
<1> QED
  BY <1>7, <1>8

(* What a statement of an undisturbed rebuild leaves, when the event's     *)
(* next one is `next'.                                                     *)
Projected(past, s, next, read) ==
  /\ steps' = {t \in past \cup (IF next \in {"read", "write"} THEN {} ELSE {s}) : IsStep(t)}
  /\ timeline' = {t \in past \cup (IF next \in {"read", "write", "line"} THEN {} ELSE {s}) : script[t].codex}
  /\ cursor' = Max(past \cup {s} \cup {0})
  /\ Stored = 1 .. Len(stored) =>
       /\ messages' = Mirror[IF next \in {"read", "write"} THEN s - 1 ELSE s].messages
       /\ tools' = Mirror[IF next \in {"read", "write"} THEN s - 1 ELSE s].tools
  /\ next = "write" /\ script[s].kind \in AssistantKinds => read = LastRow(messages')

LEMMA TodoInOrder ==
  ASSUME EventsTyped, NEW x \in Rebuilder, x.todo # <<>>, MirrorSoFar(x), Stored = 1 .. Len(stored)
  PROVE  /\ Head(x.todo) = Len(stored) - Len(x.todo) + 1 /\ Len(x.todo) \in Nat /\ Len(stored) \in Nat
         /\ x.pc \in {"cursor", "read", "write"} => Replayed(x) = Head(x.todo) - 1
         /\ x.pc \in {"line", "state"} => Replayed(x) = Head(x.todo)
<1>1. x.todo \in Seq(Stored) /\ Len(stored) \in Nat
  BY RebuilderFields, StoredAre
<1>2. Len(x.todo) \in Nat /\ 1 \in DOMAIN x.todo /\ Head(x.todo) = x.todo[1]
  BY <1>1
<1>3. x.todo[1] = Len(stored) - Len(x.todo) + 1
  BY <1>2 DEF MirrorSoFar
<1>4. x.pc \in {"cursor", "read", "write"} => Replayed(x) = Len(stored) - Len(x.todo)
  BY <1>1, <1>2 DEF Replayed
<1>5. x.pc \in {"line", "state"} => Replayed(x) = Len(stored) - Len(x.todo) + 1
  BY <1>1, <1>2 DEF Replayed
<1>6. Len(stored) - Len(x.todo) = (Len(stored) - Len(x.todo) + 1) - 1
  BY <1>1, <1>2
<1> QED
  BY <1>1, <1>2, <1>3, <1>4, <1>5, <1>6

LEMMA StatementProjects ==
  ASSUME RunTypeOK, Projecting, NEW w \in Admins, rebuild[w].alone, rebuild[w].pc \in Replaying, Replay(w)
  PROVE  \E read : /\ Then(w, rebuild[w].pc, read)
                   /\ Projected(Past(rebuild[w]), Head(rebuild[w].todo),
                                Follows(Head(rebuild[w].todo), rebuild[w].pc), read)
<1> DEFINE x == rebuild[w]
           s == Head(x.todo)
           P == Past(x)
           M == Mirror[s - 1]
<1>1. /\ EventsTyped /\ RebuildsTyped /\ x \in Rebuilder /\ Rebuilding(w) /\ script \in Seq(Events)
      /\ x.todo # <<>> /\ Ascends(x.todo) /\ s \in Stored /\ s \in Seqs
  <2>1. EventsTyped /\ RebuildsTyped /\ Rebuilding(w)
    BY RunTypeIs DEF Rebuilding
  <2> QED
    BY <2>1, TodoAre DEF Projecting, Rebuilds, EventsTyped
<1>2. TablesSoFar(x) /\ MirrorSoFar(x) /\ ReadBefore(x)
  BY <1>1 DEF Projecting, Alone
<1>3. x.pc \in {"cursor", "read", "write", "line", "state"}
  BY DEF Replaying
<1>4. /\ steps = {t \in P \cup (IF x.pc \in {"cursor", "read", "write"} THEN {} ELSE {s}) : IsStep(t)}
      /\ timeline = {t \in P \cup (IF x.pc \in {"cursor", "read", "write", "line"} THEN {} ELSE {s}) : script[t].codex}
      /\ cursor = Max((P \cup IF x.pc = "cursor" THEN {} ELSE {s}) \cup {0})
  <2>1. /\ SoFar(x, Clearing \cup {"cursor", "read", "write"}) =
             P \cup (IF x.pc \in {"cursor", "read", "write"} THEN {} ELSE {s})
        /\ SoFar(x, {"run", "cursor", "read", "write", "line"}) =
             P \cup (IF x.pc \in {"cursor", "read", "write", "line"} THEN {} ELSE {s})
        /\ SoFar(x, {"cursor"}) = P \cup IF x.pc = "cursor" THEN {} ELSE {s}
    BY <1>3 DEF SoFar, Clearing
  <2>2. x.pc # "steps" /\ x.pc \in {"run"} \cup Replaying
    BY <1>3
  <2> QED
    BY <1>2, <2>1, <2>2 DEF TablesSoFar
<1>5. ASSUME Stored = 1 .. Len(stored)
      PROVE  /\ messages = Mirror[IF x.pc \in {"cursor", "read", "write"} THEN s - 1 ELSE s].messages
             /\ tools = Mirror[IF x.pc \in {"cursor", "read", "write"} THEN s - 1 ELSE s].tools
  <2>1. messages = Mirror[Replayed(x)].messages /\ tools = Mirror[Replayed(x)].tools
    BY <1>2, <1>5 DEF MirrorSoFar
  <2>2. Replayed(x) = IF x.pc \in {"cursor", "read", "write"} THEN s - 1 ELSE s
    BY <1>1, <1>2, <1>3, <1>5, TodoInOrder
  <2> QED
    BY <2>1, <2>2
<1>6. P \in SUBSET Seqs /\ Max(P \cup {s} \cup {0}) = Cursor(Max(P \cup {0}), s)
  <2>1. P \in SUBSET Seqs
    BY <1>1, StoredAre DEF Past
  <2> HIDE DEF P, s
  <2> QED
    BY <1>1, <2>1, GreatestOfMore
<1>7. CASE x.pc = "cursor"
  <2>1. Then(w, x.pc, NoRow) /\ cursor' = Cursor(cursor, s) /\ tables' = tables
    BY <1>7 DEF Replay
  <2>2. Follows(s, x.pc) \in {"read", "write"} /\ (Follows(s, x.pc) = "write" => script[s].kind \notin AssistantKinds)
    BY <1>7 DEF Follows
  <2>3. messages' = messages /\ tools' = tools /\ steps' = steps /\ timeline' = timeline
    BY <2>1 DEF tables
  <2>4. cursor' = Max(P \cup {s} \cup {0})
    <3>1. (P \cup {}) \cup {0} = P \cup {0}
      OBVIOUS
    <3>2. cursor = Max(P \cup {0})
      BY <1>4, <1>7, <3>1
    <3> QED
      BY <1>6, <2>1, <3>2
  <2> HIDE DEF P, s
  <2>5. Projected(P, s, Follows(s, x.pc), NoRow)
    BY <1>4, <1>5, <1>7, <2>2, <2>3, <2>4 DEF Projected
  <2> QED
    BY <2>1, <2>5 DEF P, s
<1>8. x.pc # "cursor" => cursor' = Max(P \cup {s} \cup {0}) /\ cursor = Max(P \cup {s} \cup {0})
  <2>1. x.pc # "cursor" => cursor' = cursor
    BY DEF Replay, row
  <2> QED
    BY <1>4, <2>1
<1>9. CASE x.pc = "read"
  <2>1. Then(w, x.pc, LastRow(messages)) /\ tables' = tables
    BY <1>9 DEF Replay
  <2>2. Follows(s, x.pc) = "write"
    BY <1>9 DEF Follows
  <2>3. messages' = messages /\ tools' = tools /\ steps' = steps /\ timeline' = timeline
    BY <2>1 DEF tables
  <2> HIDE DEF P, s
  <2>4. Projected(P, s, Follows(s, x.pc), LastRow(messages))
    BY <1>4, <1>5, <1>8, <1>9, <2>2, <2>3 DEF Projected
  <2> QED
    BY <2>1, <2>4 DEF P, s
<1>10. CASE x.pc = "write"
  <2>1. /\ Then(w, x.pc, NoRow) /\ timeline' = timeline
        /\ messages' = Messages(messages, s, x.read) /\ tools' = Tools(tools, s) /\ steps' = Steps(steps, s)
    BY <1>10 DEF Replay
  <2>2. /\ Follows(s, x.pc) \in {"line", "state", "none"}
        /\ Follows(s, x.pc) # "line" => ~script[s].codex
    BY <1>10 DEF Follows
  <2>3. messages' = Messages(messages, s, LastRow(messages))
    BY <1>2, <1>10, <2>1 DEF ReadBefore, Messages
  <2>4. Stored = 1 .. Len(stored) => messages' = Mirror[s].messages /\ tools' = Mirror[s].tools
    <3>1. Mirror[s] = MirrorNext(Mirror[s - 1], s)
      BY <1>1, SeqsAre, MirrorUnfolds
    <3> HIDE DEF s
    <3> QED
      BY <1>5, <1>10, <2>1, <2>3, <3>1 DEF MirrorNext
  <2>5. steps' = {t \in P \cup {s} : IsStep(t)}
    BY <1>4, <1>10, <2>1 DEF Steps
  <2>6. timeline' = {t \in P \cup (IF Follows(s, x.pc) \in {"read", "write", "line"} THEN {} ELSE {s}) : script[t].codex}
    BY <1>4, <1>10, <2>1, <2>2
  <2> HIDE DEF P, s
  <2>7. Projected(P, s, Follows(s, x.pc), NoRow)
    BY <1>8, <1>10, <2>2, <2>4, <2>5, <2>6 DEF Projected
  <2> QED
    BY <2>1, <2>7 DEF P, s
<1>11. CASE x.pc = "line"
  <2>1. /\ Then(w, x.pc, NoRow) /\ timeline' = Lines(timeline, s)
        /\ messages' = messages /\ tools' = tools /\ steps' = steps
    BY <1>11 DEF Replay
  <2>2. Follows(s, x.pc) \in {"state", "none"}
    BY <1>11 DEF Follows
  <2>3. timeline' = {t \in P \cup {s} : script[t].codex}
    BY <1>4, <1>11, <2>1 DEF Lines
  <2> HIDE DEF P, s
  <2>4. Projected(P, s, Follows(s, x.pc), NoRow)
    BY <1>4, <1>5, <1>8, <1>11, <2>1, <2>2, <2>3 DEF Projected
  <2> QED
    BY <2>1, <2>4 DEF P, s
<1>12. CASE x.pc = "state"
  <2>1. Then(w, x.pc, NoRow) /\ tables' = tables
    BY <1>12 DEF Replay
  <2>2. Follows(s, x.pc) = "none"
    BY <1>12 DEF Follows
  <2>3. messages' = messages /\ tools' = tools /\ steps' = steps /\ timeline' = timeline
    BY <2>1 DEF tables
  <2> HIDE DEF P, s
  <2>4. Projected(P, s, Follows(s, x.pc), NoRow)
    BY <1>4, <1>5, <1>8, <1>12, <2>2, <2>3 DEF Projected
  <2> QED
    BY <2>1, <2>4 DEF P, s
<1> QED
  BY <1>3, <1>7, <1>9, <1>10, <1>11, <1>12

LEMMA ReplayKeeps ==
  ASSUME RunTypeOK, Projecting, NEW w \in Admins, Rebuilding(w), Replay(w)
  PROVE  Projecting'
<1> DEFINE x == rebuild[w]
           s == Head(x.todo)
           P == Past(x)
           next == Follows(s, x.pc)
           n == Len(stored)
<1>1. /\ EventsTyped /\ RebuildsTyped /\ x \in Rebuilder /\ script \in Seq(Events)
      /\ x.todo # <<>> /\ Ascends(x.todo) /\ s \in Stored /\ s \in Seqs
      /\ script' = script /\ stored' = stored /\ saving' = saving
  <2>1. EventsTyped /\ RebuildsTyped /\ script' = script /\ stored' = stored /\ saving' = saving
    BY RunTypeIs DEF Replay
  <2> QED
    BY <2>1, TodoAre DEF Projecting, Rebuilds, EventsTyped
<1>2. /\ Stored' = Stored /\ Seqs' = Seqs /\ x.pc \in Replaying /\ x.todo \in Seq(Stored)
      /\ \A t \in Stored : t \in Nat
  <2>1. x.pc \in Replaying
    BY DEF Replay, Replaying
  <2> QED
    BY <1>1, <2>1, SameScript, SameStored, RebuilderFields, StoredAre
<1>3. /\ Tail(x.todo) \in Seq(Stored) /\ Ascends(Tail(x.todo)) /\ Len(Tail(x.todo)) = Len(x.todo) - 1
      /\ \A i \in 1 .. Len(x.todo) - 1 : Tail(x.todo)[i] = x.todo[i + 1]
      /\ Range(x.todo) = {s} \cup Range(Tail(x.todo)) /\ s \notin Range(Tail(x.todo))
      /\ Range(x.todo) \subseteq Stored /\ Len(x.todo) \in Nat /\ Len(x.todo) > 0 /\ s = x.todo[1]
      /\ (Tail(x.todo) = <<>> => Range(Tail(x.todo)) = {}) /\ DOMAIN Tail(x.todo) = 1 .. Len(x.todo) - 1
  BY <1>1, <1>2, HeadOff
<1>4. P \cup {s} = Stored \ Range(Tail(x.todo))
  BY <1>1, <1>3 DEF Past
<1>5. next \in {"read", "write", "line", "state", "none"}
  BY <1>2 DEF Follows, Replaying
<1>6. ASSUME NEW read, Then(w, x.pc, read)
      PROVE  /\ rebuild'[w] = After(x, read) /\ \A v \in Admins \ {w} : rebuild'[v] = rebuild[v]
             /\ torn' = (torn /\ ~(Over(x) /\ x.alone))
             /\ rebuild'[w].alone = x.alone
             /\ next # "none" => rebuild'[w].pc = next /\ rebuild'[w].todo = x.todo /\ rebuild'[w].read = read
             /\ next = "none" => /\ rebuild'[w].todo = Tail(x.todo)
                                 /\ rebuild'[w].pc = IF Tail(x.todo) = <<>> THEN "done" ELSE "cursor"
  <2>1. rebuild' = [rebuild EXCEPT ![w] = After(x, read)] /\ torn' = (torn /\ ~(Over(x) /\ x.alone))
    BY <1>2, <1>6, ThenIs
  <2>2. /\ After(x, read).alone = x.alone
        /\ next # "none" => After(x, read).pc = next /\ After(x, read).todo = x.todo /\ After(x, read).read = read
        /\ next = "none" => /\ After(x, read).todo = Tail(x.todo)
                            /\ After(x, read).pc = IF Tail(x.todo) = <<>> THEN "done" ELSE "cursor"
    BY <1>1 DEF After, Rebuilder
  <2>3. rebuild'[w] = After(x, read) /\ \A v \in Admins \ {w} : rebuild'[v] = rebuild[v]
    BY <1>1, <2>1 DEF RebuildsTyped
  <2> QED
    BY <2>1, <2>2, <2>3
<1>7. CASE ~x.alone
  <2>1. PICK read : Then(w, x.pc, read)
    BY DEF Replay
  <2>2. rebuild'[w].alone = FALSE /\ torn' = torn
    BY <1>1, <1>6, <1>7, <2>1, RebuilderFields, RunTypeIs DEF FlagsTyped
  <2>3. (rebuild'[w].todo # <<>> /\ Ascends(rebuild'[w].todo)) \/ rebuild'[w].pc = "done"
    BY <1>1, <1>3, <1>6, <2>1
  <2>4. Rebuilding(w)' => rebuild'[w].pc # "done"
    BY DEF Rebuilding, Clearing, Replaying
  <2> QED
    BY <1>1, <1>6, <1>7, <2>1, <2>2, <2>3, <2>4, TornStepKeeps
<1>8. CASE x.alone
  <2>1. PICK read : Then(w, x.pc, read) /\ Projected(P, s, next, read)
    BY <1>2, <1>8, StatementProjects
  <2> DEFINE y == rebuild'[w]
  <2>2. /\ \A v \in Admins \ {w} : rebuild'[v] = rebuild[v]
        /\ y.alone = TRUE
        /\ next # "none" => y.pc = next /\ y.todo = x.todo /\ y.read = read
        /\ next = "none" => y.todo = Tail(x.todo) /\ y.pc = IF Tail(x.todo) = <<>> THEN "done" ELSE "cursor"
    BY <1>1, <1>6, <1>8, <2>1, RebuilderFields
  <2>3. MirrorSoFar(x) /\ Rebuilding(w)
    BY <1>2, <1>8 DEF Projecting, Alone, Rebuilding
  <2>4. /\ Stored = 1 .. n => s = n - Len(x.todo) + 1
        /\ n \in Nat
    BY <1>1, <2>3, TodoInOrder, StoredAre
  <2>5. ASSUME Stored = 1 .. n, NEW k \in {s - 1, s} PROVE Mirror'[k] = Mirror[k]
    <3>1. k \in 0 .. n
      BY <1>1, <1>2, <2>5
    <3> QED
      BY <1>1, <2>5, <3>1, SameMirrorOf
  <2>6. CASE next # "none"
    <3>1. Rebuilding(w)' /\ y.pc \notin Clearing
      BY <1>5, <2>2, <2>6 DEF Rebuilding, Replaying, Clearing
    <3>2. Past(rebuild[w])' = P
      BY <1>2, <2>2, <2>6 DEF Past
    <3>3. TablesSoFar(rebuild[w])'
      <4>1. \A A : SoFar(rebuild[w], A)' = P \cup IF next \in A THEN {} ELSE {s}
        BY <2>2, <2>6, <3>2 DEF SoFar
      <4>2. /\ SoFar(rebuild[w], Clearing \cup {"cursor", "read", "write"})' =
                 P \cup IF next \in {"read", "write"} THEN {} ELSE {s}
            /\ SoFar(rebuild[w], {"run", "cursor", "read", "write", "line"})' =
                 P \cup IF next \in {"read", "write", "line"} THEN {} ELSE {s}
            /\ SoFar(rebuild[w], {"cursor"})' = P \cup {s}
        <5>1. /\ next \in Clearing \cup {"cursor", "read", "write"} <=> next \in {"read", "write"}
              /\ next \in {"run", "cursor", "read", "write", "line"} <=> next \in {"read", "write", "line"}
              /\ next \notin {"cursor"}
          <6> HIDE DEF next
          <6> QED
            BY <1>5, <2>6 DEF Clearing, Follows
        <5> HIDE DEF next, P, s
        <5> QED
          BY <4>1, <5>1
      <4>3. /\ steps' = {t \in SoFar(rebuild[w], Clearing \cup {"cursor", "read", "write"})' : IsStep(t)'}
            /\ timeline' = {t \in SoFar(rebuild[w], {"run", "cursor", "read", "write", "line"})' : script'[t].codex}
            /\ cursor' = Max(SoFar(rebuild[w], {"cursor"})' \cup {0})
        BY <1>1, <2>1, <4>2, SameEffects DEF Projected
      <4> QED
        BY <4>3 DEF TablesSoFar
    <3>4. MirrorSoFar(rebuild[w])'
      <4> SUFFICES ASSUME Stored = 1 .. n
                   PROVE  /\ \A i \in DOMAIN x.todo : x.todo[i] = n - Len(x.todo) + i
                          /\ messages' = Mirror'[Replayed(rebuild[w])'].messages
                          /\ tools' = Mirror'[Replayed(rebuild[w])'].tools
        BY <1>1, <1>2, <2>2, <2>6 DEF MirrorSoFar
      <4>1. \A i \in DOMAIN x.todo : x.todo[i] = n - Len(x.todo) + i
        BY <2>3 DEF MirrorSoFar
      <4>2. Replayed(rebuild[w])' = n - Len(x.todo) + IF next \in {"line", "state"} THEN 1 ELSE 0
        BY <1>1, <2>2, <2>6 DEF Replayed
      <4>3. Replayed(rebuild[w])' = IF next \in {"read", "write"} THEN s - 1 ELSE s
        <5>1. s = n - Len(x.todo) + 1 /\ n \in Nat /\ Len(x.todo) \in Nat
          BY <1>3, <2>4
        <5>2. n - Len(x.todo) + 0 = s - 1
          <6> HIDE DEF s, n
          <6> QED
            BY <5>1
        <5> HIDE DEF next, s, n
        <5> QED
          BY <1>5, <2>6, <4>2, <5>1, <5>2
      <4>4. /\ messages' = Mirror[Replayed(rebuild[w])'].messages
            /\ tools' = Mirror[Replayed(rebuild[w])'].tools
        BY <2>1, <4>3 DEF Projected
      <4>5. Mirror'[Replayed(rebuild[w])'] = Mirror[Replayed(rebuild[w])']
        BY <2>5, <4>3
      <4> QED
        BY <4>1, <4>4, <4>5
    <3>5. ReadBefore(rebuild[w])'
      BY <1>1, <2>1, <2>2, <2>6 DEF ReadBefore, Projected
    <3> QED
      BY <1>1, <1>8, <2>2, <2>3, <2>6, <3>1, <3>3, <3>4, <3>5, AloneStepKeeps
  <2>7. CASE next = "none"
    <3>1. /\ steps' = {t \in P \cup {s} : IsStep(t)} /\ timeline' = {t \in P \cup {s} : script[t].codex}
          /\ cursor' = Max(P \cup {s} \cup {0})
          /\ Stored = 1 .. n => messages' = Mirror'[s].messages /\ tools' = Mirror'[s].tools
      <4>1. /\ steps' = {t \in P \cup {s} : IsStep(t)} /\ timeline' = {t \in P \cup {s} : script[t].codex}
            /\ cursor' = Max(P \cup {s} \cup {0})
            /\ Stored = 1 .. n => messages' = Mirror[s].messages /\ tools' = Mirror[s].tools
        BY <2>1, <2>7 DEF Projected
      <4> QED
        BY <2>5, <4>1
    <3>2. CASE Tail(x.todo) = <<>>
      <4>1. y.pc = "done" /\ P \cup {s} = Stored
        BY <1>3, <1>4, <2>2, <2>7, <3>2
      <4>2. ~Rebuilding(w)'
        BY <4>1 DEF Rebuilding, Clearing, Replaying
      <4>3. Complete'
        BY <1>1, <1>2, <3>1, <4>1, SameEffects DEF Complete
      <4>4. AsMirrored'
        <5> SUFFICES ASSUME Stored = 1 .. n PROVE messages' = Mirror'[n].messages /\ tools' = Mirror'[n].tools
          BY <1>1, <1>2 DEF AsMirrored
        <5>1. Len(x.todo) = 1
          <6>1. Len(Tail(x.todo)) = 0
            BY <1>3, <3>2, EmptySeq
          <6> QED
            BY <1>3, <6>1
        <5>2. s = n
          <6>1. s = n - Len(x.todo) + 1 /\ n \in Nat
            BY <2>4
          <6> HIDE DEF s, n
          <6> QED
            BY <5>1, <6>1
        <5> QED
          BY <3>1, <5>2
      <4> QED
        BY <1>1, <1>8, <2>2, <2>3, <4>2, <4>3, <4>4, AloneStepKeeps
    <3>3. CASE Tail(x.todo) # <<>>
      <4>1. y.pc = "cursor" /\ y.todo = Tail(x.todo)
        BY <2>2, <2>7, <3>3
      <4>2. Rebuilding(w)' /\ y.pc \notin Clearing
        BY <4>1 DEF Rebuilding, Replaying, Clearing
      <4>3. \A A : "cursor" \in A => SoFar(rebuild[w], A)' = P \cup {s}
        BY <1>2, <1>4, <4>1 DEF SoFar, Past
      <4>4. TablesSoFar(rebuild[w])'
        <5>1. /\ SoFar(rebuild[w], Clearing \cup {"cursor", "read", "write"})' = P \cup {s}
              /\ SoFar(rebuild[w], {"run", "cursor", "read", "write", "line"})' = P \cup {s}
              /\ SoFar(rebuild[w], {"cursor"})' = P \cup {s}
          BY <4>3
        <5>2. /\ steps' = {t \in SoFar(rebuild[w], Clearing \cup {"cursor", "read", "write"})' : IsStep(t)'}
              /\ timeline' = {t \in SoFar(rebuild[w], {"run", "cursor", "read", "write", "line"})' : script'[t].codex}
              /\ cursor' = Max(SoFar(rebuild[w], {"cursor"})' \cup {0})
          BY <1>1, <3>1, <5>1, SameEffects
        <5> QED
          BY <5>2 DEF TablesSoFar
      <4>5. MirrorSoFar(rebuild[w])'
        <5> SUFFICES ASSUME Stored = 1 .. n
                     PROVE  /\ \A i \in 1 .. Len(x.todo) - 1 : x.todo[i + 1] = n - (Len(x.todo) - 1) + i
                            /\ messages' = Mirror'[Replayed(rebuild[w])'].messages
                            /\ tools' = Mirror'[Replayed(rebuild[w])'].tools
          BY <1>1, <1>2, <1>3, <4>1 DEF MirrorSoFar
        <5>1. \A i \in 1 .. Len(x.todo) - 1 : x.todo[i + 1] = n - (Len(x.todo) - 1) + i
          <6> TAKE i \in 1 .. Len(x.todo) - 1
          <6>1. i + 1 \in DOMAIN x.todo
            BY <1>2, <1>3
          <6>2. x.todo[i + 1] = n - Len(x.todo) + (i + 1)
            BY <2>3, <6>1 DEF MirrorSoFar
          <6> QED
            BY <1>3, <2>4, <6>2
        <5>2. Replayed(rebuild[w])' = n - (Len(x.todo) - 1)
          <6>1. Replayed(rebuild[w])' = n - (Len(x.todo) - 1) + 0
            BY <1>1, <1>3, <4>1 DEF Replayed
          <6> QED
            BY <1>3, <2>4, <6>1
        <5>3. Replayed(rebuild[w])' = s
          <6>1. s = n - Len(x.todo) + 1 /\ n \in Nat /\ Len(x.todo) \in Nat
            BY <1>3, <2>4
          <6> HIDE DEF s, n
          <6> QED
            BY <5>2, <6>1
        <5> QED
          BY <3>1, <5>1, <5>3
      <4>6. ReadBefore(rebuild[w])'
        BY <4>1 DEF ReadBefore
      <4> QED
        BY <1>1, <1>3, <1>8, <2>2, <2>3, <4>1, <4>2, <4>4, <4>5, <4>6, AloneStepKeeps
    <3> QED
      BY <3>2, <3>3
  <2> QED
    BY <2>6, <2>7
<1> QED
  BY <1>7, <1>8

LEMMA SameRunKeeps ==
  ASSUME RunTypeOK, Projecting, UNCHANGED runVars
  PROVE  Projecting'
<1>1. /\ script' = script /\ stored' = stored /\ saving' = saving /\ rebuild' = rebuild
      /\ torn' = torn /\ late' = late /\ tables' = tables /\ row' = row /\ EventsTyped
  BY RunTypeIs DEF runVars, projections, repair
<1>2. /\ messages' = messages /\ tools' = tools /\ steps' = steps /\ timeline' = timeline /\ cursor' = cursor
      /\ Stored' = Stored /\ Seqs' = Seqs
  BY <1>1, SameScript, SameStored DEF tables, row
<1>3. \A w \in Admins : Rebuilding(w)' <=> Rebuilding(w)
  BY <1>1 DEF Rebuilding
<1>4. Quiet' <=> Quiet
  BY <1>3 DEF Quiet
<1>5. Locked' /\ ReadLocked' /\ TablesComplete' /\ \A w \in Admins : Rebuilds(w)'
  BY <1>1, <1>2, <1>3, <1>4, SameEffects DEF Projecting, Locked, ReadLocked, TablesComplete, Rebuilds
<1>6. ASSUME Stored = 1 .. Len(stored) PROVE Mirror'[Len(stored)] = Mirror[Len(stored)]
  <2>1. Len(stored) \in 0 .. Len(stored)
    BY <1>1, StoredAre
  <2> QED
    BY <1>1, <1>6, <2>1, SameMirrorOf
<1>7. MatchesMirror'
  BY <1>1, <1>2, <1>4, <1>6 DEF Projecting, MatchesMirror
<1>8. Alone'
  <2> SUFFICES ASSUME NEW w \in Admins, Rebuilding(w), rebuild[w].alone
               PROVE  TablesSoFar(rebuild[w])' /\ MirrorSoFar(rebuild[w])' /\ ReadBefore(rebuild[w])'
    BY <1>1, <1>3 DEF Alone
  <2> DEFINE x == rebuild[w]
  <2>1. TablesSoFar(x) /\ MirrorSoFar(x) /\ ReadBefore(x)
    BY DEF Projecting, Alone
  <2>2. TablesSoFar(rebuild[w])'
    BY <1>1, <1>2, <2>1, SameEffects DEF TablesSoFar, SoFar, Past
  <2>3. ReadBefore(rebuild[w])'
    BY <1>1, <1>2, <2>1 DEF ReadBefore
  <2>4. MirrorSoFar(rebuild[w])'
    <3> SUFFICES ASSUME Stored = 1 .. Len(stored)
                 PROVE  /\ \A i \in DOMAIN x.todo : x.todo[i] = Len(stored) - Len(x.todo) + i
                        /\ x.pc \in {"tools", "timeline", "run"} \cup Replaying =>
                             messages = Mirror'[Replayed(x)].messages
                        /\ x.pc \in {"timeline", "run"} \cup Replaying => tools = Mirror'[Replayed(x)].tools
      BY <1>1, <1>2 DEF MirrorSoFar, Replayed
    <3>1. Rebuilds(w) /\ x \in Rebuilder /\ x.todo # <<>> /\ x.todo \in Seq(Stored)
      BY RunTypeIs, RebuilderFields DEF Projecting, Rebuilds, RebuildsTyped
    <3>2. Head(x.todo) \in 1 .. Len(stored) /\ Head(x.todo) = Len(stored) - Len(x.todo) + 1 /\ Len(stored) \in Nat
      <4>1. Head(x.todo) \in Stored
        BY <3>1
      <4> QED
        BY <1>1, <2>1, <3>1, <4>1, TodoInOrder
    <3>3. Replayed(x) \in 0 .. Len(stored)
      <4>1. Len(x.todo) \in Nat
        BY <3>1
      <4>2. Replayed(x) = Len(stored) - Len(x.todo) \/ Replayed(x) = Len(stored) - Len(x.todo) + 1
        BY <3>2, <4>1 DEF Replayed
      <4>3. Len(stored) - Len(x.todo) + 1 \in 1 .. Len(stored)
        BY <3>2
      <4>4. \A a, b \in Nat : a - b + 1 \in 1 .. a => a - b \in 0 .. a /\ a - b + 1 \in 0 .. a
        OBVIOUS
      <4>5. Len(stored) - Len(x.todo) \in 0 .. Len(stored) /\ Len(stored) - Len(x.todo) + 1 \in 0 .. Len(stored)
        BY <3>2, <4>1, <4>3, <4>4
      <4> QED
        BY <4>2, <4>5
    <3>4. Mirror'[Replayed(x)] = Mirror[Replayed(x)]
      BY <1>1, <3>3, SameMirrorOf
    <3> QED
      BY <2>1, <3>4 DEF MirrorSoFar
  <2> QED
    BY <2>2, <2>3, <2>4
<1> QED
  BY <1>5, <1>7, <1>8 DEF Projecting

-----------------------------------------------------------------------------
(* Types of the feed.                                                      *)

PlanTyped == planned \in Scenarios /\ script = planned.script /\ conn \in Conns /\ conn <= planned.conns
PipeTyped == pipe \in [Conns -> Seq(Seqs)]
ReaderType == [at : {"idle", "saving", "local", "accepted", "publish"}, seq : 0 .. Len(script)]
ReadersTyped ==
  /\ reader \in [Conns -> ReaderType]
  /\ \A c, d \in Conns : reader[c].at = "saving" /\ reader[d].at = "saving" => c = d
BusTyped == bus \in [Instances -> Seq(Stored)] /\ accepted \subseteq Instances
DashType ==
  [inst : Instances \cup {NoInst}, pc : {"off", "live", "refused"} \cup SnapshotPC,
   after : 0 .. Len(script), run : BOOLEAN, seq : 0 .. Len(script), session : BOOLEAN,
   through : 0 .. Len(script), rows : SUBSET Stored, list : SUBSET Stored, send : Seq(Wire)]
DashTyped == dash \in DashType /\ Len(dash.send) <= Cap
PageTyped == shown \subseteq Stored /\ lost \subseteq Stored

LEMMA TypeIs ==
  TypeOK <=> RunTypeOK /\ PlanTyped /\ PipeTyped /\ ReadersTyped /\ BusTyped /\ DashTyped /\ PageTyped
BY DEF TypeOK, PlanTyped, PipeTyped, ReadersTyped, ReaderType, BusTyped, DashTyped, DashType, PageTyped

LEMMA TypeIsNext ==
  TypeOK' <=> RunTypeOK' /\ PlanTyped' /\ PipeTyped' /\ ReadersTyped' /\ BusTyped' /\ DashTyped' /\ PageTyped'
BY TypeIs, PTL

LEMMA ConnsAre ==
  ASSUME PlanTyped
  PROVE  /\ 1 \in Conns /\ Conns \subseteq Nat /\ conn \in Nat /\ conn >= 1
         /\ InstOf \in [Conns -> Instances] /\ NoInst \notin Instances /\ Cap \in Nat \ {0}
         /\ planned.conns \in Conns /\ planned.redis \in BOOLEAN /\ planned.ordered \in BOOLEAN
         /\ planned.watch \in {"run", "session"} /\ (~planned.redis => planned.conns = 1)
         /\ \A c \in Conns : c >= 1
         /\ (conn < planned.conns => conn + 1 \in Conns /\ conn + 1 <= planned.conns)
<1>1. Conns = 1 .. Cardinality(Conns) /\ Cardinality(Conns) \in Nat
  BY DashFeedAssumption, FS_CardinalityType
<1> HIDE DashFeedAssumption
<1>2. planned \in [script : Seq(Events), ordered : BOOLEAN, named : BOOLEAN, conns : Conns,
                   opens : Nat, watch : {"run", "session"}, redis : BOOLEAN,
                   rebuilds : Nat, failures : Nat]
  BY DashFeedAssumption DEF PlanTyped
<1>3. planned.conns \in Conns /\ planned.redis \in BOOLEAN /\ planned.ordered \in BOOLEAN
      /\ planned.watch \in {"run", "session"}
  BY <1>2
<1>4. ~planned.redis => planned.conns = 1
  BY DashFeedAssumption DEF PlanTyped
<1>5. conn \in Conns
  BY DEF PlanTyped
<1>6. 1 \in Conns /\ Conns \subseteq Nat /\ \A c \in Conns : c >= 1
  BY <1>1, <1>5
<1>7. conn < planned.conns => conn + 1 \in Conns /\ conn + 1 <= planned.conns
  <2>1. \A a, b, n \in Nat : a \in 1 .. n /\ b \in 1 .. n /\ a < b => a + 1 \in 1 .. n /\ a + 1 <= b
    OBVIOUS
  <2> QED
    BY <1>1, <1>3, <1>5, <1>6, <2>1
<1> QED
  BY <1>3, <1>4, <1>5, <1>6, <1>7, DashFeedAssumption

LEMMA DashFields ==
  ASSUME NEW d \in DashType
  PROVE  /\ d.inst \in Instances \cup {NoInst} /\ d.pc \in {"off", "live", "refused"} \cup SnapshotPC
         /\ d.after \in 0 .. Len(script) /\ d.run \in BOOLEAN /\ d.seq \in 0 .. Len(script)
         /\ d.session \in BOOLEAN /\ d.through \in 0 .. Len(script)
         /\ d.rows \subseteq Stored /\ d.list \subseteq Stored /\ d.send \in Seq(Wire)
BY DEF DashType

LEMMA SameWire ==
  ASSUME script' = script, stored' = stored
  PROVE  Wire' = Wire /\ DashType' = DashType /\ ReaderType' = ReaderType /\ Stored' = Stored /\ Seqs' = Seqs
<1>1. Stored' = Stored /\ Seqs' = Seqs
  BY SameScript, SameStored
<1> QED
  BY <1>1 DEF Wire, DashType, ReaderType

LEMMA MoreWire ==
  ASSUME script' = script, Stored \subseteq Stored'
  PROVE  Wire' = Wire /\ DashType \subseteq DashType' /\ ReaderType' = ReaderType /\ Seqs' = Seqs
<1>1. Seqs' = Seqs
  BY SameScript
<1>2. Wire' = Wire /\ ReaderType' = ReaderType
  BY <1>1 DEF Wire, ReaderType
<1>3. DashType \subseteq DashType'
  <2> SUFFICES ASSUME NEW d \in DashType PROVE d \in DashType'
    OBVIOUS
  <2>1. d.rows \subseteq Stored' /\ d.list \subseteq Stored'
    BY DashFields
  <2>2. SUBSET Stored \subseteq SUBSET Stored'
    OBVIOUS
  <2> QED
    BY <1>2, <2>2 DEF DashType
<1> QED
  BY <1>1, <1>2, <1>3

FeedTyped == PlanTyped /\ PipeTyped /\ ReadersTyped /\ BusTyped /\ DashTyped /\ PageTyped

-----------------------------------------------------------------------------
(* The connections: what is under way, and a reader that takes an event.   *)

LEMMA SamePage ==
  ASSUME Feeding, script' = script, stored' = stored, planned' = planned, timeline' = timeline,
         rebuilds' = rebuilds, dash' = dash, bus' = bus, shown' = shown, lost' = lost,
         Sequential' => Sequential, 1 \in Conns,
         \A c \in Conns :
           \/ reader'[c] = reader[c]
           \/ reader[c].at = "idle" /\ reader'[c].at = "saving"
           \/ reader[c].at = "local" /\ reader'[c].at = "accepted" /\ reader'[c].seq = reader[c].seq
  PROVE  Serving' /\ Wanted' /\ RunFed' /\ SessionFed' /\ NothingSkipped' /\ SnapshotWhole'
<1>1. Stored' = Stored /\ \A s : IsStep(s)' = IsStep(s)
  BY SameStored, SameEffects
<1>2. ASSUME NEW s, Reaches(s) PROVE Reaches(s)'
  <2>1. ASSUME NEW c \in Conns, reader[c].seq = s,
               reader[c].at \in {"local", "accepted"} \/ (reader[c].at = "publish" /\ InstOf[c] # dash.inst)
        PROVE  /\ reader'[c].seq = s
               /\ reader'[c].at \in {"local", "accepted"} \/ (reader'[c].at = "publish" /\ InstOf[c] # dash.inst)
    BY <2>1
  <2> QED
    BY <1>2, <2>1 DEF Reaches, Coming
<1>3. ASSUME NEW s, OnItsWay(s)' PROVE OnItsWay(s)
  BY <1>3 DEF OnItsWay
<1>4. Serving'
  BY <1>1 DEF Feeding, Serving
<1>5. Wanted'
  BY <1>1, <1>3 DEF Feeding, Wanted
<1>6. RunFed'
  <2>1. RunFed
    BY DEF Feeding
  <2>2. \A s : Told(s)' <=> Told(s)
    BY DEF Told, Sent
  <2> QED
    BY <1>1, <1>2, <2>1, <2>2 DEF RunFed
<1>7. SessionFed'
  BY <1>1, <1>2 DEF Feeding, SessionFed
<1>8. NothingSkipped'
  BY <1>1, <1>2 DEF Feeding, NothingSkipped
<1>9. SnapshotWhole'
  BY <1>1 DEF Feeding, SnapshotWhole
<1> QED
  BY <1>4, <1>5, <1>6, <1>7, <1>8, <1>9

LEMMA SendKeeps ==
  ASSUME TypeOK, Feeding, NEW s \in Seqs, Send(s)
  PROVE  FeedTyped' /\ Feeding'
<1>1. /\ PlanTyped /\ PipeTyped /\ ReadersTyped /\ BusTyped /\ DashTyped /\ PageTyped
      /\ script \in Seq(Events)
  BY TypeIs, RunTypeIs DEF EventsTyped
<1>2. /\ pipe' = [pipe EXCEPT ![conn] = Append(@, s)]
      /\ script' = script /\ stored' = stored /\ saving' = saving /\ timeline' = timeline
      /\ rebuild' = rebuild /\ torn' = torn
      /\ conn' = conn /\ reader' = reader /\ bus' = bus /\ accepted' = accepted
      /\ dash' = dash /\ shown' = shown /\ lost' = lost
      /\ planned' = planned /\ rebuilds' = rebuilds
  BY DEF Send, counted, runVars, projections, repair, tables, row
<1>3. /\ Wire' = Wire /\ DashType' = DashType /\ ReaderType' = ReaderType /\ Stored' = Stored /\ Seqs' = Seqs
      /\ Sequential' <=> Sequential
  BY <1>2, SameWire DEF Sequential
<1>4. 1 \in Conns /\ conn \in Conns /\ conn \in Nat
  BY <1>1, ConnsAre DEF PlanTyped
<1>5. FeedTyped'
  BY <1>1, <1>2, <1>3, <1>4 DEF FeedTyped, PlanTyped, PipeTyped, ReadersTyped, BusTyped, DashTyped, PageTyped
<1>6. Serving' /\ Wanted' /\ RunFed' /\ SessionFed' /\ NothingSkipped' /\ SnapshotWhole'
  BY <1>2, <1>3, <1>4, SamePage
<1>7. Readers'
  BY <1>2, <1>3 DEF Feeding, Readers
<1>8. Used'
  <2>1. \A c \in Conns : c > conn => pipe'[c] = pipe[c]
    BY <1>1, <1>2, <1>4 DEF PipeTyped
  <2> QED
    BY <1>2, <2>1 DEF Feeding, Used, Running
<1>9. InTurn'
  <2> SUFFICES ASSUME Sequential
               PROVE  \A k \in DOMAIN pipe'[1] : \A t \in Before(pipe'[1][k]) :
                        t \in Stored \cup {reader[1].seq} \/ \E j \in 1 .. k - 1 : pipe'[1][j] = t
    BY <1>2, <1>3 DEF Feeding, InTurn
  <2> DEFINE p == pipe[1]
  <2>1. p \in Seq(Seqs) /\ pipe'[1] = Append(p, s)
    BY <1>1, <1>2, <1>4 DEF PipeTyped, Sequential
  <2>2. \A k \in DOMAIN p : \A t \in Before(p[k]) :
           t \in Stored \cup {reader[1].seq} \/ \E j \in 1 .. k - 1 : p[j] = t
    BY DEF Feeding, InTurn
  <2>3. \A t \in Before(s) : t \in Stored \/ \E j \in 1 .. Len(p) : p[j] = t
    <3>1. \A t \in Before(s) : t \in Stored \cup Range(p)
      BY DEF Send, Sequential, Before
    <3>2. DOMAIN p = 1 .. Len(p)
      BY <2>1
    <3> QED
      BY <3>1, <3>2 DEF Range
  <2> HIDE DEF p
  <2>4. /\ DOMAIN pipe'[1] = 1 .. Len(p) + 1 /\ DOMAIN p = 1 .. Len(p) /\ Len(p) \in Nat
        /\ \A k \in 1 .. Len(p) : pipe'[1][k] = p[k]
        /\ pipe'[1][Len(p) + 1] = s
    BY <2>1
  <2> TAKE k \in DOMAIN pipe'[1]
  <2> TAKE t \in Before(pipe'[1][k])
  <2>5. CASE k = Len(p) + 1
    <3>1. t \in Stored \/ \E j \in 1 .. Len(p) : p[j] = t
      BY <2>3, <2>4, <2>5
    <3>2. \A j \in 1 .. Len(p) : j \in 1 .. k - 1
      BY <2>4, <2>5
    <3> QED
      BY <2>4, <3>1, <3>2
  <2>6. CASE k # Len(p) + 1
    <3>1. k \in 1 .. Len(p) /\ \A j \in 1 .. k - 1 : j \in 1 .. Len(p)
      BY <2>4, <2>6
    <3> QED
      BY <2>2, <2>4, <3>1
  <2> QED
    BY <2>5, <2>6
<1> QED
  BY <1>5, <1>6, <1>7, <1>8, <1>9 DEF Feeding

LEMMA ReconnectKeeps ==
  ASSUME TypeOK, Feeding, Reconnect
  PROVE  FeedTyped' /\ Feeding'
<1>1. /\ PlanTyped /\ PipeTyped /\ ReadersTyped /\ BusTyped /\ DashTyped /\ PageTyped
  BY TypeIs
<1>2. /\ conn' = conn + 1 /\ conn < planned.conns
      /\ script' = script /\ stored' = stored /\ saving' = saving /\ timeline' = timeline
      /\ rebuild' = rebuild /\ torn' = torn
      /\ pipe' = pipe /\ reader' = reader /\ bus' = bus /\ accepted' = accepted
      /\ dash' = dash /\ shown' = shown /\ lost' = lost
      /\ planned' = planned /\ rebuilds' = rebuilds
  BY DEF Reconnect, counted, runVars, projections, repair, tables, row
<1>3. /\ Wire' = Wire /\ DashType' = DashType /\ ReaderType' = ReaderType /\ Stored' = Stored /\ Seqs' = Seqs
  BY <1>2, SameWire
<1>4. 1 \in Conns /\ conn \in Nat /\ conn >= 1 /\ conn' \in Conns /\ conn' <= planned.conns /\ Conns \subseteq Nat
  BY <1>1, <1>2, ConnsAre
<1>5. conn' # 1 /\ ~Sequential'
  BY <1>2, <1>4 DEF Sequential
<1>6. FeedTyped'
  BY <1>1, <1>2, <1>3, <1>4 DEF FeedTyped, PlanTyped, PipeTyped, ReadersTyped, BusTyped, DashTyped, PageTyped
<1>7. Serving' /\ Wanted' /\ RunFed' /\ SessionFed' /\ NothingSkipped' /\ SnapshotWhole'
  BY <1>2, <1>4, <1>5, SamePage
<1>8. Readers'
  BY <1>2, <1>3 DEF Feeding, Readers
<1>9. Used'
  <2>1. \A c \in Conns : c > conn' => c > conn
    BY <1>2, <1>4
  <2> QED
    BY <1>2, <1>5, <2>1 DEF Feeding, Used, Running
<1>10. InTurn'
  BY <1>5 DEF InTurn
<1> QED
  BY <1>6, <1>7, <1>8, <1>9, <1>10 DEF Feeding

LEMMA BreakKeeps ==
  ASSUME TypeOK, Feeding, NEW c \in Conns, Break(c)
  PROVE  FeedTyped' /\ Feeding'
<1>1. /\ PlanTyped /\ PipeTyped /\ ReadersTyped /\ BusTyped /\ DashTyped /\ PageTyped
  BY TypeIs
<1>2. /\ pipe' = [pipe EXCEPT ![c] = <<>>] /\ c < conn
      /\ script' = script /\ stored' = stored /\ saving' = saving /\ timeline' = timeline
      /\ rebuild' = rebuild /\ torn' = torn
      /\ conn' = conn /\ reader' = reader /\ bus' = bus /\ accepted' = accepted
      /\ dash' = dash /\ shown' = shown /\ lost' = lost
      /\ planned' = planned /\ rebuilds' = rebuilds
  BY DEF Break, counted, runVars, projections, repair, tables, row
<1>3. /\ Wire' = Wire /\ DashType' = DashType /\ ReaderType' = ReaderType /\ Stored' = Stored /\ Seqs' = Seqs
  BY <1>2, SameWire
<1>4. 1 \in Conns /\ conn \in Nat /\ conn >= 1 /\ Conns \subseteq Nat /\ \A d \in Conns : d >= 1
  BY <1>1, ConnsAre
<1>5. conn # 1 /\ ~Sequential'
  BY <1>2, <1>4 DEF Sequential
<1>6. FeedTyped'
  <2>1. <<>> \in Seq(Seqs)
    OBVIOUS
  <2> QED
    BY <1>1, <1>2, <1>3, <2>1 DEF FeedTyped, PlanTyped, PipeTyped, ReadersTyped, BusTyped, DashTyped, PageTyped
<1>7. Serving' /\ Wanted' /\ RunFed' /\ SessionFed' /\ NothingSkipped' /\ SnapshotWhole'
  BY <1>2, <1>4, <1>5, SamePage
<1>8. Readers'
  BY <1>2, <1>3 DEF Feeding, Readers
<1>9. Used'
  <2>1. \A d \in Conns : d > conn => pipe'[d] = pipe[d]
    BY <1>1, <1>2, <1>4 DEF PipeTyped
  <2> QED
    BY <1>2, <2>1 DEF Feeding, Used, Running
<1>10. InTurn'
  BY <1>5 DEF InTurn
<1> QED
  BY <1>6, <1>7, <1>8, <1>9, <1>10 DEF Feeding

LEMMA BeginKeeps ==
  ASSUME TypeOK, Feeding, NEW c \in Conns, Begin(c)
  PROVE  FeedTyped' /\ Feeding'
<1> DEFINE p == pipe[c]
           s == Head(p)
<1>1. /\ PlanTyped /\ PipeTyped /\ ReadersTyped /\ BusTyped /\ DashTyped /\ PageTyped
      /\ EventsTyped /\ RebuildsTyped /\ script \in Seq(Events)
  BY TypeIs, RunTypeIs DEF EventsTyped
<1>2. /\ reader[c].at = "idle" /\ p # <<>> /\ pipe' = [pipe EXCEPT ![c] = Tail(p)]
      /\ script' = script /\ stored' = stored /\ timeline' = timeline
      /\ conn' = conn /\ bus' = bus /\ accepted' = accepted
      /\ dash' = dash /\ shown' = shown /\ lost' = lost
      /\ planned' = planned /\ rebuilds' = rebuilds
  BY DEF Begin, counted, runVars, projections, repair, tables, row, SaveBegin
<1>3. \/ s \in Stored /\ UNCHANGED runVars /\ reader' = reader
      \/ s \notin Stored /\ SaveBegin(s) /\ reader' = [reader EXCEPT ![c] = [at |-> "saving", seq |-> s]]
  BY DEF Begin
<1>4. /\ Wire' = Wire /\ DashType' = DashType /\ ReaderType' = ReaderType /\ Stored' = Stored /\ Seqs' = Seqs
      /\ Sequential' <=> Sequential
  BY <1>2, SameWire DEF Sequential
<1>5. 1 \in Conns /\ conn \in Nat /\ Conns \subseteq Nat /\ \A d \in Conns : d >= 1
  BY <1>1, ConnsAre
<1>6. /\ p \in Seq(Seqs) /\ s \in Seqs /\ Tail(p) \in Seq(Seqs) /\ Len(p) \in Nat /\ Len(p) > 0 /\ s = p[1]
      /\ DOMAIN p = 1 .. Len(p) /\ DOMAIN Tail(p) = 1 .. Len(p) - 1
      /\ \A i \in 1 .. Len(p) - 1 : Tail(p)[i] = p[i + 1]
  <2>1. p \in Seq(Seqs) /\ p # <<>>
    BY <1>1, <1>2 DEF PipeTyped
  <2> HIDE DEF p
  <2>2. Len(p) \in Nat /\ Len(p) > 0
    BY <2>1, EmptySeq
  <2> QED
    BY <2>1, <2>2
<1>7. reader'[c] = reader[c] \/ (s \notin Stored /\ reader'[c] = [at |-> "saving", seq |-> s])
  BY <1>1, <1>3 DEF ReadersTyped
<1>8. \A d \in Conns \ {c} : reader'[d] = reader[d] /\ pipe'[d] = pipe[d]
  BY <1>1, <1>2, <1>3 DEF ReadersTyped, PipeTyped
<1>9. reader'[c].at = "saving" =>
         /\ reader'[c].seq = s /\ s \notin Stored /\ saving' # NoSave /\ saving'.seq = s
         /\ \A d \in Conns : reader[d].at # "saving"
  <2> SUFFICES ASSUME reader'[c].at = "saving"
               PROVE  /\ reader'[c].seq = s /\ s \notin Stored /\ saving' # NoSave /\ saving'.seq = s
                      /\ \A d \in Conns : reader[d].at # "saving"
    OBVIOUS
  <2>1. SaveBegin(s) /\ reader'[c].seq = s /\ s \notin Stored
    BY <1>2, <1>3, <1>7
  <2>2. saving' = [seq |-> s, read |-> LastRow(messages)] /\ saving = NoSave
    BY <2>1 DEF SaveBegin
  <2>3. s # 0
    BY <1>1, <1>6, SeqsAre
  <2>4. saving'.seq = s /\ saving' # NoSave
    BY <2>2, <2>3 DEF NoSave
  <2> QED
    BY <2>1, <2>2, <2>4 DEF Feeding, Readers
<1>10. reader'[c].at = "saving" \/ reader' = reader
  BY <1>3, <1>7, <1>1 DEF ReadersTyped
<1>11. FeedTyped'
  <2>1. s \in 0 .. Len(script)
    BY <1>1, <1>6, SeqsAre
  <2>2. reader' \in [Conns -> ReaderType]
    BY <1>1, <1>3, <2>1 DEF ReadersTyped, ReaderType
  <2>3. \A d, e \in Conns : reader'[d].at = "saving" /\ reader'[e].at = "saving" => d = e
    BY <1>1, <1>8, <1>9, <1>10 DEF ReadersTyped
  <2>4. ReadersTyped'
    BY <1>4, <2>2, <2>3 DEF ReadersTyped
  <2>5. PipeTyped'
    BY <1>1, <1>2, <1>4, <1>6 DEF PipeTyped
  <2> QED
    BY <1>1, <1>2, <1>4, <2>4, <2>5 DEF FeedTyped, PlanTyped, BusTyped, DashTyped, PageTyped
<1>12. Serving' /\ Wanted' /\ RunFed' /\ SessionFed' /\ NothingSkipped' /\ SnapshotWhole'
  <2>1. \A d \in Conns : reader'[d] = reader[d] \/ (reader[d].at = "idle" /\ reader'[d].at = "saving")
    BY <1>2, <1>7, <1>8
  <2> QED
    BY <1>2, <1>4, <1>5, <2>1, SamePage
<1>13. Readers'
  <2> SUFFICES ASSUME NEW d \in Conns
               PROVE  /\ reader'[d].at = "saving" => saving' # NoSave /\ saving'.seq = reader'[d].seq
                      /\ reader'[d].at \in {"local", "accepted", "publish"} => reader'[d].seq \in Stored'
                      /\ reader'[d].at = "idle" => reader'[d].seq = 0
    BY DEF Readers
  <2>1. CASE reader' = reader
    <3>1. CASE UNCHANGED runVars
      BY <1>4, <2>1, <3>1 DEF Feeding, Readers, runVars, projections
    <3>2. CASE s \notin Stored /\ reader' = [reader EXCEPT ![c] = [at |-> "saving", seq |-> s]]
      BY <1>1, <1>2, <2>1, <3>2 DEF ReadersTyped
    <3> QED
      BY <1>3, <3>1, <3>2
  <2>2. CASE reader'[c].at = "saving"
    <3>1. CASE d = c
      BY <1>9, <2>2, <3>1
    <3>2. CASE d # c
      BY <1>4, <1>8, <1>9, <2>2, <3>2 DEF Feeding, Readers
    <3> QED
      BY <3>1, <3>2
  <2> QED
    BY <1>10, <2>1, <2>2
<1>14. Used'
  <2>1. ASSUME NEW d \in Conns, d > conn PROVE pipe'[d] = <<>> /\ reader'[d] = NoReader
    <3>1. pipe[d] = <<>> /\ reader[d] = NoReader
      BY <2>1 DEF Feeding, Used
    <3>2. d # c
      BY <1>2, <3>1
    <3> QED
      BY <1>8, <3>1, <3>2
  <2>2. ASSUME rebuilds = 0 PROVE ~torn' /\ \A w \in Admins : rebuild'[w].pc = "idle"
    <3>1. ~torn /\ \A w \in Admins : rebuild[w].pc = "idle"
      BY <2>2 DEF Feeding, Used
    <3>2. CASE UNCHANGED runVars
      BY <3>1, <3>2 DEF runVars, repair
    <3>3. CASE SaveBegin(s)
      <4>1. Quiet
        BY <3>1 DEF Quiet, Rebuilding, Clearing, Replaying
      <4>2. ~torn'
        BY <3>1, <3>3, <4>1 DEF SaveBegin
      <4>3. \A w \in Admins : rebuild'[w].pc = rebuild[w].pc
        BY <1>1, <3>3 DEF SaveBegin, RebuildsTyped, Rebuilder
      <4> QED
        BY <3>1, <4>2, <4>3
    <3> QED
      BY <1>3, <3>2, <3>3
  <2> QED
    BY <1>2, <2>1, <2>2 DEF Feeding, Used, Running
<1>15. InTurn'
  <2> SUFFICES ASSUME Sequential PROVE InTurn'
    BY <1>4 DEF InTurn
  <2>1. c = 1
    <3>1. ~(c > conn)
      BY <1>2 DEF Feeding, Used
    <3> QED
      BY <1>5, <3>1 DEF Sequential
  <2>2. /\ \A t \in Stored : Before(t) \subseteq Stored
        /\ \A k \in DOMAIN p : \A t \in Before(p[k]) :
             t \in Stored \cup {reader[1].seq} \/ \E j \in 1 .. k - 1 : p[j] = t
        /\ \A i \in Instances : Ascends(bus[i])
    BY <2>1 DEF Feeding, InTurn
  <2>3. reader[1].seq = 0 /\ reader'[1].at \in {"idle", "saving"}
    BY <1>2, <1>10, <2>1 DEF Feeding, Readers
  <2>4. Before(s) \subseteq Stored
    <3>1. 1 \in DOMAIN p /\ p[1] = s
      BY <1>6
    <3> SUFFICES ASSUME NEW t \in Before(s) PROVE t \in Stored
      OBVIOUS
    <3>2. t \in Stored \cup {0} \/ \E j \in 1 .. 1 - 1 : p[j] = t
      BY <2>2, <2>3, <3>1
    <3>3. t # 0
      BY DEF Before
    <3> QED
      BY <3>2, <3>3
  <2>5. \A k \in DOMAIN pipe'[1] : \A t \in Before(pipe'[1][k]) :
           t \in Stored \cup {reader'[1].seq} \/ \E j \in 1 .. k - 1 : pipe'[1][j] = t
    <3>1. pipe'[1] = Tail(p)
      BY <1>1, <1>2, <1>5, <2>1 DEF PipeTyped
    <3> TAKE k \in DOMAIN pipe'[1]
    <3> TAKE t \in Before(pipe'[1][k])
    <3>2. k \in 1 .. Len(p) - 1 /\ pipe'[1][k] = p[k + 1] /\ k + 1 \in DOMAIN p /\ (k + 1) - 1 = k
      BY <1>6, <3>1
    <3>3. t # 0
      BY DEF Before
    <3>4. t \in Stored \/ \E j \in 1 .. k : p[j] = t
      BY <2>2, <2>3, <3>2, <3>3
    <3>5. ASSUME NEW j \in 1 .. k, p[j] = t
          PROVE  t \in Stored \cup {reader'[1].seq} \/ \E i \in 1 .. k - 1 : pipe'[1][i] = t
      <4>1. CASE j = 1
        <5>1. t = s
          BY <1>6, <3>5, <4>1
        <5>2. s \in Stored \/ reader'[1].seq = s
          BY <1>3, <1>7, <1>9, <1>10, <1>1, <2>1, <1>5 DEF ReadersTyped
        <5> QED
          BY <5>1, <5>2
      <4>2. CASE j # 1
        <5>1. j - 1 \in 1 .. k - 1 /\ j - 1 \in 1 .. Len(p) - 1 /\ (j - 1) + 1 = j
          BY <1>6, <3>2, <4>2
        <5>2. pipe'[1][j - 1] = t
          BY <1>6, <3>1, <3>5, <5>1
        <5> QED
          BY <5>1, <5>2
      <4> QED
        BY <4>1, <4>2
    <3> QED
      BY <3>4, <3>5
  <2>6. reader'[1].at = "saving" => Before(reader'[1].seq) \subseteq Stored
    BY <1>9, <2>1, <2>4
  <2> QED
    BY <1>2, <1>4, <2>2, <2>3, <2>5, <2>6 DEF InTurn, Before
<1> QED
  BY <1>11, <1>12, <1>13, <1>14, <1>15 DEF Feeding

LEMMA CommitKeeps ==
  ASSUME TypeOK, Projecting, Feeding, NEW c \in Conns, Commit(c)
  PROVE  FeedTyped' /\ Feeding'
<1> DEFINE s == reader[c].seq
<1>1. /\ PlanTyped /\ PipeTyped /\ ReadersTyped /\ BusTyped /\ DashTyped /\ PageTyped
      /\ EventsTyped /\ RebuildsTyped /\ script \in Seq(Events)
  BY TypeIs, RunTypeIs DEF EventsTyped
<1>2. /\ reader[c].at = "saving" /\ SaveCommit /\ reader' = [reader EXCEPT ![c].at = "local"]
      /\ script' = script /\ rebuild' = rebuild /\ torn' = torn /\ saving' = NoSave
      /\ pipe' = pipe /\ conn' = conn /\ bus' = bus /\ accepted' = accepted
      /\ dash' = dash /\ shown' = shown /\ lost' = lost
      /\ planned' = planned /\ rebuilds' = rebuilds
  BY DEF Commit, counted, SaveCommit
<1>3. saving # NoSave /\ saving.seq = s /\ s \in Seqs \ Stored
  BY <1>2 DEF Feeding, Readers, Projecting, Locked
<1>4. /\ stored' = Append(stored, s) /\ timeline' = Lines(timeline, s)
      /\ Stored' = Stored \cup {s} /\ s \in Nat /\ s # 0 /\ \A t \in Stored : t \in Nat /\ t > 0
  <2>1. stored' = Append(stored, s) /\ timeline' = Lines(timeline, s)
    BY <1>2, <1>3 DEF SaveCommit
  <2> HIDE DEF s
  <2>2. Stored' = Stored \cup {s}
    BY <1>1, <1>2, <1>3, <2>1, StoreMore
  <2> QED
    BY <1>1, <1>3, <2>1, <2>2, SeqsAre, StoredAre
<1>5. /\ Wire' = Wire /\ DashType \subseteq DashType' /\ ReaderType' = ReaderType /\ Seqs' = Seqs
      /\ Sequential' <=> Sequential
  BY <1>2, <1>4, MoreWire DEF Sequential
<1>6. 1 \in Conns /\ conn \in Nat /\ Conns \subseteq Nat /\ \A d \in Conns : d >= 1
  BY <1>1, ConnsAre
<1>7. /\ reader'[c].at = "local" /\ reader'[c].seq = s
      /\ \A d \in Conns \ {c} : reader'[d] = reader[d] /\ reader[d].at # "saving"
  BY <1>1, <1>2 DEF ReadersTyped, ReaderType
<1>8. \A t : IsStep(t)' = IsStep(t)
  BY <1>2, SameEffects
<1>9. FeedTyped'
  <2>1. reader' \in [Conns -> ReaderType]
    BY <1>1, <1>2 DEF ReadersTyped, ReaderType
  <2>2. ReadersTyped'
    BY <1>5, <1>7, <2>1 DEF ReadersTyped
  <2>3. BusTyped'
    <3>1. Seq(Stored) \subseteq Seq(Stored')
      BY <1>4
    <3> QED
      BY <1>1, <1>2, <3>1 DEF BusTyped
  <2> QED
    BY <1>1, <1>2, <1>4, <1>5, <2>2, <2>3 DEF FeedTyped, PlanTyped, PipeTyped, DashTyped, PageTyped
<1>10. Readers'
  BY <1>4, <1>7 DEF Feeding, Readers
<1>11. Used'
  <2>1. ~(c > conn)
    BY <1>2 DEF Feeding, Used, NoReader
  <2>2. \A d \in Conns : d > conn => reader'[d] = reader[d]
    BY <1>7, <2>1
  <2> QED
    BY <1>2, <2>2 DEF Feeding, Used, Running
<1>12. Serving'
  <2>1. Serving /\ Stored \subseteq Stored' /\ dash' = dash /\ planned' = planned
    BY <1>2, <1>4 DEF Feeding
  <2>2. \A i \in DOMAIN dash.send : /\ dash.send[i].events \subseteq Stored'
                                    /\ dash.pc # "live" => dash.send[i].type = "run.event"
    <3> TAKE i \in DOMAIN dash.send
    <3>1. dash.send[i].events \subseteq Stored /\ (dash.pc # "live" => dash.send[i].type = "run.event")
      BY <2>1 DEF Serving
    <3> QED
      BY <2>1, <3>1
  <2>3. \A x \in {dash.after, dash.seq, dash.through} : x \in Stored' \cup {0}
    BY <2>1 DEF Serving
  <2> QED
    BY <2>1, <2>2, <2>3 DEF Serving
<1>13. Sequential => c = 1
  <2>1. ~(c > conn)
    BY <1>2 DEF Feeding, Used, NoReader
  <2> QED
    BY <1>6, <2>1 DEF Sequential
<1>14. Sequential => Before(s) \subseteq Stored /\ \A t \in Stored : t < s
  <2> SUFFICES ASSUME Sequential PROVE Before(s) \subseteq Stored /\ \A t \in Stored : t < s
    OBVIOUS
  <2>1. Before(s) \subseteq Stored /\ \A t \in Stored : Before(t) \subseteq Stored
    BY <1>2, <1>13 DEF Feeding, InTurn
  <2>2. ASSUME NEW t \in Stored, t > s PROVE FALSE
    <3>1. s \in Before(t)
      BY <1>4, <2>2 DEF Before
    <3> QED
      BY <1>3, <2>1, <3>1
  <2>3. \A t \in Stored : t # s
    BY <1>3
  <2> QED
    BY <1>4, <2>1, <2>2, <2>3
<1>15. InTurn'
  <2> SUFFICES ASSUME Sequential PROVE InTurn'
    BY <1>5 DEF InTurn
  <2>1. InTurn /\ c = 1
    BY <1>13 DEF Feeding
  <2>2. \A t \in Stored' : Before(t) \subseteq Stored'
    BY <1>4, <1>14, <2>1 DEF InTurn
  <2>3. \A t \in Stored' : t <= s
    BY <1>4, <1>14
  <2>4. \A i \in Instances : \A k \in DOMAIN bus[i] : bus[i][k] < s
    <3>1. \A i \in Instances : \A k \in DOMAIN bus[i] : bus[i][k] \in Stored
      BY <1>1 DEF BusTyped
    <3> QED
      BY <1>14, <3>1
  <2>5. \A k \in DOMAIN pipe[1] : \A t \in Before(pipe[1][k]) :
           t \in Stored' \cup {reader'[1].seq} \/ \E j \in 1 .. k - 1 : pipe[1][j] = t
    BY <1>4, <1>7, <2>1 DEF InTurn
  <2>6. \A i \in Instances : Ascends(bus[i])
    BY <2>1 DEF InTurn
  <2> QED
    BY <1>2, <1>7, <2>1, <2>2, <2>3, <2>4, <2>5, <2>6 DEF InTurn, Before
<1>16. \A t : Reaches(t) => Reaches(t)'
  <2> TAKE t
  <2>1. ASSUME NEW d \in Conns, reader[d].seq = t,
               reader[d].at \in {"local", "accepted"} \/ (reader[d].at = "publish" /\ InstOf[d] # dash.inst)
        PROVE  reader'[d] = reader[d]
    BY <1>2, <1>7, <2>1
  <2> QED
    BY <1>2, <2>1 DEF Reaches, Coming
<1>17. ASSUME NEW t, t = s PROVE Reaches(t)'
  BY <1>7, <1>17 DEF Reaches, Coming
<1>18. Wanted'
  <2> SUFFICES ASSUME Sequential, dash.run, dash.inst # NoInst, NEW t \in Stored', OnItsWay(t)'
               PROVE  t > dash.seq \/ t <= dash.after \/ t <= dash.through
    BY <1>2, <1>5 DEF Wanted
  <2>1. CASE t = s
    <3>1. dash.seq \in Stored \cup {0}
      BY DEF Feeding, Serving
    <3> QED
      BY <1>4, <1>14, <2>1, <3>1
  <2>2. CASE t # s
    <3>1. t \in Stored /\ OnItsWay(t)
      BY <1>2, <1>4, <1>7, <1>13, <2>2 DEF OnItsWay
    <3> QED
      BY <3>1 DEF Feeding, Wanted
  <2> QED
    BY <2>1, <2>2
<1>19. Sequential => s > dash.through
  <2>1. dash.through \in Stored \cup {0}
    BY DEF Feeding, Serving
  <2> QED
    BY <1>4, <1>14, <2>1
<1>20. RunFed'
  <2> SUFFICES ASSUME Sequential, dash.run PROVE RunFed'
    BY <1>2, <1>5 DEF RunFed
  <2>1. RunFed /\ s > dash.through
    BY <1>19 DEF Feeding
  <2>2. dash.through \in Nat
    BY <1>1, DashFields DEF DashTyped
  <2>3. ~(s <= dash.through)
    BY <1>4, <2>1, <2>2
  <2>4. \A t : Told(t)' <=> Told(t)
    BY <1>2 DEF Told, Sent
  <2>5. dash.pc \in {"views", "list", "finish", "live"} =>
          dash.after <= dash.through /\ \A t \in Stored' : t > dash.through => Reaches(t)'
    <3> SUFFICES ASSUME dash.pc \in {"views", "list", "finish", "live"}
                 PROVE  dash.after <= dash.through /\ \A t \in Stored' : t > dash.through => Reaches(t)'
      OBVIOUS
    <3>1. dash.after <= dash.through /\ \A t \in Stored : t > dash.through => Reaches(t)
      BY <2>1 DEF RunFed
    <3>2. ASSUME NEW t \in Stored', t > dash.through PROVE Reaches(t)'
      <4>1. CASE t = s
        BY <1>17, <4>1
      <4>2. CASE t # s
        <5>1. Reaches(t)
          BY <1>4, <3>1, <3>2, <4>2
        <5> QED
          BY <1>16, <5>1
      <4> QED
        BY <4>1, <4>2
    <3> QED
      BY <3>1, <3>2
  <2>6. dash.pc \in {"finish", "live"} =>
          \A t \in Stored' : t > dash.after /\ t <= dash.through =>
            IF dash.pc = "live" THEN Told(t)' ELSE t \in dash.list \cup lost
    BY <1>4, <2>1, <2>3, <2>4 DEF RunFed
  <2>7. rebuilds = 0 =>
          /\ dash.pc \in {"list", "finish"} =>
               {t \in Stored' : t <= dash.through /\ IsStep(t)'} \subseteq dash.rows
          /\ dash.pc = "finish" => \A t \in dash.list : t <= dash.through
    BY <1>4, <1>8, <2>1, <2>3 DEF RunFed
  <2> QED
    BY <1>2, <2>5, <2>6, <2>7 DEF RunFed
<1>21. SessionFed'
  BY <1>2, <1>4, <1>16, <1>17 DEF Feeding, SessionFed, Lines
<1>22. NothingSkipped'
  BY <1>2, <1>4, <1>5, <1>16, <1>17 DEF Feeding, NothingSkipped
<1>23. SnapshotWhole'
  BY <1>2, <1>5, <1>8 DEF Feeding, SnapshotWhole
<1> QED
  BY <1>9, <1>10, <1>11, <1>12, <1>15, <1>18, <1>20, <1>21, <1>22, <1>23 DEF Feeding

-----------------------------------------------------------------------------
(* An event is offered to the page.                                        *)

LEMMA LiveTyped ==
  ASSUME NEW s \in Seqs
  PROVE  /\ Live(s) \in Wire /\ Live(s).events = {s} /\ Live(s).type = "run.event"
BY DEF Live, Wire

(* What becomes of an event that an instance broadcasts, for a page there. *)
Heard(s) ==
  \/ Tell(s)
  \/ dash' = dash /\ (lost' = lost \cup {s} \/ (lost' = lost /\ ~Accepts(dash, s)))

LEMMA HeardIs ==
  ASSUME DashTyped, PageTyped, NEW s \in Stored, Stored \subseteq Seqs, s \in 0 .. Len(script), Heard(s)
  PROVE  /\ dash' \in DashType /\ Len(dash'.send) <= Cap /\ lost' \subseteq Stored
         /\ dash'.inst = dash.inst /\ dash'.pc = dash.pc /\ dash'.after = dash.after
         /\ dash'.run = dash.run /\ dash'.session = dash.session /\ dash'.through = dash.through
         /\ dash'.rows = dash.rows /\ dash'.list = dash.list /\ dash'.seq \in {s, dash.seq}
         /\ \/ dash'.send = dash.send /\ (lost' = lost \cup {s} \/ (lost' = lost /\ ~Accepts(dash, s)))
            \/ dash'.send = Append(dash.send, Live(s)) /\ lost' = lost
<1> DEFINE seq == IF dash.run /\ s > dash.seq THEN s ELSE dash.seq
           d == [dash EXCEPT !.seq = seq]
<1>1. /\ dash \in DashType /\ Len(dash.send) <= Cap /\ dash.send \in Seq(Wire) /\ dash.seq \in 0 .. Len(script)
      /\ dash.run \in BOOLEAN /\ dash.session \in BOOLEAN
  BY DashFields DEF DashTyped
<1>2. Cap \in Nat /\ Live(s) \in Wire
  BY DashFeedAssumption, LiveTyped
<1>3. seq \in 0 .. Len(script) /\ seq \in {s, dash.seq}
  BY <1>1
<1> HIDE DEF seq
<1>4. /\ d \in DashType /\ d.send = dash.send
      /\ d.inst = dash.inst /\ d.pc = dash.pc /\ d.after = dash.after
      /\ d.run = dash.run /\ d.session = dash.session /\ d.through = dash.through
      /\ d.rows = dash.rows /\ d.list = dash.list /\ d.seq = seq
  BY <1>1, <1>3 DEF DashType
<1>5. CASE dash' = dash /\ (lost' = lost \cup {s} \/ (lost' = lost /\ ~Accepts(dash, s)))
  BY <1>1, <1>5 DEF PageTyped
<1>6. CASE Tell(s)
  <2>1. /\ dash' = Push(d, Live(s))
        /\ lost' = IF Len(dash.send) < Cap THEN lost ELSE lost \cup {s}
    BY <1>6 DEF Tell, seq
  <2> HIDE DEF d
  <2>2. CASE Len(dash.send) < Cap
    <3>1. dash' = [d EXCEPT !.send = Append(dash.send, Live(s))] /\ lost' = lost
      BY <1>4, <2>1, <2>2 DEF Push
    <3>2. Append(dash.send, Live(s)) \in Seq(Wire) /\ Len(Append(dash.send, Live(s))) <= Cap
      BY <1>1, <1>2, <2>2
    <3>3. dash' \in DashType
      BY <1>4, <3>1, <3>2 DEF DashType
    <3>4. /\ dash'.send = Append(dash.send, Live(s))
          /\ dash'.inst = d.inst /\ dash'.pc = d.pc /\ dash'.after = d.after
          /\ dash'.run = d.run /\ dash'.session = d.session /\ dash'.through = d.through
          /\ dash'.rows = d.rows /\ dash'.list = d.list /\ dash'.seq = d.seq
      BY <1>4, <3>1 DEF DashType
    <3> QED
      BY <1>3, <1>4, <3>1, <3>2, <3>3, <3>4 DEF PageTyped
  <2>3. CASE ~(Len(dash.send) < Cap)
    <3>1. dash' = d /\ lost' = lost \cup {s}
      BY <1>4, <2>1, <2>3 DEF Push
    <3> QED
      BY <1>1, <1>3, <1>4, <3>1 DEF PageTyped
  <2> QED
    BY <2>2, <2>3
<1> QED
  BY <1>5, <1>6 DEF Heard

LEMMA SendLonger ==
  ASSUME DashTyped, NEW m \in Wire, dash'.send = Append(dash.send, m)
  PROVE  /\ \A i \in DOMAIN dash.send : i \in DOMAIN dash'.send /\ dash'.send[i] = dash.send[i]
         /\ \A i \in DOMAIN dash'.send : (i \in DOMAIN dash.send /\ dash'.send[i] = dash.send[i]) \/ dash'.send[i] = m
         /\ \E i \in DOMAIN dash'.send : dash'.send[i] = m
<1>1. dash.send \in Seq(Wire)
  BY DashFields DEF DashTyped
<1>2. /\ DOMAIN dash.send = 1 .. Len(dash.send) /\ DOMAIN dash'.send = 1 .. Len(dash.send) + 1 /\ Len(dash.send) \in Nat
      /\ \A i \in 1 .. Len(dash.send) : dash'.send[i] = dash.send[i]
      /\ dash'.send[Len(dash.send) + 1] = m
  BY <1>1
<1>3. \A i \in 1 .. Len(dash.send) : i \in 1 .. Len(dash.send) + 1
  BY <1>2
<1>4. \A i \in 1 .. Len(dash.send) + 1 : i \in 1 .. Len(dash.send) \/ i = Len(dash.send) + 1
  BY <1>2
<1>5. Len(dash.send) + 1 \in 1 .. Len(dash.send) + 1
  BY <1>2
<1> QED
  BY <1>2, <1>3, <1>4, <1>5

(* What the page has been told, it has been told for good.                 *)
LEMMA HeardTells ==
  ASSUME DashTyped, PageTyped, NEW s \in Stored, Stored \subseteq Seqs, s \in 0 .. Len(script), Heard(s), shown' = shown
  PROVE  /\ \A t : Told(t) => Told(t)'
         /\ \A t : Sent(t) => Sent(t)'
         /\ Accepts(dash, s) => (s \in lost' \/ \E i \in DOMAIN dash'.send : s \in dash'.send[i].events)
         /\ lost \subseteq lost'
         /\ \A i \in DOMAIN dash'.send : \/ i \in DOMAIN dash.send /\ dash'.send[i] = dash.send[i]
                                         \/ dash'.send[i] = Live(s)
<1>1. /\ \/ dash'.send = dash.send /\ (lost' = lost \cup {s} \/ (lost' = lost /\ ~Accepts(dash, s)))
         \/ dash'.send = Append(dash.send, Live(s)) /\ lost' = lost
  BY HeardIs
<1>2. Live(s) \in Wire /\ Live(s).events = {s}
  BY LiveTyped
<1>3. CASE dash'.send = dash.send /\ (lost' = lost \cup {s} \/ (lost' = lost /\ ~Accepts(dash, s)))
  BY <1>3 DEF Told, Sent
<1>4. CASE dash'.send = Append(dash.send, Live(s)) /\ lost' = lost
  BY <1>2, <1>4, SendLonger DEF Told, Sent
<1> QED
  BY <1>1, <1>3, <1>4

LEMMA ToldReaches == \A t : (Told(t) => Reaches(t)) /\ (Told(t)' => Reaches(t)')
BY DEF Told, Sent, Reaches, Coming

LEMMA OfferedKeeps ==
  ASSUME TypeOK, Feeding, script' = script, stored' = stored, timeline' = timeline, shown' = shown,
         planned' = planned, rebuilds' = rebuilds, conn' = conn, NEW s \in Stored,
         NEW offered \in BOOLEAN,
         offered => dash.inst # NoInst /\ Heard(s),
         ~offered => dash' = dash /\ lost \subseteq lost' /\ lost' \subseteq Stored,
         offered /\ Sequential /\ dash.run => s > dash.seq \/ s <= dash.after \/ s <= dash.through,
         dash.pc # "off" => \A t \in Stored : Reaches(t) => Reaches(t)' \/ (t = s /\ offered)
  PROVE  DashTyped' /\ PageTyped' /\ Serving' /\ RunFed' /\ SessionFed' /\ NothingSkipped' /\ SnapshotWhole'
<1>1. PlanTyped /\ DashTyped /\ PageTyped /\ EventsTyped
  BY TypeIs, RunTypeIs
<1>2. /\ Wire' = Wire /\ DashType' = DashType /\ Stored' = Stored /\ Seqs' = Seqs
      /\ (Sequential' <=> Sequential) /\ \A t : IsStep(t)' = IsStep(t)
  BY SameWire, SameEffects DEF Sequential
<1>3. /\ Stored \subseteq Seqs /\ s \in 0 .. Len(script) /\ s \in Nat /\ dash \in DashType
      /\ dash.seq \in Nat /\ dash.after \in Nat /\ dash.through \in Nat
      /\ dash.run \in BOOLEAN /\ dash.session \in BOOLEAN
  BY <1>1, StoredAre, DashFields DEF DashTyped
<1>4. /\ dash' \in DashType /\ Len(dash'.send) <= Cap /\ lost' \subseteq Stored /\ lost \subseteq lost'
      /\ dash'.inst = dash.inst /\ dash'.pc = dash.pc /\ dash'.after = dash.after
      /\ dash'.run = dash.run /\ dash'.session = dash.session /\ dash'.through = dash.through
      /\ dash'.rows = dash.rows /\ dash'.list = dash.list
      /\ dash'.seq \in {s, dash.seq}
  <2>1. CASE offered
    <3>1. /\ dash' \in DashType /\ Len(dash'.send) <= Cap /\ lost' \subseteq Stored
          /\ dash'.inst = dash.inst /\ dash'.pc = dash.pc /\ dash'.after = dash.after
          /\ dash'.run = dash.run /\ dash'.session = dash.session /\ dash'.through = dash.through
          /\ dash'.rows = dash.rows /\ dash'.list = dash.list
          /\ dash'.seq \in {s, dash.seq}
      BY <1>1, <1>3, <2>1, HeardIs
    <3>2. lost \subseteq lost'
      BY <1>1, <1>3, <2>1, HeardTells
    <3> QED
      BY <3>1, <3>2
  <2>2. CASE ~offered
    BY <1>1, <1>3, <2>2 DEF DashTyped
  <2> QED
    BY <2>1, <2>2
<1>5. /\ \A t : Told(t) => Told(t)'
      /\ \A i \in DOMAIN dash'.send : \/ i \in DOMAIN dash.send /\ dash'.send[i] = dash.send[i]
                                      \/ dash'.send[i] = Live(s)
  <2>1. CASE offered
    BY <1>1, <1>3, <2>1, HeardTells
  <2>2. CASE ~offered
    BY <2>2 DEF Told, Sent
  <2> QED
    BY <2>1, <2>2
<1>6. ASSUME NEW t \in Stored, Reaches(t), dash.pc # "off"
      PROVE  Reaches(t)' \/ (t = s /\ offered /\ ~Accepts(dash, s))
  <2>1. CASE t = s /\ offered /\ Accepts(dash, s)
    <3>1. s \in lost' \/ \E i \in DOMAIN dash'.send : s \in dash'.send[i].events
      BY <1>1, <1>3, <2>1, HeardTells
    <3> QED
      BY <2>1, <3>1 DEF Reaches, Coming
  <2> QED
    BY <1>6, <2>1
<1>7. DashTyped' /\ PageTyped'
  BY <1>1, <1>2, <1>4 DEF DashTyped, PageTyped
<1>8. Live(s).events = {s} /\ Live(s).type = "run.event"
  BY <1>3, LiveTyped
<1>9. Serving'
  <2>1. Serving
    BY DEF Feeding
  <2>2. dash.pc = "off" => dash' = dash
    BY <2>1 DEF Serving
  <2>3. \A x \in {dash'.after, dash'.seq, dash'.through} : x \in Stored' \cup {0}
    <3>1. \A x \in {dash.after, dash.seq, dash.through} : x \in Stored \cup {0}
      BY <2>1 DEF Serving
    <3> QED
      BY <1>2, <1>4, <3>1
  <2>4. ASSUME NEW i \in DOMAIN dash'.send
        PROVE  dash'.send[i].events \subseteq Stored' /\ (dash'.pc # "live" => dash'.send[i].type = "run.event")
    <3>1. CASE i \in DOMAIN dash.send /\ dash'.send[i] = dash.send[i]
      BY <1>2, <1>4, <2>1, <3>1 DEF Serving
    <3>2. CASE dash'.send[i] = Live(s)
      BY <1>2, <1>8, <3>2
    <3> QED
      BY <1>5, <3>1, <3>2
  <2> QED
    BY <1>4, <2>1, <2>2, <2>3, <2>4 DEF Serving
<1>10. ~Accepts(dash, s) => ~(dash.session /\ script[s].codex) /\ (dash.run => ~(s > dash.seq))
  BY DEF Accepts
<1>11. RunFed'
  <2> SUFFICES ASSUME Sequential, dash.run PROVE RunFed'
    BY <1>2, <1>4 DEF RunFed
  <2>1. RunFed
    BY DEF Feeding
  <2>2. ASSUME dash.pc \in {"views", "list", "finish", "live"}
        PROVE  dash.after <= dash.through /\ \A t \in Stored : t > dash.through => Reaches(t)'
    <3>1. dash.after <= dash.through /\ \A t \in Stored : t > dash.through => Reaches(t)
      BY <2>1, <2>2 DEF RunFed
    <3>2. offered /\ ~Accepts(dash, s) => ~(s > dash.through)
      BY <1>3, <1>10, <3>1
    <3>3. dash.pc # "off"
      BY <2>2
    <3> QED
      BY <1>6, <3>1, <3>2, <3>3
  <2>3. ASSUME dash.pc \in {"finish", "live"}, NEW t \in Stored, t > dash.after, t <= dash.through
        PROVE  IF dash.pc = "live" THEN Told(t)' ELSE t \in dash.list \cup lost'
    BY <1>4, <1>5, <2>1, <2>3 DEF RunFed
  <2>4. rebuilds = 0 =>
          /\ dash.pc \in {"list", "finish"} =>
               {t \in Stored : t <= dash.through /\ IsStep(t)'} \subseteq dash.rows
          /\ dash.pc = "finish" => \A t \in dash.list : t <= dash.through
    BY <1>2, <2>1 DEF RunFed
  <2> QED
    BY <1>2, <1>4, <2>2, <2>3, <2>4 DEF RunFed
<1>12. SessionFed'
  <2> SUFFICES ASSUME dash.session, rebuilds = 0, dash.pc = "finish", NEW t \in timeline, script[t].codex
               PROVE  t \in dash.list \/ Reaches(t)'
    BY <1>4 DEF SessionFed
  <2>1. t \in dash.list \/ Reaches(t)
    BY DEF Feeding, SessionFed
  <2>2. t \in Stored
    BY RunTypeIs DEF TypeOK, TablesTyped
  <2> QED
    BY <1>6, <1>10, <2>1, <2>2
<1>13. NothingSkipped'
  <2> SUFFICES ASSUME dash.pc = "live"
               PROVE  /\ dash.run /\ Sequential => \A t \in Stored : t > dash.after => Reaches(t)'
                      /\ dash.session /\ rebuilds = 0 => \A t \in Stored : script[t].codex => Reaches(t)'
    BY <1>2, <1>4 DEF NothingSkipped
  <2>1. ASSUME dash.run, Sequential, NEW t \in Stored, t > dash.after PROVE Reaches(t)'
    <3>1. Reaches(t)
      BY <2>1 DEF Feeding, NothingSkipped
    <3>2. CASE t = s /\ offered /\ ~Accepts(dash, s)
      <4>1. t <= dash.through
        BY <1>3, <1>10, <2>1, <3>2
      <4>2. Told(t)
        BY <2>1, <4>1 DEF Feeding, RunFed
      <4> QED
        BY <1>5, <4>2, ToldReaches
    <3> QED
      BY <1>6, <3>1, <3>2
  <2>2. ASSUME dash.session, rebuilds = 0, NEW t \in Stored, script[t].codex PROVE Reaches(t)'
    <3>1. Reaches(t)
      BY <2>2 DEF Feeding, NothingSkipped
    <3> QED
      BY <1>6, <1>10, <2>2, <3>1
  <2> QED
    BY <2>1, <2>2
<1>14. SnapshotWhole'
  <2> SUFFICES ASSUME Sequential, rebuilds = 0, NEW i \in DOMAIN dash'.send,
                      dash'.send[i].type = "run.snapshot", ~dash.session
               PROVE  {t \in dash'.send[i].events : IsStep(t)} \subseteq dash'.send[i].rows
    BY <1>2, <1>4 DEF SnapshotWhole
  <2>1. i \in DOMAIN dash.send /\ dash'.send[i] = dash.send[i]
    BY <1>5, <1>8
  <2> QED
    BY <2>1 DEF Feeding, SnapshotWhole
<1> QED
  BY <1>7, <1>9, <1>11, <1>12, <1>13, <1>14

LEMMA AppendIs ==
  ASSUME NEW S, NEW q \in Seq(S), NEW e \in S
  PROVE  /\ Append(q, e) \in Seq(S) /\ Range(Append(q, e)) = Range(q) \cup {e}
         /\ Ascends(q) /\ (\A k \in DOMAIN q : q[k] < e) => Ascends(Append(q, e))
<1> DEFINE r == Append(q, e)
           n == Len(q)
<1>1. /\ r \in Seq(S) /\ n \in Nat /\ DOMAIN q = 1 .. n /\ DOMAIN r = 1 .. n + 1
      /\ \A k \in 1 .. n : r[k] = q[k]
      /\ r[n + 1] = e
  OBVIOUS
<1> HIDE DEF r, n
<1>2. 1 .. n + 1 = (1 .. n) \cup {n + 1}
  BY <1>1
<1>3. Range(r) = Range(q) \cup {e}
  BY <1>1, <1>2 DEF Range
<1>4. ASSUME Ascends(q), \A k \in DOMAIN q : q[k] < e PROVE Ascends(r)
  <2> SUFFICES ASSUME NEW i \in 1 .. n + 1, NEW j \in 1 .. n + 1, i < j PROVE r[i] < r[j]
    BY <1>1 DEF Ascends
  <2>1. i \in 1 .. n
    BY <1>1
  <2>2. CASE j = n + 1
    BY <1>1, <1>4, <2>1, <2>2
  <2>3. CASE j # n + 1
    <3>1. j \in 1 .. n
      BY <1>1, <2>3
    <3> QED
      BY <1>1, <1>4, <2>1, <3>1 DEF Ascends
  <2> QED
    BY <2>2, <2>3
<1> QED
  BY <1>1, <1>3, <1>4 DEF r

LEMMA BroadcastKeeps ==
  ASSUME TypeOK, Feeding, NEW c \in Conns, Broadcast(c)
  PROVE  FeedTyped' /\ Feeding'
<1> DEFINE s == reader[c].seq
<1>1. /\ PlanTyped /\ PipeTyped /\ ReadersTyped /\ BusTyped /\ DashTyped /\ PageTyped
      /\ EventsTyped /\ script \in Seq(Events)
  BY TypeIs, RunTypeIs DEF EventsTyped
<1>2. /\ reader[c].at \in {"local", "accepted"}
      /\ reader' = [reader EXCEPT ![c] = IF planned.redis THEN [@ EXCEPT !.at = "publish"] ELSE NoReader]
      /\ dash.inst = InstOf[c] => Heard(s)
      /\ dash.inst # InstOf[c] => dash' = dash /\ lost' = lost
      /\ script' = script /\ stored' = stored /\ saving' = saving /\ timeline' = timeline
      /\ rebuild' = rebuild /\ torn' = torn
      /\ pipe' = pipe /\ conn' = conn /\ bus' = bus /\ accepted' = accepted /\ shown' = shown
      /\ planned' = planned /\ rebuilds' = rebuilds
  BY DEF Broadcast, Offer, Heard, counted, runVars, projections, repair, tables, row
<1>3. /\ Wire' = Wire /\ DashType' = DashType /\ ReaderType' = ReaderType /\ Stored' = Stored /\ Seqs' = Seqs
      /\ Sequential' <=> Sequential
  BY <1>2, SameWire DEF Sequential
<1>4. /\ 1 \in Conns /\ conn \in Nat /\ Conns \subseteq Nat /\ (\A d \in Conns : d >= 1)
      /\ InstOf \in [Conns -> Instances] /\ NoInst \notin Instances
      /\ planned.conns \in Nat /\ (~planned.redis => planned.conns = 1) /\ conn <= planned.conns
  BY <1>1, ConnsAre DEF PlanTyped
<1>5. s \in Stored /\ Stored \subseteq Seqs /\ s \in 0 .. Len(script)
  BY <1>1, <1>2, StoredAre, SeqsAre DEF Feeding, Readers
<1>6. /\ \A d \in Conns \ {c} : reader'[d] = reader[d]
      /\ planned.redis => reader'[c].at = "publish" /\ reader'[c].seq = s
      /\ ~planned.redis => reader'[c] = NoReader
  BY <1>1, <1>2 DEF ReadersTyped, ReaderType
<1>7. NoReader \in ReaderType /\ NoReader.at = "idle" /\ NoReader.seq = 0
  BY <1>1 DEF NoReader, ReaderType
<1>8. c <= conn /\ (conn = 1 => c = 1)
  <2>1. ~(c > conn)
    BY <1>2, <1>7 DEF Feeding, Used
  <2> QED
    BY <1>4, <2>1
<1>9. ~planned.redis => conn = 1 /\ c = 1 /\ (dash.inst # NoInst => dash.inst = InstOf[c])
  <2>1. ~planned.redis => conn = 1
    BY <1>4, <1>8
  <2> QED
    BY <1>8, <2>1 DEF Feeding, Used, Running
<1>10. dash'.inst = dash.inst /\ dash'.run = dash.run
  BY <1>1, <1>2, <1>5, HeardIs
<1>11. \A t : Told(t) => Told(t)'
  <2>1. CASE Heard(s)
    BY <1>1, <1>2, <1>5, <2>1, HeardTells
  <2>2. CASE dash' = dash /\ lost' = lost
    BY <1>2, <2>2 DEF Told, Sent
  <2> QED
    BY <1>2, <2>1, <2>2
<1>12. dash.run => dash.inst # NoInst /\ dash.pc # "off"
  BY DEF Feeding, Serving
<1>13. dash.pc # "off" => \A t \in Stored : Reaches(t) => Reaches(t)' \/ (t = s /\ dash.inst = InstOf[c])
  <2> SUFFICES ASSUME dash.pc # "off", NEW t \in Stored, Reaches(t), ~(t = s /\ dash.inst = InstOf[c])
               PROVE  Reaches(t)'
    OBVIOUS
  <2>1. dash.inst # NoInst
    BY DEF Feeding, Serving
  <2>2. CASE Told(t)
    BY <1>11, <2>2, ToldReaches
  <2>3. ASSUME NEW d \in Conns, reader[d].seq = t,
               reader[d].at \in {"local", "accepted"} \/ (reader[d].at = "publish" /\ InstOf[d] # dash.inst)
        PROVE  Reaches(t)'
    <3>1. CASE d = c
      <4>1. planned.redis /\ dash.inst # InstOf[c]
        BY <1>2, <1>9, <2>1, <2>3, <3>1
      <4>2. reader'[c].at = "publish" /\ reader'[c].seq = t /\ InstOf[c] # dash'.inst
        BY <1>6, <1>10, <2>3, <3>1, <4>1
      <4> QED
        BY <4>2 DEF Reaches, Coming
    <3>2. CASE d # c
      <4>1. reader'[d] = reader[d]
        BY <1>6, <3>2
      <4> QED
        BY <1>10, <2>3, <4>1 DEF Reaches, Coming
    <3> QED
      BY <3>1, <3>2
  <2>4. CASE t \in Range(bus[dash.inst])
    BY <1>2, <1>10, <2>1, <2>4 DEF Reaches, Coming
  <2> QED
    BY <2>2, <2>3, <2>4 DEF Reaches, Coming, Told, Sent
<1>14. Sequential /\ dash.run => s > dash.seq \/ s <= dash.after \/ s <= dash.through
  <2>1. Sequential => c = 1
    BY <1>8 DEF Sequential
  <2>2. Sequential => OnItsWay(s)
    BY <1>2, <2>1 DEF OnItsWay
  <2> QED
    BY <1>5, <1>12, <2>2 DEF Feeding, Wanted
<1>15. DashTyped' /\ PageTyped' /\ Serving' /\ RunFed' /\ SessionFed' /\ NothingSkipped' /\ SnapshotWhole'
  <2> DEFINE offered == dash.inst = InstOf[c]
  <2>1. offered => dash.inst # NoInst /\ Heard(s)
    BY <1>2, <1>4
  <2>2. ~offered => dash' = dash /\ lost \subseteq lost' /\ lost' \subseteq Stored
    BY <1>1, <1>2 DEF PageTyped
  <2>3. offered /\ Sequential /\ dash.run => s > dash.seq \/ s <= dash.after \/ s <= dash.through
    BY <1>14
  <2>4. offered \in BOOLEAN /\ (dash.pc # "off" => \A t \in Stored : Reaches(t) => Reaches(t)' \/ (t = s /\ offered))
    BY <1>13
  <2> HIDE DEF s, offered
  <2> QED
    BY <1>2, <1>5, <2>1, <2>2, <2>3, <2>4, OfferedKeeps
<1>16. FeedTyped'
  <2>1. reader' \in [Conns -> ReaderType]
    BY <1>1, <1>2, <1>7 DEF ReadersTyped, ReaderType
  <2>2. reader'[c].at # "saving"
    BY <1>6, <1>7
  <2>3. ReadersTyped'
    BY <1>1, <1>3, <1>6, <2>1, <2>2 DEF ReadersTyped
  <2> QED
    BY <1>1, <1>2, <1>3, <1>15, <2>3 DEF FeedTyped, PlanTyped, PipeTyped, BusTyped
<1>17. Readers'
  <2> SUFFICES ASSUME NEW d \in Conns
               PROVE  /\ reader'[d].at = "saving" => saving # NoSave /\ saving.seq = reader'[d].seq
                      /\ reader'[d].at \in {"local", "accepted", "publish"} => reader'[d].seq \in Stored
                      /\ reader'[d].at = "idle" => reader'[d].seq = 0
    BY <1>2, <1>3 DEF Readers
  <2>1. CASE d = c
    BY <1>5, <1>6, <1>7, <2>1
  <2>2. CASE d # c
    BY <1>6, <2>2 DEF Feeding, Readers
  <2> QED
    BY <2>1, <2>2
<1>18. Used'
  <2>1. \A d \in Conns : d > conn => reader'[d] = reader[d]
    BY <1>4, <1>6, <1>8
  <2> QED
    BY <1>2, <1>10, <2>1 DEF Feeding, Used, Running
<1>19. InTurn'
  <2> SUFFICES ASSUME Sequential PROVE InTurn'
    BY <1>3 DEF InTurn
  <2>1. InTurn /\ c = 1
    BY <1>8 DEF Feeding, Sequential
  <2>2. reader'[1].at \in {"idle", "publish"} /\ (reader'[1].at = "publish" => reader'[1].seq = reader[1].seq)
    BY <1>6, <1>7, <2>1
  <2>3. \A k \in DOMAIN pipe[1] : \A t \in Before(pipe[1][k]) :
           t \in Stored \cup {reader'[1].seq} \/ \E j \in 1 .. k - 1 : pipe[1][j] = t
    BY <1>5, <2>1 DEF InTurn
  <2> QED
    BY <1>2, <1>3, <2>1, <2>2, <2>3 DEF InTurn, Before
<1>20. Wanted'
  <2> SUFFICES ASSUME Sequential, dash.run, dash.inst # NoInst, NEW t \in Stored, OnItsWay(t)'
               PROVE  t > dash'.seq \/ t <= dash'.after \/ t <= dash'.through
    BY <1>3, <1>10 DEF Wanted
  <2>1. c = 1 /\ conn = 1
    BY <1>8 DEF Sequential
  <2>2. dash.inst # InstOf[1]
    <3> SUFFICES ASSUME dash.inst = InstOf[1] PROVE FALSE
      OBVIOUS
    <3>1. bus'[dash'.inst] = <<>>
      BY <1>2, <1>10, <2>1 DEF Feeding, Used
    <3>2. reader'[1].at \in {"publish", "idle"} /\ InstOf[1] = dash'.inst
      BY <1>6, <1>7, <1>10, <2>1
    <3> QED
      BY <3>1, <3>2 DEF OnItsWay, Range
  <2>3. dash' = dash
    BY <1>2, <2>1, <2>2
  <2>4. OnItsWay(t)
    <3>1. reader'[1].at = "publish" => reader'[1].seq = reader[1].seq
      BY <1>6, <1>7, <2>1
    <3>2. reader'[1].at \notin {"local", "accepted"}
      BY <1>6, <1>7, <2>1
    <3> QED
      BY <1>2, <2>1, <2>3, <3>1, <3>2 DEF OnItsWay
  <2> QED
    BY <2>3, <2>4 DEF Feeding, Wanted
<1> QED
  BY <1>15, <1>16, <1>17, <1>18, <1>19, <1>20 DEF Feeding

LEMMA PublishKeeps ==
  ASSUME TypeOK, Feeding, NEW c \in Conns, Publish(c)
  PROVE  FeedTyped' /\ Feeding'
<1> DEFINE s == reader[c].seq
<1>1. /\ PlanTyped /\ PipeTyped /\ ReadersTyped /\ BusTyped /\ DashTyped /\ PageTyped
      /\ EventsTyped /\ script \in Seq(Events)
  BY TypeIs, RunTypeIs DEF EventsTyped
<1>2. /\ reader[c].at = "publish" /\ reader' = [reader EXCEPT ![c] = NoReader]
      /\ script' = script /\ stored' = stored /\ saving' = saving /\ timeline' = timeline
      /\ rebuild' = rebuild /\ torn' = torn
      /\ pipe' = pipe /\ conn' = conn /\ accepted' = accepted /\ dash' = dash /\ shown' = shown
      /\ planned' = planned /\ rebuilds' = rebuilds
  BY DEF Publish, counted, runVars, projections, repair, tables, row
<1>3. \/ bus' = [i \in Instances |-> IF i = InstOf[c] THEN bus[i] ELSE Append(bus[i], s)] /\ lost' = lost
      \/ bus' = bus /\ lost' = lost \cup {s}
  BY DEF Publish
<1>4. /\ Wire' = Wire /\ DashType' = DashType /\ ReaderType' = ReaderType /\ Stored' = Stored /\ Seqs' = Seqs
      /\ Sequential' <=> Sequential
  BY <1>2, SameWire DEF Sequential
<1>5. /\ 1 \in Conns /\ conn \in Nat /\ Conns \subseteq Nat /\ (\A d \in Conns : d >= 1)
      /\ InstOf \in [Conns -> Instances] /\ NoInst \notin Instances
  BY <1>1, ConnsAre
<1>6. s \in Stored /\ Stored \subseteq Seqs
  BY <1>1, <1>2, StoredAre DEF Feeding, Readers
<1>7. NoReader \in ReaderType /\ NoReader.at = "idle" /\ NoReader.seq = 0
  BY <1>1 DEF NoReader, ReaderType
<1>8. reader'[c] = NoReader /\ \A d \in Conns \ {c} : reader'[d] = reader[d]
  BY <1>1, <1>2 DEF ReadersTyped
<1>9. c <= conn /\ (conn = 1 => c = 1)
  <2>1. ~(c > conn)
    BY <1>2, <1>7 DEF Feeding, Used
  <2> QED
    BY <1>5, <2>1
<1>10. ASSUME NEW i \in Instances
       PROVE  /\ bus'[i] \in Seq(Stored)
              /\ Range(bus[i]) \subseteq Range(bus'[i]) /\ Range(bus'[i]) \subseteq Range(bus[i]) \cup {s}
              /\ i = InstOf[c] => bus'[i] = bus[i]
              /\ s \in lost' \/ (i # InstOf[c] => s \in Range(bus'[i]))
              /\ Ascends(bus[i]) /\ (\A k \in DOMAIN bus[i] : bus[i][k] < s) => Ascends(bus'[i])
  <2>1. bus[i] \in Seq(Stored)
    BY <1>1 DEF BusTyped
  <2>2. CASE bus'[i] = bus[i] /\ (i = InstOf[c] \/ s \in lost')
    BY <2>1, <2>2
  <2>3. CASE bus'[i] = Append(bus[i], s) /\ i # InstOf[c]
    <3> HIDE DEF s
    <3> QED
      BY <1>6, <2>1, <2>3, AppendIs
  <2> QED
    BY <1>3, <2>2, <2>3
<1>11. lost \subseteq lost' /\ lost' \subseteq Stored
  BY <1>1, <1>3, <1>6 DEF PageTyped
<1>12. dash.pc # "off" => \A t \in Stored : Reaches(t) => Reaches(t)'
  <2> SUFFICES ASSUME dash.pc # "off", NEW t \in Stored, Reaches(t) PROVE Reaches(t)'
    OBVIOUS
  <2>1. dash.inst # NoInst /\ dash.inst \in Instances
    BY <1>1, DashFields DEF Feeding, Serving, DashTyped
  <2>2. CASE Told(t)
    BY <1>2, <1>11, <2>2, ToldReaches DEF Told, Sent
  <2>3. ASSUME NEW d \in Conns, reader[d].seq = t,
               reader[d].at \in {"local", "accepted"} \/ (reader[d].at = "publish" /\ InstOf[d] # dash.inst)
        PROVE  Reaches(t)'
    <3>1. CASE d = c
      <4>1. t = s /\ dash.inst # InstOf[c]
        BY <1>2, <2>3, <3>1
      <4>2. s \in lost' \/ s \in Range(bus'[dash'.inst])
        BY <1>2, <1>10, <2>1, <4>1
      <4> QED
        BY <1>2, <2>1, <4>1, <4>2 DEF Reaches, Coming
    <3>2. CASE d # c
      <4>1. reader'[d] = reader[d]
        BY <1>8, <3>2
      <4> QED
        BY <1>2, <2>3, <4>1 DEF Reaches, Coming
    <3> QED
      BY <3>1, <3>2
  <2>4. CASE t \in Range(bus[dash.inst])
    <3>1. t \in Range(bus'[dash'.inst])
      BY <1>2, <1>10, <2>1, <2>4
    <3> QED
      BY <1>2, <2>1, <3>1 DEF Reaches, Coming
  <2> QED
    BY <2>2, <2>3, <2>4 DEF Reaches, Coming, Told, Sent
<1>13. Wanted'
  <2> SUFFICES ASSUME Sequential, dash.run, dash.inst # NoInst, NEW t \in Stored, OnItsWay(t)'
               PROVE  t > dash.seq \/ t <= dash.after \/ t <= dash.through
    BY <1>2, <1>4 DEF Wanted
  <2>1. c = 1 /\ dash.inst \in Instances
    BY <1>1, <1>9, DashFields DEF Sequential, DashTyped
  <2>2. t \in Range(bus'[dash.inst])
    BY <1>2, <1>7, <1>8, <2>1 DEF OnItsWay
  <2>3. OnItsWay(t)
    <3>1. CASE dash.inst = InstOf[1]
      BY <1>10, <2>1, <2>2, <3>1 DEF OnItsWay
    <3>2. CASE dash.inst # InstOf[1]
      BY <1>2, <1>10, <2>1, <2>2, <3>2 DEF OnItsWay
    <3> QED
      BY <3>1, <3>2
  <2> QED
    BY <2>3 DEF Feeding, Wanted
<1>14. DashTyped' /\ PageTyped' /\ Serving' /\ RunFed' /\ SessionFed' /\ NothingSkipped' /\ SnapshotWhole'
  <2> HIDE DEF s
  <2> QED
    BY <1>2, <1>6, <1>11, <1>12, OfferedKeeps
<1>15. FeedTyped'
  <2>1. ReadersTyped'
    <3>1. reader' \in [Conns -> ReaderType]
      BY <1>1, <1>2, <1>7 DEF ReadersTyped
    <3> QED
      BY <1>1, <1>4, <1>7, <1>8, <3>1 DEF ReadersTyped
  <2>2. BusTyped'
    <3>1. DOMAIN bus' = Instances /\ bus' = [i \in Instances |-> bus'[i]]
      BY <1>1, <1>3 DEF BusTyped
    <3>2. bus' \in [Instances -> Seq(Stored)]
      BY <1>10, <3>1
    <3> QED
      BY <1>1, <1>2, <1>4, <3>2 DEF BusTyped
  <2> QED
    BY <1>1, <1>2, <1>4, <1>14, <2>1, <2>2 DEF FeedTyped, PlanTyped, PipeTyped
<1>16. Readers'
  <2> SUFFICES ASSUME NEW d \in Conns
               PROVE  /\ reader'[d].at = "saving" => saving # NoSave /\ saving.seq = reader'[d].seq
                      /\ reader'[d].at \in {"local", "accepted", "publish"} => reader'[d].seq \in Stored
                      /\ reader'[d].at = "idle" => reader'[d].seq = 0
    BY <1>2, <1>4 DEF Readers
  <2>1. CASE d = c
    BY <1>7, <1>8, <2>1
  <2>2. CASE d # c
    BY <1>8, <2>2 DEF Feeding, Readers
  <2> QED
    BY <2>1, <2>2
<1>17. Used'
  <2>1. ASSUME NEW d \in Conns, d > conn PROVE reader'[d] = reader[d]
    <3>1. d # c
      BY <1>5, <1>9, <2>1
    <3> QED
      BY <1>8, <3>1
  <2>2. conn = 1 => bus'[InstOf[1]] = bus[InstOf[1]]
    BY <1>5, <1>9, <1>10
  <2> QED
    BY <1>2, <2>1, <2>2 DEF Feeding, Used, Running
<1>18. InTurn'
  <2> SUFFICES ASSUME Sequential PROVE InTurn'
    BY <1>4 DEF InTurn
  <2>1. InTurn /\ c = 1
    BY <1>9 DEF Feeding, Sequential
  <2>2. reader'[1].at = "idle"
    BY <1>7, <1>8, <2>1
  <2>3. \A k \in DOMAIN pipe[1] : \A t \in Before(pipe[1][k]) :
           t \in Stored \cup {reader'[1].seq} \/ \E j \in 1 .. k - 1 : pipe[1][j] = t
    BY <1>6, <2>1 DEF InTurn
  <2>4. \A i \in Instances : Ascends(bus'[i])
    BY <1>2, <1>10, <2>1 DEF InTurn
  <2> QED
    BY <1>2, <1>4, <2>1, <2>2, <2>3, <2>4 DEF InTurn, Before
<1> QED
  BY <1>13, <1>14, <1>15, <1>16, <1>17, <1>18 DEF Feeding

LEMMA TailIs ==
  ASSUME NEW S, NEW q \in Seq(S), q # <<>>
  PROVE  /\ Head(q) \in S /\ Tail(q) \in Seq(S) /\ Range(q) = {Head(q)} \cup Range(Tail(q))
         /\ Len(q) \in Nat /\ Len(q) > 0 /\ Head(q) = q[1] /\ DOMAIN q = 1 .. Len(q)
         /\ DOMAIN Tail(q) = 1 .. Len(q) - 1 /\ Len(Tail(q)) = Len(q) - 1
         /\ \A i \in 1 .. Len(q) - 1 : Tail(q)[i] = q[i + 1]
<1> DEFINE t == Tail(q)
           n == Len(q)
<1>1. n \in Nat /\ n > 0 /\ DOMAIN q = 1 .. n /\ Head(q) = q[1] /\ \A i \in 1 .. n : q[i] \in S
  BY EmptySeq
<1>2. t \in Seq(S) /\ Len(t) = n - 1 /\ DOMAIN t = 1 .. n - 1 /\ \A i \in 1 .. n - 1 : t[i] = q[i + 1]
  BY <1>1
<1> HIDE DEF t, n
<1>3. Range(q) = {q[i] : i \in 1 .. n} /\ Range(t) = {t[i] : i \in 1 .. n - 1}
  BY <1>1, <1>2 DEF Range
<1>4. Range(t) = {q[i] : i \in 2 .. n}
  <2>1. \A i \in 1 .. n - 1 : i + 1 \in 2 .. n
    BY <1>1
  <2>2. \A i \in 2 .. n : i - 1 \in 1 .. n - 1 /\ t[i - 1] = q[i]
    BY <1>1, <1>2
  <2> QED
    BY <1>2, <1>3, <2>1, <2>2
<1>5. 1 .. n = {1} \cup 2 .. n
  BY <1>1
<1>6. Range(q) = {Head(q)} \cup Range(t)
  BY <1>1, <1>3, <1>4, <1>5
<1> QED
  BY <1>1, <1>2, <1>6 DEF t, n

LEMMA HandedOn ==
  ASSUME TypeOK, Feeding, NEW i \in Instances, Relay(i) \/ Miss(i)
  PROVE  FeedTyped' /\ Feeding'
<1> DEFINE s == Head(bus[i])
           offered == dash.inst = i
<1>1. /\ PlanTyped /\ PipeTyped /\ ReadersTyped /\ BusTyped /\ DashTyped /\ PageTyped
      /\ EventsTyped /\ script \in Seq(Events)
  BY TypeIs, RunTypeIs DEF EventsTyped
<1>2. /\ bus[i] # <<>> /\ bus' = [bus EXCEPT ![i] = Tail(@)]
      /\ (offered => Heard(s)) /\ (~offered => dash' = dash /\ lost' = lost)
      /\ accepted' \subseteq accepted
      /\ script' = script /\ stored' = stored /\ saving' = saving /\ timeline' = timeline
      /\ rebuild' = rebuild /\ torn' = torn
      /\ pipe' = pipe /\ conn' = conn /\ reader' = reader /\ shown' = shown
      /\ planned' = planned /\ rebuilds' = rebuilds
  BY DEF Relay, Miss, Offer, Heard, counted, runVars, projections, repair, tables, row
<1>3. /\ Wire' = Wire /\ DashType' = DashType /\ ReaderType' = ReaderType /\ Stored' = Stored /\ Seqs' = Seqs
      /\ Sequential' <=> Sequential
  BY <1>2, SameWire DEF Sequential
<1>4. /\ bus[i] \in Seq(Stored) /\ s \in Stored /\ Tail(bus[i]) \in Seq(Stored)
      /\ Range(bus[i]) = {s} \cup Range(Tail(bus[i]))
  <2>1. bus[i] \in Seq(Stored)
    BY <1>1 DEF BusTyped
  <2> QED
    BY <1>2, <2>1, TailIs
<1>5. Stored \subseteq Seqs /\ s \in 0 .. Len(script) /\ (\A t \in Stored : t \in Nat) /\ Stored \subseteq Nat
  BY <1>1, <1>4, StoredAre, SeqsAre
<1>6. bus'[i] = Tail(bus[i]) /\ \A j \in Instances \ {i} : bus'[j] = bus[j]
  BY <1>1, <1>2 DEF BusTyped
<1>7. /\ dash'.inst = dash.inst /\ dash'.run = dash.run /\ dash'.after = dash.after /\ dash'.through = dash.through
      /\ dash'.seq \in {s, dash.seq} /\ (~offered => dash'.seq = dash.seq)
  <2>1. CASE offered
    <3>1. Heard(s)
      BY <1>2, <2>1
    <3> HIDE DEF s
    <3> QED
      BY <1>1, <1>4, <1>5, <2>1, <3>1, HeardIs
  <2>2. CASE ~offered
    BY <1>2, <2>2
  <2> QED
    BY <2>1, <2>2
<1>8. \A t : Told(t) => Told(t)'
  <2>1. CASE offered
    <3>1. Heard(s)
      BY <1>2, <2>1
    <3> HIDE DEF s
    <3> QED
      BY <1>1, <1>2, <1>4, <1>5, <3>1, HeardTells
  <2>2. CASE ~offered
    BY <1>2, <2>2 DEF Told, Sent
  <2> QED
    BY <2>1, <2>2
<1>9. dash.run => dash.inst # NoInst /\ dash.pc # "off"
  BY DEF Feeding, Serving
<1>10. dash.pc # "off" => \A t \in Stored : Reaches(t) => Reaches(t)' \/ (t = s /\ offered)
  <2> SUFFICES ASSUME dash.pc # "off", NEW t \in Stored, Reaches(t), ~(t = s /\ offered) PROVE Reaches(t)'
    OBVIOUS
  <2>1. dash.inst # NoInst /\ dash.inst \in Instances
    BY <1>1, DashFields DEF Feeding, Serving, DashTyped
  <2>2. CASE Told(t)
    BY <1>8, <2>2, ToldReaches
  <2>3. ASSUME NEW d \in Conns, reader[d].seq = t,
               reader[d].at \in {"local", "accepted"} \/ (reader[d].at = "publish" /\ InstOf[d] # dash.inst)
        PROVE  Reaches(t)'
    BY <1>2, <1>7, <2>3 DEF Reaches, Coming
  <2>4. CASE t \in Range(bus[dash.inst])
    <3>1. t \in Range(bus'[dash.inst])
      <4>1. CASE dash.inst = i
        BY <1>4, <1>6, <2>4, <4>1
      <4>2. CASE dash.inst # i
        BY <1>6, <2>1, <2>4, <4>2
      <4> QED
        BY <4>1, <4>2
    <3> QED
      BY <1>7, <2>1, <3>1 DEF Reaches, Coming
  <2> QED
    BY <2>2, <2>3, <2>4 DEF Reaches, Coming, Told, Sent
<1>11. offered /\ Sequential /\ dash.run => s > dash.seq \/ s <= dash.after \/ s <= dash.through
  <2>1. offered => OnItsWay(s)
    BY <1>4 DEF OnItsWay
  <2> QED
    BY <1>4, <1>9, <2>1 DEF Feeding, Wanted
<1>12. DashTyped' /\ PageTyped' /\ Serving' /\ RunFed' /\ SessionFed' /\ NothingSkipped' /\ SnapshotWhole'
  <2>1. ~offered => dash' = dash /\ lost \subseteq lost' /\ lost' \subseteq Stored
    BY <1>1, <1>2 DEF PageTyped
  <2>2. offered \in BOOLEAN /\ (offered => dash.inst # NoInst /\ Heard(s))
    BY <1>2, DashFeedAssumption
  <2> HIDE DEF s, offered
  <2> QED
    BY <1>2, <1>4, <1>10, <1>11, <2>1, <2>2, OfferedKeeps
<1>13. FeedTyped'
  <2>1. BusTyped'
    BY <1>1, <1>2, <1>3, <1>4 DEF BusTyped
  <2> QED
    BY <1>1, <1>2, <1>3, <1>12, <2>1 DEF FeedTyped, PlanTyped, PipeTyped, ReadersTyped
<1>14. Readers'
  BY <1>2, <1>3 DEF Feeding, Readers
<1>15. Used'
  <2>1. conn = 1 => bus'[InstOf[1]] = bus[InstOf[1]]
    <3>1. conn = 1 => i # InstOf[1]
      BY <1>2 DEF Feeding, Used
    <3>2. InstOf[1] \in Instances
      BY <1>1, ConnsAre
    <3> QED
      BY <1>6, <3>1, <3>2
  <2> QED
    BY <1>2, <1>7, <2>1 DEF Feeding, Used, Running
<1>16. Sequential => /\ Ascends(Tail(bus[i])) /\ \A t \in Range(Tail(bus[i])) : s < t
                     /\ \A k \in DOMAIN Tail(bus[i]) : \E j \in DOMAIN bus[i] : Tail(bus[i])[k] = bus[i][j]
  <2> SUFFICES ASSUME Sequential
               PROVE  /\ Ascends(Tail(bus[i])) /\ \A t \in Range(Tail(bus[i])) : s < t
                      /\ \A k \in DOMAIN Tail(bus[i]) : \E j \in DOMAIN bus[i] : Tail(bus[i])[k] = bus[i][j]
    OBVIOUS
  <2> DEFINE q == bus[i]
  <2>1. Ascends(q) /\ q \in Seq(Stored) /\ q # <<>>
    BY <1>2, <1>4 DEF Feeding, InTurn
  <2> HIDE DEF q
  <2>2. Ascends(Tail(q))
    BY <1>5, <2>1, HeadOff
  <2>3. /\ Len(q) \in Nat /\ Len(q) > 0 /\ Head(q) = q[1] /\ DOMAIN q = 1 .. Len(q)
        /\ DOMAIN Tail(q) = 1 .. Len(q) - 1
        /\ \A k \in 1 .. Len(q) - 1 : Tail(q)[k] = q[k + 1]
    BY <2>1, TailIs
  <2>4. \A k \in 1 .. Len(q) - 1 : k + 1 \in 1 .. Len(q) /\ 1 < k + 1 /\ 1 \in 1 .. Len(q)
    BY <2>3
  <2>5. \A k \in DOMAIN Tail(q) : Head(q) < Tail(q)[k] /\ \E j \in DOMAIN q : Tail(q)[k] = q[j]
    BY <2>1, <2>3, <2>4 DEF Ascends
  <2>6. \A t \in Range(Tail(q)) : Head(q) < t
    BY <2>5 DEF Range
  <2> QED
    BY <2>2, <2>5, <2>6 DEF q
<1>17. InTurn'
  <2> SUFFICES ASSUME Sequential PROVE InTurn'
    BY <1>3 DEF InTurn
  <2>1. InTurn
    BY DEF Feeding
  <2>2. ASSUME NEW j \in Instances
        PROVE  /\ Ascends(bus'[j])
               /\ reader[1].at \in {"local", "accepted", "publish"} => \A k \in DOMAIN bus'[j] : bus'[j][k] < reader[1].seq
    <3>1. CASE j = i
      <4>1. bus'[j] = Tail(bus[i]) /\ Ascends(Tail(bus[i]))
        BY <1>6, <1>16, <3>1
      <4>2. reader[1].at \in {"local", "accepted", "publish"} => \A k \in DOMAIN bus[i] : bus[i][k] < reader[1].seq
        BY <2>1 DEF InTurn
      <4>3. \A k \in DOMAIN Tail(bus[i]) : \E l \in DOMAIN bus[i] : Tail(bus[i])[k] = bus[i][l]
        BY <1>16
      <4> QED
        BY <4>1, <4>2, <4>3
    <3>2. CASE j # i
      BY <1>6, <2>1, <3>2 DEF InTurn
    <3> QED
      BY <3>1, <3>2
  <2> QED
    BY <1>2, <1>3, <2>1, <2>2 DEF InTurn, Before
<1>18. Wanted'
  <2> SUFFICES ASSUME Sequential, dash.run, dash.inst # NoInst, NEW t \in Stored, OnItsWay(t)'
               PROVE  t > dash'.seq \/ t <= dash.after \/ t <= dash.through
    BY <1>3, <1>7 DEF Wanted
  <2>1. dash.inst \in Instances
    BY <1>1, DashFields DEF DashTyped
  <2>2. OnItsWay(t)
    <3>1. t \in Range(bus'[dash.inst]) => t \in Range(bus[dash.inst])
      BY <1>4, <1>6, <2>1
    <3> QED
      BY <1>2, <1>7, <3>1 DEF OnItsWay
  <2>3. t > dash.seq \/ t <= dash.after \/ t <= dash.through
    BY <2>2 DEF Feeding, Wanted
  <2>4. CASE offered
    <3>1. t > s
      <4>1. CASE t \in Range(bus'[dash'.inst])
        BY <1>4, <1>5, <1>6, <1>7, <1>16, <2>4, <4>1
      <4>2. CASE reader[1].seq = t /\ reader[1].at \in {"local", "accepted", "publish"}
        <5>1. \E k \in DOMAIN bus[i] : bus[i][k] = s
          BY <1>4 DEF Range
        <5>2. s < t
          BY <4>2, <5>1 DEF Feeding, InTurn
        <5> QED
          BY <1>4, <1>5, <5>2
      <4> QED
        BY <1>2, <4>1, <4>2 DEF OnItsWay
    <3>2. dash'.seq = s \/ dash'.seq = dash.seq
      BY <1>7
    <3> QED
      BY <2>3, <3>1, <3>2
  <2>5. CASE ~offered
    BY <1>7, <2>3, <2>5
  <2> QED
    BY <2>4, <2>5
<1> QED
  BY <1>12, <1>13, <1>14, <1>15, <1>17, <1>18 DEF Feeding

(* A broadcast that found the page's subscription acceptable is still on   *)
(* its way to the page.                                                    *)
LEMMA CheckKeeps ==
  ASSUME TypeOK, Feeding, NEW c \in Conns, Check(c)
  PROVE  FeedTyped' /\ Feeding'
<1>1. /\ PlanTyped /\ PipeTyped /\ ReadersTyped /\ BusTyped /\ DashTyped /\ PageTyped
      /\ script \in Seq(Events)
  BY TypeIs, RunTypeIs DEF EventsTyped
<1>2. /\ reader[c].at = "local" /\ reader' = [reader EXCEPT ![c].at = "accepted"]
      /\ script' = script /\ stored' = stored /\ saving' = saving /\ timeline' = timeline
      /\ rebuild' = rebuild /\ torn' = torn
      /\ conn' = conn /\ pipe' = pipe /\ bus' = bus /\ accepted' = accepted /\ dash' = dash
      /\ shown' = shown /\ lost' = lost /\ planned' = planned /\ rebuilds' = rebuilds
  BY DEF Check, counted, runVars, projections, repair, tables, row
<1>3. /\ Wire' = Wire /\ DashType' = DashType /\ ReaderType' = ReaderType /\ Stored' = Stored /\ Seqs' = Seqs
      /\ Sequential' <=> Sequential
  BY <1>2, SameWire DEF Sequential
<1>4. 1 \in Conns
  BY <1>1, ConnsAre
<1>5. /\ \A d \in Conns \ {c} : reader'[d] = reader[d]
      /\ reader'[c].at = "accepted" /\ reader'[c].seq = reader[c].seq /\ reader' \in [Conns -> ReaderType]
  BY <1>1, <1>2 DEF ReadersTyped, ReaderType
<1>6. \A d \in Conns : reader'[d] = reader[d] \/ (d = c /\ reader[d].at = "local")
  BY <1>2, <1>5
<1>7. FeedTyped'
  <2>1. ReadersTyped'
    BY <1>1, <1>3, <1>5 DEF ReadersTyped
  <2> QED
    BY <1>1, <1>2, <1>3, <2>1 DEF FeedTyped, PlanTyped, PipeTyped, BusTyped, DashTyped, PageTyped
<1>8. Serving' /\ Wanted' /\ RunFed' /\ SessionFed' /\ NothingSkipped' /\ SnapshotWhole'
  <2>1. \A d \in Conns : \/ reader'[d] = reader[d]
                         \/ reader[d].at = "idle" /\ reader'[d].at = "saving"
                         \/ reader[d].at = "local" /\ reader'[d].at = "accepted" /\ reader'[d].seq = reader[d].seq
    BY <1>5, <1>6
  <2> QED
    BY <1>2, <1>3, <1>4, <2>1, SamePage
<1>9. Readers'
  <2> SUFFICES ASSUME NEW d \in Conns
               PROVE  /\ reader'[d].at = "saving" => saving # NoSave /\ saving.seq = reader'[d].seq
                      /\ reader'[d].at \in {"local", "accepted", "publish"} => reader'[d].seq \in Stored
                      /\ reader'[d].at = "idle" => reader'[d].seq = 0
    BY <1>2, <1>3 DEF Readers
  <2> QED
    BY <1>5, <1>6 DEF Feeding, Readers
<1>10. Used'
  <2>1. \A d \in Conns : d > conn => reader'[d] = reader[d]
    BY <1>2, <1>6 DEF Feeding, Used, NoReader
  <2> QED
    BY <1>2, <2>1 DEF Feeding, Used, Running
<1>11. InTurn'
  <2> SUFFICES ASSUME Sequential PROVE InTurn'
    BY <1>3 DEF InTurn
  <2>1. /\ reader'[1].seq = reader[1].seq
        /\ reader'[1].at = "saving" => reader[1].at = "saving"
        /\ reader'[1].at \in {"local", "accepted", "publish"} => reader[1].at \in {"local", "accepted", "publish"}
    BY <1>4, <1>5, <1>6
  <2> QED
    BY <1>2, <1>3, <2>1 DEF Feeding, InTurn, Before
<1> QED
  BY <1>7, <1>8, <1>9, <1>10, <1>11 DEF Feeding

LEMMA RelayCheckKeeps ==
  ASSUME TypeOK, Feeding, NEW i \in Instances, RelayCheck(i)
  PROVE  FeedTyped' /\ Feeding'
<1>1. /\ PlanTyped /\ PipeTyped /\ ReadersTyped /\ BusTyped /\ DashTyped /\ PageTyped
  BY TypeIs
<1>2. /\ accepted' \subseteq Instances
      /\ script' = script /\ stored' = stored /\ saving' = saving /\ timeline' = timeline
      /\ rebuild' = rebuild /\ torn' = torn
      /\ conn' = conn /\ pipe' = pipe /\ reader' = reader /\ bus' = bus /\ dash' = dash
      /\ shown' = shown /\ lost' = lost /\ planned' = planned /\ rebuilds' = rebuilds
  BY <1>1 DEF RelayCheck, BusTyped, counted, runVars, projections, repair, tables, row
<1>3. /\ Wire' = Wire /\ DashType' = DashType /\ ReaderType' = ReaderType /\ Stored' = Stored /\ Seqs' = Seqs
      /\ Sequential' <=> Sequential
  BY <1>2, SameWire DEF Sequential
<1>4. 1 \in Conns
  BY <1>1, ConnsAre
<1>5. FeedTyped'
  BY <1>1, <1>2, <1>3 DEF FeedTyped, PlanTyped, PipeTyped, ReadersTyped, BusTyped, DashTyped, PageTyped
<1>6. Serving' /\ Wanted' /\ RunFed' /\ SessionFed' /\ NothingSkipped' /\ SnapshotWhole'
  BY <1>2, <1>3, <1>4, SamePage
<1>7. Readers' /\ Used' /\ InTurn'
  BY <1>2, <1>3 DEF Feeding, Readers, Used, Running, InTurn, Before
<1> QED
  BY <1>5, <1>6, <1>7 DEF Feeding

-----------------------------------------------------------------------------
(* The page and the handler of its subscription: the connections, the      *)
(* readers and the bus stay as they are.                                   *)

LEMMA HighestOf ==
  ASSUME EventsTyped, NEW S \in SUBSET Stored
  PROVE  /\ Max(S \cup {0}) \in S \cup {0} /\ Max(S \cup {0}) \in 0 .. Len(script)
         /\ \A y \in S \cup {0} : y <= Max(S \cup {0})
<1> DEFINE T == S \cup {0}
<1>1. Len(script) \in Nat /\ \A s \in Stored : s \in Nat /\ s <= Len(script)
  BY StoredAre, SeqsAre DEF EventsTyped
<1>2. T \in SUBSET (0 .. Len(script)) /\ T # {}
  BY <1>1
<1>3. Max(T) \in T /\ \A y \in T : y <= Max(T)
  <2> HIDE DEF T
  <2> QED
    BY <1>1, <1>2, Greatest
<1> QED
  BY <1>2, <1>3

PageStep ==
  /\ UNCHANGED <<runVars, links>> /\ planned' = planned /\ rebuilds' = rebuilds
  /\ dash'.inst \in {dash.inst, NoInst} \cup Running

LEMMA LinksKeep ==
  ASSUME TypeOK, Feeding, PageStep
  PROVE  /\ script' = script /\ stored' = stored /\ timeline' = timeline /\ steps' = steps
         /\ reader' = reader /\ bus' = bus /\ planned' = planned /\ rebuilds' = rebuilds
         /\ Stored' = Stored /\ Wire' = Wire /\ DashType' = DashType /\ (Sequential' <=> Sequential)
         /\ (\A s : IsStep(s)' <=> IsStep(s))
         /\ DashTyped /\ PageTyped /\ dash \in DashType /\ EventsTyped
         /\ Stored \subseteq Seqs /\ (\A s \in Stored : s \in Nat /\ s > 0 /\ s <= Len(script))
         /\ PlanTyped' /\ PipeTyped' /\ ReadersTyped' /\ BusTyped' /\ Readers' /\ Used' /\ InTurn'
<1>1. /\ PlanTyped /\ PipeTyped /\ ReadersTyped /\ BusTyped /\ DashTyped /\ PageTyped /\ EventsTyped
  BY TypeIs, RunTypeIs
<1>2. /\ script' = script /\ stored' = stored /\ saving' = saving /\ timeline' = timeline /\ steps' = steps
      /\ rebuild' = rebuild /\ torn' = torn
      /\ pipe' = pipe /\ conn' = conn /\ reader' = reader /\ bus' = bus /\ accepted' = accepted
      /\ planned' = planned /\ rebuilds' = rebuilds
  BY DEF PageStep, links, runVars, projections, repair, tables, row
<1>3. /\ Wire' = Wire /\ DashType' = DashType /\ ReaderType' = ReaderType /\ Stored' = Stored /\ Seqs' = Seqs
      /\ (Sequential' <=> Sequential) /\ \A s : IsStep(s)' <=> IsStep(s)
  BY <1>2, SameWire, SameEffects DEF Sequential
<1>4. PlanTyped' /\ PipeTyped' /\ ReadersTyped' /\ BusTyped'
  BY <1>1, <1>2, <1>3 DEF PlanTyped, PipeTyped, ReadersTyped, BusTyped
<1>5. Readers' /\ InTurn'
  BY <1>2, <1>3 DEF Feeding, Readers, InTurn
<1>6. Used'
  <2>1. dash'.inst # NoInst => dash'.inst \in Running'
    BY <1>2 DEF Feeding, Used, Running, PageStep
  <2> QED
    BY <1>2, <2>1 DEF Feeding, Used
<1> QED
  BY <1>1, <1>2, <1>3, <1>4, <1>5, <1>6, StoredAre DEF DashTyped

(* What reaches a page that stays, still does when what it was told is not *)
(* taken back.                                                             *)
LEMMA StaysReached ==
  ASSUME reader' = reader, bus' = bus, dash'.inst = dash.inst, NEW s, Told(s) => Told(s)', Reaches(s)
  PROVE  Reaches(s)'
BY DEF Reaches, Coming, Told, Sent

(* A page that is not subscribed is told nothing.                          *)
LEMMA Unsubscribed ==
  ASSUME ~dash'.run, ~dash'.session,
         \A i \in DOMAIN dash'.send : dash'.send[i].type # "run.snapshot"
  PROVE  Wanted' /\ RunFed' /\ SessionFed' /\ NothingSkipped' /\ SnapshotWhole'
BY DEF Wanted, RunFed, SessionFed, NothingSkipped, SnapshotWhole

LEMMA OpenKeeps ==
  ASSUME TypeOK, Feeding, NEW i \in Instances, NEW fresh \in BOOLEAN, Open(i, fresh)
  PROVE  FeedTyped' /\ Feeding'
<1> DEFINE a == IF planned.watch = "run" THEN Max(shown' \cup {0}) ELSE 0
<1>1. /\ dash' = [NoDash EXCEPT !.inst = i, !.pc = "subscribe", !.after = a] /\ i \in Running
      /\ shown' = (IF fresh THEN Listed(Stored) ELSE shown) /\ lost' = (IF fresh THEN {} ELSE lost)
  BY DEF Open
<1>2. dash' = [inst |-> i, pc |-> "subscribe", after |-> a, run |-> FALSE, seq |-> 0, session |-> FALSE,
               through |-> 0, rows |-> {}, list |-> {}, send |-> <<>>]
  <2> HIDE DEF a
  <2> QED
    BY <1>1 DEF NoDash
<1>3. PageStep
  BY <1>1, <1>2 DEF Open, PageStep
<1>4. /\ PlanTyped' /\ PipeTyped' /\ ReadersTyped' /\ BusTyped' /\ Readers' /\ Used' /\ InTurn'
      /\ Stored' = Stored /\ DashType' = DashType /\ PageTyped /\ PlanTyped /\ EventsTyped
  BY <1>3, LinksKeep, TypeIs
<1>5. shown' \subseteq Stored /\ lost' \subseteq Stored
  BY <1>1, <1>4 DEF PageTyped, Listed
<1>6. a \in Stored \cup {0} /\ a \in 0 .. Len(script)
  <2>1. Max(shown' \cup {0}) \in Stored \cup {0} /\ Max(shown' \cup {0}) \in 0 .. Len(script)
    <3> DEFINE S == shown'
    <3>1. S \in SUBSET Stored
      BY <1>5
    <3> HIDE DEF S
    <3>2. Max(S \cup {0}) \in S \cup {0} /\ Max(S \cup {0}) \in 0 .. Len(script)
      BY <1>4, <3>1, HighestOf
    <3> QED
      BY <3>1, <3>2 DEF S
  <2>2. 0 \in 0 .. Len(script)
    BY <1>4, SeqsAre DEF EventsTyped
  <2> QED
    BY <2>1, <2>2
<1> HIDE DEF a
<1>7. NoInst \notin Instances /\ Cap \in Nat \ {0}
  BY <1>4, ConnsAre
<1>8. DashTyped'
  <2>1. <<>> \in Seq(Wire) /\ Len(<<>>) = 0 /\ 0 \in 0 .. Len(script)
    BY <1>4, SeqsAre DEF EventsTyped
  <2>2. dash' \in DashType
    BY <1>2, <1>6, <2>1 DEF DashType, SnapshotPC
  <2> QED
    BY <1>2, <1>4, <1>7, <2>1, <2>2 DEF DashTyped
<1>9. Serving'
  BY <1>2, <1>4, <1>6, <1>7 DEF Serving
<1>10. Wanted' /\ RunFed' /\ SessionFed' /\ NothingSkipped' /\ SnapshotWhole'
  BY <1>2, Unsubscribed
<1> QED
  BY <1>4, <1>5, <1>8, <1>9, <1>10 DEF FeedTyped, Feeding, PageTyped

LEMMA SubscribeKeeps ==
  ASSUME TypeOK, Feeding, Subscribe
  PROVE  FeedTyped' /\ Feeding'
<1>1. dash.pc = "subscribe" /\ shown' = shown /\ lost' = lost
  BY DEF Subscribe
<1>2. \/ /\ planned.watch = "run"
         /\ dash' = [dash EXCEPT !.pc = "mark", !.run = TRUE, !.seq = dash.after]
      \/ /\ planned.watch # "run"
         /\ dash' = [dash EXCEPT !.pc = "views", !.session = TRUE]
  BY DEF Subscribe
<1>3. dash \in DashType
  BY TypeIs DEF DashTyped
<1>4. dash'.inst = dash.inst /\ dash'.after = dash.after /\ dash'.through = dash.through /\ dash'.send = dash.send
      /\ dash'.rows = dash.rows /\ dash'.list = dash.list
  BY <1>2, <1>3 DEF DashType
<1>5. PageStep
  BY <1>4 DEF Subscribe, PageStep, counted
<1>6. /\ PlanTyped' /\ PipeTyped' /\ ReadersTyped' /\ BusTyped' /\ Readers' /\ Used' /\ InTurn'
      /\ Stored' = Stored /\ DashType' = DashType /\ PageTyped /\ DashTyped /\ planned' = planned
      /\ \A s \in Stored : s \in Nat
  BY <1>5, LinksKeep
<1>7. Serving /\ dash.inst # NoInst /\ ~dash.run /\ ~dash.session
      /\ \A i \in DOMAIN dash.send : dash.send[i].type = "run.event"
  BY <1>1 DEF Feeding, Serving
<1>8. planned.watch \in {"run", "session"}
  BY TypeIs, ConnsAre
<1>9. DashTyped'
  <2>1. dash' \in DashType
    BY <1>2, <1>3 DEF DashType, SnapshotPC
  <2> QED
    BY <1>4, <1>6, <2>1 DEF DashTyped
<1>10. CASE planned.watch = "run"
  <2>1. dash'.pc = "mark" /\ dash'.run = TRUE /\ dash'.session = dash.session /\ dash'.seq = dash.after
    BY <1>2, <1>3, <1>10 DEF DashType
  <2>2. Serving'
    BY <1>4, <1>6, <1>7, <1>10, <2>1 DEF Serving
  <2>3. dash.after \in Nat
    BY <1>6, <1>7 DEF Serving
  <2>4. Wanted'
    BY <1>4, <1>6, <2>1, <2>3 DEF Wanted
  <2>5. RunFed' /\ SessionFed' /\ NothingSkipped' /\ SnapshotWhole'
    BY <1>4, <1>7, <2>1 DEF RunFed, SessionFed, NothingSkipped, SnapshotWhole
  <2> QED
    BY <1>1, <1>6, <1>9, <2>2, <2>4, <2>5 DEF FeedTyped, Feeding, PageTyped
<1>11. CASE planned.watch = "session"
  <2>1. dash'.pc = "views" /\ dash'.run = dash.run /\ dash'.session = TRUE /\ dash'.seq = dash.seq
    BY <1>2, <1>3, <1>11 DEF DashType
  <2>2. Serving'
    BY <1>4, <1>6, <1>7, <1>11, <2>1 DEF Serving
  <2>3. Wanted' /\ RunFed' /\ SessionFed' /\ NothingSkipped' /\ SnapshotWhole'
    BY <1>4, <1>7, <2>1 DEF Wanted, RunFed, SessionFed, NothingSkipped, SnapshotWhole
  <2> QED
    BY <1>1, <1>6, <1>9, <2>2, <2>3 DEF FeedTyped, Feeding, PageTyped
<1> QED
  BY <1>8, <1>10, <1>11

(* The handler reads on: the subscription and what was sent stay.          *)
LEMMA HandlerKeeps ==
  ASSUME TypeOK, Feeding, PageStep, shown' = shown, lost \subseteq lost', lost' \subseteq Stored,
         dash.pc \in {"mark", "views", "list"}, dash' \in DashType,
         dash'.pc \in {"views", "list", "finish"}, dash'.pc = "list" => planned.watch = "run",
         dash'.inst = dash.inst, dash'.after = dash.after, dash'.run = dash.run, dash'.seq = dash.seq,
         dash'.session = dash.session, dash'.send = dash.send, dash'.through \in Stored \cup {0},
         dash'.through = dash.through \/ dash.pc = "mark"
  PROVE  FeedTyped' /\ Readers' /\ Used' /\ Serving' /\ InTurn' /\ NothingSkipped' /\ SnapshotWhole'
         /\ \A s : Reaches(s) => Reaches(s)'
<1>1. /\ PlanTyped' /\ PipeTyped' /\ ReadersTyped' /\ BusTyped' /\ Readers' /\ Used' /\ InTurn'
      /\ reader' = reader /\ bus' = bus
      /\ Stored' = Stored /\ DashType' = DashType /\ PageTyped /\ DashTyped /\ planned' = planned
  BY LinksKeep
<1>2. Serving /\ dash.inst # NoInst /\ \A i \in DOMAIN dash.send : dash.send[i].type = "run.event"
  BY DEF Feeding, Serving
<1>3. FeedTyped'
  <2>1. DashTyped'
    BY <1>1 DEF DashTyped
  <2> QED
    BY <1>1, <2>1 DEF FeedTyped, PageTyped
<1>4. Serving'
  BY <1>1, <1>2 DEF Serving
<1>5. NothingSkipped' /\ SnapshotWhole'
  BY <1>2 DEF NothingSkipped, SnapshotWhole
<1>6. \A s : Reaches(s) => Reaches(s)'
  BY <1>1, StaysReached DEF Told, Sent
<1> QED
  BY <1>1, <1>3, <1>4, <1>5, <1>6

LEMMA WatermarkKeeps ==
  ASSUME TypeOK, Feeding, Watermark
  PROVE  FeedTyped' /\ Feeding'
<1> DEFINE m == Max(Stored \cup {0})
<1>1. dash.pc = "mark" /\ shown' = shown /\ lost' = lost /\ dash' = [dash EXCEPT !.pc = "views", !.through = m]
  BY DEF Watermark
<1>2. dash \in DashType /\ EventsTyped /\ PageTyped
  BY TypeIs, RunTypeIs DEF DashTyped
<1>3. m \in Stored \cup {0} /\ m \in 0 .. Len(script) /\ \A y \in Stored \cup {0} : y <= m
  BY <1>2, HighestOf
<1> HIDE DEF m
<1>4. /\ dash'.inst = dash.inst /\ dash'.after = dash.after /\ dash'.run = dash.run /\ dash'.seq = dash.seq
      /\ dash'.session = dash.session /\ dash'.send = dash.send /\ dash'.through = m /\ dash'.pc = "views"
      /\ dash' \in DashType
  BY <1>1, <1>2, <1>3 DEF DashType, SnapshotPC
<1>5. PageStep
  BY <1>4 DEF Watermark, PageStep, counted
<1>6. /\ FeedTyped' /\ Readers' /\ Used' /\ Serving' /\ InTurn' /\ NothingSkipped' /\ SnapshotWhole'
      /\ Stored' = Stored /\ \A s \in Stored : s \in Nat
  BY <1>1, <1>2, <1>3, <1>4, <1>5, HandlerKeeps, LinksKeep DEF PageTyped
<1>7. Wanted'
  BY <1>3, <1>4, <1>6 DEF Wanted
<1>8. RunFed'
  <2>1. dash.after \in Stored \cup {0}
    BY DEF Feeding, Serving
  <2>2. \A s \in Stored : ~(s > m)
    BY <1>2, <1>3, <1>6, SeqsAre DEF EventsTyped
  <2> QED
    BY <1>3, <1>4, <1>6, <2>1, <2>2 DEF RunFed
<1>9. SessionFed'
  BY <1>4 DEF SessionFed
<1> QED
  BY <1>6, <1>7, <1>8, <1>9 DEF Feeding

(* Until a rebuild has started the tables are whole.                       *)
LEMMA StepsWhole ==
  ASSUME Projecting, Used, rebuilds = 0
  PROVE  steps = {s \in Stored : IsStep(s)} /\ timeline = {s \in Stored : script[s].codex}
<1>1. Quiet /\ ~torn
  BY DEF Used, Quiet, Rebuilding, Clearing, Replaying
<1> QED
  BY <1>1 DEF Projecting, TablesComplete

LEMMA ReadViewsKeeps ==
  ASSUME TypeOK, Projecting, Feeding, ReadViews
  PROVE  FeedTyped' /\ Feeding'
<1>1. dash.pc = "views" /\ shown' = shown
  BY DEF ReadViews
<1>2. dash \in DashType /\ EventsTyped /\ PageTyped /\ steps \subseteq Stored /\ timeline \subseteq Stored
  BY TypeIs, RunTypeIs DEF DashTyped, TablesTyped
<1>3. /\ lost' = (IF planned.watch = "run" THEN lost ELSE lost \cup (timeline \ Recent(timeline)))
      /\ dash' = IF planned.watch = "run" THEN [dash EXCEPT !.pc = "list", !.rows = steps]
                 ELSE [dash EXCEPT !.pc = "finish", !.list = Recent(timeline)]
  BY DEF ReadViews
<1>4. Recent(timeline) \subseteq timeline
  BY DEF Recent
<1>5. lost \subseteq lost' /\ lost' \subseteq Stored
  BY <1>2, <1>3 DEF PageTyped
<1>6. /\ dash'.inst = dash.inst /\ dash'.after = dash.after /\ dash'.run = dash.run /\ dash'.seq = dash.seq
      /\ dash'.session = dash.session /\ dash'.send = dash.send /\ dash'.through = dash.through
      /\ dash'.pc = (IF planned.watch = "run" THEN "list" ELSE "finish")
      /\ dash'.rows = (IF planned.watch = "run" THEN steps ELSE dash.rows)
      /\ dash'.list = (IF planned.watch = "run" THEN dash.list ELSE Recent(timeline))
  BY <1>2, <1>3 DEF DashType
<1>7. dash' \in DashType
  <2>1. Recent(timeline) \subseteq Stored
    BY <1>2, <1>4
  <2> QED
    BY <1>2, <1>3, <2>1 DEF DashType, SnapshotPC
<1>8. PageStep
  BY <1>6 DEF ReadViews, PageStep, counted
<1>9. Serving /\ dash.through \in Stored \cup {0}
  BY DEF Feeding, Serving
<1>10. /\ FeedTyped' /\ Readers' /\ Used' /\ Serving' /\ InTurn' /\ NothingSkipped' /\ SnapshotWhole'
       /\ \A s : Reaches(s) => Reaches(s)'
  BY <1>1, <1>5, <1>6, <1>7, <1>8, <1>9, HandlerKeeps
<1>11. /\ Stored' = Stored /\ planned' = planned /\ rebuilds' = rebuilds /\ reader' = reader /\ bus' = bus
       /\ (Sequential' <=> Sequential) /\ timeline' = timeline /\ \A s : IsStep(s)' <=> IsStep(s)
  BY <1>8, LinksKeep
<1>12. Wanted'
  BY <1>6, <1>11 DEF Feeding, Wanted, OnItsWay
<1>13. RunFed'
  <2> SUFFICES ASSUME Sequential, dash.run PROVE RunFed'
    BY <1>6, <1>11 DEF RunFed
  <2>1. planned.watch = "run" /\ dash'.pc = "list" /\ dash'.rows = steps
    BY <1>6, <1>9 DEF Serving
  <2>2. dash.after <= dash.through /\ \A s \in Stored : s > dash.through => Reaches(s)
    BY <1>1 DEF Feeding, RunFed
  <2>3. rebuilds = 0 => {s \in Stored : s <= dash.through /\ IsStep(s)} \subseteq steps
    BY StepsWhole DEF Feeding
  <2> QED
    BY <1>6, <1>10, <1>11, <2>1, <2>2, <2>3 DEF RunFed
<1>14. SessionFed'
  <2> SUFFICES ASSUME dash.session PROVE SessionFed'
    BY <1>6 DEF SessionFed
  <2>1. planned.watch # "run"
    BY <1>9 DEF Serving
  <2>2. \A s \in timeline : s \in dash'.list \/ s \in lost'
    BY <1>3, <1>6, <2>1
  <2> QED
    BY <1>11, <2>2 DEF SessionFed, Reaches
<1> QED
  BY <1>10, <1>12, <1>13, <1>14 DEF Feeding

LEMMA ListEventsKeeps ==
  ASSUME TypeOK, Feeding, ListEvents
  PROVE  FeedTyped' /\ Feeding'
<1>1. dash.pc = "list" /\ shown' = shown /\ dash' = [dash EXCEPT !.pc = "finish", !.list = Listed(Asked)]
      /\ lost' = lost \cup (Asked \ Listed(Asked))
  BY DEF ListEvents
<1>2. dash \in DashType /\ EventsTyped /\ PageTyped
  BY TypeIs, RunTypeIs DEF DashTyped
<1>3. Listed(Asked) \subseteq Asked /\ Asked = {s \in Stored : s > dash.after /\ s <= dash.through}
  BY DEF Listed, Asked
<1>4. lost \subseteq lost' /\ lost' \subseteq Stored
  BY <1>1, <1>2, <1>3 DEF PageTyped
<1>5. /\ dash'.inst = dash.inst /\ dash'.after = dash.after /\ dash'.run = dash.run /\ dash'.seq = dash.seq
      /\ dash'.session = dash.session /\ dash'.send = dash.send /\ dash'.through = dash.through
      /\ dash'.pc = "finish" /\ dash'.rows = dash.rows /\ dash'.list = Listed(Asked)
  BY <1>1, <1>2 DEF DashType
<1>6. dash' \in DashType
  <2>1. Listed(Asked) \subseteq Stored
    BY <1>3
  <2> QED
    BY <1>1, <1>2, <2>1 DEF DashType, SnapshotPC
<1>7. PageStep
  BY <1>5 DEF ListEvents, PageStep, counted
<1>8. Serving /\ dash.through \in Stored \cup {0} /\ planned.watch = "run" /\ ~dash.session
  BY <1>1 DEF Feeding, Serving
<1>9. /\ FeedTyped' /\ Readers' /\ Used' /\ Serving' /\ InTurn' /\ NothingSkipped' /\ SnapshotWhole'
      /\ \A s : Reaches(s) => Reaches(s)'
  BY <1>1, <1>4, <1>5, <1>6, <1>7, <1>8, HandlerKeeps
<1>10. /\ Stored' = Stored /\ planned' = planned /\ rebuilds' = rebuilds /\ reader' = reader /\ bus' = bus
       /\ (Sequential' <=> Sequential) /\ \A s : IsStep(s)' <=> IsStep(s)
  BY <1>7, LinksKeep
<1>11. Wanted'
  BY <1>5, <1>10 DEF Feeding, Wanted, OnItsWay
<1>12. RunFed'
  <2> SUFFICES ASSUME Sequential, dash.run PROVE RunFed'
    BY <1>5, <1>10 DEF RunFed
  <2>1. dash.after <= dash.through /\ \A s \in Stored : s > dash.through => Reaches(s)
    BY <1>1 DEF Feeding, RunFed
  <2>2. \A s \in Stored : s > dash.after /\ s <= dash.through => s \in Listed(Asked) \cup lost'
    BY <1>1, <1>3
  <2>3. rebuilds = 0 => {s \in Stored : s <= dash.through /\ IsStep(s)} \subseteq dash.rows
    BY <1>1 DEF Feeding, RunFed
  <2>4. \A s \in Listed(Asked) : s <= dash.through
    BY <1>3
  <2> QED
    BY <1>5, <1>9, <1>10, <2>1, <2>2, <2>3, <2>4 DEF RunFed
<1>13. SessionFed'
  BY <1>5, <1>8 DEF SessionFed
<1> QED
  BY <1>9, <1>11, <1>12, <1>13 DEF Feeding

LEMMA FinishKeeps ==
  ASSUME TypeOK, Projecting, Feeding, Finish
  PROVE  FeedTyped' /\ Feeding'
<1> DEFINE q == IF dash.run /\ dash.seq = dash.after THEN Max({dash.after, dash.through}) ELSE dash.seq
           d == [dash EXCEPT !.pc = "live", !.rows = {}, !.list = {}, !.seq = q]
           m == Snapshot(dash.list, dash.rows)
<1>1. /\ dash.pc = "finish" /\ dash' = Push(d, m) /\ shown' = shown
      /\ lost' = (IF Len(dash.send) >= Cap THEN lost \cup dash.list ELSE lost)
  BY DEF Finish
<1>2. dash \in DashType /\ DashTyped /\ PageTyped /\ EventsTyped /\ PlanTyped
  BY TypeIs, RunTypeIs DEF DashTyped
<1>3. /\ dash.after \in Nat /\ dash.through \in Nat /\ dash.seq \in Nat /\ Len(script) \in Nat
      /\ dash.list \subseteq Stored /\ dash.rows \subseteq Stored /\ dash.send \in Seq(Wire) /\ Stored \subseteq Seqs
      /\ Len(dash.send) \in Nat /\ Cap \in Nat /\ Len(dash.send) <= Cap
      /\ DOMAIN dash.send = 1 .. Len(dash.send)
      /\ dash.after <= Len(script) /\ dash.through <= Len(script)
      /\ \A s \in Stored : s \in Nat
  BY <1>2, DashFields, ConnsAre, StoredAre, SeqsAre DEF DashTyped, EventsTyped
<1>4. /\ Serving /\ dash.inst # NoInst
      /\ \A i \in DOMAIN dash.send : dash.send[i].type = "run.event" /\ dash.send[i].events \subseteq Stored
      /\ dash.run \/ dash.session
  BY <1>1 DEF Feeding, Serving
<1>5. /\ q \in Stored \cup {0} /\ q \in 0 .. Len(script)
      /\ \A t \in Nat : t > dash.seq \/ t <= dash.after \/ t <= dash.through =>
           t > q \/ t <= dash.after \/ t <= dash.through
  <2> DEFINE S == {dash.after, dash.through}
  <2>1. S \subseteq 0 .. Len(script) /\ S # {}
    BY <1>3
  <2>2. Max(S) \in S
    <3> HIDE DEF S
    <3> QED
      BY <1>3, <2>1, Greatest
  <2>3. Max(S) = dash.after \/ Max(S) = dash.through
    BY <2>2
  <2>4. q \in {dash.after, dash.through, dash.seq}
    BY <2>3
  <2>5. dash.after \in Stored \cup {0} /\ dash.through \in Stored \cup {0} /\ dash.seq \in Stored \cup {0}
    BY <1>4 DEF Serving
  <2>6. dash.seq \in 0 .. Len(script)
    BY <1>2, DashFields
  <2> HIDE DEF S, q
  <2> QED
    BY <1>3, <2>4, <2>5, <2>6
<1> HIDE DEF q
<1>6. /\ d \in DashType /\ d.inst = dash.inst /\ d.after = dash.after /\ d.run = dash.run /\ d.seq = q
      /\ d.session = dash.session /\ d.send = dash.send /\ d.through = dash.through /\ d.pc = "live"
      /\ d.rows = {} /\ d.list = {}
  BY <1>2, <1>5 DEF DashType
<1>7. m \in Wire /\ m.events = dash.list /\ m.rows = dash.rows /\ m.type = "run.snapshot"
  <2>1. dash.list \subseteq Seqs /\ dash.rows \subseteq Seqs
    BY <1>3
  <2> QED
    BY <2>1 DEF Snapshot, Wire
<1> HIDE DEF d, m
<1>8. \/ Len(dash.send) < Cap /\ dash' = [d EXCEPT !.send = Append(@, m)] /\ lost' = lost
      \/ Len(dash.send) >= Cap /\ dash' = d /\ lost' = lost \cup dash.list
  BY <1>1, <1>3, <1>6 DEF Push
<1>9. /\ dash'.inst = dash.inst /\ dash'.after = dash.after /\ dash'.run = dash.run /\ dash'.seq = q
      /\ dash'.session = dash.session /\ dash'.through = dash.through /\ dash'.pc = "live"
      /\ dash'.rows = {} /\ dash'.list = {} /\ dash' \in DashType
      /\ dash'.send = dash.send \/ (dash'.send = Append(dash.send, m) /\ Len(dash.send) < Cap)
  <2>1. CASE dash' = d
    BY <1>6, <2>1
  <2>2. CASE Len(dash.send) < Cap /\ dash' = [d EXCEPT !.send = Append(@, m)]
    <3>1. Append(dash.send, m) \in Seq(Wire)
      BY <1>3, <1>7
    <3> QED
      BY <1>6, <2>2, <3>1 DEF DashType
  <2> QED
    BY <1>8, <2>1, <2>2
<1>10. \/ /\ dash'.send = Append(dash.send, m)
          /\ \A i \in DOMAIN dash.send : i \in DOMAIN dash'.send /\ dash'.send[i] = dash.send[i]
          /\ \A i \in DOMAIN dash'.send : (i \in DOMAIN dash.send /\ dash'.send[i] = dash.send[i]) \/ dash'.send[i] = m
          /\ \E i \in DOMAIN dash'.send : dash'.send[i] = m
       \/ dash'.send = dash.send /\ lost' = lost \cup dash.list
  <2>1. CASE dash' = d /\ lost' = lost \cup dash.list
    BY <1>6, <2>1
  <2>2. CASE dash' = [d EXCEPT !.send = Append(@, m)]
    <3>1. dash'.send = Append(dash.send, m)
      BY <1>6, <2>2 DEF DashType
    <3> QED
      BY <1>2, <1>7, <3>1, SendLonger
  <2> QED
    BY <1>8, <2>1, <2>2
<1>11. /\ \A t : Told(t) => Told(t)'
       /\ \A t \in dash.list : Told(t)'
       /\ \A i \in DOMAIN dash'.send : (i \in DOMAIN dash.send /\ dash'.send[i] = dash.send[i]) \/ dash'.send[i] = m
  <2>1. lost \subseteq lost'
    BY <1>1
  <2>2. CASE /\ \A i \in DOMAIN dash.send : i \in DOMAIN dash'.send /\ dash'.send[i] = dash.send[i]
             /\ \A i \in DOMAIN dash'.send : (i \in DOMAIN dash.send /\ dash'.send[i] = dash.send[i]) \/ dash'.send[i] = m
             /\ \E i \in DOMAIN dash'.send : dash'.send[i] = m
    BY <1>1, <1>7, <2>1, <2>2 DEF Told, Sent
  <2>3. CASE dash'.send = dash.send /\ lost' = lost \cup dash.list
    BY <1>1, <2>1, <2>3 DEF Told, Sent
  <2> QED
    BY <1>10, <2>2, <2>3
<1>12. PageStep
  BY <1>9 DEF Finish, PageStep, counted
<1>13. /\ PlanTyped' /\ PipeTyped' /\ ReadersTyped' /\ BusTyped' /\ Readers' /\ Used' /\ InTurn'
       /\ Stored' = Stored /\ DashType' = DashType /\ planned' = planned /\ script' = script
       /\ rebuilds' = rebuilds /\ reader' = reader /\ bus' = bus /\ (Sequential' <=> Sequential)
       /\ (\A s : IsStep(s)' <=> IsStep(s))
  BY <1>12, LinksKeep
<1>14. \A t : Reaches(t) => Reaches(t)'
  BY <1>9, <1>11, <1>13, StaysReached
<1>15. FeedTyped'
  <2>1. Len(dash'.send) <= Cap
    <3>1. Len(Append(dash.send, m)) = Len(dash.send) + 1
      BY <1>3
    <3> QED
      BY <1>3, <1>9, <3>1
  <2>2. lost' \subseteq Stored
    BY <1>1, <1>2, <1>3 DEF PageTyped
  <2> QED
    BY <1>1, <1>2, <1>9, <1>13, <2>1, <2>2 DEF FeedTyped, DashTyped, PageTyped
<1>16. Serving'
  <2>1. \A i \in DOMAIN dash'.send : dash'.send[i].events \subseteq Stored
    BY <1>3, <1>4, <1>7, <1>11
  <2> QED
    BY <1>1, <1>4, <1>5, <1>9, <1>13, <2>1 DEF Serving
<1>17. Wanted'
  <2> SUFFICES ASSUME Sequential, dash.run, NEW t \in Stored, OnItsWay(t)'
               PROVE  t > q \/ t <= dash.after \/ t <= dash.through
    BY <1>9, <1>13 DEF Wanted
  <2>1. OnItsWay(t)
    BY <1>9, <1>13 DEF OnItsWay
  <2> QED
    BY <1>3, <1>4, <1>5, <2>1 DEF Feeding, Wanted
<1>18. Sequential /\ dash.run =>
         /\ dash.after <= dash.through /\ \A s \in Stored : s > dash.through => Reaches(s)'
         /\ \A s \in Stored : s > dash.after /\ s <= dash.through => Told(s)'
  <2> SUFFICES ASSUME Sequential, dash.run
               PROVE  /\ dash.after <= dash.through /\ \A s \in Stored : s > dash.through => Reaches(s)'
                      /\ \A s \in Stored : s > dash.after /\ s <= dash.through => Told(s)'
    OBVIOUS
  <2>1. /\ dash.after <= dash.through /\ \A s \in Stored : s > dash.through => Reaches(s)
        /\ \A s \in Stored : s > dash.after /\ s <= dash.through => s \in dash.list \cup lost
    BY <1>1 DEF Feeding, RunFed
  <2> QED
    BY <1>11, <1>14, <2>1 DEF Told
<1>19. RunFed'
  BY <1>9, <1>13, <1>18 DEF RunFed
<1>20. SessionFed'
  BY <1>9 DEF SessionFed
<1>21. NothingSkipped'
  <2>1. ASSUME Sequential, dash.run, NEW s \in Stored, s > dash.after PROVE Reaches(s)'
    <3>1. s > dash.through \/ s <= dash.through
      BY <1>3
    <3> QED
      BY <1>18, <2>1, <3>1, ToldReaches
  <2>2. ASSUME dash.session, rebuilds = 0, NEW s \in Stored, script[s].codex PROVE Reaches(s)'
    <3>1. s \in timeline
      BY <2>2, StepsWhole DEF Feeding
    <3>2. s \in dash.list \/ Reaches(s)
      BY <1>1, <2>2, <3>1 DEF Feeding, SessionFed
    <3> QED
      BY <1>11, <1>14, <3>2, ToldReaches
  <2> QED
    BY <1>9, <1>13, <2>1, <2>2 DEF NothingSkipped
<1>22. SnapshotWhole'
  <2> SUFFICES ASSUME Sequential, rebuilds = 0, ~dash.session,
                      NEW i \in DOMAIN dash'.send, dash'.send[i].type = "run.snapshot"
               PROVE  {s \in dash'.send[i].events : IsStep(s)} \subseteq dash'.send[i].rows
    BY <1>9, <1>13 DEF SnapshotWhole
  <2>1. dash'.send[i] = m
    BY <1>4, <1>11
  <2>2. /\ {s \in Stored : s <= dash.through /\ IsStep(s)} \subseteq dash.rows
        /\ \A s \in dash.list : s <= dash.through
    BY <1>1, <1>4 DEF Feeding, RunFed
  <2> QED
    BY <1>3, <1>7, <2>1, <2>2
<1> QED
  BY <1>13, <1>15, <1>16, <1>17, <1>19, <1>20, <1>21, <1>22 DEF Feeding

LEMMA RefuseKeeps ==
  ASSUME TypeOK, Feeding, Refuse
  PROVE  FeedTyped' /\ Feeding'
<1> DEFINE r == dash.run /\ dash.seq # dash.after
<1>1. /\ dash.pc \in {"mark", "views", "list"} /\ shown' = shown /\ lost' = lost
      /\ dash' = [dash EXCEPT !.pc = "refused", !.session = FALSE, !.rows = {}, !.list = {}, !.run = r]
  BY DEF Refuse
<1>2. dash \in DashType /\ DashTyped /\ PageTyped
  BY TypeIs DEF DashTyped
<1>3. r \in BOOLEAN /\ (r => dash.run)
  OBVIOUS
<1> HIDE DEF r
<1>4. /\ dash'.inst = dash.inst /\ dash'.after = dash.after /\ dash'.seq = dash.seq /\ dash'.send = dash.send
      /\ dash'.through = dash.through /\ dash'.pc = "refused" /\ dash' \in DashType
  BY <1>1, <1>2, <1>3 DEF DashType
<1>5. ~dash'.session /\ (dash'.run => dash.run)
  BY <1>1, <1>2, <1>3 DEF DashType
<1>6. PageStep
  BY <1>4 DEF Refuse, PageStep
<1>7. /\ PlanTyped' /\ PipeTyped' /\ ReadersTyped' /\ BusTyped' /\ Readers' /\ Used' /\ InTurn'
      /\ Stored' = Stored /\ DashType' = DashType /\ planned' = planned
      /\ rebuilds' = rebuilds /\ reader' = reader /\ bus' = bus /\ (Sequential' <=> Sequential)
  BY <1>6, LinksKeep
<1>8. /\ Serving /\ dash.inst # NoInst
      /\ \A i \in DOMAIN dash.send : dash.send[i].type = "run.event" /\ dash.send[i].events \subseteq Stored
  BY <1>1 DEF Feeding, Serving
<1>9. FeedTyped'
  BY <1>1, <1>2, <1>4, <1>7 DEF FeedTyped, DashTyped, PageTyped
<1>10. Serving'
  BY <1>4, <1>5, <1>7, <1>8 DEF Serving
<1>11. Wanted'
  BY <1>4, <1>5, <1>7 DEF Feeding, Wanted, OnItsWay
<1>12. RunFed' /\ SessionFed' /\ NothingSkipped' /\ SnapshotWhole'
  BY <1>4, <1>5, <1>8 DEF RunFed, SessionFed, NothingSkipped, SnapshotWhole
<1> QED
  BY <1>7, <1>9, <1>10, <1>11, <1>12 DEF Feeding

LEMMA ReceiveKeeps ==
  ASSUME TypeOK, Feeding, Receive
  PROVE  FeedTyped' /\ Feeding'
<1> DEFINE m == Head(dash.send)
<1>1. dash.send # <<>> /\ shown' = shown \cup m.events /\ dash' = [dash EXCEPT !.send = Tail(@)] /\ lost' = lost
  BY DEF Receive
<1>2. dash \in DashType /\ DashTyped /\ PageTyped /\ dash.send \in Seq(Wire) /\ Cap \in Nat
  BY TypeIs, DashFields, ConnsAre DEF DashTyped
<1>3. /\ m \in Wire /\ Tail(dash.send) \in Seq(Wire) /\ m = dash.send[1] /\ 1 \in DOMAIN dash.send
      /\ Len(Tail(dash.send)) = Len(dash.send) - 1 /\ Len(dash.send) \in Nat
      /\ (\A i \in DOMAIN Tail(dash.send) : \E j \in DOMAIN dash.send : Tail(dash.send)[i] = dash.send[j])
      /\ \A j \in DOMAIN dash.send : dash.send[j] = m \/ \E i \in DOMAIN Tail(dash.send) : Tail(dash.send)[i] = dash.send[j]
  <2> DEFINE p == dash.send
  <2>1. p \in Seq(Wire) /\ p # <<>>
    BY <1>1, <1>2
  <2> HIDE DEF p
  <2>2. /\ Head(p) \in Wire /\ Tail(p) \in Seq(Wire)
        /\ Len(p) \in Nat /\ Len(p) > 0 /\ Head(p) = p[1] /\ DOMAIN p = 1 .. Len(p)
        /\ DOMAIN Tail(p) = 1 .. Len(p) - 1 /\ Len(Tail(p)) = Len(p) - 1
        /\ \A i \in 1 .. Len(p) - 1 : Tail(p)[i] = p[i + 1]
    BY <2>1, TailIs
  <2>3. \A i \in 1 .. Len(p) - 1 : i + 1 \in 1 .. Len(p)
    BY <2>2
  <2>4. \A j \in 1 .. Len(p) : j = 1 \/ (j - 1 \in 1 .. Len(p) - 1 /\ j - 1 + 1 = j)
    BY <2>2
  <2>5. \A j \in DOMAIN p : p[j] = Head(p) \/ \E i \in DOMAIN Tail(p) : Tail(p)[i] = p[j]
    <3> TAKE j \in DOMAIN p
    <3>1. CASE j = 1
      BY <2>2, <3>1
    <3>2. CASE j # 1
      <4>1. j - 1 \in DOMAIN Tail(p) /\ Tail(p)[j - 1] = p[j - 1 + 1] /\ j - 1 + 1 = j
        BY <2>2, <2>4, <3>2
      <4> QED
        BY <4>1
    <3> QED
      BY <3>1, <3>2
  <2>6. 1 \in DOMAIN p
    BY <2>2
  <2>7. \A i \in DOMAIN Tail(p) : \E j \in DOMAIN p : Tail(p)[i] = p[j]
    BY <2>2, <2>3
  <2>8. /\ Head(p) \in Wire /\ Tail(p) \in Seq(Wire) /\ Head(p) = p[1]
        /\ Len(Tail(p)) = Len(p) - 1 /\ Len(p) \in Nat
    BY <2>2
  <2> QED
    BY <2>5, <2>6, <2>7, <2>8 DEF p
<1>4. /\ Serving /\ dash.inst # NoInst
      /\ \A i \in DOMAIN dash.send : /\ dash.send[i].events \subseteq Stored
                                     /\ dash.pc # "live" => dash.send[i].type = "run.event"
  BY <1>1 DEF Feeding, Serving, NoDash
<1> HIDE DEF m
<1>5. /\ dash'.inst = dash.inst /\ dash'.after = dash.after /\ dash'.run = dash.run /\ dash'.seq = dash.seq
      /\ dash'.session = dash.session /\ dash'.through = dash.through /\ dash'.pc = dash.pc
      /\ dash'.rows = dash.rows /\ dash'.list = dash.list /\ dash'.send = Tail(dash.send) /\ dash' \in DashType
  BY <1>1, <1>2, <1>3 DEF DashType
<1>6. PageStep
  BY <1>5 DEF Receive, PageStep, counted
<1>7. /\ PlanTyped' /\ PipeTyped' /\ ReadersTyped' /\ BusTyped' /\ Readers' /\ Used' /\ InTurn'
      /\ Stored' = Stored /\ DashType' = DashType /\ planned' = planned /\ timeline' = timeline /\ script' = script
      /\ rebuilds' = rebuilds /\ reader' = reader /\ bus' = bus /\ (Sequential' <=> Sequential)
      /\ (\A s : IsStep(s)' <=> IsStep(s))
  BY <1>6, LinksKeep
<1>8. \A t : Told(t) => Told(t)'
  <2>1. ASSUME NEW t, Sent(t) PROVE Told(t)'
    <3>1. PICK j \in DOMAIN dash.send : t \in dash.send[j].events
      BY <2>1 DEF Sent
    <3> QED
      BY <1>1, <1>3, <1>5, <3>1 DEF Told, Sent
  <2> QED
    BY <1>1, <2>1 DEF Told
<1>9. \A t : Reaches(t) => Reaches(t)'
  BY <1>5, <1>7, <1>8, StaysReached
<1>10. FeedTyped'
  <2>1. shown' \subseteq Stored
    BY <1>1, <1>2, <1>3, <1>4 DEF PageTyped
  <2>2. Len(dash'.send) <= Cap
    BY <1>2, <1>3, <1>5 DEF DashTyped
  <2> QED
    BY <1>1, <1>2, <1>5, <1>7, <2>1, <2>2 DEF FeedTyped, DashTyped, PageTyped
<1>11. Serving'
  <2>1. dash.pc # "off"
    BY <1>4 DEF Serving
  <2>2. \A i \in DOMAIN dash'.send : /\ dash'.send[i].events \subseteq Stored
                                     /\ dash.pc # "live" => dash'.send[i].type = "run.event"
    BY <1>3, <1>4, <1>5
  <2> QED
    BY <1>4, <1>5, <1>7, <2>1, <2>2 DEF Serving
<1>12. Wanted'
  BY <1>5, <1>7 DEF Feeding, Wanted, OnItsWay
<1>13. RunFed'
  <2>1. RunFed
    BY DEF Feeding
  <2> QED
    BY <1>1, <1>5, <1>7, <1>8, <1>9, <2>1 DEF RunFed
<1>14. SessionFed' /\ NothingSkipped'
  BY <1>5, <1>7, <1>9 DEF Feeding, SessionFed, NothingSkipped
<1>15. SnapshotWhole'
  BY <1>3, <1>5, <1>7 DEF Feeding, SnapshotWhole
<1> QED
  BY <1>7, <1>10, <1>11, <1>12, <1>13, <1>14, <1>15 DEF Feeding

LEMMA CloseKeeps ==
  ASSUME TypeOK, Feeding, Close
  PROVE  FeedTyped' /\ Feeding'
<1>1. dash' = NoDash /\ shown' = shown /\ lost' = lost
  BY DEF Close
<1>2. PageStep
  BY <1>1 DEF Close, PageStep, counted, NoDash
<1>3. /\ PlanTyped' /\ PipeTyped' /\ ReadersTyped' /\ BusTyped' /\ Readers' /\ Used' /\ InTurn'
      /\ Stored' = Stored /\ DashType' = DashType /\ EventsTyped /\ PageTyped /\ Cap \in Nat
  BY <1>2, LinksKeep, TypeIs, ConnsAre
<1>4. DashTyped'
  <2>1. <<>> \in Seq(Wire) /\ Len(<<>>) = 0 /\ 0 \in 0 .. Len(script)
    BY <1>3, SeqsAre DEF EventsTyped
  <2> QED
    BY <1>1, <1>3, <2>1 DEF DashTyped, DashType, NoDash
<1>5. Serving'
  BY <1>1 DEF Serving, NoDash
<1>6. Wanted' /\ RunFed' /\ SessionFed' /\ NothingSkipped' /\ SnapshotWhole'
  BY <1>1, Unsubscribed DEF NoDash
<1> QED
  BY <1>1, <1>3, <1>4, <1>5, <1>6 DEF FeedTyped, Feeding, PageTyped

-----------------------------------------------------------------------------
(* A rebuild, beside the feed.                                             *)

LEMMA RebuildFeedKeeps ==
  ASSUME TypeOK, Feeding, UNCHANGED feedVars, planned' = planned, script' = script, stored' = stored,
         saving' = saving, rebuilds' \in Nat \ {0}
  PROVE  FeedTyped' /\ Feeding'
<1>1. /\ PlanTyped /\ PipeTyped /\ ReadersTyped /\ BusTyped /\ DashTyped /\ PageTyped
  BY TypeIs
<1>2. /\ conn' = conn /\ pipe' = pipe /\ reader' = reader /\ bus' = bus /\ accepted' = accepted
      /\ dash' = dash /\ shown' = shown /\ lost' = lost
  BY DEF feedVars, links
<1>3. /\ Wire' = Wire /\ DashType' = DashType /\ ReaderType' = ReaderType /\ Stored' = Stored /\ Seqs' = Seqs
      /\ (Sequential' <=> Sequential) /\ rebuilds' # 0
  BY <1>2, SameWire DEF Sequential
<1>4. FeedTyped'
  BY <1>1, <1>2, <1>3 DEF FeedTyped, PlanTyped, PipeTyped, ReadersTyped, BusTyped, DashTyped, PageTyped
<1>5. Readers' /\ Serving' /\ InTurn' /\ Wanted'
  BY <1>2, <1>3 DEF Feeding, Readers, Serving, InTurn, Wanted, OnItsWay
<1>6. Used'
  BY <1>2, <1>3 DEF Feeding, Used, Running
<1>7. \A s : (Told(s)' <=> Told(s)) /\ (Reaches(s)' <=> Reaches(s))
  BY <1>2 DEF Told, Sent, Reaches, Coming
<1>8. RunFed'
  <2>1. RunFed
    BY DEF Feeding
  <2> QED
    BY <1>2, <1>3, <1>7, <2>1 DEF RunFed
<1>9. SessionFed' /\ NothingSkipped' /\ SnapshotWhole'
  BY <1>2, <1>3, <1>7 DEF Feeding, SessionFed, NothingSkipped, SnapshotWhole
<1> QED
  BY <1>4, <1>5, <1>6, <1>8, <1>9 DEF Feeding

LEMMA SameFeedKeeps ==
  ASSUME TypeOK, Feeding, UNCHANGED <<runVars, feedVars>>, planned' = planned, rebuilds' = rebuilds
  PROVE  FeedTyped' /\ Feeding'
<1>1. PageStep /\ dash' = dash /\ shown' = shown /\ lost' = lost
  BY DEF PageStep, feedVars, links
<1>2. /\ PlanTyped' /\ PipeTyped' /\ ReadersTyped' /\ BusTyped' /\ Readers' /\ Used' /\ InTurn'
      /\ Stored' = Stored /\ DashType' = DashType /\ PageTyped /\ DashTyped
      /\ script' = script /\ stored' = stored /\ planned' = planned /\ timeline' = timeline
      /\ rebuilds' = rebuilds /\ reader' = reader /\ bus' = bus /\ (Sequential' <=> Sequential)
  BY <1>1, LinksKeep
<1>3. 1 \in Conns
  BY TypeIs, ConnsAre
<1>4. Serving' /\ Wanted' /\ RunFed' /\ SessionFed' /\ NothingSkipped' /\ SnapshotWhole'
  BY <1>1, <1>2, <1>3, SamePage
<1> QED
  BY <1>1, <1>2, <1>4 DEF FeedTyped, DashTyped, PageTyped, Feeding

-----------------------------------------------------------------------------
(* The invariant of the specification.                                     *)

FeedInv == TypeOK /\ Projecting /\ Feeding

LEMMA InitHolds == Init => FeedInv
<1> SUFFICES ASSUME Init PROVE FeedInv
  OBVIOUS
<1>1. /\ planned \in Scenarios /\ script = planned.script /\ conn = 1
      /\ pipe = [c \in Conns |-> <<>>] /\ reader = [c \in Conns |-> NoReader]
      /\ bus = [i \in Instances |-> <<>>] /\ accepted = {} /\ dash = NoDash /\ shown = {} /\ lost = {} /\ rebuilds = 0
      /\ stored = <<>> /\ messages = {} /\ tools = [i \in Items |-> NoTool]
      /\ steps = {} /\ timeline = {} /\ cursor = 0 /\ status = "accepted"
      /\ saving = NoSave /\ rebuild = [w \in Admins |-> Idle] /\ torn = FALSE /\ late = FALSE
  BY DEF Init, RunInit
<1>2. planned.script \in Seq(Events) /\ planned.conns \in Conns
  BY <1>1, DashFeedAssumption
<1>3. Stored = {} /\ <<>> \in Seq(Seqs) /\ <<>> \in Seq(Stored) /\ DOMAIN stored = {} /\ Len(stored) = 0
      /\ IsInjective(stored)
  BY <1>1 DEF Stored, Range, IsInjective
<1>4. 0 \in 0 .. Len(script) /\ Len(script) \in Nat
  BY <1>1, <1>2, SeqsAre
<1>5. NoRow \in RowType
  BY <1>1, <1>2, NoRowTyped
<1>6. RunTypeOK
  <2>1. EventsTyped
    BY <1>1, <1>2, <1>3 DEF EventsTyped
  <2>2. tools \in ToolType
    BY <1>1, <1>2, NoToolsTyped
  <2>3. TablesTyped
    BY <1>1, <1>3, <1>4, <2>2 DEF TablesTyped, Rows
  <2>4. SaveTyped
    BY <1>1, <1>4, <1>5 DEF SaveTyped, NoSave
  <2>5. RebuildsTyped
    <3>1. Idle \in Rebuilder
      BY <1>3, <1>5 DEF Idle, Rebuilder
    <3> QED
      BY <1>1, <3>1 DEF RebuildsTyped
  <2> QED
    BY <1>1, <2>1, <2>3, <2>4, <2>5, RunTypeIs DEF FlagsTyped
<1>7. PlanTyped
  <2>1. Conns = 1 .. Cardinality(Conns) /\ Cardinality(Conns) \in Nat
    BY DashFeedAssumption, FS_CardinalityType
  <2>2. conn \in Conns /\ conn <= planned.conns
    BY <1>1, <1>2, <2>1
  <2> QED
    BY <1>1, <2>2 DEF PlanTyped
<1>8. 1 \in Conns /\ InstOf \in [Conns -> Instances] /\ Cap \in Nat
  BY <1>7, ConnsAre
<1>9. TypeOK
  <2>1. PipeTyped /\ BusTyped /\ PageTyped
    BY <1>1, <1>3 DEF PipeTyped, BusTyped, PageTyped
  <2>2. ReadersTyped
    BY <1>1, <1>4 DEF ReadersTyped, ReaderType, NoReader
  <2>3. DashTyped
    <3>1. <<>> \in Seq(Wire) /\ Len(<<>>) = 0
      OBVIOUS
    <3> QED
      BY <1>1, <1>4, <1>8, <3>1 DEF DashTyped, DashType, NoDash
  <2> QED
    BY <1>6, <1>7, <2>1, <2>2, <2>3, TypeIs
<1>10. \A w \in Admins : rebuild[w] = Idle /\ ~Rebuilding(w) /\ rebuild[w].pc = "idle"
  BY <1>1 DEF Rebuilding, Idle, Clearing, Replaying
<1>11. Projecting
  <2>1. Locked /\ ReadLocked
    BY <1>1 DEF Locked, ReadLocked
  <2>2. \A w \in Admins : Rebuilds(w)
    BY <1>10 DEF Rebuilds, Clearing
  <2>3. Alone
    BY <1>10 DEF Alone
  <2>4. TablesComplete
    <3>1. Max({} \cup {0}) = 0
      <4>1. \A y \in {0} : y <= 0
        OBVIOUS
      <4>2. {0} \in SUBSET Nat /\ 0 \in {0} /\ {} \cup {0} = {0}
        OBVIOUS
      <4> QED
        BY <4>1, <4>2, GreatestIs
    <3> QED
      BY <1>1, <1>3, <3>1 DEF TablesComplete
  <2>5. MatchesMirror
    <3>1. Mirror[0] = [messages |-> {}, tools |-> [i \in Items |-> NoTool]]
      BY <1>1, <1>2, MirrorUnfolds
    <3> QED
      BY <1>1, <1>3, <3>1 DEF MatchesMirror
  <2> QED
    BY <2>1, <2>2, <2>3, <2>4, <2>5 DEF Projecting
<1>12. Feeding
  <2>1. Readers
    BY <1>1 DEF Readers, NoReader
  <2>2. Used
    BY <1>1, <1>8, <1>10 DEF Used, NoDash
  <2>3. Serving
    BY <1>1 DEF Serving, NoDash
  <2>4. InTurn
    <3>1. pipe[1] = <<>> /\ reader[1] = NoReader /\ \A i \in Instances : bus[i] = <<>>
      BY <1>1, <1>8
    <3>2. NoReader.at = "idle" /\ DOMAIN <<>> = {}
      BY DEF NoReader
    <3> QED
      BY <1>3, <3>1, <3>2 DEF InTurn, Ascends
  <2>5. Wanted /\ RunFed /\ SessionFed /\ NothingSkipped /\ SnapshotWhole
    BY <1>1 DEF Wanted, RunFed, SessionFed, NothingSkipped, SnapshotWhole, NoDash
  <2> QED
    BY <2>1, <2>2, <2>3, <2>4, <2>5 DEF Feeding
<1> QED
  BY <1>9, <1>11, <1>12 DEF FeedInv

(* The step of a reader or of the page that leaves the store alone.        *)
LEMMA FeedStep ==
  ASSUME FeedInv, UNCHANGED runVars, FeedTyped' /\ Feeding'
  PROVE  FeedInv'
<1>1. RunTypeOK /\ Projecting
  BY TypeIs DEF FeedInv
<1>2. RunTypeOK' /\ Projecting'
  BY <1>1, SameRunType, SameRunKeeps
<1> QED
  BY <1>2, TypeIsNext DEF FeedInv, FeedTyped

LEMMA StoreStep ==
  ASSUME FeedTyped' /\ Feeding', RunTypeOK', Projecting'
  PROVE  FeedInv'
BY TypeIsNext DEF FeedInv, FeedTyped

LEMMA ReaderKeeps ==
  ASSUME FeedInv, NEW c \in Conns, Break(c) \/ Begin(c) \/ Commit(c) \/ Check(c) \/ Broadcast(c) \/ Publish(c)
  PROVE  FeedInv'
<1>1. TypeOK /\ RunTypeOK /\ Projecting /\ Feeding
  BY TypeIs DEF FeedInv
<1>2. CASE Break(c)
  BY <1>1, <1>2, BreakKeeps, FeedStep DEF Break
<1>3. CASE Begin(c)
  <2>1. FeedTyped' /\ Feeding'
    BY <1>1, <1>3, BeginKeeps
  <2>2. CASE UNCHANGED runVars
    BY <2>1, <2>2, FeedStep
  <2>3. CASE SaveBegin(Head(pipe[c]))
    <3>1. Head(pipe[c]) \in Seqs
      <4>1. pipe[c] \in Seq(Seqs) /\ pipe[c] # <<>>
        BY <1>1, <1>3, TypeIs DEF PipeTyped, Begin
      <4> QED
        BY <4>1, TailIs
    <3>2. RunTypeOK' /\ Projecting'
      BY <1>1, <2>3, <3>1, SaveBeginType, SaveBeginKeeps
    <3> QED
      BY <2>1, <3>2, StoreStep
  <2> QED
    BY <1>3, <2>2, <2>3 DEF Begin
<1>4. CASE Commit(c)
  <2>1. FeedTyped' /\ Feeding'
    BY <1>1, <1>4, CommitKeeps
  <2>2. SaveCommit /\ saving.seq \in Seqs \ Stored
    BY <1>1, <1>4 DEF Commit, SaveCommit, Projecting, Locked
  <2>3. RunTypeOK' /\ Projecting'
    BY <1>1, <2>2, SaveCommitType, SaveCommitKeeps
  <2> QED
    BY <2>1, <2>3, StoreStep
<1>5. CASE Broadcast(c)
  BY <1>1, <1>5, BroadcastKeeps, FeedStep DEF Broadcast
<1>6. CASE Publish(c)
  BY <1>1, <1>6, PublishKeeps, FeedStep DEF Publish
<1>7. CASE Check(c)
  BY <1>1, <1>7, CheckKeeps, FeedStep DEF Check
<1> QED
  BY <1>2, <1>3, <1>4, <1>5, <1>6, <1>7

LEMMA PageKeeps ==
  ASSUME FeedInv,
         \/ \E i \in Instances, fresh \in BOOLEAN : Open(i, fresh)
         \/ Subscribe \/ Watermark \/ ReadViews \/ ListEvents \/ Finish \/ Refuse \/ Receive \/ Close
  PROVE  FeedInv'
<1>1. TypeOK /\ Projecting /\ Feeding
  BY DEF FeedInv
<1>2. UNCHANGED runVars
  BY DEF Open, Subscribe, Watermark, ReadViews, ListEvents, Finish, Refuse, Receive, Close
<1>3. FeedTyped' /\ Feeding'
  <2>1. CASE \E i \in Instances, fresh \in BOOLEAN : Open(i, fresh)
    BY <1>1, <2>1, OpenKeeps
  <2>2. CASE Subscribe
    BY <1>1, <2>2, SubscribeKeeps
  <2>3. CASE Watermark
    BY <1>1, <2>3, WatermarkKeeps
  <2>4. CASE ReadViews
    BY <1>1, <2>4, ReadViewsKeeps
  <2>5. CASE ListEvents
    BY <1>1, <2>5, ListEventsKeeps
  <2>6. CASE Finish
    BY <1>1, <2>6, FinishKeeps
  <2>7. CASE Refuse
    BY <1>1, <2>7, RefuseKeeps
  <2>8. CASE Receive
    BY <1>1, <2>8, ReceiveKeeps
  <2>9. CASE Close
    BY <1>1, <2>9, CloseKeeps
  <2> QED
    BY <2>1, <2>2, <2>3, <2>4, <2>5, <2>6, <2>7, <2>8, <2>9
<1> QED
  BY <1>2, <1>3, FeedStep

LEMMA RebuildKeeps ==
  ASSUME FeedInv, NEW w \in Admins, StartRebuild(w) \/ RebuildStep(w) \/ RebuildFails(w)
  PROVE  FeedInv'
<1>1. TypeOK /\ RunTypeOK /\ Projecting /\ Feeding /\ rebuilds \in Nat
  BY TypeIs DEF FeedInv, Feeding, Used
<1>2. UNCHANGED feedVars /\ planned' = planned
  BY DEF StartRebuild, RebuildStep, RebuildFails, counted
<1>3. script' = script /\ stored' = stored /\ saving' = saving
  BY DEF StartRebuild, RebuildStep, RebuildFails, Select, Clear, Replay, Abort, projections
<1>4. rebuild[w].pc # "idle" => rebuilds # 0
  BY <1>1 DEF Feeding, Used
<1>5. CASE StartRebuild(w)
  <2>1. rebuilds' \in Nat \ {0} /\ Select(w)
    BY <1>1, <1>5 DEF StartRebuild
  <2>2. FeedTyped' /\ Feeding'
    BY <1>1, <1>2, <1>3, <2>1, RebuildFeedKeeps
  <2>3. RunTypeOK' /\ Projecting'
    BY <1>1, <2>1, SelectType, SelectKeeps
  <2> QED
    BY <2>2, <2>3, StoreStep
<1>6. CASE RebuildStep(w) \/ RebuildFails(w)
  <2>1. rebuilds' = rebuilds /\ (Clear(w) \/ Replay(w) \/ Abort(w))
    BY <1>6 DEF RebuildStep, RebuildFails, counted
  <2>2. rebuild[w].pc \in Clearing \cup Replaying
    BY <2>1 DEF Clear, Replay, Abort, Rebuilding, Clearing, Replaying
  <2>3. FeedTyped' /\ Feeding'
    <3>1. rebuild[w].pc # "idle"
      BY <2>2 DEF Clearing, Replaying
    <3> QED
      BY <1>1, <1>2, <1>3, <1>4, <2>1, <3>1, RebuildFeedKeeps
  <2>4. Rebuilding(w) /\ rebuild[w].todo # <<>>
    BY <1>1, <2>2 DEF Rebuilding, Projecting, Rebuilds
  <2>5. RunTypeOK' /\ Projecting'
    <3>1. CASE Clear(w)
      BY <1>1, <3>1, ClearType, ClearKeeps
    <3>2. CASE Replay(w)
      BY <1>1, <2>4, <3>2, ReplayType, ReplayKeeps
    <3>3. CASE Abort(w)
      BY <1>1, <3>3, AbortType, AbortKeeps
    <3> QED
      BY <2>1, <3>1, <3>2, <3>3
  <2> QED
    BY <2>3, <2>5, StoreStep
<1> QED
  BY <1>5, <1>6

LEMMA NextKeeps == FeedInv /\ [Next]_vars => FeedInv'
<1> SUFFICES ASSUME FeedInv, [Next]_vars PROVE FeedInv'
  OBVIOUS
<1>1. TypeOK /\ Projecting /\ Feeding
  BY DEF FeedInv
<1>2. CASE Reconnect
  BY <1>1, <1>2, ReconnectKeeps, FeedStep DEF Reconnect
<1>3. ASSUME NEW s \in Seqs, Send(s) PROVE FeedInv'
  BY <1>1, <1>3, SendKeeps, FeedStep DEF Send
<1>4. ASSUME NEW c \in Conns, Break(c) \/ Begin(c) \/ Commit(c) \/ Check(c) \/ Broadcast(c) \/ Publish(c) PROVE FeedInv'
  BY <1>4, ReaderKeeps
<1>5. ASSUME NEW i \in Instances, RelayCheck(i) \/ Relay(i) \/ Miss(i) PROVE FeedInv'
  <2>1. CASE RelayCheck(i)
    BY <1>1, <2>1, RelayCheckKeeps, FeedStep DEF RelayCheck
  <2>2. CASE Relay(i) \/ Miss(i)
    BY <1>1, <2>2, HandedOn, FeedStep DEF Relay, Miss
  <2> QED
    BY <1>5, <2>1, <2>2
<1>6. CASE \/ \E i \in Instances, fresh \in BOOLEAN : Open(i, fresh)
           \/ Subscribe \/ Watermark \/ ReadViews \/ ListEvents \/ Finish \/ Refuse \/ Receive \/ Close
  BY <1>6, PageKeeps
<1>7. ASSUME NEW w \in Admins, StartRebuild(w) \/ RebuildStep(w) \/ RebuildFails(w) PROVE FeedInv'
  BY <1>7, RebuildKeeps
<1>8. CASE UNCHANGED vars
  <2>1. UNCHANGED <<runVars, feedVars>> /\ planned' = planned /\ rebuilds' = rebuilds
    BY <1>8 DEF vars, counted
  <2> QED
    BY <1>1, <2>1, SameFeedKeeps, FeedStep
<1> QED
  BY <1>2, <1>3, <1>4, <1>5, <1>6, <1>7, <1>8 DEF Next

-----------------------------------------------------------------------------
(* What holds in every state the program reaches.                          *)

(* What saves and rebuilds have projected so far and where every event is  *)
(* on its way to the page, at every point of their handlers.               *)
THEOREM FeedInvariant == Spec => []FeedInv
BY InitHolds, NextKeeps, PTL DEF Spec

(* The store, the readers, the buses and the page keep their types, and    *)
(* one event is saved at a time (SaveRunEvent, handleDashRunSubscribe).    *)
THEOREM TypeCorrect == Spec => []TypeOK
<1>1. FeedInv => TypeOK
  BY DEF FeedInv
<1> QED
  BY <1>1, FeedInvariant, PTL

(* The steps, the timeline and the cursor of a run are those of the stored *)
(* events, in whatever order these came and whatever rebuilds ran, unless  *)
(* a rebuild was disturbed and none has repaired it since (SaveRunEvent,   *)
(* RebuildRunProjections).                                                 *)
THEOREM ProjectionsComplete == Spec => []TablesComplete
<1>1. FeedInv => TablesComplete
  BY DEF FeedInv, Projecting
<1> QED
  BY <1>1, FeedInvariant, PTL

(* The server's messages and tool calls of a run are the agent's, when no  *)
(* event came late since the last rebuild that had the run to itself       *)
(* (projectRunEventTx against the agent's projectRunView).                 *)
THEOREM ProjectionsMirror == Spec => []MatchesMirror
<1>1. FeedInv => MatchesMirror
  BY DEF FeedInv, Projecting
<1> QED
  BY <1>1, FeedInvariant, PTL

(* Between the watermark, the list of a snapshot and the live events no    *)
(* event of the run is passed over, nor one of a session's timeline        *)
(* (handleDashRunSubscribe, dashAcceptsRunEventBroadcast, BroadcastDash).  *)
THEOREM FeedSkipsNothing == Spec => []NothingSkipped
<1>1. FeedInv => NothingSkipped
  BY DEF FeedInv, Feeding
<1> QED
  BY <1>1, FeedInvariant, PTL

(* The views of a snapshot are not behind its events, since the watermark  *)
(* that bounds them is read first (handleDashRunSubscribe).                *)
THEOREM SnapshotsAreWhole == Spec => []SnapshotWhole
<1>1. FeedInv => SnapshotWhole
  BY DEF FeedInv, Feeding
<1> QED
  BY <1>1, FeedInvariant, PTL
=============================================================================
