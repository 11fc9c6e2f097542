--------------------------- MODULE IndexSyncProofs ---------------------------
(* Theorems about IndexSync, for every set of conversations, runs, scans   *)
(* and directories and every bound: a scan the disk holds still for        *)
(* repairs the index, the run that wrote a conversation last stays found   *)
(* while the two rows of it agree on its thread, and what a steady refresh *)
(* has sent is at the server once it has arrived.                          *)
EXTENDS IndexSync, SequenceTheorems, TLAPS

-----------------------------------------------------------------------------
(* The inductive invariant.  Nothing serialises the scans, and a run       *)
(* writes its row in three statements; what keeps the index in order is    *)
(* that everything they write is about one conversation, under one of its  *)
(* two ids, and that only a scan can name the file's id as the thread.     *)

IdsOf(c) == {c, Thread[c]}
Directories == {Places[i] : i \in DOMAIN Places}
WalkedRoots == {RootOf[p] : p \in DOMAIN RootOf}

(* Types.                                                                  *)
Target == [ids : SUBSET Refs, run : Runs \cup {NoRun}]
Scan == [kind : {"none", "refresh", "history", "lookup"}, pc : TaskPC,
         at : 1 .. Len(Places) + 1, found : [Convs -> Seen \cup {Unseen}],
         roots : SUBSET Roots, deleted : SUBSET Convs,
         run : Runs \cup {NoRun}, target : Target]
Execution == [pc : RunPC, id : Refs, conv : Convs \cup {NewRun.conv}, resume : BOOLEAN,
              row : Row, key : Refs, existing : Refs]
SessionUpdate == [session : Ids, native : Ids, run : Runs \cup {NoRun}, of : Runs, create : BOOLEAN]
IndexRow == [session : Ids, native : Refs, run : Runs \cup {NoRun}]
Message == [kind : {"sessions", "deleted"}, convs : SUBSET Convs]
           \cup [kind : {"runtime"}, rows : SUBSET IndexRow]

DiskTyped ==
  /\ disk \in [Convs -> [place : DOMAIN RootOf \cup {NoPlace}, configured : BOOLEAN]]
  /\ mounted \subseteq Roots
TablesTyped ==
  /\ sessions \in [Convs -> [state : {"none", "live", "deleted"}, root : Roots]]
  /\ rows \in [Ids -> Row] /\ latest \in [Convs -> Runs \cup {NoRun}]
TasksTyped == task \in [Tasks -> Scan] /\ steady \subseteq Tasks
RunsTyped  == run \in [Runs -> Execution]
WiresTyped == events \in Seq(SessionUpdate) /\ net \in Seq(Message)
ServerTyped ==
  /\ srvSessions \in [Convs -> {"none", "live", "deleted"}]
  /\ srvRows \in [Ids -> SrvRow] /\ runLink \in [Runs -> Refs]
CountsTyped ==
  /\ settled \in BOOLEAN /\ published \in BOOLEAN /\ scenario \in Scenarios
  /\ started \in Nat /\ changes \in Nat /\ drops \in Nat
  /\ started <= scenario.tasks /\ changes <= scenario.changes /\ drops <= scenario.drops
Typed ==
  DiskTyped /\ TablesTyped /\ TasksTyped /\ RunsTyped /\ WiresTyped /\ ServerTyped /\ CountsTyped

(* A scan names what it found by an id of the conversation, and a scan for *)
(* a run is for one.                                                       *)
SeenOf(c, seen) == seen.native # NoId => seen.native \in IdsOf(c) /\ seen.root \in WalkedRoots
Reads(x) ==
  /\ \A c \in Convs : SeenOf(c, x.found[c])
  /\ x.kind \in {"history", "lookup"} => x.run \in Runs
Reading == \A k \in Tasks : Reads(task[k])

(* A row names a thread of its conversation; the one under the thread's    *)
(* own id, which only runs write, names the thread.                        *)
RowsTrue ==
  \A c \in Convs :
    /\ Stored(c) => rows[c].native \in IdsOf(c)
    /\ Stored(Thread[c]) => rows[Thread[c]].native = Thread[c]

(* A run writes about its conversation; the only row it deletes is the one *)
(* under the thread's own id, for the one under the file's.                *)
RunsTrue(x, r) ==
  /\ x.pc # "new" => x.conv \in Convs /\ x.id \in IdsOf(x.conv) /\ x.key \in IdsOf(x.conv)
  /\ x.pc \in {"select", "delete", "insert"} => x.row = [native |-> Thread[x.conv], run |-> r]
  /\ x.pc = "delete" => x.key = x.conv /\ x.existing = Thread[x.conv] /\ x.existing # x.key
Running == \A r \in Runs : RunsTrue(run[r], r)

(* A scan that looks something up does it for a run that has begun.        *)
LookingUp == \A k \in Tasks : task[k].kind = "lookup" => run[task[k].run].pc # "new"

(* A steady scan has seen what is in the directories it has been in.       *)
Behind(x) == {Places[i] : i \in 1 .. x.at - 1}
SeenBy(x, c) ==
  IF disk[c].place \in Behind(x) /\ RootOf[disk[c].place] \in mounted
  THEN SessionFromFile(c, RootOf[disk[c].place]) ELSE Unseen
SawAll(x) ==
  /\ \A c \in Convs : x.found[c] = SeenBy(x, c)
  /\ x.roots = {RootOf[p] : p \in Behind(x)} \cap mounted
Walking == \A k \in steady : task[k].pc = "walk" => SawAll(task[k])

(* What a steady scan has saved.                                           *)
SessionsTrue == \A c \in Convs : sessions[c].state # "none" => sessions[c].root \in WalkedRoots
Repaired(c) ==
  /\ OnDisk(c) => sessions[c].state = "live"
  /\ ~OnDisk(c) /\ sessions[c].root \in mounted => sessions[c].state # "live"
  /\ OnDisk(c) /\ disk[c].configured => rows[c].native = Thread[c]
Settled == settled => \A c \in Convs : Repaired(c)

Indexing == Reading /\ RowsTrue /\ Running /\ LookingUp /\ Walking /\ SessionsTrue /\ Settled
IndexInv == Typed /\ Indexing

-----------------------------------------------------------------------------
(* The constants: whose an id is, and where the walk goes.                 *)

LEMMA Identity ==
  /\ \A c \in Convs : c \in Ids /\ Thread[c] \in Ids /\ ConvOf(c) = c /\ ConvOf(Thread[c]) = c
  /\ \A id \in Ids : ConvOf(id) \in Convs /\ id \in IdsOf(ConvOf(id))
  /\ \A c, d \in Convs : c # d => IdsOf(c) \cap IdsOf(d) = {}
  /\ NoId \notin Ids /\ NoRun \notin Runs
<1>1. \A c, d \in Convs : c # d => Thread[c] # Thread[d] /\ Thread[c] # d /\ Thread[d] # c
  BY IndexAssumption
<1>2. \A c \in Convs : c \in Ids /\ Thread[c] \in Ids
  BY DEF Ids
<1>3. ASSUME NEW c \in Convs, NEW id \in {c, Thread[c]} PROVE ConvOf(id) = c
  <2>1. \A d \in Convs : id \in {d, Thread[d]} => d = c
    BY <1>1, <1>3
  <2>2. QED
    BY <2>1 DEF ConvOf
<1>4. \A id \in Ids : \E c \in Convs : id \in {c, Thread[c]}
  BY DEF Ids
<1>5. \A c, d \in Convs : c # d => IdsOf(c) \cap IdsOf(d) = {}
  BY <1>1 DEF IdsOf
<1>6. NoId \notin Ids /\ NoRun \notin Runs
  BY IndexAssumption DEF Ids
<1>7. QED
  BY <1>2, <1>3, <1>4, <1>5, <1>6 DEF IdsOf

LEMMA TheWalk ==
  /\ Len(Places) \in Nat /\ Len(Places) > 0
  /\ \A i \in 1 .. Len(Places) : Places[i] \in DOMAIN RootOf
  /\ \A p \in DOMAIN RootOf : RootOf[p] \in Roots /\ \E i \in 1 .. Len(Places) : Places[i] = p
  /\ NoPlace \notin DOMAIN RootOf /\ Live \subseteq DOMAIN RootOf
  /\ WalkedRoots \subseteq Roots
<1>1. Places \in Seq(DOMAIN RootOf) /\ RootOf \in [{Places[i] : i \in DOMAIN Places} -> Roots]
      /\ Live \subseteq DOMAIN RootOf /\ NoPlace \notin DOMAIN RootOf /\ Len(Places) > 0
  BY IndexAssumption
<1>2. /\ Len(Places) \in Nat /\ DOMAIN Places = 1 .. Len(Places)
      /\ \A i \in 1 .. Len(Places) : Places[i] \in DOMAIN RootOf
  BY <1>1, LenProperties, ElementOfSeq
<1>3. \A p \in DOMAIN RootOf : RootOf[p] \in Roots /\ \E i \in 1 .. Len(Places) : Places[i] = p
  BY <1>1, <1>2
<1>4. WalkedRoots \subseteq Roots
  BY <1>3 DEF WalkedRoots
<1>5. QED
  BY <1>1, <1>2, <1>3, <1>4

LEMMA Nothing ==
  /\ Unseen \in [root : Roots, native : {NoId}]
  /\ None \in Row /\ SrvNone \in SrvRow /\ NoId \in Refs /\ Ids \subseteq Refs
  /\ Idle \in Scan /\ Idle.found = [c \in Convs |-> Unseen] /\ Idle.target \in Target
  /\ Idle.kind = "none" /\ Idle.pc = "idle" /\ Idle.at = 1 /\ Idle.roots = {}
  /\ NewRun \in Execution /\ NewRun.pc = "new"
<1>1. Unseen \in [root : Roots, native : {NoId}]
  BY IndexAssumption DEF Unseen
<1>2. None \in Row /\ SrvNone \in SrvRow /\ NoId \in Refs /\ Ids \subseteq Refs
  BY DEF None, Row, SrvNone, SrvRow, Refs
<1>3. /\ Idle.found = [c \in Convs |-> Unseen] /\ Idle.target \in Target
      /\ Idle.kind = "none" /\ Idle.pc = "idle" /\ Idle.at = 1 /\ Idle.roots = {}
  BY DEF Idle, Target
<1>4. Idle \in Scan
  <2>1. [c \in Convs |-> Unseen] \in [Convs -> Seen \cup {Unseen}]
    OBVIOUS
  <2>2. [ids |-> {}, run |-> NoRun] \in Target /\ 1 \in 1 .. Len(Places) + 1
    BY TheWalk DEF Target
  <2>3. QED
    BY <2>1, <2>2 DEF Idle, Scan, TaskPC
<1>5. NewRun \in Execution /\ NewRun.pc = "new"
  BY <1>2 DEF NewRun, Execution, RunPC
<1>6. QED
  BY <1>1, <1>2, <1>3, <1>4, <1>5

-----------------------------------------------------------------------------
(* What the parts of the invariant depend on.                              *)

LEMMA DiskFrame ==
  DiskTyped /\ UNCHANGED <<disk, mounted>> => DiskTyped'
BY DEF DiskTyped

LEMMA TablesFrame ==
  TablesTyped /\ RowsTrue /\ SessionsTrue /\ UNCHANGED <<agent, latest>>
    => TablesTyped' /\ RowsTrue' /\ SessionsTrue'
BY DEF TablesTyped, RowsTrue, SessionsTrue, Stored, agent

LEMMA TasksFrame ==
  TasksTyped /\ Reading /\ Walking /\ UNCHANGED <<disk, mounted, task>> /\ steady' \subseteq steady
    => TasksTyped' /\ Reading' /\ Walking'
BY DEF TasksTyped, Reading, Walking, Reads, SawAll, SeenBy, SessionFromFile, NativeOf

LEMMA RunsFrame ==
  RunsTyped /\ Running /\ UNCHANGED run => RunsTyped' /\ Running'
BY DEF RunsTyped, Running

LEMMA LookingFrame ==
  ASSUME Reading, LookingUp, \A r \in Runs : run[r].pc # "new" => run'[r].pc # "new",
         \A k \in Tasks : task'[k].kind = "lookup" =>
           run'[task'[k].run].pc # "new" \/ (task[k].kind = "lookup" /\ task'[k].run = task[k].run)
  PROVE  LookingUp'
BY DEF LookingUp, Reading, Reads

LEMMA WiresFrame ==
  WiresTyped /\ UNCHANGED <<events, net>> => WiresTyped'
BY DEF WiresTyped

LEMMA ServerFrame ==
  ServerTyped /\ UNCHANGED server => ServerTyped'
BY DEF ServerTyped, server

LEMMA SettledFrame ==
  Settled /\ UNCHANGED <<disk, mounted, agent, settled>> => Settled'
BY DEF Settled, Repaired, OnDisk, agent

(* A step that counts nothing, or one thing within its bound.              *)
LEMMA CountsFrame ==
  ASSUME CountsTyped, settled' \in BOOLEAN, published' \in BOOLEAN, UNCHANGED scenario,
         started' = started \/ (started < scenario.tasks /\ started' = started + 1),
         changes' = changes \/ (changes < scenario.changes /\ changes' = changes + 1),
         drops' = drops \/ (drops < scenario.drops /\ drops' = drops + 1)
  PROVE  CountsTyped'
<1>1. scenario.tasks \in Nat /\ scenario.changes \in Nat /\ scenario.drops \in Nat
  BY IndexAssumption DEF CountsTyped
<1>2. /\ started \in Nat /\ changes \in Nat /\ drops \in Nat /\ scenario \in Scenarios
      /\ started <= scenario.tasks /\ changes <= scenario.changes /\ drops <= scenario.drops
  BY DEF CountsTyped
<1>3. started' \in Nat /\ started' <= scenario.tasks
  BY <1>1, <1>2
<1>4. changes' \in Nat /\ changes' <= scenario.changes
  BY <1>1, <1>2
<1>5. drops' \in Nat /\ drops' <= scenario.drops
  BY <1>1, <1>2
<1>6. QED
  BY <1>2, <1>3, <1>4, <1>5 DEF CountsTyped

(* One run goes on.                                                        *)
LEMMA RunStep ==
  ASSUME RunsTyped, Running, NEW r \in Runs, NEW x \in Execution, RunsTrue(x, r),
         run' = [run EXCEPT ![r] = x]
  PROVE  /\ RunsTyped' /\ Running'
         /\ x.pc # "new" => \A q \in Runs : run[q].pc # "new" => run'[q].pc # "new"
<1>1. RunsTyped'
  BY DEF RunsTyped
<1>2. ASSUME NEW q \in Runs PROVE RunsTrue(run'[q], q)
  <2>1. run'[q] = IF q = r THEN x ELSE run[q]
    BY DEF RunsTyped
  <2>2. RunsTrue(run[q], q)
    BY DEF Running
  <2>3. QED
    BY <2>1, <2>2
<1>3. QED
  BY <1>1, <1>2 DEF Running

(* One scan goes on while the disk holds still.                            *)
LEMMA TaskStep ==
  ASSUME TasksTyped, Reading, Walking, UNCHANGED <<disk, mounted>>,
         NEW k \in Tasks, NEW x \in Scan, Reads(x), task' = [task EXCEPT ![k] = x],
         steady' \subseteq steady \cup {k}, k \in steady' /\ x.pc = "walk" => SawAll(x)
  PROVE  TasksTyped' /\ Reading' /\ Walking'
<1>1. task' \in [Tasks -> Scan] /\ \A j \in Tasks : task'[j] = IF j = k THEN x ELSE task[j]
  BY DEF TasksTyped
<1>2. TasksTyped'
  BY <1>1 DEF TasksTyped
<1>3. Reading'
  BY <1>1 DEF Reading, Reads
<1>4. ASSUME NEW j \in steady', task'[j].pc = "walk" PROVE SawAll(task'[j])
  <2>1. j \in Tasks /\ (j # k => j \in steady)
    BY DEF TasksTyped
  <2>2. CASE j = k
    BY <1>1, <1>4, <2>1, <2>2
  <2>3. CASE j # k
    BY <1>1, <1>4, <2>1, <2>3 DEF Walking
  <2>4. QED
    BY <2>2, <2>3
<1>5. ASSUME NEW j \in steady', task'[j].pc = "walk" PROVE SawAll(task[j])'
  <2>1. SawAll(task'[j])
    BY <1>4, <1>5
  <2>2. QED
    BY <2>1 DEF SawAll, SeenBy, SessionFromFile, NativeOf
<1>6. QED
  BY <1>2, <1>3, <1>5 DEF Walking

-----------------------------------------------------------------------------
(* The invariant holds at first.                                           *)

LEMMA InitInv == Init => IndexInv
<1> SUFFICES ASSUME Init PROVE IndexInv
  OBVIOUS
<1>1. DiskTyped
  BY DEF Init, DiskTyped
<1>2. TablesTyped
  BY Nothing DEF Init, TablesTyped
<1>3. task = [k \in Tasks |-> Idle] /\ steady = {} /\ run = [r \in Runs |-> NewRun]
  BY DEF Init
<1>4. TasksTyped /\ RunsTyped
  BY <1>3, Nothing DEF TasksTyped, RunsTyped
<1>5. WiresTyped
  <2>1. events = <<>> /\ net = <<>>
    BY DEF Init
  <2>2. QED
    BY <2>1, EmptySeq DEF WiresTyped
<1>6. ServerTyped
  BY Nothing DEF Init, ServerTyped
<1>7. CountsTyped
  <2>1. /\ scenario \in Scenarios /\ started = 0 /\ changes = 0 /\ drops = 0
        /\ settled = FALSE /\ published = FALSE
    BY DEF Init
  <2>2. scenario.tasks \in Nat /\ scenario.changes \in Nat /\ scenario.drops \in Nat
    BY <2>1, IndexAssumption
  <2>3. /\ started \in Nat /\ changes \in Nat /\ drops \in Nat
        /\ started <= scenario.tasks /\ changes <= scenario.changes /\ drops <= scenario.drops
    BY <2>1, <2>2
  <2>4. settled \in BOOLEAN /\ published \in BOOLEAN
    BY <2>1
  <2>5. QED
    BY <2>1, <2>3, <2>4 DEF CountsTyped
<1>8. Reading
  <2>1. \A k \in Tasks : task[k] = Idle
    BY <1>3
  <2>2. Reads(Idle)
    BY Nothing DEF Reads, SeenOf
  <2>3. QED
    BY <2>1, <2>2 DEF Reading
<1>9. RowsTrue
  BY Identity DEF Init, RowsTrue, Stored
<1>10. Running
  <2>1. \A r \in Runs : run[r].pc = "new"
    BY <1>3, Nothing
  <2>2. QED
    BY <2>1 DEF Running, RunsTrue
<1>11. LookingUp /\ Walking /\ SessionsTrue /\ Settled
  BY <1>3, Nothing DEF Init, LookingUp, Walking, SessionsTrue, Settled
<1>12. QED
  BY <1>1, <1>2, <1>4, <1>5, <1>6, <1>7, <1>8, <1>9, <1>10, <1>11
     DEF IndexInv, Typed, Indexing
-----------------------------------------------------------------------------
(* A change of the disk: nothing that was read or saved counts any more.   *)

LEMMA Disturbed ==
  ASSUME IndexInv, Disturb, DiskTyped', RunsTyped', Running',
         \A r \in Runs : run[r].pc # "new" => run'[r].pc # "new"
  PROVE  IndexInv'
<1>1. /\ Typed /\ Reading /\ RowsTrue /\ LookingUp /\ SessionsTrue
      /\ UNCHANGED <<agent, task, events, net, server, latest, started, drops, scenario>>
      /\ changes < scenario.changes /\ changes' = changes + 1
      /\ steady' = {} /\ settled' = FALSE /\ published' = FALSE
  BY DEF IndexInv, Indexing, Disturb
<1>2. TablesTyped' /\ RowsTrue' /\ SessionsTrue'
  BY <1>1, TablesFrame DEF Typed
<1>3. TasksTyped' /\ Reading'
  BY <1>1 DEF Typed, TasksTyped, Reading, Reads
<1>4. WiresTyped' /\ ServerTyped'
  BY <1>1, WiresFrame, ServerFrame DEF Typed
<1>5. CountsTyped'
  BY <1>1, CountsFrame DEF Typed
<1>6. Walking' /\ Settled'
  BY <1>1 DEF Walking, Settled
<1>7. LookingUp'
  BY <1>1, LookingFrame
<1>8. QED
  BY <1>2, <1>3, <1>4, <1>5, <1>6, <1>7 DEF IndexInv, Typed, Indexing

LEMMA WrittenSession ==
  ASSUME DiskTyped, NEW c \in Convs, WriteSession(c), UNCHANGED mounted
  PROVE  DiskTyped'
<1>1. PICK p \in Live : disk' = [disk EXCEPT ![c] = [place |-> p, configured |-> (Thread[c] = c)]]
  BY DEF WriteSession
<1>2. p \in DOMAIN RootOf /\ (Thread[c] = c) \in BOOLEAN
  BY TheWalk
<1>3. QED
  BY <1>1, <1>2 DEF DiskTyped

LEMMA DiskStep ==
  ASSUME IndexInv, NEW c \in Convs, Create(c) \/ Configure(c) \/ Move(c) \/ Remove(c)
  PROVE  IndexInv'
<1>1. DiskTyped /\ RunsTyped /\ Running /\ UNCHANGED <<mounted, run>> /\ Disturb
  BY DEF IndexInv, Typed, Indexing, Create, Configure, Move, Remove
<1>2. DiskTyped'
  <2>1. CASE Create(c)
    BY <1>1, <2>1, WrittenSession DEF Create
  <2>2. CASE Configure(c)
    BY <1>1, <2>2 DEF Configure, DiskTyped
  <2>3. CASE Move(c)
    <3>1. PICK p \in DOMAIN RootOf : disk' = [disk EXCEPT ![c].place = p]
      BY <2>3 DEF Move
    <3>2. QED
      BY <1>1, <3>1 DEF DiskTyped
  <2>4. CASE Remove(c)
    BY <1>1, <2>4 DEF Remove, DiskTyped
  <2>5. QED
    BY <2>1, <2>2, <2>3, <2>4
<1>3. RunsTyped' /\ Running'
  BY <1>1, RunsFrame
<1>4. QED
  BY <1>1, <1>2, <1>3, Disturbed

LEMMA MountStep ==
  ASSUME IndexInv, NEW root \in Roots, Mount(root)
  PROVE  IndexInv'
<1>1. DiskTyped /\ RunsTyped /\ Running /\ UNCHANGED <<disk, run>> /\ Disturb
      /\ mounted' = (mounted \ {root}) \cup ({root} \ mounted)
  BY DEF IndexInv, Typed, Indexing, Mount
<1>2. DiskTyped'
  BY <1>1 DEF DiskTyped
<1>3. RunsTyped' /\ Running'
  BY <1>1, RunsFrame
<1>4. QED
  BY <1>1, <1>2, <1>3, Disturbed

LEMMA StartNewStep ==
  ASSUME IndexInv, NEW r \in Runs, StartNew(r)
  PROVE  IndexInv'
<1>1. DiskTyped /\ RunsTyped /\ Running /\ UNCHANGED mounted /\ Disturb
  BY DEF IndexInv, Typed, Indexing, StartNew
<1>2. PICK c \in Convs : WriteSession(c) /\ Started(r, c, Thread[c], Thread[c], FALSE)
  BY IndexAssumption DEF IndexInv, Typed, CountsTyped, StartNew
<1>3. DiskTyped'
  BY <1>1, <1>2, WrittenSession
<1> DEFINE x == [run[r] EXCEPT !.pc = "select", !.conv = c, !.id = Thread[c], !.key = Thread[c],
                               !.resume = FALSE, !.row = [native |-> Thread[c], run |-> r]]
<1>4. run' = [run EXCEPT ![r] = x] /\ run[r] \in Execution
  BY <1>1, <1>2 DEF Started, RunsTyped
<1>5. x \in Execution /\ RunsTrue(x, r) /\ x.pc = "select"
  <2>1. Thread[c] \in Refs /\ [native |-> Thread[c], run |-> r] \in Row
    BY Identity DEF Refs, Row
  <2>2. QED
    BY <1>4, <2>1 DEF Execution, RunPC, RunsTrue, IdsOf
<1> HIDE DEF x
<1>6. RunsTyped' /\ Running' /\ \A q \in Runs : run[q].pc # "new" => run'[q].pc # "new"
  BY <1>1, <1>4, <1>5, RunStep
<1>7. QED
  BY <1>1, <1>3, <1>6, Disturbed

-----------------------------------------------------------------------------
(* A scan begins, alone or for a run.                                      *)

LEMMA FreshScan ==
  ASSUME DiskTyped, NEW kind \in {"refresh", "history", "lookup"},
         NEW r \in Runs \cup {NoRun}, NEW target \in Target, kind # "refresh" => r \in Runs
  PROVE  LET x == [Idle EXCEPT !.kind = kind, !.pc = "walk", !.run = r, !.target = target]
         IN  x \in Scan /\ Reads(x) /\ SawAll(x)
<1> DEFINE x == [Idle EXCEPT !.kind = kind, !.pc = "walk", !.run = r, !.target = target]
<1>1. x \in Scan /\ x.found = [c \in Convs |-> Unseen] /\ x.at = 1 /\ x.roots = {}
      /\ x.kind = kind /\ x.run = r
  BY Nothing DEF Scan, TaskPC
<1> HIDE DEF x
<1>2. \A c \in Convs : x.found[c] = Unseen /\ Unseen.native = NoId
  BY <1>1, Nothing
<1>3. Reads(x)
  BY <1>1, <1>2 DEF Reads, SeenOf
<1>4. Behind(x) = {}
  BY <1>1 DEF Behind
<1>5. SawAll(x)
  BY <1>1, <1>2, <1>4 DEF SawAll, SeenBy
<1>6. QED
  BY <1>1, <1>3, <1>5 DEF x

LEMMA BeginStep ==
  ASSUME IndexInv, NEW k \in Tasks, NEW kind \in {"refresh", "history", "lookup"},
         NEW r \in Runs \cup {NoRun}, NEW target \in Target, kind # "refresh" => r \in Runs,
         Begin(k, kind, r, target), RunsTyped', Running',
         \A q \in Runs : run[q].pc # "new" => run'[q].pc # "new",
         kind = "lookup" => run'[r].pc # "new",
         UNCHANGED <<disk, mounted, agent, events, net, server, settled, published, latest,
                     changes, drops, scenario>>
  PROVE  IndexInv'
<1>1. /\ DiskTyped /\ TablesTyped /\ TasksTyped /\ WiresTyped /\ ServerTyped /\ CountsTyped
      /\ Reading /\ RowsTrue /\ LookingUp /\ Walking /\ SessionsTrue /\ Settled
  BY DEF IndexInv, Typed, Indexing
<1> DEFINE x == [Idle EXCEPT !.kind = kind, !.pc = "walk", !.run = r, !.target = target]
<1>2. /\ started < scenario.tasks /\ started' = started + 1
      /\ task' = [task EXCEPT ![k] = x] /\ steady' = steady \cup {k}
  BY DEF Begin
<1>3. x \in Scan /\ Reads(x) /\ SawAll(x)
  BY <1>1, FreshScan
<1>4. x.kind = kind /\ x.run = r
  BY Nothing DEF Scan
<1> HIDE DEF x
<1>5. \A j \in Tasks : task'[j] = IF j = k THEN x ELSE task[j]
  BY <1>1, <1>2 DEF TasksTyped
<1>6. LookingUp'
  BY <1>1, <1>4, <1>5, LookingFrame
<1>7. TasksTyped' /\ Reading' /\ Walking'
  BY <1>1, <1>2, <1>3, TaskStep
<1>8. settled' \in BOOLEAN /\ published' \in BOOLEAN
  BY <1>1 DEF CountsTyped
<1>9. CountsTyped'
  BY <1>1, <1>2, <1>8, CountsFrame
<1>10. QED
  BY <1>1, <1>7, <1>9, <1>6, DiskFrame, TablesFrame, WiresFrame, ServerFrame, SettledFrame
     DEF IndexInv, Typed, Indexing

LEMMA StartRefreshStep ==
  ASSUME IndexInv, NEW k \in Tasks, StartRefresh(k)
  PROVE  IndexInv'
<1>1. RunsTyped' /\ Running' /\ UNCHANGED run
  BY RunsFrame DEF IndexInv, Typed, Indexing, StartRefresh
<1>2. QED
  BY <1>1, BeginStep, Nothing DEF StartRefresh

LEMMA RefreshedStep ==
  ASSUME IndexInv, NEW r \in Runs, Refreshed(r)
  PROVE  IndexInv'
<1>1. RunsTyped /\ Running /\ run[r] \in Execution /\ RunsTrue(run[r], r)
  BY DEF IndexInv, Typed, Indexing, RunsTyped, Running
<1> DEFINE x == [run[r] EXCEPT !.pc = "refresh"]
<1>2. run' = [run EXCEPT ![r] = x] /\ run[r].pc = "lookup"
  BY DEF Refreshed
<1>3. x \in Execution /\ RunsTrue(x, r) /\ x.pc # "new"
  BY <1>1, <1>2 DEF Execution, RunPC, RunsTrue
<1> HIDE DEF x
<1>4. /\ RunsTyped' /\ Running' /\ run'[r].pc # "new"
      /\ \A q \in Runs : run[q].pc # "new" => run'[q].pc # "new"
  BY <1>1, <1>2, <1>3, RunStep DEF RunsTyped
<1>5. PICK k \in Tasks : Begin(k, "lookup", r, Idle.target)
  BY DEF Refreshed
<1>6. QED
  BY <1>4, <1>5, BeginStep, Nothing DEF Refreshed

LEMMA TargetsTyped ==
  ASSUME IndexInv, NEW r \in Runs
  PROVE  Targets(r) \subseteq Target
<1>1. run[r].id \in Refs /\ \A id \in Ids : rows[id].native \in Refs /\ rows[id].run \in Runs \cup {NoRun}
  BY DEF IndexInv, Typed, RunsTyped, Execution, TablesTyped, Row
<1>2. ByRun(r) \subseteq Ids /\ ByIdOrNative(run[r].id) \subseteq Ids /\ Ids \subseteq Refs
  BY DEF ByRun, ByIdOrNative, Refs
<1>3. QED
  BY <1>1, <1>2 DEF Targets, Target

LEMMA AfterRunStep ==
  ASSUME IndexInv, NEW r \in Runs, AfterRun(r)
  PROVE  IndexInv'
<1>1. RunsTyped /\ Running /\ run[r] \in Execution /\ RunsTrue(run[r], r)
  BY DEF IndexInv, Typed, Indexing, RunsTyped, Running
<1> DEFINE x == [run[r] EXCEPT !.pc = "synced"]
<1>2. run' = [run EXCEPT ![r] = x] /\ run[r].pc = "ended"
  BY DEF AfterRun
<1>3. x \in Execution /\ RunsTrue(x, r) /\ x.pc # "new"
  BY <1>1, <1>2 DEF Execution, RunPC, RunsTrue
<1> HIDE DEF x
<1>4. /\ RunsTyped' /\ Running' /\ run'[r].pc # "new"
      /\ \A q \in Runs : run[q].pc # "new" => run'[q].pc # "new"
  BY <1>1, <1>2, <1>3, RunStep DEF RunsTyped
<1>5. PICK k \in Tasks, t \in Targets(r) : Begin(k, "history", r, t)
  BY DEF AfterRun
<1>6. t \in Target
  BY TargetsTyped
<1>7. QED
  BY <1>4, <1>5, <1>6, BeginStep DEF AfterRun

-----------------------------------------------------------------------------
(* A scan reads one directory.                                             *)

LEMMA FileSession ==
  ASSUME NEW c \in Convs, NEW p \in DOMAIN RootOf
  PROVE  /\ SessionFromFile(c, RootOf[p]) \in Seen
         /\ SessionFromFile(c, RootOf[p]).native \in IdsOf(c)
         /\ SessionFromFile(c, RootOf[p]).root \in WalkedRoots
<1>1. NativeOf(c) \in IdsOf(c) /\ IdsOf(c) \subseteq Ids
  BY Identity DEF NativeOf, IdsOf
<1>2. RootOf[p] \in Roots /\ RootOf[p] \in WalkedRoots
  BY TheWalk DEF WalkedRoots
<1>3. QED
  BY <1>1, <1>2 DEF SessionFromFile, Seen

LEMMA WalkStep ==
  ASSUME IndexInv, NEW k \in Tasks, Walk(k)
  PROVE  IndexInv'
<1> DEFINE old == task[k]
           place == Places[old.at]
           root == RootOf[place]
           first == \A i \in 1 .. old.at - 1 : RootOf[Places[i]] # root
           readable == root \in mounted /\ (first \/ root \in old.roots)
           x == [old EXCEPT !.at = @ + 1,
                            !.roots = IF first /\ root \in mounted THEN @ \cup {root} ELSE @,
                            !.found = [c \in Convs |-> IF readable /\ disk[c].place = place
                                                       THEN SessionFromFile(c, root) ELSE @[c]]]
<1>1. /\ Typed /\ TasksTyped /\ Reading /\ RowsTrue /\ Running /\ LookingUp /\ Walking /\ SessionsTrue /\ Settled
      /\ UNCHANGED <<disk, mounted, agent, run, events, net, server, history, counts>>
  BY DEF IndexInv, Typed, Indexing, Walk
<1>2. old \in Scan /\ Reads(old) /\ old.pc = "walk" /\ old.at \in 1 .. Len(Places)
  <2>1. old \in Scan /\ Reads(old)
    BY <1>1 DEF TasksTyped, Reading
  <2>2. old.pc = "walk" /\ old.at <= Len(Places)
    BY DEF Walk
  <2>3. old.at \in 1 .. Len(Places) + 1
    BY <2>1 DEF Scan
  <2>4. old.at \in 1 .. Len(Places)
    BY <2>2, <2>3, TheWalk
  <2>5. QED
    BY <2>1, <2>2, <2>4
<1>3. place \in DOMAIN RootOf /\ root \in Roots
  BY <1>2, TheWalk
<1>4. \A c \in Convs : old.found[c] \in Seen \cup {Unseen}
  BY <1>2 DEF Scan
<1>5. task' = [task EXCEPT ![k] = x]
  BY DEF Walk
<1> DEFINE found == [c \in Convs |-> IF readable /\ disk[c].place = place
                                     THEN SessionFromFile(c, root) ELSE old.found[c]]
           roots == IF first /\ root \in mounted THEN old.roots \cup {root} ELSE old.roots
<1>6. x = [old EXCEPT !.at = old.at + 1, !.roots = roots, !.found = found]
  OBVIOUS
<1>7. found \in [Convs -> Seen \cup {Unseen}] /\ roots \in SUBSET Roots
  BY <1>2, <1>3, <1>4, FileSession DEF Scan
<1>8. old.at + 1 \in 1 .. Len(Places) + 1
  BY <1>2, TheWalk
<1> HIDE DEF found, roots, x
<1>9. /\ x \in Scan /\ x.at = old.at + 1 /\ x.roots = roots /\ x.found = found
      /\ x.kind = old.kind /\ x.run = old.run /\ x.pc = "walk"
  BY <1>2, <1>6, <1>7, <1>8 DEF Scan
<1>10. \A c \in Convs : found[c] = IF readable /\ disk[c].place = place
                                   THEN SessionFromFile(c, root) ELSE old.found[c]
  BY DEF found
<1>11. Reads(x)
  <2>1. \A c \in Convs : SeenOf(c, found[c])
    BY <1>2, <1>3, <1>10, FileSession DEF Reads, SeenOf
  <2>2. QED
    BY <1>2, <1>9, <2>1 DEF Reads
<1>12. ASSUME k \in steady PROVE SawAll(x)
  <2>1. SawAll(old)
    BY <1>1, <1>2, <1>12 DEF Walking
  <2>2. Behind(x) = Behind(old) \cup {place}
    <3>1. old.at \in Nat /\ 1 .. x.at - 1 = (1 .. old.at - 1) \cup {old.at}
      BY <1>2, <1>9, TheWalk
    <3>2. QED
      BY <3>1 DEF Behind
  <2>3. first <=> root \notin {RootOf[p] : p \in Behind(old)}
    BY DEF Behind
  <2>4. readable <=> root \in mounted
    BY <2>1, <2>3 DEF SawAll
  <2>5. ASSUME NEW c \in Convs PROVE x.found[c] = SeenBy(x, c)
    <3>1. x.found[c] = IF root \in mounted /\ disk[c].place = place
                       THEN SessionFromFile(c, root) ELSE SeenBy(old, c)
      BY <1>9, <1>10, <2>1, <2>4 DEF SawAll
    <3>2. QED
      BY <2>2, <3>1 DEF SeenBy
  <2>6. x.roots = {RootOf[p] : p \in Behind(x)} \cap mounted
    BY <1>9, <2>1, <2>2, <2>3 DEF SawAll, roots
  <2>7. QED
    BY <2>5, <2>6 DEF SawAll
<1>13. steady' = steady
  BY <1>1 DEF history
<1>14. TasksTyped' /\ Reading' /\ Walking'
  BY <1>1, <1>5, <1>9, <1>11, <1>12, <1>13, TaskStep
<1>15. /\ UNCHANGED <<settled, published, latest, scenario, started, changes, drops>>
       /\ settled' \in BOOLEAN /\ published' \in BOOLEAN
  BY <1>1 DEF history, counts, Typed, CountsTyped
<1>16. LookingUp'
  <2>1. \A j \in Tasks : task'[j].kind = task[j].kind /\ task'[j].run = task[j].run
    BY <1>1, <1>5, <1>9 DEF TasksTyped
  <2>2. QED
    BY <1>1, <2>1, LookingFrame
<1>17. QED
  BY <1>1, <1>14, <1>15, <1>16, DiskFrame, TablesFrame, RunsFrame, WiresFrame, ServerFrame,
     SettledFrame, CountsFrame
     DEF IndexInv, Typed, Indexing

-----------------------------------------------------------------------------
(* A scan is saved: what it writes of a conversation.                      *)

LEMMA PickedRow ==
  ASSUME TablesTyped, RowsTrue, NEW c \in Convs, NEW n \in IdsOf(c), NEW e \in Picks(rows, n)
  PROVE  /\ e = NoId \/ (e \in IdsOf(c) /\ e \in Ids /\ Stored(e) /\ rows[e].native = n)
         /\ e = NoId => \A id \in Ids : Stored(id) => rows[id].native # n
         /\ n = c /\ e # NoId => e = c
<1>1. \A id \in Ids : Stored(id) /\ rows[id].native = n => id \in IdsOf(c)
  <2>1. SUFFICES ASSUME NEW id \in Ids, Stored(id), rows[id].native = n PROVE id \in IdsOf(c)
    OBVIOUS
  <2>2. PICK d \in Convs : id \in IdsOf(d)
    BY Identity
  <2>3. rows[id].native \in IdsOf(d)
    BY <2>1, <2>2 DEF RowsTrue, IdsOf
  <2>4. d = c
    BY <2>1, <2>3, Identity
  <2>5. QED
    BY <2>2, <2>4
<1>2. CASE ByNative(rows, n) = {}
  <2>1. e = NoId
    BY <1>2 DEF Picks
  <2>2. QED
    BY <1>2, <2>1 DEF ByNative, Stored
<1>3. CASE ByNative(rows, n) # {}
  <2>1. e \in ByNative(rows, n)
    BY <1>3 DEF Picks
  <2>2. e \in Ids /\ Stored(e) /\ rows[e].native = n /\ e # NoId
    BY <2>1, Identity DEF ByNative, Stored
  <2>3. e \in IdsOf(c)
    BY <1>1, <2>2
  <2>4. n = c => e = c
    BY <2>2, <2>3 DEF IdsOf, RowsTrue
  <2>5. QED
    BY <2>2, <2>3, <2>4
<1>4. QED
  BY <1>2, <1>3

(* It is written under the file's id.                                      *)
LEMMA ScannedRow ==
  ASSUME TablesTyped, RowsTrue, NEW c \in Convs, NEW n \in IdsOf(c), NEW e \in Picks(rows, n)
  PROVE  LET t == SaveScanned(rows, c, n, e)
         IN  /\ t \in [Ids -> Row] /\ t[c] # None /\ t[c].native = n
             /\ t[c].run = IF MergedRun(NoRun, rows, e) = NoRun /\ rows[c] # None
                           THEN rows[c].run ELSE MergedRun(NoRun, rows, e)
             /\ c # Thread[c] => t[Thread[c]] = IF e = Thread[c] THEN None ELSE rows[Thread[c]]
<1> DEFINE t == SaveScanned(rows, c, n, e)
<1>1. /\ c \in Ids /\ Thread[c] \in Ids /\ n \in Refs /\ n # NoId
      /\ rows \in [Ids -> Row] /\ NoRun \in Runs \cup {NoRun}
  BY Identity DEF TablesTyped, IdsOf, Refs
<1>2. MergedKey(c, n, e) = c
  BY PickedRow DEF MergedKey
<1>3. MergedRun(NoRun, rows, e) \in Runs \cup {NoRun}
  BY <1>1, PickedRow DEF MergedRun, Row
<1> DEFINE other == Replaced(rows, c, e)
<1>4. /\ other \in [Ids -> Row] /\ other[c] = rows[c]
      /\ c # Thread[c] => other[Thread[c]] = IF e = Thread[c] THEN None ELSE rows[Thread[c]]
  <2>1. CASE e \in {NoId, c}
    BY <1>1, <2>1, Identity DEF Replaced
  <2>2. CASE e \notin {NoId, c}
    <3>1. e = Thread[c] /\ other = [rows EXCEPT ![e] = None]
      BY <2>2, PickedRow DEF Replaced, IdsOf
    <3>2. QED
      BY <1>1, <2>2, <3>1, Nothing
  <2>3. QED
    BY <2>1, <2>2
<1> DEFINE m == MergedRun(NoRun, rows, e)
           new == [native |-> n, run |-> IF m = NoRun /\ rows[c] # None THEN rows[c].run ELSE m]
<1>5. t = [other EXCEPT ![c] = new]
  BY <1>2, <1>4 DEF SaveScanned, Upsert
<1>6. rows[c].run \in Runs \cup {NoRun}
  BY <1>1 DEF Row
<1>7. new \in Row
  BY <1>1, <1>3, <1>6 DEF Row
<1> HIDE DEF other
<1>8. /\ t \in [Ids -> Row] /\ t[c] = new
      /\ c # Thread[c] => t[Thread[c]] = other[Thread[c]]
  BY <1>1, <1>4, <1>5, <1>7
<1>9. new # None
  BY <1>1 DEF None
<1>10. QED
  BY <1>4, <1>8, <1>9

LEMMA FoundSessions ==
  ASSUME IndexInv, NEW k \in Tasks, NEW c \in Found(k)
  PROVE  /\ c \in Convs /\ task[k].found[c].native \in IdsOf(c)
         /\ task[k].found[c].root \in WalkedRoots /\ task[k].found[c].root \in Roots
<1>1. c \in Convs /\ task[k].found[c].native # NoId
  BY DEF Found
<1>2. SeenOf(c, task[k].found[c])
  BY <1>1 DEF IndexInv, Indexing, Reading, Reads
<1>3. QED
  BY <1>1, <1>2, TheWalk DEF SeenOf

(* What a scan writes, conversation by conversation.                       *)
SavesRow(k, c) ==
  \E e \in Picks(rows, task[k].found[c].native) :
    LET t == SaveScanned(rows, c, task[k].found[c].native, e)
    IN  rows'[c] = t[c] /\ rows'[Thread[c]] = t[Thread[c]]

LEMMA SavedRows ==
  ASSUME IndexInv, NEW k \in Tasks, SaveResult(k)
  PROVE  /\ rows' \in [Ids -> Row]
         /\ \A c \in Found(k) : SavesRow(k, c)
         /\ \A c \in Convs \ Found(k) : rows'[c] = rows[c] /\ rows'[Thread[c]] = rows[Thread[c]]
<1>1. TablesTyped /\ RowsTrue
  BY DEF IndexInv, Typed, Indexing
<1>2. PICK pick \in [Found(k) -> Refs] :
        /\ \A c \in Found(k) : pick[c] \in Picks(rows, task[k].found[c].native)
        /\ rows' = [id \in Ids |->
             IF ConvOf(id) \in Found(k)
             THEN SaveScanned(rows, ConvOf(id), task[k].found[ConvOf(id)].native, pick[ConvOf(id)])[id]
             ELSE rows[id]]
  BY DEF SaveResult
<1> DEFINE t(c) == SaveScanned(rows, c, task[k].found[c].native, pick[c])
<1>3. \A c \in Found(k) : pick[c] \in Picks(rows, task[k].found[c].native)
                          /\ t(c) \in [Ids -> Row]
  BY <1>1, <1>2, FoundSessions, ScannedRow
<1>4. \A id \in Ids : rows'[id] = IF ConvOf(id) \in Found(k) THEN t(ConvOf(id))[id] ELSE rows[id]
  BY <1>2
<1>5. rows' = [id \in Ids |-> rows'[id]]
  BY <1>2
<1> HIDE DEF t
<1>6. rows' \in [Ids -> Row]
  <2>1. \A id \in Ids : rows'[id] \in Row
    BY <1>1, <1>3, <1>4 DEF TablesTyped
  <2>2. QED
    BY <1>5, <2>1
<1>7. ASSUME NEW c \in Found(k) PROVE SavesRow(k, c)
  <2>1. c \in Convs /\ c \in Ids /\ Thread[c] \in Ids /\ ConvOf(c) = c /\ ConvOf(Thread[c]) = c
    BY <1>7, Identity, FoundSessions
  <2>2. rows'[c] = t(c)[c] /\ rows'[Thread[c]] = t(c)[Thread[c]]
    BY <1>4, <1>7, <2>1
  <2>3. QED
    BY <1>3, <1>7, <2>2 DEF SavesRow, t
<1>8. ASSUME NEW c \in Convs \ Found(k)
      PROVE  rows'[c] = rows[c] /\ rows'[Thread[c]] = rows[Thread[c]]
  BY <1>4, <1>8, Identity
<1>9. QED
  BY <1>6, <1>7, <1>8

LEMMA RowsStayTrue ==
  ASSUME IndexInv, NEW k \in Tasks, SaveResult(k)
  PROVE  /\ RowsTrue'
         /\ \A c \in Found(k) : rows'[c].native = task[k].found[c].native
<1>1. TablesTyped /\ RowsTrue
  BY DEF IndexInv, Typed, Indexing
<1>2. ASSUME NEW c \in Found(k)
      PROVE  /\ rows'[c].native = task[k].found[c].native /\ rows'[c].native \in IdsOf(c)
             /\ rows'[Thread[c]] # None => rows'[Thread[c]].native = Thread[c]
  <2>1. /\ c \in Convs /\ task[k].found[c].native \in IdsOf(c)
    BY FoundSessions
  <2>2. PICK e \in Picks(rows, task[k].found[c].native) :
          LET t == SaveScanned(rows, c, task[k].found[c].native, e)
          IN  rows'[c] = t[c] /\ rows'[Thread[c]] = t[Thread[c]]
    BY SavedRows DEF SavesRow
  <2>3. /\ rows'[c].native = task[k].found[c].native
        /\ c # Thread[c] => rows'[Thread[c]] \in {None, rows[Thread[c]]}
    BY <1>1, <2>1, <2>2, ScannedRow
  <2>4. c # Thread[c] => (rows[Thread[c]] # None => rows[Thread[c]].native = Thread[c])
    BY <1>1, <2>1 DEF RowsTrue, Stored
  <2>5. QED
    BY <2>1, <2>3, <2>4 DEF IdsOf
<1>3. ASSUME NEW c \in Convs \ Found(k)
      PROVE  /\ rows'[c] # None => rows'[c].native \in IdsOf(c)
             /\ rows'[Thread[c]] # None => rows'[Thread[c]].native = Thread[c]
  BY <1>1, SavedRows DEF RowsTrue, Stored
<1>4. QED
  BY <1>2, <1>3 DEF RowsTrue, Stored

(* A steady scan has found what is on the disk.                            *)
LEMMA FoundOnDisk ==
  ASSUME IndexInv, NEW k \in Tasks, SaveResult(k), k \in steady
  PROVE  /\ \A c \in Convs : c \in Found(k) <=> OnDisk(c)
         /\ \A c \in Found(k) : task[k].found[c].native = NativeOf(c)
         /\ task[k].roots = WalkedRoots \cap mounted
<1>1. DiskTyped /\ task[k] \in Scan /\ task[k].pc = "walk" /\ task[k].at > Len(Places)
  BY DEF IndexInv, Typed, TasksTyped, SaveResult
<1>2. SawAll(task[k])
  BY <1>1 DEF IndexInv, Indexing, Walking
<1>3. Behind(task[k]) = DOMAIN RootOf
  <2>1. task[k].at - 1 = Len(Places)
    BY <1>1, TheWalk DEF Scan
  <2>2. QED
    BY <2>1, TheWalk DEF Behind
<1>4. ASSUME NEW c \in Convs
      PROVE  /\ c \in Found(k) <=> OnDisk(c)
             /\ c \in Found(k) => task[k].found[c].native = NativeOf(c)
  <2>1. disk[c].place \in DOMAIN RootOf <=> disk[c].place # NoPlace
    BY <1>1, TheWalk DEF DiskTyped
  <2>2. task[k].found[c] = IF OnDisk(c) THEN SessionFromFile(c, RootOf[disk[c].place]) ELSE Unseen
    BY <1>2, <1>3, <2>1 DEF SawAll, SeenBy, OnDisk
  <2>3. NativeOf(c) # NoId /\ Unseen.native = NoId
    BY Identity, Nothing DEF NativeOf
  <2>4. QED
    BY <2>2, <2>3 DEF Found, SessionFromFile
<1>5. task[k].roots = WalkedRoots \cap mounted
  BY <1>2, <1>3 DEF SawAll, WalkedRoots
<1>6. QED
  BY <1>4, <1>5 DEF Found

LEMMA SavedTables ==
  ASSUME IndexInv, NEW k \in Tasks, SaveResult(k), UNCHANGED <<disk, mounted, latest>>
  PROVE  /\ TablesTyped' /\ RowsTrue' /\ SessionsTrue' /\ Settled'
         /\ settled' \in BOOLEAN /\ published' \in BOOLEAN
<1>1. TablesTyped /\ SessionsTrue /\ published \in BOOLEAN
  BY DEF IndexInv, Typed, Indexing, CountsTyped
<1>2. /\ settled' = (k \in steady) /\ published' = (published /\ k \in steady)
      /\ sessions' = [c \in Convs |->
           IF c \in Found(k) THEN [state |-> "live", root |-> task[k].found[c].root]
           ELSE IF c \in MissingIDs(k) THEN [sessions[c] EXCEPT !.state = "deleted"]
           ELSE sessions[c]]
  BY DEF SaveResult
<1>3. /\ \A c \in Found(k) : /\ sessions'[c].state = "live"
                              /\ sessions'[c].root = task[k].found[c].root
      /\ \A c \in Convs \ Found(k) :
           /\ sessions'[c].root = sessions[c].root
           /\ sessions'[c].state = IF c \in MissingIDs(k) THEN "deleted" ELSE sessions[c].state
  BY <1>1, <1>2, FoundSessions DEF TablesTyped
<1>4. sessions' \in [Convs -> [state : {"none", "live", "deleted"}, root : Roots]]
  BY <1>1, <1>2, FoundSessions DEF TablesTyped
<1>5. TablesTyped'
  BY <1>1, <1>4, SavedRows DEF TablesTyped
<1>6. SessionsTrue'
  <2>1. \A c \in MissingIDs(k) : sessions[c].state = "live"
    BY DEF MissingIDs
  <2>2. ASSUME NEW c \in Convs, sessions'[c].state # "none" PROVE sessions'[c].root \in WalkedRoots
    <3>1. CASE c \in Found(k)
      BY <1>3, <3>1, FoundSessions
    <3>2. CASE c \notin Found(k)
      <4>1. sessions[c].state # "none"
        BY <1>3, <2>1, <2>2, <3>2
      <4>2. QED
        BY <1>1, <1>3, <3>2, <4>1 DEF SessionsTrue
    <3>3. QED
      BY <3>1, <3>2
  <2>3. QED
    BY <2>2 DEF SessionsTrue
<1>7. ASSUME k \in steady, NEW c \in Convs PROVE Repaired(c)'
  <2>1. /\ c \in Found(k) <=> OnDisk(c)
        /\ task[k].roots = WalkedRoots \cap mounted
    BY <1>7, FoundOnDisk
  <2>2. CASE OnDisk(c)
    <3>1. sessions'[c].state = "live"
      BY <1>3, <2>1, <2>2
    <3>2. rows'[c].native = NativeOf(c)
      BY <1>7, <2>1, <2>2, FoundOnDisk, RowsStayTrue
    <3>3. QED
      BY <2>2, <3>1, <3>2 DEF Repaired, OnDisk, NativeOf
  <2>3. CASE ~OnDisk(c)
    <3>1. sessions[c].state = "live" /\ sessions[c].root \in mounted => c \in MissingIDs(k)
      BY <1>1, <2>1, <2>3 DEF SessionsTrue, MissingIDs, Scanned
    <3>2. sessions'[c].root \in mounted => sessions'[c].state # "live"
      BY <1>3, <2>1, <2>3, <3>1
    <3>3. QED
      BY <2>3, <3>2 DEF Repaired, OnDisk
  <2>4. QED
    BY <2>2, <2>3
<1>8. Settled'
  BY <1>2, <1>7 DEF Settled
<1>9. settled' \in BOOLEAN /\ published' \in BOOLEAN
  BY <1>1, <1>2
<1>10. QED
  BY <1>5, <1>6, <1>8, <1>9, RowsStayTrue

LEMMA SaveRefreshStep ==
  ASSUME IndexInv, NEW k \in Tasks, SaveRefresh(k)
  PROVE  IndexInv'
<1>1. /\ Typed /\ TasksTyped /\ Reading /\ Running /\ LookingUp /\ Walking
      /\ SaveResult(k) /\ steady' \subseteq steady
      /\ UNCHANGED <<disk, mounted, run, events, net, server, latest, counts>>
  BY DEF IndexInv, Typed, Indexing, SaveRefresh, Unspoiled
<1> DEFINE x == [task[k] EXCEPT !.pc = "sessions", !.deleted = MissingIDs(k)]
<1>2. task' = [task EXCEPT ![k] = x]
  BY DEF SaveRefresh
<1>3. task[k] \in Scan /\ Reads(task[k]) /\ MissingIDs(k) \subseteq Convs
  BY <1>1 DEF TasksTyped, Reading, MissingIDs
<1>4. /\ x \in Scan /\ x.pc = "sessions" /\ x.found = task[k].found
      /\ x.kind = task[k].kind /\ x.run = task[k].run
  BY <1>3 DEF Scan, TaskPC
<1> HIDE DEF x
<1>5. Reads(x)
  BY <1>3, <1>4 DEF Reads
<1>6. TasksTyped' /\ Reading' /\ Walking'
  BY <1>1, <1>2, <1>4, <1>5, TaskStep
<1>7. LookingUp'
  <2>1. \A j \in Tasks : task'[j].kind = task[j].kind /\ task'[j].run = task[j].run
    BY <1>1, <1>2, <1>4 DEF TasksTyped
  <2>2. QED
    BY <1>1, <2>1, LookingFrame
<1>8. /\ TablesTyped' /\ RowsTrue' /\ SessionsTrue' /\ Settled'
      /\ settled' \in BOOLEAN /\ published' \in BOOLEAN
  BY <1>1, SavedTables
<1>9. CountsTyped'
  BY <1>1, <1>8, CountsFrame DEF Typed, counts
<1>10. QED
  BY <1>1, <1>6, <1>7, <1>8, <1>9, DiskFrame, RunsFrame, WiresFrame, ServerFrame
     DEF IndexInv, Typed, Indexing

LEMMA IdleScan ==
  Reads(Idle)
BY Nothing DEF Reads, SeenOf

LEMMA SaveLookupStep ==
  ASSUME IndexInv, NEW k \in Tasks, SaveLookup(k)
  PROVE  IndexInv'
<1>1. /\ Typed /\ TasksTyped /\ RunsTyped /\ Reading /\ Running /\ LookingUp /\ Walking
      /\ SaveResult(k) /\ UNCHANGED <<disk, mounted, events, net, server, latest, counts>>
      /\ task' = [task EXCEPT ![k] = Idle] /\ task[k].kind = "lookup" /\ steady' \subseteq steady
  BY DEF IndexInv, Typed, Indexing, SaveLookup, Unspoiled
<1> DEFINE r == task[k].run
           x == [run[r] EXCEPT !.pc = "retry"]
<1>2. r \in Runs /\ run[r].pc # "new"
  BY <1>1 DEF Reading, Reads, LookingUp
<1>3. run' = [run EXCEPT ![r] = x]
  BY <1>1, <1>2 DEF SaveLookup, RunsTyped, Execution
<1>4. run[r] \in Execution /\ RunsTrue(run[r], r)
  BY <1>1, <1>2 DEF RunsTyped, Running
<1> HIDE DEF r
<1>5. x \in Execution /\ RunsTrue(x, r) /\ x.pc # "new"
  BY <1>2, <1>4 DEF Execution, RunPC, RunsTrue
<1> HIDE DEF x
<1>6. RunsTyped' /\ Running' /\ \A q \in Runs : run[q].pc # "new" => run'[q].pc # "new"
  BY <1>1, <1>2, <1>3, <1>5, RunStep
<1>7. TasksTyped' /\ Reading' /\ Walking'
  BY <1>1, IdleScan, Nothing, TaskStep
<1>8. LookingUp'
  <2>1. \A j \in Tasks : task'[j] = IF j = k THEN Idle ELSE task[j]
    BY <1>1 DEF TasksTyped
  <2>2. QED
    BY <1>1, <1>6, <2>1, Nothing, LookingFrame
<1>9. /\ TablesTyped' /\ RowsTrue' /\ SessionsTrue' /\ Settled'
      /\ settled' \in BOOLEAN /\ published' \in BOOLEAN
  BY <1>1, SavedTables
<1>10. CountsTyped'
  BY <1>1, <1>9, CountsFrame DEF Typed, counts
<1>11. QED
  BY <1>1, <1>6, <1>7, <1>8, <1>9, <1>10, DiskFrame, WiresFrame, ServerFrame
     DEF IndexInv, Typed, Indexing

LEMMA SaveHistoryStep ==
  ASSUME IndexInv, NEW k \in Tasks, SaveHistory(k)
  PROVE  IndexInv'
<1>1. /\ Typed /\ DiskTyped /\ TasksTyped /\ RunsTyped /\ WiresTyped /\ Reading /\ Running
      /\ LookingUp /\ Walking /\ SaveResult(k) /\ task[k].kind = "history"
      /\ UNCHANGED <<disk, mounted, run, net, server, latest, changes, drops, scenario>>
  BY DEF IndexInv, Typed, Indexing, SaveHistory
<1>2. PICK kind \in {"refresh", "history"} : task' = [task EXCEPT ![k] = Rescan(k, kind)]
  BY DEF SaveHistory
<1> DEFINE x == Rescan(k, kind)
<1>3. task[k] \in Scan /\ task[k].run \in Runs /\ task[k].target \in Target
  BY <1>1 DEF TasksTyped, Reading, Reads, Scan
<1>4. x \in Scan /\ Reads(x) /\ SawAll(x)
  BY <1>1, <1>3, FreshScan DEF Rescan
<1>5. x.kind = kind
  BY Nothing DEF Rescan, Scan
<1> HIDE DEF x
<1>6. steady' \subseteq steady \cup {k}
  BY DEF SaveHistory, Unspoiled
<1>7. TasksTyped' /\ Reading' /\ Walking'
  BY <1>1, <1>2, <1>4, <1>6, TaskStep DEF x
<1>8. LookingUp'
  <2>1. \A j \in Tasks : task'[j] = IF j = k THEN x ELSE task[j]
    BY <1>1, <1>2 DEF TasksTyped, x
  <2>2. QED
    BY <1>1, <1>5, <2>1, LookingFrame
<1>9. /\ TablesTyped' /\ RowsTrue' /\ SessionsTrue' /\ Settled'
      /\ settled' \in BOOLEAN /\ published' \in BOOLEAN
  BY <1>1, SavedTables
<1>10. CountsTyped'
  <2>1. started' = started \/ (started < scenario.tasks /\ started' = started + 1)
    BY DEF SaveHistory
  <2>2. QED
    BY <1>1, <1>9, <2>1, CountsFrame DEF Typed
<1>11. WiresTyped'
  <2>1. ASSUME NEW c \in HistorySession(k) PROVE HistoryEvent(k, c) \in SessionUpdate
    <3>1. c \in Found(k)
      BY DEF HistorySession
    <3>2. c \in Ids /\ task[k].found[c].native \in Ids
      BY <3>1, FoundSessions, Identity DEF IdsOf
    <3>3. task[k].target.run \in Runs \cup {NoRun} /\ run[task[k].run].resume \in BOOLEAN
      BY <1>1, <1>3 DEF Target, RunsTyped, Execution
    <3>4. QED
      BY <1>3, <3>2, <3>3 DEF HistoryEvent, SessionUpdate
  <2>2. \/ events' = events
        \/ \E c \in HistorySession(k) : events' = Append(events, HistoryEvent(k, c))
    BY DEF SaveHistory
  <2>3. events' \in Seq(SessionUpdate)
    BY <1>1, <2>1, <2>2, AppendProperties DEF WiresTyped
  <2>4. QED
    BY <1>1, <2>3 DEF WiresTyped
<1>12. QED
  BY <1>1, <1>7, <1>8, <1>9, <1>10, <1>11, DiskFrame, RunsFrame, ServerFrame
     DEF IndexInv, Typed, Indexing
-----------------------------------------------------------------------------
(* A refresh sends what it has found.                                      *)

LEMMA SendStep ==
  ASSUME IndexInv, NEW k \in Tasks, SendSessions(k) \/ SendRuntime(k) \/ SendDeleted(k)
  PROVE  IndexInv'
<1>1. /\ Typed /\ TasksTyped /\ WiresTyped /\ CountsTyped /\ Reading /\ RowsTrue /\ Running
      /\ LookingUp /\ Walking /\ SessionsTrue /\ Settled
      /\ UNCHANGED <<disk, mounted, agent, run, events, server, settled, latest, counts>>
  BY DEF IndexInv, Typed, Indexing, SendSessions, SendRuntime, SendDeleted
<1>2. task[k] \in Scan /\ Reads(task[k])
  BY <1>1 DEF TasksTyped, Reading
<1>3. PICK pc \in TaskPC \ {"walk"} :
        task' = [task EXCEPT ![k].pc = pc] \/ task' = [task EXCEPT ![k] = Idle]
  BY DEF SendSessions, SendRuntime, SendDeleted, Finished, TaskPC
<1> DEFINE y == [task[k] EXCEPT !.pc = pc]
<1>4. PICK x \in {y, Idle} : task' = [task EXCEPT ![k] = x]
  BY <1>3
<1>5. y \in Scan /\ y.pc = pc /\ y.found = task[k].found /\ y.kind = task[k].kind /\ y.run = task[k].run
  BY <1>2, <1>3 DEF Scan
<1> HIDE DEF y
<1>6. x \in Scan /\ Reads(x) /\ x.pc # "walk"
  BY <1>2, <1>4, <1>5, IdleScan, Nothing DEF Reads
<1>7. steady' \subseteq steady
  BY DEF SendSessions, SendRuntime, SendDeleted, Unspoiled
<1>8. TasksTyped' /\ Reading' /\ Walking'
  BY <1>1, <1>4, <1>6, <1>7, TaskStep
<1>9. LookingUp'
  <2>1. \A j \in Tasks : task'[j] = IF j = k THEN x ELSE task[j]
    BY <1>1, <1>4 DEF TasksTyped
  <2>2. x.kind = "lookup" => task[k].kind = "lookup" /\ x.run = task[k].run
    BY <1>4, <1>5, Nothing
  <2>3. QED
    BY <1>1, <2>1, <2>2, LookingFrame
<1>10. published' \in BOOLEAN
  BY <1>1 DEF SendSessions, SendRuntime, SendDeleted, Outdated, CountsTyped
<1>11. CountsTyped'
  BY <1>1, <1>10, CountsFrame DEF CountsTyped, counts
<1>12. net' = net \/ \E m \in Message : net' = Append(net, m)
  <2>1. Found(k) \subseteq Convs /\ task[k].deleted \subseteq Convs
    BY <1>2 DEF Found, Scan
  <2>2. CASE SendSessions(k)
    BY <2>1, <2>2 DEF SendSessions, Message
  <2>3. CASE SendDeleted(k)
    BY <2>1, <2>3 DEF SendDeleted, Message
  <2>4. CASE SendRuntime(k)
    <3>1. \A stored : RuntimeSessions(k, stored) \subseteq IndexRow
      <4>1. \A id \in Ids : rows[id].native \in Refs /\ rows[id].run \in Runs \cup {NoRun}
        BY <1>1 DEF Typed, TablesTyped, Row
      <4>2. \A c \in Found(k) : c \in Ids /\ task[k].found[c].native \in Refs
        BY FoundSessions, Identity DEF IdsOf, Refs
      <4>3. QED
        BY <4>1, <4>2 DEF RuntimeSessions, IndexRow
    <3>2. QED
      BY <2>4, <3>1 DEF SendRuntime, Message
  <2>5. QED
    BY <2>2, <2>3, <2>4
<1>13. WiresTyped'
  BY <1>1, <1>12, AppendProperties DEF WiresTyped
<1>14. QED
  BY <1>1, <1>8, <1>9, <1>11, <1>13, DiskFrame, TablesFrame, RunsFrame, ServerFrame, SettledFrame
     DEF IndexInv, Typed, Indexing

-----------------------------------------------------------------------------
(* Connections and restarts.                                               *)

LEMMA DropStep ==
  ASSUME IndexInv, Drop
  PROVE  IndexInv'
<1>1. /\ Typed /\ TasksTyped /\ WiresTyped /\ CountsTyped /\ Reading /\ RowsTrue /\ Running
      /\ LookingUp /\ Walking /\ SessionsTrue /\ Settled
      /\ UNCHANGED <<disk, mounted, agent, run, events, server, settled, latest, started, changes, scenario>>
      /\ drops < scenario.drops /\ drops' = drops + 1 /\ net' = <<>> /\ published' = FALSE
      /\ steady' = steady \ Sending
  BY DEF IndexInv, Typed, Indexing, Drop
<1>2. PICK failed \in SUBSET Sending :
        task' = [k \in Tasks |-> IF k \in failed THEN Idle ELSE task[k]]
  BY DEF Drop
<1>3. \A k \in Tasks : task'[k] = Idle \/ (k \notin failed /\ task'[k] = task[k])
  BY <1>2
<1>4. TasksTyped'
  BY <1>1, <1>2, Nothing DEF TasksTyped
<1>5. Reading'
  BY <1>1, <1>3, IdleScan DEF Reading, Reads
<1>6. LookingUp'
  BY <1>1, <1>3, Nothing, LookingFrame
<1>7. Walking'
  <2>1. ASSUME NEW k \in steady', task'[k].pc = "walk" PROVE SawAll(task[k])'
    <3>1. k \in steady /\ k \in Tasks /\ task'[k] = task[k]
      BY <1>1, <1>3, <2>1, Nothing DEF TasksTyped
    <3>2. SawAll(task[k])
      BY <1>1, <2>1, <3>1 DEF Walking
    <3>3. QED
      BY <1>1, <3>1, <3>2 DEF SawAll, SeenBy, SessionFromFile, NativeOf
  <2>2. QED
    BY <2>1 DEF Walking
<1>8. CountsTyped'
  <2>1. settled' \in BOOLEAN /\ published' \in BOOLEAN
    BY <1>1 DEF CountsTyped
  <2>2. QED
    BY <1>1, <2>1, CountsFrame
<1>9. WiresTyped'
  BY <1>1, EmptySeq DEF WiresTyped
<1>10. QED
  BY <1>1, <1>4, <1>5, <1>6, <1>7, <1>8, <1>9, DiskFrame, TablesFrame, RunsFrame, ServerFrame,
     SettledFrame
     DEF IndexInv, Typed, Indexing

LEMMA AgentStopsStep ==
  ASSUME IndexInv, AgentStops
  PROVE  IndexInv'
<1>1. /\ Typed /\ RunsTyped /\ WiresTyped /\ CountsTyped /\ RowsTrue /\ Running
      /\ SessionsTrue /\ Settled
      /\ UNCHANGED <<disk, mounted, server, started, changes, scenario>>
      /\ drops < scenario.drops /\ drops' = drops + 1 /\ net' = <<>> /\ published' = FALSE
      /\ steady' = {} /\ task' = [k \in Tasks |-> Idle]
  BY DEF IndexInv, Typed, Indexing, AgentStops
<1>2. TasksTyped' /\ Reading' /\ Walking' /\ LookingUp'
  BY <1>1, IdleScan, Nothing DEF TasksTyped, Reading, Reads, Walking, LookingUp
<1>3. ASSUME NEW kept, "new" \in kept, run' = Stopped(kept) PROVE RunsTyped' /\ Running'
  <2>1. \A r \in Runs : run[r] \in Execution /\ RunsTrue(run[r], r)
    BY <1>1 DEF RunsTyped, Running
  <2>2. ASSUME NEW y \in Execution, NEW r, RunsTrue(y, r), y.pc # "new"
        PROVE  [y EXCEPT !.pc = "failed"] \in Execution /\ RunsTrue([y EXCEPT !.pc = "failed"], r)
    BY <2>2 DEF RunsTrue, Execution, RunPC
  <2>3. \A r \in Runs : \/ run'[r] = run[r]
                        \/ run[r].pc # "new" /\ run'[r] = [run[r] EXCEPT !.pc = "failed"]
    BY <1>3 DEF Stopped
  <2>4. ASSUME NEW r \in Runs PROVE run'[r] \in Execution /\ RunsTrue(run'[r], r)
    <3>1. run[r].pc # "new" =>
            [run[r] EXCEPT !.pc = "failed"] \in Execution /\ RunsTrue([run[r] EXCEPT !.pc = "failed"], r)
      BY <2>1, <2>2
    <3>2. QED
      BY <2>1, <2>3, <3>1
  <2>5. QED
    BY <1>3, <2>4 DEF RunsTyped, Running, Stopped
<1>4. CASE run' = Stopped({"new", "ended", "synced"}) /\ UNCHANGED <<agent, events, settled, latest>>
  <2>1. RunsTyped' /\ Running'
    BY <1>3, <1>4
  <2>2. WiresTyped'
    BY <1>1, <1>4, EmptySeq DEF WiresTyped
  <2>3. CountsTyped'
    <3>1. settled' \in BOOLEAN /\ published' \in BOOLEAN
      BY <1>1, <1>4 DEF CountsTyped
    <3>2. QED
      BY <1>1, <3>1, CountsFrame
  <2>4. QED
    BY <1>1, <1>2, <1>4, <2>1, <2>2, <2>3, DiskFrame, TablesFrame, ServerFrame, SettledFrame
       DEF IndexInv, Typed, Indexing
<1>5. CASE /\ run' = Stopped({"new", "synced"}) /\ events' = <<>>
           /\ sessions' = [c \in Convs |-> [state |-> "none", root |-> Unseen.root]]
           /\ rows' = [id \in Ids |-> None] /\ settled' = FALSE
           /\ latest' = [c \in Convs |-> NoRun]
  <2>1. RunsTyped' /\ Running'
    BY <1>3, <1>5
  <2>2. WiresTyped'
    BY <1>1, <1>5, EmptySeq DEF WiresTyped
  <2>3. TablesTyped' /\ SessionsTrue'
    BY <1>5, Nothing DEF TablesTyped, SessionsTrue
  <2>4. RowsTrue'
    BY <1>5, Identity DEF RowsTrue, Stored
  <2>5. Settled'
    BY <1>5 DEF Settled
  <2>6. CountsTyped'
    <3>1. settled' \in BOOLEAN /\ published' \in BOOLEAN
      BY <1>1, <1>5
    <3>2. QED
      BY <1>1, <3>1, CountsFrame
  <2>7. QED
    BY <1>1, <1>2, <2>1, <2>2, <2>3, <2>4, <2>5, <2>6, DiskFrame, ServerFrame
       DEF IndexInv, Typed, Indexing
<1>6. QED
  BY <1>4, <1>5 DEF AgentStops
-----------------------------------------------------------------------------
(* Runs: a step of one run that leaves the tables alone, and the two that  *)
(* write them.                                                             *)

LEMMA RunGoesOn ==
  ASSUME IndexInv, NEW r \in Runs, NEW x \in Execution, RunsTrue(x, r), x.pc # "new",
         run' = [run EXCEPT ![r] = x],
         UNCHANGED <<disk, mounted, agent, task, events, net, server, history, counts>>
  PROVE  IndexInv'
<1>1. /\ Typed /\ RunsTyped /\ TasksTyped /\ WiresTyped /\ CountsTyped /\ Reading /\ RowsTrue
      /\ Running /\ LookingUp /\ Walking /\ SessionsTrue /\ Settled
      /\ UNCHANGED <<steady, settled, published, latest, started, changes, drops, scenario>>
  BY DEF IndexInv, Typed, Indexing, history, counts
<1>2. RunsTyped' /\ Running' /\ \A q \in Runs : run[q].pc # "new" => run'[q].pc # "new"
  BY <1>1, RunStep
<1>3. LookingUp'
  BY <1>1, <1>2, LookingFrame
<1>4. CountsTyped'
  <2>1. settled' \in BOOLEAN /\ published' \in BOOLEAN
    BY <1>1 DEF CountsTyped
  <2>2. QED
    BY <1>1, <2>1, CountsFrame
<1>5. QED
  BY <1>1, <1>2, <1>3, <1>4, DiskFrame, TablesFrame, TasksFrame, WiresFrame, ServerFrame,
     SettledFrame
     DEF IndexInv, Typed, Indexing

LEMMA ResumeStep ==
  ASSUME IndexInv, NEW r \in Runs, Resume(r)
  PROVE  IndexInv'
<1>1. run[r] \in Execution
  BY DEF IndexInv, Typed, RunsTyped
<1>2. PICK id \in Ids :
        run' = [run EXCEPT ![r] = [@ EXCEPT !.pc = "lookup", !.id = id, !.key = id,
                                            !.conv = ConvOf(id), !.resume = TRUE]]
  BY DEF Resume
<1> DEFINE x == [run[r] EXCEPT !.pc = "lookup", !.id = id, !.key = id, !.conv = ConvOf(id),
                               !.resume = TRUE]
<1>3. ConvOf(id) \in Convs /\ id \in IdsOf(ConvOf(id)) /\ id \in Refs
  BY Identity DEF Refs
<1>4. x \in Execution /\ RunsTrue(x, r) /\ x.pc # "new"
  BY <1>1, <1>3 DEF Execution, RunPC, RunsTrue
<1>5. run' = [run EXCEPT ![r] = x]
  BY <1>2
<1> HIDE DEF x
<1>6. QED
  BY <1>4, <1>5, RunGoesOn DEF Resume

LEMMA ResolvedStep ==
  ASSUME IndexInv, NEW r \in Runs, Resolved(r)
  PROVE  IndexInv'
<1>1. /\ run[r] \in Execution /\ RunsTrue(run[r], r) /\ run[r].pc \in {"retry", "lookup"}
      /\ UNCHANGED <<disk, mounted, agent, task, events, net, server, history, counts>>
  BY DEF IndexInv, Typed, Indexing, RunsTyped, Running, Resolved
<1>2. run[r].conv \in Convs /\ run[r].id \in IdsOf(run[r].conv) /\ run[r].key \in IdsOf(run[r].conv)
  BY <1>1 DEF RunsTrue
<1>3. CASE Started(r, run[r].conv, run[r].id, run[r].key, TRUE)
  <2> DEFINE x == [run[r] EXCEPT !.pc = "select", !.conv = run[r].conv, !.id = run[r].id,
                     !.key = run[r].key, !.resume = TRUE,
                     !.row = [native |-> Thread[run[r].conv], run |-> r]]
  <2>1. run' = [run EXCEPT ![r] = x]
    BY <1>3 DEF Started
  <2>2. [native |-> Thread[run[r].conv], run |-> r] \in Row
    BY <1>2, Identity DEF Row, Refs
  <2>3. x \in Execution /\ RunsTrue(x, r) /\ x.pc # "new"
    BY <1>1, <1>2, <2>2 DEF Execution, RunPC, RunsTrue
  <2> HIDE DEF x
  <2>4. QED
    BY <1>1, <2>1, <2>3, RunGoesOn
<1>4. CASE run' = [run EXCEPT ![r].pc = "failed"]
  <2> DEFINE x == [run[r] EXCEPT !.pc = "failed"]
  <2>1. run' = [run EXCEPT ![r] = x]
    BY <1>4
  <2>2. x \in Execution /\ RunsTrue(x, r) /\ x.pc # "new"
    BY <1>1, <1>2 DEF Execution, RunPC, RunsTrue
  <2> HIDE DEF x
  <2>3. QED
    BY <1>1, <2>1, <2>2, RunGoesOn
<1>5. QED
  BY <1>3, <1>4 DEF Resolved

LEMMA SelectStep ==
  ASSUME IndexInv, NEW r \in Runs, Select(r)
  PROVE  IndexInv'
<1> DEFINE c == run[r].conv
<1>1. /\ TablesTyped /\ RowsTrue /\ run[r] \in Execution /\ RunsTrue(run[r], r) /\ run[r].pc = "select"
      /\ UNCHANGED <<disk, mounted, agent, task, events, net, server, history, counts>>
  BY DEF IndexInv, Typed, Indexing, RunsTyped, Running, Select
<1>2. /\ c \in Convs /\ run[r].id \in IdsOf(c) /\ run[r].key \in IdsOf(c)
      /\ run[r].row = [native |-> Thread[c], run |-> r] /\ Thread[c] \in IdsOf(c)
  BY <1>1 DEF RunsTrue, IdsOf
<1>3. PICK existing \in Picks(rows, Thread[c]) :
        LET key == MergedKey(run[r].key, Thread[c], existing)
        IN  run' = [run EXCEPT ![r] = [@ EXCEPT !.key = key, !.existing = existing,
                      !.pc = IF existing \in {NoId, key} THEN "insert" ELSE "delete"]]
  <2>1. run[r].row.native = Thread[c]
    BY <1>2
  <2>2. QED
    BY <2>1 DEF Select
<1> DEFINE key == MergedKey(run[r].key, Thread[c], existing)
           x == [run[r] EXCEPT !.key = key, !.existing = existing,
                   !.pc = IF existing \in {NoId, key} THEN "insert" ELSE "delete"]
<1>4. run' = [run EXCEPT ![r] = x]
  BY <1>3
<1>5. existing = NoId \/ existing \in IdsOf(c)
  BY <1>1, <1>2, PickedRow
<1>6. key \in IdsOf(c)
  BY <1>2, <1>5 DEF MergedKey
<1>7. existing \notin {NoId, key} => key = c /\ existing = Thread[c]
  BY <1>2, <1>5, Identity DEF MergedKey, IdsOf
<1>8. key \in Refs /\ existing \in Refs
  BY <1>2, <1>5, <1>6, Identity DEF IdsOf, Refs
<1> HIDE DEF key
<1>9. x \in Execution
  BY <1>1, <1>8 DEF Execution, RunPC
<1>10. /\ x.pc = IF existing \in {NoId, key} THEN "insert" ELSE "delete"
       /\ x.key = key /\ x.existing = existing
       /\ x.conv = c /\ x.id = run[r].id /\ x.row = run[r].row
  BY <1>1 DEF Execution
<1> HIDE DEF x, c
<1>11. RunsTrue(x, r) /\ x.pc # "new"
  BY <1>2, <1>6, <1>7, <1>10 DEF RunsTrue
<1>12. QED
  BY <1>1, <1>4, <1>9, <1>11, RunGoesOn

LEMMA EndRunStep ==
  ASSUME IndexInv, NEW r \in Runs, EndRun(r)
  PROVE  IndexInv'
<1>1. /\ run[r] \in Execution /\ RunsTrue(run[r], r) /\ run[r].pc = "running"
  BY DEF IndexInv, Typed, Indexing, RunsTyped, Running, EndRun
<1> DEFINE x == [run[r] EXCEPT !.pc = "ended"]
<1>2. x \in Execution /\ RunsTrue(x, r) /\ x.pc # "new" /\ run' = [run EXCEPT ![r] = x]
  BY <1>1 DEF Execution, RunPC, RunsTrue, EndRun
<1> HIDE DEF x
<1>3. QED
  BY <1>2, RunGoesOn DEF EndRun

LEMMA DeleteStep ==
  ASSUME IndexInv, NEW r \in Runs, Delete(r)
  PROVE  IndexInv'
<1> DEFINE c == run[r].conv
           x == [run[r] EXCEPT !.pc = "insert"]
<1>1. /\ Typed /\ TablesTyped /\ TasksTyped /\ RunsTyped /\ CountsTyped /\ Reading /\ RowsTrue /\ Running
      /\ LookingUp /\ Walking /\ SessionsTrue /\ Settled
      /\ run[r] \in Execution /\ RunsTrue(run[r], r) /\ run[r].pc = "delete"
      /\ rows' = [rows EXCEPT ![run[r].existing] = None]
      /\ run' = [run EXCEPT ![r] = x] /\ latest' = [latest EXCEPT ![c] = NoRun]
      /\ UNCHANGED <<disk, mounted, sessions, task, events, net, server, steady, settled, published, counts>>
  BY DEF IndexInv, Typed, Indexing, RunsTyped, Running, Delete
<1>2. /\ c \in Convs /\ run[r].existing = Thread[c] /\ Thread[c] # c /\ Thread[c] \in Ids
  BY <1>1, Identity DEF RunsTrue
<1>3. x \in Execution /\ RunsTrue(x, r) /\ x.pc # "new"
  BY <1>1 DEF Execution, RunPC, RunsTrue
<1> HIDE DEF x
<1>4. RunsTyped' /\ Running' /\ \A q \in Runs : run[q].pc # "new" => run'[q].pc # "new"
  BY <1>1, <1>3, RunStep
<1> HIDE DEF c
<1>5. TablesTyped'
  BY <1>1, <1>2, Nothing DEF TablesTyped
<1>6. \A id \in Ids : rows'[id] = IF id = Thread[c] THEN None ELSE rows[id]
  BY <1>1, <1>2 DEF TablesTyped
<1>7. RowsTrue'
  BY <1>1, <1>6, Identity DEF RowsTrue, Stored
<1>8. Settled'
  <2>1. \A d \in Convs : d # Thread[c] /\ d \in Ids
    BY <1>2, Identity DEF IdsOf
  <2>2. \A d \in Convs : rows'[d] = rows[d]
    BY <1>6, <2>1
  <2>3. QED
    BY <1>1, <2>2 DEF Settled, Repaired, OnDisk
<1>9. LookingUp' /\ SessionsTrue'
  BY <1>1, <1>4, LookingFrame DEF SessionsTrue
<1>10. CountsTyped'
  <2>1. settled' \in BOOLEAN /\ published' \in BOOLEAN
    BY <1>1 DEF CountsTyped
  <2>2. QED
    BY <1>1, <2>1, CountsFrame DEF counts
<1>11. QED
  BY <1>1, <1>4, <1>5, <1>7, <1>8, <1>9, <1>10, DiskFrame, TasksFrame, WiresFrame, ServerFrame
     DEF IndexInv, Typed, Indexing

LEMMA InsertStep ==
  ASSUME IndexInv, NEW r \in Runs, Insert(r)
  PROVE  IndexInv'
<1> DEFINE c == run[r].conv
           key == run[r].key
           x == [run[r] EXCEPT !.pc = "running"]
           e == [session |-> run[r].id, native |-> run[r].row.native, run |-> r,
                 of |-> r, create |-> ~run[r].resume]
<1>1. /\ Typed /\ TablesTyped /\ TasksTyped /\ RunsTyped /\ WiresTyped /\ CountsTyped /\ Reading
      /\ RowsTrue /\ Running /\ LookingUp /\ Walking /\ SessionsTrue /\ Settled
      /\ run[r] \in Execution /\ RunsTrue(run[r], r) /\ run[r].pc = "insert"
      /\ rows' = Upsert(rows, key, run[r].row.native, run[r].row.run)
      /\ run' = [run EXCEPT ![r] = x] /\ latest' = [latest EXCEPT ![c] = r]
      /\ events' = Append(events, e)
      /\ UNCHANGED <<disk, mounted, sessions, task, net, server, steady, settled, published, counts>>
  BY DEF IndexInv, Typed, Indexing, RunsTyped, Running, Insert
<1>2. /\ c \in Convs /\ key \in IdsOf(c) /\ key \in Ids /\ run[r].id \in Ids
      /\ run[r].row.native = Thread[c] /\ run[r].row.run = r
      /\ Thread[c] \in Ids /\ Thread[c] \in Refs /\ r # NoRun /\ run[r].resume \in BOOLEAN
  BY <1>1, Identity DEF RunsTrue, IdsOf, Refs, Execution
<1>3. x \in Execution /\ RunsTrue(x, r) /\ x.pc # "new"
  BY <1>1 DEF Execution, RunPC, RunsTrue
<1>4. e \in SessionUpdate
  BY <1>2 DEF SessionUpdate
<1> HIDE DEF x, e
<1>5. RunsTyped' /\ Running' /\ \A q \in Runs : run[q].pc # "new" => run'[q].pc # "new"
  BY <1>1, <1>3, RunStep
<1>6. rows' = [rows EXCEPT ![key] = [native |-> Thread[c], run |-> r]]
  BY <1>1, <1>2 DEF Upsert
<1> HIDE DEF c, key
<1>7. /\ rows' \in [Ids -> Row]
      /\ \A id \in Ids : rows'[id] = IF id = key THEN [native |-> Thread[c], run |-> r] ELSE rows[id]
  <2>1. [native |-> Thread[c], run |-> r] \in Row
    BY <1>2 DEF Row
  <2>2. rows \in [Ids -> Row] /\ key \in Ids
    BY <1>1, <1>2 DEF TablesTyped
  <2>3. QED
    BY <1>6, <2>1, <2>2
<1>8. TablesTyped'
  BY <1>1, <1>2, <1>7 DEF TablesTyped
<1>9. RowsTrue'
  <2>1. ASSUME NEW d \in Convs
        PROVE  /\ rows'[d] # None => rows'[d].native \in IdsOf(d)
               /\ rows'[Thread[d]] # None => rows'[Thread[d]].native = Thread[d]
    <3>1. /\ rows[d] # None => rows[d].native \in IdsOf(d)
          /\ rows[Thread[d]] # None => rows[Thread[d]].native = Thread[d]
      BY <1>1 DEF RowsTrue, Stored
    <3>2. key \in IdsOf(d) => d = c
      BY <1>2, Identity
    <3>3. QED
      BY <1>7, <3>1, <3>2, Identity DEF IdsOf
  <2>2. QED
    BY <2>1 DEF RowsTrue, Stored
<1>10. Settled'
  <2>1. ASSUME NEW d \in Convs, rows[d].native = Thread[d] PROVE rows'[d].native = Thread[d]
    <3>1. key = d => d = c
      BY <1>2, Identity DEF IdsOf
    <3>2. QED
      BY <1>7, <2>1, <3>1, Identity
  <2>2. QED
    BY <1>1, <2>1 DEF Settled, Repaired, OnDisk
<1>11. LookingUp' /\ SessionsTrue'
  BY <1>1, <1>5, LookingFrame DEF SessionsTrue
<1>12. WiresTyped'
  BY <1>1, <1>4, AppendProperties DEF WiresTyped
<1>13. CountsTyped'
  <2>1. settled' \in BOOLEAN /\ published' \in BOOLEAN
    BY <1>1 DEF CountsTyped
  <2>2. QED
    BY <1>1, <2>1, CountsFrame DEF counts
<1>14. QED
  BY <1>1, <1>5, <1>8, <1>9, <1>10, <1>11, <1>12, <1>13, DiskFrame, TasksFrame, ServerFrame
     DEF IndexInv, Typed, Indexing
-----------------------------------------------------------------------------
(* The server.                                                             *)

LEMMA ServerStep ==
  ASSUME IndexInv, ReceiveSessions \/ ReceiveDeleted \/ ReceiveRuntime \/ ReceiveEvent
  PROVE  IndexInv'
<1>1. /\ Typed /\ WiresTyped /\ ServerTyped /\ CountsTyped /\ TasksTyped /\ Reading /\ RowsTrue
      /\ Running /\ LookingUp /\ Walking /\ SessionsTrue /\ Settled
      /\ UNCHANGED <<disk, mounted, agent, task, run, history, counts>>
  BY DEF IndexInv, Typed, Indexing, ReceiveSessions, ReceiveDeleted, ReceiveRuntime, ReceiveEvent
<1>2. /\ UNCHANGED <<steady, settled, published, latest, scenario, started, changes, drops>>
      /\ settled' \in BOOLEAN /\ published' \in BOOLEAN
  BY <1>1 DEF history, counts, CountsTyped
<1>3. net # <<>> => Head(net) \in Message /\ Tail(net) \in Seq(Message)
  BY <1>1, HeadTailProperties DEF WiresTyped
<1>4. events # <<>> => Head(events) \in SessionUpdate /\ Tail(events) \in Seq(SessionUpdate)
  BY <1>1, HeadTailProperties DEF WiresTyped
<1>5. ASSUME NEW m, m.session \in Ids, m.native \in Refs, m.run \in Runs \cup {NoRun}, UpsertServer(m)
      PROVE  srvRows' \in [Ids -> SrvRow]
  <2>1. \A id \in Ids : srvRows[id].run \in Runs \cup {NoRun} /\ srvRows \in [Ids -> SrvRow]
    BY <1>1 DEF ServerTyped, SrvRow
  <2>2. ServerRow(m) \in Ids
    BY <1>5 DEF ServerRow
  <2>3. QED
    BY <1>5, <2>1, <2>2 DEF UpsertServer, SrvRow, Refs
<1>6. ServerTyped' /\ WiresTyped'
  <2>1. CASE ReceiveSessions
    BY <1>1, <1>3, <2>1 DEF ReceiveSessions, ServerTyped, WiresTyped
  <2>2. CASE ReceiveDeleted
    BY <1>1, <1>3, <2>2 DEF ReceiveDeleted, ServerTyped, WiresTyped
  <2>3. CASE ReceiveRuntime
    <3>1. net # <<>> /\ Head(net).kind = "runtime" /\ UNCHANGED <<events, srvSessions>>
      BY <2>3 DEF ReceiveRuntime
    <3>2. Head(net) \in [kind : {"runtime"}, rows : SUBSET IndexRow]
      BY <1>3, <3>1 DEF Message
    <3>3. PICK m \in Head(net).rows :
            /\ UpsertServer(m)
            /\ runLink' = [r \in Runs |-> IF r = m.run /\ runLink[r] = NoId THEN m.session ELSE runLink[r]]
            /\ net' = IF Head(net).rows = {m} THEN Tail(net) ELSE [net EXCEPT ![1].rows = @ \ {m}]
      BY <2>3 DEF ReceiveRuntime
    <3>4. /\ m.session \in Ids /\ m.session \in Refs /\ m.native \in Refs
          /\ m.run \in Runs \cup {NoRun}
      BY <3>2, <3>3 DEF IndexRow, Refs
    <3>5. srvRows' \in [Ids -> SrvRow] /\ runLink' \in [Runs -> Refs]
      BY <1>1, <1>5, <3>3, <3>4 DEF ServerTyped
    <3>6. net' \in Seq(Message)
      <4>1. CASE net' = Tail(net)
        BY <1>3, <3>1, <4>1
      <4>2. CASE net' = [net EXCEPT ![1].rows = @ \ {m}]
        <5>1. Head(net) = net[1] /\ 1 \in 1 .. Len(net) /\ net \in Seq(Message)
          BY <1>1, <3>1, HeadTailProperties, EmptySeq, LenProperties DEF WiresTyped
        <5>2. [Head(net) EXCEPT !.rows = @ \ {m}] \in Message
          BY <3>2 DEF Message
        <5>3. net' = [net EXCEPT ![1] = [Head(net) EXCEPT !.rows = @ \ {m}]]
          BY <4>2, <5>1
        <5>4. QED
          BY <5>1, <5>2, <5>3, ExceptSeq
      <4>3. QED
        BY <3>3, <4>1, <4>2
    <3>7. QED
      BY <1>1, <3>1, <3>5, <3>6 DEF ServerTyped, WiresTyped
  <2>4. CASE ReceiveEvent
    <3>1. events # <<>> /\ events' = Tail(events) /\ UNCHANGED <<net, srvSessions>>
      BY <2>4 DEF ReceiveEvent
    <3>2. /\ Head(events).session \in Ids /\ Head(events).native \in Ids
          /\ Head(events).run \in Runs \cup {NoRun} /\ Ids \subseteq Refs
      BY <1>4, <3>1 DEF SessionUpdate, Refs
    <3>3. \/ UpsertServer(Head(events)) /\ runLink' = [runLink EXCEPT ![Head(events).of] = Head(events).session]
          \/ UNCHANGED <<srvRows, runLink>>
      BY <2>4 DEF ReceiveEvent
    <3>4. srvRows' \in [Ids -> SrvRow] /\ runLink' \in [Runs -> Refs]
      BY <1>1, <1>5, <3>2, <3>3 DEF ServerTyped
    <3>5. QED
      BY <1>1, <1>4, <3>1, <3>4 DEF ServerTyped, WiresTyped
  <2>5. QED
    BY <1>1, <2>1, <2>2, <2>3, <2>4
<1>7. QED
  BY <1>1, <1>2, <1>6, DiskFrame, TablesFrame, TasksFrame, RunsFrame, SettledFrame, CountsFrame,
     LookingFrame
     DEF IndexInv, Typed, Indexing

-----------------------------------------------------------------------------
(* Every step keeps the invariant.                                         *)

LEMMA NextInv ==
  IndexInv /\ [Next]_vars => IndexInv'
<1> SUFFICES ASSUME IndexInv, [Next]_vars PROVE IndexInv'
  OBVIOUS
<1>1. CASE \E c \in Convs : Create(c) \/ Configure(c) \/ Move(c) \/ Remove(c)
  BY <1>1, DiskStep
<1>2. CASE \E root \in Roots : Mount(root)
  BY <1>2, MountStep
<1>3. ASSUME NEW k \in Tasks,
             \/ StartRefresh(k) \/ Walk(k) \/ SaveRefresh(k) \/ SaveLookup(k) \/ SaveHistory(k)
             \/ SendSessions(k) \/ SendRuntime(k) \/ SendDeleted(k)
      PROVE  IndexInv'
  BY <1>3, StartRefreshStep, WalkStep, SaveRefreshStep, SaveLookupStep, SaveHistoryStep, SendStep
<1>4. ASSUME NEW r \in Runs,
             \/ StartNew(r) \/ Resume(r) \/ Refreshed(r) \/ Resolved(r)
             \/ Select(r) \/ Delete(r) \/ Insert(r) \/ EndRun(r) \/ AfterRun(r)
      PROVE  IndexInv'
  BY <1>4, StartNewStep, ResumeStep, RefreshedStep, ResolvedStep, SelectStep, DeleteStep,
     InsertStep, EndRunStep, AfterRunStep
<1>5. CASE ReceiveSessions \/ ReceiveDeleted \/ ReceiveRuntime \/ ReceiveEvent
  BY <1>5, ServerStep
<1>6. CASE Drop \/ AgentStops
  BY <1>6, DropStep, AgentStopsStep
<1>7. CASE UNCHANGED vars
  <2>1. /\ Typed /\ DiskTyped /\ CountsTyped /\ Reading /\ LookingUp
        /\ UNCHANGED <<disk, mounted, agent, task, run, events, net, server, steady, settled,
                       published, latest, started, changes, drops, scenario>>
    BY <1>7 DEF IndexInv, Typed, Indexing, vars, history, counts
  <2>2. settled' \in BOOLEAN /\ published' \in BOOLEAN
    BY <2>1 DEF CountsTyped
  <2>3. CountsTyped' /\ LookingUp'
    BY <2>1, <2>2, CountsFrame, LookingFrame
  <2>4. QED
    BY <2>1, <2>3, DiskFrame, TablesFrame, TasksFrame, RunsFrame, WiresFrame, ServerFrame, SettledFrame
       DEF IndexInv, Typed, Indexing
<1>8. QED
  BY <1>1, <1>2, <1>3, <1>4, <1>5, <1>6, <1>7 DEF Next

(* The index stays in order: every id leads to rows of its conversation    *)
(* and a steady scan, once saved, is what the index holds (scan.go,        *)
(* store.go, client.go).                                                   *)
THEOREM IndexInvariant ==
  Spec => []IndexInv
<1>1. QED
  BY InitInv, NextInv, PTL DEF Spec

LEMMA InvTypes ==
  IndexInv => TypeOK
<1> SUFFICES ASSUME IndexInv PROVE TypeOK
  OBVIOUS
<1>1. Typed /\ RowsTrue
  BY DEF IndexInv, Indexing
<1>2. ASSUME NEW k \in Tasks
      PROVE  /\ task[k].pc \in TaskPC /\ task[k].roots \subseteq Roots
             /\ task[k].kind \in {"none", "refresh", "history", "lookup"}
             /\ task[k].at \in 1 .. Len(Places) + 1 /\ task[k].deleted \subseteq Convs
             /\ task[k].found \in [Convs -> Seen \cup {Unseen}]
  BY <1>1 DEF Typed, TasksTyped, Scan
<1>3. ASSUME NEW r \in Runs PROVE run[r].pc \in RunPC /\ run[r].id \in Refs /\ run[r].existing \in Refs
  BY <1>1 DEF Typed, RunsTyped, Execution
<1>4. ASSUME NEW id \in Ids, rows[id] # None
      PROVE  rows[id].native \in {ConvOf(id), Thread[ConvOf(id)]}
  <2>1. ConvOf(id) \in Convs /\ id \in {ConvOf(id), Thread[ConvOf(id)]}
    BY Identity DEF IdsOf
  <2>2. QED
    BY <1>1, <1>4, <2>1 DEF RowsTrue, Stored, IdsOf
<1>5. QED
  BY <1>1, <1>2, <1>3, <1>4
     DEF Typed, DiskTyped, TablesTyped, TasksTyped, ServerTyped, CountsTyped, TypeOK

(* Every variable keeps its type, and a row names a thread of the          *)
(* conversation it is stored under (runtime_sessions, the scanner's and    *)
(* the runs' state).                                                       *)
THEOREM TypeCorrect ==
  Spec => []TypeOK
<1>1. QED
  BY IndexInvariant, InvTypes, PTL
-----------------------------------------------------------------------------
(* A repaired index: both ids of a configured conversation resolve to its  *)
(* thread.                                                                 *)

LEMMA RepairedResolves ==
  ASSUME IndexInv, NEW c \in Convs, Repaired(c), OnDisk(c), disk[c].configured
  PROVE  Resolve(c) = {Thread[c]} /\ Resolve(Thread[c]) = {Thread[c]}
<1>1. RowsTrue /\ rows[c].native = Thread[c]
  BY DEF IndexInv, Indexing, Repaired
<1>2. c \in Ids /\ Stored(c) /\ Thread[c] # NoId
  BY <1>1, Identity DEF Stored, None
<1>3. ASSUME NEW id \in IdsOf(c), NEW k \in ByIdOrNative(id) PROVE rows[k].native = Thread[c]
  <2>1. k \in Ids /\ Stored(k) /\ (k = id \/ rows[k].native = id)
    BY <1>3 DEF ByIdOrNative
  <2>2. PICK d \in Convs : k \in IdsOf(d)
    BY <2>1, Identity
  <2>3. rows[k].native \in IdsOf(d)
    BY <1>1, <2>1, <2>2 DEF RowsTrue, IdsOf
  <2>4. d = c
    BY <1>3, <2>1, <2>2, <2>3, Identity
  <2>5. QED
    BY <1>1, <2>1, <2>2, <2>4 DEF RowsTrue, IdsOf
<1>4. \A id \in IdsOf(c) : c \in ByIdOrNative(id)
  BY <1>1, <1>2 DEF ByIdOrNative, IdsOf
<1>5. \A id \in IdsOf(c) : {rows[k].native : k \in ByIdOrNative(id)} = {Thread[c]}
  BY <1>1, <1>3, <1>4
<1>6. QED
  BY <1>5 DEF Resolve, IdsOf

(* A scan the disk does not change under repairs the index, whatever       *)
(* overlapping scans and runs have left (Scanner.Scan, SaveScanResult).    *)
THEOREM SteadyScanRepairs ==
  Spec => []ScanRepairs
<1>1. IndexInv => ScanRepairs
  <2>1. SUFFICES ASSUME IndexInv, settled, NEW c \in Convs
                 PROVE  /\ OnDisk(c) => sessions[c].state = "live"
                        /\ ~OnDisk(c) /\ sessions[c].root \in mounted => sessions[c].state # "live"
                        /\ OnDisk(c) /\ disk[c].configured =>
                             Resolve(c) = {Thread[c]} /\ Resolve(Thread[c]) = {Thread[c]}
    BY DEF ScanRepairs
  <2>2. Repaired(c)
    BY <2>1 DEF IndexInv, Indexing, Settled
  <2>3. QED
    BY <2>1, <2>2, RepairedResolves DEF Repaired
<1>2. QED
  BY <1>1, IndexInvariant, PTL
-----------------------------------------------------------------------------
(* Whose run a conversation is found by.                                   *)

Has(c, r) == rows[c].run = r \/ rows[Thread[c]].run = r

LEMMA HoldsByRows ==
  ASSUME TablesTyped, NEW c \in Convs, latest[c] # NoRun
  PROVE  Holds(c) <=> Has(c, latest[c])
<1>1. \A id \in Ids : id \in ByRun(latest[c]) <=> rows[id].run = latest[c]
  BY DEF ByRun, Stored, None
<1>2. \A id \in Ids : ConvOf(id) = c <=> id \in {c, Thread[c]}
  BY Identity DEF IdsOf
<1>3. c \in Ids /\ Thread[c] \in Ids /\ \A id \in ByRun(latest[c]) : id \in Ids
  BY Identity DEF ByRun
<1>4. QED
  BY <1>1, <1>2, <1>3 DEF Holds, Has

(* A scan keeps the run of the row, unless it takes the row of an earlier  *)
(* run for the one of the conversation.                                    *)
LEMMA ScanKeepsRun ==
  ASSUME IndexInv, NEW k \in Tasks, SaveResult(k), NEW c \in Convs, NEW r \in Runs,
         latest[c] = r, Has(c, r), ~Disagree(c)
  PROVE  rows'[c].run = r \/ rows'[Thread[c]].run = r
<1>1. TablesTyped /\ RowsTrue /\ r # NoRun /\ c \in Ids /\ Thread[c] \in Ids
  BY Identity DEF IndexInv, Typed, Indexing
<1>2. CASE c \notin Found(k)
  BY <1>2, SavedRows DEF Has
<1>3. CASE c \in Found(k)
  <2> DEFINE n == task[k].found[c].native
  <2>1. n \in IdsOf(c)
    BY <1>3, FoundSessions
  <2>2. PICK e \in Picks(rows, n) :
          LET t == SaveScanned(rows, c, n, e) IN rows'[c] = t[c] /\ rows'[Thread[c]] = t[Thread[c]]
    BY <1>3, SavedRows DEF SavesRow
  <2> HIDE DEF n
  <2> DEFINE m == MergedRun(NoRun, rows, e)
  <2>3. /\ rows'[c].run = IF m = NoRun /\ rows[c] # None THEN rows[c].run ELSE m
        /\ c # Thread[c] => rows'[Thread[c]] = IF e = Thread[c] THEN None ELSE rows[Thread[c]]
    BY <1>1, <2>1, <2>2, ScannedRow
  <2>4. m = IF e # NoId THEN rows[e].run ELSE NoRun
    BY DEF MergedRun
  <2> HIDE DEF m
  <2>5. /\ e = NoId \/ (e \in IdsOf(c) /\ Stored(e) /\ rows[e].native = n)
        /\ n = c /\ e # NoId => e = c
    BY <1>1, <2>1, <2>2, PickedRow
  <2>6. CASE e \in {NoId, c}
    <3>1. rows[c].run = r => rows'[c].run = r
      BY <1>1, <2>3, <2>4, <2>6 DEF None
    <3>2. c # Thread[c] /\ rows[Thread[c]].run = r => rows'[Thread[c]].run = r
      BY <1>1, <2>3, <2>6, Identity
    <3>3. QED
      BY <3>1, <3>2 DEF Has
  <2>7. CASE e \notin {NoId, c}
    <3>1. e = Thread[c] /\ c # Thread[c] /\ n = Thread[c]
      BY <2>1, <2>5, <2>7 DEF IdsOf
    <3>2. CASE rows[e].run \in {NoRun, r}
      BY <1>1, <2>3, <2>4, <2>7, <3>1, <3>2 DEF Has, None
    <3>3. CASE rows[e].run \notin {NoRun, r}
      <4>1. rows[c].run = r /\ Stored(c)
        BY <1>1, <3>1, <3>3 DEF Has, Stored, None
      <4>2. rows[c].native = Thread[c]
        <5>1. Stored(Thread[c]) /\ rows[Thread[c]].native = Thread[c]
          BY <2>5, <2>7, <3>1
        <5>2. rows[c].native # c
          BY <3>1, <4>1, <5>1 DEF Disagree
        <5>3. rows[c].native \in IdsOf(c)
          BY <1>1, <4>1 DEF RowsTrue
        <5>4. QED
          BY <5>2, <5>3 DEF IdsOf
      <4>3. c \in ByNative(rows, n) /\ e \in ByNative(rows, n) /\ ~Older(rows, e, ByNative(rows, n))
        BY <1>1, <2>2, <2>5, <3>1, <4>1, <4>2 DEF Picks, ByNative, Stored
      <4>4. e \notin Convs /\ ConvOf(e) = c
        BY <3>1, Identity DEF IdsOf
      <4>5. Older(rows, e, ByNative(rows, n))
        BY <3>3, <4>1, <4>3, <4>4 DEF Older
      <4>6. QED
        BY <4>3, <4>5
    <3>4. QED
      BY <3>2, <3>3
  <2>8. QED
    BY <2>6, <2>7
<1>4. QED
  BY <1>2, <1>3

LEMMA StepKeepsRun ==
  ASSUME IndexInv, [Next]_vars, NEW c \in Convs, latest[c] # NoRun, latest'[c] = latest[c],
         Has(c, latest[c]), ~Disagree(c)
  PROVE  rows'[c].run = latest[c] \/ rows'[Thread[c]].run = latest[c]
<1>1. TablesTyped /\ latest[c] \in Runs /\ c \in Ids /\ Thread[c] \in Ids
  BY Identity DEF IndexInv, Typed, TablesTyped
<1>2. CASE UNCHANGED rows
  BY <1>2 DEF Has
<1>3. ASSUME NEW k \in Tasks, SaveResult(k) PROVE rows'[c].run = latest[c] \/ rows'[Thread[c]].run = latest[c]
  BY <1>1, <1>3, ScanKeepsRun
<1>4. ASSUME NEW r \in Runs, Delete(r) PROVE rows'[c].run = latest[c] \/ rows'[Thread[c]].run = latest[c]
  <2>1. /\ run[r].conv \in Convs /\ run[r].existing = Thread[run[r].conv] /\ run[r].pc = "delete"
        /\ rows' = [rows EXCEPT ![run[r].existing] = None]
        /\ latest' = [latest EXCEPT ![run[r].conv] = NoRun]
    BY <1>4 DEF IndexInv, Indexing, Running, RunsTrue, Delete
  <2>2. c # run[r].conv
    BY <1>1, <2>1 DEF TablesTyped
  <2>3. run[r].existing \notin {c, Thread[c]}
    BY <2>1, <2>2, Identity DEF IdsOf
  <2>4. rows'[c] = rows[c] /\ rows'[Thread[c]] = rows[Thread[c]]
    BY <1>1, <2>1, <2>3 DEF TablesTyped
  <2>5. QED
    BY <2>4 DEF Has
<1>5. ASSUME NEW r \in Runs, Insert(r) PROVE rows'[c].run = latest[c] \/ rows'[Thread[c]].run = latest[c]
  <2>1. /\ run[r].conv \in Convs /\ run[r].key \in IdsOf(run[r].conv) /\ run[r].row.run = r
        /\ rows' = Upsert(rows, run[r].key, run[r].row.native, run[r].row.run)
        /\ latest' = [latest EXCEPT ![run[r].conv] = r] /\ r # NoRun
    <3>1. /\ RunsTrue(run[r], r) /\ run[r].pc = "insert"
          /\ rows' = Upsert(rows, run[r].key, run[r].row.native, run[r].row.run)
          /\ latest' = [latest EXCEPT ![run[r].conv] = r] /\ r # NoRun
      BY <1>5, Identity DEF IndexInv, Indexing, Running, Insert
    <3>2. run[r].row = [native |-> Thread[run[r].conv], run |-> r]
      BY <3>1 DEF RunsTrue
    <3>3. QED
      BY <3>1, <3>2 DEF RunsTrue
  <2>2. rows' = [rows EXCEPT ![run[r].key] = [native |-> run[r].row.native, run |-> r]]
    BY <2>1 DEF Upsert
  <2>3. CASE c = run[r].conv
    <3>1. latest[c] = r /\ run[r].key \in {c, Thread[c]}
      BY <1>1, <2>1, <2>3 DEF TablesTyped, IdsOf
    <3>2. QED
      BY <1>1, <2>2, <3>1 DEF TablesTyped
  <2>4. CASE c # run[r].conv
    <3>1. run[r].key \notin {c, Thread[c]}
      BY <2>1, <2>4, Identity DEF IdsOf
    <3>2. rows'[c] = rows[c] /\ rows'[Thread[c]] = rows[Thread[c]]
      BY <1>1, <2>2, <3>1 DEF TablesTyped
    <3>3. QED
      BY <3>2 DEF Has
  <2>5. QED
    BY <2>3, <2>4
<1>6. CASE AgentStops
  <2>1. CASE UNCHANGED agent
    BY <1>2, <2>1 DEF agent
  <2>2. CASE latest' = [d \in Convs |-> NoRun]
    BY <2>2
  <2>3. QED
    BY <1>6, <2>1, <2>2 DEF AgentStops
<1>7. ASSUME NEW d \in Convs, Create(d) \/ Configure(d) \/ Move(d) \/ Remove(d) PROVE UNCHANGED rows
  BY <1>7 DEF Create, Configure, Move, Remove, Disturb, agent
<1>8. ASSUME NEW root \in Roots, Mount(root) PROVE UNCHANGED rows
  BY <1>8 DEF Mount, Disturb, agent
<1>9. ASSUME NEW k \in Tasks,
             StartRefresh(k) \/ Walk(k) \/ SendSessions(k) \/ SendRuntime(k) \/ SendDeleted(k)
      PROVE  UNCHANGED rows
  BY <1>9 DEF StartRefresh, Walk, SendSessions, SendRuntime, SendDeleted, agent
<1>10. ASSUME NEW k \in Tasks, SaveRefresh(k) \/ SaveLookup(k) \/ SaveHistory(k) PROVE SaveResult(k)
  BY <1>10 DEF SaveRefresh, SaveLookup, SaveHistory
<1>11. ASSUME NEW r \in Runs,
              \/ StartNew(r) \/ Resume(r) \/ Refreshed(r) \/ Resolved(r)
              \/ Select(r) \/ EndRun(r) \/ AfterRun(r)
       PROVE  UNCHANGED rows
  BY <1>11 DEF StartNew, Disturb, Resume, Refreshed, Resolved, Select, EndRun, AfterRun, agent
<1>12. CASE Drop \/ ReceiveSessions \/ ReceiveDeleted \/ ReceiveRuntime \/ ReceiveEvent \/ UNCHANGED vars
  <2>1. UNCHANGED rows
    BY <1>12 DEF Drop, ReceiveSessions, ReceiveDeleted, ReceiveRuntime, ReceiveEvent, agent, vars
  <2>2. QED
    BY <1>2, <2>1
<1>13. QED
  BY <1>2, <1>3, <1>4, <1>5, <1>6, <1>7, <1>8, <1>9, <1>10, <1>11, <1>12 DEF Next

(* The holding conversation after the step.                                *)
LEMMA HoldsByRowsNext ==
  ASSUME TablesTyped', NEW c \in Convs, latest'[c] # NoRun,
         rows'[c].run = latest'[c] \/ rows'[Thread[c]].run = latest'[c]
  PROVE  Holds(c)'
<1>1. PICK id \in {c, Thread[c]} : rows'[id].run = latest'[c]
  OBVIOUS
<1>2. id \in Ids /\ ConvOf(id) = c /\ rows'[id] # None
  BY <1>1, Identity DEF None
<1>3. QED
  BY <1>1, <1>2 DEF Holds, ByRun, Stored

(* The run that wrote a conversation last stays found, whatever scans and  *)
(* other runs write, as long as the two rows of it do not disagree on its  *)
(* thread (upsertRuntimeSessions, mergeRuntimeSessionRecords).             *)
THEOREM RunStaysFound ==
  Spec => RunKept
<1>1. IndexInv /\ [Next]_vars =>
        [\A c \in Convs : latest[c] # NoRun /\ latest'[c] = latest[c] /\ Holds(c) /\ ~Holds(c)'
           => Disagree(c)]_vars
  <2>1. SUFFICES ASSUME IndexInv, [Next]_vars, NEW c \in Convs, latest[c] # NoRun,
                        latest'[c] = latest[c], Holds(c), ~Disagree(c)
                 PROVE  Holds(c)'
    OBVIOUS
  <2>2. TablesTyped /\ TablesTyped'
    BY <2>1, NextInv DEF IndexInv, Typed
  <2>3. Has(c, latest[c])
    BY <2>1, <2>2, HoldsByRows
  <2>4. rows'[c].run = latest[c] \/ rows'[Thread[c]].run = latest[c]
    BY <2>1, <2>3, StepKeepsRun
  <2>5. QED
    BY <2>1, <2>2, <2>4, HoldsByRowsNext
<1>2. QED
  BY <1>1, IndexInvariant, PTL DEF Spec, RunKept

-----------------------------------------------------------------------------
(* ServerFollows: what a steady refresh has sent stays on its way until it *)
(* is at the server.                                                       *)

(* Everything the server is told is about one conversation, and so is each *)
(* of its rows.                                                            *)
OfOne(x) == x.session \in Ids /\ x.native \in IdsOf(ConvOf(x.session))
SaysOne ==
  /\ \A i \in DOMAIN events : OfOne(events[i])
  /\ \A i \in DOMAIN net : net[i].kind = "runtime" => \A x \in net[i].rows : OfOne(x)
ServerRowsTrue ==
  \A s \in Ids : srvRows[s] # SrvNone =>
    srvRows[s].session \in IdsOf(ConvOf(s)) /\ srvRows[s].native \in IdsOf(ConvOf(s))

(* The sessions: what comes last says live.                                *)
Lists(m, c)   == m.kind = "sessions" /\ c \in m.convs
Deletes(m, c) == m.kind = "deleted" /\ c \in m.convs
GoesLive(c) ==
  \/ srvSessions[c] = "live" /\ \A i \in DOMAIN net : ~Deletes(net[i], c)
  \/ \E i \in DOMAIN net : Lists(net[i], c) /\ \A j \in DOMAIN net : Deletes(net[j], c) => j < i

(* A refresh that deletes something keeps what it found, and a steady one  *)
(* found what is on the disk.                                              *)
FoundBy(x) == {c \in Convs : x.found[c].native # NoId}
Sends(x) == x.pc \in {"sessions", "runtime", "deleted"}
Refreshing ==
  \A k \in Tasks : Sends(task[k]) =>
    /\ task[k].deleted \cap FoundBy(task[k]) = {}
    /\ k \in steady => \A c \in Convs : OnDisk(c) => c \in FoundBy(task[k])

Listed == published \/ \E k \in steady : task[k].pc \in {"runtime", "deleted"}
SessionsFollow == Listed => \A c \in Convs : OnDisk(c) => GoesLive(c)

(* The conversations: the server has a row, is sent one, or will create    *)
(* one for an event.                                                       *)
RowKnown(c) == \E s \in IdsOf(c) : srvRows[s] # SrvNone
Promised(c) == RowKnown(c) \/ \E i \in DOMAIN events : events[i].create /\ events[i].session \in IdsOf(c)
Names(m, c) == m.kind = "runtime" /\ \E x \in m.rows : x.session \in IdsOf(c)
GetsKnown(c) == Promised(c) \/ OnDisk(c) \/ \E i \in DOMAIN net : Names(net[i], c)
HasRow(c)   == Stored(c) \/ Stored(Thread[c])

(* Only a run writes under the thread's own id, and the server knows the   *)
(* conversation of it; a run that resumes has a row, or one is promised.   *)
Resumes(x) == x.resume /\ x.pc \in {"select", "delete", "insert"}
RunKnown(x) ==
  /\ x.pc \in {"lookup", "refresh", "retry"} => x.resume
  /\ x.resume /\ x.pc # "new" /\ x.key # x.conv => RowKnown(x.conv)
  /\ Resumes(x) => HasRow(x.conv) \/ Promised(x.conv)
  /\ x.pc = "delete" => Promised(x.conv)
UnderThread == \A c \in Convs : Thread[c] # c /\ Stored(Thread[c]) => Promised(c)
Indexed == \A c \in Convs : sessions[c].state # "none" => HasRow(c) \/ Promised(c)
RunsKnown == \A r \in Runs : RunKnown(run[r])
Waiting == \A k \in Tasks : task[k].kind = "lookup" => run[task[k].run].resume

Told == published \/ \E k \in steady : task[k].pc = "deleted"
RowsFollow ==
  Told => /\ \A c \in Convs : HasRow(c) => GetsKnown(c)
          /\ \A r \in Runs : Resumes(run[r]) => GetsKnown(run[r].conv)

Following ==
  /\ SaysOne /\ ServerRowsTrue /\ Refreshing /\ SessionsFollow
  /\ UnderThread /\ Indexed /\ RunsKnown /\ Waiting /\ RowsFollow
FollowInv == IndexInv /\ Following

-----------------------------------------------------------------------------
(* The ends of a queue.                                                    *)

LEMMA QueueAppend ==
  ASSUME NEW S, NEW q \in Seq(S), NEW m \in S
  PROVE  /\ DOMAIN Append(q, m) = DOMAIN q \cup {Len(q) + 1} /\ Len(q) + 1 \notin DOMAIN q
         /\ \A i \in DOMAIN q : i < Len(q) + 1 /\ Append(q, m)[i] = q[i]
         /\ Append(q, m)[Len(q) + 1] = m
<1> DEFINE r == Append(q, m)
<1>1. r \in Seq(S) /\ Len(q) \in Nat /\ Len(r) = Len(q) + 1 /\ r[Len(q) + 1] = m
      /\ \A i \in 1 .. Len(q) : r[i] = q[i]
  BY AppendProperties, LenProperties
<1> HIDE DEF r
<1>2. DOMAIN r = 1 .. Len(q) + 1 /\ DOMAIN q = 1 .. Len(q)
  BY <1>1, LenProperties
<1>3. 1 .. Len(q) + 1 = (1 .. Len(q)) \cup {Len(q) + 1} /\ Len(q) + 1 \notin 1 .. Len(q)
  BY <1>1
<1>4. \A i \in 1 .. Len(q) : i < Len(q) + 1
  BY <1>1
<1>5. QED
  BY <1>1, <1>2, <1>3, <1>4 DEF r

LEMMA QueueTail ==
  ASSUME NEW S, NEW q \in Seq(S), q # <<>>
  PROVE  /\ Head(q) = q[1] /\ 1 \in DOMAIN q /\ Head(q) \in S
         /\ \A i \in DOMAIN Tail(q) : i + 1 \in DOMAIN q /\ Tail(q)[i] = q[i + 1]
         /\ \A i \in DOMAIN q \ {1} : i - 1 \in DOMAIN Tail(q) /\ Tail(q)[i - 1] = q[i]
         /\ \A i \in DOMAIN q : i \in Int /\ i >= 1
<1>1. /\ Len(q) \in Nat \ {0} /\ DOMAIN q = 1 .. Len(q) /\ Head(q) = q[1] /\ Head(q) \in S
      /\ Tail(q) \in Seq(S) /\ Len(Tail(q)) = Len(q) - 1 /\ \A i \in 1 .. Len(Tail(q)) : Tail(q)[i] = q[i + 1]
  BY HeadTailProperties, LenProperties, EmptySeq
<1>2. DOMAIN Tail(q) = 1 .. Len(q) - 1
  BY <1>1, LenProperties
<1>3. \A i \in 1 .. Len(q) - 1 : i + 1 \in 1 .. Len(q)
  BY <1>1
<1>4. ASSUME NEW i \in (1 .. Len(q)) \ {1} PROVE i - 1 \in 1 .. Len(q) - 1 /\ (i - 1) + 1 = i
  BY <1>1
<1>5. QED
  BY <1>1, <1>2, <1>3, <1>4

LEMMA EmptyQueue == DOMAIN <<>> = {}
BY EmptySeq

-----------------------------------------------------------------------------
(* What is on its way stays on its way.                                    *)

LEMMA GoesOn ==
  ASSUME WiresTyped, NEW m \in Message, net' = Append(net, m), NEW c \in Convs,
         UNCHANGED srvSessions
  PROVE  /\ GoesLive(c) /\ ~Deletes(m, c) => GoesLive(c)'
         /\ Lists(m, c) => GoesLive(c)'
<1> DEFINE n == Len(net) + 1
<1>1. /\ DOMAIN net' = DOMAIN net \cup {n} /\ n \notin DOMAIN net
      /\ \A i \in DOMAIN net : i < n /\ net'[i] = net[i]
      /\ net'[n] = m
  BY QueueAppend DEF WiresTyped
<1> HIDE DEF n
<1>2. ASSUME GoesLive(c), ~Deletes(m, c) PROVE GoesLive(c)'
  <2>1. CASE srvSessions[c] = "live" /\ \A i \in DOMAIN net : ~Deletes(net[i], c)
    BY <1>1, <1>2, <2>1 DEF GoesLive, Deletes
  <2>2. CASE \E i \in DOMAIN net : Lists(net[i], c) /\ \A j \in DOMAIN net : Deletes(net[j], c) => j < i
    BY <1>1, <1>2, <2>2 DEF GoesLive, Deletes, Lists
  <2>3. QED
    BY <1>2, <2>1, <2>2 DEF GoesLive
<1>3. ASSUME Lists(m, c) PROVE GoesLive(c)'
  BY <1>1, <1>3 DEF GoesLive, Deletes, Lists
<1>4. QED
  BY <1>2, <1>3

LEMMA NamedOn ==
  ASSUME WiresTyped, NEW m \in Message, net' = Append(net, m), NEW c \in Convs
  PROVE  /\ \A i \in DOMAIN net : Names(net[i], c) => \E j \in DOMAIN net' : Names(net'[j], c)
         /\ Names(m, c) => \E j \in DOMAIN net' : Names(net'[j], c)
BY QueueAppend DEF WiresTyped, Names

LEMMA ComingOn ==
  ASSUME WiresTyped, NEW e \in SessionUpdate, events' = Append(events, e), NEW c \in Convs,
         UNCHANGED srvRows
  PROVE  /\ Promised(c) => Promised(c)'
         /\ e.create /\ e.session \in IdsOf(c) => Promised(c)'
BY QueueAppend DEF WiresTyped, Promised, RowKnown, IdsOf

LEMMA SaysOneOn ==
  ASSUME WiresTyped, SaysOne,
         \/ events' = events
         \/ \E e \in SessionUpdate : OfOne(e) /\ events' = Append(events, e),
         \/ net' = net
         \/ \E m \in Message : /\ net' = Append(net, m)
                               /\ m.kind = "runtime" => \A x \in m.rows : OfOne(x)
  PROVE  SaysOne'
<1>1. \A i \in DOMAIN events' : OfOne(events'[i])
  <2>1. CASE events' = events
    BY <2>1 DEF SaysOne
  <2>2. ASSUME NEW e \in SessionUpdate, OfOne(e), events' = Append(events, e)
        PROVE  \A i \in DOMAIN events' : OfOne(events'[i])
    BY <2>2, QueueAppend DEF SaysOne, WiresTyped
  <2>3. QED
    BY <2>1, <2>2
<1>2. \A i \in DOMAIN net' : net'[i].kind = "runtime" => \A x \in net'[i].rows : OfOne(x)
  <2>1. CASE net' = net
    BY <2>1 DEF SaysOne
  <2>2. ASSUME NEW m \in Message, net' = Append(net, m), m.kind = "runtime" => \A x \in m.rows : OfOne(x)
        PROVE  \A i \in DOMAIN net' : net'[i].kind = "runtime" => \A x \in net'[i].rows : OfOne(x)
    BY <2>2, QueueAppend DEF SaysOne, WiresTyped
  <2>3. QED
    BY <2>1, <2>2
<1>3. QED
  BY <1>1, <1>2 DEF SaysOne, OfOne


-----------------------------------------------------------------------------
(* What the parts depend on.                                               *)

LEMMA SaysFrame ==
  /\ SaysOne /\ UNCHANGED <<events, net>> => SaysOne'
  /\ ServerRowsTrue /\ UNCHANGED srvRows => ServerRowsTrue'
BY DEF SaysOne, OfOne, ServerRowsTrue

(* No scan starts to send, and a steady one that sends saw the same disk.  *)
LEMMA RefreshingFrame ==
  ASSUME Refreshing,
         \A j \in Tasks : Sends(task'[j]) =>
           /\ Sends(task[j]) /\ task'[j].deleted = task[j].deleted /\ task'[j].found = task[j].found
           /\ j \in steady' => j \in steady /\ UNCHANGED <<disk, mounted>>
  PROVE  Refreshing'
BY DEF Refreshing, FoundBy, Sends, OnDisk

LEMMA SessionsFollowFrame ==
  ASSUME SessionsFollow, Listed' => Listed /\ UNCHANGED <<disk, mounted>>,
         \A c \in Convs : OnDisk(c) /\ GoesLive(c) => GoesLive(c)'
  PROVE  SessionsFollow'
BY DEF SessionsFollow, OnDisk

LEMMA LivesFrame ==
  ASSUME UNCHANGED <<srvSessions, net>>
  PROVE  \A c \in Convs : GoesLive(c) => GoesLive(c)'
BY DEF GoesLive

LEMMA PromiseFrame ==
  ASSUME UNCHANGED <<srvRows, events>>
  PROVE  \A c \in Convs : (RowKnown(c) => RowKnown(c)') /\ (Promised(c) => Promised(c)')
BY DEF Promised, RowKnown, IdsOf

LEMMA HasRowFrame ==
  ASSUME UNCHANGED rows
  PROVE  \A c \in Convs : (HasRow(c)' <=> HasRow(c)) /\ (Stored(Thread[c])' <=> Stored(Thread[c]))
BY DEF HasRow, Stored

(* What is promised stays so, a row that goes is one the server knows, and *)
(* a run that goes on is known.                                            *)
LEMMA GroundedFrame ==
  ASSUME UnderThread, Indexed, RunsKnown, RunsTyped, Running,
         \A c \in Convs : (RowKnown(c) => RowKnown(c)') /\ (Promised(c) => Promised(c)'),
         \A c \in Convs : HasRow(c) => HasRow(c)' \/ Promised(c)',
         \A c \in Convs : Thread[c] # c /\ Stored(Thread[c])' => Stored(Thread[c]) \/ Promised(c)',
         \A c \in Convs : sessions'[c].state # "none" => sessions[c].state # "none" \/ HasRow(c)',
         \A r \in Runs : run'[r] = run[r] \/ RunKnown(run[r])'
  PROVE  UnderThread' /\ Indexed' /\ RunsKnown'
<1>1. UnderThread'
  BY DEF UnderThread
<1>2. Indexed'
  BY DEF Indexed
<1>3. ASSUME NEW r \in Runs PROVE RunKnown(run[r])'
  <2>1. CASE run'[r] = run[r]
    <3>1. RunKnown(run[r]) /\ (run[r].pc # "new" => run[r].conv \in Convs)
      BY DEF RunsKnown, Running, RunsTrue
    <3>2. QED
      BY <2>1, <3>1 DEF RunKnown, Resumes
  <2>2. QED
    BY <2>1
<1>4. QED
  BY <1>1, <1>2, <1>3 DEF RunsKnown

LEMMA GetsKnownFrame ==
  ASSUME UNCHANGED <<disk, mounted>>,
         \A c \in Convs : Promised(c) => Promised(c)',
         UNCHANGED net \/ (net \in Seq(Message) /\ \E m \in Message : net' = Append(net, m))
  PROVE  \A c \in Convs : GetsKnown(c) => GetsKnown(c)'
<1>1. SUFFICES ASSUME NEW c \in Convs, GetsKnown(c) PROVE GetsKnown(c)'
  OBVIOUS
<1>2. CASE Promised(c) \/ OnDisk(c)
  BY <1>2 DEF GetsKnown, OnDisk
<1>3. ASSUME NEW i \in DOMAIN net, Names(net[i], c) PROVE \E j \in DOMAIN net' : Names(net'[j], c)
  <2>1. CASE UNCHANGED net
    BY <1>3, <2>1
  <2>2. ASSUME NEW m \in Message, net \in Seq(Message), net' = Append(net, m)
        PROVE  \E j \in DOMAIN net' : Names(net'[j], c)
    BY <1>3, <2>2, QueueAppend
  <2>3. QED
    BY <2>1, <2>2
<1>4. QED
  BY <1>1, <1>2, <1>3 DEF GetsKnown, Names

LEMMA RowsFollowFrame ==
  ASSUME RowsFollow, Told' => Told, RunsTyped', Running',
         \A c \in Convs : GetsKnown(c) => GetsKnown(c)',
         \A c \in Convs : HasRow(c)' /\ Told' => HasRow(c) \/ GetsKnown(c)',
         \A r \in Runs : Resumes(run'[r]) /\ Told' =>
           GetsKnown(run[r].conv)' \/ (Resumes(run[r]) /\ run'[r].conv = run[r].conv)
  PROVE  RowsFollow'
<1>1. \A r \in Runs : Resumes(run'[r]) => run'[r].conv \in Convs
  BY DEF Running, RunsTrue, Resumes
<1>2. QED
  BY <1>1 DEF RowsFollow

(* Nothing has been sent that would count.                                 *)
LEMMA Untold ==
  ASSUME published' = FALSE, \A j \in steady' : ~Sends(task'[j])
  PROVE  ~Listed' /\ ~Told' /\ SessionsFollow' /\ RowsFollow'
BY DEF Listed, Told, Sends, SessionsFollow, RowsFollow

LEMMA WaitingFrame ==
  ASSUME Waiting, Reading, LookingUp,
         \A j \in Tasks : task'[j].kind = "lookup" =>
           run'[task'[j].run].resume \/ (task[j].kind = "lookup" /\ task'[j].run = task[j].run),
         \A r \in Runs : run[r].pc # "new" => run'[r].resume = run[r].resume
  PROVE  Waiting'
BY DEF Waiting, Reading, Reads, LookingUp

-----------------------------------------------------------------------------
(* Steps that send, save and deliver nothing.                              *)

LEMMA InitFollow == Init => Following
<1> SUFFICES ASSUME Init PROVE Following
  OBVIOUS
<1>1. /\ task = [k \in Tasks |-> Idle] /\ run = [r \in Runs |-> NewRun] /\ events = <<>> /\ net = <<>>
      /\ steady = {} /\ published = FALSE /\ rows = [id \in Ids |-> None]
      /\ srvRows = [id \in Ids |-> SrvNone]
      /\ sessions = [c \in Convs |-> [state |-> "none", root |-> Unseen.root]]
  BY DEF Init
<1>2. SaysOne /\ ServerRowsTrue
  BY <1>1, EmptyQueue DEF SaysOne, ServerRowsTrue
<1>3. Refreshing /\ SessionsFollow /\ RowsFollow
  BY <1>1, Nothing DEF Refreshing, Sends, SessionsFollow, Listed, RowsFollow, Told
<1>4. UnderThread /\ Indexed
  BY <1>1, Identity DEF UnderThread, Indexed, Stored
<1>5. RunsKnown /\ Waiting
  BY <1>1, Nothing DEF RunsKnown, RunKnown, Resumes, Waiting
<1>6. QED
  BY <1>2, <1>3, <1>4, <1>5 DEF Following

(* A scan that starts or walks, a run that goes on.                        *)
LEMMA QuietStep ==
  ASSUME IndexInv, IndexInv', Following,
         UNCHANGED <<disk, mounted, agent, events, net, server, published>>,
         \A j \in Tasks : Sends(task'[j]) => task'[j] = task[j] /\ (j \in steady' => j \in steady),
         \A j \in Tasks : task'[j].kind = "lookup" =>
           run'[task'[j].run].resume \/ (task[j].kind = "lookup" /\ task'[j].run = task[j].run),
         \A r \in Runs : run[r].pc # "new" => run'[r].resume = run[r].resume,
         \A r \in Runs : run'[r] = run[r] \/ RunKnown(run[r])',
         \A r \in Runs : Resumes(run'[r]) =>
           GetsKnown(run[r].conv)' \/ (Resumes(run[r]) /\ run'[r].conv = run[r].conv)
  PROVE  Following'
<1>1. /\ RunsTyped /\ Running /\ RunsTyped' /\ Running' /\ Reading /\ LookingUp
      /\ TasksTyped'
      /\ UNCHANGED <<rows, sessions, srvSessions, srvRows>>
      /\ SaysOne /\ ServerRowsTrue /\ Refreshing /\ SessionsFollow /\ UnderThread /\ Indexed
      /\ RunsKnown /\ Waiting /\ RowsFollow
  BY DEF IndexInv, Typed, Indexing, Following, agent, server
<1>2. /\ \A c \in Convs : (RowKnown(c) => RowKnown(c)') /\ (Promised(c) => Promised(c)')
      /\ \A c \in Convs : (HasRow(c)' <=> HasRow(c)) /\ (Stored(Thread[c])' <=> Stored(Thread[c]))
  BY <1>1, PromiseFrame, HasRowFrame
<1>3. (Listed' => Listed) /\ (Told' => Told)
  <2>1. \A j \in steady' : Sends(task'[j]) => j \in steady /\ task'[j] = task[j]
    BY <1>1 DEF TasksTyped
  <2>2. QED
    BY <2>1 DEF Listed, Told, Sends
<1>4. SaysOne' /\ ServerRowsTrue' /\ Refreshing'
  BY <1>1, SaysFrame, RefreshingFrame
<1>5. SessionsFollow'
  BY <1>1, <1>3, LivesFrame, SessionsFollowFrame
<1>6. UnderThread' /\ Indexed' /\ RunsKnown'
  BY <1>1, <1>2, GroundedFrame
<1>7. Waiting'
  BY <1>1, WaitingFrame
<1>8. RowsFollow'
  BY <1>1, <1>2, <1>3, GetsKnownFrame, RowsFollowFrame
<1>9. QED
  BY <1>4, <1>5, <1>6, <1>7, <1>8 DEF Following

(* A change of the disk, a new session, a lost connection: what was sent   *)
(* does not count any more.                                                *)
LEMMA SpoiledStep ==
  ASSUME IndexInv, IndexInv', Following, published' = FALSE,
         UNCHANGED <<agent, events, server>>, SaysOne',
         steady' = {} \/ (UNCHANGED <<disk, mounted>> /\ steady' = steady \ Sending),
         \A j \in Tasks : task'[j] = task[j] \/ task'[j] = Idle,
         \A r \in Runs : run[r].pc # "new" => run'[r].resume = run[r].resume,
         \A r \in Runs : run'[r] = run[r] \/ RunKnown(run[r])'
  PROVE  Following'
<1>1. /\ RunsTyped /\ Running /\ Reading /\ LookingUp /\ TasksTyped
      /\ UNCHANGED <<rows, sessions, srvRows>>
      /\ ServerRowsTrue /\ Refreshing /\ UnderThread /\ Indexed /\ RunsKnown /\ Waiting
  BY DEF IndexInv, Typed, Indexing, Following, agent, server
<1>2. /\ \A c \in Convs : (RowKnown(c) => RowKnown(c)') /\ (Promised(c) => Promised(c)')
      /\ \A c \in Convs : (HasRow(c)' <=> HasRow(c)) /\ (Stored(Thread[c])' <=> Stored(Thread[c]))
  BY <1>1, PromiseFrame, HasRowFrame
<1>3. ~Sends(Idle) /\ Idle.kind # "lookup"
  BY Nothing DEF Sends
<1>4. ServerRowsTrue' /\ Refreshing'
  BY <1>1, <1>3, SaysFrame, RefreshingFrame
<1>5. SessionsFollow' /\ RowsFollow'
  <2>1. \A j \in steady' : ~Sends(task'[j])
    BY <1>1, <1>3 DEF Sends, Sending, TasksTyped
  <2>2. QED
    BY <2>1, Untold
<1>6. UnderThread' /\ Indexed' /\ RunsKnown'
  BY <1>1, <1>2, GroundedFrame
<1>7. Waiting'
  BY <1>1, <1>3, WaitingFrame
<1>8. QED
  BY <1>4, <1>5, <1>6, <1>7 DEF Following

LEMMA DiskFollow ==
  ASSUME IndexInv, IndexInv', Following, Disturb,
         \A r \in Runs : run[r].pc # "new" => run'[r].resume = run[r].resume,
         \A r \in Runs : run'[r] = run[r] \/ RunKnown(run[r])'
  PROVE  Following'
<1>1. /\ published' = FALSE /\ steady' = {} /\ UNCHANGED <<agent, task, events, net, server>>
  BY DEF Disturb
<1>2. SaysOne'
  BY <1>1, SaysFrame DEF Following
<1>3. QED
  BY <1>1, <1>2, SpoiledStep

LEMMA StartNewFollow ==
  ASSUME IndexInv, IndexInv', Following, NEW r \in Runs, StartNew(r)
  PROVE  Following'
<1>1. RunsTyped /\ Disturb /\ run[r].pc = "new"
  BY DEF IndexInv, Typed, StartNew
<1>2. PICK c \in Convs : Started(r, c, Thread[c], Thread[c], FALSE)
  BY IndexAssumption DEF IndexInv, Typed, CountsTyped, StartNew
<1>3. /\ \A q \in Runs \ {r} : run'[q] = run[q]
      /\ run'[r].pc = "select" /\ run'[r].resume = FALSE
  BY <1>1, <1>2 DEF Started, RunsTyped, Execution
<1>4. RunKnown(run[r])'
  BY <1>3 DEF RunKnown, Resumes
<1>5. QED
  BY <1>1, <1>3, <1>4, DiskFollow

LEMMA DropFollow ==
  ASSUME IndexInv, IndexInv', Following, Drop
  PROVE  Following'
<1>1. /\ TasksTyped /\ net' = <<>> /\ steady' = steady \ Sending /\ published' = FALSE
      /\ UNCHANGED <<disk, mounted, agent, run, events, server>>
  BY DEF IndexInv, Typed, Drop
<1>2. \A j \in Tasks : task'[j] = task[j] \/ task'[j] = Idle
  BY DEF Drop
<1>3. SaysOne'
  BY <1>1, EmptyQueue DEF Following, SaysOne, OfOne
<1>4. QED
  BY <1>1, <1>2, <1>3, SpoiledStep

LEMMA AgentStopsFollow ==
  ASSUME IndexInv, IndexInv', Following, AgentStops
  PROVE  Following'
<1>1. /\ RunsTyped /\ net' = <<>> /\ steady' = {} /\ published' = FALSE
      /\ task' = [k \in Tasks |-> Idle] /\ UNCHANGED <<disk, mounted, server>>
      /\ SaysOne /\ ServerRowsTrue /\ RunsKnown /\ Running
  BY DEF IndexInv, Typed, Indexing, Following, AgentStops
<1>2. \A j \in Tasks : task'[j] = Idle
  BY <1>1
<1>3. \A r \in Runs : /\ run'[r].resume = run[r].resume /\ run'[r].conv = run[r].conv
                      /\ run'[r].key = run[r].key
                      /\ run'[r] = run[r] \/ (run[r].pc # "new" /\ run'[r].pc = "failed")
  <2>1. ASSUME NEW kept, "new" \in kept, run' = Stopped(kept), NEW r \in Runs
        PROVE  /\ run'[r].resume = run[r].resume /\ run'[r].conv = run[r].conv
               /\ run'[r].key = run[r].key
               /\ run'[r] = run[r] \/ (run[r].pc # "new" /\ run'[r].pc = "failed")
    BY <1>1, <2>1 DEF Stopped, RunsTyped, Execution
  <2>2. QED
    BY <2>1 DEF AgentStops
<1>4. \A c \in Convs : RowKnown(c) => RowKnown(c)'
  BY <1>1 DEF RowKnown, server, IdsOf
<1>5. ASSUME NEW r \in Runs, run'[r] # run[r] PROVE RunKnown(run[r])'
  <2>1. /\ RunKnown(run[r]) /\ run[r].pc # "new" /\ run[r].conv \in Convs /\ run'[r].pc = "failed"
        /\ run'[r].resume = run[r].resume /\ run'[r].conv = run[r].conv /\ run'[r].key = run[r].key
    BY <1>1, <1>3, <1>5 DEF RunsKnown, Running, RunsTrue
  <2>2. QED
    BY <1>4, <2>1 DEF RunKnown, Resumes
<1>6. CASE UNCHANGED <<agent, events>>
  <2>1. SaysOne'
    BY <1>1, <1>6, EmptyQueue DEF SaysOne, OfOne
  <2>2. QED
    BY <1>1, <1>2, <1>3, <1>5, <1>6, <2>1, SpoiledStep
<1>7. CASE /\ run' = Stopped({"new", "synced"}) /\ events' = <<>>
           /\ sessions' = [c \in Convs |-> [state |-> "none", root |-> Unseen.root]]
           /\ rows' = [id \in Ids |-> None]
  <2>1. SaysOne' /\ ServerRowsTrue'
    BY <1>1, <1>7, EmptyQueue, SaysFrame DEF SaysOne, server
  <2>2. ~Sends(Idle) /\ Idle.kind # "lookup"
    BY Nothing DEF Sends
  <2>3. Refreshing' /\ Waiting'
    BY <1>2, <2>2 DEF Refreshing, Waiting
  <2>4. SessionsFollow' /\ RowsFollow'
    BY <1>1, Untold
  <2>5. UnderThread' /\ Indexed'
    BY <1>7, Identity DEF UnderThread, Indexed, Stored
  <2>6. ASSUME NEW r \in Runs, run'[r] = run[r] PROVE RunKnown(run[r])'
    <3>1. run[r].pc \in {"new", "synced", "failed"}
      BY <1>7, <2>6, <1>1 DEF Stopped, RunsTyped, Execution
    <3>2. RunKnown(run[r]) /\ (run[r].pc # "new" => run[r].conv \in Convs)
      BY <1>1 DEF RunsKnown, Running, RunsTrue
    <3>3. QED
      BY <1>4, <2>6, <3>1, <3>2 DEF RunKnown, Resumes
  <2>7. RunsKnown'
    BY <1>5, <2>6 DEF RunsKnown
  <2>8. QED
    BY <2>1, <2>3, <2>4, <2>5, <2>7 DEF Following
<1>8. QED
  BY <1>6, <1>7 DEF AgentStops

-----------------------------------------------------------------------------
(* Scans start and walk; runs go on.                                       *)

LEMMA BeginFollow ==
  ASSUME IndexInv, IndexInv', Following, NEW k \in Tasks,
         NEW kind \in {"refresh", "history", "lookup"}, NEW r, NEW target,
         Begin(k, kind, r, target), kind = "lookup" => run'[r].resume,
         UNCHANGED <<disk, mounted, agent, events, net, server, published>>,
         \A q \in Runs : run[q].pc # "new" => run'[q].resume = run[q].resume,
         \A q \in Runs : run'[q] = run[q] \/ RunKnown(run[q])',
         \A q \in Runs : Resumes(run'[q]) => Resumes(run[q]) /\ run'[q].conv = run[q].conv
  PROVE  Following'
<1> DEFINE x == [Idle EXCEPT !.kind = kind, !.pc = "walk", !.run = r, !.target = target]
<1>1. task' = [task EXCEPT ![k] = x] /\ steady' = steady \cup {k} /\ TasksTyped
  BY DEF Begin, IndexInv, Typed
<1>2. x.pc = "walk" /\ x.kind = kind /\ x.run = r
  BY Nothing DEF Scan
<1> HIDE DEF x
<1>3. \A j \in Tasks : task'[j] = IF j = k THEN x ELSE task[j]
  BY <1>1 DEF TasksTyped
<1>4. QED
  BY <1>1, <1>2, <1>3, QuietStep DEF Sends

LEMMA ScansFollow ==
  ASSUME IndexInv, IndexInv', Following, NEW k \in Tasks, StartRefresh(k) \/ Walk(k)
  PROVE  Following'
<1>1. CASE StartRefresh(k)
  <2>1. /\ Begin(k, "refresh", NoRun, Idle.target)
        /\ UNCHANGED <<disk, mounted, agent, run, events, net, server, published>>
    BY <1>1 DEF StartRefresh
  <2>2. QED
    BY <2>1, BeginFollow
<1>2. CASE Walk(k)
  <2>1. /\ TasksTyped /\ task[k].pc = "walk" /\ UNCHANGED <<steady, published>>
        /\ UNCHANGED <<disk, mounted, agent, run, events, net, server>>
    BY <1>2 DEF IndexInv, Typed, Walk, history
  <2> DEFINE place == Places[task[k].at]
             root == RootOf[place]
             first == \A i \in 1 .. task[k].at - 1 : RootOf[Places[i]] # root
             readable == root \in mounted /\ (first \/ root \in task[k].roots)
             roots == IF first /\ root \in mounted THEN task[k].roots \cup {root} ELSE task[k].roots
             found == [c \in Convs |-> IF readable /\ disk[c].place = place
                                       THEN SessionFromFile(c, root) ELSE task[k].found[c]]
             x == [task[k] EXCEPT !.at = task[k].at + 1, !.roots = roots, !.found = found]
  <2>2. task' = [task EXCEPT ![k] = x]
    BY <1>2, <2>1 DEF Walk, TasksTyped
  <2> HIDE DEF roots, found
  <2>3. x.pc = task[k].pc /\ x.kind = task[k].kind /\ x.run = task[k].run
    BY <2>1 DEF TasksTyped, Scan
  <2> HIDE DEF x
  <2>4. \A j \in Tasks : /\ task'[j].pc = task[j].pc /\ task'[j].kind = task[j].kind
                         /\ task'[j].run = task[j].run /\ (j # k => task'[j] = task[j])
    BY <2>1, <2>2, <2>3 DEF TasksTyped
  <2>5. QED
    BY <2>1, <2>4, QuietStep DEF Sends
<1>3. QED
  BY <1>1, <1>2

(* The row a run is about to write leads to a conversation that is there.  *)
LEMMA ResolvedKnown ==
  ASSUME IndexInv, Following, NEW c \in Convs, NEW id \in IdsOf(c), Resolve(id) # {}
  PROVE  HasRow(c) \/ Promised(c)
<1>1. RowsTrue /\ Indexed
  BY DEF IndexInv, Indexing, Following
<1>2. ASSUME NEW k \in ByIdOrNative(id) PROVE HasRow(c)
  <2>1. k \in Ids /\ Stored(k) /\ (k = id \/ rows[k].native = id)
    BY <1>2 DEF ByIdOrNative
  <2>2. PICK d \in Convs : k \in IdsOf(d)
    BY <2>1, Identity
  <2>3. rows[k].native \in IdsOf(d)
    BY <1>1, <2>1, <2>2 DEF RowsTrue, IdsOf
  <2>4. d = c
    BY <2>1, <2>2, <2>3, Identity
  <2>5. QED
    BY <2>1, <2>2, <2>4 DEF HasRow, IdsOf
<1>3. CASE ByIdOrNative(id) = {}
  <2>1. id \in Convs /\ sessions[id].state = "live"
    BY <1>3 DEF Resolve
  <2>2. id = c
    BY <2>1, Identity DEF IdsOf
  <2>3. QED
    BY <1>1, <2>1, <2>2 DEF Indexed
<1>4. QED
  BY <1>2, <1>3

(* An id the server knows that is not the file's is in a row of it.        *)
LEMMA KnownThread ==
  ASSUME Following, NEW id \in Ids, ServerKnows(id), id # ConvOf(id)
  PROVE  RowKnown(ConvOf(id))
<1>1. ServerRowsTrue /\ ConvOf(id) \in Convs /\ id \in IdsOf(ConvOf(id))
  BY Identity DEF Following
<1>2. id \notin Convs
  BY <1>1, Identity
<1>3. PICK s \in Ids : srvRows[s] # SrvNone /\ id \in {srvRows[s].session, srvRows[s].native}
  BY <1>2 DEF ServerKnows
<1>4. id \in IdsOf(ConvOf(s)) /\ ConvOf(s) \in Convs /\ s \in IdsOf(ConvOf(s))
  BY <1>1, <1>3, Identity DEF ServerRowsTrue
<1>5. ConvOf(s) = ConvOf(id)
  BY <1>1, <1>4, Identity
<1>6. QED
  BY <1>3, <1>4, <1>5 DEF RowKnown

LEMMA OneRunFollows ==
  ASSUME IndexInv, IndexInv', Following, NEW r \in Runs, NEW x \in Execution,
         run' = [run EXCEPT ![r] = x], run[r].pc # "new" => x.resume = run[r].resume,
         RunKnown(x), Resumes(x) => (Resumes(run[r]) /\ x.conv = run[r].conv) \/ OnDisk(x.conv),
         UNCHANGED <<disk, mounted, agent, task, events, net, server, history>>
  PROVE  Following'
<1>1. /\ RunsTyped /\ RunsTyped' /\ Running' /\ TasksTyped /\ Waiting /\ Reading /\ LookingUp
      /\ UNCHANGED <<steady, published, srvRows, rows>>
  BY DEF IndexInv, Typed, Indexing, Following, history, server, agent
<1>2. \A q \in Runs : run'[q] = IF q = r THEN x ELSE run[q]
  BY <1>1 DEF RunsTyped
<1>3. RunKnown(run[r])'
  <2>1. x.pc # "new" => x.conv \in Convs
    <3>1. run'[r].pc # "new" => run'[r].conv \in Convs
      BY <1>1 DEF Running, RunsTrue
    <3>2. QED
      BY <1>2, <3>1
  <2>2. QED
    BY <1>1, <1>2, <2>1, PromiseFrame, HasRowFrame DEF RunKnown, Resumes
<1>4. OnDisk(x.conv) => GetsKnown(run[r].conv)'
  BY <1>2 DEF GetsKnown, OnDisk
<1>5. QED
  BY <1>1, <1>2, <1>3, <1>4, QuietStep

LEMMA ResumeFollow ==
  ASSUME IndexInv, IndexInv', Following, NEW r \in Runs, Resume(r)
  PROVE  Following'
<1>1. run[r] \in Execution /\ run[r].pc = "new"
      /\ UNCHANGED <<disk, mounted, agent, task, events, net, server, history>>
  BY DEF IndexInv, Typed, RunsTyped, Resume
<1>2. PICK id \in Ids :
        /\ ServerKnows(id)
        /\ run' = [run EXCEPT ![r] = [@ EXCEPT !.pc = "lookup", !.id = id, !.key = id,
                                            !.conv = ConvOf(id), !.resume = TRUE]]
  BY DEF Resume
<1> DEFINE x == [run[r] EXCEPT !.pc = "lookup", !.id = id, !.key = id, !.conv = ConvOf(id),
                               !.resume = TRUE]
<1>3. ConvOf(id) \in Convs /\ id \in Refs
  BY Identity DEF Refs
<1>4. x \in Execution /\ run' = [run EXCEPT ![r] = x]
  BY <1>1, <1>2, <1>3 DEF Execution, RunPC
<1>5. x.pc = "lookup" /\ x.key = id /\ x.conv = ConvOf(id) /\ x.resume = TRUE
  BY <1>1 DEF Execution
<1> HIDE DEF x
<1>6. RunKnown(x) /\ ~Resumes(x)
  BY <1>2, <1>5, KnownThread DEF RunKnown, Resumes
<1>7. QED
  BY <1>1, <1>4, <1>6, OneRunFollows

LEMMA RefreshedFollow ==
  ASSUME IndexInv, IndexInv', Following, NEW r \in Runs, Refreshed(r)
  PROVE  Following'
<1>1. /\ RunsTyped /\ run[r] \in Execution /\ run[r].pc = "lookup"
      /\ run' = [run EXCEPT ![r].pc = "refresh"] /\ RunKnown(run[r])
      /\ UNCHANGED <<disk, mounted, agent, events, net, server, published>>
  BY DEF IndexInv, Typed, RunsTyped, Following, RunsKnown, Refreshed
<1>2. /\ \A q \in Runs \ {r} : run'[q] = run[q]
      /\ run'[r].pc = "refresh" /\ run'[r].resume = run[r].resume /\ run'[r].key = run[r].key
      /\ run'[r].conv = run[r].conv
  BY <1>1 DEF RunsTyped, Execution
<1>3. run[r].resume /\ run[r].conv \in Convs
  BY <1>1 DEF RunKnown, IndexInv, Indexing, Running, RunsTrue
<1>4. RunKnown(run[r])'
  BY <1>1, <1>2, <1>3, PromiseFrame DEF RunKnown, Resumes, server
<1>5. PICK k \in Tasks : Begin(k, "lookup", r, Idle.target)
  BY DEF Refreshed
<1>6. QED
  BY <1>1, <1>2, <1>3, <1>4, <1>5, BeginFollow DEF Resumes

LEMMA AfterRunFollow ==
  ASSUME IndexInv, IndexInv', Following, NEW r \in Runs, AfterRun(r)
  PROVE  Following'
<1>1. /\ RunsTyped /\ run[r] \in Execution /\ run[r].pc = "ended"
      /\ run' = [run EXCEPT ![r].pc = "synced"] /\ RunKnown(run[r])
      /\ UNCHANGED <<disk, mounted, agent, events, net, server, published>>
  BY DEF IndexInv, Typed, RunsTyped, Following, RunsKnown, AfterRun
<1>2. /\ \A q \in Runs \ {r} : run'[q] = run[q]
      /\ run'[r].pc = "synced" /\ run'[r].resume = run[r].resume /\ run'[r].key = run[r].key
      /\ run'[r].conv = run[r].conv
  BY <1>1 DEF RunsTyped, Execution
<1>3. run[r].conv \in Convs
  BY <1>1 DEF IndexInv, Indexing, Running, RunsTrue
<1>4. RunKnown(run[r])'
  BY <1>1, <1>2, <1>3, PromiseFrame DEF RunKnown, Resumes, server
<1>5. PICK k \in Tasks, t \in Targets(r) : Begin(k, "history", r, t)
  BY DEF AfterRun
<1>6. QED
  BY <1>1, <1>2, <1>4, <1>5, BeginFollow DEF Resumes

LEMMA ResolvedFollow ==
  ASSUME IndexInv, IndexInv', Following, NEW r \in Runs, Resolved(r)
  PROVE  Following'
<1> DEFINE c == run[r].conv
<1>1. /\ run[r] \in Execution /\ run[r].pc \in {"retry", "lookup"} /\ RunKnown(run[r])
      /\ c \in Convs /\ run[r].id \in IdsOf(c) /\ run[r].id \in Refs /\ run[r].key \in Refs
      /\ UNCHANGED <<disk, mounted, agent, task, events, net, server, history>>
  BY DEF IndexInv, Typed, Indexing, Following, RunsTyped, RunsKnown, Running, RunsTrue, Resolved, Execution
<1>2. run[r].resume = TRUE
  BY <1>1 DEF RunKnown, Execution
<1>3. CASE Resolve(run[r].id) # {} /\ OnDisk(c) /\ Started(r, c, run[r].id, run[r].key, TRUE)
  <2> DEFINE x == [run[r] EXCEPT !.pc = "select", !.conv = c, !.id = run[r].id,
                     !.key = run[r].key, !.resume = TRUE,
                     !.row = [native |-> Thread[c], run |-> r]]
  <2>1. run' = [run EXCEPT ![r] = x]
    BY <1>3 DEF Started
  <2>2. [native |-> Thread[c], run |-> r] \in Row
    BY <1>1, Identity DEF Row, Refs
  <2>3. x \in Execution /\ x.pc = "select" /\ x.resume = TRUE /\ x.conv = c /\ x.key = run[r].key
    BY <1>1, <2>2 DEF Execution, RunPC
  <2> HIDE DEF x, c
  <2>4. HasRow(c) \/ Promised(c)
    BY <1>1, <1>3, ResolvedKnown
  <2>5. RunKnown(x)
    BY <1>1, <1>2, <2>3, <2>4 DEF RunKnown, c
  <2>6. QED
    BY <1>1, <1>2, <1>3, <2>1, <2>3, <2>5, OneRunFollows
<1>4. CASE run' = [run EXCEPT ![r].pc = "failed"]
  <2> DEFINE x == [run[r] EXCEPT !.pc = "failed"]
  <2>1. run' = [run EXCEPT ![r] = x]
    BY <1>4
  <2>2. x \in Execution /\ x.pc = "failed" /\ x.resume = TRUE /\ x.conv = c /\ x.key = run[r].key
    BY <1>1, <1>2 DEF Execution, RunPC
  <2> HIDE DEF x
  <2>3. RunKnown(x) /\ ~Resumes(x)
    BY <1>1, <1>2, <2>2 DEF RunKnown, Resumes
  <2>4. QED
    BY <1>1, <1>2, <2>1, <2>2, <2>3, OneRunFollows
<1>5. QED
  BY <1>3, <1>4 DEF Resolved, OnDisk

LEMMA SelectFollow ==
  ASSUME IndexInv, IndexInv', Following, NEW r \in Runs, Select(r)
  PROVE  Following'
<1> DEFINE c == run[r].conv
<1>1. /\ TablesTyped /\ RowsTrue /\ run[r] \in Execution /\ RunsTrue(run[r], r) /\ run[r].pc = "select"
      /\ RunKnown(run[r]) /\ UnderThread
      /\ UNCHANGED <<disk, mounted, agent, task, events, net, server, history>>
  BY DEF IndexInv, Typed, Indexing, RunsTyped, Running, Following, RunsKnown, Select
<1>2. /\ c \in Convs /\ run[r].key \in IdsOf(c) /\ run[r].row.native = Thread[c] /\ Thread[c] \in IdsOf(c)
  BY <1>1 DEF RunsTrue, IdsOf
<1>3. PICK existing \in Picks(rows, Thread[c]) :
        LET key == MergedKey(run[r].key, Thread[c], existing)
        IN  run' = [run EXCEPT ![r] = [@ EXCEPT !.key = key, !.existing = existing,
                      !.pc = IF existing \in {NoId, key} THEN "insert" ELSE "delete"]]
  BY <1>2 DEF Select
<1> DEFINE key == MergedKey(run[r].key, Thread[c], existing)
           x == [run[r] EXCEPT !.key = key, !.existing = existing,
                   !.pc = IF existing \in {NoId, key} THEN "insert" ELSE "delete"]
<1>4. run' = [run EXCEPT ![r] = x]
  BY <1>3
<1>5. existing = NoId \/ (existing \in IdsOf(c) /\ Stored(existing))
  BY <1>1, <1>2, PickedRow
<1>6. key # c => key = run[r].key
  BY <1>5 DEF MergedKey, IdsOf
<1>7. existing \notin {NoId, key} => key = c /\ existing = Thread[c]
  BY <1>2, <1>5, Identity DEF MergedKey, IdsOf
<1>8. key \in Refs /\ existing \in Refs
  <2>1. IdsOf(c) \subseteq Ids
    BY <1>2, Identity DEF IdsOf
  <2>2. QED
    BY <1>2, <1>5, <2>1 DEF MergedKey, Refs
<1> HIDE DEF key
<1>9. /\ x \in Execution /\ x.key = key /\ x.conv = c /\ x.resume = run[r].resume
      /\ x.pc = IF existing \in {NoId, key} THEN "insert" ELSE "delete"
  BY <1>1, <1>8 DEF Execution, RunPC
<1> HIDE DEF x
<1>10. existing \notin {NoId, key} => Promised(c)
  BY <1>1, <1>2, <1>5, <1>7 DEF UnderThread
<1>11. RunKnown(x) /\ (Resumes(x) => Resumes(run[r]) /\ x.conv = run[r].conv)
  BY <1>1, <1>6, <1>9, <1>10 DEF RunKnown, Resumes
<1>12. QED
  BY <1>1, <1>4, <1>9, <1>11, OneRunFollows

LEMMA EndRunFollow ==
  ASSUME IndexInv, IndexInv', Following, NEW r \in Runs, EndRun(r)
  PROVE  Following'
<1>1. /\ run[r] \in Execution /\ run[r].pc = "running" /\ RunKnown(run[r])
      /\ UNCHANGED <<disk, mounted, agent, task, events, net, server, history>>
  BY DEF IndexInv, Typed, RunsTyped, Following, RunsKnown, EndRun
<1> DEFINE x == [run[r] EXCEPT !.pc = "ended"]
<1>2. run' = [run EXCEPT ![r] = x]
  BY DEF EndRun
<1>3. x \in Execution /\ x.pc = "ended" /\ x.resume = run[r].resume /\ x.conv = run[r].conv /\ x.key = run[r].key
  BY <1>1 DEF Execution, RunPC
<1> HIDE DEF x
<1>4. RunKnown(x) /\ ~Resumes(x)
  BY <1>1, <1>3 DEF RunKnown, Resumes
<1>5. QED
  BY <1>1, <1>2, <1>3, <1>4, OneRunFollows

-----------------------------------------------------------------------------
(* A run writes the row of its thread.                                     *)

LEMMA DeleteFollow ==
  ASSUME IndexInv, IndexInv', Following, NEW r \in Runs, Delete(r)
  PROVE  Following'
<1> DEFINE c == run[r].conv
<1>1. /\ TablesTyped /\ RunsTyped /\ Running /\ RunsTyped' /\ Running' /\ Reading /\ LookingUp /\ TasksTyped
      /\ SaysOne /\ ServerRowsTrue /\ Refreshing /\ SessionsFollow /\ UnderThread /\ Indexed
      /\ RunsKnown /\ Waiting /\ RowsFollow
      /\ run[r] \in Execution /\ RunsTrue(run[r], r) /\ run[r].pc = "delete" /\ RunKnown(run[r])
      /\ rows' = [rows EXCEPT ![run[r].existing] = None]
      /\ run' = [run EXCEPT ![r].pc = "insert"]
      /\ UNCHANGED <<disk, mounted, sessions, task, events, net, server, steady, settled, published>>
  BY DEF IndexInv, Typed, Indexing, RunsTyped, Running, Following, RunsKnown, Delete
<1>2. c \in Convs /\ run[r].existing = Thread[c] /\ Promised(c)
  BY <1>1 DEF RunsTrue, RunKnown
<1>3. /\ \A q \in Runs \ {r} : run'[q] = run[q]
      /\ run'[r].pc = "insert" /\ run'[r].resume = run[r].resume /\ run'[r].conv = c
      /\ run'[r].key = run[r].key
  BY <1>1 DEF RunsTyped, Execution
<1> HIDE DEF c
<1>4. \A id \in Ids : rows'[id] = IF id = Thread[c] THEN None ELSE rows[id]
  BY <1>1, <1>2 DEF TablesTyped
<1>5. /\ \A d \in Convs : (RowKnown(d) => RowKnown(d)') /\ (Promised(d) => Promised(d)')
      /\ \A d \in Convs : GetsKnown(d) => GetsKnown(d)'
  BY <1>1, PromiseFrame, GetsKnownFrame DEF server
<1>6. \A d \in Convs : /\ HasRow(d)' => HasRow(d)
                       /\ HasRow(d) => HasRow(d)' \/ d = c
                       /\ Stored(Thread[d])' => Stored(Thread[d])
  BY <1>2, <1>4, Identity DEF HasRow, Stored, IdsOf
<1>7. RunKnown(run[r])'
  BY <1>1, <1>2, <1>3, <1>5 DEF RunKnown, Resumes, c
<1>8. SaysOne' /\ ServerRowsTrue' /\ Refreshing' /\ Waiting'
  <2>1. SaysOne' /\ ServerRowsTrue'
    BY <1>1, SaysFrame DEF server
  <2>2. Refreshing'
    BY <1>1, RefreshingFrame
  <2>3. Waiting'
    <3>1. \A q \in Runs : run'[q].resume = run[q].resume
      BY <1>3
    <3>2. QED
      BY <1>1, <3>1, WaitingFrame
  <2>4. QED
    BY <2>1, <2>2, <2>3
<1>9. (Listed' => Listed) /\ (Told' => Told)
  BY <1>1 DEF Listed, Told
<1>10. SessionsFollow'
  BY <1>1, <1>9, LivesFrame, SessionsFollowFrame DEF server
<1>11. UnderThread' /\ Indexed' /\ RunsKnown'
  BY <1>1, <1>2, <1>3, <1>5, <1>6, <1>7, GroundedFrame
<1>12. RowsFollow'
  BY <1>1, <1>3, <1>5, <1>6, <1>9, RowsFollowFrame DEF Resumes, c
<1>13. QED
  BY <1>8, <1>10, <1>11, <1>12 DEF Following

LEMMA InsertFollow ==
  ASSUME IndexInv, IndexInv', Following, NEW r \in Runs, Insert(r)
  PROVE  Following'
<1>0. PICK c, key : c = run[r].conv /\ key = run[r].key
  OBVIOUS
<1> DEFINE e == [session |-> run[r].id, native |-> run[r].row.native, run |-> r,
                of |-> r, create |-> ~run[r].resume]
<1>1. /\ TablesTyped /\ RunsTyped /\ Running /\ RunsTyped' /\ Running' /\ Reading /\ LookingUp /\ WiresTyped
      /\ SaysOne /\ ServerRowsTrue /\ Refreshing /\ SessionsFollow /\ UnderThread /\ Indexed
      /\ RunsKnown /\ Waiting /\ RowsFollow
      /\ run[r] \in Execution /\ RunsTrue(run[r], r) /\ run[r].pc = "insert" /\ RunKnown(run[r])
      /\ rows' = Upsert(rows, key, run[r].row.native, run[r].row.run)
      /\ run' = [run EXCEPT ![r].pc = "running"] /\ events' = Append(events, e)
      /\ UNCHANGED <<disk, mounted, sessions, task, net, server, steady, settled, published>>
  BY <1>0 DEF IndexInv, Typed, Indexing, RunsTyped, Running, Following, RunsKnown, Insert
<1>2. /\ c \in Convs /\ key \in IdsOf(c) /\ run[r].id \in IdsOf(c)
      /\ run[r].row.native = Thread[c] /\ run[r].row.run = r /\ run[r].resume \in BOOLEAN
      /\ IdsOf(c) \subseteq Ids /\ Thread[c] \in IdsOf(c) /\ ConvOf(run[r].id) = c /\ r # NoRun
  BY <1>0, <1>1, Identity DEF RunsTrue, IdsOf, Execution
<1>3. e \in SessionUpdate /\ OfOne(e) /\ e.session \in IdsOf(c) /\ (run[r].resume = FALSE => e.create)
  BY <1>2 DEF SessionUpdate, OfOne
<1>4. /\ \A q \in Runs \ {r} : run'[q] = run[q]
      /\ run'[r].pc = "running" /\ run'[r].resume = run[r].resume /\ run'[r].conv = c
      /\ run'[r].key = key
  BY <1>0, <1>1 DEF RunsTyped, Execution
<1> HIDE DEF e
<1>5. rows' = [rows EXCEPT ![key] = [native |-> Thread[c], run |-> r]]
  BY <1>1, <1>2 DEF Upsert
<1>6. \A id \in Ids : rows'[id] = IF id = key THEN [native |-> Thread[c], run |-> r] ELSE rows[id]
  BY <1>1, <1>2, <1>5 DEF TablesTyped
<1>7. [native |-> Thread[c], run |-> r] # None
  BY <1>2 DEF None
<1>8. /\ \A d \in Convs : (RowKnown(d) => RowKnown(d)') /\ (Promised(d) => Promised(d)')
      /\ run[r].resume = FALSE => Promised(c)'
  <2>1. UNCHANGED srvRows
    BY <1>1 DEF server
  <2>2. \A d \in Convs : RowKnown(d) => RowKnown(d)'
    BY <2>1 DEF RowKnown, IdsOf
  <2>3. \A d \in Convs : /\ Promised(d) => Promised(d)'
                         /\ e.create /\ e.session \in IdsOf(d) => Promised(d)'
    BY <1>1, <1>3, <2>1, ComingOn
  <2>4. QED
    BY <1>2, <1>3, <2>2, <2>3
<1>9. /\ \A d \in Convs : /\ HasRow(d) => HasRow(d)'
                          /\ HasRow(d)' => HasRow(d) \/ d = c
                          /\ Stored(Thread[d])' => Stored(Thread[d]) \/ (d = c /\ key = Thread[c])
  <2>1. ASSUME NEW d \in Convs, key \in IdsOf(d) PROVE d = c
    BY <1>2, <2>1, Identity
  <2>2. QED
    BY <1>2, <1>6, <1>7, <2>1, Identity DEF HasRow, Stored, IdsOf
<1>10. key # c => Promised(c)'
  <2>1. key # c /\ run[r].resume = TRUE => RowKnown(c)
    BY <1>0, <1>1 DEF RunKnown
  <2>2. QED
    BY <1>2, <1>8, <2>1 DEF Promised
<1>11. RunKnown(run[r])'
  BY <1>0, <1>1, <1>2, <1>4, <1>8 DEF RunKnown, Resumes
<1>12. SaysOne' /\ ServerRowsTrue' /\ Refreshing' /\ Waiting'
  <2>1. SaysOne'
    BY <1>1, <1>3, SaysOneOn
  <2>2. ServerRowsTrue' /\ Refreshing'
    BY <1>1, SaysFrame, RefreshingFrame DEF server
  <2>3. Waiting'
    <3>1. \A q \in Runs : run'[q].resume = run[q].resume
      BY <1>4
    <3>2. QED
      BY <1>1, <3>1, WaitingFrame
  <2>4. QED
    BY <2>1, <2>2, <2>3
<1>13. (Listed' => Listed) /\ (Told' => Told)
  BY <1>1 DEF Listed, Told
<1>14. SessionsFollow'
  BY <1>1, <1>13, LivesFrame, SessionsFollowFrame DEF server
<1>15. UnderThread' /\ Indexed' /\ RunsKnown'
  BY <1>1, <1>4, <1>8, <1>9, <1>10, <1>11, GroundedFrame
<1>16. \A d \in Convs : GetsKnown(d) => GetsKnown(d)'
  BY <1>1, <1>8, GetsKnownFrame
<1>17. Told => GetsKnown(c)'
  <2>1. run[r].resume = TRUE => (Told => GetsKnown(c))
    BY <1>0, <1>1 DEF RowsFollow, Resumes
  <2>2. QED
    BY <1>2, <1>8, <1>16, <2>1 DEF GetsKnown
<1>18. RowsFollow'
  BY <1>1, <1>4, <1>9, <1>13, <1>16, <1>17, RowsFollowFrame DEF Resumes
<1>19. QED
  BY <1>12, <1>14, <1>15, <1>18 DEF Following

-----------------------------------------------------------------------------
(* What arrives at the server.                                             *)

(* A row of the conversation is written, which no other one shares.        *)
LEMMA Upserted ==
  ASSUME ServerTyped, ServerRowsTrue, NEW m, OfOne(m), UpsertServer(m)
  PROVE  /\ ServerRowsTrue' /\ RowKnown(ConvOf(m.session))'
         /\ \A c \in Convs : RowKnown(c) => RowKnown(c)'
<1> DEFINE c == ConvOf(m.session)
<1>1. c \in Convs /\ m.session \in IdsOf(c) /\ m.native \in IdsOf(c) /\ m.session \in Ids
      /\ NoId \notin IdsOf(c)
  BY Identity DEF OfOne, IdsOf
<1> DEFINE s == ServerRow(m)
<1>2. s \in Ids /\ s \in IdsOf(c) /\ ConvOf(s) = c
  <2>1. CASE {t \in Ids : srvRows[t].native = m.native} = {}
    BY <1>1, <2>1 DEF ServerRow
  <2>2. CASE {t \in Ids : srvRows[t].native = m.native} # {}
    <3>1. s \in Ids /\ srvRows[s].native = m.native
      BY <2>2 DEF ServerRow
    <3>2. srvRows[s] # SrvNone
      BY <1>1, <3>1 DEF SrvNone
    <3>3. m.native \in IdsOf(ConvOf(s)) /\ ConvOf(s) \in Convs /\ s \in IdsOf(ConvOf(s))
      BY <3>1, <3>2, Identity DEF ServerRowsTrue
    <3>4. ConvOf(s) = c
      BY <1>1, <3>3, Identity
    <3>5. QED
      BY <3>1, <3>3, <3>4
  <2>3. QED
    BY <2>1, <2>2
<1> HIDE DEF s
<1>3. PICK r : srvRows' = [srvRows EXCEPT ![s] = [session |-> m.session, native |-> m.native, run |-> r]]
  BY DEF UpsertServer, s
<1> DEFINE x == [session |-> m.session, native |-> m.native, run |-> r]
<1>4. /\ \A t \in Ids : srvRows'[t] = IF t = s THEN x ELSE srvRows[t]
      /\ x # SrvNone /\ x.session \in IdsOf(c) /\ x.native \in IdsOf(c)
  BY <1>1, <1>3 DEF ServerTyped, SrvNone
<1> HIDE DEF x
<1>5. ServerRowsTrue'
  BY <1>2, <1>4 DEF ServerRowsTrue
<1>6. RowKnown(c)'
  BY <1>2, <1>4 DEF RowKnown
<1>7. \A d \in Convs : RowKnown(d) => RowKnown(d)'
  BY <1>4, Identity DEF RowKnown, IdsOf
<1>8. QED
  BY <1>5, <1>6, <1>7

(* A step of the server: what it knew and was promised it still knows.     *)
LEMMA ServerFollow ==
  ASSUME IndexInv, Following, IndexInv',
         UNCHANGED <<disk, mounted, agent, task, run, history>>,
         SaysOne', ServerRowsTrue',
         \A c \in Convs : OnDisk(c) /\ GoesLive(c) => GoesLive(c)',
         \A c \in Convs : (RowKnown(c) => RowKnown(c)') /\ (Promised(c) => Promised(c)'),
         \A c \in Convs : GetsKnown(c) => GetsKnown(c)'
  PROVE  Following'
<1>1. /\ RunsTyped /\ Running /\ RunsTyped' /\ Running' /\ Reading /\ LookingUp
      /\ Refreshing /\ SessionsFollow /\ UnderThread /\ Indexed /\ RunsKnown /\ Waiting /\ RowsFollow
      /\ UNCHANGED <<rows, sessions, steady, published>>
  BY DEF IndexInv, Typed, Indexing, Following, agent, history
<1>2. (Listed' => Listed) /\ (Told' => Told)
  BY <1>1 DEF Listed, Told
<1>3. \A c \in Convs : (HasRow(c)' <=> HasRow(c)) /\ (Stored(Thread[c])' <=> Stored(Thread[c]))
  BY <1>1, HasRowFrame
<1>4. Refreshing' /\ SessionsFollow' /\ Waiting'
  <2>1. Refreshing' /\ Waiting'
    BY <1>1, RefreshingFrame, WaitingFrame
  <2>2. SessionsFollow'
    BY <1>1, <1>2, SessionsFollowFrame
  <2>3. QED
    BY <2>1, <2>2
<1>5. UnderThread' /\ Indexed' /\ RunsKnown'
  BY <1>1, <1>3, GroundedFrame
<1>6. RowsFollow'
  BY <1>1, <1>2, <1>3, RowsFollowFrame
<1>7. QED
  BY <1>4, <1>5, <1>6 DEF Following

(* What stands behind the first message moves up.                          *)
LEMMA LivesOn ==
  ASSUME WiresTyped, net # <<>>, NEW c \in Convs, OnDisk(c), GoesLive(c), net' = Tail(net),
         Lists(net[1], c) => srvSessions'[c] = "live",
         ~Lists(net[1], c) /\ ~Deletes(net[1], c) /\ srvSessions[c] = "live" => srvSessions'[c] = "live"
  PROVE  GoesLive(c)'
<1>1. /\ 1 \in DOMAIN net /\ \A i \in DOMAIN net : i \in Int /\ i >= 1
      /\ \A i \in DOMAIN net' : i + 1 \in DOMAIN net /\ net'[i] = net[i + 1]
      /\ \A i \in DOMAIN net \ {1} : i - 1 \in DOMAIN net' /\ net'[i - 1] = net[i]
  BY QueueTail DEF WiresTyped
<1>2. \A i \in DOMAIN net' : i \in Int
  BY QueueTail, HeadTailProperties, LenProperties DEF WiresTyped
<1>3. CASE srvSessions[c] = "live" /\ \A i \in DOMAIN net : ~Deletes(net[i], c)
  <2>1. \A i \in DOMAIN net' : ~Deletes(net'[i], c)
    BY <1>1, <1>3
  <2>2. srvSessions'[c] = "live"
    BY <1>1, <1>3
  <2>3. QED
    BY <2>1, <2>2 DEF GoesLive, Deletes
<1>4. ASSUME NEW i \in DOMAIN net, Lists(net[i], c), \A j \in DOMAIN net : Deletes(net[j], c) => j < i
      PROVE  GoesLive(c)'
  <2>1. CASE i = 1
    <3>1. \A j \in DOMAIN net' : ~Deletes(net'[j], c)
      BY <1>1, <1>2, <1>4, <2>1
    <3>2. srvSessions'[c] = "live"
      BY <1>4, <2>1
    <3>3. QED
      BY <3>1, <3>2 DEF GoesLive, Deletes
  <2>2. CASE i # 1
    <3>1. i - 1 \in DOMAIN net' /\ Lists(net'[i - 1], c)
      BY <1>1, <1>4, <2>2
    <3>2. \A j \in DOMAIN net' : Deletes(net'[j], c) => j < i - 1
      BY <1>1, <1>2, <1>4
    <3>3. QED
      BY <3>1, <3>2 DEF GoesLive, Deletes, Lists
  <2>3. QED
    BY <2>1, <2>2
<1>5. QED
  BY <1>3, <1>4 DEF GoesLive

LEMMA SaysOneLess ==
  ASSUME WiresTyped, SaysOne, net' = net \/ (net # <<>> /\ net' = Tail(net)),
         events' = events \/ (events # <<>> /\ events' = Tail(events))
  PROVE  SaysOne'
<1>1. \A i \in DOMAIN events' : \E j \in DOMAIN events : events'[i] = events[j]
  BY QueueTail DEF WiresTyped
<1>2. \A i \in DOMAIN net' : \E j \in DOMAIN net : net'[i] = net[j]
  BY QueueTail DEF WiresTyped
<1>3. \A i \in DOMAIN events' : OfOne(events'[i])
  BY <1>1 DEF SaysOne
<1>4. \A i \in DOMAIN net' : net'[i].kind = "runtime" => \A x \in net'[i].rows : OfOne(x)
  BY <1>2 DEF SaysOne
<1>5. QED
  BY <1>3, <1>4 DEF SaysOne, OfOne

LEMMA ReceiveListFollow ==
  ASSUME IndexInv, IndexInv', Following, ReceiveSessions \/ ReceiveDeleted
  PROVE  Following'
<1>1. /\ WiresTyped /\ ServerTyped /\ SaysOne /\ ServerRowsTrue /\ net # <<>> /\ net' = Tail(net)
      /\ UNCHANGED <<disk, mounted, agent, task, run, events, srvRows, history>>
  BY DEF IndexInv, Typed, Following, ReceiveSessions, ReceiveDeleted
<1>2. Head(net) = net[1] /\ Head(net) \in Message
  BY <1>1, QueueTail DEF WiresTyped
<1>3. SaysOne' /\ ServerRowsTrue'
  BY <1>1, SaysOneLess, SaysFrame
<1>4. ASSUME NEW c \in Convs
      PROVE  /\ Lists(net[1], c) => srvSessions'[c] = "live"
             /\ ~Lists(net[1], c) /\ ~Deletes(net[1], c) /\ srvSessions[c] = "live"
                  => srvSessions'[c] = "live"
  <2>1. CASE ReceiveSessions
    BY <1>2, <2>1 DEF ReceiveSessions, Lists
  <2>2. CASE ReceiveDeleted
    BY <1>2, <2>2 DEF ReceiveDeleted, Lists, Deletes
  <2>3. QED
    BY <2>1, <2>2
<1>5. \A c \in Convs : OnDisk(c) /\ GoesLive(c) => GoesLive(c)'
  BY <1>1, <1>4, LivesOn
<1>6. \A c \in Convs : (RowKnown(c) => RowKnown(c)') /\ (Promised(c) => Promised(c)')
  BY <1>1, PromiseFrame
<1>7. ASSUME NEW c \in Convs, GetsKnown(c) PROVE GetsKnown(c)'
  <2>1. ASSUME NEW i \in DOMAIN net, Names(net[i], c) PROVE \E j \in DOMAIN net' : Names(net'[j], c)
    <3>1. i # 1
      BY <1>2, <2>1 DEF Names, ReceiveSessions, ReceiveDeleted
    <3>2. i - 1 \in DOMAIN net' /\ net'[i - 1] = net[i]
      BY <1>1, <3>1, QueueTail DEF WiresTyped
    <3>3. QED
      BY <2>1, <3>2
  <2>2. QED
    BY <1>1, <1>6, <1>7, <2>1 DEF GetsKnown, Names, OnDisk
<1>8. QED
  BY <1>1, <1>3, <1>5, <1>6, <1>7, ServerFollow

(* A message loses a row.                                                  *)
LEMMA RowTaken ==
  ASSUME WiresTyped, net # <<>>, Head(net).kind = "runtime", NEW m \in Head(net).rows,
         net' = IF Head(net).rows = {m} THEN Tail(net) ELSE [net EXCEPT ![1].rows = @ \ {m}],
         UNCHANGED <<disk, mounted, events, srvSessions>>
  PROVE  /\ SaysOne => SaysOne'
         /\ \A c \in Convs : OnDisk(c) /\ GoesLive(c) => GoesLive(c)'
         /\ \A c \in Convs, i \in DOMAIN net :
              Names(net[i], c) => m.session \in IdsOf(c) \/ \E j \in DOMAIN net' : Names(net'[j], c)
<1>1. /\ Head(net) = net[1] /\ 1 \in DOMAIN net /\ net \in Seq(Message) /\ net[1].kind = "runtime"
      /\ \A i \in DOMAIN net : net[i] \in Message
  BY QueueTail, ElementOfSeq, LenProperties DEF WiresTyped
<1>2. CASE Head(net).rows = {m}
  <2>1. net' = Tail(net)
    BY <1>2
  <2>2. SaysOne => SaysOne'
    BY <2>1, SaysOneLess
  <2>3. \A c \in Convs : ~Lists(net[1], c) /\ ~Deletes(net[1], c)
    BY <1>1 DEF Lists, Deletes
  <2>4. \A c \in Convs : OnDisk(c) /\ GoesLive(c) => GoesLive(c)'
    BY <2>1, <2>3, LivesOn
  <2>5. ASSUME NEW c \in Convs, NEW i \in DOMAIN net, Names(net[i], c)
        PROVE  m.session \in IdsOf(c) \/ \E j \in DOMAIN net' : Names(net'[j], c)
    <3>1. CASE i = 1
      BY <1>1, <1>2, <2>5, <3>1 DEF Names
    <3>2. CASE i # 1
      <4>1. i - 1 \in DOMAIN net' /\ net'[i - 1] = net[i]
        BY <2>1, <3>2, QueueTail DEF WiresTyped
      <4>2. QED
        BY <2>5, <4>1
    <3>3. QED
      BY <3>1, <3>2
  <2>6. QED
    BY <2>2, <2>4, <2>5
<1>3. CASE Head(net).rows # {m}
  <2>1. /\ DOMAIN net' = DOMAIN net /\ \A i \in DOMAIN net \ {1} : net'[i] = net[i]
        /\ net'[1] = [net[1] EXCEPT !.rows = @ \ {m}]
    BY <1>1, <1>3
  <2>2. net[1] \in [kind : {"runtime"}, rows : SUBSET IndexRow]
    BY <1>1 DEF Message
  <2>3. net'[1].kind = "runtime" /\ net'[1].rows = net[1].rows \ {m}
    BY <2>1, <2>2
  <2>4. SaysOne => SaysOne'
    BY <1>1, <2>1, <2>3 DEF SaysOne, OfOne
  <2>5. \A c \in Convs : OnDisk(c) /\ GoesLive(c) => GoesLive(c)'
    <3>1. \A c \in Convs, i \in DOMAIN net :
            (Lists(net'[i], c) <=> Lists(net[i], c)) /\ (Deletes(net'[i], c) <=> Deletes(net[i], c))
      BY <1>1, <2>1, <2>3 DEF Lists, Deletes
    <3>2. ASSUME NEW c \in Convs, GoesLive(c)
          PROVE  \/ srvSessions'[c] = "live" /\ \A i \in DOMAIN net' : ~Deletes(net'[i], c)
                 \/ \E i \in DOMAIN net' :
                      Lists(net'[i], c) /\ \A j \in DOMAIN net' : Deletes(net'[j], c) => j < i
      BY <2>1, <3>1, <3>2 DEF GoesLive
    <3>3. QED
      BY <3>2 DEF GoesLive, Lists, Deletes
  <2>6. ASSUME NEW c \in Convs, NEW i \in DOMAIN net, Names(net[i], c)
        PROVE  m.session \in IdsOf(c) \/ \E j \in DOMAIN net' : Names(net'[j], c)
    BY <1>1, <2>1, <2>3, <2>6 DEF Names
  <2>7. QED
    BY <2>4, <2>5, <2>6
<1>4. QED
  BY <1>2, <1>3

LEMMA ReceiveRuntimeFollow ==
  ASSUME IndexInv, IndexInv', Following, ReceiveRuntime
  PROVE  Following'
<1>1. /\ WiresTyped /\ ServerTyped /\ SaysOne /\ ServerRowsTrue
      /\ net # <<>> /\ Head(net).kind = "runtime"
      /\ UNCHANGED <<disk, mounted, agent, task, run, events, srvSessions, history>>
  BY DEF IndexInv, Typed, Following, ReceiveRuntime
<1>2. PICK m \in Head(net).rows :
        /\ UpsertServer(m)
        /\ net' = IF Head(net).rows = {m} THEN Tail(net) ELSE [net EXCEPT ![1].rows = @ \ {m}]
  BY DEF ReceiveRuntime
<1>3. Head(net) = net[1] /\ 1 \in DOMAIN net
  BY <1>1, QueueTail DEF WiresTyped
<1>4. OfOne(m)
  BY <1>1, <1>2, <1>3 DEF SaysOne
<1>5. /\ ServerRowsTrue' /\ RowKnown(ConvOf(m.session))'
      /\ \A c \in Convs : RowKnown(c) => RowKnown(c)'
  BY <1>1, <1>2, <1>4, Upserted
<1>6. SaysOne' /\ \A c \in Convs : OnDisk(c) /\ GoesLive(c) => GoesLive(c)'
  BY <1>1, <1>2, RowTaken
<1>7. \A c \in Convs : Promised(c) => Promised(c)'
  BY <1>1, <1>5 DEF Promised, IdsOf
<1>8. ASSUME NEW c \in Convs, GetsKnown(c) PROVE GetsKnown(c)'
  <2>1. m.session \in IdsOf(c) => RowKnown(c)'
    <3>1. m.session \in IdsOf(c) => ConvOf(m.session) = c
      BY Identity DEF IdsOf
    <3>2. QED
      BY <1>5, <3>1
  <2>2. \A i \in DOMAIN net : Names(net[i], c) => RowKnown(c)' \/ \E j \in DOMAIN net' : Names(net'[j], c)
    BY <1>1, <1>2, <2>1, RowTaken
  <2>3. QED
    BY <1>1, <1>7, <1>8, <2>2 DEF GetsKnown, Promised, Names, OnDisk
<1>9. QED
  BY <1>1, <1>5, <1>6, <1>7, <1>8, ServerFollow

LEMMA ReceiveEventFollow ==
  ASSUME IndexInv, IndexInv', Following, ReceiveEvent
  PROVE  Following'
<1>0. PICK e : e = Head(events)
  OBVIOUS
<1>1. /\ WiresTyped /\ ServerTyped /\ SaysOne /\ ServerRowsTrue /\ events # <<>> /\ events' = Tail(events)
      /\ UNCHANGED <<disk, mounted, agent, task, run, net, srvSessions, history>>
      /\ IF Accepted(e) THEN UpsertServer(e) ELSE UNCHANGED srvRows
  BY <1>0 DEF IndexInv, Typed, Following, ReceiveEvent
<1>2. e = events[1] /\ 1 \in DOMAIN events
      /\ \A i \in DOMAIN events \ {1} : i - 1 \in DOMAIN events' /\ events'[i - 1] = events[i]
  BY <1>0, <1>1, QueueTail DEF WiresTyped
<1>3. OfOne(e)
  BY <1>1, <1>2 DEF SaysOne
<1>4. /\ ServerRowsTrue' /\ \A c \in Convs : RowKnown(c) => RowKnown(c)'
      /\ e.create => RowKnown(ConvOf(e.session))'
  <2>1. CASE Accepted(e)
    BY <1>1, <1>3, <2>1, Upserted
  <2>2. CASE ~Accepted(e)
    <3>1. ~e.create
      BY <2>2 DEF Accepted
    <3>2. QED
      BY <1>1, <2>2, <3>1, SaysFrame DEF RowKnown, IdsOf
  <2>3. QED
    BY <2>1, <2>2
<1>5. SaysOne'
  BY <1>1, SaysOneLess
<1>6. ASSUME NEW c \in Convs, Promised(c) PROVE Promised(c)'
  <2>1. ASSUME NEW i \in DOMAIN events, events[i].create, events[i].session \in IdsOf(c)
        PROVE  Promised(c)'
    <3>1. CASE i = 1
      <4>1. e.create /\ ConvOf(e.session) = c
        BY <1>2, <2>1, <3>1, Identity DEF IdsOf
      <4>2. QED
        BY <1>4, <4>1 DEF Promised
    <3>2. CASE i # 1
      BY <1>2, <2>1, <3>2 DEF Promised, IdsOf
    <3>3. QED
      BY <3>1, <3>2
  <2>2. QED
    BY <1>4, <1>6, <2>1 DEF Promised
<1>7. \A c \in Convs : (OnDisk(c) /\ GoesLive(c) => GoesLive(c)') /\ (GetsKnown(c) => GetsKnown(c)')
  BY <1>1, <1>6, LivesFrame, GetsKnownFrame
<1>8. QED
  BY <1>1, <1>4, <1>5, <1>6, <1>7, ServerFollow

-----------------------------------------------------------------------------
(* A scan is saved.                                                        *)

LEMMA SavedKnown ==
  ASSUME IndexInv, NEW k \in Tasks, SaveResult(k), NEW c \in Convs
  PROVE  /\ HasRow(c) => HasRow(c)'
         /\ HasRow(c)' => HasRow(c) \/ c \in Found(k)
         /\ Thread[c] # c /\ Stored(Thread[c])' => Stored(Thread[c])
         /\ sessions'[c].state # "none" => sessions[c].state # "none" \/ HasRow(c)'
<1>1. TablesTyped /\ RowsTrue
  BY DEF IndexInv, Typed, Indexing
<1>2. CASE c \in Found(k)
  <2>1. task[k].found[c].native \in IdsOf(c)
    BY <1>2, FoundSessions
  <2>2. PICK e \in Picks(rows, task[k].found[c].native) :
          LET t == SaveScanned(rows, c, task[k].found[c].native, e)
          IN  rows'[c] = t[c] /\ rows'[Thread[c]] = t[Thread[c]]
    BY <1>2, SavedRows DEF SavesRow
  <2>3. /\ rows'[c] # None
        /\ c # Thread[c] => rows'[Thread[c]] \in {None, rows[Thread[c]]}
    BY <1>1, <2>1, <2>2, ScannedRow
  <2>4. QED
    BY <1>2, <2>3 DEF HasRow, Stored
<1>3. CASE c \notin Found(k)
  <2>1. rows'[c] = rows[c] /\ rows'[Thread[c]] = rows[Thread[c]]
    BY <1>3, SavedRows
  <2>2. sessions'[c].state # "none" => sessions[c].state # "none"
    BY <1>1, <1>3 DEF SaveResult, MissingIDs, TablesTyped
  <2>3. QED
    BY <1>3, <2>1, <2>2 DEF HasRow, Stored
<1>4. QED
  BY <1>2, <1>3

(* Only a steady scan leaves what was sent before it worth something, and  *)
(* what it found is on the disk.                                           *)
LEMMA SavedFollow ==
  ASSUME IndexInv, IndexInv', Following, NEW k \in Tasks, SaveResult(k),
         UNCHANGED <<disk, mounted, net, server>>,
         NEW x, task' = [task EXCEPT ![k] = x],
         \/ ~Sends(x) /\ steady' \in {Unspoiled(k), Unspoiled(k) \cup {k}}
         \/ /\ x.pc = "sessions" /\ x.found = task[k].found /\ x.deleted = MissingIDs(k)
            /\ steady' = Unspoiled(k),
         SaysOne', Waiting', \A c \in Convs : Promised(c) => Promised(c)',
         \A r \in Runs : run'[r] = run[r] \/ (RunKnown(run[r])' /\ ~Resumes(run'[r]))
  PROVE  Following'
<1>1. /\ RunsTyped /\ Running /\ RunsTyped' /\ Running' /\ TasksTyped
      /\ ServerRowsTrue /\ Refreshing /\ SessionsFollow /\ UnderThread /\ Indexed /\ RunsKnown /\ RowsFollow
      /\ UNCHANGED <<srvSessions, srvRows>>
      /\ published' = (published /\ k \in steady)
  BY DEF IndexInv, Typed, Indexing, Following, server, SaveResult
<1>2. \A j \in Tasks : task'[j] = IF j = k THEN x ELSE task[j]
  BY <1>1 DEF TasksTyped
<1>3. x.pc \notin {"runtime", "deleted"}
  BY DEF Sends
<1>4. k \in steady => steady' = steady
  BY DEF Unspoiled
<1>5. k \notin steady =>
        ~published' /\ \A j \in steady' : j # k => j \in steady /\ ~Sends(task[j])
  <2>1. steady' \subseteq Unspoiled(k) \cup {k}
    OBVIOUS
  <2>2. k \notin steady => \A j \in Unspoiled(k) : j \in steady /\ ~Sends(task[j])
    BY <1>1 DEF Unspoiled, Sending, Sends, TasksTyped
  <2>3. QED
    BY <1>1, <2>1, <2>2
<1>6. (Listed' => Listed /\ k \in steady) /\ (Told' => Told /\ k \in steady)
  <2>1. steady' \subseteq Tasks
    BY DEF IndexInv, Typed, TasksTyped
  <2>2. CASE k \in steady
    BY <1>1, <1>2, <1>3, <1>4, <2>1, <2>2 DEF Listed, Told
  <2>3. CASE k \notin steady
    BY <1>2, <1>3, <1>5, <2>1, <2>3 DEF Listed, Told, Sends
  <2>4. QED
    BY <2>2, <2>3
<1>7. ServerRowsTrue'
  BY <1>1, SaysFrame
<1>8. Refreshing'
  <2>1. ASSUME Sends(x)
        PROVE  /\ x.deleted \cap FoundBy(x) = {}
               /\ k \in steady' => \A c \in Convs : OnDisk(c) => c \in FoundBy(x)
    <3>1. x.deleted = MissingIDs(k) /\ FoundBy(x) = Found(k) /\ (k \in steady' => k \in steady)
      BY <1>5, <2>1 DEF FoundBy, Found, Unspoiled
    <3>2. QED
      BY <3>1, FoundOnDisk DEF MissingIDs
  <2>2. ASSUME NEW j \in Tasks, j # k, Sends(task[j])
        PROVE  /\ task[j].deleted \cap FoundBy(task[j]) = {}
               /\ j \in steady' => \A c \in Convs : OnDisk(c) => c \in FoundBy(task[j])
    BY <1>1, <1>4, <1>5, <2>2 DEF Refreshing
  <2>3. QED
    BY <1>2, <2>1, <2>2 DEF Refreshing, Sends, FoundBy, OnDisk
<1>9. SessionsFollow'
  BY <1>1, <1>6, LivesFrame, SessionsFollowFrame
<1>10. UnderThread' /\ Indexed' /\ RunsKnown'
  <2>1. \A c \in Convs : RowKnown(c) => RowKnown(c)'
    BY <1>1 DEF RowKnown, IdsOf
  <2>2. QED
    BY <1>1, <2>1, SavedKnown, GroundedFrame
<1>11. RowsFollow'
  <2>1. \A c \in Convs : GetsKnown(c) => GetsKnown(c)'
    BY GetsKnownFrame
  <2>2. ASSUME NEW c \in Convs, HasRow(c)', Told' PROVE HasRow(c) \/ GetsKnown(c)'
    <3>1. c \in Found(k) => OnDisk(c)
      BY <1>6, <2>2, FoundOnDisk
    <3>2. QED
      BY <2>1, <2>2, <3>1, SavedKnown DEF GetsKnown
  <2>3. \A r \in Runs : Resumes(run'[r]) => Resumes(run[r]) /\ run'[r].conv = run[r].conv
    OBVIOUS
  <2>4. QED
    BY <1>1, <1>6, <2>1, <2>2, <2>3, RowsFollowFrame
<1>12. QED
  BY <1>7, <1>8, <1>9, <1>10, <1>11 DEF Following

LEMMA SaveRefreshFollow ==
  ASSUME IndexInv, IndexInv', Following, NEW k \in Tasks, SaveRefresh(k)
  PROVE  Following'
<1> DEFINE x == [task[k] EXCEPT !.pc = "sessions", !.deleted = MissingIDs(k)]
<1>1. /\ SaveResult(k) /\ task' = [task EXCEPT ![k] = x] /\ steady' = Unspoiled(k)
      /\ UNCHANGED <<disk, mounted, run, events, net, server>> /\ task[k] \in Scan
      /\ SaysOne /\ Waiting /\ Reading /\ LookingUp /\ TasksTyped
  BY DEF SaveRefresh, IndexInv, Typed, Indexing, TasksTyped, Following
<1>2. /\ x.pc = "sessions" /\ x.found = task[k].found /\ x.deleted = MissingIDs(k)
      /\ x.kind = task[k].kind /\ x.run = task[k].run
  BY <1>1 DEF Scan
<1> HIDE DEF x
<1>3. \A j \in Tasks : task'[j].kind = task[j].kind /\ task'[j].run = task[j].run
  BY <1>1, <1>2 DEF TasksTyped
<1>4. SaysOne' /\ Waiting'
  BY <1>1, <1>3, SaysFrame, WaitingFrame
<1>5. \A c \in Convs : Promised(c) => Promised(c)'
  BY <1>1, PromiseFrame DEF server
<1>6. QED
  BY <1>1, <1>2, <1>4, <1>5, SavedFollow

LEMMA SaveLookupFollow ==
  ASSUME IndexInv, IndexInv', Following, NEW k \in Tasks, SaveLookup(k)
  PROVE  Following'
<1>1. /\ SaveResult(k) /\ task' = [task EXCEPT ![k] = Idle] /\ steady' = Unspoiled(k)
      /\ task[k].kind = "lookup" /\ run' = [run EXCEPT ![task[k].run].pc = "retry"]
      /\ UNCHANGED <<disk, mounted, events, net, server>>
      /\ SaysOne /\ Waiting /\ Reading /\ LookingUp /\ TasksTyped /\ RunsTyped /\ Running /\ RunsKnown
  BY DEF SaveLookup, IndexInv, Typed, Indexing, Following
<1>2. PICK r \in Runs : r = task[k].run
  BY <1>1 DEF Reading, Reads
<1>3. run[r].resume /\ run[r].pc # "new" /\ RunKnown(run[r]) /\ run[r].conv \in Convs
  BY <1>1, <1>2 DEF Waiting, LookingUp, RunsKnown, Running, RunsTrue
<1>4. /\ \A q \in Runs \ {r} : run'[q] = run[q]
      /\ run'[r].pc = "retry" /\ run'[r].resume = run[r].resume /\ run'[r].key = run[r].key
      /\ run'[r].conv = run[r].conv
  BY <1>1, <1>2 DEF RunsTyped, Execution
<1>5. \A c \in Convs : (RowKnown(c) => RowKnown(c)') /\ (Promised(c) => Promised(c)')
  BY <1>1, PromiseFrame DEF server
<1>6. RunKnown(run[r])' /\ ~Resumes(run'[r])
  BY <1>3, <1>4, <1>5 DEF RunKnown, Resumes
<1>7. ~Sends(Idle) /\ Idle.kind # "lookup"
  BY Nothing DEF Sends
<1>8. Waiting'
  <2>1. \A j \in Tasks : task'[j].kind = "lookup" => task'[j] = task[j]
    BY <1>1, <1>7 DEF TasksTyped
  <2>2. \A q \in Runs : run'[q].resume = run[q].resume
    BY <1>4
  <2>3. QED
    BY <1>1, <2>1, <2>2, WaitingFrame
<1>9. SaysOne'
  BY <1>1, SaysFrame
<1>10. QED
  BY <1>1, <1>4, <1>5, <1>6, <1>7, <1>8, <1>9, SavedFollow

LEMMA SaveHistoryFollow ==
  ASSUME IndexInv, IndexInv', Following, NEW k \in Tasks, SaveHistory(k)
  PROVE  Following'
<1>1. /\ SaveResult(k) /\ steady' = Unspoiled(k) \cup {k} /\ task[k].kind = "history"
      /\ UNCHANGED <<disk, mounted, run, net, server>>
      /\ SaysOne /\ Waiting /\ Reading /\ LookingUp /\ TasksTyped /\ RunsTyped /\ WiresTyped
  BY DEF SaveHistory, IndexInv, Typed, Indexing, Following
<1>2. PICK kind \in {"refresh", "history"} : task' = [task EXCEPT ![k] = Rescan(k, kind)]
  BY DEF SaveHistory
<1> DEFINE x == Rescan(k, kind)
<1>3. x.kind = kind /\ x.pc = "walk" /\ ~Sends(x)
  BY Nothing DEF Rescan, Scan, Sends
<1> HIDE DEF x
<1>4. \/ events' = events
      \/ \E c \in HistorySession(k) : events' = Append(events, HistoryEvent(k, c))
  BY DEF SaveHistory
<1>5. ASSUME NEW c \in HistorySession(k)
      PROVE  HistoryEvent(k, c) \in SessionUpdate /\ OfOne(HistoryEvent(k, c))
  <2>1. c \in Found(k)
    BY DEF HistorySession
  <2>2. c \in Ids /\ ConvOf(c) = c /\ task[k].found[c].native \in Ids /\ task[k].found[c].native \in IdsOf(c)
    BY <2>1, FoundSessions, Identity DEF IdsOf
  <2>3. task[k].run \in Runs /\ task[k].target \in Target
    BY <1>1 DEF Reading, Reads, TasksTyped, Scan
  <2>4. task[k].target.run \in Runs \cup {NoRun} /\ run[task[k].run].resume \in BOOLEAN
    BY <1>1, <2>3 DEF Target, RunsTyped, Execution
  <2>5. QED
    BY <2>2, <2>3, <2>4 DEF HistoryEvent, SessionUpdate, OfOne
<1>6. SaysOne'
  BY <1>1, <1>4, <1>5, SaysOneOn
<1>7. \A c \in Convs : Promised(c) => Promised(c)'
  BY <1>1, <1>4, <1>5, ComingOn, PromiseFrame DEF server
<1>8. Waiting'
  <2>1. \A j \in Tasks : task'[j].kind = "lookup" => task'[j] = task[j]
    BY <1>1, <1>2, <1>3 DEF TasksTyped, x
  <2>2. QED
    BY <1>1, <2>1, WaitingFrame
<1>9. task' = [task EXCEPT ![k] = x]
  BY <1>2 DEF x
<1>10. QED
  BY <1>1, <1>3, <1>6, <1>7, <1>8, <1>9, SavedFollow

-----------------------------------------------------------------------------
(* A refresh sends.                                                        *)

(* The rows a refresh sends: every one that is stored, among them.         *)
LEMMA RuntimeMessage ==
  ASSUME IndexInv, NEW k \in Tasks, NEW stored
  PROVE  LET all == RuntimeSessions(k, stored)
         IN  /\ [kind |-> "runtime", rows |-> all] \in Message /\ \A y \in all : OfOne(y)
             /\ \A c \in Convs : HasRow(c) => \E y \in all : y.session \in IdsOf(c)
<1> DEFINE all == RuntimeSessions(k, stored)
<1>1. TablesTyped /\ RowsTrue
  BY DEF IndexInv, Typed, Indexing
<1>2. \A id \in Ids : /\ rows[id].native \in Refs /\ rows[id].run \in Runs \cup {NoRun}
                      /\ Stored(id) => rows[id].native \in IdsOf(ConvOf(id))
  BY <1>1, Identity DEF TablesTyped, Row, RowsTrue, IdsOf
<1>3. \A c \in Found(k) : /\ c \in Ids /\ ConvOf(c) = c /\ task[k].found[c].native \in Refs
                          /\ task[k].found[c].native \in IdsOf(c)
  BY FoundSessions, Identity DEF IdsOf, Refs
<1>4. \A y \in all : y \in IndexRow /\ OfOne(y)
  BY <1>2, <1>3 DEF RuntimeSessions, IndexRow, OfOne
<1>5. \A id \in Ids : Stored(id) => \E y \in all : y.session = id
  <2>1. SUFFICES ASSUME NEW id \in Ids, Stored(id) PROVE \E y \in all : y.session = id
    OBVIOUS
  <2>2. CASE id \in Found(k) \ stored
    <3>1. [session |-> id, native |-> task[k].found[id].native, run |-> NoRun] \in all
      BY <2>2 DEF RuntimeSessions
    <3>2. QED
      BY <3>1
  <2>3. CASE id \notin Found(k) \ stored
    <3>1. [session |-> id, native |-> rows[id].native, run |-> rows[id].run] \in all
      BY <2>1, <2>3 DEF RuntimeSessions
    <3>2. QED
      BY <3>1
  <2>4. QED
    BY <2>2, <2>3
<1> HIDE DEF all
<1>6. \A c \in Convs : HasRow(c) => \E y \in all : y.session \in IdsOf(c)
  BY <1>5, Identity DEF HasRow, IdsOf
<1>7. [kind |-> "runtime", rows |-> all] \in Message
  BY <1>4 DEF Message
<1>8. QED
  BY <1>4, <1>6, <1>7 DEF all

LEMMA SendFollow ==
  ASSUME IndexInv, IndexInv', Following, NEW k \in Tasks,
         SendSessions(k) \/ SendRuntime(k) \/ SendDeleted(k)
  PROVE  Following'
<1>1. /\ TablesTyped /\ TasksTyped /\ WiresTyped /\ RunsTyped /\ Running /\ RunsTyped' /\ Running'
      /\ TasksTyped' /\ Reading /\ RowsTrue /\ LookingUp
      /\ SaysOne /\ ServerRowsTrue /\ Refreshing /\ SessionsFollow /\ UnderThread /\ Indexed
      /\ RunsKnown /\ Waiting /\ RowsFollow
  BY DEF IndexInv, Typed, Indexing, Following
<1>2. /\ UNCHANGED <<disk, mounted, rows, sessions, agent, run, events, srvRows, srvSessions, settled>>
      /\ steady' = Unspoiled(k) /\ task[k] \in Scan /\ Sends(task[k])
  BY <1>1 DEF SendSessions, SendRuntime, SendDeleted, agent, server, TasksTyped, Sends
<1>3. \A j \in Tasks : /\ j # k => task'[j] = task[j]
                       /\ task'[j].kind = "lookup" => task[j].kind = "lookup" /\ task'[j].run = task[j].run
                       /\ Sends(task'[j]) => /\ task'[j].deleted = task[j].deleted
                                             /\ task'[j].found = task[j].found /\ Sends(task[j])
  <2>1. PICK pc : task' = [task EXCEPT ![k].pc = pc] \/ task' = [task EXCEPT ![k] = Idle]
    BY DEF SendSessions, SendRuntime, SendDeleted, Finished
  <2>2. ~Sends(Idle) /\ Idle.kind # "lookup"
    BY Nothing DEF Sends
  <2>3. CASE task' = [task EXCEPT ![k] = Idle]
    BY <1>1, <2>2, <2>3 DEF TasksTyped
  <2>4. CASE task' = [task EXCEPT ![k].pc = pc]
    <3>1. \A j \in Tasks : /\ j # k => task'[j] = task[j]
                           /\ task'[j].kind = task[j].kind /\ task'[j].run = task[j].run
                           /\ task'[j].deleted = task[j].deleted /\ task'[j].found = task[j].found
      BY <1>1, <1>2, <2>4 DEF TasksTyped, Scan
    <3>2. QED
      BY <1>2, <3>1
  <2>5. QED
    BY <2>1, <2>3, <2>4
<1>4. net' = net \/ \E m \in Message : /\ net' = Append(net, m)
                                       /\ m.kind = "runtime" => \A y \in m.rows : OfOne(y)
  <2>1. Found(k) \subseteq Convs /\ task[k].deleted \subseteq Convs
    BY <1>2 DEF Found, Scan
  <2>2. CASE SendSessions(k)
    BY <2>1, <2>2 DEF SendSessions, Message
  <2>3. CASE SendDeleted(k)
    BY <2>1, <2>3 DEF SendDeleted, Message
  <2>4. CASE SendRuntime(k)
    BY <2>4, RuntimeMessage DEF SendRuntime
  <2>5. QED
    BY <2>2, <2>3, <2>4
<1>5. SaysOne' /\ ServerRowsTrue'
  BY <1>1, <1>2, <1>4, SaysOneOn, SaysFrame
<1>6. steady' \subseteq steady
  BY <1>2 DEF Unspoiled
<1>7. Refreshing' /\ Waiting'
  BY <1>1, <1>2, <1>3, <1>6, RefreshingFrame, WaitingFrame
<1>8. /\ \A c \in Convs : (RowKnown(c) => RowKnown(c)') /\ (Promised(c) => Promised(c)')
      /\ \A c \in Convs : (HasRow(c)' <=> HasRow(c)) /\ (Stored(Thread[c])' <=> Stored(Thread[c]))
  BY <1>2, PromiseFrame, HasRowFrame
<1>9. UnderThread' /\ Indexed' /\ RunsKnown'
  BY <1>1, <1>2, <1>8, GroundedFrame
<1>10. \A c \in Convs : GetsKnown(c) => GetsKnown(c)'
  BY <1>1, <1>2, <1>4, <1>8, GetsKnownFrame DEF WiresTyped
<1>11. CASE k \notin steady
  <2>1. published' = FALSE
    BY <1>11 DEF SendSessions, SendRuntime, SendDeleted, Outdated
  <2>2. \A j \in steady' : ~Sends(task'[j])
    BY <1>1, <1>2, <1>3, <1>11 DEF Unspoiled, Sending, Sends, TasksTyped
  <2>3. SessionsFollow' /\ RowsFollow'
    BY <2>1, <2>2, Untold
  <2>4. QED
    BY <1>5, <1>7, <1>9, <2>3 DEF Following
<1>12. CASE k \in steady
  <2>1. /\ \A c \in Convs : OnDisk(c) => c \in Found(k) /\ c \notin task[k].deleted
        /\ Found(k) \subseteq Convs /\ task[k].deleted \subseteq Convs
    BY <1>1, <1>2, <1>12 DEF Refreshing, FoundBy, Found, Scan
  <2>2. \A j \in steady' : j \in steady /\ j \in Tasks
    BY <1>1, <1>6 DEF TasksTyped
  <2>3. CASE SendSessions(k)
    <3> DEFINE m == [kind |-> "sessions", convs |-> Found(k)]
    <3>1. m \in Message /\ net' = Append(net, m) /\ task'[k].pc = "runtime" /\ (published' => published)
      BY <1>1, <1>2, <2>1, <2>3 DEF SendSessions, Message, Outdated, TasksTyped, Scan
    <3>2. \A c \in Convs : OnDisk(c) => GoesLive(c)'
      BY <1>1, <1>2, <2>1, <3>1, GoesOn DEF Lists
    <3>3. SessionsFollow'
      BY <1>2, <3>2 DEF SessionsFollow, OnDisk
    <3>4. Told' => Told
      BY <1>3, <2>2, <3>1 DEF Told
    <3>5. RowsFollow'
      BY <1>1, <1>2, <1>8, <1>10, <3>4, RowsFollowFrame
    <3>6. QED
      BY <1>5, <1>7, <1>9, <3>3, <3>5 DEF Following
  <2>4. CASE SendRuntime(k)
    <3>1. Listed
      BY <1>12, <2>4 DEF SendRuntime, Listed
    <3>2. PICK stored \in SUBSET {c \in Found(k) : Stored(c)} :
            LET all == RuntimeSessions(k, stored)
            IN  net' = IF all = {} THEN net ELSE Append(net, [kind |-> "runtime", rows |-> all])
      BY <2>4 DEF SendRuntime
    <3>3. PICK all : all = RuntimeSessions(k, stored)
      OBVIOUS
    <3> DEFINE m == [kind |-> "runtime", rows |-> all]
    <3>4. /\ net' = (IF all = {} THEN net ELSE Append(net, m)) /\ m \in Message
          /\ \A c \in Convs : HasRow(c) => \E y \in all : y.session \in IdsOf(c)
      BY <3>2, <3>3, RuntimeMessage
    <3>5. \A c \in Convs : OnDisk(c) => GoesLive(c)'
      <4>1. \A c \in Convs : OnDisk(c) => GoesLive(c) /\ ~Deletes(m, c)
        BY <1>1, <3>1 DEF SessionsFollow, Deletes
      <4>2. QED
        BY <1>1, <1>2, <3>4, <4>1, GoesOn, LivesFrame
    <3>6. ASSUME NEW c \in Convs, HasRow(c) PROVE GetsKnown(c)'
      <4>1. net' = Append(net, m) /\ Names(m, c)
        BY <3>4, <3>6 DEF Names
      <4>2. \E j \in DOMAIN net' : Names(net'[j], c)
        BY <1>1, <3>4, <4>1, NamedOn
      <4>3. QED
        BY <4>2 DEF GetsKnown, Names
    <3>7. ASSUME NEW r \in Runs, Resumes(run[r]) PROVE GetsKnown(run[r].conv)'
      <4>1. PICK c \in Convs : c = run[r].conv
        BY <1>1, <3>7 DEF Running, RunsTrue, Resumes
      <4>2. HasRow(c) \/ Promised(c)
        BY <1>1, <3>7, <4>1 DEF RunsKnown, RunKnown
      <4>3. GetsKnown(c)'
        BY <1>8, <3>6, <4>2 DEF GetsKnown
      <4>4. QED
        BY <1>2, <4>1, <4>3
    <3>8. SessionsFollow' /\ RowsFollow'
      <4>1. SessionsFollow'
        BY <1>2, <3>5 DEF SessionsFollow, OnDisk
      <4>2. \A c \in Convs : HasRow(c)' => GetsKnown(c)'
        BY <1>8, <3>6
      <4>3. \A r \in Runs : Resumes(run[r])' => GetsKnown(run[r].conv)'
        BY <1>2, <3>7 DEF Resumes
      <4>4. QED
        BY <4>1, <4>2, <4>3 DEF RowsFollow
    <3>9. QED
      BY <1>5, <1>7, <1>9, <3>8 DEF Following
  <2>5. CASE SendDeleted(k)
    <3> DEFINE m == [kind |-> "deleted", convs |-> task[k].deleted]
    <3>1. m \in Message /\ net' = Append(net, m) /\ task[k].pc = "deleted" /\ Listed /\ Told
      BY <1>12, <2>1, <2>5 DEF SendDeleted, Message, Listed, Told
    <3>2. \A c \in Convs : OnDisk(c) => GoesLive(c)'
      <4>1. \A c \in Convs : OnDisk(c) => GoesLive(c) /\ ~Deletes(m, c)
        BY <1>1, <2>1, <3>1 DEF SessionsFollow, Deletes
      <4>2. QED
        BY <1>1, <1>2, <3>1, <4>1, GoesOn
    <3>3. SessionsFollow'
      BY <1>2, <3>2 DEF SessionsFollow, OnDisk
    <3>4. RowsFollow'
      BY <1>1, <1>2, <1>8, <1>10, <3>1, RowsFollowFrame
    <3>5. QED
      BY <1>5, <1>7, <1>9, <3>3, <3>4 DEF Following
  <2>6. QED
    BY <2>3, <2>4, <2>5
<1>13. QED
  BY <1>11, <1>12

-----------------------------------------------------------------------------
LEMMA NextFollow ==
  FollowInv /\ [Next]_vars => FollowInv'
<1> SUFFICES ASSUME IndexInv, Following, [Next]_vars PROVE IndexInv' /\ Following'
  BY DEF FollowInv
<1>1. IndexInv'
  BY NextInv
<1>2. ASSUME NEW c \in Convs, Create(c) \/ Configure(c) \/ Move(c) \/ Remove(c) PROVE Following'
  BY <1>1, <1>2, DiskFollow DEF Create, Configure, Move, Remove
<1>3. ASSUME NEW root \in Roots, Mount(root) PROVE Following'
  BY <1>1, <1>3, DiskFollow DEF Mount
<1>4. ASSUME NEW k \in Tasks,
             \/ StartRefresh(k) \/ Walk(k) \/ SaveRefresh(k) \/ SaveLookup(k) \/ SaveHistory(k)
             \/ SendSessions(k) \/ SendRuntime(k) \/ SendDeleted(k)
      PROVE  Following'
  BY <1>1, <1>4, ScansFollow, SaveRefreshFollow, SaveLookupFollow, SaveHistoryFollow, SendFollow
<1>5. ASSUME NEW r \in Runs,
             \/ StartNew(r) \/ Resume(r) \/ Refreshed(r) \/ Resolved(r)
             \/ Select(r) \/ Delete(r) \/ Insert(r) \/ EndRun(r) \/ AfterRun(r)
      PROVE  Following'
  BY <1>1, <1>5, StartNewFollow, ResumeFollow, RefreshedFollow, ResolvedFollow, SelectFollow,
     DeleteFollow, InsertFollow, EndRunFollow, AfterRunFollow
<1>6. CASE ReceiveSessions \/ ReceiveDeleted \/ ReceiveRuntime \/ ReceiveEvent
  BY <1>1, <1>6, ReceiveListFollow, ReceiveRuntimeFollow, ReceiveEventFollow
<1>7. CASE Drop \/ AgentStops
  BY <1>1, <1>7, DropFollow, AgentStopsFollow
<1>8. CASE UNCHANGED vars
  <2>1. UNCHANGED <<disk, mounted, agent, task, run, events, net, server, steady, published>>
    BY <1>8 DEF vars, history
  <2>2. QED
    BY <1>1, <2>1, QuietStep DEF Waiting
<1>9. QED
  BY <1>1, <1>2, <1>3, <1>4, <1>5, <1>6, <1>7, <1>8 DEF Next

LEMMA FollowersFollow ==
  FollowInv => ServerFollows
<1> SUFFICES ASSUME IndexInv, Following, published, net = <<>>, events = <<>>
             PROVE  /\ \A c \in Convs : OnDisk(c) => srvSessions[c] = "live"
                    /\ \A id \in Ids : Stored(id) => ServerKnows(ConvOf(id)) \/ ServerKnows(Thread[ConvOf(id)])
  BY DEF FollowInv, ServerFollows
<1>1. ServerRowsTrue /\ SessionsFollow /\ RowsFollow /\ Listed /\ Told
      /\ DOMAIN net = {} /\ DOMAIN events = {}
  BY EmptyQueue DEF Following, Listed, Told
<1>2. \A c \in Convs : OnDisk(c) => srvSessions[c] = "live"
  BY <1>1 DEF SessionsFollow, GoesLive
<1>3. ASSUME NEW id \in Ids, Stored(id)
      PROVE  ServerKnows(ConvOf(id)) \/ ServerKnows(Thread[ConvOf(id)])
  <2>1. PICK c \in Convs : c = ConvOf(id) /\ id \in IdsOf(c)
    BY Identity
  <2>2. GetsKnown(c)
    BY <1>1, <1>3, <2>1 DEF RowsFollow, HasRow, IdsOf
  <2>3. RowKnown(c) \/ OnDisk(c)
    BY <1>1, <2>2 DEF GetsKnown, Promised
  <2>4. CASE OnDisk(c)
    BY <1>2, <2>1, <2>4 DEF ServerKnows
  <2>5. CASE RowKnown(c)
    <3>1. PICK s \in IdsOf(c) : srvRows[s] # SrvNone
      BY <2>5 DEF RowKnown
    <3>2. s \in Ids /\ srvRows[s].session \in IdsOf(c)
      BY <1>1, <3>1, Identity DEF ServerRowsTrue, IdsOf
    <3>3. QED
      BY <2>1, <3>1, <3>2 DEF ServerKnows, IdsOf
  <2>6. QED
    BY <2>3, <2>4, <2>5
<1>4. QED
  BY <1>2, <1>3

(* What a steady refresh has sent is at the server once it has arrived, in *)
(* spite of older scans and of the runs that write the same rows           *)
(* (uploadIndexSnapshot, UpsertRuntimeSession, projectRuntimeSessionTx).   *)
THEOREM ServerCatchesUp ==
  Spec => []ServerFollows
<1>1. Init => FollowInv
  BY InitInv, InitFollow DEF FollowInv
<1>2. QED
  BY <1>1, NextFollow, FollowersFollow, PTL DEF Spec
============================================================================
