------------------------ MODULE RunEventOutboxProofs ------------------------
(* Theorems about RunEventOutbox, for every set of events and runs and     *)
(* every bound: the types, the sequence numbers, the delivery of the       *)
(* outbox, and the causal order of the live events.                        *)
EXTENDS RunEventOutbox, FiniteSetTheorems, SequenceTheorems, TLAPS

(* A finite set has a member with the smallest and one with the largest    *)
(* value.  The proof takes a smallest subset that has none.                *)
LEMMA Extremes ==
  ASSUME NEW E, NEW f \in [E -> Nat], NEW S \in SUBSET E, IsFiniteSet(S), S # {}
  PROVE  \E lo, hi \in S : \A x \in S : f[lo] <= f[x] /\ f[x] <= f[hi]
<1> DEFINE Good(X) == \E lo, hi \in X : \A x \in X : f[lo] <= f[x] /\ f[x] <= f[hi]
           Bad == {X \in FiniteSubsetsOf(S) : X # {} /\ ~Good(X)}
<1>1. S \in FiniteSubsetsOf(S)
  BY DEF FiniteSubsetsOf
<1>2. SUFFICES ASSUME Bad # {} PROVE FALSE
  BY <1>1
<1>3. PICK X \in Bad : \A Y \in Bad : <<Y, X>> \notin StrictSubsetOrdering(S)
  <2>1. Bad \subseteq FiniteSubsetsOf(S)
    OBVIOUS
  <2>2. IsWellFoundedOn(StrictSubsetOrdering(S), FiniteSubsetsOf(S))
    BY FS_StrictSubsetOrderingWellFounded
  <2>3. \E X \in Bad : \A Y \in Bad : ~(<<Y, X>> \in StrictSubsetOrdering(S))
    BY <1>2, <2>1, <2>2, WFMin
  <2>4. QED
    BY <2>3
<1>4. PICK a \in X : TRUE
  OBVIOUS
<1>5. IsFiniteSet(X) /\ X \subseteq S /\ ~Good(X)
  BY DEF FiniteSubsetsOf
<1>6. CASE X = {a}
  BY <1>5, <1>6
<1>7. CASE X # {a}
  <2> DEFINE Y == X \ {a}
  <2>1. IsFiniteSet(Y) /\ Y \subseteq S /\ Y # {}
    <3>1. IsFiniteSet(Y)
      BY <1>5, FS_RemoveElement
    <3>2. Y # {}
      BY <1>4, <1>7
    <3>3. QED
      BY <1>5, <3>1, <3>2
  <2>2. <<Y, X>> \in StrictSubsetOrdering(S)
    BY <1>4, <1>5, <2>1 DEF StrictSubsetOrdering, FiniteSubsetsOf
  <2>3. Good(Y)
    BY <1>3, <2>1, <2>2 DEF FiniteSubsetsOf
  <2>4. PICK lo, hi \in Y : \A x \in Y : f[lo] <= f[x] /\ f[x] <= f[hi]
    BY <2>3
  <2>5. /\ lo \in X /\ hi \in X /\ f[lo] \in Nat /\ f[hi] \in Nat /\ f[a] \in Nat
        /\ \A x \in X : f[x] \in Nat
    BY <1>4, <1>5
  <2> HIDE DEF Good, Bad, Y
  <2>6. PICK lo1 \in X : f[lo1] <= f[lo] /\ f[lo1] <= f[a]
    <3>1. f[lo] <= f[a] \/ f[a] <= f[lo]
      BY <2>5
    <3>2. f[lo] <= f[lo] /\ f[a] <= f[a]
      BY <2>5
    <3>3. QED
      BY <1>4, <2>5, <3>1, <3>2
  <2>7. PICK hi1 \in X : f[hi] <= f[hi1] /\ f[a] <= f[hi1]
    <3>1. f[hi] <= f[a] \/ f[a] <= f[hi]
      BY <2>5
    <3>2. f[hi] <= f[hi] /\ f[a] <= f[a]
      BY <2>5
    <3>3. QED
      BY <1>4, <2>5, <3>1, <3>2
  <2>8. ASSUME NEW x \in X PROVE f[lo1] <= f[x] /\ f[x] <= f[hi1]
    <3>1. f[lo1] \in Nat /\ f[hi1] \in Nat /\ f[x] \in Nat
      BY <2>5
    <3>2. x = a \/ (f[lo] <= f[x] /\ f[x] <= f[hi])
      BY <2>4 DEF Y
    <3>3. QED
      BY <2>5, <2>6, <2>7, <3>1, <3>2
  <2>9. QED
    BY <1>5, <2>8 DEF Good
<1>8. QED
  BY <1>6, <1>7

-----------------------------------------------------------------------------
(* What the operators of the model return.                                 *)

LEMMA FirstIsMember ==
  ASSUME TypeOK, NEW S \in SUBSET Events, S # {}
  PROVE  First(S) \in S
<1>1. IsFiniteSet(S) /\ seq \in [Events -> Nat]
  BY EventAssumption, FS_Subset DEF TypeOK
<1>2. \E lo, hi \in S : \A x \in S : seq[lo] <= seq[x] /\ seq[x] <= seq[hi]
  BY <1>1, Extremes
<1>3. \E e \in S : \A d \in S : ~Before(d, e)
  BY <1>1, <1>2 DEF Before
<1>4. QED
  BY <1>3 DEF First

(* LastSeq is an upper bound of the saved numbers.                         *)
LEMMA LastSeqBounds ==
  ASSUME TypeOK
  PROVE  LastSeq \in Nat /\ \A e \in rows : seq[e] <= LastSeq
<1>1. CASE rows = {}
  BY <1>1 DEF LastSeq
<1>2. CASE rows # {}
  <2> DEFINE last == CHOOSE e \in rows : \A d \in rows : ~Before(e, d)
  <2>1. IsFiniteSet(rows) /\ seq \in [Events -> Nat] /\ rows \subseteq Events
    BY EventAssumption, FS_Subset DEF TypeOK
  <2>2. \E lo, hi \in rows : \A x \in rows : seq[lo] <= seq[x] /\ seq[x] <= seq[hi]
    BY <1>2, <2>1, Extremes
  <2>3. \E e \in rows : \A d \in rows : ~Before(e, d)
    BY <2>1, <2>2 DEF Before
  <2>4. last \in rows /\ \A d \in rows : ~Before(last, d)
    BY <2>3
  <2>5. LastSeq = seq[last]
    BY <1>2 DEF LastSeq
  <2>6. QED
    BY <2>1, <2>4, <2>5 DEF Before
<1>3. QED
  BY <1>1, <1>2

(* A removal leaves a sequence of the same members.                        *)
LEMMA RemovedAt ==
  ASSUME NEW S, NEW s \in Seq(S), NEW i \in DOMAIN s
  PROVE  RemoveAt(s, i) \in Seq(S)
<1>1. i \in 1 .. Len(s) /\ Len(s) \in Nat
  OBVIOUS
<1>2. SubSeq(s, 1, i - 1) \in Seq(S)
  BY <1>1, SubSeqProperties
<1>3. SubSeq(s, i + 1, Len(s)) \in Seq(S)
  BY <1>1, SubSeqProperties
<1>4. QED
  BY <1>2, <1>3, ConcatProperties DEF RemoveAt

(* A flush that is not idle has an event and goes from step to step.       *)
LEMMA FlushTypes ==
  ASSUME TypeOK, flush.pc # "idle"
  PROVE  /\ flush.event \in Events /\ flush.todo \in SUBSET Events
         /\ \A pc \in {"send", "write", "mark", "check"} :
              /\ [flush EXCEPT !.pc = pc] \in Flushes
              /\ [flush EXCEPT !.pc = pc].pc = pc
              /\ [flush EXCEPT !.pc = pc].event = flush.event
              /\ [flush EXCEPT !.pc = pc].todo = flush.todo
<1>1. flush \in [pc : {"send", "write", "mark", "check"}, event : Events, todo : SUBSET Events]
  BY DEF TypeOK, Flushes, Idle
<1>2. QED
  BY <1>1 DEF Flushes

LEMMA EmptyQueue == \A S : <<>> \in Seq(S)
BY EmptySeq

(* The two ends of a queue.                                                *)
LEMMA QueueTypes ==
  ASSUME NEW S, NEW q \in Seq(S)
  PROVE  /\ \A x \in S : Append(q, x) \in Seq(S)
         /\ q # <<>> => Head(q) \in S /\ Tail(q) \in Seq(S)
<1>1. \A x \in S : Append(q, x) \in Seq(S)
  BY AppendProperties
<1>2. ASSUME q # <<>> PROVE Head(q) \in S /\ Tail(q) \in Seq(S)
  BY <1>2, HeadTailProperties
<1>3. QED
  BY <1>1, <1>2

LEMMA WriteTypes ==
  ASSUME TypeOK, NEW s \in Senders, NEW e \in Events, Write(s, e)
  PROVE  /\ wire' \in Seq(Events) /\ numbered' \in Seq(Senders) /\ late' \subseteq Senders
<1>1. wire' \in Seq(Events)
  BY QueueTypes DEF Write, TypeOK
<1>2. numbered' \in Seq(Senders)
  BY RemovedAt DEF Write, Written, TypeOK
<1>3. late' \subseteq Senders
  BY DEF Write, Older, TypeOK
<1>4. QED
  BY <1>1, <1>2, <1>3

LEMMA TakeTypes ==
  ASSUME TypeOK, NEW S \in SUBSET Events, Take(S)
  PROVE  flush' \in Flushes
<1>1. CASE S = {}
  BY <1>1 DEF Take, Flushes
<1>2. CASE S # {}
  BY <1>2, FirstIsMember DEF Take, Flushes
<1>3. QED
  BY <1>1, <1>2

LEMMA MarkTypes ==
  ASSUME TypeOK, NEW e \in Events, MarkSent(e)
  PROVE  retry' \in [Events -> 0 .. 2]
<1>1. CASE e \in rows /\ retry[e] < 2
  <2>1. retry[e] \in 0 .. 2 /\ retry[e] + 1 \in 0 .. 2
    BY <1>1 DEF TypeOK
  <2>2. QED
    BY <1>1, <2>1 DEF MarkSent, TypeOK
<1>2. CASE ~(e \in rows /\ retry[e] < 2)
  BY <1>2 DEF MarkSent, TypeOK
<1>3. QED
  BY <1>1, <1>2

LEMMA InitType == Init => TypeOK
<1> SUFFICES ASSUME Init PROVE TypeOK
  OBVIOUS
<1>1. /\ emit \in [Events -> EmitPC] /\ seq \in [Events -> Nat]
      /\ retry \in [Events -> 0 .. 2] /\ status \in [Runs -> RunStatus]
  BY DEF Init, EmitPC, RunStatus
<1>2. QED
  BY <1>1, EmptyQueue DEF Init, TypeOK, Flushes

LEMMA EmitType ==
  ASSUME TypeOK, NEW e \in Events, EmitStep(e)
  PROVE  TypeOK'
<1> USE DEF TypeOK, agent, outbox, link, server, history, counted
<1>1. CASE EmitBegin(e)
  BY <1>1 DEF EmitBegin, GotoEmit, EmitPC
<1>2. CASE EmitSave(e)
  BY <1>2 DEF EmitSave, GotoEmit, EmitPC
<1>3. CASE EmitNumber(e)
  <2>1. numbered' \in Seq(Senders)
    BY <1>3, QueueTypes DEF EmitNumber, Number, Senders
  <2>2. QED
    BY <1>3, <2>1 DEF EmitNumber, Number, GotoEmit, EmitPC
<1>4. CASE EmitWrite(e)
  <2>1. /\ wire' \in Seq(Events) /\ numbered' \in Seq(Senders) /\ late' \subseteq Senders
    BY <1>4, WriteTypes DEF EmitWrite, Senders
  <2>2. QED
    BY <1>4, <2>1 DEF EmitWrite, GotoEmit, EmitPC
<1>5. CASE EmitQueue(e)
  BY <1>5 DEF EmitQueue, GotoEmit, EmitPC
<1>6. CASE EmitMark(e)
  <2>1. retry' \in [Events -> 0 .. 2]
    BY <1>6, MarkTypes DEF EmitMark
  <2>2. QED
    BY <1>6, <2>1 DEF EmitMark, GotoEmit, EmitPC
<1>7. CASE EmitCheck(e)
  BY <1>7 DEF EmitCheck, RefreshIfFirst, GotoEmit, EmitPC
<1>8. QED
  BY <1>1, <1>2, <1>3, <1>4, <1>5, <1>6, <1>7 DEF EmitStep

LEMMA FlushType ==
  ASSUME TypeOK, FlushStep
  PROVE  TypeOK'
<1> USE DEF TypeOK, agent, outbox, link, server, history, counted
<1>1. CASE FlushScan
  BY <1>1, TakeTypes DEF FlushScan, Oldest, Pending
<1>2. CASE FlushNumber
  <2>1. numbered' \in Seq(Senders)
    BY <1>2, QueueTypes DEF FlushNumber, Number, Senders
  <2>2. flush' \in Flushes
    BY <1>2, FlushTypes DEF FlushNumber
  <2>3. QED
    BY <1>2, <2>1, <2>2 DEF FlushNumber, Number
<1>3. CASE FlushWrite
  <2>1. flush.event \in Events /\ flush' \in Flushes
    BY <1>3, FlushTypes DEF FlushWrite
  <2>2. /\ wire' \in Seq(Events) /\ numbered' \in Seq(Senders) /\ late' \subseteq Senders
    BY <1>3, <2>1, WriteTypes DEF FlushWrite, Senders
  <2>3. QED
    BY <1>3, <2>1, <2>2 DEF FlushWrite
<1>4. CASE FlushMark
  <2>1. flush.event \in Events /\ flush' \in Flushes
    BY <1>4, FlushTypes DEF FlushMark
  <2>2. retry' \in [Events -> 0 .. 2]
    BY <1>4, <2>1, MarkTypes DEF FlushMark
  <2>3. QED
    BY <1>4, <2>1, <2>2 DEF FlushMark
<1>5. CASE FlushCheck
  <2>1. flush.todo \in SUBSET Events /\ flush.event \in Events
    BY <1>5, FlushTypes DEF FlushCheck
  <2>2. flush' \in Flushes
    BY <1>5, <2>1, TakeTypes DEF FlushCheck
  <2>3. QED
    BY <1>5, <2>1, <2>2 DEF FlushCheck, RefreshIfFirst
<1>6. CASE FlushAbort
  BY <1>6 DEF FlushAbort, Flushes
<1>7. QED
  BY <1>1, <1>2, <1>3, <1>4, <1>5, <1>6 DEF FlushStep

LEMMA AnswerTypes ==
  ASSUME TypeOK, NEW e \in Events, NEW result \in Results, Answer(e, result)
  PROVE  back' \in Seq([event : Events, result : Results])
<1>1. [event |-> e, result |-> result] \in [event : Events, result : Results]
  OBVIOUS
<1>2. QED
  BY <1>1, QueueTypes DEF Answer, TypeOK

LEMMA ServerType ==
  ASSUME TypeOK, ServerStep \/ ReadAck
  PROVE  TypeOK'
<1> USE DEF TypeOK, agent, outbox, link, server, history, counted
<1>1. CASE ServerStore
  <2>1. Head(wire) \in Events /\ wire' \in Seq(Events)
    BY <1>1, QueueTypes DEF ServerStore
  <2>2. arrived' \in Seq(Events)
    BY <1>1, <2>1, QueueTypes DEF ServerStore
  <2>3. back' \in Seq([event : Events, result : Results])
    BY <1>1, <2>1, AnswerTypes DEF ServerStore, Results
  <2>4. status' \in [Runs -> RunStatus]
    BY <1>1, <2>1, EventAssumption DEF ServerStore, ProjectRun, RunStatus
  <2>5. QED
    BY <1>1, <2>1, <2>2, <2>3, <2>4 DEF ServerStore
<1>2. CASE ServerConflict
  <2>1. Head(wire) \in Events /\ wire' \in Seq(Events)
    BY <1>2, QueueTypes DEF ServerConflict
  <2>2. back' \in Seq([event : Events, result : Results])
    BY <1>2, <2>1, AnswerTypes DEF ServerConflict, Results, Resolve
  <2>3. QED
    BY <1>2, <2>1, <2>2 DEF ServerConflict
<1>3. CASE ServerFail
  <2>1. Head(wire) \in Events /\ wire' \in Seq(Events)
    BY <1>3, QueueTypes DEF ServerFail
  <2>2. back' \in Seq([event : Events, result : Results])
    BY <1>3, <2>1, AnswerTypes DEF ServerFail, Results
  <2>3. QED
    BY <1>3, <2>1, <2>2 DEF ServerFail
<1>4. CASE ReadAck
  <2>1. Head(back) \in [event : Events, result : Results]
        /\ back' \in Seq([event : Events, result : Results])
    BY <1>4, QueueTypes DEF ReadAck
  <2>2. QED
    BY <1>4, <2>1 DEF ReadAck
<1>5. QED
  BY <1>1, <1>2, <1>3, <1>4 DEF ServerStep

LEMMA BootType ==
  ASSUME TypeOK, BootStep
  PROVE  TypeOK'
<1> USE DEF TypeOK, agent, outbox, link, server, history, counted
<1>1. CASE Booted
  BY <1>1, LastSeqBounds DEF Booted
<1>2. ASSUME NEW e \in Events, Reconcile(e) PROVE TypeOK'
  BY <1>2, LastSeqBounds DEF Reconcile, GotoEmit, EmitPC
<1>3. QED
  BY <1>1, <1>2 DEF BootStep

LEMMA LinkType ==
  ASSUME TypeOK, Connect \/ Drop \/ OtherSend \/ Crash
  PROVE  TypeOK'
<1> USE DEF TypeOK, agent, outbox, link, server, history, counted
<1>1. CASE Connect
  BY <1>1 DEF Connect
<1>2. CASE Drop
  <2>1. numbered' \in Seq(Senders) /\ wire' \in Seq(Events)
        /\ back' \in Seq([event : Events, result : Results])
        /\ conn' \in BOOLEAN /\ late' \subseteq Senders
    BY <1>2, EmptyQueue DEF Drop, LoseConnection
  <2>2. QED
    BY <1>2, <2>1 DEF Drop
<1>3. CASE OtherSend
  BY <1>3 DEF OtherSend
<1>4. CASE Crash
  <2>1. emit' \in [Events -> EmitPC]
    BY <1>4 DEF Crash, EmitPC
  <2>2. numbered' \in Seq(Senders) /\ wire' \in Seq(Events)
        /\ back' \in Seq([event : Events, result : Results])
        /\ conn' \in BOOLEAN /\ late' \subseteq Senders
    BY <1>4, EmptyQueue DEF Crash, LoseConnection
  <2>3. QED
    BY <1>4, <2>1, <2>2 DEF Crash, Flushes
<1>5. QED
  BY <1>1, <1>2, <1>3, <1>4

LEMMA TypeStep == TypeOK /\ [Next]_vars => TypeOK'
<1> SUFFICES ASSUME TypeOK, [Next]_vars PROVE TypeOK'
  OBVIOUS
<1>1. CASE UNCHANGED vars
  BY <1>1 DEF vars, agent, outbox, link, server, history, counted, TypeOK
<1>2. CASE Next
  BY <1>2, EmitType, FlushType, ServerType, BootType, LinkType DEF Next
<1>3. QED
  BY <1>1, <1>2

(* Every variable keeps its type: what the emitters, the outbox loop, the  *)
(* server and the reconciliation take from the tables exists there.        *)
THEOREM TypeCorrect == Spec => []TypeOK
<1>1. QED
  BY InitType, TypeStep, PTL DEF Spec

-----------------------------------------------------------------------------
(* The strengthening of SeqUnique and Delivers.                            *)

InFlight == {wire[i] : i \in 1 .. Len(wire)}

(* Events whose number Manager.Emit handed out and that are not lost.      *)
Live == {e \in Events : emit[e] \in {"save", "send", "write", "mark"}}

(* An event is in the outbox from the save on and not before; only the     *)
(* reconciliation, which makes no other step, emits interrupted events.    *)
SavedInTime ==
  \A e \in Events :
    /\ emit[e] \in {"send", "write", "mark", "check", "done"} => e \in rows
    /\ emit[e] \in {"new", "save"} => e \notin rows
    /\ KindOf[e] = "interrupted" => emit[e] \in {"new", "done"}

(* What is sent, and so what is stored, was saved.                         *)
SentWasSaved ==
  /\ InFlight \subseteq rows /\ Stored \subseteq rows
  /\ flush.pc # "idle" => flush.event \in rows
  /\ flush.todo \subseteq rows

(* No goroutine emits while the reconciliation numbers its events.         *)
BootIsQuiet == phase = "boot" => Live = {}

(* The counter is not below a number that is in use.                       *)
CounterAhead == phase = "up" => \A e \in rows \cup Live : seq[e] <= eventSeq

(* The server answers acked or duplicate only about what it has.           *)
AnswersTrue ==
  /\ \A i \in 1 .. Len(back) : AckTerminal(back[i].result) => back[i].event \in Stored
  /\ acked \subseteq Stored

Numbering == SavedInTime /\ SentWasSaved /\ BootIsQuiet /\ CounterAhead /\ AnswersTrue /\ SeqUnique

LEMMA NumberingInit == Init => Numbering
<1> SUFFICES ASSUME Init PROVE Numbering
  OBVIOUS
<1>1. InFlight = {} /\ Stored = {} /\ Live = {} /\ rows = {}
  BY DEF Init, InFlight, Stored, Live
<1>2. SavedInTime /\ SentWasSaved
  BY <1>1 DEF Init, SavedInTime, SentWasSaved, Idle
<1>3. BootIsQuiet /\ CounterAhead /\ AnswersTrue
  BY <1>1 DEF Init, BootIsQuiet, CounterAhead, AnswersTrue
<1>4. SeqUnique
  BY <1>1 DEF SeqUnique, Live
<1>5. QED
  BY <1>2, <1>3, <1>4 DEF Numbering

-----------------------------------------------------------------------------
(* What the steps do to the queues and to the server's table.              *)

LEMMA WriteFlies ==
  ASSUME TypeOK, NEW s \in Senders, NEW e \in Events, Write(s, e)
  PROVE  InFlight' \subseteq InFlight \cup {e}
<1>1. CASE wire' = wire
  BY <1>1 DEF InFlight
<1>2. CASE wire' = Append(wire, e)
  <2>1. wire \in Seq(Events)
    BY DEF TypeOK
  <2>2. /\ Len(wire') = Len(wire) + 1 /\ wire'[Len(wire) + 1] = e
        /\ \A i \in 1 .. Len(wire) : wire'[i] = wire[i]
    BY <1>2, <2>1, AppendProperties
  <2>3. Len(wire) \in Nat
    BY <2>1, LenProperties
  <2>4. ASSUME NEW i \in 1 .. Len(wire') PROVE wire'[i] \in InFlight \cup {e}
    <3>1. i \in 1 .. Len(wire) \/ i = Len(wire) + 1
      BY <2>2, <2>3
    <3>2. QED
      BY <2>2, <3>1 DEF InFlight
  <2>5. QED
    BY <2>4 DEF InFlight
<1>3. QED
  BY <1>1, <1>2 DEF Write

(* The server reads the head of the queue.                                 *)
LEMMA ReadFlies ==
  ASSUME TypeOK, wire # <<>>, wire' = Tail(wire)
  PROVE  Head(wire) \in InFlight /\ InFlight' \subseteq InFlight
<1>1. wire \in Seq(Events) /\ Len(wire) \in Nat /\ Len(wire) # 0
  BY LenProperties, EmptySeq DEF TypeOK
<1>2. Head(wire) = wire[1]
  BY <1>1, HeadTailProperties
<1>3. Len(wire') = Len(wire) - 1 /\ \A i \in 1 .. Len(wire') : wire'[i] = wire[i + 1]
  BY <1>1, HeadTailProperties
<1>4. \A i \in 1 .. Len(wire') : i + 1 \in 1 .. Len(wire)
  BY <1>1, <1>3
<1>5. InFlight' \subseteq InFlight
  BY <1>3, <1>4 DEF InFlight
<1>6. 1 \in 1 .. Len(wire)
  BY <1>1
<1>7. QED
  BY <1>2, <1>5, <1>6 DEF InFlight

LEMMA StoreArrives ==
  ASSUME TypeOK, NEW e \in Events, arrived' = Append(arrived, e)
  PROVE  Stored' = Stored \cup {e}
<1>1. arrived \in Seq(Events) /\ Len(arrived) \in Nat
  BY LenProperties DEF TypeOK
<1>2. /\ Len(arrived') = Len(arrived) + 1 /\ arrived'[Len(arrived) + 1] = e
      /\ \A i \in 1 .. Len(arrived) : arrived'[i] = arrived[i]
  BY <1>1, AppendProperties
<1>3. 1 .. Len(arrived') = (1 .. Len(arrived)) \cup {Len(arrived) + 1}
  BY <1>1, <1>2
<1>4. QED
  BY <1>2, <1>3 DEF Stored

(* An answer about a stored event keeps the answers true.                  *)
LEMMA AnswerKeepsTrue ==
  ASSUME TypeOK, AnswersTrue, NEW e \in Events, NEW result \in Results, Answer(e, result),
         AckTerminal(result) => e \in Stored', Stored \subseteq Stored', acked' = acked
  PROVE  AnswersTrue'
<1>1. back \in Seq([event : Events, result : Results]) /\ Len(back) \in Nat
  BY LenProperties DEF TypeOK
<1>2. CASE back' = back
  BY <1>2 DEF AnswersTrue
<1>3. CASE back' = Append(back, [event |-> e, result |-> result])
  <2>1. /\ Len(back') = Len(back) + 1
        /\ back'[Len(back) + 1] = [event |-> e, result |-> result]
        /\ \A i \in 1 .. Len(back) : back'[i] = back[i]
    BY <1>1, <1>3, AppendProperties
  <2>2. ASSUME NEW i \in 1 .. Len(back'), AckTerminal(back'[i].result)
        PROVE  back'[i].event \in Stored'
    <3>1. i \in 1 .. Len(back) \/ i = Len(back) + 1
      BY <1>1, <2>1
    <3>2. CASE i \in 1 .. Len(back)
      BY <2>1, <2>2, <3>2 DEF AnswersTrue
    <3>3. CASE i = Len(back) + 1
      BY <2>1, <2>2, <3>3
    <3>4. QED
      BY <3>1, <3>2, <3>3
  <2>3. QED
    BY <2>2 DEF AnswersTrue
<1>4. QED
  BY <1>2, <1>3 DEF Answer

-----------------------------------------------------------------------------
(* Steps that hand out no number keep the numbers unique.                  *)
LEMMA NumbersKeep ==
  ASSUME TypeOK, Numbering, UNCHANGED <<phase, eventSeq, seq, rows>>,
         Live' \subseteq Live, Stored' \subseteq rows
  PROVE  BootIsQuiet' /\ CounterAhead' /\ SeqUnique'
<1>1. BootIsQuiet' /\ CounterAhead'
  BY DEF Numbering, BootIsQuiet, CounterAhead
<1>2. SeqUnique'
  BY DEF Numbering, SeqUnique, SentWasSaved, Live
<1>3. QED
  BY <1>1, <1>2

LEMMA AnswersKeep ==
  ASSUME AnswersTrue, UNCHANGED <<back, arrived, acked>>
  PROVE  AnswersTrue' /\ Stored' = Stored
BY DEF AnswersTrue, Stored

(* An emitter that goes on after the save.                                 *)
LEMMA EmitGoesOn ==
  ASSUME TypeOK, Numbering, NEW e \in Events, NEW pc \in {"write", "mark", "check", "done"},
         emit[e] \in {"send", "write", "mark", "check"}, emit[e] = "check" => pc = "done",
         GotoEmit(e, pc), rows' = rows
  PROVE  SavedInTime' /\ Live' \subseteq Live
<1>1. emit' = [emit EXCEPT ![e] = pc] /\ emit \in [Events -> EmitPC]
  BY DEF GotoEmit, TypeOK
<1>2. Live' \subseteq Live
  BY <1>1 DEF Live
<1>3. SavedInTime'
  BY <1>1 DEF SavedInTime, Numbering
<1>4. QED
  BY <1>2, <1>3

LEMMA NumberingEmit ==
  ASSUME TypeOK, Numbering, NEW e \in Events, EmitStep(e)
  PROVE  Numbering'
<1> USE DEF agent, outbox, link, server, history, counted, Emitting
<1>1. CASE EmitBegin(e)
  <2>1. /\ phase = "up" /\ emit[e] = "new" /\ KindOf[e] # "interrupted"
        /\ eventSeq' = eventSeq + 1 /\ seq' = [seq EXCEPT ![e] = eventSeq + 1]
        /\ emit' = [emit EXCEPT ![e] = "save"]
        /\ UNCHANGED <<phase, flush, rows, acked, wire, back, arrived>>
    BY <1>1 DEF EmitBegin, GotoEmit
  <2>2. emit \in [Events -> EmitPC] /\ seq \in [Events -> Nat] /\ eventSeq \in Nat
    BY DEF TypeOK
  <2>3. Live' = Live \cup {e} /\ e \notin rows
    BY <2>1, <2>2 DEF Live, Numbering, SavedInTime
  <2>4. SavedInTime'
    BY <2>1, <2>2 DEF Numbering, SavedInTime
  <2>5. SentWasSaved'
    BY <2>1 DEF Numbering, SentWasSaved, InFlight, Stored
  <2>6. AnswersTrue'
    BY <2>1, AnswersKeep DEF Numbering
  <2>7. BootIsQuiet'
    BY <2>1 DEF BootIsQuiet
  <2>8. seq'[e] = eventSeq + 1 /\ \A d \in Events \ {e} : seq'[d] = seq[d]
    BY <2>1, <2>2
  <2>9. \A d \in (rows \cup Live) \ {e} : seq'[d] \in Nat /\ seq'[d] <= eventSeq
    BY <2>1, <2>2, <2>8 DEF Numbering, CounterAhead, Live, TypeOK
  <2>10. CounterAhead'
    <3> SUFFICES ASSUME NEW d \in rows \cup Live \cup {e} PROVE seq'[d] <= eventSeq + 1
      BY <2>1, <2>3 DEF CounterAhead
    <3> QED
      BY <2>2, <2>8, <2>9
  <2>11. SeqUnique'
    <3> SUFFICES ASSUME NEW d \in rows \cup Live \cup {e}, NEW g \in rows \cup Live \cup {e},
                        d # g
                 PROVE  seq'[d] # seq'[g]
      BY <2>1, <2>3 DEF SeqUnique, Live, Numbering, SentWasSaved, Stored
    <3>1. CASE d = e \/ g = e
      BY <2>2, <2>8, <2>9, <3>1
    <3>2. CASE d # e /\ g # e
      BY <2>8, <3>2 DEF Numbering, SeqUnique, Live, TypeOK
    <3> QED
      BY <3>1, <3>2
  <2>12. QED
    BY <2>4, <2>5, <2>6, <2>7, <2>10, <2>11 DEF Numbering
<1>2. CASE EmitSave(e)
  <2>1. /\ phase = "up" /\ emit[e] = "save" /\ emit' = [emit EXCEPT ![e] = "send"]
        /\ UNCHANGED <<phase, eventSeq, seq, flush, acked, wire, back, arrived>>
    BY <1>2 DEF EmitSave, GotoEmit
  <2>2. emit \in [Events -> EmitPC] /\ seq \in [Events -> Nat]
    BY DEF TypeOK
  <2>3. e \in Live /\ e \notin rows /\ Live' = Live
    BY <2>1, <2>2 DEF Live, Numbering, SavedInTime
  <2>4. SeqFree(e)
    BY <2>3 DEF SeqFree, Numbering, SeqUnique, Live
  <2>5. rows' = rows \cup {e}
    BY <1>2, <2>4 DEF EmitSave
  <2>6. SavedInTime'
    BY <2>1, <2>2, <2>5 DEF Numbering, SavedInTime
  <2>7. SentWasSaved'
    BY <2>1, <2>5 DEF Numbering, SentWasSaved, InFlight, Stored
  <2>8. AnswersTrue'
    BY <2>1, AnswersKeep DEF Numbering
  <2>9. BootIsQuiet' /\ CounterAhead'
    BY <2>1, <2>3, <2>5 DEF BootIsQuiet, CounterAhead, Numbering
  <2>10. SeqUnique'
    BY <2>1, <2>3, <2>5 DEF Numbering, SeqUnique, Live, Stored
  <2>11. QED
    BY <2>6, <2>7, <2>8, <2>9, <2>10 DEF Numbering
<1>3. CASE EmitNumber(e) \/ EmitWrite(e) \/ EmitQueue(e) \/ EmitMark(e) \/ EmitCheck(e)
  <2>1. UNCHANGED <<phase, eventSeq, seq, flush, rows, acked, back, arrived>>
    BY <1>3 DEF EmitNumber, EmitWrite, EmitQueue, EmitMark, EmitCheck
  <2>2. /\ emit[e] \in {"send", "write", "mark", "check"}
        /\ \E pc \in {"write", "mark", "check", "done"} :
             (emit[e] = "check" => pc = "done") /\ GotoEmit(e, pc)
    BY <1>3 DEF EmitNumber, EmitWrite, EmitQueue, EmitMark, EmitCheck
  <2>3. SavedInTime' /\ Live' \subseteq Live /\ e \in rows
    BY <2>1, <2>2, EmitGoesOn DEF Numbering, SavedInTime
  <2>4. AnswersTrue' /\ Stored' = Stored
    BY <2>1, AnswersKeep DEF Numbering
  <2>5. InFlight' \subseteq InFlight \cup {e}
    <3>1. CASE wire' = wire
      BY <3>1 DEF InFlight
    <3>2. CASE EmitWrite(e)
      BY <3>2, WriteFlies DEF EmitWrite, Senders
    <3>3. QED
      BY <1>3, <3>1, <3>2 DEF EmitNumber, EmitQueue, EmitMark, EmitCheck
  <2>6. SentWasSaved'
    BY <2>1, <2>3, <2>4, <2>5 DEF Numbering, SentWasSaved
  <2>7. BootIsQuiet' /\ CounterAhead' /\ SeqUnique'
    BY <2>1, <2>3, <2>4, NumbersKeep DEF Numbering, SentWasSaved
  <2>8. QED
    BY <2>3, <2>4, <2>6, <2>7 DEF Numbering
<1>4. QED
  BY <1>1, <1>2, <1>3 DEF EmitStep
LEMMA TakeSaved ==
  ASSUME TypeOK, NEW S \in SUBSET rows, Take(S)
  PROVE  (flush'.pc # "idle" => flush'.event \in rows) /\ flush'.todo \subseteq rows
<1>1. S \in SUBSET Events
  BY DEF TypeOK
<1>2. CASE S = {}
  BY <1>2 DEF Take, Idle
<1>3. CASE S # {}
  BY <1>1, <1>3, FirstIsMember DEF Take
<1>4. QED
  BY <1>2, <1>3

LEMMA NumberingFlush ==
  ASSUME TypeOK, Numbering, FlushStep
  PROVE  Numbering'
<1> USE DEF agent, outbox, link, server, history, counted
<1>1. UNCHANGED <<phase, eventSeq, seq, emit, rows, acked, back, arrived>>
  BY DEF FlushStep, FlushScan, FlushNumber, FlushWrite, FlushMark, FlushCheck, FlushAbort
<1>2. Live' = Live /\ SavedInTime'
  BY <1>1 DEF Live, Numbering, SavedInTime
<1>3. AnswersTrue' /\ Stored' = Stored
  BY <1>1, AnswersKeep DEF Numbering
<1>4. BootIsQuiet' /\ CounterAhead' /\ SeqUnique'
  BY <1>1, <1>2, <1>3, NumbersKeep DEF Numbering, SentWasSaved
<1>5. (flush'.pc # "idle" => flush'.event \in rows) /\ flush'.todo \subseteq rows
  <2>1. CASE FlushScan
    BY <2>1, TakeSaved DEF FlushScan, Oldest, Pending
  <2>2. CASE FlushCheck
    <3>1. flush.todo \in SUBSET rows
      BY DEF Numbering, SentWasSaved
    <3>2. QED
      BY <2>2, <3>1, TakeSaved DEF FlushCheck
  <2>3. CASE FlushAbort
    BY <2>3 DEF FlushAbort, Idle
  <2>4. CASE FlushNumber \/ FlushWrite \/ FlushMark
    <3>1. flush.pc # "idle" /\ \E pc \in {"write", "mark", "check"} : flush' = [flush EXCEPT !.pc = pc]
      BY <2>4 DEF FlushNumber, FlushWrite, FlushMark
    <3>2. flush'.event = flush.event /\ flush'.todo = flush.todo
      BY <3>1, FlushTypes
    <3>3. QED
      BY <3>1, <3>2 DEF Numbering, SentWasSaved
  <2>5. QED
    BY <2>1, <2>2, <2>3, <2>4 DEF FlushStep
<1>6. InFlight' \subseteq rows
  <2>1. CASE wire' = wire
    BY <2>1 DEF InFlight, Numbering, SentWasSaved
  <2>2. CASE FlushWrite
    <3>1. flush.event \in Events /\ flush.event \in rows
      BY <2>2, FlushTypes DEF FlushWrite, Numbering, SentWasSaved
    <3>2. InFlight' \subseteq InFlight \cup {flush.event}
      BY <2>2, <3>1, WriteFlies DEF FlushWrite, Senders
    <3>3. QED
      BY <3>1, <3>2 DEF Numbering, SentWasSaved
  <2>3. QED
    BY <2>1, <2>2 DEF FlushStep, FlushScan, FlushNumber, FlushMark, FlushCheck, FlushAbort
<1>7. SentWasSaved'
  BY <1>1, <1>3, <1>5, <1>6 DEF Numbering, SentWasSaved
<1>8. QED
  BY <1>2, <1>3, <1>4, <1>7 DEF Numbering

(* An event that violates the unique key of the server is there already.   *)
LEMMA ClashIsDuplicate ==
  ASSUME TypeOK, Numbering, NEW e \in rows, Clash(e)
  PROVE  e \in Stored
BY DEF Clash, Numbering, SeqUnique, SentWasSaved

LEMMA NumberingServer ==
  ASSUME TypeOK, Numbering, ServerStep
  PROVE  Numbering'
<1> USE DEF agent, outbox, link, server, history, counted
<1>1. UNCHANGED <<phase, eventSeq, seq, emit, flush, rows, acked>>
  BY DEF ServerStep, ServerStore, ServerConflict, ServerFail
<1>2. Live' = Live /\ SavedInTime'
  BY <1>1 DEF Live, Numbering, SavedInTime
<1>3. wire # <<>> /\ wire' = Tail(wire)
  BY DEF ServerStep, ServerStore, ServerConflict, ServerFail
<1>4. Head(wire) \in rows /\ Head(wire) \in Events /\ InFlight' \subseteq rows
  BY <1>3, ReadFlies DEF Numbering, SentWasSaved, TypeOK
<1>5. Stored \subseteq Stored' /\ Stored' \subseteq rows
  <2>1. CASE ServerStore
    BY <1>4, <2>1, StoreArrives DEF ServerStore, Numbering, SentWasSaved
  <2>2. CASE ServerConflict \/ ServerFail
    BY <2>2 DEF ServerConflict, ServerFail, Stored, Numbering, SentWasSaved
  <2>3. QED
    BY <2>1, <2>2 DEF ServerStep
<1>6. AnswersTrue'
  <2>1. \E result \in Results : /\ Answer(Head(wire), result)
                                /\ AckTerminal(result) => Head(wire) \in Stored'
    <3>1. CASE ServerStore
      BY <1>4, <3>1, StoreArrives DEF ServerStore, Results
    <3>2. CASE ServerConflict
      <4>1. Head(wire) \in Stored
        BY <1>4, <3>2, ClashIsDuplicate DEF ServerConflict
      <4>2. QED
        BY <1>5, <3>2, <4>1 DEF ServerConflict, Results, Resolve
    <3>3. CASE ServerFail
      BY <3>3 DEF ServerFail, Results, AckTerminal
    <3>4. QED
      BY <3>1, <3>2, <3>3 DEF ServerStep
  <2>2. QED
    BY <1>1, <1>4, <1>5, <2>1, AnswerKeepsTrue DEF Numbering
<1>7. SentWasSaved'
  BY <1>1, <1>4, <1>5 DEF Numbering, SentWasSaved
<1>8. BootIsQuiet' /\ CounterAhead' /\ SeqUnique'
  BY <1>1, <1>2, <1>5, NumbersKeep
<1>9. QED
  BY <1>2, <1>6, <1>7, <1>8 DEF Numbering

LEMMA NumberingAck ==
  ASSUME TypeOK, Numbering, ReadAck
  PROVE  Numbering' /\ acked \subseteq acked' /\ acked' \subseteq acked \cup {Head(back).event}
<1> USE DEF agent, outbox, link, server, history, counted
<1>1. UNCHANGED <<phase, eventSeq, seq, emit, flush, rows, wire, arrived>>
  BY DEF ReadAck
<1>2. Live' = Live /\ SavedInTime' /\ SentWasSaved' /\ Stored' = Stored
  BY <1>1 DEF Live, Numbering, SavedInTime, SentWasSaved, Stored, InFlight
<1>3. /\ back # <<>> /\ back' = Tail(back)
      /\ acked' = IF AckTerminal(Head(back).result) /\ Head(back).event \in rows
                  THEN acked \cup {Head(back).event} ELSE acked
  BY DEF ReadAck
<1>4. back \in Seq([event : Events, result : Results]) /\ Len(back) \in Nat /\ Len(back) # 0
  BY <1>3, LenProperties, EmptySeq DEF TypeOK
<1>5. Head(back) = back[1] /\ 1 \in 1 .. Len(back)
  BY <1>3, <1>4, HeadTailProperties
<1>6. Len(back') = Len(back) - 1 /\ \A i \in 1 .. Len(back') : back'[i] = back[i + 1]
  BY <1>3, <1>4, HeadTailProperties
<1>7. \A i \in 1 .. Len(back') : i + 1 \in 1 .. Len(back)
  BY <1>4, <1>6
<1>8. AnswersTrue'
  <2>1. acked' \subseteq Stored
    BY <1>3, <1>5 DEF Numbering, AnswersTrue
  <2>2. QED
    BY <1>2, <1>6, <1>7, <2>1 DEF Numbering, AnswersTrue
<1>9. BootIsQuiet' /\ CounterAhead' /\ SeqUnique'
  BY <1>1, <1>2, NumbersKeep DEF Numbering, SentWasSaved
<1>10. QED
  BY <1>2, <1>3, <1>8, <1>9 DEF Numbering

LEMMA NumberingBoot ==
  ASSUME TypeOK, Numbering, BootStep
  PROVE  Numbering'
<1> USE DEF agent, outbox, link, server, history, counted
<1>1. LastSeq \in Nat /\ \A e \in rows : seq[e] <= LastSeq
  BY LastSeqBounds
<1>2. CASE Booted
  <2>1. /\ phase = "boot" /\ phase' = "up" /\ eventSeq' = LastSeq
        /\ UNCHANGED <<seq, emit, flush, rows, acked, wire, back, arrived>>
    BY <1>2 DEF Booted
  <2>2. Live' = {} /\ Live = {}
    BY <2>1 DEF Numbering, BootIsQuiet, Live
  <2>3. SavedInTime' /\ SentWasSaved' /\ AnswersTrue' /\ SeqUnique'
    BY <2>1 DEF Numbering, SavedInTime, SentWasSaved, AnswersTrue, SeqUnique, InFlight, Stored
  <2>4. BootIsQuiet' /\ CounterAhead'
    BY <1>1, <2>1, <2>2 DEF BootIsQuiet, CounterAhead
  <2>5. QED
    BY <2>3, <2>4 DEF Numbering
<1>3. ASSUME NEW e \in Events, Reconcile(e) PROVE Numbering'
  <2>1. /\ phase = "boot" /\ emit[e] = "new" /\ KindOf[e] = "interrupted"
        /\ seq' = [seq EXCEPT ![e] = LastSeq + 1] /\ rows' = rows \cup {e}
        /\ emit' = [emit EXCEPT ![e] = "done"]
        /\ UNCHANGED <<phase, eventSeq, flush, acked, wire, back, arrived>>
    BY <1>3 DEF Reconcile, MustReconcile, GotoEmit
  <2>2. emit \in [Events -> EmitPC] /\ seq \in [Events -> Nat]
    BY DEF TypeOK
  <2>3. e \notin rows /\ Live = {} /\ Live' = {}
    BY <2>1, <2>2 DEF Numbering, SavedInTime, BootIsQuiet, Live
  <2>4. SavedInTime' /\ SentWasSaved'
    BY <2>1, <2>2 DEF Numbering, SavedInTime, SentWasSaved, InFlight, Stored
  <2>5. AnswersTrue' /\ BootIsQuiet' /\ CounterAhead'
    BY <2>1, <2>3, AnswersKeep DEF Numbering, BootIsQuiet, CounterAhead
  <2>6. seq'[e] = LastSeq + 1 /\ \A d \in rows : seq'[d] = seq[d] /\ seq'[d] \in Nat
                                                /\ seq'[d] <= LastSeq
    BY <1>1, <2>1, <2>2, <2>3 DEF TypeOK
  <2>7. SeqUnique'
    <3> SUFFICES ASSUME NEW d \in rows \cup {e}, NEW g \in rows \cup {e}, d # g
                 PROVE  seq'[d] # seq'[g]
      BY <2>1, <2>3 DEF SeqUnique, Live, Numbering, SentWasSaved, Stored
    <3>1. CASE d = e \/ g = e
      BY <1>1, <2>6, <3>1
    <3>2. CASE d # e /\ g # e
      BY <2>6, <3>2 DEF Numbering, SeqUnique
    <3> QED
      BY <3>1, <3>2
  <2>8. QED
    BY <2>4, <2>5, <2>7 DEF Numbering
<1>4. QED
  BY <1>2, <1>3 DEF BootStep

LEMMA NumberingLink ==
  ASSUME TypeOK, Numbering, Connect \/ Drop \/ OtherSend \/ Crash
  PROVE  Numbering'
<1> USE DEF agent, outbox, link, server, history, counted
<1>1. UNCHANGED <<seq, rows, acked, arrived>> /\ Stored' = Stored
  BY DEF Connect, Drop, OtherSend, Crash, Stored
<1>2. InFlight' \subseteq InFlight
  BY DEF Connect, Drop, OtherSend, Crash, LoseConnection, InFlight
<1>3. AnswersTrue'
  <2>1. back' = back \/ back' = <<>>
    BY DEF Connect, Drop, OtherSend, Crash, LoseConnection
  <2>2. QED
    BY <1>1, <2>1 DEF Numbering, AnswersTrue
<1>4. SentWasSaved'
  <2>1. flush' = flush \/ flush' = Idle
    BY DEF Connect, Drop, OtherSend, Crash
  <2>2. QED
    BY <1>1, <1>2, <2>1 DEF Numbering, SentWasSaved, Idle
<1>5. CASE Connect \/ Drop \/ OtherSend
  <2>1. UNCHANGED <<phase, eventSeq, emit>>
    BY <1>5 DEF Connect, Drop, OtherSend
  <2>2. Live' = Live /\ SavedInTime'
    BY <1>1, <2>1 DEF Live, Numbering, SavedInTime
  <2>3. BootIsQuiet' /\ CounterAhead' /\ SeqUnique'
    BY <1>1, <2>1, <2>2, NumbersKeep DEF Numbering, SentWasSaved
  <2>4. QED
    BY <1>3, <1>4, <2>2, <2>3 DEF Numbering
<1>6. CASE Crash
  <2>1. /\ phase' = "boot"
        /\ \A e \in Events :
             /\ emit'[e] = emit[e] \/ emit'[e] = "dead"
             /\ emit[e] # "new" => emit'[e] = "dead" \/ emit[e] = "done"
             /\ KindOf[e] = "interrupted" => emit'[e] = emit[e]
    BY <1>6, EventAssumption DEF Crash, Begun, Numbering, SavedInTime
  <2>2. Live' = {} /\ SavedInTime'
    BY <1>1, <2>1 DEF Live, Numbering, SavedInTime
  <2>3. BootIsQuiet' /\ CounterAhead'
    BY <2>1, <2>2 DEF BootIsQuiet, CounterAhead
  <2>4. SeqUnique'
    BY <1>1, <2>2 DEF Numbering, SeqUnique, Live, SentWasSaved
  <2>5. QED
    BY <1>3, <1>4, <2>2, <2>3, <2>4 DEF Numbering
<1>7. QED
  BY <1>5, <1>6

LEMMA NumberingStep == TypeOK /\ Numbering /\ [Next]_vars => Numbering'
<1> SUFFICES ASSUME TypeOK, Numbering, [Next]_vars PROVE Numbering'
  OBVIOUS
<1>1. CASE UNCHANGED vars
  BY <1>1 DEF vars, agent, outbox, link, server, history, counted, Numbering, SavedInTime,
              SentWasSaved, BootIsQuiet, CounterAhead, AnswersTrue, SeqUnique, InFlight, Live,
              Stored
<1>2. CASE Next
  BY <1>2, NumberingEmit, NumberingFlush, NumberingServer, NumberingAck, NumberingBoot,
     NumberingLink DEF Next
<1>3. QED
  BY <1>1, <1>2

LEMMA NumberingCorrect == Spec => [](TypeOK /\ Numbering)
<1>1. QED
  BY InitType, NumberingInit, TypeStep, NumberingStep, PTL DEF Spec

(* Manager.Emit and the reconciliation never hand out a number twice, also *)
(* when LastRunEventSeq restored the counter after a crash.                *)
THEOREM NumbersUnique == Spec => []SeqUnique
<1>1. Numbering => SeqUnique
  BY DEF Numbering
<1>2. QED
  BY <1>1, NumberingCorrect, PTL
-----------------------------------------------------------------------------
(* The outbox implements EventDelivery.                                    *)

LEMMA DeliveryInit == Init => Delivery!Init
BY DEF Init, Delivery!Init

LEMMA DeliveryStep ==
  ASSUME TypeOK, Numbering, [Next]_vars
  PROVE  [Delivery!Next]_(Delivery!vars)
<1> USE DEF agent, outbox, link, server, history, counted
<1>1. Delivery!Arrived = Stored
  BY DEF Delivery!Arrived, Stored
<1>2. CASE UNCHANGED <<rows, arrived, acked>>
  BY <1>2 DEF Delivery!vars
<1>3. ASSUME NEW e \in Events, EmitSave(e) PROVE Delivery!Next \/ UNCHANGED Delivery!vars
  <2>1. e \notin rows /\ rows' \in {rows, rows \cup {e}} /\ UNCHANGED <<arrived, acked>>
    BY <1>3 DEF EmitSave, Emitting, Numbering, SavedInTime
  <2>2. QED
    BY <2>1 DEF Delivery!Next, Delivery!Save, Delivery!vars
<1>4. ASSUME NEW e \in Events, Reconcile(e) PROVE Delivery!Next
  <2>1. e \notin rows /\ rows' = rows \cup {e} /\ UNCHANGED <<arrived, acked>>
    BY <1>4 DEF Reconcile, MustReconcile, Numbering, SavedInTime
  <2>2. QED
    BY <2>1 DEF Delivery!Next, Delivery!Save
<1>5. CASE ServerStore
  <2>1. Head(wire) \in rows /\ Head(wire) \in Events
    BY <1>5, ReadFlies DEF ServerStore, Numbering, SentWasSaved, TypeOK
  <2>2. Head(wire) \notin Stored
    BY <1>5 DEF ServerStore, Clash
  <2>3. arrived' = Append(arrived, Head(wire)) /\ UNCHANGED <<rows, acked>>
    BY <1>5 DEF ServerStore
  <2>4. QED
    BY <1>1, <2>1, <2>2, <2>3 DEF Delivery!Next, Delivery!Store
<1>6. CASE ReadAck
  <2>1. back # <<>> /\ UNCHANGED <<rows, arrived>>
    BY <1>6 DEF ReadAck
  <2>2. CASE acked' = acked
    BY <2>1, <2>2 DEF Delivery!vars
  <2>3. CASE acked' # acked
    <3> DEFINE e == Head(back).event
    <3>1. acked' = acked \cup {e} /\ e \notin acked
      BY <1>6, <2>3 DEF ReadAck
    <3>2. e \in Stored
      BY <1>6, <3>1, NumberingAck DEF Numbering, AnswersTrue, ReadAck, Stored
    <3>3. e \in Events
      BY <3>2 DEF Numbering, SentWasSaved, TypeOK
    <3>4. QED
      BY <1>1, <2>1, <3>1, <3>2, <3>3 DEF Delivery!Next, Delivery!Ack
  <2>4. QED
    BY <2>2, <2>3
<1>7. CASE ~UNCHANGED <<rows, arrived, acked>>
  <2>1. \/ \E e \in Events : EmitSave(e) \/ Reconcile(e)
        \/ ServerStore \/ ReadAck
    BY <1>7 DEF Next, EmitStep, FlushStep, ServerStep, BootStep, vars, EmitBegin, EmitNumber,
                EmitWrite, EmitQueue, EmitMark, EmitCheck, FlushScan, FlushNumber, FlushWrite,
                FlushMark, FlushCheck, FlushAbort, ServerConflict, ServerFail, Booted, Connect,
                Drop, OtherSend, Crash
  <2>2. QED
    BY <1>3, <1>4, <1>5, <1>6, <2>1
<1>8. QED
  BY <1>2, <1>7

(* Whatever is lost, repeated or refused and wherever the agent crashes:   *)
(* the server stores only what was saved, each event once, and acked_at is *)
(* set only for an event the server has.                                   *)
THEOREM OutboxDelivers == Spec => Delivers
<1>1. TypeOK /\ Numbering /\ [Next]_vars => [Delivery!Next]_(Delivery!vars)
  BY DeliveryStep
<1>2. QED
  BY DeliveryInit, <1>1, NumberingCorrect, PTL DEF Spec, Delivers, Delivery!Spec
-----------------------------------------------------------------------------
(* The strengthening of CausalUnlessQueued.  As long as nothing was lost,  *)
(* an event that was sent is stored, on its way, queued or refused, and    *)
(* the connection keeps the order in which the emitters wrote.             *)

NoFault == drops = 0 /\ crashes = 0 /\ failures = 0

(* Settled events: the server has or refuses them, or they were queued.    *)
Settled == Stored \cup unsent \cup Refused

EmittedInOrder == \A e \in Events : emit[e] # "new" => \A d \in Waits[e] : emit[d] = "done"

SentIsOnItsWay ==
  \A e \in Events : emit[e] \in {"mark", "check", "done"} => e \in Settled \cup InFlight

OrderInFlight ==
  \A i \in 1 .. Len(wire) : \A d \in Waits[wire[i]] :
    d \in Settled \/ \E j \in 1 .. i - 1 : wire[j] = d

StoredInOrder == \A e \in Stored : Waits[e] \subseteq Settled

Causality ==
  /\ phase = "boot" => crashes > 0
  /\ NoFault => EmittedInOrder /\ SentIsOnItsWay /\ OrderInFlight /\ StoredInOrder

LEMMA CausalityInit == Init => Causality
<1> SUFFICES ASSUME Init PROVE Causality
  OBVIOUS
<1>1. Stored = {} /\ 1 .. Len(wire) = {} /\ phase = "up" /\ \A e \in Events : emit[e] = "new"
  BY DEF Init, Stored
<1>2. QED
  BY <1>1 DEF Causality, EmittedInOrder, SentIsOnItsWay, OrderInFlight, StoredInOrder

(* What is settled stays settled.                                          *)
LEMMA SettledGrows ==
  ASSUME TypeOK, Next
  PROVE  Stored \subseteq Stored' /\ Settled \subseteq Settled'
<1> USE DEF agent, outbox, link, server, history, counted
<1>1. Stored \subseteq Stored'
  <2>1. CASE ServerStore
    <3>1. Head(wire) \in Events
      BY <2>1, QueueTypes DEF ServerStore, TypeOK
    <3>2. QED
      BY <2>1, <3>1, StoreArrives DEF ServerStore
  <2>2. CASE arrived' = arrived
    BY <2>2 DEF Stored
  <2>3. QED
    BY <2>1, <2>2 DEF Next, EmitStep, FlushStep, ServerStep, BootStep, EmitBegin, EmitSave,
       EmitNumber, EmitWrite, EmitQueue, EmitMark, EmitCheck, FlushScan, FlushNumber, FlushWrite,
       FlushMark, FlushCheck, FlushAbort, ServerConflict, ServerFail, ReadAck, Booted, Reconcile,
       Connect, Drop, OtherSend, Crash
<1>2. unsent \subseteq unsent'
  BY DEF Next, EmitStep, FlushStep, ServerStep, BootStep, EmitBegin, EmitSave,
     EmitNumber, EmitWrite, EmitQueue, EmitMark, EmitCheck, FlushScan, FlushNumber, FlushWrite,
     FlushMark, FlushCheck, FlushAbort, ServerStore, ServerConflict, ServerFail, ReadAck, Booted,
     Reconcile, Connect, Drop, OtherSend, Crash
<1>3. QED
  BY <1>1, <1>2 DEF Settled

(* An event whose predecessors are settled or on their way goes last.      *)
LEMMA OrderAppend ==
  ASSUME TypeOK, OrderInFlight, Settled \subseteq Settled', NEW e \in Events,
         Waits[e] \subseteq Settled \cup InFlight, wire' = Append(wire, e)
  PROVE  OrderInFlight' /\ InFlight' = InFlight \cup {e}
<1>1. wire \in Seq(Events) /\ Len(wire) \in Nat
  BY LenProperties DEF TypeOK
<1>2. /\ Len(wire') = Len(wire) + 1 /\ wire'[Len(wire) + 1] = e
      /\ \A i \in 1 .. Len(wire) : wire'[i] = wire[i]
  BY <1>1, AppendProperties
<1>3. 1 .. Len(wire') = (1 .. Len(wire)) \cup {Len(wire) + 1}
  BY <1>1, <1>2
<1>4. ASSUME NEW i \in 1 .. Len(wire'), NEW d \in Waits[wire'[i]]
      PROVE  d \in Settled' \/ \E j \in 1 .. i - 1 : wire'[j] = d
  <2>1. CASE i \in 1 .. Len(wire)
    <3>1. d \in Settled \/ \E j \in 1 .. i - 1 : wire[j] = d
      BY <1>2, <1>4, <2>1 DEF OrderInFlight
    <3>2. \A j \in 1 .. i - 1 : j \in 1 .. Len(wire)
      BY <1>1, <2>1
    <3>3. QED
      BY <1>2, <3>1, <3>2
  <2>2. CASE i = Len(wire) + 1
    <3>1. d \in Settled \/ \E j \in 1 .. Len(wire) : wire[j] = d
      BY <1>2, <1>4, <2>2 DEF InFlight
    <3>2. 1 .. i - 1 = 1 .. Len(wire)
      BY <1>1, <2>2
    <3>3. QED
      BY <1>2, <3>1, <3>2
  <2>3. QED
    BY <1>3, <2>1, <2>2
<1>5. OrderInFlight'
  BY <1>4 DEF OrderInFlight
<1>6. InFlight' = InFlight \cup {e}
  BY <1>2, <1>3 DEF InFlight
<1>7. QED
  BY <1>5, <1>6

(* The server reads the head: its predecessors are settled, and once it is *)
(* settled itself the rest of the queue is in order.                       *)
LEMMA OrderTail ==
  ASSUME TypeOK, OrderInFlight, Settled \subseteq Settled', wire # <<>>, wire' = Tail(wire),
         Head(wire) \in Settled'
  PROVE  /\ OrderInFlight' /\ Waits[Head(wire)] \subseteq Settled
         /\ InFlight \subseteq InFlight' \cup {Head(wire)}
<1>1. wire \in Seq(Events) /\ Len(wire) \in Nat /\ Len(wire) # 0
  BY LenProperties, EmptySeq DEF TypeOK
<1>2. Head(wire) = wire[1] /\ 1 \in 1 .. Len(wire) /\ 1 .. 1 - 1 = {}
  BY <1>1, HeadTailProperties
<1>3. Len(wire') = Len(wire) - 1 /\ \A i \in 1 .. Len(wire') : wire'[i] = wire[i + 1]
  BY <1>1, HeadTailProperties
<1>4. ASSUME NEW i \in 1 .. Len(wire'), NEW d \in Waits[wire'[i]]
      PROVE  d \in Settled' \/ \E j \in 1 .. i - 1 : wire'[j] = d
  <2>1. i + 1 \in 1 .. Len(wire) /\ wire'[i] = wire[i + 1] /\ (i + 1) - 1 = i
    BY <1>1, <1>3
  <2>2. d \in Settled \/ \E j \in 1 .. i : wire[j] = d
    BY <1>4, <2>1 DEF OrderInFlight
  <2>3. ASSUME NEW j \in 1 .. i, wire[j] = d, j # 1 PROVE \E k \in 1 .. i - 1 : wire'[k] = d
    <3>1. j - 1 \in 1 .. i - 1 /\ j - 1 \in 1 .. Len(wire') /\ (j - 1) + 1 = j
      BY <1>1, <1>3, <2>3
    <3>2. QED
      BY <1>3, <2>3, <3>1
  <2>4. QED
    BY <1>2, <2>2, <2>3
<1>5. OrderInFlight'
  BY <1>4 DEF OrderInFlight
<1>6. Waits[Head(wire)] \subseteq Settled
  BY <1>2 DEF OrderInFlight
<1>7. ASSUME NEW i \in 1 .. Len(wire), i # 1 PROVE wire[i] \in InFlight'
  <2>1. i - 1 \in 1 .. Len(wire') /\ (i - 1) + 1 = i
    BY <1>1, <1>3, <1>7
  <2>2. QED
    BY <1>3, <2>1 DEF InFlight
<1>8. InFlight \subseteq InFlight' \cup {Head(wire)}
  BY <1>2, <1>7 DEF InFlight
<1>9. QED
  BY <1>5, <1>6, <1>8

(* Steps that leave the queue to the server and its table alone.           *)
LEMMA OrderKeeps ==
  ASSUME OrderInFlight, StoredInOrder, Settled \subseteq Settled', UNCHANGED <<wire, arrived>>
  PROVE  OrderInFlight' /\ StoredInOrder' /\ InFlight' = InFlight
BY DEF OrderInFlight, StoredInOrder, Stored, InFlight

LEMMA CausalityEmit ==
  ASSUME TypeOK, Numbering, NEW e \in Events, EmitStep(e), NoFault,
         EmittedInOrder, SentIsOnItsWay, OrderInFlight, StoredInOrder
  PROVE  EmittedInOrder' /\ SentIsOnItsWay' /\ OrderInFlight' /\ StoredInOrder'
<1> USE DEF agent, outbox, link, server, history, counted, Emitting
<1>1. Settled \subseteq Settled'
  BY SettledGrows DEF Next
<1>2. emit \in [Events -> EmitPC] /\ Waits \in [Events -> SUBSET Events]
  BY EventAssumption DEF TypeOK
<1>3. CASE EmitBegin(e)
  <2>1. /\ emit[e] = "new" /\ emit' = [emit EXCEPT ![e] = "save"] /\ UNCHANGED <<wire, arrived>>
        /\ \A d \in Waits[e] : emit[d] = "done"
    BY <1>3 DEF EmitBegin, GotoEmit
  <2>2. EmittedInOrder'
    BY <1>2, <2>1 DEF EmittedInOrder
  <2>3. OrderInFlight' /\ StoredInOrder' /\ InFlight' = InFlight
    BY <1>1, <2>1, OrderKeeps
  <2>4. SentIsOnItsWay'
    BY <1>1, <1>2, <2>1, <2>3 DEF SentIsOnItsWay
  <2>5. QED
    BY <2>2, <2>3, <2>4
<1>4. CASE EmitWrite(e)
  <2>1. /\ emit[e] = "write" /\ emit' = [emit EXCEPT ![e] = "mark"] /\ arrived' = arrived
        /\ \/ wire' = wire /\ unsent' = unsent \cup {e}
           \/ wire' = Append(wire, e)
    BY <1>4 DEF EmitWrite, Write, GotoEmit
  <2>2. EmittedInOrder'
    BY <1>2, <2>1 DEF EmittedInOrder
  <2>3. Waits[e] \subseteq Settled \cup InFlight
    BY <1>2, <2>1 DEF EmittedInOrder, SentIsOnItsWay
  <2>4. OrderInFlight' /\ StoredInOrder' /\ InFlight \subseteq InFlight'
        /\ e \in Settled' \cup InFlight'
    <3>1. CASE wire' = wire /\ unsent' = unsent \cup {e}
      BY <1>1, <2>1, <3>1, OrderKeeps DEF Settled
    <3>2. CASE wire' = Append(wire, e)
      BY <1>1, <2>1, <2>3, <3>2, OrderAppend DEF StoredInOrder, Stored
    <3>3. QED
      BY <2>1, <3>1, <3>2
  <2>5. SentIsOnItsWay'
    BY <1>1, <1>2, <2>1, <2>4 DEF SentIsOnItsWay
  <2>6. QED
    BY <2>2, <2>4, <2>5
<1>5. CASE EmitSave(e) \/ EmitNumber(e) \/ EmitQueue(e) \/ EmitMark(e) \/ EmitCheck(e)
  <2>1. /\ UNCHANGED <<wire, arrived>> /\ emit[e] # "new" /\ emit[e] # "done"
        /\ \E pc \in EmitPC \ {"new"} :
             /\ emit' = [emit EXCEPT ![e] = pc]
             /\ pc \in {"mark", "check", "done"}
                  => e \in unsent' \/ emit[e] \in {"mark", "check"}
    BY <1>5 DEF EmitSave, EmitNumber, EmitQueue, EmitMark, EmitCheck, GotoEmit, EmitPC
  <2>2. OrderInFlight' /\ StoredInOrder' /\ InFlight' = InFlight
    BY <1>1, <2>1, OrderKeeps
  <2>3. EmittedInOrder'
    BY <1>2, <2>1 DEF EmittedInOrder
  <2>4. SentIsOnItsWay'
    BY <1>1, <1>2, <2>1, <2>2 DEF SentIsOnItsWay, Settled
  <2>5. QED
    BY <2>2, <2>3, <2>4
<1>6. QED
  BY <1>3, <1>4, <1>5 DEF EmitStep

LEMMA CausalityFlush ==
  ASSUME TypeOK, Numbering, FlushStep, NoFault,
         EmittedInOrder, SentIsOnItsWay, OrderInFlight, StoredInOrder
  PROVE  EmittedInOrder' /\ SentIsOnItsWay' /\ OrderInFlight' /\ StoredInOrder'
<1> USE DEF agent, outbox, link, server, history, counted
<1>1. Settled \subseteq Settled'
  BY SettledGrows DEF Next
<1>2. UNCHANGED <<emit, arrived>>
  BY DEF FlushStep, FlushScan, FlushNumber, FlushWrite, FlushMark, FlushCheck, FlushAbort
<1>3. OrderInFlight' /\ StoredInOrder' /\ InFlight \subseteq InFlight'
  <2>1. CASE wire' = wire
    BY <1>1, <1>2, <2>1, OrderKeeps
  <2>2. CASE FlushWrite /\ wire' = Append(wire, flush.event)
    <3>1. flush.event \in Events /\ flush.event \in rows
      BY <2>2, FlushTypes DEF FlushWrite, Numbering, SentWasSaved
    <3>2. emit[flush.event] # "new"
      BY <3>1 DEF Numbering, SavedInTime
    <3>3. Waits[flush.event] \subseteq Settled \cup InFlight
      BY <3>1, <3>2, EventAssumption DEF EmittedInOrder, SentIsOnItsWay
    <3>4. QED
      BY <1>1, <1>2, <2>2, <3>1, <3>3, OrderAppend DEF StoredInOrder, Stored
  <2>3. QED
    BY <2>1, <2>2 DEF FlushStep, FlushScan, FlushNumber, FlushWrite, Write, FlushMark, FlushCheck,
       FlushAbort
<1>4. EmittedInOrder' /\ SentIsOnItsWay'
  BY <1>1, <1>2, <1>3 DEF EmittedInOrder, SentIsOnItsWay
<1>5. QED
  BY <1>3, <1>4

LEMMA CausalityServer ==
  ASSUME TypeOK, Numbering, ServerStep, NoFault, NoFault',
         EmittedInOrder, SentIsOnItsWay, OrderInFlight, StoredInOrder
  PROVE  EmittedInOrder' /\ SentIsOnItsWay' /\ OrderInFlight' /\ StoredInOrder'
<1> USE DEF agent, outbox, link, server, history, counted
<1>1. Settled \subseteq Settled'
  BY SettledGrows DEF Next
<1>2. emit' = emit /\ wire # <<>> /\ wire' = Tail(wire)
  BY DEF ServerStep, ServerStore, ServerConflict, ServerFail
<1>3. Head(wire) \in rows /\ Head(wire) \in Events
  BY <1>2, ReadFlies DEF Numbering, SentWasSaved, TypeOK
<1>4. Head(wire) \in Settled' /\ Stored' \subseteq Stored \cup {Head(wire)}
  <2>1. CASE ServerStore
    BY <1>3, <2>1, StoreArrives DEF ServerStore, Settled
  <2>2. CASE ServerConflict
    BY <1>1, <1>3, <2>2, ClashIsDuplicate DEF ServerConflict, Settled, Stored
  <2>3. CASE ServerFail
    <3>1. failures \in Nat /\ Stored' = Stored
      BY <2>3 DEF TypeOK, ServerFail, Stored
    <3>2. Head(wire) \in Refused
      BY <2>3, <3>1 DEF ServerFail, NoFault
    <3>3. QED
      BY <3>1, <3>2 DEF Settled
  <2>4. QED
    BY <2>1, <2>2, <2>3 DEF ServerStep
<1>5. /\ OrderInFlight' /\ Waits[Head(wire)] \subseteq Settled
      /\ InFlight \subseteq InFlight' \cup {Head(wire)}
  BY <1>1, <1>2, <1>4, OrderTail
<1>6. StoredInOrder'
  BY <1>1, <1>4, <1>5 DEF StoredInOrder
<1>7. EmittedInOrder' /\ SentIsOnItsWay'
  BY <1>1, <1>2, <1>4, <1>5 DEF EmittedInOrder, SentIsOnItsWay
<1>8. QED
  BY <1>5, <1>6, <1>7

(* The faults only count up.                                               *)
LEMMA FaultsStay ==
  ASSUME TypeOK, Next
  PROVE  (NoFault' => NoFault) /\ (crashes > 0 => crashes' > 0)
BY DEF TypeOK, NoFault, agent, outbox, link, server, history, counted, Next, EmitStep, FlushStep,
   ServerStep, BootStep, EmitBegin, EmitSave, EmitNumber, EmitWrite, EmitQueue, EmitMark,
   EmitCheck, FlushScan, FlushNumber, FlushWrite, FlushMark, FlushCheck, FlushAbort, ServerStore,
   ServerConflict, ServerFail, ReadAck, Booted, Reconcile, Connect, Drop, OtherSend, Crash

LEMMA CausalityStep ==
  ASSUME TypeOK, Numbering, Causality, [Next]_vars
  PROVE  Causality'
<1> USE DEF agent, outbox, link, server, history, counted
<1>1. CASE UNCHANGED vars
  BY <1>1 DEF vars, Causality, NoFault, EmittedInOrder, SentIsOnItsWay, OrderInFlight,
              StoredInOrder, Settled, Stored, InFlight
<1>2. CASE Next
  <2>1. phase' = "boot" => crashes' > 0
    <3>1. CASE Crash
      BY <3>1 DEF Crash, TypeOK
    <3>2. CASE phase' = "boot" => phase = "boot"
      BY <1>2, <3>2, FaultsStay DEF Causality
    <3>3. QED
      BY <1>2, <3>1, <3>2 DEF Next, EmitStep, FlushStep, ServerStep, BootStep, EmitBegin, EmitSave,
         EmitNumber, EmitWrite, EmitQueue, EmitMark, EmitCheck, FlushScan, FlushNumber,
         FlushWrite, FlushMark, FlushCheck, FlushAbort, ServerStore, ServerConflict, ServerFail,
         ReadAck, Booted, Reconcile, Connect, Drop, OtherSend
  <2>2. ASSUME NoFault'
        PROVE  EmittedInOrder' /\ SentIsOnItsWay' /\ OrderInFlight' /\ StoredInOrder'
    <3>1. /\ NoFault /\ phase # "boot"
          /\ EmittedInOrder /\ SentIsOnItsWay /\ OrderInFlight /\ StoredInOrder
      BY <1>2, <2>2, FaultsStay DEF Causality, NoFault, TypeOK
    <3>2. ASSUME NEW e \in Events, EmitStep(e)
          PROVE  EmittedInOrder' /\ SentIsOnItsWay' /\ OrderInFlight' /\ StoredInOrder'
      BY <3>1, <3>2, CausalityEmit
    <3>3. CASE FlushStep
      BY <3>1, <3>3, CausalityFlush
    <3>4. CASE ServerStep
      BY <2>2, <3>1, <3>4, CausalityServer
    <3>5. CASE ReadAck \/ Connect \/ OtherSend
      <4>1. UNCHANGED <<emit, wire, arrived, unsent>>
        BY <3>5 DEF ReadAck, Connect, OtherSend
      <4>2. QED
        BY <3>1, <4>1 DEF EmittedInOrder, SentIsOnItsWay, OrderInFlight, StoredInOrder, Settled,
                          Stored, InFlight
    <3>6. CASE Drop \/ Crash
      BY <2>2, <3>1, <3>6 DEF Drop, Crash, NoFault, TypeOK
    <3>7. CASE BootStep
      BY <3>1, <3>7 DEF BootStep, Booted, Reconcile
    <3>8. QED
      BY <1>2, <3>2, <3>3, <3>4, <3>5, <3>6, <3>7 DEF Next
  <2>3. QED
    BY <2>1, <2>2 DEF Causality
<1>3. QED
  BY <1>1, <1>2

(* On a connection that is not lost, with an agent and a server that do    *)
(* not fail, the server stores an event after those whose Emit had         *)
(* returned before it, but for the ones that could not be sent or that it  *)
(* refuses: the outbox loop, which sends the same events concurrently,     *)
(* cannot bring an event before its predecessors.                          *)
THEOREM OrderIsCausal == Spec => []CausalUnlessQueued
<1>1. TypeOK /\ Numbering /\ Causality /\ [Next]_vars => Causality'
  BY CausalityStep
<1>2. TypeOK /\ Causality => CausalUnlessQueued
  BY DEF TypeOK, Causality, NoFault, StoredInOrder, Settled, CausalUnlessQueued
<1>3. QED
  BY CausalityInit, <1>1, <1>2, NumberingCorrect, PTL DEF Spec
=============================================================================
