--------------------------- MODULE RunEventOutbox ---------------------------
(***************************************************************************)
(* How a run event travels from the agent to the server: Manager.Emit      *)
(* numbers it, Client.Emit saves it in the outbox (table run_events of the *)
(* local store) and sends it, the outbox loop sends again what is not      *)
(* acknowledged, the server stores it once and answers run.event.ack.      *)
(*                                                                         *)
(* Processes: one emitter per event (the goroutines of a run emit          *)
(* concurrently, Waits says which ones emit after each other), the outbox  *)
(* loop, the server's reader, the agent's read loop, and the environment   *)
(* that drops the connection or kills the agent.                           *)
(*                                                                         *)
(* A step is a critical section of Manager.mu or of Client.mu, one write   *)
(* to the connection, or one call of a store.  The steps inside            *)
(* SaveRunEvent are modelled in RunManager.                                *)
(***************************************************************************)
EXTENDS Naturals, Sequences, FiniteSets, SequencesExt

CONSTANTS
  Events,        (* the events of all runs, by event id                    *)
  Runs,
  RunOf,         (* event -> run                                           *)
  KindOf,        (* event -> "started", "note", "final" or "interrupted"   *)
  Waits,         (* event -> events whose Emit returned before its own     *)
  Refused,       (* events the server always rejects (ownership checks)    *)
  Batch,         (* LIMIT of PendingRunEvents                              *)
  Window,        (* bound: messages in flight in each direction            *)
  MaxDrops,      (* bound: lost connections                                *)
  MaxCrashes,    (* bound: crashes of the agent                            *)
  MaxFailures,   (* bound: store errors at the server                      *)
  MaxFaults,     (* bound: these three together                            *)
  MaxOthers,     (* bound: other messages that overtake a run event        *)
  NoEvent

Kinds == {"started", "note", "final", "interrupted"}

ASSUME EventAssumption ==
  /\ IsFiniteSet(Events) /\ NoEvent \notin Events
  /\ RunOf \in [Events -> Runs]
  /\ KindOf \in [Events -> Kinds]
  /\ Waits \in [Events -> SUBSET Events]
  /\ Refused \subseteq Events

ASSUME BoundAssumption ==
  /\ Batch \in Nat \ {0} /\ Window \in Nat \ {0}
  /\ MaxDrops \in Nat /\ MaxCrashes \in Nat /\ MaxFailures \in Nat /\ MaxOthers \in Nat
  /\ MaxFaults \in Nat

VARIABLES
  phase,     (* "up", or "boot" while SetAckStore reconciles               *)
  eventSeq,  (* Manager.eventSeq                                           *)
  emit,      (* event -> where its Emit is                                 *)
  seq,       (* event -> the sequence number Manager.Emit gave it, or 0    *)
  rows,      (* table run_events: the events saved                         *)
  retry,     (* its retry_count column, not counted beyond 2               *)
  acked,     (* its rows with acked_at set                                 *)
  refreshed, (* final events after which refreshIndexAfterRun was started  *)
  flush,     (* the outbox loop: position, current event, events to go     *)
  conn,      (* the connection is up                                       *)
  numbered,  (* senders whose envelope has its seq and is not yet written, *)
             (* in the order of the seqs                                   *)
  late,      (* those of them that a larger seq has overtaken              *)
  wire,      (* events in flight to the server, in order                   *)
  back,      (* acks in flight to the agent, in order                      *)
  arrived,   (* the server's table run_events, in insertion order          *)
  status,    (* the server's table runs: run -> status                     *)
  unsent,    (* history: events whose direct send failed or was rejected   *)
  drops, crashes, failures, others

agent   == <<eventSeq, emit, seq, flush>>
outbox  == <<rows, retry, acked, refreshed>>
link    == <<conn, numbered, late, wire, back>>
server  == <<arrived, status>>
counted == <<drops, crashes, failures, others>>
history == <<unsent, counted>>
vars    == <<phase, agent, outbox, link, server, history>>

Idle == [pc |-> "idle", event |-> NoEvent, todo |-> {}]
EmitPC  == {"new", "save", "send", "write", "mark", "check", "done", "dead"}
Flushes == {Idle} \cup [pc : {"send", "write", "mark", "check"}, event : Events,
                        todo : SUBSET Events]
Loop    == NoEvent              (* the outbox loop among the senders        *)
Senders == Events \cup {Loop}
Results == {"acked", "duplicate", "conflict", "failed"}
RunStatus == {"queued", "running", "final"}
Stored  == {arrived[i] : i \in 1 .. Len(arrived)}
Final(e) == KindOf[e] \in {"final", "interrupted"}

TypeOK ==
  /\ phase \in {"up", "boot"}
  /\ eventSeq \in Nat
  /\ emit \in [Events -> EmitPC]
  /\ seq \in [Events -> Nat]
  /\ rows \subseteq Events /\ acked \subseteq Events /\ refreshed \subseteq Events
  /\ retry \in [Events -> 0 .. 2]
  /\ flush \in Flushes
  /\ conn \in BOOLEAN
  /\ numbered \in Seq(Senders) /\ late \subseteq Senders
  /\ wire \in Seq(Events)
  /\ back \in Seq([event : Events, result : Results])
  /\ arrived \in Seq(Events)
  /\ status \in [Runs -> RunStatus]
  /\ unsent \subseteq Events
  /\ drops \in Nat /\ crashes \in Nat /\ failures \in Nat /\ others \in Nat

Init ==
  /\ phase = "up"
  /\ eventSeq = 0
  /\ emit = [e \in Events |-> "new"]
  /\ seq = [e \in Events |-> 0]
  /\ rows = {} /\ acked = {} /\ refreshed = {}
  /\ retry = [e \in Events |-> 0]
  /\ flush = Idle
  /\ conn = FALSE
  /\ numbered = <<>> /\ late = {} /\ wire = <<>> /\ back = <<>> /\ arrived = <<>>
  /\ status = [r \in Runs |-> "queued"]
  /\ unsent = {}
  /\ drops = 0 /\ crashes = 0 /\ failures = 0 /\ others = 0

-----------------------------------------------------------------------------
Faulty == drops + crashes + failures < MaxFaults

(* The connection.                                                         *)

Connect ==
  /\ phase = "up" /\ ~conn
  /\ conn' = TRUE
  /\ UNCHANGED <<phase, agent, outbox, numbered, late, wire, back, server, history>>

(* Everything in flight is lost, both ways; who was about to write will    *)
(* write to a closed connection.                                           *)
LoseConnection ==
  conn' = FALSE /\ numbered' = <<>> /\ late' = {} /\ wire' = <<>> /\ back' = <<>>

Drop ==
  /\ conn /\ drops < MaxDrops /\ Faulty
  /\ drops' = drops + 1
  /\ LoseConnection
  /\ UNCHANGED <<phase, agent, outbox, server, unsent, crashes, failures, others>>

(* Client.send: the envelope gets its seq and the connection under         *)
(* Client.mu, is encrypted and signed, and is written under another lock.  *)
Number(s) == conn /\ numbered' = Append(numbered, s)
Numbered(s) == \E i \in DOMAIN numbered : numbered[i] = s
Older(s) == {d \in Senders : \E i, j \in DOMAIN numbered :
               i < j /\ numbered[i] = d /\ numbered[j] = s}

(* ReplayGuard.Accept: an envelope is rejected, without an answer, when    *)
(* one with a larger seq came before it.                                   *)
Accepted(s) == s \notin late

(* A sender has one envelope at a time.                                    *)
Written(s) == \E i \in DOMAIN numbered : numbered[i] = s /\ numbered' = RemoveAt(numbered, i)

(* The write blocks while the window is full.                              *)
Write(s, e) ==
  /\ Len(wire) < Window
  /\ wire' = IF Accepted(s) THEN Append(wire, e) ELSE wire
  /\ Written(s)
  /\ late' = (late \cup Older(s)) \ {s}

(* A heartbeat, an ack or an index message is numbered and written.        *)
OtherSend ==
  /\ numbered # <<>> /\ others < MaxOthers
  /\ others' = others + 1
  /\ late' = {s \in Senders : Numbered(s)}
  /\ UNCHANGED <<phase, agent, outbox, conn, numbered, wire, back, server, unsent, drops,
                 crashes, failures>>

-----------------------------------------------------------------------------
(* Manager.Emit and Client.Emit of one event.                              *)

Emitting(e, pc) == phase = "up" /\ emit[e] = pc
GotoEmit(e, pc) == emit' = [emit EXCEPT ![e] = pc]

(* Manager.Emit takes the next sequence number under the lock and leaves   *)
(* the lock.  Interrupted events are only made by the reconciliation.      *)
EmitBegin(e) ==
  /\ Emitting(e, "new") /\ KindOf[e] # "interrupted"
  /\ \A d \in Waits[e] : emit[d] = "done"
  /\ eventSeq' = eventSeq + 1
  /\ seq' = [seq EXCEPT ![e] = eventSeq + 1]
  /\ GotoEmit(e, "save")
  /\ UNCHANGED <<phase, flush, outbox, link, server, history>>

(* SaveRunEvent: INSERT OR IGNORE under UNIQUE (run_id, seq); an ignored   *)
(* insertion is not an error and the event is sent all the same.           *)
SeqFree(e) == \A d \in rows : RunOf[d] = RunOf[e] => seq[d] # seq[e]

EmitSave(e) ==
  /\ Emitting(e, "save")
  /\ rows' = IF SeqFree(e) THEN rows \cup {e} ELSE rows
  /\ GotoEmit(e, "send")
  /\ UNCHANGED <<phase, eventSeq, seq, flush, retry, acked, refreshed, link, server, history>>

EmitNumber(e) ==
  /\ Emitting(e, "send") /\ Number(e)
  /\ GotoEmit(e, "write")
  /\ UNCHANGED <<phase, eventSeq, seq, flush, outbox, conn, late, wire, back, server, history>>

(* Mutant: a full connection drops the direct send instead of blocking it. *)
EmitWriteOrSkip(e) ==
  /\ Emitting(e, "write")
  /\ IF Len(wire) < Window THEN Write(e, e) /\ GotoEmit(e, "mark")
     ELSE GotoEmit(e, "done") /\ Written(e) /\ UNCHANGED <<wire, late>>
  /\ UNCHANGED <<phase, eventSeq, seq, flush, outbox, conn, back, server, history>>

EmitWrite(e) ==
  /\ Emitting(e, "write") /\ Write(e, e)
  /\ unsent' = IF Accepted(e) THEN unsent ELSE unsent \cup {e}
  /\ GotoEmit(e, "mark")
  /\ UNCHANGED <<phase, eventSeq, seq, flush, outbox, conn, back, server, counted>>

(* The send failed: MarkRunEventError, and the event waits in the outbox.  *)
EmitQueue(e) ==
  /\ \/ Emitting(e, "send") /\ ~conn
     \/ Emitting(e, "write") /\ ~Numbered(e)
  /\ unsent' = unsent \cup {e}
  /\ GotoEmit(e, "done")
  /\ UNCHANGED <<phase, eventSeq, seq, flush, outbox, link, server, counted>>

(* MarkRunEventSent counts the send, then reads the counter back: only who *)
(* reads 1 made the first send.                                            *)
MarkSent(e) ==
  retry' = IF e \in rows /\ retry[e] < 2 THEN [retry EXCEPT ![e] = @ + 1] ELSE retry
RefreshIfFirst(e) ==
  refreshed' = IF e \in rows /\ retry[e] = 1 /\ Final(e)
               THEN refreshed \cup {e} ELSE refreshed

EmitMark(e) ==
  /\ Emitting(e, "mark")
  /\ MarkSent(e)
  /\ GotoEmit(e, "check")
  /\ UNCHANGED <<phase, eventSeq, seq, flush, rows, acked, refreshed, link, server, history>>

EmitCheck(e) ==
  /\ Emitting(e, "check")
  /\ RefreshIfFirst(e)
  /\ GotoEmit(e, "done")
  /\ UNCHANGED <<phase, eventSeq, seq, flush, rows, retry, acked, link, server, history>>

-----------------------------------------------------------------------------
(* runEventOutboxLoop and the flush serve makes first.                     *)

(* Mutant: only events that were never sent are pending.                   *)
NeverSent == {e \in rows \ acked : retry[e] = 0}

Pending == rows \ acked
Before(d, e) == seq[d] < seq[e]
(* The rows PendingRunEvents returns: the oldest ones, at most Batch.      *)
Oldest == {e \in Pending : Cardinality({d \in Pending : Before(d, e)}) < Batch}
First(S) == CHOOSE e \in S : \A d \in S : ~Before(d, e)

(* The flush takes the oldest event of its batch, or returns.              *)
Take(S) ==
  flush' = IF S = {} THEN Idle
           ELSE [pc |-> "send", event |-> First(S), todo |-> S \ {First(S)}]

FlushScan ==
  /\ phase = "up" /\ conn /\ flush.pc = "idle" /\ Pending # {}
  /\ Take(Oldest)
  /\ UNCHANGED <<phase, eventSeq, emit, seq, outbox, link, server, history>>

FlushNumber ==
  /\ flush.pc = "send" /\ Number(Loop)
  /\ flush' = [flush EXCEPT !.pc = "write"]
  /\ UNCHANGED <<phase, eventSeq, emit, seq, outbox, conn, late, wire, back, server, history>>

FlushWrite ==
  /\ flush.pc = "write" /\ Write(Loop, flush.event)
  /\ flush' = [flush EXCEPT !.pc = "mark"]
  /\ UNCHANGED <<phase, eventSeq, emit, seq, outbox, conn, back, server, history>>

FlushMark ==
  /\ flush.pc = "mark"
  /\ MarkSent(flush.event)
  /\ flush' = [flush EXCEPT !.pc = "check"]
  /\ UNCHANGED <<phase, eventSeq, emit, seq, rows, acked, refreshed, link, server, history>>

FlushCheck ==
  /\ flush.pc = "check"
  /\ RefreshIfFirst(flush.event)
  /\ Take(flush.todo)
  /\ UNCHANGED <<phase, eventSeq, emit, seq, rows, retry, acked, link, server, history>>

(* A send or a query on the cancelled context of a lost connection fails:  *)
(* the flush returns the error.                                            *)
FlushAbort ==
  /\ \/ flush.pc # "idle" /\ ~conn
     \/ flush.pc = "write" /\ ~Numbered(Loop)
  /\ flush' = Idle
  /\ UNCHANGED <<phase, eventSeq, emit, seq, outbox, link, server, history>>

-----------------------------------------------------------------------------
(* The server: handleAgentEnvelope's run.event case over SaveRunEvent.     *)

(* resolveRunEventInsertConflict, when the insertion violates a unique key.*)
Clash(e) == \E d \in Stored : RunOf[d] = RunOf[e] /\ seq[d] = seq[e]
Resolve(e) == IF e \in Stored THEN "duplicate" ELSE "conflict"

(* Mutant: the projection stores the kind of the event as the status.      *)
ProjectRunKind(old, e) == KindOf[e]

(* projectRunState takes the status of the event whatever it was before.   *)
ProjectRun(old, e) ==
  CASE KindOf[e] = "started" -> "running"
    [] Final(e)              -> "final"
    [] OTHER                 -> old

(* The answer is dropped when the queue to the agent is full.              *)
Answer(e, result) ==
  back' = IF Len(back) < Window
          THEN Append(back, [event |-> e, result |-> result]) ELSE back

ServerStore ==
  /\ wire # <<>>
  /\ LET e == Head(wire)
     IN  /\ e \notin Refused /\ ~Clash(e)
         /\ arrived' = Append(arrived, e)
         /\ status' = [status EXCEPT ![RunOf[e]] = ProjectRun(@, e)]
         /\ Answer(e, "acked")
  /\ wire' = Tail(wire)
  /\ UNCHANGED <<phase, agent, outbox, conn, numbered, late, history>>

ServerConflict ==
  /\ wire # <<>>
  /\ LET e == Head(wire)
     IN  e \notin Refused /\ Clash(e) /\ Answer(e, Resolve(e))
  /\ wire' = Tail(wire)
  /\ UNCHANGED <<phase, agent, outbox, conn, numbered, late, server, history>>

(* validateRunEventOwnership or the database refuses; nothing is stored.   *)
ServerFail ==
  /\ wire # <<>>
  /\ \/ Head(wire) \in Refused /\ UNCHANGED failures
     \/ failures < MaxFailures /\ Faulty /\ failures' = failures + 1
  /\ Answer(Head(wire), "failed")
  /\ wire' = Tail(wire)
  /\ UNCHANGED <<phase, agent, outbox, conn, numbered, late, server, unsent, drops, crashes,
                 others>>

(* Mutant: any answer ends the retries.                                    *)
AckAny(result) == result # "none"

(* The agent's read loop: MarkRunEventAcked for a terminal status,         *)
(* MarkRunEventAckError, which keeps the row pending, for any other.       *)
AckTerminal(result) == result \in {"acked", "duplicate", "conflict"}

ReadAck ==
  /\ back # <<>>
  /\ acked' = IF AckTerminal(Head(back).result) /\ Head(back).event \in rows
              THEN acked \cup {Head(back).event} ELSE acked
  /\ back' = Tail(back)
  /\ UNCHANGED <<phase, agent, rows, retry, refreshed, conn, numbered, late, wire, server,
                 history>>

-----------------------------------------------------------------------------
(* The agent dies; the runs it executed emit nothing more, the others may  *)
(* still start.                                                            *)
Begun(r) == \E e \in Events : RunOf[e] = r /\ emit[e] # "new"

Crash ==
  /\ crashes < MaxCrashes /\ Faulty
  /\ crashes' = crashes + 1
  /\ phase' = "boot"
  /\ eventSeq' = 0
  /\ emit' = [e \in Events |->
                IF \/ emit[e] = "done"
                   \/ KindOf[e] = "interrupted"
                   \/ ~Begun(RunOf[e])
                THEN emit[e] ELSE "dead"]
  /\ flush' = Idle
  /\ LoseConnection
  /\ UNCHANGED <<seq, outbox, server, unsent, drops, failures, others>>

(* LastRunEventSeq: the largest sequence number saved, of any run.         *)
LastSeq == IF rows = {} THEN 0 ELSE LET last == CHOOSE e \in rows : \A d \in rows : ~Before(e, d)
                                    IN  seq[last]

(* ReconcileInterruptedRuns for one run without a final event.             *)
Unfinished(r) ==
  /\ \E e \in rows : RunOf[e] = r /\ KindOf[e] = "started"
  /\ ~\E e \in rows : RunOf[e] = r /\ Final(e)

MustReconcile(e) == KindOf[e] = "interrupted" /\ emit[e] = "new" /\ Unfinished(RunOf[e])

Reconcile(e) ==
  /\ phase = "boot" /\ MustReconcile(e)
  /\ seq' = [seq EXCEPT ![e] = LastSeq + 1]
  /\ rows' = rows \cup {e}
  /\ GotoEmit(e, "done")
  /\ UNCHANGED <<phase, eventSeq, flush, retry, acked, refreshed, link, server, history>>

(* Mutant: the counter is restored before the reconciliation.              *)
BootedRestoredFirst ==
  /\ phase = "boot"
  /\ ~\E e \in Events : MustReconcile(e)
  /\ eventSeq' = Cardinality({e \in rows : KindOf[e] # "interrupted"})
  /\ phase' = "up"
  /\ UNCHANGED <<emit, seq, flush, outbox, link, server, history>>

(* SetAckStore restores the counter after the reconciliation.              *)
Booted ==
  /\ phase = "boot"
  /\ ~\E e \in Events : MustReconcile(e)
  /\ eventSeq' = LastSeq
  /\ phase' = "up"
  /\ UNCHANGED <<emit, seq, flush, outbox, link, server, history>>

-----------------------------------------------------------------------------
EmitStep(e) == EmitBegin(e) \/ EmitSave(e) \/ EmitNumber(e) \/ EmitWrite(e)
               \/ EmitQueue(e) \/ EmitMark(e) \/ EmitCheck(e)
FlushStep  == FlushScan \/ FlushNumber \/ FlushWrite \/ FlushMark \/ FlushCheck \/ FlushAbort
ServerStep == ServerStore \/ ServerConflict \/ ServerFail
BootStep   == Booted \/ \E e \in Events : Reconcile(e)

Next ==
  \/ \E e \in Events : EmitStep(e)
  \/ FlushStep \/ ServerStep \/ ReadAck \/ BootStep
  \/ Connect \/ Drop \/ OtherSend \/ Crash

Spec == Init /\ [][Next]_vars

(* Scheduling: the agent redials, every goroutine and loop keeps running   *)
(* and so does the server's reader.  Nothing makes the server fail.        *)
Fairness ==
  /\ WF_vars(Connect) /\ WF_vars(FlushStep) /\ WF_vars(ReadAck) /\ WF_vars(BootStep)
  /\ WF_vars(ServerStep)
  /\ \A e \in Events : WF_vars(EmitStep(e))

FairSpec == Spec /\ Fairness

-----------------------------------------------------------------------------
(* Properties.                                                             *)

(* The outbox delivers what EventDelivery promises: the server stores only *)
(* what the agent saved, each event once however often the flush and the   *)
(* emitter send it, and acked_at is set only for an event the server has.  *)
Delivery == INSTANCE EventDelivery WITH saved <- rows, stored <- arrived
Delivers == Delivery!Spec

(* No two events ever carry the same sequence number, also when a crash    *)
(* made the manager restore its counter: the server takes two events of    *)
(* one (run, seq) for a conflict and throws the second away.               *)
SeqUnique ==
  \A d, e \in rows \cup Stored \cup {g \in Events : emit[g] \in {"save", "send", "write", "mark"}} :
    d # e => seq[d] # seq[e]

(* A live event overtakes one whose Emit had returned before it was        *)
(* emitted only when the earlier one could not be sent, was lost with its  *)
(* connection, was rejected by the replay guard or is one the server       *)
(* refuses; otherwise the server stores them in their causal order,        *)
(* although the outbox loop sends concurrently.                            *)
CausalUnlessQueued ==
  \A e \in Stored : \A d \in Waits[e] :
    \/ d \in Stored \cup unsent \cup Refused
    \/ drops > 0 \/ crashes > 0 \/ failures > 0

(* ARCHITECTURE: the replay guard rejects stale and repeated messages; so  *)
(* an envelope that is written, each has a message id of its own, is never *)
(* rejected.                                                               *)
OnlyReplaysRejected ==
  [][\A s \in Senders : Numbered(s) /\ ~Numbered(s)' /\ conn' => Accepted(s)]_vars

(* README: what is saved is retried through the outbox; so every saved     *)
(* event the server would take is stored there and acknowledged, whatever  *)
(* connections were lost and wherever the agent crashed.                   *)
EventuallyDelivered ==
  \A e \in Events \ Refused : e \in rows ~> (e \in Stored /\ e \in acked)

(* ARCHITECTURE: the projections tell how a run ended, so a run the server *)
(* shows as ended is not shown as running again.                           *)
FinalStatusKept == [][\A r \in Runs : status[r] = "final" => status'[r] = "final"]_vars

(* ARCHITECTURE: once a run ended the agent refreshes its index; so after  *)
(* a final event was sent and everybody who sent it marked it, somebody    *)
(* started refreshIndexAfterRun.                                           *)
RefreshedAfterFinal ==
  \A e \in Events :
    (/\ crashes = 0 /\ Final(e) /\ retry[e] > 0
     /\ emit[e] = "done" /\ flush.event # e)
      => e \in refreshed
=============================================================================
