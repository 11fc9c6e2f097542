-------------------------- MODULE RunManagerSafety --------------------------
(* The other safety properties of RunManager for every value of the        *)
(* constants: each by a strengthening of its own, on top of type           *)
(* correctness and ownership.                                              *)
EXTENDS RunManagerProofs

USE DEF memory, durable, history

(* What the other invariants rest on.                                      *)
Base == TypeOK /\ Launched /\ Ownership

LEMMA BaseInvariant == Spec => []Base
<1>1. Init => Base
  <2>1. Init => Ownership
    BY DEF Init, Ownership, OneOwner, HandlerKind, BootEmpty, Starts, Idle, Gone
  <2> QED
    BY <2>1, TypeInit DEF Init, Launched, Gone, Idle, Base
<1>2. Base /\ [Next]_vars => Base'
  BY TypeStep, LaunchedStep, OwnershipStep DEF Base
<1> QED
  BY <1>1, <1>2, PTL DEF Spec

(* A run is in the sessions of its own activeRun under the session id its  *)
(* command names: aliases are only ever added.                             *)
NamedIsAlias ==
  \A r \in Runs :
    entry[r] # NoEntry => Aliases(SessionOf[entry[r].cmd]) \subseteq entry[r].sessions

Serial == NamedIsAlias /\ SessionSerial

-----------------------------------------------------------------------------
(* SessionSerial.                                                          *)

(* No new activeRun, and those there are keep their command and aliases.   *)
LEMMA SerialFrame ==
  ASSUME Serial,
         \A r \in Runs : entry'[r] # NoEntry =>
           /\ entry[r] # NoEntry /\ entry'[r].cmd = entry[r].cmd
           /\ entry[r].sessions \subseteq entry'[r].sessions
  PROVE  Serial'
BY DEF Serial, NamedIsAlias, SessionSerial, Active

(* Setting the other fields of one activeRun, or adding aliases to it.     *)
LEMMA EntryFrame ==
  ASSUME TypeOK, NEW r \in Runs, entry[r] # NoEntry, NEW e, entry' = [entry EXCEPT ![r] = e],
         e.cmd = entry[r].cmd, entry[r].sessions \subseteq e.sessions, Serial
  PROVE  Serial'
<1>1. \A s \in Runs : entry'[s] = IF s = r THEN e ELSE entry[s]
  BY DEF TypeOK
<1> QED
  BY <1>1, SerialFrame

LEMMA SerialAdmit ==
  ASSUME TypeOK, Serial, NEW h \in Conns, Admit(h)
  PROVE  Serial'
<1> DEFINE c == handler[h].cmd
           r == RunOf[c]
           e == [cmd |-> c, state |-> "starting", stopping |-> FALSE,
                 sessions |-> Aliases(SessionOf[c]), killed |-> FALSE]
<1>1. c \in StartCmds /\ r \in Runs
  BY CommandAssumption DEF Admit
<1>2. /\ entry[r] = NoEntry /\ ~SessionTaken(SessionOf[c])
      /\ entry' = [entry EXCEPT ![r] = e]
  BY DEF Admit
<1>3. \A s \in Runs : entry'[s] = IF s = r THEN e ELSE entry[s]
  BY <1>2 DEF TypeOK
<1>4. NamedIsAlias'
  BY <1>3 DEF Serial, NamedIsAlias
<1>5. \A s \in Runs : entry[s] # NoEntry =>
        (SessionOf[entry[s].cmd] = SessionOf[c] => SessionOf[c] = NoSession)
  BY <1>2 DEF Serial, NamedIsAlias, SessionTaken, Active, Aliases
<1>6. SessionSerial'
  BY <1>2, <1>3, <1>5 DEF Serial, SessionSerial, Active
<1> QED
  BY <1>4, <1>6 DEF Serial

LEMMA SerialStop ==
  ASSUME TypeOK, Serial, NEW h \in Conns, MarkStopping(h) \/ StopRuntime(h)
  PROVE  Serial'
<1>1. CASE UNCHANGED entry
  BY <1>1, SerialFrame
<1>2. CASE MarkStopping(h)
  <2>1. PICK r \in StopTargets(handler[h].cmd) :
          entry' = [entry EXCEPT ![r].state = "stopping", ![r].stopping = TRUE]
    BY <1>2 DEF MarkStopping
  <2>2. r \in Runs /\ entry[r] # NoEntry
    <3>1. handler[h].cmd \in Commands
      BY <1>2, CommandAssumption DEF MarkStopping
    <3> QED
      BY <2>1, <3>1, CommandAssumption DEF StopTargets, Active
  <2>3. entry' = [entry EXCEPT ![r] = [entry[r] EXCEPT !.state = "stopping", !.stopping = TRUE]]
    BY <2>1 DEF TypeOK
  <2>4. entry[r] \in Entries
    BY <2>2 DEF TypeOK
  <2> QED
    BY <2>2, <2>3, <2>4, EntryFrame DEF Entries
<1>3. CASE /\ entry[handler[h].run] # NoEntry
           /\ entry' = [entry EXCEPT ![handler[h].run].killed = TRUE]
  <2> DEFINE r == handler[h].run
  <2>1. CASE r \in Runs
    <3>1. entry' = [entry EXCEPT ![r] = [entry[r] EXCEPT !.killed = TRUE]]
      BY <1>3 DEF TypeOK
    <3>2. entry[r] \in Entries
      BY <1>3, <2>1 DEF TypeOK
    <3> QED
      BY <1>3, <2>1, <3>1, <3>2, EntryFrame DEF Entries
  <2>2. CASE r \notin Runs
    <3>1. entry' = entry
      BY <1>3, <2>2 DEF TypeOK
    <3> QED
      BY <3>1, SerialFrame
  <2> QED
    BY <2>1, <2>2
<1> QED
  BY <1>1, <1>2, <1>3 DEF StopRuntime

LEMMA SerialRun ==
  ASSUME TypeOK, Serial, NEW r \in Runs, Begin(r) \/ LearnSession(r)
  PROVE  Serial'
<1>1. CASE entry[r] = NoEntry
  BY <1>1, SerialFrame DEF Begin, LearnSession
<1>2. CASE entry[r] # NoEntry /\ Begin(r)
  <2>1. entry' = [entry EXCEPT ![r] = [entry[r] EXCEPT !.state = "running"]]
    BY <1>2 DEF Begin, TypeOK
  <2>2. entry[r] \in Entries
    BY <1>2 DEF TypeOK
  <2> QED
    BY <1>2, <2>1, <2>2, EntryFrame DEF Entries
<1>3. CASE entry[r] # NoEntry /\ LearnSession(r)
  <2> DEFINE ids == {NativeOf[exec[r].cmd]} \cup Aliases(SessionOf[exec[r].cmd])
  <2>1. entry' = [entry EXCEPT ![r] = [entry[r] EXCEPT !.sessions = @ \cup ids]]
    BY <1>3 DEF LearnSession, TypeOK
  <2>2. entry[r] \in Entries
    BY <1>3 DEF TypeOK
  <2>3. /\ [entry[r] EXCEPT !.sessions = @ \cup ids].cmd = entry[r].cmd
        /\ entry[r].sessions \subseteq [entry[r] EXCEPT !.sessions = @ \cup ids].sessions
    BY <2>2 DEF Entries
  <2> QED
    BY <1>3, <2>1, <2>3, EntryFrame
<1> QED
  BY <1>1, <1>2, <1>3

LEMMA SerialDelete ==
  ASSUME TypeOK, Serial, NEW r \in Runs, Delete(r)
  PROVE  Serial'
<1>1. \A s \in Runs : entry'[s] = IF s = r THEN NoEntry ELSE entry[s]
  BY DEF Delete, TypeOK
<1> QED
  BY <1>1, SerialFrame

LEMMA SerialStep == TypeOK /\ Ownership /\ Serial /\ [Next]_vars => Serial'
<1>1. SUFFICES ASSUME TypeOK, Ownership, Serial, [Next]_vars PROVE Serial'
  OBVIOUS
<1>2. CASE UNCHANGED entry
  BY <1>1, <1>2, SerialFrame
<1>3. ASSUME NEW h \in Conns, HandlerStep(h)
      PROVE  Serial'
  <2>1. CASE AbortStart(h)
    <3>1. RunOf[handler[h].cmd] \in Runs
      BY <1>1, <2>1, CommandAssumption DEF AbortStart, At, Ownership, HandlerKind
    <3> QED
      BY <1>1, <2>1, <3>1, SerialDelete DEF AbortStart
  <2> QED
    BY <1>1, <1>2, <1>3, <2>1, SerialAdmit, SerialStop
    DEF HandlerStep, CachedAck, StoredAckHit, StoredAckMiss, RejectUnknown, RejectStart,
        StartedInsert, StartedProject, RejectStop, CancelRun, Remember, SaveAck, Launch
<1>4. ASSUME NEW r \in Runs, ExecStep(r) \/ LearnSession(r)
      PROVE  Serial'
  BY <1>1, <1>2, <1>4, SerialRun, SerialDelete
  DEF ExecStep, RuntimeReturns, AskDeadline, AskCanceled, AskStopping, AskAgain, FinalInsert,
      FinalProject, RemoveRun
<1>5. CASE Crash
  BY <1>1, <1>5, SerialFrame DEF Crash
<1>6. CASE UNCHANGED vars
  <2>1. entry' = entry
    BY <1>6 DEF vars, memory
  <2> QED
    BY <1>2, <2>1
<1> QED
  BY <1>1, <1>2, <1>3, <1>4, <1>5, <1>6
  DEF Next, Connect, Disconnect, Receive, DeadlinePasses, ReconcileInsert,
      ReconcileProject, Booted

(* Whatever aliases the runs have learned and however many read loops race *)
(* in start, two active runs were never started for one session id.        *)
THEOREM SessionsSerial == Spec => []SessionSerial
<1>1. Init => Serial
  BY DEF Init, Serial, NamedIsAlias, SessionSerial, Active
<1>2. Base /\ Serial /\ [Next]_vars => Serial'
  BY SerialStep DEF Base
<1>3. Serial => SessionSerial
  BY DEF Serial
<1> QED
  BY <1>1, <1>2, <1>3, BaseInvariant, PTL DEF Spec

-----------------------------------------------------------------------------
(* AcceptedIsStarted: run.started is in run_events before start answers    *)
(* "ok", and nothing is ever deleted from run_events.                      *)

(* A read loop that has inserted run.started and not yet answered, or that *)
(* is about to save the ack of an accepted start.                          *)
Accepts(h) ==
  /\ handler[h].cmd \in StartCmds
  /\ \/ handler[h].pc = "project"
     \/ handler[h].pc \in {"remember", "save", "launch"} /\ handler[h].status = "ok"

StartedFirst ==
  /\ AcceptedIsStarted
  /\ \A h \in Conns : Accepts(h) => log[RunOf[handler[h].cmd]] # <<>>

LEMMA AppendKeeps ==
  ASSUME TypeOK, NEW q, NEW kind, log' = [log EXCEPT ![q] = Append(@, kind)]
  PROVE  /\ \A r \in Runs : log[r] # <<>> => log'[r] # <<>>
         /\ q \in Runs => log'[q] # <<>>
<1>1. \A r \in Runs : log'[r] = IF r = q THEN Append(log[r], kind) ELSE log[r]
  BY DEF TypeOK
<1>2. \A r \in Runs : Len(Append(log[r], kind)) = Len(log[r]) + 1 /\ Len(log[r]) \in Nat
  BY DEF TypeOK
<1>3. \A r \in Runs : Append(log[r], kind) # <<>>
  <2>1. SUFFICES ASSUME NEW r \in Runs, Append(log[r], kind) = <<>>
                 PROVE  FALSE
    OBVIOUS
  <2>2. Len(Append(log[r], kind)) = Len(<<>>)
    BY <2>1
  <2> QED
    BY <1>2, <2>2
<1> QED
  BY <1>1, <1>3

LEMMA LogGrows == TypeOK /\ [Next]_vars => \A r \in Runs : log[r] # <<>> => log'[r] # <<>>
<1>1. SUFFICES ASSUME TypeOK, [Next]_vars
               PROVE  \A r \in Runs : log[r] # <<>> => log'[r] # <<>>
  OBVIOUS
<1>2. CASE log' = log
  BY <1>2
<1>3. ASSUME NEW q, NEW kind, log' = [log EXCEPT ![q] = Append(@, kind)]
      PROVE  \A r \in Runs : log[r] # <<>> => log'[r] # <<>>
  BY <1>1, <1>3, AppendKeeps
<1>4. ASSUME NEW h \in Conns, HandlerStep(h)
      PROVE  \/ log' = log
             \/ log' = [log EXCEPT ![RunOf[handler[h].cmd]] = Append(@, "run.started")]
  BY <1>4
  DEF HandlerStep, CachedAck, StoredAckHit, StoredAckMiss, RejectUnknown, RejectStart, Admit,
      StartedInsert, StartedProject, AbortStart, RejectStop, MarkStopping, StopRuntime,
      CancelRun, Remember, SaveAck, Launch
<1>5. ASSUME NEW r \in Runs, ExecStep(r) \/ ReconcileInsert(r)
      PROVE  \/ log' = log
             \/ log' = [log EXCEPT ![r] = Append(@, exec[r].kind)]
             \/ log' = [log EXCEPT ![r] = Append(@, "run.error")]
  BY <1>5
  DEF ExecStep, Begin, RuntimeReturns, AskDeadline, AskCanceled, AskStopping, AskAgain,
      FinalInsert, FinalProject, RemoveRun, ReconcileInsert
<1>6. CASE UNCHANGED vars
  <2>1. log' = log
    BY <1>6 DEF vars, durable
  <2> QED
    BY <2>1
<1>7. ASSUME NEW h \in Conns, HandlerStep(h)
      PROVE  \A r \in Runs : log[r] # <<>> => log'[r] # <<>>
  BY <1>2, <1>3, <1>4, <1>7
<1>8. ASSUME NEW r \in Runs, ExecStep(r) \/ ReconcileInsert(r)
      PROVE  \A s \in Runs : log[s] # <<>> => log'[s] # <<>>
  BY <1>2, <1>3, <1>5, <1>8
<1> QED
  BY <1>1, <1>2, <1>6, <1>7, <1>8
  DEF Next, Connect, Disconnect, Receive, LearnSession, DeadlinePasses, ReconcileProject, Crash,
      Booted

(* A step after which no more loops accept and no more acks are stored.    *)
LEMMA StartedFrame ==
  ASSUME StartedFirst, \A r \in Runs : log[r] # <<>> => log'[r] # <<>>, ackDb' = ackDb,
         \A h \in Conns : Accepts(h)' => Accepts(h) /\ handler'[h].cmd = handler[h].cmd
  PROVE  StartedFirst'
<1>1. \A c \in StartCmds : RunOf[c] \in Runs
  BY CommandAssumption
<1> QED
  BY <1>1 DEF StartedFirst, AcceptedIsStarted, Accepts

LEMMA StartedHandler ==
  ASSUME TypeOK, Ownership, StartedFirst, NEW h \in Conns, HandlerStep(h),
         \A r \in Runs : log[r] # <<>> => log'[r] # <<>>
  PROVE  StartedFirst'
<1>0. \A c \in StartCmds : RunOf[c] \in Runs
  BY CommandAssumption
<1>1. CASE StartedInsert(h)
  <2>1. /\ handler[h].cmd \in StartCmds /\ handler'[h].cmd = handler[h].cmd
        /\ \A g \in Conns : g # h => handler'[g] = handler[g]
        /\ ackDb' = ackDb
        /\ \/ handler'[h].pc = "abort"
           \/ log' = [log EXCEPT ![RunOf[handler[h].cmd]] = Append(@, "run.started")]
    BY <1>1, GotoKeeps DEF StartedInsert, At, Ownership, HandlerKind
  <2>2. handler'[h].pc = "abort" \/ log'[RunOf[handler[h].cmd]] # <<>>
    BY <1>0, <2>1, AppendKeeps
  <2> QED
    BY <1>0, <2>1, <2>2 DEF StartedFirst, AcceptedIsStarted, Accepts
<1>2. CASE StartedProject(h)
  <2>1. /\ handler[h].pc = "project" /\ handler'[h].cmd = handler[h].cmd /\ ackDb' = ackDb
        /\ \A g \in Conns : g # h => handler'[g] = handler[g]
    BY <1>2, GotoKeeps, AnswerKeeps DEF StartedProject, At
  <2>2. \A g \in Conns : Accepts(g)' => Accepts(g) /\ handler'[g].cmd = handler[g].cmd
    BY <2>1 DEF Accepts
  <2> QED
    BY <2>1, <2>2, StartedFrame
<1>3. CASE CachedAck(h) \/ StoredAckHit(h) \/ StoredAckMiss(h) \/ RejectUnknown(h)
             \/ RejectStart(h) \/ RejectStop(h) \/ Admit(h) \/ StopRuntime(h) \/ Launch(h)
  <2>1. /\ ackDb' = ackDb
        /\ \A g \in Conns : g # h => handler'[g] = handler[g]
        /\ \/ handler'[h].pc \in {"idle", "stored", "handle", "insert", "cancel"}
           \/ handler'[h].pc = "remember" /\ handler'[h].status # "ok"
    BY <1>3, GotoKeeps, AnswerKeeps, ReturnKeeps
    DEF CachedAck, StoredAckHit, StoredAckMiss, RejectUnknown, RejectStart, RejectStop, Admit,
        StopRuntime, Launch, Idle
  <2>2. \A g \in Conns : Accepts(g)' => Accepts(g) /\ handler'[g].cmd = handler[g].cmd
    BY <2>1 DEF Accepts
  <2> QED
    BY <2>1, <2>2, StartedFrame
<1>4. CASE MarkStopping(h) \/ CancelRun(h)
  <2>1. handler[h].cmd \in StopCmds
    BY <1>4 DEF MarkStopping, CancelRun, At, Ownership, HandlerKind
  <2>2. /\ ackDb' = ackDb /\ handler'[h].cmd = handler[h].cmd
        /\ \A g \in Conns : g # h => handler'[g] = handler[g]
    <3>1. CASE MarkStopping(h)
      <4>1. PICK r : handler' = [handler EXCEPT ![h] =
                       [handler[h] EXCEPT !.pc = "kill", !.run = r, !.held = TRUE]]
        BY <3>1 DEF MarkStopping, TypeOK
      <4>2. handler[h] \in Handlers
        BY DEF TypeOK
      <4> QED
        BY <3>1, <4>1, <4>2 DEF MarkStopping, TypeOK, Handlers
    <3>2. CASE CancelRun(h)
      BY <3>2 DEF CancelRun, TypeOK, Idle
    <3> QED
      BY <1>4, <3>1, <3>2
  <2>3. \A g \in Conns : Accepts(g)' => Accepts(g) /\ handler'[g].cmd = handler[g].cmd
    BY <2>1, <2>2, CommandAssumption DEF Accepts
  <2> QED
    BY <2>2, <2>3, StartedFrame
<1>5. CASE AbortStart(h)
  <2> DEFINE kept == Released(RunOf[handler[h].cmd])
  <2>1. /\ kept \in [Conns -> Handlers] /\ ackDb' = ackDb
        /\ handler' = [kept EXCEPT ![h] = [kept[h] EXCEPT !.pc = "remember", !.status = "rejected"]]
    BY <1>5, ReleasedType DEF AbortStart, TypeOK
  <2>2. handler'[h].pc = "remember" /\ handler'[h].status = "rejected"
    <3>1. handler'[h] = [kept[h] EXCEPT !.pc = "remember", !.status = "rejected"]
      BY <2>1
    <3> QED
      BY <2>1, <3>1 DEF Handlers
  <2>3. \A g \in Conns : g # h => handler'[g] = kept[g]
    BY <2>1
  <2>4. \A g \in Conns : g # h => /\ handler'[g].pc = handler[g].pc
                                 /\ handler'[g].cmd = handler[g].cmd
                                 /\ handler'[g].status = handler[g].status
    BY <2>3, ReleasedKeeps
  <2>5. \A g \in Conns : Accepts(g)' => Accepts(g) /\ handler'[g].cmd = handler[g].cmd
    BY <2>2, <2>4 DEF Accepts
  <2> QED
    BY <2>1, <2>5, StartedFrame
<1>6. CASE Remember(h)
  <2>1. /\ ackDb' = ackDb /\ handler[h].pc = "remember" /\ handler'[h].pc = "save"
        /\ handler'[h].cmd = handler[h].cmd /\ handler'[h].status = handler[h].status
        /\ \A g \in Conns : g # h => handler'[g] = handler[g]
    BY <1>6, GotoKeeps DEF Remember, At
  <2>2. \A g \in Conns : Accepts(g)' => Accepts(g) /\ handler'[g].cmd = handler[g].cmd
    BY <2>1 DEF Accepts
  <2> QED
    BY <2>1, <2>2, StartedFrame
<1>7. CASE SaveAck(h)
  <2>1. /\ handler[h].pc = "save" /\ handler'[h].pc \in {"idle", "launch"}
        /\ handler'[h].pc = "launch" => Accepts(h) /\ handler'[h].cmd = handler[h].cmd
        /\ \A g \in Conns : g # h => handler'[g] = handler[g]
    BY <1>7, ReturnKeeps, GotoKeeps DEF SaveAck, At, Idle, Accepted, Accepts
  <2>2. \A c \in StartCmds : ackDb'[c] = "ok" =>
          ackDb[c] = "ok" \/ (c = handler[h].cmd /\ Accepts(h))
    BY <1>7, <2>1, CommandAssumption DEF SaveAck, TypeOK, Accepts
  <2>3. AcceptedIsStarted'
    BY <1>0, <2>2 DEF StartedFirst, AcceptedIsStarted
  <2> QED
    BY <1>0, <2>1, <2>3 DEF StartedFirst, Accepts
<1> QED
  BY <1>1, <1>2, <1>3, <1>4, <1>5, <1>6, <1>7 DEF HandlerStep

LEMMA StartedStep == TypeOK /\ Ownership /\ StartedFirst /\ [Next]_vars => StartedFirst'
<1>1. SUFFICES ASSUME TypeOK, Ownership, StartedFirst, [Next]_vars PROVE StartedFirst'
  OBVIOUS
<1>2. \A r \in Runs : log[r] # <<>> => log'[r] # <<>>
  BY <1>1, LogGrows
<1>3. CASE UNCHANGED <<handler, ackDb>>
  BY <1>1, <1>2, <1>3, StartedFrame DEF Accepts
<1>4. ASSUME NEW h \in Conns, HandlerStep(h)
      PROVE  StartedFirst'
  BY <1>1, <1>2, <1>4, StartedHandler
<1>5. ASSUME NEW h \in Conns, NEW c \in Commands, Receive(h, c)
      PROVE  StartedFirst'
  <2>1. handler' = [handler EXCEPT ![h] = [handler[h] EXCEPT !.pc = "cached", !.cmd = c]]
    BY <1>1, <1>5 DEF Receive, TypeOK
  <2>2. handler[h] \in Handlers
    BY <1>1 DEF TypeOK
  <2>3. handler'[h].pc = "cached" /\ \A g \in Conns : g # h => handler'[g] = handler[g]
    BY <1>1, <2>1, <2>2 DEF TypeOK, Handlers
  <2>4. \A g \in Conns : Accepts(g)' => Accepts(g) /\ handler'[g].cmd = handler[g].cmd
    BY <2>3 DEF Accepts
  <2> QED
    BY <1>1, <1>2, <1>5, <2>4, StartedFrame DEF Receive
<1>6. ASSUME NEW r \in Runs, RemoveRun(r)
      PROVE  StartedFirst'
  <2>1. \A g \in Conns : /\ handler'[g].pc = handler[g].pc
                         /\ handler'[g].cmd = handler[g].cmd
                         /\ handler'[g].status = handler[g].status
    BY <1>1, <1>6, ReleasedKeeps DEF RemoveRun
  <2>2. \A g \in Conns : Accepts(g)' => Accepts(g) /\ handler'[g].cmd = handler[g].cmd
    BY <2>1 DEF Accepts
  <2> QED
    BY <1>1, <1>2, <1>6, <2>2, StartedFrame DEF RemoveRun
<1>7. CASE Crash
  <2>1. \A g \in Conns : ~Accepts(g)'
    BY <1>7 DEF Crash, Accepts, Idle
  <2> QED
    BY <1>1, <1>2, <1>7, <2>1, StartedFrame DEF Crash
<1>8. CASE UNCHANGED vars
  <2>1. UNCHANGED <<handler, ackDb>>
    BY <1>8 DEF vars, memory, durable
  <2> QED
    BY <1>3, <2>1
<1> QED
  BY <1>1, <1>3, <1>4, <1>5, <1>6, <1>7, <1>8
  DEF Next, Connect, Disconnect, ExecStep, Begin, RuntimeReturns, AskDeadline, AskCanceled,
      AskStopping, AskAgain, FinalInsert, FinalProject, LearnSession, DeadlinePasses,
      ReconcileInsert, ReconcileProject, Booted

(* Whichever statement fails, wherever the connection drops or the process *)
(* dies, the ack table accepts no start whose run.started is not stored.   *)
THEOREM AcceptedStarted == Spec => []AcceptedIsStarted
<1>1. Init => StartedFirst
  BY CommandAssumption, NullAssumption DEF Init, StartedFirst, AcceptedIsStarted, Accepts, Idle
<1>2. Base /\ StartedFirst /\ [Next]_vars => StartedFirst'
  BY StartedStep DEF Base
<1>3. StartedFirst => AcceptedIsStarted
  BY DEF StartedFirst
<1> QED
  BY <1>1, <1>2, <1>3, BaseInvariant, PTL DEF Spec

-----------------------------------------------------------------------------
(* LaunchedIsAcked and AtMostOnceExecution, whichever statements fail.     *)

(* remember has an answer, and a read loop that launches a goroutine has   *)
(* tried to save the ack.                                                  *)
Answered ==
  \A h \in Conns :
    /\ handler[h].pc \in {"remember", "save"} => handler[h].status # NoAck
    /\ handler[h].pc = "launch" =>
         ackDb[handler[h].cmd] # NoAck \/ "unsaved" \in doubts[handler[h].cmd]

(* A read loop that may still come to launch the start it holds: one whose *)
(* connection is gone fails to insert run.started.                         *)
Underway(h) ==
  \/ handler[h].pc = "insert" /\ h \in live
  \/ handler[h].pc = "project"
  \/ handler[h].pc \in {"remember", "save", "launch"} /\ handler[h].status = "ok"

(* As long as nothing made the ack table unreliable for a command, a read  *)
(* loop past it handles a command that has no ack, and the start that is   *)
(* under way was never launched.                                           *)
FirstTime ==
  \A h \in Conns :
    handler[h].cmd \in StartCmds /\ doubts[handler[h].cmd] = {} =>
      /\ handler[h].pc = "handle" /\ h \in live => ackDb[handler[h].cmd] = NoAck
      /\ Underway(h) => launches[handler[h].cmd] = 0

Once == LaunchedIsAcked /\ Answered /\ AtMostOnceExecution /\ FirstTime

(* A step that neither answers a command in the table nor launches it.     *)
LEMMA OnceFrame ==
  ASSUME TypeOK, Once, ackDb' = ackDb, launches' = launches,
         \A c \in StartCmds : doubts[c] \subseteq doubts'[c],
         \A h \in Conns :
           /\ handler'[h].pc \in {"remember", "save"} =>
                \/ handler'[h].status # NoAck
                \/ handler[h].pc \in {"remember", "save"} /\ handler'[h].status = handler[h].status
           /\ handler'[h].pc = "launch" =>
                /\ handler[h].pc = "launch" /\ handler[h].cmd \in StartCmds
                /\ handler'[h].cmd = handler[h].cmd
           /\ handler'[h].cmd \in StartCmds =>
                /\ handler'[h].pc = "handle" /\ h \in live' =>
                     \/ ackDb[handler'[h].cmd] = NoAck
                     \/ doubts'[handler'[h].cmd] # {}
                     \/ /\ handler[h].pc = "handle" /\ h \in live
                        /\ handler'[h].cmd = handler[h].cmd
                /\ Underway(h)' =>
                     /\ handler'[h].cmd = handler[h].cmd
                     /\ Underway(h) \/ (handler[h].pc = "handle" /\ h \in live)
  PROVE  Once'
<1>0. StartCmds \subseteq Commands
  BY CommandAssumption
<1>1. LaunchedIsAcked' /\ AtMostOnceExecution'
  BY <1>0 DEF Once, LaunchedIsAcked, AtMostOnceExecution
<1>2. Answered'
  BY <1>0 DEF Once, Answered
<1>3. ASSUME NEW h \in Conns, handler'[h].cmd \in StartCmds, doubts'[handler'[h].cmd] = {}
      PROVE  /\ handler'[h].pc = "handle" /\ h \in live' => ackDb'[handler'[h].cmd] = NoAck
             /\ Underway(h)' => launches'[handler'[h].cmd] = 0
  <2>1. doubts[handler'[h].cmd] = {}
    BY <1>0, <1>3
  <2>2. handler'[h].pc = "handle" /\ h \in live' => ackDb[handler'[h].cmd] = NoAck
    BY <1>3, <2>1 DEF Once, FirstTime
  <2>3. ASSUME Underway(h)'
        PROVE  launches[handler'[h].cmd] = 0
    <3>1. CASE Underway(h)
      BY <1>3, <2>1, <2>3, <3>1 DEF Once, FirstTime
    <3>2. CASE handler[h].pc = "handle" /\ h \in live
      <4>1. handler'[h].cmd = handler[h].cmd /\ ackDb[handler[h].cmd] = NoAck
        BY <1>3, <2>1, <2>3, <3>2 DEF Once, FirstTime
      <4>2. ~(launches[handler[h].cmd] > 0)
        BY <1>3, <2>1, <4>1 DEF Once, LaunchedIsAcked
      <4> QED
        BY <1>3, <4>1, <4>2 DEF TypeOK
    <3> QED
      BY <1>3, <2>3, <3>1, <3>2
  <2> QED
    BY <2>2, <2>3
<1>4. FirstTime'
  BY <1>3 DEF FirstTime, Underway
<1> QED
  BY <1>1, <1>2, <1>4 DEF Once

(* The read loop has stored the ack, or the statement failed.              *)
LEMMA OnceSave ==
  ASSUME TypeOK, Launched, Once, NEW h \in Conns, SaveAck(h)
  PROVE  Once'
<1> DEFINE c == handler[h].cmd
<1>0. StartCmds \subseteq Commands
  BY CommandAssumption
<1>1. /\ handler[h].pc = "save" /\ handler[h].status # NoAck
      /\ launches' = launches /\ live' = live
      /\ \A g \in Conns : g # h => handler'[g] = handler[g]
      /\ \/ handler'[h].pc = "idle"
         \/ /\ handler'[h].pc = "launch" /\ Accepted(h)
            /\ handler'[h].cmd = handler[h].cmd /\ handler'[h].status = handler[h].status
  BY ReturnKeeps, GotoKeeps DEF SaveAck, At, Once, Answered, Idle
<1>2. \A d \in StartCmds : doubts[d] \subseteq doubts'[d]
  <2>1. PICK why : doubts' = [d \in StartCmds |-> IF d = c THEN doubts[d] \cup why ELSE doubts[d]]
    BY DEF SaveAck, Doubt
  <2> QED
    BY <2>1
<1>3. \A d \in StartCmds : d # c => ackDb'[d] = ackDb[d] /\ doubts'[d] = doubts[d]
  <2>1. \E why : doubts' = [d \in StartCmds |-> IF d = c THEN doubts[d] \cup why ELSE doubts[d]]
    BY DEF SaveAck, Doubt
  <2>2. \E st : ackDb' = [ackDb EXCEPT ![c] = st] \/ ackDb' = ackDb
    BY DEF SaveAck
  <2> QED
    BY <1>0, <2>1, <2>2 DEF TypeOK
<1>4. ASSUME c \in StartCmds
      PROVE  \/ /\ ackDb'[c] # NoAck
                /\ \A g \in Conns \ {h} : g \in live /\ handler[g].pc = "handle" /\ handler[g].cmd = c
                                            => doubts'[c] # {}
             \/ ackDb'[c] = ackDb[c] /\ "unsaved" \in doubts'[c]
  <2>1. CASE ackDb' = [ackDb EXCEPT ![c] = handler[h].status]
             /\ Doubt(c, IF \E g \in live \ {h} : At(g, "handle") /\ handler[g].cmd = c
                         THEN {"overlap"} ELSE {})
    <3>1. ackDb'[c] # NoAck
      BY <1>0, <1>1, <1>4, <2>1 DEF TypeOK
    <3>2. ASSUME NEW g \in Conns \ {h}, g \in live, handler[g].pc = "handle", handler[g].cmd = c
          PROVE  doubts'[c] # {}
      <4>1. \E k \in live \ {h} : At(k, "handle") /\ handler[k].cmd = c
        BY <3>2 DEF SaveAck, At
      <4> QED
        BY <1>4, <2>1, <4>1 DEF Doubt, TypeOK
    <3> QED
      BY <3>1, <3>2
  <2>2. CASE Doubt(c, {"unsaved"}) /\ UNCHANGED ackDb
    BY <1>4, <2>2 DEF Doubt, TypeOK
  <2> QED
    BY <2>1, <2>2 DEF SaveAck
<1>5. \A d \in StartCmds : ackDb[d] # NoAck => ackDb'[d] # NoAck \/ "unsaved" \in doubts'[d]
  BY <1>0, <1>3, <1>4
<1>6. LaunchedIsAcked' /\ AtMostOnceExecution'
  BY <1>0, <1>1, <1>2, <1>5 DEF Once, LaunchedIsAcked, AtMostOnceExecution
<1>7. \A d \in StartCmds : ackDb[d] # NoAck \/ "unsaved" \in doubts[d]
                            => ackDb'[d] # NoAck \/ "unsaved" \in doubts'[d]
  BY <1>2, <1>3, <1>4
<1>8. Answered'
  <2>1. ASSUME NEW g \in Conns
        PROVE  /\ handler'[g].pc \in {"remember", "save"} => handler'[g].status # NoAck
               /\ handler'[g].pc = "launch" =>
                    ackDb'[handler'[g].cmd] # NoAck \/ "unsaved" \in doubts'[handler'[g].cmd]
    <3>1. CASE g = h
      BY <1>0, <1>1, <1>4, <3>1 DEF Accepted
    <3>2. CASE g # h
      BY <1>0, <1>1, <1>7, <3>2 DEF Once, Answered, Launched, Accepted
    <3> QED
      BY <3>1, <3>2
  <2> QED
    BY <2>1 DEF Answered
<1>9. ASSUME NEW g \in Conns, handler'[g].cmd \in StartCmds, doubts'[handler'[g].cmd] = {}
      PROVE  /\ handler'[g].pc = "handle" /\ g \in live' => ackDb'[handler'[g].cmd] = NoAck
             /\ Underway(g)' => launches'[handler'[g].cmd] = 0
  <2>1. doubts[handler'[g].cmd] = {}
    BY <1>0, <1>2, <1>9
  <2>2. CASE g = h
    BY <1>1, <1>9, <2>1, <2>2 DEF Once, FirstTime, Underway, Accepted
  <2>3. CASE g # h
    <3>1. handler'[g] = handler[g]
      BY <1>1, <2>3
    <3>2. Underway(g)' => Underway(g)
      BY <1>1, <3>1 DEF Underway
    <3>3. handler[g].pc = "handle" /\ g \in live => handler[g].cmd # c \/ ackDb'[c] = ackDb[c]
      BY <1>0, <1>4, <1>9, <2>3, <3>1
    <3> QED
      BY <1>0, <1>1, <1>3, <1>9, <2>1, <3>1, <3>2, <3>3 DEF Once, FirstTime
  <2> QED
    BY <2>2, <2>3
<1>10. FirstTime'
  BY <1>9 DEF FirstTime, Underway
<1> QED
  BY <1>6, <1>8, <1>10 DEF Once

(* A launch: no other read loop has the same start under way.              *)
LEMMA OnceLaunch ==
  ASSUME TypeOK, Launched, Ownership, Once, NEW h \in Conns, Launch(h)
  PROVE  Once'
<1> DEFINE c == handler[h].cmd
<1>1. /\ phase = "up" /\ handler[h].pc = "launch" /\ handler'[h].pc = "idle"
      /\ \A g \in Conns : g # h => handler'[g] = handler[g]
      /\ ackDb' = ackDb /\ doubts' = doubts /\ live' = live
  BY ReturnKeeps DEF Launch, At, Idle
<1>2. c \in StartCmds /\ handler[h].status = "ok"
  BY <1>1 DEF Launched, Accepted
<1>3. \A d \in StartCmds : launches'[d] = IF d = c THEN launches[d] + 1 ELSE launches[d]
  BY DEF Launch, TypeOK
<1>4. LaunchedIsAcked'
  BY <1>1, <1>2, <1>3 DEF Once, LaunchedIsAcked, Answered
<1>5. Answered'
  BY <1>1 DEF Once, Answered
<1>6. doubts[c] = {} => launches[c] = 0
  BY <1>1, <1>2 DEF Once, FirstTime, Underway
<1>7. AtMostOnceExecution'
  BY <1>1, <1>3, <1>6 DEF Once, AtMostOnceExecution
<1>8. ASSUME NEW g \in Conns, g # h, handler[g].cmd = c
      PROVE  ~Underway(g)
  <2>1. RunOf[c] \in Runs /\ Starts(h, RunOf[c])
    BY <1>1, <1>2, CommandAssumption DEF Starts
  <2>2. ~Starts(g, RunOf[c])
    BY <1>1, <1>8, <2>1 DEF Ownership, OneOwner
  <2> QED
    BY <1>2, <1>8, <2>2 DEF Underway, Starts
<1>9. ASSUME NEW g \in Conns, handler'[g].cmd \in StartCmds, doubts'[handler'[g].cmd] = {}
      PROVE  /\ handler'[g].pc = "handle" /\ g \in live' => ackDb'[handler'[g].cmd] = NoAck
             /\ Underway(g)' => launches'[handler'[g].cmd] = 0
  <2>1. CASE g = h
    BY <1>1, <2>1 DEF Underway
  <2>2. CASE g # h
    <3>1. handler'[g] = handler[g] /\ (Underway(g)' => Underway(g))
      BY <1>1, <2>2 DEF Underway
    <3> QED
      BY <1>1, <1>3, <1>8, <1>9, <2>2, <3>1 DEF Once, FirstTime
  <2> QED
    BY <2>1, <2>2
<1>10. FirstTime'
  BY <1>9 DEF FirstTime, Underway
<1> QED
  BY <1>4, <1>5, <1>7, <1>10 DEF Once

LEMMA OnceHandler ==
  ASSUME TypeOK, Launched, Ownership, Once, NEW h \in Conns, HandlerStep(h)
  PROVE  Once'
<1> DEFINE Same == /\ ackDb' = ackDb /\ launches' = launches /\ live' = live /\ doubts' = doubts
           Others == \A g \in Conns : g # h => handler'[g] = handler[g]
<1>0. \A g \in Conns : handler[g].pc = "launch" => handler[g].cmd \in StartCmds
  BY DEF Launched, Accepted
<1>1. CASE SaveAck(h)
  BY <1>1, OnceSave
<1>2. CASE CachedAck(h) \/ StoredAckHit(h) \/ StopRuntime(h)
  <2>1. Same /\ Others /\ handler'[h].pc \in {"idle", "stored", "cancel"}
    BY <1>2, GotoKeeps, ReturnKeeps DEF CachedAck, StoredAckHit, StopRuntime, Idle
  <2> QED
    BY <1>0, <2>1, OnceFrame DEF Underway
<1>3. CASE StoredAckMiss(h)
  <2>1. /\ ackDb' = ackDb /\ launches' = launches /\ live' = live /\ Others
        /\ handler'[h].pc = "handle" /\ handler'[h].cmd = handler[h].cmd
    BY <1>3, GotoKeeps DEF StoredAckMiss
  <2>2. \A c \in StartCmds : doubts[c] \subseteq doubts'[c]
    BY <1>3 DEF StoredAckMiss, Doubt, TypeOK
  <2>3. handler[h].cmd \in StartCmds /\ h \in live /\ ackDb[handler[h].cmd] # NoAck
          => doubts'[handler[h].cmd] # {}
    BY <1>3 DEF StoredAckMiss, Doubt, TypeOK
  <2> QED
    BY <1>0, <2>1, <2>2, <2>3, OnceFrame, CommandAssumption DEF Underway
<1>4. CASE Admit(h) \/ StartedInsert(h) \/ StartedProject(h)
  <2>1. /\ Same /\ Others /\ handler'[h].cmd = handler[h].cmd
        /\ \/ handler[h].pc = "handle" /\ handler'[h].pc = "insert"
           \/ handler[h].pc = "insert" /\ h \in live /\ handler'[h].pc = "project"
           \/ handler'[h].pc = "abort"
           \/ handler[h].pc = "project" /\ handler'[h].pc = "remember" /\ handler'[h].status = "ok"
    BY <1>4, GotoKeeps, AnswerKeeps DEF Admit, StartedInsert, StartedProject, At
  <2> QED
    BY <1>0, <2>1, OnceFrame, NullAssumption DEF Underway
<1>5. CASE RejectUnknown(h) \/ RejectStart(h) \/ RejectStop(h)
  <2>1. /\ Same /\ Others
        /\ handler'[h].pc = "remember" /\ handler'[h].status \in Rejections
    BY <1>5, AnswerKeeps DEF RejectUnknown, RejectStart, RejectStop, Rejections
  <2>2. handler'[h].status # NoAck /\ handler'[h].status # "ok"
    BY <2>1, NullAssumption DEF Rejections
  <2> QED
    BY <1>0, <2>1, <2>2, OnceFrame DEF Underway
<1>6. CASE AbortStart(h)
  <2> DEFINE kept == Released(RunOf[handler[h].cmd])
  <2>1. /\ kept \in [Conns -> Handlers] /\ Same
        /\ handler' = [kept EXCEPT ![h] = [kept[h] EXCEPT !.pc = "remember", !.status = "rejected"]]
    BY <1>6, ReleasedType DEF AbortStart, TypeOK
  <2>2. handler'[h].pc = "remember" /\ handler'[h].status = "rejected"
    <3>1. handler'[h] = [kept[h] EXCEPT !.pc = "remember", !.status = "rejected"]
      BY <2>1
    <3> QED
      BY <2>1, <3>1 DEF Handlers
  <2>3. \A g \in Conns : g # h => handler'[g] = kept[g]
    BY <2>1
  <2>4. \A g \in Conns : g # h => /\ handler'[g].pc = handler[g].pc
                                 /\ handler'[g].cmd = handler[g].cmd
                                 /\ handler'[g].status = handler[g].status
    BY <2>3, ReleasedKeeps
  <2> QED
    BY <1>0, <2>1, <2>2, <2>4, OnceFrame, NullAssumption DEF Underway
<1>7. CASE MarkStopping(h)
  <2>1. PICK r : handler' = [handler EXCEPT ![h] =
                   [handler[h] EXCEPT !.pc = "kill", !.run = r, !.held = TRUE]]
    BY <1>7 DEF MarkStopping, TypeOK
  <2>2. handler[h] \in Handlers
    BY DEF TypeOK
  <2>3. Same /\ Others /\ handler'[h].pc = "kill"
    BY <1>7, <2>1, <2>2 DEF MarkStopping, TypeOK, Handlers
  <2> QED
    BY <1>0, <2>3, OnceFrame DEF Underway
<1>8. CASE CancelRun(h)
  <2>1. handler[h].cmd \notin StartCmds
    BY <1>8, CommandAssumption DEF CancelRun, At, Ownership, HandlerKind
  <2>2. /\ Same /\ Others
        /\ handler'[h].pc = "remember" /\ handler'[h].status = "ok"
        /\ handler'[h].cmd = handler[h].cmd
    BY <1>8 DEF CancelRun, TypeOK, Idle
  <2> QED
    BY <1>0, <2>1, <2>2, OnceFrame, NullAssumption DEF Underway
<1>9. CASE Remember(h)
  <2>1. /\ Same /\ Others
        /\ handler[h].pc = "remember" /\ handler'[h].pc = "save"
        /\ handler'[h].cmd = handler[h].cmd /\ handler'[h].status = handler[h].status
    BY <1>9, GotoKeeps DEF Remember, At
  <2> QED
    BY <1>0, <2>1, OnceFrame DEF Underway
<1>10. CASE Launch(h)
  BY <1>10, OnceLaunch
<1> QED
  BY <1>1, <1>2, <1>3, <1>4, <1>5, <1>6, <1>7, <1>8, <1>9, <1>10 DEF HandlerStep

LEMMA OnceStep == Base /\ Once /\ [Next]_vars => Once'
<1>1. SUFFICES ASSUME Base, Once, [Next]_vars PROVE Once'
  OBVIOUS
<1>0. /\ TypeOK /\ Launched /\ Ownership
      /\ \A g \in Conns : handler[g].pc = "launch" => handler[g].cmd \in StartCmds
  BY <1>1 DEF Base, Launched, Accepted
<1>2. CASE UNCHANGED <<live, handler, ackDb, launches, doubts>>
  BY <1>0, <1>1, <1>2, OnceFrame DEF Underway
<1>3. ASSUME NEW h \in Conns, HandlerStep(h)
      PROVE  Once'
  BY <1>0, <1>1, <1>3, OnceHandler
<1>4. ASSUME NEW h \in Conns, Connect(h) \/ Disconnect(h)
      PROVE  Once'
  <2>1. /\ ackDb' = ackDb /\ launches' = launches /\ doubts' = doubts /\ handler' = handler
        /\ \A g \in Conns : g \in live' => g \in live \/ handler[g].pc = "idle"
    BY <1>4 DEF Connect, Disconnect, Idle
  <2> QED
    BY <1>0, <1>1, <2>1, OnceFrame DEF Underway
<1>5. ASSUME NEW h \in Conns, NEW c \in Commands, Receive(h, c)
      PROVE  Once'
  <2>1. handler' = [handler EXCEPT ![h] = [handler[h] EXCEPT !.pc = "cached", !.cmd = c]]
    BY <1>0, <1>5 DEF Receive, TypeOK
  <2>2. handler[h] \in Handlers
    BY <1>0 DEF TypeOK
  <2>3. handler'[h].pc = "cached" /\ \A g \in Conns : g # h => handler'[g] = handler[g]
    BY <1>0, <2>1, <2>2 DEF TypeOK, Handlers
  <2>4. ackDb' = ackDb /\ launches' = launches /\ live' = live /\ doubts' = doubts
    BY <1>5 DEF Receive
  <2> QED
    BY <1>0, <1>1, <2>3, <2>4, OnceFrame DEF Underway
<1>6. ASSUME NEW r \in Runs, RemoveRun(r)
      PROVE  Once'
  <2>1. \A g \in Conns : /\ handler'[g].pc = handler[g].pc
                         /\ handler'[g].cmd = handler[g].cmd
                         /\ handler'[g].status = handler[g].status
    BY <1>0, <1>6, ReleasedKeeps DEF RemoveRun
  <2>2. ackDb' = ackDb /\ launches' = launches /\ live' = live /\ doubts' = doubts
    BY <1>6 DEF RemoveRun
  <2> QED
    BY <1>0, <1>1, <2>1, <2>2, OnceFrame DEF Underway
<1>7. CASE Crash
  <2>1. /\ ackDb' = ackDb /\ launches' = launches /\ doubts' = doubts
        /\ \A g \in Conns : handler'[g].pc = "idle"
    BY <1>7 DEF Crash, Idle
  <2> QED
    BY <1>0, <1>1, <2>1, OnceFrame DEF Underway
<1>8. CASE UNCHANGED vars
  <2>1. UNCHANGED <<live, handler, ackDb, launches, doubts>>
    BY <1>8 DEF vars, memory, durable, history
  <2> QED
    BY <1>2, <2>1
<1> QED
  BY <1>1, <1>2, <1>3, <1>4, <1>5, <1>6, <1>7, <1>8
  DEF Next, ExecStep, Begin, RuntimeReturns, AskDeadline, AskCanceled, AskStopping, AskAgain,
      FinalInsert, FinalProject, LearnSession, DeadlinePasses, ReconcileInsert,
      ReconcileProject, Booted

LEMMA OnceInvariant == Spec => []Once
<1>1. Init => Once
  BY CommandAssumption
  DEF Init, Once, LaunchedIsAcked, Answered, AtMostOnceExecution, FirstTime, Underway, Idle
<1>2. Base /\ Once /\ [Next]_vars => Once'
  BY OnceStep
<1> QED
  BY <1>1, <1>2, BaseInvariant, PTL DEF Spec

(* Codex never ran for a command the ack table would let start again,      *)
(* unless the statement that saves its ack failed, however many read loops *)
(* overlap and wherever the process crashes between the ack and the launch.*)
THEOREM LaunchedAcked == Spec => []LaunchedIsAcked
<1>1. Once => LaunchedIsAcked
  BY DEF Once
<1> QED
  BY <1>1, OnceInvariant, PTL

(* Every command starts codex at most once, whatever is redelivered on how *)
(* many read loops and wherever the process crashes, unless its ack could  *)
(* not be saved or read, or a loop had looked it up before another saved   *)
(* it.                                                                     *)
THEOREM ExecutedOnce == Spec => []AtMostOnceExecution
<1>1. Once => AtMostOnceExecution
  BY DEF Once
<1> QED
  BY <1>1, OnceInvariant, PTL

-----------------------------------------------------------------------------
(* NothingLeftRunning, when no statement fails: the row of a run says      *)
(* "running" only between the moment its start is accepted and the moment  *)
(* execute has stored its final event.                                     *)

RowClosed ==
  /\ NothingLeftRunning
  /\ \A h \in Conns :
       handler[h].pc \in {"insert", "project", "abort"}
         => row[RunOf[handler[h].cmd]] \notin Unfinished
  /\ phase = "up" =>
       \A r \in Runs : exec[r].pc = "remove" => row[r] \notin Unfinished

LEMMA TerminalCloses ==
  ASSUME NEW old, NEW kind \in Terminal
  PROVE  Project(old, kind) \notin Unfinished
BY DEF Project, StatusOf, Terminal, Unfinished

(* A step that starts no run, ends none and reopens no row.                *)
LEMMA RowFrame ==
  ASSUME Ownership, RowClosed, phase' = phase,
         \A r \in Runs : /\ row'[r] \in Unfinished => row[r] \in Unfinished
                         /\ entry[r] # NoEntry => entry'[r] # NoEntry
                         /\ exec'[r].pc = "remove" =>
                              exec[r].pc = "remove" \/ row'[r] \notin Unfinished,
         \A h \in Conns : handler'[h].pc \in {"insert", "project", "abort"} =>
                          /\ handler[h].pc \in {"insert", "project", "abort"}
                          /\ handler'[h].cmd = handler[h].cmd
  PROVE  RowClosed'
<1>1. \A h \in Conns : handler[h].pc \in {"insert", "project", "abort"}
                         => RunOf[handler[h].cmd] \in Runs
  BY CommandAssumption DEF Ownership, HandlerKind
<1> QED
  BY <1>1 DEF RowClosed, NothingLeftRunning

(* A step of read loop h that leaves the tables and every activeRun alone. *)
LEMMA LoopFrame ==
  ASSUME Ownership, RowClosed, NEW h \in Conns, phase' = phase, row' = row, exec' = exec,
         \A r \in Runs : entry[r] # NoEntry => entry'[r] # NoEntry,
         \A g \in Conns : g # h => handler'[g] = handler[g],
         handler'[h].pc \in {"insert", "project", "abort"} =>
           /\ handler[h].pc \in {"insert", "project", "abort"}
           /\ handler'[h].cmd = handler[h].cmd
  PROVE  RowClosed'
BY RowFrame

LEMMA RowHandler ==
  ASSUME TypeOK, Ownership, RowClosed, NEW h \in Conns, HandlerStep(h)
  PROVE  RowClosed'
<1>0. NoEntry \notin Entries
  BY NullAssumption DEF Entries, EntryState
<1>1. CASE CachedAck(h) \/ StoredAckHit(h) \/ StoredAckMiss(h) \/ RejectUnknown(h)
             \/ RejectStart(h) \/ RejectStop(h) \/ Remember(h) \/ SaveAck(h)
  <2>1. /\ phase' = phase /\ row' = row /\ exec' = exec /\ entry' = entry
        /\ \A g \in Conns : g # h => handler'[g] = handler[g]
        /\ handler'[h].pc \in {"idle", "stored", "handle", "remember", "save", "launch"}
    BY <1>1, GotoKeeps, AnswerKeeps, ReturnKeeps
    DEF CachedAck, StoredAckHit, StoredAckMiss, RejectUnknown, RejectStart, RejectStop,
        Remember, SaveAck, Idle
  <2> QED
    BY <2>1, LoopFrame
<1>2. CASE Admit(h)
  <2> DEFINE c == handler[h].cmd
             r == RunOf[c]
  <2>1. /\ r \in Runs /\ entry[r] = NoEntry /\ phase = "up" /\ phase' = phase
        /\ row' = row /\ exec' = exec
        /\ handler'[h].pc = "insert" /\ handler'[h].cmd = c
        /\ \A g \in Conns : g # h => handler'[g] = handler[g]
    BY <1>2, CommandAssumption, GotoKeeps DEF Admit, At
  <2>2. \A s \in Runs : s # r => entry'[s] = entry[s]
    BY <1>2 DEF Admit, TypeOK
  <2>3. row[r] \notin Unfinished
    BY <2>1 DEF RowClosed, NothingLeftRunning
  <2> QED
    BY <2>1, <2>2, <2>3 DEF RowClosed, NothingLeftRunning
<1>3. CASE StartedInsert(h)
  <2>1. /\ phase' = phase /\ row' = row /\ exec' = exec /\ entry' = entry
        /\ \A g \in Conns : g # h => handler'[g] = handler[g]
        /\ handler[h].pc = "insert" /\ handler'[h].cmd = handler[h].cmd
    BY <1>3, GotoKeeps DEF StartedInsert, At
  <2> QED
    BY <2>1, LoopFrame
<1>4. CASE StartedProject(h)
  <2> DEFINE r == RunOf[handler[h].cmd]
  <2>1. /\ phase = "up" /\ phase' = phase /\ exec' = exec /\ entry' = entry
        /\ \A g \in Conns : g # h => handler'[g] = handler[g]
        /\ handler[h].pc = "project" /\ handler'[h].cmd = handler[h].cmd
        /\ \/ handler'[h].pc = "abort" /\ row' = row
           \/ handler'[h].pc = "remember" /\ row' = [row EXCEPT ![r] = Project(@, "run.started")]
    BY <1>4, GotoKeeps, AnswerKeeps DEF StartedProject, At
  <2>2. CASE row' = row
    BY <2>1, <2>2, LoopFrame
  <2>3. CASE handler'[h].pc = "remember" /\ row' = [row EXCEPT ![r] = Project(@, "run.started")]
    <3>1. handler[h].cmd \in StartCmds /\ r \in Runs /\ Starts(h, r)
      BY <2>1, CommandAssumption DEF Ownership, HandlerKind, Starts
    <3>2. \A s \in Runs : s # r => row'[s] = row[s]
      BY <2>3 DEF TypeOK
    <3>3. /\ entry[r] # NoEntry /\ exec[r].pc = "none"
          /\ \A g \in Conns : g # h => ~Starts(g, r)
      BY <2>1, <3>1 DEF Ownership, OneOwner
    <3>4. \A g \in Conns :
            g # h /\ handler[g].pc \in {"insert", "project", "abort"}
              => RunOf[handler[g].cmd] \in Runs \ {r}
      BY <3>3, CommandAssumption DEF Ownership, HandlerKind, Starts
    <3> QED
      BY <2>1, <2>3, <3>2, <3>3, <3>4 DEF RowClosed, NothingLeftRunning
  <2> QED
    BY <2>1, <2>2, <2>3
<1>5. CASE AbortStart(h)
  <2> DEFINE r == RunOf[handler[h].cmd]
             kept == Released(r)
  <2>1. /\ phase = "up" /\ phase' = phase /\ exec' = exec /\ row' = row /\ handler[h].pc = "abort"
        /\ kept \in [Conns -> Handlers]
        /\ handler' = [kept EXCEPT ![h] = [kept[h] EXCEPT !.pc = "remember", !.status = "rejected"]]
    BY <1>5, ReleasedType DEF AbortStart, TypeOK, At
  <2>2. handler'[h].pc = "remember"
    <3>1. handler'[h] = [kept[h] EXCEPT !.pc = "remember", !.status = "rejected"]
      BY <2>1
    <3> QED
      BY <2>1, <3>1 DEF Handlers
  <2>3. \A g \in Conns : g # h => handler'[g] = kept[g]
    BY <2>1
  <2>4. \A g \in Conns : g # h => /\ handler'[g].pc = handler[g].pc
                                 /\ handler'[g].cmd = handler[g].cmd
    BY <2>3, ReleasedKeeps
  <2>5. row[r] \notin Unfinished /\ \A s \in Runs : s # r => entry'[s] = entry[s]
    BY <1>5, <2>1 DEF AbortStart, Delete, TypeOK, RowClosed
  <2> QED
    BY <2>1, <2>2, <2>4, <2>5 DEF RowClosed, NothingLeftRunning
<1>6. CASE MarkStopping(h) \/ StopRuntime(h) \/ CancelRun(h)
  <2>1. phase' = phase /\ row' = row /\ exec' = exec /\ phase = "up"
    BY <1>6 DEF MarkStopping, StopRuntime, CancelRun, At
  <2>2. /\ \A g \in Conns : g # h => handler'[g] = handler[g]
        /\ handler'[h].pc \notin {"insert", "project", "abort"}
    <3>1. handler[h].cmd \in StopCmds
      BY <1>6 DEF MarkStopping, StopRuntime, CancelRun, At, Ownership, HandlerKind
    <3>2. handler[h] \in Handlers
      BY DEF TypeOK
    <3>3. CASE MarkStopping(h)
      <4>1. PICK r : handler' = [handler EXCEPT ![h] =
                       [handler[h] EXCEPT !.pc = "kill", !.run = r, !.held = TRUE]]
        BY <3>3 DEF MarkStopping, TypeOK
      <4> QED
        BY <3>2, <4>1 DEF TypeOK, Handlers
    <3>4. CASE StopRuntime(h)
      BY <3>4, GotoKeeps DEF StopRuntime
    <3>5. CASE CancelRun(h)
      BY <3>5 DEF CancelRun, TypeOK, Idle
    <3> QED
      BY <1>6, <3>3, <3>4, <3>5
  <2>3. \A r \in Runs : entry[r] # NoEntry => entry'[r] # NoEntry
    <3>1. CASE entry' = entry
      BY <3>1
    <3>2. ASSUME NEW q, NEW e \in Entries, entry' = [entry EXCEPT ![q] = e]
          PROVE  \A r \in Runs : entry[r] # NoEntry => entry'[r] # NoEntry
      BY <1>0, <3>2 DEF TypeOK
    <3>3. CASE MarkStopping(h)
      <4>1. PICK r \in StopTargets(handler[h].cmd) :
              entry' = [entry EXCEPT ![r].state = "stopping", ![r].stopping = TRUE]
        BY <3>3 DEF MarkStopping
      <4>2. handler[h].cmd \in Commands
        BY <3>3, CommandAssumption DEF MarkStopping
      <4>3. r \in Runs /\ entry[r] \in Entries
        BY <4>1, <4>2, CommandAssumption DEF StopTargets, Active, TypeOK
      <4>4. entry' = [entry EXCEPT ![r] = [entry[r] EXCEPT !.state = "stopping", !.stopping = TRUE]]
        BY <4>1 DEF TypeOK
      <4>5. [entry[r] EXCEPT !.state = "stopping", !.stopping = TRUE] \in Entries
        BY <4>3 DEF Entries, EntryState
      <4> QED
        BY <3>2, <4>4, <4>5
    <3>4. CASE StopRuntime(h) /\ entry' # entry
      <4> DEFINE r == handler[h].run
      <4>1. entry[r] # NoEntry /\ entry' = [entry EXCEPT ![r].killed = TRUE]
        BY <3>4 DEF StopRuntime
      <4>2. r \in Runs
        BY <3>4, <4>1 DEF TypeOK
      <4>3. entry[r] \in Entries
        BY <4>1, <4>2 DEF TypeOK
      <4>4. entry' = [entry EXCEPT ![r] = [entry[r] EXCEPT !.killed = TRUE]]
        BY <4>1 DEF TypeOK
      <4>5. [entry[r] EXCEPT !.killed = TRUE] \in Entries
        BY <4>3 DEF Entries
      <4> QED
        BY <3>2, <4>4, <4>5
    <3> QED
      BY <1>6, <3>1, <3>3, <3>4 DEF CancelRun
  <2> QED
    BY <2>1, <2>2, <2>3, LoopFrame
<1>7. CASE Launch(h)
  <2>1. /\ phase' = phase /\ row' = row /\ entry' = entry /\ handler'[h].pc = "idle"
        /\ \A g \in Conns : g # h => handler'[g] = handler[g]
    BY <1>7, ReturnKeeps DEF Launch, Idle
  <2>2. \A r \in Runs : exec'[r].pc = "remove" => exec[r].pc = "remove"
    BY <1>7 DEF Launch, Fresh, TypeOK
  <2> QED
    BY <2>1, <2>2, RowFrame
<1> QED
  BY <1>1, <1>2, <1>3, <1>4, <1>5, <1>6, <1>7 DEF HandlerStep

LEMMA RowExec ==
  ASSUME TypeOK, Ownership, RowClosed, ~DbErrors, NEW r \in Runs,
         ExecStep(r) \/ LearnSession(r)
  PROVE  RowClosed'
<1>0. NoEntry \notin Entries
  BY NullAssumption DEF Entries, EntryState
<1>1. CASE RemoveRun(r)
  <2>1. /\ phase = "up" /\ phase' = phase /\ row' = row /\ exec[r].pc = "remove"
        /\ row[r] \notin Unfinished
    BY <1>1 DEF RemoveRun, Running, RowClosed
  <2>2. \A s \in Runs : s # r => entry'[s] = entry[s]
    BY <1>1 DEF RemoveRun, Delete, TypeOK
  <2>3. \A s \in Runs : exec'[s] = Gone \/ exec'[s] = exec[s]
    BY <1>1 DEF RemoveRun, TypeOK
  <2>4. \A g \in Conns : handler'[g].pc = handler[g].pc /\ handler'[g].cmd = handler[g].cmd
    BY <1>1, ReleasedKeeps DEF RemoveRun
  <2> QED
    BY <2>1, <2>2, <2>3, <2>4 DEF RowClosed, NothingLeftRunning, Gone
<1>2. CASE LearnSession(r)
  <2> DEFINE ids == {NativeOf[exec[r].cmd]} \cup Aliases(SessionOf[exec[r].cmd])
             e == [entry[r] EXCEPT !.sessions = @ \cup ids]
  <2>1. /\ phase' = phase /\ row' = row /\ exec' = exec /\ handler' = handler
        /\ entry[r] # NoEntry /\ exec[r].pc = "work" /\ phase = "up"
    BY <1>2 DEF LearnSession, Running
  <2>2. entry[r] \in Entries /\ entry' = [entry EXCEPT ![r] = e]
    BY <1>2, <2>1 DEF LearnSession, TypeOK
  <2>3. exec[r].cmd \in StartCmds
    BY <2>1, <2>2 DEF Ownership, OneOwner, Entries
  <2>4. ids \subseteq Sessions
    BY <2>3, CommandAssumption DEF Aliases
  <2>5. e \in Entries
    BY <2>2, <2>4 DEF Entries
  <2>6. \A s \in Runs : entry[s] # NoEntry => entry'[s] # NoEntry
    BY <1>0, <2>2, <2>5 DEF TypeOK
  <2> QED
    BY <2>1, <2>6, RowFrame
<1>3. CASE Begin(r)
  <2>1. phase' = phase /\ row' = row /\ handler' = handler
    BY <1>3 DEF Begin
  <2>2. \A s \in Runs : exec'[s].pc = "remove" => exec[s].pc = "remove"
    BY <1>3 DEF Begin, TypeOK, Goroutines
  <2>3. \A s \in Runs : entry[s] # NoEntry => entry'[s] # NoEntry
    <3>1. CASE entry' = entry
      BY <3>1
    <3>2. CASE entry[r] # NoEntry /\ entry' = [entry EXCEPT ![r].state = "running"]
      <4>1. entry[r] \in Entries
        BY <3>2 DEF TypeOK
      <4>2. [entry[r] EXCEPT !.state = "running"] \in Entries
        BY <4>1 DEF Entries, EntryState
      <4> QED
        BY <1>0, <3>2, <4>2 DEF TypeOK
    <3> QED
      BY <1>3, <3>1, <3>2 DEF Begin
  <2> QED
    BY <2>1, <2>2, <2>3, RowFrame
<1>4. CASE \/ RuntimeReturns(r) \/ AskDeadline(r) \/ AskCanceled(r) \/ AskStopping(r)
           \/ AskAgain(r) \/ FinalInsert(r)
  <2>1. phase' = phase /\ row' = row /\ handler' = handler /\ entry' = entry
    BY <1>4 DEF RuntimeReturns, AskDeadline, AskCanceled, AskStopping, AskAgain, FinalInsert
  <2>2. PICK pc \in ExecPC \ {"remove"} :
          \/ exec' = [exec EXCEPT ![r].pc = pc]
          \/ \E kind : exec' = [exec EXCEPT ![r].pc = pc, ![r].kind = kind]
          \/ \E kind, told : exec' = [exec EXCEPT ![r].pc = pc, ![r].kind = kind, ![r].told = told]
    <3>1. CASE AskDeadline(r)
      <4>1. PICK kind, told :
              exec' = [exec EXCEPT
                ![r].pc = IF ctx[r] = "deadline" THEN "insert" ELSE "canceled",
                ![r].kind = kind, ![r].told = told]
        <5>1. exec[r] \in Goroutines
          BY DEF TypeOK
        <5> QED
          BY <3>1, <5>1 DEF AskDeadline, Goroutines
      <4>2. \A pc \in {"insert", "canceled"} : pc \in ExecPC \ {"remove"}
        BY DEF ExecPC
      <4> QED
        BY <4>1, <4>2
    <3>2. CASE FinalInsert(r)
      BY <3>2 DEF FinalInsert, ExecPC
    <3> QED
      BY <1>4, <3>1, <3>2
      DEF RuntimeReturns, AskCanceled, AskStopping, AskAgain, EndAs, AskNext, ExecPC
  <2>3. exec'[r].pc = pc /\ \A s \in Runs : s # r => exec'[s] = exec[s]
    <3>1. exec[r] \in Goroutines /\ exec \in [Runs -> Goroutines]
      BY DEF TypeOK
    <3> QED
      BY <2>2, <3>1 DEF Goroutines
  <2> QED
    BY <2>1, <2>3, RowFrame
<1>5. CASE FinalProject(r)
  <2>1. /\ phase' = phase /\ handler' = handler /\ entry' = entry
        /\ row' = [row EXCEPT ![r] = Project(@, exec[r].kind)]
        /\ exec' = [exec EXCEPT ![r].pc = "remove"]
    BY <1>5 DEF FinalProject
  <2>2. exec[r].kind \in Terminal
    BY DEF TypeOK, Goroutines
  <2>3. row'[r] \notin Unfinished /\ \A s \in Runs : s # r => row'[s] = row[s]
    BY <2>1, <2>2, TerminalCloses DEF TypeOK
  <2>4. \A s \in Runs : s # r => exec'[s] = exec[s]
    BY <2>1 DEF TypeOK
  <2> QED
    BY <2>1, <2>3, <2>4, RowFrame
<1> QED
  BY <1>1, <1>2, <1>3, <1>4, <1>5 DEF ExecStep

LEMMA RowReconcile ==
  ASSUME TypeOK, Ownership, RowClosed, NEW r \in Runs, ReconcileInsert(r) \/ ReconcileProject(r)
  PROVE  RowClosed'
<1>1. CASE ReconcileInsert(r)
  <2>1. /\ phase' = phase /\ row' = row /\ handler' = handler /\ entry' = entry
        /\ exec' = [exec EXCEPT ![r].pc = "project"]
    BY <1>1 DEF ReconcileInsert
  <2>2. \A s \in Runs : exec'[s].pc = "remove" => exec[s].pc = "remove"
    BY <2>1 DEF TypeOK, Goroutines
  <2> QED
    BY <2>1, <2>2, RowFrame
<1>2. CASE ReconcileProject(r)
  <2>1. /\ phase' = phase /\ handler' = handler /\ entry' = entry
        /\ row' = [row EXCEPT ![r] = Project(@, "run.error")]
        /\ exec' = [exec EXCEPT ![r].pc = "none"]
    BY <1>2 DEF ReconcileProject
  <2>2. \A s \in Runs : exec'[s].pc = "remove" => exec[s].pc = "remove"
    BY <2>1 DEF TypeOK, Goroutines
  <2>3. row'[r] \notin Unfinished /\ \A s \in Runs : s # r => row'[s] = row[s]
    BY <2>1, KindType, TerminalCloses DEF TypeOK
  <2> QED
    BY <2>1, <2>2, <2>3, RowFrame
<1> QED
  BY <1>1, <1>2

LEMMA RowStep == TypeOK /\ Ownership /\ RowClosed /\ ~DbErrors /\ [Next]_vars => RowClosed'
<1>1. SUFFICES ASSUME TypeOK, Ownership, RowClosed, ~DbErrors, [Next]_vars PROVE RowClosed'
  OBVIOUS
<1>2. CASE UNCHANGED <<phase, handler, entry, exec, row>>
  BY <1>1, <1>2, RowFrame
<1>3. ASSUME NEW h \in Conns, HandlerStep(h)
      PROVE  RowClosed'
  BY <1>1, <1>3, RowHandler
<1>4. ASSUME NEW r \in Runs, ExecStep(r) \/ LearnSession(r)
      PROVE  RowClosed'
  BY <1>1, <1>4, RowExec
<1>5. ASSUME NEW h \in Conns, NEW c \in Commands, Receive(h, c)
      PROVE  RowClosed'
  <2>1. handler' = [handler EXCEPT ![h] = [handler[h] EXCEPT !.pc = "cached", !.cmd = c]]
    BY <1>1, <1>5 DEF Receive, TypeOK
  <2>2. handler[h] \in Handlers
    BY <1>1 DEF TypeOK
  <2>3. handler'[h].pc = "cached" /\ \A g \in Conns : g # h => handler'[g] = handler[g]
    BY <1>1, <2>1, <2>2 DEF TypeOK, Handlers
  <2>4. phase' = phase /\ row' = row /\ exec' = exec /\ entry' = entry
    BY <1>5 DEF Receive
  <2> QED
    BY <1>1, <2>3, <2>4, LoopFrame
<1>6. CASE Crash
  BY <1>1, <1>6 DEF Crash, RowClosed, NothingLeftRunning, Idle
<1>7. CASE Booted
  <2>1. \A g \in Conns : handler'[g].pc = "idle"
    BY <1>1, <1>7 DEF Booted, Ownership, BootEmpty, Idle
  <2>2. \A r \in Runs : row'[r] \notin Unfinished
    BY <1>1, <1>7 DEF Booted
  <2> QED
    BY <2>1, <2>2 DEF RowClosed, NothingLeftRunning
<1>8. CASE UNCHANGED vars
  <2>1. UNCHANGED <<phase, handler, entry, exec, row>>
    BY <1>8 DEF vars, memory, durable
  <2> QED
    BY <1>2, <2>1
<1>9. ASSUME NEW r \in Runs, ReconcileInsert(r) \/ ReconcileProject(r)
      PROVE  RowClosed'
  BY <1>1, <1>9, RowReconcile
<1> QED
  BY <1>1, <1>2, <1>3, <1>4, <1>5, <1>6, <1>7, <1>8, <1>9
  DEF Next, Connect, Disconnect, DeadlinePasses

(* When no statement fails, a run the runs table shows as unfinished is    *)
(* one the manager is executing, from the end of every boot on.            *)
THEOREM NothingStaysRunning ==
  ASSUME ~DbErrors
  PROVE  Spec => []NothingLeftRunning
<1>1. Init => RowClosed
  BY DEF Init, RowClosed, NothingLeftRunning, Unfinished, Idle, Gone
<1>2. Base /\ RowClosed /\ [Next]_vars => RowClosed'
  BY RowStep DEF Base
<1>3. RowClosed => NothingLeftRunning
  BY DEF RowClosed
<1> QED
  BY <1>1, <1>2, <1>3, BaseInvariant, PTL DEF Spec

-----------------------------------------------------------------------------
(* StoppedNotFailed: stop sets stopping before it cancels, and holds the   *)
(* activeRun it looked up as long as that is in Manager.active.            *)
ToStop(e) == e # NoEntry /\ e.stopping = TRUE

Told ==
  /\ \A r \in Runs : ctx[r] = "canceled" => ToStop(entry[r])
  /\ \A h \in Conns :
       handler[h].held = TRUE => handler[h].run \in Runs /\ ToStop(entry[handler[h].run])

(* Who was told to stop stays so, nobody is cancelled anew and nobody has  *)
(* looked up another run.                                                  *)
LEMMA ToldFrame ==
  ASSUME Told,
         \A r \in Runs : ToStop(entry[r]) => ToStop(entry'[r]),
         \A r \in Runs : ctx'[r] = "canceled" => ctx[r] = "canceled",
         \A g \in Conns : handler'[g].held = TRUE => /\ handler[g].held = TRUE
                                                     /\ handler'[g].run = handler[g].run
  PROVE  Told'
BY DEF Told

LEMMA LoopKeeps ==
  ASSUME TypeOK, NEW h \in Conns,
         \/ Return(h)
         \/ \E pc : Goto(h, pc)
         \/ \E st : Answer(h, st)
         \/ \E c \in Commands : handler' = [handler EXCEPT ![h].pc = "cached", ![h].cmd = c]
         \/ \E c, st : handler' = [handler EXCEPT ![h] = [Idle EXCEPT !.pc = "remember", !.cmd = c, !.status = st]]
  PROVE  \A g \in Conns : handler'[g].held = TRUE => /\ handler[g].held = TRUE
                                                     /\ handler'[g].run = handler[g].run
<1>1. handler \in [Conns -> Handlers]
  BY DEF TypeOK
<1>2. Idle.held = FALSE
  BY DEF Idle
<1>3. CASE Return(h)
  BY <1>1, <1>2, <1>3 DEF Return
<1>4. ASSUME \/ \E pc : Goto(h, pc)
             \/ \E st : Answer(h, st)
             \/ \E c \in Commands : handler' = [handler EXCEPT ![h].pc = "cached", ![h].cmd = c]
      PROVE  /\ handler'[h].held = TRUE => handler[h].held = TRUE
             /\ handler'[h].run = handler[h].run
  <2> DEFINE x == handler[h]
             y == handler'[h]
  <2>1. /\ x \in Handlers
        /\ \/ \E pc : y = [x EXCEPT !.pc = pc]
           \/ \E st : y = [x EXCEPT !.pc = "remember", !.status = st]
           \/ \E c : y = [x EXCEPT !.pc = "cached", !.cmd = c]
    BY <1>1, <1>4 DEF Goto, Answer
  <2> HIDE DEF x, y
  <2>2. (y.held = TRUE => x.held = TRUE) /\ y.run = x.run
    BY <2>1 DEF Handlers
  <2>3. QED
    BY <2>2 DEF x, y
<1>7. ASSUME NEW c, NEW st,
             handler' = [handler EXCEPT ![h] = [Idle EXCEPT !.pc = "remember", !.cmd = c, !.status = st]]
      PROVE  handler'[h].held = FALSE
  BY <1>1, <1>7 DEF Idle
<1>8. \A g \in Conns : g # h => handler'[g] = handler[g]
  BY <1>1 DEF Return, Goto, Answer
<1>9. QED
  BY <1>2, <1>3, <1>4, <1>7, <1>8

(* Fields of an activeRun other than stopping, and stopping set.           *)
LEMMA EntryKeeps ==
  ASSUME TypeOK, NEW r,
         \/ UNCHANGED entry
         \/ entry' = [entry EXCEPT ![r].state = "running"]
         \/ entry' = [entry EXCEPT ![r].killed = TRUE]
         \/ entry' = [entry EXCEPT ![r].state = "stopping", ![r].stopping = TRUE]
         \/ \E ids \in SUBSET Sessions : entry' = [entry EXCEPT ![r].sessions = @ \cup ids],
         r \in Runs => entry[r] # NoEntry \/ UNCHANGED entry
  PROVE  \A s \in Runs : ToStop(entry[s]) => ToStop(entry'[s])
<1>1. entry \in [Runs -> Entries \cup {NoEntry}]
  BY DEF TypeOK
<1>2. \A s \in Runs : s # r => entry'[s] = entry[s]
  BY <1>1
<1>3. CASE r \in Runs /\ entry[r] # NoEntry /\ ~UNCHANGED entry
  <2> DEFINE e == entry[r]
             f == entry'[r]
  <2>1. /\ e \in Entries
        /\ \/ f = [e EXCEPT !.state = "running"]
           \/ f = [e EXCEPT !.killed = TRUE]
           \/ f = [e EXCEPT !.state = "stopping", !.stopping = TRUE]
           \/ \E ids \in SUBSET Sessions : f = [e EXCEPT !.sessions = @ \cup ids]
    BY <1>1, <1>3
  <2> HIDE DEF e, f
  <2>2. f \in Entries
    BY <2>1 DEF Entries, EntryState
  <2>3. f.stopping = e.stopping \/ f.stopping = TRUE
    BY <2>1 DEF Entries
  <2>4. f # NoEntry
    BY <2>2, NullAssumption DEF Entries, EntryState
  <2>5. ToStop(e) => ToStop(f)
    BY <2>3, <2>4 DEF ToStop
  <2>6. QED
    BY <1>2, <2>5 DEF e, f
<1>4. QED
  BY <1>2, <1>3

LEMMA ToldMark ==
  ASSUME TypeOK, Told, NEW h \in Conns, MarkStopping(h)
  PROVE  Told'
<1>1. PICK r \in StopTargets(handler[h].cmd) :
        /\ entry' = [entry EXCEPT ![r].state = "stopping", ![r].stopping = TRUE]
        /\ handler' = [handler EXCEPT ![h].pc = "kill", ![h].run = r, ![h].held = TRUE]
        /\ ctx' = ctx /\ handler[h].cmd \in StopCmds
  BY DEF MarkStopping
<1>2. r \in Runs /\ entry[r] # NoEntry
  <2>1. handler[h].cmd \in Commands
    BY <1>1, CommandAssumption
  <2> QED
    BY <1>1, <2>1, CommandAssumption DEF StopTargets, Active
<1>3. \A s \in Runs : ToStop(entry[s]) => ToStop(entry'[s])
  BY <1>1, <1>2, EntryKeeps
<1>4. ToStop(entry'[r])
  <2> DEFINE e == entry[r]
             f == entry'[r]
  <2>1. e \in Entries /\ f = [e EXCEPT !.state = "stopping", !.stopping = TRUE]
    BY <1>1, <1>2 DEF TypeOK
  <2> HIDE DEF e, f
  <2>2. f \in Entries /\ f.stopping = TRUE
    BY <2>1 DEF Entries, EntryState
  <2>3. f # NoEntry
    BY <2>2, NullAssumption DEF Entries, EntryState
  <2> QED
    BY <2>2, <2>3 DEF ToStop, f
<1>5. /\ \A g \in Conns : g # h => handler'[g] = handler[g]
      /\ handler'[h].run = r
  <2>1. handler \in [Conns -> Handlers]
    BY DEF TypeOK
  <2>2. handler[h] \in Handlers
    BY <2>1
  <2> QED
    BY <1>1, <2>1, <2>2 DEF Handlers
<1>6. \A s \in Runs : ctx'[s] = "canceled" => ToStop(entry'[s])
  BY <1>1, <1>3 DEF Told
<1>7. \A g \in Conns :
        handler'[g].held = TRUE => handler'[g].run \in Runs /\ ToStop(entry'[handler'[g].run])
  BY <1>2, <1>3, <1>4, <1>5 DEF Told
<1> QED
  BY <1>6, <1>7 DEF Told

LEMMA ToldCancel ==
  ASSUME TypeOK, Told, NEW h \in Conns, CancelRun(h)
  PROVE  Told'
<1>1. entry' = entry
  BY DEF CancelRun
<1>2. \A r \in Runs : ctx'[r] = "canceled" => ctx[r] = "canceled" \/ ToStop(entry[r])
  <2>1. handler[h].held \in BOOLEAN
    BY DEF TypeOK, Handlers
  <2>2. CASE handler[h].held = TRUE
    BY <2>2 DEF CancelRun, Told, TypeOK
  <2>3. CASE handler[h].held = FALSE
    BY <2>3 DEF CancelRun
  <2> QED
    BY <2>1, <2>2, <2>3
<1>3. \A g \in Conns : handler'[g].held = TRUE => /\ handler[g].held = TRUE
                                                  /\ handler'[g].run = handler[g].run
  BY LoopKeeps DEF CancelRun
<1> QED
  BY <1>1, <1>2, <1>3 DEF Told

LEMMA ToldDelete ==
  ASSUME TypeOK, Told, NEW r \in Runs, Delete(r),
         \A g \in Conns : /\ handler'[g].held = Released(r)[g].held
                          /\ handler'[g].run = Released(r)[g].run
  PROVE  Told'
<1>1. \A s \in Runs : s # r => entry'[s] = entry[s] /\ ctx'[s] = ctx[s]
  BY DEF Delete, TypeOK
<1>2. ctx'[r] = "live"
  BY DEF Delete, TypeOK
<1>3. ASSUME NEW g \in Conns, handler'[g].held = TRUE
      PROVE  handler[g].run # r /\ handler'[g].run = handler[g].run /\ handler[g].held = TRUE
  <2> DEFINE x == handler[g]
  <2>1. x \in Handlers /\ Released(r)[g] = IF x.run = r THEN [x EXCEPT !.held = FALSE] ELSE x
    BY DEF TypeOK, Released
  <2>2. CASE x.run = r
    <3>1. [x EXCEPT !.held = FALSE].held = FALSE
      BY <2>1 DEF Handlers
    <3> QED
      BY <1>3, <2>1, <2>2, <3>1
  <2>3. CASE x.run # r
    BY <1>3, <2>1, <2>3
  <2> QED
    BY <2>2, <2>3
<1> QED
  BY <1>1, <1>2, <1>3 DEF Told

LEMMA ToldHandler ==
  ASSUME TypeOK, Ownership, Told, NEW h \in Conns, HandlerStep(h)
  PROVE  Told'
<1> DEFINE LoopsKeep == \A g \in Conns : handler'[g].held = TRUE =>
                          /\ handler[g].held = TRUE /\ handler'[g].run = handler[g].run
<1>1. CASE UNCHANGED <<entry, ctx>> /\ LoopsKeep
  BY <1>1, ToldFrame
<1>2. CASE \/ CachedAck(h) \/ StoredAckHit(h) \/ StoredAckMiss(h) \/ RejectUnknown(h)
           \/ RejectStart(h) \/ StartedInsert(h) \/ StartedProject(h) \/ RejectStop(h)
           \/ Remember(h) \/ SaveAck(h) \/ Launch(h)
  <2>1. /\ UNCHANGED <<entry, ctx>>
        /\ Return(h) \/ (\E pc : Goto(h, pc)) \/ (\E st : Answer(h, st))
    BY <1>2 DEF CachedAck, StoredAckHit, StoredAckMiss, RejectUnknown, RejectStart, StartedInsert,
                StartedProject, RejectStop, Remember, SaveAck, Launch
  <2> QED
    BY <1>1, <2>1, LoopKeeps
<1>3. CASE Admit(h)
  <2> DEFINE c == handler[h].cmd
             r == RunOf[c]
  <2>1. /\ r \in Runs /\ entry[r] = NoEntry /\ ctx' = [ctx EXCEPT ![r] = "live"]
        /\ \E e : entry' = [entry EXCEPT ![r] = e]
    BY <1>3, CommandAssumption DEF Admit
  <2>2. \A s \in Runs : s # r => entry'[s] = entry[s] /\ ctx'[s] = ctx[s]
    BY <2>1 DEF TypeOK
  <2>3. ctx'[r] = "live" /\ ~ToStop(entry[r])
    BY <2>1 DEF TypeOK, ToStop
  <2>4. LoopsKeep
    BY <1>3, LoopKeeps DEF Admit
  <2> QED
    BY <2>2, <2>3, <2>4, ToldFrame
<1>4. CASE AbortStart(h)
  <2> DEFINE r == RunOf[handler[h].cmd]
  <2>1. r \in Runs /\ Delete(r)
    BY <1>4, CommandAssumption DEF AbortStart, At, Ownership, HandlerKind
  <2>2. \A g \in Conns : /\ handler'[g].held = Released(r)[g].held
                         /\ handler'[g].run = Released(r)[g].run
    <3>1. Released(r) \in [Conns -> Handlers]
      BY ReleasedType DEF TypeOK
    <3>2. \A g \in Conns : g # h => handler'[g] = Released(r)[g]
      BY <1>4, <3>1 DEF AbortStart
    <3> DEFINE x == Released(r)[h]
               y == handler'[h]
    <3>3. x \in Handlers /\ y = [x EXCEPT !.pc = "remember", !.status = "rejected"]
      BY <1>4, <3>1 DEF AbortStart
    <3> HIDE DEF x, y
    <3>4. y.held = x.held /\ y.run = x.run
      BY <3>3 DEF Handlers
    <3> QED
      BY <3>2, <3>4 DEF x, y
  <2> QED
    BY <2>1, <2>2, ToldDelete
<1>5. CASE StopRuntime(h)
  <2> DEFINE r == handler[h].run
  <2>1. /\ UNCHANGED entry \/ (entry[r] # NoEntry /\ entry' = [entry EXCEPT ![r].killed = TRUE])
        /\ ctx' = ctx /\ Goto(h, "cancel")
    BY <1>5 DEF StopRuntime
  <2>2. \A s \in Runs : ToStop(entry[s]) => ToStop(entry'[s])
    BY <2>1, EntryKeeps
  <2> QED
    BY <2>1, <2>2, LoopKeeps, ToldFrame
<1> QED
  BY <1>2, <1>3, <1>4, <1>5, ToldMark, ToldCancel DEF HandlerStep

LEMMA ToldStep == TypeOK /\ Ownership /\ Told /\ [Next]_vars => Told'
<1>1. SUFFICES ASSUME TypeOK, Ownership, Told, [Next]_vars PROVE Told'
  OBVIOUS
<1>2. CASE UNCHANGED <<entry, ctx, handler>>
  BY <1>1, <1>2 DEF Told
<1>3. ASSUME NEW h \in Conns, NEW c \in Commands, Receive(h, c)
      PROVE  Told'
  BY <1>1, <1>3, LoopKeeps, ToldFrame DEF Receive
<1>4. ASSUME NEW r \in Runs, Begin(r) \/ LearnSession(r)
      PROVE  Told'
  <2>1. /\ UNCHANGED <<ctx, handler>>
        /\ \/ UNCHANGED entry
           \/ entry[r] # NoEntry /\ entry' = [entry EXCEPT ![r].state = "running"]
           \/ /\ entry[r] # NoEntry
              /\ \E ids \in SUBSET Sessions : entry' = [entry EXCEPT ![r].sessions = @ \cup ids]
    <3>1. CASE Begin(r)
      BY <3>1 DEF Begin
    <3>2. CASE LearnSession(r)
      <4>1. exec[r].cmd \in StartCmds
        BY <1>1, <3>2 DEF LearnSession, Running, Ownership, OneOwner, TypeOK, Entries
      <4>2. {NativeOf[exec[r].cmd]} \cup Aliases(SessionOf[exec[r].cmd]) \in SUBSET Sessions
        BY <4>1, CommandAssumption DEF Aliases
      <4> QED
        BY <3>2, <4>2 DEF LearnSession
    <3> QED
      BY <1>4, <3>1, <3>2
  <2>2. \A s \in Runs : ToStop(entry[s]) => ToStop(entry'[s])
    BY <1>1, <2>1, EntryKeeps
  <2> QED
    BY <1>1, <2>1, <2>2, ToldFrame
<1>5. ASSUME NEW r \in Runs, DeadlinePasses(r)
      PROVE  Told'
  <2>1. \A s \in Runs : ctx'[s] = "canceled" => ctx[s] = "canceled"
    BY <1>1, <1>5 DEF DeadlinePasses, TypeOK
  <2> QED
    BY <1>1, <1>5, <2>1, ToldFrame DEF DeadlinePasses
<1>6. ASSUME NEW r \in Runs, RemoveRun(r)
      PROVE  Told'
  BY <1>1, <1>6, ToldDelete DEF RemoveRun
<1>7. CASE Crash
  BY <1>7 DEF Crash, Idle, Told
<1>8. CASE UNCHANGED vars
  BY <1>2, <1>8 DEF vars
<1> QED
  BY <1>1, <1>2, <1>3, <1>4, <1>5, <1>6, <1>7, <1>8, ToldHandler
  DEF Next, Connect, Disconnect, ExecStep, RuntimeReturns, AskDeadline, AskCanceled, AskStopping,
      AskAgain, FinalInsert, FinalProject, ReconcileInsert, ReconcileProject, Booted

(* A goroutine that found its context cancelled is on its way to           *)
(* run.stopped: the context stays cancelled, and the run marked.           *)
Heard ==
  \A r \in Runs : exec[r].told = TRUE =>
    /\ phase = "up" /\ ctx[r] = "canceled"
    /\ \/ exec[r].pc \in {"canceled", "stopping"}
       \/ exec[r].pc \in {"insert", "project", "remove"} /\ exec[r].kind = "run.stopped"

(* No goroutine moves, and no cancelled context of one is made anew.       *)
LEMMA HeardFrame ==
  ASSUME Heard, phase' = phase, exec' = exec,
         \A r \in Runs : exec[r].told = TRUE /\ ctx[r] = "canceled" => ctx'[r] = "canceled"
  PROVE  Heard'
BY DEF Heard

LEMMA HeardHandler ==
  ASSUME TypeOK, Ownership, Told, Heard, NEW h \in Conns, HandlerStep(h)
  PROVE  Heard'
<1>1. phase' = phase
  BY DEF HandlerStep, CachedAck, StoredAckHit, StoredAckMiss, RejectUnknown, RejectStart, Admit,
         StartedInsert, StartedProject, AbortStart, RejectStop, MarkStopping, StopRuntime,
         CancelRun, Remember, SaveAck, Launch
<1>2. CASE UNCHANGED <<exec, ctx>>
  BY <1>1, <1>2, HeardFrame
<1>3. CASE Admit(h)
  <2> DEFINE r == RunOf[handler[h].cmd]
  <2>1. exec' = exec /\ entry[r] = NoEntry /\ r \in Runs
        /\ \A s \in Runs : s # r => ctx'[s] = ctx[s]
    BY <1>3, CommandAssumption DEF Admit, TypeOK
  <2>2. ctx[r] # "canceled"
    BY <2>1 DEF Told, ToStop
  <2> QED
    BY <1>1, <2>1, <2>2, HeardFrame
<1>4. CASE AbortStart(h)
  <2> DEFINE r == RunOf[handler[h].cmd]
  <2>1. r \in Runs /\ Starts(h, r) /\ phase = "up"
    BY <1>4, CommandAssumption DEF AbortStart, At, Ownership, HandlerKind, Starts
  <2>2. exec[r].pc = "none"
    BY <2>1 DEF Ownership, OneOwner
  <2>3. exec' = exec /\ \A s \in Runs : s # r => ctx'[s] = ctx[s]
    BY <1>4 DEF AbortStart, Delete, TypeOK
  <2>4. ~(exec[r].told = TRUE)
    BY <2>1, <2>2 DEF Heard
  <2> QED
    BY <1>1, <2>3, <2>4, HeardFrame
<1>5. CASE CancelRun(h)
  <2>1. exec' = exec /\ \A s \in Runs : ctx[s] = "canceled" => ctx'[s] = "canceled"
    BY <1>5 DEF CancelRun, TypeOK
  <2> QED
    BY <1>1, <2>1, HeardFrame
<1>6. CASE Launch(h)
  <2>1. \A r \in Runs : exec'[r] = exec[r] \/ exec'[r].told = FALSE
    BY <1>6 DEF Launch, Fresh, TypeOK
  <2>2. ctx' = ctx
    BY <1>6 DEF Launch
  <2> QED
    BY <1>1, <2>1, <2>2 DEF Heard
<1> QED
  BY <1>2, <1>3, <1>4, <1>5, <1>6
  DEF HandlerStep, CachedAck, StoredAckHit, StoredAckMiss, RejectUnknown, RejectStart,
      StartedInsert, StartedProject, RejectStop, MarkStopping, StopRuntime, Remember, SaveAck

LEMMA HeardExec ==
  ASSUME TypeOK, Told, Heard, NEW r \in Runs, ExecStep(r)
  PROVE  Heard'
<1> DEFINE x == exec[r]
           y == exec'[r]
<1>1. /\ x \in Goroutines /\ exec \in [Runs -> Goroutines]
      /\ phase = "up" /\ phase' = phase /\ x.pc # "none"
      /\ \A s \in Runs : s # r => exec'[s] = exec[s]
  BY ExecKeeps DEF TypeOK
<1>2. \A s \in Runs : s # r => ctx'[s] = ctx[s]
  BY DEF ExecStep, Begin, RuntimeReturns, AskDeadline, AskCanceled, AskStopping, AskAgain,
         FinalInsert, FinalProject, RemoveRun, Delete, TypeOK
<1>3. SUFFICES ASSUME y.told = TRUE
               PROVE  /\ ctx'[r] = "canceled"
                      /\ \/ y.pc \in {"canceled", "stopping"}
                         \/ y.pc \in {"insert", "project", "remove"} /\ y.kind = "run.stopped"
  BY <1>1, <1>2 DEF Heard
<1>4. ~RemoveRun(r)
  <2>1. RemoveRun(r) => y = Gone
    BY <1>1 DEF RemoveRun
  <2> QED
    BY <1>3, <2>1 DEF Gone
<1>5. ctx' = ctx
  BY <1>4 DEF ExecStep, Begin, RuntimeReturns, AskDeadline, AskCanceled, AskStopping, AskAgain,
              FinalInsert, FinalProject
<1>6. CASE AskDeadline(r)
  <2>1. /\ y.pc = IF ctx[r] = "deadline" THEN "insert" ELSE "canceled"
        /\ y.told = (ctx[r] = "canceled")
    <3>1. y = [x EXCEPT !.pc = IF ctx[r] = "deadline" THEN "insert" ELSE "canceled",
                        !.kind = IF ctx[r] = "deadline" THEN "run.error" ELSE x.kind,
                        !.told = (ctx[r] = "canceled")]
      BY <1>1, <1>6 DEF AskDeadline
    <3> HIDE DEF x, y
    <3> QED
      BY <1>1, <3>1 DEF Goroutines
  <2>2. ctx[r] = "canceled"
    BY <1>3, <2>1
  <2> QED
    BY <1>5, <2>1, <2>2
<1>7. CASE ~AskDeadline(r)
  <2>1. /\ y.told = x.told
        /\ \/ Begin(r) /\ y.pc = "work"
           \/ RuntimeReturns(r) /\ y.pc = "deadline"
           \/ /\ AskCanceled(r)
              /\ y.pc = IF ctx[r] = "canceled" THEN "stopping" ELSE "again"
              /\ y.kind = x.kind
           \/ /\ AskStopping(r)
              /\ IF entry[r] # NoEntry /\ entry[r].stopping
                 THEN y.pc = "insert" /\ y.kind = "run.stopped" ELSE y.pc = "again"
           \/ AskAgain(r)
           \/ FinalInsert(r) /\ y.pc \in {"project", "remove"} /\ y.kind = x.kind
           \/ FinalProject(r) /\ y.pc = "remove" /\ y.kind = x.kind
    <3> DEFINE Outcome ==
          \/ Begin(r) /\ y = [x EXCEPT !.pc = "work"]
          \/ RuntimeReturns(r) /\ \E kind : y = [x EXCEPT !.pc = "deadline", !.kind = kind]
          \/ /\ AskCanceled(r)
             /\ y = [x EXCEPT !.pc = IF ctx[r] = "canceled" THEN "stopping" ELSE "again"]
          \/ /\ AskStopping(r)
             /\ IF entry[r] # NoEntry /\ entry[r].stopping
                THEN y = [x EXCEPT !.pc = "insert", !.kind = "run.stopped"]
                ELSE y = [x EXCEPT !.pc = "again"]
          \/ AskAgain(r) /\ \E kind : y = [x EXCEPT !.pc = "insert", !.kind = kind]
          \/ FinalInsert(r) /\ \E pc \in {"project", "remove"} : y = [x EXCEPT !.pc = pc]
          \/ FinalProject(r) /\ y = [x EXCEPT !.pc = "remove"]
    <3>1. Outcome
      <4>1. CASE Begin(r)
        BY <1>1, <4>1 DEF Begin
      <4>2. CASE RuntimeReturns(r)
        BY <1>1, <4>2 DEF RuntimeReturns
      <4>3. CASE AskCanceled(r)
        BY <1>1, <4>3 DEF AskCanceled, AskNext
      <4>4. CASE AskStopping(r)
        BY <1>1, <4>4 DEF AskStopping, EndAs, AskNext
      <4>5. CASE AskAgain(r)
        <5>1. \E kind : exec' = [exec EXCEPT ![r].pc = "insert", ![r].kind = kind]
          BY <4>5 DEF AskAgain, EndAs
        <5> QED
          BY <1>1, <4>5, <5>1
      <4>6. CASE FinalInsert(r)
        BY <1>1, <4>6 DEF FinalInsert
      <4>7. CASE FinalProject(r)
        BY <1>1, <4>7 DEF FinalProject
      <4> QED
        BY <1>4, <1>7, <4>1, <4>2, <4>3, <4>4, <4>5, <4>6, <4>7 DEF ExecStep
    <3> HIDE DEF x, y
    <3> QED
      BY <1>1, <3>1 DEF Goroutines
  <2>2. /\ ctx[r] = "canceled"
        /\ \/ x.pc \in {"canceled", "stopping"}
           \/ x.pc \in {"insert", "project", "remove"} /\ x.kind = "run.stopped"
    BY <1>3, <2>1 DEF Heard
  <2>3. entry[r] # NoEntry /\ entry[r].stopping
    BY <2>2 DEF Told, ToStop
  <2> HIDE DEF x, y
  <2>4. /\ Begin(r) => x.pc = "begin"
        /\ RuntimeReturns(r) => x.pc = "work"
        /\ AskAgain(r) => x.pc = "again"
        /\ FinalInsert(r) => x.pc = "insert"
        /\ FinalProject(r) => x.pc = "project"
    BY DEF Begin, RuntimeReturns, AskAgain, FinalInsert, FinalProject, Running, x
  <2> QED
    BY <1>5, <2>1, <2>2, <2>3, <2>4
<1> QED
  BY <1>6, <1>7

LEMMA HeardStep == Base /\ Told /\ Heard /\ [Next]_vars => Heard'
<1>1. SUFFICES ASSUME TypeOK, Ownership, Told, Heard, [Next]_vars PROVE Heard'
  BY DEF Base
<1>2. CASE UNCHANGED <<phase, exec, ctx>>
  BY <1>1, <1>2, HeardFrame
<1>3. ASSUME NEW r \in Runs, DeadlinePasses(r)
      PROVE  Heard'
  <2>1. /\ phase' = phase /\ exec' = exec
        /\ \A s \in Runs : ctx[s] = "canceled" => ctx'[s] = "canceled"
    BY <1>1, <1>3 DEF DeadlinePasses, TypeOK
  <2> QED
    BY <1>1, <2>1, HeardFrame
<1>4. ASSUME NEW r \in Runs, ReconcileInsert(r) \/ ReconcileProject(r)
      PROVE  Heard'
  <2>1. phase = "boot" /\ \E pc : exec' = [exec EXCEPT ![r].pc = pc]
    BY <1>4 DEF ReconcileInsert, ReconcileProject
  <2>2. \A s \in Runs : exec'[s].told = exec[s].told
    BY <1>1, <2>1 DEF TypeOK, Goroutines
  <2> QED
    BY <1>1, <2>1, <2>2 DEF Heard
<1>5. CASE Crash \/ Booted
  BY <1>5 DEF Crash, Booted, Gone, Heard
<1>6. CASE UNCHANGED vars
  BY <1>2, <1>6 DEF vars
<1> QED
  BY <1>1, <1>2, <1>3, <1>4, <1>5, <1>6, HeardHandler, HeardExec
  DEF Next, Connect, Disconnect, Receive, LearnSession

(* A run that stop had cancelled when execute first looked at its context  *)
(* ends in run.stopped: the branch for a run cancelled by nobody is never  *)
(* taken, though the context and the mark are read one after the other.    *)
THEOREM CancelledIsStopped == Spec => []StoppedNotFailed
<1>1. Init => Told /\ Heard
  BY DEF Init, Told, Heard, Idle, Gone
<1>2. Base /\ (Told /\ Heard) /\ [Next]_vars => (Told /\ Heard)'
  BY ToldStep, HeardStep DEF Base
<1>3. Base /\ Told /\ Heard => StoppedNotFailed
  <2>1. SUFFICES ASSUME TypeOK, Heard, NEW r \in Runs, exec[r].told,
                        exec[r].pc \in {"insert", "project", "remove"}
                 PROVE  exec[r].kind = "run.stopped"
    BY DEF Base, StoppedNotFailed
  <2>2. exec[r].told = TRUE
    BY <2>1 DEF TypeOK, Goroutines
  <2> QED
    BY <2>1, <2>2 DEF Heard
<1> QED
  BY <1>1, <1>2, <1>3, BaseInvariant, PTL DEF Spec
=============================================================================
