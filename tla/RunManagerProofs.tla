-------------------------- MODULE RunManagerProofs --------------------------
(* Proofs about RunManager, for every value of its constants: that it is   *)
(* type correct and who owns an active run.                                *)
EXTENDS RunManager, TLAPS

USE DEF memory, durable, history

-----------------------------------------------------------------------------
(* What the helpers do to the type of handler.                             *)

LEMMA GotoType ==
  ASSUME handler \in [Conns -> Handlers], NEW h \in Conns, NEW pc \in HandlerPC,
         Goto(h, pc)
  PROVE  handler' \in [Conns -> Handlers]
BY DEF Goto, Handlers

LEMMA AnswerType ==
  ASSUME handler \in [Conns -> Handlers], NEW h \in Conns, NEW st \in Statuses,
         Answer(h, st)
  PROVE  handler' \in [Conns -> Handlers]
<1>1. "remember" \in HandlerPC
  BY DEF HandlerPC
<1> QED
  BY <1>1 DEF Answer, Handlers

LEMMA IdleType == Idle \in Handlers
BY DEF Idle, Handlers, HandlerPC

LEMMA ReturnType ==
  ASSUME handler \in [Conns -> Handlers], NEW h \in Conns, Return(h)
  PROVE  handler' \in [Conns -> Handlers]
BY IdleType DEF Return

LEMMA ReleasedType ==
  ASSUME handler \in [Conns -> Handlers], NEW r
  PROVE  Released(r) \in [Conns -> Handlers]
BY DEF Released, Handlers

LEMMA GoneType == Gone \in Goroutines
BY DEF Gone, Goroutines, ExecPC, Terminal

LEMMA StatusType == {"ok", "rejected", "duplicate"} \subseteq Statuses
BY DEF Statuses, Rejections

LEMMA KindType == "run.started" \in Kinds /\ "run.error" \in Terminal /\ Terminal \subseteq Kinds
BY DEF Kinds, Terminal

LEMMA RowType ==
  ASSUME NEW old \in RowStatus, NEW kind \in Kinds
  PROVE  Project(old, kind) \in RowStatus
BY DEF Project, StatusOf, RowStatus, Kinds, Terminal

LEMMA AppendType ==
  ASSUME log \in [Runs -> Seq(Kinds)], NEW r, NEW kind \in Kinds
  PROVE  [log EXCEPT ![r] = Append(@, kind)] \in [Runs -> Seq(Kinds)]
<1>1. CASE r \in Runs
  <2>1. Append(log[r], kind) \in Seq(Kinds)
    BY <1>1
  <2> QED
    BY <2>1
<1>2. CASE r \notin Runs
  BY <1>2
<1> QED
  BY <1>1, <1>2

LEMMA RowUpdateType ==
  ASSUME row \in [Runs -> RowStatus], NEW r, NEW kind \in Kinds
  PROVE  [row EXCEPT ![r] = Project(@, kind)] \in [Runs -> RowStatus]
<1>1. CASE r \in Runs
  <2>1. Project(row[r], kind) \in RowStatus
    BY <1>1, RowType
  <2> QED
    BY <2>1
<1>2. CASE r \notin Runs
  BY <1>2
<1> QED
  BY <1>1, <1>2

(* Setting a field of an activeRun keeps it one.                           *)
LEMMA StateType ==
  ASSUME entry \in [Runs -> Entries \cup {NoEntry}], NEW r \in Runs, entry[r] # NoEntry,
         NEW st \in EntryState
  PROVE  [entry EXCEPT ![r].state = st] \in [Runs -> Entries \cup {NoEntry}]
BY DEF Entries

LEMMA StoppingType ==
  ASSUME entry \in [Runs -> Entries \cup {NoEntry}], NEW r \in Runs, entry[r] # NoEntry
  PROVE  [entry EXCEPT ![r].state = "stopping", ![r].stopping = TRUE]
           \in [Runs -> Entries \cup {NoEntry}]
BY DEF Entries, EntryState

LEMMA KilledType ==
  ASSUME entry \in [Runs -> Entries \cup {NoEntry}], NEW r \in Runs, entry[r] # NoEntry
  PROVE  [entry EXCEPT ![r].killed = TRUE] \in [Runs -> Entries \cup {NoEntry}]
BY DEF Entries

LEMMA SessionsType ==
  ASSUME entry \in [Runs -> Entries \cup {NoEntry}], NEW r \in Runs, entry[r] # NoEntry,
         NEW ss \in SUBSET Sessions
  PROVE  [entry EXCEPT ![r].sessions = @ \cup ss] \in [Runs -> Entries \cup {NoEntry}]
BY DEF Entries

LEMMA PcType ==
  ASSUME exec \in [Runs -> Goroutines], NEW r \in Runs, NEW pc \in ExecPC, NEW kind \in Terminal
  PROVE  /\ [exec EXCEPT ![r].pc = pc] \in [Runs -> Goroutines]
         /\ [exec EXCEPT ![r].pc = pc, ![r].kind = kind] \in [Runs -> Goroutines]
BY DEF Goroutines

(* A goroutine works for a start command, and the read loop that launches  *)
(* one has accepted its start.                                             *)
Launched ==
  /\ phase = "up" => \A r \in Runs : exec[r].pc # "none" => exec[r].cmd \in StartCmds
  /\ \A h \in Conns : handler[h].pc = "launch" => Accepted(h)

-----------------------------------------------------------------------------
(* What a step of one read loop leaves alone.                              *)

LEMMA GotoKeeps ==
  ASSUME TypeOK, NEW h \in Conns, NEW pc, Goto(h, pc)
  PROVE  /\ handler'[h].pc = pc
         /\ handler'[h].cmd = handler[h].cmd /\ handler'[h].status = handler[h].status
         /\ \A g \in Conns : g # h => handler'[g] = handler[g]
BY DEF Goto, TypeOK, Handlers

LEMMA AnswerKeeps ==
  ASSUME TypeOK, NEW h \in Conns, NEW st, Answer(h, st)
  PROVE  /\ handler'[h].pc = "remember"
         /\ handler'[h].cmd = handler[h].cmd /\ handler'[h].status = st
         /\ \A g \in Conns : g # h => handler'[g] = handler[g]
BY DEF Answer, TypeOK, Handlers

LEMMA ReturnKeeps ==
  ASSUME TypeOK, NEW h \in Conns, Return(h)
  PROVE  /\ handler'[h] = Idle
         /\ \A g \in Conns : g # h => handler'[g] = handler[g]
BY DEF Return, TypeOK

LEMMA ReleasedKeeps ==
  ASSUME TypeOK, NEW r, NEW g \in Conns
  PROVE  /\ Released(r)[g].pc = handler[g].pc
         /\ Released(r)[g].cmd = handler[g].cmd
         /\ Released(r)[g].status = handler[g].status
BY DEF Released, TypeOK, Handlers

-----------------------------------------------------------------------------
(* Type correctness, action by action.                                     *)

LEMMA TypeInit == Init => TypeOK
<1>1. SUFFICES ASSUME Init PROVE TypeOK
  OBVIOUS
<1>2. "none" \in RowStatus
  BY DEF RowStatus
<1> QED
  BY <1>1, <1>2, IdleType, GoneType DEF Init, TypeOK

LEMMA TypeConnections ==
  ASSUME TypeOK, NEW h \in Conns, Connect(h) \/ Disconnect(h)
  PROVE  TypeOK'
<1>1. CASE Connect(h)
  BY <1>1 DEF TypeOK, Connect
<1>2. CASE Disconnect(h)
  BY <1>2 DEF TypeOK, Disconnect
<1> QED
  BY <1>1, <1>2

LEMMA TypeReceive ==
  ASSUME TypeOK, NEW h \in Conns, NEW c \in Commands, Receive(h, c)
  PROVE  TypeOK'
<1>1. [handler[h] EXCEPT !.pc = "cached", !.cmd = c] \in Handlers
  BY DEF TypeOK, Handlers, HandlerPC
<1>2. handler' = [handler EXCEPT ![h] = [handler[h] EXCEPT !.pc = "cached", !.cmd = c]]
  BY DEF TypeOK, Receive
<1> QED
  BY <1>1, <1>2 DEF TypeOK, Receive

LEMMA TypeHandler ==
  ASSUME TypeOK, Launched, NEW h \in Conns, HandlerStep(h)
  PROVE  TypeOK'
<1>0. handler[h] \in Handlers
  BY DEF TypeOK
<1>1. CASE CachedAck(h)
  BY <1>1, GotoType, ReturnType DEF CachedAck, TypeOK, HandlerPC
<1>2. CASE StoredAckHit(h)
  <2>1. handler' \in [Conns -> Handlers]
    BY <1>2, ReturnType DEF StoredAckHit, TypeOK
  <2>2. commands' \in [Commands -> Statuses \cup {NoAck}]
    BY <1>2 DEF StoredAckHit, TypeOK
  <2> QED
    BY <1>2, <2>1, <2>2 DEF StoredAckHit, TypeOK
<1>3. CASE StoredAckMiss(h)
  <2>1. doubts' \in [StartCmds -> SUBSET Doubts]
    BY <1>3 DEF StoredAckMiss, Doubt, Doubts, TypeOK
  <2> QED
    BY <1>3, <2>1, GotoType DEF StoredAckMiss, TypeOK, HandlerPC
<1>4. CASE RejectUnknown(h)
  BY <1>4, AnswerType, StatusType DEF RejectUnknown, TypeOK
<1>5. CASE RejectStart(h)
  BY <1>5, AnswerType, StatusType DEF RejectStart, TypeOK
<1>6. CASE Admit(h)
  <2>1. handler' \in [Conns -> Handlers]
    BY <1>6, GotoType DEF Admit, TypeOK, HandlerPC
  <2>2. handler[h].cmd \in StartCmds /\ RunOf[handler[h].cmd] \in Runs
    BY <1>6, CommandAssumption DEF Admit
  <2>3. Aliases(SessionOf[handler[h].cmd]) \subseteq Sessions
    BY <2>2, CommandAssumption DEF Aliases
  <2>4. [cmd |-> handler[h].cmd, state |-> "starting", stopping |-> FALSE,
         sessions |-> Aliases(SessionOf[handler[h].cmd]), killed |-> FALSE] \in Entries
    BY <2>2, <2>3 DEF Entries, EntryState
  <2> QED
    BY <1>6, <2>1, <2>2, <2>4 DEF Admit, TypeOK
<1>7. CASE StartedInsert(h)
  <2>1. handler' \in [Conns -> Handlers]
    BY <1>7, GotoType DEF StartedInsert, TypeOK, HandlerPC
  <2>2. log' \in [Runs -> Seq(Kinds)]
    <3>1. [log EXCEPT ![RunOf[handler[h].cmd]] = Append(@, "run.started")] \in [Runs -> Seq(Kinds)]
      BY KindType, AppendType DEF TypeOK
    <3> QED
      BY <1>7, <3>1 DEF StartedInsert, TypeOK
  <2> QED
    BY <1>7, <2>1, <2>2 DEF StartedInsert, TypeOK
<1>8. CASE StartedProject(h)
  <2>1. handler' \in [Conns -> Handlers]
    BY <1>8, GotoType, AnswerType, StatusType DEF StartedProject, TypeOK, HandlerPC
  <2>2. row' \in [Runs -> RowStatus]
    <3>1. [row EXCEPT ![RunOf[handler[h].cmd]] = Project(@, "run.started")] \in [Runs -> RowStatus]
      BY KindType, RowUpdateType DEF TypeOK
    <3> QED
      BY <1>8, <3>1 DEF StartedProject, TypeOK
  <2> QED
    BY <1>8, <2>1, <2>2 DEF StartedProject, TypeOK
<1>9. CASE AbortStart(h)
  <2> DEFINE other == Released(RunOf[handler[h].cmd])
  <2>1. other \in [Conns -> Handlers]
    BY ReleasedType DEF TypeOK
  <2>2. [other[h] EXCEPT !.pc = "remember", !.status = "rejected"] \in Handlers
    BY <2>1, StatusType DEF Handlers, HandlerPC
  <2>3. handler' = [other EXCEPT ![h] = [other[h] EXCEPT !.pc = "remember", !.status = "rejected"]]
    BY <1>9, <2>1 DEF AbortStart
  <2>4. handler' \in [Conns -> Handlers]
    BY <2>1, <2>2, <2>3
  <2> QED
    BY <1>9, <2>4 DEF AbortStart, Delete, TypeOK
<1>10. CASE RejectStop(h)
  BY <1>10, AnswerType, StatusType DEF RejectStop, TypeOK
<1>11. CASE MarkStopping(h)
  <2>1. PICK r \in StopTargets(handler[h].cmd) :
          /\ entry' = [entry EXCEPT ![r].state = "stopping", ![r].stopping = TRUE]
          /\ handler' = [handler EXCEPT ![h].pc = "kill", ![h].run = r, ![h].held = TRUE]
    BY <1>11 DEF MarkStopping
  <2>2. handler[h].cmd \in Commands
    BY <1>11, CommandAssumption DEF MarkStopping
  <2>3. r \in Runs /\ entry[r] # NoEntry
    BY <2>1, <2>2, CommandAssumption DEF StopTargets, Active
  <2>4. [handler[h] EXCEPT !.pc = "kill", !.run = r, !.held = TRUE] \in Handlers
    BY <1>0, <2>3 DEF Handlers, HandlerPC
  <2>5. handler' = [handler EXCEPT ![h] = [handler[h] EXCEPT !.pc = "kill", !.run = r, !.held = TRUE]]
    BY <2>1 DEF TypeOK
  <2>6. entry' \in [Runs -> Entries \cup {NoEntry}]
    BY <2>1, <2>3, StoppingType DEF TypeOK
  <2> QED
    BY <1>11, <2>4, <2>5, <2>6 DEF MarkStopping, TypeOK
<1>12. CASE StopRuntime(h)
  <2>1. handler' \in [Conns -> Handlers]
    BY <1>12, GotoType DEF StopRuntime, TypeOK, HandlerPC
  <2>2. entry' \in [Runs -> Entries \cup {NoEntry}]
    <3>1. CASE UNCHANGED entry
      BY <3>1 DEF TypeOK
    <3>2. CASE /\ entry[handler[h].run] # NoEntry
               /\ entry' = [entry EXCEPT ![handler[h].run].killed = TRUE]
      BY <3>2, KilledType DEF TypeOK
    <3> QED
      BY <1>12, <3>1, <3>2 DEF StopRuntime
  <2> QED
    BY <1>12, <2>1, <2>2 DEF StopRuntime, TypeOK
<1>13. CASE CancelRun(h)
  <2>1. [Idle EXCEPT !.pc = "remember", !.cmd = handler[h].cmd, !.status = "ok"] \in Handlers
    BY <1>0, IdleType, StatusType DEF Handlers, HandlerPC
  <2>2. ctx' \in [Runs -> {"live", "canceled", "deadline"}]
    BY <1>13 DEF CancelRun, TypeOK
  <2> QED
    BY <1>13, <2>1, <2>2 DEF CancelRun, TypeOK
<1>14. CASE Remember(h)
  <2>1. handler' \in [Conns -> Handlers]
    BY <1>14, GotoType DEF Remember, TypeOK, HandlerPC
  <2>2. commands' \in [Commands -> Statuses \cup {NoAck}]
    BY <1>0, <1>14 DEF Remember, TypeOK, Handlers
  <2> QED
    BY <1>14, <2>1, <2>2 DEF Remember, TypeOK
<1>15. CASE SaveAck(h)
  <2>1. handler' \in [Conns -> Handlers]
    BY <1>15, ReturnType, GotoType DEF SaveAck, TypeOK, HandlerPC
  <2>2. ackDb' \in [Commands -> Statuses \cup {NoAck}]
    BY <1>0, <1>15 DEF SaveAck, TypeOK, Handlers
  <2>3. doubts' \in [StartCmds -> SUBSET Doubts]
    <3>1. PICK why \in SUBSET Doubts : Doubt(handler[h].cmd, why)
      BY <1>15 DEF SaveAck, Doubts
    <3> QED
      BY <3>1 DEF Doubt, TypeOK
  <2> QED
    BY <1>15, <2>1, <2>2, <2>3 DEF SaveAck, TypeOK
<1>16. CASE Launch(h)
  <2>1. handler[h].cmd \in StartCmds
    BY <1>16 DEF Launch, At, Launched, Accepted
  <2>2. handler' \in [Conns -> Handlers]
    BY <1>16, ReturnType DEF Launch, TypeOK
  <2>3. Fresh(handler[h].cmd) \in Goroutines
    BY <2>1 DEF Fresh, Goroutines, ExecPC, Terminal
  <2>4. exec' \in [Runs -> Goroutines]
    BY <1>16, <2>3 DEF Launch, TypeOK
  <2>5. launches' \in [StartCmds -> Nat]
    BY <1>16, <2>1 DEF Launch, TypeOK
  <2> QED
    BY <1>16, <2>2, <2>4, <2>5 DEF Launch, TypeOK
<1> QED
  BY <1>1, <1>2, <1>3, <1>4, <1>5, <1>6, <1>7, <1>8, <1>9, <1>10, <1>11, <1>12,
     <1>13, <1>14, <1>15, <1>16 DEF HandlerStep

LEMMA TypeExec ==
  ASSUME TypeOK, Launched, NEW r \in Runs, ExecStep(r) \/ LearnSession(r) \/ DeadlinePasses(r)
  PROVE  TypeOK'
<1>0. exec[r] \in Goroutines
  BY DEF TypeOK
<1>1. CASE Begin(r)
  <2>1. exec' \in [Runs -> Goroutines]
    BY <1>1, PcType DEF Begin, TypeOK, ExecPC, Terminal
  <2>2. entry' \in [Runs -> Entries \cup {NoEntry}]
    BY <1>1, StateType DEF Begin, TypeOK, EntryState
  <2> QED
    BY <1>1, <2>1, <2>2 DEF Begin, TypeOK
<1>2. CASE LearnSession(r)
  <2>1. entry[r] # NoEntry /\ entry[r] \in Entries
    BY <1>2 DEF LearnSession, TypeOK
  <2>2. {NativeOf[exec[r].cmd]} \cup Aliases(SessionOf[exec[r].cmd])
          \subseteq Sessions
    <3>1. exec[r].cmd \in StartCmds
      BY <1>2 DEF LearnSession, Running, Launched
    <3> QED
      BY <2>1, <3>1, CommandAssumption DEF Aliases, Entries
  <2>3. entry' \in [Runs -> Entries \cup {NoEntry}]
    BY <1>2, <2>1, <2>2, SessionsType DEF LearnSession, TypeOK
  <2> QED
    BY <1>2, <2>3 DEF LearnSession, TypeOK
<1>3. CASE DeadlinePasses(r)
  BY <1>3 DEF DeadlinePasses, TypeOK
<1>4. CASE RuntimeReturns(r)
  <2>1. exec' \in [Runs -> Goroutines]
    <3>1. PICK kind \in {"run.error", "run.done"} :
            exec' = [exec EXCEPT ![r].pc = "deadline", ![r].kind = kind]
      BY <1>4 DEF RuntimeReturns
    <3> QED
      BY <3>1, PcType DEF TypeOK, ExecPC, Terminal
  <2> QED
    BY <1>4, <2>1 DEF RuntimeReturns, TypeOK
<1>5. CASE AskDeadline(r)
  <2>1. exec' \in [Runs -> Goroutines]
    BY <1>0, <1>5 DEF AskDeadline, TypeOK, Goroutines, ExecPC, Terminal
  <2> QED
    BY <1>5, <2>1 DEF AskDeadline, TypeOK
<1>9. CASE AskCanceled(r) \/ AskStopping(r) \/ AskAgain(r)
  <2>1. PICK pc \in ExecPC, kind \in Terminal :
          exec' = [exec EXCEPT ![r].pc = pc, ![r].kind = kind] \/ exec' = [exec EXCEPT ![r].pc = pc]
    BY <1>0, <1>9
    DEF AskCanceled, AskStopping, AskAgain, EndAs, AskNext, ExecPC, Terminal, Goroutines
  <2>2. exec' \in [Runs -> Goroutines]
    <3>1. /\ [exec EXCEPT ![r].pc = pc] \in [Runs -> Goroutines]
          /\ [exec EXCEPT ![r].pc = pc, ![r].kind = kind] \in [Runs -> Goroutines]
      BY PcType DEF TypeOK
    <3> QED
      BY <2>1, <3>1
  <2> QED
    BY <1>9, <2>2 DEF AskCanceled, AskStopping, AskAgain, TypeOK
<1>6. CASE FinalInsert(r)
  <2>1. exec' \in [Runs -> Goroutines]
    <3>1. PICK pc \in {"project", "remove"} : exec' = [exec EXCEPT ![r].pc = pc]
      BY <1>6 DEF FinalInsert
    <3> QED
      BY <3>1, PcType DEF TypeOK, ExecPC, Terminal
  <2>2. exec[r].kind \in Kinds
    BY <1>0, KindType DEF Goroutines
  <2>3. log' \in [Runs -> Seq(Kinds)]
    <3>1. [log EXCEPT ![r] = Append(@, exec[r].kind)] \in [Runs -> Seq(Kinds)]
      BY <2>2, AppendType DEF TypeOK
    <3> QED
      BY <1>6, <3>1 DEF FinalInsert, TypeOK
  <2> QED
    BY <1>6, <2>1, <2>3 DEF FinalInsert, TypeOK
<1>7. CASE FinalProject(r)
  <2>1. exec' \in [Runs -> Goroutines]
    BY <1>7, PcType DEF FinalProject, TypeOK, ExecPC, Terminal
  <2>2. exec[r].kind \in Kinds
    BY <1>0, KindType DEF Goroutines
  <2>3. row' \in [Runs -> RowStatus]
    <3>1. [row EXCEPT ![r] = Project(@, exec[r].kind)] \in [Runs -> RowStatus]
      BY <2>2, RowUpdateType DEF TypeOK
    <3> QED
      BY <1>7, <3>1 DEF FinalProject, TypeOK
  <2> QED
    BY <1>7, <2>1, <2>3 DEF FinalProject, TypeOK
<1>8. CASE RemoveRun(r)
  BY <1>8, ReleasedType, GoneType DEF RemoveRun, Delete, TypeOK
<1> QED
  BY <1>1, <1>2, <1>3, <1>4, <1>5, <1>6, <1>7, <1>8, <1>9 DEF ExecStep

LEMMA TypeProcess ==
  ASSUME TypeOK, Crash \/ Booted
  PROVE  TypeOK'
BY IdleType, GoneType DEF Crash, Booted, TypeOK

LEMMA TypeReconcile ==
  ASSUME TypeOK, NEW r \in Runs, ReconcileInsert(r) \/ ReconcileProject(r)
  PROVE  TypeOK'
<1>3. CASE ReconcileInsert(r)
  <2>1. exec' \in [Runs -> Goroutines]
    BY <1>3, PcType, KindType DEF ReconcileInsert, TypeOK, ExecPC
  <2>2. log' \in [Runs -> Seq(Kinds)]
    BY <1>3, KindType, AppendType DEF ReconcileInsert, TypeOK
  <2> QED
    BY <1>3, <2>1, <2>2 DEF ReconcileInsert, TypeOK
<1>4. CASE ReconcileProject(r)
  <2>1. exec' \in [Runs -> Goroutines]
    BY <1>4, PcType, KindType DEF ReconcileProject, TypeOK, ExecPC
  <2>2. row' \in [Runs -> RowStatus]
    BY <1>4, KindType, RowUpdateType DEF ReconcileProject, TypeOK
  <2> QED
    BY <1>4, <2>1, <2>2 DEF ReconcileProject, TypeOK
<1> QED
  BY <1>3, <1>4

(* A goroutine keeps its command until it is gone.                         *)
LEMMA ExecKeeps ==
  ASSUME TypeOK, NEW r \in Runs, ExecStep(r)
  PROVE  /\ phase = "up" /\ phase' = phase /\ exec[r].pc # "none"
         /\ \A s \in Runs : s # r => exec'[s] = exec[s]
         /\ exec'[r] = Gone \/ exec'[r].cmd = exec[r].cmd
         /\ ~RemoveRun(r) => exec'[r].pc # "none" /\ exec'[r].cmd = exec[r].cmd
<1>1. /\ phase = "up" /\ phase' = phase /\ exec[r].pc # "none"
  BY DEF ExecStep, Begin, RuntimeReturns, AskDeadline, AskCanceled, AskStopping, AskAgain,
         FinalInsert, FinalProject, RemoveRun, Running
<1>2. exec[r] \in Goroutines /\ exec \in [Runs -> Goroutines]
  BY DEF TypeOK
<1>3. CASE RemoveRun(r)
  <2>1. exec' = [exec EXCEPT ![r] = Gone]
    BY <1>3 DEF RemoveRun
  <2> QED
    BY <1>1, <1>2, <1>3, <2>1
<1>4. CASE Begin(r) \/ FinalInsert(r) \/ FinalProject(r)
  <2>1. PICK pc \in ExecPC \ {"none"} : exec' = [exec EXCEPT ![r].pc = pc]
    BY <1>4 DEF Begin, FinalInsert, FinalProject, ExecPC
  <2> QED
    BY <1>1, <1>2, <2>1 DEF Goroutines
<1>5. CASE RuntimeReturns(r)
  <2>1. PICK kind : exec' = [exec EXCEPT ![r].pc = "deadline", ![r].kind = kind]
    BY <1>5 DEF RuntimeReturns
  <2> QED
    BY <1>1, <1>2, <2>1 DEF Goroutines
<1>6. CASE AskDeadline(r)
  <2>1. PICK pc \in ExecPC \ {"none"} : \E kind, told :
          exec' = [exec EXCEPT ![r].pc = pc, ![r].kind = kind, ![r].told = told]
    BY <1>2, <1>6 DEF AskDeadline, ExecPC, Goroutines
  <2> QED
    BY <1>1, <1>2, <2>1 DEF Goroutines
<1>7. CASE AskCanceled(r) \/ AskStopping(r) \/ AskAgain(r)
  <2>1. PICK pc \in ExecPC \ {"none"} :
          \/ exec' = [exec EXCEPT ![r].pc = pc]
          \/ \E kind : exec' = [exec EXCEPT ![r].pc = pc, ![r].kind = kind]
    BY <1>7 DEF AskCanceled, AskStopping, AskAgain, EndAs, AskNext, ExecPC
  <2> QED
    BY <1>1, <1>2, <2>1 DEF Goroutines
<1> QED
  BY <1>3, <1>4, <1>5, <1>6, <1>7 DEF ExecStep

(* Only SaveAck, of an accepted start, sends a read loop on to launch it.  *)
LEMMA LaunchNext ==
  ASSUME TypeOK, NEW h \in Conns, HandlerStep(h)
  PROVE  \A g \in Conns : handler'[g].pc = "launch" =>
           \/ g # h /\ handler[g].pc = "launch"
              /\ handler'[g].cmd = handler[g].cmd /\ handler'[g].status = handler[g].status
           \/ g = h /\ SaveAck(h) /\ Accepted(h)
              /\ handler'[h].cmd = handler[h].cmd /\ handler'[h].status = handler[h].status
<1>1. CASE \/ CachedAck(h) \/ StoredAckHit(h) \/ StoredAckMiss(h) \/ RejectUnknown(h)
           \/ RejectStart(h) \/ RejectStop(h) \/ Admit(h) \/ StartedInsert(h)
           \/ StartedProject(h) \/ StopRuntime(h) \/ Remember(h) \/ Launch(h)
  <2>1. /\ \A g \in Conns : g # h => handler'[g] = handler[g]
        /\ handler'[h].pc # "launch"
    BY <1>1, GotoKeeps, AnswerKeeps, ReturnKeeps
    DEF CachedAck, StoredAckHit, StoredAckMiss, RejectUnknown, RejectStart, RejectStop, Admit,
        StartedInsert, StartedProject, StopRuntime, Remember, Launch, Idle
  <2> QED
    BY <2>1
<1>2. CASE AbortStart(h)
  <2> DEFINE kept == Released(RunOf[handler[h].cmd])
  <2>1. kept \in [Conns -> Handlers]
    BY ReleasedType DEF TypeOK
  <2>2. handler' = [kept EXCEPT ![h] = [kept[h] EXCEPT !.pc = "remember", !.status = "rejected"]]
    BY <1>2, <2>1 DEF AbortStart
  <2>3. handler'[h] = [kept[h] EXCEPT !.pc = "remember", !.status = "rejected"]
    BY <2>1, <2>2
  <2>4. handler'[h].pc = "remember"
    BY <2>1, <2>3 DEF Handlers
  <2>5. \A g \in Conns : g # h => handler'[g] = kept[g]
    BY <2>1, <2>2
  <2> QED
    BY <2>4, <2>5, ReleasedKeeps
<1>3. CASE MarkStopping(h)
  <2>1. PICK r : handler' = [handler EXCEPT ![h] =
                   [handler[h] EXCEPT !.pc = "kill", !.run = r, !.held = TRUE]]
    BY <1>3 DEF MarkStopping, TypeOK
  <2>2. handler'[h] = [handler[h] EXCEPT !.pc = "kill", !.run = r, !.held = TRUE]
    BY <2>1 DEF TypeOK
  <2>3. handler'[h].pc = "kill"
    BY <2>2 DEF TypeOK, Handlers
  <2> QED
    BY <2>1, <2>3 DEF TypeOK
<1>4. CASE CancelRun(h)
  <2>1. handler' = [handler EXCEPT ![h] = [Idle EXCEPT !.pc = "remember",
                                            !.cmd = handler[h].cmd, !.status = "ok"]]
    BY <1>4 DEF CancelRun
  <2>2. handler'[h] = [Idle EXCEPT !.pc = "remember", !.cmd = handler[h].cmd, !.status = "ok"]
    BY <2>1 DEF TypeOK
  <2>3. handler'[h].pc = "remember"
    BY <2>2 DEF Idle
  <2> QED
    BY <2>1, <2>3 DEF TypeOK
<1>5. CASE SaveAck(h)
  BY <1>5, GotoKeeps, ReturnKeeps DEF SaveAck, Idle
<1> QED
  BY <1>1, <1>2, <1>3, <1>4, <1>5 DEF HandlerStep

LEMMA LaunchedStep == TypeOK /\ Launched /\ [Next]_vars => Launched'
<1>1. SUFFICES ASSUME TypeOK, Launched, [Next]_vars PROVE Launched'
  OBVIOUS
<1>2. ASSUME NEW h \in Conns, HandlerStep(h)
      PROVE  Launched'
  <2>1. \A g \in Conns : handler'[g].pc = "launch" => Accepted(g)'
    BY <1>1, <1>2, LaunchNext DEF Launched, Accepted
  <2>2. CASE Launch(h)
    <3> DEFINE c == handler[h].cmd
    <3>1. c \in StartCmds /\ phase = "up" /\ phase' = phase
      BY <1>1, <2>2 DEF Launch, At, Launched, Accepted
    <3>2. \A r \in Runs : exec'[r].cmd = c \/ exec'[r] = exec[r]
      BY <1>1, <2>2 DEF Launch, Fresh, TypeOK
    <3> QED
      BY <1>1, <2>1, <3>1, <3>2 DEF Launched
  <2>3. CASE UNCHANGED <<phase, exec>>
    BY <1>1, <2>1, <2>3 DEF Launched
  <2> QED
    BY <1>2, <2>2, <2>3
    DEF HandlerStep, CachedAck, StoredAckHit, StoredAckMiss, RejectUnknown, RejectStart, Admit,
        StartedInsert, StartedProject, AbortStart, RejectStop, MarkStopping, StopRuntime,
        CancelRun, Remember, SaveAck
<1>3. ASSUME NEW r \in Runs, ExecStep(r)
      PROVE  Launched'
  <2>1. \A g \in Conns : /\ handler'[g].pc = handler[g].pc
                         /\ handler'[g].cmd = handler[g].cmd
                         /\ handler'[g].status = handler[g].status
    BY <1>1, <1>3, ReleasedKeeps
    DEF ExecStep, Begin, RuntimeReturns, AskDeadline, AskCanceled, AskStopping, AskAgain,
        FinalInsert, FinalProject, RemoveRun
  <2> QED
    BY <1>1, <1>3, <2>1, ExecKeeps DEF Launched, Accepted, Gone
<1>4. ASSUME NEW r \in Runs, LearnSession(r) \/ DeadlinePasses(r)
      PROVE  Launched'
  BY <1>1, <1>4 DEF Launched, Accepted, LearnSession, DeadlinePasses
<1>5. ASSUME NEW h \in Conns,
             Connect(h) \/ Disconnect(h) \/ \E c \in Commands : Receive(h, c)
      PROVE  Launched'
  <2>1. ASSUME NEW c \in Commands, Receive(h, c)
        PROVE  Launched'
    <3>1. handler' = [handler EXCEPT ![h] = [handler[h] EXCEPT !.pc = "cached", !.cmd = c]]
      BY <1>1, <2>1 DEF Receive, TypeOK
    <3>2. handler'[h] = [handler[h] EXCEPT !.pc = "cached", !.cmd = c]
      BY <1>1, <3>1 DEF TypeOK
    <3>3. handler'[h].pc = "cached"
      BY <1>1, <3>2 DEF TypeOK, Handlers
    <3> QED
      BY <1>1, <2>1, <3>1, <3>3 DEF Launched, Accepted, Receive, TypeOK
  <2> QED
    BY <1>1, <1>5, <2>1 DEF Launched, Accepted, Connect, Disconnect
<1>6. ASSUME Crash \/ Booted \/ \E r \in Runs : ReconcileInsert(r) \/ ReconcileProject(r)
      PROVE  Launched'
  BY <1>1, <1>6
  DEF Launched, Accepted, ReconcileInsert, ReconcileProject, Crash, Booted, Gone, Idle
<1>7. CASE UNCHANGED vars
  BY <1>1, <1>7 DEF vars, Launched, Accepted
<1> QED
  BY <1>1, <1>2, <1>3, <1>4, <1>5, <1>6, <1>7 DEF Next

LEMMA TypeStep == TypeOK /\ Launched /\ [Next]_vars => TypeOK'
<1>1. SUFFICES ASSUME TypeOK, Launched, [Next]_vars PROVE TypeOK'
  OBVIOUS
<1>2. CASE Next
  BY <1>1, <1>2, TypeConnections, TypeReceive, TypeHandler, TypeExec, TypeProcess, TypeReconcile DEF Next
<1>3. CASE UNCHANGED vars
  BY <1>1, <1>3 DEF vars, TypeOK
<1> QED
  BY <1>1, <1>2, <1>3

(* Every variable keeps its type, whatever the number of runs, commands,   *)
(* read loops and crashes.                                                 *)
THEOREM TypeCorrect == Spec => []TypeOK
<1>1. Init => TypeOK /\ Launched
  BY TypeInit DEF Init, Launched, Gone, Idle
<1>2. TypeOK /\ Launched /\ [Next]_vars => (TypeOK /\ Launched)'
  BY TypeStep, LaunchedStep
<1> QED
  BY <1>1, <1>2, PTL DEF Spec

-----------------------------------------------------------------------------
(* Who owns an active run: OneOwner for every value of the constants.      *)

(* Read loops that are starting a run hold a start command; those that     *)
(* stop one hold a stop command, so their "ok" is not the ack of a start.  *)
HandlerKind ==
  \A h \in Conns :
    /\ handler[h].pc \in {"insert", "project", "abort"} => handler[h].cmd \in StartCmds
    /\ handler[h].pc \in {"kill", "cancel"} => handler[h].cmd \in StopCmds

(* Nothing survives the process: while it boots no run is active and no    *)
(* read loop handles a command.                                            *)
BootEmpty ==
  phase = "boot" => /\ \A r \in Runs : entry[r] = NoEntry
                    /\ \A h \in Conns : handler[h] = Idle

Ownership == OneOwner /\ HandlerKind /\ BootEmpty

-----------------------------------------------------------------------------
(* What OneOwner depends on.                                               *)

(* OneOwner depends only on who starts which run, on which runs are active *)
(* for which command, and on which goroutines exist.                       *)
LEMMA OwnerFrame ==
  ASSUME OneOwner, phase' = phase,
         \A r \in Runs : /\ entry'[r] = NoEntry <=> entry[r] = NoEntry
                         /\ entry[r] # NoEntry => entry'[r].cmd = entry[r].cmd
                         /\ exec'[r].pc = "none" <=> exec[r].pc = "none"
                         /\ exec'[r].cmd = exec[r].cmd,
         \A h \in Conns : \A r \in Runs :
           /\ Starts(h, r)' <=> Starts(h, r)
           /\ Starts(h, r) => handler'[h].cmd = handler[h].cmd
  PROVE  OneOwner'
BY DEF OneOwner

(* A step of read loop h that does not change what h starts.               *)
LEMMA HandlerFrame ==
  ASSUME OneOwner, phase' = phase, NEW h \in Conns,
         \A g \in Conns : g # h => handler'[g] = handler[g],
         \A r \in Runs : /\ Starts(h, r)' <=> Starts(h, r)
                         /\ Starts(h, r) => handler'[h].cmd = handler[h].cmd,
         \A r \in Runs : /\ entry'[r] = NoEntry <=> entry[r] = NoEntry
                         /\ entry[r] # NoEntry => entry'[r].cmd = entry[r].cmd,
         exec' = exec
  PROVE  OneOwner'
<1>1. \A g \in Conns : \A r \in Runs : /\ Starts(g, r)' <=> Starts(g, r)
                                      /\ Starts(g, r) => handler'[g].cmd = handler[g].cmd
  BY DEF Starts
<1>2. \A r \in Runs : /\ entry'[r] = NoEntry <=> entry[r] = NoEntry
                      /\ entry[r] # NoEntry => entry'[r].cmd = entry[r].cmd
                      /\ exec'[r].pc = "none" <=> exec[r].pc = "none"
                      /\ exec'[r].cmd = exec[r].cmd
  OBVIOUS
<1> QED
  BY <1>1, <1>2, OwnerFrame DEF Starts

-----------------------------------------------------------------------------
(* Preservation, action by action.                                         *)

LEMMA OwnConnections ==
  ASSUME TypeOK, Ownership, NEW h \in Conns,
         Connect(h) \/ Disconnect(h) \/ \E c \in Commands : Receive(h, c)
  PROVE  Ownership'
<1>1. CASE Connect(h) \/ Disconnect(h)
  BY <1>1 DEF Connect, Disconnect, Ownership, OneOwner, HandlerKind, BootEmpty, Starts
<1>2. ASSUME NEW c \in Commands, Receive(h, c)
      PROVE  Ownership'
  <2>1. /\ phase = "up" /\ phase' = phase /\ entry' = entry /\ exec' = exec
        /\ handler[h].pc = "idle" /\ handler'[h].pc = "cached"
        /\ \A g \in Conns : g # h => handler'[g] = handler[g]
    <3>1. handler' = [handler EXCEPT ![h] = [handler[h] EXCEPT !.pc = "cached", !.cmd = c]]
      BY <1>2 DEF Receive, TypeOK
    <3>2. handler'[h] = [handler[h] EXCEPT !.pc = "cached", !.cmd = c]
      BY <3>1 DEF TypeOK
    <3>3. handler'[h].pc = "cached"
      BY <3>2 DEF TypeOK, Handlers
    <3> QED
      BY <1>2, <3>1, <3>3 DEF Receive, At, TypeOK
  <2>2. \A r \in Runs : ~Starts(h, r) /\ ~Starts(h, r)'
    BY <2>1 DEF Starts
  <2>3. OneOwner'
    BY <2>1, <2>2, HandlerFrame DEF Ownership
  <2> QED
    BY <2>1, <2>3 DEF Ownership, HandlerKind, BootEmpty
<1> QED
  BY <1>1, <1>2

(* Steps of Handle before anything is started and after it was answered.   *)
LEMMA OwnLookup ==
  ASSUME TypeOK, Ownership, NEW h \in Conns,
         CachedAck(h) \/ StoredAckHit(h) \/ StoredAckMiss(h) \/ RejectUnknown(h)
           \/ RejectStart(h) \/ RejectStop(h)
  PROVE  Ownership'
<1>1. /\ phase = "up" /\ phase' = phase /\ entry' = entry /\ exec' = exec
      /\ handler[h].pc \in {"cached", "stored", "handle"}
  BY DEF CachedAck, StoredAckHit, StoredAckMiss, RejectUnknown, RejectStart, RejectStop, At
<1>2. /\ \A g \in Conns : g # h => handler'[g] = handler[g]
      /\ \/ handler'[h].pc \in {"idle", "stored", "handle"}
         \/ handler'[h].pc = "remember" /\ handler'[h].status # "ok"
  BY GotoKeeps, AnswerKeeps, ReturnKeeps
  DEF CachedAck, StoredAckHit, StoredAckMiss, RejectUnknown, RejectStart, RejectStop, Idle
<1>3. \A r \in Runs : ~Starts(h, r) /\ ~Starts(h, r)'
  BY <1>1, <1>2 DEF Starts
<1>4. OneOwner'
  BY <1>1, <1>2, <1>3, HandlerFrame DEF Ownership
<1> QED
  BY <1>1, <1>2, <1>4 DEF Ownership, HandlerKind, BootEmpty

LEMMA OwnAdmit ==
  ASSUME TypeOK, Ownership, NEW h \in Conns, Admit(h)
  PROVE  Ownership'
<1> DEFINE c == handler[h].cmd
           r == RunOf[c]
<1>1. c \in StartCmds /\ r \in Runs
  BY CommandAssumption DEF Admit
<1>2. /\ phase = "up" /\ phase' = phase /\ exec' = exec /\ entry[r] = NoEntry
      /\ handler[h].pc = "handle" /\ handler'[h].pc = "insert" /\ handler'[h].cmd = c
      /\ \A g \in Conns : g # h => handler'[g] = handler[g]
  BY GotoKeeps DEF Admit, At
<1>3. /\ entry'[r] # NoEntry /\ entry'[r].cmd = c
      /\ \A s \in Runs : s # r => entry'[s] = entry[s]
  <2>1. entry' = [entry EXCEPT ![r] =
              [cmd |-> c, state |-> "starting", stopping |-> FALSE,
               sessions |-> Aliases(SessionOf[c]), killed |-> FALSE]]
    BY DEF Admit
  <2>2. Aliases(SessionOf[c]) \subseteq Sessions
    BY <1>1, CommandAssumption DEF Aliases
  <2>3. [cmd |-> c, state |-> "starting", stopping |-> FALSE,
         sessions |-> Aliases(SessionOf[c]), killed |-> FALSE] \in Entries
    BY <1>1, <2>2 DEF Entries, EntryState
  <2>4. NoEntry \notin Entries
    BY NullAssumption DEF Entries, EntryState
  <2> QED
    BY <1>1, <2>1, <2>3, <2>4 DEF TypeOK
<1>4. \A s \in Runs : Starts(h, s)' <=> s = r
  BY <1>1, <1>2 DEF Starts
<1>5. \A s \in Runs : ~Starts(h, s)
  BY <1>2 DEF Starts
<1>6. \A g \in Conns : g # h => \A s \in Runs : Starts(g, s)' <=> Starts(g, s)
  BY <1>2 DEF Starts
<1>7. exec[r].pc = "none" /\ \A g \in Conns : ~Starts(g, r)
  BY <1>1, <1>2 DEF Ownership, OneOwner
<1>8. OneOwner'
  <2>1. SUFFICES ASSUME NEW s \in Runs
                 PROVE  /\ exec'[s].pc # "none" =>
                             /\ entry'[s] # NoEntry /\ entry'[s].cmd = exec'[s].cmd
                             /\ \A g \in Conns : ~Starts(g, s)'
                        /\ \A g \in Conns : Starts(g, s)' =>
                             /\ entry'[s] # NoEntry /\ entry'[s].cmd = handler'[g].cmd
                             /\ \A k \in Conns : Starts(k, s)' => k = g
                        /\ entry'[s] # NoEntry =>
                             exec'[s].pc # "none" \/ \E g \in Conns : Starts(g, s)'
    BY DEF OneOwner
  <2>2. CASE s = r
    BY <1>2, <1>3, <1>4, <1>6, <1>7, <2>2
  <2>3. CASE s # r
    BY <1>2, <1>3, <1>4, <1>5, <1>6, <2>3 DEF Ownership, OneOwner
  <2> QED
    BY <2>2, <2>3
<1> QED
  BY <1>1, <1>2, <1>8 DEF Ownership, HandlerKind, BootEmpty

(* emitRunStarted: the loop goes on starting the same run.                 *)
LEMMA OwnStarting ==
  ASSUME TypeOK, Ownership, NEW h \in Conns, StartedInsert(h) \/ StartedProject(h)
  PROVE  Ownership'
<1>1. /\ phase = "up" /\ phase' = phase /\ entry' = entry /\ exec' = exec
      /\ handler[h].pc \in {"insert", "project"}
  BY DEF StartedInsert, StartedProject, At
<1>2. /\ \A g \in Conns : g # h => handler'[g] = handler[g]
      /\ handler'[h].cmd = handler[h].cmd
      /\ \/ handler'[h].pc \in {"project", "abort"}
         \/ handler'[h].pc = "remember" /\ handler'[h].status = "ok"
  BY GotoKeeps, AnswerKeeps DEF StartedInsert, StartedProject
<1>3. \A r \in Runs : Starts(h, r)' <=> Starts(h, r)
  BY <1>1, <1>2 DEF Starts
<1>4. OneOwner'
  BY <1>1, <1>2, <1>3, HandlerFrame DEF Ownership
<1> QED
  BY <1>1, <1>2, <1>4 DEF Ownership, HandlerKind, BootEmpty

LEMMA OwnAbort ==
  ASSUME TypeOK, Ownership, NEW h \in Conns, AbortStart(h)
  PROVE  Ownership'
<1> DEFINE c == handler[h].cmd
           r == RunOf[c]
           kept == Released(r)
<1>1. /\ phase = "up" /\ phase' = phase /\ exec' = exec /\ handler[h].pc = "abort"
  BY DEF AbortStart, At
<1>2. c \in StartCmds /\ r \in Runs
  BY <1>1, CommandAssumption DEF Ownership, HandlerKind
<1>3. entry'[r] = NoEntry /\ \A s \in Runs : s # r => entry'[s] = entry[s]
  BY <1>2 DEF AbortStart, Delete, TypeOK
<1>4. /\ kept \in [Conns -> Handlers]
      /\ handler' = [kept EXCEPT ![h] = [kept[h] EXCEPT !.pc = "remember", !.status = "rejected"]]
  BY ReleasedType DEF AbortStart, TypeOK
<1>5. handler'[h].pc = "remember" /\ handler'[h].status = "rejected"
  <2>1. handler'[h] = [kept[h] EXCEPT !.pc = "remember", !.status = "rejected"]
    BY <1>4
  <2> QED
    BY <1>4, <2>1 DEF Handlers
<1>6. \A g \in Conns : g # h => /\ handler'[g].pc = handler[g].pc
                               /\ handler'[g].cmd = handler[g].cmd
                               /\ handler'[g].status = handler[g].status
  <2>1. \A g \in Conns : g # h => handler'[g] = kept[g]
    BY <1>4
  <2> QED
    BY <2>1, ReleasedKeeps
<1>7. Starts(h, r)
  BY <1>1, <1>2 DEF Starts
<1>8. \A g \in Conns : \A s \in Runs : Starts(g, s)' <=> g # h /\ Starts(g, s)
  BY <1>5, <1>6 DEF Starts
<1>9. exec[r].pc = "none" /\ \A g \in Conns : g # h => ~Starts(g, r)
  BY <1>1, <1>2, <1>7 DEF Ownership, OneOwner
<1>10. \A s \in Runs : s # r => ~Starts(h, s)
  BY <1>2 DEF Starts
<1>11. OneOwner'
  BY <1>1, <1>3, <1>6, <1>8, <1>9, <1>10 DEF Ownership, OneOwner
<1>12. HandlerKind'
  BY <1>5, <1>6 DEF Ownership, HandlerKind
<1> QED
  BY <1>1, <1>11, <1>12 DEF Ownership, BootEmpty

LEMMA OwnStop ==
  ASSUME TypeOK, Ownership, NEW h \in Conns, MarkStopping(h) \/ StopRuntime(h) \/ CancelRun(h)
  PROVE  Ownership'
<1>1. /\ phase = "up" /\ phase' = phase /\ exec' = exec
      /\ handler[h].pc \in {"handle", "kill", "cancel"} /\ handler[h].cmd \in StopCmds
      /\ handler[h].cmd \notin StartCmds
  BY CommandAssumption
  DEF MarkStopping, StopRuntime, CancelRun, At, Ownership, HandlerKind
<1>2. /\ \A g \in Conns : g # h => handler'[g] = handler[g]
      /\ handler'[h].cmd = handler[h].cmd
      /\ handler'[h].pc \in {"kill", "cancel", "remember"}
  <2>1. CASE MarkStopping(h)
    <3>1. PICK r : handler' = [handler EXCEPT ![h] =
                     [handler[h] EXCEPT !.pc = "kill", !.run = r, !.held = TRUE]]
      BY <2>1 DEF MarkStopping, TypeOK
    <3>2. handler'[h] = [handler[h] EXCEPT !.pc = "kill", !.run = r, !.held = TRUE]
      BY <3>1 DEF TypeOK
    <3>3. handler'[h].pc = "kill" /\ handler'[h].cmd = handler[h].cmd
      BY <3>2 DEF TypeOK, Handlers
    <3> QED
      BY <3>1, <3>3 DEF TypeOK
  <2>2. CASE StopRuntime(h)
    BY <2>2, GotoKeeps DEF StopRuntime
  <2>3. CASE CancelRun(h)
    <3>1. handler' = [handler EXCEPT ![h] = [Idle EXCEPT !.pc = "remember",
                                              !.cmd = handler[h].cmd, !.status = "ok"]]
      BY <2>3 DEF CancelRun
    <3>2. handler'[h] = [Idle EXCEPT !.pc = "remember", !.cmd = handler[h].cmd, !.status = "ok"]
      BY <3>1 DEF TypeOK
    <3>3. handler'[h].pc = "remember" /\ handler'[h].cmd = handler[h].cmd
      BY <3>2 DEF Idle
    <3> QED
      BY <3>1, <3>3 DEF TypeOK
  <2> QED
    BY <2>1, <2>2, <2>3
<1>3. \A r \in Runs : /\ entry'[r] = NoEntry <=> entry[r] = NoEntry
                      /\ entry[r] # NoEntry => entry'[r].cmd = entry[r].cmd
  <2>1. NoEntry \notin Entries
    BY NullAssumption DEF Entries, EntryState
  <2>2. CASE MarkStopping(h)
    <3>1. PICK r \in StopTargets(handler[h].cmd) :
            entry' = [entry EXCEPT ![r].state = "stopping", ![r].stopping = TRUE]
      BY <2>2 DEF MarkStopping
    <3>2. r \in Runs /\ entry[r] # NoEntry
      BY <1>1, <3>1, CommandAssumption DEF StopTargets, Active
    <3>3. entry'[r] \in Entries /\ entry'[r].cmd = entry[r].cmd
      <4>1. entry'[r] = [entry[r] EXCEPT !.state = "stopping", !.stopping = TRUE]
        BY <3>1, <3>2 DEF TypeOK
      <4>2. entry[r] \in Entries
        BY <3>2 DEF TypeOK
      <4> QED
        BY <4>1, <4>2 DEF Entries, EntryState
    <3> QED
      BY <2>1, <3>1, <3>2, <3>3 DEF TypeOK
  <2>3. CASE StopRuntime(h)
    <3>1. CASE UNCHANGED entry
      BY <3>1
    <3>2. CASE /\ entry[handler[h].run] # NoEntry
               /\ entry' = [entry EXCEPT ![handler[h].run].killed = TRUE]
      <4> DEFINE r == handler[h].run
      <4>1. ASSUME r \in Runs
            PROVE  entry'[r] \in Entries /\ entry'[r].cmd = entry[r].cmd
        <5>1. entry'[r] = [entry[r] EXCEPT !.killed = TRUE]
          BY <3>2, <4>1 DEF TypeOK
        <5>2. entry[r] \in Entries
          BY <3>2, <4>1 DEF TypeOK
        <5> QED
          BY <5>1, <5>2 DEF Entries
      <4>2. \A s \in Runs : s # r => entry'[s] = entry[s]
        BY <3>2 DEF TypeOK
      <4> QED
        BY <2>1, <3>2, <4>1, <4>2
    <3> QED
      BY <2>3, <3>1, <3>2 DEF StopRuntime
  <2>4. CASE CancelRun(h)
    BY <2>4 DEF CancelRun
  <2> QED
    BY <2>2, <2>3, <2>4
<1>4. \A r \in Runs : ~Starts(h, r) /\ ~Starts(h, r)'
  BY <1>1, <1>2 DEF Starts
<1>5. OneOwner'
  BY <1>1, <1>2, <1>3, <1>4, HandlerFrame DEF Ownership
<1> QED
  BY <1>1, <1>2, <1>5 DEF Ownership, HandlerKind, BootEmpty

LEMMA OwnRemember ==
  ASSUME TypeOK, Ownership, NEW h \in Conns, Remember(h)
  PROVE  Ownership'
<1>1. /\ phase = "up" /\ phase' = phase /\ exec' = exec /\ entry' = entry
      /\ handler[h].pc = "remember"
  BY DEF Remember, At
<1>2. /\ \A g \in Conns : g # h => handler'[g] = handler[g]
      /\ handler'[h].pc = "save"
      /\ handler'[h].cmd = handler[h].cmd /\ handler'[h].status = handler[h].status
  BY GotoKeeps DEF Remember
<1>3. \A r \in Runs : Starts(h, r)' <=> Starts(h, r)
  BY <1>1, <1>2 DEF Starts
<1>4. OneOwner'
  BY <1>1, <1>2, <1>3, HandlerFrame DEF Ownership
<1> QED
  BY <1>1, <1>2, <1>4 DEF Ownership, HandlerKind, BootEmpty

LEMMA OwnSave ==
  ASSUME TypeOK, Ownership, NEW h \in Conns, SaveAck(h)
  PROVE  Ownership'
<1>1. /\ phase = "up" /\ phase' = phase /\ exec' = exec /\ entry' = entry
      /\ handler[h].pc = "save"
  BY DEF SaveAck, At
<1>2. /\ \A g \in Conns : g # h => handler'[g] = handler[g]
      /\ IF Accepted(h)
         THEN /\ handler'[h].pc = "launch"
              /\ handler'[h].cmd = handler[h].cmd /\ handler'[h].status = handler[h].status
         ELSE handler'[h].pc = "idle"
  BY GotoKeeps, ReturnKeeps DEF SaveAck, Idle
<1>3. \A r \in Runs : /\ Starts(h, r)' <=> Starts(h, r)
                      /\ Starts(h, r) => handler'[h].cmd = handler[h].cmd
  BY <1>1, <1>2 DEF Starts, Accepted
<1>4. OneOwner'
  BY <1>1, <1>2, <1>3, HandlerFrame DEF Ownership
<1> QED
  BY <1>1, <1>2, <1>4 DEF Ownership, HandlerKind, BootEmpty

(* The goroutine takes the run over from the read loop that started it.    *)
LEMMA OwnLaunch ==
  ASSUME TypeOK, Launched, Ownership, NEW h \in Conns, Launch(h)
  PROVE  Ownership'
<1> DEFINE c == handler[h].cmd
           r == RunOf[c]
<1>1. phase = "up" /\ phase' = phase /\ entry' = entry /\ handler[h].pc = "launch"
  BY DEF Launch, At
<1>2. /\ handler'[h] = Idle
      /\ \A g \in Conns : g # h => handler'[g] = handler[g]
  BY ReturnKeeps DEF Launch
<1>3. \A s \in Runs : ~Starts(h, s)'
  BY <1>2 DEF Starts, Idle
<1>4. \A g \in Conns : g # h => \A s \in Runs : Starts(g, s)' <=> Starts(g, s)
  BY <1>2 DEF Starts
<1>5. c \in StartCmds /\ handler[h].status = "ok"
  BY <1>1 DEF Launched, Accepted
<1>6. r \in Runs /\ Starts(h, r) /\ \A s \in Runs : s # r => ~Starts(h, s)
  BY <1>1, <1>5, CommandAssumption DEF Starts
<1>7. /\ exec'[r].pc = "begin" /\ exec'[r].cmd = c
      /\ \A s \in Runs : s # r => exec'[s] = exec[s]
  BY <1>6 DEF Launch, Fresh, TypeOK
<1>8. /\ entry[r] # NoEntry /\ entry[r].cmd = c
      /\ \A g \in Conns : g # h => ~Starts(g, r)
  BY <1>1, <1>6 DEF Ownership, OneOwner
<1>9. OneOwner'
  BY <1>1, <1>2, <1>3, <1>4, <1>6, <1>7, <1>8 DEF Ownership, OneOwner
<1> QED
  BY <1>1, <1>2, <1>9 DEF Ownership, HandlerKind, BootEmpty, Idle

-----------------------------------------------------------------------------
(* The goroutine of a run, and what happens to its activeRun meanwhile.    *)

LEMMA OwnExec ==
  ASSUME TypeOK, Ownership, NEW r \in Runs, ExecStep(r), ~RemoveRun(r)
  PROVE  Ownership'
<1>1. /\ phase = "up" /\ phase' = phase /\ handler' = handler /\ exec[r].pc # "none"
  BY ExecKeeps
  DEF ExecStep, Begin, RuntimeReturns, AskDeadline, AskCanceled, AskStopping, AskAgain,
      FinalInsert, FinalProject
<1>2. \A s \in Runs : /\ exec'[s].pc = "none" <=> exec[s].pc = "none"
                      /\ exec'[s].cmd = exec[s].cmd
  BY <1>1, ExecKeeps
<1>3. \A s \in Runs : /\ entry'[s] = NoEntry <=> entry[s] = NoEntry
                      /\ entry[s] # NoEntry => entry'[s].cmd = entry[s].cmd
  <2>1. NoEntry \notin Entries
    BY NullAssumption DEF Entries, EntryState
  <2>2. CASE UNCHANGED entry
    BY <2>2
  <2>3. CASE entry[r] # NoEntry /\ entry' = [entry EXCEPT ![r].state = "running"]
    <3>1. entry'[r] = [entry[r] EXCEPT !.state = "running"] /\ entry[r] \in Entries
      BY <2>3 DEF TypeOK
    <3>2. entry'[r] \in Entries /\ entry'[r].cmd = entry[r].cmd
      BY <3>1 DEF Entries, EntryState
    <3> QED
      BY <2>1, <2>3, <3>2 DEF TypeOK
  <2> QED
    BY <2>2, <2>3
    DEF ExecStep, Begin, RuntimeReturns, AskDeadline, AskCanceled, AskStopping, AskAgain,
        FinalInsert, FinalProject
<1>4. OneOwner'
  BY <1>1, <1>2, <1>3, OwnerFrame DEF Ownership, Starts
<1> QED
  BY <1>1, <1>4 DEF Ownership, HandlerKind, BootEmpty

LEMMA OwnMeanwhile ==
  ASSUME TypeOK, Ownership, NEW r \in Runs, LearnSession(r) \/ DeadlinePasses(r)
  PROVE  Ownership'
<1>1. /\ phase = "up" /\ phase' = phase /\ handler' = handler /\ exec' = exec
      /\ entry[r] # NoEntry
  BY DEF LearnSession, DeadlinePasses, Running
<1>2. \A s \in Runs : s # r => entry'[s] = entry[s]
  BY DEF LearnSession, DeadlinePasses, TypeOK
<1>3. entry'[r] # NoEntry /\ entry'[r].cmd = entry[r].cmd
  <2>1. CASE LearnSession(r)
    <3> DEFINE learned == [entry[r] EXCEPT !.sessions = @ \cup {NativeOf[exec[r].cmd]}
                                                       \cup Aliases(SessionOf[exec[r].cmd])]
    <3>1. entry[r] \in Entries
      BY <1>1 DEF TypeOK
    <3>2. entry[r].cmd \in StartCmds /\ exec[r].cmd = entry[r].cmd
      BY <1>1, <2>1, <3>1 DEF LearnSession, Running, Ownership, OneOwner, Entries
    <3>3. NativeOf[exec[r].cmd] \in Sessions /\ Aliases(SessionOf[exec[r].cmd]) \subseteq Sessions
      BY <3>2, CommandAssumption DEF Aliases
    <3>4. entry'[r] = [entry[r] EXCEPT !.sessions = @ \cup ({NativeOf[exec[r].cmd]}
                                                       \cup Aliases(SessionOf[exec[r].cmd]))]
      BY <2>1 DEF LearnSession, TypeOK
    <3>5. entry'[r] \in Entries /\ entry'[r].cmd = entry[r].cmd
      BY <3>1, <3>3, <3>4 DEF Entries, EntryState
    <3> QED
      BY <3>5, NullAssumption DEF Entries, EntryState
  <2>2. CASE DeadlinePasses(r)
    BY <1>1, <2>2 DEF DeadlinePasses
  <2> QED
    BY <2>1, <2>2
<1>4. OneOwner'
  BY <1>1, <1>2, <1>3, OwnerFrame DEF Ownership, Starts
<1> QED
  BY <1>1, <1>4 DEF Ownership, HandlerKind, BootEmpty

(* The end of execute deletes the run nobody else would have deleted.      *)
LEMMA OwnRemove ==
  ASSUME TypeOK, Ownership, NEW r \in Runs, RemoveRun(r)
  PROVE  Ownership'
<1>1. phase = "up" /\ phase' = phase /\ exec[r].pc = "remove"
  BY DEF RemoveRun, Running
<1>2. entry'[r] = NoEntry /\ \A s \in Runs : s # r => entry'[s] = entry[s]
  BY DEF RemoveRun, Delete, TypeOK
<1>3. exec'[r].pc = "none" /\ \A s \in Runs : s # r => exec'[s] = exec[s]
  <2>1. exec' = [exec EXCEPT ![r] = Gone] /\ exec \in [Runs -> Goroutines]
    BY DEF RemoveRun, TypeOK
  <2>2. exec'[r] = Gone
    BY <2>1
  <2>3. \A s \in Runs : s # r => exec'[s] = exec[s]
    BY <2>1
  <2> QED
    BY <2>2, <2>3 DEF Gone
<1>4. \A g \in Conns : /\ handler'[g].pc = handler[g].pc
                       /\ handler'[g].cmd = handler[g].cmd
                       /\ handler'[g].status = handler[g].status
  BY ReleasedKeeps DEF RemoveRun
<1>5. \A g \in Conns : \A s \in Runs : Starts(g, s)' <=> Starts(g, s)
  BY <1>4 DEF Starts
<1>6. \A g \in Conns : ~Starts(g, r)
  BY <1>1 DEF Ownership, OneOwner
<1>7. OneOwner'
  BY <1>1, <1>2, <1>3, <1>4, <1>5, <1>6 DEF Ownership, OneOwner
<1>8. HandlerKind'
  BY <1>4 DEF Ownership, HandlerKind
<1> QED
  BY <1>1, <1>7, <1>8 DEF Ownership, BootEmpty

-----------------------------------------------------------------------------
(* Crash and boot.                                                         *)

LEMMA OwnProcess ==
  ASSUME TypeOK, Ownership,
         Crash \/ Booted \/ \E r \in Runs : ReconcileInsert(r) \/ ReconcileProject(r)
  PROVE  Ownership'
<1>1. CASE Crash
  BY <1>1 DEF Crash, Ownership, OneOwner, HandlerKind, BootEmpty, Idle
<1>2. CASE Booted
  <2>1. /\ phase' = "up"
        /\ \A r \in Runs : entry'[r] = NoEntry /\ exec'[r].pc = "none"
        /\ \A h \in Conns : handler'[h] = Idle
    BY <1>2 DEF Booted, Gone, Ownership, BootEmpty
  <2>2. \A h \in Conns : handler'[h].pc = "idle"
    BY <2>1 DEF Idle
  <2> QED
    BY <2>1, <2>2 DEF Ownership, OneOwner, HandlerKind, BootEmpty, Starts
<1>3. ASSUME NEW r \in Runs, ReconcileInsert(r) \/ ReconcileProject(r)
      PROVE  Ownership'
  BY <1>3 DEF ReconcileInsert, ReconcileProject, Ownership, OneOwner, HandlerKind, BootEmpty
<1> QED
  BY <1>1, <1>2, <1>3

LEMMA OwnershipStep == TypeOK /\ Launched /\ Ownership /\ [Next]_vars => Ownership'
<1>1. SUFFICES ASSUME TypeOK, Launched, Ownership, [Next]_vars PROVE Ownership'
  OBVIOUS
<1>2. ASSUME NEW h \in Conns, HandlerStep(h)
      PROVE  Ownership'
  BY <1>1, <1>2, OwnLookup, OwnAdmit, OwnStarting, OwnAbort, OwnStop, OwnRemember, OwnSave, OwnLaunch
  DEF HandlerStep
<1>3. ASSUME NEW h \in Conns, Connect(h) \/ Disconnect(h) \/ \E c \in Commands : Receive(h, c)
      PROVE  Ownership'
  BY <1>1, <1>3, OwnConnections
<1>4. ASSUME NEW r \in Runs, ExecStep(r)
      PROVE  Ownership'
  BY <1>1, <1>4, OwnExec, OwnRemove
<1>5. ASSUME NEW r \in Runs, LearnSession(r) \/ DeadlinePasses(r)
      PROVE  Ownership'
  BY <1>1, <1>5, OwnMeanwhile
<1>6. CASE UNCHANGED vars
  <2>1. phase' = phase /\ handler' = handler /\ entry' = entry /\ exec' = exec
    BY <1>6 DEF vars, memory, durable, history
  <2>2. OneOwner'
    BY <1>1, <2>1, OwnerFrame DEF Ownership, Starts
  <2> QED
    BY <1>1, <2>1, <2>2 DEF Ownership, HandlerKind, BootEmpty
<1> QED
  BY <1>1, <1>2, <1>3, <1>4, <1>5, <1>6, OwnProcess DEF Next

(* Every active run has exactly one party that will delete it, the read    *)
(* loop that is starting it or its goroutine, however many loops, runs,    *)
(* failing statements and crashes there are.                               *)
THEOREM OwnerUnique == Spec => []OneOwner
<1>1. Init => TypeOK /\ Launched /\ Ownership
  <2>1. Init => Ownership
    BY DEF Init, Ownership, OneOwner, HandlerKind, BootEmpty, Starts, Idle, Gone
  <2> QED
    BY <2>1, TypeInit DEF Init, Launched, Gone, Idle
<1>2. TypeOK /\ Launched /\ Ownership /\ [Next]_vars => (TypeOK /\ Launched /\ Ownership)'
  BY TypeStep, LaunchedStep, OwnershipStep
<1>3. Ownership => OneOwner
  BY DEF Ownership
<1> QED
  BY <1>1, <1>2, <1>3, PTL DEF Spec
=============================================================================
