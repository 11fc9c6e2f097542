----------------------------- MODULE RunManager -----------------------------
(***************************************************************************)
(* The agent's run manager (agent/internal/runs/manager.go) over the two   *)
(* tables of the local store that make it durable: command_acks, and       *)
(* run_events with the runs projection (agent/internal/localstate/store.go)*)
(*                                                                         *)
(* Processes:                                                              *)
(*   - Conns: the read loops.  serve returns without waiting for its read  *)
(*     loop, so the loop of a dropped connection may still be inside       *)
(*     Manager.Handle when the next connection's loop runs.  One element   *)
(*     of Conns is one such loop; with a single element a reconnect waits  *)
(*     for the previous Handle to return.                                  *)
(*   - one goroutine per started run (Manager.execute);                    *)
(*   - the process itself, which may crash and boot again.                 *)
(*                                                                         *)
(* A step is a critical section of Manager.mu or one SQL statement.        *)
(***************************************************************************)
EXTENDS Naturals, Sequences, FiniteSets

CONSTANTS
  Commands,      (* command ids the server may send                        *)
  StartCmds,     (* new_session, resume and send                           *)
  StopCmds,      (* stop; any other command has an unknown kind            *)
  Runs,          (* run ids                                                *)
  Sessions,      (* session ids: displayed ids and native thread ids       *)
  RunOf,         (* run id a command carries                               *)
  SessionOf,     (* session id a command carries, or NoSession             *)
  NativeOf,      (* native thread id codex reports for a start command     *)
  Deadlined,     (* start commands with a deadline_at                      *)
  Conns,
  MaxActive,     (* max_concurrent_runs                                    *)
  MaxCrashes,    (* bound: crashes of the agent process                    *)
  DbErrors,      (* TRUE: a SQL statement may fail                         *)
  NoCmd, NoSession, NoAck, NoRun, NoEntry

ASSUME CommandAssumption ==
  /\ StartCmds \cup StopCmds \subseteq Commands
  /\ StartCmds \cap StopCmds = {}
  /\ RunOf \in [Commands -> Runs]
  /\ SessionOf \in [Commands -> Sessions \cup {NoSession}]
  /\ NativeOf \in [StartCmds -> Sessions]
  /\ Deadlined \subseteq StartCmds
  /\ IsFiniteSet(Runs)
  /\ NoCmd \notin Commands /\ NoSession \notin Sessions /\ NoRun \notin Runs

ASSUME BoundAssumption ==
  MaxActive \in Nat \ {0} /\ MaxCrashes \in Nat /\ DbErrors \in BOOLEAN

ASSUME NullAssumption ==
  /\ NoAck \notin {"ok", "rejected", "duplicate"}
  /\ NoEntry \notin [cmd : StartCmds, state : {"starting", "running", "stopping"},
                     stopping : BOOLEAN, sessions : SUBSET Sessions, killed : BOOLEAN]

VARIABLES
  phase,     (* "up", or "boot" while SetAckStore reconciles               *)
  live,      (* Conns whose connection context is not cancelled            *)
  handler,   (* read loop -> where it is in Handle                         *)
  entry,     (* Manager.active: run id -> activeRun, or NoEntry            *)
  ctx,       (* run id -> state of the context start gave the run          *)
  exec,      (* run id -> where the run's goroutine is in execute          *)
  commands,  (* Manager.commands: the acks cached in memory                *)
  ackDb,     (* table command_acks                                         *)
  log,       (* table run_events: run id -> lifecycle kinds, in seq order  *)
  row,       (* table runs: run id -> status                               *)
  launches,  (* history: command -> times its goroutine was started        *)
  doubts,    (* history: start -> why the ack table could not tell a     *)
             (* read loop that the command was answered                    *)
  crashes    (* history: crashes so far                                    *)

memory  == <<live, handler, entry, ctx, exec, commands>>
durable == <<ackDb, log, row>>
history == <<launches, doubts, crashes>>
vars    == <<phase, memory, durable, history>>

Rejections == {"rejected", "duplicate"}
Statuses   == {"ok"} \cup Rejections
Terminal   == {"run.done", "run.error", "run.stopped"}
Kinds      == {"run.started"} \cup Terminal

(* runStatusFromEvent ("interrupted" is one more terminal status, kept     *)
(* here with "error"), and the statuses ReconcileInterruptedRuns selects.  *)
StatusOf(kind) ==
  CASE kind = "run.started" -> "running"
    [] kind = "run.done"    -> "done"
    [] kind = "run.stopped" -> "stopped"
    [] kind = "run.error"   -> "error"
Unfinished == {"running"}
RowStatus  == {"none", "running", "done", "stopped", "error"}

(* Mutant: the projection stores the kind of the event as the status.      *)
ProjectKind(old, kind) == kind

(* projectRunState keeps a terminal status against a non-terminal one.     *)
Project(old, kind) ==
  IF old \in {"done", "stopped", "error"} /\ kind \notin Terminal
  THEN old ELSE StatusOf(kind)

Idle == [pc |-> "idle", cmd |-> NoCmd, status |-> NoAck, run |-> NoRun, held |-> FALSE]
Gone == [pc |-> "none", cmd |-> NoCmd, kind |-> "run.done", told |-> FALSE]
Active == {r \in Runs : entry[r] # NoEntry}
Aliases(s) == IF s = NoSession THEN {} ELSE {s}

HandlerPC == {"idle", "cached", "stored", "handle", "insert", "project",
              "abort", "kill", "cancel", "remember", "save", "launch"}
ExecPC == {"none", "begin", "work", "deadline", "canceled", "stopping", "again",
           "insert", "project", "remove"}
Doubts == {"unsaved", "unread", "overlap"}
EntryState == {"starting", "running", "stopping"}

Entries == [cmd : StartCmds, state : EntryState, stopping : BOOLEAN,
            sessions : SUBSET Sessions, killed : BOOLEAN]
Handlers == [pc : HandlerPC, cmd : Commands \cup {NoCmd},
             status : Statuses \cup {NoAck}, run : Runs \cup {NoRun}, held : BOOLEAN]
(* told is history: stop had cancelled the run when execute first looked.  *)
Goroutines == [pc : ExecPC, cmd : StartCmds \cup {NoCmd}, kind : Terminal, told : BOOLEAN]

TypeOK ==
  /\ phase \in {"up", "boot"}
  /\ live \subseteq Conns
  /\ handler \in [Conns -> Handlers]
  /\ entry \in [Runs -> Entries \cup {NoEntry}]
  /\ ctx \in [Runs -> {"live", "canceled", "deadline"}]
  /\ exec \in [Runs -> Goroutines]
  /\ commands \in [Commands -> Statuses \cup {NoAck}]
  /\ ackDb \in [Commands -> Statuses \cup {NoAck}]
  /\ log \in [Runs -> Seq(Kinds)]
  /\ row \in [Runs -> RowStatus]
  /\ launches \in [StartCmds -> Nat]
  /\ doubts \in [StartCmds -> SUBSET Doubts]
  /\ crashes \in Nat

Init ==
  /\ phase = "up"
  /\ live = {}
  /\ handler = [h \in Conns |-> Idle]
  /\ entry = [r \in Runs |-> NoEntry]
  /\ ctx = [r \in Runs |-> "live"]
  /\ exec = [r \in Runs |-> Gone]
  /\ commands = [c \in Commands |-> NoAck]
  /\ ackDb = [c \in Commands |-> NoAck]
  /\ log = [r \in Runs |-> <<>>]
  /\ row = [r \in Runs |-> "none"]
  /\ launches = [c \in StartCmds |-> 0]
  /\ doubts = [c \in StartCmds |-> {}]
  /\ crashes = 0

-----------------------------------------------------------------------------
(* Connections.                                                            *)

(* Client.Run dials again and serve starts a read loop.                    *)
Connect(h) ==
  /\ phase = "up" /\ live = {} /\ handler[h] = Idle
  /\ live' = {h}
  /\ UNCHANGED <<phase, handler, entry, ctx, exec, commands, durable, history>>

(* serve returns; its deferred cancel ends the read loop's context.        *)
Disconnect(h) ==
  /\ h \in live
  /\ live' = live \ {h}
  /\ UNCHANGED <<phase, handler, entry, ctx, exec, commands, durable, history>>

-----------------------------------------------------------------------------
(* Manager.Handle, start and stop, run by read loop h.                     *)

At(h, pc) == phase = "up" /\ handler[h].pc = pc
Goto(h, pc) == handler' = [handler EXCEPT ![h].pc = pc]
Answer(h, status) == handler' = [handler EXCEPT ![h].pc = "remember", ![h].status = status]
Return(h) == handler' = [handler EXCEPT ![h] = Idle]
Doubt(c, why) == doubts' = [d \in StartCmds |-> IF d = c THEN doubts[d] \cup why ELSE doubts[d]]

(* The loop reads a command the server sent, for the first time or again.  *)
Receive(h, c) ==
  /\ At(h, "idle") /\ h \in live
  /\ handler' = [handler EXCEPT ![h].pc = "cached", ![h].cmd = c]
  /\ UNCHANGED <<phase, live, entry, ctx, exec, commands, durable, history>>

CachedAck(h) ==
  /\ At(h, "cached")
  /\ IF commands[handler[h].cmd] # NoAck THEN Return(h) ELSE Goto(h, "stored")
  /\ UNCHANGED <<phase, live, entry, ctx, exec, commands, durable, history>>

(* A hit is copied to the memory cache; a failed query counts as a miss.   *)
StoredAckHit(h) ==
  /\ At(h, "stored") /\ h \in live
  /\ LET c == handler[h].cmd
     IN  /\ ackDb[c] # NoAck
         /\ commands' = [commands EXCEPT ![c] = ackDb[c]]
  /\ Return(h)
  /\ UNCHANGED <<phase, live, entry, ctx, exec, durable, history>>

(* Mutant: command_acks is never consulted.                                *)
StoredAckIgnored(h) ==
  /\ At(h, "stored")
  /\ Goto(h, "handle")
  /\ UNCHANGED <<phase, live, entry, ctx, exec, commands, durable, history>>

(* A row that is there is not seen when the query fails; on a cancelled    *)
(* connection context it does, and so will emitRunStarted.                 *)
StoredAckMiss(h) ==
  /\ At(h, "stored")
  /\ LET c == handler[h].cmd
     IN  /\ ackDb[c] = NoAck \/ h \notin live \/ DbErrors
         /\ Doubt(c, IF ackDb[c] # NoAck /\ h \in live THEN {"unread"} ELSE {})
  /\ Goto(h, "handle")
  /\ UNCHANGED <<phase, live, entry, ctx, exec, commands, durable, launches, crashes>>

RejectUnknown(h) ==
  /\ At(h, "handle") /\ handler[h].cmd \notin StartCmds \cup StopCmds
  /\ Answer(h, "rejected")
  /\ UNCHANGED <<phase, live, entry, ctx, exec, commands, durable, history>>

(* Mutant: only runs that already execute hold their session.              *)
SessionTakenByRunning(s) ==
  s # NoSession /\ \E r \in Active : entry[r].state = "running" /\ s \in entry[r].sessions

(* start's checks, in the order the code makes them under Manager.mu.      *)
SlotsFull == Cardinality(Active) >= MaxActive
SessionTaken(s) == s # NoSession /\ \E r \in Active : s \in entry[r].sessions

RejectStart(h) ==
  /\ At(h, "handle") /\ handler[h].cmd \in StartCmds
  /\ LET c == handler[h].cmd
     IN  \/ c \in Deadlined /\ Answer(h, "rejected")
         \/ SlotsFull /\ Answer(h, "rejected")
         \/ ~SlotsFull /\ entry[RunOf[c]] # NoEntry /\ Answer(h, "duplicate")
         \/ /\ ~SlotsFull /\ entry[RunOf[c]] = NoEntry
            /\ SessionTaken(SessionOf[c])
            /\ Answer(h, "rejected")
  /\ UNCHANGED <<phase, live, entry, ctx, exec, commands, durable, history>>

(* Mutant: a run id that is already active is overwritten.                 *)
AdmitAgain(h) ==
  /\ At(h, "handle") /\ handler[h].cmd \in StartCmds
  /\ LET c == handler[h].cmd
     IN  /\ entry' = [entry EXCEPT ![RunOf[c]] =
              [cmd |-> c, state |-> "starting", stopping |-> FALSE,
               sessions |-> Aliases(SessionOf[c]), killed |-> FALSE]]
         /\ ctx' = [ctx EXCEPT ![RunOf[c]] = "live"]
  /\ Goto(h, "insert")
  /\ UNCHANGED <<phase, live, exec, commands, durable, history>>

Admit(h) ==
  /\ At(h, "handle") /\ handler[h].cmd \in StartCmds
  /\ LET c == handler[h].cmd
         r == RunOf[c]
     IN  /\ ~SlotsFull
         /\ entry[r] = NoEntry
         /\ ~SessionTaken(SessionOf[c])
         /\ entry' = [entry EXCEPT ![r] =
              [cmd |-> c, state |-> "starting", stopping |-> FALSE,
               sessions |-> Aliases(SessionOf[c]), killed |-> FALSE]]
         /\ ctx' = [ctx EXCEPT ![r] = "live"]
  /\ Goto(h, "insert")
  /\ UNCHANGED <<phase, live, exec, commands, durable, history>>

(* Mutant: the error of emitRunStarted is ignored.                         *)
StartedInsertIgnored(h) ==
  /\ At(h, "insert")
  /\ \/ /\ log' = [log EXCEPT ![RunOf[handler[h].cmd]] = Append(@, "run.started")]
        /\ Goto(h, "project")
     \/ (h \notin live \/ DbErrors) /\ Answer(h, "ok") /\ UNCHANGED log
  /\ UNCHANGED <<phase, live, entry, ctx, exec, commands, ackDb, row, history>>

(* emitRunStarted: SaveRunEvent inserts the event, then projects the run;  *)
(* each statement fails when the connection context is already cancelled.  *)
StartedInsert(h) ==
  /\ At(h, "insert")
  /\ LET r == RunOf[handler[h].cmd]
     IN  \/ /\ h \in live
            /\ log' = [log EXCEPT ![r] = Append(@, "run.started")]
            /\ Goto(h, "project")
         \/ /\ h \notin live \/ DbErrors
            /\ Goto(h, "abort")
            /\ UNCHANGED log
  /\ UNCHANGED <<phase, live, entry, ctx, exec, commands, ackDb, row, history>>

StartedProject(h) ==
  /\ At(h, "project")
  /\ LET r == RunOf[handler[h].cmd]
     IN  \/ /\ h \in live
            /\ row' = [row EXCEPT ![r] = Project(@, "run.started")]
            /\ Answer(h, "ok")
         \/ /\ h \notin live \/ DbErrors
            /\ Goto(h, "abort")
            /\ UNCHANGED row
  /\ UNCHANGED <<phase, live, entry, ctx, exec, commands, ackDb, log, history>>

(* The two places that delete a run from Manager.active do so by run id.   *)
(* A stop that found the deleted activeRun keeps a pointer nobody else     *)
(* uses: its handler no longer holds the run.                              *)
Delete(r) ==
  /\ entry' = [entry EXCEPT ![r] = NoEntry]
  /\ ctx' = [ctx EXCEPT ![r] = "live"]

Released(r) ==
  [g \in Conns |-> IF handler[g].run = r THEN [handler[g] EXCEPT !.held = FALSE]
                                         ELSE handler[g]]

(* start's error path.                                                     *)
AbortStart(h) ==
  /\ At(h, "abort")
  /\ Delete(RunOf[handler[h].cmd])
  /\ handler' = [Released(RunOf[handler[h].cmd]) EXCEPT
                   ![h].pc = "remember", ![h].status = "rejected"]
  /\ UNCHANGED <<phase, live, exec, commands, durable, history>>

(* stop looks the run up by run id, then by session id.                    *)
StopTargets(c) ==
  IF entry[RunOf[c]] # NoEntry THEN {RunOf[c]}
  ELSE {r \in Active : SessionOf[c] # NoSession /\ SessionOf[c] \in entry[r].sessions}

RejectStop(h) ==
  /\ At(h, "handle") /\ handler[h].cmd \in StopCmds
  /\ StopTargets(handler[h].cmd) = {}
  /\ Answer(h, "rejected")
  /\ UNCHANGED <<phase, live, entry, ctx, exec, commands, durable, history>>

(* Mutant: stop sets the state but not the flag wasStopping reads.         *)
MarkStoppingState(h) ==
  /\ At(h, "handle") /\ handler[h].cmd \in StopCmds
  /\ \E r \in StopTargets(handler[h].cmd) :
       /\ entry' = [entry EXCEPT ![r].state = "stopping"]
       /\ handler' = [handler EXCEPT ![h].pc = "kill", ![h].run = r, ![h].held = TRUE]
  /\ UNCHANGED <<phase, live, ctx, exec, commands, durable, history>>

MarkStopping(h) ==
  /\ At(h, "handle") /\ handler[h].cmd \in StopCmds
  /\ \E r \in StopTargets(handler[h].cmd) :
       /\ entry' = [entry EXCEPT ![r].state = "stopping", ![r].stopping = TRUE]
       /\ handler' = [handler EXCEPT ![h].pc = "kill", ![h].run = r, ![h].held = TRUE]
  /\ UNCHANGED <<phase, live, ctx, exec, commands, durable, history>>

(* runtime.Stop cancels the process codex.cli tracks under that run id by  *)
(* now; it tracks none before the process is about to start.               *)
StopRuntime(h) ==
  /\ At(h, "kill")
  /\ LET r == handler[h].run
     IN  \/ /\ exec[r].pc = "work" /\ entry[r] # NoEntry
            /\ entry' = [entry EXCEPT ![r].killed = TRUE]
         \/ UNCHANGED entry
  /\ Goto(h, "cancel")
  /\ UNCHANGED <<phase, live, ctx, exec, commands, durable, history>>

(* Mutant: only a run whose process is tracked is cancelled.               *)
CancelTracked(h) ==
  /\ At(h, "cancel")
  /\ LET r == handler[h].run
     IN  ctx' = IF handler[h].held /\ ctx[r] = "live" /\ entry[r].killed
                THEN [ctx EXCEPT ![r] = "canceled"] ELSE ctx
  /\ handler' = [handler EXCEPT ![h] = [Idle EXCEPT !.pc = "remember",
                                          !.cmd = handler[h].cmd, !.status = "ok"]]
  /\ UNCHANGED <<phase, live, entry, exec, commands, durable, history>>

(* run.cancel, of the activeRun that was looked up.                        *)
CancelRun(h) ==
  /\ At(h, "cancel")
  /\ LET r == handler[h].run
     IN  ctx' = IF handler[h].held /\ ctx[r] = "live"
                THEN [ctx EXCEPT ![r] = "canceled"] ELSE ctx
  /\ handler' = [handler EXCEPT ![h] = [Idle EXCEPT !.pc = "remember",
                                          !.cmd = handler[h].cmd, !.status = "ok"]]
  /\ UNCHANGED <<phase, live, entry, exec, commands, durable, history>>

Accepted(h) == handler[h].cmd \in StartCmds /\ handler[h].status = "ok"
Fresh(c) == [pc |-> "begin", cmd |-> c, kind |-> "run.done", told |-> FALSE]

(* Mutant: the goroutine of an accepted start is launched before its ack   *)
(* is saved.                                                               *)
RememberLaunched(h) ==
  LET c == handler[h].cmd
  IN  /\ At(h, "remember")
      /\ commands' = [commands EXCEPT ![c] = handler[h].status]
      /\ exec' = IF Accepted(h) THEN [exec EXCEPT ![RunOf[c]] = Fresh(c)] ELSE exec
      /\ launches' = IF Accepted(h) THEN [launches EXCEPT ![c] = @ + 1] ELSE launches
      /\ Goto(h, "save")
      /\ UNCHANGED <<phase, live, entry, ctx, durable, doubts, crashes>>

(* remember: memory first, under the lock, then the table.                 *)
Remember(h) ==
  /\ At(h, "remember")
  /\ commands' = [commands EXCEPT ![handler[h].cmd] = handler[h].status]
  /\ Goto(h, "save")
  /\ UNCHANGED <<phase, live, entry, ctx, exec, durable, history>>

(* SaveCommandAck, on a background context; its error is only logged.      *)
(* Another loop may have looked the command up before there was an ack.    *)
SaveAck(h) ==
  /\ At(h, "save")
  /\ LET c == handler[h].cmd
     IN  \/ /\ ackDb' = [ackDb EXCEPT ![c] = handler[h].status]
            /\ Doubt(c, IF \E g \in live \ {h} : At(g, "handle") /\ handler[g].cmd = c
                        THEN {"overlap"} ELSE {})
         \/ DbErrors /\ Doubt(c, {"unsaved"}) /\ UNCHANGED ackDb
  /\ IF Accepted(h) THEN Goto(h, "launch") ELSE Return(h)
  /\ UNCHANGED <<phase, live, entry, ctx, exec, commands, log, row, launches, crashes>>

(* go m.execute, in start; Handle then returns the ack.                    *)
Launch(h) ==
  LET c == handler[h].cmd
  IN  /\ At(h, "launch")
      /\ exec' = [exec EXCEPT ![RunOf[c]] = Fresh(c)]
      /\ launches' = [launches EXCEPT ![c] = @ + 1]
      /\ Return(h)
      /\ UNCHANGED <<phase, live, entry, ctx, commands, durable, doubts, crashes>>

-----------------------------------------------------------------------------
(* Manager.execute, the goroutine of run r, and the codex.cli runtime.     *)

Running(r, pc) == phase = "up" /\ exec[r].pc = pc

(* setState(running), whatever the state was.                              *)
Begin(r) ==
  /\ Running(r, "begin")
  /\ entry' = IF entry[r] = NoEntry THEN entry
              ELSE [entry EXCEPT ![r].state = "running"]
  /\ exec' = [exec EXCEPT ![r].pc = "work"]
  /\ UNCHANGED <<phase, live, handler, ctx, commands, durable, history>>

(* A session.updated event of the runtime: Emit adds both ids as aliases.  *)
LearnSession(r) ==
  /\ Running(r, "work") /\ entry[r] # NoEntry
  /\ LET ids == {NativeOf[exec[r].cmd]} \cup Aliases(SessionOf[exec[r].cmd])
     IN  /\ ~(ids \subseteq entry[r].sessions)
         /\ entry' = [entry EXCEPT ![r].sessions = @ \cup ids]
  /\ UNCHANGED <<phase, live, handler, ctx, exec, commands, durable, history>>

DeadlinePasses(r) ==
  /\ phase = "up" /\ ctx[r] = "live"
  /\ entry[r] # NoEntry /\ entry[r].cmd \in Deadlined
  /\ ctx' = [ctx EXCEPT ![r] = "deadline"]
  /\ UNCHANGED <<phase, live, handler, entry, exec, commands, durable, history>>

(* The runtime call returns: without an error only while nothing has       *)
(* cancelled it.  The error is kept as the kind the last branch picks.     *)
RuntimeReturns(r) ==
  /\ Running(r, "work")
  /\ \E err \in BOOLEAN :
       /\ (ctx[r] # "live" \/ (entry[r] # NoEntry /\ entry[r].killed)) => err
       /\ exec' = [exec EXCEPT ![r].pc = "deadline",
                     ![r].kind = IF err THEN "run.error" ELSE "run.done"]
  /\ UNCHANGED <<phase, live, handler, entry, ctx, commands, durable, history>>

(* The branches that choose the kind of the final event. Each asks the     *)
(* context anew, and a stop may cancel it between two of them.             *)
EndAs(r, kind) == exec' = [exec EXCEPT ![r].pc = "insert", ![r].kind = kind]
AskNext(r, pc) == exec' = [exec EXCEPT ![r].pc = pc]

AskDeadline(r) ==
  /\ Running(r, "deadline")
  /\ exec' = [exec EXCEPT ![r].pc = IF ctx[r] = "deadline" THEN "insert" ELSE "canceled",
                          ![r].kind = IF ctx[r] = "deadline" THEN "run.error" ELSE @,
                          ![r].told = ctx[r] = "canceled"]
  /\ UNCHANGED <<phase, live, handler, entry, ctx, commands, durable, history>>

AskCanceled(r) ==
  /\ Running(r, "canceled")
  /\ AskNext(r, IF ctx[r] = "canceled" THEN "stopping" ELSE "again")
  /\ UNCHANGED <<phase, live, handler, entry, ctx, commands, durable, history>>

(* wasStopping, under the lock.                                            *)
AskStopping(r) ==
  /\ Running(r, "stopping")
  /\ IF entry[r] # NoEntry /\ entry[r].stopping
     THEN EndAs(r, "run.stopped") ELSE AskNext(r, "again")
  /\ UNCHANGED <<phase, live, handler, entry, ctx, commands, durable, history>>

AskAgain(r) ==
  /\ Running(r, "again")
  /\ EndAs(r, IF ctx[r] = "canceled" THEN "run.error" ELSE exec[r].kind)
  /\ UNCHANGED <<phase, live, handler, entry, ctx, commands, durable, history>>

(* The final event is emitted on a background context; its error is        *)
(* ignored.                                                                *)
FinalInsert(r) ==
  /\ Running(r, "insert")
  /\ \/ /\ log' = [log EXCEPT ![r] = Append(@, exec[r].kind)]
        /\ exec' = [exec EXCEPT ![r].pc = "project"]
     \/ /\ DbErrors
        /\ exec' = [exec EXCEPT ![r].pc = "remove"]
        /\ UNCHANGED log
  /\ UNCHANGED <<phase, live, handler, entry, ctx, commands, ackDb, row, history>>

FinalProject(r) ==
  /\ Running(r, "project")
  /\ \/ row' = [row EXCEPT ![r] = Project(@, exec[r].kind)]
     \/ DbErrors /\ UNCHANGED row
  /\ exec' = [exec EXCEPT ![r].pc = "remove"]
  /\ UNCHANGED <<phase, live, handler, entry, ctx, commands, ackDb, log, history>>

RemoveRun(r) ==
  /\ Running(r, "remove")
  /\ Delete(r)
  /\ handler' = Released(r)
  /\ exec' = [exec EXCEPT ![r] = Gone]
  /\ UNCHANGED <<phase, live, commands, durable, history>>

-----------------------------------------------------------------------------
(* The process dies (crash, SIGTERM or fatal error) and boots again.       *)

Crash ==
  /\ crashes < MaxCrashes
  /\ crashes' = crashes + 1
  /\ phase' = "boot"
  /\ live' = {}
  /\ handler' = [h \in Conns |-> Idle]
  /\ entry' = [r \in Runs |-> NoEntry]
  /\ ctx' = [r \in Runs |-> "live"]
  /\ exec' = [r \in Runs |-> Gone]
  /\ commands' = [c \in Commands |-> NoAck]
  /\ UNCHANGED <<durable, launches, doubts>>

(* ReconcileInterruptedRuns, one interrupted run after another: the event  *)
(* (exec[r] stands for the loop's position in SaveRunEvent), then the row. *)
ReconcileInsert(r) ==
  /\ phase = "boot" /\ row[r] \in Unfinished /\ exec[r].pc = "none"
  /\ \A s \in Runs : exec[s].pc = "none"
  /\ log' = [log EXCEPT ![r] = Append(@, "run.error")]
  /\ exec' = [exec EXCEPT ![r].pc = "project"]
  /\ UNCHANGED <<phase, live, handler, entry, ctx, commands, ackDb, row, history>>

ReconcileProject(r) ==
  /\ phase = "boot" /\ exec[r].pc = "project"
  /\ row' = [row EXCEPT ![r] = Project(@, "run.error")]
  /\ exec' = [exec EXCEPT ![r].pc = "none"]
  /\ UNCHANGED <<phase, live, handler, entry, ctx, commands, ackDb, log, history>>

(* Mutant: the manager comes up without waiting for the reconciliation.    *)
BootedEarly ==
  /\ phase = "boot"
  /\ phase' = "up"
  /\ exec' = [r \in Runs |-> Gone]
  /\ UNCHANGED <<live, handler, entry, ctx, commands, durable, history>>

(* SetAckStore returns: every unfinished run was handled, or the           *)
(* reconciliation failed and was only logged.                              *)
Booted ==
  /\ phase = "boot"
  /\ \/ \A r \in Runs : row[r] \notin Unfinished
     \/ DbErrors
  /\ phase' = "up"
  /\ exec' = [r \in Runs |-> Gone]
  /\ UNCHANGED <<live, handler, entry, ctx, commands, durable, history>>

-----------------------------------------------------------------------------
HandlerStep(h) ==
  \/ CachedAck(h) \/ StoredAckHit(h) \/ StoredAckMiss(h)
  \/ RejectUnknown(h) \/ RejectStart(h) \/ Admit(h)
  \/ StartedInsert(h) \/ StartedProject(h) \/ AbortStart(h)
  \/ RejectStop(h) \/ MarkStopping(h) \/ StopRuntime(h) \/ CancelRun(h)
  \/ Remember(h) \/ SaveAck(h) \/ Launch(h)

ExecStep(r) ==
  \/ Begin(r) \/ RuntimeReturns(r)
  \/ AskDeadline(r) \/ AskCanceled(r) \/ AskStopping(r) \/ AskAgain(r)
  \/ FinalInsert(r) \/ FinalProject(r) \/ RemoveRun(r)

Next ==
  \/ \E h \in Conns : \/ Connect(h) \/ Disconnect(h) \/ HandlerStep(h)
                      \/ \E c \in Commands : Receive(h, c)
  \/ \E r \in Runs : \/ ExecStep(r) \/ LearnSession(r) \/ DeadlinePasses(r)
                     \/ ReconcileInsert(r) \/ ReconcileProject(r)
  \/ Crash \/ Booted

Spec == Init /\ [][Next]_vars

(* Scheduling: read loops and goroutines keep running and booting makes    *)
(* progress.  Nothing obliges codex to finish on its own; a process whose  *)
(* context is cancelled is killed, so its runtime call does return.        *)
Unwind(r) ==
  (ctx[r] # "live" \/ (entry[r] # NoEntry /\ entry[r].killed)) /\ RuntimeReturns(r)

Fairness ==
  /\ \A h \in Conns : WF_vars(HandlerStep(h))
  /\ \A r \in Runs :
       /\ WF_vars(\/ Begin(r) \/ Unwind(r)
                  \/ AskDeadline(r) \/ AskCanceled(r) \/ AskStopping(r) \/ AskAgain(r)
                  \/ FinalInsert(r) \/ FinalProject(r) \/ RemoveRun(r))
       /\ WF_vars(ReconcileInsert(r) \/ ReconcileProject(r))
  /\ WF_vars(Booted)

FairSpec == Spec /\ Fairness

-----------------------------------------------------------------------------
(* Properties.                                                             *)

(* The read loop that is starting run r, or whose start was accepted but   *)
(* whose goroutine is not launched yet.                                    *)
Starts(h, r) ==
  /\ handler[h].cmd \in StartCmds /\ RunOf[handler[h].cmd] = r
  /\ \/ handler[h].pc \in {"insert", "project", "abort"}
     \/ handler[h].pc \in {"remember", "save", "launch"} /\ handler[h].status = "ok"

(* start inserts a run in Manager.active and two other places delete it by *)
(* run id (start's error path, the end of execute): every active run has   *)
(* exactly one party that will delete it, and nobody who would delete a    *)
(* run that is not there or that somebody else inserted.                   *)
OneOwner ==
  phase = "up" =>
    \A r \in Runs :
      /\ exec[r].pc # "none" =>
           /\ entry[r] # NoEntry /\ entry[r].cmd = exec[r].cmd
           /\ \A h \in Conns : ~Starts(h, r)
      /\ \A h \in Conns : Starts(h, r) =>
           /\ entry[r] # NoEntry /\ entry[r].cmd = handler[h].cmd
           /\ \A g \in Conns : Starts(g, r) => g = h
      /\ entry[r] # NoEntry =>
           exec[r].pc # "none" \/ \E h \in Conns : Starts(h, r)

(* max_concurrent_runs is never exceeded, whichever read loops race in     *)
(* start (the check and the insertion are one critical section).           *)
SlotsBounded == Cardinality(Active) <= MaxActive

(* Two active runs were never started for one session id: hasSession is    *)
(* checked against every alias in the critical section that inserts.       *)
SessionSerial ==
  \A r1, r2 \in Active :
    (r1 # r2 /\ SessionOf[entry[r1].cmd] = SessionOf[entry[r2].cmd])
      => SessionOf[entry[r1].cmd] = NoSession

(* A start the ack table accepts has its run.started in run_events, at     *)
(* every crash point and whichever statement fails: a redelivery answered  *)
(* from the table never stands for a run nobody will hear of.              *)
AcceptedIsStarted == \A c \in StartCmds : ackDb[c] = "ok" => log[RunOf[c]] # <<>>

(* Codex never ran for a command that the ack table would let start again, *)
(* whatever crashes or is redelivered in between, unless the statement     *)
(* that saves the ack failed: start launches the goroutine after it.       *)
LaunchedIsAcked ==
  \A c \in StartCmds : launches[c] > 0 => ackDb[c] # NoAck \/ "unsaved" \in doubts[c]

(* However often the server redelivers a command, on however many read     *)
(* loops, and wherever the agent crashed, codex is started for it at most  *)
(* once, but for three causes: its ack could not be saved, its row could   *)
(* not be read, or a loop had looked it up in vain when another saved it.  *)
AtMostOnceExecution == \A c \in StartCmds : launches[c] > 1 => doubts[c] # {}

(* Once the agent is up, a run the runs table shows as unfinished is one   *)
(* the manager is executing: SetAckStore closed all the others.            *)
NothingLeftRunning ==
  phase = "up" => \A r \in Runs : row[r] \in Unfinished => entry[r] # NoEntry

(* A run whose context stop had cancelled when execute first looked at it  *)
(* ends in run.stopped: stop marks the run before it cancels, whichever    *)
(* runs are deleted and admitted meanwhile, so the branch for a run that   *)
(* nobody stopped is not taken.  A stop that comes later may end the run   *)
(* in any kind.                                                            *)
StoppedNotFailed ==
  \A r \in Runs : exec[r].told /\ exec[r].pc \in {"insert", "project", "remove"}
                  => exec[r].kind = "run.stopped"

(* A run somebody asked to stop leaves Manager.active, even when the stop  *)
(* came before its goroutine started or its connection dropped meanwhile.  *)
StopEndsRun ==
  \A r \in Runs :
    (entry[r] # NoEntry /\ entry[r].stopping) ~> (entry[r] = NoEntry)

(* ARCHITECTURE: a run the user stopped ends in run.stopped, so that the   *)
(* projections tell it from a failure: also when stop killed the process   *)
(* and execute looks at its context at once.                               *)
KilledIsStopped ==
  [][\A r \in Runs :
       (/\ exec[r].pc # "insert" /\ exec'[r].pc = "insert" /\ ctx[r] # "deadline"
        /\ entry[r] # NoEntry /\ entry[r].killed)
         => exec'[r].kind = "run.stopped"]_vars

(* manager_test.go: a duplicate of an accepted command gets a replay of    *)
(* its ack, so an accepted command is never answered otherwise later.      *)
AcceptedAckKept ==
  [][\A c \in Commands : commands[c] = "ok" => commands'[c] \in {"ok", NoAck}]_vars

(* README: on startup, unfinished local runs are reconciled as interrupted *)
(* events, so a run whose last event is run.started is executing.          *)
UnfinishedReconciled ==
  phase = "up" =>
    \A r \in Runs :
      (log[r] # <<>> /\ log[r][Len(log[r])] = "run.started") => entry[r] # NoEntry

(* README, the other way round: a run that did finish is not reconciled as *)
(* interrupted; no final event follows another of the same run.            *)
FinishedNotInterrupted ==
  \A r \in Runs : \A i \in 1 .. Len(log[r]) - 1 :
    log[r][i] \in Terminal => log[r][i + 1] = "run.started"

(* ARCHITECTURE: runs of one session are serial so that two prompts never  *)
(* continue the same codex history: two executing runs never share their   *)
(* native thread.                                                          *)
ThreadSerial ==
  \A r1, r2 \in Runs :
    (r1 # r2 /\ exec[r1].pc = "work" /\ exec[r2].pc = "work")
      => NativeOf[exec[r1].cmd] # NativeOf[exec[r2].cmd]
=============================================================================
