-------------------------- MODULE CommandLifecycle --------------------------
(***************************************************************************)
(* The life of a command between dash, server and agent: the tables        *)
(* commands and runs (server/internal/store/events.go, dashboard.go), the  *)
(* HTTP handlers, the reconnect replay and the background dispatcher that  *)
(* claim and send commands (server/internal/app), the reader that applies  *)
(* acks, run events and heartbeats, and the agent seen from the server.    *)
(*                                                                         *)
(* A step is one SQL statement, or one transaction where the code opens    *)
(* one; the tables are shared, so every process sees the others' steps.    *)
(* A run is identified with the start command that creates it.             *)
(* The connection and the outbox are abstracted from RunEventOutbox, the   *)
(* agent from RunManager: an event reaches the server once, and the agent  *)
(* answers a command it knows from its ack table.                          *)
(***************************************************************************)
EXTENDS Naturals, Sequences, FiniteSets

CONSTANTS
  Starts,        (* new_session, resume and send commands, and their runs  *)
  Stops,         (* stop commands                                          *)
  StopRun,       (* run id a stop names, or NoRun                          *)
  SessionOf,     (* session id a command carries, or NoSession             *)
  Sessions,
  Workers,       (* subset of {"request", "replay", "dispatcher"}          *)
  Expirable,     (* bound: commands whose expires_at may pass              *)
  CanDisable,    (* TRUE: the agent may be disabled                        *)
  Beating,       (* TRUE: the agent sends heartbeats                       *)
  CanFill,       (* TRUE: the agent's send queue may be found full; FALSE: *)
                 (* a sender waits                                         *)
  Plans,         (* bound: the commands dash may send in one behaviour,    *)
                 (* with the lost connections and rejected messages and    *)
                 (* the crashes of the agent there may be beside them, and *)
                 (* the room in the agent's send queue and to the server   *)
  MaxCancels,    (* bound: cancelled contexts of dispatching processes     *)
  MaxRetries,    (* bound                                                  *)
  MaxChanges,    (* bound: retries, expiries and the disabling together    *)
  NoRun, NoSession, NoCmd, NoAck, NoBeat

Commands == Starts \cup Stops
Runs     == Starts

ASSUME CommandAssumption ==
  /\ IsFiniteSet(Commands) /\ Starts \cap Stops = {}
  /\ NoRun \notin Runs /\ NoSession \notin Sessions /\ NoCmd \notin Commands
  /\ StopRun \in [Stops -> Runs \cup {NoRun}]
  /\ SessionOf \in [Commands -> Sessions \cup {NoSession}]
  /\ \A s \in Stops : StopRun[s] # NoRun \/ SessionOf[s] # NoSession
  /\ Expirable \subseteq Commands

ASSUME BoundAssumption ==
  /\ Workers \subseteq {"request", "replay", "dispatcher"}
  /\ {CanDisable, Beating, CanFill} \subseteq BOOLEAN
  /\ Plans \subseteq [commands : SUBSET Commands, drops : Nat, crashes : Nat, window : Nat]
  /\ MaxCancels \in Nat /\ MaxRetries \in Nat /\ MaxChanges \in Nat

VARIABLES
  cmd,      (* commands.status                                             *)
  claim,    (* commands with an unexpired dispatch_claimed_until           *)
  past,     (* commands whose expires_at has passed                        *)
  target,   (* commands.run_id of the stops                                *)
  run,      (* runs.status                                                 *)
  old,      (* runs whose last_event_at left the heartbeat grace period    *)
  stored,   (* run_events: the lifecycle events the server has             *)
  disabled, (* agents.disabled_at is set                                   *)
  work,     (* Workers -> position of a dispatching process                *)
  reader,   (* position of the reader of the agent's connection            *)
  online,   (* the connection is up                                        *)
  inbox,    (* commands in the send queue and on the socket                *)
  up,       (* messages on their way to the server                         *)
  ackOf,    (* the agent's table command_acks                              *)
  reply,    (* the ack the read loop is about to send                      *)
  exec,     (* the agent's run: not started, active or over                *)
  out,      (* events in the agent's outbox, to be sent by its loop        *)
  beat,     (* the running runs a heartbeat is about to report             *)
  drops, cancels, crashes, retries

commandTable == <<cmd, claim, past, target>>
runTable     == <<run, old, stored>>
server  == <<commandTable, runTable, disabled, work, reader>>
link    == <<online, inbox, up>>
agent   == <<ackOf, reply, exec, out, beat>>
counted == <<drops, cancels, crashes, retries>>
vars    == <<server, link, agent, counted>>

Pending   == {"queued", "dispatched", "dispatch_failed"}
Closed    == {"done", "expired", "failed", "rejected", "stopped"}
RunActive == {"queued", "accepted", "running", "stopping"}
(* Statuses that block the dispatch of the command that creates the run.   *)
Blocked   == {"stopping", "stopped", "failed", "error", "expired", "rejected",
              "done", "stop_failed"}
CmdStatus == Pending \cup Closed \cup {"absent", "accepted", "running", "stop_failed"}
RunStatus == RunActive \cup Blocked \cup {"absent"}
Endings   == {"done", "error", "stopped"}
ExecActive == {"running", "stopping", "ending"}

Acks   == [type : {"ack"}, cmd : Commands, run : Runs \cup {NoRun}, status : {"ok", "rejected"}]
Events == [type : {"event"}, run : Runs, kind : {"started"} \cup Endings]
Beats  == [type : {"beat"}, runs : SUBSET Runs]
Event(r, kind) == [type |-> "event", run |-> r, kind |-> kind]

ASSUME NullAssumption == NoAck \notin Acks

WorkPC == {"idle", "retry", "claim", "sweep", "expire", "expireRuns", "next", "check",
           "send", "mark", "refuse", "endRun"}
ReadPC == {"idle", "ackRun", "beatRuns", "beatStale", "expire", "expireRuns"}
Rest     == [pc |-> "idle", cmd |-> NoCmd, access |-> TRUE, todo |-> {}, end |-> "failed",
             expired |-> {}]
RestRead == [pc |-> "idle", msg |-> NoAck, todo |-> {}, expired |-> {}]

TypeOK ==
  /\ cmd \in [Commands -> CmdStatus]
  /\ claim \subseteq Commands /\ past \subseteq Commands
  /\ target \in [Stops -> Runs \cup {NoRun}]
  /\ run \in [Runs -> RunStatus] /\ old \subseteq Runs /\ stored \subseteq Events
  /\ disabled \in BOOLEAN
  /\ work \in [Workers -> [pc : WorkPC, cmd : Commands \cup {NoCmd}, access : BOOLEAN,
                           todo : SUBSET Commands, expired : SUBSET Commands,
                           end : {"failed", "expired", "stopped", "dispatch_failed"}]]
  /\ reader \in [pc : ReadPC, msg : Acks \cup Beats \cup {NoAck}, expired : SUBSET Commands,
                 todo : SUBSET [run : Runs, status : RunStatus]]
  /\ online \in BOOLEAN /\ inbox \in Seq(Commands) /\ up \in Seq(Acks \cup Events \cup Beats)
  /\ ackOf \in [Commands -> Acks \cup {NoAck}] /\ reply \in Acks \cup {NoAck}
  /\ exec \in [Runs -> ExecActive \cup {"none", "over"}]
  /\ out \subseteq Events /\ beat \in Beats \cup {NoBeat}
  /\ drops \in Nat /\ cancels \in Nat /\ crashes \in Nat /\ retries \in Nat

Init ==
  /\ cmd = [c \in Commands |-> "absent"] /\ claim = {} /\ past = {}
  /\ target = [s \in Stops |-> NoRun]
  /\ run = [r \in Runs |-> "absent"] /\ old = {} /\ stored = {}
  /\ disabled = FALSE
  /\ work = [w \in Workers |-> Rest] /\ reader = RestRead
  /\ online = FALSE /\ inbox = <<>> /\ up = <<>>
  /\ ackOf = [c \in Commands |-> NoAck] /\ reply = NoAck
  /\ exec = [r \in Runs |-> "none"] /\ out = {} /\ beat = NoBeat
  /\ drops = 0 /\ cancels = 0 /\ crashes = 0 /\ retries = 0

Created == {c \in Commands : cmd[c] # "absent"}
Fits(p, commands, lost, died) ==
  commands \subseteq p.commands /\ lost <= p.drops /\ died <= p.crashes
Planned(commands, lost, died) == \E p \in Plans : Fits(p, commands, lost, died)
Fault(lost, died) ==
  /\ Planned(Created, drops + lost, crashes + died)
  /\ drops' = drops + lost /\ crashes' = crashes + died
Changeable ==
  retries + Cardinality(past) + Cardinality({x \in {disabled} : x}) < MaxChanges
RoomIn(q) == \E p \in Plans : Fits(p, Created, drops, crashes) /\ Len(q) < p.window

-----------------------------------------------------------------------------
(* Statements the processes share.                                         *)

(* UPDATE commands ... AND status IN (...): every such statement also      *)
(* clears the claim; a row in another status is left alone.                *)
SetCmd(c, from, to) ==
  /\ cmd' = IF cmd[c] \in from THEN [cmd EXCEPT ![c] = to] ELSE cmd
  /\ claim' = IF cmd[c] \in from THEN claim \ {c} ELSE claim

(* Unique index idx_runs_active_session, over ensureSessionHasNoActiveRun: *)
(* no other run of r's session is active.                                  *)
SessionFree(r) ==
  SessionOf[r] = NoSession
  \/ \A q \in Runs \ {r} : SessionOf[q] = SessionOf[r] => run[q] \notin RunActive

(* markRunForCommandTerminal.                                              *)
EndRun(c, status) ==
  run' = IF /\ c \in Starts
            /\ \/ run[c] \in {"queued", "accepted"}
               \/ status = "stopped" /\ run[c] = "stopping"
         THEN [run EXCEPT ![c] = status] ELSE run

-----------------------------------------------------------------------------
(* Process "request": the HTTP handlers of dash.                           *)

At(w, pc) == w \in Workers /\ work[w].pc = pc
Step(w, to) == work' = [work EXCEPT ![w].pc = to]
Refusing(w, end) == work' = [work EXCEPT ![w].pc = "refuse", ![w].end = end]
Proceed(w, S, to) == work' = [work EXCEPT ![w].pc = to, ![w].todo = S]
(* dispatchCommand returns: to the next command of a batch.                *)
Done(w) ==
  work' = [work EXCEPT ![w] = [Rest EXCEPT !.pc = IF w = "request" THEN "idle" ELSE "next",
                                           !.todo = work[w].todo]]
(* AccessError of the identity the handler loaded.                         *)
Asked == At("request", "idle") /\ ~disabled
Claiming(c) == work' = [work EXCEPT !["request"] = [Rest EXCEPT !.pc = "claim", !.cmd = c]]

(* handleDashCommand saves a start: one transaction.                       *)
SaveStart(c) ==
  /\ Asked /\ c \in Starts \ Created /\ Planned(Created \cup {c}, drops, crashes)
  /\ SessionFree(c)
  /\ cmd' = [cmd EXCEPT ![c] = "queued"]
  /\ run' = [run EXCEPT ![c] = "queued"]
  /\ Claiming(c)
  /\ UNCHANGED <<claim, past, target, old, stored, disabled, reader, link, agent, counted>>

(* The run a stop means: the one it names, or the newest active run of its *)
(* session (at most one is active).                                        *)
StopTargets(s) ==
  IF StopRun[s] # NoRun THEN {StopRun[s]}
  ELSE {r \in Runs : SessionOf[r] = SessionOf[s] /\ run[r] \in RunActive}

(* stopUndispatchedRunTx stops a run whose command nobody is sending.      *)
Undispatched(r) ==
  run[r] = "queued" /\ cmd[r] \in {"queued", "dispatch_failed"} /\ r \notin claim

(* handleDashCommand saves a stop: markStopRequestedTx in one transaction. *)
SaveStop(s) ==
  /\ Asked /\ s \in Stops \ Created /\ Planned(Created \cup {s}, drops, crashes)
  /\ StopRun[s] # NoRun => run[StopRun[s]] # "absent"
  /\ IF StopTargets(s) = {}
     THEN cmd' = [cmd EXCEPT ![s] = "done"] /\ UNCHANGED <<target, run>>
     ELSE \E r \in StopTargets(s) :
       /\ target' = [target EXCEPT ![s] = r]
       /\ \/ /\ Undispatched(r)
             /\ cmd' = [cmd EXCEPT ![r] = "stopped", ![s] = "done"]
             /\ run' = [run EXCEPT ![r] = "stopped"]
          \/ /\ ~Undispatched(r) /\ run[r] \in RunActive
             /\ cmd' = [cmd EXCEPT ![s] = "queued"]
             /\ run' = [run EXCEPT ![r] = "stopping"]
          \/ /\ run[r] \notin RunActive
             /\ cmd' = [cmd EXCEPT ![s] = "done"]
             /\ UNCHANGED run
  /\ Claiming(s)
  /\ UNCHANGED <<claim, past, old, stored, disabled, reader, link, agent, counted>>

(* handleDashCommandRetry reads the command and checks its status.         *)
Retryable == Pending \cup {"expired", "failed", "stop_failed"}

RetryRead(c) ==
  /\ Asked /\ retries < MaxRetries /\ Changeable /\ cmd[c] \in Retryable
  /\ retries' = retries + 1
  /\ work' = [work EXCEPT !["request"] = [Rest EXCEPT !.pc = "retry", !.cmd = c]]
  /\ UNCHANGED <<commandTable, runTable, disabled, reader, link, agent, drops, cancels, crashes>>

(* PrepareCommandRetry: one transaction, which fails when it would give the *)
(* session a second active run. Only the update of the command looks at    *)
(* its status again; that of the run of a start looks at nothing.          *)
RetryPrepare ==
  LET c == work["request"].cmd
      r == IF c \in Starts THEN c ELSE target[c]
      revives == r # NoRun /\ (c \in Starts \/ run[r] = "stop_failed")
      to == IF c \in Starts THEN "queued" ELSE "running"
  IN  /\ At("request", "retry")
      /\ \/ /\ revives /\ ~SessionFree(r)
            /\ Done("request") /\ UNCHANGED <<cmd, claim, past, run>>
         \/ /\ revives => SessionFree(r)
            /\ SetCmd(c, Retryable, "queued")
            /\ past' = IF cmd[c] \in Retryable THEN past \ {c} ELSE past
            /\ run' = IF revives THEN [run EXCEPT ![r] = to] ELSE run
            /\ Step("request", "claim")
      /\ UNCHANGED <<target, old, stored, disabled, reader, link, agent, counted>>

-----------------------------------------------------------------------------
(* Claiming and sending, common to the three dispatching processes.        *)

(* Mutant: a dispatched command is not sent again.                         *)
ClaimableOnce(c) ==
  /\ cmd[c] \in Pending \ {"dispatched"} /\ c \notin past /\ c \notin claim
  /\ c \in Starts => run[c] \notin Blocked

Claimable(c) ==
  /\ cmd[c] \in Pending /\ c \notin past /\ c \notin claim
  /\ c \in Starts => run[c] \notin Blocked

(* ClaimCommand, for the command the request saved or retried.             *)
ClaimOne ==
  LET c == work["request"].cmd
  IN  /\ At("request", "claim")
      /\ IF Claimable(c)
         THEN claim' = claim \cup {c} /\ Step("request", "check")
         ELSE claim' = claim /\ Done("request")
      /\ UNCHANGED <<cmd, past, target, runTable, disabled, reader, link, agent, counted>>

(* ClaimPendingCommands and ClaimDispatchCommands: rows that another       *)
(* statement has locked, and for the dispatcher those dispatched less than *)
(* 15 s ago, are left out.                                                 *)
ClaimBatch(w, S) ==
  /\ \/ w = "replay" /\ At(w, "claim") /\ Proceed(w, S, "next")
     \/ w = "dispatcher" /\ At(w, "idle") /\ S # {} /\ Proceed(w, S, "sweep")
  /\ \A c \in S : Claimable(c)
  /\ claim' = claim \cup S
  /\ UNCHANGED <<cmd, past, target, runTable, disabled, reader, link, agent, counted>>

(* One command of the batch; the dispatcher loads the agent for each.      *)
NextCommand(w) ==
  /\ At(w, "next")
  /\ \/ work[w].todo = {} /\ work' = [work EXCEPT ![w] = Rest]
     \/ \E c \in work[w].todo :
          work' = [work EXCEPT ![w].pc = "check", ![w].cmd = c, ![w].todo = @ \ {c},
                               ![w].access = w = "replay" \/ ~disabled]
  /\ UNCHANGED <<commandTable, runTable, disabled, reader, link, agent, counted>>

(* dispatchCommand: why a claimed command is not sent.                     *)
Refusal(w) ==
  LET c == work[w].cmd
  IN  CASE ~work[w].access                      -> "failed"
        [] c \in Starts /\ run[c] \in Blocked -> "stopped"
        [] c \in past                          -> "expired"
        [] OTHER                               -> "none"

Check(w) ==
  /\ At(w, "check")
  /\ IF Refusal(w) = "none" THEN Step(w, "send") ELSE Refusing(w, Refusal(w))
  /\ UNCHANGED <<commandTable, runTable, disabled, reader, link, agent, counted>>

(* MarkCommandFailed, MarkCommandStopped, MarkCommandExpired: the command, *)
(* then its run; MarkCommandDispatchFailed leaves the run alone.           *)
Refusable(end) ==
  CASE end = "dispatch_failed" -> Pending
    [] end = "stopped"         -> Pending \cup {"failed", "expired", "stopped"}
    [] OTHER                   -> Pending \cup {"failed", "expired"}

(* Mutant: the run ends with a dispatch that failed.                       *)
RefuseAndEndRun(w) ==
  /\ At(w, "refuse")
  /\ SetCmd(work[w].cmd, Refusable(work[w].end), work[w].end)
  /\ Step(w, "endRun")
  /\ UNCHANGED <<past, target, runTable, disabled, reader, link, agent, counted>>

Refuse(w) ==
  LET c == work[w].cmd
      end == work[w].end
  IN  /\ At(w, "refuse")
      /\ SetCmd(c, Refusable(end), end)
      /\ IF end = "dispatch_failed" THEN Done(w) ELSE Step(w, "endRun")
      /\ UNCHANGED <<past, target, runTable, disabled, reader, link, agent, counted>>

RefuseRun(w) ==
  /\ At(w, "endRun")
  /\ EndRun(work[w].cmd, work[w].end)
  /\ Done(w)
  /\ UNCHANGED <<commandTable, old, stored, disabled, reader, link, agent, counted>>

(* Hub.dispatchEnvelope: into the send queue, or it is full, or the agent  *)
(* is away and the claim stays until its lease ends.                       *)
Send(w) ==
  /\ At(w, "send")
  /\ \/ online /\ RoomIn(inbox)
       /\ inbox' = Append(inbox, work[w].cmd) /\ Step(w, "mark")
     \/ online /\ ~RoomIn(inbox) /\ CanFill
       /\ Refusing(w, "dispatch_failed") /\ UNCHANGED inbox
     \/ ~online /\ Done(w) /\ UNCHANGED inbox
  /\ UNCHANGED <<commandTable, runTable, disabled, reader, online, up, agent, counted>>

(* Mutant: MarkCommandDispatched without its status guard.                 *)
MarkUnguarded(w) ==
  /\ At(w, "mark")
  /\ SetCmd(work[w].cmd, CmdStatus, "dispatched")
  /\ Done(w)
  /\ UNCHANGED <<past, target, runTable, disabled, reader, link, agent, counted>>

(* MarkCommandDispatched, after the command is in the queue.               *)
Mark(w) ==
  /\ At(w, "mark")
  /\ SetCmd(work[w].cmd, Pending, "dispatched")
  /\ Done(w)
  /\ UNCHANGED <<past, target, runTable, disabled, reader, link, agent, counted>>

(* The context of a request or of the replay is cancelled.                 *)
Cancel(w) ==
  /\ w \in Workers \cap {"request", "replay"} /\ work[w].pc # "idle"
  /\ cancels < MaxCancels /\ cancels' = cancels + 1
  /\ work' = [work EXCEPT ![w] = Rest]
  /\ UNCHANGED <<commandTable, runTable, disabled, reader, link, agent, drops, crashes, retries>>

-----------------------------------------------------------------------------
(* ExpireCommands, run by the dispatcher for the agents it has commands    *)
(* of and by the reader after a heartbeat: SELECT, UPDATE, then the runs   *)
(* of the commands selected.                                               *)

Overdue == {c \in Commands : cmd[c] \in Pending /\ c \in past}

ExpireOverdue ==
  /\ cmd' = [c \in Commands |-> IF c \in Overdue THEN "expired" ELSE cmd[c]]
  /\ claim' = claim \ Overdue

ExpireRuns(S) ==
  run' = [r \in Runs |-> IF r \in S /\ run[r] \in {"queued", "accepted"}
                         THEN "expired" ELSE run[r]]

DispatcherSweep ==
  LET w == "dispatcher"
  IN  \/ /\ At(w, "sweep")
         /\ work' = [work EXCEPT ![w].pc = "expire", ![w].expired = Overdue]
         /\ UNCHANGED <<commandTable, runTable, disabled, reader, link, agent, counted>>
      \/ /\ At(w, "expire")
         /\ ExpireOverdue
         /\ Step(w, "expireRuns")
         /\ UNCHANGED <<past, target, runTable, disabled, reader, link, agent, counted>>
      \/ /\ At(w, "expireRuns")
         /\ ExpireRuns(work[w].expired)
         /\ Done(w)
         /\ UNCHANGED <<commandTable, old, stored, disabled, reader, link, agent, counted>>

-----------------------------------------------------------------------------
(* Time, the connection, the agent's access.                               *)

(* The claim lasts 30 seconds, whether or not the process that has it is   *)
(* still on its way to send the command.                                   *)
LeaseExpires(c) ==
  /\ c \in claim
  /\ claim' = claim \ {c}
  /\ UNCHANGED <<cmd, past, target, runTable, disabled, work, reader, link, agent, counted>>

Expire(c) ==
  /\ c \in Expirable \ past /\ Changeable /\ cmd[c] # "absent"
  /\ past' = past \cup {c}
  /\ UNCHANGED <<cmd, claim, target, runTable, disabled, work, reader, link, agent, counted>>

NoneBeating ==
  /\ beat = NoBeat /\ \A i \in DOMAIN up : up[i].type # "beat"
  /\ reader.pc \in {"idle", "ackRun"}

(* Two minutes without an event: four heartbeats, so none is on its way.   *)
Age(r) ==
  /\ Beating /\ r \notin old /\ run[r] \in RunActive
  /\ NoneBeating
  /\ old' = old \cup {r}
  /\ UNCHANGED <<commandTable, run, stored, disabled, work, reader, link, agent, counted>>

(* handleDashAgentAccess; the hub then closes the connection (Drop).       *)
Disable ==
  /\ CanDisable /\ Changeable /\ ~disabled
  /\ disabled' = TRUE
  /\ UNCHANGED <<commandTable, runTable, work, reader, link, agent, counted>>

Connect ==
  /\ ~online /\ ~disabled
  /\ online' = TRUE
  /\ work' = IF "replay" \in Workers
             THEN [work EXCEPT !["replay"] = [Rest EXCEPT !.pc = "claim"]] ELSE work
  /\ UNCHANGED <<commandTable, runTable, disabled, reader, inbox, up, agent, counted>>

(* Unacknowledged events are still in the outbox; commands and acks on the *)
(* connection are lost.                                                    *)
EventsIn(q) == {q[i] : i \in {j \in DOMAIN q : q[j].type = "event"}}

LoseLink ==
  /\ online' = FALSE /\ inbox' = <<>> /\ up' = <<>> /\ beat' = NoBeat

(* A handler of the read loop may send its ack on the next connection.     *)
Drop ==
  /\ online
  /\ \/ disabled /\ UNCHANGED <<drops, crashes>>
     \/ ~disabled /\ Fault(1, 0)
  /\ LoseLink
  /\ out' = out \cup EventsIn(up)
  /\ reply' \in {reply, NoAck}
  /\ UNCHANGED <<server, ackOf, exec, cancels, retries>>

(* The agent restarts: ReconcileInterruptedRuns reports its open runs.     *)
AgentCrash ==
  /\ Fault(0, 1)
  /\ LoseLink
  /\ reply' = NoAck
  /\ exec' = [r \in Runs |-> IF exec[r] \in ExecActive THEN "over" ELSE exec[r]]
  /\ out' = out \cup EventsIn(up)
            \cup {Event(r, "error") : r \in {q \in Runs : exec[q] \in {"running", "stopping"}}}
  /\ UNCHANGED <<server, ackOf, cancels, retries>>

-----------------------------------------------------------------------------
(* The agent, as RunManager and RunEventOutbox have it.                    *)

Room == RoomIn(up)
SameSession(c, r) == SessionOf[c] # NoSession /\ SessionOf[r] = SessionOf[c]
AgentActive == {r \in Runs : exec[r] \in ExecActive}
Ack(c, r, status) == [type |-> "ack", cmd |-> c, run |-> r, status |-> status]

(* The ack is saved before it is sent.                                     *)
Answer(c, ack) == reply' = ack /\ ackOf' = [ackOf EXCEPT ![c] = ack]

(* Manager.stop: the run named, or an active run of the session.           *)
AgentTargets(s) ==
  IF target[s] \in AgentActive THEN {target[s]} ELSE {r \in AgentActive : SameSession(s, r)}

StartAtAgent(c) ==
  \/ /\ \A r \in AgentActive : ~SameSession(c, r)
     /\ exec' = [exec EXCEPT ![c] = "running"]
     /\ up' = Append(up, Event(c, "started"))
     /\ Answer(c, Ack(c, c, "ok"))
  \/ /\ AgentActive # {}     (* session busy, or every slot taken          *)
     /\ Answer(c, Ack(c, c, "rejected"))
     /\ UNCHANGED <<exec, up>>

(* Mutant: a stop of a run the agent does not know is answered ok.         *)
StopAtAgentAnyway(s) ==
  \/ \E r \in AgentTargets(s) :
       /\ exec' = [exec EXCEPT ![r] = IF @ = "ending" THEN @ ELSE "stopping"]
       /\ Answer(s, Ack(s, r, "ok"))
  \/ /\ AgentTargets(s) = {}
     /\ Answer(s, Ack(s, target[s], "ok"))
     /\ UNCHANGED exec

StopAtAgent(s) ==
  \/ \E r \in AgentTargets(s) :
       /\ exec' = [exec EXCEPT ![r] = IF @ = "ending" THEN @ ELSE "stopping"]
       /\ Answer(s, Ack(s, r, "ok"))
  \/ /\ AgentTargets(s) = {}
     /\ Answer(s, Ack(s, target[s], "rejected"))
     /\ UNCHANGED exec

AgentRead ==
  /\ online /\ inbox # <<>> /\ reply = NoAck /\ Room
  /\ inbox' = Tail(inbox)
  /\ LET c == Head(inbox)
     IN  \/ /\ ackOf[c] # NoAck
            /\ reply' = ackOf[c] /\ UNCHANGED <<ackOf, exec, up>>
         \/ /\ ackOf[c] = NoAck /\ c \in Starts /\ StartAtAgent(c)
         \/ /\ ackOf[c] = NoAck /\ c \in Stops /\ StopAtAgent(c) /\ UNCHANGED up
  /\ UNCHANGED <<server, online, out, beat, counted>>

AgentReply ==
  /\ online /\ reply # NoAck /\ Room
  /\ up' = Append(up, reply) /\ reply' = NoAck
  /\ UNCHANGED <<server, online, inbox, ackOf, exec, out, beat, counted>>

(* Manager.execute reports the end, then forgets the run.                  *)
FinalEmit(r) ==
  /\ exec[r] \in {"running", "stopping"}
  /\ exec' = [exec EXCEPT ![r] = "ending"]
  /\ \E kind \in IF exec[r] = "stopping" THEN Endings ELSE {"done", "error"} :
       \/ online /\ Room /\ up' = Append(up, Event(r, kind)) /\ UNCHANGED out
       \/ ~online /\ out' = out \cup {Event(r, kind)} /\ UNCHANGED up
  /\ UNCHANGED <<server, online, inbox, ackOf, reply, beat, counted>>

FinalRemove(r) ==
  /\ exec[r] = "ending"
  /\ exec' = [exec EXCEPT ![r] = "over"]
  /\ UNCHANGED <<server, link, ackOf, reply, out, beat, counted>>

(* The outbox loop sends what is unacknowledged, oldest first.             *)
Flush(e) ==
  /\ online /\ Room /\ e \in out
  /\ e.kind # "started" => Event(e.run, "started") \notin out
  /\ up' = Append(up, e) /\ out' = out \ {e}
  /\ UNCHANGED <<server, online, inbox, ackOf, reply, exec, beat, counted>>

(* Client.heartbeat reads the running runs, then sends. Bound: heartbeats  *)
(* are 30 s apart, the last one has been handled.                          *)
BeatRead ==
  /\ Beating /\ online /\ NoneBeating
  /\ beat' = [type |-> "beat", runs |-> AgentActive]
  /\ UNCHANGED <<server, link, ackOf, reply, exec, out, counted>>

BeatSend ==
  /\ online /\ beat # NoBeat /\ Room
  /\ up' = Append(up, beat) /\ beat' = NoBeat
  /\ UNCHANGED <<server, online, inbox, ackOf, reply, exec, out, counted>>

-----------------------------------------------------------------------------
(* agentReader: one message at a time.                                     *)

At0(type) == reader.pc = "idle" /\ up # <<>> /\ Head(up).type = type

(* ReplayGuard.Accept rejects a message when another goroutine of the      *)
(* agent took a larger seq and wrote first; an event stays in the outbox.  *)
ReadRejected ==
  /\ reader.pc = "idle" /\ up # <<>>
  /\ Fault(1, 0)
  /\ up' = Tail(up)
  /\ out' = out \cup EventsIn(<<Head(up)>>)
  /\ UNCHANGED <<server, online, inbox, ackOf, reply, exec, beat, cancels, retries>>

(* UPDATE commands ... AND status NOT IN (...): all but the closed ones.   *)
SetOpen(c, to) == SetCmd(c, CmdStatus \ Closed, to)

(* MarkCommandAck of a start: the command, then its run.                   *)
AckStart(m) ==
  SetOpen(m.cmd, IF m.status = "rejected" THEN "rejected"
                 ELSE IF cmd[m.cmd] = "running" THEN "running" ELSE "accepted")

ReadStartAck ==
  LET m == Head(up)
  IN  /\ At0("ack") /\ m.cmd \in Starts
      /\ AckStart(m)
      /\ up' = Tail(up)
      /\ reader' = [RestRead EXCEPT !.pc = "ackRun", !.msg = m]
      /\ UNCHANGED <<past, target, runTable, disabled, work, online, inbox, agent, counted>>

(* Mutant: markRunAcceptedFromCommandAck without its status guard.         *)
AckRunUnguarded ==
  LET m == reader.msg
  IN  /\ reader.pc = "ackRun"
      /\ \/ m.status = "rejected" /\ EndRun(m.cmd, "rejected")
         \/ m.status = "ok" /\ run' = [run EXCEPT ![m.run] = "accepted"]
      /\ reader' = RestRead
      /\ UNCHANGED <<commandTable, old, stored, disabled, work, link, agent, counted>>

(* markRunForCommandTerminal or markRunAcceptedFromCommandAck.             *)
AckRun ==
  LET m == reader.msg
  IN  /\ reader.pc = "ackRun"
      /\ \/ m.status = "rejected" /\ EndRun(m.cmd, "rejected")
         \/ /\ m.status = "ok"
            /\ run' = IF run[m.run] = "queued" THEN [run EXCEPT ![m.run] = "accepted"] ELSE run
      /\ reader' = RestRead
      /\ UNCHANGED <<commandTable, old, stored, disabled, work, link, agent, counted>>

(* markStopCommandAck: one transaction.                                    *)
ReadStopAck ==
  LET m == Head(up)
      r == m.run
      ok == m.status = "ok"
  IN  /\ At0("ack") /\ m.cmd \in Stops
      /\ SetOpen(m.cmd, IF ok THEN "done" ELSE "stop_failed")
      /\ target' = IF cmd[m.cmd] \in Closed \/ r = NoRun THEN target
                   ELSE [target EXCEPT ![m.cmd] = r]
      /\ run' = IF r = NoRun THEN run
                ELSE IF ok /\ run[r] \in RunActive THEN [run EXCEPT ![r] = "stopping"]
                ELSE IF ~ok /\ run[r] = "stopping" THEN [run EXCEPT ![r] = "stop_failed"]
                ELSE run
      /\ up' = Tail(up)
      /\ UNCHANGED <<past, old, stored, disabled, work, reader, online, inbox, agent, counted>>

(* SaveRunEvent: one transaction, which fails, and leaves the event in the *)
(* agent's outbox, when it would give the session a second active run.     *)
ReadEvent ==
  LET m == Head(up)
      r == m.run
  IN  /\ At0("event")
      /\ \/ /\ m.kind = "started" /\ ~SessionFree(r)
            /\ out' = out \cup {m}
            /\ UNCHANGED <<cmd, claim, run, old, stored>>
         \/ /\ m.kind = "started" => SessionFree(r)
            /\ run' = [run EXCEPT ![r] = IF m.kind = "started" THEN "running" ELSE m.kind]
            /\ SetOpen(r, CASE m.kind = "started" -> "running"
                            [] m.kind = "error"   -> "failed"
                            [] OTHER              -> m.kind)
            /\ old' = old \ {r} /\ stored' = stored \cup {m}
            /\ UNCHANGED out
      /\ up' = Tail(up)
      /\ UNCHANGED <<past, target, disabled, work, reader, online, inbox, ackOf, reply, exec,
                     beat, counted>>

(* ReconcileHeartbeatRuns: an UPDATE for each run reported, a SELECT of    *)
(* the old runs, and a transaction for each that is not reported, by the   *)
(* status the SELECT read.                                                 *)
ReadBeat ==
  LET m == Head(up)
  IN  /\ At0("beat")
      /\ reader' = [RestRead EXCEPT !.pc = "beatRuns", !.msg = m,
                                    !.todo = {[run |-> r, status |-> run[r]] : r \in m.runs}]
      /\ up' = Tail(up)
      /\ UNCHANGED <<commandTable, runTable, disabled, work, online, inbox, agent, counted>>

BeatRun(x) ==
  LET live == run[x.run] \in {"queued", "accepted", "running"}
  IN  /\ reader.pc = "beatRuns" /\ x \in reader.todo
      /\ run' = IF live THEN [run EXCEPT ![x.run] = "running"] ELSE run
      /\ old' = IF live THEN old \ {x.run} ELSE old
      /\ reader' = [reader EXCEPT !.todo = @ \ {x}]
      /\ UNCHANGED <<commandTable, stored, disabled, work, link, agent, counted>>

BeatScan ==
  /\ reader.pc = "beatRuns" /\ reader.todo = {}
  /\ reader' = [reader EXCEPT !.pc = "beatStale",
                  !.todo = {[run |-> r, status |-> run[r]] :
                              r \in {q \in old \ reader.msg.runs : run[q] \in {"running", "stopping"}}}]
  /\ UNCHANGED <<commandTable, runTable, disabled, work, link, agent, counted>>

(* reconcileMissingHeartbeatRun; the command changes even when the run's   *)
(* status does not.                                                        *)
BeatMissing(x) ==
  LET to == IF x.status = "stopping" THEN "stop_failed" ELSE "failed"
  IN  /\ reader.pc = "beatStale" /\ x \in reader.todo
      /\ run' = IF run[x.run] \in {"running", "stopping"} THEN [run EXCEPT ![x.run] = to] ELSE run
      /\ old' = IF run[x.run] \in {"running", "stopping"} THEN old \ {x.run} ELSE old
      /\ SetOpen(x.run, to)
      /\ reader' = [reader EXCEPT !.todo = @ \ {x}]
      /\ UNCHANGED <<past, target, stored, disabled, work, link, agent, counted>>

ReaderSweep ==
  \/ /\ reader.pc = "beatStale" /\ reader.todo = {}
     /\ reader' = [RestRead EXCEPT !.pc = "expire", !.expired = Overdue]
     /\ UNCHANGED <<commandTable, runTable, disabled, work, link, agent, counted>>
  \/ /\ reader.pc = "expire"
     /\ ExpireOverdue
     /\ reader' = [reader EXCEPT !.pc = "expireRuns"]
     /\ UNCHANGED <<past, target, runTable, disabled, work, link, agent, counted>>
  \/ /\ reader.pc = "expireRuns"
     /\ ExpireRuns(reader.expired)
     /\ reader' = RestRead
     /\ UNCHANGED <<commandTable, old, stored, disabled, work, link, agent, counted>>

-----------------------------------------------------------------------------
RequestStep == (\E c \in Commands : SaveStart(c) \/ SaveStop(c) \/ RetryRead(c))
               \/ RetryPrepare \/ ClaimOne
DispatchStep(w) == NextCommand(w) \/ Check(w) \/ Send(w) \/ Mark(w) \/ Refuse(w) \/ RefuseRun(w)
ReaderStep == \/ ReadStartAck \/ AckRun \/ ReadStopAck \/ ReadEvent \/ ReadBeat
              \/ (\E x \in reader.todo : BeatRun(x) \/ BeatMissing(x))
              \/ BeatScan \/ ReaderSweep
LinkStep   == Connect \/ Drop \/ ReadRejected \/ Disable \/ AgentCrash
TimeStep   == \/ \E c \in Commands : LeaseExpires(c) \/ Expire(c)
              \/ \E r \in Runs : Age(r)
AgentStep  == \/ AgentRead \/ AgentReply \/ BeatRead \/ BeatSend
              \/ (\E r \in Runs : FinalEmit(r) \/ FinalRemove(r))
              \/ \E e \in out : Flush(e)

Next ==
  \/ RequestStep
  \/ \E w \in Workers : DispatchStep(w) \/ Cancel(w) \/ \E S \in SUBSET Commands : ClaimBatch(w, S)
  \/ DispatcherSweep \/ ReaderStep \/ LinkStep \/ TimeStep \/ AgentStep

Spec == Init /\ [][Next]_vars

(* The server's processes keep running, a claim lapses, the dispatcher     *)
(* does not skip a row for ever (its 15 s and the locks of others end),    *)
(* the hub closes a disabled agent's connection, and a connected agent     *)
(* reads, answers and beats; but it need not connect.                      *)
ServerFairness ==
  /\ WF_vars(RetryPrepare) /\ WF_vars(ClaimOne) /\ WF_vars(DispatcherSweep) /\ WF_vars(ReaderStep)
  /\ \A w \in Workers : WF_vars(DispatchStep(w))
  /\ \A c \in Commands :
       /\ SF_vars(\E S \in SUBSET Commands : c \in S /\ ClaimBatch("dispatcher", S))
       /\ WF_vars(LeaseExpires(c))
  /\ WF_vars(disabled /\ Drop)

AgentFairness == WF_vars(AgentRead) /\ WF_vars(AgentReply) /\ WF_vars(BeatRead) /\ WF_vars(BeatSend)

AwaySpec == Spec /\ ServerFairness /\ AgentFairness

(* The agent also reconnects and flushes; a run that was told to stop ends *)
(* (its context is cancelled), another one may not.                        *)
FairSpec ==
  /\ AwaySpec
  /\ WF_vars(Connect)
  /\ WF_vars(\E e \in out : Flush(e))
  /\ \A r \in Runs : WF_vars(FinalRemove(r)) /\ WF_vars(exec[r] = "stopping" /\ FinalEmit(r))

-----------------------------------------------------------------------------
(* A command the agent answered, or that ran, never goes back to waiting   *)
(* for dispatch: the late MarkCommandDispatched of hub.go:307-313, after   *)
(* the ack, must not send the prompt again.                                *)
Answered == {"accepted", "running", "done", "rejected", "stopped"}
AnsweredNotPending ==
  [][\A c \in Commands : cmd[c] \in Answered => cmd'[c] \notin Pending]_vars

(* A stop the agent was asked, and that dash sees as done, names a run     *)
(* that was told to stop: it never works again, and no copy of its start   *)
(* that is sent later makes it, whatever lapses, is lost, sent twice,      *)
(* replayed, retried or refused meanwhile.                                 *)
AnsweredStopMeansStopped ==
  \A s \in Stops : cmd[s] = "done" /\ ackOf[s] # NoAck =>
    target[s] # NoRun /\ exec[target[s]] \in {"stopping", "ending", "over"}

(* Not so when the server closes the stop without asking the agent: it     *)
(* may take a start for undispatched that is on its way, or a run for over *)
(* that is not (README, section 4).                                        *)
EveryStopDoneMeansStopped ==
  \A s \in Stops : cmd[s] = "done" /\ target[s] # NoRun => exec[target[s]] # "running"

(* The run a stop finds queued and unclaimed is "stopped before agent      *)
(* dispatch" (events.go:1031): the agent has not been given its command.   *)
StoppedBeforeDispatch ==
  [][\A s \in Stops, r \in Runs :
       (cmd[s] = "absent" /\ cmd'[s] = "done" /\ run[r] = "queued" /\ run'[r] = "stopped")
       => (exec[r] = "none" /\ \A i \in DOMAIN inbox : inbox[i] # r)]_vars

(* Once the final event of a run is stored, no ack, heartbeat, expiry,     *)
(* refusal or stop changes the run: only a retry of its command, and its   *)
(* own run.started, when that is stored after the final event (README).    *)
FinishedRunKept ==
  [][\A e \in stored : e.kind \in Endings /\ run[e.run] = e.kind =>
       \/ run'[e.run] = e.kind
       \/ Event(e.run, "started") \in stored' \ stored
       \/ At("request", "retry") /\ work["request"].cmd = e.run]_vars

(* A run the server created does not stay waiting: its command reaches the *)
(* agent, or it is given up.                                               *)
RunSettles ==
  \A r \in Runs : (run[r] \in {"queued", "accepted"}) ~> (run[r] \notin {"queued", "accepted"})

(* README.md: failed and expired commands can be retried; the run a retry  *)
(* puts back to queued starts or is given up.                              *)
RetriedRunEnds == RunSettles

(* ARCHITECTURE.md: the commands of a disabled agent do not stay pending.  *)
DisabledSettles ==
  \A c \in Commands : (disabled /\ cmd[c] \in Pending) ~> (cmd[c] \notin Pending)

(* ARCHITECTURE.md: the dispatcher deals with the commands that expired.   *)
ExpiredSettles ==
  \A c \in Commands : (c \in past /\ cmd[c] \in Pending) ~> (cmd[c] \notin Pending \/ c \notin past)
=============================================================================
