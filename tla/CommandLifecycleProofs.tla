----------------------- MODULE CommandLifecycleProofs -----------------------
(* Theorems about CommandLifecycle, for every set of starts, stops and     *)
(* sessions, whichever processes dispatch, and every bound: a command that *)
(* was answered is not sent again, a run that finished stays finished, and *)
(* a run never works again once a stop the agent answered is done.         *)
EXTENDS CommandLifecycle, FiniteSetTheorems, SequenceTheorems, TLAPS

-----------------------------------------------------------------------------
(* The inductive invariant.                                                *)

(* A dispatching process holds commands that dash sent, one when it is to  *)
(* claim, send, mark or refuse it; only a refusal for good ends a run.     *)
Handles(w, x, sent) ==
  /\ x.pc \in {"retry", "check", "send", "mark", "refuse", "endRun"} => x.cmd # NoCmd
  /\ w = "request" /\ x.pc = "claim" => x.cmd # NoCmd
  /\ x.pc = "endRun" => x.end # "dispatch_failed"
  /\ x.cmd # NoCmd => x.cmd \in sent
  /\ x.todo \subseteq sent

Handling ==
  /\ \A w \in Workers : Handles(w, work[w], Created)
  /\ reader.pc = "ackRun" => reader.msg \in Acks

(* The agent works on what it was sent, and remembers what it started.     *)
WasSent  == \A i \in 1 .. Len(inbox) : inbox[i] \in Created
WasAcked == \A r \in Runs : exec[r] # "none" => r \in Created /\ ackOf[r] # NoAck
Working  == WasSent /\ WasAcked

(* An event is at one place between the agent and the server's table, and  *)
(* a run has one final event, which its goroutine emitted at its end.      *)
Known == out \cup stored \cup EventsIn(up)

Once(q) == \A i, j \in 1 .. Len(q) : q[i] = q[j] /\ q[i].type = "event" => i = j

OnePlace ==
  /\ Once(up)
  /\ out \cap EventsIn(up) = {} /\ stored \cap EventsIn(up) = {} /\ out \cap stored = {}

OneEnd ==
  /\ \A e \in Known : /\ exec[e.run] # "none"
                      /\ e.kind \in Endings => exec[e.run] \in {"ending", "over"}
  /\ \A d, e \in Known : d.run = e.run /\ d.kind \in Endings /\ e.kind \in Endings => d = e

LifeInv == TypeOK /\ Handling /\ Working /\ OnePlace /\ OneEnd

-----------------------------------------------------------------------------
(* Types: the tables, the server's processes, and the agent with the link. *)

Ends == {"failed", "expired", "stopped", "dispatch_failed"}
WorkType == [pc : WorkPC, cmd : Commands \cup {NoCmd}, access : BOOLEAN,
             todo : SUBSET Commands, expired : SUBSET Commands, end : Ends]
ReadType == [pc : ReadPC, msg : Acks \cup Beats \cup {NoAck}, expired : SUBSET Commands,
             todo : SUBSET [run : Runs, status : RunStatus]]
Messages == Acks \cup Events \cup Beats

TablesType ==
  /\ cmd \in [Commands -> CmdStatus]
  /\ claim \subseteq Commands /\ past \subseteq Commands
  /\ target \in [Stops -> Runs \cup {NoRun}]
  /\ run \in [Runs -> RunStatus] /\ old \subseteq Runs /\ stored \subseteq Events
  /\ disabled \in BOOLEAN

LinkType == online \in BOOLEAN /\ inbox \in Seq(Commands) /\ up \in Seq(Messages)

AgentType ==
  /\ ackOf \in [Commands -> Acks \cup {NoAck}] /\ reply \in Acks \cup {NoAck}
  /\ exec \in [Runs -> ExecActive \cup {"none", "over"}]
  /\ out \subseteq Events /\ beat \in Beats \cup {NoBeat}

CountedType == drops \in Nat /\ cancels \in Nat /\ crashes \in Nat /\ retries \in Nat

LEMMA TypeParts ==
  TypeOK <=> /\ TablesType /\ work \in [Workers -> WorkType] /\ reader \in ReadType
             /\ LinkType /\ AgentType /\ CountedType
BY DEF TypeOK, TablesType, LinkType, AgentType, CountedType, WorkType, ReadType, Messages, Ends

LEMMA NextTypeParts ==
  /\ TablesType' /\ work' \in [Workers -> WorkType] /\ reader' \in ReadType
  /\ LinkType' /\ AgentType' /\ CountedType'
  => TypeOK'
BY DEF TypeOK, TablesType, LinkType, AgentType, CountedType, WorkType, ReadType, Messages, Ends

LEMMA Kinds ==
  /\ Starts \subseteq Commands /\ Stops \subseteq Commands /\ Runs = Starts
  /\ NoCmd \notin Commands /\ NoRun \notin Runs
  /\ CmdStatus = {"queued", "dispatched", "dispatch_failed", "done", "expired", "failed",
                  "rejected", "stopped", "absent", "accepted", "running", "stop_failed"}
  /\ RunStatus = {"queued", "accepted", "running", "stopping", "stopped", "failed", "error",
                  "expired", "rejected", "done", "stop_failed", "absent"}
BY CommandAssumption
   DEF Commands, Runs, CmdStatus, Pending, Closed, RunStatus, RunActive, Blocked

(* What a statement on one command does to the table.                      *)
LEMMA SetCmdType ==
  ASSUME TablesType, NEW c, NEW from, NEW to \in CmdStatus \ {"absent"}, SetCmd(c, from, to)
  PROVE  /\ cmd' \in [Commands -> CmdStatus] /\ claim' \subseteq Commands
         /\ Created \subseteq Created'
         /\ \A d \in Commands : cmd'[d] = cmd[d] \/ (d = c /\ cmd[d] \in from /\ cmd'[d] = to)
BY DEF TablesType, SetCmd, Created

LEMMA EndRunType ==
  ASSUME TablesType, NEW c, NEW to \in RunStatus, EndRun(c, to)
  PROVE  /\ run' \in [Runs -> RunStatus]
         /\ \A r \in Runs : run'[r] = run[r] \/ run[r] \in {"queued", "accepted", "stopping"}
BY DEF TablesType, EndRun

(* A process goes on with what it holds, or with something it was given.   *)
LEMMA WorkerMoves ==
  ASSUME work \in [Workers -> WorkType], Handling, NEW w \in Workers, NEW x \in WorkType,
         work' = [work EXCEPT ![w] = x], Handles(w, x, Created'), Created \subseteq Created',
         UNCHANGED reader
  PROVE  work' \in [Workers -> WorkType] /\ Handling'
BY DEF Handling, Handles

LEMMA RestType == Rest \in WorkType /\ \A w, sent : Handles(w, Rest, sent)
BY DEF Rest, WorkType, WorkPC, Ends, Handles

LEMMA Steps ==
  ASSUME work \in [Workers -> WorkType], Handling, NEW w \in Workers, NEW to \in WorkPC,
         Step(w, to), work[w].cmd # NoCmd \/ to \in {"expire", "expireRuns"},
         to # "endRun" \/ work[w].end # "dispatch_failed",
         Created \subseteq Created', UNCHANGED reader
  PROVE  work' \in [Workers -> WorkType] /\ Handling'
<1> DEFINE x == [work[w] EXCEPT !.pc = to]
<1>1. x \in WorkType /\ x.pc = to /\ x.cmd = work[w].cmd /\ x.end = work[w].end /\ x.todo = work[w].todo
  BY DEF WorkType
<1>2. work' = [work EXCEPT ![w] = x]
  BY DEF Step
<1>3. Handles(w, x, Created')
  BY <1>1 DEF Handling, Handles
<1>4. QED
  BY <1>1, <1>2, <1>3, WorkerMoves

LEMMA Finishes ==
  ASSUME work \in [Workers -> WorkType], Handling, NEW w \in Workers, Done(w),
         Created \subseteq Created', UNCHANGED reader
  PROVE  work' \in [Workers -> WorkType] /\ Handling'
<1> DEFINE x == [Rest EXCEPT !.pc = IF w = "request" THEN "idle" ELSE "next", !.todo = work[w].todo]
<1>1. x \in WorkType /\ x.pc \in {"idle", "next"} /\ x.cmd = NoCmd /\ x.todo = work[w].todo
  BY RestType DEF WorkType, WorkPC, Rest
<1>2. work' = [work EXCEPT ![w] = x]
  BY DEF Done
<1>3. Handles(w, x, Created')
  BY <1>1 DEF Handling, Handles
<1>4. QED
  BY <1>1, <1>2, <1>3, WorkerMoves

LEMMA Refuses ==
  ASSUME work \in [Workers -> WorkType], Handling, NEW w \in Workers, NEW end \in Ends,
         Refusing(w, end), work[w].cmd # NoCmd, Created \subseteq Created', UNCHANGED reader
  PROVE  work' \in [Workers -> WorkType] /\ Handling'
<1> DEFINE x == [work[w] EXCEPT !.pc = "refuse", !.end = end]
<1>1. x \in WorkType /\ x.pc = "refuse" /\ x.cmd = work[w].cmd /\ x.todo = work[w].todo
  BY DEF WorkType, WorkPC
<1>2. work' = [work EXCEPT ![w] = x]
  BY DEF Refusing
<1>3. Handles(w, x, Created')
  BY <1>1 DEF Handling, Handles
<1>4. QED
  BY <1>1, <1>2, <1>3, WorkerMoves

LEMMA Claims ==
  ASSUME work \in [Workers -> WorkType], Handling, At("request", "idle"),
         NEW c \in Commands, NEW pc \in {"claim", "retry"}, c \in Created', Created \subseteq Created',
         work' = [work EXCEPT !["request"] = [Rest EXCEPT !.pc = pc, !.cmd = c]],
         UNCHANGED reader
  PROVE  work' \in [Workers -> WorkType] /\ Handling'
<1> DEFINE x == [Rest EXCEPT !.pc = pc, !.cmd = c]
<1>1. x \in WorkType /\ x.pc = pc /\ x.cmd = c /\ x.todo = {}
  BY RestType DEF WorkType, WorkPC, Rest
<1>2. Handles("request", x, Created')
  BY <1>1, Kinds DEF Handles
<1>3. QED
  BY <1>1, <1>2, WorkerMoves DEF At

-----------------------------------------------------------------------------
(* The dispatching processes.                                              *)

LEMMA RequestTypes ==
  ASSUME TypeOK, Handling, RequestStep
  PROVE  TypeOK' /\ Handling' /\ Created \subseteq Created'
<1> USE DEF commandTable, runTable, link, agent, counted
<1>1. /\ TablesType /\ work \in [Workers -> WorkType] /\ LinkType /\ AgentType /\ CountedType
      /\ reader \in ReadType
  BY TypeParts
<1>2. ASSUME TablesType', work' \in [Workers -> WorkType], UNCHANGED <<reader, link, agent>>,
             CountedType'
      PROVE  TypeOK'
  BY <1>1, <1>2, NextTypeParts DEF LinkType, AgentType
<1>3. ASSUME NEW c \in Commands, SaveStart(c)
      PROVE  TypeOK' /\ Handling' /\ Created \subseteq Created'
  <2>1. /\ c \in Starts /\ cmd' = [cmd EXCEPT ![c] = "queued"] /\ run' = [run EXCEPT ![c] = "queued"]
        /\ UNCHANGED <<claim, past, target, old, stored, disabled, reader, link, agent, counted>>
        /\ At("request", "idle")
        /\ work' = [work EXCEPT !["request"] = [Rest EXCEPT !.pc = "claim", !.cmd = c]]
    BY <1>3 DEF SaveStart, Asked, Claiming
  <2>2. TablesType' /\ c \in Created' /\ Created \subseteq Created'
    BY <1>1, <2>1, Kinds DEF TablesType, Created
  <2>3. work' \in [Workers -> WorkType] /\ Handling'
    BY <1>1, <2>1, <2>2, Claims
  <2>4. QED
    BY <1>1, <1>2, <2>1, <2>2, <2>3 DEF CountedType
<1>4. ASSUME NEW s \in Commands, SaveStop(s)
      PROVE  TypeOK' /\ Handling' /\ Created \subseteq Created'
  <2>1. /\ s \in Stops /\ At("request", "idle")
        /\ work' = [work EXCEPT !["request"] = [Rest EXCEPT !.pc = "claim", !.cmd = s]]
        /\ UNCHANGED <<claim, past, old, stored, disabled, reader, link, agent, counted>>
    BY <1>4 DEF SaveStop, Asked, Claiming
  <2>2. TablesType' /\ s \in Created' /\ Created \subseteq Created'
    <3>1. CASE cmd' = [cmd EXCEPT ![s] = "done"] /\ UNCHANGED <<target, run>>
      BY <1>1, <2>1, <3>1, Kinds DEF TablesType, Created
    <3>2. ASSUME NEW r \in Runs, target' = [target EXCEPT ![s] = r],
                 \/ /\ cmd' = [cmd EXCEPT ![r] = "stopped", ![s] = "done"]
                    /\ run' = [run EXCEPT ![r] = "stopped"]
                 \/ /\ cmd' = [cmd EXCEPT ![s] = "queued"]
                    /\ run' = [run EXCEPT ![r] = "stopping"]
                 \/ cmd' = [cmd EXCEPT ![s] = "done"] /\ UNCHANGED run
          PROVE  TablesType' /\ s \in Created' /\ Created \subseteq Created'
      BY <1>1, <2>1, <3>2, Kinds DEF TablesType, Created
    <3>3. \A r \in StopTargets(s) : r \in Runs
      BY <2>1, CommandAssumption DEF StopTargets
    <3>4. QED
      BY <1>4, <3>1, <3>2, <3>3 DEF SaveStop
  <2>3. work' \in [Workers -> WorkType] /\ Handling'
    BY <1>1, <2>1, <2>2, Claims, Kinds
  <2>4. QED
    BY <1>1, <1>2, <2>1, <2>2, <2>3 DEF CountedType
<1>5. ASSUME NEW c \in Commands, RetryRead(c)
      PROVE  TypeOK' /\ Handling' /\ Created \subseteq Created'
  <2>1. /\ cmd[c] \in Retryable /\ retries' = retries + 1 /\ At("request", "idle")
        /\ work' = [work EXCEPT !["request"] = [Rest EXCEPT !.pc = "retry", !.cmd = c]]
        /\ UNCHANGED <<commandTable, runTable, disabled, reader, link, agent, drops, cancels, crashes>>
    BY <1>5 DEF RetryRead, Asked
  <2>2. TablesType' /\ c \in Created' /\ Created \subseteq Created'
    BY <1>1, <2>1 DEF TablesType, Created, Retryable, Pending
  <2>3. work' \in [Workers -> WorkType] /\ Handling'
    BY <1>1, <2>1, <2>2, Claims
  <2>4. CountedType'
    BY <1>1, <2>1 DEF CountedType
  <2>5. QED
    BY <1>2, <2>1, <2>2, <2>3, <2>4
<1>6. CASE RetryPrepare
  <2> DEFINE c == work["request"].cmd
             r == IF c \in Starts THEN c ELSE target[c]
  <2>1. /\ "request" \in Workers /\ work["request"].pc = "retry" /\ c # NoCmd
        /\ UNCHANGED <<target, old, stored, disabled, reader, link, agent, counted>>
    BY <1>6 DEF RetryPrepare, At, Handling, Handles
  <2>2. CASE Done("request") /\ UNCHANGED <<cmd, claim, past, run>>
    <3>1. TablesType' /\ Created \subseteq Created'
      BY <1>1, <2>1, <2>2 DEF TablesType, Created
    <3>2. work' \in [Workers -> WorkType] /\ Handling'
      BY <1>1, <2>1, <2>2, <3>1, Finishes
    <3>3. QED
      BY <1>1, <1>2, <2>1, <3>1, <3>2 DEF CountedType
  <2>3. CASE /\ SetCmd(c, Retryable, "queued") /\ past' \in {past, past \ {c}}
             /\ \E to \in {"queued", "running"} : run' \in {run, [run EXCEPT ![r] = to]}
             /\ Step("request", "claim")
    <3>1. TablesType' /\ Created \subseteq Created'
      <4>1. /\ cmd' \in [Commands -> CmdStatus] /\ claim' \subseteq Commands
            /\ Created \subseteq Created'
        BY <1>1, <2>3, SetCmdType, Kinds
      <4>2. run' \in [Runs -> RunStatus]
        BY <1>1, <2>3, Kinds DEF TablesType
      <4>3. past' \subseteq Commands
        BY <1>1, <2>3 DEF TablesType
      <4>4. QED
        BY <1>1, <2>1, <4>1, <4>2, <4>3 DEF TablesType
    <3>2. work' \in [Workers -> WorkType] /\ Handling'
      BY <1>1, <2>1, <2>3, <3>1, Steps DEF WorkPC
    <3>3. QED
      BY <1>1, <1>2, <2>1, <3>1, <3>2 DEF CountedType
  <2>4. QED
    BY <1>6, <2>2, <2>3 DEF RetryPrepare
<1>7. CASE ClaimOne
  <2> DEFINE c == work["request"].cmd
  <2>1. /\ "request" \in Workers /\ c # NoCmd /\ c \in Commands
        /\ UNCHANGED <<cmd, past, target, runTable, disabled, reader, link, agent, counted>>
    BY <1>1, <1>7 DEF ClaimOne, At, Handling, Handles, WorkType
  <2>2. TablesType' /\ Created \subseteq Created'
    BY <1>1, <1>7, <2>1 DEF TablesType, Created, ClaimOne
  <2>3. work' \in [Workers -> WorkType] /\ Handling'
    <3>1. Step("request", "check") \/ Done("request")
      BY <1>7 DEF ClaimOne
    <3>2. QED
      BY <1>1, <2>1, <2>2, <3>1, Steps, Finishes DEF WorkPC
  <2>4. QED
    BY <1>1, <1>2, <2>1, <2>2, <2>3 DEF CountedType
<1>8. QED
  BY <1>3, <1>4, <1>5, <1>6, <1>7 DEF RequestStep

LEMMA DispatchTypes ==
  ASSUME TypeOK, Handling, NEW w \in Workers,
         DispatchStep(w) \/ Cancel(w) \/ \E S \in SUBSET Commands : ClaimBatch(w, S)
  PROVE  TypeOK' /\ Handling' /\ Created \subseteq Created'
<1> USE DEF commandTable, runTable, link, agent, counted
<1>1. /\ TablesType /\ work \in [Workers -> WorkType] /\ LinkType /\ AgentType /\ CountedType
      /\ reader \in ReadType /\ work[w] \in WorkType
  BY TypeParts
<1>2. ASSUME TablesType', Created \subseteq Created', UNCHANGED <<reader, link, agent, counted>>,
             work' \in [Workers -> WorkType] /\ Handling'
      PROVE  TypeOK' /\ Handling' /\ Created \subseteq Created'
  BY <1>1, <1>2, NextTypeParts DEF LinkType, AgentType, CountedType
<1>3. ASSUME NEW S \in SUBSET Commands, ClaimBatch(w, S)
      PROVE  TypeOK' /\ Handling' /\ Created \subseteq Created'
  <2>1. PICK to \in {"next", "sweep"} : Proceed(w, S, to)
    BY <1>3 DEF ClaimBatch
  <2> DEFINE x == [work[w] EXCEPT !.pc = to, !.todo = S]
  <2>2. /\ claim' = claim \cup S /\ \A c \in S : cmd[c] \in Pending
        /\ UNCHANGED <<cmd, past, target, runTable, disabled, reader, link, agent, counted>>
    BY <1>3 DEF ClaimBatch, Claimable
  <2>3. TablesType' /\ Created \subseteq Created' /\ S \subseteq Created'
    BY <1>1, <2>2 DEF TablesType, Created, Pending
  <2>4. x \in WorkType /\ x.pc = to /\ x.todo = S /\ x.cmd = work[w].cmd
    BY <1>1 DEF WorkType, WorkPC
  <2>5. Handles(w, x, Created') /\ work' = [work EXCEPT ![w] = x]
    BY <2>1, <2>3, <2>4 DEF Handling, Handles, Proceed
  <2>6. QED
    BY <1>1, <1>2, <2>2, <2>3, <2>4, <2>5, WorkerMoves
<1>4. CASE Cancel(w)
  <2>1. /\ work' = [work EXCEPT ![w] = Rest] /\ cancels' = cancels + 1
        /\ UNCHANGED <<commandTable, runTable, disabled, reader, link, agent, drops, crashes, retries>>
    BY <1>4 DEF Cancel
  <2>2. TablesType' /\ Created \subseteq Created'
    BY <1>1, <2>1 DEF TablesType, Created
  <2>3. work' \in [Workers -> WorkType] /\ Handling'
    BY <1>1, <2>1, <2>2, RestType, WorkerMoves
  <2>4. LinkType' /\ AgentType' /\ CountedType'
    BY <1>1, <2>1 DEF LinkType, AgentType, CountedType
  <2>5. QED
    BY <1>1, <2>1, <2>2, <2>3, <2>4, NextTypeParts
<1>5. CASE NextCommand(w)
  <2>1. UNCHANGED <<commandTable, runTable, disabled, reader, link, agent, counted>>
    BY <1>5 DEF NextCommand
  <2>2. TablesType' /\ Created \subseteq Created'
    BY <1>1, <2>1 DEF TablesType, Created
  <2>3. CASE work' = [work EXCEPT ![w] = Rest]
    BY <1>1, <1>2, <2>1, <2>2, <2>3, RestType, WorkerMoves
  <2>4. ASSUME NEW c \in work[w].todo, NEW access \in BOOLEAN,
               work' = [work EXCEPT ![w].pc = "check", ![w].cmd = c, ![w].todo = @ \ {c},
                                    ![w].access = access]
        PROVE  TypeOK' /\ Handling' /\ Created \subseteq Created'
    <3> DEFINE x == [work[w] EXCEPT !.pc = "check", !.cmd = c, !.todo = work[w].todo \ {c},
                                    !.access = access]
    <3>1. x \in WorkType /\ x.pc = "check" /\ x.cmd = c /\ x.todo = work[w].todo \ {c}
      BY <1>1 DEF WorkType, WorkPC
    <3>2. Handles(w, x, Created')
      BY <1>1, <2>2, <3>1, Kinds DEF Handling, Handles, WorkType
    <3>3. work' = [work EXCEPT ![w] = x]
      BY <1>1, <2>4 DEF WorkType
    <3>4. QED
      BY <1>1, <1>2, <2>1, <2>2, <3>1, <3>2, <3>3, WorkerMoves
  <2>5. (w = "replay" \/ ~disabled) \in BOOLEAN
    BY Zenon
  <2>6. QED
    BY <1>5, <2>3, <2>4, <2>5 DEF NextCommand
<1>6. CASE Check(w)
  <2>1. /\ UNCHANGED <<commandTable, runTable, disabled, reader, link, agent, counted>>
        /\ work[w].cmd # NoCmd
    BY <1>6 DEF Check, At, Handling, Handles
  <2>2. TablesType' /\ Created \subseteq Created'
    BY <1>1, <2>1 DEF TablesType, Created
  <2>3. Step(w, "send") \/ \E end \in Ends : Refusing(w, end)
    BY <1>6 DEF Check, Refusal, Ends
  <2>4. work' \in [Workers -> WorkType] /\ Handling'
    BY <1>1, <2>1, <2>2, <2>3, Steps, Refuses DEF WorkPC
  <2>5. QED
    BY <1>2, <2>1, <2>2, <2>4
<1>7. CASE Refuse(w) \/ Mark(w)
  <2> DEFINE c == work[w].cmd
  <2>1. /\ UNCHANGED <<past, target, runTable, disabled, reader, link, agent, counted>>
        /\ c # NoCmd
        /\ \E from : \E to \in CmdStatus \ {"absent"} : SetCmd(c, from, to)
    <3>1. c # NoCmd /\ work[w].end \in CmdStatus \ {"absent"}
      BY <1>1, <1>7, Kinds DEF Refuse, Mark, At, Handling, Handles, WorkType, Ends
    <3>2. \E from : \E to \in CmdStatus \ {"absent"} : SetCmd(c, from, to)
      BY <1>7, <3>1, Kinds DEF Refuse, Mark
    <3>3. QED
      BY <1>7, <3>1, <3>2 DEF Refuse, Mark
  <2>2. TablesType' /\ Created \subseteq Created'
    BY <1>1, <2>1, SetCmdType DEF TablesType
  <2>3. Done(w) \/ (Step(w, "endRun") /\ work[w].end # "dispatch_failed")
    BY <1>7 DEF Refuse, Mark
  <2>4. work' \in [Workers -> WorkType] /\ Handling'
    BY <1>1, <2>1, <2>2, <2>3, Steps, Finishes DEF WorkPC
  <2>5. QED
    BY <1>2, <2>1, <2>2, <2>4
<1>8. CASE RefuseRun(w)
  <2>1. /\ EndRun(work[w].cmd, work[w].end) /\ Done(w) /\ work[w].end # "dispatch_failed"
        /\ UNCHANGED <<commandTable, old, stored, disabled, reader, link, agent, counted>>
    BY <1>8 DEF RefuseRun, At, Handling, Handles
  <2>2. work[w].end \in RunStatus
    BY <1>1, <2>1, Kinds DEF WorkType, Ends
  <2>3. TablesType' /\ Created \subseteq Created'
    BY <1>1, <2>1, <2>2, EndRunType DEF TablesType, Created
  <2>4. work' \in [Workers -> WorkType] /\ Handling'
    BY <1>1, <2>1, <2>3, Finishes
  <2>5. QED
    BY <1>2, <2>1, <2>3, <2>4
<1>9. CASE Send(w)
  <2>1. /\ UNCHANGED <<commandTable, runTable, disabled, reader, online, up, agent, counted>>
        /\ work[w].cmd # NoCmd /\ inbox' \in {inbox, Append(inbox, work[w].cmd)}
    BY <1>9 DEF Send, At, Handling, Handles
  <2>2. TablesType' /\ Created \subseteq Created'
    BY <1>1, <2>1 DEF TablesType, Created
  <2>3. LinkType' /\ AgentType' /\ CountedType'
    <3>1. work[w].cmd \in Commands /\ inbox \in Seq(Commands)
      BY <1>1, <2>1 DEF WorkType, LinkType
    <3>2. inbox' \in Seq(Commands)
      BY <2>1, <3>1, AppendProperties
    <3>3. QED
      BY <1>1, <2>1, <3>2 DEF LinkType, AgentType, CountedType
  <2>4. Step(w, "mark") \/ Refusing(w, "dispatch_failed") \/ Done(w)
    BY <1>9 DEF Send
  <2>5. work' \in [Workers -> WorkType] /\ Handling'
    BY <1>1, <2>1, <2>2, <2>4, Steps, Refuses, Finishes DEF WorkPC, Ends
  <2>6. QED
    BY <1>1, <2>1, <2>2, <2>3, <2>5, NextTypeParts
<1>10. QED
  BY <1>3, <1>4, <1>5, <1>6, <1>7, <1>8, <1>9 DEF DispatchStep

(* What ExpireCommands does to the tables.                                 *)
LEMMA ExpireTypes ==
  ASSUME TablesType
  PROVE  /\ ExpireOverdue => /\ cmd' \in [Commands -> CmdStatus] /\ claim' \subseteq Commands
                             /\ Created \subseteq Created'
                             /\ \A c \in Commands : cmd'[c] = cmd[c] \/ cmd'[c] = "expired"
         /\ \A S : ExpireRuns(S) =>
              /\ run' \in [Runs -> RunStatus]
              /\ \A r \in Runs : run'[r] = run[r] \/ run[r] \in {"queued", "accepted"}
         /\ Overdue \subseteq Commands
BY Kinds DEF TablesType, ExpireOverdue, ExpireRuns, Overdue, Created, Pending

LEMMA SweepTypes ==
  ASSUME TypeOK, Handling, DispatcherSweep
  PROVE  TypeOK' /\ Handling' /\ Created \subseteq Created'
<1> USE DEF commandTable, runTable, link, agent, counted
<1> DEFINE w == "dispatcher"
<1>1. /\ TablesType /\ work \in [Workers -> WorkType] /\ LinkType /\ AgentType /\ CountedType
      /\ reader \in ReadType /\ w \in Workers /\ work[w] \in WorkType
      /\ UNCHANGED <<past, target, old, stored, disabled, reader, link, agent, counted>>
  BY TypeParts DEF DispatcherSweep, At
<1>2. ASSUME TablesType', Created \subseteq Created', work' \in [Workers -> WorkType] /\ Handling'
      PROVE  TypeOK' /\ Handling' /\ Created \subseteq Created'
  BY <1>1, <1>2, NextTypeParts DEF LinkType, AgentType, CountedType
<1>3. CASE /\ work' = [work EXCEPT ![w].pc = "expire", ![w].expired = Overdue]
           /\ UNCHANGED <<cmd, claim, run>>
  <2> DEFINE x == [work[w] EXCEPT !.pc = "expire", !.expired = Overdue]
  <2>1. TablesType' /\ Created \subseteq Created'
    BY <1>1, <1>3 DEF TablesType, Created
  <2>2. x \in WorkType /\ x.pc = "expire" /\ x.todo = work[w].todo /\ x.cmd = work[w].cmd
    BY <1>1, ExpireTypes DEF WorkType, WorkPC
  <2>3. Handles(w, x, Created') /\ work' = [work EXCEPT ![w] = x]
    BY <1>1, <1>3, <2>1, <2>2 DEF Handling, Handles
  <2>4. QED
    BY <1>1, <1>2, <2>1, <2>2, <2>3, WorkerMoves
<1>4. CASE ExpireOverdue /\ Step(w, "expireRuns") /\ UNCHANGED run
  <2>1. TablesType' /\ Created \subseteq Created'
    BY <1>1, <1>4, ExpireTypes DEF TablesType
  <2>2. QED
    BY <1>1, <1>2, <1>4, <2>1, Steps DEF WorkPC
<1>5. CASE ExpireRuns(work[w].expired) /\ Done(w) /\ UNCHANGED <<cmd, claim>>
  <2>1. TablesType' /\ Created \subseteq Created'
    BY <1>1, <1>5, ExpireTypes DEF TablesType, Created
  <2>2. QED
    BY <1>1, <1>2, <1>5, <2>1, Finishes
<1>6. QED
  BY <1>3, <1>4, <1>5 DEF DispatcherSweep

-----------------------------------------------------------------------------
(* The reader of the agent's messages.                                     *)

LEMMA Received ==
  ASSUME LinkType, up # <<>>
  PROVE  /\ Head(up) \in Messages /\ Tail(up) \in Seq(Messages)
         /\ Head(up).type = "ack" => Head(up) \in Acks
         /\ Head(up).type = "event" => Head(up) \in Events
         /\ Head(up).type = "beat" => Head(up) \in Beats
<1>1. Head(up) \in Messages /\ Tail(up) \in Seq(Messages)
  BY HeadTailProperties DEF LinkType
<1>2. QED
  BY <1>1 DEF Messages, Acks, Events, Beats

LEMMA EventsOf ==
  ASSUME LinkType
  PROVE  EventsIn(up) \subseteq Events
<1>1. \A i \in DOMAIN up : up[i] \in Messages
  BY DEF LinkType
<1>2. QED
  BY <1>1 DEF EventsIn, Messages, Acks, Events, Beats

LEMMA ReaderTypes ==
  ASSUME TypeOK, Handling, ReaderStep
  PROVE  TypeOK' /\ Handling' /\ Created \subseteq Created'
<1> USE DEF commandTable, runTable, link, agent, counted
<1>1. /\ TablesType /\ work \in [Workers -> WorkType] /\ LinkType /\ AgentType /\ CountedType
      /\ reader \in ReadType
  BY TypeParts
<1>2. /\ UNCHANGED <<past, disabled, work, online, inbox, ackOf, reply, exec, beat, counted>>
  BY DEF ReaderStep, ReadStartAck, AckRun, ReadStopAck, ReadEvent, ReadBeat, BeatRun, BeatMissing,
         BeatScan, ReaderSweep
<1>3. UNCHANGED up \/ (up # <<>> /\ up' = Tail(up))
  BY DEF ReaderStep, ReadStartAck, AckRun, ReadStopAck, ReadEvent, ReadBeat, BeatRun, BeatMissing,
         BeatScan, ReaderSweep, At0
<1>4. ASSUME TablesType', Created \subseteq Created', reader' \in ReadType,
             reader'.pc = "ackRun" => reader'.msg \in Acks, out' \subseteq Events
      PROVE  TypeOK' /\ Handling' /\ Created \subseteq Created'
  <2>1. LinkType'
    BY <1>1, <1>2, <1>3, Received DEF LinkType
  <2>2. AgentType' /\ CountedType'
    BY <1>1, <1>2, <1>4 DEF AgentType, CountedType
  <2>3. Handling'
    BY <1>2, <1>4 DEF Handling, Handles
  <2>4. QED
    BY <1>1, <1>2, <1>4, <2>1, <2>2, <2>3, NextTypeParts
<1>5. RestRead \in ReadType /\ RestRead.pc = "idle"
  BY DEF RestRead, ReadType, ReadPC
<1>6. out \subseteq Events /\ stored \subseteq Events
  BY <1>1 DEF AgentType, TablesType
<1>7. CASE ReadStartAck
  <2> DEFINE m == Head(up)
  <2>1. m \in Acks /\ AckStart(m) /\ UNCHANGED <<past, target, runTable, disabled, out>>
        /\ reader' = [RestRead EXCEPT !.pc = "ackRun", !.msg = m]
    BY <1>1, <1>7, Received DEF ReadStartAck, At0
  <2>2. TablesType' /\ Created \subseteq Created'
    BY <1>1, <2>1, SetCmdType, Kinds DEF TablesType, AckStart, SetOpen
  <2>3. reader' \in ReadType /\ reader'.msg = m
    BY <1>5, <2>1 DEF ReadType, ReadPC
  <2>4. QED
    BY <1>4, <1>6, <2>1, <2>2, <2>3
<1>8. CASE AckRun
  <2> DEFINE m == reader.msg
  <2>1. /\ UNCHANGED <<commandTable, old, stored, disabled, out>> /\ reader' = RestRead
        /\ EndRun(m.cmd, "rejected") \/ run' \in {run, [run EXCEPT ![m.run] = "accepted"]}
    BY <1>8 DEF AckRun
  <2>2. run' \in [Runs -> RunStatus]
    BY <1>1, <2>1, EndRunType, Kinds DEF TablesType
  <2>3. TablesType' /\ Created \subseteq Created'
    BY <1>1, <2>1, <2>2 DEF TablesType, Created
  <2>4. QED
    BY <1>4, <1>5, <1>6, <2>1, <2>3
<1>9. CASE ReadStopAck
  <2> DEFINE m == Head(up)
  <2>1. /\ m \in Acks /\ UNCHANGED <<past, old, stored, disabled, reader, out>>
        /\ \E to \in {"done", "stop_failed"} : SetOpen(m.cmd, to)
        /\ target' \in {target, [target EXCEPT ![m.cmd] = m.run]} /\ (m.run = NoRun => UNCHANGED target)
        /\ \E to \in {"stopping", "stop_failed"} : run' \in {run, [run EXCEPT ![m.run] = to]}
    BY <1>1, <1>9, Received DEF ReadStopAck, At0
  <2>2. /\ cmd' \in [Commands -> CmdStatus] /\ claim' \subseteq Commands /\ Created \subseteq Created'
    BY <1>1, <2>1, SetCmdType, Kinds DEF SetOpen
  <2>3. run' \in [Runs -> RunStatus] /\ target' \in [Stops -> Runs \cup {NoRun}]
    BY <1>1, <2>1, Kinds DEF TablesType, Acks
  <2>4. TablesType'
    BY <1>1, <2>1, <2>2, <2>3 DEF TablesType
  <2>5. QED
    BY <1>1, <1>4, <1>6, <2>1, <2>2, <2>4 DEF Handling
<1>10. CASE ReadEvent
  <2> DEFINE m == Head(up)
  <2>1. m \in Events /\ UNCHANGED <<past, target, disabled, reader>>
    BY <1>1, <1>10, Received DEF ReadEvent, At0
  <2>2. CASE out' = out \cup {m} /\ UNCHANGED <<cmd, claim, run, old, stored>>
    <3>1. TablesType' /\ Created \subseteq Created'
      BY <1>1, <2>1, <2>2 DEF TablesType, Created
    <3>2. QED
      BY <1>1, <1>4, <1>6, <2>1, <2>2, <3>1 DEF Handling
  <2>3. CASE /\ \E to \in {"running", "failed", "done", "stopped"} : SetOpen(m.run, to)
             /\ \E to \in {"running", "done", "error", "stopped"} : run' = [run EXCEPT ![m.run] = to]
             /\ old' = old \ {m.run} /\ stored' = stored \cup {m} /\ UNCHANGED out
    <3>1. /\ cmd' \in [Commands -> CmdStatus] /\ claim' \subseteq Commands
          /\ Created \subseteq Created'
      BY <1>1, <2>3, SetCmdType, Kinds DEF SetOpen
    <3>2. run' \in [Runs -> RunStatus] /\ old' \subseteq Runs /\ stored' \subseteq Events
      <4>1. run' \in [Runs -> RunStatus]
        BY <1>1, <2>3, Kinds DEF TablesType
      <4>2. old' \subseteq Runs /\ stored' \subseteq Events
        BY <1>1, <2>1, <2>3 DEF TablesType
      <4>3. QED
        BY <4>1, <4>2
    <3>3. TablesType'
      BY <1>1, <2>1, <3>1, <3>2 DEF TablesType
    <3>4. QED
      BY <1>1, <1>4, <1>6, <2>1, <2>3, <3>1, <3>3 DEF Handling
  <2>4. \/ m.kind = "started" \/ m.kind \in Endings
    BY <2>1 DEF Events
  <2>5. QED
    BY <1>10, <2>2, <2>3, <2>4 DEF ReadEvent, Endings
<1>11. CASE ReadBeat
  <2> DEFINE m == Head(up)
             todo == {[run |-> r, status |-> run[r]] : r \in m.runs}
  <2>1. m \in Beats /\ reader' = [RestRead EXCEPT !.pc = "beatRuns", !.msg = m, !.todo = todo]
        /\ UNCHANGED <<commandTable, runTable, disabled, out>>
    BY <1>1, <1>11, Received DEF ReadBeat, At0
  <2>2. todo \subseteq [run : Runs, status : RunStatus]
    BY <1>1, <2>1 DEF Beats, TablesType
  <2>3. reader' \in ReadType /\ reader'.pc = "beatRuns"
    BY <1>5, <2>1, <2>2 DEF ReadType, ReadPC
  <2>4. TablesType' /\ Created \subseteq Created'
    BY <1>1, <2>1 DEF TablesType, Created
  <2>5. QED
    BY <1>4, <1>6, <2>1, <2>3, <2>4
<1>12. ASSUME NEW x \in reader.todo, BeatRun(x) PROVE TypeOK' /\ Handling' /\ Created \subseteq Created'
  <2>1. /\ reader' = [reader EXCEPT !.todo = @ \ {x}] /\ reader.pc = "beatRuns"
        /\ UNCHANGED <<commandTable, stored, disabled, out>>
        /\ run' \in {run, [run EXCEPT ![x.run] = "running"]} /\ old' \subseteq old
    BY <1>12 DEF BeatRun
  <2>2. reader' \in ReadType /\ reader'.pc = "beatRuns"
    BY <1>1, <2>1 DEF ReadType
  <2>3. TablesType' /\ Created \subseteq Created'
    BY <1>1, <2>1, Kinds DEF TablesType, Created
  <2>4. QED
    BY <1>4, <1>6, <2>1, <2>2, <2>3
<1>13. ASSUME NEW x \in reader.todo, BeatMissing(x)
       PROVE  TypeOK' /\ Handling' /\ Created \subseteq Created'
  <2>1. /\ reader' = [reader EXCEPT !.todo = @ \ {x}] /\ reader.pc = "beatStale"
        /\ UNCHANGED <<past, target, stored, disabled, out>> /\ old' \subseteq old
        /\ \E to \in {"stop_failed", "failed"} :
             run' \in {run, [run EXCEPT ![x.run] = to]} /\ SetOpen(x.run, to)
    BY <1>13 DEF BeatMissing
  <2>2. reader' \in ReadType /\ reader'.pc = "beatStale"
    BY <1>1, <2>1 DEF ReadType
  <2>3. /\ cmd' \in [Commands -> CmdStatus] /\ claim' \subseteq Commands
        /\ Created \subseteq Created'
    BY <1>1, <2>1, SetCmdType, Kinds DEF SetOpen
  <2>4. run' \in [Runs -> RunStatus]
    BY <1>1, <2>1, Kinds DEF TablesType
  <2>5. TablesType'
    BY <1>1, <2>1, <2>3, <2>4 DEF TablesType
  <2>6. QED
    BY <1>4, <1>6, <2>1, <2>2, <2>3, <2>5
<1>14. CASE BeatScan
  <2> DEFINE todo == {[run |-> r, status |-> run[r]] :
                        r \in {q \in old \ reader.msg.runs : run[q] \in {"running", "stopping"}}}
  <2>1. reader' = [reader EXCEPT !.pc = "beatStale", !.todo = todo]
        /\ UNCHANGED <<commandTable, runTable, disabled, out>>
    BY <1>14 DEF BeatScan
  <2>2. todo \subseteq [run : Runs, status : RunStatus]
    BY <1>1 DEF TablesType
  <2>3. reader' \in ReadType /\ reader'.pc = "beatStale"
    BY <1>1, <2>1, <2>2 DEF ReadType, ReadPC
  <2>4. TablesType' /\ Created \subseteq Created'
    BY <1>1, <2>1 DEF TablesType, Created
  <2>5. QED
    BY <1>4, <1>6, <2>1, <2>3, <2>4
<1>15. CASE ReaderSweep
  <2>1. UNCHANGED <<past, target, old, stored, disabled, out>>
    BY <1>15 DEF ReaderSweep
  <2>2. CASE reader' = [RestRead EXCEPT !.pc = "expire", !.expired = Overdue]
             /\ UNCHANGED <<cmd, claim, run>>
    <3>1. TablesType' /\ Created \subseteq Created'
      BY <1>1, <2>1, <2>2 DEF TablesType, Created
    <3>2. reader' \in ReadType /\ reader'.pc = "expire"
      BY <1>1, <1>5, <2>2, ExpireTypes DEF ReadType, ReadPC
    <3>3. QED
      BY <1>4, <1>6, <2>1, <3>1, <3>2
  <2>3. CASE ExpireOverdue /\ reader' = [reader EXCEPT !.pc = "expireRuns"] /\ UNCHANGED run
    <3>1. TablesType' /\ Created \subseteq Created'
      BY <1>1, <2>1, <2>3, ExpireTypes DEF TablesType
    <3>2. reader' \in ReadType /\ reader'.pc = "expireRuns"
      BY <1>1, <2>3 DEF ReadType, ReadPC
    <3>3. QED
      BY <1>4, <1>6, <2>1, <3>1, <3>2
  <2>4. CASE ExpireRuns(reader.expired) /\ reader' = RestRead /\ UNCHANGED <<cmd, claim>>
    <3>1. TablesType' /\ Created \subseteq Created'
      BY <1>1, <2>1, <2>4, ExpireTypes DEF TablesType, Created
    <3>2. QED
      BY <1>4, <1>5, <1>6, <2>1, <2>4, <3>1
  <2>5. QED
    BY <1>15, <2>2, <2>3, <2>4 DEF ReaderSweep
<1>16. QED
  BY <1>7, <1>8, <1>9, <1>10, <1>11, <1>12, <1>13, <1>14, <1>15 DEF ReaderStep

-----------------------------------------------------------------------------
(* The connection, time and the agent.                                     *)

LEMMA LinkTypes ==
  ASSUME TypeOK, Handling, LinkStep
  PROVE  TypeOK' /\ Handling' /\ Created \subseteq Created'
<1> USE DEF server, commandTable, runTable, link, agent, counted
<1>1. /\ TablesType /\ work \in [Workers -> WorkType] /\ LinkType /\ AgentType /\ CountedType
      /\ reader \in ReadType /\ <<>> \in Seq(Commands) /\ <<>> \in Seq(Messages)
  BY TypeParts, EmptySeq
<1>2. ASSUME NEW lost \in {0, 1}, NEW died \in {0, 1}, Fault(lost, died), UNCHANGED <<cancels, retries>>
      PROVE  CountedType'
  BY <1>1, <1>2 DEF Fault, CountedType
<1>3. ASSUME UNCHANGED <<commandTable, runTable, work, reader>>
      PROVE  (disabled' \in BOOLEAN => TablesType') /\ Handling' /\ Created \subseteq Created'
  BY <1>1, <1>3 DEF TablesType, Handling, Handles, Created
<1>4. LoseLink => LinkType' /\ beat' \in Beats \cup {NoBeat}
  BY <1>1 DEF LoseLink, LinkType
<1>5. CASE Connect
  <2>1. /\ UNCHANGED <<commandTable, runTable, disabled, reader, inbox, up, agent, counted>>
        /\ online' = TRUE
    BY <1>5 DEF Connect
  <2>2. TablesType' /\ Created \subseteq Created' /\ LinkType' /\ AgentType' /\ CountedType'
    BY <1>1, <2>1 DEF TablesType, Created, LinkType, AgentType, CountedType
  <2>3. work' \in [Workers -> WorkType] /\ Handling'
    <3>1. CASE "replay" \in Workers
      <4> DEFINE x == [Rest EXCEPT !.pc = "claim"]
      <4>1. x \in WorkType /\ x.pc = "claim" /\ x.cmd = NoCmd /\ x.todo = {}
        BY RestType DEF WorkType, WorkPC, Rest
      <4>2. Handles("replay", x, Created')
        BY <4>1 DEF Handles
      <4>3. work' = [work EXCEPT !["replay"] = x]
        BY <1>5, <3>1 DEF Connect
      <4>4. QED
        BY <1>1, <2>1, <2>2, <3>1, <4>1, <4>2, <4>3, WorkerMoves
    <3>2. CASE "replay" \notin Workers
      BY <1>1, <1>5, <2>1, <2>2, <3>2 DEF Connect, Handling, Handles
    <3>3. QED
      BY <3>1, <3>2
  <2>4. QED
    BY <1>1, <2>1, <2>2, <2>3, NextTypeParts
<1>6. CASE Drop
  <2>1. /\ LoseLink /\ out' = out \cup EventsIn(up) /\ reply' \in {reply, NoAck}
        /\ UNCHANGED <<server, ackOf, exec, cancels, retries>>
        /\ UNCHANGED <<drops, crashes>> \/ Fault(1, 0)
    BY <1>6 DEF Drop
  <2>2. AgentType'
    <3>1. out' \subseteq Events
      BY <1>1, <2>1, EventsOf DEF AgentType
    <3>2. QED
      BY <1>1, <1>4, <2>1, <3>1 DEF AgentType
  <2>3. CountedType'
    BY <1>1, <1>2, <2>1 DEF CountedType
  <2>4. QED
    BY <1>1, <1>3, <1>4, <2>1, <2>2, <2>3, NextTypeParts DEF TablesType
<1>7. CASE ReadRejected
  <2>1. /\ up # <<>> /\ up' = Tail(up) /\ out' = out \cup EventsIn(<<Head(up)>>)
        /\ Fault(1, 0)
        /\ UNCHANGED <<server, online, inbox, ackOf, reply, exec, beat, cancels, retries>>
    BY <1>7 DEF ReadRejected
  <2>2. Head(up) \in Messages /\ LinkType'
    BY <1>1, <2>1, Received DEF LinkType
  <2>3. EventsIn(<<Head(up)>>) \subseteq Events
    BY <2>2 DEF EventsIn, Messages, Acks, Events, Beats
  <2>4. AgentType'
    BY <1>1, <2>1, <2>3 DEF AgentType
  <2>5. QED
    BY <1>1, <1>2, <1>3, <2>1, <2>2, <2>4, NextTypeParts DEF TablesType
<1>8. CASE Disable
  <2>1. disabled' = TRUE /\ UNCHANGED <<commandTable, runTable, work, reader, link, agent, counted>>
    BY <1>8 DEF Disable
  <2>2. QED
    BY <1>1, <1>3, <2>1, NextTypeParts DEF LinkType, AgentType, CountedType
<1>9. CASE AgentCrash
  <2>1. /\ LoseLink /\ reply' = NoAck /\ Fault(0, 1)
        /\ exec' = [r \in Runs |-> IF exec[r] \in ExecActive THEN "over" ELSE exec[r]]
        /\ out' = out \cup EventsIn(up)
                  \cup {Event(r, "error") : r \in {q \in Runs : exec[q] \in {"running", "stopping"}}}
        /\ UNCHANGED <<server, ackOf, cancels, retries>>
    BY <1>9 DEF AgentCrash
  <2>2. out' \subseteq Events
    <3>1. \A r \in Runs : Event(r, "error") \in Events
      BY DEF Event, Events, Endings
    <3>2. QED
      BY <1>1, <2>1, <3>1, EventsOf DEF AgentType
  <2>3. exec' \in [Runs -> ExecActive \cup {"none", "over"}]
    BY <1>1, <2>1 DEF AgentType
  <2>4. AgentType'
    BY <1>1, <1>4, <2>1, <2>2, <2>3 DEF AgentType
  <2>5. QED
    BY <1>1, <1>2, <1>3, <1>4, <2>1, <2>4, NextTypeParts DEF TablesType
<1>10. QED
  BY <1>5, <1>6, <1>7, <1>8, <1>9 DEF LinkStep

LEMMA TimeTypes ==
  ASSUME TypeOK, Handling, TimeStep
  PROVE  /\ TypeOK' /\ Handling' /\ Created \subseteq Created'
         /\ UNCHANGED <<cmd, run, stored, work, reader, link, agent>>
<1> USE DEF commandTable, runTable, link, agent, counted
<1>1. /\ TablesType /\ work \in [Workers -> WorkType] /\ LinkType /\ AgentType /\ CountedType
      /\ reader \in ReadType
  BY TypeParts
<1>2. /\ UNCHANGED <<cmd, target, run, stored, disabled, work, reader, link, agent, counted>>
      /\ claim' \subseteq claim
      /\ UNCHANGED past \/ \E c \in Commands : past' = past \cup {c}
      /\ UNCHANGED old \/ \E r \in Runs : old' = old \cup {r}
  BY DEF TimeStep, LeaseExpires, Expire, Age
<1>3. TablesType' /\ Created \subseteq Created'
  BY <1>1, <1>2 DEF TablesType, Created
<1>4. Handling'
  BY <1>2, <1>3 DEF Handling, Handles
<1>5. QED
  BY <1>1, <1>2, <1>3, <1>4, NextTypeParts DEF LinkType, AgentType, CountedType

LEMMA AgentTypes ==
  ASSUME TypeOK, Handling, AgentStep
  PROVE  /\ TypeOK' /\ Handling' /\ Created \subseteq Created'
<1> USE DEF server, commandTable, runTable, link, agent, counted
<1>1. /\ TablesType /\ work \in [Workers -> WorkType] /\ LinkType /\ AgentType /\ CountedType
      /\ reader \in ReadType
  BY TypeParts
<1>2. UNCHANGED <<server, online, counted>>
  BY DEF AgentStep, AgentRead, AgentReply, BeatRead, BeatSend, FinalEmit, FinalRemove, Flush
<1>3. TablesType' /\ Handling' /\ Created \subseteq Created' /\ CountedType'
  BY <1>1, <1>2 DEF TablesType, CountedType, Handling, Handles, Created
<1>4. ASSUME LinkType', AgentType' PROVE TypeOK' /\ Handling' /\ Created \subseteq Created'
  BY <1>1, <1>2, <1>3, <1>4, NextTypeParts
<1>5. ASSUME NEW m \in Messages, up' = Append(up, m), UNCHANGED inbox PROVE LinkType'
  BY <1>1, <1>2, <1>5, AppendProperties DEF LinkType
<1>6. \A r \in Runs : \A kind \in {"started"} \cup Endings : Event(r, kind) \in Events
  BY DEF Event, Events
<1>7. Events \subseteq Messages /\ Acks \subseteq Messages /\ Beats \subseteq Messages
  BY DEF Messages
<1>8. CASE AgentRead
  <2> DEFINE c == Head(inbox)
  <2>1. inbox # <<>> /\ inbox' = Tail(inbox) /\ UNCHANGED <<out, beat>>
    BY <1>8 DEF AgentRead
  <2>2. c \in Commands /\ inbox' \in Seq(Commands)
    BY <1>1, <2>1, HeadTailProperties DEF LinkType
  <2>3. CASE /\ ackOf[c] # NoAck /\ reply' = ackOf[c] /\ UNCHANGED <<ackOf, exec, up>>
    BY <1>1, <1>2, <1>4, <2>1, <2>2, <2>3 DEF LinkType, AgentType
  <2>4. \A r \in Runs \cup {NoRun} : \A status \in {"ok", "rejected"} : Ack(c, r, status) \in Acks
    BY <2>2 DEF Ack, Acks
  <2>5. CASE c \in Starts /\ StartAtAgent(c)
    <3>1. \E status \in {"ok", "rejected"} : Answer(c, Ack(c, c, status))
      BY <2>5 DEF StartAtAgent
    <3>2. ackOf' \in [Commands -> Acks \cup {NoAck}] /\ reply' \in Acks
      BY <1>1, <2>4, <2>5, <3>1, Kinds DEF Answer, AgentType
    <3>3. exec' \in [Runs -> ExecActive \cup {"none", "over"}]
      BY <1>1, <2>5 DEF StartAtAgent, AgentType, ExecActive
    <3>4. up' \in Seq(Messages)
      <4>1. UNCHANGED up \/ up' = Append(up, Event(c, "started"))
        BY <2>5 DEF StartAtAgent
      <4>2. Event(c, "started") \in Messages
        BY <1>6, <1>7, <2>5, Kinds
      <4>3. QED
        BY <1>1, <4>1, <4>2, AppendProperties DEF LinkType
    <3>5. QED
      BY <1>1, <1>2, <1>4, <2>1, <2>2, <3>2, <3>3, <3>4 DEF LinkType, AgentType
  <2>6. CASE c \in Stops /\ StopAtAgent(c) /\ UNCHANGED up
    <3>1. \E r \in Runs \cup {NoRun} : \E status \in {"ok", "rejected"} : Answer(c, Ack(c, r, status))
      <4>1. target[c] \in Runs \cup {NoRun} /\ \A r \in AgentTargets(c) : r \in Runs
        BY <1>1, <2>6 DEF TablesType, AgentTargets, AgentActive
      <4>2. QED
        BY <2>6, <4>1 DEF StopAtAgent
    <3>2. ackOf' \in [Commands -> Acks \cup {NoAck}] /\ reply' \in Acks
      BY <1>1, <2>4, <3>1 DEF Answer, AgentType
    <3>3. exec' \in [Runs -> ExecActive \cup {"none", "over"}]
      BY <1>1, <2>6 DEF StopAtAgent, AgentType, ExecActive
    <3>4. QED
      BY <1>1, <1>2, <1>4, <2>1, <2>2, <2>6, <3>2, <3>3 DEF LinkType, AgentType
  <2>7. QED
    BY <1>8, <2>3, <2>5, <2>6 DEF AgentRead
<1>9. CASE AgentReply
  <2>1. /\ reply # NoAck /\ up' = Append(up, reply) /\ reply' = NoAck
        /\ UNCHANGED <<inbox, ackOf, exec, out, beat>>
    BY <1>9 DEF AgentReply
  <2>2. reply \in Messages
    BY <1>1, <1>7, <2>1 DEF AgentType
  <2>3. QED
    BY <1>1, <1>4, <1>5, <2>1, <2>2 DEF AgentType
<1>10. CASE BeatRead
  <2>1. beat' = [type |-> "beat", runs |-> AgentActive] /\ UNCHANGED <<link, ackOf, reply, exec, out>>
    BY <1>10 DEF BeatRead
  <2>2. beat' \in Beats
    BY <2>1 DEF Beats, AgentActive
  <2>3. QED
    BY <1>1, <1>4, <2>1, <2>2 DEF LinkType, AgentType
<1>11. CASE BeatSend
  <2>1. /\ beat # NoBeat /\ up' = Append(up, beat) /\ beat' = NoBeat
        /\ UNCHANGED <<inbox, ackOf, reply, exec, out>>
    BY <1>11 DEF BeatSend
  <2>2. beat \in Messages
    BY <1>1, <1>7, <2>1 DEF AgentType
  <2>3. QED
    BY <1>1, <1>4, <1>5, <2>1, <2>2 DEF AgentType
<1>12. ASSUME NEW r \in Runs, FinalEmit(r) PROVE TypeOK' /\ Handling' /\ Created \subseteq Created'
  <2>1. PICK kind \in Endings :
          /\ exec' = [exec EXCEPT ![r] = "ending"]
          /\ \/ up' = Append(up, Event(r, kind)) /\ UNCHANGED out
             \/ out' = out \cup {Event(r, kind)} /\ UNCHANGED up
          /\ UNCHANGED <<inbox, ackOf, reply, beat>>
    BY <1>12 DEF FinalEmit, Endings
  <2>2. Event(r, kind) \in Events /\ Event(r, kind) \in Messages
    BY <1>6, <1>7
  <2>3. AgentType'
    BY <1>1, <2>1, <2>2 DEF AgentType, ExecActive
  <2>4. LinkType'
    BY <1>1, <1>2, <1>5, <2>1, <2>2 DEF LinkType
  <2>5. QED
    BY <1>4, <2>3, <2>4
<1>13. ASSUME NEW r \in Runs, FinalRemove(r) PROVE TypeOK' /\ Handling' /\ Created \subseteq Created'
  <2>1. exec' = [exec EXCEPT ![r] = "over"] /\ UNCHANGED <<link, ackOf, reply, out, beat>>
    BY <1>13 DEF FinalRemove
  <2>2. QED
    BY <1>1, <1>4, <2>1 DEF LinkType, AgentType
<1>14. ASSUME NEW e \in out, Flush(e) PROVE TypeOK' /\ Handling' /\ Created \subseteq Created'
  <2>1. up' = Append(up, e) /\ out' = out \ {e} /\ UNCHANGED <<inbox, ackOf, reply, exec, beat>>
    BY <1>14 DEF Flush
  <2>2. e \in Messages
    BY <1>1, <1>7 DEF AgentType
  <2>3. QED
    BY <1>1, <1>4, <1>5, <2>1, <2>2 DEF AgentType
<1>15. QED
  BY <1>8, <1>9, <1>10, <1>11, <1>12, <1>13, <1>14 DEF AgentStep

LEMMA NextTypes ==
  ASSUME TypeOK, Handling, [Next]_vars
  PROVE  TypeOK' /\ Handling' /\ Created \subseteq Created'
<1>1. CASE UNCHANGED vars
  BY <1>1 DEF vars, server, commandTable, runTable, link, agent, counted, TypeOK, Handling,
              Handles, Created
<1>2. CASE Next
  BY <1>2, RequestTypes, DispatchTypes, SweepTypes, ReaderTypes, LinkTypes, TimeTypes, AgentTypes
     DEF Next
<1>3. QED
  BY <1>1, <1>2

(* A statement on a command that was answered does not send it back.       *)
LEMMA SetCmdKeeps ==
  ASSUME TablesType, NEW c, NEW from, NEW to \in CmdStatus \ {"absent"}, SetCmd(c, from, to),
         to \notin Pending \/ from \cap Answered = {}
  PROVE  \A d \in Commands : cmd[d] \in Answered => cmd'[d] \notin Pending
BY SetCmdType DEF Answered, Pending

LEMMA AnsweredStay ==
  ASSUME TypeOK, Handling, Next
  PROVE  \A c \in Commands : cmd[c] \in Answered => cmd'[c] \notin Pending
<1> USE DEF commandTable, server
<1> DEFINE Kept == \A c \in Commands : cmd[c] \in Answered => cmd'[c] \notin Pending
<1>1. TablesType /\ work \in [Workers -> WorkType]
  BY TypeParts
<1>2. ASSUME UNCHANGED cmd PROVE Kept
  BY <1>2 DEF Answered, Pending
<1>3. ASSUME NEW c \in Commands, SaveStart(c) PROVE Kept
  BY <1>1, <1>3 DEF SaveStart, Created, TablesType, Answered, Pending
<1>4. ASSUME NEW s \in Commands, SaveStop(s) PROVE Kept
  <2>1. /\ s \notin Created
        /\ \/ cmd' = [cmd EXCEPT ![s] = "done"] \/ cmd' = [cmd EXCEPT ![s] = "queued"]
           \/ \E r \in StopTargets(s) : cmd' = [cmd EXCEPT ![r] = "stopped", ![s] = "done"]
    BY <1>4 DEF SaveStop
  <2>2. cmd[s] = "absent"
    BY <2>1, <1>4 DEF Created
  <2>3. QED
    BY <1>1, <2>1, <2>2 DEF TablesType, Answered, Pending
<1>5. CASE RetryPrepare
  <2>1. UNCHANGED cmd \/ SetCmd(work["request"].cmd, Retryable, "queued")
    BY <1>5 DEF RetryPrepare
  <2>2. Retryable \cap Answered = {}
    BY DEF Retryable, Pending, Answered
  <2>3. QED
    BY <1>1, <1>2, <2>1, <2>2, SetCmdKeeps, Kinds
<1>6. ASSUME NEW w \in Workers, Refuse(w) PROVE Kept
  <2>1. SetCmd(work[w].cmd, Refusable(work[w].end), work[w].end) /\ work[w].end \in Ends
    BY <1>1, <1>6 DEF Refuse, WorkType
  <2>2. work[w].end \notin Pending \/ Refusable(work[w].end) \cap Answered = {}
    BY <2>1 DEF Ends, Refusable, Pending, Answered
  <2>3. work[w].end \in CmdStatus \ {"absent"}
    BY <2>1, Kinds DEF Ends
  <2>4. QED
    BY <1>1, <2>1, <2>2, <2>3, SetCmdKeeps
<1>7. ASSUME NEW w \in Workers, Mark(w) PROVE Kept
  <2>1. Pending \cap Answered = {}
    BY DEF Pending, Answered
  <2>2. QED
    BY <1>1, <1>7, <2>1, SetCmdKeeps, Kinds DEF Mark
<1>8. ASSUME ExpireOverdue PROVE Kept
  BY <1>1, <1>8, ExpireTypes, Kinds DEF Pending, Answered
<1>9. ASSUME NEW c, NEW to \in {"rejected", "running", "accepted", "done", "stop_failed",
                                "failed", "stopped"}, SetOpen(c, to)
      PROVE  Kept
  BY <1>1, <1>9, SetCmdKeeps, Kinds DEF SetOpen, Pending
<1>10. CASE RequestStep
  BY <1>2, <1>3, <1>4, <1>5, <1>10 DEF RequestStep, RetryRead, ClaimOne
<1>11. ASSUME NEW w \in Workers,
              DispatchStep(w) \/ Cancel(w) \/ \E S \in SUBSET Commands : ClaimBatch(w, S)
       PROVE  Kept
  BY <1>2, <1>6, <1>7, <1>11
     DEF DispatchStep, Cancel, ClaimBatch, NextCommand, Check, Send, RefuseRun
<1>12. CASE DispatcherSweep
  BY <1>2, <1>8, <1>12 DEF DispatcherSweep
<1>13. CASE ReaderStep
  <2>1. ReadStartAck => Kept
    BY <1>9 DEF ReadStartAck, AckStart
  <2>2. ReadStopAck => Kept
    BY <1>9 DEF ReadStopAck
  <2>3. ReadEvent => Kept
    <3>1. ASSUME ReadEvent
          PROVE  UNCHANGED cmd \/ \E to \in {"running", "failed", "done", "stopped"} :
                                    SetOpen(Head(up).run, to)
      <4>1. Head(up) \in Events
        BY <3>1, TypeParts, Received DEF ReadEvent, At0
      <4>2. Head(up).kind \in {"started", "done", "error", "stopped"}
        BY <4>1 DEF Events, Endings
      <4>3. QED
        BY <3>1, <4>2 DEF ReadEvent
    <3>2. QED
      BY <1>2, <1>9, <3>1
  <2>4. \A x \in reader.todo : BeatMissing(x) => Kept
    BY <1>9 DEF BeatMissing
  <2>5. ReaderSweep => Kept
    BY <1>2, <1>8 DEF ReaderSweep
  <2>6. (AckRun \/ ReadBeat \/ BeatScan \/ \E x \in reader.todo : BeatRun(x)) => Kept
    BY <1>2 DEF AckRun, ReadBeat, BeatScan, BeatRun
  <2>7. QED
    BY <1>13, <2>1, <2>2, <2>3, <2>4, <2>5, <2>6 DEF ReaderStep
<1>14. CASE LinkStep
  BY <1>2, <1>14 DEF LinkStep, Connect, Drop, ReadRejected, Disable, AgentCrash
<1>15. CASE TimeStep
  BY <1>2, <1>15, TimeTypes
<1>16. CASE AgentStep
  BY <1>2, <1>16 DEF AgentStep, AgentRead, AgentReply, BeatRead, BeatSend, FinalEmit, FinalRemove, Flush
<1>17. QED
  BY <1>10, <1>11, <1>12, <1>13, <1>14, <1>15, <1>16 DEF Next

-----------------------------------------------------------------------------
(* Where the events are.                                                   *)

LEMMA EventsInEmpty == Once(<<>>) /\ EventsIn(<<>>) = {}
BY DEF Once, EventsIn

LEMMA EventsInTail ==
  ASSUME NEW q \in Seq(Messages), q # <<>>, Once(q)
  PROVE  Once(Tail(q)) /\ EventsIn(Tail(q)) = EventsIn(q) \ {Head(q)}
<1>1. /\ Len(q) \in Nat /\ Len(q) >= 1 /\ Len(Tail(q)) = Len(q) - 1 /\ Head(q) = q[1]
      /\ \A i \in 1 .. Len(q) - 1 : Tail(q)[i] = q[i + 1]
      /\ DOMAIN q = 1 .. Len(q) /\ DOMAIN Tail(q) = 1 .. Len(q) - 1
  BY HeadTailProperties, EmptySeq, LenProperties
<1>2. Once(Tail(q))
  BY <1>1 DEF Once
<1>3. EventsIn(Tail(q)) = EventsIn(q) \ {Head(q)}
  <2>1. ASSUME NEW e \in EventsIn(Tail(q)) PROVE e \in EventsIn(q) \ {Head(q)}
    <3>1. PICK i \in 1 .. Len(q) - 1 : q[i + 1] = e /\ e.type = "event"
      BY <1>1, <2>1 DEF EventsIn
    <3>2. i + 1 \in 1 .. Len(q) /\ 1 \in 1 .. Len(q) /\ i + 1 # 1
      BY <1>1, <3>1
    <3>3. e # q[1]
      BY <3>1, <3>2 DEF Once
    <3>4. QED
      BY <1>1, <3>1, <3>2, <3>3 DEF EventsIn
  <2>2. ASSUME NEW e \in EventsIn(q), e # Head(q) PROVE e \in EventsIn(Tail(q))
    <3>1. PICK i \in 1 .. Len(q) : q[i] = e /\ e.type = "event"
      BY <1>1, <2>2 DEF EventsIn
    <3>2. i - 1 \in 1 .. Len(q) - 1 /\ (i - 1) + 1 = i
      BY <1>1, <2>2, <3>1
    <3>3. Tail(q)[i - 1] = e
      BY <1>1, <3>1, <3>2
    <3>4. QED
      BY <1>1, <3>1, <3>2, <3>3 DEF EventsIn
  <2>3. QED
    BY <2>1, <2>2
<1>4. QED
  BY <1>2, <1>3

LEMMA EventsInAppend ==
  ASSUME NEW q \in Seq(Messages), NEW m \in Messages, Once(q), m \notin EventsIn(q)
  PROVE  /\ Once(Append(q, m))
         /\ EventsIn(Append(q, m)) = EventsIn(q) \cup {x \in {m} : x.type = "event"}
<1> DEFINE p == Append(q, m)
<1>1. /\ Len(q) \in Nat /\ DOMAIN q = 1 .. Len(q) /\ Len(p) = Len(q) + 1 /\ DOMAIN p = 1 .. Len(p)
      /\ \A i \in 1 .. Len(q) : p[i] = q[i]
      /\ p[Len(p)] = m
  BY AppendProperties, LenProperties
<1> HIDE DEF p
<1>2. \A i \in 1 .. Len(p) : i \in 1 .. Len(q) \/ i = Len(p)
  BY <1>1
<1>3. \A i \in 1 .. Len(q) : i \in 1 .. Len(p) /\ i # Len(p)
  BY <1>1
<1>4. \A i \in 1 .. Len(q) : q[i] = m => m.type # "event"
  BY <1>1 DEF EventsIn
<1>5. Once(p)
  BY <1>1, <1>2, <1>3, <1>4 DEF Once
<1>6. Len(p) \in DOMAIN p
  BY <1>1
<1>7. EventsIn(p) = EventsIn(q) \cup {x \in {m} : x.type = "event"}
  BY <1>1, <1>2, <1>3, <1>6 DEF EventsIn
<1>8. QED
  BY <1>5, <1>7 DEF p

-----------------------------------------------------------------------------
(* What the agent was sent, and where its events are, step by step.        *)

LEMMA SentKept ==
  ASSUME LinkType, WasSent, Created \subseteq Created',
         \/ inbox' \in {inbox, <<>>}
         \/ inbox # <<>> /\ inbox' = Tail(inbox)
         \/ \E c \in Created : inbox' = Append(inbox, c)
  PROVE  WasSent'
<1>1. inbox \in Seq(Commands) /\ Len(inbox) \in Nat
  BY LenProperties DEF LinkType
<1>2. CASE inbox' = inbox
  BY <1>2 DEF WasSent
<1>3. CASE inbox' = <<>>
  BY <1>3, EmptySeq DEF WasSent
<1>4. CASE inbox # <<>> /\ inbox' = Tail(inbox)
  <2>1. /\ Len(inbox') = Len(inbox) - 1
        /\ \A i \in 1 .. Len(inbox') : inbox'[i] = inbox[i + 1]
    BY <1>1, <1>4, HeadTailProperties
  <2>2. \A i \in 1 .. Len(inbox') : i + 1 \in 1 .. Len(inbox)
    BY <1>1, <2>1
  <2>3. QED
    BY <2>1, <2>2 DEF WasSent
<1>5. ASSUME NEW c \in Created, inbox' = Append(inbox, c) PROVE WasSent'
  <2>1. c \in Commands
    BY DEF Created
  <2>2. /\ Len(inbox') = Len(inbox) + 1
        /\ \A i \in 1 .. Len(inbox) : inbox'[i] = inbox[i]
        /\ inbox'[Len(inbox) + 1] = c
    BY <1>1, <1>5, <2>1, AppendProperties
  <2>3. \A i \in 1 .. Len(inbox') : i \in 1 .. Len(inbox) \/ i = Len(inbox) + 1
    BY <1>1, <2>2
  <2>4. QED
    BY <2>2, <2>3 DEF WasSent
<1>6. QED
  BY <1>2, <1>3, <1>4, <1>5

(* A run goes on in one direction, and reports its end when it is at it.   *)
GoesOn ==
  \A r \in Runs : /\ exec[r] # "none" => exec'[r] # "none"
                  /\ exec[r] \in {"ending", "over"} => exec'[r] \in {"ending", "over"}

LEMMA EndKept ==
  ASSUME OneEnd, GoesOn, Known \subseteq Events, NEW E \in SUBSET Events, Known' \subseteq Known \cup E,
         \A e \in E : /\ exec'[e.run] # "none"
                      /\ e.kind \in Endings => /\ exec'[e.run] \in {"ending", "over"}
                                               /\ exec[e.run] \notin {"ending", "over"},
         \A d, e \in E : d.run = e.run /\ d.kind \in Endings /\ e.kind \in Endings => d = e
  PROVE  OneEnd'
<1>1. \A e \in Known' : e \in Events /\ e.run \in Runs /\ (e \in Known \/ e \in E)
  BY DEF Events
<1>2. \A e \in Known' : /\ exec'[e.run] # "none"
                        /\ e.kind \in Endings => exec'[e.run] \in {"ending", "over"}
  BY <1>1 DEF OneEnd, GoesOn
<1>3. ASSUME NEW d \in Known', NEW e \in Known', d.run = e.run, d.kind \in Endings, e.kind \in Endings
      PROVE  d = e
  <2>1. (d \in Known /\ e \in Known) \/ (~(d \in Known /\ e \in E) /\ ~(e \in Known /\ d \in E))
    BY <1>3 DEF OneEnd
  <2>2. QED
    BY <1>1, <1>3, <2>1 DEF OneEnd
<1>4. QED
  BY <1>2, <1>3 DEF OneEnd

LEMMA KnownEvents == ASSUME TypeOK PROVE Known \subseteq Events
BY TypeParts, EventsOf DEF Known, TablesType, AgentType

(* Steps that leave the events and the runs of the agent as they are.      *)
LEMMA Quiet ==
  ASSUME TypeOK, Handling, Working, OnePlace, OneEnd, Created \subseteq Created',
         UNCHANGED <<stored, out, ackOf, exec>>,
         inbox' = inbox \/ (\E c \in Created : inbox' = Append(inbox, c)),
         \/ UNCHANGED up
         \/ up # <<>> /\ up' = Tail(up) /\ Head(up).type # "event"
         \/ \E m \in Acks \cup Beats : up' = Append(up, m)
  PROVE  Working' /\ OnePlace' /\ OneEnd'
<1>1. LinkType /\ up \in Seq(Messages) /\ Once(up)
  BY TypeParts DEF LinkType, OnePlace
<1>2. Working'
  BY <1>1, SentKept DEF Working, WasAcked
<1>3. Once(up') /\ EventsIn(up') = EventsIn(up)
  <2>1. CASE up # <<>> /\ up' = Tail(up) /\ Head(up).type # "event"
    BY <1>1, <2>1, EventsInTail DEF EventsIn
  <2>2. ASSUME NEW m \in Acks \cup Beats, up' = Append(up, m)
        PROVE  Once(up') /\ EventsIn(up') = EventsIn(up)
    <3>1. m \in Messages /\ m.type # "event"
      BY DEF Messages, Acks, Beats
    <3>2. m \notin EventsIn(up)
      BY <3>1 DEF EventsIn
    <3>3. Once(up') /\ EventsIn(up') = EventsIn(up) \cup {x \in {m} : x.type = "event"}
      BY <1>1, <2>2, <3>1, <3>2, EventsInAppend
    <3>4. QED
      BY <3>1, <3>3
  <2>3. QED
    BY <1>1, <2>1, <2>2
<1>4. OnePlace'
  BY <1>3 DEF OnePlace
<1>5. Known' = Known
  BY <1>3 DEF Known
<1>6. QED
  BY <1>2, <1>4, <1>5 DEF OneEnd

LEMMA EventAway ==
  ASSUME TypeOK, OnePlace, NEW e \in out, up' = Append(up, e), out' = out \ {e}, UNCHANGED stored
  PROVE  OnePlace' /\ Known' = Known
<1>1. up \in Seq(Messages) /\ Once(up) /\ e \in Messages /\ e.type = "event"
  BY TypeParts DEF LinkType, AgentType, OnePlace, Messages, Events
<1>2. e \notin EventsIn(up)
  BY DEF OnePlace
<1>3. Once(up') /\ EventsIn(up') = EventsIn(up) \cup {e}
  BY <1>1, <1>2, EventsInAppend
<1>4. QED
  BY <1>3 DEF OnePlace, Known

LEMMA EventEmitted ==
  ASSUME TypeOK, OnePlace, NEW e \in Events, e \notin Known, UNCHANGED stored,
         \/ up' = Append(up, e) /\ UNCHANGED out
         \/ out' = out \cup {e} /\ UNCHANGED up
  PROVE  OnePlace' /\ Known' = Known \cup {e}
<1>1. up \in Seq(Messages) /\ Once(up) /\ e \in Messages /\ e.type = "event"
  BY TypeParts DEF LinkType, OnePlace, Messages, Events
<1>2. up' = Append(up, e) => Once(up') /\ EventsIn(up') = EventsIn(up) \cup {e}
  BY <1>1, EventsInAppend DEF Known
<1>3. QED
  BY <1>2 DEF OnePlace, Known

-----------------------------------------------------------------------------
(* The invariant.                                                          *)

LEMMA ServerKeeps ==
  ASSUME LifeInv, Created \subseteq Created',
         \/ RequestStep \/ DispatcherSweep \/ TimeStep
         \/ \E w \in Workers : DispatchStep(w) \/ Cancel(w) \/ \E S \in SUBSET Commands : ClaimBatch(w, S)
  PROVE  Working' /\ OnePlace' /\ OneEnd'
<1> USE DEF commandTable, runTable, link, agent, counted
<1>1. TypeOK /\ Handling /\ Working /\ OnePlace /\ OneEnd
  BY DEF LifeInv
<1>2. ASSUME UNCHANGED <<stored, link, agent>> PROVE Working' /\ OnePlace' /\ OneEnd'
  BY <1>1, <1>2, Quiet
<1>3. ASSUME NEW w \in Workers, Send(w) PROVE Working' /\ OnePlace' /\ OneEnd'
  <2>1. work[w].cmd \in Created
    BY <1>1, <1>3 DEF Send, At, Handling, Handles
  <2>2. /\ UNCHANGED <<stored, up, agent>>
        /\ inbox' = inbox \/ (\E c \in Created : inbox' = Append(inbox, c))
    BY <1>3, <2>1 DEF Send
  <2>3. QED
    BY <1>1, <2>2, Quiet
<1>4. ASSUME NEW w \in Workers,
             DispatchStep(w) \/ Cancel(w) \/ \E S \in SUBSET Commands : ClaimBatch(w, S)
      PROVE  Working' /\ OnePlace' /\ OneEnd'
  BY <1>2, <1>3, <1>4
     DEF DispatchStep, NextCommand, Check, Mark, Refuse, RefuseRun, Cancel, ClaimBatch
<1>5. CASE RequestStep
  BY <1>2, <1>5 DEF RequestStep, SaveStart, SaveStop, RetryRead, RetryPrepare, ClaimOne
<1>6. CASE DispatcherSweep
  BY <1>2, <1>6 DEF DispatcherSweep
<1>7. CASE TimeStep
  BY <1>1, <1>2, <1>7, TimeTypes
<1>8. QED
  BY <1>4, <1>5, <1>6, <1>7

LEMMA ReaderKeeps ==
  ASSUME LifeInv, Created \subseteq Created', ReaderStep
  PROVE  Working' /\ OnePlace' /\ OneEnd'
<1> USE DEF commandTable, runTable, link, agent, counted
<1>1. TypeOK /\ Handling /\ Working /\ OnePlace /\ OneEnd
  BY DEF LifeInv
<1>2. ASSUME UNCHANGED <<stored, inbox, agent>>,
             UNCHANGED up \/ (up # <<>> /\ up' = Tail(up) /\ Head(up).type # "event")
      PROVE  Working' /\ OnePlace' /\ OneEnd'
  BY <1>1, <1>2, Quiet
<1>3. CASE ReadEvent
  <2> DEFINE m == Head(up)
  <2>1. up \in Seq(Messages) /\ Once(up) /\ up # <<>> /\ m \in Messages /\ m.type = "event"
        /\ up' = Tail(up) /\ UNCHANGED <<inbox, ackOf, exec>>
    BY <1>1, <1>3, TypeParts, HeadTailProperties DEF ReadEvent, At0, LinkType, OnePlace
  <2>2. Once(up') /\ EventsIn(up') = EventsIn(up) \ {m}
    BY <2>1, EventsInTail
  <2>3. m \in EventsIn(up)
    <3>1. 1 \in DOMAIN up /\ m = up[1]
      BY <2>1, EmptySeq, LenProperties
    <3>2. QED
      BY <2>1, <3>1 DEF EventsIn
  <2>4. \/ out' = out \cup {m} /\ UNCHANGED stored
        \/ stored' = stored \cup {m} /\ UNCHANGED out
    BY <1>3 DEF ReadEvent
  <2>5. OnePlace' /\ Known' = Known
    BY <1>1, <2>2, <2>3, <2>4 DEF OnePlace, Known
  <2>6. Working'
    BY <1>1, <2>1, TypeParts, SentKept DEF Working, WasAcked
  <2>7. QED
    BY <1>1, <2>1, <2>5, <2>6 DEF OneEnd
<1>4. (ReadStartAck \/ ReadStopAck \/ ReadBeat) => Working' /\ OnePlace' /\ OneEnd'
  BY <1>2 DEF ReadStartAck, ReadStopAck, ReadBeat, At0
<1>5. \/ AckRun \/ BeatScan \/ ReaderSweep
      \/ \E x \in reader.todo : BeatRun(x) \/ BeatMissing(x)
      => Working' /\ OnePlace' /\ OneEnd'
  BY <1>2 DEF AckRun, BeatRun, BeatMissing, BeatScan, ReaderSweep
<1>6. QED
  BY <1>3, <1>4, <1>5 DEF ReaderStep

LEMMA LinkKeeps ==
  ASSUME LifeInv, Created \subseteq Created', LinkStep
  PROVE  Working' /\ OnePlace' /\ OneEnd'
<1> USE DEF server, commandTable, runTable, link, agent, counted
<1>1. /\ TypeOK /\ Handling /\ Working /\ OnePlace /\ OneEnd /\ LinkType
      /\ exec \in [Runs -> ExecActive \cup {"none", "over"}] /\ up \in Seq(Messages)
      /\ Known \subseteq Events
  BY TypeParts, KnownEvents DEF LifeInv, LinkType, AgentType
<1>2. CASE Connect \/ Disable
  BY <1>1, <1>2, Quiet DEF Connect, Disable
<1>3. CASE ReadRejected
  <2> DEFINE m == Head(up)
  <2>1. up # <<>> /\ up' = Tail(up) /\ out' = out \cup EventsIn(<<m>>)
        /\ UNCHANGED <<stored, inbox, ackOf, exec>>
    BY <1>3 DEF ReadRejected
  <2>2. Once(up') /\ EventsIn(up') = EventsIn(up) \ {m}
    BY <1>1, <2>1, EventsInTail DEF OnePlace
  <2>3. EventsIn(<<m>>) = EventsIn(up) \cap {m}
    <3>1. 1 \in DOMAIN up /\ m = up[1]
      BY <1>1, <2>1, EmptySeq, LenProperties
    <3>2. QED
      BY <3>1 DEF EventsIn
  <2>4. OnePlace' /\ Known' = Known
    BY <1>1, <2>1, <2>2, <2>3 DEF OnePlace, Known
  <2>5. Working'
    BY <1>1, <2>1, SentKept DEF Working, WasAcked
  <2>6. QED
    BY <1>1, <2>1, <2>4, <2>5 DEF OneEnd
<1>4. CASE Drop
  <2>1. LoseLink /\ out' = out \cup EventsIn(up) /\ UNCHANGED <<stored, ackOf, exec>>
    BY <1>4 DEF Drop
  <2>2. OnePlace' /\ Known' = Known
    BY <1>1, <2>1, EventsInEmpty DEF LoseLink, OnePlace, Known
  <2>3. Working'
    BY <1>1, <2>1, SentKept DEF LoseLink, Working, WasAcked
  <2>4. QED
    BY <1>1, <2>1, <2>2, <2>3 DEF OneEnd
<1>5. CASE AgentCrash
  <2> DEFINE E == {Event(r, "error") : r \in {q \in Runs : exec[q] \in {"running", "stopping"}}}
  <2>1. /\ LoseLink /\ out' = (out \cup EventsIn(up)) \cup E /\ UNCHANGED <<stored, ackOf>>
        /\ exec' = [r \in Runs |-> IF exec[r] \in ExecActive THEN "over" ELSE exec[r]]
    BY <1>5 DEF AgentCrash
  <2>2. \A e \in E : /\ e \in Events /\ e.type = "event" /\ e.kind = "error" /\ e.run \in Runs
                     /\ exec[e.run] \in {"running", "stopping"}
    BY DEF Event, Events, Endings
  <2>3. \A d, e \in E : d.run = e.run => d = e
    BY DEF Event
  <2> HIDE DEF E
  <2>4. E \cap Known = {}
    BY <1>1, <2>2 DEF OneEnd, Endings
  <2>5. OnePlace'
    BY <1>1, <2>1, <2>4, EventsInEmpty DEF LoseLink, OnePlace, Known
  <2>6. Known' = Known \cup E
    BY <2>1, EventsInEmpty DEF LoseLink, Known
  <2>7. GoesOn /\ \A e \in E : exec'[e.run] = "over"
    BY <1>1, <2>1, <2>2 DEF GoesOn, ExecActive
  <2>8. OneEnd'
    <3>1. E \in SUBSET Events
      BY <2>2
    <3>2. \A e \in E : /\ exec'[e.run] # "none" /\ exec'[e.run] \in {"ending", "over"}
                       /\ exec[e.run] \notin {"ending", "over"}
      BY <2>2, <2>7
    <3>3. QED
      BY <1>1, <2>3, <2>6, <2>7, <3>1, <3>2, EndKept
  <2>9. Working'
    <3>1. \A r \in Runs : exec'[r] # "none" => exec[r] # "none"
      BY <1>1, <2>1 DEF ExecActive
    <3>2. QED
      BY <1>1, <2>1, <3>1, SentKept DEF LoseLink, Working, WasAcked
  <2>10. QED
    BY <2>5, <2>8, <2>9
<1>6. QED
  BY <1>2, <1>3, <1>4, <1>5 DEF LinkStep

LEMMA AgentKeeps ==
  ASSUME LifeInv, Created \subseteq Created', AgentStep
  PROVE  Working' /\ OnePlace' /\ OneEnd'
<1> USE DEF server, commandTable, runTable, link, agent, counted
<1>1. /\ TypeOK /\ Handling /\ Working /\ OnePlace /\ OneEnd /\ LinkType /\ AgentType
      /\ exec \in [Runs -> ExecActive \cup {"none", "over"}]
      /\ ackOf \in [Commands -> Acks \cup {NoAck}]
      /\ Known \subseteq Events
  BY TypeParts, KnownEvents DEF LifeInv, AgentType
<1>2. UNCHANGED stored
  BY DEF AgentStep, AgentRead, AgentReply, BeatRead, BeatSend, FinalEmit, FinalRemove, Flush
<1>3. \A r \in Runs : \A kind \in {"started"} \cup Endings :
        /\ Event(r, kind) \in Events /\ Event(r, kind).run = r /\ Event(r, kind).kind = kind
  BY DEF Event, Events
<1>4. ASSUME Known' = Known, GoesOn PROVE OneEnd'
  BY <1>1, <1>4 DEF OneEnd, GoesOn, Events
<1>5. ASSUME UNCHANGED <<out, up>>
      PROVE  OnePlace' /\ Known' = Known
  BY <1>1, <1>2, <1>5 DEF OnePlace, Known
<1>6. ASSUME NEW r \in Runs, NEW kind \in {"started"} \cup Endings, NEW to \in ExecActive,
             GoesOn, exec'[r] = to, kind \in Endings => to = "ending" /\ exec[r] \in {"running", "stopping"},
             kind = "started" => exec[r] = "none",
             \/ up' = Append(up, Event(r, kind)) /\ UNCHANGED out
             \/ out' = out \cup {Event(r, kind)} /\ UNCHANGED up
      PROVE  OnePlace' /\ OneEnd'
  <2> DEFINE e == Event(r, kind)
  <2>1. e \in Events /\ e.run = r /\ e.kind = kind
    BY <1>3
  <2> HIDE DEF e
  <2>2. e \notin Known
    BY <1>1, <1>6, <2>1 DEF OneEnd
  <2>3. OnePlace' /\ Known' = Known \cup {e}
    BY <1>1, <1>2, <1>6, <2>1, <2>2, EventEmitted DEF e
  <2>4. \A x \in {e} : /\ exec'[x.run] # "none"
                       /\ x.kind \in Endings => /\ exec'[x.run] \in {"ending", "over"}
                                                /\ exec[x.run] \notin {"ending", "over"}
    BY <1>6, <2>1 DEF ExecActive
  <2>5. {e} \in SUBSET Events /\ Known' \subseteq Known \cup {e}
    BY <2>1, <2>3
  <2>6. OneEnd'
    BY <1>1, <1>6, <2>4, <2>5, EndKept
  <2>7. QED
    BY <2>3, <2>6
<1>7. CASE AgentRead
  <2> DEFINE c == Head(inbox)
  <2>1. inbox # <<>> /\ inbox' = Tail(inbox) /\ UNCHANGED <<out, beat>>
    BY <1>7 DEF AgentRead
  <2>2. WasSent' /\ c \in Commands /\ c \in Created
    <3>1. inbox \in Seq(Commands) /\ 1 \in 1 .. Len(inbox) /\ c = inbox[1]
      BY <1>1, <2>1, EmptySeq, LenProperties DEF LinkType
    <3>2. c \in Created
      BY <1>1, <3>1 DEF Working, WasSent
    <3>3. QED
      BY <1>1, <2>1, <3>2, SentKept DEF Working, Created
  <2>3. CASE UNCHANGED <<ackOf, exec, up>>
    BY <1>1, <1>4, <1>5, <2>1, <2>2, <2>3 DEF Working, WasAcked, GoesOn
  <2>4. CASE ackOf[c] = NoAck /\ c \in Starts /\ StartAtAgent(c)
    <3>1. \A status \in {"ok", "rejected"} : Ack(c, c, status) # NoAck
      BY <2>2, <2>4, Kinds, NullAssumption DEF Ack, Acks
    <3>2. ackOf'[c] # NoAck /\ \A d \in Commands : ackOf[d] # NoAck => ackOf'[d] # NoAck
      <4>1. \E status \in {"ok", "rejected"} : ackOf' = [ackOf EXCEPT ![c] = Ack(c, c, status)]
        BY <2>4 DEF StartAtAgent, Answer
      <4>2. QED
        BY <1>1, <2>2, <3>1, <4>1
    <3>3. exec[c] = "none"
      BY <1>1, <2>4, Kinds DEF Working, WasAcked
    <3>4. CASE UNCHANGED <<exec, up>>
      BY <1>1, <1>4, <1>5, <2>1, <2>2, <3>2, <3>4, Kinds DEF Working, WasAcked, GoesOn
    <3>5. CASE exec' = [exec EXCEPT ![c] = "running"] /\ up' = Append(up, Event(c, "started"))
      <4>1. exec'[c] = "running" /\ \A r \in Runs : r # c => exec'[r] = exec[r]
        BY <1>1, <2>4, <3>5, Kinds
      <4>2. GoesOn
        BY <3>3, <4>1 DEF GoesOn
      <4>3. Working'
        BY <1>1, <2>2, <3>2, <4>1, Kinds DEF Working, WasAcked
      <4>4. c \in Runs /\ "running" \in ExecActive /\ "started" \notin Endings
        BY <2>4, Kinds DEF ExecActive, Endings
      <4>5. OnePlace' /\ OneEnd'
        BY <1>6, <2>1, <3>3, <3>5, <4>1, <4>2, <4>4
      <4>6. QED
        BY <4>3, <4>5
    <3>6. QED
      BY <2>4, <3>4, <3>5 DEF StartAtAgent
  <2>5. CASE c \in Stops /\ StopAtAgent(c) /\ UNCHANGED up
    <3>1. \/ UNCHANGED exec
          \/ \E r \in AgentActive : exec' = [exec EXCEPT ![r] = IF @ = "ending" THEN @ ELSE "stopping"]
      BY <2>5 DEF StopAtAgent, AgentTargets
    <3>2. GoesOn /\ \A r \in Runs : exec'[r] # "none" => exec[r] # "none"
      BY <1>1, <3>1 DEF GoesOn, AgentActive, ExecActive
    <3>3. \A r \in Runs : ackOf'[r] = ackOf[r]
      <4>1. \E ack : ackOf' = [ackOf EXCEPT ![c] = ack]
        BY <2>5 DEF StopAtAgent, Answer
      <4>2. QED
        BY <1>1, <2>2, <2>5, <4>1, Kinds, CommandAssumption
    <3>4. Working'
      BY <1>1, <2>2, <3>2, <3>3 DEF Working, WasAcked
    <3>5. QED
      BY <1>4, <1>5, <2>1, <2>5, <3>2, <3>4
  <2>6. QED
    BY <1>7, <2>3, <2>4, <2>5 DEF AgentRead
<1>8. CASE AgentReply \/ BeatSend
  <2>1. /\ UNCHANGED <<stored, out, ackOf, exec, inbox>>
        /\ \E m \in Acks \cup Beats : up' = Append(up, m)
    BY <1>1, <1>8 DEF AgentReply, BeatSend, AgentType
  <2>2. QED
    BY <1>1, <2>1, Quiet
<1>9. CASE BeatRead
  BY <1>1, <1>9, Quiet DEF BeatRead
<1>10. ASSUME NEW r \in Runs, FinalEmit(r) PROVE Working' /\ OnePlace' /\ OneEnd'
  <2>1. /\ exec[r] \in {"running", "stopping"} /\ exec' = [exec EXCEPT ![r] = "ending"]
        /\ UNCHANGED <<inbox, ackOf>>
    BY <1>10 DEF FinalEmit
  <2>2. exec'[r] = "ending" /\ \A q \in Runs : q # r => exec'[q] = exec[q]
    BY <1>1, <2>1
  <2>3. GoesOn
    BY <2>1, <2>2 DEF GoesOn
  <2>4. Working'
    BY <1>1, <2>1, <2>2, SentKept DEF Working, WasAcked
  <2>5. PICK kind \in Endings : \/ up' = Append(up, Event(r, kind)) /\ UNCHANGED out
                                \/ out' = out \cup {Event(r, kind)} /\ UNCHANGED up
    BY <1>10 DEF FinalEmit, Endings
  <2>6. "ending" \in ExecActive /\ kind # "started" /\ kind \in {"started"} \cup Endings
    BY DEF ExecActive, Endings
  <2>7. OnePlace' /\ OneEnd'
    BY <1>6, <2>1, <2>2, <2>3, <2>5, <2>6
  <2>8. QED
    BY <2>4, <2>7
<1>11. ASSUME NEW r \in Runs, FinalRemove(r) PROVE Working' /\ OnePlace' /\ OneEnd'
  <2>1. exec[r] = "ending" /\ exec' = [exec EXCEPT ![r] = "over"] /\ UNCHANGED <<link, ackOf, out>>
    BY <1>11 DEF FinalRemove
  <2>2. GoesOn /\ \A q \in Runs : exec'[q] # "none" => exec[q] # "none"
    BY <1>1, <2>1 DEF GoesOn
  <2>3. Working'
    BY <1>1, <2>1, <2>2, SentKept DEF Working, WasAcked
  <2>4. QED
    BY <1>4, <1>5, <2>1, <2>2, <2>3
<1>12. ASSUME NEW e \in out, Flush(e) PROVE Working' /\ OnePlace' /\ OneEnd'
  <2>1. up' = Append(up, e) /\ out' = out \ {e} /\ UNCHANGED <<inbox, ackOf, exec>>
    BY <1>12 DEF Flush
  <2>2. OnePlace' /\ Known' = Known
    BY <1>1, <1>2, <2>1, EventAway
  <2>3. Working' /\ GoesOn
    BY <1>1, <2>1, SentKept DEF Working, WasAcked, GoesOn
  <2>4. QED
    BY <1>4, <2>2, <2>3
<1>13. QED
  BY <1>7, <1>8, <1>9, <1>10, <1>11, <1>12 DEF AgentStep

LEMMA InitLife ==
  ASSUME Init PROVE LifeInv
<1>1. <<>> \in Seq(Commands) /\ <<>> \in Seq(Messages) /\ Len(<<>>) = 0
  BY EmptySeq
<1>2. TypeOK
  <2>1. work \in [Workers -> WorkType] /\ reader \in ReadType
    BY RestType DEF Init, RestRead, ReadType, ReadPC
  <2>2. TablesType /\ AgentType
    BY Kinds DEF Init, TablesType, AgentType
  <2>3. LinkType /\ CountedType
    BY <1>1 DEF Init, LinkType, CountedType
  <2>4. QED
    BY <2>1, <2>2, <2>3, TypeParts
<1>3. Handling
  BY RestType DEF Init, Handling, RestRead
<1>4. Working
  BY <1>1 DEF Init, Working, WasSent, WasAcked
<1>5. OnePlace /\ OneEnd
  BY EventsInEmpty DEF Init, OnePlace, OneEnd, Known
<1>6. QED
  BY <1>2, <1>3, <1>4, <1>5 DEF LifeInv

LEMMA NextLife ==
  ASSUME LifeInv, [Next]_vars PROVE LifeInv'
<1>1. TypeOK' /\ Handling' /\ Created \subseteq Created'
  BY NextTypes DEF LifeInv
<1>2. CASE UNCHANGED vars
  <2>1. UNCHANGED <<cmd, stored, inbox, up, ackOf, exec, out>>
    BY <1>2 DEF vars, server, commandTable, runTable, link, agent
  <2>2. QED
    BY <1>1, <2>1 DEF LifeInv, Working, WasSent, WasAcked, OnePlace, OneEnd, Known, Created
<1>3. CASE Next
  <2>1. Working' /\ OnePlace' /\ OneEnd'
    BY <1>1, <1>3, ServerKeeps, ReaderKeeps, LinkKeeps, AgentKeeps DEF Next
  <2>2. QED
    BY <1>1, <2>1 DEF LifeInv
<1>4. QED
  BY <1>2, <1>3

(* The agent works on commands that dash sent, it starts a run once, and   *)
(* every event of a run is in its outbox, on its way or stored, with one   *)
(* final event for a run (the tables commands, runs and run_events).       *)
THEOREM LifeInvariant == Spec => []LifeInv
<1>1. LifeInv /\ UNCHANGED vars => LifeInv'
  BY NextLife
<1>2. QED
  BY InitLife, NextLife, <1>1, PTL DEF Spec

(* The tables, the positions of the dispatching processes and of the       *)
(* reader, the messages and the agent keep their types.                    *)
THEOREM TypeCorrect == Spec => []TypeOK
<1>1. LifeInv => TypeOK
  BY DEF LifeInv
<1>2. QED
  BY LifeInvariant, <1>1, PTL

(* A command the agent answered, or that ran, never waits for a dispatch   *)
(* again, whatever MarkCommandDispatched, a retry or a refusal that read   *)
(* its status earlier still does.                                          *)
THEOREM AnsweredStaysSent == Spec => AnsweredNotPending
<1> DEFINE Kept == \A c \in Commands : cmd[c] \in Answered => cmd'[c] \notin Pending
<1>1. LifeInv /\ [Next]_vars => [Kept]_vars
  BY AnsweredStay DEF LifeInv
<1>2. QED
  BY LifeInvariant, <1>1, PTL DEF Spec, AnsweredNotPending

LEMMA FinishedKept ==
  ASSUME LifeInv, Next, NEW e \in stored, e.kind \in Endings, run[e.run] = e.kind
  PROVE  \/ run'[e.run] = e.kind
         \/ Event(e.run, "started") \in stored' \ stored
         \/ At("request", "retry") /\ work["request"].cmd = e.run
<1> USE DEF runTable, server
<1> DEFINE r == e.run
           Kept == \/ run'[r] = e.kind
                   \/ Event(r, "started") \in stored' \ stored
                   \/ At("request", "retry") /\ work["request"].cmd = r
<1>1. /\ TablesType /\ LinkType /\ run \in [Runs -> RunStatus] /\ r \in Runs
      /\ work \in [Workers -> WorkType] /\ Handling
  BY TypeParts DEF LifeInv, TablesType, Events
<1>2. run[r] \in {"done", "error", "stopped"} /\ run[r] \notin RunActive
  BY DEF Endings, RunActive
<1>3. e \in Known /\ r \in Created
  BY <1>1 DEF LifeInv, OneEnd, Known, Working, WasAcked
<1>4. ASSUME UNCHANGED run PROVE Kept
  BY <1>4
<1>5. ASSUME NEW c \in Commands, SaveStart(c) PROVE Kept
  BY <1>1, <1>3, <1>5 DEF SaveStart
<1>6. ASSUME NEW s \in Commands, SaveStop(s) PROVE Kept
  <2>1. \/ UNCHANGED run
        \/ \E q \in StopTargets(s) : /\ run[q] \in RunActive
                                     /\ \E to : run' = [run EXCEPT ![q] = to]
    BY <1>6 DEF SaveStop, Undispatched, RunActive
  <2>2. QED
    BY <1>1, <1>2, <2>1
<1>7. CASE RetryPrepare
  <2> DEFINE c == work["request"].cmd
             q == IF c \in Starts THEN c ELSE target[c]
  <2>1. /\ At("request", "retry")
        /\ \/ UNCHANGED run
           \/ /\ c \in Starts \/ run[q] = "stop_failed"
              /\ \E to : run' = [run EXCEPT ![q] = to]
    BY <1>7 DEF RetryPrepare
  <2>2. QED
    BY <1>1, <1>2, <2>1
<1>8. ASSUME NEW c, NEW to, EndRun(c, to) PROVE Kept
  BY <1>1, <1>2, <1>8 DEF EndRun
<1>9. ASSUME NEW S, ExpireRuns(S) PROVE Kept
  BY <1>1, <1>2, <1>9, ExpireTypes DEF ExpireRuns
<1>10. CASE RequestStep
  BY <1>4, <1>5, <1>6, <1>7, <1>10 DEF RequestStep, RetryRead, ClaimOne
<1>11. ASSUME NEW w \in Workers,
              DispatchStep(w) \/ Cancel(w) \/ \E S \in SUBSET Commands : ClaimBatch(w, S)
       PROVE  Kept
  BY <1>4, <1>8, <1>11
     DEF DispatchStep, Cancel, ClaimBatch, NextCommand, Check, Send, Mark, Refuse, RefuseRun
<1>12. CASE DispatcherSweep
  BY <1>4, <1>9, <1>12 DEF DispatcherSweep
<1>13. CASE ReaderStep
  <2>1. AckRun => Kept
    <3>1. ASSUME AckRun
          PROVE  \/ EndRun(reader.msg.cmd, "rejected")
                 \/ UNCHANGED run
                 \/ run[reader.msg.run] = "queued" /\ run' = [run EXCEPT ![reader.msg.run] = "accepted"]
      BY <3>1 DEF AckRun
    <3>2. QED
      BY <1>1, <1>2, <1>4, <1>8, <3>1
  <2>2. ReadStopAck => Kept
    <3>1. ASSUME ReadStopAck
          PROVE  \/ UNCHANGED run
                 \/ \E q, to : run[q] \in RunActive /\ run' = [run EXCEPT ![q] = to]
      <4> DEFINE m == Head(up)
                 q == m.run
                 ok == m.status = "ok"
      <4>1. run' = IF q = NoRun THEN run
                   ELSE IF ok /\ run[q] \in RunActive THEN [run EXCEPT ![q] = "stopping"]
                   ELSE IF ~ok /\ run[q] = "stopping" THEN [run EXCEPT ![q] = "stop_failed"]
                   ELSE run
        BY <3>1 DEF ReadStopAck
      <4> HIDE DEF q, ok
      <4>2. "stopping" \in RunActive
        BY DEF RunActive
      <4>3. QED
        BY <4>1, <4>2
    <3>2. QED
      BY <1>1, <1>2, <1>4, <3>1
  <2>3. CASE ReadEvent
    <3> DEFINE m == Head(up)
    <3>1. m \in Events /\ m \in EventsIn(up)
      <4>1. up # <<>> /\ m.type = "event" /\ m \in Events /\ up \in Seq(Messages)
        BY <1>1, <2>3, Received DEF ReadEvent, At0, LinkType
      <4>2. 1 \in DOMAIN up /\ m = up[1]
        BY <4>1, EmptySeq, LenProperties
      <4>3. QED
        BY <4>1, <4>2 DEF EventsIn
    <3>2. m \in Known /\ m \notin stored
      BY <3>1 DEF LifeInv, OnePlace, Known
    <3>3. CASE UNCHANGED run
      BY <3>3
    <3>4. CASE (\E to : run' = [run EXCEPT ![m.run] = to]) /\ stored' = stored \cup {m}
      <4>1. CASE m.run # r
        BY <1>1, <3>4, <4>1
      <4>2. CASE m.run = r /\ m.kind = "started"
        <5>1. m = Event(r, "started")
          BY <3>1, <4>2 DEF Events, Event
        <5>2. QED
          BY <3>2, <3>4, <5>1
      <4>3. CASE m.run = r /\ m.kind # "started"
        <5>1. m.kind \in Endings
          BY <3>1, <4>3 DEF Events
        <5>2. m = e
          BY <1>3, <3>2, <4>3, <5>1 DEF LifeInv, OneEnd
        <5>3. QED
          BY <3>2, <5>2
      <4>4. QED
        BY <4>1, <4>2, <4>3
    <3>5. QED
      BY <2>3, <3>3, <3>4 DEF ReadEvent
  <2>4. ASSUME NEW x \in reader.todo, BeatRun(x) PROVE Kept
    <3>1. \/ UNCHANGED run
          \/ run[x.run] \in RunActive /\ run' = [run EXCEPT ![x.run] = "running"]
      BY <2>4 DEF BeatRun, RunActive
    <3>2. QED
      BY <1>1, <1>2, <3>1
  <2>5. ASSUME NEW x \in reader.todo, BeatMissing(x) PROVE Kept
    <3>1. \/ UNCHANGED run
          \/ run[x.run] \in RunActive /\ \E to : run' = [run EXCEPT ![x.run] = to]
      BY <2>5 DEF BeatMissing, RunActive
    <3>2. QED
      BY <1>1, <1>2, <3>1
  <2>6. ReaderSweep => Kept
    BY <1>4, <1>9 DEF ReaderSweep
  <2>7. (ReadStartAck \/ ReadBeat \/ BeatScan) => Kept
    BY <1>4 DEF ReadStartAck, ReadBeat, BeatScan
  <2>8. QED
    BY <1>13, <2>1, <2>2, <2>3, <2>4, <2>5, <2>6, <2>7 DEF ReaderStep
<1>14. CASE LinkStep
  BY <1>4, <1>14 DEF LinkStep, Connect, Drop, ReadRejected, Disable, AgentCrash
<1>15. CASE TimeStep
  BY <1>4, <1>15, TimeTypes DEF LifeInv
<1>16. CASE AgentStep
  BY <1>4, <1>16 DEF AgentStep, AgentRead, AgentReply, BeatRead, BeatSend, FinalEmit, FinalRemove, Flush
<1>17. QED
  BY <1>10, <1>11, <1>12, <1>13, <1>14, <1>15, <1>16 DEF Next

(* Once the final event of a run is stored, no late ack, heartbeat,        *)
(* expiry, refusal or stop changes runs.status: only a retry of the        *)
(* command, or the run's own run.started when that is stored later.        *)
THEOREM FinishedStays == Spec => FinishedRunKept
<1> DEFINE Kept == \A e \in stored : e.kind \in Endings /\ run[e.run] = e.kind =>
                     \/ run'[e.run] = e.kind
                     \/ Event(e.run, "started") \in stored' \ stored
                     \/ At("request", "retry") /\ work["request"].cmd = e.run
<1>1. LifeInv /\ [Next]_vars => [Kept]_vars
  BY FinishedKept
<1>2. QED
  BY LifeInvariant, <1>1, PTL DEF Spec, FinishedRunKept

-----------------------------------------------------------------------------
(* A stop that dash sees as done. The invariant follows the agent's answer *)
(* to a stop from its ack table over the link to the table commands.       *)

InInbox(c)  == \E i \in 1 .. Len(inbox) : inbox[i] = c
Takes(w, c) == c \in work[w].todo \/ (work[w].cmd = c /\ work[w].pc \in {"check", "send"})
Untaken(c)  == ~InInbox(c) /\ \A w \in Workers : ~Takes(w, c)
Told        == {"stopping", "ending", "over"}

(* Every ack on its way is the one of the agent's table, and a stop that   *)
(* was accepted ended the run its ack names.                               *)
Answers ==
  /\ \A c \in Commands : ackOf[c] # NoAck => ackOf[c].cmd = c /\ c \in Created
  /\ \A s \in Stops : ackOf[s] # NoAck /\ ackOf[s].status = "ok" =>
       ackOf[s].run \in Runs /\ exec[ackOf[s].run] \in Told
  /\ \A i \in 1 .. Len(up) : up[i].type = "ack" => ackOf[up[i].cmd] = up[i]
  /\ reply # NoAck => ackOf[reply.cmd] = reply

(* A stop is done because its ack was ok, and then names the run the ack   *)
(* names; or the server closed it itself, and never sends it.              *)
ClosedStops ==
  \A s \in Stops : cmd[s] = "done" =>
    IF ackOf[s] = NoAck THEN Untaken(s)
    ELSE ackOf[s].status = "ok" /\ ackOf[s].run = target[s]

StopInv == LifeInv /\ Answers /\ ClosedStops

(* How a process moves, field by field.                                    *)
Same(v) == work'[v] = work[v]
Others(w) == \A v \in Workers \ {w} : Same(v)

LEMMA StepFields ==
  ASSUME work \in [Workers -> WorkType], NEW w \in Workers, NEW to, Step(w, to)
  PROVE  /\ Others(w) /\ work'[w].pc = to /\ work'[w].cmd = work[w].cmd
         /\ work'[w].todo = work[w].todo /\ work'[w].access = work[w].access
         /\ work'[w].expired = work[w].expired /\ work'[w].end = work[w].end
BY DEF Step, WorkType, Others, Same

LEMMA RefusingFields ==
  ASSUME work \in [Workers -> WorkType], NEW w \in Workers, NEW end, Refusing(w, end)
  PROVE  /\ Others(w) /\ work'[w].pc = "refuse" /\ work'[w].cmd = work[w].cmd
         /\ work'[w].todo = work[w].todo /\ work'[w].access = work[w].access
         /\ work'[w].expired = work[w].expired /\ work'[w].end = end
BY DEF Refusing, WorkType, Others, Same

LEMMA DoneFields ==
  ASSUME work \in [Workers -> WorkType], NEW w \in Workers, Done(w)
  PROVE  /\ Others(w) /\ work'[w].pc = (IF w = "request" THEN "idle" ELSE "next")
         /\ work'[w].cmd = NoCmd /\ work'[w].todo = work[w].todo /\ work'[w].access = TRUE
         /\ work'[w].expired = {}
BY DEF Done, Rest, WorkType, Others, Same

LEMMA ProceedFields ==
  ASSUME work \in [Workers -> WorkType], NEW w \in Workers, NEW S, NEW to, Proceed(w, S, to)
  PROVE  /\ Others(w) /\ work'[w].pc = to /\ work'[w].cmd = work[w].cmd
         /\ work'[w].todo = S /\ work'[w].access = work[w].access
         /\ work'[w].expired = work[w].expired
BY DEF Proceed, WorkType, Others, Same

LEMMA ClaimingFields ==
  ASSUME work \in [Workers -> WorkType], "request" \in Workers, NEW c, Claiming(c)
  PROVE  /\ Others("request") /\ work'["request"].pc = "claim" /\ work'["request"].cmd = c
         /\ work'["request"].todo = {} /\ work'["request"].access = TRUE
         /\ work'["request"].expired = {}
BY DEF Claiming, Rest, WorkType, Others, Same

LEMMA NextFields ==
  ASSUME work \in [Workers -> WorkType], NEW w \in Workers, NextCommand(w)
  PROVE  /\ Others(w)
         /\ \/ work'[w] = Rest
            \/ \E c \in work[w].todo :
                 /\ work'[w].pc = "check" /\ work'[w].cmd = c /\ work'[w].todo = work[w].todo \ {c}
                 /\ work'[w].access = (w = "replay" \/ ~disabled)
                 /\ work'[w].expired = work[w].expired
<1>1. CASE work' = [work EXCEPT ![w] = Rest]
  BY <1>1 DEF Others, Same
<1>2. ASSUME NEW c \in work[w].todo,
             work' = [work EXCEPT ![w].pc = "check", ![w].cmd = c, ![w].todo = @ \ {c},
                                  ![w].access = w = "replay" \/ ~disabled]
      PROVE  /\ Others(w)
             /\ work'[w].pc = "check" /\ work'[w].cmd = c /\ work'[w].todo = work[w].todo \ {c}
             /\ work'[w].access = (w = "replay" \/ ~disabled)
             /\ work'[w].expired = work[w].expired
  <2> DEFINE x == [work[w] EXCEPT !.pc = "check", !.cmd = c, !.todo = work[w].todo \ {c},
                                  !.access = (w = "replay" \/ ~disabled)]
  <2>1. work' = [work EXCEPT ![w] = x]
    BY <1>2 DEF WorkType
  <2>2. /\ x.pc = "check" /\ x.cmd = c /\ x.todo = work[w].todo \ {c}
        /\ x.access = (w = "replay" \/ ~disabled) /\ x.expired = work[w].expired
    BY DEF WorkType
  <2>3. work'[w] = x /\ Others(w)
    BY <2>1 DEF Others, Same
  <2>4. QED
    BY <2>2, <2>3
<1>3. QED
  BY <1>1, <1>2 DEF NextCommand

LEMMA RestFields ==
  /\ Rest.pc = "idle" /\ Rest.cmd = NoCmd /\ Rest.todo = {} /\ Rest.access = TRUE
  /\ Rest.expired = {}
BY DEF Rest

LEMMA UpTail ==
  ASSUME StopInv, up # <<>>
  PROVE  \A i \in 1 .. Len(Tail(up)) : \E j \in 1 .. Len(up) : Tail(up)[i] = up[j]
<1>1. up \in Seq(Messages)
  BY TypeParts DEF StopInv, LifeInv, LinkType
<1>2. /\ Len(up) \in Nat /\ Len(Tail(up)) = Len(up) - 1
      /\ \A i \in 1 .. Len(up) - 1 : Tail(up)[i] = up[i + 1]
  BY <1>1, HeadTailProperties, EmptySeq, LenProperties
<1>3. \A i \in 1 .. Len(Tail(up)) : i + 1 \in 1 .. Len(up) /\ Tail(up)[i] = up[i + 1]
  BY <1>2
<1>4. QED
  BY <1>3

LEMMA UpAppend ==
  ASSUME StopInv, NEW m, up' = Append(up, m), m \in Messages
  PROVE  \A i \in 1 .. Len(up') : (\E j \in 1 .. Len(up) : up'[i] = up[j]) \/ up'[i] = m
<1>1. up \in Seq(Messages)
  BY TypeParts DEF StopInv, LifeInv, LinkType
<1>2. /\ Len(up) \in Nat /\ Len(up') = Len(up) + 1 /\ up'[Len(up) + 1] = m
      /\ \A i \in 1 .. Len(up) : up'[i] = up[i]
  BY <1>1, AppendProperties, LenProperties
<1>3. QED
  BY <1>2

(* Any step but that of the agent's read loop: acks stay, and only what is *)
(* pending is claimed.                                                     *)
AcksFlow ==
  \A i \in 1 .. Len(up') : \/ \E j \in 1 .. Len(up) : up'[i] = up[j]
                           \/ up'[i].type # "ack"
                           \/ reply # NoAck /\ up'[i] = reply
RunsOver == \A r \in Runs : exec[r] \in Told => exec'[r] \in Told
OnlyPendingTaken ==
  /\ \A w \in Workers, c \in Commands : Takes(w, c)' => Takes(w, c) \/ cmd[c] \in Pending
  /\ \A c \in Commands : InInbox(c)' => InInbox(c) \/ \E w \in Workers : Takes(w, c)
StopsClosed ==
  \A s \in Stops : cmd'[s] = "done" =>
    \/ cmd[s] = "done" /\ target'[s] = target[s]
    \/ cmd[s] = "absent"
    \/ ackOf[s] # NoAck /\ ackOf[s].status = "ok" /\ ackOf[s].run = target'[s]

LEMMA StopsStay ==
  ASSUME StopInv, Created \subseteq Created', UNCHANGED ackOf, reply' = reply \/ reply' = NoAck,
         AcksFlow, RunsOver, OnlyPendingTaken, StopsClosed
  PROVE  Answers' /\ ClosedStops'
<1>1. Answers'
  <2>1. \A c \in Commands : ackOf'[c] # NoAck => ackOf'[c].cmd = c /\ c \in Created'
    BY DEF StopInv, Answers
  <2>2. \A s \in Stops : ackOf'[s] # NoAck /\ ackOf'[s].status = "ok" =>
          ackOf'[s].run \in Runs /\ exec'[ackOf'[s].run] \in Told
    BY DEF StopInv, Answers, RunsOver
  <2>3. \A i \in 1 .. Len(up') : up'[i].type = "ack" => ackOf'[up'[i].cmd] = up'[i]
    BY DEF StopInv, Answers, AcksFlow
  <2>4. reply' # NoAck => ackOf'[reply'.cmd] = reply'
    BY DEF StopInv, Answers
  <2>5. QED
    BY <2>1, <2>2, <2>3, <2>4 DEF Answers
<1>2. ASSUME NEW s \in Stops, cmd'[s] = "done", ackOf[s] = NoAck
      PROVE  Untaken(s)'
  <2>1. s \in Commands /\ s # NoCmd /\ cmd[s] \notin Pending /\ Untaken(s)
    <3>1. s \in Commands /\ s # NoCmd
      BY Kinds
    <3>2. CASE cmd[s] = "done"
      BY <1>2, <3>1, <3>2 DEF StopInv, ClosedStops, Pending
    <3>3. CASE cmd[s] = "absent"
      <4>1. s \notin Created
        BY <3>3 DEF Created
      <4>2. ~InInbox(s)
        BY <4>1 DEF StopInv, LifeInv, Working, WasSent, InInbox
      <4>3. \A w \in Workers : ~Takes(w, s)
        BY <3>1, <4>1 DEF StopInv, LifeInv, Handling, Handles, Takes
      <4>4. QED
        BY <3>1, <3>3, <4>2, <4>3 DEF Untaken, Pending
    <3>4. QED
      BY <1>2, <3>2, <3>3 DEF StopsClosed
  <2>2. QED
    BY <2>1 DEF OnlyPendingTaken, Untaken
<1>3. ASSUME NEW s \in Stops, cmd'[s] = "done", ackOf[s] # NoAck
      PROVE  ackOf[s].status = "ok" /\ ackOf[s].run = target'[s]
  <2>1. s \in Created
    BY <1>3, Kinds DEF StopInv, Answers
  <2>2. QED
    BY <1>3, <2>1 DEF StopInv, ClosedStops, StopsClosed, Created
<1>4. ClosedStops'
  BY <1>2, <1>3 DEF ClosedStops
<1>5. QED
  BY <1>1, <1>4

(* A step of a dispatching process: what it takes up is pending.           *)
LEMMA ProcessTakes ==
  ASSUME NEW w \in Workers, Others(w),
         \A c \in work'[w].todo : c \in work[w].todo \/ cmd[c] \in Pending,
         work'[w].pc \in {"check", "send"} =>
           Takes(w, work'[w].cmd) \/ cmd[work'[w].cmd] \in Pending,
         \A c \in Commands : InInbox(c)' => InInbox(c) \/ Takes(w, c)
  PROVE  OnlyPendingTaken
<1>1. \A v \in Workers \ {w}, c \in Commands : Takes(v, c)' <=> Takes(v, c)
  BY DEF Others, Same, Takes
<1>2. \A c \in Commands : Takes(w, c)' => Takes(w, c) \/ cmd[c] \in Pending
  BY DEF Takes
<1>3. QED
  BY <1>1, <1>2 DEF OnlyPendingTaken

LEMMA ProcessStays ==
  ASSUME StopInv, Created \subseteq Created', UNCHANGED <<ackOf, exec, up, reply>>,
         NEW w \in Workers, Others(w),
         \A c \in work'[w].todo : c \in work[w].todo \/ cmd[c] \in Pending,
         work'[w].pc \in {"check", "send"} =>
           Takes(w, work'[w].cmd) \/ cmd[work'[w].cmd] \in Pending,
         \A c \in Commands : InInbox(c)' => InInbox(c) \/ Takes(w, c),
         StopsClosed
  PROVE  Answers' /\ ClosedStops'
<1>1. OnlyPendingTaken
  BY ProcessTakes
<1>2. AcksFlow /\ RunsOver
  BY DEF AcksFlow, RunsOver
<1>3. QED
  BY <1>1, <1>2, StopsStay

(* Statements on a command leave the stops that are done, and close none.  *)
LEMMA SetCmdCloses ==
  ASSUME TablesType, NEW c, NEW from, NEW to \in CmdStatus \ {"absent"}, SetCmd(c, from, to),
         to # "done" \/ c \notin Stops, UNCHANGED target
  PROVE  StopsClosed
<1>1. \A d \in Commands : cmd'[d] = cmd[d] \/ (d = c /\ cmd'[d] = to)
  BY SetCmdType
<1>2. QED
  BY <1>1, Kinds DEF StopsClosed

LEMMA RequestStops ==
  ASSUME StopInv, Created \subseteq Created', RequestStep
  PROVE  Answers' /\ ClosedStops'
<1> USE DEF commandTable, runTable, server, link, agent, counted
<1>1. TablesType /\ work \in [Workers -> WorkType]
  BY TypeParts DEF StopInv, LifeInv
<1>2. ASSUME NEW c \in Commands, SaveStart(c) PROVE Answers' /\ ClosedStops'
  <2>1. "request" \in Workers /\ Claiming(c)
    BY <1>2 DEF SaveStart, Asked, At
  <2>2. StopsClosed
    BY <1>1, <1>2, Kinds DEF SaveStart, StopsClosed, TablesType
  <2>3. QED
    BY <1>1, <1>2, <2>1, <2>2, ClaimingFields, ProcessStays DEF SaveStart, InInbox
<1>3. ASSUME NEW s \in Commands, SaveStop(s) PROVE Answers' /\ ClosedStops'
  <2>1. "request" \in Workers /\ Claiming(s)
    BY <1>3 DEF SaveStop, Asked, At
  <2>2. StopsClosed
    <3>1. cmd[s] = "absent" /\ \A t \in Stops \ {s} : target'[t] = target[t]
      BY <1>1, <1>3 DEF SaveStop, Created, TablesType
    <3>2. StopTargets(s) \subseteq Runs
      <4>1. s \in Stops /\ StopRun[s] \in Runs \cup {NoRun}
        BY <1>3, CommandAssumption DEF SaveStop
      <4>2. QED
        BY <4>1 DEF StopTargets
    <3>3. \/ cmd' = [cmd EXCEPT ![s] = "done"] \/ cmd' = [cmd EXCEPT ![s] = "queued"]
          \/ \E r \in Runs : cmd' = [cmd EXCEPT ![r] = "stopped", ![s] = "done"]
      BY <1>3, <3>2 DEF SaveStop
    <3>4. \A t \in Stops \ {s} : cmd'[t] = cmd[t] \/ cmd'[t] = "stopped"
      BY <1>1, <3>3, Kinds DEF TablesType
    <3>5. QED
      BY <3>1, <3>4 DEF StopsClosed
  <2>3. QED
    BY <1>1, <1>3, <2>1, <2>2, ClaimingFields, ProcessStays DEF SaveStop, InInbox
<1>4. ASSUME NEW c \in Commands, RetryRead(c) PROVE Answers' /\ ClosedStops'
  <2>1. /\ "request" \in Workers /\ Others("request")
        /\ work'["request"].pc = "retry" /\ work'["request"].todo = {}
    BY <1>1, <1>4 DEF RetryRead, Asked, At, Rest, Others, Same, WorkType
  <2>2. StopsClosed
    BY <1>4 DEF RetryRead, StopsClosed
  <2>3. QED
    BY <1>4, <2>1, <2>2, ProcessStays DEF RetryRead, InInbox
<1>5. CASE RetryPrepare
  <2>1. "request" \in Workers /\ (Done("request") \/ Step("request", "claim"))
    BY <1>5 DEF RetryPrepare, At
  <2>2. /\ Others("request") /\ work'["request"].pc \in {"idle", "claim"}
        /\ work'["request"].todo = work["request"].todo
    BY <1>1, <2>1, DoneFields, StepFields
  <2>3. StopsClosed
    <3>1. CASE UNCHANGED cmd
      BY <1>5, <3>1 DEF RetryPrepare, StopsClosed
    <3>2. CASE SetCmd(work["request"].cmd, Retryable, "queued")
      BY <1>1, <1>5, <3>2, Kinds, SetCmdCloses DEF RetryPrepare
    <3>3. QED
      BY <1>5, <3>1, <3>2 DEF RetryPrepare
  <2>4. QED
    BY <1>5, <2>1, <2>2, <2>3, ProcessStays DEF RetryPrepare, InInbox
<1>6. CASE ClaimOne
  <2>1. /\ "request" \in Workers
        /\ \/ Claimable(work["request"].cmd) /\ Step("request", "check")
           \/ Done("request")
    BY <1>6 DEF ClaimOne, At
  <2>2. /\ Others("request") /\ work'["request"].todo = work["request"].todo
        /\ work'["request"].pc \in {"check", "send"} => cmd[work'["request"].cmd] \in Pending
    BY <1>1, <2>1, DoneFields, StepFields DEF Claimable
  <2>3. StopsClosed
    BY <1>6 DEF ClaimOne, StopsClosed
  <2>4. QED
    BY <1>6, <2>1, <2>2, <2>3, ProcessStays DEF ClaimOne, InInbox
<1>7. QED
  BY <1>2, <1>3, <1>4, <1>5, <1>6 DEF RequestStep

LEMMA InboxAppend ==
  ASSUME inbox \in Seq(Commands), NEW c \in Commands, inbox' = Append(inbox, c)
  PROVE  \A d \in Commands : InInbox(d)' => InInbox(d) \/ d = c
<1>1. /\ Len(inbox) \in Nat /\ Len(inbox') = Len(inbox) + 1 /\ inbox'[Len(inbox) + 1] = c
      /\ \A i \in 1 .. Len(inbox) : inbox'[i] = inbox[i]
  BY AppendProperties, LenProperties
<1>2. \A i \in 1 .. Len(inbox') : i \in 1 .. Len(inbox) \/ inbox'[i] = c
  BY <1>1
<1>3. QED
  BY <1>1, <1>2 DEF InInbox

LEMMA DispatchStops ==
  ASSUME StopInv, Created \subseteq Created', NEW w \in Workers,
         DispatchStep(w) \/ Cancel(w) \/ \E S \in SUBSET Commands : ClaimBatch(w, S)
  PROVE  Answers' /\ ClosedStops'
<1> USE DEF commandTable, runTable, server, link, agent, counted
<1>1. TablesType /\ work \in [Workers -> WorkType] /\ inbox \in Seq(Commands)
  BY TypeParts DEF StopInv, LifeInv, LinkType
<1>2. UNCHANGED <<cmd, target>> => StopsClosed
  BY DEF StopsClosed
<1>3. UNCHANGED inbox => \A c \in Commands : InInbox(c)' => InInbox(c) \/ Takes(w, c)
  BY DEF InInbox
<1>4. CASE NextCommand(w)
  <2>1. /\ Others(w)
        /\ \A c \in work'[w].todo : c \in work[w].todo
        /\ work'[w].pc \in {"check", "send"} => Takes(w, work'[w].cmd)
    BY <1>1, <1>4, NextFields, RestFields DEF Takes
  <2>2. QED
    BY <1>2, <1>3, <1>4, <2>1, ProcessStays DEF NextCommand
<1>5. CASE Check(w)
  <2>1. work[w].pc = "check" /\ (Step(w, "send") \/ \E end \in {"failed", "stopped", "expired"} : Refusing(w, end))
    BY <1>5 DEF Check, At, Refusal
  <2>2. /\ Others(w) /\ work'[w].todo = work[w].todo
        /\ work'[w].pc \in {"check", "send"} => Takes(w, work'[w].cmd)
    BY <1>1, <2>1, StepFields, RefusingFields DEF Takes
  <2>3. QED
    BY <1>2, <1>3, <1>5, <2>2, ProcessStays DEF Check
<1>6. CASE Send(w)
  <2>1. /\ work[w].pc = "send" /\ work[w].cmd \in Commands
        /\ \/ Step(w, "mark") /\ inbox' = Append(inbox, work[w].cmd)
           \/ Refusing(w, "dispatch_failed") /\ UNCHANGED inbox
           \/ Done(w) /\ UNCHANGED inbox
    BY <1>1, <1>6 DEF Send, At, StopInv, LifeInv, Handling, Handles, WorkType
  <2>2. /\ Others(w) /\ work'[w].todo = work[w].todo
        /\ work'[w].pc \notin {"check", "send"}
    <3>1. CASE Step(w, "mark")
      BY <1>1, <3>1, StepFields
    <3>2. CASE Refusing(w, "dispatch_failed")
      BY <1>1, <3>2, RefusingFields
    <3>3. CASE Done(w)
      BY <1>1, <3>3, DoneFields
    <3>4. QED
      BY <2>1, <3>1, <3>2, <3>3
  <2>3. \A c \in Commands : InInbox(c)' => InInbox(c) \/ Takes(w, c)
    <3>1. Takes(w, work[w].cmd)
      BY <2>1 DEF Takes
    <3>2. QED
      BY <1>1, <1>3, <2>1, <3>1, InboxAppend
  <2>4. QED
    BY <1>2, <1>6, <2>2, <2>3, ProcessStays DEF Send
<1>7. CASE Mark(w)
  <2>1. SetCmd(work[w].cmd, Pending, "dispatched") /\ UNCHANGED target /\ Done(w)
    BY <1>7 DEF Mark
  <2>2. StopsClosed
    BY <1>1, <2>1, Kinds, SetCmdCloses
  <2>3. /\ Others(w) /\ work'[w].todo = work[w].todo
        /\ work'[w].pc \notin {"check", "send"}
    BY <1>1, <2>1, DoneFields
  <2>4. QED
    BY <1>3, <1>7, <2>2, <2>3, ProcessStays DEF Mark
<1>8. CASE Refuse(w)
  <2>1. SetCmd(work[w].cmd, Refusable(work[w].end), work[w].end) /\ UNCHANGED target
    BY <1>8 DEF Refuse
  <2>2. StopsClosed
    <3>1. work[w].end \in CmdStatus \ {"absent"} /\ work[w].end # "done"
      BY <1>1, Kinds DEF WorkType, Ends
    <3>2. QED
      BY <1>1, <2>1, <3>1, SetCmdCloses
  <2>3. /\ Others(w) /\ work'[w].todo = work[w].todo
        /\ work'[w].pc \notin {"check", "send"}
    <3>1. CASE Done(w)
      BY <1>1, <3>1, DoneFields
    <3>2. CASE Step(w, "endRun")
      BY <1>1, <3>2, StepFields
    <3>3. QED
      BY <1>8, <3>1, <3>2 DEF Refuse
  <2>4. QED
    BY <1>3, <1>8, <2>2, <2>3, ProcessStays DEF Refuse
<1>9. CASE RefuseRun(w)
  <2>1. /\ Others(w) /\ work'[w].todo = work[w].todo
        /\ work'[w].pc \notin {"check", "send"}
    BY <1>1, <1>9, DoneFields DEF RefuseRun
  <2>2. QED
    BY <1>2, <1>3, <1>9, <2>1, ProcessStays DEF RefuseRun
<1>10. CASE Cancel(w)
  <2>1. Others(w) /\ work'[w] = Rest
    BY <1>1, <1>10 DEF Cancel, Others, Same
  <2>2. QED
    BY <1>2, <1>3, <1>10, <2>1, RestFields, ProcessStays DEF Cancel
<1>11. ASSUME NEW S \in SUBSET Commands, ClaimBatch(w, S) PROVE Answers' /\ ClosedStops'
  <2>1. \A c \in S : cmd[c] \in Pending
    BY <1>11 DEF ClaimBatch, Claimable
  <2>2. Proceed(w, S, "next") \/ Proceed(w, S, "sweep")
    BY <1>11 DEF ClaimBatch
  <2>3. Others(w) /\ work'[w].todo = S /\ work'[w].pc \notin {"check", "send"}
    BY <1>1, <2>2, ProceedFields
  <2>4. QED
    BY <1>2, <1>3, <1>11, <2>1, <2>3, ProcessStays DEF ClaimBatch
<1>12. QED
  BY <1>4, <1>5, <1>6, <1>7, <1>8, <1>9, <1>10, <1>11 DEF DispatchStep

LEMMA OverdueCloses ==
  ASSUME TablesType, ExpireOverdue, UNCHANGED target
  PROVE  StopsClosed
BY Kinds DEF TablesType, ExpireOverdue, StopsClosed

LEMMA SweepStops ==
  ASSUME StopInv, Created \subseteq Created', DispatcherSweep
  PROVE  Answers' /\ ClosedStops'
<1> USE DEF commandTable, runTable, server, link, agent, counted
<1> DEFINE w == "dispatcher"
<1>1. /\ TablesType /\ work \in [Workers -> WorkType] /\ w \in Workers
      /\ \A c \in Commands : InInbox(c)' => InInbox(c) \/ Takes(w, c)
      /\ UNCHANGED <<ackOf, exec, up, reply, target>>
  BY TypeParts DEF StopInv, LifeInv, DispatcherSweep, At, InInbox
<1>2. /\ Others(w) /\ work'[w].todo = work[w].todo
      /\ work'[w].pc \notin {"check", "send"}
  <2>1. CASE Step(w, "expireRuns")
    BY <1>1, <2>1, StepFields
  <2>2. CASE work' = [work EXCEPT ![w].pc = "expire", ![w].expired = Overdue]
    <3> DEFINE x == [work[w] EXCEPT !.pc = "expire", !.expired = Overdue]
    <3>1. work' = [work EXCEPT ![w] = x] /\ x.pc = "expire" /\ x.todo = work[w].todo
      BY <1>1, <2>2 DEF WorkType
    <3>2. QED
      BY <1>1, <3>1 DEF Others, Same
  <2>3. CASE Done(w)
    BY <1>1, <2>3, DoneFields
  <2>4. QED
    BY <2>1, <2>2, <2>3 DEF DispatcherSweep
<1>3. StopsClosed
  <2>1. UNCHANGED cmd => StopsClosed
    BY <1>1 DEF StopsClosed
  <2>2. ExpireOverdue => StopsClosed
    BY <1>1, OverdueCloses
  <2>3. QED
    BY <2>1, <2>2 DEF DispatcherSweep
<1>4. QED
  BY <1>1, <1>2, <1>3, ProcessStays

(* The reader, the link and the clock take up no command.                  *)
LEMMA NothingTaken ==
  ASSUME UNCHANGED work, inbox' = inbox \/ inbox' = <<>>
  PROVE  OnlyPendingTaken
<1>1. Len(<<>>) = 0
  BY EmptySeq
<1>2. QED
  BY <1>1 DEF OnlyPendingTaken, Takes, InInbox

LEMMA HeadAnswered ==
  ASSUME StopInv, up # <<>>, Head(up).type = "ack"
  PROVE  /\ Head(up) \in Acks /\ Head(up).cmd \in Commands /\ Head(up).status \in {"ok", "rejected"}
         /\ Head(up).run \in Runs \cup {NoRun}
         /\ ackOf[Head(up).cmd] = Head(up) /\ Head(up) # NoAck
<1>1. up \in Seq(Messages) /\ LinkType
  BY TypeParts DEF StopInv, LifeInv, LinkType
<1>2. Len(up) \in Nat /\ Len(up) >= 1 /\ Head(up) = up[1]
  BY <1>1, HeadTailProperties, EmptySeq, LenProperties
<1>3. 1 \in 1 .. Len(up)
  BY <1>2
<1>4. ackOf[Head(up).cmd] = Head(up)
  BY <1>2, <1>3 DEF StopInv, Answers
<1>5. Head(up) \in Acks
  BY <1>1, Received
<1>6. QED
  BY <1>4, <1>5, NullAssumption DEF Acks

LEMMA ReaderStops ==
  ASSUME StopInv, Created \subseteq Created', ReaderStep
  PROVE  Answers' /\ ClosedStops'
<1> USE DEF commandTable, runTable, server, link, agent, counted
<1>1. TablesType
  BY TypeParts DEF StopInv, LifeInv
<1>2. /\ UNCHANGED <<work, inbox, ackOf, exec, reply>>
      /\ up' = up \/ (up # <<>> /\ up' = Tail(up))
  BY DEF ReaderStep, ReadStartAck, AckRun, ReadStopAck, ReadEvent, ReadBeat, BeatRun, BeatMissing,
         BeatScan, ReaderSweep, At0
<1>3. AcksFlow /\ RunsOver /\ OnlyPendingTaken
  BY <1>2, UpTail, NothingTaken DEF AcksFlow, RunsOver
<1>4. ASSUME NEW c, NEW to \in CmdStatus \ {"absent"}, SetOpen(c, to), UNCHANGED target,
             to # "done" \/ c \notin Stops
      PROVE  StopsClosed
  BY <1>1, <1>4, SetCmdCloses DEF SetOpen
<1>5. UNCHANGED <<cmd, target>> => StopsClosed
  BY DEF StopsClosed
<1>6. CASE ReadStartAck
  <2>1. \E to \in {"rejected", "running", "accepted"} : SetOpen(Head(up).cmd, to)
    BY <1>6 DEF ReadStartAck, AckStart
  <2>2. StopsClosed
    BY <1>4, <1>6, <2>1, Kinds DEF ReadStartAck
  <2>3. QED
    BY <1>2, <1>3, <2>2, StopsStay
<1>7. CASE ReadStopAck
  <2>1. /\ up # <<>> /\ Head(up).type = "ack" /\ Head(up).cmd \in Stops
        /\ SetOpen(Head(up).cmd, IF Head(up).status = "ok" THEN "done" ELSE "stop_failed")
    BY <1>7 DEF ReadStopAck, At0
  <2>2. PICK s \in Stops : s = Head(up).cmd
    BY <2>1
  <2>3. /\ ackOf[s] # NoAck /\ ackOf[s] = Head(up) /\ Head(up).status \in {"ok", "rejected"}
    BY <2>1, <2>2, HeadAnswered
  <2>4. Head(up).status = "ok" => Head(up).run # NoRun
    BY <2>2, <2>3, Kinds DEF StopInv, Answers
  <2>5. target' = IF cmd[s] \in Closed \/ Head(up).run = NoRun THEN target
                  ELSE [target EXCEPT ![s] = Head(up).run]
    BY <1>7, <2>2 DEF ReadStopAck
  <2>6. \A t \in Stops \ {s} : cmd'[t] = cmd[t] /\ target'[t] = target[t]
    <3>1. \A t \in Stops \ {s} : cmd'[t] = cmd[t]
      BY <1>1, <2>1, <2>2, Kinds DEF SetOpen, SetCmd, TablesType
    <3>2. QED
      BY <1>1, <2>5, <3>1 DEF TablesType
  <2>7. CASE cmd[s] \in Closed
    <3>1. UNCHANGED <<cmd, target>>
      BY <2>1, <2>2, <2>5, <2>7 DEF SetOpen, SetCmd
    <3>2. QED
      BY <1>2, <1>3, <1>5, <3>1, StopsStay
  <2>8. CASE cmd[s] \notin Closed
    <3>1. cmd'[s] = IF Head(up).status = "ok" THEN "done" ELSE "stop_failed"
      BY <1>1, <2>1, <2>2, <2>8, Kinds DEF SetOpen, SetCmd, TablesType
    <3>2. Head(up).status = "ok" => target'[s] = Head(up).run
      BY <1>1, <2>4, <2>5, <2>8 DEF TablesType
    <3>3. StopsClosed
      BY <2>3, <2>6, <3>1, <3>2 DEF StopsClosed
    <3>4. QED
      BY <1>2, <1>3, <3>3, StopsStay
  <2>9. QED
    BY <2>7, <2>8
<1>8. CASE ReadEvent
  <2>1. UNCHANGED cmd \/ \E to \in {"running", "failed", "done", "stopped"} :
                           SetOpen(Head(up).run, to)
    <3>1. Head(up) \in Events
      BY <1>8, TypeParts, Received DEF ReadEvent, At0, StopInv, LifeInv
    <3>2. Head(up).kind \in {"started", "done", "error", "stopped"}
      BY <3>1 DEF Events, Endings
    <3>3. QED
      BY <1>8, <3>2 DEF ReadEvent
  <2>2. Head(up).run \notin Stops
    <3>1. Head(up) \in Events
      BY <1>8, TypeParts, Received DEF ReadEvent, At0, StopInv, LifeInv
    <3>2. QED
      BY <3>1, CommandAssumption DEF Events, Runs
  <2>3. StopsClosed
    BY <1>4, <1>5, <1>8, <2>1, <2>2, Kinds DEF ReadEvent
  <2>4. QED
    BY <1>2, <1>3, <2>3, StopsStay
<1>9. ASSUME NEW x \in reader.todo, BeatMissing(x) PROVE Answers' /\ ClosedStops'
  <2>1. UNCHANGED target /\ \E to \in {"stop_failed", "failed"} : SetOpen(x.run, to)
    BY <1>9 DEF BeatMissing
  <2>2. StopsClosed
    BY <1>4, <2>1, Kinds
  <2>3. QED
    BY <1>2, <1>3, <2>2, StopsStay
<1>10. CASE ReaderSweep
  <2>1. UNCHANGED target /\ (UNCHANGED cmd \/ ExpireOverdue)
    BY <1>10 DEF ReaderSweep
  <2>2. StopsClosed
    BY <1>1, <1>5, <2>1, OverdueCloses
  <2>3. QED
    BY <1>2, <1>3, <2>2, StopsStay
<1>11. CASE AckRun \/ ReadBeat \/ BeatScan \/ \E x \in reader.todo : BeatRun(x)
  <2>1. UNCHANGED <<cmd, target>>
    BY <1>11 DEF AckRun, ReadBeat, BeatScan, BeatRun
  <2>2. QED
    BY <1>2, <1>3, <1>5, <2>1, StopsStay
<1>12. QED
  BY <1>6, <1>7, <1>8, <1>9, <1>10, <1>11 DEF ReaderStep

LEMMA LinkStops ==
  ASSUME StopInv, Created \subseteq Created', LinkStep \/ TimeStep
  PROVE  Answers' /\ ClosedStops'
<1> USE DEF commandTable, runTable, server, link, agent, counted
<1>1. Len(<<>>) = 0
  BY EmptySeq
<1>2. /\ UNCHANGED <<cmd, target, ackOf>>
      /\ reply' = reply \/ reply' = NoAck
      /\ inbox' = inbox \/ inbox' = <<>>
      /\ up' = up \/ up' = <<>> \/ (up # <<>> /\ up' = Tail(up))
  BY DEF LinkStep, Connect, Drop, LoseLink, ReadRejected, Disable, AgentCrash,
         TimeStep, LeaseExpires, Expire, Age
<1>3. StopsClosed
  BY <1>2 DEF StopsClosed
<1>4. AcksFlow
  BY <1>1, <1>2, UpTail DEF AcksFlow
<1>5. RunsOver
  <2>1. UNCHANGED exec \/ \A r \in Runs : exec'[r] = IF exec[r] \in ExecActive THEN "over" ELSE exec[r]
    BY DEF LinkStep, Connect, Drop, ReadRejected, Disable, AgentCrash,
           TimeStep, LeaseExpires, Expire, Age
  <2>2. QED
    BY <2>1 DEF RunsOver, Told
<1>6. OnlyPendingTaken
  <2>1. CASE UNCHANGED work
    BY <1>2, <2>1, NothingTaken
  <2>2. CASE Connect /\ "replay" \in Workers
    <3> DEFINE w == "replay"
    <3>1. work \in [Workers -> WorkType] /\ w \in Workers
      BY <2>2, TypeParts DEF StopInv, LifeInv
    <3>2. /\ Others(w) /\ work'[w].todo = {} /\ work'[w].pc = "claim"
      BY <2>2, <3>1 DEF Connect, Rest, Others, Same
    <3>3. \A c \in Commands : InInbox(c)' => InInbox(c) \/ Takes(w, c)
      BY <2>2 DEF Connect, InInbox
    <3>4. QED
      BY <3>1, <3>2, <3>3, ProcessTakes
  <2>3. QED
    BY <2>1, <2>2 DEF LinkStep, Connect, Drop, ReadRejected, Disable, AgentCrash,
                      TimeStep, LeaseExpires, Expire, Age
<1>7. QED
  BY <1>2, <1>3, <1>4, <1>5, <1>6, StopsStay

LEMMA InboxTail ==
  ASSUME inbox \in Seq(Commands), inbox # <<>>, inbox' = Tail(inbox)
  PROVE  /\ Head(inbox) \in Commands /\ InInbox(Head(inbox))
         /\ \A c : InInbox(c)' => InInbox(c)
<1>1. /\ Len(inbox) \in Nat /\ Len(inbox) >= 1 /\ Len(inbox') = Len(inbox) - 1
      /\ Head(inbox) = inbox[1] /\ Head(inbox) \in Commands
      /\ \A i \in 1 .. Len(inbox) - 1 : inbox'[i] = inbox[i + 1]
  BY HeadTailProperties, EmptySeq, LenProperties
<1>2. \A i \in 1 .. Len(inbox') : i + 1 \in 1 .. Len(inbox) /\ inbox'[i] = inbox[i + 1]
  BY <1>1
<1>3. QED
  BY <1>1, <1>2 DEF InInbox

(* What the agent answers to a command that it reads.                      *)
Rereads(c) == ackOf[c] # NoAck /\ reply' = ackOf[c] /\ UNCHANGED <<ackOf, exec, up>>
Starting(c) ==
  c \in Starts /\ \/ /\ exec' = [exec EXCEPT ![c] = "running"]
                     /\ up' = Append(up, Event(c, "started")) /\ Answer(c, Ack(c, c, "ok"))
                  \/ UNCHANGED <<exec, up>> /\ Answer(c, Ack(c, c, "rejected"))
Stopping(c) ==
  /\ c \in Stops /\ UNCHANGED up
  /\ \/ \E r \in AgentTargets(c) : /\ exec' = [exec EXCEPT ![r] = IF @ = "ending" THEN @ ELSE "stopping"]
                                   /\ Answer(c, Ack(c, r, "ok"))
     \/ UNCHANGED exec /\ Answer(c, Ack(c, target[c], "rejected"))

LEMMA AgentReadStops ==
  ASSUME StopInv, Created \subseteq Created', AgentRead
  PROVE  Answers' /\ ClosedStops'
<1> USE DEF server, runTable, commandTable, link, agent, counted
<1>1. /\ inbox # <<>> /\ inbox' = Tail(inbox) /\ inbox \in Seq(Commands)
      /\ UNCHANGED <<cmd, target, work>>
  BY TypeParts DEF AgentRead, StopInv, LifeInv, LinkType
<1>2. PICK c \in Commands : c = Head(inbox) /\ InInbox(c)
  BY <1>1, InboxTail
<1>3. \A d \in Commands : Untaken(d) => Untaken(d)'
  BY <1>1, InboxTail DEF Untaken, Takes
<1>4. /\ exec \in [Runs -> ExecActive \cup {"none", "over"}] /\ ackOf \in [Commands -> Acks \cup {NoAck}]
      /\ up \in Seq(Messages) /\ Starts \cap Stops = {} /\ Runs = Starts
  BY TypeParts, CommandAssumption, Kinds DEF StopInv, LifeInv, AgentType, LinkType
<1>5. \/ Rereads(c)
      \/ ackOf[c] = NoAck /\ (Starting(c) \/ Stopping(c))
  BY <1>2 DEF AgentRead, Rereads, Starting, Stopping, StartAtAgent, StopAtAgent
<1>6. /\ \A d \in Commands \ {c} : ackOf'[d] = ackOf[d]
      /\ ackOf[c] # NoAck => ackOf' = ackOf
      /\ ackOf[c] = NoAck => ackOf'[c].cmd = c
      /\ reply' = ackOf'[c]
  <2>1. CASE Rereads(c)
    BY <2>1 DEF Rereads
  <2>2. CASE Starting(c) /\ ackOf[c] = NoAck
    BY <1>4, <2>2 DEF Starting, Answer, Ack
  <2>3. CASE Stopping(c) /\ ackOf[c] = NoAck
    BY <1>4, <2>3 DEF Stopping, Answer, Ack
  <2>4. QED
    BY <1>5, <2>1, <2>2, <2>3
<1>7. \A i \in 1 .. Len(up') : (\E j \in 1 .. Len(up) : up'[i] = up[j]) \/ up'[i].type = "event"
  <2>1. CASE UNCHANGED up
    BY <2>1
  <2>2. CASE c \in Starts /\ up' = Append(up, Event(c, "started"))
    <3>1. Event(c, "started") \in Messages /\ Event(c, "started").type = "event"
      BY <1>4, <2>2 DEF Event, Messages, Events
    <3>2. QED
      BY <2>2, <3>1, UpAppend
  <2>3. QED
    BY <1>5, <2>1, <2>2 DEF Rereads, Starting, Stopping
<1>8. RunsOver
  <2>1. CASE Rereads(c)
    BY <2>1 DEF Rereads, RunsOver
  <2>2. CASE Starting(c) /\ ackOf[c] = NoAck
    <3>1. exec[c] = "none"
      BY <1>4, <2>2 DEF Starting, StopInv, LifeInv, Working, WasAcked
    <3>2. QED
      BY <1>4, <2>2, <3>1 DEF Starting, RunsOver, Told
  <2>3. CASE Stopping(c) /\ ackOf[c] = NoAck
    <3>1. ASSUME NEW r \in AgentTargets(c),
                 exec' = [exec EXCEPT ![r] = IF @ = "ending" THEN @ ELSE "stopping"]
          PROVE  RunsOver
      <4>1. r \in Runs /\ exec[r] \in ExecActive
        BY DEF AgentTargets, AgentActive
      <4>2. QED
        BY <1>4, <3>1, <4>1 DEF RunsOver, Told, ExecActive
    <3>2. UNCHANGED exec => RunsOver
      BY DEF RunsOver
    <3>3. QED
      BY <2>3, <3>1, <3>2 DEF Stopping
  <2>4. QED
    BY <1>5, <2>1, <2>2, <2>3
<1>9. c \in Stops /\ ackOf[c] = NoAck /\ ackOf'[c].status = "ok" =>
        ackOf'[c].run \in Runs /\ exec'[ackOf'[c].run] \in Told
  <2>1. SUFFICES ASSUME c \in Stops, ackOf[c] = NoAck, ackOf'[c].status = "ok", Stopping(c)
        PROVE  ackOf'[c].run \in Runs /\ exec'[ackOf'[c].run] \in Told
    BY <1>4, <1>5 DEF Rereads, Starting
  <2>2. ASSUME NEW r \in AgentTargets(c),
               exec' = [exec EXCEPT ![r] = IF @ = "ending" THEN @ ELSE "stopping"],
               Answer(c, Ack(c, r, "ok"))
        PROVE  ackOf'[c].run \in Runs /\ exec'[ackOf'[c].run] \in Told
    <3>1. r \in Runs
      BY DEF AgentTargets, AgentActive
    <3>2. ackOf'[c].run = r
      BY <1>4, <2>2 DEF Answer, Ack
    <3>3. QED
      BY <1>4, <2>2, <3>1, <3>2 DEF Told
  <2>3. ~Answer(c, Ack(c, target[c], "rejected"))
    BY <1>4, <2>1 DEF Answer, Ack
  <2>4. QED
    BY <2>1, <2>2, <2>3 DEF Stopping
<1>10. \A m \in Acks : ackOf[m.cmd] = m => ackOf'[m.cmd] = m
  <2>1. \A m \in Acks : m.cmd \in Commands /\ m # NoAck
    BY NullAssumption DEF Acks
  <2>2. QED
    BY <1>6, <2>1
<1>11. Answers'
  <2>1. c \in Created
    BY <1>2 DEF StopInv, LifeInv, Working, WasSent, InInbox
  <2>2. \A d \in Commands : ackOf'[d] # NoAck => ackOf'[d].cmd = d /\ d \in Created'
    BY <1>6, <2>1 DEF StopInv, Answers
  <2>3. ASSUME NEW t \in Stops, ackOf'[t] # NoAck, ackOf'[t].status = "ok"
        PROVE  ackOf'[t].run \in Runs /\ exec'[ackOf'[t].run] \in Told
    <3>1. CASE ackOf[t] = NoAck
      BY <1>6, <1>9, <2>3, <3>1, Kinds
    <3>2. CASE ackOf[t] # NoAck
      BY <1>6, <1>8, <2>3, <3>2, Kinds DEF StopInv, Answers, RunsOver
    <3>3. QED
      BY <3>1, <3>2
  <2>4. \A i \in 1 .. Len(up') : up'[i].type = "ack" => ackOf'[up'[i].cmd] = up'[i]
    <3>1. \A j \in 1 .. Len(up) : up[j].type = "ack" => up[j] \in Acks /\ ackOf[up[j].cmd] = up[j]
      <4>1. \A j \in 1 .. Len(up) : up[j] \in Messages
        BY <1>4
      <4>2. QED
        BY <4>1 DEF StopInv, Answers, Messages, Acks, Events, Beats
    <3>2. QED
      BY <1>7, <1>10, <3>1
  <2>5. reply' # NoAck => ackOf'[reply'.cmd] = reply'
    BY <1>2, <1>6, <2>2
  <2>6. QED
    BY <2>2, <2>3, <2>4, <2>5 DEF Answers
<1>12. ClosedStops'
  <2>1. ASSUME NEW t \in Stops, cmd[t] = "done", ackOf[t] = NoAck PROVE ackOf'[t] = NoAck
    <3>1. Untaken(t)
      BY <2>1 DEF StopInv, ClosedStops
    <3>2. t # c
      BY <1>2, <3>1 DEF Untaken
    <3>3. QED
      BY <1>6, <2>1, <3>2, Kinds
  <2>2. ASSUME NEW t \in Stops, ackOf[t] # NoAck PROVE ackOf'[t] = ackOf[t]
    BY <1>6, <2>2, Kinds
  <2>3. QED
    BY <1>1, <1>3, <2>1, <2>2, Kinds DEF StopInv, ClosedStops
<1>13. QED
  BY <1>11, <1>12

LEMMA AgentStops ==
  ASSUME StopInv, Created \subseteq Created', AgentStep
  PROVE  Answers' /\ ClosedStops'
<1> USE DEF server, runTable, commandTable, link, agent, counted
<1>1. /\ exec \in [Runs -> ExecActive \cup {"none", "over"}]
      /\ reply \in Acks \cup {NoAck} /\ out \subseteq Events /\ beat \in Beats \cup {NoBeat}
  BY TypeParts DEF StopInv, LifeInv, AgentType
<1>2. ASSUME UNCHANGED <<cmd, target, work, inbox, ackOf>>, reply' = reply \/ reply' = NoAck,
             RunsOver, AcksFlow
      PROVE  Answers' /\ ClosedStops'
  <2>1. StopsClosed
    BY <1>2 DEF StopsClosed
  <2>2. QED
    BY <1>2, <2>1, NothingTaken, StopsStay
<1>3. UNCHANGED exec => RunsOver
  BY DEF RunsOver
<1>4. UNCHANGED up => AcksFlow
  BY DEF AcksFlow
<1>5. ASSUME NEW m \in Messages, up' = Append(up, m), m.type # "ack" \/ (m = reply /\ reply # NoAck)
      PROVE  AcksFlow
  BY <1>5, UpAppend DEF AcksFlow
<1>6. CASE AgentReply
  <2>1. up' = Append(up, reply) /\ reply # NoAck /\ reply \in Messages
    BY <1>1, <1>6 DEF AgentReply, Messages
  <2>2. QED
    BY <1>2, <1>3, <1>5, <1>6, <2>1 DEF AgentReply
<1>7. ASSUME NEW r \in Runs, FinalEmit(r) PROVE Answers' /\ ClosedStops'
  <2>1. /\ exec' = [exec EXCEPT ![r] = "ending"]
        /\ UNCHANGED <<cmd, target, work, inbox, ackOf, reply>>
        /\ UNCHANGED up \/ \E kind \in Endings : up' = Append(up, Event(r, kind))
    BY <1>7 DEF FinalEmit, Endings
  <2>2. AcksFlow
    <3>1. ASSUME NEW kind \in Endings, up' = Append(up, Event(r, kind)) PROVE AcksFlow
      <4>1. Event(r, kind) \in Messages /\ Event(r, kind).type = "event"
        BY DEF Event, Messages, Events
      <4>2. QED
        BY <1>5, <3>1, <4>1
    <3>2. QED
      BY <1>4, <2>1, <3>1
  <2>3. RunsOver
    BY <1>1, <2>1 DEF RunsOver, Told
  <2>4. QED
    BY <1>2, <2>1, <2>2, <2>3
<1>8. ASSUME NEW r \in Runs, FinalRemove(r) PROVE Answers' /\ ClosedStops'
  <2>1. RunsOver
    BY <1>1, <1>8 DEF FinalRemove, RunsOver, Told
  <2>2. QED
    BY <1>2, <1>4, <1>8, <2>1 DEF FinalRemove
<1>9. ASSUME NEW e \in out, Flush(e) PROVE Answers' /\ ClosedStops'
  <2>1. up' = Append(up, e) /\ e \in Messages /\ e.type = "event"
    BY <1>1, <1>9 DEF Flush, Messages, Events
  <2>2. QED
    BY <1>2, <1>3, <1>5, <1>9, <2>1 DEF Flush
<1>10. CASE BeatRead
  BY <1>2, <1>3, <1>4, <1>10 DEF BeatRead
<1>11. CASE BeatSend
  <2>1. up' = Append(up, beat) /\ beat \in Messages /\ beat.type = "beat"
    BY <1>1, <1>11 DEF BeatSend, Messages, Beats
  <2>2. QED
    BY <1>2, <1>3, <1>5, <1>11, <2>1 DEF BeatSend
<1>12. QED
  BY <1>6, <1>7, <1>8, <1>9, <1>10, <1>11, AgentReadStops DEF AgentStep

LEMMA InitStops ==
  ASSUME Init PROVE StopInv
<1>1. LifeInv /\ Len(<<>>) = 0
  BY InitLife, EmptySeq
<1>2. Answers /\ ClosedStops
  BY <1>1, Kinds DEF Init, Answers, ClosedStops
<1>3. QED
  BY <1>1, <1>2 DEF StopInv

LEMMA NextStops ==
  ASSUME StopInv, [Next]_vars PROVE StopInv'
<1>1. LifeInv' /\ Created \subseteq Created'
  <2>1. CASE Next
    BY <2>1, NextLife, NextTypes DEF StopInv, LifeInv
  <2>2. CASE UNCHANGED vars
    BY <2>2, NextLife DEF StopInv, vars, server, commandTable, Created
  <2>3. QED
    BY <2>1, <2>2
<1>2. CASE UNCHANGED vars
  <2>1. UNCHANGED <<cmd, target, work, inbox, up, ackOf, reply, exec>>
    BY <1>2 DEF vars, server, commandTable, runTable, link, agent
  <2>2. QED
    BY <1>1, <2>1, NothingTaken, StopsStay DEF StopInv, StopsClosed, AcksFlow, RunsOver
<1>3. CASE Next
  <2>1. Answers' /\ ClosedStops'
    BY <1>1, <1>3, RequestStops, DispatchStops, SweepStops, ReaderStops, LinkStops, AgentStops DEF Next
  <2>2. QED
    BY <1>1, <2>1 DEF StopInv
<1>4. QED
  BY <1>2, <1>3

(* A stop the agent was asked and that dash sees as done names a run that  *)
(* was told to stop, for any processes that dispatch, with replays,        *)
(* retries, expiries, heartbeats, full queues, cancelled requests, lapsed  *)
(* claims, lost connections and crashes of the agent.                      *)
THEOREM AnsweredStopHolds == Spec => []AnsweredStopMeansStopped
<1>1. StopInv => AnsweredStopMeansStopped
  BY Kinds DEF StopInv, Answers, ClosedStops, AnsweredStopMeansStopped, Told
<1>2. StopInv /\ [Next]_vars => StopInv'
  BY NextStops
<1>3. QED
  BY InitStops, <1>1, <1>2, PTL DEF Spec
=============================================================================
