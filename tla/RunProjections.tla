--------------------------- MODULE RunProjections ---------------------------
(***************************************************************************)
(* What the agent and the server make of the events of one run: its        *)
(* assistant messages, tool calls, steps and runtime timeline.             *)
(*                                                                         *)
(* The agent projects an event when it saves it, in the order of emission. *)
(* The server projects it in the transaction that stores it, in the order  *)
(* of arrival, and an operator may have the projections rebuilt from the   *)
(* stored events: SELECT them, clear the tables, project each of them      *)
(* again, every statement on its own while events keep arriving.           *)
(*                                                                         *)
(* Abstractions: a text is the sequence of the events it was put together  *)
(* from; approvals and gaps, which the rebuild clears too, are left out,   *)
(* the runtime session an event projects is IndexSync's and what else      *)
(* writes the run's status CommandLifecycle's.                             *)
(***************************************************************************)
EXTENDS Naturals, Sequences, SequencesExt, FiniteSets, FiniteSetsExt

CONSTANTS
  Items,     (* items of the Codex turn: agent messages and tool calls     *)
  NoItem,
  Admins     (* requests to rebuild the projections                        *)

Kinds == {"run.started", "run.status", "run.done", "terminal.output",
          "assistant.message.delta", "assistant.message.done",
          "tool.call.started", "tool.call.delta", "tool.call.done", "tool.output"}
AssistantKinds == {"assistant.message.delta", "assistant.message.done"}
ToolKinds == {"tool.call.started", "tool.call.delta", "tool.call.done", "tool.output"}

(* An event, and whether its payload names the Codex thread it is from.    *)
Events == [kind : Kinds, item : Items \cup {NoItem}, codex : BOOLEAN]

VARIABLES
  script,    (* the events of the run, at their sequence numbers           *)
  stored,    (* run_events at the server, in the order they were stored    *)
  messages, tools, steps, timeline,  (* the tables of the run              *)
  cursor,    (* runs.last_event_seq                                        *)
  status,    (* runs.status                                                *)
  saving,    (* the transaction that holds the lock of the run's row       *)
  rebuild,   (* admin -> RebuildRunProjections                             *)
  torn,      (* some rebuild overlapped a save or a rebuild, or broke off, *)
             (* and none since had the run to itself                       *)
  late       (* some event was stored after a later one, likewise          *)

tables      == <<messages, tools, steps, timeline>>
row         == <<cursor, status>>
projections == <<stored, tables, row, saving>>
repair      == <<rebuild, torn, late>>
runVars     == <<script, projections, repair>>

Seqs == DOMAIN script
Stored == Range(stored)
NoRow == [start |-> 0, end |-> 0, content |-> <<>>, status |-> "none"]
NoTool == [end |-> 0, status |-> "none"]
NoSave == [seq |-> 0, read |-> NoRow]
Clearing == {"steps", "messages", "tools", "timeline", "run"}
Replaying == {"cursor", "read", "write", "line", "state"}
Idle == [pc |-> "idle", todo |-> <<>>, read |-> NoRow, alone |-> FALSE]
Rebuilding(w) == rebuild[w].pc \in Clearing \cup Replaying
Quiet == \A w \in Admins : ~Rebuilding(w)

RowType == [start : 0 .. Len(script), end : 0 .. Len(script), content : Seq(Seqs),
            status : {"none", "streaming", "done"}]
ToolType == [Items -> [end : 0 .. Len(script), status : {"none", "running", "done", "output"}]]

RunTypeOK ==
  /\ script \in Seq(Events)
  /\ stored \in Seq(Seqs) /\ IsInjective(stored)
  /\ messages \subseteq RowType /\ tools \in ToolType
  /\ \A r1, r2 \in messages : r1.start = r2.start => r1 = r2
  /\ steps \subseteq Stored /\ timeline \subseteq Stored
  /\ cursor \in 0 .. Len(script)
  /\ status \in {"accepted", "rebuilding", "running", "done"}
  /\ saving \in [seq : 0 .. Len(script), read : RowType]
  /\ rebuild \in [Admins -> [pc : {"idle", "done"} \cup Clearing \cup Replaying,
                             todo : Seq(Stored), read : RowType, alone : BOOLEAN]]
  /\ torn \in BOOLEAN /\ late \in BOOLEAN

RunInit ==
  /\ stored = <<>> /\ messages = {} /\ tools = [i \in Items |-> NoTool]
  /\ steps = {} /\ timeline = {} /\ cursor = 0 /\ status = "accepted"
  /\ saving = NoSave /\ rebuild = [w \in Admins |-> Idle]
  /\ torn = FALSE /\ late = FALSE

-----------------------------------------------------------------------------
(* The projection of one event.                                            *)

(* Events in the order of their sequence numbers: ORDER BY seq.            *)
InOrder(events) ==
  CHOOSE q \in [1 .. Cardinality(events) -> events] : \A i, j \in DOMAIN q : i < j => q[i] < q[j]

(* An agent message is streamed as the text that was added, and finished   *)
(* with its whole text.                                                    *)
Text(s) ==
  IF script[s].kind = "assistant.message.delta" THEN <<s>>
  ELSE InOrder({t \in 1 .. s : script[t].item = script[s].item /\ script[t].kind \in AssistantKinds})

LastRow(rows) == IF rows = {} THEN NoRow ELSE CHOOSE r \in rows : \A q \in rows : q.start <= r.start

Put(rows, r) == {q \in rows : q.start # r.start} \cup {r}

(* The row that was read is updated, if it is still there; without one the *)
(* event starts a row of its own.                                          *)
WriteMessage(rows, s, read) ==
  LET done == script[s].kind = "assistant.message.done"
      text == IF done THEN Text(s) ELSE read.content \o Text(s)
      new  == [start |-> IF read = NoRow THEN s ELSE read.start, end |-> s, content |-> text,
               status |-> IF done THEN "done" ELSE "streaming"]
  IN IF read = NoRow \/ \E q \in rows : q.start = read.start THEN Put(rows, new) ELSE rows

Messages(rows, s, read) == IF script[s].kind \in AssistantKinds THEN WriteMessage(rows, s, read) ELSE rows

ToolStatus(kind) ==
  CASE kind = "tool.call.done" -> "done" [] kind = "tool.output" -> "output" [] OTHER -> "running"
Tools(calls, s) ==
  IF script[s].kind \in ToolKinds
  THEN [calls EXCEPT ![script[s].item] = [end |-> s, status |-> ToolStatus(script[s].kind)]] ELSE calls

IsStep(s) == script[s].kind \notin AssistantKinds \cup ToolKinds
Steps(set, s) == IF IsStep(s) THEN set \cup {s} ELSE set
Lines(set, s) == IF script[s].codex THEN set \cup {s} ELSE set
(* Mutant: the cursor goes to the event, not to the greatest. *)
LastCursor(seq, s) == s
Cursor(seq, s) == Max({seq, s})
Status(old, s) ==
  CASE script[s].kind = "run.started" -> "running" [] script[s].kind = "run.done" -> "done" [] OTHER -> old

-----------------------------------------------------------------------------
(* The agent's run_messages and tool_calls after its first n events, which *)
(* it projects one after the other.                                        *)
MirrorNext(m, n) == [messages |-> Messages(m.messages, n, LastRow(m.messages)), tools |-> Tools(m.tools, n)]
Mirror[n \in 0 .. Len(script)] ==
  IF n = 0 THEN [messages |-> {}, tools |-> [i \in Items |-> NoTool]] ELSE MirrorNext(Mirror[n - 1], n)

-----------------------------------------------------------------------------
(* SaveRunEvent.  The row of the run is locked from the cursor on, so that *)
(* one event is projected at a time; a message is read before it is        *)
(* written, in two statements.                                             *)

(* Mutant: the run's row is not locked. *)
SaveUnlocked(s) ==
  /\ s \notin Stored
  /\ saving' = [seq |-> s, read |-> LastRow(messages)]
  /\ torn' = (torn \/ ~Quiet)
  /\ rebuild' = [w \in Admins |-> [rebuild[w] EXCEPT !.alone = FALSE]]
  /\ UNCHANGED <<script, stored, tables, row, late>>

SaveBegin(s) ==
  /\ saving = NoSave /\ s \notin Stored
  /\ saving' = [seq |-> s, read |-> LastRow(messages)]
  /\ torn' = (torn \/ ~Quiet)
  /\ rebuild' = [w \in Admins |-> [rebuild[w] EXCEPT !.alone = FALSE]]
  /\ UNCHANGED <<script, stored, tables, row, late>>

SaveCommit ==
  LET s == saving.seq
  IN /\ saving # NoSave
     /\ stored' = Append(stored, s)
     /\ cursor' = Cursor(cursor, s)
     /\ messages' = Messages(messages, s, saving.read)
     /\ tools' = Tools(tools, s) /\ steps' = Steps(steps, s)
     /\ timeline' = Lines(timeline, s)
     /\ status' = Status(status, s)
     /\ saving' = NoSave
     /\ late' = (late \/ \E t \in Stored : t > s)
     /\ UNCHANGED <<script, rebuild, torn>>

-----------------------------------------------------------------------------
(* RebuildRunProjections.                                                  *)

(* Mutant: the events are replayed in the order they were stored. *)
SelectUnordered(w) ==
  /\ rebuild[w].pc = "idle" /\ stored # <<>>
  /\ LET alone == Quiet /\ saving = NoSave
     IN /\ rebuild' = [v \in Admins |->
             IF v = w THEN [pc |-> "steps", todo |-> stored, read |-> NoRow, alone |-> alone]
             ELSE [rebuild[v] EXCEPT !.alone = FALSE]]
        /\ torn' = (torn \/ ~alone)
  /\ UNCHANGED <<script, projections, late>>

Select(w) ==
  /\ rebuild[w].pc = "idle" /\ stored # <<>>
  /\ LET alone == Quiet /\ saving = NoSave
     IN /\ rebuild' = [v \in Admins |->
             IF v = w THEN [pc |-> "steps", todo |-> InOrder(Stored), read |-> NoRow, alone |-> alone]
             ELSE [rebuild[v] EXCEPT !.alone = FALSE]]
        /\ torn' = (torn \/ ~alone)
  /\ UNCHANGED <<script, projections, late>>

Go(w, pc) == rebuild' = [rebuild EXCEPT ![w].pc = pc]

(* The tables are cleared one after the other; an update of the run's row  *)
(* waits for the transaction that has locked it.                           *)
Clear(w) ==
  /\ \/ /\ rebuild[w].pc = "steps" /\ steps' = {} /\ Go(w, "messages")
        /\ UNCHANGED <<messages, tools, timeline, row>>
     \/ /\ rebuild[w].pc = "messages" /\ messages' = {} /\ Go(w, "tools")
        /\ UNCHANGED <<steps, tools, timeline, row>>
     \/ /\ rebuild[w].pc = "tools" /\ tools' = [i \in Items |-> NoTool] /\ Go(w, "timeline")
        /\ UNCHANGED <<steps, messages, timeline, row>>
     \/ /\ rebuild[w].pc = "timeline" /\ timeline' = {} /\ Go(w, "run")
        /\ UNCHANGED <<steps, messages, tools, row>>
     \/ /\ rebuild[w].pc = "run" /\ saving = NoSave /\ Go(w, "cursor")
        /\ cursor' = 0 /\ status' = "rebuilding" /\ UNCHANGED tables
  /\ UNCHANGED <<script, stored, saving, torn, late>>

(* One event again, as SaveRunEvent projects it but for the transaction:   *)
(* a statement each for the cursor, a message's row, the projection, the   *)
(* timeline and the status, those the event needs.                         *)
Needs(s, pc) ==
  CASE pc = "read" -> script[s].kind \in AssistantKinds
    [] pc = "line" -> script[s].codex
    [] pc = "state" -> Status("other", s) # "other"
    [] OTHER -> TRUE
Statements == <<"cursor", "read", "write", "line", "state">>

(* On to the event's next statement, else to the next event.  A rebuild    *)
(* that ends and was alone all the time has repaired the projections.      *)
Then(w, pc, read) ==
  LET s    == Head(rebuild[w].todo)
      ahead == {i \in DOMAIN Statements : /\ \E j \in 1 .. i - 1 : Statements[j] = pc
                                          /\ Needs(s, Statements[i])}
      rest == Tail(rebuild[w].todo)
      over == ahead = {} /\ rest = <<>>
  IN /\ rebuild' = [rebuild EXCEPT ![w] =
          IF ahead # {} THEN [@ EXCEPT !.pc = Statements[Min(ahead)], !.read = read]
          ELSE [@ EXCEPT !.pc = IF over THEN "done" ELSE "cursor", !.todo = rest, !.read = NoRow]]
     /\ torn' = (torn /\ ~(over /\ rebuild[w].alone))
     /\ late' = (late /\ ~(over /\ rebuild[w].alone))

Replay(w) ==
  LET s == Head(rebuild[w].todo)
      here == rebuild[w].pc
      read == rebuild[w].read
  IN /\ \/ /\ here = "cursor" /\ saving = NoSave
           /\ cursor' = Cursor(cursor, s)
           /\ Then(w, here, NoRow) /\ UNCHANGED <<tables, status>>
        \/ /\ here = "read"
           /\ Then(w, here, LastRow(messages)) /\ UNCHANGED <<tables, row>>
        \/ /\ here = "write"
           /\ messages' = Messages(messages, s, read)
           /\ tools' = Tools(tools, s) /\ steps' = Steps(steps, s)
           /\ Then(w, here, NoRow) /\ UNCHANGED <<timeline, row>>
        \/ /\ here = "line"
           /\ timeline' = Lines(timeline, s)
           /\ Then(w, here, NoRow) /\ UNCHANGED <<messages, tools, steps, row>>
        \/ /\ here = "state" /\ saving = NoSave
           /\ status' = Status(status, s)
           /\ Then(w, here, NoRow) /\ UNCHANGED <<tables, cursor>>
     /\ UNCHANGED <<script, stored, saving>>

(* The request is cancelled, or a statement fails.                         *)
Abort(w) ==
  /\ Rebuilding(w)
  /\ rebuild' = [rebuild EXCEPT ![w] = Idle]
  /\ torn' = TRUE
  /\ UNCHANGED <<script, projections, late>>

-----------------------------------------------------------------------------
(* Properties.                                                             *)

(* The tables with a row per event hold exactly the stored events, in      *)
(* whatever order these came, unless a rebuild was disturbed or broke off: *)
(* nothing is projected twice or passed over, and last_event_seq is the    *)
(* highest of them.                                                        *)
TablesComplete ==
  Quiet /\ ~torn =>
    /\ steps = {s \in Stored : IsStep(s)} /\ timeline = {s \in Stored : script[s].codex}
    /\ cursor = Max(Stored \cup {0})

(* When the server has the first events of the run, its messages and tool  *)
(* calls are those the agent made of them: always if they came in order,   *)
(* and else after a rebuild that had the run to itself, whatever a late    *)
(* event, an overlapping save, a second rebuild or a broken one left.      *)
MatchesMirror ==
  Quiet /\ ~torn /\ ~late /\ Stored = 1 .. Len(stored) =>
    messages = Mirror[Len(stored)].messages /\ tools = Mirror[Len(stored)].tools

(* No rebuild loses an event: it holds while nothing arrives during one,   *)
(* and fails for an event stored between the SELECT and the DELETEs.       *)
EventKept == Quiet => \A s \in Stored : IsStep(s) => s \in steps

(* A finished agent message stays in the run's messages.  It does not, and *)
(* with no disturbance at all: a run has one assistant row, and the next   *)
(* message overwrites it.                                                  *)
MessageKept ==
  ~torn /\ ~late => \A s \in Stored : script[s].kind = "assistant.message.done" =>
    \E r \in messages : s \in Range(r.content)

(* A run that has not ended keeps its session busy.  It does not while it  *)
(* is rebuilt, and for good after a rebuild that broke off or found no     *)
(* run.started: neither the session's check nor the heartbeat knows        *)
(* `rebuilding'.                                                           *)
RunStaysBusy ==
  (\A s \in Stored : script[s].kind # "run.done") => status \in {"accepted", "running"}
=============================================================================
