----------------------------- MODULE MCDashFeed -----------------------------
(* Instances of DashFeed for TLC.                                          *)
EXTENDS DashFeed

CONSTANTS m1, m2, t1, i1, i2

Agent(kind) == [kind |-> kind, item |-> NoItem, codex |-> FALSE]
Codex(kind, item) == [kind |-> kind, item |-> item, codex |-> TRUE]
Delta(m) == Codex("assistant.message.delta", m)
Done(m) == Codex("assistant.message.done", m)

Plain   == <<Agent("run.started"), Delta(m1), Codex("run.status", NoItem)>>
Message == <<Done(m1), Delta(m2), Done(m2)>>
Tool    == <<Codex("tool.call.started", t1), Delta(m1), Codex("tool.call.done", t1), Codex("tool.output", t1)>>
Short   == <<Agent("terminal.output"), Delta(m1)>>
Mixed   == <<Delta(m1), Agent("run.done")>>
Pair    == <<Delta(m1), Codex("run.status", NoItem)>>

MCInstOf == [c \in Conns |-> IF c = 1 THEN i1 ELSE i2]

Plan(events, inOrder, nr, pages, what, shared, repairs, faults) ==
  [script |-> events, ordered |-> inOrder, named |-> FALSE, conns |-> nr, opens |-> pages, watch |-> what,
   redis |-> shared, rebuilds |-> repairs, failures |-> faults]
Session == Plan(Mixed, FALSE, 1, 1, "session", FALSE, 0, 0)
MCScenarios ==
  {Plan(Plain, TRUE, 1, 2, "run", TRUE, 0, 0), Plan(Pair, TRUE, 1, 2, "run", TRUE, 0, 1),
   Plan(Pair, FALSE, 2, 1, "run", TRUE, 0, 0), Plan(Pair, FALSE, 2, 1, "session", TRUE, 0, 1),
   Session, [Session EXCEPT !.named = TRUE],
   Plan(Message, FALSE, 1, 0, "run", FALSE, 1, 0), Plan(Tool, FALSE, 1, 0, "run", FALSE, 1, 1),
   Plan(Short, FALSE, 1, 0, "run", FALSE, 2, 0), Plan(Mixed, FALSE, 1, 0, "run", FALSE, 2, 0),
   Plan(Pair, TRUE, 1, 1, "run", FALSE, 1, 0)}
(* For DashFeedExceptions: a page on a session beside a rebuild.            *)
MCBeside == MCScenarios \cup {Plan(Pair, TRUE, 1, 1, "session", FALSE, 1, 0)}
=============================================================================
