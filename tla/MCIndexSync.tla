---------------------------- MODULE MCIndexSync ----------------------------
(* Instances of IndexSync for TLC.                                         *)
EXTENDS IndexSync

CONSTANTS c1, c2, t1, r1, r2, home, archived, live, walk1, walk2

(* The thread of c1 has an id of its own, the one of c2 is its file's; a   *)
(* walk sees archived_sessions before sessions.                            *)
MCThread == [c \in Convs |-> IF c = c1 THEN t1 ELSE c]
MCPlaces == <<archived, live>>
MCRootOf == [p \in {archived, live} |-> home]

Bounds(cs, rs, scans, edits, losses) ==
  [convs |-> cs, runs |-> rs, tasks |-> scans, changes |-> edits, drops |-> losses]
MCScenarios ==
  {Bounds({c1}, {r1}, 2, 2, 0), Bounds({c1}, {r1, r2}, 2, 1, 1), Bounds({c1, c2}, {r1, r2}, 1, 2, 0)}

(* Three scans of one conversation and two runs, with the steps that lose  *)
(* the run of a conversation.                                              *)
MCThreeScans == {Bounds({c1}, {r1, r2}, 3, 2, 0)}
LosingNext ==
  \/ \E c \in Convs : Configure(c)
  \/ \E k \in Tasks : StartRefresh(k) \/ Walk(k) \/ SaveRefresh(k)
  \/ \E r \in Runs : StartNew(r) \/ Resume(r) \/ Resolved(r) \/ Select(r) \/ Delete(r) \/ Insert(r) \/ EndRun(r)
  \/ ReceiveEvent
=============================================================================
