-------------------------- MODULE MCHistoryUpload ---------------------------
(* Instances of HistoryUpload for TLC.                                     *)
EXTENDS HistoryUpload

CONSTANTS c1, c2, sync, post, cmd

MCKindOf == [u \in Uploads |-> CASE u \in {c1, c2} -> "connect"
                                 [] u = sync -> "sync"
                                 [] u = post -> "post"
                                 [] OTHER -> "command"]
MCThen == [u \in Uploads \cap {sync} |-> post]

(* A short file is one batch, a longer one is two.                         *)
MCGrowing == [v \in Versions |-> IF v = 1 THEN 1 ELSE 2]
MCTwo == [v \in Versions |-> 2]
MCOne == [v \in Versions |-> 1]

(* Two connections; a connection and the command; a connection and a run.  *)
MCScenarios == {{c1, c2}, {c1, cmd}, {c1, sync, post}}
=============================================================================
