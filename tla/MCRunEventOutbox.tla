-------------------------- MODULE MCRunEventOutbox --------------------------
(* Instances of RunEventOutbox for TLC.                                    *)
EXTENDS RunEventOutbox

CONSTANTS start, out, err, stop, cut, r1, r2, other

(* One run: started, one line of stdout and one of stderr read by two      *)
(* goroutines, the final event; or an interrupted event after a crash.     *)
(* other is the run.started of a second run, begun when the first one's is *)
(* out.                                                                    *)
MCRunOf  == [e \in Events |-> IF e = other THEN r2 ELSE r1]
MCKindOf == [e \in Events |-> CASE e = start \/ e = other -> "started"
                                [] e = stop -> "final"
                                [] e = cut  -> "interrupted"
                                [] OTHER    -> "note"]
MCWaits  == [e \in Events |-> CASE e = start \/ e = cut -> {}
                                [] e = stop -> Events \ {stop, cut, other}
                                [] OTHER    -> {start}]
=============================================================================
