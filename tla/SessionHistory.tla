--------------------------- MODULE SessionHistory ---------------------------
(***************************************************************************)
(* What the upload of a session's history promises.  The rollout file of   *)
(* the session grows; the server shows one version of it, whole, or none;  *)
(* the agent and the server remember a cursor only for a version that the  *)
(* server has shown, or for an older one.                                  *)
(***************************************************************************)
EXTENDS Naturals

VARIABLES
  file,      (* the version of the file                                    *)
  shown,     (* the version the server shows, 0: none                      *)
  newest,    (* the newest version it has ever shown                       *)
  synced,    (* the agent's cursor                                         *)
  confirmed  (* the server's cursor                                        *)

vars == <<file, shown, newest, synced, confirmed>>

Init == file = 1 /\ shown = 0 /\ newest = 0 /\ synced = 0 /\ confirmed = 0

Grow == file' = file + 1 /\ UNCHANGED <<shown, newest, synced, confirmed>>

Publish(v) ==
  /\ v \in 1 .. file
  /\ shown' = v
  /\ newest' = IF v > newest THEN v ELSE newest
  /\ UNCHANGED <<file, synced, confirmed>>

Sync(v) ==
  /\ v \in 1 .. newest
  /\ synced' = v
  /\ UNCHANGED <<file, shown, newest, confirmed>>

Confirm(v) ==
  /\ v \in 1 .. newest
  /\ confirmed' = v
  /\ UNCHANGED <<file, shown, newest, synced>>

Next == Grow \/ \E v \in 1 .. file : Publish(v) \/ Sync(v) \/ Confirm(v)

Spec == Init /\ [][Next]_vars
=============================================================================
