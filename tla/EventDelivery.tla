---------------------------- MODULE EventDelivery ----------------------------
(* What the outbox promises: an event saved on the agent reaches the       *)
(* server's table once, and is acknowledged only after that.  Nothing is   *)
(* ever taken back, whatever crashes or connections are lost.              *)
EXTENDS Naturals, Sequences

CONSTANT Events

VARIABLES
  saved,   (* events in the agent's outbox                                 *)
  stored,  (* events in the server's table, in order of arrival            *)
  acked    (* events the agent will not send again                         *)

vars == <<saved, stored, acked>>

Arrived == {stored[i] : i \in 1 .. Len(stored)}

Init == saved = {} /\ stored = <<>> /\ acked = {}

Save(e)  == e \notin saved /\ saved' = saved \cup {e} /\ UNCHANGED <<stored, acked>>
Store(e) == e \in saved \ Arrived /\ stored' = Append(stored, e) /\ UNCHANGED <<saved, acked>>
Ack(e)   == e \in Arrived \ acked /\ acked' = acked \cup {e} /\ UNCHANGED <<saved, stored>>

Next == \E e \in Events : Save(e) \/ Store(e) \/ Ack(e)

Spec == Init /\ [][Next]_vars
=============================================================================
