------------------------- MODULE MCCommandLifecycle -------------------------
(* Instances of CommandLifecycle for TLC: starts a and b of one session,   *)
(* stop s, which names the run of a, and stop u, which names the session.  *)
EXTENDS CommandLifecycle

CONSTANTS a, b, s, u, one

MCStopRun   == [c \in Stops |-> IF c = s THEN a ELSE NoRun]
MCSessionOf == [c \in Commands |-> one]

Plan(commands, lost, died, room) == [commands |-> commands, drops |-> lost, crashes |-> died, window |-> room]
One       == {Plan(Commands, 0, 0, 1)}
Two       == {Plan(Commands, 0, 0, 2)}
Faulty    == {Plan(Commands, 1, 1, 2)}
StopPlans == {Plan({a, b, s}, 0, 0, 1), Plan({a, u}, 1, 1, 1)}
TwiceStopped == {Plan({a, s, u}, 0, 0, 2)}
=============================================================================
