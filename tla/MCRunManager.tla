---------------------------- MODULE MCRunManager ----------------------------
(* Instances of RunManager for TLC.                                        *)
EXTENDS RunManager, TLC

CONSTANTS new1, send2, halt, odd, r1, r2, s1, t1, h1, h2

(* new1 opens run r1 and send2 run r2, both for session s1 and the native  *)
(* thread t1; halt stops whatever runs for s1; odd has an unknown kind.    *)
MCRunOf     == [c \in Commands |-> IF c = send2 THEN r2 ELSE r1]
MCSessionOf == [c \in Commands |-> IF c = odd THEN NoSession ELSE s1]
MCNativeOf  == [c \in StartCmds |-> t1]

(* The native thread is the session the commands name.                     *)
MCNativeSame == [c \in StartCmds |-> s1]

(* new1 continues the history session t1 under its displayed id s1; send2  *)
(* names it t1.                                                            *)
MCSessionByThread == [c \in Commands |-> IF c = new1 THEN s1 ELSE t1]

(* The commands name runs only.                                            *)
MCNoSession == [c \in Commands |-> NoSession]

Symmetry == Permutations({h1, h2})

(* Two starts of one session may change places, each with its run.         *)
StartSymmetry ==
  Symmetry \cup {(new1 :> send2) @@ (send2 :> new1) @@ (r1 :> r2) @@ (r2 :> r1)}
=============================================================================
