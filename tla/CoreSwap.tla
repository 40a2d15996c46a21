------------------------------ MODULE CoreSwap ------------------------------
(***************************************************************************)
(* What the service promises about the core executable: there is one       *)
(* installed build at any time, and it only ever changes, in one step, to  *)
(* a build that has run and passed the health check.                       *)
(***************************************************************************)
EXTENDS Naturals

CONSTANTS Builds, First

VARIABLES installed, proven

Init == installed = First /\ proven = {First}

Prove(b)  == proven' = proven \cup {b} /\ UNCHANGED installed
Commit(b) == b \in proven /\ installed' = b /\ UNCHANGED proven

Next == \E b \in Builds : Prove(b) \/ Commit(b)

Spec == Init /\ [][Next]_<<installed, proven>>
=============================================================================
