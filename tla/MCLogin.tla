------------------------------- MODULE MCLogin ------------------------------
(***************************************************************************)
(* Instances of Login for TLC.  A unit of time is 10 seconds: Period and   *)
(* Ahead are the code's; Lag is 2 seconds there, and a unit here.          *)
(***************************************************************************)
EXTENDS Login, TLC

CONSTANTS l1, l2
TwoLogins == {l1, l2}
LoginSymmetry == Permutations(TwoLogins)
=============================================================================
