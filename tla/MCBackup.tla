------------------------------ MODULE MCBackup ------------------------------
(***************************************************************************)
(* Instances of Backup: a waiter of each of the two APIs, and two calls of *)
(* cancel, so that one may find what the other left.                       *)
(***************************************************************************)
EXTENDS Backup, TLC

CONSTANTS w1, w2, c1, c2

BothApis == w1 :> "client" @@ w2 :> "builder"
=============================================================================
