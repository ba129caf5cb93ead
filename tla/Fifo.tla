-------------------------------- MODULE Fifo --------------------------------
(***************************************************************************)
(* What the batch queue promises to its one reader: a first-in first-out   *)
(* channel that neither loses, duplicates nor reorders an item.            *)
(***************************************************************************)
EXTENDS Sequences

CONSTANT Items

VARIABLES
  buffer,   \* items put and not yet taken, oldest first
  taken     \* items the reader has taken, oldest first

fifoVars == <<buffer, taken>>

Init == buffer = <<>> /\ taken = <<>>

Put(item) ==
  /\ buffer' = Append(buffer, item)
  /\ UNCHANGED taken

Take ==
  /\ buffer # <<>>
  /\ taken' = Append(taken, Head(buffer))
  /\ buffer' = Tail(buffer)

Next == (\E item \in Items : Put(item)) \/ Take

Spec == Init /\ [][Next]_fifoVars
=============================================================================
