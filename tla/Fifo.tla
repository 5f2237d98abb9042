-------------------------------- MODULE Fifo --------------------------------
(***************************************************************************)
(* What a reliable stream promises: "reliable streams provide both         *)
(* non-out-of-order delivery and guarantee for delivery" (stream_id.h:32). *)
(* What is written is a sequence of units, numbered from 1: the first n    *)
(* have been posted, and those in taken have been handed to the reader.    *)
(* The queues of module DspLink are used through these two operations.     *)
(***************************************************************************)
EXTENDS Naturals, Sequences

VARIABLES posted, taken

Init == posted = 0 /\ taken = <<>>

Post(n) ==
  /\ n > 0
  /\ posted' = posted + n
  /\ UNCHANGED taken

Consume(n) ==
  /\ n > 0 /\ Len(taken) + n <= posted
  /\ taken' = taken \o [i \in 1..n |-> Len(taken) + i]
  /\ UNCHANGED posted

Next ==
  \/ posted' > posted /\ Post(posted' - posted)
  \/ Len(taken') > Len(taken) /\ Consume(Len(taken') - Len(taken))

Spec == Init /\ [][Next]_<<posted, taken>>
=============================================================================
